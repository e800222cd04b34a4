----------------------- MODULE MCAutomationEnrollment -----------------------
(* Small instances of AutomationEnrollment for TLC. *)
EXTENDS AutomationEnrollment, TLC

\* trigger and two delays
Waiting == ("t" :> {"d1"}) @@ ("d1" :> {"d2"}) @@ ("d2" :> {End})

\* trigger and two emails, without a wait between them
Straight == ("t" :> {"e1"}) @@ ("e1" :> {"e2"}) @@ ("e2" :> {End})

\* Workers differ in nothing but their names.
WorkerSymmetry == Permutations(Workers)
=============================================================================
