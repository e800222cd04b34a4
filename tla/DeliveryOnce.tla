----------------------------- MODULE DeliveryOnce -----------------------------
(***************************************************************************)
(* What the inbox promises about one message to a customer: it is tried    *)
(* again only while nobody knows of a delivery and every delivery made so  *)
(* far is one whose outcome was lost, and what is known to be delivered    *)
(* stays so until the message is withdrawn.                                *)
(***************************************************************************)
EXTENDS Integers

VARIABLES attempts,   \* attempts made so far, numbered from 1
          delivered,  \* attempts that reached the customer
          lost,       \* attempts whose outcome nobody will learn in time
          known,      \* the attempt known to have been delivered, or 0
          withdrawn   \* the message was deleted

Init ==
    /\ attempts = 0
    /\ delivered = {} /\ lost = {}
    /\ known = 0
    /\ withdrawn = FALSE

Try ==
    /\ ~withdrawn /\ known = 0
    /\ delivered \subseteq lost
    /\ attempts' = attempts + 1
    /\ UNCHANGED <<delivered, lost, known, withdrawn>>

\* Only the latest attempt is delivered, or one that was given up; its answer may
\* be lost.
Deliver(a) ==
    /\ a \in 1..attempts /\ a \notin delivered
    /\ a = attempts \/ a \in lost
    /\ delivered' = delivered \cup {a}
    /\ lost' \in {lost, lost \cup {a}}
    /\ UNCHANGED <<attempts, known, withdrawn>>

\* Processes die, leases end, writes fail: for some attempts at once.
Lose(A) ==
    /\ A \subseteq 1..attempts
    /\ lost' = lost \cup A
    /\ UNCHANGED <<attempts, delivered, known, withdrawn>>

Learn(a) ==
    /\ ~withdrawn /\ a \in delivered
    /\ known' = a
    /\ UNCHANGED <<attempts, delivered, lost, withdrawn>>

Withdraw ==
    /\ ~withdrawn
    /\ withdrawn' = TRUE /\ known' = 0
    /\ UNCHANGED <<attempts, delivered, lost>>

Next ==
    \/ Try \/ Withdraw
    \/ \E a \in 1..attempts : Deliver(a) \/ Learn(a)
    \/ \E A \in SUBSET (1..attempts) : Lose(A)

Spec == Init /\ [][Next]_<<attempts, delivered, lost, known, withdrawn>>
=============================================================================
