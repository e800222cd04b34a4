---------------------------- MODULE DeductionOnce ----------------------------
(***************************************************************************)
(* What the consumption of paid orders promises when nothing is cancelled: *)
(* an order is applied to the component stock once and as a whole, and a   *)
(* deduction is completed only after the shop was told of it.              *)
(***************************************************************************)
EXTENDS Integers

CONSTANTS Orders, Comps, InternalComps, Qty

VARIABLES applied,  \* orders whose components were taken
          stock,    \* stock[c][o]: quantity of c taken by o
          told,     \* deductions the shop was told of
          done      \* deductions that need no further work

Init ==
    /\ applied = {}
    /\ stock = [c \in Comps |-> [o \in Orders |-> 0]]
    /\ told = {}
    /\ done = {}

\* Take the components of order o, all of them at once.
Apply(o) ==
    /\ o \notin applied
    /\ applied' = applied \cup {o}
    /\ stock' = [c \in Comps |-> [stock[c] EXCEPT ![o] = Qty[o][c]]]
    /\ UNCHANGED <<told, done>>

Tell(o, c) ==
    /\ o \in applied
    /\ told' = told \cup {<<o, c>>}
    /\ UNCHANGED <<applied, stock, done>>

\* An internal component is not sold: nobody has to be told.
Complete(o, c) ==
    /\ o \in applied
    /\ c \in InternalComps \/ <<o, c>> \in told
    /\ done' = done \cup {<<o, c>>}
    /\ UNCHANGED <<applied, stock, told>>

Next ==
    \E o \in Orders :
        \/ Apply(o)
        \/ \E c \in Comps : Tell(o, c) \/ Complete(o, c)

Spec == Init /\ [][Next]_<<applied, stock, told, done>>
=============================================================================
