-------------------------- MODULE MCBOMConsumption --------------------------
(* Small instances of BOMConsumption for TLC. *)
EXTENDS BOMConsumption, TLC

CONSTANTS o1, o2, c1, i1

\* One order taking an internal component and a sold one.
QtyPair == (o1 :> (c1 :> 1 @@ i1 :> 2))
\* Two orders, the second without BOM components.
QtyPlain == (o1 :> (c1 :> 1 @@ i1 :> 2)) @@ (o2 :> (c1 :> 0 @@ i1 :> 0))
\* One order, one sold component.
QtySingle == (o1 :> (c1 :> 1))

\* Consumers and connections are interchangeable (used with invariants only).
Symmetric == Permutations(Consumers) \cup Permutations(Conns)
=============================================================================
