---------------------------- MODULE MCProposedPlans -----------------------------
(***************************************************************************)
(* ProposedPlans for TLC: two zones; p1 and p2 start in the same week in   *)
(* both, p3 starts late on a Sunday and falls in the next week of zb.      *)
(***************************************************************************)
EXTENDS ProposedPlans, TLC
CONSTANTS p1, p2, p3, w1, w2, za, zb

MCWeekOf == [p \in Plan |-> [z \in Zone |-> IF p = p3 /\ z = zb THEN w2 ELSE w1]]

\* Requests of one kind are interchangeable.
MCSymmetry == Permutations(Resolve) \cup Permutations(Commit)
=================================================================================
