-------------------------- MODULE MCConfirmActions --------------------------
(* ConfirmActions on a small instance. *)
EXTENDS ConfirmActions, TLC

Symmetry == Permutations(Ids) \cup Permutations(Ops) \cup Permutations(Visits)
=============================================================================
