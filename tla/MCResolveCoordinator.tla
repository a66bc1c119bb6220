------------------------ MODULE MCResolveCoordinator ------------------------
(* ResolveCoordinator on a small instance. *)
EXTENDS ResolveCoordinator, TLC

CONSTANTS w1, w2, w3

\* w1 is the current week, w2 a later one beyond the full fetch, w3 elapsed.
MCNear == {w1}
MCPast == {w3}
=============================================================================
