--------------------------- MODULE MCPushChannels ---------------------------
(* PushChannels on a small instance. *)
EXTENDS PushChannels, TLC

CONSTANTS c1, c2, c3, c4
=============================================================================
