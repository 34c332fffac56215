-------------------------- MODULE MCGateAndStream --------------------------
(* GateAndStream with the chats and gates of MCPermissionGate.               *)
EXTENDS GateAndStream, MCPermissionGate
=============================================================================
