-------------------------- MODULE MCPermissionGate --------------------------
(* PermissionGate on small instances: one or two chats, each with one gate, *)
(* and the decisions "once" and "reject" ("always" is forwarded likewise).  *)
EXTENDS PermissionGate, TLC

CONSTANTS c1, c2, g1, g2

\* Each chat's turn raises one gate; or both gates are the first chat's.
OwnGates  == g1 :> c1 @@ g2 :> c2
BothFirst == g1 :> c1 @@ g2 :> c1

=============================================================================
