------------------------- MODULE MCRoutingAndMedia -------------------------
(* RoutingAndMedia with the model values of the .cfg: small enough for TLC   *)
(* without symmetry.                                                         *)
EXTENDS RoutingAndMedia
=============================================================================
