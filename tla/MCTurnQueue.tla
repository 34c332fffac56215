---------------------------- MODULE MCTurnQueue ----------------------------
(* TurnQueue and its refinement on small instances; chats and workers are  *)
(* model values of the configuration.                                      *)
EXTENDS TurnQueueRefinement

=============================================================================
