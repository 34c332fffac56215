------------------------ MODULE TurnQueueRefinement ------------------------
(***************************************************************************)
(* The worker tasks, channels and map of TurnQueue implement one serial    *)
(* server per chat.  The live worker of a chat, whether or not the map     *)
(* still holds its sender, is the chat's server.                           *)
(***************************************************************************)
EXTENDS TurnQueue

ServerTurn(c) ==
    IF LiveOf(c) = {} THEN 0 ELSE turn[CHOOSE w \in LiveOf(c) : TRUE]

ServerQueue(c) ==
    IF LiveOf(c) = {} THEN << >> ELSE chan[CHOOSE w \in LiveOf(c) : TRUE]

Service == INSTANCE SerialService WITH
    Depth   <- USER_QUEUE_DEPTH,
    current <- [c \in Chats |-> ServerTurn(c)],
    waiting <- [c \in Chats |-> ServerQueue(c)],
    served  <- completed,
    dropped <- lost,
    crashes <- panics,
    state   <- phase

\* enqueue_turn, user_worker and shutdown (bot.rs:176-238, 1120-1151) implement
\* a serial, first-come first-served, bounded server per chat: a job that was
\* queued is in its chat's server until it is served, or until its turn or one it
\* waits behind panics, or until the grace of the shutdown cuts the drain off; a
\* drain that ends leaves nothing unserved.
ImplementsSerialService == Service!Spec

=============================================================================
