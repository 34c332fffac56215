-------------------------- MODULE RoutingAndMedia --------------------------
(* SessionRouting and InboundMedia: what becomes of a message until it is    *)
(* queued, and of its turn until it is prompted.  They meet in the queue,    *)
(* which each has its own view of, and share no other state: a behaviour is  *)
(* of one of them, and the other rests.                                      *)
EXTENDS SessionRouting

CONSTANTS Texts, Media, USER_QUEUE_DEPTH, ttl, MaxTime

VARIABLES
    subject,    \* the module the behaviour is of
    clock, announce, listening, inbox, step, queue, turns, stored, put_at, handedOut, refused

mediaVars ==
    <<clock, announce, listening, inbox, step, queue, turns, stored, put_at, handedOut, refused>>

I == INSTANCE InboundMedia

ASSUME MediaAssumption == I!InboundMediaAssumption

BothInit ==
    /\ Init /\ I!Init
    /\ \/ subject = "routing" /\ announce /\ listening
       \/ subject = "media" /\ \A c, d \in Chats : binding[c] = binding[d]

BothNext ==
    /\ UNCHANGED subject
    /\ \/ subject = "routing" /\ Next /\ UNCHANGED mediaVars
       \/ subject = "media" /\ I!Next /\ UNCHANGED vars

BothSpec == BothInit /\ [][BothNext]_<<subject, vars, mediaVars>>

\* The properties of InboundMedia.  The turns of a chat run in the order of its
\* messages, whatever downloads are awaited in between (bot.rs, handle_media).
TurnsInSendingOrder == I!TurnsInSendingOrder

\* A GET is refused its file only if it was fetched before or is out of time
\* (mcp/mod.rs, download_file).
RefusedForCause == I!RefusedForCause
=============================================================================
