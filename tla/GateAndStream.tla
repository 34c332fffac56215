--------------------------- MODULE GateAndStream ---------------------------
(* PermissionGate and EventStream: what the stream is made of, and what one  *)
(* of its events, a gate, leads to.  They are two views of one stream and    *)
(* share no state: a behaviour is of one of them, and the other rests.       *)
EXTENDS PermissionGate

CONSTANTS MaxEvents, MaxDrops, MaxNoise

VARIABLES
    subject,    \* the module the behaviour is of
    turn, request, opencode, emitted, subscription, wire, applied, since, broken, noise

eventVars == <<turn, request, opencode, emitted, subscription, wire, applied, since, broken, noise>>

E == INSTANCE EventStream WITH
        prompt <- request, stream <- subscription, drops <- broken

ASSUME StreamAssumption == E!BoundsAssumption

\* At rest no action that fairness is about can be taken.
StreamRests ==
    /\ turn = "done" /\ request = "answered" /\ opencode = "done" /\ emitted = <<>>
    /\ subscription = "closed" /\ wire = <<>> /\ applied = <<>> /\ since = 0
    /\ broken = 0 /\ noise = 0

BothInit ==
    /\ Init
    /\ \/ subject = "gate" /\ StreamRests
       \/ subject = "stream" /\ E!Init

BothNext ==
    /\ UNCHANGED subject
    /\ \/ subject = "gate" /\ Next /\ UNCHANGED eventVars
       \/ subject = "stream" /\ E!Next /\ UNCHANGED vars

BothSpec == BothInit /\ [][BothNext]_<<subject, vars, eventVars>> /\ Fairness /\ E!Fairness

\* The properties of EventStream.  Between the opening of the stream and the answer
\* to the prompt the turn skips no frame of a stream that does not fail (stream.rs,
\* the select of run_streaming_turn; events.rs, recv).
NoneIsSkipped == E!NoneIsSkipped

\* A frame that has arrived is read or the turn ends (events.rs, recv).
WireIsRead == E!WireIsRead
=============================================================================
