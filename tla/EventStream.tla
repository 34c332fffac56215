---------------------------- MODULE EventStream ----------------------------
(***************************************************************************)
(* The event stream of one turn (opencode/events.rs, Subscription; the     *)
(* select loop of run_streaming_turn in telegram/stream.rs).  A turn makes *)
(* a subscription and a prompt; the first poll of its select sends both    *)
(* requests.  opencode writes what happens to whoever is connected, once:  *)
(* nothing is kept for a stream that is not open yet, or not any more.     *)
(* When a stream is opened again, the parts of the message in flight may   *)
(* be sent again.  The stream reconnects by itself, unless it is answered  *)
(* with something that is no event stream: then it has ended for good.     *)
(***************************************************************************)
EXTENDS Naturals, Sequences, SequencesExt

CONSTANTS MaxEvents,    \* bound: deltas and gates of the turn
          MaxDrops,     \* bound: connections that fail
          MaxNoise      \* bound: frames that are dropped, or not understood

BoundsAssumption == {MaxEvents, MaxDrops, MaxNoise} \subseteq Nat

VARIABLES
    turn,       \* "starting", "selecting", "done", "failed"
    prompt,     \* "unsent", "sent", "answered"
    opencode,   \* the turn there: "idle", "running", "blocked", "done"
    emitted,    \* what opencode has emitted: gates, and the frames of the
                \* answer ("delta": a delta, or the update of a part)
    stream,     \* "unpolled", "connecting", "open", "ended", "delayed", "closed"
    wire,       \* frames not yet received: an event's number, or 0 for noise
    applied,    \* history: the events the turn has dealt with
    since,      \* history: the events emitted before the stream was last opened
    drops, noise

clientVars == <<turn, prompt>>
serverVars == <<opencode, emitted>>
streamVars == <<stream, wire>>
historyVars == <<applied, since>>
vars == <<clientVars, serverVars, streamVars, historyVars, drops, noise>>

Kinds == {"delta", "gate"}

Init ==
    /\ turn = "starting" /\ prompt = "unsent"
    /\ opencode = "idle" /\ emitted = <<>>
    /\ stream = "unpolled" /\ wire = <<>> /\ applied = <<>> /\ since = 0
    /\ drops = 0 /\ noise = 0

-----------------------------------------------------------------------------
(* opencode.                                                               *)

Begin ==
    /\ prompt = "sent" /\ opencode = "idle"
    /\ opencode' = "running"
    /\ UNCHANGED <<clientVars, emitted, streamVars, historyVars, drops, noise>>

\* A gate blocks the turn until it is replied to.
Emit(kind) ==
    /\ opencode = "running" /\ Len(emitted) < MaxEvents
    /\ emitted' = Append(emitted, kind)
    /\ wire' = IF stream = "open" THEN Append(wire, Len(emitted) + 1) ELSE wire
    /\ opencode' = IF kind = "gate" THEN "blocked" ELSE "running"
    /\ UNCHANGED <<clientVars, stream, historyVars, drops, noise>>

\* The user taps a button of a gate that was posted.
Tap ==
    /\ opencode = "blocked" /\ Len(emitted) \in ToSet(applied)
    /\ opencode' = "running"
    /\ UNCHANGED <<clientVars, emitted, streamVars, historyVars, drops, noise>>

\* The turn is at its end, or the user has sent /stop.
Finish ==
    /\ opencode = "running"
    /\ opencode' = "done"
    /\ UNCHANGED <<clientVars, emitted, streamVars, historyVars, drops, noise>>

Stop ==
    /\ opencode = "blocked"
    /\ opencode' = "done"
    /\ UNCHANGED <<clientVars, emitted, streamVars, historyVars, drops, noise>>

Answer ==
    /\ opencode = "done" /\ prompt = "sent"
    /\ prompt' = "answered"
    /\ UNCHANGED <<turn, serverVars, streamVars, historyVars, drops, noise>>

-----------------------------------------------------------------------------
(* The stream.                                                             *)

Deltas == SelectSeq([i \in DOMAIN emitted |-> i], LAMBDA i : emitted[i] = "delta")

\* server.connected comes first; after a drop perhaps the parts in flight.
Open ==
    /\ stream = "connecting"
    /\ stream' = "open"
    /\ \E resent \in IF drops > 0 /\ opencode \in {"running", "blocked"}
                     THEN {<<>>, Deltas} ELSE {<<>>} :
          wire' = <<0>> \o resent
    /\ since' = Len(emitted)
    /\ UNCHANGED <<clientVars, serverVars, applied, drops, noise>>

\* The stream ends; of what was under way a part arrives.
Drop ==
    /\ stream = "open" /\ drops < MaxDrops
    /\ stream' = "ended"
    /\ \E n \in 0..Len(wire) : wire' = SubSeq(wire, 1, n)
    /\ drops' = drops + 1
    /\ UNCHANGED <<clientVars, serverVars, historyVars, noise>>

\* No connection: tried again after the delay.  A status or a content type
\* that is not an event stream's: closed.
ConnectFails ==
    /\ stream = "connecting" /\ drops < MaxDrops
    /\ stream' \in {"delayed", "closed"}
    /\ drops' = drops + 1
    /\ UNCHANGED <<clientVars, serverVars, wire, historyVars, noise>>

\* A heartbeat, a mirrored event, a frame that is no JSON.
Noise ==
    /\ stream = "open" /\ noise < MaxNoise
    /\ wire' = Append(wire, 0)
    /\ noise' = noise + 1
    /\ UNCHANGED <<clientVars, serverVars, stream, historyVars, drops>>

-----------------------------------------------------------------------------
(* The turn.                                                               *)

\* The first poll of the select: the prompt's request, then the stream's.
FirstPoll ==
    /\ turn = "starting"
    /\ turn' = "selecting" /\ prompt' = "sent" /\ stream' = "connecting"
    /\ UNCHANGED <<serverVars, wire, historyVars, drops, noise>>

\* The arms are biased: while the prompt is answered nothing else is polled.
Selects == turn = "selecting" /\ prompt = "sent"

\* Mutant: a frame that is not understood takes the next one with it.
Unread_WithoutNext(frames) ==
    IF Head(frames) = 0 /\ Len(frames) > 1 THEN Tail(Tail(frames)) ELSE Tail(frames)

\* One frame at a time.
Unread(frames) == Tail(frames)

\* Mutant: recv ends with a frame that it does not pass on.
AfterNoise_None == "closed"

\* recv goes on after it.
AfterNoise == stream

Receive ==
    /\ Selects /\ wire # <<>> /\ stream # "closed"
    /\ wire' = Unread(wire)
    /\ IF Head(wire) = 0
       THEN stream' = AfterNoise /\ UNCHANGED applied
       ELSE applied' = Append(applied, Head(wire)) /\ UNCHANGED stream
    /\ UNCHANGED <<clientVars, serverVars, since, drops, noise>>

\* StreamEnded: the retry policy waits and connects again.
Reconnect ==
    /\ Selects
    /\ \/ stream = "ended" /\ wire = <<>> /\ stream' = "delayed"
       \/ stream = "delayed" /\ stream' = "connecting"
    /\ UNCHANGED <<clientVars, serverVars, wire, historyVars, drops, noise>>

\* The loop is left, whatever is still unread: finalize shows the authoritative
\* reply, and the subscription is dropped.
EndTurn ==
    /\ turn = "selecting" /\ prompt = "answered"
    /\ turn' = "done" /\ stream' = "closed" /\ wire' = <<>>
    /\ UNCHANGED <<prompt, serverVars, historyVars, drops, noise>>

\* The request of the prompt fails: so does the turn.
PromptFails ==
    /\ Selects
    /\ turn' = "failed" /\ stream' = "closed" /\ wire' = <<>>
    /\ UNCHANGED <<prompt, serverVars, historyVars, drops, noise>>

Next ==
    \/ Begin \/ Tap \/ Finish \/ Stop \/ Answer \/ \E kind \in Kinds : Emit(kind)
    \/ Open \/ Drop \/ ConnectFails \/ Noise
    \/ FirstPoll \/ Receive \/ Reconnect \/ EndTurn \/ PromptFails

Spec == Init /\ [][Next]_vars

\* The runtime runs the turn, opencode answers what is asked of it and the
\* user taps; nobody has to send /stop.
Fairness ==
    /\ WF_vars(FirstPoll) /\ WF_vars(Receive) /\ WF_vars(Reconnect) /\ WF_vars(EndTurn)
    /\ WF_vars(Begin) /\ WF_vars(Tap) /\ WF_vars(Finish) /\ WF_vars(Answer) /\ WF_vars(Open)

FairSpec == Spec /\ Fairness

-----------------------------------------------------------------------------
TypeOK ==
    /\ turn \in {"starting", "selecting", "done", "failed"}
    /\ prompt \in {"unsent", "sent", "answered"}
    /\ opencode \in {"idle", "running", "blocked", "done"}
    /\ emitted \in Seq(Kinds) /\ Len(emitted) <= MaxEvents
    /\ stream \in {"unpolled", "connecting", "open", "ended", "delayed", "closed"}
    /\ wire \in Seq(0..Len(emitted)) /\ applied \in Seq(1..Len(emitted))
    /\ since \in 0..Len(emitted)
    /\ drops \in 0..MaxDrops /\ noise \in 0..MaxNoise

\* What has reached the turn's end of the stream is taken from it: no frame
\* between stops the reading, nor does the end of the stream or its return.
WireIsRead ==
    \A i \in 1..MaxEvents : i \in ToSet(wire) ~> i \notin ToSet(wire)

\* While no connection fails, the turn deals with every event from the first one
\* after the opening on, in order and once, and those it has not come to are on an
\* open stream, in order.  So what a turn misses of its answer is at its two ends:
\* what was emitted before the stream was open, and what was unread when the prompt
\* was answered.
NoneIsSkipped ==
    drops = 0 =>
        /\ \A k \in DOMAIN applied : applied[k] = since + k
        /\ stream = "open" =>
              /\ \A e \in (since + Len(applied) + 1)..Len(emitted) :
                    \E i \in DOMAIN wire : wire[i] = e
              /\ \A i, j \in DOMAIN wire :
                    i < j /\ wire[i] # 0 /\ wire[j] # 0 => wire[i] < wire[j]

=============================================================================
