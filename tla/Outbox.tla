------------------------------- MODULE Outbox -------------------------------
(***************************************************************************)
(* The watcher of one slot's ./outbox (outbox.rs): the agent writes files, *)
(* notify reports the writes, and the relay task sends every path on which *)
(* nothing has happened for the quiet period to the slot's owner.  There   *)
(* is one quiet timer for all pending paths, and a flush uploads the paths *)
(* it drained one after the other while new events wait in the channel.    *)
(*                                                                         *)
(* Time passes in ticks of a fraction of the quiet period.  The relay is   *)
(* quick against a tick unless it is uploading; a writer pauses for at     *)
(* most MaxPause ticks between two writes.                                 *)
(***************************************************************************)
EXTENDS Naturals, Sequences, FiniteSets

CONSTANTS Files,        \* the names a file in ./outbox may have
          Hidden,       \* those that start with a dot
          Debounce,     \* the quiet period, in ticks
          MaxPause,     \* the longest pause of a writer, in ticks
          MaxChunks,    \* bound: writes between opening and closing ...
          Endless,      \* ... unless a writer may go on for ever
          MaxVersions,  \* bound: how often each name is written anew
          MaxStarts,    \* bound: starts of the daemon
          MaxFails,     \* bound: uploads that fail
          NoFile

OutboxAssumption ==
    /\ Hidden \subseteq Files
    /\ Debounce \in Nat \ {0} /\ MaxPause \in Nat /\ MaxChunks \in [Files -> Nat]
    /\ Endless \in BOOLEAN /\ MaxVersions \in [Files -> Nat]
    /\ MaxStarts \in Nat /\ MaxFails \in Nat
    /\ NoFile \notin Files

VARIABLES
    owned,      \* the slot has a telegram_id in the configuration file
    up,         \* the daemon runs
    watching,   \* the slot's watcher is alive
    starts,     \* how often the daemon was started
    body,       \* what a name holds: absent, partial (being written), whole
    version,    \* how often a name was written
    pause,      \* ticks since the writer's last write
    chunks,     \* writes of the current version
    rx,         \* paths with an event the relay has not received
    pending,    \* paths waiting for the quiet period to pass
    quiet,      \* ticks the relay has waited for an event
    flushing,   \* paths the relay has drained and not yet delivered
    uploading,  \* the path whose upload is under way, or NoFile
    tries,      \* history: the uploads of a name
    landed      \* history: the version its writer completed under the watch, or 0

agentVars   == <<body, version, pause, chunks>>
relayVars   == <<rx, pending, quiet, flushing, uploading>>
daemonVars  == <<owned, up, watching, starts>>
historyVars == <<tries, landed>>
vars == <<agentVars, relayVars, daemonVars, historyVars>>

\* What is remembered of an upload: what the file held, and how it ended.
Try == [version: Nat, body: {"partial", "whole"}, watched: BOOLEAN, sent: BOOLEAN]

Init ==
    /\ owned \in BOOLEAN /\ up = FALSE /\ watching = FALSE /\ starts = 0
    /\ body = [f \in Files |-> "absent"]
    /\ version = [f \in Files |-> 0]
    /\ pause = [f \in Files |-> 0]
    /\ chunks = [f \in Files |-> 0]
    /\ rx = {} /\ pending = {} /\ quiet = 0 /\ flushing = {} /\ uploading = NoFile
    /\ tries = [f \in Files |-> <<>>]
    /\ landed = [f \in Files |-> 0]

-----------------------------------------------------------------------------
(* The daemon.                                                             *)

\* An owner that is bound while the daemon runs is in the file, not in its cfg.
Bind ==
    /\ up /\ ~owned
    /\ owned' = TRUE
    /\ UNCHANGED <<up, watching, starts, agentVars, relayVars, historyVars>>

\* spawn_watchers: no owner, no watcher; and creating the directory or the
\* watcher may fail, which is only logged.
Watchable == IF owned THEN BOOLEAN ELSE {FALSE}

Start ==
    /\ ~up /\ starts < MaxStarts
    /\ up' = TRUE /\ starts' = starts + 1
    /\ watching' \in Watchable
    /\ UNCHANGED <<owned, agentVars, relayVars, historyVars>>

\* serve returns: dropping the watcher closes the channel of the relay.
DropWatcher ==
    /\ watching
    /\ watching' = FALSE
    /\ landed' = [f \in Files |-> 0]
    /\ UNCHANGED <<owned, up, starts, agentVars, relayVars, tries>>

\* The process ends, with whatever the relay was doing.
Exit ==
    /\ up
    /\ up' = FALSE /\ watching' = FALSE
    /\ rx' = {} /\ pending' = {} /\ quiet' = 0
    /\ flushing' = {} /\ uploading' = NoFile
    /\ landed' = [f \in Files |-> 0]
    /\ UNCHANGED <<owned, starts, agentVars, tries>>

-----------------------------------------------------------------------------
(* The agent, and what notify reports of it.                               *)

IsWrite(kind) == kind \in {"create", "data", "close_write"}

\* A set is enough for the channel: the relay receives all that waits in it
\* without time passing, into a HashSet.
Reported(f, kind) == IF watching /\ IsWrite(kind) THEN rx \cup {f} ELSE rx

Open(f) ==
    /\ body[f] # "partial" /\ version[f] < MaxVersions[f]
    /\ body' = [body EXCEPT ![f] = "partial"]
    /\ version' = [version EXCEPT ![f] = @ + 1]
    /\ pause' = [pause EXCEPT ![f] = 0]
    /\ chunks' = [chunks EXCEPT ![f] = 0]
    /\ rx' = Reported(f, IF body[f] = "absent" THEN "create" ELSE "data")
    /\ landed' = [landed EXCEPT ![f] = 0]
    /\ UNCHANGED <<daemonVars, pending, quiet, flushing, uploading, tries>>

Write(f) ==
    /\ body[f] = "partial" /\ pause[f] > 0
    /\ Endless \/ chunks[f] < MaxChunks[f]
    /\ pause' = [pause EXCEPT ![f] = 0]
    /\ chunks' = [chunks EXCEPT ![f] = IF @ < MaxChunks[f] THEN @ + 1 ELSE @]
    /\ rx' = Reported(f, "data")
    /\ UNCHANGED <<body, version, daemonVars, pending, quiet, flushing, uploading, historyVars>>

Close(f) ==
    /\ body[f] = "partial"
    /\ body' = [body EXCEPT ![f] = "whole"]
    /\ pause' = [pause EXCEPT ![f] = 0]
    /\ rx' = Reported(f, "close_write")
    /\ landed' = [landed EXCEPT ![f] = IF watching THEN version[f] ELSE 0]
    /\ chunks' = [chunks EXCEPT ![f] = 0]
    /\ UNCHANGED <<version, daemonVars, pending, quiet, flushing, uploading, tries>>

\* A file written under a hidden name and renamed: no event that counts.
Rename(g, f) ==
    /\ g \in Hidden /\ f \notin Hidden
    /\ body[g] = "whole" /\ body[f] # "partial" /\ version[f] < MaxVersions[f]
    /\ body' = [body EXCEPT ![g] = "absent", ![f] = "whole"]
    /\ version' = [version EXCEPT ![f] = @ + 1]
    /\ rx' = Reported(f, "name")
    /\ landed' = [landed EXCEPT ![g] = 0, ![f] = 0]
    /\ UNCHANGED <<pause, chunks, daemonVars, pending, quiet, flushing, uploading, tries>>

Remove(f) ==
    /\ body[f] = "whole"
    /\ body' = [body EXCEPT ![f] = "absent"]
    /\ rx' = Reported(f, "remove")
    /\ landed' = [landed EXCEPT ![f] = 0]
    /\ UNCHANGED <<version, pause, chunks, daemonVars, pending, quiet, flushing, uploading, tries>>

-----------------------------------------------------------------------------
(* The relay.                                                              *)

Waits == up /\ flushing = {} /\ uploading = NoFile

\* Mutant: the timer goes on through events.
QuietAfterEvent_GoesOn == quiet

\* Every turn of the loop waits for the whole quiet period again.
QuietAfterEvent == 0

Receive(f) ==
    /\ Waits /\ f \in rx
    /\ rx' = rx \ {f}
    /\ pending' = pending \cup {f}
    /\ quiet' = QuietAfterEvent
    /\ UNCHANGED <<flushing, uploading, agentVars, daemonVars, historyVars>>

\* The timeout elapses, or the channel is closed and empty.
Settled == (quiet = Debounce) \/ ~watching

Flush ==
    /\ Waits /\ rx = {} /\ pending # {}
    /\ Settled
    /\ flushing' = pending /\ pending' = {} /\ quiet' = 0
    /\ UNCHANGED <<rx, uploading, agentVars, daemonVars, historyVars>>

\* Mutant: a path that was sent before is taken for the same file.
Deliverable_NotTwice(f) == f \notin Hidden /\ body[f] # "absent" /\ tries[f] = <<>>

Deliverable(f) == f \notin Hidden /\ body[f] # "absent"

\* deliver: a path that is hidden or gone is skipped; for another one the
\* chat action is sent first.
Deliver(f) ==
    /\ up /\ uploading = NoFile /\ f \in flushing
    /\ flushing' = flushing \ {f}
    /\ uploading' = IF Deliverable(f) THEN f ELSE NoFile
    /\ UNCHANGED <<rx, pending, quiet, agentVars, daemonVars, historyVars>>

FailedTries ==
    UNION {{<<f, i>> : i \in {j \in DOMAIN tries[f] : ~tries[f][j].sent}} : f \in Files}

Outcomes == IF Cardinality(FailedTries) < MaxFails THEN BOOLEAN ELSE {TRUE}

Attempt(f, ok) ==
    [version |-> version[f], body |-> body[f], watched |-> watching, sent |-> ok]

\* send_outbound_file reads the file as it is by then.  An upload that fails
\* is logged and leaves the relay as one that is done: nothing repeats it.
Uploaded(f) ==
    /\ up /\ uploading = f /\ f # NoFile
    /\ uploading' = NoFile
    /\ \/ body[f] = "absent" /\ UNCHANGED tries
       \/ /\ body[f] # "absent"
          /\ \E ok \in Outcomes : tries' = [tries EXCEPT ![f] = Append(@, Attempt(f, ok))]
    /\ UNCHANGED <<rx, pending, quiet, flushing, agentVars, daemonVars, landed>>

\* Something the relay does at once, before time passes.
RelayDue ==
    /\ up /\ uploading = NoFile
    /\ \/ flushing # {}
       \/ rx # {}
       \/ pending # {} /\ Settled

Tick ==
    /\ ~RelayDue
    /\ \A f \in Files : body[f] = "partial" => pause[f] < MaxPause
    /\ pause' = [f \in Files |-> IF body[f] = "partial" THEN pause[f] + 1 ELSE pause[f]]
    /\ quiet' = IF Waits /\ pending # {} THEN quiet + 1 ELSE quiet
    /\ UNCHANGED <<body, version, chunks, rx, pending, flushing, uploading, daemonVars, historyVars>>

-----------------------------------------------------------------------------
Agent ==
    \/ \E f \in Files : Open(f) \/ Write(f) \/ Close(f) \/ Remove(f)
    \/ \E g, f \in Files : Rename(g, f)

Relay ==
    \/ Flush
    \/ \E f \in Files : Receive(f) \/ Deliver(f) \/ Uploaded(f)

Next == Bind \/ Start \/ DropWatcher \/ Exit \/ Agent \/ Relay \/ Tick

Spec == Init /\ [][Next]_vars

\* The runtime runs the relay, an upload returns (the HTTP client has a
\* timeout), time passes, and a writer does not keep its file open for ever
\* without writing to it.
Fairness ==
    /\ WF_vars(Relay) /\ WF_vars(Tick)
    /\ \A f \in Files : WF_vars(Write(f) \/ Close(f))

FairSpec == Spec /\ Fairness

-----------------------------------------------------------------------------
TypeOK ==
    /\ owned \in BOOLEAN /\ up \in BOOLEAN /\ watching \in BOOLEAN
    /\ starts \in 0..MaxStarts
    /\ body \in [Files -> {"absent", "partial", "whole"}]
    /\ \A f \in Files : version[f] \in 0..MaxVersions[f]
    /\ pause \in [Files -> 0..MaxPause]
    /\ \A f \in Files : chunks[f] \in 0..MaxChunks[f]
    /\ rx \in SUBSET Files /\ pending \in SUBSET Files /\ flushing \in SUBSET Files
    /\ quiet \in 0..Debounce
    /\ uploading \in Files \cup {NoFile}
    /\ tries \in [Files -> Seq(Try)]
    /\ \A f \in Files : landed[f] \in 0..version[f]

\* A file that is written once, by a writer that never pauses for as long as
\* the quiet period, is sent at most once and only whole - whatever the other
\* files do, and however long their uploads keep the relay from its channel.
\* (A flush because the watcher was dropped does not wait for the writer.)
WrittenOnceIsSentWhole ==
    \A f \in Files : version[f] = 1 =>
        /\ \A i \in DOMAIN tries[f] : tries[f][i].watched => tries[f][i].body = "whole"
        /\ starts = 1 /\ watching => Len(tries[f]) <= 1

\* How the first whole upload of this version ended.
Ended(f, v, ok) ==
    \E i \in DOMAIN tries[f] :
        tries[f][i].version = v /\ tries[f][i].body = "whole" /\ tries[f][i].sent = ok

\* The last version of a file that its writer completes under the watch reaches
\* the chat whole, unless it changes or the watcher goes first, or its upload
\* failed - also when an earlier state of it was sent too soon.  A failed upload
\* is only logged: that file stays unsent until it is written again (deliver).
\* Every writer is assumed to finish: one that never does holds the one timer
\* back for all paths (SettledIsDelivered).
LandedIsUploaded ==
    \A f \in Files \ Hidden : \A v \in 1..MaxVersions[f] :
        landed[f] = v ~> (landed[f] # v \/ Ended(f, v, TRUE) \/ Ended(f, v, FALSE))

\* What the comment above relay says: each path is delivered once it settles,
\* every event resets "the per-path quiet timer".  The code has one timer for
\* all pending paths: a file whose writer goes on holds back all the others.
SettledIsDelivered ==
    \A f \in Files \ Hidden :
        landed[f] > 0 ~> (landed[f] = 0 \/ tries[f] # <<>>)

=============================================================================
