---------------------------- MODULE InboundMedia ----------------------------
(***************************************************************************)
(* What becomes of the messages of one chat until opencode has them        *)
(* (telegram/bot.rs: handle_text, handle_media; telegram/files.rs).  A     *)
(* text is queued at once.  A photo or document is first downloaded from   *)
(* Telegram; then either its bytes are a part of the turn, or they are put *)
(* into the file store under a fresh id and the turn announces the URL,    *)
(* which the model fetches when its turn runs (mcp/mod.rs, download_file). *)
(*                                                                         *)
(* The dispatcher hands the updates of a chat to its handlers one after    *)
(* the other.  The queue of turns and the store are kept as far as they    *)
(* matter to this: TurnQueue and FileStore have the rest.                  *)
(***************************************************************************)
EXTENDS Naturals, Sequences, SequencesExt

CONSTANTS Texts, Media,     \* the messages the chat may send
          USER_QUEUE_DEPTH,
          ttl,              \* mcp.ttl_secs, in ticks
          MaxTime           \* bound: the clock

Messages == Texts \cup Media

InboundMediaAssumption ==
    /\ Texts \cap Media = {}
    /\ USER_QUEUE_DEPTH \in Nat \ {0} /\ ttl \in Nat /\ MaxTime \in Nat

VARIABLES
    clock,
    announce,   \* mcp.enabled and not mcp.filepart_fallback
    listening,  \* the listener of the MCP server is bound
    inbox,      \* history: the messages in the order they were sent
    step,       \* of each message
    queue,      \* turns the worker of the chat has not begun
    turns,      \* history: the turns begun, in this order
    stored,     \* ids in the store; a message stands for the id of its file
    put_at,
    handedOut,  \* history: <<turn, file>>: a GET of the turn took the file out
    refused     \* history: files a GET of their own turn did not find

mediaVars == <<stored, put_at, handedOut, refused>>
config == <<announce, listening>>
vars == <<clock, config, inbox, step, queue, turns, mediaVars>>

Steps == {"unsent", "sent", "downloading", "storing", "ready",
          "queued", "running", "done", "failed", "rejected"}

\* A listener that cannot be bound is logged, and the daemon goes on without.
Init ==
    /\ clock = 0 /\ announce \in BOOLEAN /\ listening \in BOOLEAN
    /\ inbox = <<>> /\ queue = <<>> /\ turns = <<>>
    /\ step = [m \in Messages |-> "unsent"]
    /\ stored = {} /\ handedOut = {} /\ refused = {}
    /\ put_at = [m \in Messages |-> 0]

To(m, s) == step' = [step EXCEPT ![m] = s]

Tick ==
    /\ clock < MaxTime
    /\ clock' = clock + 1
    /\ UNCHANGED <<config, inbox, step, queue, turns, mediaVars>>

Send(m) ==
    /\ step[m] = "unsent"
    /\ To(m, "sent")
    /\ inbox' = Append(inbox, m)
    /\ UNCHANGED <<clock, config, queue, turns, mediaVars>>

-----------------------------------------------------------------------------
(* The handlers, one step per await.                                       *)

Handling == {m \in Messages : step[m] \in {"downloading", "storing", "ready"}}

\* Mutant: a file is downloaded in a task of its own.
HandlerIsFree_InBackground == TRUE

\* The handler of a message is awaited before the next one is called.
HandlerIsFree == Handling = {}

IsNext(m) ==
    /\ step[m] = "sent"
    /\ \A i, j \in DOMAIN inbox : i < j /\ inbox[j] = m => step[inbox[i]] # "sent"

\* A message that is neither text nor a photo or document ends here, and so
\* does one of a chat without a slot: neither is a message of this model.
Handle(m) ==
    /\ HandlerIsFree /\ IsNext(m)
    /\ To(m, IF m \in Media THEN "downloading" ELSE "ready")
    /\ UNCHANGED <<clock, config, inbox, queue, turns, mediaVars>>

\* On the FilePart path the bytes are a part of the turn: nothing is stored.
AfterDownload == IF announce THEN "storing" ELSE "ready"

\* download_inbound: the size Telegram gives is checked, then getFile and the
\* chunks are awaited.
Downloaded(m) ==
    /\ step[m] = "downloading"
    /\ To(m, AfterDownload)
    /\ UNCHANGED <<clock, config, inbox, queue, turns, mediaVars>>

\* Too large, or an error on the way: the friendly reply, and no turn.
DownloadFails(m) ==
    /\ step[m] = "downloading"
    /\ To(m, "failed")
    /\ UNCHANGED <<clock, config, inbox, queue, turns, mediaVars>>

Put(m) ==
    /\ step[m] = "storing"
    /\ \/ /\ To(m, "ready")
          /\ stored' = stored \cup {m}
          /\ put_at' = [put_at EXCEPT ![m] = clock]
       \/ To(m, "failed") /\ UNCHANGED <<stored, put_at>>
    /\ UNCHANGED <<clock, config, inbox, queue, turns, handedOut, refused>>

\* enqueue_turn does not wait: a message that finds the queue full is answered
\* with BUSY_REPLY, and its file stays in the store.
Enqueue(m) ==
    /\ step[m] = "ready"
    /\ IF Len(queue) < USER_QUEUE_DEPTH
       THEN queue' = Append(queue, m) /\ To(m, "queued")
       ELSE To(m, "rejected") /\ UNCHANGED queue
    /\ UNCHANGED <<clock, config, inbox, turns, mediaVars>>

-----------------------------------------------------------------------------
(* The worker, the model in its turn, and the store.                       *)

Running == {m \in Messages : step[m] = "running"}

BeginTurn ==
    /\ queue # <<>> /\ Running = {}
    /\ queue' = Tail(queue)
    /\ To(Head(queue), "running")
    /\ turns' = Append(turns, Head(queue))
    /\ UNCHANGED <<clock, config, inbox, mediaVars>>

EndTurn(m) ==
    /\ step[m] = "running"
    /\ To(m, "done")
    /\ UNCHANGED <<clock, config, inbox, queue, turns, mediaVars>>

\* Mutant: the URL is made when the turn runs, of the chat's newest file.
Announced_Newest(m) ==
    IF stored = {} THEN m ELSE CHOOSE f \in stored : \A g \in stored : put_at[f] >= put_at[g]

\* The id the turn's text announces.
Announced(m) == m

\* download_file: the take removes the entry, whatever becomes of the bytes.
\* The model may ask again.
Fetch(m) ==
    /\ announce /\ m \in Media /\ step[m] = "running" /\ listening
    /\ IF Announced(m) \in stored
       THEN /\ stored' = stored \ {Announced(m)}
            /\ handedOut' = handedOut \cup {<<m, Announced(m)>>}
            /\ UNCHANGED refused
       ELSE refused' = refused \cup {m} /\ UNCHANGED <<stored, handedOut>>
    /\ UNCHANGED <<clock, config, inbox, step, queue, turns, put_at>>

Expired(m) == put_at[m] + ttl <= clock

Sweep ==
    /\ \E m \in stored : Expired(m)
    /\ stored' = {m \in stored : ~Expired(m)}
    /\ UNCHANGED <<clock, config, inbox, step, queue, turns, put_at, handedOut, refused>>

Next ==
    \/ Tick \/ BeginTurn \/ Sweep
    \/ \E m \in Messages :
          \/ Send(m) \/ Handle(m) \/ Downloaded(m) \/ DownloadFails(m) \/ Put(m)
          \/ Enqueue(m) \/ EndTurn(m) \/ Fetch(m)

Spec == Init /\ [][Next]_vars

-----------------------------------------------------------------------------
TypeOK ==
    /\ clock \in 0..MaxTime /\ {announce, listening} \subseteq BOOLEAN
    /\ {inbox, queue, turns} \subseteq Seq(Messages) /\ Len(queue) <= USER_QUEUE_DEPTH
    /\ step \in [Messages -> Steps]
    /\ stored \cup refused \subseteq Media /\ handedOut \subseteq Media \X Media
    /\ put_at \in [Messages -> 0..MaxTime]

Sent(m) == CHOOSE i \in DOMAIN inbox : inbox[i] = m

\* A chat's turns run in the order in which it sent their messages: "summarise
\* it" does not overtake the file it speaks of, however long the download takes
\* and whatever is rejected or fails in between.
TurnsInSendingOrder ==
    \A i, j \in DOMAIN turns : i < j => Sent(turns[i]) < Sent(turns[j])

\* A model that is refused the file its turn announces has had it before, or
\* the file's time is over: the files of other turns, of messages that were
\* rejected, and the sweeper at any moment take nothing away from it.
RefusedForCause ==
    \A m \in refused : <<m, m>> \in handedOut \/ Expired(m)

=============================================================================
