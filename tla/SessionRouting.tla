--------------------------- MODULE SessionRouting ---------------------------
(***************************************************************************)
(* Which opencode session a chat's turns run in: the `routing` row, the    *)
(* awaits of `run_turn` and `session::get_or_create` that read it and write*)
(* it back, and what interleaves with them -- /new, /stop, an admin moving *)
(* the chat to another slot, opencode losing its database, the proxy       *)
(* crashing.                                                               *)
(*                                                                         *)
(* A chat runs its turns one at a time and in order (TurnQueue), and its   *)
(* commands are handled one at a time, but the two run concurrently.       *)
(* Session i is the i-th session created on any instance; opencode's ids   *)
(* are never reused.                                                       *)
(***************************************************************************)
EXTENDS Naturals, Sequences, FiniteSets

CONSTANTS
    Chats,
    Slots,          \* opencode instances; every chat is bound to one of them
    HasAskRules,    \* [permissions].ask is not empty
    QueueDepth,     \* bound: turns of a chat waiting behind the one that runs
    MaxMessages,    \* bound: messages per chat
    MaxSessions,    \* bound: sessions created
    MaxFaults,      \* bound: failed requests and statements, wipes and crashes
    MaxCommands     \* bound: /new, /stop and re-binding, together

ASSUME SlotsAssumption == Slots # {} /\ HasAskRules \in BOOLEAN
ASSUME BoundsAssumption ==
    {QueueDepth, MaxMessages, MaxSessions, MaxFaults, MaxCommands} \subseteq Nat

NoSession == 0
SessionIds == 1..MaxSessions

VARIABLES
    binding,    \* allowed_users: chat -> slot
    routing,    \* routing: chat -> session id, NoSession when there is no row
    waiting,    \* the turns queued for a chat, oldest first
    turn,       \* what the worker of a chat is doing
    stop,       \* the abort a chat's dispatcher awaits, of NoSession if none
    sent,       \* messages a chat has sent
    home,       \* sequence: the slot whose instance created session i
    live,       \* the sessions their instance still knows
    gated,      \* the sessions the ask rules were installed on
    faults, commands,
    ranIn,      \* history: the sessions in which a turn of the chat was prompted
    raced,      \* history: some /new of the chat fell between a read of its
                \* routing row by a turn and the write that follows it
    undisturbed \* history: FALSE once a turn failed with no fault during it

storeVars    == <<binding, routing>>
opencodeVars == <<home, live, gated>>
boundVars    == <<sent, faults, commands>>
historyVars  == <<ranIn, raced, undisturbed>>
vars == <<storeVars, waiting, turn, stop, opencodeVars, boundVars, historyVars>>

\* A queued turn: the number of its message, the slot resolved when it came, and
\* (history) the sessions the chat had run in before its last /new.
Job == [n : 0..MaxMessages, slot : Slots, retired : SUBSET SessionIds]

\* at: "idle"; "exists", "create", "patch" while get_or_create awaits opencode's
\* answer to that request; "persist" when it has returned; "send" until the prompt
\* reaches opencode and "prompt" while it runs there.  sid: the session it is about.
\* hit (history): a fault struck.
Idle(c) == turn[c].at = "idle"

TurnAt(c, p) == turn[c].at = p

NoJob == [n |-> 0, slot |-> CHOOSE s \in Slots : TRUE, retired |-> {}]

NoTurn == [at |-> "idle", job |-> NoJob, sid |-> NoSession, hit |-> FALSE]

NoStop == [slot |-> CHOOSE s \in Slots : TRUE, sid |-> NoSession, upto |-> 0]

Init ==
    /\ binding \in [Chats -> Slots]
    /\ routing = [c \in Chats |-> NoSession]
    /\ waiting = [c \in Chats |-> << >>]
    /\ turn = [c \in Chats |-> NoTurn]
    /\ stop = [c \in Chats |-> NoStop]
    /\ sent = [c \in Chats |-> 0]
    /\ home = << >>
    /\ live = {}
    /\ gated = {}
    /\ faults = 0
    /\ commands = 0
    /\ ranIn = [c \in Chats |-> [all |-> {}, retired |-> {}]]
    /\ raced = [c \in Chats |-> FALSE]
    /\ undisturbed = TRUE

-----------------------------------------------------------------------------
(* The dispatcher: one update of a chat at a time, so none while a /stop   *)
(* awaits opencode.                                                        *)

\* Mutant: handlers are spawned, the dispatcher does not await them.
DispatcherFree_Spawned(c) == TRUE

DispatcherFree(c) == stop[c] = NoStop

\* handle_text: the slot is resolved, the turn queued.
HandleMessage(c) ==
    /\ DispatcherFree(c)
    /\ sent[c] < MaxMessages
    /\ Len(waiting[c]) < QueueDepth
    /\ sent' = [sent EXCEPT ![c] = @ + 1]
    /\ waiting' = [waiting EXCEPT ![c] =
                      Append(@, [n |-> sent[c] + 1, slot |-> binding[c],
                                 retired |-> ranIn[c].retired])]
    /\ UNCHANGED <<storeVars, turn, stop, opencodeVars, faults, commands, historyVars>>

Command(c) ==
    /\ DispatcherFree(c)
    /\ commands < MaxCommands
    /\ commands' = commands + 1

\* The window in which a turn of the chat acts on the row it has read.
Resolving(c) == turn[c].at \in {"exists", "create", "patch", "persist"}

\* Mutant: /new answers but leaves the row.
Cleared_Kept(c) == routing[c]

Cleared(c) == NoSession

\* handle_new: clear_session.  If that fails the user is told, and nothing is new.
HandleNew(c) ==
    /\ Command(c)
    /\ routing' = [routing EXCEPT ![c] = Cleared(c)]
    /\ ranIn' = [ranIn EXCEPT ![c].retired = ranIn[c].all]
    /\ raced' = [raced EXCEPT ![c] = @ \/ Resolving(c)]
    /\ UNCHANGED <<binding, waiting, turn, stop, opencodeVars, sent, faults, undisturbed>>

\* handle_stop, up to its await: nothing to stop, or an abort of the routed
\* session sent to the instance of the slot the chat is bound to now.
HandleStop(c) ==
    /\ Command(c)
    /\ routing[c] # NoSession
    /\ stop' = [stop EXCEPT ![c] =
                   [slot |-> binding[c], sid |-> routing[c], upto |-> sent[c]]]
    /\ UNCHANGED <<storeVars, waiting, turn, opencodeVars, sent, faults, historyVars>>

\* handle_stop with no row: "Nothing to stop."
HandleStopNothing(c) ==
    /\ Command(c)
    /\ routing[c] = NoSession
    /\ UNCHANGED <<storeVars, waiting, turn, stop, opencodeVars, sent, faults, historyVars>>

\* pair_approve on a chat already bound: allowed_users is re-slotted.
Rebind(c, s) ==
    /\ commands < MaxCommands
    /\ s # binding[c]
    /\ commands' = commands + 1
    /\ binding' = [binding EXCEPT ![c] = s]
    /\ UNCHANGED <<routing, waiting, turn, stop, opencodeVars, sent, faults, historyVars>>

-----------------------------------------------------------------------------
(* The worker: run_turn.                                                   *)

EndTurn(c) == turn' = [turn EXCEPT ![c] = NoTurn]

\* run_turn returns Err: the user gets an error reply.
FailTurn(c, fault) ==
    /\ EndTurn(c)
    /\ undisturbed' = (undisturbed /\ (fault \/ turn[c].hit))

Fault ==
    /\ faults < MaxFaults
    /\ faults' = faults + 1

\* Any request to opencode may fail: unreachable, refused, a broken response.  So
\* may set_session.
RequestFails(c) ==
    /\ ~Idle(c)
    /\ Fault
    /\ FailTurn(c, TRUE)
    /\ UNCHANGED <<storeVars, waiting, stop, opencodeVars, sent, commands, ranIn, raced>>

\* Mutant: the routing row is looked up by slot.
Stored_BySlot(c) ==
    LET ofSlot == {routing[d] : d \in {d \in Chats : binding[d] = binding[c]}} \ {NoSession}
    IN  IF ofSlot = {} THEN NoSession ELSE CHOOSE i \in ofSlot : TRUE

\* get_session.
Stored(c) == routing[c]

\* Without a stored id get_or_create has nothing to verify.
FirstRequest(c) == IF Stored(c) = NoSession THEN "create" ELSE "exists"

\* recv, then run_turn up to its first await.
StartTurn(c) ==
    /\ Idle(c)
    /\ waiting[c] # << >>
    /\ waiting' = [waiting EXCEPT ![c] = Tail(@)]
    /\ turn' = [turn EXCEPT ![c] =
                   [at |-> FirstRequest(c), job |-> Head(waiting[c]),
                    sid |-> Stored(c), hit |-> FALSE]]
    /\ UNCHANGED <<storeVars, stop, opencodeVars, boundVars, historyVars>>

\* recv, and get_session fails: so does the turn, at once.
StartFails(c) ==
    /\ Idle(c)
    /\ waiting[c] # << >>
    /\ Fault
    /\ waiting' = [waiting EXCEPT ![c] = Tail(@)]
    /\ UNCHANGED <<storeVars, turn, stop, opencodeVars, sent, commands, historyVars>>

\* The instance of slot s knows session i.
KnownAt(i, s) == i \in live /\ home[i] = s

\* Mutant: the stored id is used as it is.
StoredIsGood_Trusted(c) == TRUE

StoredIsGood(c) == KnownAt(turn[c].sid, turn[c].job.slot)

\* session_exists answers: keep the stored id, or recreate it after a 404.
ExistsAnswer(c) ==
    /\ TurnAt(c, "exists")
    /\ turn' = [turn EXCEPT ![c].at = IF StoredIsGood(c) THEN "persist" ELSE "create"]
    /\ UNCHANGED <<storeVars, waiting, stop, opencodeVars, boundVars, historyVars>>

\* create_session answers with a new session of the slot's instance.
CreateAnswer(c) ==
    LET new == Len(home) + 1 IN
    /\ TurnAt(c, "create")
    /\ new <= MaxSessions
    /\ home' = Append(home, turn[c].job.slot)
    /\ live' = live \cup {new}
    /\ turn' = [turn EXCEPT ![c].sid = new,
                            ![c].at = IF HasAskRules THEN "patch" ELSE "persist"]
    /\ UNCHANGED <<storeVars, waiting, stop, gated, boundVars, historyVars>>

\* Mutant: the answer to the PATCH is not looked at, and it was an error.
PatchedSet_Unchecked(i) == gated

PatchedSet(i) == gated \cup {i}

\* patch_permission answers: the rules are installed, or the session is gone.
PatchAnswer(c) ==
    /\ TurnAt(c, "patch")
    /\ \/ /\ KnownAt(turn[c].sid, turn[c].job.slot)
          /\ gated' = PatchedSet(turn[c].sid)
          /\ turn' = [turn EXCEPT ![c].at = "persist"]
          /\ UNCHANGED undisturbed
       \/ /\ ~KnownAt(turn[c].sid, turn[c].job.slot)
          /\ FailTurn(c, FALSE)
          /\ UNCHANGED gated
    /\ UNCHANGED <<storeVars, waiting, stop, home, live, boundVars, ranIn, raced>>

\* get_or_create has returned: set_session, and the prompt is sent.
Persist(c) ==
    /\ TurnAt(c, "persist")
    /\ routing' = [routing EXCEPT ![c] = turn[c].sid]
    /\ turn' = [turn EXCEPT ![c].at = "send"]
    /\ UNCHANGED <<binding, waiting, stop, opencodeVars, boundVars, historyVars>>

\* The prompt reaches opencode, which runs it if it knows the session, else
\* answers 404.
PromptTaken(c) ==
    /\ TurnAt(c, "send")
    /\ \/ /\ KnownAt(turn[c].sid, turn[c].job.slot)
          /\ turn' = [turn EXCEPT ![c].at = "prompt"]
          /\ ranIn' = [ranIn EXCEPT ![c].all = @ \cup {turn[c].sid}]
          /\ UNCHANGED undisturbed
       \/ /\ ~KnownAt(turn[c].sid, turn[c].job.slot)
          /\ FailTurn(c, FALSE)
          /\ UNCHANGED ranIn
    /\ UNCHANGED <<storeVars, waiting, stop, opencodeVars, boundVars, raced>>

\* The prompt answers and the turn is rendered.
PromptAnswer(c) ==
    /\ TurnAt(c, "prompt")
    /\ EndTurn(c)
    /\ UNCHANGED <<storeVars, waiting, stop, opencodeVars, boundVars, historyVars>>

Worker(c) ==
    \/ StartTurn(c) \/ StartFails(c) \/ ExistsAnswer(c) \/ CreateAnswer(c) \/ PatchAnswer(c)
    \/ Persist(c) \/ PromptTaken(c) \/ PromptAnswer(c) \/ RequestFails(c)

-----------------------------------------------------------------------------
(* opencode and the process.                                               *)

\* The abort reaches its instance: a prompt running in that session unblocks;
\* then the handler answers.  A 404 changes nothing.
AbortAnswer(c) ==
    /\ stop[c] # NoStop
    /\ stop' = [stop EXCEPT ![c] = NoStop]
    /\ turn' = [d \in Chats |->
                  IF TurnAt(d, "prompt") /\ turn[d].sid = stop[c].sid
                        /\ KnownAt(stop[c].sid, stop[c].slot)
                  THEN NoTurn ELSE turn[d]]
    /\ UNCHANGED <<storeVars, waiting, opencodeVars, boundVars, historyVars>>

\* The abort does not get through: the user is told it could not be stopped.  (If it
\* did, and only the answer is lost, that is AbortAnswer to all but the user.)
AbortFails(c) ==
    /\ stop[c] # NoStop
    /\ Fault
    /\ stop' = [stop EXCEPT ![c] = NoStop]
    /\ UNCHANGED <<storeVars, waiting, turn, opencodeVars, sent, commands, historyVars>>

\* An instance loses its database; what it was running fails.
Wipe(s) ==
    /\ Fault
    /\ \E i \in live : home[i] = s
    /\ live' = {i \in live : home[i] # s}
    /\ turn' = [c \in Chats |->
                  IF Idle(c) \/ turn[c].job.slot # s THEN turn[c]
                  ELSE IF TurnAt(c, "prompt") THEN NoTurn
                  ELSE [turn[c] EXCEPT !.hit = TRUE]]
    /\ UNCHANGED <<storeVars, waiting, stop, home, gated, sent, commands, historyVars>>

\* The proxy dies and comes back: the database is what is left of it.
Crash ==
    /\ Fault
    /\ waiting' = [c \in Chats |-> << >>]
    /\ turn' = [c \in Chats |-> NoTurn]
    /\ stop' = [c \in Chats |-> NoStop]
    /\ UNCHANGED <<storeVars, opencodeVars, sent, commands, historyVars>>

Next ==
    \/ \E c \in Chats :
          \/ HandleMessage(c) \/ HandleNew(c)
          \/ HandleStop(c) \/ HandleStopNothing(c) \/ AbortAnswer(c) \/ AbortFails(c)
          \/ \E s \in Slots : Rebind(c, s)
          \/ Worker(c)
    \/ \E s \in Slots : Wipe(s)
    \/ Crash

Spec == Init /\ [][Next]_vars

-----------------------------------------------------------------------------
(* Properties.                                                             *)

TurnRecord ==
    [at : {"idle", "exists", "create", "patch", "persist", "send", "prompt"}, job : Job,
     sid : 0..MaxSessions, hit : BOOLEAN]

\* Every variable keeps its type, no id is used before its session exists, and a
\* request that names a session has one to name.
TypeOK ==
    /\ binding \in [Chats -> Slots]
    /\ routing \in [Chats -> 0..Len(home)]
    /\ waiting \in [Chats -> Seq(Job)]
    /\ turn \in [Chats -> TurnRecord]
    /\ \A c \in Chats : turn[c].sid \in IF turn[c].at \in {"idle", "create"}
                                         THEN 0..Len(home) ELSE 1..Len(home)
    /\ stop \in [Chats -> [slot : Slots, sid : 0..Len(home), upto : 0..MaxMessages]]
    /\ sent \in [Chats -> 0..MaxMessages]
    /\ home \in Seq(Slots) /\ Len(home) <= MaxSessions
    /\ live \subseteq 1..Len(home)
    /\ gated \subseteq 1..Len(home)
    /\ faults \in 0..MaxFaults
    /\ commands \in 0..MaxCommands
    /\ ranIn \in [Chats -> [all : SUBSET SessionIds, retired : SUBSET SessionIds]]
    /\ raced \in [Chats -> BOOLEAN]
    /\ undisturbed \in BOOLEAN

\* No prompt ever runs in, and no row ever routes to, a session without the ask
\* rules, so a gated command cannot slip through unasked: not when the PATCH
\* fails, not across a crash between create and PATCH (session.rs:33-61).
EveryPromptIsGated ==
    HasAskRules =>
        \A c \in Chats :
            /\ turn[c].at = "prompt" => turn[c].sid \in gated
            /\ routing[c] # NoSession => routing[c] \in gated

\* Two chats never share a session: none is prompted in a session that another
\* has run in or is routed to, though they may share an instance, be moved between
\* instances and race to create (session.rs:36-61, bot.rs:1220-1230).
SessionsAreNotShared ==
    \A c, d \in Chats : c # d =>
        /\ ranIn[c].all \cap ranIn[d].all = {}
        /\ routing[c] \notin ranIn[d].all

\* "a lost server-side DB never bricks a user" (session.rs:32-35): a turn fails
\* only if a request failed or its instance was wiped during that very turn.  A
\* stale row, a wipe between turns or a re-binding never costs one.
FailsOnlyWhenStruck == undisturbed

\* /new that does not fall inside a turn's resolution is final: a message sent
\* after it never runs in a session the chat used before it (bot.rs:778-781).
NewIsFinalUnlessRaced ==
    \A c \in Chats :
        turn[c].at = "prompt" /\ ~raced[c] => turn[c].sid \notin turn[c].job.retired

\* The turn a /stop ends is one of its own chat, from a message sent before the
\* /stop: though the turn it was meant for may end, and the next one start, while
\* the abort is on its way (bot.rs:841-891).
StopIsContained ==
    [][\A c, d \in Chats :
         stop[c] # NoStop /\ stop'[c] = NoStop /\ turn'[d] # turn[d] /\ faults' = faults
            => c = d /\ turn[d].job.n <= stop[c].upto]_vars

\* What bot.rs:778-779 says of /new: "forget the user's current opencode session
\* so the next message starts fresh".
NewIsFinal ==
    \A c \in Chats : turn[c].at = "prompt" => turn[c].sid \notin turn[c].job.retired

=============================================================================
