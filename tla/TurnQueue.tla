------------------------------ MODULE TurnQueue ------------------------------
(***************************************************************************)
(* The per-user turn queues of src/src/telegram/bot.rs: `enqueue_turn`,    *)
(* the serial `user_worker` tasks it spawns, and the graceful `shutdown`.  *)
(*                                                                         *)
(* A job is the arrival number of the message within its chat, which is    *)
(* all the properties tell apart.  A worker is a task identity: a chat may *)
(* get several in its life (a worker whose turn panicked is replaced), so  *)
(* that a chat has at most one live worker is something to check and not   *)
(* a consequence of how the state is laid out.                             *)
(***************************************************************************)
EXTENDS Naturals, Sequences, FiniteSets

CONSTANTS
    Chats,              \* chat ids
    Workers,            \* identities of the worker tasks that may be spawned
    NoWorker,           \* "no entry in user_queues"
    USER_QUEUE_DEPTH,   \* capacity of the channel into a worker
    MaxArrivals,        \* bound: messages considered per chat
    MaxPanics           \* bound: turns that panic

ASSUME ChatsAssumption    == Chats # {}
ASSUME NoWorkerAssumption == NoWorker \notin Workers
ASSUME DepthAssumption    == USER_QUEUE_DEPTH \in Nat \ {0}
ASSUME BoundsAssumption   == MaxArrivals \in Nat /\ MaxPanics \in Nat

VARIABLES
    arrived,        \* messages dispatched so far, per chat
    user_queues,    \* chat -> the worker whose sender the map holds
    task,           \* "unborn", "idle", "busy" or "gone", per worker
    owner,          \* the chat a worker was spawned for
    chan,           \* the jobs in the channel of a worker, oldest first
    turn,           \* the job a busy worker is running, 0 when there is none
    phase,          \* "serving", "draining" (shutdown awaits), then "drained"
                    \* (every task ended) or "cut" (the grace ran out)
    handles,        \* the join handles shutdown awaits
    panics,         \* turns that panicked so far
    accepted,       \* history: jobs enqueue_turn took, per chat
    completed,      \* history: jobs whose turn returned, in that order
    lost            \* history: jobs dropped with a task that ended abnormally

queueVars   == <<user_queues, chan>>
taskVars    == <<task, owner, turn>>
exitVars    == <<phase, handles>>
historyVars == <<accepted, completed, lost>>
vars == <<arrived, queueVars, taskVars, exitVars, panics, historyVars>>

Jobs == 1..MaxArrivals

Elems(s) == {s[i] : i \in 1..Len(s)}

Live(w) == task[w] \in {"idle", "busy"}

\* The jobs a worker holds: the one of its turn and those in its channel.
JobsHeld(w) == ({turn[w]} \ {0}) \cup Elems(chan[w])

LiveOf(c) == {w \in Workers : Live(w) /\ owner[w] = c}

Init ==
    /\ arrived = [c \in Chats |-> 0]
    /\ user_queues = [c \in Chats |-> NoWorker]
    /\ task = [w \in Workers |-> "unborn"]
    /\ owner = [w \in Workers |-> CHOOSE c \in Chats : TRUE]
    /\ chan = [w \in Workers |-> << >>]
    /\ turn = [w \in Workers |-> 0]
    /\ phase = "serving"
    /\ handles = {}
    /\ panics = 0
    /\ accepted = [c \in Chats |-> {}]
    /\ completed = [c \in Chats |-> << >>]
    /\ lost = [c \in Chats |-> {}]

-----------------------------------------------------------------------------
(* enqueue_turn: one critical section of the user_queues mutex.            *)

Arrive(c) ==
    /\ phase = "serving"
    /\ arrived[c] < MaxArrivals
    /\ arrived' = [arrived EXCEPT ![c] = @ + 1]

Accept(c) == accepted' = [accepted EXCEPT ![c] = @ \cup {arrived[c] + 1}]

\* Mutant: an entry in the map is trusted, whatever became of its task.
HasLiveWorker_EntryIsEnough(c) == user_queues[c] # NoWorker

\* The map holds a sender whose receiver is still there.
HasLiveWorker(c) == user_queues[c] # NoWorker /\ task[user_queues[c]] # "gone"

\* Mutant: off by one.
QueueFull_OneMore(w) == Len(chan[w]) = USER_QUEUE_DEPTH + 1

\* A full queue, by the channel's own count: the job of the turn is not in it.
QueueFull(w) == Len(chan[w]) = USER_QUEUE_DEPTH

\* `try_send` is Ok: the job waits behind the turn in flight.
EnqueueBehind(c) ==
    LET w == user_queues[c] IN
    /\ Arrive(c)
    /\ HasLiveWorker(c)
    /\ ~QueueFull(w)
    /\ chan' = [chan EXCEPT ![w] = Append(@, arrived[c] + 1)]
    /\ Accept(c)
    /\ UNCHANGED <<user_queues, taskVars, exitVars, panics, completed, lost>>

\* `try_send` is Full: the job is dropped and the user told (BUSY_REPLY).
EnqueueFull(c) ==
    /\ Arrive(c)
    /\ HasLiveWorker(c)
    /\ QueueFull(user_queues[c])
    /\ UNCHANGED <<queueVars, taskVars, exitVars, panics, historyVars>>

FirstJob(c) == <<arrived[c] + 1>>

\* No entry, or `try_send` is Closed: a new channel seated with the job, a new
\* worker task, and its sender in the map in place of the dead one.
EnqueueSpawn(c) ==
    /\ Arrive(c)
    /\ ~HasLiveWorker(c)
    /\ \E w \in Workers :
          /\ task[w] = "unborn"
          /\ user_queues' = [user_queues EXCEPT ![c] = w]
          /\ chan' = [chan EXCEPT ![w] = FirstJob(c)]
          /\ task' = [task EXCEPT ![w] = "idle"]
          /\ owner' = [owner EXCEPT ![w] = c]
    /\ Accept(c)
    /\ UNCHANGED <<turn, exitVars, panics, completed, lost>>

enqueue_turn(c) == EnqueueBehind(c) \/ EnqueueFull(c) \/ EnqueueSpawn(c)

-----------------------------------------------------------------------------
(* user_worker: one turn at a time until the channel is closed and empty.  *)

\* `rx.recv()` yields the oldest job and run_turn starts.
RecvJob(w) ==
    /\ task[w] = "idle"
    /\ chan[w] # << >>
    /\ turn' = [turn EXCEPT ![w] = Head(chan[w])]
    /\ chan' = [chan EXCEPT ![w] = Tail(@)]
    /\ task' = [task EXCEPT ![w] = "busy"]
    /\ UNCHANGED <<arrived, user_queues, owner, exitVars, panics, historyVars>>

\* run_turn returns, Ok or Err: either way the user got a reply, and the loop
\* comes back to recv.
FinishTurn(w) ==
    /\ task[w] = "busy"
    /\ completed' = [completed EXCEPT ![owner[w]] = Append(@, turn[w])]
    /\ turn' = [turn EXCEPT ![w] = 0]
    /\ task' = [task EXCEPT ![w] = "idle"]
    /\ UNCHANGED <<arrived, queueVars, owner, exitVars, panics, accepted, lost>>

\* The turn panics: the task unwinds, and its receiver goes with every job in it.
\* The map still holds the sender.
PanicTurn(w) ==
    /\ task[w] = "busy"
    /\ panics < MaxPanics
    /\ panics' = panics + 1
    /\ lost' = [lost EXCEPT ![owner[w]] = @ \cup JobsHeld(w)]
    /\ chan' = [chan EXCEPT ![w] = << >>]
    /\ turn' = [turn EXCEPT ![w] = 0]
    /\ task' = [task EXCEPT ![w] = "gone"]
    /\ UNCHANGED <<arrived, user_queues, owner, exitVars, accepted, completed>>

\* `rx.recv()` is None: no sender is left and the buffer is empty.
RecvIsNone(w) == user_queues[owner[w]] # w /\ chan[w] = << >>

WorkerExit(w) ==
    /\ task[w] = "idle"
    /\ RecvIsNone(w)
    /\ task' = [task EXCEPT ![w] = "gone"]
    /\ UNCHANGED <<arrived, queueVars, owner, turn, exitVars, panics, historyVars>>

-----------------------------------------------------------------------------
(* shutdown: the dispatcher has returned, so nothing arrives any more.     *)

\* queues.drain(): the handle of every worker in the map.
Drained == {user_queues[c] : c \in Chats} \ {NoWorker}

\* Drain the map: the senders are dropped, the handles awaited.
BeginShutdown ==
    /\ phase = "serving"
    /\ phase' = "draining"
    /\ handles' = Drained
    /\ user_queues' = [c \in Chats |-> NoWorker]
    /\ UNCHANGED <<arrived, chan, taskVars, panics, historyVars>>

\* Mutant: the first of the handles that ends resolves the wait.
HandlesEnded_First == handles = {} \/ \E w \in handles : task[w] = "gone"

\* Every awaited task has ended, by return or by panic.
HandlesEnded == \A w \in handles : task[w] = "gone"

\* join_all resolves.
DrainDone ==
    /\ phase = "draining"
    /\ HandlesEnded
    /\ phase' = "drained"
    /\ UNCHANGED <<arrived, queueVars, taskVars, handles, panics, historyVars>>

\* Mutant: the handles are joined with no timeout around them.
GraceIsUp_Never == FALSE

\* The timeout matters only while a task is left.
GraceIsUp == \E w \in handles : task[w] # "gone"

\* `grace` elapses first: the process ends with the tasks that are left.
GraceElapsed ==
    /\ phase = "draining"
    /\ GraceIsUp
    /\ phase' = "cut"
    /\ lost' = [c \in Chats |-> lost[c] \cup UNION {JobsHeld(w) : w \in LiveOf(c)}]
    /\ task' = [w \in Workers |-> IF Live(w) THEN "gone" ELSE task[w]]
    /\ chan' = [w \in Workers |-> << >>]
    /\ turn' = [w \in Workers |-> 0]
    /\ UNCHANGED <<arrived, user_queues, owner, handles, panics, accepted, completed>>

Shutdown == BeginShutdown \/ DrainDone \/ GraceElapsed

Worker(w) == RecvJob(w) \/ FinishTurn(w) \/ PanicTurn(w) \/ WorkerExit(w)

Next ==
    \/ \E c \in Chats : enqueue_turn(c)
    \/ \E w \in Workers : Worker(w)
    \/ Shutdown

Spec == Init /\ [][Next]_vars

(***************************************************************************)
(* tokio polls a task that can run, and a timer that was set fires.  That  *)
(* a turn returns is opencode's business (the prompt request has no        *)
(* timeout) and is no part of the fairness.                                *)
(***************************************************************************)
Fairness ==
    /\ \A w \in Workers : WF_vars(RecvJob(w)) /\ WF_vars(WorkerExit(w))
    /\ WF_vars(DrainDone)
    /\ WF_vars(GraceElapsed)

FairSpec == Spec /\ Fairness

-----------------------------------------------------------------------------
(* Properties.                                                             *)

\* Every variable keeps its type; in particular no channel ever holds more than
\* its capacity, whichever way jobs reach it.
TypeOK ==
    /\ arrived \in [Chats -> 0..MaxArrivals]
    /\ user_queues \in [Chats -> Workers \cup {NoWorker}]
    /\ task \in [Workers -> {"unborn", "idle", "busy", "gone"}]
    /\ owner \in [Workers -> Chats]
    /\ chan \in [Workers -> Seq(Jobs)]
    /\ \A w \in Workers : Len(chan[w]) <= USER_QUEUE_DEPTH
    /\ turn \in [Workers -> 0..MaxArrivals]
    /\ phase \in {"serving", "draining", "drained", "cut"}
    /\ handles \in SUBSET Workers
    /\ panics \in 0..MaxPanics
    /\ accepted \in [Chats -> SUBSET Jobs]
    /\ completed \in [Chats -> Seq(Jobs)]
    /\ lost \in [Chats -> SUBSET Jobs]

\* A chat has at most one live worker, so no two of its turns ever run at once:
\* "a single user's turns never interleave" (bot.rs:1120-1151), across panics,
\* respawns and the shutdown that empties the map under running workers.
SerialTurns ==
    \A v, w \in Workers : Live(v) /\ Live(w) /\ owner[v] = owner[w] => v = w

\* What a chat has been served, then what it is being served, then what waits,
\* is strictly increasing: no job is overtaken or run twice, whatever worker ran
\* it (enqueue_turn, user_worker).
ServedInOrder ==
    \A c \in Chats, w \in Workers :
        Live(w) /\ owner[w] = c =>
            LET line == completed[c] \o (IF turn[w] = 0 THEN << >> ELSE <<turn[w]>>)
                            \o chan[w]
            IN  \A i, j \in 1..Len(line) : i < j => line[i] < line[j]

\* An accepted job is never forgotten: it was served, or a live worker of its own
\* chat holds it, or it went down with a task that panicked or was cut off by the
\* end of the grace (enqueue_turn returned Queued; shutdown drains).
NothingForgotten ==
    \A c \in Chats :
        /\ accepted[c] = Elems(completed[c]) \cup lost[c]
                            \cup UNION {JobsHeld(w) : w \in LiveOf(c)}
        /\ lost[c] # {} => panics > 0 \/ phase = "cut"

\* A shutdown that did not run out of grace has served every accepted message,
\* queued ones included, save those a panicking turn took with it
\* (bot.rs:205-210).
DrainServesAll ==
    phase = "drained" =>
        \A c \in Chats : accepted[c] = Elems(completed[c]) \cup lost[c]

\* shutdown always returns, even when a turn hangs on an unanswered permission
\* gate: the grace bounds it (bot.rs:229).
ShutdownReturns == phase = "draining" ~> phase \in {"drained", "cut"}

\* As long as no turn hangs for ever, every accepted message is served, or lost
\* with its task: no worker sleeps on a queue that holds a job.
TurnsReturn == \A w \in Workers : []<>(task[w] # "busy")

AcceptedIsServed ==
    TurnsReturn =>
        \A c \in Chats, n \in Jobs :
            n \in accepted[c] ~> n \in Elems(completed[c]) \cup lost[c]

=============================================================================
