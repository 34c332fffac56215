-------------------------- MODULE TurnQueueProofs --------------------------
(***************************************************************************)
(* Theorems about TurnQueue for every set of chats and workers, every      *)
(* queue depth and every bound, with their proofs.                         *)
(***************************************************************************)
EXTENDS TurnQueueRefinement, TLAPS

USE ChatsAssumption, NoWorkerAssumption, DepthAssumption, BoundsAssumption

-----------------------------------------------------------------------------
(* Sequences.                                                              *)

\* Taking the head off a queue leaves its other elements in place.
LEMMA TailFacts ==
    ASSUME NEW S, NEW s \in Seq(S), s # << >>
    PROVE  /\ Head(s) \in S
           /\ Tail(s) \in Seq(S)
           /\ Len(s) \in Nat
           /\ Len(Tail(s)) = Len(s) - 1
           /\ Head(s) = s[1]
           /\ \A i \in 1..Len(Tail(s)) : Tail(s)[i] = s[i + 1]
  OBVIOUS

\* Appending adds exactly the new element to the elements of a sequence.
LEMMA ElemsAppend ==
    ASSUME NEW S, NEW s \in Seq(S), NEW x \in S
    PROVE  Elems(Append(s, x)) = Elems(s) \cup {x}
<1>1. /\ Append(s, x) \in Seq(S)
      /\ Len(Append(s, x)) = Len(s) + 1
      /\ Len(s) \in Nat
      /\ \A i \in 1..Len(s) : Append(s, x)[i] = s[i]
      /\ Append(s, x)[Len(s) + 1] = x
  OBVIOUS
<1>2. 1..(Len(s) + 1) = (1..Len(s)) \cup {Len(s) + 1}
  BY <1>1
<1>3. QED  BY <1>1, <1>2 DEF Elems

\* The elements of a queue are its head and the elements of its tail.
LEMMA ElemsTail ==
    ASSUME NEW S, NEW s \in Seq(S), s # << >>
    PROVE  Elems(s) = {Head(s)} \cup Elems(Tail(s))
<1>1. /\ Len(s) \in Nat \ {0}
      /\ Len(Tail(s)) = Len(s) - 1
      /\ Head(s) = s[1]
      /\ \A i \in 1..Len(Tail(s)) : Tail(s)[i] = s[i + 1]
  BY TailFacts
<1>2. \A x \in Elems(s) : x \in {Head(s)} \cup Elems(Tail(s))
  <2>1. SUFFICES ASSUME NEW i \in 1..Len(s)
                 PROVE  s[i] \in {Head(s)} \cup Elems(Tail(s))
    BY DEF Elems
  <2>2. CASE i = 1  BY <2>2, <1>1
  <2>3. CASE i # 1
    <3>1. i - 1 \in 1..Len(Tail(s)) /\ Tail(s)[i - 1] = s[i]
      BY <2>3, <1>1
    <3>2. QED  BY <3>1 DEF Elems
  <2>4. QED  BY <2>2, <2>3
<1>3. \A x \in {Head(s)} \cup Elems(Tail(s)) : x \in Elems(s)
  <2>1. Head(s) \in Elems(s)
    BY <1>1 DEF Elems
  <2>2. ASSUME NEW i \in 1..Len(Tail(s))
        PROVE  Tail(s)[i] \in Elems(s)
    <3>1. i + 1 \in 1..Len(s) /\ Tail(s)[i] = s[i + 1]
      BY <1>1
    <3>2. QED  BY <3>1 DEF Elems
  <2>3. QED  BY <2>1, <2>2 DEF Elems
<1>4. QED  BY <1>2, <1>3

\* The elements of a sequence over S are in S.
LEMMA ElemsIn ==
    ASSUME NEW S, NEW s \in Seq(S)
    PROVE  Elems(s) \subseteq S
  BY DEF Elems

\* The empty queue has no elements.
LEMMA ElemsEmpty == Elems(<< >>) = {}
  BY DEF Elems

-----------------------------------------------------------------------------
(* Types.                                                                  *)

\* A worker has a job in hand exactly while it is busy.
TypeInv == TypeOK /\ \A w \in Workers : turn[w] # 0 <=> task[w] = "busy"

\* Every step keeps the types, and a job in the hand of every busy worker.
LEMMA TypeStep == TypeInv /\ [Next]_vars => TypeInv'
<1> SUFFICES ASSUME TypeInv, [Next]_vars
             PROVE  TypeInv'
  OBVIOUS
<1> USE DEF TypeInv
<1>1. ASSUME NEW c \in Chats, EnqueueBehind(c)
      PROVE  TypeInv'
  <2> DEFINE w == user_queues[c]
  <2>1. w \in Workers /\ ~QueueFull(w)
    BY <1>1 DEF EnqueueBehind, HasLiveWorker, TypeOK
  <2>2. arrived[c] + 1 \in Jobs
    BY <1>1 DEF EnqueueBehind, Arrive, TypeOK, Jobs
  <2>3. /\ Append(chan[w], arrived[c] + 1) \in Seq(Jobs)
        /\ Len(Append(chan[w], arrived[c] + 1)) = Len(chan[w]) + 1
        /\ Len(chan[w]) \in Nat
        /\ Len(chan[w]) < USER_QUEUE_DEPTH
    BY <2>1, <2>2 DEF TypeOK, QueueFull
  <2>4. /\ chan' \in [Workers -> Seq(Jobs)]
        /\ \A v \in Workers : Len(chan'[v]) <= USER_QUEUE_DEPTH
    BY <1>1, <2>1, <2>3, SMTT(30) DEF EnqueueBehind, TypeOK
  <2>5. arrived' \in [Chats -> 0..MaxArrivals]
    BY <1>1 DEF EnqueueBehind, Arrive, TypeOK
  <2>6. accepted' \in [Chats -> SUBSET Jobs]
    BY <1>1, <2>2 DEF EnqueueBehind, Accept, TypeOK
  <2>7. QED
    BY <1>1, <2>4, <2>5, <2>6 DEF EnqueueBehind, TypeOK, taskVars, exitVars
<1>2. ASSUME NEW c \in Chats, EnqueueFull(c)
      PROVE  TypeInv'
  BY <1>2 DEF EnqueueFull, Arrive, TypeOK, queueVars, taskVars, exitVars, historyVars
<1>3. ASSUME NEW c \in Chats, EnqueueSpawn(c)
      PROVE  TypeInv'
  <2>1. arrived[c] + 1 \in Jobs
    BY <1>3 DEF EnqueueSpawn, Arrive, TypeOK, Jobs
  <2>2. FirstJob(c) \in Seq(Jobs) /\ Len(FirstJob(c)) <= USER_QUEUE_DEPTH
    BY <2>1 DEF FirstJob
  <2>3. PICK w \in Workers :
            /\ task[w] = "unborn"
            /\ user_queues' = [user_queues EXCEPT ![c] = w]
            /\ chan' = [chan EXCEPT ![w] = FirstJob(c)]
            /\ task' = [task EXCEPT ![w] = "idle"]
            /\ owner' = [owner EXCEPT ![w] = c]
    BY <1>3 DEF EnqueueSpawn
  <2>4. chan' \in [Workers -> Seq(Jobs)]
    BY <2>2, <2>3 DEF TypeOK
  <2>5. ASSUME NEW v \in Workers
        PROVE  Len(chan'[v]) <= USER_QUEUE_DEPTH
    <3>1. CASE v = w  BY <3>1, <2>2, <2>3 DEF TypeOK
    <3>2. CASE v # w  BY <3>2, <2>3 DEF TypeOK
    <3>3. QED  BY <3>1, <3>2
  <2>6. arrived' \in [Chats -> 0..MaxArrivals]
    BY <1>3, SMTT(30) DEF EnqueueSpawn, Arrive, TypeOK
  <2>7. accepted' \in [Chats -> SUBSET Jobs]
    BY <1>3, <2>1 DEF EnqueueSpawn, Accept, TypeOK
  <2>8. QED
    BY <1>3, <2>3, <2>4, <2>5, <2>6, <2>7 DEF EnqueueSpawn, TypeOK, exitVars
<1>4. ASSUME NEW w \in Workers, RecvJob(w)
      PROVE  TypeInv'
  <2>1. /\ Head(chan[w]) \in Jobs
        /\ Tail(chan[w]) \in Seq(Jobs)
        /\ Len(Tail(chan[w])) <= USER_QUEUE_DEPTH
    BY <1>4, TailFacts DEF RecvJob, TypeOK
  <2>2. /\ chan' \in [Workers -> Seq(Jobs)]
        /\ \A v \in Workers : Len(chan'[v]) <= USER_QUEUE_DEPTH
    BY <1>4, <2>1 DEF RecvJob, TypeOK
  <2>3. /\ turn' \in [Workers -> 0..MaxArrivals]
        /\ turn'[w] # 0
    BY <1>4, <2>1 DEF RecvJob, TypeOK, Jobs
  <2>4. QED
    BY <1>4, <2>2, <2>3 DEF RecvJob, TypeOK, exitVars, historyVars
<1>5. ASSUME NEW w \in Workers, FinishTurn(w)
      PROVE  TypeInv'
  <2>1. turn[w] \in Jobs
    BY <1>5 DEF FinishTurn, TypeOK, Jobs
  <2>2. completed' \in [Chats -> Seq(Jobs)]
    BY <1>5, <2>1 DEF FinishTurn, TypeOK
  <2>3. QED
    BY <1>5, <2>2 DEF FinishTurn, TypeOK, queueVars, exitVars
<1>6. ASSUME NEW w \in Workers, PanicTurn(w)
      PROVE  TypeInv'
  <2>1. JobsHeld(w) \subseteq Jobs
    BY SMTT(30) DEF JobsHeld, Elems, TypeOK, Jobs
  <2>2. lost' \in [Chats -> SUBSET Jobs]
    BY <1>6, <2>1 DEF PanicTurn, TypeOK
  <2>3. /\ chan' \in [Workers -> Seq(Jobs)]
        /\ \A v \in Workers : Len(chan'[v]) <= USER_QUEUE_DEPTH
    BY <1>6 DEF PanicTurn, TypeOK
  <2>4. QED
    BY <1>6, <2>2, <2>3 DEF PanicTurn, TypeOK, exitVars
<1>7. ASSUME NEW w \in Workers, WorkerExit(w)
      PROVE  TypeInv'
  BY <1>7 DEF WorkerExit, TypeOK, queueVars, exitVars, historyVars
<1>8. CASE BeginShutdown
  BY <1>8 DEF BeginShutdown, Drained, TypeOK, taskVars, historyVars
<1>9. CASE DrainDone
  BY <1>9 DEF DrainDone, TypeOK, queueVars, taskVars, historyVars
<1>10. CASE GraceElapsed
  <2>1. \A w \in Workers : JobsHeld(w) \subseteq Jobs
    BY DEF JobsHeld, Elems, TypeOK, Jobs
  <2>2. lost' \in [Chats -> SUBSET Jobs]
    BY <1>10, <2>1 DEF GraceElapsed, LiveOf, TypeOK
  <2>3. /\ chan' \in [Workers -> Seq(Jobs)]
        /\ \A v \in Workers : Len(chan'[v]) <= USER_QUEUE_DEPTH
    BY <1>10 DEF GraceElapsed, TypeOK
  <2>4. QED
    BY <1>10, <2>2, <2>3 DEF GraceElapsed, TypeOK, Live
<1>11. CASE UNCHANGED vars
  BY <1>11 DEF vars, TypeOK, queueVars, taskVars, exitVars, historyVars
<1>12. QED
  BY <1>1, <1>2, <1>3, <1>4, <1>5, <1>6, <1>7, <1>8, <1>9, <1>10, <1>11
     DEF Next, enqueue_turn, Worker, Shutdown

\* The types hold in every state.
LEMMA TypeInvariant == Spec => []TypeInv
<1>1. Init => TypeInv
  BY DEF Init, TypeInv, TypeOK
<1>2. QED  BY <1>1, TypeStep, PTL DEF Spec

\* TypeOK of the run, for every value of the constants: in particular no channel
\* ever outgrows its capacity (enqueue_turn, user_worker, shutdown).
THEOREM TypeCorrect == Spec => []TypeOK
<1>1. TypeInv => TypeOK
  BY DEF TypeInv
<1>2. QED  BY <1>1, TypeInvariant, PTL

-----------------------------------------------------------------------------
(* One live worker per chat.                                               *)

\* While serving, the map holds the sender of every live worker, so a chat whose
\* entry is absent or dead has none; once the map is drained, shutdown holds the
\* handle of every live worker.  A worker that is not live holds no job.
StructureInv ==
    /\ \A c \in Chats :
          user_queues[c] # NoWorker =>
              task[user_queues[c]] # "unborn" /\ owner[user_queues[c]] = c
    /\ \A w \in Workers :
          /\ Live(w) /\ phase = "serving" => user_queues[owner[w]] = w
          /\ Live(w) /\ phase = "draining" => w \in handles
          /\ phase \in {"drained", "cut"} => ~Live(w)
          /\ ~Live(w) => chan[w] = << >>

\* Every step keeps the map, the tasks and the phase of the shutdown in agreement,
\* and with them one live worker per chat.
LEMMA StructureStep == TypeInv /\ StructureInv /\ SerialTurns /\ [Next]_vars
                            => StructureInv' /\ SerialTurns'
<1> SUFFICES ASSUME TypeInv, StructureInv, SerialTurns, [Next]_vars
             PROVE  StructureInv' /\ SerialTurns'
  OBVIOUS
<1> USE DEF TypeInv, TypeOK, Live
<1>1. ASSUME NEW c \in Chats, EnqueueBehind(c)
      PROVE  StructureInv' /\ SerialTurns'
  <2>1. user_queues[c] \in Workers /\ Live(user_queues[c])
    BY <1>1 DEF EnqueueBehind, HasLiveWorker, StructureInv
  <2>2. QED
    BY <1>1, <2>1 DEF EnqueueBehind, StructureInv, SerialTurns, taskVars, exitVars
<1>2. ASSUME NEW c \in Chats, EnqueueFull(c)
      PROVE  StructureInv' /\ SerialTurns'
  BY <1>2 DEF EnqueueFull, StructureInv, SerialTurns, queueVars, taskVars, exitVars
<1>3. ASSUME NEW c \in Chats, EnqueueSpawn(c)
      PROVE  StructureInv' /\ SerialTurns'
  <2>1. PICK w \in Workers :
            /\ task[w] = "unborn"
            /\ user_queues' = [user_queues EXCEPT ![c] = w]
            /\ chan' = [chan EXCEPT ![w] = FirstJob(c)]
            /\ task' = [task EXCEPT ![w] = "idle"]
            /\ owner' = [owner EXCEPT ![w] = c]
    BY <1>3 DEF EnqueueSpawn
  <2>2. phase = "serving" /\ phase' = phase /\ handles' = handles
    BY <1>3 DEF EnqueueSpawn, Arrive, exitVars
  <2>3. \A v \in Workers : Live(v) => owner[v] # c
    BY <1>3, <2>2, SMTT(30) DEF EnqueueSpawn, HasLiveWorker, StructureInv
  <2>4. SerialTurns'
    BY <2>1, <2>3, SMTT(30) DEF SerialTurns
  <2>5. \A d \in Chats : user_queues'[d] # NoWorker =>
            task'[user_queues'[d]] # "unborn" /\ owner'[user_queues'[d]] = d
    BY <2>1 DEF StructureInv
  <2>6. ASSUME NEW v \in Workers
        PROVE  /\ Live(v)' => user_queues'[owner'[v]] = v
               /\ ~Live(v)' => chan'[v] = << >>
    BY <2>1, <2>2, <2>3 DEF StructureInv
  <2>7. QED
    BY <2>2, <2>4, <2>5, <2>6 DEF StructureInv
<1>4. ASSUME NEW w \in Workers, RecvJob(w)
      PROVE  StructureInv' /\ SerialTurns'
  BY <1>4, SMTT(30) DEF RecvJob, StructureInv, SerialTurns, exitVars
<1>5. ASSUME NEW w \in Workers, FinishTurn(w)
      PROVE  StructureInv' /\ SerialTurns'
  BY <1>5, SMTT(30) DEF FinishTurn, StructureInv, SerialTurns, queueVars, exitVars
<1>6. ASSUME NEW w \in Workers, PanicTurn(w)
      PROVE  StructureInv' /\ SerialTurns'
  BY <1>6 DEF PanicTurn, StructureInv, SerialTurns, exitVars
<1>7. ASSUME NEW w \in Workers, WorkerExit(w)
      PROVE  StructureInv' /\ SerialTurns'
  BY <1>7 DEF WorkerExit, RecvIsNone, StructureInv, SerialTurns, queueVars, exitVars
<1>8. CASE BeginShutdown
  BY <1>8 DEF BeginShutdown, Drained, StructureInv, SerialTurns, taskVars
<1>9. CASE DrainDone
  BY <1>9 DEF DrainDone, HandlesEnded, StructureInv, SerialTurns, queueVars, taskVars
<1>10. CASE GraceElapsed
  BY <1>10 DEF GraceElapsed, StructureInv, SerialTurns
<1>11. CASE UNCHANGED vars
  BY <1>11 DEF vars, StructureInv, SerialTurns, queueVars, taskVars, exitVars
<1>12. QED
  BY <1>1, <1>2, <1>3, <1>4, <1>5, <1>6, <1>7, <1>8, <1>9, <1>10, <1>11
     DEF Next, enqueue_turn, Worker, Shutdown

\* They agree in every state.
LEMMA StructureInvariant == Spec => [](StructureInv /\ SerialTurns)
<1>1. Init => StructureInv /\ SerialTurns
  BY DEF Init, StructureInv, SerialTurns, Live
<1>2. QED  BY <1>1, TypeInvariant, StructureStep, PTL DEF Spec

\* No two turns of one chat ever run at once, for any number of chats, workers,
\* panics and respawns, and through a shutdown (user_worker, enqueue_turn).
THEOREM TurnsAreSerial == Spec => []SerialTurns
BY StructureInvariant, PTL

-----------------------------------------------------------------------------
(* Every accepted job is accounted for.                                    *)

\* A job of chat c is with one of its live workers.
InHand(c, n) == \E w \in Workers : Live(w) /\ owner[w] = c /\ n \in JobsHeld(w)

Accounted(c, n) == n \in Elems(completed[c]) \/ n \in lost[c] \/ InHand(c, n)

AccountInv ==
    /\ \A c \in Chats : \A n : n \in accepted[c] <=> Accounted(c, n)
    /\ \A c \in Chats : lost[c] # {} => panics > 0 \/ phase = "cut"

\* Every step keeps the account of the jobs: each is moved, none is dropped.
LEMMA AccountStep == TypeInv /\ StructureInv /\ AccountInv /\ [Next]_vars => AccountInv'
<1> SUFFICES ASSUME TypeInv, StructureInv, AccountInv, [Next]_vars
             PROVE  AccountInv'
  OBVIOUS
<1> USE DEF TypeInv, TypeOK
<1>1. ASSUME NEW c \in Chats, EnqueueBehind(c)
      PROVE  AccountInv'
  <2> DEFINE n0 == arrived[c] + 1
  <2>1. PICK w \in Workers :
            w = user_queues[c] /\ Live(w) /\ owner[w] = c /\ n0 \in Jobs
    BY <1>1 DEF EnqueueBehind, HasLiveWorker, StructureInv, Live, Arrive, Jobs
  <2>2. chan' = [chan EXCEPT ![w] = Append(@, n0)]
    BY <1>1, <2>1 DEF EnqueueBehind
  <2>3. JobsHeld(w)' = JobsHeld(w) \cup {n0}
    <3>1. Elems(Append(chan[w], n0)) = Elems(chan[w]) \cup {n0}
      BY <2>1, ElemsAppend
    <3>2. turn'[w] = turn[w] /\ chan'[w] = Append(chan[w], n0)
      BY <1>1, <2>1, <2>2 DEF EnqueueBehind, taskVars
    <3>3. QED  BY <3>1, <3>2 DEF JobsHeld
  <2>4. \A v \in Workers : v # w => JobsHeld(v)' = JobsHeld(v)
    BY <1>1, <2>2 DEF EnqueueBehind, JobsHeld, taskVars
  <2>5. \A v \in Workers : Live(v)' = Live(v) /\ owner'[v] = owner[v]
    BY <1>1 DEF EnqueueBehind, taskVars, Live
  <2>6. \A d \in Chats : \A n : InHand(d, n)' <=> InHand(d, n) \/ (d = c /\ n = n0)
    BY <2>1, <2>3, <2>4, <2>5, ZenonT(40) DEF InHand
  <2>7. \A d \in Chats : \A n : n \in accepted'[d] <=> n \in accepted[d] \/ (d = c /\ n = n0)
    BY <1>1 DEF EnqueueBehind, Accept
  <2>8. completed' = completed /\ lost' = lost /\ panics' = panics /\ phase' = phase
    BY <1>1 DEF EnqueueBehind, exitVars
  <2>9. QED
    BY <2>6, <2>7, <2>8 DEF AccountInv, Accounted
<1>2. ASSUME NEW c \in Chats, EnqueueFull(c)
      PROVE  AccountInv'
  BY <1>2 DEF EnqueueFull, AccountInv, Accounted, InHand, JobsHeld, Live,
              queueVars, taskVars, exitVars, historyVars
<1>3. ASSUME NEW c \in Chats, EnqueueSpawn(c)
      PROVE  AccountInv'
  <2> DEFINE n0 == arrived[c] + 1
  <2>1. PICK w \in Workers :
            /\ task[w] = "unborn"
            /\ chan' = [chan EXCEPT ![w] = FirstJob(c)]
            /\ task' = [task EXCEPT ![w] = "idle"]
            /\ owner' = [owner EXCEPT ![w] = c]
    BY <1>3 DEF EnqueueSpawn
  <2>2. ~Live(w) /\ Live(w)' /\ owner'[w] = c /\ turn[w] = 0 /\ turn' = turn
    BY <1>3, <2>1 DEF EnqueueSpawn, Live
  <2>3. JobsHeld(w)' = {n0}
    <3>1. Elems(<<n0>>) = {n0}
      BY DEF Elems
    <3>2. chan'[w] = <<n0>>
      BY <2>1 DEF FirstJob
    <3>3. QED  BY <2>2, <3>1, <3>2 DEF JobsHeld
  <2>4. \A v \in Workers : v # w => /\ JobsHeld(v)' = JobsHeld(v)
                                    /\ Live(v)' = Live(v)
                                    /\ owner'[v] = owner[v]
    BY <2>1, <2>2 DEF JobsHeld, Live
  <2>5. \A d \in Chats : \A n : InHand(d, n)' <=> InHand(d, n) \/ (d = c /\ n = n0)
    BY <2>2, <2>3, <2>4 DEF InHand
  <2>6. \A d \in Chats : \A n : n \in accepted'[d] <=> n \in accepted[d] \/ (d = c /\ n = n0)
    BY <1>3 DEF EnqueueSpawn, Accept
  <2>7. completed' = completed /\ lost' = lost /\ panics' = panics /\ phase' = phase
    BY <1>3 DEF EnqueueSpawn, exitVars
  <2>8. QED
    BY <2>5, <2>6, <2>7 DEF AccountInv, Accounted
<1>4. ASSUME NEW w \in Workers, RecvJob(w)
      PROVE  AccountInv'
  <2>1. JobsHeld(w)' = JobsHeld(w)
    <3>1. Elems(chan[w]) = {Head(chan[w])} \cup Elems(Tail(chan[w]))
      BY <1>4, ElemsTail DEF RecvJob
    <3>2. turn[w] = 0 /\ turn'[w] = Head(chan[w]) /\ chan'[w] = Tail(chan[w])
      BY <1>4 DEF RecvJob
    <3>3. Head(chan[w]) # 0
      BY <1>4, TailFacts DEF RecvJob, Jobs
    <3>4. QED  BY <3>1, <3>2, <3>3 DEF JobsHeld
  <2>2. \A v \in Workers : v # w => JobsHeld(v)' = JobsHeld(v)
    BY <1>4 DEF RecvJob, JobsHeld
  <2>3. \A v \in Workers : Live(v)' = Live(v) /\ owner'[v] = owner[v]
    BY <1>4 DEF RecvJob, Live
  <2>4. \A v \in Workers : JobsHeld(v)' = JobsHeld(v)
    BY <2>1, <2>2
  <2>5. \A d \in Chats : \A n : InHand(d, n)' <=> InHand(d, n)
    BY <2>3, <2>4 DEF InHand
  <2>6. QED
    BY <1>4, <2>5 DEF RecvJob, AccountInv, Accounted, exitVars, historyVars
<1>5. ASSUME NEW w \in Workers, FinishTurn(w)
      PROVE  AccountInv'
  <2> DEFINE c == owner[w]
  <2>1. c \in Chats /\ Live(w) /\ turn[w] \in Jobs /\ turn[w] # 0
    BY <1>5 DEF FinishTurn, Live, Jobs
  <2>2. \A v \in Workers : Live(v)' = Live(v) /\ owner'[v] = owner[v]
    BY <1>5 DEF FinishTurn, Live
  <2>3. JobsHeld(w)' \cup {turn[w]} = JobsHeld(w)
    BY <1>5, <2>1 DEF FinishTurn, JobsHeld, queueVars
  <2>4. \A v \in Workers : v # w => JobsHeld(v)' = JobsHeld(v)
    BY <1>5 DEF FinishTurn, JobsHeld, queueVars
  <2>5. \A d \in Chats : \A n : InHand(d, n) <=> InHand(d, n)' \/ (d = c /\ n = turn[w])
    BY <2>1, <2>2, <2>3, <2>4 DEF InHand
  <2>6. Elems(Append(completed[c], turn[w])) = Elems(completed[c]) \cup {turn[w]}
    BY <2>1, ElemsAppend
  <2>7. \A d \in Chats : \A n :
            n \in Elems(completed'[d]) <=> n \in Elems(completed[d]) \/ (d = c /\ n = turn[w])
    BY <1>5, <2>1, <2>6 DEF FinishTurn
  <2>8. accepted' = accepted /\ lost' = lost /\ panics' = panics /\ phase' = phase
    BY <1>5 DEF FinishTurn, exitVars
  <2>9. QED
    BY <2>5, <2>7, <2>8 DEF AccountInv, Accounted
<1>6. ASSUME NEW w \in Workers, PanicTurn(w)
      PROVE  AccountInv'
  <2> DEFINE c == owner[w]
  <2>1. c \in Chats /\ Live(w) /\ ~Live(w)'
    BY <1>6 DEF PanicTurn, Live
  <2>2. \A v \in Workers : v # w => /\ Live(v)' = Live(v)
                                    /\ owner'[v] = owner[v]
                                    /\ JobsHeld(v)' = JobsHeld(v)
    BY <1>6 DEF PanicTurn, Live, JobsHeld
  <2>3. \A d \in Chats : \A n :
            InHand(d, n) <=> InHand(d, n)' \/ (d = c /\ n \in JobsHeld(w))
    BY <2>1, <2>2 DEF InHand
  <2>4. \A d \in Chats : \A n :
            n \in lost'[d] <=> n \in lost[d] \/ (d = c /\ n \in JobsHeld(w))
    BY <1>6 DEF PanicTurn
  <2>5. completed' = completed /\ accepted' = accepted /\ panics' > 0
    BY <1>6 DEF PanicTurn
  <2>6. QED
    BY <2>3, <2>4, <2>5 DEF AccountInv, Accounted
<1>7. ASSUME NEW w \in Workers, WorkerExit(w)
      PROVE  AccountInv'
  <2>1. turn[w] = 0 /\ chan[w] = << >>
    BY <1>7 DEF WorkerExit, RecvIsNone
  <2>2. JobsHeld(w) = {}
    BY <2>1, ElemsEmpty DEF JobsHeld
  <2>3. \A v \in Workers : JobsHeld(v)' = JobsHeld(v) /\ owner'[v] = owner[v]
    BY <1>7 DEF WorkerExit, JobsHeld, queueVars
  <2>4. \A v \in Workers : v # w => Live(v)' = Live(v)
    BY <1>7 DEF WorkerExit, Live
  <2>5. \A d \in Chats : \A n : InHand(d, n)' <=> InHand(d, n)
    BY <2>2, <2>3, <2>4 DEF InHand
  <2>6. QED
    BY <1>7, <2>5 DEF WorkerExit, AccountInv, Accounted, exitVars, historyVars
<1>8. CASE BeginShutdown
  BY <1>8 DEF BeginShutdown, AccountInv, Accounted, InHand, JobsHeld, Live,
              taskVars, historyVars
<1>9. CASE DrainDone
  BY <1>9 DEF DrainDone, AccountInv, Accounted, InHand, JobsHeld, Live,
              queueVars, taskVars, historyVars
<1>10. CASE GraceElapsed
  <2>1. \A v \in Workers : ~Live(v)'
    BY <1>10 DEF GraceElapsed, Live
  <2>2. \A d \in Chats : \A n : ~InHand(d, n)'
    BY <2>1 DEF InHand
  <2>3. \A d \in Chats : \A n : n \in lost'[d] <=> n \in lost[d] \/ InHand(d, n)
    BY <1>10 DEF GraceElapsed, LiveOf, InHand
  <2>4. completed' = completed /\ accepted' = accepted /\ phase' = "cut"
    BY <1>10 DEF GraceElapsed
  <2>5. QED
    BY <2>2, <2>3, <2>4 DEF AccountInv, Accounted
<1>11. CASE UNCHANGED vars
  BY <1>11 DEF vars, AccountInv, Accounted, InHand, JobsHeld, Live, queueVars,
               taskVars, exitVars, historyVars
<1>12. QED
  BY <1>1, <1>2, <1>3, <1>4, <1>5, <1>6, <1>7, <1>8, <1>9, <1>10, <1>11
     DEF Next, enqueue_turn, Worker, Shutdown

\* The account is right in every state.
LEMMA AccountInvariant == Spec => []AccountInv
<1>1. Init => AccountInv
  BY ElemsEmpty DEF Init, AccountInv, Accounted, InHand, Live
<1>2. QED
  BY <1>1, TypeInvariant, StructureInvariant, AccountStep, PTL DEF Spec

\* No accepted message is ever forgotten: served, held by a live worker of its
\* chat, or lost to a panic or the end of the grace (enqueue_turn, shutdown).
THEOREM NoJobForgotten == Spec => []NothingForgotten
<1>1. AccountInv => NothingForgotten
  <2> SUFFICES ASSUME AccountInv, NEW c \in Chats
               PROVE  accepted[c] = Elems(completed[c]) \cup lost[c]
                            \cup UNION {JobsHeld(w) : w \in LiveOf(c)}
    BY DEF AccountInv, NothingForgotten
  <2>1. \A n : n \in UNION {JobsHeld(w) : w \in LiveOf(c)} <=> InHand(c, n)
    BY DEF InHand, LiveOf
  <2>2. QED  BY <2>1 DEF AccountInv, Accounted
<1>2. QED  BY <1>1, AccountInvariant, PTL

\* A shutdown within its grace has served every accepted message but those a
\* panic took (shutdown, bot.rs:205-238).
THEOREM DrainIsComplete == Spec => []DrainServesAll
<1>1. StructureInv /\ AccountInv => DrainServesAll
  <2> SUFFICES ASSUME StructureInv, AccountInv, phase = "drained", NEW c \in Chats
               PROVE  accepted[c] = Elems(completed[c]) \cup lost[c]
    BY DEF DrainServesAll
  <2>1. \A n : ~InHand(c, n)
    BY DEF StructureInv, InHand
  <2>2. QED  BY <2>1 DEF AccountInv, Accounted
<1>2. QED  BY <1>1, StructureInvariant, AccountInvariant, PTL

-----------------------------------------------------------------------------
(* First come, first served.                                               *)

Increasing(s) == \A i, j \in 1..Len(s) : i < j => s[i] < s[j]

Below(s, t) == \A x \in Elems(s), y \in Elems(t) : x < y

\* Appending a larger number keeps a sequence increasing.
LEMMA IncreasingAppend ==
    ASSUME NEW s \in Seq(Jobs), NEW x \in Jobs, Increasing(s), \A y \in Elems(s) : y < x
    PROVE  Increasing(Append(s, x))
<1>1. /\ Len(Append(s, x)) = Len(s) + 1
      /\ Len(s) \in Nat
      /\ \A i \in 1..Len(s) : Append(s, x)[i] = s[i]
      /\ Append(s, x)[Len(s) + 1] = x
  OBVIOUS
<1>2. \A i \in 1..Len(s) : s[i] < x
  BY DEF Elems
<1>3. SUFFICES ASSUME NEW i \in 1..(Len(s) + 1), NEW j \in 1..(Len(s) + 1), i < j
               PROVE  Append(s, x)[i] < Append(s, x)[j]
  BY <1>1 DEF Increasing
<1>4. i \in 1..Len(s)
  BY <1>1, <1>3
<1>5. CASE j = Len(s) + 1  BY <1>5, <1>1, <1>2, <1>4
<1>6. CASE j # Len(s) + 1
  <2>1. j \in 1..Len(s)  BY <1>6, <1>1, <1>3
  <2>2. QED  BY <2>1, <1>1, <1>3, <1>4 DEF Increasing
<1>7. QED  BY <1>5, <1>6

\* The tail of an increasing sequence is increasing, and above its head.
LEMMA IncreasingTail ==
    ASSUME NEW s \in Seq(Jobs), s # << >>, Increasing(s)
    PROVE  /\ Increasing(Tail(s))
           /\ \A y \in Elems(Tail(s)) : Head(s) < y
<1>1. /\ Len(s) \in Nat \ {0}
      /\ Len(Tail(s)) = Len(s) - 1
      /\ Head(s) = s[1]
      /\ \A i \in 1..Len(Tail(s)) : Tail(s)[i] = s[i + 1]
  BY TailFacts
<1>2. \A i \in 1..Len(Tail(s)) : i + 1 \in 1..Len(s) /\ 1 \in 1..Len(s) /\ 1 < i + 1
  BY <1>1
<1>3. \A i \in 1..Len(Tail(s)) : Head(s) < Tail(s)[i]
  BY <1>1, <1>2 DEF Increasing
<1>4. \A i, j \in 1..Len(Tail(s)) : i < j => Tail(s)[i] < Tail(s)[j]
  <2> SUFFICES ASSUME NEW i \in 1..Len(Tail(s)), NEW j \in 1..Len(Tail(s)), i < j
               PROVE  Tail(s)[i] < Tail(s)[j]
    OBVIOUS
  <2>1. i + 1 < j + 1  BY <1>1
  <2>2. s[i + 1] < s[j + 1]  BY <2>1, <1>2 DEF Increasing
  <2>3. QED  BY <2>2, <1>1
<1>5. QED  BY <1>3, <1>4 DEF Increasing, Elems

\* Two increasing sequences, one below the other, are increasing when joined.
LEMMA IncreasingConcat ==
    ASSUME NEW s \in Seq(Jobs), NEW t \in Seq(Jobs), Increasing(s), Increasing(t), Below(s, t)
    PROVE  Increasing(s \o t)
<1>1. /\ Len(s \o t) = Len(s) + Len(t)
      /\ Len(s) \in Nat /\ Len(t) \in Nat
      /\ \A i \in 1..(Len(s) + Len(t)) :
            (s \o t)[i] = IF i <= Len(s) THEN s[i] ELSE t[i - Len(s)]
  OBVIOUS
<1>2. SUFFICES ASSUME NEW i \in 1..(Len(s) + Len(t)), NEW j \in 1..(Len(s) + Len(t)), i < j
               PROVE  (s \o t)[i] < (s \o t)[j]
  BY <1>1 DEF Increasing
<1>3. CASE j <= Len(s)
  <2>1. i \in 1..Len(s) /\ j \in 1..Len(s)  BY <1>1, <1>2, <1>3
  <2>2. QED  BY <2>1, <1>1, <1>2 DEF Increasing
<1>4. CASE i > Len(s)
  <2>1. /\ i - Len(s) \in 1..Len(t) /\ j - Len(s) \in 1..Len(t)
        /\ i - Len(s) < j - Len(s) /\ ~(i <= Len(s)) /\ ~(j <= Len(s))
    BY <1>1, <1>2, <1>4
  <2>2. t[i - Len(s)] < t[j - Len(s)]  BY <2>1 DEF Increasing
  <2>3. QED  BY <2>1, <2>2, <1>1
<1>5. CASE i <= Len(s) /\ j > Len(s)
  <2>1. i \in 1..Len(s) /\ j - Len(s) \in 1..Len(t) /\ ~(j <= Len(s))
    BY <1>1, <1>2, <1>5
  <2>2. s[i] < t[j - Len(s)]  BY <2>1 DEF Below, Elems
  <2>3. QED  BY <2>1, <2>2, <1>1
<1>6. QED  BY <1>1, <1>3, <1>4, <1>5

\* What a chat was served precedes what its live worker runs, which precedes what
\* waits, and none of it is later than the last arrival.
OrderInv ==
    /\ \A c \in Chats :
          /\ Increasing(completed[c])
          /\ \A x \in Elems(completed[c]) : x <= arrived[c]
    /\ \A w \in Workers :
          Live(w) =>
              /\ Increasing(chan[w])
              /\ \A y \in Elems(chan[w]) : turn[w] < y /\ y <= arrived[owner[w]]
              /\ turn[w] <= arrived[owner[w]]
              /\ \A x \in Elems(completed[owner[w]]) :
                    /\ turn[w] # 0 => x < turn[w]
                    /\ \A y \in Elems(chan[w]) : x < y

\* Every step keeps a chat's served, present and waiting jobs in order.
LEMMA OrderStep ==
    TypeInv /\ StructureInv /\ SerialTurns /\ OrderInv /\ [Next]_vars => OrderInv'
<1> SUFFICES ASSUME TypeInv, StructureInv, SerialTurns, OrderInv, [Next]_vars
             PROVE  OrderInv'
  OBVIOUS
<1> USE DEF TypeInv, TypeOK
<1>1. ASSUME NEW c \in Chats, EnqueueBehind(c)
      PROVE  OrderInv'
  <2> DEFINE n0 == arrived[c] + 1
  <2>1. PICK w \in Workers :
            w = user_queues[c] /\ Live(w) /\ owner[w] = c /\ n0 \in Jobs
    BY <1>1 DEF EnqueueBehind, HasLiveWorker, StructureInv, Live, Arrive, Jobs
  <2>2. /\ chan' = [chan EXCEPT ![w] = Append(@, n0)]
        /\ arrived' = [arrived EXCEPT ![c] = @ + 1]
        /\ turn' = turn /\ completed' = completed /\ owner' = owner
        /\ \A v \in Workers : Live(v)' <=> Live(v)
    BY <1>1, <2>1 DEF EnqueueBehind, Arrive, taskVars, Live
  <2>3. \A d \in Chats : arrived[d] \in Nat /\ arrived'[d] \in Nat /\ arrived'[d] >= arrived[d] /\ arrived'[c] = n0
    BY <2>2
  <2>4. \A d \in Chats : Increasing(completed'[d]) /\ \A x \in Elems(completed'[d]) :
            x \in Jobs /\ x <= arrived[d] /\ x <= arrived'[d]
    <3>1. \A d \in Chats : completed'[d] = completed[d] /\ Elems(completed[d]) \subseteq Jobs
      BY <2>2, ElemsIn
    <3>2. \A d \in Chats : Increasing(completed[d])
                            /\ \A x \in Elems(completed[d]) : x <= arrived[d]
      BY DEF OrderInv
    <3>3. ASSUME NEW d \in Chats, NEW x \in Elems(completed[d])
          PROVE  x \in Jobs /\ x <= arrived[d] /\ x <= arrived'[d]
      <4>1. x \in Jobs /\ x <= arrived[d]
        BY <3>1, <3>2
      <4>2. QED  BY <2>3, <4>1 DEF Jobs
    <3>4. QED  BY <3>1, <3>2, <3>3
  <2>5. /\ Increasing(chan'[w])
        /\ Elems(chan'[w]) = Elems(chan[w]) \cup {n0}
        /\ \A y \in Elems(chan[w]) : y \in Jobs /\ y < n0
    <3>1. chan[w] \in Seq(Jobs) /\ chan'[w] = Append(chan[w], n0)
      BY <2>2
    <3>2. \A y \in Elems(chan[w]) : y \in Jobs /\ y <= arrived[c]
      BY <2>1, <3>1 DEF OrderInv, Elems
    <3>3. \A y \in Elems(chan[w]) : y \in Jobs /\ y < n0
      BY <3>2, <2>3 DEF Jobs
    <3>4. QED
      BY <2>1, <3>1, <3>3, IncreasingAppend, ElemsAppend DEF OrderInv
  <2>6. turn[w] <= arrived[c] /\ turn[w] \in Nat
    BY <2>1 DEF OrderInv
  <2>7. ASSUME NEW v \in Workers, Live(v)'
        PROVE  /\ Increasing(chan'[v])
               /\ \A y \in Elems(chan'[v]) : turn'[v] < y /\ y <= arrived'[owner'[v]]
               /\ turn'[v] <= arrived'[owner'[v]]
               /\ \A x \in Elems(completed'[owner'[v]]) :
                    /\ turn'[v] # 0 => x < turn'[v]
                    /\ \A y \in Elems(chan'[v]) : x < y
    <3>1. CASE v = w
      <4>1. \A y \in Elems(chan'[w]) : turn[w] < y /\ y <= n0
        BY <2>1, <2>3, <2>5, <2>6, SMTT(30) DEF OrderInv, Jobs
      <4>2. \A x \in Elems(completed[c]) : \A y \in Elems(chan'[w]) : x < y
        <5>1. \A x \in Elems(completed[c]) : \A y \in Elems(chan[w]) : x < y
          BY <2>1 DEF OrderInv
        <5>2. \A x \in Elems(completed[c]) : x < n0
          BY <2>2, <2>3, <2>4, SMTT(30) DEF Jobs
        <5>3. QED  BY <2>5, <5>1, <5>2
      <4>3. QED
        BY <2>1, <2>2, <2>3, <2>5, <2>6, <3>1, <4>1, <4>2 DEF OrderInv
    <3>2. CASE v # w
      <4>1. owner[v] # c
        BY <2>1, <2>2, <2>7, <3>2 DEF SerialTurns
      <4>2. chan'[v] = chan[v] /\ arrived'[owner'[v]] = arrived[owner[v]]
        BY <2>2, <3>2, <4>1
      <4>3. QED
        BY <2>2, <2>7, <4>2 DEF OrderInv
    <3>3. QED  BY <3>1, <3>2
  <2>8. QED  BY <2>4, <2>7 DEF OrderInv
<1>2. ASSUME NEW c \in Chats, EnqueueFull(c)
      PROVE  OrderInv'
  <2>1. /\ chan' = chan /\ turn' = turn /\ completed' = completed /\ owner' = owner
        /\ arrived' = [arrived EXCEPT ![c] = @ + 1]
        /\ \A v \in Workers : Live(v)' <=> Live(v)
    BY <1>2 DEF EnqueueFull, Arrive, queueVars, taskVars, historyVars, Live
  <2>2. \A d \in Chats : \A x \in Nat : x <= arrived[d] => x <= arrived'[d]
    BY <2>1
  <2>3. /\ \A d \in Chats : Elems(completed[d]) \subseteq Nat
        /\ \A v \in Workers : Elems(chan[v]) \subseteq Nat /\ turn[v] \in Nat /\ owner[v] \in Chats
    BY ElemsIn DEF Jobs
  <2>4. QED  BY <2>1, <2>2, <2>3 DEF OrderInv
<1>3. ASSUME NEW c \in Chats, EnqueueSpawn(c)
      PROVE  OrderInv'
  <2> DEFINE n0 == arrived[c] + 1
  <2>1. PICK w \in Workers :
            /\ task[w] = "unborn"
            /\ chan' = [chan EXCEPT ![w] = FirstJob(c)]
            /\ task' = [task EXCEPT ![w] = "idle"]
            /\ owner' = [owner EXCEPT ![w] = c]
    BY <1>3 DEF EnqueueSpawn
  <2>2. /\ arrived' = [arrived EXCEPT ![c] = @ + 1] /\ n0 \in Jobs
        /\ turn' = turn /\ completed' = completed
        /\ turn[w] = 0
    BY <1>3, <2>1 DEF EnqueueSpawn, Arrive, Jobs
  <2>3. \A v \in Workers : Live(v) => owner[v] # c
    BY <1>3, SMTT(30) DEF EnqueueSpawn, HasLiveWorker, StructureInv, Arrive, Live
  <2>4. \A d \in Chats : arrived[d] \in Nat /\ arrived'[d] \in Nat /\ arrived'[d] >= arrived[d] /\ arrived'[c] = n0
    BY <2>2
  <2>5. \A d \in Chats : Increasing(completed'[d]) /\ \A x \in Elems(completed'[d]) :
            x \in Jobs /\ x <= arrived[d] /\ x <= arrived'[d]
    <3>1. \A d \in Chats : completed'[d] = completed[d] /\ Elems(completed[d]) \subseteq Jobs
      BY <2>2, ElemsIn
    <3>2. \A d \in Chats : Increasing(completed[d])
                            /\ \A x \in Elems(completed[d]) : x <= arrived[d]
      BY DEF OrderInv
    <3>3. ASSUME NEW d \in Chats, NEW x \in Elems(completed[d])
          PROVE  x \in Jobs /\ x <= arrived[d] /\ x <= arrived'[d]
      <4>1. x \in Jobs /\ x <= arrived[d]
        BY <3>1, <3>2
      <4>2. QED  BY <2>4, <4>1 DEF Jobs
    <3>4. QED  BY <3>1, <3>2, <3>3
  <2>6. chan'[w] = <<n0>> /\ Increasing(<<n0>>) /\ Elems(<<n0>>) = {n0}
    BY <2>1 DEF FirstJob, Increasing, Elems
  <2>7. ASSUME NEW v \in Workers, Live(v)'
        PROVE  /\ Increasing(chan'[v])
               /\ \A y \in Elems(chan'[v]) : turn'[v] < y /\ y <= arrived'[owner'[v]]
               /\ turn'[v] <= arrived'[owner'[v]]
               /\ \A x \in Elems(completed'[owner'[v]]) :
                    /\ turn'[v] # 0 => x < turn'[v]
                    /\ \A y \in Elems(chan'[v]) : x < y
    <3>1. CASE v = w
      <4>1. /\ owner'[v] = c /\ turn'[v] = 0 /\ chan'[v] = <<n0>>
            /\ 0 < n0 /\ 0 <= n0 /\ n0 <= n0
        BY <2>1, <2>2, <2>6, <3>1 DEF Jobs
      <4>2. \A x \in Elems(completed'[c]) : x < n0
        BY <2>2, <2>4, <2>5, SMTT(30) DEF Jobs
      <4>3. Elems(chan'[v]) = {n0} /\ Increasing(chan'[v])
        BY <2>6, <4>1
      <4>4. arrived'[owner'[v]] = n0 /\ completed'[owner'[v]] = completed'[c]
        BY <2>4, <4>1
      <4>5. \A y \in Elems(chan'[v]) : y = n0
        BY <4>3
      <4>6. \A y \in Elems(chan'[v]) : turn'[v] < y /\ y <= arrived'[owner'[v]]
        BY <4>1, <4>4, <4>5
      <4>7. turn'[v] <= arrived'[owner'[v]]
        BY <4>1, <4>4
      <4>8. \A x \in Elems(completed'[owner'[v]]) :
               /\ turn'[v] # 0 => x < turn'[v]
               /\ \A y \in Elems(chan'[v]) : x < y
        BY <4>1, <4>2, <4>4, <4>5
      <4>9. QED  BY <4>3, <4>6, <4>7, <4>8
    <3>2. CASE v # w
      <4>1. Live(v) /\ owner'[v] = owner[v] /\ owner[v] # c
        BY <2>1, <2>3, <2>7, <3>2 DEF Live
      <4>2. chan'[v] = chan[v] /\ arrived'[owner'[v]] = arrived[owner[v]]
        BY <2>1, <2>2, <3>2, <4>1
      <4>3. QED
        BY <2>2, <4>1, <4>2 DEF OrderInv
    <3>3. QED  BY <3>1, <3>2
  <2>8. QED  BY <2>5, <2>7 DEF OrderInv
<1>4. ASSUME NEW w \in Workers, RecvJob(w)
      PROVE  OrderInv'
  <2>1. /\ chan' = [chan EXCEPT ![w] = Tail(@)]
        /\ turn' = [turn EXCEPT ![w] = Head(chan[w])]
        /\ arrived' = arrived /\ completed' = completed /\ owner' = owner
        /\ Live(w) /\ \A v \in Workers : Live(v)' <=> Live(v)
    BY <1>4 DEF RecvJob, historyVars, Live
  <2>2. /\ Elems(chan[w]) = {Head(chan[w])} \cup Elems(Tail(chan[w]))
        /\ Increasing(Tail(chan[w]))
        /\ \A y \in Elems(Tail(chan[w])) : Head(chan[w]) < y
    BY <1>4, <2>1, ElemsTail, IncreasingTail DEF RecvJob, OrderInv
  <2>3. QED  BY <2>1, <2>2 DEF OrderInv
<1>5. ASSUME NEW w \in Workers, FinishTurn(w)
      PROVE  OrderInv'
  <2> DEFINE c == owner[w]
  <2>1. /\ c \in Chats /\ turn[w] \in Jobs /\ Live(w)
        /\ completed' = [completed EXCEPT ![c] = Append(@, turn[w])]
        /\ turn' = [turn EXCEPT ![w] = 0]
        /\ arrived' = arrived /\ chan' = chan /\ owner' = owner
        /\ \A v \in Workers : Live(v)' <=> Live(v)
    BY <1>5 DEF FinishTurn, queueVars, Live, Jobs
  <2>2. /\ Increasing(completed'[c])
        /\ Elems(completed'[c]) = Elems(completed[c]) \cup {turn[w]}
    <3>1. \A x \in Elems(completed[c]) : x < turn[w]
      <4>1. turn[w] # 0  BY <2>1 DEF Jobs
      <4>2. QED  BY <2>1, <4>1 DEF OrderInv
    <3>2. QED
      BY <2>1, <3>1, IncreasingAppend, ElemsAppend DEF OrderInv
  <2>3. \A v \in Workers : v # w /\ Live(v) => owner[v] # c
    BY <2>1 DEF SerialTurns
  <2>4. \A d \in Chats : d # c => completed'[d] = completed[d]
    BY <2>1
  <2>5. \A v \in Workers : Elems(chan[v]) \subseteq Jobs
    BY DEF Elems
  <2>6. turn'[w] = 0 /\ \A v \in Workers : v # w => turn'[v] = turn[v]
    BY <2>1
  <2>7. \A y \in Elems(chan[w]) : 0 < y /\ turn[w] < y
    BY <2>1, <2>5 DEF Jobs, OrderInv
  <2>8. ASSUME NEW d \in Chats
        PROVE  /\ Increasing(completed'[d])
               /\ \A x \in Elems(completed'[d]) : x <= arrived'[d]
    BY <2>1, <2>2, <2>4 DEF OrderInv
  <2>9. ASSUME NEW v \in Workers, Live(v)'
        PROVE  /\ Increasing(chan'[v])
               /\ \A y \in Elems(chan'[v]) : turn'[v] < y /\ y <= arrived'[owner'[v]]
               /\ turn'[v] <= arrived'[owner'[v]]
               /\ \A x \in Elems(completed'[owner'[v]]) :
                    /\ turn'[v] # 0 => x < turn'[v]
                    /\ \A y \in Elems(chan'[v]) : x < y
    <3>1. CASE v = w
      <4>1. 0 <= arrived[c]
        OBVIOUS
      <4>2. \A y \in Elems(chan[w]) : y <= arrived[c]
                /\ \A x \in Elems(completed[c]) : x < y
        BY <2>1 DEF OrderInv
      <4>3. \A x \in Elems(completed'[c]) : \A y \in Elems(chan[w]) : x < y
        BY <2>2, <2>7, <4>2
      <4>4. Increasing(chan[w])
        BY <2>1 DEF OrderInv
      <4>5. QED
        BY <2>1, <2>6, <2>7, <3>1, <4>1, <4>2, <4>3, <4>4
    <3>2. CASE v # w
      <4>1. Live(v) /\ completed'[owner'[v]] = completed[owner[v]]
        BY <2>1, <2>3, <2>4, <2>9, <3>2
      <4>2. QED
        BY <2>1, <2>6, <3>2, <4>1 DEF OrderInv
    <3>3. QED  BY <3>1, <3>2
  <2>10. QED  BY <2>8, <2>9 DEF OrderInv
<1>6. ASSUME NEW w \in Workers, PanicTurn(w)
      PROVE  OrderInv'
  BY <1>6 DEF PanicTurn, OrderInv, Live
<1>7. ASSUME NEW w \in Workers, WorkerExit(w)
      PROVE  OrderInv'
  BY <1>7 DEF WorkerExit, OrderInv, Live, queueVars, historyVars
<1>8. CASE BeginShutdown
  BY <1>8 DEF BeginShutdown, OrderInv, Live, taskVars, historyVars
<1>9. CASE DrainDone
  BY <1>9 DEF DrainDone, OrderInv, Live, queueVars, taskVars, historyVars
<1>10. CASE GraceElapsed
  BY <1>10 DEF GraceElapsed, OrderInv, Live
<1>11. CASE UNCHANGED vars
  BY <1>11 DEF vars, OrderInv, Live, queueVars, taskVars, historyVars
<1>12. QED
  BY <1>1, <1>2, <1>3, <1>4, <1>5, <1>6, <1>7, <1>8, <1>9, <1>10, <1>11
     DEF Next, enqueue_turn, Worker, Shutdown

\* They are in order in every state.
LEMMA OrderInvariant == Spec => []OrderInv
<1>1. Init => OrderInv
  BY ElemsEmpty DEF Init, OrderInv, Increasing, Live
<1>2. QED
  BY <1>1, TypeInvariant, StructureInvariant, OrderStep, PTL DEF Spec

\* Messages of a chat are served in the order they arrived and none twice, across
\* every respawn of its worker (enqueue_turn, user_worker).
THEOREM FirstComeFirstServed == Spec => []ServedInOrder
<1>1. TypeInv /\ OrderInv => ServedInOrder
  <2> SUFFICES ASSUME TypeInv, OrderInv, NEW w \in Workers, Live(w)
               PROVE  Increasing(completed[owner[w]]
                         \o (IF turn[w] = 0 THEN << >> ELSE <<turn[w]>>) \o chan[w])
    BY DEF ServedInOrder, Increasing
  <2> USE DEF TypeInv, TypeOK
  <2> DEFINE done == completed[owner[w]]
  <2>1. done \in Seq(Jobs) /\ chan[w] \in Seq(Jobs)
    OBVIOUS
  <2>2. Below(done, chan[w]) /\ Increasing(done) /\ Increasing(chan[w])
    BY DEF OrderInv, Below
  <2>3. CASE turn[w] = 0
    <3>1. done \o << >> = done
      BY <2>1
    <3>2. QED  BY <2>1, <2>2, <2>3, <3>1, IncreasingConcat
  <2>4. CASE turn[w] # 0
    <3>1. turn[w] \in Jobs
      BY <2>4 DEF Jobs
    <3>2. /\ done \o <<turn[w]>> = Append(done, turn[w])
          /\ Append(done, turn[w]) \in Seq(Jobs)
      BY <2>1, <3>1
    <3>3. Increasing(Append(done, turn[w]))
      BY <2>1, <2>2, <2>4, <3>1, IncreasingAppend DEF OrderInv
    <3>4. Below(Append(done, turn[w]), chan[w])
      <4>1. Elems(Append(done, turn[w])) = Elems(done) \cup {turn[w]}
        BY <2>1, <3>1, ElemsAppend
      <4>2. \A y \in Elems(chan[w]) : turn[w] < y
        BY DEF OrderInv
      <4>3. QED  BY <2>2, <4>1, <4>2 DEF Below
    <3>5. QED
      BY <2>1, <2>2, <2>4, <3>2, <3>3, <3>4, IncreasingConcat
  <2>5. QED  BY <2>3, <2>4
<1>2. QED  BY <1>1, TypeInvariant, OrderInvariant, PTL

-----------------------------------------------------------------------------
(* Refinement of SerialService.                                            *)

\* The server of chat d is its one live worker, and idle and empty without one.
ServerOf(d) ==
    /\ LiveOf(d) = {} => ServerTurn(d) = 0 /\ ServerQueue(d) = << >>
    /\ \A w \in Workers : Live(w) /\ owner[w] = d =>
            ServerTurn(d) = turn[w] /\ ServerQueue(d) = chan[w]

ServerInv == \A d \in Chats : ServerOf(d)

\* With one live worker per chat, the mapping's CHOOSE has one thing to choose.
LEMMA ServerIsTheWorker == SerialTurns => ServerInv
<1> SUFFICES ASSUME SerialTurns, NEW d \in Chats
             PROVE  ServerOf(d)
  BY DEF ServerInv
<1>1. LiveOf(d) = {} => ServerTurn(d) = 0 /\ ServerQueue(d) = << >>
  BY DEF ServerTurn, ServerQueue
<1>2. ASSUME NEW w \in Workers, Live(w), owner[w] = d
      PROVE  ServerTurn(d) = turn[w] /\ ServerQueue(d) = chan[w]
  <2>1. LiveOf(d) = {w}
    BY <1>2 DEF LiveOf, SerialTurns
  <2>2. (CHOOSE v \in LiveOf(d) : TRUE) = w
    BY <2>1
  <2>3. QED  BY <2>1, <2>2 DEF ServerTurn, ServerQueue
<1>3. QED  BY <1>1, <1>2 DEF ServerOf

\* The server of a chat stands still in a step that leaves its live workers, and
\* what they hold, alone.
SameServer(d) == ServerTurn(d)' = ServerTurn(d) /\ ServerQueue(d)' = ServerQueue(d)

LEMMA ServerStands ==
    ASSUME ServerInv, ServerInv', NEW d \in Chats,
           \A w \in Workers : (Live(w) /\ owner[w] = d) <=> (Live(w)' /\ owner'[w] = d),
           \A w \in Workers : Live(w) /\ owner[w] = d =>
                turn'[w] = turn[w] /\ chan'[w] = chan[w]
    PROVE  SameServer(d)
<1>1. LiveOf(d)' = LiveOf(d)
  BY DEF LiveOf
<1>2. ServerOf(d) /\ ServerOf(d)'
  BY DEF ServerInv
<1>3. CASE LiveOf(d) = {}
  BY <1>1, <1>2, <1>3 DEF SameServer, ServerOf
<1>4. CASE LiveOf(d) # {}
  <2>1. PICK w \in Workers : Live(w) /\ owner[w] = d
    BY <1>4 DEF LiveOf
  <2>2. Live(w)' /\ owner'[w] = d
    BY <2>1
  <2>3. QED  BY <1>2, <2>1, <2>2 DEF SameServer, ServerOf
<1>5. QED  BY <1>3, <1>4

\* The variables of the abstract servers, as functions of the chat.
Current == [d \in Chats |-> ServerTurn(d)]
Waiting == [d \in Chats |-> ServerQueue(d)]

\* A step in which every server stands still changes none of them.
LEMMA ServersStand ==
    ASSUME \A d \in Chats : SameServer(d)
    PROVE  Current' = Current /\ Waiting' = Waiting
BY DEF Current, Waiting, SameServer

\* What a chat's server holds is what the live workers of the chat hold.
LEMMA HeldByServer ==
    ASSUME SerialTurns, ServerInv, NEW d \in Chats
    PROVE  /\ Service!Holds(d) = UNION {JobsHeld(w) : w \in LiveOf(d)}
           /\ \A w \in Workers : Live(w) /\ owner[w] = d => Service!Holds(d) = JobsHeld(w)
<1>1. Service!Holds(d) = ({ServerTurn(d)} \ {0}) \cup Elems(ServerQueue(d))
  BY DEF Service!Holds, Elems
<1>2. ASSUME NEW w \in Workers, Live(w), owner[w] = d
      PROVE  Service!Holds(d) = JobsHeld(w) /\ LiveOf(d) = {w}
  <2>1. LiveOf(d) = {w}
    BY <1>2 DEF LiveOf, SerialTurns
  <2>2. ServerTurn(d) = turn[w] /\ ServerQueue(d) = chan[w]
    BY <1>2 DEF ServerInv, ServerOf
  <2>3. QED  BY <1>1, <2>1, <2>2 DEF JobsHeld
<1>3. CASE LiveOf(d) = {}
  <2>1. ServerTurn(d) = 0 /\ ServerQueue(d) = << >>
    BY <1>3 DEF ServerInv, ServerOf
  <2>2. Service!Holds(d) = {}
    BY <1>1, <2>1, ElemsEmpty
  <2>3. \A w \in Workers : ~(Live(w) /\ owner[w] = d)
    BY <1>3 DEF LiveOf
  <2>4. QED  BY <1>3, <2>2, <2>3
<1>4. CASE LiveOf(d) # {}
  <2>1. PICK w \in Workers : Live(w) /\ owner[w] = d
    BY <1>4 DEF LiveOf
  <2>2. LiveOf(d) = {w} /\ Service!Holds(d) = JobsHeld(w)
    BY <1>2, <2>1
  <2>3. UNION {JobsHeld(v) : v \in LiveOf(d)} = JobsHeld(w)
    BY <2>2
  <2>4. QED  BY <1>2, <2>2, <2>3
<1>5. QED  BY <1>3, <1>4

\* Every step of a worker, of enqueue_turn and of shutdown is a step of the serial
\* servers, or none.
LEMMA ServiceStep ==
    ASSUME TypeInv, StructureInv, SerialTurns, ServerInv, ServerInv', [Next]_vars
    PROVE  [Service!Next]_(Service!serverVars)
<1> USE DEF TypeInv, TypeOK
<1>0. ASSUME \A d \in Chats : SameServer(d), arrived' = arrived,
             completed' = completed, lost' = lost, panics' = panics, phase' = phase
      PROVE  UNCHANGED Service!serverVars
  BY <1>0, ServersStand DEF Service!serverVars, Current, Waiting
<1>1. ASSUME NEW c \in Chats, EnqueueBehind(c)
      PROVE  Service!Take(c)
  <2>1. PICK w \in Workers : w = user_queues[c] /\ Live(w) /\ owner[w] = c
    BY <1>1 DEF EnqueueBehind, HasLiveWorker, StructureInv, Live
  <2>2. /\ task' = task /\ owner' = owner /\ turn' = turn
        /\ chan' = [chan EXCEPT ![w] = Append(@, arrived[c] + 1)]
    BY <1>1, <2>1 DEF EnqueueBehind, taskVars
  <2>3. Live(w)' /\ owner'[w] = c
    BY <2>1, <2>2 DEF Live
  <2>4. /\ ServerTurn(c) = turn[w] /\ ServerQueue(c) = chan[w]
        /\ ServerTurn(c)' = turn'[w] /\ ServerQueue(c)' = chan'[w]
    BY <2>1, <2>3 DEF ServerInv, ServerOf
  <2>5. ASSUME NEW d \in Chats, d # c  PROVE SameServer(d)
    <3>1. /\ \A v \in Workers : (Live(v) /\ owner[v] = d) <=> (Live(v)' /\ owner'[v] = d)
          /\ \A v \in Workers : Live(v) /\ owner[v] = d =>
                turn'[v] = turn[v] /\ chan'[v] = chan[v]
      BY <2>1, <2>2, <2>5 DEF Live
    <3>2. QED  BY <3>1, ServerStands
  <2>6. Current' = Current
    BY <2>2, <2>4, <2>5 DEF Current, SameServer
  <2>7. Waiting' = [Waiting EXCEPT ![c] = Append(@, arrived[c] + 1)]
    BY <2>1, <2>2, <2>4, <2>5 DEF Waiting, SameServer
  <2>8. Len(Waiting[c]) < USER_QUEUE_DEPTH
    <3>1. Len(chan[w]) \in Nat /\ Len(chan[w]) <= USER_QUEUE_DEPTH
      BY <2>1
    <3>2. Len(chan[w]) # USER_QUEUE_DEPTH
      BY <1>1, <2>1 DEF EnqueueBehind, QueueFull
    <3>3. QED  BY <2>4, <3>1, <3>2 DEF Waiting
  <2>9. /\ phase = "serving" /\ arrived[c] < MaxArrivals
        /\ arrived' = [arrived EXCEPT ![c] = @ + 1]
        /\ completed' = completed /\ phase' = phase
        /\ lost' = lost /\ panics' = panics
    BY <1>1 DEF EnqueueBehind, Arrive, exitVars
  <2>10. QED
    BY <2>6, <2>7, <2>8, <2>9 DEF Service!Take, Service!Arrives, Current, Waiting
<1>2. ASSUME NEW c \in Chats, EnqueueFull(c)
      PROVE  Service!Refuse(c)
  <2> DEFINE w == user_queues[c]
  <2>1. w \in Workers /\ Live(w) /\ owner[w] = c
    BY <1>2 DEF EnqueueFull, HasLiveWorker, StructureInv, Live
  <2>2. task' = task /\ owner' = owner /\ turn' = turn /\ chan' = chan
    BY <1>2 DEF EnqueueFull, taskVars, queueVars
  <2>3. \A d \in Chats : SameServer(d)
    BY <2>2, ServerStands DEF Live
  <2>4. Current' = Current /\ Waiting' = Waiting
    BY <2>3, ServersStand
  <2>5. Waiting[c] = chan[w]
    BY <2>1 DEF Waiting, ServerInv, ServerOf
  <2>6. Len(chan[w]) = USER_QUEUE_DEPTH
    BY <1>2, <2>1 DEF EnqueueFull, QueueFull
  <2>7. /\ phase = "serving" /\ arrived[c] < MaxArrivals
        /\ arrived' = [arrived EXCEPT ![c] = @ + 1]
        /\ completed' = completed /\ phase' = phase
        /\ lost' = lost /\ panics' = panics
    BY <1>2 DEF EnqueueFull, Arrive, exitVars, historyVars
  <2>8. QED
    BY <2>4, <2>5, <2>6, <2>7 DEF Service!Refuse, Service!Arrives, Current, Waiting
<1>3. ASSUME NEW c \in Chats, EnqueueSpawn(c)
      PROVE  Service!Take(c)
  <2>1. PICK w \in Workers :
            /\ task[w] = "unborn"
            /\ user_queues' = [user_queues EXCEPT ![c] = w]
            /\ chan' = [chan EXCEPT ![w] = FirstJob(c)]
            /\ task' = [task EXCEPT ![w] = "idle"]
            /\ owner' = [owner EXCEPT ![w] = c]
    BY <1>3 DEF EnqueueSpawn
  <2>2. /\ phase = "serving" /\ arrived[c] < MaxArrivals
        /\ arrived' = [arrived EXCEPT ![c] = @ + 1]
        /\ completed' = completed /\ phase' = phase /\ turn' = turn
        /\ lost' = lost /\ panics' = panics
    BY <1>3 DEF EnqueueSpawn, Arrive, exitVars
  <2>3. \A v \in Workers : Live(v) => owner[v] # c
    BY <1>3, <2>2, SMTT(30) DEF EnqueueSpawn, HasLiveWorker, StructureInv, Live
  <2>4. ServerTurn(c) = 0 /\ ServerQueue(c) = << >>
    BY <2>3 DEF ServerInv, ServerOf, LiveOf
  <2>5. Live(w)' /\ owner'[w] = c /\ chan'[w] = <<arrived[c] + 1>> /\ turn'[w] = 0
    BY <2>1, <2>2 DEF Live, FirstJob
  <2>6. ServerTurn(c)' = 0 /\ ServerQueue(c)' = <<arrived[c] + 1>>
    BY <2>5 DEF ServerInv, ServerOf
  <2>7. ASSUME NEW d \in Chats, d # c  PROVE SameServer(d)
    <3>1. /\ \A v \in Workers : (Live(v) /\ owner[v] = d) <=> (Live(v)' /\ owner'[v] = d)
          /\ \A v \in Workers : Live(v) /\ owner[v] = d =>
                turn'[v] = turn[v] /\ chan'[v] = chan[v]
      BY <2>1, <2>2, <2>7 DEF Live
    <3>2. QED  BY <3>1, ServerStands
  <2>8. Current' = Current
    BY <2>4, <2>6, <2>7 DEF Current, SameServer
  <2>9. Append(<< >>, arrived[c] + 1) = <<arrived[c] + 1>>
    OBVIOUS
  <2>10. Waiting' = [Waiting EXCEPT ![c] = Append(@, arrived[c] + 1)]
    BY <2>4, <2>6, <2>7, <2>9 DEF Waiting, SameServer
  <2>11. Len(Waiting[c]) < USER_QUEUE_DEPTH
    BY <2>4 DEF Waiting
  <2>12. QED
    BY <2>2, <2>8, <2>10, <2>11 DEF Service!Take, Service!Arrives, Current, Waiting
<1>4. ASSUME NEW w \in Workers, RecvJob(w)
      PROVE  Service!Start(owner[w])
  <2> DEFINE c == owner[w]
  <2>1. /\ Live(w) /\ Live(w)' /\ owner' = owner /\ c \in Chats
        /\ arrived' = arrived /\ completed' = completed /\ phase' = phase
        /\ turn' = [turn EXCEPT ![w] = Head(chan[w])]
        /\ chan' = [chan EXCEPT ![w] = Tail(@)]
        /\ turn[w] = 0 /\ chan[w] # << >>
        /\ lost' = lost /\ panics' = panics
    BY <1>4 DEF RecvJob, Live, exitVars, historyVars
  <2>2. /\ ServerTurn(c) = turn[w] /\ ServerQueue(c) = chan[w]
        /\ ServerTurn(c)' = turn'[w] /\ ServerQueue(c)' = chan'[w]
    BY <2>1 DEF ServerInv, ServerOf
  <2>3. \A v \in Workers : Live(v)' <=> Live(v)
    BY <1>4 DEF RecvJob, Live
  <2>4. ASSUME NEW d \in Chats, d # c  PROVE SameServer(d)
    <3>1. \A v \in Workers : Live(v) /\ owner[v] = d =>
                turn'[v] = turn[v] /\ chan'[v] = chan[v]
      BY <2>1, <2>4
    <3>2. QED  BY <2>1, <2>3, <3>1, ServerStands
  <2>5. Current' = [Current EXCEPT ![c] = Head(Waiting[c])]
    BY <2>1, <2>2, <2>4 DEF Current, Waiting, SameServer
  <2>6. Waiting' = [Waiting EXCEPT ![c] = Tail(@)]
    BY <2>1, <2>2, <2>4 DEF Waiting, SameServer
  <2>7. Current[c] = 0 /\ Waiting[c] # << >>
    BY <2>1, <2>2 DEF Current, Waiting
  <2>8. QED
    BY <2>1, <2>5, <2>6, <2>7 DEF Service!Start, Current, Waiting
<1>5. ASSUME NEW w \in Workers, FinishTurn(w)
      PROVE  Service!Finish(owner[w])
  <2> DEFINE c == owner[w]
  <2>1. /\ Live(w) /\ Live(w)' /\ owner' = owner /\ c \in Chats
        /\ arrived' = arrived /\ phase' = phase /\ chan' = chan
        /\ completed' = [completed EXCEPT ![c] = Append(@, turn[w])]
        /\ turn' = [turn EXCEPT ![w] = 0] /\ turn[w] # 0
        /\ lost' = lost /\ panics' = panics
    BY <1>5 DEF FinishTurn, Live, exitVars, queueVars
  <2>2. /\ ServerTurn(c) = turn[w] /\ ServerQueue(c) = chan[w]
        /\ ServerTurn(c)' = turn'[w] /\ ServerQueue(c)' = chan'[w]
    BY <2>1 DEF ServerInv, ServerOf
  <2>3. \A v \in Workers : Live(v)' <=> Live(v)
    BY <1>5 DEF FinishTurn, Live
  <2>4. ASSUME NEW d \in Chats, d # c  PROVE SameServer(d)
    <3>1. \A v \in Workers : Live(v) /\ owner[v] = d =>
                turn'[v] = turn[v] /\ chan'[v] = chan[v]
      BY <2>1, <2>4
    <3>2. QED  BY <2>1, <2>3, <3>1, ServerStands
  <2>5. Current' = [Current EXCEPT ![c] = 0] /\ Waiting' = Waiting
    BY <2>1, <2>2, <2>4 DEF Current, Waiting, SameServer
  <2>6. Current[c] = turn[w]
    BY <2>1, <2>2 DEF Current
  <2>7. QED
    BY <2>1, <2>5, <2>6 DEF Service!Finish, Current, Waiting
<1>6. ASSUME NEW w \in Workers, PanicTurn(w)
      PROVE  Service!Crash(owner[w])
  <2>1. PICK c \in Chats :
        /\ c = owner[w] /\ Live(w) /\ ~Live(w)' /\ owner' = owner
        /\ arrived' = arrived /\ completed' = completed /\ phase' = phase
        /\ panics' = panics + 1 /\ turn[w] # 0
        /\ lost' = [lost EXCEPT ![c] = @ \cup JobsHeld(w)]
        /\ chan' = [chan EXCEPT ![w] = << >>] /\ turn' = [turn EXCEPT ![w] = 0]
        /\ task' = [task EXCEPT ![w] = "gone"]
    BY <1>6 DEF PanicTurn, Live, exitVars
  <2>2. \A v \in Workers : v # w => (Live(v)' <=> Live(v))
    BY <2>1 DEF Live
  <2>3. LiveOf(c)' = {}
    BY <2>1, <2>2 DEF LiveOf, SerialTurns
  <2>4. ServerTurn(c)' = 0 /\ ServerQueue(c)' = << >>
    BY <2>1, <2>3 DEF ServerInv, ServerOf
  <2>5. ASSUME NEW d \in Chats, d # c  PROVE SameServer(d)
    <3>1. /\ \A v \in Workers : (Live(v) /\ owner[v] = d) <=> (Live(v)' /\ owner'[v] = d)
          /\ \A v \in Workers : Live(v) /\ owner[v] = d =>
                turn'[v] = turn[v] /\ chan'[v] = chan[v]
      BY <2>1, <2>2, <2>5
    <3>2. QED  BY <3>1, ServerStands
  <2>6. Current' = [Current EXCEPT ![c] = 0]
    BY <2>4, <2>5 DEF Current, SameServer
  <2>7. Waiting' = [Waiting EXCEPT ![c] = << >>]
    BY <2>4, <2>5 DEF Waiting, SameServer
  <2>8. Current[c] # 0
    BY <2>1 DEF Current, ServerInv, ServerOf
  <2>9. lost' = [lost EXCEPT ![c] = @ \cup Service!Holds(c)]
    BY <2>1, HeldByServer
  <2>10. QED
    BY <2>1, <2>6, <2>7, <2>8, <2>9 DEF Service!Crash, Current, Waiting
<1>7. ASSUME NEW w \in Workers, WorkerExit(w)
      PROVE  UNCHANGED Service!serverVars
  <2> DEFINE c == owner[w]
  <2>1. /\ Live(w) /\ ~Live(w)' /\ owner' = owner /\ c \in Chats
        /\ arrived' = arrived /\ completed' = completed /\ phase' = phase
        /\ chan' = chan /\ turn' = turn /\ turn[w] = 0 /\ chan[w] = << >>
        /\ task' = [task EXCEPT ![w] = "gone"] /\ lost' = lost /\ panics' = panics
    BY <1>7 DEF WorkerExit, RecvIsNone, Live, exitVars, queueVars, historyVars
  <2>2. \A v \in Workers : v # w => (Live(v)' <=> Live(v))
    BY <2>1 DEF Live
  <2>3. LiveOf(c)' = {}
    BY <2>1, <2>2 DEF LiveOf, SerialTurns
  <2>4. SameServer(c)
    BY <2>1, <2>3 DEF ServerInv, ServerOf, SameServer
  <2>5. ASSUME NEW d \in Chats, d # c  PROVE SameServer(d)
    <3>1. \A v \in Workers : (Live(v) /\ owner[v] = d) <=> (Live(v)' /\ owner'[v] = d)
      BY <2>1, <2>2, <2>5
    <3>2. QED  BY <2>1, <3>1, ServerStands
  <2>6. QED  BY <1>0, <2>1, <2>4, <2>5
<1>8. ASSUME BeginShutdown
      PROVE  Service!Close
  <2>1. /\ task' = task /\ owner' = owner /\ turn' = turn /\ chan' = chan
        /\ arrived' = arrived /\ completed' = completed
        /\ phase = "serving" /\ phase' = "draining"
        /\ lost' = lost /\ panics' = panics
    BY <1>8 DEF BeginShutdown, taskVars, historyVars
  <2>2. \A d \in Chats : SameServer(d)
    BY <2>1, ServerStands DEF Live
  <2>3. Current' = Current /\ Waiting' = Waiting
    BY <2>2, ServersStand
  <2>4. QED  BY <2>1, <2>3 DEF Service!Close, Current, Waiting
<1>9. ASSUME DrainDone
      PROVE  Service!End
  <2>1. /\ task' = task /\ owner' = owner /\ turn' = turn /\ chan' = chan
        /\ arrived' = arrived /\ completed' = completed
        /\ phase = "draining" /\ phase' = "drained"
        /\ lost' = lost /\ panics' = panics
    BY <1>9 DEF DrainDone, taskVars, queueVars, historyVars
  <2>2. \A d \in Chats : SameServer(d)
    BY <2>1, ServerStands DEF Live
  <2>3. Current' = Current /\ Waiting' = Waiting
    BY <2>2, ServersStand
  <2>4. \A w \in Workers : ~Live(w)
    BY <1>9, <2>1 DEF DrainDone, HandlesEnded, StructureInv, Live
  <2>5. \A d \in Chats : Current[d] = 0 /\ Waiting[d] = << >>
    BY <2>4 DEF Current, Waiting, ServerInv, ServerOf, LiveOf
  <2>6. QED  BY <2>1, <2>3, <2>5 DEF Service!End, Current, Waiting
<1>10. ASSUME GraceElapsed
       PROVE  Service!CutOff
  <2>1. /\ task' = [w \in Workers |-> IF Live(w) THEN "gone" ELSE task[w]]
        /\ arrived' = arrived /\ completed' = completed /\ panics' = panics
        /\ phase = "draining" /\ phase' = "cut"
        /\ lost' = [c \in Chats |-> lost[c] \cup UNION {JobsHeld(w) : w \in LiveOf(c)}]
    BY <1>10 DEF GraceElapsed
  <2>2. \A w \in Workers : ~Live(w)'
    BY <2>1 DEF Live
  <2>3. \A d \in Chats : ServerTurn(d)' = 0 /\ ServerQueue(d)' = << >>
    BY <2>2 DEF ServerInv, ServerOf, LiveOf
  <2>4. \A d \in Chats : Service!Holds(d) = UNION {JobsHeld(w) : w \in LiveOf(d)}
    BY HeldByServer
  <2>5. lost' = [d \in Chats |-> lost[d] \cup Service!Holds(d)]
    BY <2>1, <2>4
  <2>6. QED  BY <2>1, <2>3, <2>5 DEF Service!CutOff
<1>11. ASSUME UNCHANGED vars
       PROVE  UNCHANGED Service!serverVars
  <2>1. /\ task' = task /\ owner' = owner /\ turn' = turn /\ chan' = chan
        /\ arrived' = arrived /\ completed' = completed /\ phase' = phase
        /\ lost' = lost /\ panics' = panics
    BY <1>11 DEF vars, taskVars, queueVars, historyVars, exitVars
  <2>2. \A d \in Chats : SameServer(d)
    BY <2>1, ServerStands DEF Live
  <2>3. QED  BY <1>0, <2>1, <2>2
<1>12. CASE \E c \in Chats : enqueue_turn(c)
  BY <1>1, <1>2, <1>3, <1>12 DEF enqueue_turn, Service!Next
<1>13. CASE \E w \in Workers : Worker(w)
  <2>1. \A w \in Workers : owner[w] \in Chats
    OBVIOUS
  <2>2. QED
    BY <1>4, <1>5, <1>6, <1>7, <1>13, <2>1 DEF Worker, Service!Next
<1>14. CASE Shutdown
  BY <1>8, <1>9, <1>10, <1>14 DEF Shutdown, Service!Next
<1>15. QED  BY <1>11, <1>12, <1>13, <1>14 DEF Next

\* The queues, workers and shutdown of the bot implement the serial servers: what a
\* chat sees is one bounded first-come first-served queue, with one job in service,
\* that a panic of that job or the end of the grace empties and nothing else does,
\* and that is empty when a drain ends (enqueue_turn, user_worker, shutdown); for
\* any chats, workers, depth and bounds.
THEOREM QueuesAreSerialServers == Spec => ImplementsSerialService
<1>1. Init => Service!Init
  <2>1. ASSUME Init, NEW d \in Chats
        PROVE  ServerTurn(d) = 0 /\ ServerQueue(d) = << >>
    BY <2>1 DEF Init, ServerTurn, ServerQueue, LiveOf, Live
  <2>2. QED  BY <2>1 DEF Init, Service!Init
<1>2. TypeInv /\ StructureInv /\ SerialTurns /\ ServerInv /\ ServerInv' /\ [Next]_vars
        => [Service!Next]_(Service!serverVars)
  BY ServiceStep
<1>3. QED
  BY <1>1, <1>2, TypeInvariant, StructureInvariant, ServerIsTheWorker, PTL
     DEF Spec, ImplementsSerialService, Service!Spec

=============================================================================
