------------------------ MODULE SessionRoutingProofs ------------------------
(***************************************************************************)
(* What session routing promises for any chats, slots, messages, faults    *)
(* and commands, and the way of a message into its turn for any texts,     *)
(* files, depth of the queue and time to live.                             *)
(***************************************************************************)
EXTENDS RoutingAndMedia, SequenceTheorems, TLAPS

\* The constants one by one.
LEMMA Bounds ==
    /\ QueueDepth \in Nat /\ MaxMessages \in Nat /\ MaxSessions \in Nat
    /\ MaxFaults \in Nat /\ MaxCommands \in Nat
    /\ Slots # {} /\ HasAskRules \in BOOLEAN
BY BoundsAssumption, SlotsAssumption

-----------------------------------------------------------------------------
(* Types.                                                                  *)

Stops == [slot : Slots, sid : 0..Len(home), upto : 0..MaxMessages]

Histories == [all : SUBSET SessionIds, retired : SUBSET SessionIds]

OpencodeType ==
    /\ home \in Seq(Slots) /\ Len(home) <= MaxSessions
    /\ live \subseteq 1..Len(home)
    /\ gated \subseteq 1..Len(home)

StoreType ==
    /\ binding \in [Chats -> Slots]
    /\ routing \in [Chats -> 0..Len(home)]

QueueType ==
    /\ waiting \in [Chats -> Seq(Job)]
    /\ sent \in [Chats -> 0..MaxMessages]

\* A request that names a session has one to name.
Sound(t, n) == t.sid \in IF t.at \in {"idle", "create"} THEN 0..n ELSE 1..n

TurnType ==
    /\ turn \in [Chats -> TurnRecord]
    /\ \A c \in Chats : Sound(turn[c], Len(home))

StopType == stop \in [Chats -> Stops]

CounterType ==
    /\ faults \in 0..MaxFaults
    /\ commands \in 0..MaxCommands
    /\ raced \in [Chats -> BOOLEAN]
    /\ undisturbed \in BOOLEAN

\* A chat has run only in sessions that exist.
HistoryType ==
    /\ ranIn \in [Chats -> Histories]
    /\ \A c \in Chats : ranIn[c].all \subseteq 1..Len(home)

TypeInv ==
    /\ OpencodeType /\ StoreType /\ QueueType /\ TurnType /\ StopType /\ CounterType
    /\ HistoryType

LEMMA LenHome == ASSUME TypeInv PROVE Len(home) \in Nat /\ 1..Len(home) \subseteq SessionIds
<1>1. Len(home) \in Nat /\ Len(home) <= MaxSessions
    BY LenProperties DEF TypeInv, OpencodeType
<1> QED BY <1>1, Bounds DEF SessionIds

LEMMA NoTurnFacts ==
    /\ NoJob \in Job
    /\ NoTurn \in TurnRecord /\ NoTurn.at = "idle" /\ NoTurn.sid = 0
    /\ NoStop.slot \in Slots /\ NoStop.sid = 0 /\ NoStop.upto = 0
<1>1. (CHOOSE s \in Slots : TRUE) \in Slots
    BY Bounds
<1>2. NoJob \in Job
    BY <1>1, Bounds DEF NoJob, Job
<1>3. NoTurn.at = "idle" /\ NoTurn.sid = 0
    BY DEF NoTurn, NoSession
<1>4. NoTurn \in TurnRecord
    BY <1>2, Bounds DEF NoTurn, NoSession, TurnRecord
<1>5. NoStop.slot \in Slots /\ NoStop.sid = 0 /\ NoStop.upto = 0
    BY <1>1 DEF NoStop, NoSession
<1> QED BY <1>2, <1>3, <1>4, <1>5

\* Sessions are only added.
LEMMA OpencodeStep ==
    ASSUME TypeInv, [Next]_vars
    PROVE  OpencodeType' /\ Len(home') \in Nat /\ Len(home) <= Len(home')
<1> USE DEF TypeInv, OpencodeType
<1>1. Len(home) \in Nat
    BY LenHome
<1>2. ASSUME UNCHANGED opencodeVars
      PROVE  OpencodeType' /\ Len(home') = Len(home)
    BY <1>2 DEF opencodeVars
<1>3. ASSUME NEW c \in Chats, CreateAnswer(c)
      PROVE  OpencodeType' /\ Len(home') = Len(home) + 1
    <2>1. turn[c].job.slot \in Slots
        BY DEF TurnType, TurnRecord, Job
    <2>2. home' = Append(home, turn[c].job.slot) /\ Len(home) + 1 <= MaxSessions
        BY <1>3 DEF CreateAnswer
    <2>3. home' \in Seq(Slots) /\ Len(home') = Len(home) + 1
        BY <2>1, <2>2, AppendProperties
    <2>4. live' = live \cup {Len(home) + 1} /\ gated' = gated
        BY <1>3 DEF CreateAnswer
    <2>5. 1..Len(home) \subseteq 1..Len(home') /\ Len(home) + 1 \in 1..Len(home')
        BY <1>1, <2>3
    <2>6. live' \subseteq 1..Len(home') /\ gated' \subseteq 1..Len(home')
        BY <2>4, <2>5
    <2> QED BY <2>2, <2>3, <2>6
<1>4. ASSUME NEW c \in Chats, PatchAnswer(c)
      PROVE  OpencodeType' /\ Len(home') = Len(home)
    <2>1. turn[c].sid \in 1..Len(home)
        BY <1>4 DEF PatchAnswer, TurnAt, TurnType, Sound
    <2> QED BY <1>4, <2>1 DEF PatchAnswer, PatchedSet
<1>5. ASSUME NEW s \in Slots, Wipe(s)
      PROVE  OpencodeType' /\ Len(home') = Len(home)
    BY <1>5 DEF Wipe
<1>6. ASSUME NEW c \in Chats,
             \/ HandleMessage(c) \/ HandleNew(c) \/ HandleStop(c) \/ HandleStopNothing(c)
             \/ AbortAnswer(c) \/ (\E s \in Slots : Rebind(c, s))
             \/ StartTurn(c) \/ ExistsAnswer(c) \/ Persist(c) \/ PromptTaken(c)
             \/ PromptAnswer(c) \/ RequestFails(c) \/ StartFails(c) \/ AbortFails(c)
      PROVE  UNCHANGED opencodeVars
    BY <1>6 DEF HandleMessage, HandleNew, HandleStop, HandleStopNothing, AbortAnswer, Rebind,
                StartTurn, ExistsAnswer, Persist, PromptTaken, PromptAnswer, RequestFails,
                StartFails, AbortFails
<1>7. Crash \/ UNCHANGED vars => UNCHANGED opencodeVars
    BY DEF Crash, vars
<1>8. \/ UNCHANGED opencodeVars
      \/ \E c \in Chats : CreateAnswer(c) \/ PatchAnswer(c)
      \/ \E s \in Slots : Wipe(s)
    BY <1>6, <1>7 DEF Next, Worker
<1>9. OpencodeType' /\ (Len(home') = Len(home) \/ Len(home') = Len(home) + 1)
    BY <1>2, <1>3, <1>4, <1>5, <1>8
<1> QED BY <1>1, <1>9

LEMMA StoreStep ==
    ASSUME TypeInv, [Next]_vars
    PROVE  StoreType'
<1> USE DEF TypeInv, StoreType
<1>1. Len(home) \in Nat /\ Len(home') \in Nat /\ Len(home) <= Len(home')
    BY OpencodeStep, LenHome
<1>2. CASE UNCHANGED storeVars
    BY <1>1, <1>2 DEF storeVars
<1>3. ASSUME NEW c \in Chats, HandleNew(c)
      PROVE  StoreType'
    BY <1>1, <1>3 DEF HandleNew, Cleared, NoSession
<1>4. ASSUME NEW c \in Chats, NEW s \in Slots, Rebind(c, s)
      PROVE  StoreType'
    BY <1>1, <1>4 DEF Rebind
<1>5. ASSUME NEW c \in Chats, Persist(c)
      PROVE  StoreType'
    <2>1. turn[c].sid \in 1..Len(home)
        BY <1>5 DEF Persist, TurnAt, TurnType, Sound
    <2> QED BY <1>1, <1>5, <2>1 DEF Persist
<1>6. ASSUME NEW c \in Chats,
             \/ HandleMessage(c) \/ HandleStop(c) \/ HandleStopNothing(c) \/ AbortAnswer(c)
             \/ StartTurn(c) \/ ExistsAnswer(c) \/ CreateAnswer(c) \/ PatchAnswer(c)
             \/ PromptTaken(c) \/ PromptAnswer(c) \/ RequestFails(c) \/ StartFails(c)
             \/ AbortFails(c)
      PROVE  UNCHANGED storeVars
    BY <1>6 DEF HandleMessage, HandleStop, HandleStopNothing, AbortAnswer, StartTurn, ExistsAnswer,
                CreateAnswer, PatchAnswer, PromptTaken, PromptAnswer, RequestFails, StartFails,
                AbortFails
<1>7. Crash \/ UNCHANGED vars \/ (\E s \in Slots : Wipe(s)) => UNCHANGED storeVars
    BY DEF Crash, vars, Wipe
<1> QED BY <1>2, <1>3, <1>4, <1>5, <1>6, <1>7 DEF Next, Worker

LEMMA QueueStep ==
    ASSUME TypeInv, [Next]_vars
    PROVE  QueueType'
<1> USE DEF TypeInv, QueueType
<1>1. CASE UNCHANGED <<waiting, sent>>
    BY <1>1
<1>2. ASSUME NEW c \in Chats, HandleMessage(c)
      PROVE  QueueType'
    <2> DEFINE job == [n |-> sent[c] + 1, slot |-> binding[c], retired |-> ranIn[c].retired]
    <2>1. sent[c] + 1 \in 0..MaxMessages
        BY <1>2, Bounds DEF HandleMessage
    <2>2. ranIn[c].retired \in SUBSET SessionIds
        BY DEF HistoryType, Histories
    <2>3. job \in Job
        BY <2>1, <2>2 DEF Job, StoreType
    <2>4. waiting' = [waiting EXCEPT ![c] = Append(waiting[c], job)]
        BY <1>2 DEF HandleMessage
    <2>5. Append(waiting[c], job) \in Seq(Job)
        BY <2>3, AppendProperties
    <2> HIDE DEF job
    <2>6. waiting' \in [Chats -> Seq(Job)]
        BY <2>4, <2>5
    <2>7. sent' \in [Chats -> 0..MaxMessages]
        BY <1>2, <2>1 DEF HandleMessage
    <2> QED BY <2>6, <2>7
<1>3. ASSUME NEW c \in Chats, StartTurn(c) \/ StartFails(c)
      PROVE  QueueType'
    <2>1. Tail(waiting[c]) \in Seq(Job)
        BY <1>3, HeadTailProperties DEF StartTurn, StartFails
    <2>2. waiting' = [waiting EXCEPT ![c] = Tail(waiting[c])] /\ sent' = sent
        BY <1>3 DEF StartTurn, StartFails, boundVars
    <2> QED BY <2>1, <2>2
<1>4. CASE Crash
    BY <1>4, EmptySeq DEF Crash
<1>5. ASSUME NEW c \in Chats,
             \/ HandleNew(c) \/ HandleStop(c) \/ HandleStopNothing(c) \/ AbortAnswer(c)
             \/ (\E s \in Slots : Rebind(c, s))
             \/ ExistsAnswer(c) \/ CreateAnswer(c) \/ PatchAnswer(c) \/ Persist(c)
             \/ PromptTaken(c) \/ PromptAnswer(c) \/ RequestFails(c) \/ AbortFails(c)
      PROVE  UNCHANGED <<waiting, sent>>
    BY <1>5 DEF HandleNew, HandleStop, HandleStopNothing, AbortAnswer, Rebind, ExistsAnswer,
                CreateAnswer, PatchAnswer, Persist, PromptTaken, PromptAnswer, RequestFails,
                AbortFails, boundVars
<1>6. UNCHANGED vars \/ (\E s \in Slots : Wipe(s)) => UNCHANGED <<waiting, sent>>
    BY DEF vars, Wipe, boundVars
<1> QED BY <1>1, <1>2, <1>3, <1>4, <1>5, <1>6 DEF Next, Worker

\* A turn ends, or goes on as t.
TurnBecomes(c, t) == turn' = [turn EXCEPT ![c] = t]

LEMMA TurnBecomesSound ==
    ASSUME TypeInv, NEW c \in Chats, NEW t \in TurnRecord, TurnBecomes(c, t),
           Len(home') \in Nat, Len(home) <= Len(home'), Sound(t, Len(home'))
    PROVE  TurnType'
<1>1. turn' \in [Chats -> TurnRecord]
    BY DEF TurnBecomes, TypeInv, TurnType
<1>2. ASSUME NEW d \in Chats, d # c PROVE Sound(turn'[d], Len(home'))
    <2>1. turn'[d] = turn[d] /\ Sound(turn[d], Len(home))
        BY <1>2 DEF TurnBecomes, TypeInv, TurnType
    <2> QED BY <2>1, LenHome DEF Sound
<1>3. turn'[c] = t
    BY DEF TurnBecomes, TypeInv, TurnType
<1>4. ASSUME NEW d \in Chats PROVE Sound(turn'[d], Len(home'))
    BY <1>2, <1>3
<1> QED BY <1>1, <1>4 DEF TurnType

\* A turn goes on at another await, in the same session.
GoesOn(c, at) == TurnBecomes(c, [turn[c] EXCEPT !.at = at])

LEMMA GoesOnSound ==
    ASSUME TypeInv, NEW c \in Chats, NEW at \in {"create", "persist", "send", "prompt"},
           GoesOn(c, at), turn[c].sid \in 1..Len(home),
           Len(home') \in Nat, Len(home) <= Len(home')
    PROVE  TurnType'
<1> DEFINE t == [turn[c] EXCEPT !.at = at]
<1>1. t \in TurnRecord /\ t.at = at /\ t.sid = turn[c].sid
    BY DEF TypeInv, TurnType, TurnRecord
<1>2. t.sid \in 1..Len(home')
    BY <1>1, LenHome
<1>3. Sound(t, Len(home'))
    BY <1>1, <1>2 DEF Sound
<1>4. TurnBecomes(c, t)
    BY DEF GoesOn
<1> HIDE DEF t
<1> QED BY <1>1, <1>3, <1>4, TurnBecomesSound

LEMMA EndsSound ==
    ASSUME TypeInv, NEW c \in Chats, EndTurn(c), Len(home') \in Nat, Len(home) <= Len(home')
    PROVE  TurnType'
<1>1. TurnBecomes(c, NoTurn)
    BY DEF EndTurn, TurnBecomes
<1>2. Sound(NoTurn, Len(home'))
    BY NoTurnFacts DEF Sound
<1> QED BY <1>1, <1>2, NoTurnFacts, TurnBecomesSound

LEMMA TurnStep ==
    ASSUME TypeInv, [Next]_vars
    PROVE  TurnType'
<1> USE DEF TypeInv
<1>1. Len(home) \in Nat /\ Len(home') \in Nat /\ Len(home) <= Len(home')
    BY OpencodeStep, LenHome
<1>2. ASSUME turn' \in [Chats -> TurnRecord],
             \A c \in Chats : /\ turn'[c].sid = turn[c].sid /\ turn'[c].at = turn[c].at
                              \/ turn'[c] = NoTurn
      PROVE  TurnType'
    <2>1. ASSUME NEW c \in Chats PROVE Sound(turn'[c], Len(home'))
        BY <1>1, <1>2, NoTurnFacts DEF TurnType, Sound
    <2> QED BY <1>2, <2>1 DEF TurnType
<1>3. CASE UNCHANGED turn
    BY <1>2, <1>3 DEF TurnType
<1>4. ASSUME NEW c \in Chats, StartTurn(c)
      PROVE  TurnType'
    <2> DEFINE job == Head(waiting[c])
               t == [at |-> FirstRequest(c), job |-> job, sid |-> routing[c], hit |-> FALSE]
    <2>1. job \in Job
        BY <1>4, HeadTailProperties DEF StartTurn, QueueType
    <2>2. routing[c] \in 0..Len(home) /\ routing[c] \in 0..MaxSessions
        BY <1>1, Bounds DEF StoreType, OpencodeType
    <2>3. t \in TurnRecord
        <3> HIDE DEF job
        <3> QED BY <2>1, <2>2 DEF TurnRecord, FirstRequest
    <2>4. Sound(t, Len(home'))
        <3> HIDE DEF job
        <3> QED BY <1>1, <2>2 DEF Sound, FirstRequest, Stored, NoSession
    <2>5. TurnBecomes(c, t)
        BY <1>4 DEF StartTurn, TurnBecomes, Stored
    <2> HIDE DEF t
    <2> QED BY <1>1, <2>3, <2>4, <2>5, TurnBecomesSound
<1>5. ASSUME NEW c \in Chats, ExistsAnswer(c)
      PROVE  TurnType'
    <2>1. PICK at \in {"create", "persist"} : GoesOn(c, at)
        BY <1>5 DEF ExistsAnswer, GoesOn, TurnBecomes
    <2>2. turn[c].sid \in 1..Len(home)
        BY <1>5 DEF ExistsAnswer, TurnAt, TurnType, Sound
    <2> QED BY <1>1, <2>1, <2>2, GoesOnSound
<1>6. ASSUME NEW c \in Chats, CreateAnswer(c)
      PROVE  TurnType'
    <2> DEFINE new == Len(home) + 1
               next == IF HasAskRules THEN "patch" ELSE "persist"
               t == [turn[c] EXCEPT !.sid = new, !.at = next]
    <2>1. TurnBecomes(c, t)
        BY <1>6 DEF CreateAnswer, TurnBecomes, TurnType
    <2>2. new \in 1..MaxSessions /\ new \in 1..Len(home')
        BY <1>1, <1>6, AppendProperties DEF CreateAnswer, OpencodeType, TurnType, TurnRecord, Job
    <2>3. next \in {"patch", "persist"} /\ new \in 0..MaxSessions
        BY <2>2, Bounds
    <2> HIDE DEF new, next
    <2>4. t \in TurnRecord /\ t.sid = new /\ t.at = next
        BY <2>3 DEF TurnType, TurnRecord
    <2>5. Sound(t, Len(home'))
        BY <2>2, <2>3, <2>4 DEF Sound
    <2> HIDE DEF t
    <2> QED BY <1>1, <2>1, <2>4, <2>5, TurnBecomesSound
<1>7. ASSUME NEW c \in Chats, PatchAnswer(c) \/ Persist(c) \/ PromptTaken(c)
      PROVE  TurnType'
    <2>1. turn[c].sid \in 1..Len(home)
        BY <1>7 DEF PatchAnswer, Persist, PromptTaken, TurnAt, TurnType, Sound
    <2>2. EndTurn(c) \/ GoesOn(c, "persist") \/ GoesOn(c, "send") \/ GoesOn(c, "prompt")
        BY <1>7 DEF PatchAnswer, Persist, PromptTaken, FailTurn, GoesOn, TurnBecomes
    <2> QED BY <1>1, <2>1, <2>2, GoesOnSound, EndsSound
<1>8. ASSUME NEW c \in Chats, PromptAnswer(c) \/ RequestFails(c)
      PROVE  TurnType'
    BY <1>1, <1>8, EndsSound DEF PromptAnswer, RequestFails, FailTurn
<1>9. ASSUME NEW c \in Chats, AbortAnswer(c)
      PROVE  TurnType'
    BY <1>2, <1>9, NoTurnFacts DEF AbortAnswer, TurnType
<1>10. ASSUME NEW s \in Slots, Wipe(s)
       PROVE  TurnType'
    <2>1. ASSUME NEW c \in Chats
          PROVE  /\ turn'[c] \in TurnRecord
                 /\ \/ turn'[c].sid = turn[c].sid /\ turn'[c].at = turn[c].at
                    \/ turn'[c] = NoTurn
        <3>1. turn'[c] \in {turn[c], NoTurn, [turn[c] EXCEPT !.hit = TRUE]}
            BY <1>10 DEF Wipe
        <3>2. turn[c] \in TurnRecord
            BY DEF TurnType
        <3>3. /\ [turn[c] EXCEPT !.hit = TRUE] \in TurnRecord
              /\ [turn[c] EXCEPT !.hit = TRUE].sid = turn[c].sid
              /\ [turn[c] EXCEPT !.hit = TRUE].at = turn[c].at
            BY <3>2 DEF TurnRecord
        <3> QED BY <3>1, <3>2, <3>3, NoTurnFacts
    <2>2. turn' \in [Chats -> TurnRecord]
        BY <1>10, <2>1 DEF Wipe
    <2> QED BY <1>2, <2>1, <2>2
<1>11. CASE Crash
    BY <1>2, <1>11, NoTurnFacts DEF Crash
<1>12. ASSUME NEW c \in Chats,
              \/ HandleMessage(c) \/ HandleNew(c) \/ HandleStop(c) \/ HandleStopNothing(c)
              \/ (\E s \in Slots : Rebind(c, s)) \/ StartFails(c) \/ AbortFails(c)
       PROVE  UNCHANGED turn
    BY <1>12 DEF HandleMessage, HandleNew, HandleStop, HandleStopNothing, Rebind, StartFails,
                 AbortFails
<1>13. UNCHANGED vars => UNCHANGED turn
    BY DEF vars
<1> QED BY <1>3, <1>4, <1>5, <1>6, <1>7, <1>8, <1>9, <1>10, <1>11, <1>12, <1>13 DEF Next, Worker

LEMMA StopStep ==
    ASSUME TypeInv, [Next]_vars
    PROVE  StopType'
<1> USE DEF TypeInv
<1>1. Len(home) \in Nat /\ Len(home') \in Nat /\ Len(home) <= Len(home')
    BY OpencodeStep, LenHome
<1>2. Stops \subseteq Stops'
    BY <1>1 DEF Stops
<1>3. NoStop \in Stops'
    BY <1>1, NoTurnFacts, Bounds DEF Stops, NoStop, NoSession
<1>4. CASE UNCHANGED stop
    BY <1>2, <1>4 DEF StopType
<1>5. ASSUME NEW c \in Chats, HandleStop(c)
      PROVE  StopType'
    <2> DEFINE abort == [slot |-> binding[c], sid |-> routing[c], upto |-> sent[c]]
    <2>1. abort \in Stops
        BY DEF Stops, StoreType, QueueType
    <2>2. stop' = [stop EXCEPT ![c] = abort]
        BY <1>5 DEF HandleStop
    <2> HIDE DEF abort
    <2> QED BY <1>2, <2>1, <2>2 DEF StopType
<1>6. ASSUME NEW c \in Chats, AbortAnswer(c) \/ AbortFails(c)
      PROVE  StopType'
    BY <1>2, <1>3, <1>6 DEF AbortAnswer, AbortFails, StopType
<1>7. CASE Crash
    BY <1>3, <1>7 DEF Crash, StopType
<1>8. ASSUME NEW c \in Chats,
             \/ HandleMessage(c) \/ HandleNew(c) \/ HandleStopNothing(c)
             \/ (\E s \in Slots : Rebind(c, s)) \/ Worker(c)
      PROVE  UNCHANGED stop
    BY <1>8 DEF HandleMessage, HandleNew, HandleStopNothing, Rebind, Worker, StartTurn,
                ExistsAnswer, CreateAnswer, PatchAnswer, Persist, PromptTaken, PromptAnswer,
                RequestFails, StartFails
<1>9. UNCHANGED vars \/ (\E s \in Slots : Wipe(s)) => UNCHANGED stop
    BY DEF vars, Wipe
<1> QED BY <1>4, <1>5, <1>6, <1>7, <1>8, <1>9 DEF Next

LEMMA CounterStep ==
    ASSUME TypeInv, [Next]_vars
    PROVE  CounterType'
<1> USE Bounds DEF TypeInv, CounterType
<1>1. CASE UNCHANGED <<faults, commands, raced, undisturbed>>
    BY <1>1
<1>2. ASSUME NEW c \in Chats, HandleNew(c)
      PROVE  CounterType'
    <2>1. commands' \in 0..MaxCommands
        BY <1>2 DEF HandleNew, Command
    <2>2. Resolving(c) \in BOOLEAN
        BY DEF Resolving
    <2>3. raced' \in [Chats -> BOOLEAN]
        BY <1>2 DEF HandleNew
    <2> QED BY <1>2, <2>1, <2>3 DEF HandleNew
<1>3. ASSUME NEW c \in Chats,
             HandleStop(c) \/ HandleStopNothing(c) \/ \E s \in Slots : Rebind(c, s)
      PROVE  CounterType'
    BY <1>3 DEF HandleStop, HandleStopNothing, Rebind, Command, historyVars
<1>4. ASSUME NEW c \in Chats, RequestFails(c) \/ StartFails(c) \/ AbortFails(c)
      PROVE  CounterType'
    <2>4. Fault
        BY <1>4 DEF RequestFails, StartFails, AbortFails
    <2>1. faults' \in 0..MaxFaults
        BY <2>4 DEF Fault
    <2>2. undisturbed' \in BOOLEAN
        BY <1>4 DEF RequestFails, StartFails, AbortFails, FailTurn, historyVars
    <2>3. UNCHANGED <<commands, raced>>
        BY <1>4 DEF RequestFails, StartFails, AbortFails, historyVars
    <2> QED BY <2>1, <2>2, <2>3
<1>5. ASSUME NEW c \in Chats, PatchAnswer(c) \/ PromptTaken(c)
      PROVE  CounterType'
    <2>1. undisturbed' \in BOOLEAN
        BY <1>5 DEF PatchAnswer, PromptTaken, FailTurn
    <2> QED BY <1>5, <2>1 DEF PatchAnswer, PromptTaken, boundVars
<1>6. ASSUME Crash \/ \E s \in Slots : Wipe(s)
      PROVE  CounterType'
    BY <1>6 DEF Crash, Wipe, Fault, historyVars
<1>7. ASSUME NEW c \in Chats,
             \/ HandleMessage(c) \/ AbortAnswer(c) \/ StartTurn(c) \/ ExistsAnswer(c)
             \/ CreateAnswer(c) \/ Persist(c) \/ PromptAnswer(c)
      PROVE  UNCHANGED <<faults, commands, raced, undisturbed>>
    BY <1>7 DEF HandleMessage, AbortAnswer, StartTurn, ExistsAnswer, CreateAnswer, Persist,
                PromptAnswer, boundVars, historyVars
<1>8. UNCHANGED vars => UNCHANGED <<faults, commands, raced, undisturbed>>
    BY DEF vars, boundVars, historyVars
<1> QED BY <1>1, <1>2, <1>3, <1>4, <1>5, <1>6, <1>7, <1>8 DEF Next, Worker

LEMMA HistoryStep ==
    ASSUME TypeInv, [Next]_vars
    PROVE  HistoryType'
<1> USE DEF TypeInv, HistoryType
<1>1. Len(home) \in Nat /\ Len(home') \in Nat /\ Len(home) <= Len(home')
    BY OpencodeStep, LenHome
<1>2. CASE UNCHANGED ranIn
    BY <1>1, <1>2
<1>3. ASSUME NEW c \in Chats, HandleNew(c)
      PROVE  HistoryType'
    <2> DEFINE h == [ranIn[c] EXCEPT !.retired = ranIn[c].all]
    <2>1. h \in Histories /\ h.all = ranIn[c].all
        BY DEF Histories
    <2>2. ranIn' = [ranIn EXCEPT ![c] = h]
        BY <1>3 DEF HandleNew
    <2> HIDE DEF h
    <2> QED BY <1>1, <2>1, <2>2
<1>4. ASSUME NEW c \in Chats, PromptTaken(c)
      PROVE  HistoryType'
    <2> DEFINE h == [ranIn[c] EXCEPT !.all = @ \cup {turn[c].sid}]
    <2>1. turn[c].sid \in 1..Len(home) /\ turn[c].sid \in SessionIds
        BY <1>4, LenHome DEF PromptTaken, TurnAt, TurnType, Sound
    <2>2. h \in Histories /\ h.all = ranIn[c].all \cup {turn[c].sid}
        BY <2>1 DEF Histories
    <2>3. ranIn' = ranIn \/ ranIn' = [ranIn EXCEPT ![c] = h]
        BY <1>4 DEF PromptTaken
    <2> HIDE DEF h
    <2>4. CASE ranIn' = [ranIn EXCEPT ![c] = h]
        BY <1>1, <2>1, <2>2, <2>4
    <2> QED BY <1>2, <2>3, <2>4
<1>5. ASSUME NEW c \in Chats,
             \/ HandleMessage(c) \/ HandleStop(c) \/ HandleStopNothing(c) \/ AbortAnswer(c)
             \/ (\E s \in Slots : Rebind(c, s)) \/ StartTurn(c) \/ ExistsAnswer(c)
             \/ CreateAnswer(c) \/ PatchAnswer(c) \/ Persist(c) \/ PromptAnswer(c)
             \/ RequestFails(c) \/ StartFails(c) \/ AbortFails(c)
      PROVE  UNCHANGED ranIn
    BY <1>5 DEF HandleMessage, HandleStop, HandleStopNothing, AbortAnswer, Rebind, StartTurn,
                ExistsAnswer, CreateAnswer, PatchAnswer, Persist, PromptAnswer, RequestFails,
                StartFails, AbortFails, historyVars
<1>6. UNCHANGED vars \/ Crash \/ (\E s \in Slots : Wipe(s)) => UNCHANGED ranIn
    BY DEF vars, Crash, Wipe, historyVars
<1> QED BY <1>2, <1>3, <1>4, <1>5, <1>6 DEF Next, Worker

LEMMA TypesHold == Spec => []TypeInv
<1>1. Init => TypeInv
    <2> SUFFICES ASSUME Init PROVE TypeInv
        OBVIOUS
    <2> USE Bounds DEF Init, NoSession
    <2>1. OpencodeType /\ StoreType /\ CounterType
        BY EmptySeq DEF OpencodeType, StoreType, CounterType
    <2>2. QueueType
        BY EmptySeq DEF QueueType
    <2>3. TurnType
        BY EmptySeq, NoTurnFacts DEF TurnType, Sound
    <2>4. NoStop \in Stops
        BY EmptySeq, NoTurnFacts DEF Stops, NoStop
    <2>5. StopType
        BY <2>4 DEF StopType
    <2>6. [all |-> {}, retired |-> {}] \in Histories
        BY DEF Histories
    <2>7. HistoryType
        BY <2>6 DEF HistoryType
    <2> QED BY <2>1, <2>2, <2>3, <2>5, <2>7 DEF TypeInv
<1>2. TypeInv /\ [Next]_vars => TypeInv'
    BY OpencodeStep, StoreStep, QueueStep, TurnStep, StopStep, CounterStep, HistoryStep
    DEF TypeInv
<1> QED BY <1>1, <1>2, PTL DEF Spec

\* Every variable keeps its type, no id is used before its session exists, and a
\* request that names a session has one to name (run_turn, get_or_create).
THEOREM TypeCorrect == Spec => []TypeOK
<1>1. TypeInv => TypeOK
    <2> SUFFICES ASSUME TypeInv PROVE TypeOK
        OBVIOUS
    <2>1. OpencodeType /\ StoreType /\ QueueType /\ CounterType
        BY DEF TypeInv
    <2>2. TurnType /\ StopType /\ HistoryType
        BY DEF TypeInv
    <2> QED BY <2>1, <2>2 DEF TypeOK, OpencodeType, StoreType, QueueType, CounterType, TurnType,
               Sound, StopType, Stops, HistoryType, Histories
<1> QED BY <1>1, TypesHold, PTL

-----------------------------------------------------------------------------
(* What a step does to the sessions a chat has in hand.                    *)

\* Every session id that a chat's state holds.
Held(c) == ranIn[c].all \cup ({routing[c], turn[c].sid} \ {NoSession})

\* A chat's turn takes its session from the row or from an answer to its create
\* request; its row takes it from the turn; nothing else hands sessions out.
LEMMA Handover ==
    ASSUME TypeInv, [Next]_vars, NEW c \in Chats
    PROVE  /\ routing'[c] \in {routing[c], NoSession, turn[c].sid}
           /\ turn'[c].sid \in {turn[c].sid, NoSession, routing[c], Len(home) + 1}
           /\ turn'[c].sid = Len(home) + 1 => CreateAnswer(c) \/ turn'[c].sid = turn[c].sid
           /\ ranIn'[c].all \in {ranIn[c].all, ranIn[c].all \cup {turn[c].sid}}
<1> USE LenHome, NoTurnFacts
        DEF TypeInv, OpencodeType, StoreType, TurnType, HistoryType, TurnRecord, Histories, NoSession
<1>1. CASE UNCHANGED <<routing, turn, ranIn>>
    BY <1>1
<1>2. ASSUME NEW d \in Chats,
             HandleMessage(d) \/ HandleStop(d) \/ HandleStopNothing(d) \/ \E s \in Slots : Rebind(d, s)
      PROVE  UNCHANGED <<routing, turn, ranIn>>
    BY <1>2 DEF HandleMessage, HandleStop, HandleStopNothing, Rebind, storeVars, historyVars
<1>3. UNCHANGED vars => UNCHANGED <<routing, turn, ranIn>>
    BY DEF vars, storeVars, historyVars
<1> DEFINE Goal == /\ routing'[c] \in {routing[c], NoSession, turn[c].sid}
                   /\ turn'[c].sid \in {turn[c].sid, NoSession, routing[c], Len(home) + 1}
                   /\ turn'[c].sid = Len(home) + 1 => CreateAnswer(c) \/ turn'[c].sid = turn[c].sid
                   /\ ranIn'[c].all \in {ranIn[c].all, ranIn[c].all \cup {turn[c].sid}}
<1>4. ASSUME NEW d \in Chats, HandleNew(d)
      PROVE  Goal
    <2>1. turn' = turn /\ routing' = [routing EXCEPT ![d] = NoSession]
        BY <1>4 DEF HandleNew, Cleared
    <2>2. ranIn'[c].all = ranIn[c].all
        BY <1>4 DEF HandleNew
    <2> QED BY <2>1, <2>2
<1>5. ASSUME NEW d \in Chats, AbortAnswer(d)
      PROVE  Goal
    <2>1. turn'[c] \in {turn[c], NoTurn}
        BY <1>5 DEF AbortAnswer
    <2>2. UNCHANGED <<routing, ranIn>>
        BY <1>5 DEF AbortAnswer, storeVars, historyVars
    <2> QED BY <2>1, <2>2
<1>6. ASSUME NEW d \in Chats, StartTurn(d)
      PROVE  Goal
    <2>1. turn'[c].sid \in {turn[c].sid, routing[c]}
        BY <1>6 DEF StartTurn, Stored
    <2>2. UNCHANGED <<routing, ranIn>>
        BY <1>6 DEF StartTurn, storeVars, historyVars
    <2>3. routing[c] # Len(home) + 1
        OBVIOUS
    <2> QED BY <2>1, <2>2, <2>3
<1>7. ASSUME NEW d \in Chats, ExistsAnswer(d)
      PROVE  Goal
    <2>1. turn'[c].sid = turn[c].sid
        BY <1>7 DEF ExistsAnswer
    <2>2. UNCHANGED <<routing, ranIn>>
        BY <1>7 DEF ExistsAnswer, storeVars, historyVars
    <2> QED BY <2>1, <2>2
<1>8. ASSUME NEW d \in Chats, CreateAnswer(d)
      PROVE  Goal
    <2>1. IF c = d THEN turn'[c].sid = Len(home) + 1 ELSE turn'[c] = turn[c]
        BY <1>8 DEF CreateAnswer
    <2>2. UNCHANGED <<routing, ranIn>>
        BY <1>8 DEF CreateAnswer, storeVars, historyVars
    <2> QED BY <1>8, <2>1, <2>2
<1>9. ASSUME NEW d \in Chats, PatchAnswer(d)
      PROVE  Goal
    <2>1. \/ turn' = [turn EXCEPT ![d].at = "persist"]
          \/ turn' = [turn EXCEPT ![d] = NoTurn]
        BY <1>9 DEF PatchAnswer, FailTurn, EndTurn
    <2>2. turn'[c].sid = turn[c].sid \/ turn'[c] = NoTurn
        BY <2>1
    <2>3. UNCHANGED <<routing, ranIn>>
        BY <1>9 DEF PatchAnswer, storeVars
    <2> QED BY <2>2, <2>3
<1>10. ASSUME NEW d \in Chats, Persist(d)
       PROVE  Goal
    <2>1. turn'[c].sid = turn[c].sid /\ routing'[c] \in {routing[c], turn[c].sid}
        BY <1>10 DEF Persist
    <2>2. ranIn' = ranIn
        BY <1>10 DEF Persist, historyVars
    <2> QED BY <2>1, <2>2
<1>11. ASSUME NEW d \in Chats, PromptTaken(d)
       PROVE  Goal
    <2>1. turn'[c].sid = turn[c].sid \/ turn'[c] = NoTurn
        BY <1>11 DEF PromptTaken, FailTurn, EndTurn
    <2>2. ranIn' = ranIn \/ ranIn' = [ranIn EXCEPT ![d].all = @ \cup {turn[d].sid}]
        BY <1>11 DEF PromptTaken
    <2>3. ranIn'[c].all \in {ranIn[c].all, ranIn[c].all \cup {turn[c].sid}}
        BY <2>2
    <2>4. routing' = routing
        BY <1>11 DEF PromptTaken, storeVars
    <2> QED BY <2>1, <2>3, <2>4
<1>12. ASSUME NEW d \in Chats, PromptAnswer(d) \/ RequestFails(d) \/ StartFails(d) \/ AbortFails(d)
       PROVE  Goal
    <2>1. turn'[c] \in {turn[c], NoTurn}
        BY <1>12 DEF PromptAnswer, RequestFails, StartFails, AbortFails, FailTurn, EndTurn
    <2>2. UNCHANGED <<routing, ranIn>>
        BY <1>12 DEF PromptAnswer, RequestFails, StartFails, AbortFails, storeVars, historyVars
    <2> QED BY <2>1, <2>2
<1>13. ASSUME NEW s \in Slots, Wipe(s)
       PROVE  Goal
    <2>1. turn'[c] \in {turn[c], NoTurn, [turn[c] EXCEPT !.hit = TRUE]}
        BY <1>13 DEF Wipe
    <2>2. turn'[c].sid \in {turn[c].sid, NoSession}
        BY <2>1
    <2>3. UNCHANGED <<routing, ranIn>>
        BY <1>13 DEF Wipe, storeVars, historyVars
    <2> QED BY <2>2, <2>3
<1>14. CASE Crash
    <2>1. turn'[c] = NoTurn
        BY <1>14 DEF Crash
    <2>2. UNCHANGED <<routing, ranIn>>
        BY <1>14 DEF Crash, storeVars, historyVars
    <2> QED BY <2>1, <2>2
<1> QED BY <1>1, <1>2, <1>3, <1>4, <1>5, <1>6, <1>7, <1>8, <1>9, <1>10, <1>11, <1>12, <1>13, <1>14
       DEF Next, Worker

-----------------------------------------------------------------------------
(* No session is shared.                                                   *)

Private == \A c, d \in Chats : c # d => Held(c) \cap Held(d) = {}

\* What a chat holds exists, and a session that is new is held by its creator alone.
LEMMA HeldSteps ==
    ASSUME TypeInv, [Next]_vars, NEW c \in Chats
    PROVE  /\ Held(c) \subseteq 1..Len(home)
           /\ Held(c)' \subseteq Held(c) \cup {Len(home) + 1}
           /\ Len(home) + 1 \in Held(c)' => CreateAnswer(c)
<1>1. Len(home) \in Nat
    BY LenHome
<1>2. routing[c] \in 0..Len(home) /\ turn[c].sid \in 0..Len(home) /\ ranIn[c].all \subseteq 1..Len(home)
    BY <1>1 DEF TypeInv, StoreType, TurnType, Sound, HistoryType
<1>3. Held(c) \subseteq 1..Len(home)
    BY <1>1, <1>2 DEF Held, NoSession
<1>4. Held(c)' = ranIn'[c].all \cup ({routing'[c], turn'[c].sid} \ {NoSession})
    BY DEF Held, NoSession
<1>5. NoSession \notin ranIn[c].all
    BY <1>2 DEF NoSession
<1>6. ranIn'[c].all \subseteq Held(c) \cup {NoSession}
    BY Handover DEF Held
<1>7. NoSession \notin ranIn'[c].all
    BY HistoryStep, OpencodeStep DEF HistoryType, NoSession
<1>8. {routing'[c], turn'[c].sid} \ {NoSession} \subseteq Held(c) \cup {Len(home) + 1}
    BY Handover DEF Held
<1>9. Held(c)' \subseteq Held(c) \cup {Len(home) + 1}
    BY <1>4, <1>6, <1>7, <1>8
<1>10. ASSUME Len(home) + 1 \in Held(c)'
       PROVE  CreateAnswer(c)
    <2>1. Len(home) + 1 \notin Held(c) /\ Len(home) + 1 # NoSession
        BY <1>1, <1>3 DEF NoSession
    <2>2. turn'[c].sid = Len(home) + 1 /\ turn[c].sid # Len(home) + 1
        BY <1>1, <1>2, <1>4, <1>6, <1>10, <2>1, Handover DEF Held
    <2> QED BY <2>2, Handover
<1> QED BY <1>3, <1>9, <1>10

LEMMA PrivateStep ==
    ASSUME TypeInv, Private, [Next]_vars
    PROVE  Private'
<1>1. SUFFICES ASSUME NEW c \in Chats, NEW d \in Chats, c # d, NEW i \in Held(c)' \cap Held(d)'
               PROVE  FALSE
    BY DEF Private
<1>2. CASE i # Len(home) + 1
    BY <1>1, <1>2, HeldSteps DEF Private
<1>3. CASE i = Len(home) + 1
    <2>1. CreateAnswer(c) /\ CreateAnswer(d)
        BY <1>1, <1>3, HeldSteps
    <2>2. turn[c].at = "create" /\ turn'[c].at # "create"
        BY <2>1, Bounds DEF CreateAnswer, TurnAt, TypeInv, TurnType, TurnRecord
    <2>3. turn'[c] = turn[c]
        BY <1>1, <2>1 DEF CreateAnswer, TypeInv, TurnType
    <2> QED BY <2>2, <2>3
<1> QED BY <1>2, <1>3

\* No chat is prompted in, or routed to, a session another chat has run in, for any
\* number of chats on an instance and any re-binding (get_or_create, run_turn).
THEOREM NoSessionIsShared == Spec => []SessionsAreNotShared
<1>1. Init => Private
    BY NoTurnFacts DEF Init, Private, Held, NoSession
<1>2. TypeInv /\ Private /\ [Next]_vars => Private'
    BY PrivateStep
<1>3. TypeInv /\ Private => SessionsAreNotShared
    <2> SUFFICES ASSUME TypeInv, Private, NEW c \in Chats, NEW d \in Chats, c # d
                 PROVE  ranIn[c].all \cap ranIn[d].all = {} /\ routing[c] \notin ranIn[d].all
        BY DEF SessionsAreNotShared
    <2>1. ranIn[d].all \subseteq 1..Len(home) /\ NoSession \notin 1..Len(home)
        BY LenHome DEF TypeInv, HistoryType, NoSession
    <2> QED BY <2>1 DEF Private, Held
<1> QED BY <1>1, <1>2, <1>3, TypesHold, PTL DEF Spec

-----------------------------------------------------------------------------
(* Every prompt is gated.                                                  *)

\* What a chat is routed to has the ask rules, and so has the session of its turn,
\* unless that is still being created or patched.
GatedInv ==
    HasAskRules => \A c \in Chats :
        /\ routing[c] # NoSession => routing[c] \in gated
        /\ turn[c].at \in {"exists", "persist", "send", "prompt"} => turn[c].sid \in gated

LEMMA GatedStep ==
    ASSUME TypeInv, GatedInv, [Next]_vars, HasAskRules
    PROVE  GatedInv'
<1> USE DEF TypeInv, StoreType, TurnType, TurnRecord, GatedInv
<1> DEFINE Fine(c) ==
               /\ routing'[c] # NoSession => routing'[c] \in gated'
               /\ turn'[c].at \in {"exists", "persist", "send", "prompt"} => turn'[c].sid \in gated'
<1> SUFFICES ASSUME NEW c \in Chats PROVE Fine(c)
    OBVIOUS
<1>1. gated \subseteq gated'
    <2>1. ASSUME NEW d \in Chats, PatchAnswer(d) PROVE gated \subseteq gated'
        BY <2>1 DEF PatchAnswer, PatchedSet
    <2>2. ASSUME NEW d \in Chats,
                 \/ HandleMessage(d) \/ HandleNew(d) \/ HandleStop(d) \/ HandleStopNothing(d)
                 \/ AbortAnswer(d) \/ (\E s \in Slots : Rebind(d, s)) \/ StartTurn(d)
                 \/ ExistsAnswer(d) \/ CreateAnswer(d) \/ Persist(d) \/ PromptTaken(d)
                 \/ PromptAnswer(d) \/ RequestFails(d) \/ StartFails(d) \/ AbortFails(d)
          PROVE  gated' = gated
        BY <2>2 DEF HandleMessage, HandleNew, HandleStop, HandleStopNothing, AbortAnswer, Rebind,
                    StartTurn, ExistsAnswer, CreateAnswer, Persist, PromptTaken, PromptAnswer,
                    RequestFails, StartFails, AbortFails, opencodeVars
    <2>3. UNCHANGED vars \/ Crash \/ (\E s \in Slots : Wipe(s)) => gated' = gated
        BY DEF vars, Crash, Wipe, opencodeVars
    <2> QED BY <2>1, <2>2, <2>3 DEF Next, Worker
<1>2. ASSUME routing'[c] \in {routing[c], NoSession},
             \/ turn'[c].at = turn[c].at /\ turn'[c].sid = turn[c].sid
             \/ turn'[c].at \in {"idle", "create", "patch"}
      PROVE  Fine(c)
    BY <1>1, <1>2
<1>3. CASE UNCHANGED <<routing, turn>>
    BY <1>2, <1>3
<1>4. ASSUME NEW d \in Chats,
             \/ HandleMessage(d) \/ HandleStop(d) \/ HandleStopNothing(d)
             \/ \E s \in Slots : Rebind(d, s)
      PROVE  UNCHANGED <<routing, turn>>
    BY <1>4 DEF HandleMessage, HandleStop, HandleStopNothing, Rebind, storeVars
<1>5. ASSUME NEW d \in Chats, HandleNew(d) PROVE Fine(c)
    BY <1>2, <1>5 DEF HandleNew, Cleared
<1>6. ASSUME NEW d \in Chats, AbortAnswer(d) PROVE Fine(c)
    BY <1>2, <1>6, NoTurnFacts DEF AbortAnswer, storeVars
<1>7. ASSUME NEW d \in Chats, StartTurn(d) PROVE Fine(c)
    <2>1. routing' = routing
        BY <1>7 DEF StartTurn, storeVars
    <2>2. CASE c = d
        <3>1. turn'[c].at = FirstRequest(c) /\ turn'[c].sid = routing[c]
            BY <1>7, <2>2 DEF StartTurn, Stored
        <3> QED BY <1>1, <2>1, <3>1 DEF FirstRequest, Stored
    <2>3. CASE c # d
        BY <1>2, <1>7, <2>1, <2>3 DEF StartTurn
    <2> QED BY <2>2, <2>3
<1>8. ASSUME NEW d \in Chats, ExistsAnswer(d) PROVE Fine(c)
    <2>1. routing' = routing
        BY <1>8 DEF ExistsAnswer, storeVars
    <2>2. CASE c = d
        <3>1. turn[c].sid \in gated /\ turn'[c].sid = turn[c].sid
            BY <1>8, <2>2 DEF ExistsAnswer, TurnAt
        <3> QED BY <1>1, <2>1, <3>1
    <2>3. CASE c # d
        BY <1>2, <1>8, <2>1, <2>3 DEF ExistsAnswer
    <2> QED BY <2>2, <2>3
<1>9. ASSUME NEW d \in Chats, CreateAnswer(d) PROVE Fine(c)
    <2>1. routing' = routing
        BY <1>9 DEF CreateAnswer, storeVars
    <2>2. CASE c = d
        <3>1. turn'[c].at = "patch"
            BY <1>9, <2>2 DEF CreateAnswer
        <3> QED BY <1>2, <2>1, <3>1
    <2>3. CASE c # d
        BY <1>2, <1>9, <2>1, <2>3 DEF CreateAnswer
    <2> QED BY <2>2, <2>3
<1>10. ASSUME NEW d \in Chats, PatchAnswer(d) PROVE Fine(c)
    <2>1. routing' = routing
        BY <1>10 DEF PatchAnswer, storeVars
    <2>2. CASE c = d
        <3>1. \/ turn'[c] = NoTurn
              \/ turn'[c].sid = turn[c].sid /\ turn[c].sid \in gated'
            BY <1>10, <2>2 DEF PatchAnswer, PatchedSet, FailTurn, EndTurn
        <3> QED BY <1>1, <2>1, <3>1, NoTurnFacts
    <2>3. CASE c # d
        BY <1>2, <1>10, <2>1, <2>3 DEF PatchAnswer, FailTurn, EndTurn
    <2> QED BY <2>2, <2>3
<1>11. ASSUME NEW d \in Chats, Persist(d) PROVE Fine(c)
    <2>1. CASE c = d
        <3>1. turn[c].sid \in gated /\ turn'[c].sid = turn[c].sid /\ routing'[c] = turn[c].sid
            BY <1>11, <2>1 DEF Persist, TurnAt
        <3> QED BY <1>1, <3>1
    <2>2. CASE c # d
        BY <1>2, <1>11, <2>2 DEF Persist
    <2> QED BY <2>1, <2>2
<1>12. ASSUME NEW d \in Chats, PromptTaken(d) PROVE Fine(c)
    <2>1. routing' = routing
        BY <1>12 DEF PromptTaken, storeVars
    <2>2. CASE c = d
        <3>1. \/ turn'[c] = NoTurn
              \/ turn'[c].sid = turn[c].sid /\ turn[c].sid \in gated
            BY <1>12, <2>2 DEF PromptTaken, TurnAt, FailTurn, EndTurn
        <3> QED BY <1>1, <2>1, <3>1, NoTurnFacts
    <2>3. CASE c # d
        BY <1>2, <1>12, <2>1, <2>3 DEF PromptTaken, FailTurn, EndTurn
    <2> QED BY <2>2, <2>3
<1>13. ASSUME NEW d \in Chats,
              PromptAnswer(d) \/ RequestFails(d) \/ StartFails(d) \/ AbortFails(d)
       PROVE  Fine(c)
    <2>1. turn'[c] \in {turn[c], NoTurn} /\ routing' = routing
        BY <1>13 DEF PromptAnswer, RequestFails, StartFails, AbortFails, FailTurn, EndTurn,
                     storeVars
    <2> QED BY <1>2, <2>1, NoTurnFacts
<1>14. ASSUME NEW s \in Slots, Wipe(s) PROVE Fine(c)
    <2>1. turn'[c] \in {turn[c], NoTurn, [turn[c] EXCEPT !.hit = TRUE]} /\ routing' = routing
        BY <1>14 DEF Wipe, storeVars
    <2>2. turn'[c] = NoTurn \/ (turn'[c].at = turn[c].at /\ turn'[c].sid = turn[c].sid)
        BY <2>1
    <2> QED BY <1>2, <2>1, <2>2, NoTurnFacts
<1>15. CASE Crash
    BY <1>2, <1>15, NoTurnFacts DEF Crash, storeVars
<1>16. UNCHANGED vars => UNCHANGED <<routing, turn>>
    BY DEF vars, storeVars
<1> QED BY <1>3, <1>4, <1>5, <1>6, <1>7, <1>8, <1>9, <1>10, <1>11, <1>12, <1>13, <1>14, <1>15, <1>16
       DEF Next, Worker

\* With ask rules configured no prompt runs in a session without them, wherever a
\* request fails, an instance is wiped or the proxy dies (session.rs:33-61).
THEOREM NoPromptIsUngated == Spec => []EveryPromptIsGated
<1>1. Init => GatedInv
    BY NoTurnFacts DEF Init, GatedInv
<1>2. TypeInv /\ GatedInv /\ [Next]_vars => GatedInv'
    BY GatedStep DEF GatedInv
<1>3. GatedInv => EveryPromptIsGated
    BY DEF GatedInv, EveryPromptIsGated
<1> QED BY <1>1, <1>2, <1>3, TypesHold, PTL DEF Spec

-----------------------------------------------------------------------------
(* Turns fail only when struck.                                            *)

\* A turn that has got its session, and that nothing has struck, has one that its
\* instance knows.
Unstruck(c) ==
    turn[c].at \in {"patch", "persist", "send"} /\ ~turn[c].hit
        => KnownAt(turn[c].sid, turn[c].job.slot)

StruckInv == undisturbed /\ \A c \in Chats : Unstruck(c)

\* Sessions stay known, except for a wipe.
LEMMA KnownStays ==
    ASSUME TypeInv, [Next]_vars, NEW i \in live
    PROVE  /\ i \in DOMAIN home /\ home'[i] = home[i]
           /\ i \in live' \/ \E s \in Slots : home[i] = s /\ Wipe(s)
<1> USE DEF TypeInv, OpencodeType
<1>1. i \in 1..Len(home) /\ Len(home) \in Nat
    BY LenHome
<1>2. CASE UNCHANGED <<home, live>>
    BY <1>1, <1>2
<1>3. ASSUME NEW c \in Chats, CreateAnswer(c) PROVE home'[i] = home[i] /\ i \in live'
    <2>1. turn[c].job.slot \in Slots /\ home' = Append(home, turn[c].job.slot)
        BY <1>3 DEF CreateAnswer, TurnType, TurnRecord, Job
    <2>2. home'[i] = home[i]
        BY <1>1, <2>1, AppendProperties
    <2> QED BY <1>3, <2>2 DEF CreateAnswer
<1>4. ASSUME NEW s \in Slots, Wipe(s)
      PROVE  home' = home /\ (i \in live' \/ home[i] = s)
    BY <1>4 DEF Wipe
<1>5. ASSUME NEW c \in Chats,
             \/ HandleMessage(c) \/ HandleNew(c) \/ HandleStop(c) \/ HandleStopNothing(c)
             \/ AbortAnswer(c) \/ (\E s \in Slots : Rebind(c, s))
             \/ StartTurn(c) \/ ExistsAnswer(c) \/ PatchAnswer(c) \/ Persist(c)
             \/ PromptTaken(c) \/ PromptAnswer(c) \/ RequestFails(c) \/ StartFails(c)
             \/ AbortFails(c)
      PROVE  UNCHANGED <<home, live>>
    BY <1>5 DEF HandleMessage, HandleNew, HandleStop, HandleStopNothing, AbortAnswer, Rebind,
                StartTurn, ExistsAnswer, PatchAnswer, Persist, PromptTaken, PromptAnswer,
                RequestFails, StartFails, AbortFails, opencodeVars
<1>6. Crash \/ UNCHANGED vars => UNCHANGED <<home, live>>
    BY DEF Crash, vars, opencodeVars
<1> QED BY <1>1, <1>2, <1>3, <1>4, <1>5, <1>6 DEF Next, Worker

\* A step that fails a request, wipes an instance or kills the proxy marks the turns
\* it strikes; any other leaves an unstruck turn with a session that is known.
LEMMA StruckStep ==
    ASSUME TypeInv, StruckInv, [Next]_vars
    PROVE  StruckInv'
<1> USE DEF TypeInv, TurnType, TurnRecord, StruckInv
\* A turn the step leaves alone, or starts, ends or marks.
<1>1. ASSUME NEW c \in Chats,
             \/ turn'[c] = turn[c] /\ \A s \in Slots : Wipe(s) => turn[c].at = "idle" \/ turn[c].job.slot # s
             \/ turn'[c].at \in {"idle", "exists", "create", "prompt"}
             \/ turn'[c].hit
      PROVE  Unstruck(c)'
    <2>1. CASE turn'[c] = turn[c] /\ \A s \in Slots : Wipe(s) => turn[c].at = "idle" \/ turn[c].job.slot # s
        <3>1. SUFFICES ASSUME turn[c].at \in {"patch", "persist", "send"}, ~turn[c].hit
                       PROVE  KnownAt(turn[c].sid, turn[c].job.slot)'
            BY <2>1 DEF Unstruck
        <3>2. turn[c].sid \in live /\ home[turn[c].sid] = turn[c].job.slot
            BY <3>1 DEF Unstruck, KnownAt
        <3>3. turn[c].sid \in live' /\ home'[turn[c].sid] = turn[c].job.slot
            BY <2>1, <3>1, <3>2, KnownStays
        <3> QED BY <2>1, <3>3 DEF KnownAt
    <2> QED BY <1>1, <2>1 DEF Unstruck
<1>2. ASSUME ~\E s \in Slots : Wipe(s), UNCHANGED <<turn, undisturbed>> PROVE StruckInv'
    BY <1>1, <1>2
<1>3. ASSUME NEW s \in Slots, Wipe(s) PROVE StruckInv'
    <2>1. undisturbed'
        BY <1>3 DEF Wipe, historyVars
    <2>2. ASSUME NEW c \in Chats PROVE Unstruck(c)'
        <3>1. /\ Idle(c) \/ turn[c].job.slot # s => turn'[c] = turn[c]
              /\ ~Idle(c) /\ turn[c].job.slot = s =>
                    turn'[c] \in {NoTurn, [turn[c] EXCEPT !.hit = TRUE]}
            BY <1>3 DEF Wipe, Idle
        <3>2. CASE Idle(c)
            BY <1>1, <3>1, <3>2 DEF Idle
        <3>3. CASE ~Idle(c) /\ turn[c].job.slot = s
            <4>1. [turn[c] EXCEPT !.hit = TRUE].hit
                OBVIOUS
            <4>2. turn'[c].at = "idle" \/ turn'[c].hit
                BY <3>1, <3>3, <4>1, NoTurnFacts
            <4> QED BY <1>1, <4>2
        <3>4. CASE turn[c].job.slot # s
            <4>1. SUFFICES ASSUME turn[c].at \in {"patch", "persist", "send"}, ~turn[c].hit
                           PROVE  KnownAt(turn[c].sid, turn[c].job.slot)'
                BY <3>1, <3>4 DEF Unstruck
            <4>2. turn[c].sid \in live /\ home[turn[c].sid] = turn[c].job.slot
                BY <4>1 DEF Unstruck, KnownAt
            <4>3. turn[c].sid \in live' /\ home' = home /\ turn'[c] = turn[c]
                BY <1>3, <3>1, <3>4, <4>2 DEF Wipe
            <4> QED BY <4>2, <4>3 DEF KnownAt
        <3> QED BY <3>2, <3>3, <3>4
    <2> QED BY <2>1, <2>2
<1>4. CASE \E s \in Slots : Wipe(s)
    BY <1>3, <1>4
<1>5. ASSUME ~\E s \in Slots : Wipe(s), NEW d \in Chats, Worker(d) PROVE StruckInv'
    <2>1. ASSUME NEW c \in Chats, turn'[c] = turn[c] PROVE Unstruck(c)'
        BY <1>1, <1>5, <2>1
    <2>2. ASSUME EndTurn(d) PROVE \A c \in Chats : Unstruck(c)'
        BY <1>1, <2>1, <2>2, NoTurnFacts DEF EndTurn
    <2>3. CASE StartTurn(d)
        BY <1>1, <2>1, <2>3 DEF StartTurn, FirstRequest, historyVars
    <2>4. CASE ExistsAnswer(d)
        <3>1. /\ undisturbed' /\ \A c \in Chats \ {d} : turn'[c] = turn[c]
              /\ UNCHANGED <<home, live>>
            BY <2>4 DEF ExistsAnswer, historyVars, opencodeVars
        <3>2. /\ turn'[d].sid = turn[d].sid /\ turn'[d].job = turn[d].job
              /\ turn'[d].at = IF StoredIsGood(d) THEN "persist" ELSE "create"
            BY <2>4 DEF ExistsAnswer
        <3>3. Unstruck(d)'
            BY <3>1, <3>2 DEF Unstruck, StoredIsGood, KnownAt
        <3> QED BY <2>1, <3>1, <3>3
    <2>5. CASE CreateAnswer(d)
        <3>1. /\ undisturbed' /\ \A c \in Chats \ {d} : turn'[c] = turn[c]
              /\ home' = Append(home, turn[d].job.slot) /\ live' = live \cup {Len(home) + 1}
            BY <2>5 DEF CreateAnswer, historyVars
        <3>2. turn'[d].sid = Len(home) + 1 /\ turn'[d].job = turn[d].job
            BY <2>5 DEF CreateAnswer
        <3>3. home'[Len(home) + 1] = turn[d].job.slot
            BY <3>1, AppendProperties DEF OpencodeType, Job
        <3>4. Unstruck(d)'
            BY <3>1, <3>2, <3>3 DEF Unstruck, KnownAt
        <3> QED BY <2>1, <3>1, <3>4
    <2>6. CASE PatchAnswer(d)
        <3>1. CASE ~KnownAt(turn[d].sid, turn[d].job.slot) /\ FailTurn(d, FALSE)
            <4>1. undisturbed'
                BY <2>6, <3>1 DEF PatchAnswer, TurnAt, FailTurn, Unstruck
            <4> QED BY <2>2, <3>1, <4>1 DEF FailTurn
        <3>2. CASE /\ KnownAt(turn[d].sid, turn[d].job.slot)
                   /\ turn' = [turn EXCEPT ![d].at = "persist"] /\ undisturbed' = undisturbed
            <4>1. /\ \A c \in Chats \ {d} : turn'[c] = turn[c]
                  /\ turn'[d].sid = turn[d].sid /\ turn'[d].job = turn[d].job
                BY <3>2
            <4>2. UNCHANGED <<home, live>>
                BY <2>6 DEF PatchAnswer
            <4>3. Unstruck(d)'
                BY <3>2, <4>1, <4>2 DEF Unstruck, KnownAt
            <4> QED BY <2>1, <3>2, <4>1, <4>3
        <3> QED BY <2>6, <3>1, <3>2 DEF PatchAnswer
    <2>7. CASE Persist(d)
        <3>1. /\ undisturbed' /\ \A c \in Chats \ {d} : turn'[c] = turn[c]
              /\ UNCHANGED <<home, live>> /\ turn[d].at = "persist"
            BY <2>7 DEF Persist, TurnAt, historyVars, opencodeVars
        <3>2. /\ turn'[d].sid = turn[d].sid /\ turn'[d].job = turn[d].job
              /\ turn'[d].hit = turn[d].hit
            BY <2>7 DEF Persist
        <3>3. Unstruck(d)'
            BY <3>1, <3>2 DEF Unstruck, KnownAt
        <3> QED BY <2>1, <3>1, <3>3
    <2>8. CASE PromptTaken(d)
        <3>1. CASE ~KnownAt(turn[d].sid, turn[d].job.slot) /\ FailTurn(d, FALSE)
            <4>1. undisturbed'
                BY <2>8, <3>1 DEF PromptTaken, TurnAt, FailTurn, Unstruck
            <4> QED BY <2>2, <3>1, <4>1 DEF FailTurn
        <3>2. CASE turn' = [turn EXCEPT ![d].at = "prompt"] /\ undisturbed' = undisturbed
            <4>1. turn'[d].at = "prompt" /\ \A c \in Chats \ {d} : turn'[c] = turn[c]
                BY <3>2
            <4> QED BY <1>1, <2>1, <3>2, <4>1
        <3> QED BY <2>8, <3>1, <3>2 DEF PromptTaken
    <2>9. CASE PromptAnswer(d) \/ RequestFails(d)
        BY <2>2, <2>9 DEF PromptAnswer, RequestFails, FailTurn, historyVars
    <2>10. CASE StartFails(d)
        BY <2>1, <2>10 DEF StartFails, historyVars
    <2> QED BY <1>5, <2>3, <2>4, <2>5, <2>6, <2>7, <2>8, <2>9, <2>10 DEF Worker
<1>6. ASSUME ~\E s \in Slots : Wipe(s), NEW d \in Chats, AbortAnswer(d) PROVE StruckInv'
    <2>1. undisturbed' /\ \A c \in Chats : turn'[c] \in {turn[c], NoTurn}
        BY <1>6 DEF AbortAnswer, historyVars
    <2> QED BY <1>1, <1>6, <2>1, NoTurnFacts
<1>7. CASE Crash
    BY <1>1, <1>7, NoTurnFacts DEF Crash, historyVars
<1>8. ASSUME NEW c \in Chats,
             \/ HandleMessage(c) \/ HandleNew(c) \/ HandleStop(c) \/ HandleStopNothing(c)
             \/ (\E s \in Slots : Rebind(c, s)) \/ AbortFails(c)
      PROVE  UNCHANGED <<turn, undisturbed>>
    BY <1>8 DEF HandleMessage, HandleNew, HandleStop, HandleStopNothing, Rebind, AbortFails,
                historyVars
<1>9. UNCHANGED vars => UNCHANGED <<turn, undisturbed>>
    BY DEF vars, historyVars
<1> QED BY <1>2, <1>4, <1>5, <1>6, <1>7, <1>8, <1>9 DEF Next

\* A turn fails only if one of its own requests failed or its instance was wiped
\* while it ran: a stale row, a wipe between turns or a re-binding never costs one
\* (get_or_create, session.rs:32-61).
THEOREM OnlyTheStruckFail == Spec => []FailsOnlyWhenStruck
<1>1. Init => StruckInv
    BY NoTurnFacts DEF Init, StruckInv, Unstruck
<1>2. TypeInv /\ StruckInv /\ [Next]_vars => StruckInv'
    BY StruckStep
<1>3. StruckInv => FailsOnlyWhenStruck
    BY DEF StruckInv, FailsOnlyWhenStruck
<1> QED BY <1>1, <1>2, <1>3, TypesHold, PTL DEF Spec

-----------------------------------------------------------------------------
(* The messages of a chat and its commands.                                *)

\* A turn's message has been sent, and what its chat had left behind by then it has
\* left behind still.
Earlier(job, c) == job.n <= sent[c] /\ job.retired \subseteq ranIn[c].retired

Jobs(c) == {turn[c].job} \cup {waiting[c][i] : i \in 1..Len(waiting[c])}

EarlierInv == \A c \in Chats :
    /\ ranIn[c].retired \subseteq ranIn[c].all
    /\ \A job \in Jobs(c) : Earlier(job, c)

\* The turns of a chat are those it had, an empty one, or the one just queued.
LEMMA JobsStep ==
    ASSUME TypeInv, [Next]_vars, NEW c \in Chats
    PROVE  \/ Jobs(c)' \subseteq Jobs(c) \cup {NoJob}
           \/ /\ HandleMessage(c)
              /\ Jobs(c)' \subseteq Jobs(c) \cup {[n |-> sent[c] + 1, slot |-> binding[c],
                                                  retired |-> ranIn[c].retired]}
<1> USE DEF TypeInv, QueueType, TurnType, TurnRecord
<1> DEFINE Same == Jobs(c)' \subseteq Jobs(c) \cup {NoJob}
<1>1. ASSUME turn'[c].job \in {turn[c].job, NoJob}, waiting'[c] \in {waiting[c], <<>>} PROVE Same
    BY <1>1 DEF Jobs
<1>2. ASSUME NEW d \in Chats, HandleMessage(d)
      PROVE  \/ Same
             \/ /\ HandleMessage(c)
                /\ Jobs(c)' \subseteq Jobs(c) \cup {[n |-> sent[c] + 1, slot |-> binding[c],
                                                    retired |-> ranIn[c].retired]}
    <2> DEFINE job == [n |-> sent[d] + 1, slot |-> binding[d], retired |-> ranIn[d].retired]
    <2>1. turn' = turn /\ waiting' = [waiting EXCEPT ![d] = Append(waiting[d], job)]
        BY <1>2 DEF HandleMessage
    <2>2. CASE c # d
        BY <1>1, <2>1, <2>2
    <2>3. CASE c = d
        <3>1. /\ waiting'[c] = Append(waiting[c], job) /\ waiting[c] \in Seq(Job)
              /\ sent[c] + 1 \in 0..MaxMessages
            BY <1>2, <2>1, <2>3, Bounds DEF HandleMessage
        <3>2. job \in Job
            BY <2>3, <3>1 DEF Job, StoreType, HistoryType, Histories
        <3> HIDE DEF job
        <3>3. /\ Len(waiting'[c]) = Len(waiting[c]) + 1 /\ Len(waiting[c]) \in Nat
              /\ waiting'[c][Len(waiting[c]) + 1] = job
              /\ \A i \in 1..Len(waiting[c]) : waiting'[c][i] = waiting[c][i]
            BY <3>1, <3>2, AppendProperties
        <3>4. \A i \in 1..Len(waiting'[c]) :
                 waiting'[c][i] = job \/ \E j \in 1..Len(waiting[c]) : waiting'[c][i] = waiting[c][j]
            <4>1. \A i \in 1..Len(waiting'[c]) : i \in 1..Len(waiting[c]) \/ i = Len(waiting[c]) + 1
                BY <3>3
            <4> QED BY <3>3, <4>1
        <3>5. Jobs(c)' \subseteq Jobs(c) \cup {job}
            BY <2>1, <3>4 DEF Jobs
        <3> QED BY <1>2, <2>3, <3>5 DEF job
    <2> QED BY <2>2, <2>3
<1>13. ASSUME NEW d \in Chats, StartFails(d) PROVE Same
    <2>1. turn' = turn /\ waiting' = [waiting EXCEPT ![d] = Tail(waiting[d])] /\ waiting[d] # <<>>
        BY <1>13 DEF StartFails
    <2>2. CASE c # d
        BY <1>1, <2>1, <2>2
    <2>3. CASE c = d
        <3>1. /\ waiting'[c] = Tail(waiting[c]) /\ waiting[c] \in Seq(Job) /\ waiting[c] # <<>>
            BY <2>1, <2>3
        <3>2. /\ Len(waiting[c]) \in Nat /\ Len(waiting'[c]) = Len(waiting[c]) - 1
              /\ \A i \in 1..Len(waiting'[c]) :
                    i + 1 \in 1..Len(waiting[c]) /\ waiting'[c][i] = waiting[c][i + 1]
            BY <3>1, HeadTailProperties
        <3>3. \A i \in 1..Len(waiting'[c]) :
                 \E j \in 1..Len(waiting[c]) : waiting'[c][i] = waiting[c][j]
            BY <3>2
        <3> QED BY <2>1, <3>3 DEF Jobs
    <2> QED BY <2>2, <2>3
<1>3. ASSUME NEW d \in Chats, StartTurn(d) PROVE Same
    <2>1. /\ waiting' = [waiting EXCEPT ![d] = Tail(waiting[d])] /\ waiting[d] # <<>>
          /\ turn'[d].job = Head(waiting[d]) /\ \A e \in Chats \ {d} : turn'[e] = turn[e]
        BY <1>3 DEF StartTurn
    <2>2. CASE c # d
        BY <1>1, <2>1, <2>2
    <2>3. CASE c = d
        <3>1. /\ waiting'[c] = Tail(waiting[c]) /\ waiting[c] \in Seq(Job) /\ waiting[c] # <<>>
              /\ turn'[c].job = Head(waiting[c])
            BY <2>1, <2>3
        <3>2. /\ Len(waiting[c]) \in Nat /\ Len(waiting'[c]) = Len(waiting[c]) - 1
              /\ 1 \in 1..Len(waiting[c]) /\ turn'[c].job = waiting[c][1]
              /\ \A i \in 1..Len(waiting'[c]) :
                    i + 1 \in 1..Len(waiting[c]) /\ waiting'[c][i] = waiting[c][i + 1]
            BY <3>1, HeadTailProperties
        <3>3. \A i \in 1..Len(waiting'[c]) :
                 \E j \in 1..Len(waiting[c]) : waiting'[c][i] = waiting[c][j]
            BY <3>2
        <3>4. turn'[c].job \in Jobs(c)
            BY <3>2 DEF Jobs
        <3>5. ASSUME NEW job \in Jobs(c)' PROVE job \in Jobs(c)
            <4>1. job = turn'[c].job \/ \E i \in 1..Len(waiting'[c]) : job = waiting'[c][i]
                BY DEF Jobs
            <4>2. job = turn'[c].job \/ \E j \in 1..Len(waiting[c]) : job = waiting[c][j]
                BY <3>3, <4>1
            <4> QED BY <3>4, <4>2 DEF Jobs
        <3> QED BY <3>5
    <2> QED BY <2>2, <2>3
<1>4. ASSUME NEW d \in Chats,
             \/ HandleNew(d) \/ HandleStop(d) \/ HandleStopNothing(d)
             \/ AbortFails(d) \/ \E s \in Slots : Rebind(d, s)
      PROVE  UNCHANGED <<waiting, turn>>
    BY <1>4 DEF HandleNew, HandleStop, HandleStopNothing, AbortFails, Rebind
<1>5. ASSUME NEW d \in Chats, AbortAnswer(d) PROVE Same
    BY <1>1, <1>5 DEF AbortAnswer, NoTurn
<1>6. ASSUME NEW d \in Chats,
             \/ ExistsAnswer(d) \/ CreateAnswer(d) \/ PatchAnswer(d) \/ Persist(d)
             \/ PromptTaken(d) \/ PromptAnswer(d) \/ RequestFails(d)
      PROVE  Same
    <2>1. waiting' = waiting
        BY <1>6 DEF ExistsAnswer, CreateAnswer, PatchAnswer, Persist, PromptTaken, PromptAnswer,
                    RequestFails
    <2>2. turn'[c].job = turn[c].job \/ turn'[c] = NoTurn
        <3>1. CreateAnswer(d) => turn'[c].job = turn[c].job
            BY DEF CreateAnswer
        <3>2. ASSUME NEW at, turn' = [turn EXCEPT ![d].at = at] PROVE turn'[c].job = turn[c].job
            BY <3>2
        <3>3. EndTurn(d) => turn'[c] \in {turn[c], NoTurn}
            BY DEF EndTurn
        <3>4. CreateAnswer(d) \/ EndTurn(d) \/ \E at : turn' = [turn EXCEPT ![d].at = at]
            BY <1>6 DEF ExistsAnswer, Persist, PatchAnswer, PromptTaken, PromptAnswer,
                        RequestFails, FailTurn
        <3> QED BY <3>1, <3>2, <3>3, <3>4
    <2> QED BY <1>1, <2>1, <2>2 DEF NoTurn
<1>7. ASSUME NEW s \in Slots, Wipe(s) PROVE Same
    <2>1. turn'[c] \in {turn[c], NoTurn, [turn[c] EXCEPT !.hit = TRUE]} /\ waiting' = waiting
        BY <1>7 DEF Wipe
    <2> QED BY <1>1, <2>1 DEF NoTurn
<1>8. CASE Crash
    BY <1>1, <1>8 DEF Crash, NoTurn
<1>9. CASE UNCHANGED <<waiting, turn>>
    BY <1>1, <1>9
<1>10. UNCHANGED vars => UNCHANGED <<waiting, turn>>
    BY DEF vars
<1> QED BY <1>2, <1>3, <1>4, <1>5, <1>6, <1>7, <1>8, <1>9, <1>10, <1>13 DEF Next, Worker

\* What a chat has sent and left behind only grows, and sends wait for the abort.
LEMMA HistoryGrows ==
    ASSUME TypeInv, EarlierInv, [Next]_vars, NEW c \in Chats
    PROVE  /\ sent[c] <= sent'[c] /\ (sent'[c] # sent[c] => HandleMessage(c))
           /\ ranIn[c].retired \subseteq ranIn'[c].retired
           /\ ranIn'[c].retired \subseteq ranIn'[c].all
           /\ ranIn'[c].retired # ranIn[c].retired => HandleNew(c)
<1> USE DEF TypeInv, QueueType, HistoryType, Histories, EarlierInv
<1>1. sent[c] \in Nat
    BY Bounds
<1>2. CASE sent'[c] = sent[c] /\ ranIn'[c] = ranIn[c]
    BY <1>1, <1>2
<1>3. ASSUME NEW d \in Chats, HandleMessage(d)
      PROVE  /\ sent[c] <= sent'[c] /\ (sent'[c] # sent[c] => HandleMessage(c))
             /\ ranIn' = ranIn
    <2>1. ranIn' = ranIn /\ sent' = [sent EXCEPT ![d] = sent[d] + 1]
        BY <1>3 DEF HandleMessage, historyVars
    <2>2. c # d => sent'[c] = sent[c]
        BY <2>1
    <2>3. c = d => sent'[c] = sent[c] + 1
        BY <2>1
    <2> QED BY <1>1, <1>3, <2>1, <2>2, <2>3
<1>4. ASSUME NEW d \in Chats, HandleNew(d)
      PROVE  /\ sent' = sent
             /\ ranIn[c].retired \subseteq ranIn'[c].retired
             /\ ranIn'[c].retired \subseteq ranIn'[c].all
             /\ ranIn'[c].retired # ranIn[c].retired => HandleNew(c)
    BY <1>4 DEF HandleNew
<1>5. ASSUME NEW d \in Chats, PromptTaken(d)
      PROVE  /\ sent' = sent /\ ranIn'[c].retired = ranIn[c].retired
             /\ ranIn[c].all \subseteq ranIn'[c].all
    <2>1. ranIn' = ranIn \/ ranIn' = [ranIn EXCEPT ![d].all = @ \cup {turn[d].sid}]
        BY <1>5 DEF PromptTaken
    <2>2. sent' = sent
        BY <1>5 DEF PromptTaken, boundVars
    <2>3. ASSUME ranIn' = [ranIn EXCEPT ![d].all = @ \cup {turn[d].sid}]
          PROVE  ranIn'[c].retired = ranIn[c].retired /\ ranIn[c].all \subseteq ranIn'[c].all
        BY <2>3
    <2> QED BY <2>1, <2>2, <2>3
<1>6. ASSUME NEW d \in Chats,
             \/ HandleStop(d) \/ HandleStopNothing(d) \/ AbortAnswer(d)
             \/ (\E s \in Slots : Rebind(d, s)) \/ StartTurn(d) \/ ExistsAnswer(d)
             \/ CreateAnswer(d) \/ PatchAnswer(d) \/ Persist(d) \/ PromptAnswer(d)
             \/ RequestFails(d) \/ StartFails(d) \/ AbortFails(d)
      PROVE  UNCHANGED <<sent, ranIn>>
    BY <1>6 DEF HandleStop, HandleStopNothing, AbortAnswer, Rebind, StartTurn, ExistsAnswer,
                CreateAnswer, PatchAnswer, Persist, PromptAnswer, RequestFails, StartFails,
                AbortFails, boundVars, historyVars
<1>7. UNCHANGED vars \/ Crash \/ (\E s \in Slots : Wipe(s)) => UNCHANGED <<sent, ranIn>>
    BY DEF vars, Crash, Wipe, boundVars, historyVars
<1> QED BY <1>1, <1>2, <1>3, <1>4, <1>5, <1>6, <1>7 DEF Next, Worker

\* A turn that waits or runs keeps to its place in the chat's history.
LEMMA EarlierStep ==
    ASSUME TypeInv, EarlierInv, [Next]_vars
    PROVE  EarlierInv'
<1>1. SUFFICES ASSUME NEW c \in Chats, NEW job \in Jobs(c)' PROVE Earlier(job, c)'
    BY HistoryGrows DEF EarlierInv
<1>2. /\ sent[c] <= sent'[c] /\ sent[c] \in Nat /\ sent'[c] \in Nat
      /\ ranIn[c].retired \subseteq ranIn'[c].retired
    BY HistoryGrows, QueueStep, Bounds DEF TypeInv, QueueType
<1>3. CASE job \in Jobs(c)
    <2>1. job.n \in Nat
        <3>1. turn[c].job \in Job
            BY DEF TypeInv, TurnType, TurnRecord
        <3>2. waiting[c] \in Seq(Job)
            BY DEF TypeInv, QueueType
        <3>3. \A i \in 1..Len(waiting[c]) : waiting[c][i] \in Job
            BY <3>2
        <3>4. job \in Job
            BY <1>3, <3>1, <3>3 DEF Jobs
        <3> QED BY <3>4, Bounds DEF Job
    <2>2. Earlier(job, c)
        BY <1>3 DEF EarlierInv
    <2> QED BY <1>2, <2>1, <2>2 DEF Earlier
<1>4. CASE job = NoJob
    BY <1>2, <1>4 DEF Earlier, NoJob
<1>5. CASE /\ HandleMessage(c)
           /\ job = [n |-> sent[c] + 1, slot |-> binding[c], retired |-> ranIn[c].retired]
    <2>1. sent'[c] = sent[c] + 1 /\ ranIn' = ranIn
        BY <1>5 DEF HandleMessage, TypeInv, QueueType, historyVars
    <2> QED BY <1>2, <1>5, <2>1 DEF Earlier
<1> QED BY <1>1, <1>3, <1>4, <1>5, JobsStep

\* The messages of a chat's turns are always sent.
LEMMA EarlierHolds == Spec => []EarlierInv
<1>1. Init => EarlierInv
    BY Bounds DEF Init, EarlierInv, Jobs, Earlier, NoTurn, NoJob
<1>2. TypeInv /\ EarlierInv /\ [Next]_vars => EarlierInv'
    BY EarlierStep
<1> QED BY <1>1, <1>2, TypesHold, PTL DEF Spec

\* Unless a /new has fallen into the resolution of a turn, neither the row nor the
\* turn that acts on it is of a session the chat has left behind.
Fresh(c) == ~raced[c] =>
    /\ routing[c] \notin ranIn[c].retired
    /\ Resolving(c) => turn[c].sid \notin ranIn[c].retired
    /\ turn[c].at \in {"send", "prompt"} => turn[c].sid \notin turn[c].job.retired

FreshInv == \A c \in Chats : Fresh(c)

\* Only a /new between the read of the row and the write back makes a row stale.
LEMMA FreshStep ==
    ASSUME TypeInv, EarlierInv, FreshInv, [Next]_vars
    PROVE  FreshInv'
<1> SUFFICES ASSUME NEW c \in Chats PROVE Fresh(c)'
    BY DEF FreshInv
<1> USE DEF TypeInv, StoreType, TurnType, TurnRecord, CounterType
<1>1. /\ Fresh(c) /\ turn[c].job.retired \subseteq ranIn[c].retired
      /\ ranIn[c].retired \subseteq 1..Len(home) /\ Len(home) \in Nat
      /\ 0 \notin ranIn[c].retired /\ Len(home) + 1 \notin ranIn[c].retired
    <2>1. turn[c].job \in Jobs(c)
        BY DEF Jobs
    <2>2. Fresh(c) /\ turn[c].job.retired \subseteq ranIn[c].retired
        BY <2>1 DEF FreshInv, EarlierInv, Earlier
    <2>3. ranIn[c].retired \subseteq 1..Len(home) /\ Len(home) \in Nat
        BY LenHome DEF EarlierInv, HistoryType
    <2> QED BY <2>2, <2>3
<1>2. ASSUME routing'[c] = routing[c], ranIn'[c].retired = ranIn[c].retired, raced'[c] = raced[c],
             turn'[c].at = "idle" \/ (turn'[c].sid = turn[c].sid /\ turn'[c].job = turn[c].job),
             Resolving(c)' => Resolving(c),
             turn'[c].at \in {"send", "prompt"} => turn[c].at \in {"send", "prompt"}
      PROVE  Fresh(c)'
    BY <1>1, <1>2 DEF Fresh, Resolving
<1>3. ASSUME UNCHANGED <<routing, turn, raced, ranIn>> PROVE Fresh(c)'
    BY <1>2, <1>3 DEF Resolving
<1>4. ASSUME NEW d \in Chats, d # c, Worker(d) \/ HandleNew(d) \/ HandleMessage(d) PROVE Fresh(c)'
    <2>1. /\ turn'[c] = turn[c] /\ routing'[c] = routing[c] /\ raced'[c] = raced[c]
          /\ ranIn'[c] = ranIn[c]
        <3>1. Worker(d) => turn'[c] = turn[c]
            BY <1>4 DEF Worker, StartTurn, ExistsAnswer, CreateAnswer, PatchAnswer, Persist,
                        PromptTaken, PromptAnswer, RequestFails, StartFails, FailTurn, EndTurn
        <3>2. Worker(d) => /\ routing'[c] = routing[c] /\ raced'[c] = raced[c]
                           /\ ranIn'[c] = ranIn[c]
            <4>1. Persist(d) => routing'[c] = routing[c] /\ UNCHANGED <<raced, ranIn>>
                BY <1>4 DEF Persist, historyVars
            <4>2. PromptTaken(d) => ranIn'[c] = ranIn[c] /\ UNCHANGED <<raced, routing>>
                <5>1. ASSUME ranIn' = [ranIn EXCEPT ![d].all = @ \cup {turn[d].sid}]
                      PROVE  ranIn'[c] = ranIn[c]
                    BY <1>4, <5>1 DEF HistoryType
                <5>2. PromptTaken(d) =>
                         \/ ranIn' = ranIn
                         \/ ranIn' = [ranIn EXCEPT ![d].all = @ \cup {turn[d].sid}]
                    BY DEF PromptTaken
                <5>3. PromptTaken(d) => UNCHANGED <<raced, routing>>
                    BY DEF PromptTaken, storeVars
                <5> QED BY <5>1, <5>2, <5>3
            <4>3. ASSUME \/ StartTurn(d) \/ ExistsAnswer(d) \/ CreateAnswer(d)
                         \/ PatchAnswer(d) \/ PromptAnswer(d) \/ RequestFails(d)
                         \/ StartFails(d)
                  PROVE  UNCHANGED <<raced, routing, ranIn>>
                BY <4>3 DEF StartTurn, ExistsAnswer, CreateAnswer, PatchAnswer, PromptAnswer,
                       RequestFails, StartFails, storeVars, historyVars
            <4> QED BY <4>1, <4>2, <4>3 DEF Worker
        <3>3. HandleNew(d) => turn' = turn /\ routing'[c] = routing[c] /\ raced'[c] = raced[c]
                              /\ ranIn'[c] = ranIn[c]
            BY <1>4 DEF HandleNew
        <3>4. HandleMessage(d) => UNCHANGED <<turn, routing, raced, ranIn>>
            BY DEF HandleMessage, storeVars, historyVars
        <3> QED BY <1>4, <3>1, <3>2, <3>3, <3>4
    <2> QED BY <1>2, <2>1 DEF Resolving
<1>5. CASE HandleNew(c)
    <2>1. /\ turn' = turn /\ routing'[c] = 0 /\ (raced'[c] <=> raced[c] \/ Resolving(c))
          /\ ranIn'[c].retired = ranIn[c].all
        <3>1. /\ turn' = turn /\ routing' = [routing EXCEPT ![c] = NoSession]
              /\ ranIn' = [ranIn EXCEPT ![c].retired = ranIn[c].all]
              /\ raced' = [raced EXCEPT ![c] = raced[c] \/ Resolving(c)]
            BY <1>5 DEF HandleNew, Cleared
        <3> QED BY <3>1 DEF NoSession, HistoryType, Histories
    <2>2. 0 \notin ranIn[c].all
        BY DEF HistoryType
    <2>3. Resolving(c)' <=> Resolving(c)
        BY <2>1 DEF Resolving
    <2> QED BY <1>1, <2>1, <2>2, <2>3 DEF Fresh
<1>6. CASE StartTurn(c)
    <2>1. turn'[c].at \in {"create", "exists"} /\ turn'[c].sid = routing[c]
        <3>1. turn' = [turn EXCEPT ![c] = [at |-> FirstRequest(c), job |-> Head(waiting[c]),
                                           sid |-> routing[c], hit |-> FALSE]]
            BY <1>6 DEF StartTurn, Stored
        <3> QED BY <3>1 DEF FirstRequest
    <2>2. UNCHANGED <<routing, raced, ranIn>>
        BY <1>6 DEF StartTurn, storeVars, historyVars
    <2> QED BY <1>1, <2>1, <2>2 DEF Fresh
<1>7. CASE ExistsAnswer(c)
    <2>1. /\ turn[c].at = "exists" /\ turn'[c].at \in {"create", "persist"}
          /\ turn'[c].sid = turn[c].sid
        <3>1. PICK at \in {"create", "persist"} : turn' = [turn EXCEPT ![c].at = at]
            BY <1>7 DEF ExistsAnswer
        <3> QED BY <1>7, <3>1 DEF ExistsAnswer, TurnAt
    <2>2. UNCHANGED <<routing, raced, ranIn>>
        BY <1>7 DEF ExistsAnswer, storeVars, historyVars
    <2> QED BY <1>1, <2>1, <2>2 DEF Fresh, Resolving
<1>8. CASE CreateAnswer(c)
    <2>1. turn'[c].at \in {"patch", "persist"} /\ turn'[c].sid = Len(home) + 1
        BY <1>8 DEF CreateAnswer
    <2>2. UNCHANGED <<routing, raced, ranIn>>
        BY <1>8 DEF CreateAnswer, storeVars, historyVars
    <2> QED BY <1>1, <2>1, <2>2 DEF Fresh, Resolving
<1>9. ASSUME EndTurn(c), UNCHANGED <<routing, raced>>, ranIn'[c].retired = ranIn[c].retired
      PROVE  Fresh(c)'
    BY <1>2, <1>9, NoTurnFacts DEF EndTurn, Resolving
<1>10. CASE PatchAnswer(c)
    <2>1. UNCHANGED <<routing, raced, ranIn>> /\ turn[c].at = "patch"
        BY <1>10 DEF PatchAnswer, storeVars, TurnAt
    <2>2. CASE turn' = [turn EXCEPT ![c].at = "persist"]
        BY <1>2, <2>1, <2>2 DEF Resolving
    <2> QED BY <1>9, <1>10, <2>1, <2>2 DEF PatchAnswer, FailTurn
<1>11. CASE Persist(c)
    <2>1. UNCHANGED <<raced, ranIn>> /\ turn[c].at = "persist"
        BY <1>11 DEF Persist, TurnAt, historyVars
    <2>2. /\ turn'[c].at = "send" /\ turn'[c].sid = turn[c].sid /\ turn'[c].job = turn[c].job
          /\ routing'[c] = turn[c].sid
        BY <1>11 DEF Persist
    <2> QED BY <1>1, <2>1, <2>2 DEF Fresh, Resolving
<1>12. CASE PromptTaken(c)
    <2>1. UNCHANGED <<routing, raced>> /\ turn[c].at = "send"
        BY <1>12 DEF PromptTaken, storeVars, TurnAt
    <2>2. ranIn'[c].retired = ranIn[c].retired
        <3>1. ranIn' = ranIn \/ ranIn' = [ranIn EXCEPT ![c].all = @ \cup {turn[c].sid}]
            BY <1>12 DEF PromptTaken
        <3> QED BY <3>1 DEF HistoryType, Histories
    <2>3. CASE turn' = [turn EXCEPT ![c].at = "prompt"]
        BY <1>2, <2>1, <2>2, <2>3 DEF Resolving
    <2> QED BY <1>9, <1>12, <2>1, <2>2, <2>3 DEF PromptTaken, FailTurn
<1>13. CASE PromptAnswer(c) \/ RequestFails(c)
    BY <1>9, <1>13 DEF PromptAnswer, RequestFails, FailTurn, storeVars, historyVars
<1>14. ASSUME NEW d \in Chats, AbortAnswer(d) PROVE Fresh(c)'
    <2>1. turn'[c] \in {turn[c], NoTurn} /\ UNCHANGED <<routing, raced, ranIn>>
        BY <1>14 DEF AbortAnswer, storeVars, historyVars
    <2> QED BY <1>2, <2>1, NoTurnFacts DEF Resolving
<1>15. ASSUME NEW s \in Slots, Wipe(s) PROVE Fresh(c)'
    <2>1. /\ turn'[c] \in {turn[c], NoTurn, [turn[c] EXCEPT !.hit = TRUE]}
          /\ UNCHANGED <<routing, raced, ranIn>>
        BY <1>15 DEF Wipe, storeVars, historyVars
    <2>2. turn'[c] = NoTurn \/ /\ turn'[c].at = turn[c].at /\ turn'[c].sid = turn[c].sid
                               /\ turn'[c].job = turn[c].job
        BY <2>1
    <2> QED BY <1>2, <2>1, <2>2, NoTurnFacts DEF Resolving
<1>16. CASE Crash
    <2>1. turn'[c] = NoTurn /\ UNCHANGED <<routing, raced, ranIn>>
        BY <1>16 DEF Crash, storeVars, historyVars
    <2> QED BY <1>2, <2>1, NoTurnFacts DEF Resolving
<1>17. ASSUME NEW d \in Chats,
              \/ HandleMessage(d) \/ HandleStop(d) \/ HandleStopNothing(d)
              \/ StartFails(d) \/ AbortFails(d) \/ \E s \in Slots : Rebind(d, s)
       PROVE  UNCHANGED <<routing, turn, raced, ranIn>>
    BY <1>17 DEF HandleMessage, HandleStop, HandleStopNothing, StartFails, AbortFails, Rebind,
                 storeVars, historyVars
<1>18. UNCHANGED vars => UNCHANGED <<routing, turn, raced, ranIn>>
    BY DEF vars, storeVars, historyVars
<1> QED BY <1>3, <1>4, <1>5, <1>6, <1>7, <1>8, <1>10, <1>11, <1>12, <1>13, <1>14, <1>15, <1>16,
           <1>17, <1>18 DEF Next, Worker

\* A message sent after a /new that did not fall into the resolution of a turn never
\* runs in a session the chat used before it (handle_new, bot.rs:778-781).
THEOREM NewIsFinalButForTheRace == Spec => []NewIsFinalUnlessRaced
<1>1. Init => FreshInv
    BY NoTurnFacts DEF Init, FreshInv, Fresh, Resolving
<1>2. TypeInv /\ EarlierInv /\ FreshInv /\ [Next]_vars => FreshInv'
    BY FreshStep
<1>3. FreshInv => NewIsFinalUnlessRaced
    BY DEF FreshInv, Fresh, NewIsFinalUnlessRaced
<1> QED BY <1>1, <1>2, <1>3, TypesHold, EarlierHolds, PTL DEF Spec

\* While a chat's dispatcher awaits an abort, the chat sends nothing, and the session
\* to be aborted is of no other chat.
StopInv == \A c \in Chats : stop[c] # NoStop =>
    /\ stop[c].upto = sent[c] /\ stop[c].sid \in 1..Len(home)
    /\ \A d \in Chats : d # c => stop[c].sid \notin Held(d)

\* Nothing the worker or another chat does disturbs an abort that is awaited.
LEMMA StopStays ==
    ASSUME TypeInv, EarlierInv, StopInv, Private, [Next]_vars
    PROVE  StopInv'
<1> USE DEF TypeInv, StopInv
<1>1. SUFFICES ASSUME NEW c \in Chats, stop'[c] # NoStop
               PROVE  /\ stop'[c].upto = sent'[c] /\ stop'[c].sid \in 1..Len(home')
                      /\ \A d \in Chats : d # c => stop'[c].sid \notin Held(d)'
    OBVIOUS
<1>2. Len(home) \in Nat /\ Len(home') \in Nat /\ Len(home) <= Len(home')
    BY OpencodeStep, LenHome
<1>3. ASSUME NEW i \in 1..Len(home)
      PROVE  i \in 1..Len(home') /\ \A d \in Chats : i \notin Held(d) => i \notin Held(d)'
    <2>1. i # Len(home) + 1 /\ i \in 1..Len(home')
        BY <1>2
    <2> QED BY <2>1, HeldSteps
<1>4. CASE stop'[c] = stop[c]
    <2>1. ~HandleMessage(c)
        BY <1>1, <1>4 DEF HandleMessage, DispatcherFree
    <2> QED BY <1>1, <1>3, <1>4, <2>1, HistoryGrows
<1>5. CASE HandleStop(c)
    <2>1. /\ stop'[c].upto = sent[c] /\ stop'[c].sid = routing[c] /\ routing[c] # NoSession
          /\ sent' = sent
        BY <1>5 DEF HandleStop, StopType
    <2>2. routing[c] \in Held(c) /\ routing[c] \in 1..Len(home)
        BY <1>2, <2>1 DEF Held, StoreType, NoSession
    <2>3. \A d \in Chats : d # c => routing[c] \notin Held(d)
        BY <2>2 DEF Private
    <2> QED BY <1>3, <2>1, <2>2, <2>3
<1>6. ASSUME NEW d \in Chats, HandleStop(d), d # c PROVE stop'[c] = stop[c]
    BY <1>6 DEF HandleStop
<1>7. ASSUME NEW d \in Chats, AbortAnswer(d) \/ AbortFails(d)
      PROVE  stop'[c] \in {stop[c], NoStop}
    <2>1. stop' = [stop EXCEPT ![d] = NoStop]
        BY <1>7 DEF AbortAnswer, AbortFails
    <2> QED BY <2>1 DEF StopType
<1>8. Crash => stop'[c] = NoStop
    BY DEF Crash
<1>9. ASSUME NEW d \in Chats,
             \/ HandleMessage(d) \/ HandleNew(d) \/ HandleStopNothing(d)
             \/ (\E s \in Slots : Rebind(d, s)) \/ Worker(d)
      PROVE  UNCHANGED stop
    BY <1>9 DEF HandleMessage, HandleNew, HandleStopNothing, Rebind, Worker, StartTurn,
                ExistsAnswer, CreateAnswer, PatchAnswer, Persist, PromptTaken, PromptAnswer,
                RequestFails, StartFails
<1>10. UNCHANGED vars \/ (\E s \in Slots : Wipe(s)) => UNCHANGED stop
    BY DEF vars, Wipe
<1> QED BY <1>1, <1>4, <1>5, <1>6, <1>7, <1>8, <1>9, <1>10 DEF Next

\* The turn that a /stop ends is one of its own chat, from a message sent before it,
\* though another may have begun while the abort was on its way, and whatever
\* instances chats share or are moved to (handle_stop, bot.rs:841-891).
THEOREM StopEndsItsOwn == Spec => StopIsContained
<1>1. Init => Private /\ StopInv
    BY NoTurnFacts DEF Init, Private, Held, NoSession, StopInv
<1>2. TypeInv /\ EarlierInv /\ Private /\ StopInv /\ [Next]_vars => Private' /\ StopInv'
    BY PrivateStep, StopStays
<1> DEFINE Contained == \A c, d \in Chats :
               stop[c] # NoStop /\ stop'[c] = NoStop /\ turn'[d] # turn[d] /\ faults' = faults
                  => c = d /\ turn[d].job.n <= stop[c].upto
<1>3. TypeInv /\ EarlierInv /\ StopInv /\ [Next]_vars => [Contained]_vars
    <2> SUFFICES ASSUME TypeInv, EarlierInv, StopInv, Next, NEW c \in Chats, NEW d \in Chats,
                        stop[c] # NoStop, stop'[c] = NoStop, turn'[d] # turn[d], faults' = faults
                 PROVE  c = d /\ turn[d].job.n <= stop[c].upto
        OBVIOUS
    <2> USE DEF TypeInv
    <2>1. AbortAnswer(c)
        <3>1. ASSUME NEW e \in Chats,
                     \/ HandleMessage(e) \/ HandleNew(e) \/ HandleStopNothing(e)
                     \/ (\E s \in Slots : Rebind(e, s)) \/ Worker(e)
              PROVE  UNCHANGED stop
            BY <3>1 DEF HandleMessage, HandleNew, HandleStopNothing, Rebind, Worker, StartTurn,
                        ExistsAnswer, CreateAnswer, PatchAnswer, Persist, PromptTaken,
                        PromptAnswer, RequestFails, StartFails
        <3>2. ASSUME NEW e \in Chats, HandleStop(e) PROVE UNCHANGED turn
            BY <3>2 DEF HandleStop
        <3>3. ASSUME NEW e \in Chats, e # c, AbortAnswer(e) PROVE stop'[c] = stop[c]
            BY <3>3 DEF AbortAnswer
        <3>4. \/ Crash \/ (\E s \in Slots : Wipe(s)) \/ (\E e \in Chats : AbortFails(e))
              => faults' = faults + 1
            BY DEF Crash, Wipe, AbortFails, Fault
        <3>5. faults \in Nat
            BY Bounds DEF CounterType
        <3> QED BY <3>1, <3>2, <3>3, <3>4, <3>5 DEF Next
    <2>2. turn[d].at = "prompt" /\ turn[d].sid = stop[c].sid
        BY <2>1 DEF AbortAnswer, TurnAt
    <2>3. stop[c].upto = sent[c] /\ stop[c].sid # NoSession /\ (d # c => stop[c].sid \notin Held(d))
        BY LenHome DEF StopInv, NoSession
    <2>4. c = d
        BY <2>2, <2>3 DEF Held
    <2>5. turn[d].job \in Jobs(d)
        BY DEF Jobs
    <2> QED BY <2>3, <2>4, <2>5 DEF EarlierInv, Earlier
<1> QED BY <1>1, <1>2, <1>3, TypesHold, EarlierHolds, PTL DEF Spec, StopIsContained

-----------------------------------------------------------------------------
(* The way of a message into its turn (InboundMedia).                      *)

\* The constants one by one.
LEMMA MediaBounds == USER_QUEUE_DEPTH \in Nat /\ ttl \in Nat /\ MaxTime \in Nat
BY MediaAssumption DEF I!InboundMediaAssumption

\* Only photos and documents are downloaded.
MediaType ==
    /\ clock \in 0..MaxTime /\ announce \in BOOLEAN /\ listening \in BOOLEAN
    /\ inbox \in Seq(I!Messages) /\ queue \in Seq(I!Messages) /\ turns \in Seq(I!Messages)
    /\ Len(queue) <= USER_QUEUE_DEPTH
    /\ step \in [I!Messages -> I!Steps]
    /\ stored \subseteq Media /\ refused \subseteq Media /\ handedOut \subseteq Media \X Media
    /\ put_at \in [I!Messages -> 0..MaxTime]
    /\ \A m \in I!Messages : step[m] \in {"downloading", "storing"} => m \in Media

\* Message x was sent before message y.
Before(in, x, y) == \E i, j \in DOMAIN in : i < j /\ in[i] = x /\ in[j] = y

\* The steps of a message on its way into the queue.
Waiting == {"sent", "downloading", "storing", "ready"}

\* A message is sent once; those behind one that is not through its handler are not
\* even in theirs.
InboxInv ==
    /\ \A i, j \in DOMAIN inbox : inbox[i] = inbox[j] => i = j
    /\ \A m \in I!Messages : step[m] # "unsent" => \E i \in DOMAIN inbox : inbox[i] = m
    /\ \A i \in DOMAIN inbox : step[inbox[i]] # "unsent"
    /\ \A i, j \in DOMAIN inbox :
          i < j /\ step[inbox[i]] \in Waiting => step[inbox[j]] = "sent"

\* The turns that have begun and those that wait are, in this order, in the order of
\* the messages.
LineInv ==
    /\ \A i \in DOMAIN queue : step[queue[i]] = "queued"
    /\ \A i \in DOMAIN turns : step[turns[i]] \in {"running", "done"}
    /\ \A i, j \in DOMAIN queue : i < j => Before(inbox, queue[i], queue[j])
    /\ \A i, j \in DOMAIN turns : i < j => Before(inbox, turns[i], turns[j])
    /\ \A i \in DOMAIN turns, j \in DOMAIN queue : Before(inbox, turns[i], queue[j])

\* A file that a turn will announce, or announces, is in the store, or was taken by
\* that turn, or is out of time.
Kept(m) == m \in stored \/ <<m, m>> \in handedOut \/ I!Expired(m)

KeptInv ==
    /\ \A m \in Media :
          announce /\ step[m] \in {"ready", "queued", "running"} => Kept(m)
    /\ \A m \in refused : /\ step[m] \in {"running", "done"}
                          /\ <<m, m>> \in handedOut \/ I!Expired(m)

MediaInv == MediaType /\ InboxInv /\ LineInv /\ KeptInv

\* Every step keeps the types.
LEMMA MediaTypeStep ==
    ASSUME MediaType, [I!Next]_I!vars
    PROVE  MediaType'
<1> USE MediaBounds DEF MediaType
<1>1. Media \subseteq I!Messages
    BY DEF I!Messages
<1>2. CASE UNCHANGED I!vars
    BY <1>2 DEF I!vars, I!config, I!mediaVars
<1>3. CASE I!Tick
    <2>1. clock' \in 0..MaxTime
        BY <1>3 DEF I!Tick
    <2> QED BY <1>3, <2>1 DEF I!Tick, I!config, I!mediaVars
<1>4. CASE I!Sweep
    BY <1>4 DEF I!Sweep, I!config
<1>5. CASE I!BeginTurn
    <2>1. Head(queue) \in I!Messages /\ Tail(queue) \in Seq(I!Messages)
          /\ Len(Tail(queue)) = Len(queue) - 1 /\ Len(queue) \in Nat
        BY <1>5, HeadTailProperties, LenProperties DEF I!BeginTurn
    <2>2. turns' \in Seq(I!Messages)
        BY <1>5, <2>1, AppendProperties DEF I!BeginTurn
    <2> QED BY <1>5, <2>1, <2>2 DEF I!BeginTurn, I!To, I!Steps, I!config, I!mediaVars
<1>6. ASSUME NEW m \in I!Messages, I!Send(m) PROVE MediaType'
    <2>1. inbox' \in Seq(I!Messages)
        BY <1>6, AppendProperties DEF I!Send
    <2> QED BY <1>6, <2>1 DEF I!Send, I!To, I!Steps, I!config, I!mediaVars
<1>7. ASSUME NEW m \in I!Messages, I!Enqueue(m) PROVE MediaType'
    <2>1. queue' \in Seq(I!Messages) /\ Len(queue') <= USER_QUEUE_DEPTH
        <3>1. Len(queue) \in Nat /\ Append(queue, m) \in Seq(I!Messages)
              /\ Len(Append(queue, m)) = Len(queue) + 1
            BY AppendProperties, LenProperties
        <3>2. queue' = queue \/ (queue' = Append(queue, m) /\ Len(queue) < USER_QUEUE_DEPTH)
            BY <1>7 DEF I!Enqueue
        <3>3. CASE queue' = Append(queue, m) /\ Len(queue) < USER_QUEUE_DEPTH
            <4>1. Len(queue') <= USER_QUEUE_DEPTH
                BY <3>1, <3>3
            <4> QED BY <3>1, <3>3, <4>1
        <3> QED BY <3>2, <3>3
    <2> QED BY <1>7, <2>1 DEF I!Enqueue, I!To, I!Steps, I!config, I!mediaVars
<1>8. ASSUME NEW m \in I!Messages, I!Put(m) PROVE MediaType'
    <2>1. m \in Media
        BY <1>8 DEF I!Put
    <2> QED BY <1>1, <1>8, <2>1 DEF I!Put, I!To, I!Steps, I!config
<1>9. ASSUME NEW m \in I!Messages, I!Fetch(m) PROVE MediaType'
    BY <1>1, <1>9 DEF I!Fetch, I!Announced, I!config
<1>10. ASSUME NEW m \in I!Messages,
             I!Handle(m) \/ I!Downloaded(m) \/ I!DownloadFails(m) \/ I!EndTurn(m)
      PROVE  MediaType'
    BY <1>10 DEF I!Handle, I!Downloaded, I!DownloadFails, I!EndTurn, I!AfterDownload, I!To,
                I!Steps, I!config, I!mediaVars
<1> QED BY <1>2, <1>3, <1>4, <1>5, <1>6, <1>7, <1>8, <1>9, <1>10 DEF I!Next

\* What has been sent before stays before.
LEMMA InboxGrows ==
    ASSUME MediaType, [I!Next]_I!vars
    PROVE  /\ DOMAIN inbox = 1..Len(inbox) /\ Len(inbox) \in Nat
           /\ DOMAIN inbox \subseteq DOMAIN inbox'
           /\ \A i \in DOMAIN inbox : inbox'[i] = inbox[i]
           /\ \A x, y : Before(inbox, x, y) => Before(inbox', x, y)
<1>1. ASSUME NEW m \in I!Messages, I!Send(m)
      PROVE  DOMAIN inbox \subseteq DOMAIN inbox' /\ \A i \in DOMAIN inbox : inbox'[i] = inbox[i]
    <2>1. inbox' = Append(inbox, m) /\ inbox \in Seq(I!Messages)
        BY <1>1 DEF I!Send, MediaType
    <2>2. Len(inbox') = Len(inbox) + 1 /\ Len(inbox) \in Nat /\ inbox' \in Seq(I!Messages)
          /\ \A i \in 1..Len(inbox) : inbox'[i] = inbox[i]
        BY <2>1, AppendProperties, LenProperties
    <2>3. DOMAIN inbox = 1..Len(inbox) /\ DOMAIN inbox' = 1..Len(inbox')
        BY <2>1, <2>2
    <2> QED BY <2>2, <2>3
<1>2. ASSUME NEW m \in I!Messages,
             \/ I!Handle(m) \/ I!Downloaded(m) \/ I!DownloadFails(m) \/ I!Put(m)
             \/ I!Enqueue(m) \/ I!EndTurn(m) \/ I!Fetch(m)
      PROVE  inbox' = inbox
    BY <1>2 DEF I!Handle, I!Downloaded, I!DownloadFails, I!Put, I!Enqueue, I!EndTurn, I!Fetch
<1>3. UNCHANGED I!vars \/ I!Tick \/ I!BeginTurn \/ I!Sweep => inbox' = inbox
    BY DEF I!vars, I!Tick, I!BeginTurn, I!Sweep
<1>4. DOMAIN inbox \subseteq DOMAIN inbox' /\ \A i \in DOMAIN inbox : inbox'[i] = inbox[i]
    BY <1>1, <1>2, <1>3 DEF I!Next
<1>5. DOMAIN inbox = 1..Len(inbox) /\ Len(inbox) \in Nat
    BY DEF MediaType
<1> QED BY <1>4, <1>5 DEF Before

\* A handler is awaited before the next message's is called.
LEMMA InboxStep ==
    ASSUME MediaType, InboxInv, LineInv, [I!Next]_I!vars
    PROVE  InboxInv'
<1> USE DEF MediaType, InboxInv, Waiting
<1>1. \A i \in DOMAIN inbox : inbox[i] \in I!Messages
    OBVIOUS
<1>2. ASSUME inbox' = inbox,
             \A m \in I!Messages : step[m] = "unsent" <=> step'[m] = "unsent",
             \A m \in I!Messages : step'[m] # step[m] => step[m] # "sent",
             \A m \in I!Messages : step'[m] \in Waiting => step[m] \in Waiting
      PROVE  InboxInv'
    <2>1. /\ \A m \in I!Messages : step'[m] # "unsent" => \E i \in DOMAIN inbox : inbox[i] = m
          /\ \A i \in DOMAIN inbox : step'[inbox[i]] # "unsent"
        BY <1>1, <1>2
    <2>2. ASSUME NEW i \in DOMAIN inbox, NEW j \in DOMAIN inbox, i < j,
                 step'[inbox[i]] \in Waiting
          PROVE  step'[inbox[j]] = "sent"
        <3>1. inbox[i] \in I!Messages /\ inbox[j] \in I!Messages
            BY <1>1
        <3>2. step[inbox[j]] = "sent"
            BY <1>2, <2>2, <3>1
        <3> QED BY <1>2, <3>1, <3>2
    <2> QED BY <1>2, <2>1, <2>2
<1>3. ASSUME UNCHANGED <<inbox, step>> PROVE InboxInv'
    BY <1>3
<1>4. ASSUME NEW m \in I!Messages, I!Send(m) PROVE InboxInv'
    <2>1. /\ inbox' = Append(inbox, m) /\ step' = [step EXCEPT ![m] = "sent"]
          /\ step[m] = "unsent"
        BY <1>4 DEF I!Send, I!To
    <2>2. /\ Len(inbox) \in Nat /\ DOMAIN inbox = 1..Len(inbox)
          /\ DOMAIN inbox' = 1..(Len(inbox) + 1)
          /\ inbox'[Len(inbox) + 1] = m /\ \A i \in 1..Len(inbox) : inbox'[i] = inbox[i]
        BY <2>1, AppendProperties, LenProperties
    <2>3. /\ \A i \in DOMAIN inbox' : i = Len(inbox) + 1 \/ i \in DOMAIN inbox
          /\ \A i \in DOMAIN inbox : inbox[i] # m /\ i < Len(inbox) + 1
        BY <2>1, <2>2, SMTT(30)
    <2>4. \A x \in I!Messages : step'[x] = IF x = m THEN "sent" ELSE step[x]
        BY <2>1
    <2>5. \A i, j \in DOMAIN inbox' : inbox'[i] = inbox'[j] => i = j
        BY <2>2, <2>3
    <2>6. ASSUME NEW x \in I!Messages, step'[x] # "unsent"
          PROVE  \E i \in DOMAIN inbox' : inbox'[i] = x
        <3>1. Len(inbox) + 1 \in DOMAIN inbox'
            BY <2>2
        <3>2. \A i \in DOMAIN inbox : i \in DOMAIN inbox' /\ inbox'[i] = inbox[i]
            BY <2>2
        <3>3. CASE x = m
            BY <2>2, <3>1, <3>3
        <3>4. CASE x # m
            <4>1. PICK i \in DOMAIN inbox : inbox[i] = x
                BY <2>4, <2>6, <3>4
            <4> QED BY <3>2, <4>1
        <3> QED BY <3>3, <3>4
    <2>7. \A i \in DOMAIN inbox' : step'[inbox'[i]] # "unsent"
        BY <1>1, <2>2, <2>3, <2>4
    <2>8. ASSUME NEW i \in DOMAIN inbox', NEW j \in DOMAIN inbox', i < j,
                 step'[inbox'[i]] \in Waiting
          PROVE  step'[inbox'[j]] = "sent"
        <3>1. i \in DOMAIN inbox /\ inbox'[i] = inbox[i] /\ inbox[i] # m
            BY <2>2, <2>3, <2>8
        <3>2. CASE j = Len(inbox) + 1
            BY <2>2, <2>4, <3>2
        <3>3. CASE j \in DOMAIN inbox
            <4>1. inbox'[j] = inbox[j] /\ inbox[j] # m
                BY <2>2, <2>3, <3>3
            <4> QED BY <1>1, <2>4, <2>8, <3>1, <3>3, <4>1
        <3> QED BY <2>3, <3>2, <3>3
    <2> QED BY <2>5, <2>6, <2>7, <2>8
<1>5. ASSUME NEW m \in I!Messages, I!Handle(m) PROVE InboxInv'
    <2>1. /\ inbox' = inbox /\ step[m] = "sent"
          /\ \A x \in I!Messages : step[x] \notin {"downloading", "storing", "ready"}
          /\ \A i, j \in DOMAIN inbox : i < j /\ inbox[j] = m => step[inbox[i]] # "sent"
        BY <1>5 DEF I!Handle, I!HandlerIsFree, I!Handling, I!IsNext
    <2>2. PICK s \in {"downloading", "ready"} : step' = [step EXCEPT ![m] = s]
        BY <1>5 DEF I!Handle, I!To
    <2>3. \A x \in I!Messages : step'[x] = IF x = m THEN s ELSE step[x]
        BY <2>2
    <2>4. ASSUME NEW i \in DOMAIN inbox, NEW j \in DOMAIN inbox, i < j,
                 step'[inbox[i]] \in Waiting
          PROVE  step'[inbox[j]] = "sent"
        <3>1. step[inbox[i]] = "sent"
            BY <1>1, <2>1, <2>3, <2>4
        <3>2. step[inbox[j]] = "sent" /\ inbox[j] # m
            BY <2>1, <2>4, <3>1
        <3> QED BY <1>1, <2>3, <3>2
    <2> QED BY <1>1, <2>1, <2>3, <2>4, ZenonT(40)
<1>6. ASSUME NEW m \in I!Messages,
             \/ I!Downloaded(m) \/ I!DownloadFails(m) \/ I!Put(m) \/ I!Enqueue(m) \/ I!EndTurn(m)
      PROVE  InboxInv'
    <2>1. inbox' = inbox
        BY <1>6 DEF I!Downloaded, I!DownloadFails, I!Put, I!Enqueue, I!EndTurn
    <2>2. PICK s \in I!Steps \ {"unsent", "sent"} : step' = [step EXCEPT ![m] = s] /\ (s \in Waiting => step[m] \in Waiting)
        BY <1>6 DEF I!Downloaded, I!DownloadFails, I!Put, I!Enqueue, I!EndTurn, I!To, I!Steps,
                    I!AfterDownload
    <2>3. step[m] \notin {"unsent", "sent"}
        BY <1>6 DEF I!Downloaded, I!DownloadFails, I!Put, I!Enqueue, I!EndTurn
    <2>4. \A x \in I!Messages : step'[x] = IF x = m THEN s ELSE step[x]
        BY <2>2
    <2> QED BY <1>2, <2>1, <2>2, <2>3, <2>4
<1>7. UNCHANGED I!vars \/ I!Tick \/ I!Sweep => UNCHANGED <<inbox, step>>
    BY DEF I!vars, I!Tick, I!Sweep
<1>8. ASSUME NEW m \in I!Messages, I!Fetch(m) PROVE UNCHANGED <<inbox, step>>
    BY <1>8 DEF I!Fetch
<1>9. CASE I!BeginTurn
    <2>1. PICK m \in I!Messages : m = Head(queue) /\ step[m] = "queued"
        <3>1. queue # <<>> /\ Head(queue) = queue[1] /\ 1 \in DOMAIN queue
            BY <1>9 DEF I!BeginTurn
        <3> QED BY <3>1 DEF LineInv
    <2>2. step' = [step EXCEPT ![m] = "running"] /\ inbox' = inbox
        BY <1>9, <2>1 DEF I!BeginTurn, I!To
    <2>3. \A x \in I!Messages : step'[x] = IF x = m THEN "running" ELSE step[x]
        BY <2>2
    <2> QED BY <1>2, <2>1, <2>2, <2>3
<1> QED BY <1>3, <1>4, <1>5, <1>6, <1>7, <1>8, <1>9 DEF I!Next

\* A message that is at its end of the handler comes after all that are in line.
LEMMA ReadyIsLast ==
    ASSUME MediaType, InboxInv, NEW m \in I!Messages, step[m] \in Waiting,
           NEW x \in I!Messages, step[x] \notin Waiting, step[x] # "unsent"
    PROVE  Before(inbox, x, m)
<1>1. PICK i \in DOMAIN inbox : inbox[i] = x
    BY DEF InboxInv
<1>2. PICK j \in DOMAIN inbox : inbox[j] = m
    BY DEF InboxInv, Waiting
<1>3. i \in Nat /\ j \in Nat
    BY DEF MediaType
<1>4. i # j
    BY <1>1, <1>2
<1>5. ~(j < i)
    BY <1>1, <1>2 DEF InboxInv, Waiting
<1>6. i < j
    BY <1>3, <1>4, <1>5
<1> QED BY <1>1, <1>2, <1>6 DEF Before

\* Turns are queued, and begin, in the order in which the messages were sent.
LEMMA LineStep ==
    ASSUME MediaType, InboxInv, LineInv, [I!Next]_I!vars
    PROVE  LineInv'
<1> USE DEF MediaType
<1>1. /\ \A i \in DOMAIN queue : queue[i] \in I!Messages
      /\ \A i \in DOMAIN turns : turns[i] \in I!Messages
      /\ \A x, y : Before(inbox, x, y) => Before(inbox', x, y)
    BY InboxGrows
<1>2. ASSUME UNCHANGED <<queue, turns>>,
             \A x \in I!Messages : /\ step[x] = "queued" => step'[x] = "queued"
                                   /\ step[x] \in {"running", "done"} => step'[x] \in {"running", "done"}
      PROVE  LineInv'
    BY <1>1, <1>2 DEF LineInv
<1>3. ASSUME UNCHANGED <<queue, turns, step>> PROVE LineInv'
    BY <1>2, <1>3
<1>4. ASSUME NEW m \in I!Messages,
             \/ I!Send(m) \/ I!Handle(m) \/ I!Downloaded(m) \/ I!DownloadFails(m) \/ I!Put(m)
             \/ I!EndTurn(m)
      PROVE  LineInv'
    <2>1. UNCHANGED <<queue, turns>>
        BY <1>4 DEF I!Send, I!Handle, I!Downloaded, I!DownloadFails, I!Put, I!EndTurn
    <2>2. PICK s \in I!Steps : /\ step' = [step EXCEPT ![m] = s]
                               /\ \/ step[m] \in {"unsent", "sent", "downloading", "storing"}
                                  \/ step[m] = "running" /\ s = "done"
        <3> USE DEF I!To, I!Steps
        <3>1. CASE I!Send(m)
            BY <3>1 DEF I!Send
        <3>2. CASE I!Handle(m)
            <4>1. CASE m \in Media
                BY <3>2, <4>1 DEF I!Handle, I!IsNext
            <4>2. CASE m \notin Media
                BY <3>2, <4>2 DEF I!Handle, I!IsNext
            <4> QED BY <4>1, <4>2
        <3>3. CASE I!Downloaded(m) \/ I!DownloadFails(m)
            BY <3>3 DEF I!Downloaded, I!DownloadFails, I!AfterDownload
        <3>4. CASE I!Put(m) \/ I!EndTurn(m)
            BY <3>4 DEF I!Put, I!EndTurn
        <3> QED BY <1>4, <3>1, <3>3, <3>4, <3>2
    <2>3. \A x \in I!Messages : step'[x] = IF x = m THEN s ELSE step[x]
        BY <2>2
    <2> QED BY <1>2, <2>1, <2>2, <2>3
<1>5. ASSUME NEW m \in I!Messages, I!Enqueue(m) PROVE LineInv'
    <2>1. step[m] = "ready" /\ UNCHANGED <<turns, inbox>>
        BY <1>5 DEF I!Enqueue
    <2>2. CASE queue' = queue /\ step' = [step EXCEPT ![m] = "rejected"]
        <3>1. \A x \in I!Messages : step'[x] = IF x = m THEN "rejected" ELSE step[x]
            BY <2>2
        <3> QED BY <1>2, <2>1, <2>2, <3>1
    <2>3. CASE queue' = Append(queue, m) /\ step' = [step EXCEPT ![m] = "queued"]
        <3>1. \A x \in I!Messages : step'[x] = IF x = m THEN "queued" ELSE step[x]
            BY <2>3
        <3>2. /\ Len(queue) \in Nat /\ DOMAIN queue = 1..Len(queue)
              /\ DOMAIN queue' = 1..(Len(queue) + 1)
              /\ queue'[Len(queue) + 1] = m /\ \A i \in 1..Len(queue) : queue'[i] = queue[i]
            BY <2>3, AppendProperties, LenProperties
        <3>3. /\ \A i \in DOMAIN queue' : i = Len(queue) + 1 \/ i \in DOMAIN queue
              /\ \A i \in DOMAIN queue : queue'[i] = queue[i] /\ i < Len(queue) + 1
            BY <3>2
        <3>4. /\ \A i \in DOMAIN queue : Before(inbox', queue[i], m)
              /\ \A i \in DOMAIN turns : Before(inbox', turns[i], m)
            <4>1. \A i \in DOMAIN queue : Before(inbox, queue[i], m)
                BY <1>1, <2>1, ReadyIsLast DEF LineInv, Waiting
            <4>2. \A i \in DOMAIN turns : Before(inbox, turns[i], m)
                BY <1>1, <2>1, ReadyIsLast DEF LineInv, Waiting
            <4> QED BY <1>1, <2>1, <4>1, <4>2
        <3>5. \A i \in DOMAIN queue' : step'[queue'[i]] = "queued"
            BY <1>1, <3>1, <3>2, <3>3, ZenonT(40) DEF LineInv
        <3>6. \A i \in DOMAIN turns' : step'[turns'[i]] \in {"running", "done"}
            BY <1>1, <2>1, <3>1 DEF LineInv
        <3>7. ASSUME NEW i \in DOMAIN queue', NEW j \in DOMAIN queue', i < j
              PROVE  Before(inbox', queue'[i], queue'[j])
            <4>1. i \in DOMAIN queue /\ queue'[i] = queue[i]
                BY <3>2, <3>3, <3>7
            <4>2. CASE j = Len(queue) + 1
                BY <3>2, <3>4, <4>1, <4>2
            <4>3. CASE j \in DOMAIN queue
                <5>1. queue'[j] = queue[j] /\ Before(inbox', queue[i], queue[j])
                    BY <1>1, <3>3, <3>7, <4>1, <4>3 DEF LineInv
                <5> QED BY <4>1, <5>1
            <4> QED BY <3>3, <4>2, <4>3
        <3>8. ASSUME NEW i \in DOMAIN turns', NEW j \in DOMAIN queue'
              PROVE  Before(inbox', turns'[i], queue'[j])
            <4>1. i \in DOMAIN turns /\ turns'[i] = turns[i]
                BY <2>1
            <4>2. CASE j = Len(queue) + 1
                BY <3>2, <3>4, <4>1, <4>2
            <4>3. CASE j \in DOMAIN queue
                <5>1. queue'[j] = queue[j] /\ Before(inbox', turns[i], queue[j])
                    BY <1>1, <3>3, <4>1, <4>3 DEF LineInv
                <5> QED BY <4>1, <5>1
            <4> QED BY <3>3, <4>2, <4>3
        <3>9. \A i, j \in DOMAIN turns' : i < j => Before(inbox', turns[i], turns[j])
            BY <1>1, <2>1 DEF LineInv
        <3> QED BY <2>1, <3>5, <3>6, <3>7, <3>8, <3>9 DEF LineInv
    <2> QED BY <1>5, <2>2, <2>3 DEF I!Enqueue, I!To
<1>6. CASE I!BeginTurn
    <2>1. PICK m \in I!Messages : /\ m = Head(queue) /\ m = queue[1] /\ step[m] = "queued"
                                  /\ 1 \in DOMAIN queue /\ queue # <<>>
        <3>1. queue # <<>> /\ Head(queue) = queue[1] /\ 1 \in DOMAIN queue
            BY <1>6 DEF I!BeginTurn
        <3> QED BY <1>1, <3>1 DEF LineInv
    <2>2. /\ step' = [step EXCEPT ![m] = "running"] /\ inbox' = inbox
          /\ queue' = Tail(queue) /\ turns' = Append(turns, m)
        BY <1>6, <2>1 DEF I!BeginTurn, I!To
    <2>3. \A x \in I!Messages : step'[x] = IF x = m THEN "running" ELSE step[x]
        BY <2>2
    <2>4. /\ Len(turns) \in Nat /\ DOMAIN turns = 1..Len(turns)
          /\ DOMAIN turns' = 1..(Len(turns) + 1)
          /\ turns'[Len(turns) + 1] = m /\ \A i \in 1..Len(turns) : turns'[i] = turns[i]
        BY <2>2, AppendProperties, LenProperties
    <2>5. /\ \A i \in DOMAIN turns' : i = Len(turns) + 1 \/ i \in DOMAIN turns
          /\ \A i \in DOMAIN turns : turns'[i] = turns[i] /\ i < Len(turns) + 1
        <3> DEFINE n == Len(turns)
        <3>1. n \in Nat /\ DOMAIN turns = 1..n /\ DOMAIN turns' = 1..(n + 1)
              /\ \A i \in 1..n : turns'[i] = turns[i]
            BY <2>4
        <3> HIDE DEF n
        <3>2. /\ \A i \in 1..(n + 1) : i = n + 1 \/ i \in 1..n
              /\ \A i \in 1..n : i < n + 1
            BY <3>1
        <3>3. /\ \A i \in DOMAIN turns' : i = n + 1 \/ i \in DOMAIN turns
              /\ \A i \in DOMAIN turns : turns'[i] = turns[i] /\ i < n + 1
            BY <3>1, <3>2
        <3> QED BY <3>3 DEF n
    <2>6. \A j \in DOMAIN queue' : /\ j + 1 \in DOMAIN queue /\ queue'[j] = queue[j + 1]
                                   /\ j \in Nat /\ 1 < j + 1
        BY <2>1, <2>2, HeadTailProperties
    <2>7. \A j \in DOMAIN queue' : Before(inbox, m, queue[j + 1])
        BY <2>1, <2>6 DEF LineInv
    <2>8. \A j \in DOMAIN queue' : queue[j + 1] # m
        <3>1. \A x : ~Before(inbox, x, x)
            BY DEF Before, InboxInv
        <3> QED BY <2>7, <3>1
    <2>9. \A j \in DOMAIN queue' : step'[queue'[j]] = "queued"
        BY <1>1, <2>3, <2>6, <2>8 DEF LineInv
    <2>10. \A i \in DOMAIN turns' : step'[turns'[i]] \in {"running", "done"}
        <3>1. \A i \in DOMAIN turns : step'[turns[i]] \in {"running", "done"}
            BY <1>1, <2>3 DEF LineInv
        <3> QED BY <2>3, <2>4, <2>5, <3>1
    <2>11. \A i, j \in DOMAIN queue' : i < j => Before(inbox', queue[i + 1], queue[j + 1])
        <3>1. \A i, j \in DOMAIN queue' : i < j => i + 1 < j + 1
            BY <2>6
        <3> QED BY <1>1, <2>6, <3>1 DEF LineInv
    <2>12. ASSUME NEW i \in DOMAIN turns', NEW j \in DOMAIN turns', i < j
           PROVE  Before(inbox', turns'[i], turns'[j])
        <3>1. i \in DOMAIN turns /\ turns'[i] = turns[i]
            BY <2>4, <2>5, <2>12
        <3>2. CASE j = Len(turns) + 1
            <4>1. Before(inbox', turns[i], m)
                BY <1>1, <2>1, <3>1 DEF LineInv
            <4> QED BY <2>4, <3>1, <3>2, <4>1
        <3>3. CASE j \in DOMAIN turns
            <4>1. turns'[j] = turns[j] /\ Before(inbox', turns[i], turns[j])
                BY <1>1, <2>5, <2>12, <3>1, <3>3 DEF LineInv
            <4> QED BY <3>1, <4>1
        <3> QED BY <2>5, <3>2, <3>3
    <2>13. ASSUME NEW i \in DOMAIN turns', NEW j \in DOMAIN queue'
           PROVE  Before(inbox', turns'[i], queue'[j])
        <3>1. CASE i = Len(turns) + 1
            BY <1>1, <2>4, <2>6, <2>7, <3>1
        <3>2. CASE i \in DOMAIN turns
            <4>1. turns'[i] = turns[i] /\ Before(inbox', turns[i], queue[j + 1])
                BY <1>1, <2>5, <2>6, <3>2 DEF LineInv
            <4> QED BY <2>6, <4>1
        <3> QED BY <2>5, <3>1, <3>2
    <2>14. \A i, j \in DOMAIN queue' : i < j => Before(inbox', queue'[i], queue'[j])
        BY <2>6, <2>11
    <2> QED BY <2>9, <2>10, <2>12, <2>13, <2>14 DEF LineInv
<1>7. UNCHANGED I!vars \/ I!Tick \/ I!Sweep => UNCHANGED <<queue, turns, step>>
    BY DEF I!vars, I!Tick, I!Sweep
<1>8. ASSUME NEW m \in I!Messages, I!Fetch(m) PROVE UNCHANGED <<queue, turns, step>>
    BY <1>8 DEF I!Fetch
<1> QED BY <1>3, <1>4, <1>5, <1>6, <1>7, <1>8 DEF I!Next

\* A stored file goes by its own turn's GET or by the sweeper, when its time is over.
LEMMA KeptStep ==
    ASSUME MediaType, LineInv, KeptInv, [I!Next]_I!vars
    PROVE  KeptInv'
<1> USE MediaBounds DEF MediaType
<1>1. Media \subseteq I!Messages /\ clock \in Nat /\ \A m \in I!Messages : put_at[m] \in Nat
    BY DEF I!Messages
\* What a step may do without harm.
<1>2. ASSUME clock <= clock', clock' \in Nat, announce' = announce, refused' = refused,
             handedOut \subseteq handedOut', put_at' = put_at,
             \A m \in stored \ stored' : I!Expired(m),
             \A m \in I!Messages : step'[m] \in {"ready", "queued", "running"} =>
                 step[m] \in {"ready", "queued", "running"} \/ ~announce,
             \A m \in I!Messages : step[m] \in {"running", "done"} => step'[m] \in {"running", "done"}
      PROVE  KeptInv'
    <2>1. \A m \in Media : I!Expired(m) => I!Expired(m)'
        BY <1>1, <1>2 DEF I!Expired
    <2> QED BY <1>1, <1>2, <2>1 DEF KeptInv, Kept
<1>3. CASE UNCHANGED I!vars \/ I!Tick \/ I!Sweep
    <2>1. clock <= clock' /\ clock' \in Nat
        BY <1>1, <1>3 DEF I!vars, I!Tick, I!Sweep
    <2>2. /\ UNCHANGED <<announce, refused, handedOut, put_at, step>>
          /\ \A m \in stored \ stored' : I!Expired(m)
        BY <1>3 DEF I!vars, I!config, I!mediaVars, I!Tick, I!Sweep
    <2> QED BY <1>2, <2>1, <2>2
<1>4. CASE I!BeginTurn
    <2>1. PICK m \in I!Messages : m = Head(queue) /\ step[m] = "queued"
        <3>1. queue # <<>> /\ Head(queue) = queue[1] /\ 1 \in DOMAIN queue
            BY <1>4 DEF I!BeginTurn
        <3> QED BY <3>1 DEF LineInv
    <2>2. step' = [step EXCEPT ![m] = "running"]
        BY <1>4, <2>1 DEF I!BeginTurn, I!To
    <2>3. \A x \in I!Messages : step'[x] = IF x = m THEN "running" ELSE step[x]
        BY <2>2
    <2>4. UNCHANGED <<clock, announce, refused, handedOut, put_at, stored>>
        BY <1>4 DEF I!BeginTurn, I!config, I!mediaVars
    <2> QED BY <1>1, <1>2, <2>1, <2>3, <2>4
<1>5. ASSUME NEW m \in I!Messages,
             \/ I!Send(m) \/ I!Handle(m) \/ I!Downloaded(m) \/ I!DownloadFails(m)
             \/ I!Enqueue(m) \/ I!EndTurn(m)
      PROVE  KeptInv'
    <2>1. UNCHANGED <<clock, announce, refused, handedOut, put_at, stored>>
        BY <1>5 DEF I!Send, I!Handle, I!Downloaded, I!DownloadFails, I!Enqueue, I!EndTurn,
                    I!config, I!mediaVars
    <2>2. PICK s \in I!Steps :
             /\ step' = [step EXCEPT ![m] = s]
             /\ s \in {"ready", "queued", "running"} =>
                   step[m] = "ready" \/ ~announce \/ m \notin Media
             /\ step[m] \notin {"running", "done"} \/ s = "done"
        <3> USE DEF I!To, I!Steps
        <3>1. CASE I!Send(m)
            BY <3>1 DEF I!Send
        <3>2. CASE I!Handle(m)
            <4>1. CASE m \in Media
                BY <3>2, <4>1 DEF I!Handle, I!IsNext
            <4>2. CASE m \notin Media
                BY <3>2, <4>2 DEF I!Handle, I!IsNext
            <4> QED BY <4>1, <4>2
        <3>3. CASE I!Downloaded(m) \/ I!DownloadFails(m)
            BY <3>3 DEF I!Downloaded, I!DownloadFails, I!AfterDownload
        <3>4. CASE I!Enqueue(m) \/ I!EndTurn(m)
            BY <3>4 DEF I!Enqueue, I!EndTurn
        <3> QED BY <1>5, <3>1, <3>3, <3>4, <3>2
    <2>3. \A x \in I!Messages : step'[x] = IF x = m THEN s ELSE step[x]
        BY <2>2
    <2>4. \A x \in Media : I!Expired(x)' = I!Expired(x) /\ Kept(x)' = Kept(x)
        BY <2>1 DEF I!Expired, Kept
    <2> QED BY <1>1, <2>1, <2>2, <2>3, <2>4 DEF KeptInv
<1>6. ASSUME NEW m \in I!Messages, I!Put(m) PROVE KeptInv'
    <2>1. UNCHANGED <<clock, announce, refused, handedOut>> /\ step[m] = "storing" /\ m \in Media
        BY <1>6 DEF I!Put, I!config
    <2>2. \A x \in Media \ {m} : /\ step'[x] = step[x] /\ put_at'[x] = put_at[x]
                                 /\ x \in stored => x \in stored'
        BY <1>1, <1>6 DEF I!Put, I!To
    <2>3. step'[m] = "failed" \/ m \in stored'
        BY <1>6 DEF I!Put, I!To
    <2>4. m \notin refused
        BY <2>1 DEF KeptInv
    <2>5. \A x \in Media \ {m} : (Kept(x) => Kept(x)') /\ I!Expired(x)' = I!Expired(x)
        BY <2>1, <2>2 DEF I!Expired, Kept
    <2>6. ASSUME NEW x \in Media, announce', step'[x] \in {"ready", "queued", "running"}
          PROVE  Kept(x)'
        BY <2>1, <2>2, <2>3, <2>5, <2>6 DEF KeptInv, Kept
    <2>7. ASSUME NEW x \in refused'
          PROVE  step'[x] \in {"running", "done"} /\ (<<x, x>> \in handedOut' \/ I!Expired(x)')
        BY <2>1, <2>2, <2>4, <2>5, <2>7 DEF KeptInv
    <2> QED BY <2>6, <2>7 DEF KeptInv
<1>7. ASSUME NEW m \in I!Messages, I!Fetch(m) PROVE KeptInv'
    <2>1. /\ announce /\ m \in Media /\ step[m] = "running"
          /\ UNCHANGED <<clock, announce, step, put_at>>
        BY <1>7 DEF I!Fetch, I!config
    <2>2. \A x : I!Expired(x)' = I!Expired(x)
        BY <2>1 DEF I!Expired
    <2>3. CASE /\ stored' = stored \ {m} /\ handedOut' = handedOut \cup {<<m, m>>}
               /\ refused' = refused
        BY <2>1, <2>2, <2>3 DEF KeptInv, Kept
    <2>4. CASE /\ m \notin stored /\ refused' = refused \cup {m}
               /\ UNCHANGED <<stored, handedOut>>
        BY <2>1, <2>2, <2>4 DEF KeptInv, Kept
    <2> QED BY <1>7, <2>3, <2>4 DEF I!Fetch, I!Announced
<1> QED BY <1>3, <1>4, <1>5, <1>6, <1>7 DEF I!Next

\* The invariant of InboundMedia.
LEMMA MediaInvariant == I!Spec => []MediaInv
<1>1. I!Init => MediaInv
    <2> SUFFICES ASSUME I!Init PROVE MediaInv
        OBVIOUS
    <2> USE MediaBounds DEF I!Init
    <2>1. MediaType
        BY EmptySeq DEF MediaType, I!Steps
    <2>2. InboxInv /\ LineInv /\ KeptInv
        BY DEF InboxInv, LineInv, KeptInv, I!Messages
    <2> QED BY <2>1, <2>2 DEF MediaInv
<1>2. MediaInv /\ [I!Next]_I!vars => MediaInv'
    BY MediaTypeStep, InboxStep, LineStep, KeptStep DEF MediaInv
<1> QED BY <1>1, <1>2, PTL DEF I!Spec

\* Every variable of the way of a message keeps its type (handle_text, handle_media).
THEOREM MediaTypeCorrect == I!Spec => []I!TypeOK
<1>1. MediaInv => I!TypeOK
    BY DEF MediaInv, MediaType, I!TypeOK
<1> QED BY <1>1, MediaInvariant, PTL

\* The turns of a chat run in the order in which it sent their messages, however long
\* a download takes and whatever is rejected or fails in between (handle_media).
THEOREM TurnsAreInSendingOrder == I!Spec => []TurnsInSendingOrder
<1>1. MediaInv => TurnsInSendingOrder
    <2> SUFFICES ASSUME MediaInv, NEW i \in DOMAIN turns, NEW j \in DOMAIN turns, i < j
                 PROVE  I!Sent(turns[i]) < I!Sent(turns[j])
        BY DEF TurnsInSendingOrder, I!TurnsInSendingOrder
    <2>1. PICK a, b \in DOMAIN inbox : a < b /\ inbox[a] = turns[i] /\ inbox[b] = turns[j]
        BY DEF MediaInv, LineInv, Before
    <2>2. \A k \in DOMAIN inbox : I!Sent(inbox[k]) = k
        BY DEF MediaInv, InboxInv, I!Sent
    <2> QED BY <2>1, <2>2
<1> QED BY <1>1, MediaInvariant, PTL

\* A model that is refused the file its turn announces has had it before, or the
\* file's time is over: nothing another turn or a rejected message does takes it away
\* (download_file, mcp/mod.rs).
THEOREM RefusalsHaveCause == I!Spec => []RefusedForCause
<1>1. MediaInv => RefusedForCause
    BY DEF MediaInv, KeptInv, RefusedForCause, I!RefusedForCause
<1> QED BY <1>1, MediaInvariant, PTL

\* A behaviour of the composition is one of SessionRouting and one of InboundMedia:
\* what is proved of run_turn and of handle_media holds in the run of both.
THEOREM RoutingIsComposed == BothSpec => Spec /\ I!Spec
<1>1. BothInit => Init /\ I!Init
    BY DEF BothInit
<1>2. [BothNext]_<<subject, vars, mediaVars>> => [Next]_vars /\ [I!Next]_I!vars
    BY DEF BothNext, mediaVars, vars, storeVars, opencodeVars, boundVars, historyVars,
           I!vars, I!config, I!mediaVars
<1> QED BY <1>1, <1>2, PTL DEF BothSpec, Spec, I!Spec

=============================================================================
