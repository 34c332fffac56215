------------------------- MODULE FileTransferProofs -------------------------
(***************************************************************************)
(* What the three ways of files promise, for any number of files, chats,   *)
(* slots and calls.  Each part has an inductive invariant of its own:      *)
(* FileStore's adds that a file which was served is no longer in the map   *)
(* or in anybody's hands; SendFile's counts what was delivered against the *)
(* attempts; Outbox's relates the timer of the relay to the writer's pause.*)
(***************************************************************************)
EXTENDS FileTransfer, TLAPS

-----------------------------------------------------------------------------
(* FileStore.                                                              *)

\* The constants one by one.
LEMMA Sizes ==
    /\ max_file_bytes \in Nat /\ ttl \in Nat /\ MaxSource \in Nat /\ MaxTime \in Nat
    /\ COPY_CHUNK \in Nat
BY SizesAssumption

\* The types of all variables but the history, and that of the history.
StoreType ==
    /\ clock \in 0..MaxTime
    /\ entry \in [Ids -> {"unused", "writing", "stored", "taken", "dropped"}]
    /\ holder \in [Ids -> Takers \cup {NoTaker}]
    /\ source \in [Ids -> 0..MaxSource]
    /\ disk \in [Ids -> Nat]
    /\ linked \subseteq Ids
    /\ deadline \in [Ids -> Nat]

ServedType == served \in [Ids -> Seq([at : 0..MaxTime, size : Nat])]

\* Every step keeps the types of the store.
LEMMA StoreTypeStep ==
    ASSUME StoreType, [Next]_vars
    PROVE  StoreType'
<1> USE Sizes DEF StoreType
<1>1. CASE UNCHANGED vars
    BY <1>1 DEF vars
<1>2. CASE Tick
    BY <1>2 DEF Tick
<1>3. CASE Sweep
    BY <1>3 DEF Sweep, Without
<1>4. ASSUME NEW f \in Ids, PutBegins(f) PROVE StoreType'
    BY <1>4 DEF PutBegins
<1>5. ASSUME NEW f \in Ids, PutWrites(f) PROVE StoreType'
    BY <1>5 DEF PutWrites, Chunks
<1>6. ASSUME NEW f \in Ids, PutTooLarge(f) \/ PutFails(f) PROVE StoreType'
    BY <1>6 DEF PutTooLarge, PutFails, Drop, Without
<1>7. ASSUME NEW f \in Ids, PutRegisters(f) PROVE StoreType'
    BY <1>7 DEF PutRegisters, ReadyToRegister, Deadline
<1>8. ASSUME NEW f \in Ids, NEW t \in Takers, Take(t, f) PROVE StoreType'
    BY <1>8 DEF Take
<1>9. ASSUME NEW f \in Ids, NEW t \in Takers, TakeServes(t, f) \/ TakeFails(t, f)
      PROVE  StoreType'
    BY <1>9 DEF TakeServes, TakeFails, Drop, Without
<1> QED BY <1>1, <1>2, <1>3, <1>4, <1>5, <1>6, <1>7, <1>8, <1>9 DEF Next

\* Every step keeps the type of the history: one of them adds to it.
LEMMA ServedTypeStep ==
    ASSUME StoreType, ServedType, [Next]_vars
    PROVE  ServedType'
<1>1. CASE served' = served
    BY <1>1 DEF ServedType
<1>2. ASSUME NEW f \in Ids, NEW t \in Takers, TakeServes(t, f)
      PROVE  ServedType'
    <2>1. [at |-> clock, size |-> disk[f]] \in [at : 0..MaxTime, size : Nat]
        BY DEF StoreType
    <2> DEFINE r == [at |-> clock, size |-> disk[f]]
               R == [at : 0..MaxTime, size : Nat]
    <2>2. served' = [served EXCEPT ![f] = Append(served[f], r)]
        BY <1>2 DEF TakeServes
    <2>3. r \in R
        BY <2>1
    <2> HIDE DEF r, R
    <2>4. served \in [Ids -> Seq(R)]
        BY DEF ServedType, R
    <2>5. Append(served[f], r) \in Seq(R)
        BY <2>3, <2>4
    <2>6. served' \in [Ids -> Seq(R)]
        BY <2>2, <2>4, <2>5
    <2> QED BY <2>6 DEF ServedType, R
<1> QED BY <1>1, <1>2
        DEF Next, vars, Tick, Sweep, PutBegins, PutWrites, PutTooLarge, PutFails,
            PutRegisters, Take, TakeFails

\* Every variable keeps its type.
THEOREM TypeCorrect == Spec => []TypeOK
<1>1. Init => TypeOK
    <2> SUFFICES ASSUME Init PROVE TypeOK
        OBVIOUS
    <2>1. << >> \in Seq([at : 0..MaxTime, size : Nat])
        OBVIOUS
    <2> QED BY <2>1, Sizes DEF Init, TypeOK
<1>2. TypeOK <=> StoreType /\ ServedType
    BY DEF TypeOK, StoreType, ServedType
<1>3. TypeOK /\ [Next]_vars => TypeOK'
    <2>1. TypeOK' <=> StoreType' /\ ServedType'
        BY DEF TypeOK, StoreType, ServedType
    <2> QED BY <1>2, <2>1, StoreTypeStep, ServedTypeStep
<1> QED BY <1>1, <1>3, PTL DEF Spec

-----------------------------------------------------------------------------

\* Only a file that is gone from the map and from its taker has been served.
ServedIsGone == \A f \in Ids : served[f] # << >> => entry[f] = "dropped"

Sound == NeverOverLimit /\ NoOrphan /\ ServedIsGone /\ ServedOnceAndWhole

\* Nothing of what Sound says of a file is touched by a step about another.
LEMMA SoundStep ==
    ASSUME TypeOK, Sound, [Next]_vars
    PROVE  Sound'
<1> USE Sizes
<1> USE DEF Sound, NeverOverLimit, NoOrphan, ServedIsGone, ServedOnceAndWhole
<1>1. CASE UNCHANGED vars \/ Tick
    BY <1>1 DEF vars, Tick
<1>2. CASE Sweep
    BY <1>2 DEF Sweep, Without, Expired, Sweepable, TypeOK
<1>3. ASSUME NEW f \in Ids, PutBegins(f) PROVE Sound'
    BY <1>3 DEF PutBegins, TypeOK
<1>4. ASSUME NEW f \in Ids, PutWrites(f) PROVE Sound'
    <2>1. PICK n \in Chunks(f) : ~TooLarge(f, n) /\ disk' = [disk EXCEPT ![f] = @ + n]
        BY <1>4 DEF PutWrites
    <2>2. entry[f] = "writing" /\ UNCHANGED <<entry, source, linked, served>>
        BY <1>4 DEF PutWrites
    <2>3. n \in Nat /\ disk[f] + n <= max_file_bytes
        BY <2>1 DEF Chunks, TooLarge, TypeOK
    <2>4. NeverOverLimit'
        BY <2>1, <2>2, <2>3 DEF TypeOK
    <2> QED BY <2>2, <2>4
<1>5. ASSUME NEW f \in Ids, PutTooLarge(f) \/ PutFails(f) PROVE Sound'
    <2>1. /\ entry[f] = "writing" /\ entry' = [entry EXCEPT ![f] = "dropped"]
          /\ linked' = linked \ {f} /\ UNCHANGED <<disk, source, served>>
        BY <1>5 DEF PutTooLarge, PutFails, Drop, Without
    <2>2. /\ entry'[f] = "dropped" /\ \A g \in Ids : g # f => entry'[g] = entry[g]
        BY <2>1 DEF TypeOK
    <2>3. NeverOverLimit'
        BY <2>1, <2>2
    <2>4. NoOrphan'
        BY <2>1, <2>2
    <2>5. ServedIsGone' /\ ServedOnceAndWhole'
        BY <2>1, <2>2
    <2> QED BY <2>3, <2>4, <2>5
<1>6. ASSUME NEW f \in Ids, PutRegisters(f) PROVE Sound'
    BY <1>6 DEF PutRegisters, ReadyToRegister, TypeOK
<1>7. ASSUME NEW f \in Ids, NEW t \in Takers, Take(t, f) PROVE Sound'
    BY <1>7 DEF Take, TypeOK
<1>8. ASSUME NEW f \in Ids, NEW t \in Takers, TakeServes(t, f) PROVE Sound'
    <2>1. entry[f] = "taken" /\ disk[f] = source[f] /\ served[f] = << >>
        BY <1>8 DEF TakeServes
    <2> DEFINE r == [at |-> clock, size |-> disk[f]]
    <2>2. served' = [served EXCEPT ![f] = << r >>]
        BY <1>8, <2>1 DEF TakeServes
    <2>3. /\ entry' = [entry EXCEPT ![f] = "dropped"]
          /\ linked' = linked \ {f}
          /\ UNCHANGED <<source, disk>>
        BY <1>8 DEF TakeServes, Drop, Without
    <2>4. Len(<< r >>) = 1 /\ << r >>[1].size = source[f]
        BY <2>1
    <2>5. NeverOverLimit' /\ NoOrphan' /\ ServedIsGone'
        BY <2>1, <2>2, <2>3 DEF TypeOK
    <2>6. ServedOnceAndWhole'
        BY <2>1, <2>2, <2>3, <2>4 DEF TypeOK
    <2> QED BY <2>5, <2>6
<1>9. ASSUME NEW f \in Ids, NEW t \in Takers, TakeFails(t, f) PROVE Sound'
    BY <1>9 DEF TakeFails, Drop, Without, TypeOK
<1> QED BY <1>1, <1>2, <1>3, <1>4, <1>5, <1>6, <1>7, <1>8, <1>9 DEF Next

\* The invariant holds in every state.
LEMMA SoundInvariant == Spec => []Sound
<1>1. Init => Sound
    BY Sizes
       DEF Init, Sound, NeverOverLimit, NoOrphan, ServedIsGone, ServedOnceAndWhole
<1>2. TypeOK /\ Sound /\ [Next]_vars => Sound'
    BY SoundStep
<1> QED BY <1>1, <1>2, TypeCorrect, PTL DEF Spec

\* A file is sent to one GET at most, and whole.
THEOREM OnceAndWhole == Spec => []ServedOnceAndWhole
<1>1. Sound => ServedOnceAndWhole
    BY DEF Sound
<1> QED BY <1>1, SoundInvariant, PTL

\* No temp file ever holds more than max_file_bytes, nor is a partial one registered.
THEOREM LimitIsKept == Spec => []NeverOverLimit
<1>1. Sound => NeverOverLimit
    BY DEF Sound
<1> QED BY <1>1, SoundInvariant, PTL

\* A temp file exists exactly as long as somebody owns it.
THEOREM NoFileIsOrphaned == Spec => []NoOrphan
<1>1. Sound => NoOrphan
    BY DEF Sound
<1> QED BY <1>1, SoundInvariant, PTL

-----------------------------------------------------------------------------
(* SendFile.                                                               *)

\* The constants one by one.
LEMMA ToolNats ==
    /\ MAX_ATTEMPTS \in Nat /\ MAX_ATTEMPTS > 0 /\ MaxClock \in Nat /\ ToolStarts \in Nat
    /\ ToolStarts > 0
    /\ Owner \in [Slots -> Chats \cup {Nobody}]
    /\ Nobody \notin Chats
BY ToolAssumption, SMT DEF T!SendFileAssumption

\* The types of SendFile's variables; that delivered stays below MAX_ATTEMPTS
\* rests on the attempts.
ToolType ==
    /\ now \in 0..MaxClock /\ toolStarts \in 1..ToolStarts /\ live \subseteq Slots
    /\ bound \in [Chats -> Slots \cup {NoSlot}]
    /\ added_at \in [Chats -> 0..MaxClock]
    /\ step \in [Calls -> {"idle", "valid", "sending", "settled"}]
    /\ slot \in [Calls -> Slots \cup {NoSlot}] /\ from \in [Calls -> Chats \cup {Nobody}]
    /\ sole \in [Calls -> BOOLEAN] /\ chat \in [Calls -> Chats \cup {Nobody}]
    /\ attempt \in [Calls -> 0..MAX_ATTEMPTS] /\ delivered \in [Calls -> Nat]
    /\ lost \in [Calls -> BOOLEAN]
    /\ told \in [Calls -> {"none", "invalid", "nobody", "failed", "sent"}]

\* A call that is not settled has told nothing, every attempt delivers once at
\* most, and before the first reply is lost only the attempt that succeeds does.
Counted ==
    \A k \in Calls :
        /\ step[k] # "settled" => told[k] = "none"
        /\ step[k] \in {"idle", "valid"} => delivered[k] = 0 /\ ~lost[k] /\ chat[k] = Nobody
        /\ step[k] = "sending" => delivered[k] < attempt[k] /\ chat[k] # Nobody
        /\ delivered[k] <= attempt[k]
        /\ delivered[k] > 0 => chat[k] # Nobody
        /\ told[k] = "sent" => delivered[k] >= 1
        /\ ~lost[k] => delivered[k] <= 1 /\ (told[k] # "sent" => delivered[k] = 0)

\* While a chat has its slot to itself, the recipient can only be that chat.
Alone ==
    \A k \in Calls : sole[k] =>
        /\ {c \in Chats : bound[c] = slot[k]} = {from[k]}
        /\ chat[k] \in {Nobody, from[k]}

ToolInv == ToolType /\ Counted /\ Alone

\* The configuration seeds slots.
LEMMA SeededType ==
    ASSUME NEW b \in [Chats -> Slots \cup {NoSlot}]
    PROVE  T!Seeded(b) \in [Chats -> Slots \cup {NoSlot}]
<1>1. ASSUME NEW c \in Chats, T!Seeds(c)
      PROVE  T!SeededSlot(c) \in Slots
    BY <1>1 DEF T!Seeds, T!SeededSlot, T!Owned
<1> QED BY <1>1 DEF T!Seeded

\* Kept is a predicate of calls.
LEMMA KeptType ==
    ASSUME sole \in [Calls -> BOOLEAN], NEW b
    PROVE  T!Kept(b) \in [Calls -> BOOLEAN]
BY DEF T!Kept

\* Before any call, nothing is delivered or told.
LEMMA ToolInitially ==
    ASSUME T!Init PROVE ToolInv
<1>1. ToolType
    BY ToolNats, SeededType DEF T!Init, ToolType
<1>2. Counted /\ Alone
    BY ToolNats DEF T!Init, Counted, Alone
<1> QED BY <1>1, <1>2 DEF ToolInv

\* An attempt without a reply has delivered the file, or not.
LEMMA NotReachedDelivers ==
    ASSUME NEW k \in Calls, T!NotReached(k)
    PROVE  \/ delivered' = delivered /\ lost' = lost
           \/ /\ delivered' = [delivered EXCEPT ![k] = @ + 1]
              /\ lost' = [lost EXCEPT ![k] = TRUE]
BY DEF T!NotReached

\* Every step keeps the types.
LEMMA ToolTypeStep ==
    ASSUME ToolType, [T!Next]_T!vars
    PROVE  ToolType'
<1> USE ToolNats DEF ToolType
<1>1. CASE UNCHANGED T!vars
    BY <1>1 DEF T!vars, T!bindings, T!callVars
<1>2. CASE T!Tick
    <2>1. now' \in 0..MaxClock
        BY <1>2 DEF T!Tick
    <2> QED BY <2>1, <1>2 DEF T!Tick, T!callVars
<1>3. CASE T!Restart
    <2>1. toolStarts' \in 1..ToolStarts
        BY <1>3 DEF T!Restart
    <2>2. bound' \in [Chats -> Slots \cup {NoSlot}]
        BY <1>3, SeededType DEF T!Restart
    <2>3. added_at' \in [Chats -> 0..MaxClock]
        BY <1>3 DEF T!Restart
    <2>4. step' \in [Calls -> {"idle", "valid", "sending", "settled"}]
        BY <1>3 DEF T!Restart
    <2>5. sole' \in [Calls -> BOOLEAN]
        <3>1. sole' = T!Kept(T!Seeded(bound))
            BY <1>3 DEF T!Restart
        <3> QED BY <3>1, KeptType DEF ToolType
    <2> QED
        BY <2>1, <2>2, <2>3, <2>4, <2>5, <1>3 DEF T!Restart
<1>4. ASSUME NEW s \in Slots, T!SlotComesUp(s) PROVE ToolType'
    BY <1>4 DEF T!SlotComesUp, T!callVars
<1>5. ASSUME NEW s \in Slots, NEW c \in Chats, T!Bind(c, s) PROVE ToolType'
    BY <1>5 DEF T!Bind, T!Kept
<1>6. ASSUME NEW k \in Calls, NEW c \in Chats, T!Call(k, c) PROVE ToolType'
    BY <1>6 DEF T!Call, T!bindings
<1>7. ASSUME NEW k \in Calls, T!LookUp(k) PROVE ToolType'
    <2>1. attempt' \in [Calls -> 0..MAX_ATTEMPTS]
        BY <1>7 DEF T!LookUp
    <2>2. chat' \in [Calls -> Chats \cup {Nobody}]
        BY <1>7 DEF T!LookUp, T!Recipients, T!BoundTo
    <2> QED BY <2>1, <2>2, <1>7 DEF T!LookUp, T!bindings
<1>8. ASSUME NEW k \in Calls, T!LookUpFails(k) \/ T!Sent(k) \/ T!Refused(k) PROVE ToolType'
    BY <1>8 DEF T!LookUpFails, T!Sent, T!Refused, T!bindings
<1>9. ASSUME NEW k \in Calls, T!NotReached(k) PROVE ToolType'
    <2>1. attempt' \in [Calls -> 0..MAX_ATTEMPTS]
        BY <1>9 DEF T!NotReached
    <2>2. delivered' \in [Calls -> Nat]
        BY <1>9, NotReachedDelivers
    <2>3. lost' \in [Calls -> BOOLEAN]
        BY <1>9, NotReachedDelivers
    <2>4. step' \in [Calls -> {"idle", "valid", "sending", "settled"}]
        BY <1>9 DEF T!NotReached
    <2>5. told' \in [Calls -> {"none", "invalid", "nobody", "failed", "sent"}]
        BY <1>9 DEF T!NotReached, T!GivesUp
    <2> QED BY <2>1, <2>2, <2>3, <2>4, <2>5, <1>9 DEF T!NotReached, T!bindings
<1> QED BY <1>1, <1>2, <1>3, <1>4, <1>5, <1>6, <1>7, <1>8, <1>9 DEF T!Next

\* Every step keeps the count of what was delivered.
LEMMA CountedStep ==
    ASSUME ToolType, Counted, [T!Next]_T!vars
    PROVE  Counted'
<1> USE ToolNats DEF ToolType, Counted
<1>1. CASE UNCHANGED <<step, told, delivered, lost, attempt, chat>>
    BY <1>1
<1>2. CASE T!Restart
    BY <1>2 DEF T!Restart, T!Running
<1>3. ASSUME NEW k \in Calls, NEW c \in Chats, T!Call(k, c) PROVE Counted'
    BY <1>3 DEF T!Call
<1>4. ASSUME NEW k \in Calls, T!LookUp(k) PROVE Counted'
    BY <1>4 DEF T!LookUp, T!Recipients, T!BoundTo
<1>5. ASSUME NEW k \in Calls, T!LookUpFails(k) PROVE Counted'
    BY <1>5 DEF T!LookUpFails
<1>6. ASSUME NEW k \in Calls, T!Sent(k) PROVE Counted'
    BY <1>6 DEF T!Sent
<1>7. ASSUME NEW k \in Calls, T!Refused(k) PROVE Counted'
    BY <1>7 DEF T!Refused
<1>8. ASSUME NEW k \in Calls, T!NotReached(k) PROVE Counted'
    <2>1. CASE attempt[k] < MAX_ATTEMPTS
        BY <1>8, <2>1 DEF T!NotReached
    <2>2. CASE ~(attempt[k] < MAX_ATTEMPTS)
        <3>1. told' = [told EXCEPT ![k] = "failed"] /\ step' = [step EXCEPT ![k] = "settled"]
            BY <1>8, <2>2 DEF T!NotReached, T!GivesUp
        <3>2. attempt' = attempt /\ chat' = chat /\ step[k] = "sending"
            BY <1>8, <2>2 DEF T!NotReached
        <3> QED BY <3>1, <3>2, <1>8, NotReachedDelivers
    <2> QED BY <2>1, <2>2
<1> QED BY <1>1, <1>2, <1>3, <1>4, <1>5, <1>6, <1>7, <1>8
        DEF T!Next, T!vars, T!bindings, T!callVars, T!Tick, T!SlotComesUp, T!Bind

\* A binding that ends a chat's being alone ends `sole` too, also while the
\* call waits for its next attempt.
LEMMA AloneStep ==
    ASSUME ToolType, Counted, Alone, [T!Next]_T!vars
    PROVE  Alone'
<1> USE DEF ToolType, Alone
<1>1. CASE UNCHANGED <<bound, slot, from, sole, chat>>
    BY <1>1
<1>2. CASE T!Restart
    BY <1>2 DEF T!Restart, T!Kept
<1>3. ASSUME NEW s \in Slots, NEW c \in Chats, T!Bind(c, s) PROVE Alone'
    BY <1>3 DEF T!Bind, T!Kept
<1>4. ASSUME NEW k \in Calls, NEW c \in Chats, T!Call(k, c) PROVE Alone'
    BY <1>4 DEF T!Call, T!bindings, Counted
<1>5. ASSUME NEW k \in Calls, T!LookUp(k) PROVE Alone'
    BY <1>5 DEF T!LookUp, T!Recipients, T!BoundTo, T!bindings
<1> QED BY <1>1, <1>2, <1>3, <1>4, <1>5
        DEF T!Next, T!vars, T!bindings, T!callVars, T!Tick, T!SlotComesUp, T!LookUpFails,
            T!Sent, T!Refused, T!NotReached

\* The invariant holds in every state.
LEMMA ToolInvariant == T!Spec => []ToolInv
<1>1. T!Init => ToolInv
    BY ToolInitially
<1>2. ToolInv /\ [T!Next]_T!vars => ToolInv'
    BY ToolTypeStep, CountedStep, AloneStep DEF ToolInv
<1> QED BY <1>1, <1>2, PTL DEF T!Spec

\* What the model is told of its file is true.
THEOREM ToolTellsTheTruth == T!Spec => []ToldIsTrue
<1>1. ToolInv => ToldIsTrue
    BY DEF ToolInv, ToolType, Counted, ToldIsTrue, T!ToldIsTrue
<1> QED BY <1>1, ToolInvariant, PTL

\* A file made for the only chat of a slot goes to that chat alone.
THEOREM SoleChatReceives == T!Spec => []SoleOwnerReceives
<1>1. ToolInv => SoleOwnerReceives
    BY DEF ToolInv, ToolType, Counted, Alone, SoleOwnerReceives, T!SoleOwnerReceives
<1> QED BY <1>1, ToolInvariant, PTL

\* Every variable of SendFile keeps its type.
THEOREM ToolTypeCorrect == T!Spec => []T!TypeOK
<1>1. ToolInv => T!TypeOK
    <2> SUFFICES ASSUME ToolInv PROVE T!TypeOK
        OBVIOUS
    <2>1. \A k \in Calls : delivered[k] \in 0..MAX_ATTEMPTS
        BY ToolNats DEF ToolInv, ToolType, Counted
    <2>2. delivered \in [Calls -> 0..MAX_ATTEMPTS]
        BY <2>1 DEF ToolInv, ToolType
    <2> QED BY <2>2 DEF ToolInv, ToolType, T!TypeOK
<1> QED BY <1>1, ToolInvariant, PTL

-----------------------------------------------------------------------------
(* Outbox.                                                                 *)

\* The constants one by one.
LEMMA RelayNats ==
    /\ Debounce \in Nat /\ Debounce > 0 /\ MaxPause \in Nat /\ MaxStarts \in Nat
    /\ MaxChunks \in [Files -> Nat] /\ MaxVersions \in [Files -> Nat]
    /\ Hidden \subseteq Files /\ NoFile \notin Files
BY RelayAssumption DEF O!OutboxAssumption

\* The types of Outbox's variables but the history.
OutboxType ==
    /\ owned \in BOOLEAN /\ up \in BOOLEAN /\ watching \in BOOLEAN
    /\ starts \in 0..MaxStarts
    /\ body \in [Files -> {"absent", "partial", "whole"}]
    /\ version \in [Files -> Nat] /\ pause \in [Files -> 0..MaxPause]
    /\ chunks \in [Files -> Nat] /\ landed \in [Files -> Nat]
    /\ rx \in SUBSET Files /\ pending \in SUBSET Files /\ flushing \in SUBSET Files
    /\ quiet \in 0..Debounce /\ uploading \in Files \cup {NoFile}

\* The bounds that depend on the file.
Bounded ==
    \A f \in Files :
        version[f] <= MaxVersions[f] /\ chunks[f] <= MaxChunks[f] /\ landed[f] <= version[f]

TriesType == tries \in [Files -> Seq(O!Try)]

\* Every step keeps the types.
LEMMA OutboxTypeStep ==
    ASSUME OutboxType, [O!Next]_O!vars
    PROVE  OutboxType'
<1> USE RelayNats DEF OutboxType
<1>1. CASE UNCHANGED O!vars
    BY <1>1 DEF O!vars, O!agentVars, O!relayVars, O!daemonVars, O!historyVars
<1>2. CASE O!Bind
    BY <1>2 DEF O!Bind, O!agentVars, O!relayVars, O!historyVars
<1>3. CASE O!Start
    <2>1. watching' \in BOOLEAN
        BY <1>3 DEF O!Start, O!Watchable
    <2>2. starts' \in 0..MaxStarts
        BY <1>3 DEF O!Start
    <2> QED BY <2>1, <2>2, <1>3 DEF O!Start, O!agentVars, O!relayVars, O!historyVars
<1>4. CASE O!DropWatcher
    BY <1>4 DEF O!DropWatcher, O!agentVars, O!relayVars
<1>5. CASE O!Exit
    <2>1. landed' \in [Files -> Nat]
        BY <1>5 DEF O!Exit
    <2>2. quiet' \in 0..Debounce
        BY <1>5 DEF O!Exit
    <2> QED BY <2>1, <2>2, <1>5 DEF O!Exit, O!agentVars
<1>6. ASSUME NEW f \in Files, O!Open(f) PROVE OutboxType'
    BY <1>6 DEF O!Open, O!Reported, O!IsWrite, O!daemonVars
<1>7. ASSUME NEW f \in Files, O!Write(f) PROVE OutboxType'
    BY <1>7 DEF O!Write, O!Reported, O!IsWrite, O!daemonVars, O!historyVars
<1>8. ASSUME NEW f \in Files, O!Close(f) PROVE OutboxType'
    BY <1>8 DEF O!Close, O!Reported, O!IsWrite, O!daemonVars
<1>9. ASSUME NEW f \in Files, O!Remove(f) PROVE OutboxType'
    BY <1>9 DEF O!Remove, O!Reported, O!IsWrite, O!daemonVars
<1>10. ASSUME NEW g \in Files, NEW f \in Files, O!Rename(g, f) PROVE OutboxType'
    BY <1>10 DEF O!Rename, O!Reported, O!IsWrite, O!daemonVars
<1>11. CASE O!Flush
    BY <1>11 DEF O!Flush, O!agentVars, O!daemonVars, O!historyVars
<1>12. ASSUME NEW f \in Files, O!Receive(f) PROVE OutboxType'
    BY <1>12 DEF O!Receive, O!QuietAfterEvent, O!agentVars, O!daemonVars, O!historyVars
<1>13. ASSUME NEW f \in Files, O!Deliver(f) PROVE OutboxType'
    BY <1>13 DEF O!Deliver, O!agentVars, O!daemonVars, O!historyVars
<1>14. ASSUME NEW f \in Files, O!Uploaded(f) PROVE OutboxType'
    BY <1>14 DEF O!Uploaded, O!agentVars, O!daemonVars
<1>15. CASE O!Tick
    <2>1. pause' \in [Files -> 0..MaxPause]
        BY <1>15 DEF O!Tick
    <2>2. quiet' \in 0..Debounce
        BY <1>15 DEF O!Tick, O!RelayDue, O!Waits, O!Settled
    <2> QED BY <2>1, <2>2, <1>15 DEF O!Tick, O!daemonVars, O!historyVars
<1> QED BY <1>1, <1>2, <1>3, <1>4, <1>5, <1>6, <1>7, <1>8, <1>9, <1>10, <1>11, <1>12, <1>13,
           <1>14, <1>15 DEF O!Next, O!Agent, O!Relay

\* Every step keeps the bounds.
LEMMA BoundedStep ==
    ASSUME OutboxType, Bounded, [O!Next]_O!vars
    PROVE  Bounded'
<1> USE RelayNats DEF OutboxType, Bounded
<1>1. CASE UNCHANGED <<version, chunks>> /\ (landed' = landed \/ landed' = [f \in Files |-> 0])
    BY <1>1
<1>2. ASSUME NEW f \in Files, O!Open(f) PROVE Bounded'
    BY <1>2 DEF O!Open
<1>3. ASSUME NEW f \in Files, O!Write(f) PROVE Bounded'
    BY <1>3 DEF O!Write, O!historyVars
<1>4. ASSUME NEW f \in Files, O!Close(f) PROVE Bounded'
    BY <1>4 DEF O!Close
<1>5. ASSUME NEW f \in Files, O!Remove(f) PROVE Bounded'
    BY <1>5 DEF O!Remove
<1>6. ASSUME NEW g \in Files, NEW f \in Files, O!Rename(g, f) PROVE Bounded'
    BY <1>6 DEF O!Rename
<1> QED BY <1>1, <1>2, <1>3, <1>4, <1>5, <1>6
        DEF O!Next, O!Agent, O!Relay, O!vars, O!agentVars, O!historyVars,
            O!Bind, O!Start, O!DropWatcher, O!Exit, O!Flush, O!Receive, O!Deliver, O!Uploaded,
            O!Tick

\* An upload of a file that is there adds one attempt to the history.
LEMMA AddsAttempt ==
    ASSUME NEW f \in Files, O!Uploaded(f), body[f] # "absent"
    PROVE  \E ok \in BOOLEAN : tries' = [tries EXCEPT ![f] = Append(@, O!Attempt(f, ok))]
<1>1. PICK ok \in O!Outcomes : tries' = [tries EXCEPT ![f] = Append(@, O!Attempt(f, ok))]
    BY DEF O!Uploaded
<1>2. O!Outcomes \subseteq BOOLEAN
    BY DEF O!Outcomes
<1> QED BY <1>1, <1>2

\* Every step keeps the type of the history: uploads add to it.
LEMMA TriesTypeStep ==
    ASSUME OutboxType, TriesType, [O!Next]_O!vars
    PROVE  TriesType'
<1>1. CASE tries' = tries
    BY <1>1 DEF TriesType
<1>2. ASSUME NEW f \in Files, O!Uploaded(f), body[f] # "absent"
      PROVE  TriesType'
    <2>1. PICK ok \in BOOLEAN : tries' = [tries EXCEPT ![f] = Append(@, O!Attempt(f, ok))]
        BY <1>2, AddsAttempt
    <2>2. O!Attempt(f, ok) \in O!Try
        BY <1>2 DEF OutboxType, O!Attempt, O!Try
    <2> QED BY <2>1, <2>2 DEF TriesType
<1> QED BY <1>1, <1>2
        DEF O!Next, O!Agent, O!Relay, O!vars, O!historyVars,
            O!Bind, O!Start, O!DropWatcher, O!Exit, O!Flush, O!Receive, O!Deliver, O!Uploaded,
            O!Open, O!Write, O!Close, O!Remove, O!Rename, O!Tick

\* What is known of a name that was never written, and of a daemon that is down.
Quiescent ==
    /\ \A f \in Files : version[f] = 0 =>
          /\ body[f] = "absent" /\ tries[f] = <<>>
          /\ f \notin rx \cup pending \cup flushing /\ uploading # f
    /\ watching => up
    /\ ~up => rx = {} /\ pending = {} /\ flushing = {} /\ uploading = NoFile
    /\ starts = 0 => ~up /\ \A f \in Files : tries[f] = <<>>
    /\ uploading \notin flushing

\* The timer has run no longer than the writer of a waiting path has paused.
Timed ==
    watching => \A f \in pending \ rx : body[f] = "partial" => quiet <= pause[f]

\* So what the relay takes to the chat is not being written.
Fresh ==
    watching => \A f \in Files :
        version[f] = 1 /\ (f \in flushing \/ uploading = f) => body[f] # "partial"

\* And once it is taken no event of it follows.
Once ==
    watching /\ starts = 1 => \A f \in Files : version[f] = 1 =>
        /\ Len(tries[f]) <= 1
        /\ tries[f] # <<>> => f \notin flushing /\ uploading # f
        /\ f \in flushing \/ uploading = f \/ tries[f] # <<>> =>
              f \notin rx \cup pending /\ body[f] # "partial"

\* What was sent of a file in its first version.
SentWhole ==
    \A f \in Files : version[f] = 1 =>
        \A i \in DOMAIN tries[f] : tries[f][i].watched => tries[f][i].body = "whole"

\* Whatever the relay holds was written, and a daemon that is down holds nothing.
LEMMA QuiescentStep ==
    ASSUME OutboxType, TriesType, Quiescent, [O!Next]_O!vars
    PROVE  Quiescent'
<1> USE RelayNats DEF OutboxType, Quiescent
<1>1. CASE UNCHANGED O!vars
    BY <1>1 DEF O!vars, O!agentVars, O!relayVars, O!daemonVars, O!historyVars
<1>2. CASE O!Bind
    BY <1>2 DEF O!Bind, O!agentVars, O!relayVars, O!historyVars
<1>3. CASE O!Start
    BY <1>3 DEF O!Start, O!agentVars, O!relayVars, O!historyVars
<1>4. CASE O!DropWatcher
    BY <1>4 DEF O!DropWatcher, O!agentVars, O!relayVars
<1>5. CASE O!Exit
    BY <1>5 DEF O!Exit, O!agentVars
<1>6. ASSUME NEW f \in Files, O!Open(f) PROVE Quiescent'
    BY <1>6 DEF O!Open, O!Reported, O!IsWrite, O!daemonVars
<1>7. ASSUME NEW f \in Files, O!Write(f) PROVE Quiescent'
    BY <1>7 DEF O!Write, O!Reported, O!IsWrite, O!daemonVars, O!historyVars
<1>8. ASSUME NEW f \in Files, O!Close(f) PROVE Quiescent'
    BY <1>8 DEF O!Close, O!Reported, O!IsWrite, O!daemonVars
<1>9. ASSUME NEW f \in Files, O!Remove(f) PROVE Quiescent'
    BY <1>9 DEF O!Remove, O!Reported, O!IsWrite, O!daemonVars
<1>10. ASSUME NEW g \in Files, NEW f \in Files, O!Rename(g, f) PROVE Quiescent'
    <2>1. /\ body' = [body EXCEPT ![g] = "absent", ![f] = "whole"]
          /\ version' = [version EXCEPT ![f] = @ + 1]
          /\ UNCHANGED <<up, watching, starts, rx, pending, flushing, uploading, tries>>
        BY <1>10 DEF O!Rename, O!Reported, O!IsWrite, O!daemonVars
    <2>2. ASSUME NEW h \in Files, version'[h] = 0
          PROVE  version[h] = 0 /\ body'[h] = "absent"
        <3>0. version[f] \in Nat /\ version'[f] = version[f] + 1
            BY <2>1
        <3>1. h # f /\ version[h] = 0
            <4>1. version'[f] # 0
                BY <3>0
            <4>2. h # f
                BY <2>2, <4>1
            <4> QED BY <2>1, <2>2, <4>2
        <3>2. body[h] = "absent"
            BY <3>1
        <3> QED BY <2>1, <3>1, <3>2
    <2> QED BY <2>1, <2>2
<1>11. CASE O!Flush
    BY <1>11 DEF O!Flush, O!Waits, O!agentVars, O!daemonVars, O!historyVars
<1>12. ASSUME NEW f \in Files, O!Receive(f) PROVE Quiescent'
    BY <1>12 DEF O!Receive, O!Waits, O!agentVars, O!daemonVars, O!historyVars
<1>13. ASSUME NEW f \in Files, O!Deliver(f) PROVE Quiescent'
    BY <1>13 DEF O!Deliver, O!agentVars, O!daemonVars, O!historyVars
<1>14. ASSUME NEW f \in Files, O!Uploaded(f) PROVE Quiescent'
    <2>1. \A g \in Files : version[g] = 0 => tries'[g] = tries[g]
        BY <1>14 DEF O!Uploaded, TriesType
    <2> QED BY <2>1, <1>14 DEF O!Uploaded, O!agentVars, O!daemonVars
<1>15. CASE O!Tick
    BY <1>15 DEF O!Tick, O!daemonVars, O!historyVars
<1> QED BY <1>1, <1>2, <1>3, <1>4, <1>5, <1>6, <1>7, <1>8, <1>9, <1>10, <1>11, <1>12, <1>13,
           <1>14, <1>15 DEF O!Next, O!Agent, O!Relay

\* A write puts its path back into the channel; time passes for both alike.
LEMMA TimedStep ==
    ASSUME OutboxType, Quiescent, Timed, [O!Next]_O!vars
    PROVE  Timed'
<1> USE RelayNats DEF OutboxType, Timed
<1>1. CASE UNCHANGED O!vars
    BY <1>1 DEF O!vars, O!agentVars, O!relayVars, O!daemonVars, O!historyVars
<1>2. CASE O!Bind
    BY <1>2 DEF O!Bind, O!agentVars, O!relayVars, O!historyVars
<1>3. CASE O!Start
    BY <1>3 DEF O!Start, O!agentVars, O!relayVars, O!historyVars, Quiescent
<1>4. CASE O!DropWatcher
    BY <1>4 DEF O!DropWatcher, O!agentVars, O!relayVars
<1>5. CASE O!Exit
    BY <1>5 DEF O!Exit, O!agentVars
<1>6. ASSUME NEW f \in Files, O!Open(f) PROVE Timed'
    BY <1>6 DEF O!Open, O!Reported, O!IsWrite, O!daemonVars
<1>7. ASSUME NEW f \in Files, O!Write(f) PROVE Timed'
    BY <1>7 DEF O!Write, O!Reported, O!IsWrite, O!daemonVars, O!historyVars
<1>8. ASSUME NEW f \in Files, O!Close(f) PROVE Timed'
    BY <1>8 DEF O!Close, O!Reported, O!IsWrite, O!daemonVars
<1>9. ASSUME NEW f \in Files, O!Remove(f) PROVE Timed'
    BY <1>9 DEF O!Remove, O!Reported, O!IsWrite, O!daemonVars
<1>10. ASSUME NEW g \in Files, NEW f \in Files, O!Rename(g, f) PROVE Timed'
    BY <1>10 DEF O!Rename, O!Reported, O!IsWrite, O!daemonVars
<1>11. CASE O!Flush
    BY <1>11 DEF O!Flush, O!Waits, O!agentVars, O!daemonVars, O!historyVars
<1>12. ASSUME NEW f \in Files, O!Receive(f) PROVE Timed'
    BY <1>12 DEF O!Receive, O!Waits, O!QuietAfterEvent, O!agentVars, O!daemonVars, O!historyVars
<1>13. ASSUME NEW f \in Files, O!Deliver(f) PROVE Timed'
    BY <1>13 DEF O!Deliver, O!agentVars, O!daemonVars
<1>14. ASSUME NEW f \in Files, O!Uploaded(f) PROVE Timed'
    BY <1>14 DEF O!Uploaded, O!agentVars, O!daemonVars
<1>15. CASE O!Tick
    <2>1. quiet' \in {quiet, quiet + 1} /\ UNCHANGED <<watching, pending, rx, body>>
        BY <1>15 DEF O!Tick, O!daemonVars
    <2>2. \A f \in Files : body[f] = "partial" => pause'[f] = pause[f] + 1
        BY <1>15 DEF O!Tick
    <2> QED BY <2>1, <2>2
<1> QED BY <1>1, <1>2, <1>3, <1>4, <1>5, <1>6, <1>7, <1>8, <1>9, <1>10, <1>11, <1>12, <1>13,
           <1>14, <1>15 DEF O!Next, O!Agent, O!Relay

\* The quiet period is longer than any pause of a writer, so a path that is
\* flushed under the watch is not being written.
LEMMA FreshStep ==
    ASSUME MaxPause < Debounce, OutboxType, Quiescent, Timed, Fresh, [O!Next]_O!vars
    PROVE  Fresh'
<1> USE RelayNats DEF OutboxType, Fresh
<1>1. CASE UNCHANGED O!vars
    BY <1>1 DEF O!vars, O!agentVars, O!relayVars, O!daemonVars, O!historyVars
<1>2. CASE O!Bind
    BY <1>2 DEF O!Bind, O!agentVars, O!relayVars, O!historyVars
<1>3. CASE O!Start
    BY <1>3 DEF O!Start, O!agentVars, O!relayVars, O!historyVars, Quiescent
<1>4. CASE O!DropWatcher
    BY <1>4 DEF O!DropWatcher, O!agentVars, O!relayVars
<1>5. CASE O!Exit
    BY <1>5 DEF O!Exit, O!agentVars
<1>6. ASSUME NEW f \in Files, O!Open(f) PROVE Fresh'
    BY <1>6 DEF O!Open, O!daemonVars, Quiescent
<1>7. ASSUME NEW f \in Files, O!Write(f) PROVE Fresh'
    BY <1>7 DEF O!Write, O!daemonVars, O!historyVars
<1>8. ASSUME NEW f \in Files, O!Close(f) PROVE Fresh'
    BY <1>8 DEF O!Close, O!daemonVars
<1>9. ASSUME NEW f \in Files, O!Remove(f) PROVE Fresh'
    BY <1>9 DEF O!Remove, O!daemonVars
<1>10. ASSUME NEW g \in Files, NEW f \in Files, O!Rename(g, f) PROVE Fresh'
    BY <1>10 DEF O!Rename, O!daemonVars
<1>11. CASE O!Flush
    <2>1. ASSUME watching, NEW f \in pending PROVE body[f] # "partial"
        BY <1>11, <2>1 DEF O!Flush, O!Settled, Timed
    <2> QED BY <2>1, <1>11 DEF O!Flush, O!Waits, O!agentVars, O!daemonVars
<1>12. ASSUME NEW f \in Files, O!Receive(f) PROVE Fresh'
    BY <1>12 DEF O!Receive, O!agentVars, O!daemonVars
<1>13. ASSUME NEW f \in Files, O!Deliver(f) PROVE Fresh'
    BY <1>13 DEF O!Deliver, O!agentVars, O!daemonVars
<1>14. ASSUME NEW f \in Files, O!Uploaded(f) PROVE Fresh'
    BY <1>14 DEF O!Uploaded, O!agentVars, O!daemonVars
<1>15. CASE O!Tick
    BY <1>15 DEF O!Tick, O!daemonVars
<1> QED BY <1>1, <1>2, <1>3, <1>4, <1>5, <1>6, <1>7, <1>8, <1>9, <1>10, <1>11, <1>12, <1>13,
           <1>14, <1>15 DEF O!Next, O!Agent, O!Relay

\* What an upload adds to the history.
LEMMA Adds ==
    ASSUME TriesType, NEW f \in Files, O!Uploaded(f)
    PROVE  \/ tries' = tries
           \/ /\ body[f] # "absent"
              /\ Len(tries'[f]) = Len(tries[f]) + 1
              /\ \A i \in DOMAIN tries'[f] :
                    \/ i \in DOMAIN tries[f] /\ tries'[f][i] = tries[f][i]
                    \/ tries'[f][i].body = body[f] /\ tries'[f][i].watched = watching
              /\ \A g \in Files \ {f} : tries'[g] = tries[g]
<1>1. CASE body[f] = "absent"
    BY <1>1 DEF O!Uploaded
<1>2. CASE body[f] # "absent"
    <2>0. PICK ok \in BOOLEAN : tries' = [tries EXCEPT ![f] = Append(@, O!Attempt(f, ok))]
        BY <1>2, AddsAttempt
    <2> DEFINE r == O!Attempt(f, ok)
    <2>1. tries' = [tries EXCEPT ![f] = Append(@, r)]
        BY <2>0
    <2>2. r.body = body[f] /\ r.watched = watching
        BY DEF O!Attempt
    <2>3. tries[f] \in Seq(O!Try) /\ tries'[f] = Append(tries[f], r)
        BY <2>1 DEF TriesType
    <2>4. \A g \in Files \ {f} : tries'[g] = tries[g]
        BY <2>1 DEF TriesType
    <2> HIDE DEF r
    <2>5. Len(tries'[f]) = Len(tries[f]) + 1
        BY <2>3
    <2>6. ASSUME NEW i \in DOMAIN tries'[f]
          PROVE  \/ i \in DOMAIN tries[f] /\ tries'[f][i] = tries[f][i]
                 \/ tries'[f][i] = r
        BY <2>3
    <2> QED BY <1>2, <2>2, <2>4, <2>5, <2>6
<1> QED BY <1>1, <1>2

\* A path is drained once, and of a file that is written once no event follows.
LEMMA OnceStep ==
    ASSUME MaxPause < Debounce, OutboxType, TriesType, Quiescent, Timed, Fresh, Once,
           [O!Next]_O!vars
    PROVE  Once'
<1> USE RelayNats DEF OutboxType, Once
<1>1. CASE UNCHANGED O!vars
    BY <1>1 DEF O!vars, O!agentVars, O!relayVars, O!daemonVars, O!historyVars
<1>2. CASE O!Bind
    BY <1>2 DEF O!Bind, O!agentVars, O!relayVars, O!historyVars
<1>3. CASE O!Start
    BY <1>3 DEF O!Start, O!agentVars, O!relayVars, O!historyVars, Quiescent
<1>4. CASE O!DropWatcher
    BY <1>4 DEF O!DropWatcher, O!agentVars, O!relayVars
<1>5. CASE O!Exit
    BY <1>5 DEF O!Exit, O!agentVars
<1>6. ASSUME NEW f \in Files, O!Open(f) PROVE Once'
    BY <1>6 DEF O!Open, O!Reported, O!IsWrite, O!daemonVars, Quiescent
<1>7. ASSUME NEW f \in Files, O!Write(f) PROVE Once'
    BY <1>7 DEF O!Write, O!Reported, O!IsWrite, O!daemonVars, O!historyVars
<1>8. ASSUME NEW f \in Files, O!Close(f) PROVE Once'
    BY <1>8 DEF O!Close, O!Reported, O!IsWrite, O!daemonVars
<1>9. ASSUME NEW f \in Files, O!Remove(f) PROVE Once'
    BY <1>9 DEF O!Remove, O!Reported, O!IsWrite, O!daemonVars
<1>10. ASSUME NEW g \in Files, NEW f \in Files, O!Rename(g, f) PROVE Once'
    <2>1. /\ UNCHANGED <<watching, starts, rx, pending, flushing, uploading, tries>>
          /\ body' = [body EXCEPT ![g] = "absent", ![f] = "whole"]
          /\ version' = [version EXCEPT ![f] = @ + 1]
        BY <1>10 DEF O!Rename, O!Reported, O!IsWrite, O!daemonVars
    <2>2. ASSUME NEW h \in Files PROVE body'[h] = body[h] \/ body'[h] # "partial"
        BY <2>1
    <2>3. ASSUME NEW h \in Files, version'[h] = 1 PROVE version[h] = 1 \/ version[h] = 0
        BY <2>1, <2>3
    <2>4. SUFFICES ASSUME watching, starts = 1, NEW h \in Files, version'[h] = 1
                   PROVE  /\ Len(tries[h]) <= 1
                          /\ tries[h] # <<>> => h \notin flushing /\ uploading # h
                          /\ h \in flushing \/ uploading = h \/ tries[h] # <<>> =>
                                h \notin rx \cup pending /\ body'[h] # "partial"
        BY <2>1
    <2>5. CASE version[h] = 0
        <3>1. tries[h] = <<>> /\ h \notin flushing /\ uploading # h
            BY <2>5 DEF Quiescent
        <3> QED BY <3>1
    <2>6. CASE version[h] = 1
        BY <2>2, <2>4, <2>6
    <2> QED BY <2>3, <2>4, <2>5, <2>6
<1>11. CASE O!Flush
    <2>1. ASSUME watching, NEW f \in pending PROVE body[f] # "partial"
        BY <1>11, <2>1 DEF O!Flush, O!Settled, Timed
    <2> QED BY <2>1, <1>11 DEF O!Flush, O!Waits, O!agentVars, O!daemonVars, O!historyVars
<1>12. ASSUME NEW f \in Files, O!Receive(f) PROVE Once'
    BY <1>12 DEF O!Receive, O!agentVars, O!daemonVars, O!historyVars
<1>13. ASSUME NEW f \in Files, O!Deliver(f) PROVE Once'
    BY <1>13 DEF O!Deliver, O!agentVars, O!daemonVars, O!historyVars
<1>14. ASSUME NEW f \in Files, O!Uploaded(f) PROVE Once'
    <2>1. /\ uploading = f /\ uploading' = NoFile
          /\ UNCHANGED <<rx, pending, flushing, body, version, watching, starts>>
        BY <1>14 DEF O!Uploaded, O!agentVars, O!daemonVars
    <2>2. CASE tries' = tries
        BY <2>1, <2>2
    <2>3. CASE /\ Len(tries'[f]) = Len(tries[f]) + 1
               /\ \A g \in Files \ {f} : tries'[g] = tries[g]
        <3>1. tries[f] \in Seq(O!Try)
            BY DEF TriesType
        <3>2. watching /\ starts = 1 /\ version[f] = 1 => tries[f] = <<>>
            BY <2>1
        <3>3. Len(<<>>) = 0
            OBVIOUS
        <3>4. SUFFICES ASSUME watching, starts = 1, NEW h \in Files, version[h] = 1
                       PROVE  /\ Len(tries'[h]) <= 1
                              /\ tries'[h] # <<>> => h \notin flushing /\ uploading' # h
                              /\ h \in flushing \/ uploading' = h \/ tries'[h] # <<>> =>
                                    h \notin rx \cup pending /\ body[h] # "partial"
            BY <2>1
        <3>5. f \notin flushing
            BY <2>1 DEF Quiescent
        <3>6. CASE h = f
            <4>1. Len(tries'[f]) = 1
                BY <2>3, <3>2, <3>3, <3>4, <3>6
            <4>2. h \notin rx \cup pending /\ body[h] # "partial"
                BY <2>1, <3>4, <3>6
            <4> QED BY <2>1, <3>5, <3>6, <4>1, <4>2
        <3>7. CASE h # f
            <4>1. tries'[h] = tries[h]
                BY <2>3, <3>7
            <4> QED BY <2>1, <3>4, <3>7, <4>1
        <3> QED BY <3>6, <3>7
    <2> QED BY <1>14, <2>2, <2>3, Adds
<1>15. CASE O!Tick
    BY <1>15 DEF O!Tick, O!daemonVars, O!historyVars
<1> QED BY <1>1, <1>2, <1>3, <1>4, <1>5, <1>6, <1>7, <1>8, <1>9, <1>10, <1>11, <1>12, <1>13,
           <1>14, <1>15 DEF O!Next, O!Agent, O!Relay

\* A name of its first version has been tried in that version only.
LEMMA Renewed ==
    ASSUME OutboxType, Quiescent, SentWhole, NEW f \in Files,
           tries' = tries, version' = [version EXCEPT ![f] = @ + 1]
    PROVE  SentWhole'
<1>1. ASSUME NEW h \in Files, version'[h] = 1, NEW i \in DOMAIN tries'[h]
      PROVE  version[h] = 1
    <2>1. tries[h] # <<>>
        BY <1>1
    <2>2. version[h] # 0
        BY <2>1 DEF Quiescent
    <2>3. version[h] \in Nat /\ (version'[h] = version[h] \/ version'[h] = version[h] + 1)
        BY DEF OutboxType
    <2> QED BY <1>1, <2>2, <2>3
<1> QED BY <1>1 DEF SentWhole

\* So an upload under the watch finds the file whole.
LEMMA SentWholeStep ==
    ASSUME OutboxType, TriesType, Quiescent, Fresh, SentWhole, [O!Next]_O!vars
    PROVE  SentWhole'
<1> USE RelayNats DEF OutboxType, SentWhole
<1>1. CASE UNCHANGED <<version, tries>>
    BY <1>1
<1>2. ASSUME NEW f \in Files, O!Open(f) PROVE SentWhole'
    <2>1. tries' = tries /\ version' = [version EXCEPT ![f] = @ + 1]
        BY <1>2 DEF O!Open
    <2> QED BY <2>1, Renewed
<1>3. ASSUME NEW g \in Files, NEW f \in Files, O!Rename(g, f) PROVE SentWhole'
    <2>1. tries' = tries /\ version' = [version EXCEPT ![f] = @ + 1]
        BY <1>3 DEF O!Rename
    <2> QED BY <2>1, Renewed
<1>4. ASSUME NEW f \in Files, O!Uploaded(f) PROVE SentWhole'
    <2>1. /\ uploading = f /\ UNCHANGED version
        BY <1>4 DEF O!Uploaded, O!agentVars
    <2>2. CASE tries' = tries
        BY <2>1, <2>2
    <2>3. CASE /\ body[f] # "absent"
               /\ \A i \in DOMAIN tries'[f] :
                     \/ i \in DOMAIN tries[f] /\ tries'[f][i] = tries[f][i]
                     \/ tries'[f][i].body = body[f] /\ tries'[f][i].watched = watching
               /\ \A g \in Files \ {f} : tries'[g] = tries[g]
        BY <2>1, <2>3 DEF Fresh
    <2> QED BY <1>4, <2>2, <2>3, Adds
<1> QED BY <1>1, <1>2, <1>3, <1>4
        DEF O!Next, O!Agent, O!Relay, O!vars, O!agentVars, O!historyVars,
            O!Bind, O!Start, O!DropWatcher, O!Exit, O!Flush, O!Receive, O!Deliver,
            O!Write, O!Close, O!Remove, O!Tick

OutboxInv == OutboxType /\ Bounded /\ TriesType /\ Quiescent /\ Timed /\ Fresh /\ Once /\ SentWhole

\* At the start nothing is written and no daemon runs.
LEMMA OutboxInitially ==
    ASSUME O!Init PROVE OutboxInv
<1> USE RelayNats DEF O!Init
<1>1. OutboxType
    <2>1. starts \in 0..MaxStarts /\ quiet \in 0..Debounce
        OBVIOUS
    <2>2. pause \in [Files -> 0..MaxPause]
        OBVIOUS
    <2> QED BY <2>1, <2>2 DEF OutboxType
<1>2. Bounded /\ Quiescent /\ Timed /\ Fresh /\ Once
    BY DEF Bounded, Quiescent, Timed, Fresh, Once
<1>3. TriesType
    BY DEF TriesType
<1>4. SentWhole
    BY DEF SentWhole
<1> QED BY <1>1, <1>2, <1>3, <1>4 DEF OutboxInv

\* The invariant holds in every state, if writers are quicker than the timer.
LEMMA OutboxInvariant ==
    ASSUME MaxPause < Debounce
    PROVE  O!Spec => []OutboxInv
<1>1. O!Init => OutboxInv
    BY OutboxInitially
<1>2. OutboxInv /\ [O!Next]_O!vars => OutboxInv'
    BY OutboxTypeStep, BoundedStep, TriesTypeStep, QuiescentStep, TimedStep, FreshStep, OnceStep,
       SentWholeStep DEF OutboxInv
<1> QED BY <1>1, <1>2, PTL DEF O!Spec

\* A file written once by a writer that never pauses for as long as the quiet
\* period is sent at most once, and only whole.
THEOREM OutboxSendsWhole ==
    ASSUME MaxPause < Debounce
    PROVE  O!Spec => []WrittenOnceIsSentWhole
<1>1. OutboxInv => WrittenOnceIsSentWhole
    BY DEF OutboxInv, Once, SentWhole, WrittenOnceIsSentWhole, O!WrittenOnceIsSentWhole
<1> QED BY <1>1, OutboxInvariant, PTL

\* Every variable of Outbox keeps its type, however slow writers are.
THEOREM OutboxTypeCorrect == O!Spec => []O!TypeOK
<1> DEFINE TypeInv == OutboxType /\ Bounded /\ TriesType
<1>1. O!Init => TypeInv
    BY OutboxInitially DEF OutboxInv
<1>2. TypeInv /\ [O!Next]_O!vars => TypeInv'
    BY OutboxTypeStep, BoundedStep, TriesTypeStep
<1>3. TypeInv => O!TypeOK
    BY RelayNats DEF OutboxType, Bounded, TriesType, O!TypeOK
<1> QED BY <1>1, <1>2, <1>3, PTL DEF O!Spec

-----------------------------------------------------------------------------
(* The composition.                                                        *)

\* A behaviour of the composition is one of SendFile and one of Outbox: what is
\* proved of them holds in the run that checks all three ways.
THEOREM WaysAreComposed == AllSpec => T!Spec /\ O!Spec
<1>1. AllInit => T!Init /\ O!Init
    BY DEF AllInit
<1>2. [AllNext]_<<subject, vars, toolVars, outboxVars>> =>
         [T!Next]_T!vars /\ [O!Next]_O!vars
    BY DEF AllNext, toolVars, outboxVars, T!vars, T!bindings, T!callVars,
           O!vars, O!agentVars, O!relayVars, O!daemonVars, O!historyVars
<1> QED BY <1>1, <1>2, PTL DEF AllSpec, T!Spec, O!Spec

=============================================================================
