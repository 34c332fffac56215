------------------------ MODULE PermissionGateProofs ------------------------
(***************************************************************************)
(* What the permission relay promises for any chats, gates and turns,      *)
(* whatever streams drop, replies are lost and restarts happen, and what   *)
(* the stream of a turn does for any number of events.                     *)
(***************************************************************************)
EXTENDS GateAndStream, FiniteSetTheorems, SequenceTheorems, TLAPS

\* The constants one by one.
LEMMA Bounds ==
    /\ MaxTurns \in Nat /\ MaxFaults \in Nat /\ MaxLost \in Nat /\ MaxCrashes \in Nat
    /\ GateOf \in [Gates -> Chats]
    /\ NoChat \notin Chats /\ NoGate \notin Gates /\ NoDecision \notin Decisions
    /\ "unasked" \notin Decisions /\ "pending" \notin Decisions /\ "dropped" \notin Decisions
BY BoundsAssumption, GateOfAssumption, NullsAssumption, DecisionsAssumption

-----------------------------------------------------------------------------
(* Types.                                                                  *)

Callbacks == [gate : Gates \cup {NoGate}, decision : Decisions \cup {NoDecision},
              reply : {"none", "sent", "ok", "err"}]

\* The turn and its subscription.
TurnType ==
    /\ loop \in [Chats -> {"none", "select", "posting"}]
    /\ posting \in [Chats -> Gates \cup {NoGate}]
    /\ stream \in [Chats -> {"unopened", "open", "dropped"}]
    /\ inbox \in [Chats -> Seq(Gates)]
    /\ \A c \in Chats : loop[c] = "posting" <=> posting[c] # NoGate
    /\ \A c \in Chats : loop[c] = "none" => inbox[c] = << >>

\* A reply on its way, or back, is about a gate.
CallbackType ==
    /\ callback \in [Chats -> Callbacks]
    /\ \A c \in Chats : callback[c].reply # "none" =>
          callback[c].gate \in Gates /\ callback[c].decision \in Decisions

GateType ==
    /\ prompt \in [Chats -> {"none", "sent", "running"}]
    /\ orphan \in [Chats -> BOOLEAN]
    /\ gate \in [Gates -> {"unasked", "pending", "dropped"} \cup Decisions]
    /\ approvals \in [Gates -> Chats \cup {NoChat}]
    /\ buttons \in [Gates -> SUBSET Chats]
    /\ tapped \in [Gates -> [Chats -> SUBSET Decisions]]
    /\ lost \subseteq Gates

CounterType ==
    /\ connected \in BOOLEAN
    /\ turns \in [Chats -> 0..MaxTurns]
    /\ faults \in 0..MaxFaults
    /\ crashes \in 0..MaxCrashes

TypeInv == TurnType /\ CallbackType /\ GateType /\ CounterType

LEMMA NoCallbackFacts == NoCallback \in Callbacks /\ NoCallback.reply = "none"
BY DEF NoCallback, Callbacks

\* The event at the head of an inbox.
LEMMA InboxFacts ==
    ASSUME TypeInv, NEW c \in Chats, inbox[c] # << >>
    PROVE  /\ Head(inbox[c]) \in Gates /\ Tail(inbox[c]) \in Seq(Gates)
           /\ Head(inbox[c]) = inbox[c][1] /\ 1 \in 1..Len(inbox[c])
           /\ \A i \in 1..Len(Tail(inbox[c])) :
                 i + 1 \in 1..Len(inbox[c]) /\ Tail(inbox[c])[i] = inbox[c][i + 1]
<1>1. inbox[c] \in Seq(Gates)
    BY DEF TypeInv, TurnType
<1> QED BY <1>1, HeadTailProperties, LenProperties, ElementOfSeq

LEMMA TurnStep ==
    ASSUME TypeInv, [Next]_vars
    PROVE  TurnType'
<1> USE Bounds DEF TypeInv, TurnType
<1>1. ASSUME UNCHANGED turnVars PROVE TurnType'
    BY <1>1 DEF turnVars
<1>2. ASSUME NEW c \in Chats, StartTurn(c)
      PROVE  TurnType'
    BY <1>2 DEF StartTurn
<1>3. ASSUME NEW c \in Chats, StreamOpens(c) \/ StreamDrops(c)
      PROVE  TurnType'
    BY <1>3 DEF StreamOpens, StreamDrops
<1>4. ASSUME NEW c \in Chats, HandlePermission(c)
      PROVE  TurnType'
    <2> DEFINE g == Head(inbox[c])
               rest == Tail(inbox[c])
    <2>1. g \in Gates /\ rest \in Seq(Gates)
        BY <1>4, InboxFacts DEF HandlePermission
    <2>2. inbox' = [inbox EXCEPT ![c] = rest] /\ loop[c] = "select" /\ stream' = stream
        BY <1>4 DEF HandlePermission
    <2>3. \/ posting' = [posting EXCEPT ![c] = g] /\ loop' = [loop EXCEPT ![c] = "posting"]
          \/ UNCHANGED <<posting, loop>>
        BY <1>4 DEF HandlePermission
    <2> HIDE DEF g, rest
    <2>4. inbox' \in [Chats -> Seq(Gates)]
        BY <2>1, <2>2
    <2>5. CASE posting' = [posting EXCEPT ![c] = g] /\ loop' = [loop EXCEPT ![c] = "posting"]
        <3>1. posting' \in [Chats -> Gates \cup {NoGate}]
            BY <2>1, <2>5
        <3>2. \A d \in Chats : loop'[d] = "posting" <=> posting'[d] # NoGate
            BY <2>1, <2>5
        <3>3. \A d \in Chats : loop'[d] = "none" => inbox'[d] = << >>
            BY <2>2, <2>5
        <3> QED BY <2>2, <2>4, <2>5, <3>1, <3>2, <3>3
    <2>6. CASE UNCHANGED <<posting, loop>>
        <3>1. \A d \in Chats : loop'[d] = "none" => inbox'[d] = << >>
            BY <2>2, <2>6
        <3> QED BY <2>2, <2>4, <2>6, <3>1
    <2> QED BY <2>3, <2>5, <2>6
<1>5. ASSUME NEW c \in Chats, PostingDone(c)
      PROVE  TurnType'
    BY <1>5 DEF PostingDone
<1>6. ASSUME NEW c \in Chats, TurnEnds(c)
      PROVE  TurnType'
    BY <1>6, EmptySeq DEF TurnEnds, InboxAfterTurn
<1>7. ASSUME NEW g \in Gates, AskGate(g)
      PROVE  TurnType'
    <2>1. \A c \in Chats : Append(inbox[c], g) \in Seq(Gates)
        BY AppendProperties
    <2> QED BY <1>7, <2>1 DEF AskGate
<1>8. CASE Crash
    BY <1>8, EmptySeq DEF Crash
<1>9. ASSUME NEW c \in Chats,
             \/ PromptRuns(c) \/ PromptAnswers(c) \/ ReplyReceived(c) \/ ReplyLost(c)
             \/ CallbackDone(c) \/ HandleStop(c)
             \/ \E g \in Gates, d \in Decisions :
                   TapForwarded(c, g, d) \/ TapRefused(c, g, d) \/ TapFailed(c, g, d)
      PROVE  UNCHANGED turnVars
    BY <1>9 DEF PromptRuns, PromptAnswers, ReplyReceived, ReplyLost, CallbackDone, HandleStop,
                TapForwarded, TapRefused, TapFailed, Tap
<1>10. SlotConnects \/ UNCHANGED vars => UNCHANGED turnVars
    BY DEF SlotConnects, vars
<1> QED BY <1>1, <1>2, <1>3, <1>4, <1>5, <1>6, <1>7, <1>8, <1>9, <1>10 DEF Next

LEMMA CallbackStep ==
    ASSUME TypeInv, [Next]_vars
    PROVE  CallbackType'
<1> USE Bounds DEF TypeInv, CallbackType
<1>1. ASSUME UNCHANGED callback PROVE CallbackType'
    BY <1>1
<1>2. ASSUME NEW c \in Chats, NEW g \in Gates, NEW d \in Decisions, TapForwarded(c, g, d)
      PROVE  CallbackType'
    <2> DEFINE cb == [gate |-> g, decision |-> d, reply |-> "sent"]
    <2>1. callback' = [callback EXCEPT ![c] = cb]
        BY <1>2 DEF TapForwarded, Parsed
    <2>2. cb \in Callbacks /\ cb.gate = g /\ cb.decision = d
        BY DEF Callbacks
    <2> HIDE DEF cb
    <2> QED BY <2>1, <2>2
<1>3. ASSUME NEW c \in Chats, ReplyReceived(c) \/ ReplyLost(c)
      PROVE  CallbackType'
    <2>1. PICK r \in {"ok", "err"} :
             callback' = [callback EXCEPT ![c] = [callback[c] EXCEPT !.reply = r]]
        BY <1>3 DEF ReplyReceived, ReplyLost
    <2>2. callback[c] \in Callbacks /\ callback[c].reply # "none"
        BY <1>3 DEF ReplyReceived, ReplyLost
    <2> DEFINE cb == [callback[c] EXCEPT !.reply = r]
    <2>3. /\ cb \in Callbacks
          /\ cb.gate = callback[c].gate /\ cb.decision = callback[c].decision
        BY <2>2 DEF Callbacks
    <2> HIDE DEF cb
    <2>4. callback' = [callback EXCEPT ![c] = cb]
        BY <2>1 DEF cb
    <2> QED BY <2>2, <2>3, <2>4
<1>4. ASSUME NEW c \in Chats, CallbackDone(c)
      PROVE  CallbackType'
    <2>1. callback' = [callback EXCEPT ![c] = NoCallback]
        BY <1>4 DEF CallbackDone
    <2> QED BY <2>1, NoCallbackFacts
<1>5. CASE Crash
    BY <1>5, NoCallbackFacts DEF Crash
<1>6. ASSUME NEW c \in Chats,
             \/ StartTurn(c) \/ StreamOpens(c) \/ StreamDrops(c)
             \/ HandlePermission(c) \/ PostingDone(c) \/ TurnEnds(c)
             \/ PromptRuns(c) \/ PromptAnswers(c) \/ HandleStop(c)
             \/ \E g \in Gates, d \in Decisions : TapRefused(c, g, d) \/ TapFailed(c, g, d)
      PROVE  UNCHANGED callback
    BY <1>6 DEF StartTurn, StreamOpens, StreamDrops, HandlePermission, PostingDone, TurnEnds,
                PromptRuns, PromptAnswers, HandleStop, TapRefused, TapFailed
<1>7. SlotConnects \/ UNCHANGED vars \/ (\E g \in Gates : AskGate(g)) => UNCHANGED callback
    BY DEF SlotConnects, vars, AskGate
<1> QED BY <1>1, <1>2, <1>3, <1>4, <1>5, <1>6, <1>7 DEF Next

LEMMA GateStep ==
    ASSUME TypeInv, [Next]_vars
    PROVE  GateType'
<1> USE Bounds DEF TypeInv, GateType
<1>1. ASSUME UNCHANGED <<prompt, orphan, gate, approvals, buttons, tapped, lost>>
      PROVE  GateType'
    BY <1>1
<1>2. ASSUME NEW c \in Chats, StartTurn(c) \/ PromptRuns(c) \/ PromptAnswers(c)
      PROVE  GateType'
    BY <1>2 DEF StartTurn, PromptRuns, PromptAnswers, Over, opencodeVars, userVars, boundVars
<1>3. ASSUME NEW c \in Chats, HandlePermission(c)
      PROVE  GateType'
    <2>1. approvals' = approvals \/ approvals' = [approvals EXCEPT ![Head(inbox[c])] = c]
        BY <1>3 DEF HandlePermission, RowsBeforePosting
    <2>2. approvals' \in [Gates -> Chats \cup {NoChat}]
        BY <2>1
    <2>3. UNCHANGED <<prompt, orphan, gate, buttons, tapped, lost>>
        BY <1>3 DEF HandlePermission, DbRefuses, opencodeVars, userVars, boundVars
    <2> QED BY <2>2, <2>3
<1>4. ASSUME NEW c \in Chats, PostingDone(c)
      PROVE  GateType'
    BY <1>4 DEF PostingDone, opencodeVars, boundVars
<1>5. ASSUME NEW g \in Gates, AskGate(g)
      PROVE  GateType'
    BY <1>5 DEF AskGate, userVars, boundVars
<1>6. ASSUME NEW c \in Chats, ReplyReceived(c)
      PROVE  GateType'
    <2>1. callback[c].gate \in Gates /\ callback[c].decision \in Decisions
        BY <1>6 DEF ReplyReceived, CallbackType
    <2> QED BY <1>6, <2>1 DEF ReplyReceived, userVars, boundVars
<1>7. ASSUME NEW c \in Chats, ReplyLost(c)
      PROVE  GateType'
    <2>1. callback[c].gate \in Gates
        BY <1>7 DEF ReplyLost, CallbackType
    <2> QED BY <1>7, <2>1 DEF ReplyLost, opencodeVars, userVars
<1>8. ASSUME NEW c \in Chats, NEW g \in Gates, NEW d \in Decisions, Tap(c, g, d), lost' = lost
      PROVE  GateType'
    BY <1>8 DEF Tap, opencodeVars
<1>9. ASSUME NEW c \in Chats, CallbackDone(c)
      PROVE  GateType'
    <2>1. callback[c].gate \in Gates
        BY <1>9 DEF CallbackDone, CallbackType
    <2>2. UNCHANGED <<prompt, orphan, gate, tapped, lost>>
        BY <1>9 DEF CallbackDone, DbRefuses, opencodeVars, boundVars
    <2>3. approvals' = approvals \/ approvals' = [approvals EXCEPT ![callback[c].gate] = NoChat]
        BY <1>9 DEF CallbackDone
    <2>4. \/ buttons' = buttons
          \/ buttons' = [buttons EXCEPT ![callback[c].gate] = @ \ {c}]
        BY <1>9 DEF CallbackDone
    <2>5. approvals' \in [Gates -> Chats \cup {NoChat}]
        BY <2>1, <2>3
    <2>6. buttons' \in [Gates -> SUBSET Chats]
        BY <2>1, <2>4
    <2> QED BY <2>2, <2>5, <2>6
<1>10. ASSUME NEW c \in Chats, HandleStop(c)
       PROVE  GateType'
    BY <1>10 DEF HandleStop, Over, userVars, boundVars
<1>11. CASE Crash
    BY <1>11 DEF Crash, RowsAfterCrash, Busy, userVars
<1>12. ASSUME NEW c \in Chats, StreamOpens(c) \/ StreamDrops(c) \/ TurnEnds(c)
       PROVE  GateType'
    BY <1>12 DEF StreamOpens, StreamDrops, TurnEnds, opencodeVars, userVars, boundVars
<1>13. CASE SlotConnects \/ UNCHANGED vars
    BY <1>1, <1>13 DEF SlotConnects, vars, opencodeVars, userVars, boundVars
<1>14. ASSUME NEW c \in Chats, NEW g \in Gates, NEW d \in Decisions,
              TapForwarded(c, g, d) \/ TapRefused(c, g, d) \/ TapFailed(c, g, d)
       PROVE  GateType'
    BY <1>8, <1>14 DEF TapForwarded, TapRefused, TapFailed, DbRefuses, boundVars
<1> QED BY <1>1, <1>2, <1>3, <1>4, <1>5, <1>6, <1>7, <1>9, <1>10, <1>11, <1>12, <1>13, <1>14
       DEF Next

LEMMA CounterStep ==
    ASSUME TypeInv, [Next]_vars
    PROVE  CounterType'
<1> USE Bounds DEF TypeInv, CounterType, boundVars
<1>1. ASSUME UNCHANGED <<connected, boundVars>> PROVE CounterType'
    BY <1>1
<1>2. ASSUME NEW c \in Chats, StartTurn(c) \/ StreamDrops(c)
      PROVE  CounterType'
    BY <1>2 DEF StartTurn, StreamDrops
<1>3. CASE Crash
    <2>1. crashes \in 0..MaxCrashes /\ crashes < MaxCrashes /\ crashes' = crashes + 1
        BY <1>3 DEF Crash
    <2>2. crashes' \in 0..MaxCrashes
        BY <2>1
    <2>3. connected' = FALSE /\ UNCHANGED <<turns, faults>>
        BY <1>3 DEF Crash
    <2> QED BY <2>2, <2>3
<1>4. CASE SlotConnects
    BY <1>4 DEF SlotConnects
<1>5. ASSUME NEW c \in Chats, ReplyLost(c)
      PROVE  CounterType'
    BY <1>5 DEF ReplyLost
<1>6. ASSUME NEW c \in Chats,
             \/ StreamOpens(c) \/ HandlePermission(c) \/ PostingDone(c) \/ TurnEnds(c)
             \/ PromptRuns(c) \/ PromptAnswers(c) \/ ReplyReceived(c) \/ CallbackDone(c)
             \/ HandleStop(c)
             \/ \E g \in Gates, d \in Decisions :
                   TapForwarded(c, g, d) \/ TapRefused(c, g, d) \/ TapFailed(c, g, d)
      PROVE  connected' = connected /\ (UNCHANGED boundVars \/ DbRefuses)
    BY <1>6 DEF StreamOpens, HandlePermission, PostingDone, TurnEnds, PromptRuns, PromptAnswers,
                ReplyReceived, CallbackDone, HandleStop, TapForwarded, TapRefused, TapFailed, Tap
<1>7. UNCHANGED vars \/ (\E g \in Gates : AskGate(g)) => UNCHANGED <<connected, boundVars>>
    BY DEF vars, AskGate
<1>8. ASSUME connected' = connected, DbRefuses
      PROVE  CounterType'
    BY <1>8 DEF DbRefuses
<1> QED BY <1>1, <1>2, <1>3, <1>5, <1>6, <1>7, <1>4, <1>8 DEF Next

LEMMA TypesHold == Spec => []TypeInv
<1>1. Init => TypeInv
    <2> SUFFICES ASSUME Init PROVE TypeInv
        OBVIOUS
    <2> USE Bounds DEF Init
    <2>1. TurnType
        BY EmptySeq DEF TurnType
    <2>2. CallbackType
        BY NoCallbackFacts DEF CallbackType
    <2>3. GateType /\ CounterType
        BY DEF GateType, CounterType
    <2> QED BY <2>1, <2>2, <2>3 DEF TypeInv
<1>2. TypeInv /\ [Next]_vars => TypeInv'
    BY TurnStep, CallbackStep, GateStep, CounterStep DEF TypeInv
<1> QED BY <1>1, <1>2, PTL DEF Spec

\* Every variable keeps its type; only a running loop posts a gate or holds events
\* (run_streaming_turn, handle_callback).
THEOREM TypeCorrect == Spec => []TypeOK
<1>1. TypeInv => TypeOK
    <2> SUFFICES ASSUME TypeInv PROVE TypeOK
        OBVIOUS
    <2>1. TurnType /\ GateType /\ CounterType /\ callback \in [Chats -> Callbacks]
        BY DEF TypeInv, CallbackType
    <2> QED BY <2>1 DEF TypeOK, TurnType, GateType, CounterType, Callbacks
<1> QED BY <1>1, TypesHold, PTL

-----------------------------------------------------------------------------
(* Whose gate it is.                                                       *)

\* Only its owner's turn posts a gate.
PostedByOwner == \A c \in Chats : posting[c] # NoGate => GateOf[posting[c]] = c

AskInv == OneChatIsAsked /\ PostedByOwner

LEMMA AskStep ==
    ASSUME TypeInv, AskInv, [Next]_vars
    PROVE  AskInv'
<1> USE Bounds DEF TypeInv, AskInv, OneChatIsAsked, PostedByOwner
<1>1. ASSUME UNCHANGED <<posting, approvals, buttons>>
      PROVE  AskInv'
    BY <1>1
<1>2. ASSUME NEW c \in Chats, HandlePermission(c)
      PROVE  AskInv'
    <2> DEFINE g == Head(inbox[c])
    <2>1. g \in Gates
        BY <1>2, InboxFacts DEF HandlePermission
    <2>2. \/ /\ GateOf[g] = c
             /\ posting' = [posting EXCEPT ![c] = g] /\ approvals' = [approvals EXCEPT ![g] = c]
          \/ UNCHANGED <<posting, approvals>>
        BY <1>2 DEF HandlePermission, Owns, RowsBeforePosting
    <2>3. buttons' = buttons
        BY <1>2 DEF HandlePermission, userVars
    <2>4. PostedByOwner'
        BY <2>1, <2>2, <2>3 DEF TurnType
    <2>5. \A h \in Gates : approvals'[h] \in {GateOf[h], NoChat}
        BY <2>1, <2>2, <2>3 DEF GateType
    <2>6. \A h \in Gates : buttons'[h] \subseteq {GateOf[h]}
        BY <2>1, <2>2, <2>3 DEF GateType
    <2> QED BY <2>4, <2>5, <2>6
<1>3. ASSUME NEW c \in Chats, PostingDone(c)
      PROVE  AskInv'
    <2> DEFINE g == posting[c]
    <2>1. g \in Gates /\ GateOf[g] = c
        BY <1>3 DEF PostingDone, TurnType
    <2>2. buttons' = buttons \/ buttons' = [buttons EXCEPT ![g] = @ \cup {c}]
        BY <1>3 DEF PostingDone
    <2>3. posting' = [posting EXCEPT ![c] = NoGate] /\ approvals' = approvals
        BY <1>3 DEF PostingDone
    <2>4. PostedByOwner'
        BY <2>1, <2>2, <2>3 DEF TurnType
    <2>5. \A h \in Gates : approvals'[h] \in {GateOf[h], NoChat}
        BY <2>1, <2>2, <2>3 DEF GateType
    <2>6. \A h \in Gates : buttons'[h] \subseteq {GateOf[h]}
        BY <2>1, <2>2, <2>3 DEF GateType
    <2> QED BY <2>4, <2>5, <2>6
<1>4. ASSUME NEW c \in Chats, CallbackDone(c)
      PROVE  AskInv'
    <2> DEFINE g == callback[c].gate
    <2>1. /\ approvals' = approvals \/ approvals' = [approvals EXCEPT ![g] = NoChat]
          /\ posting' = posting
        BY <1>4 DEF CallbackDone, turnVars
    <2>2. buttons' = buttons \/ buttons' = [buttons EXCEPT ![g] = @ \ {c}]
        BY <1>4 DEF CallbackDone
    <2> HIDE DEF g
    <2> QED BY <2>1, <2>2 DEF GateType
<1>5. CASE Crash
    BY <1>5 DEF Crash, RowsAfterCrash, userVars
<1>6. ASSUME NEW c \in Chats,
             \/ StartTurn(c) \/ StreamOpens(c) \/ StreamDrops(c) \/ TurnEnds(c)
             \/ PromptRuns(c) \/ PromptAnswers(c) \/ ReplyReceived(c) \/ ReplyLost(c)
             \/ HandleStop(c)
             \/ \E g \in Gates, d \in Decisions :
                   TapForwarded(c, g, d) \/ TapRefused(c, g, d) \/ TapFailed(c, g, d)
      PROVE  UNCHANGED <<posting, approvals, buttons>>
    BY <1>6 DEF StartTurn, StreamOpens, StreamDrops, TurnEnds, PromptRuns, PromptAnswers,
                ReplyReceived, ReplyLost, HandleStop, TapForwarded, TapRefused, TapFailed, Tap,
                turnVars, userVars
<1>7. SlotConnects \/ UNCHANGED vars \/ (\E g \in Gates : AskGate(g))
         => UNCHANGED <<posting, approvals, buttons>>
    BY DEF SlotConnects, vars, AskGate, turnVars, userVars
<1> QED BY <1>1, <1>2, <1>3, <1>4, <1>5, <1>6, <1>7 DEF Next

LEMMA AskHolds == Spec => []AskInv
<1>1. Init => AskInv
    BY DEF Init, AskInv, OneChatIsAsked, PostedByOwner
<1>2. TypeInv /\ AskInv /\ [Next]_vars => AskInv'
    BY AskStep
<1> QED BY <1>1, <1>2, TypesHold, PTL DEF Spec

\* Two chats on one instance are never both asked about a gate (permission.rs:58-62).
THEOREM OnlyTheOwnerIsAsked == Spec => []OneChatIsAsked
<1>1. AskInv => OneChatIsAsked
    BY DEF AskInv
<1> QED BY <1>1, AskHolds, PTL

-----------------------------------------------------------------------------
(* Whose decision it is.                                                   *)

\* What a dispatcher forwards is a decision that the owner of the gate has tapped.
ForwardsATap ==
    \A c \in Chats : callback[c].reply # "none" =>
        /\ GateOf[callback[c].gate] = c
        /\ callback[c].decision \in tapped[callback[c].gate][c]

DecisionInv == DecisionIsTheOwners /\ ForwardsATap

\* Taps are remembered.
LEMMA TapsAreKept ==
    ASSUME TypeInv, [Next]_vars
    PROVE  \A g \in Gates, c \in Chats : tapped[g][c] \subseteq tapped'[g][c]
<1>1. CASE UNCHANGED tapped
    BY <1>1
<1>2. ASSUME NEW c \in Chats, NEW g \in Gates, NEW d \in Decisions,
             TapForwarded(c, g, d) \/ TapRefused(c, g, d) \/ TapFailed(c, g, d)
      PROVE  \A h \in Gates, e \in Chats : tapped[h][e] \subseteq tapped'[h][e]
    <2>1. tapped' = [tapped EXCEPT ![g][c] = @ \cup {d}]
        BY <1>2 DEF TapForwarded, TapRefused, TapFailed, Tap
    <2> QED BY <2>1 DEF TypeInv, GateType
<1>3. ASSUME NEW c \in Chats,
             \/ StartTurn(c) \/ StreamOpens(c) \/ StreamDrops(c)
             \/ HandlePermission(c) \/ PostingDone(c) \/ TurnEnds(c)
             \/ PromptRuns(c) \/ PromptAnswers(c) \/ ReplyReceived(c) \/ ReplyLost(c)
             \/ CallbackDone(c) \/ HandleStop(c)
      PROVE  UNCHANGED tapped
    BY <1>3 DEF StartTurn, StreamOpens, StreamDrops, HandlePermission, PostingDone, TurnEnds,
                PromptRuns, PromptAnswers, ReplyReceived, ReplyLost, CallbackDone, HandleStop,
                userVars
<1>4. SlotConnects \/ Crash \/ UNCHANGED vars \/ (\E g \in Gates : AskGate(g)) => UNCHANGED tapped
    BY DEF SlotConnects, Crash, vars, AskGate, userVars
<1> QED BY <1>1, <1>2, <1>3, <1>4 DEF Next

LEMMA DecisionStep ==
    ASSUME TypeInv, AskInv, DecisionInv, [Next]_vars
    PROVE  DecisionInv'
<1> USE Bounds, TapsAreKept DEF TypeInv, DecisionInv
<1>1. ASSUME \A g \in Gates : gate'[g] \in Decisions => gate'[g] = gate[g]
      PROVE  DecisionIsTheOwners'
    BY <1>1 DEF DecisionIsTheOwners
<1>2. ASSUME \A c \in Chats : callback'[c].reply # "none" =>
                 /\ callback[c].reply # "none"
                 /\ callback'[c].gate = callback[c].gate
                 /\ callback'[c].decision = callback[c].decision
      PROVE  ForwardsATap'
    BY <1>2 DEF ForwardsATap, CallbackType
<1>3. ASSUME NEW c \in Chats, ReplyReceived(c) \/ ReplyLost(c)
      PROVE  ForwardsATap'
    <2>1. PICK r \in {"ok", "err"} :
             callback' = [callback EXCEPT ![c] = [callback[c] EXCEPT !.reply = r]]
        BY <1>3 DEF ReplyReceived, ReplyLost
    <2>2. callback[c].reply # "none"
        BY <1>3 DEF ReplyReceived, ReplyLost
    <2>3. callback'[c].gate = callback[c].gate /\ callback'[c].decision = callback[c].decision
        BY <2>1 DEF CallbackType, Callbacks
    <2>4. \A e \in Chats \ {c} : callback'[e] = callback[e]
        BY <2>1 DEF CallbackType
    <2> QED BY <1>2, <2>2, <2>3, <2>4
<1>4. ASSUME NEW c \in Chats, ReplyReceived(c)
      PROVE  DecisionIsTheOwners'
    <2> DEFINE g == callback[c].gate
    <2>1. g \in Gates /\ callback[c].decision \in tapped[g][GateOf[g]]
        BY <1>4 DEF ReplyReceived, CallbackType, ForwardsATap
    <2>2. gate' = gate \/ gate' = [gate EXCEPT ![g] = callback[c].decision]
        BY <1>4 DEF ReplyReceived
    <2>3. tapped' = tapped
        BY <1>4 DEF ReplyReceived, userVars
    <2> HIDE DEF g
    <2> QED BY <2>1, <2>2, <2>3 DEF DecisionIsTheOwners, GateType
<1>5. ASSUME NEW c \in Chats, ReplyLost(c)
      PROVE  DecisionIsTheOwners'
    BY <1>1, <1>5 DEF ReplyLost, opencodeVars
<1>6. ASSUME NEW c \in Chats, NEW g \in Gates, NEW d \in Decisions, TapForwarded(c, g, d)
      PROVE  DecisionInv'
    <2> DEFINE cb == [gate |-> g, decision |-> d, reply |-> "sent"]
    <2>1. callback' = [callback EXCEPT ![c] = cb] /\ gate' = gate
        BY <1>6 DEF TapForwarded, Tap, Parsed, opencodeVars
    <2>2. cb.gate = g /\ cb.decision = d
        OBVIOUS
    <2>3. GateOf[g] = c
        BY <1>6 DEF TapForwarded, Tap, AskInv, OneChatIsAsked
    <2>4. d \in tapped'[g][c]
        BY <1>6 DEF TapForwarded, Tap, GateType
    <2> HIDE DEF cb
    <2>5. ForwardsATap'
        BY <2>1, <2>2, <2>3, <2>4 DEF ForwardsATap, CallbackType
    <2> QED BY <1>1, <2>1, <2>5
<1>7. ASSUME NEW c \in Chats, CallbackDone(c)
      PROVE  DecisionInv'
    <2>1. callback' = [callback EXCEPT ![c] = NoCallback] /\ gate' = gate
        BY <1>7 DEF CallbackDone, opencodeVars
    <2>2. ForwardsATap'
        BY <1>2, <2>1, NoCallbackFacts DEF CallbackType
    <2> QED BY <1>1, <2>1, <2>2
<1>8. CASE Crash
    BY <1>1, <1>2, <1>8, NoCallbackFacts DEF Crash
<1>9. ASSUME NEW c \in Chats, HandleStop(c)
      PROVE  DecisionInv'
    <2>1. callback' = callback /\ \A g \in Gates : gate'[g] \in {"dropped", gate[g]}
        BY <1>9 DEF HandleStop
    <2> QED BY <1>1, <1>2, <2>1
<1>10. ASSUME NEW g \in Gates, AskGate(g)
       PROVE  DecisionInv'
    <2>1. callback' = callback /\ gate' = [gate EXCEPT ![g] = "pending"]
        BY <1>10 DEF AskGate
    <2> QED BY <1>1, <1>2, <2>1 DEF GateType
<1>11. ASSUME NEW c \in Chats,
              \/ StartTurn(c) \/ StreamOpens(c) \/ StreamDrops(c)
              \/ HandlePermission(c) \/ PostingDone(c) \/ TurnEnds(c)
              \/ PromptRuns(c) \/ PromptAnswers(c)
              \/ \E g \in Gates, d \in Decisions : TapRefused(c, g, d) \/ TapFailed(c, g, d)
       PROVE  UNCHANGED <<callback, gate>>
    BY <1>11 DEF StartTurn, StreamOpens, StreamDrops, HandlePermission, PostingDone, TurnEnds,
                 PromptRuns, PromptAnswers, TapRefused, TapFailed, Tap, opencodeVars
<1>12. SlotConnects \/ UNCHANGED vars => UNCHANGED <<callback, gate>>
    BY DEF SlotConnects, vars, opencodeVars
<1>13. ASSUME UNCHANGED <<callback, gate>>
       PROVE  DecisionInv'
    BY <1>1, <1>2, <1>13
<1> QED BY <1>3, <1>4, <1>5, <1>6, <1>7, <1>8, <1>9, <1>10, <1>11, <1>12, <1>13 DEF Next

\* A gate takes no decision but one that the user of its chat has tapped, whatever is
\* tapped twice, answered late, stopped or restarted (handle_callback, bot.rs:692-776).
THEOREM OnlyTheOwnerDecides == Spec => []DecisionIsTheOwners
<1>1. Init => DecisionInv
    BY Bounds, NoCallbackFacts DEF Init, DecisionInv, DecisionIsTheOwners, ForwardsATap
<1>2. TypeInv /\ AskInv /\ DecisionInv /\ [Next]_vars => DecisionInv'
    BY DecisionStep
<1>3. DecisionInv => DecisionIsTheOwners
    BY DEF DecisionInv
<1> QED BY <1>1, <1>2, <1>3, TypesHold, AskHolds, PTL DEF Spec

-----------------------------------------------------------------------------
(* What is shown can be answered.                                          *)

InInbox(c, g) == \E i \in 1..Len(inbox[c]) : inbox[c][i] = g

\* Of a gate that has not been asked nobody knows.
Untouched ==
    \A g \in Gates : gate[g] = "unasked" =>
        /\ buttons[g] = {}
        /\ \A c \in Chats : posting[c] # g /\ callback[c].gate # g /\ ~InInbox(c, g)

\* A reply that is back has settled its gate, or was lost.
Settled ==
    \A c \in Chats : callback[c].reply \in {"ok", "err"} =>
        callback[c].gate \in lost \/ gate[callback[c].gate] # "pending"

\* A gate that is pending has its row from before its message is sent.
Recorded ==
    \A g \in Gates \ lost : gate[g] = "pending" =>
        \A c \in Chats : posting[c] = g \/ c \in buttons[g] => approvals[g] = c

AnswerInv == Untouched /\ Settled /\ Recorded

\* Nothing is asked, posted, forwarded or deleted; gates may be settled, events,
\* messages and callbacks may vanish.
Quiet ==
    /\ \A g \in Gates : gate'[g] = gate[g] \/ gate'[g] \notin {"unasked", "pending"}
    /\ \A g \in Gates : approvals'[g] = approvals[g] /\ buttons'[g] \subseteq buttons[g]
    /\ \A c \in Chats : posting'[c] \in {posting[c], NoGate}
    /\ \A c \in Chats : callback'[c] \in {callback[c], NoCallback}
    /\ \A c \in Chats, g \in Gates : InInbox(c, g)' => InInbox(c, g)
    /\ lost' = lost

LEMMA QuietStep ==
    ASSUME TypeInv, AnswerInv, Quiet
    PROVE  AnswerInv'
<1> USE DEF Quiet
<1>1. Untouched'
    <2> SUFFICES ASSUME NEW g \in Gates, gate'[g] = "unasked"
                 PROVE  /\ buttons'[g] = {}
                        /\ \A c \in Chats : posting'[c] # g /\ callback'[c].gate # g
                                              /\ ~InInbox(c, g)'
        BY DEF Untouched
    <2>1. gate[g] = "unasked"
        OBVIOUS
    <2>2. buttons'[g] = {}
        BY <2>1 DEF AnswerInv, Untouched
    <2>3. ASSUME NEW c \in Chats
          PROVE  posting'[c] # g /\ callback'[c].gate # g /\ ~InInbox(c, g)'
        BY <2>1, Bounds DEF AnswerInv, Untouched, NoCallback
    <2> QED BY <2>2, <2>3
<1>2. Settled'
    <2> SUFFICES ASSUME NEW c \in Chats, callback'[c].reply \in {"ok", "err"}
                 PROVE  callback'[c].gate \in lost \/ gate'[callback'[c].gate] # "pending"
        BY DEF Settled
    <2>1. callback'[c] = callback[c]
        BY DEF NoCallback
    <2>2. callback[c].gate \in Gates
        BY <2>1 DEF TypeInv, CallbackType
    <2> QED BY <2>1, <2>2 DEF AnswerInv, Settled
<1>3. Recorded'
    BY Bounds DEF AnswerInv, Recorded
<1> QED BY <1>1, <1>2, <1>3 DEF AnswerInv

LEMMA SameInbox ==
    ASSUME UNCHANGED inbox
    PROVE  \A c \in Chats, g \in Gates : InInbox(c, g)' = InInbox(c, g)
BY DEF InInbox

LEMMA HandleStep ==
    ASSUME TypeInv, AskInv', AnswerInv, NEW c \in Chats, HandlePermission(c)
    PROVE  AnswerInv'
<1> DEFINE h == Head(inbox[c])
           rest == Tail(inbox[c])
<1>1. h \in Gates /\ InInbox(c, h)
    BY InboxFacts DEF HandlePermission, InInbox
<1>2. gate[h] # "unasked"
    BY <1>1 DEF AnswerInv, Untouched
<1>3. \A e \in Chats, g \in Gates : InInbox(e, g)' => InInbox(e, g)
    <2> SUFFICES ASSUME NEW e \in Chats, NEW g \in Gates, InInbox(e, g)'
                 PROVE  InInbox(e, g)
        OBVIOUS
    <2>1. inbox' = [inbox EXCEPT ![c] = rest] /\ inbox[c] # << >>
        BY DEF HandlePermission
    <2>2. CASE e # c
        BY <2>1, <2>2 DEF InInbox, TypeInv, TurnType
    <2>3. CASE e = c
        <3>1. inbox'[c] = rest
            BY <2>1 DEF TypeInv, TurnType
        <3>2. PICK i \in 1..Len(rest) : rest[i] = g
            BY <2>3, <3>1 DEF InInbox
        <3>3. i + 1 \in 1..Len(inbox[c]) /\ inbox[c][i + 1] = g
            BY <2>1, <3>2, InboxFacts
        <3> QED BY <2>3, <3>3 DEF InInbox
    <2> QED BY <2>2, <2>3
<1>4. UNCHANGED <<gate, buttons, callback, lost>>
    BY DEF HandlePermission, DbRefuses, opencodeVars, userVars, boundVars
<1> HIDE DEF h, rest
<1>5. CASE UNCHANGED <<posting, approvals>>
    BY <1>3, <1>4, <1>5, QuietStep DEF Quiet
<1>6. CASE posting' = [posting EXCEPT ![c] = h] /\ approvals' = [approvals EXCEPT ![h] = c]
    <2>1. Untouched'
        BY <1>2, <1>3, <1>4, <1>6 DEF AnswerInv, Untouched, TypeInv, TurnType
    <2>2. Settled'
        BY <1>4 DEF AnswerInv, Settled
    <2>3. ASSUME NEW g \in Gates \ lost, gate[g] = "pending", NEW e \in Chats,
                 posting'[e] = g \/ e \in buttons[g]
          PROVE  approvals'[g] = e
        <3>1. CASE g = h
            <4>1. posting'[c] = h
                BY <1>6 DEF TypeInv, TurnType
            <4>2. GateOf[h] = c /\ GateOf[h] = e
                BY <1>1, <1>4, <2>3, <3>1, <4>1, Bounds DEF AskInv, PostedByOwner, OneChatIsAsked
            <4> QED BY <1>1, <1>6, <3>1, <4>2 DEF TypeInv, GateType
        <3>2. CASE g # h
            <4>1. posting[e] = g \/ e \in buttons[g]
                BY <1>6, <2>3, <3>2 DEF TypeInv, TurnType
            <4>2. approvals'[g] = approvals[g]
                BY <1>6, <3>2 DEF TypeInv, GateType
            <4> QED BY <2>3, <4>1, <4>2 DEF AnswerInv, Recorded
        <3> QED BY <3>1, <3>2
    <2>4. Recorded'
        BY <1>4, <2>3 DEF Recorded
    <2> QED BY <2>1, <2>2, <2>4 DEF AnswerInv
<1> QED BY <1>5, <1>6 DEF HandlePermission, RowsBeforePosting, h

LEMMA PostingStep ==
    ASSUME TypeInv, AnswerInv, NEW c \in Chats, PostingDone(c)
    PROVE  AnswerInv'
<1> DEFINE h == posting[c]
<1>1. h \in Gates /\ gate[h] # "unasked"
    BY DEF PostingDone, TypeInv, TurnType, AnswerInv, Untouched
<1>2. UNCHANGED <<gate, approvals, callback, lost, inbox>>
    BY DEF PostingDone, opencodeVars, boundVars
<1>3. \A e \in Chats : posting'[e] \in {posting[e], NoGate}
    BY DEF PostingDone, TypeInv, TurnType
<1>4. CASE buttons' = buttons
    BY <1>2, <1>3, <1>4, SameInbox, QuietStep DEF Quiet
<1>5. CASE buttons' = [buttons EXCEPT ![h] = @ \cup {c}]
    <2>1. Untouched'
        BY <1>1, <1>2, <1>3, <1>5, SameInbox, Bounds DEF AnswerInv, Untouched, TypeInv, GateType
    <2>2. Settled'
        BY <1>2 DEF AnswerInv, Settled
    <2>3. ASSUME NEW g \in Gates, NEW e \in Chats, posting'[e] = g \/ e \in buttons'[g]
          PROVE  posting[e] = g \/ e \in buttons[g]
        BY <1>3, <1>5, <2>3, Bounds DEF TypeInv, GateType
    <2>4. Recorded'
        BY <1>2, <2>3 DEF AnswerInv, Recorded
    <2> QED BY <2>1, <2>2, <2>4 DEF AnswerInv
<1> QED BY <1>4, <1>5 DEF PostingDone

LEMMA AskGateStep ==
    ASSUME TypeInv, AnswerInv, NEW h \in Gates, AskGate(h)
    PROVE  AnswerInv'
<1>1. gate' = [gate EXCEPT ![h] = "pending"] /\ gate[h] = "unasked"
    BY DEF AskGate
<1>2. UNCHANGED <<posting, approvals, buttons, callback, lost>>
    BY DEF AskGate, userVars, boundVars
<1>3. ASSUME NEW c \in Chats, NEW g \in Gates, g # h, InInbox(c, g)'
      PROVE  InInbox(c, g)
    <2>1. inbox[c] \in Seq(Gates) /\ Len(inbox[c]) \in Nat
        BY LenProperties DEF TypeInv, TurnType
    <2>2. inbox'[c] = Append(inbox[c], h) \/ inbox'[c] = inbox[c]
        BY DEF AskGate
    <2>3. PICK i \in 1..Len(inbox'[c]) : inbox'[c][i] = g
        BY <1>3 DEF InInbox
    <2>4. i \in 1..Len(inbox[c]) /\ inbox[c][i] = g
        BY <1>3, <2>1, <2>2, <2>3, AppendProperties
    <2> QED BY <2>4 DEF InInbox
<1>4. Untouched'
    BY <1>1, <1>2, <1>3 DEF AnswerInv, Untouched, TypeInv, GateType
<1>5. Settled'
    <2> SUFFICES ASSUME NEW c \in Chats, callback[c].reply \in {"ok", "err"}
                 PROVE  callback[c].gate \in lost \/ gate'[callback[c].gate] # "pending"
        BY <1>2 DEF Settled
    <2>1. callback[c].gate # h
        BY <1>1 DEF AnswerInv, Untouched
    <2>2. gate'[callback[c].gate] = gate[callback[c].gate]
        BY <1>1, <2>1 DEF TypeInv, GateType, CallbackType
    <2> QED BY <2>2 DEF AnswerInv, Settled
<1>6. Recorded'
    BY <1>1, <1>2 DEF AnswerInv, Untouched, Recorded, TypeInv, GateType
<1> QED BY <1>4, <1>5, <1>6 DEF AnswerInv

LEMMA ReplyStep ==
    ASSUME TypeInv, AnswerInv, NEW c \in Chats, ReplyReceived(c) \/ ReplyLost(c)
    PROVE  AnswerInv'
<1> DEFINE h == callback[c].gate
<1>1. h \in Gates /\ callback[c].decision \in Decisions
    BY DEF ReplyReceived, ReplyLost, TypeInv, CallbackType
<1>2. gate[h] # "unasked"
    BY <1>1 DEF AnswerInv, Untouched
<1>3. UNCHANGED <<posting, approvals, buttons, inbox>>
    BY DEF ReplyReceived, ReplyLost, turnVars, userVars
<1>4. PICK r \in {"ok", "err"} : callback' = [callback EXCEPT ![c].reply = r]
    BY DEF ReplyReceived, ReplyLost
<1>5. \A e \in Chats : callback'[e].gate = callback[e].gate
    BY <1>4 DEF TypeInv, CallbackType, Callbacks
<1>6. \A e \in Chats \ {c} : callback'[e] = callback[e]
    BY <1>4 DEF TypeInv, CallbackType
<1>7. lost \subseteq lost' /\ (h \in lost' \/ gate'[h] # "pending")
    BY <1>1, Bounds DEF ReplyReceived, ReplyLost, boundVars, TypeInv, GateType
<1>8. \A g \in Gates : gate'[g] = gate[g] \/ gate'[g] \notin {"unasked", "pending"}
    BY <1>1, Bounds DEF ReplyReceived, ReplyLost, opencodeVars, TypeInv, GateType
<1> HIDE DEF h
<1>9. Untouched'
    BY <1>3, <1>5, <1>8, SameInbox DEF AnswerInv, Untouched
<1>10. Settled'
    <2> SUFFICES ASSUME NEW e \in Chats, callback'[e].reply \in {"ok", "err"}
                 PROVE  callback'[e].gate \in lost' \/ gate'[callback'[e].gate] # "pending"
        BY DEF Settled
    <2>1. CASE e = c
        BY <1>5, <1>7, <2>1 DEF h
    <2>2. CASE e # c
        <3>1. callback'[e] = callback[e] /\ callback[e].gate \in Gates
            BY <1>6, <2>2 DEF TypeInv, CallbackType
        <3> QED BY <1>7, <1>8, <3>1 DEF AnswerInv, Settled
    <2> QED BY <2>1, <2>2
<1>11. Recorded'
    BY <1>3, <1>7, <1>8 DEF AnswerInv, Recorded
<1> QED BY <1>9, <1>10, <1>11 DEF AnswerInv

LEMMA TapStep ==
    ASSUME TypeInv, AnswerInv,
           NEW c \in Chats, NEW h \in Gates, NEW d \in Decisions, TapForwarded(c, h, d)
    PROVE  AnswerInv'
<1> DEFINE cb == [gate |-> h, decision |-> d, reply |-> "sent"]
<1>1. callback' = [callback EXCEPT ![c] = cb]
    BY DEF TapForwarded, Parsed
<1>2. cb.gate = h /\ cb.reply = "sent"
    OBVIOUS
<1>3. UNCHANGED <<posting, approvals, buttons, inbox, gate, lost>>
    BY DEF TapForwarded, Tap, turnVars, opencodeVars, boundVars
<1>4. gate[h] # "unasked"
    BY DEF TapForwarded, Tap, AnswerInv, Untouched
<1> HIDE DEF cb
<1>5. Untouched'
    BY <1>1, <1>2, <1>3, <1>4, SameInbox DEF AnswerInv, Untouched, TypeInv, CallbackType
<1>6. Settled'
    BY <1>1, <1>2, <1>3 DEF AnswerInv, Settled, TypeInv, CallbackType
<1>7. Recorded'
    BY <1>3 DEF AnswerInv, Recorded
<1> QED BY <1>5, <1>6, <1>7 DEF AnswerInv

LEMMA DoneStep ==
    ASSUME TypeInv, AnswerInv, NEW c \in Chats, CallbackDone(c)
    PROVE  AnswerInv'
<1> DEFINE h == callback[c].gate
<1>1. h \in Gates /\ (h \in lost \/ gate[h] # "pending")
    BY DEF CallbackDone, TypeInv, CallbackType, AnswerInv, Settled
<1>2. UNCHANGED <<posting, inbox, gate, lost>>
    BY DEF CallbackDone, DbRefuses, turnVars, opencodeVars, boundVars
<1>3. \A e \in Chats : callback'[e] \in {callback[e], NoCallback}
    BY DEF CallbackDone, TypeInv, CallbackType
<1>4. approvals' = approvals \/ approvals' = [approvals EXCEPT ![h] = NoChat]
    BY DEF CallbackDone
<1>5. \A g \in Gates : buttons'[g] \subseteq buttons[g]
    BY DEF CallbackDone, TypeInv, GateType
<1> HIDE DEF h
<1>6. Untouched'
    <2> SUFFICES ASSUME NEW g \in Gates, gate[g] = "unasked"
                 PROVE  /\ buttons'[g] = {}
                        /\ \A e \in Chats : posting'[e] # g /\ callback'[e].gate # g
                                              /\ ~InInbox(e, g)'
        BY <1>2 DEF Untouched
    <2>1. buttons'[g] = {}
        BY <1>5 DEF AnswerInv, Untouched
    <2> QED BY <2>1, <1>2, <1>3, SameInbox, Bounds DEF AnswerInv, Untouched, NoCallback
<1>7. Settled'
    BY <1>2, <1>3, NoCallbackFacts DEF AnswerInv, Settled
<1>8. Recorded'
    BY <1>1, <1>2, <1>4, <1>5 DEF AnswerInv, Recorded, TypeInv, GateType
<1> QED BY <1>6, <1>7, <1>8 DEF AnswerInv

LEMMA AnswerStep ==
    ASSUME TypeInv, AskInv', AnswerInv, [Next]_vars
    PROVE  AnswerInv'
<1>1. ASSUME UNCHANGED <<posting, inbox, gate, approvals, buttons, callback, lost>>
      PROVE  AnswerInv'
    BY <1>1, QuietStep, SameInbox DEF Quiet
<1>2. CASE Crash
    <2>1. \A c \in Chats : posting'[c] = NoGate /\ callback'[c] = NoCallback /\ inbox'[c] = << >>
        BY <1>2 DEF Crash
    <2>2. UNCHANGED <<gate, approvals, buttons, lost>>
        BY <1>2 DEF Crash, RowsAfterCrash, userVars
    <2>3. \A c \in Chats, g \in Gates : ~InInbox(c, g)'
        BY <2>1, EmptySeq DEF InInbox
    <2> QED BY <2>1, <2>2, <2>3, QuietStep DEF Quiet
<1>3. ASSUME NEW c \in Chats, TurnEnds(c)
      PROVE  AnswerInv'
    <2>1. \A e \in Chats : inbox'[e] = inbox[e] \/ inbox'[e] = << >>
        BY <1>3 DEF TurnEnds, InboxAfterTurn, TypeInv, TurnType
    <2>2. UNCHANGED <<posting, gate, approvals, buttons, callback, lost>>
        BY <1>3 DEF TurnEnds, opencodeVars, userVars, boundVars
    <2>3. \A e \in Chats, g \in Gates : InInbox(e, g)' => InInbox(e, g)
        BY <2>1, EmptySeq DEF InInbox
    <2> QED BY <2>2, <2>3, QuietStep DEF Quiet
<1>4. ASSUME NEW c \in Chats, HandleStop(c)
      PROVE  AnswerInv'
    <2>1. UNCHANGED <<posting, inbox, approvals, buttons, callback, lost>>
        BY <1>4 DEF HandleStop, turnVars, userVars, boundVars
    <2>2. \A g \in Gates : gate'[g] \in {"dropped", gate[g]}
        BY <1>4 DEF HandleStop
    <2> QED BY <2>1, <2>2, SameInbox, QuietStep DEF Quiet
<1>5. ASSUME NEW c \in Chats,
             \/ StartTurn(c) \/ StreamOpens(c) \/ StreamDrops(c)
             \/ PromptRuns(c) \/ PromptAnswers(c)
             \/ \E g \in Gates, d \in Decisions : TapRefused(c, g, d) \/ TapFailed(c, g, d)
      PROVE  UNCHANGED <<posting, inbox, gate, approvals, buttons, callback, lost>>
    BY <1>5 DEF StartTurn, StreamOpens, StreamDrops, PromptRuns, PromptAnswers, TapRefused,
                TapFailed, Tap, DbRefuses, turnVars, opencodeVars, userVars, boundVars
<1>6. SlotConnects \/ UNCHANGED vars
         => UNCHANGED <<posting, inbox, gate, approvals, buttons, callback, lost>>
    BY DEF SlotConnects, vars, turnVars, opencodeVars, userVars, boundVars
<1> QED BY <1>1, <1>2, <1>3, <1>4, <1>5, <1>6, HandleStep, PostingStep, AskGateStep, ReplyStep,
           TapStep, DoneStep DEF Next

\* Buttons that are shown for a pending gate work, whatever is dropped, restarted or
\* tapped again, unless a reply was lost (permission::prompt, handle_callback).
THEOREM ShownButtonsWork == Spec => []ShownIsAnswerable
<1>1. Init => AnswerInv
    BY EmptySeq, Bounds DEF Init, AnswerInv, Untouched, Settled, Recorded, NoCallback, InInbox
<1>2. TypeInv /\ AskInv' /\ AnswerInv /\ [Next]_vars => AnswerInv'
    BY AnswerStep
<1>3. AnswerInv => ShownIsAnswerable
    BY Bounds DEF AnswerInv, Recorded, ShownIsAnswerable, Answerable, ButtonsShown
<1> QED BY <1>1, <1>2, <1>3, TypesHold, AskHolds, PTL DEF Spec

-----------------------------------------------------------------------------
(* The event stream (EventStream).                                         *)

\* The constants one by one.
LEMMA StreamBounds == MaxEvents \in Nat /\ MaxDrops \in Nat /\ MaxNoise \in Nat
BY StreamAssumption DEF E!BoundsAssumption

\* A turn that has not begun has no stream.
UnpolledInv == turn = "starting" => subscription = "unpolled" /\ wire = <<>> /\ applied = <<>>

\* The last event the turn has dealt with, counted from the opening of the stream.
Reached == since + Len(applied)

\* What an open stream holds: the events behind the last one dealt with, up to the
\* last one emitted, in order.
Ahead ==
    /\ \A e \in (Reached + 1)..Len(emitted) : \E i \in DOMAIN wire : wire[i] = e
    /\ \A i \in DOMAIN wire : wire[i] # 0 => Reached < wire[i]
    /\ \A i, j \in DOMAIN wire : i < j /\ wire[i] # 0 /\ wire[j] # 0 => wire[i] < wire[j]

\* While no connection has failed: what is not open yet has brought nothing, what the
\* turn has dealt with is one run of events from the opening of the stream on, and an
\* open stream goes on where it ends.
WholeInv ==
    /\ wire \in Seq(0..Len(emitted)) /\ applied \in Seq(1..Len(emitted))
    /\ since \in Nat /\ Reached <= Len(emitted)
    /\ subscription \in {"unpolled", "connecting", "open", "closed"}
    /\ subscription \in {"unpolled", "connecting"} => wire = <<>> /\ applied = <<>>
    /\ \A k \in DOMAIN applied : applied[k] = since + k
    /\ subscription = "open" => Ahead

\* The inductive invariant.
StreamInv ==
    /\ broken \in Nat /\ emitted \in Seq(E!Kinds)
    /\ UnpolledInv
    /\ broken = 0 => WholeInv

\* An event that is emitted while the stream is open is its last frame.
LEMMA EmitStep ==
    ASSUME StreamInv, NEW kind \in E!Kinds, E!Emit(kind)
    PROVE  StreamInv'
<1> USE DEF StreamInv
<1> DEFINE n == Len(emitted)
<1>1. /\ n \in Nat /\ emitted' = Append(emitted, kind) /\ emitted' \in Seq(E!Kinds)
      /\ Len(emitted') = n + 1
    BY AppendProperties, LenProperties DEF E!Emit
<1>2. UNCHANGED <<turn, subscription, applied, since, broken>>
      /\ wire' = IF subscription = "open" THEN Append(wire, n + 1) ELSE wire
    BY DEF E!Emit, E!clientVars, E!historyVars
<1>3. UnpolledInv'
    BY <1>2 DEF UnpolledInv
<1>4. ASSUME broken = 0 PROVE WholeInv'
    <2>1. WholeInv
        BY <1>4
    <2>2. applied' \in Seq(1..Len(emitted')) /\ wire \in Seq(0..Len(emitted'))
        <3>1. 1..n \subseteq 1..(n + 1) /\ 0..n \subseteq 0..(n + 1)
            BY <1>1
        <3> QED BY <1>1, <1>2, <2>1, <3>1 DEF WholeInv
    <2>3. Reached' = Reached /\ Reached \in Nat /\ Reached <= n /\ since' \in Nat
          /\ Reached' <= Len(emitted')
        <3>1. Reached' = Reached /\ Reached <= n /\ since' \in Nat
            BY <1>2, <2>1 DEF WholeInv, Reached
        <3>2. Reached \in Nat
            BY <2>1, LenProperties DEF WholeInv, Reached
        <3> QED BY <1>1, <3>1, <3>2
    <2>4. CASE subscription # "open"
        BY <1>1, <1>2, <2>1, <2>2, <2>3, <2>4 DEF WholeInv
    <2>5. CASE subscription = "open"
        <3> DEFINE l == Len(wire)
        <3>1. /\ l \in Nat /\ DOMAIN wire = 1..l /\ wire' \in Seq(0..(n + 1))
              /\ DOMAIN wire' = 1..(l + 1) /\ wire'[l + 1] = n + 1
              /\ \A i \in 1..l : wire'[i] = wire[i]
            BY <1>1, <1>2, <2>1, <2>2, <2>5, AppendProperties, LenProperties
        <3>2. \A i \in 1..l : wire[i] \in 0..n
            BY <2>1, <3>1 DEF WholeInv
        <3>3. Ahead
            BY <2>1, <2>5 DEF WholeInv
        <3> HIDE DEF l
        <3>4. ASSUME NEW e \in (Reached + 1)..(n + 1)
              PROVE  \E i \in DOMAIN wire' : wire'[i] = e
            <4>1. CASE e = n + 1
                BY <3>1, <4>1
            <4>2. CASE e # n + 1
                <5>1. e \in (Reached + 1)..n
                    BY <1>1, <2>3, <4>2
                <5>2. PICK i \in DOMAIN wire : wire[i] = e
                    BY <3>3, <5>1 DEF Ahead
                <5> QED BY <3>1, <5>2
            <4> QED BY <4>1, <4>2
        <3>5. ASSUME NEW i \in DOMAIN wire', wire'[i] # 0 PROVE Reached < wire'[i]
            <4>1. CASE i = l + 1
                BY <1>1, <2>3, <3>1, <4>1
            <4>2. CASE i \in 1..l
                BY <3>1, <3>3, <3>5, <4>2 DEF Ahead
            <4> QED BY <3>1, <4>1, <4>2
        <3>6. ASSUME NEW i \in DOMAIN wire', NEW j \in DOMAIN wire',
                     i < j, wire'[i] # 0, wire'[j] # 0
              PROVE  wire'[i] < wire'[j]
            <4>1. i \in 1..l
                BY <3>1, <3>6
            <4>2. CASE j = l + 1
                BY <1>1, <3>1, <3>2, <4>1, <4>2
            <4>3. CASE j \in 1..l
                BY <3>1, <3>3, <3>6, <4>1, <4>3 DEF Ahead
            <4> QED BY <3>1, <4>2, <4>3
        <3>7. Ahead'
            BY <1>1, <2>3, <3>4, <3>5, <3>6 DEF Ahead
        <3> QED BY <1>1, <1>2, <2>1, <2>2, <2>3, <2>5, <3>1, <3>7 DEF WholeInv
    <2> QED BY <2>4, <2>5
<1> QED BY <1>1, <1>2, <1>3, <1>4

\* The turn takes the first frame of the wire, and drops what it does not understand.
LEMMA ReceiveStep ==
    ASSUME StreamInv, E!Receive
    PROVE  StreamInv'
<1> USE DEF StreamInv
<1> DEFINE n == Len(emitted)
<1>1. /\ UNCHANGED <<turn, emitted, since, broken>> /\ turn = "selecting"
      /\ wire # <<>> /\ wire' = Tail(wire) /\ subscription' = subscription
      /\ subscription # "closed"
      /\ IF wire[1] = 0 THEN applied' = applied ELSE applied' = Append(applied, wire[1])
    BY DEF E!Receive, E!Unread, E!AfterNoise, E!Selects, E!clientVars, E!serverVars
<1>2. ASSUME broken = 0 PROVE WholeInv'
    <2> DEFINE l == Len(wire)
               a == Len(applied)
    <2>1. WholeInv /\ subscription = "open" /\ Ahead /\ n \in Nat
        BY <1>1, <1>2, LenProperties DEF WholeInv
    <2>2. /\ l \in Nat /\ 1 \in DOMAIN wire /\ DOMAIN wire = 1..l
          /\ wire' \in Seq(0..n) /\ DOMAIN wire' = 1..(l - 1)
          /\ \A i \in 1..(l - 1) : wire'[i] = wire[i + 1]
        <3>1. wire \in Seq(0..n) /\ wire # <<>>
            BY <1>1, <2>1 DEF WholeInv
        <3>2. l \in Nat /\ 1 \in DOMAIN wire /\ DOMAIN wire = 1..l
            BY <3>1, LenProperties, EmptySeq
        <3> QED BY <1>1, <3>1, <3>2, HeadTailProperties
    <2>3. /\ a \in Nat /\ since \in Nat /\ Reached = since + a /\ Reached <= n
          /\ DOMAIN applied = 1..a
        BY <2>1, LenProperties DEF WholeInv, Reached
    <2>4. \A i \in 1..l : wire[i] \in 0..n
        BY <2>1, <2>2 DEF WholeInv
    <2> HIDE DEF n, l, a
    <2>5. \A i \in DOMAIN wire' : /\ i \in 1..(l - 1) /\ i + 1 \in DOMAIN wire
                                 /\ wire'[i] = wire[i + 1]
        BY <2>2
    <2>6. \A i, j \in DOMAIN wire' : i < j /\ wire'[i] # 0 /\ wire'[j] # 0 => wire'[i] < wire'[j]
        <3> TAKE i, j \in DOMAIN wire'
        <3>1. i + 1 \in DOMAIN wire /\ j + 1 \in DOMAIN wire /\ (i < j => i + 1 < j + 1)
            BY <2>2, <2>5
        <3> QED BY <2>1, <2>5, <3>1 DEF Ahead
    <2>7. ASSUME NEW e, NEW i \in DOMAIN wire, wire[i] = e, i # 1
          PROVE  \E j \in DOMAIN wire' : wire'[j] = e
        <3>1. i - 1 \in 1..(l - 1) /\ wire'[i - 1] = wire[(i - 1) + 1] /\ (i - 1) + 1 = i
            BY <2>2, <2>7
        <3> QED BY <2>2, <2>7, <3>1
    <2>8. CASE wire[1] = 0
        <3>1. Reached' = Reached /\ Len(emitted') = n
            BY <1>1, <2>8 DEF Reached, n
        <3>2. ASSUME NEW e \in (Reached + 1)..n PROVE \E j \in DOMAIN wire' : wire'[j] = e
            <4>1. PICK i \in DOMAIN wire : wire[i] = e
                BY <2>1 DEF Ahead, n
            <4>2. i # 1
                BY <2>3, <2>8, <4>1
            <4> QED BY <2>7, <4>1, <4>2
        <3>3. \A i \in DOMAIN wire' : wire'[i] # 0 => Reached < wire'[i]
            BY <2>1, <2>5 DEF Ahead
        <3>4. Ahead'
            BY <2>6, <3>1, <3>2, <3>3 DEF Ahead
        <3> QED BY <1>1, <2>1, <2>2, <2>8, <3>1, <3>4 DEF WholeInv, n
    <2>9. CASE wire[1] # 0
        <3>1. wire[1] \in 1..n /\ Reached < wire[1] /\ applied' = Append(applied, wire[1])
            BY <1>1, <2>1, <2>2, <2>4, <2>9 DEF Ahead
        <3>2. wire[1] = Reached + 1
            <4>1. Reached + 1 \in (Reached + 1)..n
                BY <2>1, <2>3, <3>1
            <4>2. PICK i \in DOMAIN wire : wire[i] = Reached + 1
                BY <2>1, <4>1 DEF Ahead, n
            <4>3. wire[i] # 0
                BY <2>3, <4>2
            <4>4. 1 < i => wire[1] < wire[i]
                BY <2>1, <2>2, <2>9, <4>3 DEF Ahead
            <4>5. i = 1 \/ 1 < i
                BY <2>2
            <4>6. wire[1] \in Nat /\ Reached \in Nat
                BY <2>3, <3>1
            <4> QED BY <3>1, <4>2, <4>4, <4>5, <4>6
        <3>3. /\ applied' \in Seq(1..n) /\ Len(applied') = a + 1
              /\ DOMAIN applied' = 1..(a + 1) /\ applied'[a + 1] = wire[1]
              /\ \A k \in 1..a : applied'[k] = applied[k]
            BY <2>1, <3>1, AppendProperties, LenProperties DEF WholeInv, n, a
        <3>4. Reached' = Reached + 1 /\ Len(emitted') = n /\ Reached' <= n
            BY <1>1, <2>1, <2>3, <3>1, <3>2, <3>3 DEF Reached, n
        <3>5. \A k \in DOMAIN applied' : applied'[k] = since' + k
            <4>1. \A k \in 1..a : applied[k] = since + k
                BY <2>1, <2>3 DEF WholeInv
            <4>2. applied'[a + 1] = since + (a + 1)
                BY <2>3, <3>2, <3>3
            <4>3. \A k \in 1..(a + 1) : k \in 1..a \/ k = a + 1
                BY <2>3
            <4> QED BY <1>1, <3>3, <4>1, <4>2, <4>3
        <3>6. ASSUME NEW e \in (Reached' + 1)..n PROVE \E j \in DOMAIN wire' : wire'[j] = e
            <4>1. e \in (Reached + 1)..n /\ e # Reached + 1
                BY <2>1, <2>3, <3>4
            <4>2. PICK i \in DOMAIN wire : wire[i] = e
                BY <2>1, <4>1 DEF Ahead, n
            <4> QED BY <2>7, <3>2, <4>1, <4>2
        <3>7. ASSUME NEW i \in DOMAIN wire', wire'[i] # 0 PROVE Reached' < wire'[i]
            <4>1. wire[1] < wire[i + 1] /\ wire[i + 1] \in 0..n
                <5>1. 1 < i + 1 /\ i + 1 \in DOMAIN wire /\ wire[i + 1] # 0
                    BY <2>2, <2>5, <3>7
                <5> QED BY <2>1, <2>2, <2>4, <2>9, <5>1 DEF Ahead
            <4> QED BY <2>3, <2>5, <3>2, <3>4, <4>1
        <3>8. Ahead'
            BY <2>6, <3>4, <3>6, <3>7 DEF Ahead
        <3> QED BY <1>1, <2>1, <2>2, <2>3, <3>3, <3>4, <3>5, <3>8 DEF WholeInv, n
    <2> QED BY <2>8, <2>9
<1> QED BY <1>1, <1>2 DEF UnpolledInv

\* A failed connection is counted, and every other step takes nothing away.
LEMMA StreamStep ==
    ASSUME StreamInv, [E!Next]_E!vars
    PROVE  StreamInv'
<1> USE DEF StreamInv, E!clientVars, E!serverVars, E!streamVars, E!historyVars
<1>1. CASE \/ E!Begin \/ E!Tap \/ E!Finish \/ E!Stop \/ E!Answer \/ UNCHANGED E!vars
    <2>1. UNCHANGED <<turn, emitted, subscription, wire, applied, since, broken>>
        BY <1>1 DEF E!Begin, E!Tap, E!Finish, E!Stop, E!Answer, E!vars
    <2> QED BY <2>1 DEF UnpolledInv, WholeInv, Ahead, Reached
<1>2. CASE E!Open
    <2>1. /\ UNCHANGED <<turn, emitted, applied, broken>>
          /\ subscription = "connecting" /\ subscription' = "open"
          /\ since' = Len(emitted)
        BY <1>2 DEF E!Open
    <2>2. broken = 0 => wire' = <<0>>
        BY <1>2 DEF E!Open
    <2>3. broken = 0 => applied = <<>>
        BY <2>1 DEF WholeInv
    <2>4. Len(emitted) \in Nat
        BY LenProperties
    <2>5. ASSUME broken = 0 PROVE WholeInv'
        <3>1. /\ wire' = <<0>> /\ applied' = <<>> /\ emitted' = emitted
              /\ subscription' = "open" /\ DOMAIN applied' = {}
            BY <2>1, <2>2, <2>3, <2>5
        <3>2. wire' \in Seq(0..Len(emitted)) /\ applied' \in Seq(1..Len(emitted))
            BY <2>4, <3>1
        <3>3. \A i \in DOMAIN wire' : wire'[i] = 0
            BY <3>1
        <3>4. Reached' = Len(emitted)
            BY <2>1, <2>4, <3>1 DEF Reached
        <3>5. Ahead'
            <4>1. (Len(emitted) + 1)..Len(emitted) = {}
                BY <2>4
            <4> QED BY <3>1, <3>3, <3>4, <4>1 DEF Ahead
        <3> QED BY <2>1, <2>4, <3>1, <3>2, <3>4, <3>5 DEF WholeInv
    <2> QED BY <2>1, <2>5 DEF UnpolledInv
<1>3. CASE E!Drop \/ E!ConnectFails
    <2>1. broken' = broken + 1 /\ UNCHANGED <<turn, emitted>> /\ subscription # "unpolled"
        BY <1>3 DEF E!Drop, E!ConnectFails
    <2> QED BY <2>1 DEF UnpolledInv
<1>4. CASE E!Noise
    <2>1. UNCHANGED <<turn, emitted, subscription, applied, since, broken>>
          /\ wire' = Append(wire, 0) /\ subscription = "open"
        BY <1>4 DEF E!Noise
    <2>2. ASSUME broken = 0 PROVE WholeInv'
        <3> DEFINE n == Len(emitted)
        <3> DEFINE l == Len(wire)
        <3>1. /\ l \in Nat /\ n \in Nat /\ DOMAIN wire = 1..l /\ wire' \in Seq(0..n)
              /\ DOMAIN wire' = 1..(l + 1) /\ wire'[l + 1] = 0
              /\ \A i \in 1..l : wire'[i] = wire[i]
            BY <2>1, <2>2, AppendProperties, LenProperties DEF WholeInv
        <3>2. Reached' = Reached /\ Ahead
            BY <2>1, <2>2 DEF Reached, WholeInv
        <3> HIDE DEF n, l
        <3>3. \A i \in DOMAIN wire' : wire'[i] # 0 => i \in DOMAIN wire /\ wire'[i] = wire[i]
            BY <3>1
        <3>4. \A i \in DOMAIN wire : i \in DOMAIN wire' /\ wire'[i] = wire[i]
            BY <3>1
        <3>5. Ahead'
            <4>1. \A e \in (Reached + 1)..Len(emitted) : \E i \in DOMAIN wire' : wire'[i] = e
                BY <3>2, <3>4 DEF Ahead
            <4>2. \A i \in DOMAIN wire' : wire'[i] # 0 => Reached < wire'[i]
                BY <3>2, <3>3 DEF Ahead
            <4>3. \A i, j \in DOMAIN wire' :
                    i < j /\ wire'[i] # 0 /\ wire'[j] # 0 => wire'[i] < wire'[j]
                BY <3>2, <3>3 DEF Ahead
            <4> QED BY <2>1, <3>2, <4>1, <4>2, <4>3 DEF Ahead
        <3> QED BY <2>1, <2>2, <3>1, <3>2, <3>5 DEF WholeInv, n
    <2> QED BY <2>1, <2>2 DEF UnpolledInv
<1>5. CASE E!FirstPoll
    <2>1. /\ UNCHANGED <<emitted, wire, applied, since, broken>>
          /\ turn = "starting" /\ turn' = "selecting" /\ subscription' = "connecting"
        BY <1>5 DEF E!FirstPoll
    <2> QED BY <2>1 DEF UnpolledInv, WholeInv, Reached
<1>6. CASE E!Reconnect
    <2>1. /\ UNCHANGED <<turn, emitted, wire, applied, since, broken>> /\ turn = "selecting"
          /\ subscription \in {"ended", "delayed"}
        BY <1>6 DEF E!Reconnect, E!Selects
    <2> QED BY <2>1 DEF UnpolledInv, WholeInv
<1>7. CASE E!EndTurn \/ E!PromptFails
    <2>1. /\ UNCHANGED <<emitted, applied, since, broken>> /\ turn' \in {"done", "failed"}
          /\ subscription' = "closed" /\ wire' = <<>>
        BY <1>7 DEF E!EndTurn, E!PromptFails
    <2>2. <<>> \in Seq(0..Len(emitted))
        OBVIOUS
    <2> QED BY <2>1, <2>2 DEF UnpolledInv, WholeInv, Reached
<1> QED BY <1>1, <1>2, <1>3, <1>4, <1>5, <1>6, <1>7, EmitStep, ReceiveStep DEF E!Next

\* Before its first poll, and at rest, a stream is whole.
LEMMA StreamStarts == E!Init \/ StreamRests => StreamInv
<1> SUFFICES ASSUME E!Init \/ StreamRests PROVE StreamInv
    OBVIOUS
<1>1. /\ emitted = <<>> /\ wire = <<>> /\ applied = <<>> /\ since = 0 /\ broken = 0
      /\ subscription \in {"unpolled", "closed"}
      /\ turn = "starting" => subscription = "unpolled"
    BY DEF E!Init, StreamRests
<1>2. /\ wire \in Seq(0..Len(emitted)) /\ applied \in Seq(1..Len(emitted))
      /\ emitted \in Seq(E!Kinds) /\ DOMAIN applied = {} /\ Reached = 0 /\ Len(emitted) = 0
    BY <1>1 DEF Reached
<1>3. WholeInv
    BY <1>1, <1>2 DEF WholeInv
<1> QED BY <1>1, <1>2, <1>3 DEF StreamInv, UnpolledInv

\* The invariant is the property and what it needs to be kept.
LEMMA WholeSkipsNone == StreamInv => NoneIsSkipped
BY DEF StreamInv, WholeInv, Ahead, Reached, NoneIsSkipped, E!NoneIsSkipped

\* While no connection fails, a turn deals with every event from the opening of its
\* stream on, in order and once, and those it has not come to while the stream is open
\* are on it, in order, whatever noise comes between (run_streaming_turn, recv); what
\* was emitted before the opening, and what was unread when the prompt was answered, it
\* misses.
THEOREM BetweenTheEndsNoneIsSkipped == E!Spec => []NoneIsSkipped
<1>1. E!Init => StreamInv
    BY StreamStarts
<1>2. StreamInv /\ [E!Next]_E!vars => StreamInv'
    BY StreamStep
<1> QED BY <1>1, <1>2, WholeSkipsNone, PTL DEF E!Spec

\* The run of the permission relay and the stream is a run of PermissionGate, and its
\* stream, at rest or at work, skips nothing.
THEOREM GateIsComposed == BothSpec => Spec /\ []NoneIsSkipped
<1>1. BothInit => Init /\ StreamInv
    BY StreamStarts DEF BothInit
<1>2. [BothNext]_<<subject, vars, eventVars>> => [Next]_vars /\ [E!Next]_E!vars
    BY DEF BothNext, eventVars, vars, turnVars, opencodeVars, userVars, boundVars,
           E!vars, E!clientVars, E!serverVars, E!streamVars, E!historyVars
<1>3. StreamInv /\ [E!Next]_E!vars => StreamInv'
    BY StreamStep
<1> QED BY <1>1, <1>2, <1>3, WholeSkipsNone, PTL DEF BothSpec, Spec

=============================================================================
