-------------------------- MODULE LiveRenderProofs --------------------------
(***************************************************************************)
(* What the live view promises for any number of parts, deltas and tool    *)
(* calls, whatever frames are lost or come again; and what TurnScope does  *)
(* whatever the sessions, their parent links and the depth cap.            *)
(***************************************************************************)
EXTENDS RenderAndScope, FiniteSetTheorems, SequenceTheorems, WellFoundedInduction, TLAPS

\* The constants one by one.
LEMMA Bounds == MaxDeltas \in Nat /\ IsFiniteSet(Calls) /\ NoCall \notin Calls
BY BoundsAssumption, NullsAssumption

-----------------------------------------------------------------------------
(* The steps: those that are about text and those that are about tools.    *)

\* A tool frame arrives, for the first time or again.
Arrives(c, status) ==
    /\ seen' = [seen EXCEPT ![c] = @ \cup {status}]
    /\ ApplyTool(c, status)
    /\ UNCHANGED <<verbosity, kind, textVars>>

ToolsRest == UNCHANGED <<verbosity, kind, seen, toolVars>>

\* Every step leaves the tools alone or is the arrival of a tool frame, and then the
\* text is left alone.
LEMMA ToolSteps ==
    ASSUME [Next]_vars
    PROVE  ToolsRest \/ \E c \in Calls, s \in Statuses : Arrives(c, s)
<1> USE DEF vars, opencodeVars, historyVars, ToolsRest
<1>1. CASE UNCHANGED vars
    BY <1>1
<1>2. ASSUME NEW p \in Parts, StreamDelta(p) \/ MissDelta(p) \/ StreamPart(p)
      PROVE  ToolsRest
    BY <1>2 DEF StreamDelta, MissDelta, StreamPart
<1>3. ASSUME NEW c \in Calls, NEW s \in Statuses, StreamTool(c, s) \/ ReplayTool(c, s)
      PROVE  Arrives(c, s)
    BY <1>3 DEF StreamTool, ReplayTool, Arrives
<1>4. ASSUME NEW c \in Calls, NEW s \in Statuses, MissTool(c, s)
      PROVE  ToolsRest
    BY <1>4 DEF MissTool
<1> QED BY <1>1, <1>2, <1>3, <1>4 DEF Next

-----------------------------------------------------------------------------
(* Types.                                                                  *)

Routers == [answer : SUBSET Parts, reasoning : SUBSET Parts,
            pending : [Parts -> Seq(1..MaxDeltas)]]

TextType ==
    /\ kind \in [Parts -> {"text", "reasoning"}]
    /\ streamed \in [Parts -> 0..MaxDeltas]
    /\ received \in [Parts -> Seq(1..MaxDeltas)]
    /\ known \subseteq Parts
    /\ router \in Routers
    /\ answer \in Seq(Tokens)

Lines == [call : Calls \cup {NoCall}, status : Statuses \cup {"narration"}, upto : Nat]

ToolType ==
    /\ verbosity \in {"quiet", "normal", "verbose"}
    /\ reached \in [Calls -> SUBSET Statuses]
    /\ seen \in [Calls -> SUBSET Statuses]
    /\ log \in Seq(Lines)
    /\ counted \subseteq Calls
    /\ tally \in [Tools -> Nat]
    /\ failures \subseteq Tools

MarkType == mark \in 0..Len(answer)

TypeInv == TextType /\ ToolType /\ MarkType

\* Tagging numbers with their part makes tokens of them.
LEMMA TaggedType ==
    ASSUME NEW p \in Parts, NEW nrs \in Seq(1..MaxDeltas)
    PROVE  Tagged(p, nrs) \in Seq(Tokens)
<1>1. Len(nrs) \in Nat /\ \A i \in 1..Len(nrs) : nrs[i] \in 1..MaxDeltas
    BY ElementOfSeq, LenProperties
<1>2. \A i \in 1..Len(nrs) : [part |-> p, nr |-> nrs[i]] \in Tokens
    BY <1>1 DEF Tokens
<1> QED BY <1>1, <1>2 DEF Tagged

\* Every step keeps the types of the text, and only adds to the answer.
LEMMA TextTypeStep ==
    ASSUME TextType, [Next]_vars
    PROVE  TextType' /\ Len(answer) <= Len(answer')
<1> USE Bounds DEF TextType
<1>1. CASE UNCHANGED <<opencodeVars, received, known, textVars>>
    BY <1>1 DEF opencodeVars, textVars
<1>2. CASE UNCHANGED <<kind, streamed, received, known, textVars>>
    BY <1>2 DEF textVars
<1>3. ASSUME NEW p \in Parts, StreamDelta(p) PROVE TextType' /\ Len(answer) <= Len(answer')
  <2>1. /\ streamed[p] + 1 \in 1..MaxDeltas
        /\ kind' = kind /\ known' = known
        /\ streamed' = [streamed EXCEPT ![p] = @ + 1]
        /\ received' = [received EXCEPT ![p] = Append(@, streamed[p] + 1)]
        /\ RouteDelta(p, streamed[p] + 1)
      BY <1>3 DEF StreamDelta
  <2>2. streamed' \in [Parts -> 0..MaxDeltas]
      BY <2>1
  <2>3. received' \in [Parts -> Seq(1..MaxDeltas)]
      BY <2>1
  <2>4. CASE UNCHANGED textVars
      BY <2>1, <2>2, <2>3, <2>4 DEF textVars
  <2>5. CASE /\ answer' = Append(answer, [part |-> p, nr |-> streamed[p] + 1])
             /\ router' = router
    <3>1. [part |-> p, nr |-> streamed[p] + 1] \in Tokens
        BY <2>1 DEF Tokens
    <3>2. answer' \in Seq(Tokens) /\ Len(answer) <= Len(answer')
        BY <3>1, <2>5
    <3> QED BY <2>1, <2>2, <2>3, <2>5, <3>2
  <2>6. CASE /\ router' = [router EXCEPT !.pending[p] = Append(@, streamed[p] + 1)]
             /\ answer' = answer
    <3>1. Append(router.pending[p], streamed[p] + 1) \in Seq(1..MaxDeltas)
        BY <2>1 DEF Routers
    <3>2. router' \in Routers
        BY <3>1, <2>6 DEF Routers
    <3>3. Len(answer) \in Nat
        OBVIOUS
    <3> QED BY <2>1, <2>2, <2>3, <2>6, <3>2, <3>3
  <2> QED BY <2>1, <2>4, <2>5, <2>6 DEF RouteDelta
<1>4. ASSUME NEW p \in Parts, MissDelta(p) PROVE TextType' /\ Len(answer) <= Len(answer')
    BY <1>4 DEF MissDelta, historyVars, textVars
<1>5. ASSUME NEW p \in Parts, StreamPart(p) PROVE TextType' /\ Len(answer) <= Len(answer')
  <2>1. /\ kind' = kind /\ streamed' = streamed /\ received' = received
        /\ known' \subseteq Parts
      BY <1>5 DEF StreamPart, opencodeVars
  <2>2. router' \in Routers
    <3>1. << >> \in Seq(1..MaxDeltas)
        OBVIOUS
    <3>2. CASE router' = [router EXCEPT !.answer = @ \cup {p}, !.pending[p] = << >>]
        BY <3>1, <3>2 DEF Routers
    <3>3. CASE router' = [router EXCEPT !.reasoning = @ \cup {p}, !.pending[p] = << >>]
        BY <3>1, <3>3 DEF Routers
    <3> QED BY <1>5, <3>2, <3>3 DEF StreamPart
  <2>3. Tagged(p, Released(p)) \in Seq(Tokens)
      BY TaggedType DEF Released, Routers
  <2>4. answer' \in Seq(Tokens) /\ Len(answer) <= Len(answer')
    <3>1. CASE answer' = answer \o Tagged(p, Released(p))
        BY <2>3, <3>1
    <3>2. CASE answer' = answer
        BY <3>2
    <3> QED BY <1>5, <3>1, <3>2 DEF StreamPart
  <2> QED BY <2>1, <2>2, <2>4
<1>6. ASSUME NEW c \in Calls, NEW s \in Statuses, StreamTool(c, s) \/ MissTool(c, s)
      PROVE  UNCHANGED <<kind, streamed, received, known, textVars>>
    BY <1>6 DEF StreamTool, MissTool, historyVars
<1>7. ASSUME NEW c \in Calls, NEW s \in Statuses, ReplayTool(c, s)
      PROVE  UNCHANGED <<opencodeVars, received, known, textVars>>
    BY <1>7 DEF ReplayTool
<1>8. CASE UNCHANGED vars
    BY <1>8 DEF vars, opencodeVars, historyVars, textVars
<1> QED BY <1>1, <1>2, <1>3, <1>4, <1>5, <1>6, <1>7, <1>8 DEF Next

\* Every step keeps the types of the tools.
LEMMA ToolTypeStep ==
    ASSUME ToolType, TextType, MarkType, [Next]_vars
    PROVE  ToolType'
<1> USE DEF ToolType
<1>1. reached' \in [Calls -> SUBSET Statuses]
  <2>1. CASE reached' = reached
      BY <2>1
  <2>2. ASSUME NEW c \in Calls, NEW s \in Statuses, Advances(c, s)
        PROVE  reached' \in [Calls -> SUBSET Statuses]
      BY <2>2 DEF Advances
  <2> QED BY <2>1, <2>2
          DEF Next, vars, opencodeVars, StreamDelta, MissDelta, StreamPart, StreamTool, MissTool,
              ReplayTool
<1>2. CASE ToolsRest
    BY <1>1, <1>2 DEF ToolsRest, toolVars
<1>3. ASSUME NEW c \in Calls, NEW s \in Statuses, Arrives(c, s) PROVE ToolType'
  <2>1. verbosity' = verbosity /\ seen' \in [Calls -> SUBSET Statuses]
      BY <1>3 DEF Arrives
  <2>2. log' \in Seq(Lines)
    <3>1. ToolLine(c, s) \in Lines
        BY DEF ToolLine, Lines
    <3>2. CASE log' = [i \in 1..Len(log) |->
                          IF i \in LineOf(c) THEN ToolLine(c, StatusAfter(log[i].status, s))
                          ELSE log[i]]
      <4>1. ASSUME NEW i \in 1..Len(log)
            PROVE  (IF i \in LineOf(c) THEN ToolLine(c, StatusAfter(log[i].status, s))
                    ELSE log[i]) \in Lines
        <5>1. log[i] \in Lines
            OBVIOUS
        <5>2. StatusAfter(log[i].status, s) \in Statuses \cup {"narration"}
            BY <5>1 DEF StatusAfter, Lines
        <5>3. ToolLine(c, StatusAfter(log[i].status, s)) \in Lines
            BY <5>2 DEF ToolLine, Lines
        <5> QED BY <5>1, <5>3
      <4> HIDE DEF ToolType
      <4> QED BY <3>2, <4>1, Len(log) \in Nat DEF ToolType
    <3>3. CASE log' = Append(Echoed, ToolLine(c, s))
      <4>1. Narration(Len(answer)) \in Lines
          BY DEF Narration, Lines, TextType
      <4>2. Echoed \in Seq(Lines)
          BY <4>1 DEF Echoed
      <4> QED BY <3>1, <3>3, <4>2
    <3> QED BY <1>3, <3>2, <3>3 DEF Arrives, ApplyTool, UpsertTool
  <2>3. counted' \subseteq Calls
      BY <1>3 DEF Arrives, ApplyTool
  <2>4. tally' \in [Tools -> Nat]
    <3>1. Tool[c] \in Tools
        BY ToolAssumption
    <3>2. CASE tally' = [tally EXCEPT ![Tool[c]] = @ + 1]
        BY <3>1, <3>2
    <3>3. CASE tally' = tally
        BY <3>3
    <3> QED BY <1>3, <3>2, <3>3 DEF Arrives, ApplyTool
  <2>5. failures' \subseteq Tools
      BY <1>3, ToolAssumption DEF Arrives, ApplyTool
  <2> QED BY <1>1, <2>1, <2>2, <2>3, <2>4, <2>5
<1> QED BY <1>2, <1>3, ToolSteps

\* The mark stays within the answer.
LEMMA MarkTypeStep ==
    ASSUME TextType, MarkType, [Next]_vars
    PROVE  MarkType'
<1>1. TextType' /\ Len(answer) <= Len(answer') /\ Len(answer) \in Nat /\ Len(answer') \in Nat
    BY TextTypeStep DEF TextType
<1>2. CASE mark' = mark
    BY <1>1, <1>2 DEF MarkType
<1>3. ASSUME NEW c \in Calls, NEW s \in Statuses, Arrives(c, s) PROVE MarkType'
  <2>1. mark' = mark \/ mark' = Len(answer)
      BY <1>3 DEF Arrives, ApplyTool, UpsertTool, MarkAfterEcho
  <2> QED BY <1>1, <2>1 DEF MarkType
<1> QED BY <1>2, <1>3, ToolSteps DEF ToolsRest, toolVars

\* The types are invariant.
LEMMA TypesHold == Spec => []TypeInv
<1>1. Init => TypeInv
  <2> SUFFICES ASSUME Init PROVE TypeInv
      OBVIOUS
  <2> USE DEF Init
  <2>1. TextType
      BY Bounds DEF TextType, Routers
  <2>2. ToolType
      BY DEF ToolType
  <2>3. MarkType
      BY DEF MarkType
  <2> QED BY <2>1, <2>2, <2>3 DEF TypeInv
<1>2. TypeInv /\ [Next]_vars => TypeInv'
    BY TextTypeStep, ToolTypeStep, MarkTypeStep DEF TypeInv
<1> QED BY <1>1, <1>2, PTL DEF Spec

-----------------------------------------------------------------------------
(* Text.                                                                   *)

\* What is released or shown is of a part that was proven to be text.
ProvenIsText == \A p \in router.answer : kind[p] = "text"

HiddenInv == ProvenIsText /\ ReasoningStaysHidden

\* An element of a concatenation is an element of one of its parts.
LEMMA ConcatElements ==
    ASSUME NEW S, NEW s \in Seq(S), NEW u \in Seq(S), NEW i \in 1..Len(s \o u)
    PROVE  \/ i \in 1..Len(s) /\ (s \o u)[i] = s[i]
           \/ i - Len(s) \in 1..Len(u) /\ (s \o u)[i] = u[i - Len(s)]
  BY ConcatProperties, LenProperties

\* Every step keeps reasoning out of the answer.
LEMMA HiddenStep ==
    ASSUME TextType, HiddenInv, [Next]_vars
    PROVE  HiddenInv'
<1> USE DEF HiddenInv, ProvenIsText, ReasoningStaysHidden
<1>1. router \in Routers /\ answer \in Seq(Tokens) /\ Len(answer) \in Nat
    BY LenProperties DEF TextType
<1>2. CASE UNCHANGED <<kind, textVars>>
    BY <1>2 DEF textVars
<1>3. ASSUME NEW p \in Parts, StreamDelta(p) PROVE HiddenInv'
  <2>1. kind' = kind /\ RouteDelta(p, streamed[p] + 1)
      BY <1>3 DEF StreamDelta
  <2>2. CASE UNCHANGED textVars
      BY <2>1, <2>2, <1>2
  <2>3. CASE ShownAtOnce(p) /\ answer' = Append(answer, [part |-> p, nr |-> streamed[p] + 1])
                            /\ router' = router
    <3>1. [part |-> p, nr |-> streamed[p] + 1] \in Tokens
        BY <1>3, Bounds DEF StreamDelta, Tokens, TextType
    <3>2. \A i \in 1..Len(answer') : \/ i \in 1..Len(answer) /\ answer'[i] = answer[i]
                                     \/ answer'[i].part = p
        BY <1>1, <2>3, <3>1
    <3>3. kind[p] = "text"
        BY <2>3 DEF ShownAtOnce
    <3> QED BY <2>1, <2>3, <3>2, <3>3
  <2>4. CASE /\ router' = [router EXCEPT !.pending[p] = Append(@, streamed[p] + 1)]
             /\ answer' = answer
    <3>1. router'.answer = router.answer
        BY <1>1, <2>4 DEF Routers
    <3> QED BY <2>1, <2>4, <3>1
  <2> QED BY <2>1, <2>2, <2>3, <2>4 DEF RouteDelta
<1>4. ASSUME NEW p \in Parts, StreamPart(p) PROVE HiddenInv'
  <2>1. kind' = kind
      BY <1>4 DEF StreamPart, opencodeVars
  <2>2. CASE /\ kind[p] = "text"
             /\ router' = [router EXCEPT !.answer = @ \cup {p}, !.pending[p] = << >>]
             /\ answer' = answer \o Tagged(p, Released(p))
    <3>1. router'.answer = router.answer \cup {p}
        BY <1>1, <2>2 DEF Routers
    <3>2. Released(p) \in Seq(1..MaxDeltas)
        BY <1>1 DEF Released, Routers
    <3>3. /\ Tagged(p, Released(p)) \in Seq(Tokens)
          /\ \A i \in 1..Len(Tagged(p, Released(p))) : Tagged(p, Released(p))[i].part = p
        BY <3>2, TaggedType, LenProperties DEF Tagged
    <3>4. \A i \in 1..Len(answer') : \/ i \in 1..Len(answer) /\ answer'[i] = answer[i]
                                     \/ answer'[i].part = p
        BY <1>1, <2>2, <3>3, ConcatElements
    <3> QED BY <2>1, <2>2, <3>1, <3>4
  <2>3. CASE /\ router' = [router EXCEPT !.reasoning = @ \cup {p}, !.pending[p] = << >>]
             /\ answer' = answer
    <3>1. router'.answer = router.answer
        BY <1>1, <2>3 DEF Routers
    <3> QED BY <2>1, <2>3, <3>1
  <2> QED BY <1>4, <2>2, <2>3 DEF StreamPart
<1>5. ASSUME NEW p \in Parts, MissDelta(p) PROVE UNCHANGED <<kind, textVars>>
    BY <1>5 DEF MissDelta
<1>6. ASSUME NEW c \in Calls, NEW s \in Statuses,
             StreamTool(c, s) \/ MissTool(c, s) \/ ReplayTool(c, s)
      PROVE  UNCHANGED <<kind, textVars>>
    BY <1>6 DEF StreamTool, MissTool, ReplayTool, opencodeVars
<1>7. CASE UNCHANGED vars
    BY <1>7, <1>2 DEF vars, opencodeVars
<1> QED BY <1>2, <1>3, <1>4, <1>5, <1>6, <1>7 DEF Next

\* No reasoning is ever shown, in whichever order deltas and part frames come
\* (stream.rs:144-159).
THEOREM NoReasoningIsShown == Spec => []ReasoningStaysHidden
<1>1. Init => HiddenInv
    BY DEF Init, HiddenInv, ProvenIsText, ReasoningStaysHidden
<1>2. TypeInv /\ HiddenInv /\ [Next]_vars => HiddenInv'
    BY HiddenStep DEF TypeInv
<1>3. HiddenInv => ReasoningStaysHidden
    BY DEF HiddenInv
<1> QED BY <1>1, <1>2, <1>3, TypesHold, PTL DEF Spec

-----------------------------------------------------------------------------
(* Tallies and failures.                                                   *)

CountedOf(t) == {c \in counted : Tool[c] = t}

Finished == {c \in Calls : seen[c] \cap Terminal # {}}

TallyInv ==
    /\ counted = Finished
    /\ \A t \in Tools : tally[t] = Cardinality(CountedOf(t))

\* Every step keeps the tallies true.
LEMMA TallyStep ==
    ASSUME ToolType, TallyInv, [Next]_vars
    PROVE  TallyInv'
<1> USE DEF TallyInv, CountedOf
<1>1. CASE ToolsRest
    BY <1>1 DEF ToolsRest, toolVars, Finished
<1>2. ASSUME NEW c \in Calls, NEW s \in Statuses, Arrives(c, s) PROVE TallyInv'
  <2>1. \A d \in Calls : seen'[d] = IF d = c THEN seen[c] \cup {s} ELSE seen[d]
      BY <1>2 DEF Arrives, ToolType
  <2>2. Finished' = IF s \in Terminal THEN Finished \cup {c} ELSE Finished
      BY <2>1 DEF Finished
  <2>3. CASE Counts(c, s)
    <3>1. /\ s \in Terminal /\ c \notin counted
          /\ counted' = counted \cup {c}
          /\ tally' = [tally EXCEPT ![Tool[c]] = @ + 1]
        BY <1>2, <2>3 DEF Arrives, ApplyTool, Counts, Terminal
    <3>2. counted' = Finished'
        BY <2>2, <3>1
    <3>3. ASSUME NEW t \in Tools PROVE tally'[t] = Cardinality(CountedOf(t)')
      <4>1. tally'[t] = IF t = Tool[c] THEN tally[t] + 1 ELSE tally[t]
          BY <3>1, ToolAssumption DEF ToolType
      <4>2. CountedOf(t) \subseteq Calls /\ IsFiniteSet(CountedOf(t))
          BY Bounds, FS_Subset DEF ToolType
      <4>3. CASE t = Tool[c]
        <5>1. CountedOf(t)' = CountedOf(t) \cup {c} /\ c \notin CountedOf(t)
            BY <3>1, <4>3
        <5>2. Cardinality(CountedOf(t)') = Cardinality(CountedOf(t)) + 1
            BY <4>2, <5>1, FS_AddElement
        <5> QED BY <4>1, <4>3, <5>2
      <4>4. CASE t # Tool[c]
        <5>1. CountedOf(t)' = CountedOf(t)
            BY <3>1, <4>4
        <5> QED BY <4>1, <4>4, <5>1
      <4> QED BY <4>3, <4>4
    <3> QED BY <3>2, <3>3
  <2>4. CASE ~Counts(c, s)
    <3>1. counted' = counted /\ tally' = tally
        BY <1>2, <2>4 DEF Arrives, ApplyTool
    <3>2. s \in Terminal => c \in counted
        BY <2>4 DEF Counts, Terminal
    <3> QED BY <2>2, <3>1, <3>2
  <2> QED BY <2>3, <2>4
<1> QED BY <1>1, <1>2, ToolSteps

\* The tallies are invariant.
LEMMA TalliesHold == Spec => []TallyInv
<1>1. Init => TallyInv
  <2> SUFFICES ASSUME Init PROVE TallyInv
      OBVIOUS
  <2>1. counted = {} /\ Finished = {}
      BY DEF Init, Finished
  <2>2. \A t \in Tools : CountedOf(t) = {} /\ tally[t] = 0
      BY <2>1 DEF Init, CountedOf
  <2> QED BY <2>1, <2>2, FS_EmptySet DEF TallyInv
<1>2. TypeInv /\ TallyInv /\ [Next]_vars => TallyInv'
    BY TallyStep DEF TypeInv
<1> QED BY <1>1, <1>2, TypesHold, PTL DEF Spec

\* The footer counts every finished call once, whatever comes again (render.rs:275-289).
THEOREM FooterIsTrue == Spec => []TalliesAreTrue
<1>1. TypeInv /\ TallyInv => TalliesAreTrue
  <2> SUFFICES ASSUME TypeInv, TallyInv, NEW t \in Tools
               PROVE  tally[t] = Cardinality({c \in Calls : Tool[c] = t /\ seen[c] \cap Terminal # {}})
      BY DEF TalliesAreTrue
  <2>1. CountedOf(t) = {c \in Calls : Tool[c] = t /\ seen[c] \cap Terminal # {}}
      BY DEF TallyInv, CountedOf, Finished
  <2> QED BY <2>1 DEF TallyInv
<1> QED BY <1>1, TypesHold, TalliesHold, PTL

\* Every variable keeps its type, and no more calls of a tool are tallied than there are.
THEOREM TypeCorrect == Spec => []TypeOK
<1>1. TypeInv /\ TallyInv => TypeOK
  <2> SUFFICES ASSUME TypeInv, TallyInv PROVE TypeOK
      OBVIOUS
  <2>1. ASSUME NEW t \in Tools PROVE tally[t] \in 0..Cardinality(Calls)
    <3>1. CountedOf(t) \subseteq Calls
        BY DEF TypeInv, ToolType, CountedOf
    <3>2. /\ Cardinality(CountedOf(t)) <= Cardinality(Calls)
          /\ IsFiniteSet(CountedOf(t))
        BY <3>1, Bounds, FS_Subset
    <3>3. Cardinality(CountedOf(t)) \in Nat /\ Cardinality(Calls) \in Nat
        BY <3>2, Bounds, FS_CardinalityType
    <3> QED BY <3>2, <3>3 DEF TallyInv
  <2>2. tally \in [Tools -> 0..Cardinality(Calls)]
      BY <2>1 DEF TypeInv, ToolType
  <2> HIDE DEF Statuses
  <2> QED BY <2>2 DEF TypeInv, TextType, ToolType, MarkType, TypeOK, Routers, Lines
<1> QED BY <1>1, TypesHold, TalliesHold, PTL

\* "Tool failures are always shown at every level" (render.rs:36): a failure that has
\* arrived is told, and no other.
THEOREM EveryFailureIsTold == Spec => []FailuresAreTold
<1>1. Init => FailuresAreTold
    BY DEF Init, FailuresAreTold
<1>2. TypeInv /\ FailuresAreTold /\ [Next]_vars => FailuresAreTold'
  <2> SUFFICES ASSUME TypeInv, FailuresAreTold, [Next]_vars PROVE FailuresAreTold'
      OBVIOUS
  <2> USE DEF FailuresAreTold
  <2>1. CASE ToolsRest
      BY <2>1 DEF ToolsRest, toolVars
  <2>2. ASSUME NEW c \in Calls, NEW s \in Statuses, Arrives(c, s) PROVE FailuresAreTold'
    <3>1. \A d \in Calls : seen'[d] = IF d = c THEN seen[c] \cup {s} ELSE seen[d]
        BY <2>2 DEF Arrives, TypeInv, ToolType
    <3>2. failures' = IF s = "error" THEN failures \cup {Tool[c]} ELSE failures
        BY <2>2 DEF Arrives, ApplyTool, FailureTold
    <3> QED BY <3>1, <3>2
  <2> QED BY <2>1, <2>2, ToolSteps
<1> QED BY <1>1, <1>2, TypesHold, PTL DEF Spec

-----------------------------------------------------------------------------
(* The log.                                                                *)

OneLine ==
    \A c \in Calls : IF seen[c] = {} THEN LineOf(c) = {}
                                     ELSE \E i \in 1..Len(log) : LineOf(c) = {i}

Current(c, i) ==
    /\ log[i].status \in seen[c]
    /\ seen[c] \cap Terminal # {} => log[i].status \in Terminal

LineInv == OneLine /\ \A c \in Calls : \A i \in LineOf(c) : Current(c, i)

\* An echo adds a line at the end at most, which is of no call.
LEMMA EchoedFacts ==
    ASSUME TextType, ToolType
    PROVE  /\ Echoed \in Seq(Lines)
           /\ Len(log) <= Len(Echoed)
           /\ \A i \in 1..Len(log) : Echoed[i] = log[i]
           /\ \A i \in 1..Len(Echoed) : i \notin 1..Len(log) => Echoed[i].call = NoCall
<1>1. log \in Seq(Lines) /\ Len(log) \in Nat
    BY LenProperties DEF ToolType
<1>2. Narration(Len(answer)) \in Lines /\ Narration(Len(answer)).call = NoCall
    BY LenProperties DEF Narration, Lines, TextType
<1>3. CASE Echoed = log
    BY <1>1, <1>3
<1>4. CASE Echoed = Append(log, Narration(Len(answer)))
    BY <1>1, <1>2, <1>4, AppendProperties
<1> QED BY <1>3, <1>4 DEF Echoed

\* The line of a call that has one is brought up to date, and no other line changes.
LEMMA UpdateKeepsLines ==
    ASSUME ToolType, NEW c \in Calls, NEW s \in Statuses, LineInv,
           Arrives(c, s), LineOf(c) # {}
    PROVE  LineInv'
<1>1. log \in Seq(Lines) /\ Len(log) \in Nat
    BY LenProperties DEF ToolType
<1>2. log' = [i \in 1..Len(log) |-> IF i \in LineOf(c)
                                    THEN ToolLine(c, StatusAfter(log[i].status, s))
                                    ELSE log[i]]
    BY DEF Arrives, ApplyTool, UpsertTool
<1>3. \A d \in Calls : seen'[d] = IF d = c THEN seen[c] \cup {s} ELSE seen[d]
    BY DEF Arrives, ToolType
<1>4. Len(log') = Len(log)
    BY <1>1, <1>2
<1>5. \A i \in 1..Len(log) : log'[i].call = log[i].call
    BY <1>2 DEF LineOf, ToolLine
<1>6. \A d \in Calls : LineOf(d)' = LineOf(d)
    BY <1>4, <1>5 DEF LineOf
<1>7. seen[c] # {}
    BY DEF LineInv, OneLine
<1>8. OneLine'
    BY <1>3, <1>4, <1>6, <1>7 DEF LineInv, OneLine
<1>9. ASSUME NEW d \in Calls, NEW i \in LineOf(d) PROVE Current(d, i)'
  <2>1. i \in 1..Len(log) /\ Current(d, i)
      BY <1>9 DEF LineOf, LineInv
  <2>2. CASE d = c
    <3>1. log'[i].status = StatusAfter(log[i].status, s)
        BY <1>2, <2>1, <1>9, <2>2 DEF ToolLine
    <3>2. seen[c] \subseteq Statuses
        BY DEF ToolType
    <3> QED BY <1>3, <2>1, <2>2, <3>1, <3>2 DEF Current, StatusAfter, Statuses, Terminal
  <2>3. CASE d # c
    <3>1. log'[i] = log[i]
        BY <1>2, <1>9, <2>1, <2>3 DEF LineOf
    <3> QED BY <1>3, <2>1, <2>3, <3>1 DEF Current
  <2> QED BY <2>2, <2>3
<1> QED BY <1>6, <1>8, <1>9 DEF LineInv

\* A call that has no line gets one at the end.
LEMMA NewLine ==
    ASSUME TextType, ToolType, NEW c \in Calls, NEW s \in Statuses, LineInv,
           Arrives(c, s), LineOf(c) = {}
    PROVE  LineInv'
<1> DEFINE n == Len(Echoed) + 1
<1>1. /\ log \in Seq(Lines) /\ Len(log) \in Nat
      /\ Echoed \in Seq(Lines) /\ Len(Echoed) \in Nat /\ Len(log) <= Len(Echoed)
    BY EchoedFacts, LenProperties DEF ToolType
<1>2. log' = Append(Echoed, ToolLine(c, s))
    BY DEF Arrives, ApplyTool, UpsertTool
<1>3. \A d \in Calls : seen'[d] = IF d = c THEN seen[c] \cup {s} ELSE seen[d]
    BY DEF Arrives, ToolType
<1>4. ToolLine(c, s) \in Lines
    BY DEF ToolLine, Lines
<1>5. /\ Len(log') = n
      /\ \A i \in 1..Len(Echoed) : log'[i] = Echoed[i]
      /\ log'[n] = ToolLine(c, s)
    BY <1>1, <1>2, <1>4, AppendProperties
<1>6. \A i \in 1..Len(log) : log'[i] = log[i]
    BY <1>1, <1>5, EchoedFacts
<1>7. \A i \in 1..n : i \notin 1..Len(log) /\ i # n => log'[i].call = NoCall
    BY <1>1, <1>5, EchoedFacts
<1>8. seen[c] = {}
    BY DEF LineInv, OneLine
<1>9. LineOf(c)' = {n}
  <2>1. \A i \in 1..Len(log) : log'[i].call # c
      BY <1>6 DEF LineOf
  <2>2. log'[n].call = c /\ n \in 1..n
      BY <1>1, <1>5 DEF ToolLine
  <2>3. \A i \in 1..n : log'[i].call = c <=> i = n
      BY <1>7, <2>1, <2>2, Bounds
  <2> QED BY <1>5, <2>2, <2>3 DEF LineOf
<1>10. ASSUME NEW d \in Calls, d # c PROVE LineOf(d)' = LineOf(d)
  <2>1. log'[n].call # d
      BY <1>5, <1>10 DEF ToolLine
  <2>2. \A i \in 1..n : log'[i].call = d <=> i \in 1..Len(log) /\ log[i].call = d
      BY <1>6, <1>7, <1>10, <2>1, Bounds
  <2>3. 1..Len(log) \subseteq 1..n
      BY <1>1
  <2> HIDE DEF n
  <2> QED BY <1>5, <2>2, <2>3 DEF LineOf
<1>11. OneLine'
  <2>1. 1..Len(log) \subseteq 1..Len(log') /\ n \in 1..Len(log')
      BY <1>1, <1>5
  <2> HIDE DEF n
  <2> QED BY <1>3, <1>9, <1>10, <2>1 DEF LineInv, OneLine
<1>12. ASSUME NEW d \in Calls, NEW i \in LineOf(d)' PROVE Current(d, i)'
  <2>1. CASE d = c
    <3>1. log'[i].status = s /\ seen'[d] = {s}
        BY <1>3, <1>5, <1>8, <1>9, <1>12, <2>1 DEF ToolLine
    <3> QED BY <3>1 DEF Current
  <2>2. CASE d # c
    <3>1. i \in LineOf(d) /\ i \in 1..Len(log)
        BY <1>10, <1>12, <2>2 DEF LineOf
    <3>2. log'[i] = log[i] /\ seen'[d] = seen[d]
        BY <1>3, <1>6, <2>2, <3>1
    <3> QED BY <3>1, <3>2 DEF LineInv, Current
  <2> QED BY <2>1, <2>2
<1> QED BY <1>11, <1>12 DEF LineInv

\* The log has one line for each call of which a frame has arrived, and it says what is
\* known of it (render.rs:212-257).
THEOREM LogIsCurrent == Spec => []LinesAreCurrent
<1>1. Init => LineInv
    BY DEF Init, LineInv, OneLine, LineOf
<1>2. TypeInv /\ LineInv /\ [Next]_vars => LineInv'
  <2> SUFFICES ASSUME TypeInv, LineInv, [Next]_vars PROVE LineInv'
      OBVIOUS
  <2>1. CASE ToolsRest
      BY <2>1 DEF ToolsRest, toolVars, LineInv, OneLine, LineOf, Current
  <2>2. ASSUME NEW c \in Calls, NEW s \in Statuses, Arrives(c, s) PROVE LineInv'
      BY <2>2, UpdateKeepsLines, NewLine DEF TypeInv
  <2> QED BY <2>1, <2>2, ToolSteps
<1>3. LineInv => LinesAreCurrent
  <2> SUFFICES ASSUME LineInv, NEW c \in Calls
               PROVE  Cardinality(LineOf(c)) = IF seen[c] = {} THEN 0 ELSE 1
      BY DEF LinesAreCurrent, LineInv, Current
  <2>1. CASE seen[c] = {}
      BY <2>1, FS_EmptySet DEF LineInv, OneLine
  <2>2. CASE seen[c] # {}
      BY <2>2, FS_Singleton DEF LineInv, OneLine
  <2> QED BY <2>1, <2>2
<1> QED BY <1>1, <1>2, <1>3, TypesHold, PTL DEF Spec

-----------------------------------------------------------------------------
(* The answer.                                                             *)

\* The elements of a sequence, and the numbers of the tokens of a part.
Entries(s) == {s[i] : i \in 1..Len(s)}
NumbersOf(p, s) == {s[i].nr : i \in {j \in 1..Len(s) : s[j].part = p}}

\* Appending adds one element.
LEMMA EntriesAppend ==
    ASSUME NEW S, NEW s \in Seq(S), NEW x \in S
    PROVE  Entries(Append(s, x)) = Entries(s) \cup {x}
<1>1. /\ Len(s) \in Nat /\ Len(Append(s, x)) = Len(s) + 1
      /\ \A i \in 1..Len(s) : Append(s, x)[i] = s[i]
      /\ Append(s, x)[Len(s) + 1] = x
    BY AppendProperties, LenProperties
<1>2. 1..(Len(s) + 1) = (1..Len(s)) \cup {Len(s) + 1}
    BY <1>1
<1> QED BY <1>1, <1>2 DEF Entries

\* What a longer answer shows of a part is what both its pieces show of it.
LEMMA NumbersConcat ==
    ASSUME NEW s \in Seq(Tokens), NEW u \in Seq(Tokens), NEW p
    PROVE  NumbersOf(p, s \o u) = NumbersOf(p, s) \cup NumbersOf(p, u)
<1>1. /\ Len(s) \in Nat /\ Len(u) \in Nat /\ Len(s \o u) = Len(s) + Len(u)
      /\ \A i \in 1..Len(s) : (s \o u)[i] = s[i]
      /\ \A i \in 1..Len(u) : (s \o u)[Len(s) + i] = u[i]
    BY LenProperties, ConcatProperties
<1>2. ASSUME NEW n \in NumbersOf(p, s) PROVE n \in NumbersOf(p, s \o u)
  <2>1. PICK i \in 1..Len(s) : s[i].part = p /\ n = s[i].nr
      BY <1>2 DEF NumbersOf
  <2>2. i \in 1..Len(s \o u) /\ (s \o u)[i] = s[i]
      BY <1>1
  <2> QED BY <2>1, <2>2 DEF NumbersOf
<1>3. ASSUME NEW n \in NumbersOf(p, u) PROVE n \in NumbersOf(p, s \o u)
  <2>1. PICK i \in 1..Len(u) : u[i].part = p /\ n = u[i].nr
      BY <1>3 DEF NumbersOf
  <2>2. Len(s) + i \in 1..Len(s \o u) /\ (s \o u)[Len(s) + i] = u[i]
      BY <1>1
  <2> QED BY <2>1, <2>2 DEF NumbersOf
<1>4. ASSUME NEW n \in NumbersOf(p, s \o u) PROVE n \in NumbersOf(p, s) \cup NumbersOf(p, u)
  <2>1. PICK i \in 1..Len(s \o u) : (s \o u)[i].part = p /\ n = (s \o u)[i].nr
      BY <1>4 DEF NumbersOf
  <2>2. CASE i \in 1..Len(s) /\ (s \o u)[i] = s[i]
      BY <2>1, <2>2 DEF NumbersOf
  <2>3. CASE i - Len(s) \in 1..Len(u) /\ (s \o u)[i] = u[i - Len(s)]
      BY <2>1, <2>3 DEF NumbersOf
  <2> QED BY <2>2, <2>3, ConcatElements
<1> QED BY <1>2, <1>3, <1>4

\* What is released of a part are its numbers, and nothing of another part.
LEMMA NumbersTagged ==
    ASSUME NEW p, NEW nrs \in Seq(1..MaxDeltas), NEW q
    PROVE  NumbersOf(q, Tagged(p, nrs)) = IF q = p THEN Entries(nrs) ELSE {}
<1>1. /\ Len(Tagged(p, nrs)) = Len(nrs)
      /\ \A i \in 1..Len(nrs) : Tagged(p, nrs)[i].part = p /\ Tagged(p, nrs)[i].nr = nrs[i]
    BY LenProperties DEF Tagged
<1> QED BY <1>1 DEF NumbersOf, Entries

\* In an answer the tokens of a part come in the order they were streamed.
InOrder(s) ==
    \A i, j \in 1..Len(s) : i < j /\ s[i].part = s[j].part => s[i].nr < s[j].nr

\* An answer stays in order when what is added to it is in order and later.
LEMMA OrderConcat ==
    ASSUME NEW s \in Seq(Tokens), NEW u \in Seq(Tokens), InOrder(s), InOrder(u),
           \A i \in 1..Len(s), j \in 1..Len(u) :
                s[i].part = u[j].part => s[i].nr < u[j].nr
    PROVE  InOrder(s \o u)
<1>1. /\ Len(s) \in Nat /\ Len(u) \in Nat /\ Len(s \o u) = Len(s) + Len(u)
    BY LenProperties, ConcatProperties
<1> SUFFICES ASSUME NEW i \in 1..Len(s \o u), NEW j \in 1..Len(s \o u), i < j,
                    (s \o u)[i].part = (s \o u)[j].part
             PROVE  (s \o u)[i].nr < (s \o u)[j].nr
    BY DEF InOrder
<1>2. \/ i \in 1..Len(s) /\ (s \o u)[i] = s[i]
      \/ i - Len(s) \in 1..Len(u) /\ (s \o u)[i] = u[i - Len(s)]
    BY ConcatElements
<1>3. \/ j \in 1..Len(s) /\ (s \o u)[j] = s[j]
      \/ j - Len(s) \in 1..Len(u) /\ (s \o u)[j] = u[j - Len(s)]
    BY ConcatElements
<1>4. CASE i \in 1..Len(s) /\ (s \o u)[i] = s[i]
    BY <1>3, <1>4 DEF InOrder
<1>5. CASE i - Len(s) \in 1..Len(u) /\ (s \o u)[i] = u[i - Len(s)]
  <2>1. j - Len(s) \in 1..Len(u) /\ (s \o u)[j] = u[j - Len(s)]
      BY <1>1, <1>3, <1>5
  <2>2. i - Len(s) < j - Len(s)
      BY <1>1
  <2> QED BY <1>5, <2>1, <2>2 DEF InOrder
<1> QED BY <1>2, <1>4, <1>5

\* What is known of the kinds is what the frames said.
KindsInv ==
    \A p \in Parts :
        /\ p \in router.answer <=> p \in known /\ kind[p] = "text"
        /\ p \in router.reasoning <=> p \in known /\ kind[p] = "reasoning"

\* Deltas arrive in the order they are streamed, and nothing is shown before it is.
StreamInv ==
    /\ \A p \in Parts :
          /\ \A i \in 1..Len(received[p]) : received[p][i] <= streamed[p]
          /\ \A i, j \in 1..Len(received[p]) : i < j => received[p][i] < received[p][j]
    /\ \A i \in 1..Len(answer) : answer[i].nr <= streamed[answer[i].part]

\* The answer has what has arrived, or it waits.
HasArrived(p) ==
    /\ p \in known /\ kind[p] = "text" =>
          ShownOf(p) = ArrivedOf(p) /\ router.pending[p] = << >>
    /\ p \notin known => ShownOf(p) = {} /\ router.pending[p] = received[p]

RouteInv == KindsInv /\ StreamInv /\ (\A p \in Parts : HasArrived(p)) /\ InOrder(answer)

\* The same, in the terms of the lemmas on sequences.
LEMMA RouteTerms ==
    /\ \A p : ShownOf(p) = NumbersOf(p, answer) /\ ArrivedOf(p) = Entries(received[p])
    /\ \A p : ShownOf(p)' = NumbersOf(p, answer') /\ ArrivedOf(p)' = Entries(received'[p])
    /\ AnswerIsWhatCame <=> (\A p \in Parts : HasArrived(p)) /\ InOrder(answer)
BY DEF ShownOf, ArrivedOf, NumbersOf, Entries, AnswerIsWhatCame, HasArrived, InOrder

\* A delta goes into the answer, behind what came before it, or waits, or is dropped.
LEMMA DeltaKeepsRoute ==
    ASSUME TextType, RouteInv, NEW p \in Parts, StreamDelta(p)
    PROVE  RouteInv'
<1> DEFINE n == streamed[p] + 1
           token == [part |-> p, nr |-> n]
<1>1. /\ kind \in [Parts -> {"text", "reasoning"}] /\ streamed \in [Parts -> 0..MaxDeltas]
      /\ received \in [Parts -> Seq(1..MaxDeltas)] /\ router \in Routers
      /\ answer \in Seq(Tokens) /\ MaxDeltas \in Nat
    BY Bounds DEF TextType
<1>2. /\ n \in 1..MaxDeltas /\ kind' = kind /\ known' = known
      /\ streamed' = [streamed EXCEPT ![p] = n]
      /\ received' = [received EXCEPT ![p] = Append(@, n)]
      /\ RouteDelta(p, n)
    BY <1>1 DEF StreamDelta
<1>3. token \in Tokens /\ token.part = p /\ token.nr = n /\ <<token>> \in Seq(Tokens)
    BY <1>2 DEF Tokens
<1>4. /\ \A q \in Parts : q # p => received'[q] = received[q] /\ streamed'[q] = streamed[q]
      /\ received'[p] = Append(received[p], n) /\ streamed'[p] = n
    BY <1>1, <1>2
<1>5. Entries(received'[p]) = Entries(received[p]) \cup {n}
  <2> DEFINE Nrs == 1..MaxDeltas
  <2>1. received[p] \in Seq(Nrs) /\ n \in Nrs
      BY <1>1, <1>2
  <2> HIDE DEF n, Nrs
  <2>2. Entries(Append(received[p], n)) = Entries(received[p]) \cup {n}
      BY <2>1, EntriesAppend
  <2> QED BY <1>4, <2>2
<1>6. /\ received[p] \in Seq(1..MaxDeltas) /\ Len(received[p]) \in Nat
      /\ Len(received'[p]) = Len(received[p]) + 1
      /\ \A i \in 1..Len(received[p]) : received'[p][i] = received[p][i]
      /\ received'[p][Len(received[p]) + 1] = n
    BY <1>1, <1>2, <1>4, AppendProperties, LenProperties
<1>7. \A q \in Parts : streamed[q] \in Nat /\ streamed'[q] \in Nat /\ streamed[q] <= streamed'[q]
    BY <1>1, <1>2, <1>4
<1>8. \A q \in Parts :
          /\ \A i \in 1..Len(received'[q]) : received'[q][i] <= streamed'[q]
          /\ \A i, j \in 1..Len(received'[q]) : i < j => received'[q][i] < received'[q][j]
  <2>1. ASSUME NEW i \in 1..Len(received[p])
        PROVE  received[p][i] \in Nat /\ received[p][i] <= streamed[p]
      BY <1>1, <1>6, ElementOfSeq DEF RouteInv, StreamInv
  <2>2. \A i, j \in 1..Len(received[p]) : i < j => received[p][i] < received[p][j]
      BY DEF RouteInv, StreamInv
  <2>3. /\ \A i \in 1..Len(received'[p]) : received'[p][i] <= streamed'[p]
        /\ \A i, j \in 1..Len(received'[p]) : i < j => received'[p][i] < received'[p][j]
      BY <1>2, <1>4, <1>6, <1>7, <2>1, <2>2
  <2> QED BY <1>4, <2>3 DEF RouteInv, StreamInv
<1>9. \A i \in 1..Len(answer) : answer[i] \in Tokens
    BY <1>1, ElementOfSeq
<1>10. \A i \in 1..Len(answer) : answer[i].nr <= streamed'[answer[i].part]
  <2> SUFFICES ASSUME NEW i \in 1..Len(answer)
               PROVE  answer[i].nr <= streamed'[answer[i].part]
      OBVIOUS
  <2>1. answer[i].part \in Parts /\ answer[i].nr \in Nat
      BY <1>1, <1>9, SMTT(30) DEF Tokens
  <2>2. answer[i].nr <= streamed[answer[i].part]
      BY DEF RouteInv, StreamInv
  <2> QED BY <1>7, <2>1, <2>2
<1> HIDE DEF n, token
<1>11. CASE ShownAtOnce(p) /\ answer' = Append(answer, token) /\ router' = router
  <2>1. p \in known /\ kind[p] = "text"
      BY <1>11 DEF RouteInv, KindsInv, ShownAtOnce
  <2>2. answer' = answer \o <<token>>
      BY <1>1, <1>3, <1>11, AppendIsConcat
  <2>3. ASSUME NEW q PROVE NumbersOf(q, <<token>>) = IF q = p THEN {n} ELSE {}
      BY <1>3 DEF NumbersOf
  <2>4. ASSUME NEW q
        PROVE  NumbersOf(q, answer') = NumbersOf(q, answer) \cup (IF q = p THEN {n} ELSE {})
    <3>1. NumbersOf(q, answer') = NumbersOf(q, answer) \cup NumbersOf(q, <<token>>)
        BY <1>1, <1>3, <2>2, NumbersConcat
    <3> QED BY <2>3, <3>1
  <2>5. ASSUME NEW q \in Parts PROVE HasArrived(q)'
    <3>1. /\ ShownOf(q) = NumbersOf(q, answer) /\ ArrivedOf(q) = Entries(received[q])
          /\ ShownOf(q)' = NumbersOf(q, answer') /\ ArrivedOf(q)' = Entries(received'[q])
        BY RouteTerms
    <3>2. HasArrived(q)
        BY DEF RouteInv
    <3>3. NumbersOf(q, answer') = NumbersOf(q, answer) \cup (IF q = p THEN {n} ELSE {})
        BY <2>4
    <3> QED BY <1>2, <1>4, <1>5, <1>11, <2>1, <3>1, <3>2, <3>3 DEF HasArrived
  <2>6. InOrder(answer')
    <3>1. InOrder(<<token>>)
        BY DEF InOrder
    <3>2. ASSUME NEW i \in 1..Len(answer), NEW j \in 1..Len(<<token>>),
                 answer[i].part = <<token>>[j].part
          PROVE  answer[i].nr < <<token>>[j].nr
      <4>1. <<token>>[j] = token
          OBVIOUS
      <4>2. answer[i].nr <= streamed[p] /\ answer[i].nr \in Nat
          BY <1>1, <1>3, <1>9, <3>2, <4>1, SMTT(30) DEF RouteInv, StreamInv, Tokens
      <4> QED BY <1>3, <1>7, <4>1, <4>2 DEF n
    <3> QED BY <1>1, <1>3, <2>2, <3>1, <3>2, OrderConcat DEF RouteInv
  <2>7. \A i \in 1..Len(answer') : answer'[i].nr <= streamed'[answer'[i].part]
    <3>1. \A i \in 1..Len(answer') : \/ i \in 1..Len(answer) /\ answer'[i] = answer[i]
                                     \/ answer'[i] = token
      <4>1. /\ Len(answer) \in Nat /\ Len(answer') = Len(answer) + 1
            /\ \A i \in 1..Len(answer) : answer'[i] = answer[i]
            /\ answer'[Len(answer) + 1] = token
          BY <1>1, <1>3, <1>11, AppendProperties, LenProperties
      <4> QED BY <4>1
    <3>2. n \in Nat
        BY <1>1, <1>2
    <3> QED BY <1>3, <1>4, <1>10, <3>1, <3>2
  <2> QED BY <1>2, <1>8, <1>11, <2>5, <2>6, <2>7 DEF RouteInv, KindsInv, StreamInv
<1>12. CASE p \in router.reasoning /\ UNCHANGED textVars
  <2>1. p \in known /\ kind[p] = "reasoning"
      BY <1>12 DEF RouteInv, KindsInv
  <2>2. \A q \in Parts : HasArrived(q)'
      BY <1>2, <1>4, <1>12, <2>1, RouteTerms DEF RouteInv, HasArrived, textVars
  <2> QED BY <1>2, <1>8, <1>10, <1>12, <2>2 DEF RouteInv, KindsInv, StreamInv, textVars
<1>13. CASE /\ p \notin router.reasoning /\ ~ShownAtOnce(p)
            /\ router' = [router EXCEPT !.pending[p] = Append(@, n)]
            /\ answer' = answer
  <2>1. p \notin known
      BY <1>1, <1>13 DEF RouteInv, KindsInv, ShownAtOnce
  <2>2. /\ router'.answer = router.answer /\ router'.reasoning = router.reasoning
        /\ router'.pending = [router.pending EXCEPT ![p] = Append(@, n)]
        /\ router.pending \in [Parts -> Seq(1..MaxDeltas)]
      BY <1>1, <1>13 DEF Routers
  <2>3. \A q \in Parts : HasArrived(q)'
      BY <1>2, <1>4, <1>13, <2>1, <2>2, RouteTerms DEF RouteInv, HasArrived
  <2> QED BY <1>2, <1>8, <1>10, <1>13, <2>2, <2>3 DEF RouteInv, KindsInv, StreamInv
<1> QED BY <1>2, <1>11, <1>12, <1>13 DEF RouteDelta, token

\* The frame that says what a part is releases what has waited for it, or drops it.
LEMMA PartKeepsRoute ==
    ASSUME TextType, RouteInv, NEW p \in Parts, StreamPart(p)
    PROVE  RouteInv'
<1>1. /\ kind \in [Parts -> {"text", "reasoning"}] /\ streamed \in [Parts -> 0..MaxDeltas]
      /\ received \in [Parts -> Seq(1..MaxDeltas)] /\ router \in Routers
      /\ router.pending \in [Parts -> Seq(1..MaxDeltas)]
      /\ answer \in Seq(Tokens) /\ MaxDeltas \in Nat
    BY Bounds DEF TextType, Routers
<1>2. /\ kind' = kind /\ known' = known \cup {p} /\ streamed' = streamed
      /\ received' = received
    BY DEF StreamPart, opencodeVars
<1>3. CASE /\ kind[p] = "text"
           /\ router' = [router EXCEPT !.answer = @ \cup {p}, !.pending[p] = << >>]
           /\ answer' = answer \o Tagged(p, Released(p))
  <2> DEFINE more == Tagged(p, router.pending[p])
  <2>1. /\ router'.answer = router.answer \cup {p} /\ router'.reasoning = router.reasoning
        /\ router'.pending = [router.pending EXCEPT ![p] = << >>]
      BY <1>1, <1>3 DEF Routers
  <2>2. answer' = answer \o more /\ more \in Seq(Tokens)
      BY <1>1, <1>3, TaggedType DEF Released
  <2>3. \A q : NumbersOf(q, more) = IF q = p THEN Entries(router.pending[p]) ELSE {}
      BY <1>1, NumbersTagged
  <2> HIDE DEF more
  <2>4. \A q : NumbersOf(q, answer') = NumbersOf(q, answer) \cup NumbersOf(q, more)
      BY <1>1, <2>2, NumbersConcat
  <2>5. p \in known => NumbersOf(p, more) = {}
    <3>1. Entries(<< >>) = {}
        BY DEF Entries
    <3> QED BY <1>3, <2>3, <3>1 DEF RouteInv, HasArrived
  <2>6. p \notin known => NumbersOf(p, more) = Entries(received[p]) /\ NumbersOf(p, answer) = {}
      BY <2>3, RouteTerms DEF RouteInv, HasArrived
  <2>7. \A q \in Parts : HasArrived(q)'
    <3>1. ASSUME NEW q \in Parts, q # p PROVE HasArrived(q)'
      <4>1. NumbersOf(q, answer') = NumbersOf(q, answer)
          BY <2>3, <2>4, <3>1
      <4>2. /\ ShownOf(q) = NumbersOf(q, answer) /\ ArrivedOf(q) = Entries(received[q])
            /\ ShownOf(q)' = NumbersOf(q, answer') /\ ArrivedOf(q)' = Entries(received'[q])
          BY RouteTerms
      <4>3. HasArrived(q)
          BY DEF RouteInv
      <4>4. router'.pending[q] = router.pending[q]
          BY <1>1, <2>1, <3>1
      <4> QED BY <1>2, <3>1, <4>1, <4>2, <4>3, <4>4 DEF HasArrived
    <3>2. HasArrived(p)'
      <4>1. NumbersOf(p, answer') = Entries(received[p])
          BY <1>3, <2>4, <2>5, <2>6, RouteTerms DEF RouteInv, HasArrived
      <4>2. router'.pending[p] = << >> /\ p \in known'
          BY <1>1, <1>2, <2>1
      <4> QED BY <1>2, <4>1, <4>2, RouteTerms DEF HasArrived
    <3> QED BY <3>1, <3>2
  <2>8. /\ Len(more) = Len(router.pending[p])
        /\ \A i \in 1..Len(more) : more[i].part = p /\ more[i].nr = router.pending[p][i]
      BY <1>1, LenProperties DEF more, Tagged
  <2>9. p \in known => Len(more) = 0
      BY <1>3, <2>8 DEF RouteInv, HasArrived
  <2>10. p \notin known => router.pending[p] = received[p]
      BY DEF RouteInv, HasArrived
  <2>11. InOrder(more)
      BY <2>8, <2>9, <2>10 DEF RouteInv, StreamInv, InOrder
  <2>12. \A i \in 1..Len(answer), j \in 1..Len(more) : answer[i].part # more[j].part
    <3> SUFFICES ASSUME NEW i \in 1..Len(answer), NEW j \in 1..Len(more),
                        answer[i].part = more[j].part
                 PROVE  FALSE
        OBVIOUS
    <3>1. p \notin known
        BY <2>9
    <3>2. answer[i].nr \in NumbersOf(p, answer)
        BY <2>8 DEF NumbersOf
    <3> QED BY <2>6, <3>1, <3>2
  <2>13. InOrder(answer')
      BY <1>1, <2>2, <2>11, <2>12, OrderConcat DEF RouteInv
  <2>14. \A i \in 1..Len(answer') : answer'[i].nr <= streamed'[answer'[i].part]
    <3> SUFFICES ASSUME NEW i \in 1..Len(answer')
                 PROVE  answer'[i].nr <= streamed[answer'[i].part]
        BY <1>2
    <3>1. CASE i \in 1..Len(answer) /\ answer'[i] = answer[i]
        BY <3>1 DEF RouteInv, StreamInv
    <3>2. CASE i - Len(answer) \in 1..Len(more) /\ answer'[i] = more[i - Len(answer)]
      <4>1. p \notin known
          BY <2>9, <3>2
      <4>2. answer'[i].part = p /\ answer'[i].nr = received[p][i - Len(answer)]
          BY <2>8, <2>10, <3>2, <4>1
      <4>3. i - Len(answer) \in 1..Len(received[p])
          BY <2>8, <2>10, <3>2, <4>1
      <4> QED BY <4>2, <4>3 DEF RouteInv, StreamInv
    <3> QED BY <1>1, <2>2, <3>1, <3>2, ConcatElements
  <2>15. KindsInv'
      BY <1>1, <1>2, <1>3, <2>1 DEF RouteInv, KindsInv
  <2> QED BY <1>2, <2>7, <2>13, <2>14, <2>15 DEF RouteInv, StreamInv
<1>4. CASE /\ kind[p] = "reasoning"
           /\ router' = [router EXCEPT !.reasoning = @ \cup {p}, !.pending[p] = << >>]
           /\ answer' = answer
  <2>1. /\ router'.answer = router.answer /\ router'.reasoning = router.reasoning \cup {p}
        /\ router'.pending = [router.pending EXCEPT ![p] = << >>]
      BY <1>1, <1>4 DEF Routers
  <2>2. \A q \in Parts : HasArrived(q)'
      BY <1>1, <1>2, <1>4, <2>1, RouteTerms DEF RouteInv, HasArrived
  <2>3. KindsInv'
      BY <1>1, <1>2, <1>4, <2>1 DEF RouteInv, KindsInv
  <2> QED BY <1>2, <1>4, <2>2, <2>3 DEF RouteInv, StreamInv
<1> QED BY <1>3, <1>4 DEF StreamPart

\* Every step keeps the answer what came.
LEMMA RouteStep ==
    ASSUME TextType, RouteInv, [Next]_vars
    PROVE  RouteInv'
<1>1. CASE UNCHANGED <<kind, streamed, received, known, textVars>>
    BY <1>1, RouteTerms DEF RouteInv, KindsInv, StreamInv, HasArrived, textVars
<1>2. ASSUME NEW p \in Parts, MissDelta(p) PROVE RouteInv'
  <2>1. /\ streamed' = [streamed EXCEPT ![p] = @ + 1]
        /\ kind' = kind /\ received' = received /\ known' = known
        /\ router' = router /\ answer' = answer
      BY <1>2 DEF MissDelta, historyVars, textVars
  <2>2. /\ streamed \in [Parts -> 0..MaxDeltas] /\ MaxDeltas \in Nat
        /\ received \in [Parts -> Seq(1..MaxDeltas)] /\ answer \in Seq(Tokens)
      BY Bounds DEF TextType
  <2>3. \A q \in Parts : streamed[q] \in Nat /\ streamed'[q] \in Nat /\ streamed[q] <= streamed'[q]
      BY <2>1, <2>2
  <2>4. ASSUME NEW q \in Parts, NEW i \in 1..Len(received[q])
        PROVE  received[q][i] <= streamed'[q]
    <3>1. received[q][i] \in Nat
        BY <2>2, ElementOfSeq
    <3>2. received[q][i] <= streamed[q]
        BY DEF RouteInv, StreamInv
    <3> QED BY <2>3, <3>1, <3>2
  <2>5. ASSUME NEW i \in 1..Len(answer) PROVE answer[i].nr <= streamed'[answer[i].part]
    <3>1. answer[i].nr \in Nat /\ answer[i].part \in Parts
      <4>1. answer[i] \in Tokens
          BY <2>2, ElementOfSeq
      <4> QED BY <2>2, <4>1 DEF Tokens
    <3>2. answer[i].nr <= streamed[answer[i].part]
        BY DEF RouteInv, StreamInv
    <3> QED BY <2>3, <3>1, <3>2
  <2> QED BY <2>1, <2>4, <2>5, RouteTerms DEF RouteInv, KindsInv, StreamInv, HasArrived
<1>3. ASSUME NEW c \in Calls, NEW s \in Statuses,
             StreamTool(c, s) \/ MissTool(c, s) \/ ReplayTool(c, s)
      PROVE  UNCHANGED <<kind, streamed, received, known, textVars>>
    BY <1>3 DEF StreamTool, MissTool, ReplayTool, opencodeVars, historyVars
<1>4. CASE UNCHANGED vars
    BY <1>1, <1>4 DEF vars, opencodeVars, historyVars, textVars
<1> QED BY <1>1, <1>2, <1>3, <1>4, DeltaKeepsRoute, PartKeepsRoute DEF Next

\* The answer has, of every part known to be text, all the deltas that arrived, once
\* and in order, whenever its kind was told and however often; of the others they wait
\* (TextRouter, apply_event).
THEOREM NothingIsLostOrRepeated == Spec => []AnswerIsWhatCame
<1>1. Init => RouteInv
  <2> SUFFICES ASSUME Init PROVE RouteInv
      OBVIOUS
  <2> USE DEF Init
  <2>1. KindsInv /\ StreamInv /\ InOrder(answer)
      BY DEF KindsInv, StreamInv, InOrder
  <2>2. ASSUME NEW p \in Parts PROVE HasArrived(p)
      BY DEF HasArrived, ShownOf
  <2> QED BY <2>1, <2>2 DEF RouteInv
<1>2. TypeInv /\ RouteInv /\ [Next]_vars => RouteInv'
    BY RouteStep DEF TypeInv
<1>3. RouteInv => AnswerIsWhatCame
    BY RouteTerms DEF RouteInv
<1> QED BY <1>1, <1>2, <1>3, TypesHold, PTL DEF Spec

-----------------------------------------------------------------------------
(* Narration.                                                              *)

\* From u to the mark there is only white space.
Silent(u) == u <= mark /\ \A k \in (u + 1)..mark : answer[k] \in Blank

\* The mark is where the last echo ended, or beyond white space.
LastEcho == \E i \in Echoes : (\A j \in Echoes : j <= i) /\ Silent(log[i].upto)

EchoInv ==
    /\ verbosity # "verbose" => mark = 0 /\ Echoes = {}
    /\ \A i, j \in Echoes : i < j => log[i].upto < log[j].upto
    /\ \A i \in Echoes : i < Len(log) /\ i + 1 \notin Echoes
    /\ Echoes = {} => Silent(0)
    /\ Echoes # {} => LastEcho

\* What has been echoed is not beyond the mark.
LEMMA EchoedBeforeMark ==
    ASSUME EchoInv, NEW i \in Echoes, TypeInv
    PROVE  log[i].upto \in Nat /\ log[i].upto <= mark
<1>1. ASSUME NEW j \in Echoes PROVE j \in 1..Len(log) /\ log[j].upto \in Nat
  <2>1. j \in 1..Len(log)
      BY DEF Echoes
  <2>2. log[j] \in Lines
      BY <2>1, ElementOfSeq DEF TypeInv, ToolType
  <2> QED BY <2>1, <2>2 DEF Lines
<1>2. PICK k \in Echoes : (\A j \in Echoes : j <= k) /\ Silent(log[k].upto)
    BY DEF EchoInv, LastEcho
<1>4. mark \in Nat /\ log[k].upto <= mark
    BY <1>2 DEF Silent, TypeInv, MarkType
<1>3. i = k \/ i < k
    BY <1>1, <1>2
<1> QED BY <1>1, <1>3, <1>4 DEF EchoInv

\* The answer grows at its end only.
LEMMA AnswerGrows ==
    ASSUME TextType, [Next]_vars
    PROVE  \A k \in 1..Len(answer) : answer'[k] = answer[k]
<1>1. answer \in Seq(Tokens) /\ Len(answer) \in Nat
    BY LenProperties DEF TextType
<1>2. CASE answer' = answer
    BY <1>2
<1>3. ASSUME NEW p \in Parts,
             answer' = Append(answer, [part |-> p, nr |-> streamed[p] + 1])
      PROVE  \A k \in 1..Len(answer) : answer'[k] = answer[k]
  <2> DEFINE t == [part |-> p, nr |-> streamed[p] + 1]
  <2>1. answer' = Append(answer, t)
      BY <1>3
  <2> HIDE DEF t
  <2> QED BY <1>1, <2>1
<1>4. ASSUME NEW p \in Parts, answer' = answer \o Tagged(p, Released(p))
      PROVE  \A k \in 1..Len(answer) : answer'[k] = answer[k]
  <2>1. Tagged(p, Released(p)) \in Seq(Tokens)
      BY TaggedType DEF Released, Routers, TextType
  <2> QED BY <1>1, <1>4, <2>1
<1>5. ASSUME NEW p \in Parts, StreamDelta(p) \/ MissDelta(p)
      PROVE  \/ answer' = answer
             \/ answer' = Append(answer, [part |-> p, nr |-> streamed[p] + 1])
    BY <1>5 DEF StreamDelta, MissDelta, RouteDelta, textVars
<1>6. ASSUME NEW p \in Parts, StreamPart(p)
      PROVE  answer' = answer \/ answer' = answer \o Tagged(p, Released(p))
    BY <1>6 DEF StreamPart
<1>7. ASSUME NEW c \in Calls, NEW s \in Statuses,
             StreamTool(c, s) \/ MissTool(c, s) \/ ReplayTool(c, s)
      PROVE  answer' = answer
    BY <1>7 DEF StreamTool, MissTool, ReplayTool, textVars
<1> QED BY <1>2, <1>3, <1>4, <1>5, <1>6, <1>7 DEF Next, vars, textVars

\* A step that leaves the echoes where they are, and passes over white space at most,
\* keeps them in order.
LEMMA EchoesStand ==
    ASSUME TypeInv, EchoInv, verbosity' = verbosity, Echoes' = Echoes,
           \A i \in Echoes : log'[i] = log[i],
           \A i \in Echoes : i < Len(log'),
           verbosity # "verbose" => mark' = mark,
           mark' \in Nat, mark <= mark',
           \A k \in 1..mark : answer'[k] = answer[k],
           \A k \in (mark + 1)..mark' : answer'[k] \in Blank
    PROVE  EchoInv'
<1>1. mark \in Nat
    BY DEF TypeInv, MarkType
<1>2. ASSUME NEW u \in Nat, Silent(u)
      PROVE  u <= mark' /\ \A k \in (u + 1)..mark' : answer'[k] \in Blank
  <2>1. u <= mark /\ \A k \in (u + 1)..mark : answer[k] \in Blank
      BY <1>2 DEF Silent
  <2>2. ASSUME NEW k \in (u + 1)..mark' PROVE answer'[k] \in Blank
    <3>1. CASE k <= mark
      <4>1. k \in 1..mark /\ k \in (u + 1)..mark
          BY <1>1, <2>1, <3>1
      <4> QED BY <2>1, <4>1
    <3>2. CASE ~(k <= mark)
      <4>1. k \in (mark + 1)..mark'
          BY <1>1, <3>2
      <4> QED BY <4>1
    <3> QED BY <3>1, <3>2
  <2> QED BY <1>1, <2>1, <2>2
<1>3. ASSUME NEW i \in Echoes PROVE log[i].upto \in Nat
    BY EchoedBeforeMark
<1>4. Echoes = {} => Silent(0)'
    BY <1>2 DEF EchoInv, Silent
<1>5. ASSUME Echoes # {} PROVE LastEcho'
  <2>1. PICK i \in Echoes : (\A j \in Echoes : j <= i) /\ Silent(log[i].upto)
      BY <1>5 DEF EchoInv, LastEcho
  <2>2. log[i].upto <= mark' /\ \A k \in (log[i].upto + 1)..mark' : answer'[k] \in Blank
      BY <1>2, <1>3, <2>1
  <2>3. log'[i] = log[i]
      OBVIOUS
  <2> QED BY <2>1, <2>2, <2>3 DEF LastEcho, Silent
<1>6. \A i, j \in Echoes' : i < j => log'[i].upto < log'[j].upto
    BY DEF EchoInv
<1>7. \A i \in Echoes' : i < Len(log') /\ i + 1 \notin Echoes'
    BY DEF EchoInv
<1>8. verbosity' # "verbose" => mark' = 0 /\ Echoes' = {}
    BY DEF EchoInv
<1> QED BY <1>4, <1>5, <1>6, <1>7, <1>8 DEF EchoInv

\* A tool frame echoes what has come since the last echo, or nothing.
LEMMA EchoStep ==
    ASSUME TypeInv, EchoInv, NEW c \in Calls, NEW s \in Statuses, Arrives(c, s)
    PROVE  EchoInv'
<1>1. /\ log \in Seq(Lines) /\ Len(log) \in Nat /\ verbosity' = verbosity
      /\ Len(answer) \in Nat /\ mark \in 0..Len(answer) /\ answer \in Seq(Tokens)
      /\ answer' = answer
    BY LenProperties DEF TypeInv, ToolType, TextType, MarkType, Arrives, textVars
<1>2. CASE /\ LineOf(c) # {}
           /\ log' = [i \in 1..Len(log) |->
                        IF i \in LineOf(c) THEN ToolLine(c, StatusAfter(log[i].status, s))
                        ELSE log[i]]
           /\ mark' = mark
  <2>1. Len(log') = Len(log)
      BY <1>1, <1>2
  <2>2. \A i \in 1..Len(log) : log'[i].call = log[i].call
      BY <1>2 DEF LineOf, ToolLine
  <2>3. Echoes' = Echoes
      BY <2>1, <2>2 DEF Echoes
  <2>4. \A i \in Echoes : log'[i] = log[i]
      BY <1>2, Bounds DEF Echoes, LineOf
  <2>5. \A i \in Echoes : i < Len(log')
      BY <2>1 DEF EchoInv
  <2>6. mark' = mark /\ mark' \in Nat /\ mark <= mark' /\ (mark + 1)..mark' = {}
      BY <1>1, <1>2
  <2> QED BY <1>1, <2>3, <2>4, <2>5, <2>6, EchoesStand
<1>3. CASE log' = Append(Echoed, ToolLine(c, s)) /\ mark' = MarkAfterEcho
  <2>1. ToolLine(c, s) \in Lines /\ ToolLine(c, s).call = c
      BY DEF ToolLine, Lines
  <2>2. CASE verbosity = "verbose" /\ Says
    <3> DEFINE said == Narration(Len(answer))
               new == Len(log) + 1
    <3>1. said \in Lines /\ said.call = NoCall /\ said.upto = Len(answer)
        BY <1>1 DEF Narration, Lines
    <3>2. log' = Append(Append(log, said), ToolLine(c, s)) /\ mark' = Len(answer)
        BY <1>3, <2>2 DEF Echoed, MarkAfterEcho
    <3>0. mark < Len(answer)
        BY <1>1, <2>2 DEF Says
    <3> HIDE DEF said
    <3>3. /\ Append(log, said) \in Seq(Lines)
          /\ Len(Append(log, said)) = new
          /\ \A i \in 1..Len(log) : Append(log, said)[i] = log[i]
          /\ Append(log, said)[new] = said
        BY <1>1, <3>1, AppendProperties
    <3>4. /\ Len(log') = new + 1
          /\ \A i \in 1..Len(log) : log'[i] = log[i]
          /\ log'[new] = said
          /\ log'[new + 1] = ToolLine(c, s)
        BY <1>1, <2>1, <3>2, <3>3, AppendProperties
    <3>5. 1..(new + 1) = (1..Len(log)) \cup {new, new + 1}
        BY <1>1
    <3>6. Echoes' = Echoes \cup {new}
        BY <2>1, <3>1, <3>4, <3>5, Bounds DEF Echoes
    <3>7. \A i \in Echoes : i \in 1..Len(log) /\ i < new /\ log'[i] = log[i]
        BY <1>1, <3>4 DEF Echoes
    <3>8. \A i \in Echoes : log[i].upto \in Nat /\ log[i].upto < Len(answer)
        BY <1>1, <3>0, EchoedBeforeMark
    <3>9. \A i, j \in Echoes' : i < j => log'[i].upto < log'[j].upto
      <4> SUFFICES ASSUME NEW i \in Echoes', NEW j \in Echoes', i < j
                   PROVE  log'[i].upto < log'[j].upto
          OBVIOUS
      <4>1. i \in Echoes
          BY <1>1, <3>6, <3>7
      <4>2. CASE j \in Echoes
          BY <3>7, <4>1, <4>2 DEF EchoInv
      <4>3. CASE j = new
          BY <3>1, <3>4, <3>7, <3>8, <4>1, <4>3
      <4> QED BY <3>6, <4>2, <4>3
    <3>10. \A i \in Echoes' : i < Len(log') /\ i + 1 \notin Echoes'
      <4>1. ASSUME NEW i \in Echoes PROVE i < Len(log') /\ i + 1 \notin Echoes'
        <5>1. i < Len(log) /\ i + 1 \notin Echoes
            BY DEF EchoInv
        <5> QED BY <1>1, <3>4, <3>6, <3>7, <5>1
      <4>2. new + 1 \notin Echoes'
          BY <1>1, <3>6, <3>7
      <4> QED BY <1>1, <3>4, <3>6, <4>1, <4>2
    <3>11. LastEcho'
      <4>1. new \in Echoes' /\ log'[new].upto = mark' /\ mark' \in Nat
          BY <1>1, <3>1, <3>2, <3>4, <3>6
      <4>3. /\ log'[new].upto <= mark'
            /\ \A k \in (log'[new].upto + 1)..mark' : answer'[k] \in Blank
          BY <4>1
      <4>2. \A j \in Echoes' : j <= new
          BY <1>1, <3>6, <3>7
      <4> HIDE DEF new
      <4> QED BY <4>1, <4>2, <4>3 DEF LastEcho, Silent
    <3> QED BY <1>1, <2>2, <3>6, <3>9, <3>10, <3>11 DEF EchoInv
  <2>3. CASE ~(verbosity = "verbose" /\ Says)
    <3>1. log' = Append(log, ToolLine(c, s))
        BY <1>1, <1>3, <2>3 DEF Echoed
    <3>6. /\ verbosity # "verbose" => mark' = mark
          /\ mark' \in Nat /\ mark <= mark'
          /\ \A k \in (mark + 1)..mark' : answer'[k] \in Blank
      <4>1. CASE verbosity = "verbose"
        <5>1. mark' = Len(answer) /\ ~Says
            BY <1>3, <2>3, <4>1 DEF MarkAfterEcho
        <5> QED BY <1>1, <4>1, <5>1 DEF Says
      <4>2. CASE verbosity # "verbose"
        <5>1. mark' = mark /\ (mark + 1)..mark' = {}
            BY <1>1, <1>3, <4>2 DEF MarkAfterEcho
        <5> QED BY <1>1, <5>1
      <4> QED BY <4>1, <4>2
    <3>2. /\ Len(log') = Len(log) + 1
          /\ \A i \in 1..Len(log) : log'[i] = log[i]
          /\ log'[Len(log) + 1] = ToolLine(c, s)
        BY <1>1, <2>1, <3>1, AppendProperties
    <3>3. 1..(Len(log) + 1) = (1..Len(log)) \cup {Len(log) + 1}
        BY <1>1
    <3>4. Echoes' = Echoes
        BY <2>1, <3>2, <3>3, Bounds DEF Echoes
    <3>5. \A i \in Echoes : log'[i] = log[i] /\ i < Len(log')
        BY <1>1, <3>2 DEF Echoes
    <3>7. \A k \in 1..mark : answer'[k] = answer[k]
        BY <1>1
    <3> QED BY <1>1, <3>4, <3>5, <3>6, <3>7, EchoesStand
  <2> QED BY <2>2, <2>3
<1> QED BY <1>2, <1>3 DEF Arrives, ApplyTool, UpsertTool

\* Narration covers the answer up to the mark, each piece once, in order, closed by a
\* tool and with nothing but white space passed over, whatever frames come late or again (echo_narration, upsert_tool).
THEOREM NarrationIsEchoedOnce == Spec => []NarrationIsOnce
<1>1. Init => EchoInv
    BY DEF Init, EchoInv, Echoes, Silent
<1>2. TypeInv /\ EchoInv /\ [Next]_vars => EchoInv'
  <2> SUFFICES ASSUME TypeInv, EchoInv, [Next]_vars PROVE EchoInv'
      OBVIOUS
  <2>1. CASE ToolsRest
    <3>1. /\ verbosity' = verbosity /\ log' = log /\ mark' = mark /\ Echoes' = Echoes
        BY <2>1 DEF ToolsRest, toolVars, Echoes
    <3>2. mark \in Nat /\ mark <= Len(answer) /\ Len(answer) \in Nat
        BY LenProperties DEF TypeInv, TextType, MarkType
    <3>3. \A k \in 1..mark : answer'[k] = answer[k]
        BY <3>2, AnswerGrows DEF TypeInv
    <3>4. mark' \in Nat /\ mark <= mark' /\ (mark + 1)..mark' = {}
        BY <3>1, <3>2
    <3>5. \A i \in Echoes : log'[i] = log[i] /\ i < Len(log')
        BY <3>1 DEF EchoInv
    <3> QED BY <3>1, <3>3, <3>4, <3>5, EchoesStand
  <2> QED BY <2>1, EchoStep, ToolSteps
<1>3. TypeInv /\ EchoInv => NarrationIsOnce
  <2> SUFFICES ASSUME TypeInv, EchoInv PROVE NarrationIsOnce
      OBVIOUS
  <2>1. CASE Echoes = {}
      BY <2>1 DEF EchoInv, NarrationIsOnce, LastEchoed, Silent
  <2>2. CASE Echoes # {}
    <3>1. PICK i \in Echoes : (\A j \in Echoes : j <= i) /\ Silent(log[i].upto)
        BY <2>2 DEF EchoInv, LastEcho
    <3>2. \A k \in Echoes : (\A j \in Echoes : j <= k) => k = i
        BY <3>1 DEF Echoes
    <3> DEFINE last == CHOOSE k \in Echoes : \A j \in Echoes : j <= k
    <3>3. last \in Echoes /\ \A j \in Echoes : j <= last
        BY <3>1, Zenon
    <3> HIDE DEF last
    <3>4. Silent(log[last].upto)
        BY <3>1, <3>2, <3>3
    <3>5. LastEchoed = log[last].upto
        BY <2>2 DEF LastEchoed, last
    <3> QED BY <2>2, <3>4, <3>5 DEF EchoInv, NarrationIsOnce, Silent
  <2> QED BY <2>1, <2>2
<1> QED BY <1>1, <1>2, <1>3, TypesHold, PTL DEF Spec

-----------------------------------------------------------------------------
(* The scope of a turn (TurnScope).  Family is closed under parent links   *)
(* in both directions except at the root, so all sessions of a walk are in *)
(* it or none is.                                                          *)

\* The constants one by one.
LEMMA ScopeFacts ==
    /\ Root \in Sessions
    /\ {NoParent, Unknown, NotSeen, Foreign} \cap Sessions = {}
    /\ NoParent # Unknown /\ NotSeen # Foreign
    /\ MAX_PARENT_DEPTH \in Nat \ {0} /\ MaxFailures \in Nat
BY ScopeAssumption DEF T!TurnScopeAssumption

\* The root is in the family.
LEMMA RootInFamily == Root \in T!Family
BY ScopeFacts DEF T!Family, T!DownClosed

\* The family is itself closed: a child of a member is a member.
LEMMA ChildrenInFamily ==
    ASSUME NEW s \in Sessions, parent[s] \in T!Family
    PROVE  s \in T!Family
BY DEF T!Family, T!DownClosed

\* A member other than the root has its parent in the family: else the family
\* without it would be closed, and smaller.
LEMMA ParentInFamily ==
    ASSUME NEW s \in Sessions, s # Root, s \in T!Family
    PROVE  parent[s] \in T!Family
<1> SUFFICES ASSUME parent[s] \notin T!Family PROVE FALSE
    OBVIOUS
<1> DEFINE S == T!Family \ {s}
<1>1. S \in SUBSET Sessions
    BY DEF T!Family
<1>2. Root \in S
    BY RootInFamily
<1>3. ASSUME NEW t \in Sessions, parent[t] \in S PROVE t \in S
    <2>1. t \in T!Family
        BY <1>3, ChildrenInFamily
    <2>2. t # s
        BY <1>3
    <2> QED BY <2>1, <2>2
<1>4. T!DownClosed(S)
    BY <1>2, <1>3 DEF T!DownClosed
<1>5. s \in S
    BY <1>1, <1>4 DEF T!Family
<1> QED BY <1>5

\* Parent links never change, so neither does the family.
LEMMA FamilyIsFixed ==
    ASSUME [T!Next]_T!vars
    PROVE  parent' = parent /\ T!Family' = T!Family
<1>1. parent' = parent
    BY DEF T!Next, T!vars, T!ResolveMain, T!ResolveSeen, T!BeginWalk, T!LookupUnknown,
           T!LookupForeignRoot, T!LookupOurs, T!LookupSettled, T!LookupParent, T!LookupTooDeep,
           T!LookupFails, T!Conclude
<1>2. T!Family' = T!Family
    BY <1>1 DEF T!Family, T!DownClosed
<1> QED BY <1>1, <1>2

-----------------------------------------------------------------------------
(* Types.                                                                  *)

\* What a walk remembers has the type of seen.
LEMMA SettledType ==
    ASSUME T!TypeOK, NEW path, NEW ours \in BOOLEAN
    PROVE  T!Settled(path, ours) \in [Sessions -> Sessions \cup {NotSeen, Foreign}]
BY DEF T!Settled, T!NamedAfter, T!TypeOK

\* Concluding a walk keeps every type.
LEMMA ConcludeType ==
    ASSUME T!TypeOK, ~T!Idle, NEW path, NEW ours \in BOOLEAN, T!Conclude(path, ours)
    PROVE  T!TypeOK'
<1>1. asking \in Sessions \ {Root}
    BY DEF T!TypeOK, T!Idle
<1>2. verdict' \in [Sessions -> Sessions \cup {NotSeen, Foreign}]
    BY SettledType DEF T!Conclude
<1>3. T!Surfaced(verdict'[asking]) \in Sessions \cup {Foreign}
    BY <1>1, <1>2 DEF T!Surfaced
<1> QED BY <1>1, <1>2, <1>3 DEF T!TypeOK, T!Conclude, T!Answer

\* Every step keeps every type.
LEMMA ScopeTypeStep ==
    ASSUME T!TypeOK, [T!Next]_T!vars
    PROVE  T!TypeOK'
<1> USE ScopeFacts
<1>1. CASE UNCHANGED T!vars
    BY <1>1 DEF T!vars, T!scopeVars, T!TypeOK
<1>2. CASE T!ResolveMain
    BY <1>2 DEF T!ResolveMain, T!Answer, T!TypeOK
<1>3. ASSUME NEW s \in Sessions, T!ResolveSeen(s) PROVE T!TypeOK'
    BY <1>3 DEF T!ResolveSeen, T!Answer, T!TypeOK
<1>4. ASSUME NEW s \in Sessions, T!BeginWalk(s) PROVE T!TypeOK'
    BY <1>4 DEF T!BeginWalk, T!TypeOK
<1>5. CASE T!LookupUnknown
    BY <1>5, ConcludeType DEF T!LookupUnknown
<1>6. CASE T!LookupForeignRoot
    BY <1>6, ConcludeType DEF T!LookupForeignRoot
<1>7. CASE T!LookupOurs
    BY <1>7, ConcludeType DEF T!LookupOurs
<1>8. CASE T!LookupSettled
    BY <1>8, ConcludeType DEF T!LookupSettled, T!VerdictOurs
<1>9. CASE T!LookupParent
    <2>1. cursor \in Sessions \ {Root}
        BY <1>9, ScopeFacts DEF T!LookupParent, T!GoesOn, T!Idle, T!Up, T!TypeOK
    <2> QED BY <1>9, <2>1 DEF T!LookupParent, T!GoesOn, T!Up, T!Walked, T!TypeOK
<1>10. CASE T!LookupTooDeep
    BY <1>10 DEF T!LookupTooDeep, T!GoesOn, T!AfterCap, T!Answer, T!Idle, T!TypeOK
<1>11. CASE T!LookupFails
    BY <1>11 DEF T!LookupFails, T!Answer, T!Idle, T!TypeOK
<1> QED BY <1>1, <1>2, <1>3, <1>4, <1>5, <1>6, <1>7, <1>8, <1>9, <1>10, <1>11 DEF T!Next

\* Every variable keeps its type, and a lookup is awaited exactly during a walk.
THEOREM ScopeTypeCorrect == T!Spec => []T!TypeOK
<1>1. T!Init => T!TypeOK
    BY ScopeFacts DEF T!Init, T!TypeOK, T!NoAnswer
<1>2. T!TypeOK /\ [T!Next]_T!vars => T!TypeOK'
    BY ScopeTypeStep
<1> QED BY <1>1, <1>2, PTL DEF T!Spec

-----------------------------------------------------------------------------
(* The length of a walk.                                                   *)

\* A step keeps a walk under the cap: it only goes on when one more lookup is due.
LEMMA WalkStep ==
    ASSUME T!TypeOK, T!WalkIsShort, [T!Next]_T!vars
    PROVE  T!WalkIsShort'
<1> USE ScopeFacts
<1>1. CASE UNCHANGED T!vars
    BY <1>1 DEF T!vars, T!scopeVars, T!WalkIsShort, T!Idle
<1>2. ASSUME NEW s \in Sessions, T!BeginWalk(s) PROVE T!WalkIsShort'
    BY <1>2 DEF T!BeginWalk, T!WalkIsShort
<1>3. CASE T!LookupParent
    <2>1. Len(T!Walked) \in Nat /\ Len(chain') = Len(T!Walked)
        BY <1>3, ScopeFacts
           DEF T!LookupParent, T!GoesOn, T!Walked, T!Idle, T!TypeOK
    <2> QED BY <1>3, <2>1 DEF T!LookupParent, T!CapReached, T!WalkIsShort
<1>4. CASE asking' = NotSeen
    BY <1>4 DEF T!WalkIsShort, T!Idle
<1> QED BY <1>1, <1>2, <1>3, <1>4
        DEF T!Next, T!ResolveMain, T!ResolveSeen, T!LookupUnknown, T!LookupForeignRoot, T!LookupOurs,
            T!LookupSettled, T!LookupTooDeep, T!LookupFails, T!Conclude, T!Answer

\* A walk asks for at most MAX_PARENT_DEPTH sessions, however parent links run.
THEOREM WalksAreShort == T!Spec => []T!WalkIsShort
<1>1. T!Init => T!WalkIsShort
    BY DEF T!Init, T!WalkIsShort, T!Idle
<1>2. T!TypeOK /\ T!WalkIsShort /\ [T!Next]_T!vars => T!WalkIsShort'
    BY WalkStep
<1> QED BY <1>1, <1>2, ScopeTypeCorrect, PTL DEF T!Spec

-----------------------------------------------------------------------------
(* Verdicts.                                                               *)

\* All sessions of a walk, from the one that asked to the cursor, are in the
\* family, or none of them is.
OneBranch ==
    ~T!Idle =>
        /\ asking \in T!Family <=> cursor \in T!Family
        /\ \A i \in 1..Len(chain) : chain[i] \in T!Family <=> cursor \in T!Family

\* A session other than the root is in the family as its parent is.
LEMMA BranchIsOne ==
    ASSUME NEW s \in Sessions, s # Root
    PROVE  s \in T!Family <=> parent[s] \in T!Family
BY ChildrenInFamily, ParentInFamily

\* The path of a finished lookup is one branch too.
LEMMA WalkedIsOneBranch ==
    ASSUME T!TypeOK, OneBranch, ~T!Idle
    PROVE  /\ Len(T!Walked) \in Nat
           /\ \A i \in 1..Len(T!Walked) : T!Walked[i] \in T!Family <=> cursor \in T!Family
<1>1. cursor \in Sessions \ {Root} /\ chain \in Seq(Sessions \ {Root})
    BY DEF T!TypeOK, T!Idle
<1>2. Len(T!Walked) = Len(chain) + 1 /\ Len(chain) \in Nat
    BY <1>1 DEF T!Walked
<1>3. ASSUME NEW i \in 1..Len(T!Walked)
      PROVE  T!Walked[i] \in T!Family <=> cursor \in T!Family
    <2>1. CASE i \in 1..Len(chain)
        BY <1>1, <2>1 DEF T!Walked, OneBranch
    <2>2. CASE i = Len(chain) + 1
        BY <1>1, <2>2 DEF T!Walked
    <2> QED BY <1>2, <2>1, <2>2
<1> QED BY <1>2, <1>3

\* A path that is one branch, settled as the cursor is, leaves a true memo.
LEMMA SettledIsTrue ==
    ASSUME T!TypeOK, T!MemoIsTrue, OneBranch, ~T!Idle, T!Family' = T!Family,
           NEW path \in Seq(Sessions), NEW ours \in BOOLEAN,
           ours <=> cursor \in T!Family,
           \A i \in 1..Len(path) : path[i] \in T!Family <=> cursor \in T!Family,
           T!Conclude(path, ours)
    PROVE  T!MemoIsTrue' /\ T!SurfacedIsOurs'
<1> USE ScopeFacts
<1>1. verdict' = T!Settled(path, ours)
    BY DEF T!Conclude
<1>2. ASSUME NEW s \in Sessions
      PROVE  /\ verdict'[s] \in Sessions => s \in T!Family /\ verdict'[s] = s
             /\ verdict'[s] = Foreign => s \notin T!Family
    <2>1. CASE \E i \in 1..Len(path) : path[i] = s
        <3>1. s \in T!Family <=> ours
            BY <2>1
        <3>2. verdict'[s] = IF ours THEN s ELSE Foreign
            BY <1>1, <2>1 DEF T!Settled, T!NamedAfter
        <3> QED BY <3>1, <3>2
    <2>2. CASE ~ \E i \in 1..Len(path) : path[i] = s
        BY <1>1, <2>2 DEF T!Settled, T!MemoIsTrue
    <2> QED BY <2>1, <2>2
<1>3. asking \in Sessions
    BY DEF T!Idle, T!TypeOK
<1>4. resolved'.of = asking /\ resolved'.origin = T!Surfaced(verdict'[asking])
    BY DEF T!Conclude, T!Answer
<1>5. T!SurfacedIsOurs'
    BY <1>2, <1>3, <1>4 DEF T!SurfacedIsOurs, T!Surfaced
<1> QED BY <1>2, <1>5 DEF T!MemoIsTrue

\* The four ways a walk concludes settle it as the cursor is.
LEMMA ConcludeIsTrue ==
    ASSUME T!TypeOK, T!MemoIsTrue, OneBranch, T!Family' = T!Family,
           T!LookupUnknown \/ T!LookupForeignRoot \/ T!LookupOurs \/ T!LookupSettled
    PROVE  T!MemoIsTrue' /\ T!SurfacedIsOurs'
<1> USE ScopeFacts
<1>1. ~T!Idle
    BY DEF T!LookupUnknown, T!LookupForeignRoot, T!LookupOurs, T!LookupSettled
<1>2. cursor \in Sessions /\ cursor # Root
    BY <1>1 DEF T!Idle, T!TypeOK
<1>3. chain \in Seq(Sessions) /\ T!Walked \in Seq(Sessions)
    BY <1>2 DEF T!TypeOK, T!Walked
<1>4. cursor \in T!Family <=> T!Up \in T!Family
    BY <1>2, BranchIsOne DEF T!Up
<1>5. T!Family \subseteq Sessions
    BY DEF T!Family
<1>6. CASE T!LookupUnknown
    <2>1. cursor \notin T!Family
        BY <1>4, <1>5, <1>6 DEF T!LookupUnknown
    <2>2. \A i \in 1..Len(chain) : chain[i] \in T!Family <=> cursor \in T!Family
        BY <1>1 DEF OneBranch
    <2>3. T!Conclude(chain, FALSE)
        BY <1>6 DEF T!LookupUnknown
    <2> QED BY <1>1, <1>3, <2>1, <2>2, <2>3, SettledIsTrue
<1>7. CASE T!LookupForeignRoot
    <2>1. cursor \notin T!Family
        BY <1>4, <1>5, <1>7 DEF T!LookupForeignRoot
    <2>2. T!Conclude(T!Walked, FALSE)
        BY <1>7 DEF T!LookupForeignRoot
    <2> QED BY <1>1, <1>3, <2>1, <2>2, WalkedIsOneBranch, SettledIsTrue
<1>8. CASE T!LookupOurs
    <2>1. cursor \in T!Family
        BY <1>4, <1>8, RootInFamily DEF T!LookupOurs
    <2>2. T!Conclude(T!Walked, TRUE)
        BY <1>8 DEF T!LookupOurs
    <2> QED BY <1>1, <1>3, <2>1, <2>2, WalkedIsOneBranch, SettledIsTrue
<1>9. CASE T!LookupSettled
    <2>1. T!Up \in Sessions /\ verdict[T!Up] \in Sessions \cup {Foreign}
        BY <1>9 DEF T!LookupSettled, T!TypeOK
    <2>2. T!VerdictOurs(T!Up) <=> cursor \in T!Family
        BY <1>4, <2>1 DEF T!VerdictOurs, T!MemoIsTrue
    <2>3. T!Conclude(T!Walked, T!VerdictOurs(T!Up))
        BY <1>9 DEF T!LookupSettled
    <2>4. T!VerdictOurs(T!Up) \in BOOLEAN
        BY DEF T!VerdictOurs
    <2> QED BY <1>1, <1>3, <2>2, <2>3, <2>4, WalkedIsOneBranch, SettledIsTrue
<1> QED BY <1>6, <1>7, <1>8, <1>9

Verdicts == T!MemoIsTrue /\ T!SurfacedIsOurs /\ OneBranch

\* Every step keeps the memo true, the surfaced gates the turn's own and the walk
\* on one branch.
LEMMA VerdictStep ==
    ASSUME T!TypeOK, Verdicts, [T!Next]_T!vars
    PROVE  Verdicts'
<1> USE ScopeFacts
<1>1. parent' = parent /\ T!Family' = T!Family
    BY FamilyIsFixed
<1>2. CASE UNCHANGED T!vars
    BY <1>1, <1>2 DEF T!vars, T!scopeVars, Verdicts, T!MemoIsTrue, T!SurfacedIsOurs, OneBranch, T!Idle
<1>3. CASE T!ResolveMain
    BY <1>1, <1>3, RootInFamily
       DEF T!ResolveMain, T!Answer, Verdicts, T!MemoIsTrue, T!SurfacedIsOurs, OneBranch, T!Idle
<1>4. ASSUME NEW s \in Sessions, T!ResolveSeen(s) PROVE Verdicts'
    BY <1>1, <1>4
       DEF T!ResolveSeen, T!Answer, Verdicts, T!MemoIsTrue, T!SurfacedIsOurs, OneBranch, T!Idle
<1>5. ASSUME NEW s \in Sessions, T!BeginWalk(s) PROVE Verdicts'
    <2>1. OneBranch'
        BY <1>5 DEF T!BeginWalk, OneBranch
    <2> QED BY <1>1, <1>5, <2>1 DEF T!BeginWalk, Verdicts, T!MemoIsTrue, T!SurfacedIsOurs
<1>6. CASE T!LookupUnknown \/ T!LookupForeignRoot \/ T!LookupOurs \/ T!LookupSettled
    <2>1. T!MemoIsTrue' /\ T!SurfacedIsOurs'
        BY <1>1, <1>6, ConcludeIsTrue DEF Verdicts
    <2>2. asking' = NotSeen
        BY <1>6 DEF T!LookupUnknown, T!LookupForeignRoot, T!LookupOurs, T!LookupSettled, T!Conclude, T!Answer
    <2> QED BY <2>1, <2>2 DEF Verdicts, OneBranch, T!Idle
<1>7. CASE T!LookupParent
    <2>1. ~T!Idle /\ cursor \in Sessions /\ cursor # Root
        BY <1>7 DEF T!LookupParent, T!GoesOn, T!Idle, T!TypeOK
    <2>2. cursor \in T!Family <=> cursor' \in T!Family
        BY <1>7, <2>1, BranchIsOne DEF T!LookupParent, T!Up
    <2>3. /\ Len(chain') = Len(T!Walked)
          /\ \A i \in 1..Len(T!Walked) : chain'[i] \in T!Family <=> cursor \in T!Family
        BY <1>7, <2>1, WalkedIsOneBranch DEF Verdicts, T!LookupParent
    <2>4. asking' = asking /\ (asking \in T!Family <=> cursor \in T!Family)
        BY <1>7, <2>1 DEF T!LookupParent, Verdicts, OneBranch
    <2>5. OneBranch'
        BY <1>1, <2>2, <2>3, <2>4 DEF OneBranch
    <2> QED BY <1>1, <1>7, <2>5 DEF T!LookupParent, Verdicts, T!MemoIsTrue, T!SurfacedIsOurs
<1>8. CASE T!LookupTooDeep \/ T!LookupFails
    BY <1>1, <1>8
       DEF T!LookupTooDeep, T!LookupFails, T!AfterCap, T!Answer, Verdicts, T!MemoIsTrue, T!SurfacedIsOurs,
           OneBranch, T!Idle
<1> QED BY <1>2, <1>3, <1>4, <1>5, <1>6, <1>7, <1>8 DEF T!Next

\* The verdicts hold in every state.
LEMMA VerdictInvariant == T!Spec => []Verdicts
<1>1. T!Init => Verdicts
    BY ScopeFacts
       DEF T!Init, Verdicts, T!MemoIsTrue, T!SurfacedIsOurs, OneBranch, T!Idle, T!NoAnswer
<1>2. T!TypeOK /\ Verdicts /\ [T!Next]_T!vars => Verdicts'
    BY VerdictStep
<1> QED BY <1>1, <1>2, ScopeTypeCorrect, PTL DEF T!Spec

\* A remembered verdict is true of its session.
THEOREM MemoNeverLies == T!Spec => []MemoIsTrue
<1>1. Verdicts => MemoIsTrue
    BY DEF Verdicts, MemoIsTrue
<1> QED BY <1>1, VerdictInvariant, PTL

\* A gate is surfaced only for the turn that owns it, under the right name.
THEOREM OnlyOursIsSurfaced == T!Spec => []SurfacedIsOurs
<1>1. Verdicts => SurfacedIsOurs
    BY DEF Verdicts, SurfacedIsOurs
<1> QED BY <1>1, VerdictInvariant, PTL

-----------------------------------------------------------------------------
(* Near sessions.                                                          *)

\* The order of the numbers as a relation.
Lower == {ss \in Nat \X Nat : ss[1] < ss[2]}

\* A set of numbers has a least one: what is proved by induction on the number of links
\* is proved by looking at the least number for which it would fail.
LEMMA LeastNumber ==
    ASSUME NEW S \in SUBSET Nat, S # {}
    PROVE  \E m \in S : \A k \in S : m <= k
<1>1. Lower = OpToRel(<, Nat)
    BY DEF Lower, OpToRel
<1>2. PICK m \in S : \A k \in S : <<k, m>> \notin Lower
    BY <1>1, NatLessThanWellFounded, WFMin
<1>3. \A k \in S : k \in Nat /\ m \in Nat /\ ~(k < m)
    BY <1>2 DEF Lower
<1>4. \A k \in S : m <= k
    BY <1>3
<1> QED BY <1>4

\* The numbers of links that count as near.
Depths == 0..MAX_PARENT_DEPTH

\* What the definition of Generations asks of generation n.
NextGeneration(g, n) ==
    IF n = 0 THEN {Root} ELSE g[n - 1] \cup {s \in Sessions : parent[s] \in g[n - 1]}

\* There are generations up to any n.
LEMMA GenerationsUpTo ==
    ASSUME NEW n \in Nat
    PROVE  \E g : g = [i \in 0..n |-> NextGeneration(g, i)]
<1> DEFINE Bad == {k \in Nat : ~\E g : g = [i \in 0..k |-> NextGeneration(g, i)]}
<1> SUFFICES ASSUME Bad # {} PROVE FALSE
    OBVIOUS
<1>1. PICK k \in Bad : \A j \in Bad : k <= j
    BY LeastNumber
<1>2. CASE k = 0
    <2> DEFINE g == [i \in 0..0 |-> {Root}]
    <2>1. g = [i \in 0..0 |-> NextGeneration(g, i)]
        BY DEF NextGeneration
    <2> QED BY <1>1, <1>2, <2>1
<1>3. CASE k # 0
    <2>1. k \in Nat /\ k - 1 \in Nat /\ k - 1 \notin Bad
        BY <1>1, <1>3
    <2>2. PICK g : g = [i \in 0..(k - 1) |-> NextGeneration(g, i)]
        BY <2>1
    <2> DEFINE h == [i \in 0..k |-> IF i = k THEN NextGeneration(g, k) ELSE g[i]]
    <2>3. ASSUME NEW i \in 0..k PROVE h[i] = NextGeneration(h, i)
        <3>1. i # 0 => i - 1 \in 0..k /\ i - 1 # k
            BY <2>1
        <3>2. i # 0 => h[i - 1] = g[i - 1]
            BY <3>1
        <3>3. NextGeneration(h, i) = NextGeneration(g, i)
            BY <3>2 DEF NextGeneration
        <3>4. CASE i = k
            BY <3>3, <3>4
        <3>5. CASE i # k
            <4>1. i \in 0..(k - 1)
                BY <2>1, <3>5
            <4>2. g[i] = NextGeneration(g, i)
                BY <2>2, <4>1
            <4> QED BY <3>3, <3>5, <4>2
        <3> QED BY <3>4, <3>5
    <2>4. h = [i \in 0..k |-> NextGeneration(h, i)]
        BY <2>3
    <2> QED BY <1>1, <2>4
<1> QED BY <1>2, <1>3

\* The generations are what their definition says.
LEMMA GenerationsDefined ==
    /\ T!Generations[0] = {Root}
    /\ \A n \in Depths \ {0} :
          T!Generations[n] =
              T!Generations[n - 1] \cup {s \in Sessions : parent[s] \in T!Generations[n - 1]}
<1>1. MAX_PARENT_DEPTH \in Nat
    BY ScopeFacts
<1>2. PICK g : g = [n \in Depths |-> NextGeneration(g, n)]
    BY <1>1, GenerationsUpTo DEF Depths
<1>3. T!Generations = [n \in Depths |-> NextGeneration(T!Generations, n)]
    BY <1>2 DEF T!Generations, NextGeneration, Depths
<1>4. \A n \in Depths : T!Generations[n] = NextGeneration(T!Generations, n)
    BY <1>3
<1>5. 0 \in Depths
    BY <1>1 DEF Depths
<1> QED BY <1>4, <1>5 DEF NextGeneration

\* A generation holds the one before it and members of the family, and the parent of
\* any of its sessions but the root is in the one before.
Generation(n) ==
    /\ T!Generations[n] \subseteq T!Family
    /\ \A s \in T!Generations[n] : s = Root \/ (n # 0 /\ parent[s] \in T!Generations[n - 1])

\* By induction on the number of links.
LEMMA GenerationFacts ==
    ASSUME NEW n \in Depths
    PROVE  Generation(n)
<1> DEFINE Bad == {k \in Depths : ~Generation(k)}
<1> SUFFICES ASSUME Bad # {} PROVE FALSE
    OBVIOUS
<1>1. MAX_PARENT_DEPTH \in Nat
    BY ScopeFacts
<1>2. PICK k \in Bad : \A j \in Bad : k <= j
    <2>1. Bad \in SUBSET Nat
        BY <1>1 DEF Depths
    <2> HIDE DEF Bad
    <2> QED BY <2>1, LeastNumber
<1>3. CASE k = 0
    BY <1>2, <1>3, GenerationsDefined, RootInFamily DEF Generation
<1>4. CASE k # 0
    <2>1. k \in Nat /\ k - 1 \in Depths /\ k - 1 \notin Bad /\ k \in Depths \ {0}
        BY <1>1, <1>2, <1>4 DEF Depths
    <2>2. Generation(k - 1)
        BY <2>1
    <2>3. T!Generations[k] =
              T!Generations[k - 1] \cup {s \in Sessions : parent[s] \in T!Generations[k - 1]}
        BY <2>1, GenerationsDefined
    <2>4. T!Generations[k] \subseteq T!Family
        BY <2>2, <2>3, ChildrenInFamily DEF Generation
    <2>5. ASSUME NEW s \in T!Generations[k], s # Root PROVE parent[s] \in T!Generations[k - 1]
        <3>1. CASE s \in T!Generations[k - 1]
            <4>1. k - 1 # 0 /\ parent[s] \in T!Generations[k - 1 - 1]
                BY <2>2, <2>5, <3>1 DEF Generation
            <4>2. k - 1 \in Depths \ {0}
                BY <2>1, <4>1
            <4> QED BY <4>1, <4>2, GenerationsDefined
        <3> QED BY <2>3, <2>5, <3>1
    <2>6. Generation(k)
        BY <1>4, <2>4, <2>5 DEF Generation
    <2> QED BY <1>2, <2>6
<1> QED BY <1>3, <1>4

\* On its way up from a session near the root a walk is near enough to get there.
NearInv ==
    /\ ~T!Idle =>
          /\ asking = IF chain = << >> THEN cursor ELSE chain[1]
          /\ asking \in T!Within => cursor \in T!Generations[MAX_PARENT_DEPTH - Len(chain)]
    /\ T!NearIsSurfaced

\* Parent links never change, so neither do the generations.
LEMMA GenerationsAreFixed ==
    ASSUME [T!Next]_T!vars
    PROVE  T!Generations' = T!Generations /\ T!Within' = T!Within
BY FamilyIsFixed DEF T!Generations, T!Within

\* A near session that has a verdict has that of a member of the family.
LEMMA NearIsOurs ==
    ASSUME T!TypeOK, Verdicts, NEW s \in T!Within, verdict[s] # NotSeen
    PROVE  verdict[s] \in Sessions
<1>1. MAX_PARENT_DEPTH \in Depths
    BY ScopeFacts DEF Depths
<1>2. s \in T!Family /\ T!Family \subseteq Sessions
    BY <1>1, GenerationFacts DEF Generation, T!Within, T!Family
<1> QED BY <1>2 DEF T!TypeOK, Verdicts, T!MemoIsTrue

\* The cursor of such a walk has a parent, of the generation before.
LEMMA NearGoesUp ==
    ASSUME T!TypeOK, T!WalkIsShort, NearInv, ~T!Idle, asking \in T!Within
    PROVE  /\ Len(chain) \in Nat /\ MAX_PARENT_DEPTH - Len(chain) \in Depths \ {0}
           /\ T!Up \in T!Generations[MAX_PARENT_DEPTH - Len(chain) - 1]
           /\ T!Up \in T!Family /\ T!Up \in Sessions
<1> DEFINE n == MAX_PARENT_DEPTH - Len(chain)
<1>1. Len(chain) \in Nat /\ n \in Depths \ {0} /\ n - 1 \in Depths
    BY ScopeFacts, LenProperties DEF T!TypeOK, T!WalkIsShort, Depths
<1>2. cursor \in T!Generations[n] /\ cursor # Root
    BY ScopeFacts DEF NearInv, T!TypeOK, T!Idle
<1>3. T!Up \in T!Generations[n - 1]
    BY <1>1, <1>2, GenerationFacts DEF Generation, T!Up
<1>4. T!Up \in T!Family /\ T!Up \in Sessions
    BY <1>1, <1>3, GenerationFacts DEF Generation, T!Family
<1> QED BY <1>1, <1>3, <1>4

\* A walk that concludes names the session that asked, if that is near.
LEMMA NearConcludes ==
    ASSUME T!TypeOK, T!WalkIsShort, Verdicts, NearInv, [T!Next]_T!vars,
           T!LookupUnknown \/ T!LookupForeignRoot \/ T!LookupOurs \/ T!LookupSettled
    PROVE  NearInv'
<1> USE ScopeFacts
<1>1. ~T!Idle /\ T!Within' = T!Within
    BY GenerationsAreFixed DEF T!LookupUnknown, T!LookupForeignRoot, T!LookupOurs, T!LookupSettled
<1>2. PICK path, ours : T!Conclude(path, ours)
    BY DEF T!LookupUnknown, T!LookupForeignRoot, T!LookupOurs, T!LookupSettled
<1>3. asking' = NotSeen /\ resolved'.of = asking /\ resolved'.origin = T!Surfaced(verdict'[asking])
    BY <1>2 DEF T!Conclude, T!Answer
<1>4. ASSUME asking \in T!Within PROVE resolved'.origin \in Sessions
    <2>1. T!Up \in T!Family /\ T!Up \in Sessions
        BY <1>1, <1>4, NearGoesUp
    <2>2. PICK yes \in BOOLEAN : yes /\ T!Conclude(T!Walked, yes)
        <3>1. CASE T!LookupOurs
            BY <3>1 DEF T!LookupOurs
        <3>2. CASE T!LookupSettled
            <4>1. T!VerdictOurs(T!Up)
                BY <2>1 DEF T!VerdictOurs, Verdicts, T!MemoIsTrue
            <4> QED BY <3>2, <4>1 DEF T!LookupSettled, T!VerdictOurs
        <3> QED BY <2>1, <3>1, <3>2 DEF T!LookupUnknown, T!LookupForeignRoot
    <2>3. asking \in Sessions /\ \E i \in 1..Len(T!Walked) : T!Walked[i] = asking
        <3>1. chain \in Seq(Sessions \ {Root}) /\ cursor \in Sessions \ {Root} /\ asking \in Sessions
            BY <1>1 DEF T!TypeOK, T!Idle
        <3>2. /\ Len(T!Walked) = Len(chain) + 1 /\ Len(chain) \in Nat
              /\ T!Walked[Len(chain) + 1] = cursor
              /\ \A i \in 1..Len(chain) : T!Walked[i] = chain[i]
            BY <3>1, AppendProperties, LenProperties DEF T!Walked
        <3>3. CASE chain = << >>
            BY <1>1, <3>1, <3>2, <3>3 DEF NearInv
        <3>4. CASE chain # << >>
            <4>1. 1 \in 1..Len(chain)
                BY <3>1, <3>4, EmptySeq, LenProperties
            <4> QED BY <1>1, <3>1, <3>2, <3>4, <4>1 DEF NearInv
        <3> QED BY <3>3, <3>4
    <2>4. verdict'[asking] = asking
        BY <2>2, <2>3 DEF T!Conclude, T!Settled, T!NamedAfter
    <2> QED BY <1>3, <2>3, <2>4 DEF T!Surfaced
<1> QED BY <1>1, <1>3, <1>4 DEF NearInv, T!NearIsSurfaced, T!Idle

\* Every step keeps such a walk near enough.
LEMMA NearStep ==
    ASSUME T!TypeOK, T!WalkIsShort, Verdicts, NearInv, [T!Next]_T!vars
    PROVE  NearInv'
<1> USE ScopeFacts
<1>1. T!Generations' = T!Generations /\ T!Within' = T!Within
    BY GenerationsAreFixed
<1>2. CASE UNCHANGED T!vars
    BY <1>1, <1>2 DEF T!vars, T!scopeVars, NearInv, T!NearIsSurfaced, T!Idle
<1>3. CASE T!ResolveMain
    BY <1>1, <1>3 DEF T!ResolveMain, T!Answer, NearInv, T!NearIsSurfaced, T!Idle
<1>4. ASSUME NEW s \in Sessions, T!ResolveSeen(s) PROVE NearInv'
    <2>1. asking' = NotSeen /\ resolved'.of = s /\ resolved'.origin = verdict[s] /\ verdict[s] # NotSeen
        BY <1>4 DEF T!ResolveSeen, T!Answer
    <2>2. s \in T!Within => verdict[s] \in Sessions
        BY <2>1, NearIsOurs
    <2> QED BY <1>1, <2>1, <2>2 DEF NearInv, T!NearIsSurfaced, T!Idle
<1>5. ASSUME NEW s \in Sessions, T!BeginWalk(s) PROVE NearInv'
    <2>1. asking' = s /\ cursor' = s /\ chain' = << >> /\ resolved' = resolved
        BY <1>5 DEF T!BeginWalk
    <2>2. MAX_PARENT_DEPTH - Len(chain') = MAX_PARENT_DEPTH
        BY <2>1
    <2> QED BY <1>1, <2>1, <2>2 DEF NearInv, T!NearIsSurfaced, T!Within
<1>6. CASE T!LookupUnknown \/ T!LookupForeignRoot \/ T!LookupOurs \/ T!LookupSettled
    BY <1>6, NearConcludes
<1>7. CASE T!LookupParent
    <2>1. /\ ~T!Idle /\ asking' = asking /\ cursor' = T!Up /\ chain' = T!Walked
          /\ resolved' = resolved
        BY <1>7 DEF T!LookupParent, T!GoesOn
    <2>2. chain \in Seq(Sessions \ {Root}) /\ cursor \in Sessions \ {Root}
        BY <2>1 DEF T!TypeOK, T!Idle
    <2>3. /\ Len(chain) \in Nat /\ Len(chain') = Len(chain) + 1 /\ chain' # << >>
          /\ chain'[1] = IF chain = << >> THEN cursor ELSE chain[1]
        BY <2>1, <2>2, AppendProperties, LenProperties, EmptySeq DEF T!Walked
    <2>4. MAX_PARENT_DEPTH - Len(chain') = MAX_PARENT_DEPTH - Len(chain) - 1
        BY <2>3
    <2>5. asking \in T!Within => T!Up \in T!Generations[MAX_PARENT_DEPTH - Len(chain) - 1]
        BY <2>1, NearGoesUp
    <2> QED BY <1>1, <2>1, <2>3, <2>4, <2>5 DEF NearInv, T!NearIsSurfaced, T!Idle
<1>8. CASE T!LookupTooDeep
    <2>1. /\ ~T!Idle /\ T!Up # Root /\ Len(T!Walked) >= MAX_PARENT_DEPTH
          /\ asking' = NotSeen /\ resolved'.of = asking
        BY <1>8 DEF T!LookupTooDeep, T!GoesOn, T!CapReached, T!Answer
    <2>2. asking \notin T!Within
        <3> SUFFICES ASSUME asking \in T!Within PROVE FALSE
            OBVIOUS
        <3>1. /\ Len(chain) \in Nat /\ MAX_PARENT_DEPTH - Len(chain) \in Depths \ {0}
              /\ T!Up \in T!Generations[MAX_PARENT_DEPTH - Len(chain) - 1]
            BY <2>1, NearGoesUp
        <3>2. Len(T!Walked) = Len(chain) + 1
            BY <2>1 DEF T!Walked, T!TypeOK, T!Idle
        <3>3. MAX_PARENT_DEPTH - Len(chain) - 1 = 0
            BY <2>1, <3>1, <3>2 DEF Depths
        <3> QED BY <2>1, <3>1, <3>3, GenerationsDefined
    <2> QED BY <1>1, <2>1, <2>2 DEF NearInv, T!NearIsSurfaced, T!Idle
<1>9. CASE T!LookupFails
    BY <1>1, <1>9 DEF T!LookupFails, T!Answer, NearInv, T!NearIsSurfaced, T!Idle
<1> QED BY <1>2, <1>3, <1>4, <1>5, <1>6, <1>7, <1>8, <1>9 DEF T!Next

\* A gate at most MAX_PARENT_DEPTH links below the root is surfaced unless one of its
\* own lookups failed, whatever was asked before (TurnScope::resolve).
THEOREM NearIsFound == T!Spec => []NearIsSurfaced
<1>1. T!Init => NearInv
    <2>1. MAX_PARENT_DEPTH \in Depths
        BY ScopeFacts DEF Depths
    <2>2. T!Within \subseteq Sessions
        BY <2>1, GenerationFacts DEF Generation, T!Within, T!Family
    <2> QED BY <2>2, ScopeFacts DEF T!Init, T!NoAnswer, NearInv, T!NearIsSurfaced, T!Idle
<1>2. T!TypeOK /\ T!WalkIsShort /\ Verdicts /\ NearInv /\ [T!Next]_T!vars => NearInv'
    BY NearStep
<1>3. NearInv => NearIsSurfaced
    BY DEF NearInv, NearIsSurfaced
<1> QED BY <1>1, <1>2, <1>3, ScopeTypeCorrect, WalksAreShort, VerdictInvariant, PTL DEF T!Spec

\* The run of the view and the scope is a run of LiveRender and of TurnScope.
THEOREM RenderIsComposed == BothSpec => Spec /\ T!Spec
<1>1. BothInit => Init /\ T!Init
    BY DEF BothInit
<1>2. [BothNext]_<<subject, vars, scopeVars>> => [Next]_vars /\ [T!Next]_T!vars
    BY DEF BothNext, scopeVars, vars, opencodeVars, historyVars, textVars, toolVars,
           T!vars, T!scopeVars
<1> QED BY <1>1, <1>2, PTL DEF BothSpec, Spec, T!Spec

=============================================================================
