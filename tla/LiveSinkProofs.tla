--------------------------- MODULE LiveSinkProofs ---------------------------
(***************************************************************************)
(* What the sink promises for any length of the view and of the answer,    *)
(* any number of attempts and any behaviour of Telegram; and what cutting  *)
(* an answer into chunks promises for any lines and any limit.             *)
(***************************************************************************)
EXTENDS SinkAndChunks, SequenceTheorems, FiniteSetTheorems, WellFoundedInduction, TLAPS

\* The constants one by one.
LEMMA Bounds ==
    /\ MaxView \in Nat /\ MaxChunks \in Nat /\ MaxLost \in Nat /\ MaxRefused \in Nat
    /\ MaxAttempts \in Nat /\ MaxAttempts >= 1
BY BoundsAssumption

Messages == [text : Text, mode : Modes]

CallsOut == [op : {"send", "edit"}, text : Text, mode : Modes, attempt : 1..MaxAttempts,
             waiting : BOOLEAN]

-----------------------------------------------------------------------------
(* Types.                                                                  *)

SinkType ==
    /\ loop \in {"streaming", "finalizing", "noting", "failing", "done", "failed"}
    /\ view \in 0..MaxView
    /\ lastSent \in 0..MaxView
    /\ lost \in 0..MaxLost /\ refused \in 0..MaxRefused
    /\ cause \in BOOLEAN

ChatType == message \in 0..Len(chat) /\ chat \in Seq(Messages)

FinalType ==
    /\ final \in Seq(Text)
    /\ sent \in 0..Len(final)
    /\ loop = "streaming" => sent = 0

\* What a call in flight is for.
CallType ==
    /\ call \in {NoCall} \cup CallsOut
    /\ call.op = "edit" => message # 0
    /\ call.waiting => call.attempt < MaxAttempts
    /\ call # NoCall =>
          /\ loop \in {"streaming", "finalizing", "noting", "failing"}
          /\ loop = "streaming" => call.text \in 1..MaxView
          /\ loop = "finalizing" => sent < Len(final)

TypeInv == SinkType /\ ChatType /\ FinalType /\ CallType

\* Texts are numbers, and the call that is none is none of the calls.
LEMMA Texts0 ==
    /\ Text \subseteq Nat
    /\ Note \in Text /\ ErrorText \in Text /\ Note > MaxView
    /\ \A v \in 1..MaxView : v \in Text
    /\ \A k \in 1..MaxChunks : Chunk(k) \in Text
    /\ NoCall \notin CallsOut
    /\ NoCall.op = "none" /\ NoCall.waiting = FALSE
  BY Bounds DEF Text, Note, ErrorText, Chunk, NoCall, CallsOut

\* What a call does to the chat.
LEMMA DoneFacts ==
    ASSUME ChatType, CallType, call # NoCall
    PROVE  /\ Done(chat) \in Seq(Messages)
           /\ Len(chat) \in Nat
           /\ Len(Done(chat)) = IF call.op = "send" THEN Len(chat) + 1 ELSE Len(chat)
           /\ call.op = "send" => /\ Done(chat)[Len(chat) + 1].text = call.text
                                  /\ \A i \in 1..Len(chat) : Done(chat)[i] = chat[i]
           /\ call.op = "edit" => /\ message \in 1..Len(chat)
                                  /\ Done(chat)[message].text = call.text
<1>1. call \in CallsOut /\ Reads(call.text, call.mode) \in Messages
    BY DEF CallType, CallsOut, Reads, Messages
<1>2. chat \in Seq(Messages) /\ Len(chat) \in Nat
    BY LenProperties DEF ChatType
<1>3. Reads(call.text, call.mode).text = call.text
    BY DEF Reads
<1> HIDE DEF Reads, Messages
<1>4. CASE call.op = "send"
    BY <1>1, <1>2, <1>3, <1>4, AppendProperties DEF Done
<1>5. CASE call.op = "edit"
  <2>1. message \in 1..Len(chat)
      BY <1>2, <1>5 DEF ChatType, CallType
  <2>2. Done(chat) = [chat EXCEPT ![message] = Reads(call.text, call.mode)]
      BY <1>5 DEF Done
  <2> QED BY <1>1, <1>2, <1>3, <1>5, <2>1, <2>2
<1> QED BY <1>1, <1>4, <1>5 DEF CallsOut

\* The end of a call keeps the types.
LEMMA SettlesType ==
    ASSUME TypeInv, call # NoCall, NEW ok \in BOOLEAN, Settles(ok),
           IF ok THEN chat' = Done(chat) ELSE (chat' = chat \/ chat' = Done(chat)),
           lost' \in 0..MaxLost, refused' \in 0..MaxRefused, cause' \in BOOLEAN
    PROVE  TypeInv'
<1> USE DEF TypeInv
<1>1. call \in CallsOut
    BY DEF CallType
<1>2. chat' \in Seq(Messages) /\ Len(chat') \in Nat /\ Len(chat') >= Len(chat) /\ Len(chat) \in Nat
    BY DoneFacts, LenProperties DEF ChatType
<1>3. ChatType'
    BY <1>2 DEF ChatType, Settles, MessageAfter
<1>4. SinkType'
  <2>1. lastSent' \in 0..MaxView
      BY Bounds DEF Settles, SentAfter, CallType, SinkType
  <2>2. loop' \in {"streaming", "finalizing", "noting", "failing", "done", "failed"}
      BY DEF Settles, CallType
  <2>3. view' = view
      BY DEF Settles
  <2> QED BY <2>1, <2>2, <2>3 DEF SinkType
<1>5. FinalType'
  <2>1. Len(final) \in Nat /\ final' = final
      BY LenProperties DEF FinalType, Settles
  <2> QED BY <2>1 DEF Settles, FinalType, CallType
<1>6. CallType'
    BY Texts0 DEF Settles, CallType
<1> QED BY <1>3, <1>4, <1>5, <1>6

\* A call that goes on keeps the types.
LEMMA GoesOnType ==
    ASSUME TypeInv, call # NoCall, call' \in CallsOut,
           call'.op = call.op, call'.text = call.text,
           call'.waiting => call'.attempt < MaxAttempts,
           chat' = chat \/ chat' = Done(chat),
           UNCHANGED <<loop, sinkVars, answerVars, refused, cause>>, lost' \in 0..MaxLost
    PROVE  TypeInv'
<1> USE DEF TypeInv, sinkVars, answerVars
<1>1. chat' \in Seq(Messages) /\ Len(chat') >= Len(chat) /\ Len(chat) \in Nat /\ Len(chat') \in Nat
    BY DoneFacts, LenProperties DEF ChatType
<1>2. ChatType'
    BY <1>1 DEF ChatType
<1>3. SinkType' /\ FinalType'
    BY DEF SinkType, FinalType
<1>4. CallType'
    BY DEF CallType
<1> QED BY <1>2, <1>3, <1>4

\* A call that begins keeps the types.
LEMMA CallsType ==
    ASSUME TypeInv, call = NoCall,
           NEW op \in {"send", "edit"}, NEW text \in Text, NEW mode \in Modes,
           Calls(op, text, mode), op = "edit" => message # 0,
           loop \in {"streaming", "finalizing", "noting", "failing"},
           loop = "streaming" => text \in 1..MaxView,
           loop = "finalizing" => sent < Len(final),
           UNCHANGED <<loop, sinkVars, answerVars, chat, boundVars, cause>>
    PROVE  TypeInv'
<1> USE DEF TypeInv, sinkVars, answerVars, boundVars
<1>1. SinkType' /\ ChatType' /\ FinalType'
    BY DEF SinkType, ChatType, FinalType
<1>2. call' \in CallsOut /\ call'.op = op /\ call'.text = text /\ call'.waiting = FALSE
    BY Bounds DEF Calls, CallsOut
<1>3. CallType'
    BY <1>2 DEF CallType
<1> QED BY <1>1, <1>3

\* The answer is made of texts.
LEMMA AnswerType ==
    ASSUME TypeInv, NEW n \in 1..MaxChunks, NEW first \in {Chunk(1)} \cup ({view} \ {0})
    PROVE  Answer(n, first) \in Seq(Text)
<1>1. first \in Text
  <2>1. 1 \in 1..MaxChunks
      BY Bounds
  <2>2. view # 0 => view \in 1..MaxView
      BY Bounds DEF TypeInv, SinkType
  <2> QED BY <2>1, <2>2, Texts0
<1>2. \A k \in 1..n : Chunk(k) \in Text
    BY Texts0, Bounds
<1>3. n \in Nat
    BY Bounds
<1> QED BY <1>1, <1>2, <1>3 DEF Answer

\* What comes of a call in flight: it ends well, it ends badly, or it goes on.
Bounded == lost' \in 0..MaxLost /\ refused' \in 0..MaxRefused /\ cause' \in BOOLEAN

EndingWell  == Settles(TRUE) /\ chat' = Done(chat) /\ Bounded
EndingBadly == Settles(FALSE) /\ (chat' = chat \/ chat' = Done(chat)) /\ Bounded

GoingOn ==
    /\ call' \in CallsOut
    /\ call'.op = call.op /\ call'.text = call.text
    /\ call'.waiting => call'.attempt < MaxAttempts
    /\ chat' = chat \/ chat' = Done(chat)
    /\ UNCHANGED <<loop, sinkVars, answerVars, refused, cause>>
    /\ lost' \in 0..MaxLost

\* A call that was not answered has failed for good or goes on.
LEMMA RetriesCases ==
    ASSUME call \in CallsOut, Retries,
           chat' = chat \/ chat' = Done(chat), refused' = refused, lost' \in 0..MaxLost
    PROVE  GoingOn \/ (Settles(FALSE) /\ cause' = Blamed)
<1> SUFFICES ASSUME /\ ~GivesUp(call.attempt)
                    /\ call' = [call EXCEPT !.waiting = TRUE]
                    /\ UNCHANGED <<loop, sinkVars, answerVars, cause>>
             PROVE  GoingOn
    BY Zenon DEF Retries
<1>1. /\ call' \in CallsOut
      /\ call'.op = call.op /\ call'.text = call.text /\ call'.attempt = call.attempt
    BY DEF CallsOut
<1>2. call.attempt \in 1..MaxAttempts
    BY DEF CallsOut
<1>3. call'.attempt < MaxAttempts
    BY <1>1, <1>2, Bounds DEF GivesUp
<1> QED BY <1>1, <1>3 DEF GoingOn

\* An answer from Telegram, or none, and a backoff that ends: the call is over or goes on.
LEMMA ReturnsCases ==
    ASSUME TypeInv, Returns \/ BackedOff
    PROVE  /\ call # NoCall /\ call \in CallsOut
           /\ EndingWell \/ EndingBadly \/ GoingOn
<1> USE Bounds DEF TypeInv
<1>0. call # NoCall /\ call \in CallsOut
    BY Texts0 DEF Returns, BackedOff, Replied, Unparsed, NotModified, Refused, NotReached,
              ReplyLost, Pending, CallType
<1> SUFFICES EndingWell \/ EndingBadly \/ GoingOn
    BY <1>0
<1>1. lost \in 0..MaxLost /\ refused \in 0..MaxRefused /\ cause \in BOOLEAN
    BY DEF SinkType
<1>2. Blamed \in BOOLEAN
    BY <1>1 DEF Blamed
<1>3. CASE Replied
  <2>1. Settles(TRUE) /\ chat' = Done(chat)
      BY <1>3, Zenon DEF Replied
  <2>2. Bounded
      BY <1>1, <1>3 DEF Replied, boundVars, Bounded
  <2> QED BY <2>1, <2>2, Zenon DEF EndingWell
<1>4. CASE Unparsed
  <2>1. call' \in CallsOut /\ call'.op = call.op /\ call'.text = call.text
        /\ call'.waiting = call.waiting
    <3>1. call' = [op |-> call.op, text |-> call.text, mode |-> "plain", attempt |-> 1,
                   waiting |-> call.waiting]
        BY <1>0, <1>4 DEF Unparsed, CallsOut
    <3>2. 1 \in 1..MaxAttempts /\ "plain" \in Modes
        BY DEF Modes
    <3> QED BY <1>0, <3>1, <3>2 DEF CallsOut
  <2>2. ~call.waiting
      BY <1>4 DEF Unparsed, Pending
  <2> QED BY <1>1, <1>4, <2>1, <2>2 DEF Unparsed, GoingOn, boundVars
<1>5. CASE NotModified
  <2>1. Settles(FALSE) /\ chat' = chat
      BY <1>5, Zenon DEF NotModified
  <2>2. Bounded
      BY <1>1, <1>5 DEF NotModified, boundVars, Bounded
  <2> QED BY <2>1, <2>2, Zenon DEF EndingBadly
<1>6. CASE Refused
  <2>1. Settles(FALSE) /\ chat' = chat
      BY <1>6, Zenon DEF Refused
  <2>2. Bounded
      BY <1>1, <1>2, <1>6 DEF Refused, Bounded
  <2> QED BY <2>1, <2>2, Zenon DEF EndingBadly
<1>7. ASSUME Retries, chat' = chat \/ chat' = Done(chat), refused' = refused, lost' \in 0..MaxLost
      PROVE  GoingOn \/ EndingBadly
  <2>1. CASE Settles(FALSE) /\ cause' = Blamed
      BY <1>1, <1>2, <1>7, <2>1, Zenon DEF EndingBadly, Bounded
  <2> QED BY <1>0, <1>7, <2>1, RetriesCases
<1>8. CASE NotReached
    BY <1>1, <1>7, <1>8 DEF NotReached, boundVars
<1>9. CASE ReplyLost
  <2>1. lost' \in 0..MaxLost
      BY <1>1, <1>9 DEF ReplyLost
  <2> QED BY <1>7, <1>9, <2>1 DEF ReplyLost
<1>10. CASE BackedOff
  <2>1. call.attempt \in 1..MaxAttempts /\ call.attempt < MaxAttempts
      BY <1>0, <1>10 DEF BackedOff, CallType, CallsOut
  <2>2. call.attempt + 1 \in 1..MaxAttempts
      BY <2>1
  <2>3. call' \in CallsOut /\ call'.op = call.op /\ call'.text = call.text /\ ~call'.waiting
      BY <1>0, <1>10, <2>2 DEF BackedOff, NextAttempt, CallsOut
  <2> QED BY <1>0, <1>1, <1>10, <2>3 DEF BackedOff, GoingOn, boundVars
<1> QED BY <1>0, <1>3, <1>4, <1>5, <1>6, <1>8, <1>9, <1>10 DEF Returns

\* Every step keeps the types.
LEMMA TypeStep ==
    ASSUME TypeInv, [Next]_vars
    PROVE  TypeInv'
<1> USE DEF TypeInv
<1>1. CASE UNCHANGED vars
    BY <1>1 DEF vars, sinkVars, answerVars, boundVars, SinkType, ChatType, FinalType, CallType
<1>2. CASE Returns \/ BackedOff
  <2>1. CASE GoingOn
      BY <1>2, <2>1, ReturnsCases, GoesOnType DEF GoingOn
  <2>2. CASE EndingWell
      BY <1>2, <2>2, ReturnsCases, SettlesType DEF EndingWell, Bounded
  <2>3. CASE EndingBadly
      BY <1>2, <2>3, ReturnsCases, SettlesType DEF EndingBadly, Bounded
  <2> QED BY <1>2, <2>1, <2>2, <2>3, ReturnsCases
<1>3. CASE ViewChanges
    BY <1>3, Bounds, Texts0 DEF ViewChanges, answerVars, boundVars, SinkType, ChatType, FinalType,
                                CallType
<1>4. CASE PromptReturns
  <2>1. final' \in Seq(Text)
    <3>1. CASE final' = << >>
        BY <3>1
    <3>2. ASSUME NEW n \in 1..MaxChunks, NEW first \in {Chunk(1)} \cup ({view} \ {0}),
                 final' = Answer(n, first)
          PROVE  final' \in Seq(Text)
        BY <3>2, AnswerType
    <3> QED BY <1>4, <3>1, <3>2 DEF PromptReturns
  <2>2. sent = 0 /\ sent' = 0 /\ call' = NoCall
      BY <1>4 DEF PromptReturns, FinalType
  <2>3. Len(final') \in Nat
      BY <2>1, LenProperties
  <2>4. FinalType'
      BY <2>1, <2>2, <2>3 DEF FinalType
  <2>5. SinkType' /\ ChatType' /\ CallType'
      BY <1>4, <2>2, Texts0 DEF PromptReturns, SinkType, ChatType, CallType, sinkVars, boundVars
  <2> QED BY <2>4, <2>5
<1>5. CASE PromptFails
    BY <1>5, Texts0 DEF PromptFails, sinkVars, answerVars, boundVars, SinkType, ChatType, FinalType,
                        CallType
<1>6. CASE Flush
  <2>1. view \in 1..MaxView /\ view \in Text /\ "formatted" \in Modes
      BY <1>6, Bounds, Texts0 DEF Flush, SinkType, Modes
  <2>2. CASE message = 0 /\ Calls("send", view, "formatted")
      BY <1>6, <2>1, <2>2, CallsType DEF Flush
  <2>3. CASE message # 0 /\ Calls("edit", view, "formatted")
      BY <1>6, <2>1, <2>3, CallsType DEF Flush
  <2> QED BY <1>6, <2>2, <2>3 DEF Flush
<1>7. CASE FinalEdit
  <2>1. final[1] \in Text /\ "formatted" \in Modes
      BY <1>7, ElementOfSeq, LenProperties DEF FinalEdit, Finalizing, FinalType, Modes
  <2> QED BY <1>7, <2>1, CallsType DEF FinalEdit, Finalizing
<1>8. CASE FinalIsShown
  <2>1. sent' = 1 /\ Len(final) \in Nat /\ Len(final) > 0 /\ call' = call /\ call = NoCall
      BY <1>8, LenProperties DEF FinalIsShown, Finalizing, FinalType
  <2> QED BY <1>8, <2>1, Texts0 DEF FinalIsShown, Finalizing, sinkVars, boundVars, SinkType,
                                    ChatType, FinalType, CallType
<1>9. CASE FinalSend
  <2>1. final[sent + 1] \in Text /\ "formatted" \in Modes
      BY <1>9, ElementOfSeq, LenProperties DEF FinalSend, Finalizing, FinalType, Modes
  <2> QED BY <1>9, <2>1, CallsType DEF FinalSend, Finalizing
<1>10. CASE FinalDone
    BY <1>10, Texts0 DEF FinalDone, sinkVars, answerVars, boundVars, SinkType, ChatType, FinalType,
                         CallType
<1>11. CASE SendNote
  <2>1. Note \in Text /\ "plain" \in Modes
      BY Texts0 DEF Modes
  <2>2. CASE message = 0 /\ Calls("send", Note, "plain")
      BY <1>11, <2>1, <2>2, CallsType DEF SendNote
  <2>3. CASE message # 0 /\ Calls("edit", Note, "plain")
      BY <1>11, <2>1, <2>3, CallsType DEF SendNote
  <2> QED BY <1>11, <2>2, <2>3 DEF SendNote
<1>12. CASE SendError
  <2>1. ErrorText \in Text /\ "plain" \in Modes
      BY Texts0 DEF Modes
  <2> QED BY <1>12, <2>1, CallsType DEF SendError
<1> QED BY <1>1, <1>2, <1>3, <1>4, <1>5, <1>6, <1>7, <1>8, <1>9, <1>10, <1>11, <1>12
        DEF Next, Returns

\* The types are invariant.
LEMMA TypesHold == Spec => []TypeInv
<1>1. Init => TypeInv
  <2> SUFFICES ASSUME Init PROVE TypeInv
      OBVIOUS
  <2>1. call = NoCall /\ SinkType
    <3>1. call = NoCall /\ cause \in BOOLEAN
        BY Zenon DEF Init
    <3>2. loop = "streaming" /\ view = 0 /\ lastSent = 0 /\ lost = 0 /\ refused = 0
        BY DEF Init
    <3> QED BY <3>1, <3>2, Bounds DEF SinkType
  <2>2. ChatType
      BY DEF Init, ChatType
  <2>3. FinalType
      BY DEF Init, FinalType
  <2> QED BY <2>1, <2>2, <2>3, Texts0 DEF TypeInv, CallType
<1>2. TypeInv /\ [Next]_vars => TypeInv'
    BY TypeStep
<1> QED BY <1>1, <1>2, PTL DEF Spec

\* Every variable keeps its type, and no call has more than MAX_ATTEMPTS attempts.
THEOREM TypeCorrect == Spec => []TypeOK
<1>1. TypeInv => TypeOK
    BY DEF TypeInv, SinkType, ChatType, FinalType, CallType, CallsOut, Messages, TypeOK
<1> QED BY <1>1, TypesHold, PTL

-----------------------------------------------------------------------------
(* What is believed of the live message.                                   *)

\* Until the first chunk of the answer is shown, and while no reply was lost, the turn
\* has one message at most, and it shows what is believed of it.
Believing ==
    \/ loop \in {"streaming", "noting"}
    \/ loop = "finalizing" /\ sent = 0

BeliefInv ==
    lost = 0 /\ Believing =>
        /\ Len(chat) = message
        /\ message <= 1
        /\ message = 1 => chat[1].text = lastSent

\* An edit in flight is of another text than is believed to be shown; the call in flight
\* while streaming is an edit if there is a message, and else a send.
EditInv ==
    /\ call.op = "edit" => Believing /\ call.text # lastSent
    /\ loop = "streaming" /\ call.op = "send" => message = 0

\* A turn that fails has a cause, unless a reply was lost.
CauseInv == loop \in {"failing", "failed"} => cause \/ lost > 0

SinkInv == BeliefInv /\ EditInv /\ CauseInv

\* While no reply was lost, Telegram finds that an edit changes something.
LEMMA EditsModify ==
    ASSUME TypeInv, BeliefInv, EditInv, lost = 0
    PROVE  Modifies
<1>1. CASE call.op = "edit"
  <2>1. message # 0 /\ message \in 0..Len(chat) /\ message <= 1 /\ Len(chat) = message
      BY <1>1 DEF TypeInv, CallType, ChatType, BeliefInv, EditInv
  <2>2. message = 1 /\ chat[1].text = lastSent /\ call.text # lastSent
      BY <1>1, <2>1 DEF BeliefInv, EditInv
  <2>3. Reads(call.text, call.mode).text = call.text
      BY DEF Reads
  <2>4. chat[message] # Reads(call.text, call.mode)
      BY <2>2, <2>3
  <2> QED BY <2>4 DEF Modifies
<1>2. CASE call.op # "edit"
    BY <1>2 DEF Modifies
<1> QED BY <1>1, <1>2

\* No step that is not an answer of Telegram touches the chat or the belief, and what it
\* sends is new.
LEMMA OwnStep ==
    ASSUME TypeInv, SinkInv,
           \/ ViewChanges \/ Flush \/ PromptReturns \/ PromptFails
           \/ FinalEdit \/ FinalIsShown \/ FinalSend \/ FinalDone \/ SendNote \/ SendError
    PROVE  SinkInv'
<1> USE DEF SinkInv, BeliefInv, EditInv, CauseInv, Believing, sinkVars, answerVars, boundVars
<1>0. NoCall.op = "none" /\ lost \in Nat
    BY Bounds, Texts0 DEF TypeInv, SinkType
<1>1. CASE ViewChanges
    BY <1>0, <1>1 DEF ViewChanges
<1>2. CASE Flush
    BY <1>0, <1>2 DEF Flush, Calls, Differs
<1>3. CASE PromptReturns
  <2>1. sent = 0
      BY <1>3 DEF PromptReturns, TypeInv, FinalType
  <2> QED BY <1>0, <1>3, <2>1 DEF PromptReturns
<1>4. CASE PromptFails
    BY <1>0, <1>4 DEF PromptFails
<1>5. CASE FinalEdit
    BY <1>0, <1>5 DEF FinalEdit, Finalizing, Calls, Differs
<1>6. CASE FinalIsShown
    BY <1>0, <1>6 DEF FinalIsShown, Finalizing
<1>7. CASE FinalSend
    BY <1>0, <1>7 DEF FinalSend, Finalizing, Calls
<1>8. CASE FinalDone
    BY <1>0, <1>8 DEF FinalDone
<1>9. CASE SendNote
  <2>1. Note # lastSent
      BY Bounds, Texts0 DEF TypeInv, SinkType
  <2> QED BY <1>0, <1>9, <2>1 DEF SendNote, Calls
<1>10. CASE SendError
    BY <1>0, <1>10 DEF SendError, Calls
<1> QED BY <1>1, <1>2, <1>3, <1>4, <1>5, <1>6, <1>7, <1>8, <1>9, <1>10

\* An answer that is delivered brings belief and chat together.
LEMMA WellStep ==
    ASSUME TypeInv, SinkInv, call # NoCall, call \in CallsOut, lost' = lost, cause' = cause,
           Settles(TRUE), chat' = Done(chat)
    PROVE  SinkInv'
<1> USE DEF SinkInv
<1>0. NoCall.op = "none" /\ lost \in Nat /\ call' = NoCall
    BY Bounds, Texts0 DEF TypeInv, SinkType, Settles
<1>1. EditInv'
    BY <1>0 DEF EditInv
<1>2. CauseInv'
    BY DEF Settles, CauseInv, TypeInv, CallType
<1>3. BeliefInv'
  <2> SUFFICES ASSUME lost = 0, Believing'
               PROVE  /\ Len(chat') = message'
                      /\ message' <= 1
                      /\ message' = 1 => chat'[1].text = lastSent'
      BY DEF BeliefInv
  <2>1. loop = "streaming" /\ loop' = "streaming"
    <3>1. loop \in {"streaming", "finalizing", "noting", "failing"}
        BY DEF TypeInv, CallType
    <3>2. loop = "finalizing" => loop' = "finalizing" /\ sent' = sent + 1 /\ sent + 1 # 0
        BY LenProperties DEF Settles, TypeInv, FinalType
    <3>3. loop = "noting" => loop' = "done"
        BY DEF Settles
    <3>4. loop = "failing" => loop' = "failed"
        BY DEF Settles
    <3> QED BY <3>1, <3>2, <3>3, <3>4 DEF Believing, Settles
  <2>2. lastSent' = call.text
      BY <2>1 DEF Settles, SentAfter
  <2>3. Len(chat) = message /\ message <= 1 /\ Len(chat) \in Nat
      BY <2>1, LenProperties DEF BeliefInv, Believing, TypeInv, ChatType
  <2>4. CASE call.op = "send"
    <3>1. message = 0 /\ message' = Len(chat')
        BY <2>1, <2>4 DEF EditInv, Settles, MessageAfter
    <3>2. Len(chat') = 1 /\ chat'[1].text = call.text
        BY <2>3, <2>4, <3>1, DoneFacts DEF TypeInv
    <3> QED BY <2>2, <3>1, <3>2
  <2>5. CASE call.op = "edit"
    <3>1. message' = message /\ message # 0 /\ message = 1
        BY <2>1, <2>3, <2>5 DEF Settles, MessageAfter, TypeInv, CallType
    <3>2. Len(chat') = Len(chat) /\ chat'[message].text = call.text
        BY <2>5, DoneFacts DEF TypeInv
    <3> QED BY <2>2, <2>3, <3>1, <3>2
  <2> QED BY <2>4, <2>5 DEF CallsOut
<1> QED BY <1>1, <1>2, <1>3

\* A call that fails without an effect leaves belief and chat together, and a turn that
\* fails by it has a cause: Telegram does not find that an edit changes nothing.
LEMMA BadStep ==
    ASSUME TypeInv, SinkInv, call # NoCall, call \in CallsOut, lost' = lost,
           Settles(FALSE), chat' = chat,
           cause' = Blamed \/ (call.op = "edit" /\ ~Modifies /\ cause' = cause)
    PROVE  SinkInv'
<1> USE DEF SinkInv
<1>0. NoCall.op = "none" /\ lost \in Nat /\ call' = NoCall
    BY Bounds, Texts0 DEF TypeInv, SinkType, Settles
<1>1. EditInv'
    BY <1>0 DEF EditInv
<1>2. lastSent' = lastSent /\ message' = message /\ sent' = sent
    BY DEF Settles, SentAfter, MessageAfter
<1>3. loop \in {"streaming", "finalizing", "noting", "failing"}
    BY DEF TypeInv, CallType
<1>4. BeliefInv'
  <2>1. Believing' => Believing
      BY <1>2, <1>3 DEF Settles, Believing
  <2> QED BY <1>2, <2>1 DEF BeliefInv
<1>5. CauseInv'
  <2>1. CASE cause' = Blamed
    <3>1. loop = "streaming" => loop' = "streaming"
        BY DEF Settles
    <3> QED BY <2>1, <3>1 DEF Blamed, CauseInv
  <2>2. CASE call.op = "edit" /\ ~Modifies /\ cause' = cause
    <3>1. lost > 0
        BY <1>0, <2>2, EditsModify
    <3> QED BY <3>1 DEF CauseInv
  <2> QED BY <2>1, <2>2
<1> QED BY <1>1, <1>4, <1>5

\* Once a reply was lost, nothing is claimed of belief or cause.
LEMMA LostStep ==
    ASSUME TypeInv, SinkInv, lost' = lost + 1, call' = NoCall \/ GoingOn
    PROVE  SinkInv'
<1>0. NoCall.op = "none" /\ lost \in Nat /\ lost' > 0
    BY Bounds, Texts0 DEF TypeInv, SinkType
<1>1. EditInv'
  <2>1. CASE call' = NoCall
      BY <1>0, <2>1 DEF EditInv
  <2>2. CASE GoingOn
      BY <2>2 DEF GoingOn, SinkInv, EditInv, Believing, sinkVars, answerVars
  <2> QED BY <2>1, <2>2
<1> QED BY <1>0, <1>1 DEF SinkInv, BeliefInv, CauseInv

\* A call that goes on without an effect changes nothing that matters.
LEMMA WaitStep ==
    ASSUME SinkInv, GoingOn, chat' = chat, lost' = lost
    PROVE  SinkInv'
BY DEF SinkInv, BeliefInv, EditInv, CauseInv, Believing, GoingOn, sinkVars, answerVars

\* Every step keeps belief and cause.
LEMMA SinkStep ==
    ASSUME TypeInv, SinkInv, [Next]_vars
    PROVE  SinkInv'
<1>0. lost \in Nat
    BY Bounds DEF TypeInv, SinkType
<1>1. CASE UNCHANGED vars
    BY <1>1 DEF vars, sinkVars, answerVars, boundVars, SinkInv, BeliefInv, EditInv, CauseInv,
                Believing
<1>2. CASE Returns \/ BackedOff
  <2>1. call # NoCall /\ call \in CallsOut /\ (EndingWell \/ EndingBadly \/ GoingOn)
      BY <1>2, ReturnsCases
  <2>2. CASE Replied
      BY <2>1, <2>2, WellStep DEF Replied, boundVars
  <2>3. CASE Unparsed
    <3>1. GoingOn
      <4>1. call' # NoCall
          BY <2>1, <2>3, Texts0 DEF Unparsed, CallsOut, NoCall
      <4> QED BY <2>1, <4>1 DEF EndingWell, EndingBadly, Settles
    <3> QED BY <2>3, <3>1, WaitStep DEF Unparsed, boundVars
  <2>4. CASE NotModified
    <3>1. call.op = "edit" /\ ~Modifies
        BY <2>4 DEF NotModified, Modifies
    <3> QED BY <2>1, <2>4, <3>1, BadStep DEF NotModified, boundVars
  <2>5. CASE Refused
      BY <2>1, <2>5, BadStep DEF Refused
  <2>6. CASE NotReached
    <3>1. chat' = chat /\ lost' = lost /\ Retries
        BY <2>6 DEF NotReached, boundVars
    <3>2. CASE Settles(FALSE) /\ cause' = Blamed
        BY <2>1, <3>1, <3>2, BadStep
    <3>3. CASE GoingOn
        BY <3>1, <3>3, WaitStep
    <3>4. (Settles(FALSE) /\ cause' = Blamed) \/ GoingOn
      <4>1. refused' = refused /\ lost' \in 0..MaxLost
          BY <2>6 DEF NotReached, boundVars, TypeInv, SinkType
      <4> QED BY <2>1, <3>1, <4>1, RetriesCases
    <3> QED BY <3>2, <3>3, <3>4
  <2>7. CASE ReplyLost
    <3>1. call' = NoCall \/ GoingOn
        BY <2>1 DEF EndingWell, EndingBadly, Settles
    <3> QED BY <2>7, <3>1, LostStep DEF ReplyLost
  <2>8. CASE BackedOff
    <3>1. GoingOn
      <4>1. call' # NoCall
          BY <2>1, <2>8, Texts0 DEF BackedOff, CallsOut, NoCall
      <4> QED BY <2>1, <4>1 DEF EndingWell, EndingBadly, Settles
    <3> QED BY <2>8, <3>1, WaitStep DEF BackedOff, boundVars
  <2> QED BY <1>2, <2>2, <2>3, <2>4, <2>5, <2>6, <2>7, <2>8 DEF Returns
<1> QED BY <1>1, <1>2, OwnStep DEF Next, Returns

\* Belief and cause are invariant.
LEMMA SinkHolds == Spec => []SinkInv
<1>1. Init => SinkInv
  <2> SUFFICES ASSUME Init PROVE SinkInv
      OBVIOUS
  <2>1. call.op = "none" /\ chat = << >> /\ message = 0 /\ loop = "streaming"
      BY Texts0 DEF Init
  <2> QED BY <2>1 DEF SinkInv, BeliefInv, EditInv, CauseInv
<1>2. TypeInv /\ SinkInv /\ [Next]_vars => SinkInv'
    BY SinkStep
<1> QED BY <1>1, <1>2, TypesHold, PTL DEF Spec

\* While every reply arrives, the turn has one message at most, and what is believed
\* of it is what it shows (stream.rs:353-389).
THEOREM BeliefIsTrue == Spec => []BelievedIsShown
<1>1. SinkInv => BelievedIsShown
    BY DEF SinkInv, BeliefInv, Believing, BelievedIsShown
<1> QED BY <1>1, SinkHolds, PTL

\* A turn fails only for a cause outside of the sink, or with a reply lost: of itself it
\* does not edit in vain (stream.rs:373, 445).
THEOREM NoFailureOfItsOwn == Spec => []FailsForCause
<1>1. SinkInv => FailsForCause
    BY DEF SinkInv, CauseInv, FailsForCause
<1> QED BY <1>1, SinkHolds, PTL

-----------------------------------------------------------------------------
(* The answer.                                                             *)

\* The first n chunks stand in the chat, in their order.
Shown(n) ==
    \E at \in [1..n -> 1..Len(chat)] :
        /\ \A k \in 1..n : chat[at[k]].text = final[k]
        /\ \A j, k \in 1..n : j < k => at[j] < at[k]

\* They are all there is.
Alone(n) == Len(chat) = n /\ \A k \in 1..n : chat[k].text = final[k]

\* A text that was sent as it is was rejected before.
PlainForCause == \A i \in 1..Len(chat) : chat[i].mode = "plain" => chat[i].text \in Unparsable

\* The view a flush has taken is the one now, and is not the one believed to be
\* shown; if that is the view now, it is shown, whatever replies were lost.
ViewInv ==
    loop = "streaming" =>
        /\ lastSent <= view
        /\ call # NoCall => call.text = view /\ lastSent # view
        /\ message # 0 /\ lastSent = view => chat[message].text = view

\* A call of finalize is for the next chunk; the live message is edited for the
\* first one only, and if that needs no edit then it is shown.
FinalInv ==
    loop = "finalizing" =>
        /\ final # << >>
        /\ call # NoCall => /\ call.text = final[sent + 1]
                            /\ call.op = "send" /\ sent = 0 => message = 0
        /\ sent = 0 /\ message # 0 /\ final[1] = lastSent => chat[message].text = final[1]
        /\ Shown(sent)
        /\ lost = 0 /\ sent > 0 => Alone(sent)

NoteInv == loop = "noting" => final = << >>

EndInv ==
    loop = "done" /\ final # << >> =>
        Shown(Len(final)) /\ PlainForCause /\ (lost = 0 => Alone(Len(final)))

ModeInv ==
    loop \in {"streaming", "finalizing"} =>
        /\ PlainForCause
        /\ call # NoCall /\ call.mode = "plain" => call.text \in Unparsable

AnswerInv == ViewInv /\ FinalInv /\ NoteInv /\ EndInv /\ ModeInv

\* A chunk that is shown stays shown when messages are added,
LEMMA ShownKept ==
    ASSUME NEW n \in Nat, Shown(n), Len(chat) \in Nat, Len(chat') \in Nat,
           Len(chat') >= Len(chat), \A i \in 1..Len(chat) : chat'[i] = chat[i],
           final' = final
    PROVE  Shown(n)'
<1>1. PICK at \in [1..n -> 1..Len(chat)] :
         /\ \A k \in 1..n : chat[at[k]].text = final[k]
         /\ \A j, k \in 1..n : j < k => at[j] < at[k]
    BY DEF Shown
<1>2. at \in [1..n -> 1..Len(chat')]
    BY <1>1
<1>3. \A k \in 1..n : chat'[at[k]].text = final'[k]
    BY <1>1
<1> QED BY <1>1, <1>2, <1>3 DEF Shown

\* and the message that is added shows the next one.
LEMMA ShownNext ==
    ASSUME NEW n \in Nat, Shown(n), Len(chat) \in Nat, Len(chat') = Len(chat) + 1,
           \A i \in 1..Len(chat) : chat'[i] = chat[i],
           chat'[Len(chat) + 1].text = final[n + 1],
           final' = final
    PROVE  Shown(n + 1)'
<1>1. PICK at \in [1..n -> 1..Len(chat)] :
         /\ \A k \in 1..n : chat[at[k]].text = final[k]
         /\ \A j, k \in 1..n : j < k => at[j] < at[k]
    BY DEF Shown
<1> DEFINE to == [k \in 1..(n + 1) |-> IF k = n + 1 THEN Len(chat) + 1 ELSE at[k]]
<1>2. \A k \in 1..n : at[k] \in 1..Len(chat) /\ k \in 1..(n + 1) /\ k # n + 1 /\ to[k] = at[k]
    BY <1>1
<1>3. n + 1 \in 1..(n + 1) /\ to[n + 1] = Len(chat) + 1
    OBVIOUS
<1>4. \A k \in 1..(n + 1) : k = n + 1 \/ k \in 1..n
    OBVIOUS
<1>5. to \in [1..(n + 1) -> 1..Len(chat')]
    BY <1>2, <1>3, <1>4
<1> HIDE DEF to
<1>6. \A k \in 1..(n + 1) : chat'[to[k]].text = final'[k]
  <2> TAKE k \in 1..(n + 1)
  <2>1. CASE k = n + 1
      BY <1>3, <2>1
  <2>2. CASE k \in 1..n
    <3>1. chat'[at[k]] = chat[at[k]]
        BY <1>2, <2>2
    <3> QED BY <1>1, <1>2, <2>2, <3>1
  <2> QED BY <1>4, <2>1, <2>2
<1>7. \A j, k \in 1..(n + 1) : j < k => to[j] < to[k]
  <2> SUFFICES ASSUME NEW j \in 1..(n + 1), NEW k \in 1..(n + 1), j < k PROVE to[j] < to[k]
      OBVIOUS
  <2>1. j \in 1..n
      OBVIOUS
  <2>2. CASE k = n + 1
      BY <1>2, <1>3, <2>1, <2>2
  <2>3. CASE k \in 1..n
      BY <1>1, <1>2, <2>1, <2>3
  <2> QED BY <1>4, <2>2, <2>3
<1> QED BY <1>5, <1>6, <1>7 DEF Shown

\* Before the first chunk there is nothing to show,
LEMMA NoneToShow ==
    ASSUME NEW messages, NEW texts
    PROVE  \E at \in [1..0 -> 1..Len(messages)] :
              /\ \A k \in 1..0 : messages[at[k]].text = texts[k]
              /\ \A j, k \in 1..0 : j < k => at[j] < at[k]
<1> DEFINE at == [k \in 1..0 |-> 1]
<1>1. at \in [1..0 -> 1..Len(messages)]
    OBVIOUS
<1>2. \A k \in 1..0 : FALSE
    OBVIOUS
<1> HIDE DEF at
<1>3. \A k \in 1..0 : messages[at[k]].text = texts[k]
    BY <1>2
<1>4. \A j, k \in 1..0 : j < k => at[j] < at[k]
    BY <1>2
<1> QED BY <1>1, <1>3, <1>4

\* now and after any step;
LEMMA ShownNone == Shown(0) /\ Shown(0)'
BY NoneToShow DEF Shown

\* a message that reads the first chunk shows it.
LEMMA ReadIsShown ==
    ASSUME NEW messages, NEW texts, NEW m \in 1..Len(messages), messages[m].text = texts[1]
    PROVE  \E at \in [1..1 -> 1..Len(messages)] :
              /\ \A k \in 1..1 : messages[at[k]].text = texts[k]
              /\ \A j, k \in 1..1 : j < k => at[j] < at[k]
<1> DEFINE at == [k \in 1..1 |-> m]
<1>1. at \in [1..1 -> 1..Len(messages)] /\ \A k \in 1..1 : at[k] = m /\ k = 1
    OBVIOUS
<1> HIDE DEF at
<1>2. \A k \in 1..1 : messages[at[k]].text = texts[k]
    BY <1>1
<1>3. \A j, k \in 1..1 : j < k => at[j] < at[k]
    BY <1>1
<1> QED BY <1>1, <1>2, <1>3

\* Now,
LEMMA ShownFirst ==
    ASSUME NEW m \in 1..Len(chat), chat[m].text = final[1]
    PROVE  Shown(1)
BY ReadIsShown DEF Shown

\* and after a step.
LEMMA ShownFirstThen ==
    ASSUME NEW m \in 1..Len(chat'), chat'[m].text = final'[1]
    PROVE  Shown(1)'
BY ReadIsShown DEF Shown

\* Which message a call changes, and to what.
LEMMA DoneSays ==
    ASSUME ChatType, CallType, call # NoCall
    PROVE  /\ call.op = "send" => /\ Done(chat)[Len(chat) + 1].mode = call.mode
                                  /\ Done(chat)[Len(chat) + 1].text = call.text
                                  /\ \A i \in 1..Len(chat) : Done(chat)[i] = chat[i]
           /\ call.op = "edit" => /\ Done(chat)[message].mode = call.mode
                                  /\ Done(chat)[message].text = call.text
                                  /\ \A i \in 1..Len(chat) \ {message} : Done(chat)[i] = chat[i]
<1>1. call \in CallsOut
    BY DEF CallType
<1>2. chat \in Seq(Messages) /\ Len(chat) \in Nat /\ Reads(call.text, call.mode) \in Messages
    BY <1>1, LenProperties DEF ChatType, CallsOut, Reads, Messages
<1>3. Reads(call.text, call.mode).text = call.text /\ Reads(call.text, call.mode).mode = call.mode
    BY DEF Reads
<1> HIDE DEF Reads, Messages
<1>4. CASE call.op = "send"
    BY <1>2, <1>3, <1>4, AppendProperties DEF Done
<1>5. CASE call.op = "edit"
  <2>1. message \in 1..Len(chat)
      BY <1>2, <1>5 DEF ChatType, CallType
  <2>2. Done(chat) = [chat EXCEPT ![message] = Reads(call.text, call.mode)]
      BY <1>5 DEF Done
  <2> QED BY <1>2, <1>3, <1>5, <2>1, <2>2
<1> QED BY <1>1, <1>4, <1>5 DEF CallsOut

\* A call that is sent as it is for a reason leaves only such messages.
LEMMA DoneForCause ==
    ASSUME TypeInv, call # NoCall, PlainForCause, call.mode = "plain" => call.text \in Unparsable,
           chat' = Done(chat)
    PROVE  PlainForCause'
<1>1. call \in CallsOut
    BY DEF TypeInv, CallType
<1>2. Len(chat) \in Nat
    BY LenProperties DEF TypeInv, ChatType
<1>3. CASE call.op = "send"
  <2>1. Len(chat') = Len(chat) + 1
      BY <1>3, DoneFacts DEF TypeInv
  <2>2. /\ chat'[Len(chat) + 1].mode = call.mode /\ chat'[Len(chat) + 1].text = call.text
        /\ \A i \in 1..Len(chat) : chat'[i] = chat[i]
      BY <1>3, DoneSays DEF TypeInv
  <2>3. \A i \in 1..Len(chat') : i = Len(chat) + 1 \/ i \in 1..Len(chat)
      BY <1>2, <2>1
  <2> QED BY <2>2, <2>3 DEF PlainForCause
<1>4. CASE call.op = "edit"
  <2>1. Len(chat') = Len(chat)
      BY <1>4, DoneFacts DEF TypeInv
  <2>2. /\ chat'[message].mode = call.mode /\ chat'[message].text = call.text
        /\ \A i \in 1..Len(chat) \ {message} : chat'[i] = chat[i]
      BY <1>4, DoneSays DEF TypeInv
  <2> QED BY <2>1, <2>2 DEF PlainForCause
<1> QED BY <1>1, <1>3, <1>4 DEF CallsOut

-----------------------------------------------------------------------------
\* What the task does between two answers keeps it: the chat is as it was.
LEMMA OwnAnswerStep ==
    ASSUME TypeInv, SinkInv, AnswerInv,
           \/ ViewChanges \/ Flush \/ PromptReturns \/ PromptFails
           \/ FinalEdit \/ FinalIsShown \/ FinalSend \/ FinalDone \/ SendNote \/ SendError
    PROVE  AnswerInv'
<1> USE DEF sinkVars, answerVars, boundVars
<1>0. /\ chat' = chat /\ lost' = lost /\ message' = message /\ lastSent' = lastSent
      /\ call = NoCall
      /\ view \in Nat /\ lastSent \in Nat /\ message \in Nat /\ sent \in Nat /\ lost \in Nat
      /\ Len(chat) \in Nat /\ message \in 0..Len(chat)
      /\ final \in Seq(Text) /\ Len(final) \in Nat /\ sent \in 0..Len(final)
  <2>1. chat' = chat /\ lost' = lost /\ message' = message /\ lastSent' = lastSent /\ call = NoCall
      BY DEF ViewChanges, Flush, PromptReturns, PromptFails, FinalEdit, FinalIsShown, FinalSend,
             FinalDone, SendNote, SendError, Finalizing
  <2>2. Len(chat) \in Nat /\ Len(final) \in Nat
      BY LenProperties DEF TypeInv, ChatType, FinalType
  <2> QED BY <2>1, <2>2, Bounds DEF TypeInv, SinkType, ChatType, FinalType
<1>1. PlainForCause => PlainForCause'
    BY <1>0 DEF PlainForCause
<1>2. CASE ViewChanges
  <2>1. view' = view + 1 /\ loop = "streaming" /\ loop' = "streaming" /\ call' = NoCall
      BY <1>0, <1>2 DEF ViewChanges
  <2>2. ViewInv'
      BY <1>0, <2>1 DEF AnswerInv, ViewInv
  <2> QED BY <1>0, <1>1, <2>1, <2>2 DEF AnswerInv, FinalInv, NoteInv, EndInv, ModeInv
<1>3. CASE Flush
  <2>1. /\ view' = view /\ loop = "streaming" /\ loop' = "streaming" /\ lastSent # view
        /\ call'.text = view /\ call'.mode = "formatted"
      BY <1>3 DEF Flush, Calls, Differs
  <2>2. ViewInv'
      BY <1>0, <2>1 DEF AnswerInv, ViewInv
  <2> QED BY <1>0, <1>1, <2>1, <2>2 DEF AnswerInv, FinalInv, NoteInv, EndInv, ModeInv
<1>4. CASE PromptReturns
  <2>1. loop = "streaming" /\ call' = NoCall /\ sent' = 0
      BY <1>0, <1>4 DEF PromptReturns, TypeInv, FinalType
  <2>2. CASE final' = << >> /\ loop' = "noting"
      BY <2>2 DEF AnswerInv, ViewInv, FinalInv, NoteInv, EndInv, ModeInv
  <2>3. CASE \E n \in 1..MaxChunks, first \in {Chunk(1)} \cup ({view} \ {0}) :
               final' = Answer(n, first) /\ loop' = "finalizing"
    <3>1. PICK n \in 1..MaxChunks, first \in {Chunk(1)} \cup ({view} \ {0}) :
               final' = Answer(n, first) /\ loop' = "finalizing"
        BY <2>3
    <3>2. final' # << >> /\ final'[1] = first
      <4>1. n \in Nat /\ 1 \in 1..n
          BY Bounds
      <4>2. final'[1] = first /\ DOMAIN final' = 1..n
          BY <3>1, <4>1 DEF Answer
      <4> QED BY <4>1, <4>2
    <3>3. lastSent <= view /\ (message # 0 /\ lastSent = view => chat[message].text = view)
        BY <2>1 DEF AnswerInv, ViewInv
    <3>4. first = lastSent => first = view
      <4>1. Chunk(1) = MaxView + 1 /\ lastSent \in 0..MaxView
          BY DEF Chunk, TypeInv, SinkType
      <4> QED BY <4>1, Bounds
    <3>5. Shown(0)'
        BY ShownNone
    <3> QED BY <1>0, <1>1, <2>1, <3>1, <3>2, <3>3, <3>4, <3>5
            DEF AnswerInv, ViewInv, FinalInv, NoteInv, EndInv, ModeInv
  <2> QED BY <1>4, <2>2, <2>3 DEF PromptReturns
<1>5. CASE PromptFails
  <2>1. loop' = "failing"
      BY <1>5 DEF PromptFails
  <2> QED BY <2>1 DEF AnswerInv, ViewInv, FinalInv, NoteInv, EndInv, ModeInv
<1>6. CASE FinalEdit \/ FinalSend
  <2>1. /\ loop = "finalizing" /\ loop' = "finalizing" /\ final' = final /\ sent' = sent
        /\ call'.text = final[sent + 1] /\ call'.mode = "formatted"
        /\ call'.op = "send" /\ sent = 0 => message = 0
    <3>1. CASE FinalEdit
        BY <3>1 DEF FinalEdit, Finalizing, Calls
    <3>2. CASE FinalSend
        BY <3>2 DEF FinalSend, Finalizing, Calls
    <3> QED BY <1>6, <3>1, <3>2
  <2>2. Shown(sent)'
      BY <1>0, <2>1 DEF AnswerInv, FinalInv, Shown
  <2>3. Alone(sent) => Alone(sent)'
      BY <1>0, <2>1 DEF Alone
  <2>4. FinalInv'
      BY <1>0, <2>1, <2>2, <2>3 DEF AnswerInv, FinalInv
  <2> QED BY <1>0, <1>1, <2>1, <2>4 DEF AnswerInv, ViewInv, NoteInv, EndInv, ModeInv
<1>7. CASE FinalIsShown
  <2>1. /\ loop = "finalizing" /\ loop' = "finalizing" /\ final' = final /\ sent = 0 /\ sent' = 1
        /\ message # 0 /\ final[1] = lastSent /\ call' = NoCall
      BY <1>0, <1>7 DEF FinalIsShown, Finalizing, Differs
  <2>2. chat[message].text = final[1] /\ message \in 1..Len(chat)
      BY <1>0, <2>1 DEF AnswerInv, FinalInv
  <2>3. Shown(1)
      BY <2>2, ShownFirst
  <2>4. Shown(sent)'
      BY <1>0, <2>1, <2>3 DEF Shown
  <2>5. lost = 0 => Alone(sent)'
    <3>1. lost = 0 => Len(chat) = 1 /\ message = 1
        BY <1>0, <2>1 DEF SinkInv, BeliefInv, Believing
    <3> QED BY <1>0, <2>1, <2>2, <3>1 DEF Alone
  <2>6. FinalInv'
      BY <1>0, <2>1, <2>4, <2>5 DEF AnswerInv, FinalInv
  <2> QED BY <1>0, <1>1, <2>1, <2>6 DEF AnswerInv, ViewInv, NoteInv, EndInv, ModeInv
<1>8. CASE FinalDone
  <2>1. /\ loop = "finalizing" /\ loop' = "done" /\ final' = final /\ sent = Len(final)
      BY <1>8 DEF FinalDone
  <2>2. Shown(Len(final)) /\ PlainForCause /\ final # << >> /\ Len(final) > 0
    <3>1. final # << >> => Len(final) > 0
        BY <1>0
    <3> QED BY <1>0, <2>1, <3>1 DEF AnswerInv, FinalInv, ModeInv
  <2>3. lost = 0 => Alone(Len(final))
      BY <1>0, <2>1, <2>2 DEF AnswerInv, FinalInv
  <2>4. EndInv'
      BY <1>0, <1>1, <2>1, <2>2, <2>3 DEF EndInv, Shown, Alone
  <2> QED BY <2>1, <2>4 DEF AnswerInv, ViewInv, FinalInv, NoteInv, ModeInv
<1>9. CASE SendNote
  <2>1. loop = "noting" /\ loop' = "noting" /\ final' = final
      BY <1>9 DEF SendNote
  <2> QED BY <2>1 DEF AnswerInv, ViewInv, FinalInv, NoteInv, EndInv, ModeInv
<1>10. CASE SendError
  <2>1. loop' = "failing"
      BY <1>10 DEF SendError
  <2> QED BY <2>1 DEF AnswerInv, ViewInv, FinalInv, NoteInv, EndInv, ModeInv
<1> QED BY <1>2, <1>3, <1>4, <1>5, <1>6, <1>7, <1>8, <1>9, <1>10

\* A call of finalize that ends well has shown the next chunk.
LEMMA WellAnswer ==
    ASSUME TypeInv, SinkInv, AnswerInv, call # NoCall, call \in CallsOut, lost' = lost,
           Settles(TRUE), chat' = Done(chat)
    PROVE  AnswerInv'
<1>0. /\ call' = NoCall /\ view' = view /\ final' = final
      /\ view \in Nat /\ lastSent \in Nat /\ message \in Nat /\ sent \in Nat /\ lost \in Nat
      /\ Len(chat) \in Nat /\ message \in 0..Len(chat) /\ Len(final) \in Nat /\ sent \in 0..Len(final)
  <2>1. Len(chat) \in Nat /\ Len(final) \in Nat
      BY LenProperties DEF TypeInv, ChatType, FinalType
  <2> QED BY <2>1, Bounds DEF TypeInv, SinkType, ChatType, FinalType, Settles
<1>1. ModeInv'
  <2> SUFFICES ASSUME loop' \in {"streaming", "finalizing"} PROVE PlainForCause'
      BY <1>0 DEF ModeInv
  <2>1. loop \in {"streaming", "finalizing"}
    <3>1. loop \in {"streaming", "finalizing", "noting", "failing"}
        BY DEF TypeInv, CallType
    <3> QED BY <3>1 DEF Settles
  <2> QED BY <2>1, DoneForCause DEF AnswerInv, ModeInv
<1>2. CASE loop = "streaming"
  <2>1. loop' = "streaming" /\ lastSent' = call.text /\ call.text = view
      BY <1>2 DEF Settles, SentAfter, AnswerInv, ViewInv
  <2>2. chat'[message'].text = view
    <3>1. CASE call.op = "send"
      <4>1. message' = Len(chat) + 1
          BY <1>2, <3>1, DoneFacts DEF Settles, MessageAfter, TypeInv
      <4> QED BY <2>1, <3>1, <4>1, DoneSays DEF TypeInv
    <3>2. CASE call.op = "edit"
      <4>1. message' = message
          BY <3>2 DEF Settles, MessageAfter
      <4> QED BY <2>1, <3>2, <4>1, DoneSays DEF TypeInv
    <3> QED BY <3>1, <3>2 DEF CallsOut
  <2>3. ViewInv'
      BY <1>0, <2>1, <2>2 DEF ViewInv
  <2> QED BY <1>1, <2>1, <2>3 DEF AnswerInv, FinalInv, NoteInv, EndInv
<1>3. CASE loop = "finalizing"
  <2>1. /\ loop' = "finalizing" /\ sent' = sent + 1 /\ call.text = final[sent + 1]
        /\ final # << >> /\ Shown(sent)
        /\ call.op = "send" /\ sent = 0 => message = 0
      BY <1>3 DEF Settles, AnswerInv, FinalInv
  <2>2. CASE call.op = "send"
    <3>1. /\ Len(chat') = Len(chat) + 1 /\ chat'[Len(chat) + 1].text = final[sent + 1]
          /\ \A i \in 1..Len(chat) : chat'[i] = chat[i]
        BY <2>1, <2>2, DoneFacts DEF TypeInv
    <3>2. Shown(sent)'
      <4>1. PICK n \in Nat : n = sent
          BY <1>0
      <4>2. Shown(n) /\ final[sent + 1] = final[n + 1]
          BY <2>1, <4>1 DEF Shown
      <4>3. Shown(n + 1)'
          BY <1>0, <3>1, <4>2, ShownNext
      <4> QED BY <2>1, <4>1, <4>3 DEF Shown
    <3>3. lost = 0 => Len(chat) = sent /\ \A k \in 1..sent : chat[k].text = final[k]
      <4>1. CASE sent = 0
        <5>1. lost = 0 => Len(chat) = message
            BY <1>3, <4>1 DEF SinkInv, BeliefInv, Believing
        <5>2. \A k \in 1..0 : FALSE
            OBVIOUS
        <5> QED BY <2>1, <2>2, <4>1, <5>1, <5>2
      <4>2. CASE sent > 0
          BY <1>3, <4>2 DEF AnswerInv, FinalInv, Alone
      <4> QED BY <1>0, <4>1, <4>2
    <3>4. ASSUME lost = 0 PROVE Len(chat') = sent + 1 /\ \A k \in 1..(sent + 1) : chat'[k].text = final'[k]
      <4>1. \A k \in 1..(sent + 1) : k = sent + 1 \/ k \in 1..sent
          BY <1>0
      <4> QED BY <1>0, <3>1, <3>3, <3>4, <4>1
    <3>5. FinalInv'
      <4>1. Alone(sent)' <=> Len(chat') = sent' /\ \A k \in 1..sent' : chat'[k].text = final'[k]
          BY DEF Alone
      <4> QED BY <1>0, <2>1, <3>2, <3>4, <4>1 DEF FinalInv
    <3> QED BY <1>1, <2>1, <3>5 DEF AnswerInv, ViewInv, NoteInv, EndInv
  <2>3. CASE call.op = "edit"
    <3>1. sent = 0 /\ message \in 1..Len(chat)
        BY <1>0, <1>3, <2>3 DEF SinkInv, EditInv, Believing, TypeInv, CallType
    <3>2. Len(chat') = Len(chat) /\ chat'[message].text = final'[1]
        BY <1>0, <2>1, <2>3, <3>1, DoneFacts DEF TypeInv
    <3>3. Shown(1)'
      <4>1. \E m \in 1..Len(chat') : chat'[m].text = final'[1]
          BY <3>1, <3>2
      <4> QED BY <4>1, ShownFirstThen
    <3>4. lost = 0 => Len(chat') = 1 /\ message = 1
        BY <1>0, <1>3, <3>1, <3>2 DEF SinkInv, BeliefInv, Believing
    <3>5. FinalInv'
      <4>1. Alone(sent)' <=> Len(chat') = sent' /\ \A k \in 1..sent' : chat'[k].text = final'[k]
          BY DEF Alone
      <4>2. Shown(sent)'
          BY <2>1, <3>1, <3>3 DEF Shown
      <4> QED BY <1>0, <2>1, <3>1, <3>2, <3>4, <4>1, <4>2 DEF FinalInv
    <3> QED BY <1>1, <2>1, <3>5 DEF AnswerInv, ViewInv, NoteInv, EndInv
  <2> QED BY <2>2, <2>3 DEF CallsOut
<1>4. CASE loop = "noting"
  <2>1. loop' = "done" /\ final' = << >>
      BY <1>0, <1>4 DEF Settles, AnswerInv, NoteInv
  <2> QED BY <1>1, <2>1 DEF AnswerInv, ViewInv, FinalInv, NoteInv, EndInv
<1>5. CASE loop = "failing"
  <2>1. loop' = "failed"
      BY <1>5 DEF Settles
  <2> QED BY <1>1, <2>1 DEF AnswerInv, ViewInv, FinalInv, NoteInv, EndInv
<1> QED BY <1>2, <1>3, <1>4, <1>5 DEF TypeInv, CallType

\* A call that fails keeps it, done or not: what streaming showed without knowing is
\* not the view that is believed, and finalize is over.
LEMMA BadAnswer ==
    ASSUME TypeInv, AnswerInv, call # NoCall, call \in CallsOut,
           Settles(FALSE), chat' = chat \/ chat' = Done(chat)
    PROVE  AnswerInv'
<1>0. /\ call' = NoCall /\ view' = view /\ final' = final /\ lastSent' = lastSent
      /\ message' = message
    BY DEF Settles, SentAfter, MessageAfter
<1>1. CASE loop = "streaming"
  <2>1. loop' = "streaming" /\ lastSent # view /\ lastSent <= view
      BY <1>1 DEF Settles, AnswerInv, ViewInv
  <2>2. PlainForCause'
    <3>1. CASE chat' = chat
        BY <1>1, <3>1 DEF AnswerInv, ModeInv, PlainForCause
    <3>2. CASE chat' = Done(chat)
        BY <1>1, <3>2, DoneForCause DEF AnswerInv, ModeInv
    <3> QED BY <3>1, <3>2
  <2>3. ViewInv'
      BY <1>0, <2>1 DEF ViewInv
  <2> QED BY <1>0, <2>1, <2>2, <2>3 DEF AnswerInv, FinalInv, NoteInv, EndInv, ModeInv
<1>2. CASE loop = "finalizing" \/ loop = "failing"
  <2>1. loop' \in {"failing", "failed"}
      BY <1>2 DEF Settles
  <2> QED BY <2>1 DEF AnswerInv, ViewInv, FinalInv, NoteInv, EndInv, ModeInv
<1>3. CASE loop = "noting"
  <2>1. loop' \in {"done", "failing"} /\ final' = << >>
      BY <1>0, <1>3 DEF Settles, AnswerInv, NoteInv
  <2> QED BY <2>1 DEF AnswerInv, ViewInv, FinalInv, NoteInv, EndInv, ModeInv
<1> QED BY <1>1, <1>2, <1>3 DEF TypeInv, CallType

\* A call that goes on keeps it, also if Telegram has done it already.
LEMMA GoesOnAnswer ==
    ASSUME TypeInv, SinkInv, AnswerInv, call # NoCall, call \in CallsOut, GoingOn,
           \/ chat' = chat /\ lost' = lost
           \/ chat' = Done(chat) /\ lost' > 0,
           call'.mode = call.mode \/ call.text \in Unparsable
    PROVE  AnswerInv'
<1> USE DEF sinkVars, answerVars
<1>0. /\ loop' = loop /\ view' = view /\ final' = final /\ sent' = sent /\ lastSent' = lastSent
      /\ message' = message /\ call'.text = call.text /\ call'.op = call.op /\ call' # NoCall
      /\ Len(chat) \in Nat /\ sent \in Nat
  <2>1. call' # NoCall
      BY Texts0 DEF GoingOn
  <2>2. Len(chat) \in Nat /\ sent \in Nat
      BY LenProperties DEF TypeInv, ChatType, FinalType
  <2> QED BY <2>1, <2>2 DEF GoingOn
<1>1. CASE loop = "streaming"
  <2>1. call.text = view /\ lastSent # view /\ lastSent <= view
      BY <1>1 DEF AnswerInv, ViewInv
  <2>2. PlainForCause'
    <3>1. CASE chat' = chat
        BY <1>1, <3>1 DEF AnswerInv, ModeInv, PlainForCause
    <3>2. CASE chat' = Done(chat)
        BY <1>1, <3>2, DoneForCause DEF AnswerInv, ModeInv
    <3> QED BY <3>1, <3>2
  <2>3. ModeInv'
      BY <1>0, <1>1, <2>2 DEF AnswerInv, ModeInv
  <2>4. ViewInv'
      BY <1>0, <2>1 DEF ViewInv
  <2> QED BY <1>0, <1>1, <2>3, <2>4 DEF AnswerInv, FinalInv, NoteInv, EndInv
<1>2. CASE loop = "finalizing"
  <2>1. PlainForCause'
    <3>1. CASE chat' = chat
        BY <1>2, <3>1 DEF AnswerInv, ModeInv, PlainForCause
    <3>2. CASE chat' = Done(chat)
        BY <1>2, <3>2, DoneForCause DEF AnswerInv, ModeInv
    <3> QED BY <3>1, <3>2
  <2>2. ModeInv'
      BY <1>0, <1>2, <2>1 DEF AnswerInv, ModeInv
  <2>3. /\ final # << >> /\ call.text = final[sent + 1] /\ Shown(sent)
        /\ call.op = "send" /\ sent = 0 => message = 0
      BY <1>2 DEF AnswerInv, FinalInv
  <2>4. sent = 0 /\ message # 0 => final[1] # lastSent
    <3>1. sent = 0 /\ message # 0 => call.op = "edit"
        BY <2>3 DEF CallsOut
    <3> QED BY <2>3, <3>1 DEF SinkInv, EditInv
  <2>5. CASE chat' = chat /\ lost' = lost
    <3>1. Shown(sent)'
        BY <1>0, <2>3, <2>5 DEF Shown
    <3>2. lost = 0 /\ sent > 0 => Alone(sent)'
        BY <1>0, <1>2, <2>5 DEF AnswerInv, FinalInv, Alone
    <3>3. FinalInv'
        BY <1>0, <2>3, <2>4, <2>5, <3>1, <3>2 DEF FinalInv
    <3> QED BY <1>0, <1>2, <2>2, <3>3 DEF AnswerInv, ViewInv, NoteInv, EndInv
  <2>6. CASE chat' = Done(chat) /\ lost' > 0
    <3>1. Shown(sent)'
      <4>1. CASE call.op = "send"
        <5>1. /\ Len(chat') = Len(chat) + 1 /\ \A i \in 1..Len(chat) : chat'[i] = chat[i]
            BY <2>6, <4>1, DoneFacts DEF TypeInv
        <5>2. \A n \in Nat : Shown(n) => Shown(n)'
            BY <1>0, <5>1, ShownKept
        <5>3. Shown(sent)' <=> \E n \in Nat : n = sent' /\ Shown(n)'
            BY <1>0 DEF Shown
        <5> QED BY <1>0, <2>3, <5>2, <5>3
      <4>2. CASE call.op = "edit"
        <5>1. sent' = 0
            BY <1>0, <1>2, <4>2 DEF SinkInv, EditInv, Believing
        <5> QED BY <5>1, ShownNone DEF Shown
      <4> QED BY <4>1, <4>2 DEF CallsOut
    <3>2. FinalInv'
      <4>1. lost' # 0
          BY <2>6
      <4> QED BY <1>0, <2>3, <2>4, <3>1, <4>1 DEF FinalInv
    <3> QED BY <1>0, <1>2, <2>2, <3>2 DEF AnswerInv, ViewInv, NoteInv, EndInv
  <2> QED BY <2>5, <2>6
<1>3. CASE loop = "noting" \/ loop = "failing"
    BY <1>0, <1>3 DEF AnswerInv, ViewInv, FinalInv, NoteInv, EndInv, ModeInv
<1> QED BY <1>1, <1>2, <1>3 DEF TypeInv, CallType

\* A call that was not reached or whose reply was lost, failed for good or goes on as it was.
LEMMA RetriesAnswer ==
    ASSUME TypeInv, SinkInv, AnswerInv, call # NoCall, call \in CallsOut, Retries,
           \/ chat' = chat /\ lost' = lost
           \/ chat' = Done(chat) /\ lost' > 0,
           refused' = refused, lost' \in 0..MaxLost
    PROVE  AnswerInv'
<1>1. CASE /\ GivesUp(call.attempt)
           /\ cause' = Blamed
           /\ Settles(FALSE)
    BY <1>1, BadAnswer
<1>2. CASE /\ ~GivesUp(call.attempt)
           /\ call' = [call EXCEPT !.waiting = TRUE]
           /\ UNCHANGED <<loop, sinkVars, answerVars, cause>>
  <2>1. call'.mode = call.mode /\ call' \in CallsOut
      BY <1>2 DEF CallsOut
  <2>2. ~Settles(FALSE)
      BY <2>1, Texts0 DEF Settles
  <2>3. GoingOn
      BY <2>2, RetriesCases
  <2> QED BY <2>1, <2>3, GoesOnAnswer
<1> QED BY <1>1, <1>2, Zenon DEF Retries

\* Every step keeps what is true of the answer.
LEMMA AnswerStep ==
    ASSUME TypeInv, SinkInv, AnswerInv, [Next]_vars
    PROVE  AnswerInv'
<1>0. lost \in Nat /\ lost \in 0..MaxLost
    BY Bounds DEF TypeInv, SinkType
<1>1. CASE UNCHANGED vars
    BY <1>1 DEF vars, sinkVars, answerVars, boundVars, AnswerInv, ViewInv, FinalInv, NoteInv, EndInv,
                ModeInv, Shown, Alone, PlainForCause
<1>2. CASE Returns \/ BackedOff
  <2>1. call # NoCall /\ call \in CallsOut /\ (EndingWell \/ EndingBadly \/ GoingOn)
      BY <1>2, ReturnsCases
  <2>2. CASE Replied
      BY <2>1, <2>2, WellAnswer DEF Replied, boundVars
  <2>3. CASE Unparsed
    <3>1. GoingOn /\ call.text \in Unparsable
      <4>1. call' # NoCall
          BY <2>1, <2>3, Texts0 DEF Unparsed, CallsOut, NoCall
      <4> QED BY <2>1, <2>3, <4>1 DEF EndingWell, EndingBadly, Settles, Unparsed, Parses
    <3> QED BY <2>1, <2>3, <3>1, GoesOnAnswer DEF Unparsed, boundVars
  <2>4. CASE NotModified \/ Refused
    <3>1. Settles(FALSE) /\ chat' = chat
        BY <2>4, Zenon DEF NotModified, Refused
    <3> QED BY <2>1, <3>1, BadAnswer
  <2>5. CASE NotReached
      BY <1>0, <2>1, <2>5, RetriesAnswer DEF NotReached, boundVars
  <2>6. CASE ReplyLost
    <3>1. lost' = lost + 1 /\ lost < MaxLost /\ refused' = refused /\ chat' = Done(chat) /\ Retries
        BY <2>6 DEF ReplyLost
    <3>2. lost' > 0 /\ lost' \in 0..MaxLost
        BY <1>0, <3>1, Bounds
    <3> QED BY <2>1, <3>1, <3>2, RetriesAnswer
  <2>7. CASE BackedOff
    <3>1. GoingOn /\ call'.mode = call.mode
      <4>1. call' # NoCall
          BY <2>1, <2>7, Texts0 DEF BackedOff, CallsOut, NoCall
      <4>2. call'.mode = call.mode
          BY <2>1, <2>7 DEF BackedOff, CallsOut
      <4> QED BY <2>1, <4>1, <4>2 DEF EndingWell, EndingBadly, Settles
    <3> QED BY <2>1, <2>7, <3>1, GoesOnAnswer DEF BackedOff, boundVars
  <2> QED BY <1>2, <2>2, <2>3, <2>4, <2>5, <2>6, <2>7 DEF Returns
<1> QED BY <1>1, <1>2, OwnAnswerStep DEF Next, Returns

\* It is invariant.
LEMMA AnswerHolds == Spec => []AnswerInv
<1>1. Init => AnswerInv
  <2> SUFFICES ASSUME Init PROVE AnswerInv
      OBVIOUS
  <2>1. /\ call = NoCall /\ chat = << >> /\ message = 0 /\ loop = "streaming"
        /\ view = 0 /\ lastSent = 0
      BY DEF Init
  <2>2. PlainForCause
      BY <2>1 DEF PlainForCause
  <2> QED BY <2>1, <2>2 DEF AnswerInv, ViewInv, FinalInv, NoteInv, EndInv, ModeInv
<1>2. TypeInv /\ SinkInv /\ AnswerInv /\ [Next]_vars => AnswerInv'
    BY AnswerStep
<1> QED BY <1>1, <1>2, TypesHold, SinkHolds, PTL DEF Spec

\* A turn that ends well has shown every chunk of its answer in order, whatever calls were
\* refused, retried or done unseen, and nothing else when every reply arrived; each in plain
\* text only if Telegram rejected its MarkdownV2 (stream.rs:391-459).
THEOREM TheAnswerIsShown == Spec => []AnswerIsShown
<1>1. TypeInv /\ AnswerInv => AnswerIsShown
  <2> SUFFICES ASSUME TypeInv, AnswerInv, loop = "done", final # << >> PROVE AnswerIsShown
      BY DEF AnswerIsShown
  <2>1. Shown(Len(final)) /\ PlainForCause /\ (lost = 0 => Alone(Len(final)))
      BY DEF AnswerInv, EndInv
  <2>2. lost = 0 => Texts = final
    <3> SUFFICES ASSUME lost = 0 PROVE Texts = final
        OBVIOUS
    <3>1. final \in Seq(Text) /\ Len(chat) = Len(final)
        BY <2>1 DEF TypeInv, FinalType, Alone
    <3>2. /\ Len(final) \in Nat /\ DOMAIN final = 1..Len(final)
          /\ final = [i \in 1..Len(final) |-> final[i]]
        BY <3>1, LenProperties
    <3>3. Texts = [i \in 1..Len(final) |-> final[i]]
        BY <2>1, <3>1 DEF Texts, Alone
    <3> QED BY <3>2, <3>3
  <2> QED BY <2>1, <2>2 DEF AnswerIsShown, Shown, PlainForCause
<1> QED BY <1>1, TypesHold, AnswerHolds, PTL

-----------------------------------------------------------------------------
(* Cutting (MarkdownChunks).  A recursive function is the one CHOOSE takes, *)
(* and takes any only if there is one: that its partial results exist, and  *)
(* what they are, is shown by the least number for which it would fail.     *)

Lower == {ss \in Nat \X Nat : ss[1] < ss[2]}

\* A set of numbers has a least one: what is proved by induction is proved by looking at
\* the least number for which it would fail.
LEMMA LeastNumber ==
    ASSUME NEW S \in SUBSET Nat, S # {}
    PROVE  \E m \in S : \A k \in S : m <= k
<1>1. Lower = OpToRel(<, Nat)
    BY DEF Lower, OpToRel
<1>2. PICK m \in S : \A k \in S : <<k, m>> \notin Lower
    BY <1>1, NatLessThanWellFounded, WFMin
<1>3. \A k \in S : k \in Nat /\ m \in Nat /\ ~(k < m)
    BY <1>2 DEF Lower
<1>4. \A k \in S : m <= k
    BY <1>3
<1> QED BY <1>4

\* What FlattenSeq asks of the i-th of its partial results.
NextFlat(f, seqs, i) == IF i = 1 THEN seqs[i] ELSE f[i - 1] \o seqs[i]

\* There are partial results up to any n.
LEMMA FlatsUpTo ==
    ASSUME NEW seqs, NEW n \in Nat
    PROVE  \E f : f = [i \in 1..n |-> NextFlat(f, seqs, i)]
<1> DEFINE Bad == {k \in Nat : ~\E f : f = [i \in 1..k |-> NextFlat(f, seqs, i)]}
<1> SUFFICES ASSUME Bad # {} PROVE FALSE
    OBVIOUS
<1>1. PICK k \in Bad : \A j \in Bad : k <= j
    BY LeastNumber
<1>2. CASE k = 0
    <2> DEFINE f == [i \in 1..0 |-> seqs]
    <2>1. f = [i \in 1..0 |-> NextFlat(f, seqs, i)]
        OBVIOUS
    <2> HIDE DEF f
    <2> QED BY <1>1, <1>2, <2>1
<1>3. CASE k # 0
    <2>1. k \in Nat /\ k - 1 \in Nat /\ k - 1 \notin Bad
        BY <1>1, <1>3
    <2>2. PICK f : f = [i \in 1..(k - 1) |-> NextFlat(f, seqs, i)]
        BY <2>1
    <2> DEFINE h == [i \in 1..k |-> IF i = k THEN NextFlat(f, seqs, k) ELSE f[i]]
    <2>3. ASSUME NEW i \in 1..k PROVE h[i] = NextFlat(h, seqs, i)
        <3>1. i # 1 => i - 1 \in 1..k /\ i - 1 # k
            BY <2>1
        <3>2. i # 1 => h[i - 1] = f[i - 1]
            BY <3>1
        <3> HIDE DEF h
        <3>3. NextFlat(h, seqs, i) = NextFlat(f, seqs, i)
            BY <3>2 DEF NextFlat
        <3> USE DEF h
        <3>4. CASE i = k
            BY <3>3, <3>4
        <3>5. CASE i # k
            <4>1. i \in 1..(k - 1)
                BY <2>1, <3>5
            <4>2. f[i] = NextFlat(f, seqs, i)
                BY <2>2, <4>1
            <4> QED BY <3>3, <3>5, <4>2
        <3> QED BY <3>4, <3>5
    <2>4. h = [i \in 1..k |-> NextFlat(h, seqs, i)]
        BY <2>3
    <2> HIDE DEF h
    <2> QED BY <1>1, <2>4
<1> QED BY <1>2, <1>3

\* The flattened sequence is the last of them.
LEMMA FlatDefined ==
    ASSUME NEW C, NEW seqs \in Seq(Seq(C)), seqs # << >>
    PROVE  \E f : /\ f = [i \in 1..Len(seqs) |-> NextFlat(f, seqs, i)]
                  /\ M!FlattenSeq(seqs) = f[Len(seqs)]
<1>1. Len(seqs) \in Nat /\ Len(seqs) # 0
    BY EmptySeq, LenProperties
<1> DEFINE f == CHOOSE g : g = [i \in 1..Len(seqs) |-> IF i = 1 THEN seqs[i] ELSE g[i - 1] \o seqs[i]]
<1>2. M!FlattenSeq(seqs) = f[Len(seqs)]
    BY <1>1 DEF M!FlattenSeq
<1>3. \E g : g = [i \in 1..Len(seqs) |-> IF i = 1 THEN seqs[i] ELSE g[i - 1] \o seqs[i]]
    BY <1>1, FlatsUpTo DEF NextFlat
<1>4. f = [i \in 1..Len(seqs) |-> IF i = 1 THEN seqs[i] ELSE f[i - 1] \o seqs[i]]
    BY <1>3
<1> HIDE DEF f
<1> QED BY <1>2, <1>4 DEF NextFlat

\* Partial results are sequences.
LEMMA FlatType ==
    ASSUME NEW C, NEW seqs \in Seq(Seq(C)), NEW f, NEW n \in 0..Len(seqs),
           \A i \in 1..n : f[i] = NextFlat(f, seqs, i)
    PROVE  \A i \in 1..n : f[i] \in Seq(C)
<1> DEFINE Bad == {i \in 1..n : f[i] \notin Seq(C)}
<1>1. n \in Nat /\ Len(seqs) \in Nat /\ \A i \in 1..Len(seqs) : seqs[i] \in Seq(C)
    BY LenProperties, ElementOfSeq
<1> SUFFICES ASSUME Bad # {} PROVE FALSE
    OBVIOUS
<1>2. PICK k \in Bad : \A j \in Bad : k <= j
    <2>1. Bad \in SUBSET Nat
        BY <1>1
    <2> HIDE DEF Bad
    <2> QED BY <2>1, LeastNumber
<1>3. k \in 1..n /\ k \in 1..Len(seqs) /\ seqs[k] \in Seq(C)
    BY <1>1, <1>2
<1>4. k # 1 => k - 1 \in 1..n /\ f[k - 1] \in Seq(C)
    BY <1>1, <1>2, <1>3
<1>5. f[k] \in Seq(C)
    BY <1>3, <1>4, ConcatProperties DEF NextFlat
<1> QED BY <1>2, <1>5

\* Flattening none, and one more.
LEMMA FlatAppend ==
    ASSUME NEW C, NEW seqs \in Seq(Seq(C)), NEW x \in Seq(C)
    PROVE  /\ M!FlattenSeq(<< >>) = << >>
           /\ M!FlattenSeq(seqs) \in Seq(C)
           /\ M!FlattenSeq(Append(seqs, x)) = M!FlattenSeq(seqs) \o x
<1> DEFINE more == Append(seqs, x)
           n == Len(seqs)
<1>1. M!FlattenSeq(<< >>) = << >>
    BY DEF M!FlattenSeq
<1>2. /\ n \in Nat /\ more \in Seq(Seq(C)) /\ Len(more) = n + 1 /\ more # << >>
      /\ more[n + 1] = x /\ \A i \in 1..n : more[i] = seqs[i]
    BY LenProperties, AppendProperties
<1>3. PICK g : /\ g = [i \in 1..(n + 1) |-> NextFlat(g, more, i)]
               /\ M!FlattenSeq(more) = g[n + 1]
  <2> HIDE DEF more
  <2> QED BY <1>2, FlatDefined
<1> HIDE DEF more, n
<1>4. \A i \in 1..(n + 1) : g[i] = NextFlat(g, more, i)
    BY <1>3
<1>5. CASE seqs = << >>
    <2>1. n = 0
        BY <1>5 DEF n
    <2>2. g[1] = more[1] /\ more[1] = x
        BY <1>2, <1>4, <2>1 DEF NextFlat
    <2>3. << >> \o x = x
        BY ConcatEmptySeq
    <2>4. << >> \in Seq(C) /\ n + 1 = 1
        BY <2>1
    <2>5. M!FlattenSeq(more) = x
        BY <1>3, <2>2, <2>4
    <2> QED BY <1>1, <1>5, <2>3, <2>4, <2>5 DEF more
<1>6. CASE seqs # << >>
    <2>1. PICK f : /\ f = [i \in 1..n |-> NextFlat(f, seqs, i)]
                   /\ M!FlattenSeq(seqs) = f[n]
        BY <1>6, FlatDefined DEF n
    <2>2. \A i \in 1..n : f[i] = NextFlat(f, seqs, i)
        BY <2>1
    <2>3. n # 0
        BY <1>6, EmptySeq DEF n
    <2>4. \A i \in 1..n : i \in 1..(n + 1) /\ seqs[i] = more[i] /\ g[i] = NextFlat(g, more, i)
        BY <1>2, <1>4
    <2>5. \A i \in 1..n : f[i] = g[i]
      <3> DEFINE Bad == {i \in 1..n : f[i] # g[i]}
      <3> SUFFICES ASSUME Bad # {} PROVE FALSE
          OBVIOUS
      <3>1. PICK k \in Bad : \A j \in Bad : k <= j
        <4>1. Bad \in SUBSET Nat
            BY <1>2
        <4> HIDE DEF Bad
        <4> QED BY <4>1, LeastNumber
      <3>2. k \in 1..n /\ f[k] # g[k] /\ (k # 1 => k - 1 \in 1..n /\ f[k - 1] = g[k - 1])
          BY <1>2, <3>1
      <3>3. f[k] = NextFlat(f, seqs, k) /\ g[k] = NextFlat(g, more, k) /\ seqs[k] = more[k]
          BY <2>2, <2>4, <3>2
      <3> QED BY <3>2, <3>3 DEF NextFlat
    <2>6. f[n] = g[n]
        BY <1>2, <2>3, <2>5
    <2>7. g[n + 1] = g[n] \o x
      <3>1. n + 1 \in 1..(n + 1) /\ n + 1 # 1 /\ (n + 1) - 1 = n
          BY <1>2, <2>3
      <3>2. g[n + 1] = NextFlat(g, more, n + 1)
          BY <1>4, <3>1
      <3> QED BY <1>2, <3>1, <3>2 DEF NextFlat
    <2>8. f[n] \in Seq(C)
      <3>1. n \in 0..Len(seqs) /\ n \in 1..n
          BY <1>2, <2>3 DEF n
      <3>2. \A i \in 1..n : f[i] \in Seq(C)
          BY <2>2, <3>1, FlatType
      <3> QED BY <3>1, <3>2
    <2>9. M!FlattenSeq(more) = f[n] \o x
        BY <1>3, <2>6, <2>7
    <2> QED BY <1>1, <2>1, <2>8, <2>9 DEF more
<1> QED BY <1>5, <1>6


-----------------------------------------------------------------------------
Character == {"a", ".", "'", "\n"}
Line == [text: Seq(Character), nl: BOOLEAN]
Piece == [plain: Seq(Line), cut: BOOLEAN, head: Nat]

\* A line's characters are a sequence of them.
LEMMA CharactersType ==
    ASSUME NEW line \in Line
    PROVE  M!Characters(line) \in Seq(Character)
BY AppendProperties DEF M!Characters, Line, Character

\* What another line adds to a piece.
LEMMA SourceAppend ==
    ASSUME NEW md \in Seq(Line), NEW line \in Line
    PROVE  /\ M!Source(<< >>) = << >>
           /\ M!Source(md) \in Seq(Character)
           /\ M!Source(Append(md, line)) = M!Source(md) \o M!Characters(line)
<1> DEFINE texts == [i \in DOMAIN md |-> M!Characters(md[i])]
           more == Append(md, line)
<1>1. /\ Len(md) \in Nat /\ DOMAIN md = 1..Len(md)
      /\ more \in Seq(Line) /\ Len(more) = Len(md) + 1 /\ DOMAIN more = 1..(Len(md) + 1)
      /\ more[Len(md) + 1] = line /\ \A i \in 1..Len(md) : more[i] = md[i] /\ md[i] \in Line
    BY LenProperties, AppendProperties, ElementOfSeq
<1> HIDE DEF more
<1>2. \A i \in DOMAIN md : M!Characters(md[i]) \in Seq(Character)
    BY <1>1, CharactersType
<1>3. texts \in Seq(Seq(Character)) /\ Len(texts) = Len(md) /\ DOMAIN texts = 1..Len(md)
      /\ \A i \in 1..Len(md) : texts[i] = M!Characters(md[i])
    BY <1>1, <1>2
<1>4. M!Source(md) = M!FlattenSeq(texts)
    BY DEF M!Source
<1>5. M!Characters(line) \in Seq(Character)
    BY CharactersType
<1> DEFINE longer == [i \in DOMAIN more |-> M!Characters(more[i])]
<1>6. longer = Append(texts, M!Characters(line))
  <2> HIDE DEF texts
  <2> DEFINE other == Append(texts, M!Characters(line))
  <2>1. other \in Seq(Seq(Character)) /\ Len(other) = Len(md) + 1
        /\ DOMAIN other = 1..(Len(md) + 1)
        /\ other[Len(md) + 1] = M!Characters(line)
        /\ \A i \in 1..Len(md) : other[i] = texts[i]
      BY <1>3, <1>5, AppendProperties, LenProperties
  <2>2. longer \in Seq(Seq(Character)) /\ Len(longer) = Len(md) + 1
    <3>1. \A i \in 1..(Len(md) + 1) : more[i] \in Line
        BY <1>1, ElementOfSeq
    <3>2. \A i \in DOMAIN more : M!Characters(more[i]) \in Seq(Character)
        BY <1>1, <3>1, CharactersType
    <3> QED BY <1>1, <3>2
  <2> HIDE DEF other
  <2>3. \A i \in 1..(Len(md) + 1) : longer[i] = other[i]
    <3>1. longer[Len(md) + 1] = other[Len(md) + 1]
        BY <1>1, <2>1
    <3>2. ASSUME NEW i \in 1..Len(md) PROVE longer[i] = other[i]
        <4>1. i \in DOMAIN more /\ more[i] = md[i]
            BY <1>1
        <4>2. longer[i] = M!Characters(md[i])
            BY <4>1
        <4>3. other[i] = texts[i] /\ texts[i] = M!Characters(md[i])
            BY <1>3, <2>1
        <4> QED BY <4>2, <4>3
    <3> HIDE DEF longer
    <3> QED BY <1>1, <3>1, <3>2
  <2> HIDE DEF longer
  <2>4. longer = other
      BY <2>1, <2>2, <2>3, SeqEqual
  <2> QED BY <2>4 DEF other
<1>7. M!Source(more) = M!FlattenSeq(longer)
    BY DEF M!Source
<1>8. M!Source(<< >>) = << >>
  <2>1. [i \in DOMAIN << >> |-> M!Characters(<< >>[i])] = << >>
      OBVIOUS
  <2> QED BY <2>1, <1>3, <1>5, FlatAppend DEF M!Source
<1> HIDE DEF texts, longer
<1>9. M!FlattenSeq(texts) \in Seq(Character)
      /\ M!FlattenSeq(longer) = M!FlattenSeq(texts) \o M!Characters(line)
    BY <1>3, <1>5, <1>6, FlatAppend
<1> QED BY <1>4, <1>7, <1>8, <1>9 DEF more

\* What another piece adds to those there are.
LEMMA PlainAppend ==
    ASSUME NEW pieces \in Seq(Piece), NEW piece \in Piece
    PROVE  /\ M!Plain(<< >>) = << >>
           /\ M!Plain(pieces) \in Seq(Character)
           /\ M!Plain(Append(pieces, piece)) = M!Plain(pieces) \o M!Source(piece.plain)
<1> DEFINE texts == [i \in DOMAIN pieces |-> M!Source(pieces[i].plain)]
           more == Append(pieces, piece)
<1>1. /\ Len(pieces) \in Nat /\ DOMAIN pieces = 1..Len(pieces)
      /\ more \in Seq(Piece) /\ Len(more) = Len(pieces) + 1
      /\ DOMAIN more = 1..(Len(pieces) + 1)
      /\ more[Len(pieces) + 1] = piece
      /\ \A i \in 1..Len(pieces) : more[i] = pieces[i] /\ pieces[i] \in Piece
    BY LenProperties, AppendProperties, ElementOfSeq
<1> HIDE DEF more
<1>0. \A p \in Piece : M!Source(p.plain) \in Seq(Character)
  <2>1. \A p \in Piece : p.plain \in Seq(Line)
      BY DEF Piece
  <2>2. [text |-> << >>, nl |-> TRUE] \in Line
      BY DEF Line
  <2> QED BY <2>1, <2>2, SourceAppend
<1>2. \A i \in DOMAIN pieces : M!Source(pieces[i].plain) \in Seq(Character)
    BY <1>0, <1>1
<1>3. texts \in Seq(Seq(Character)) /\ Len(texts) = Len(pieces)
      /\ DOMAIN texts = 1..Len(pieces)
      /\ \A i \in 1..Len(pieces) : texts[i] = M!Source(pieces[i].plain)
    BY <1>1, <1>2
<1>4. M!Plain(pieces) = M!FlattenSeq(texts)
    BY DEF M!Plain
<1>5. M!Source(piece.plain) \in Seq(Character)
    BY <1>0
<1> DEFINE longer == [i \in DOMAIN more |-> M!Source(more[i].plain)]
<1>6. longer = Append(texts, M!Source(piece.plain))
  <2> HIDE DEF texts
  <2> DEFINE other == Append(texts, M!Source(piece.plain))
  <2>1. other \in Seq(Seq(Character)) /\ Len(other) = Len(pieces) + 1
        /\ DOMAIN other = 1..(Len(pieces) + 1)
        /\ other[Len(pieces) + 1] = M!Source(piece.plain)
        /\ \A i \in 1..Len(pieces) : other[i] = texts[i]
      BY <1>3, <1>5, AppendProperties, LenProperties
  <2>2. longer \in Seq(Seq(Character)) /\ Len(longer) = Len(pieces) + 1
    <3>1. \A i \in 1..(Len(pieces) + 1) : more[i] \in Piece
        BY <1>1, ElementOfSeq
    <3>2. \A i \in DOMAIN more : M!Source(more[i].plain) \in Seq(Character)
        BY <1>0, <1>1, <3>1
    <3> QED BY <1>1, <3>2
  <2> HIDE DEF other
  <2>3. \A i \in 1..(Len(pieces) + 1) : longer[i] = other[i]
    <3>1. longer[Len(pieces) + 1] = other[Len(pieces) + 1]
        BY <1>1, <2>1
    <3>2. ASSUME NEW i \in 1..Len(pieces) PROVE longer[i] = other[i]
        <4>1. i \in DOMAIN more /\ more[i] = pieces[i]
            BY <1>1
        <4>2. longer[i] = M!Source(pieces[i].plain)
            BY <4>1
        <4>3. other[i] = texts[i] /\ texts[i] = M!Source(pieces[i].plain)
            BY <1>3, <2>1
        <4> QED BY <4>2, <4>3
    <3> HIDE DEF longer
    <3> QED BY <1>1, <3>1, <3>2
  <2> HIDE DEF longer
  <2>4. longer = other
      BY <2>1, <2>2, <2>3, SeqEqual
  <2> QED BY <2>4 DEF other
<1>7. M!Plain(more) = M!FlattenSeq(longer)
    BY DEF M!Plain
<1>8. M!Plain(<< >>) = << >>
  <2>1. [i \in DOMAIN << >> |-> M!Source(<< >>[i].plain)] = << >>
      OBVIOUS
  <2> QED BY <2>1, <1>3, <1>5, FlatAppend DEF M!Plain
<1> HIDE DEF texts, longer
<1>9. M!FlattenSeq(texts) \in Seq(Character)
      /\ M!FlattenSeq(longer) = M!FlattenSeq(texts) \o M!Source(piece.plain)
    BY <1>3, <1>5, <1>6, FlatAppend
<1> QED BY <1>4, <1>7, <1>8, <1>9 DEF more

-----------------------------------------------------------------------------
\* The lesser and the greater of two numbers.
LEMMA LessOfTwo ==
    ASSUME NEW a \in Int, NEW b \in Int
    PROVE  /\ M!Min({a, b}) = IF a <= b THEN a ELSE b
           /\ M!Max({a, b}) = IF a <= b THEN b ELSE a
<1> DEFINE least == CHOOSE v \in {a, b} : \A w \in {a, b} : v <= w
           most == CHOOSE v \in {a, b} : \A w \in {a, b} : v >= w
<1>1. least \in {a, b} /\ \A w \in {a, b} : least <= w
  <2>1. \E v \in {a, b} : \A w \in {a, b} : v <= w
      OBVIOUS
  <2> QED BY <2>1
<1>2. most \in {a, b} /\ \A w \in {a, b} : most >= w
  <2>1. \E v \in {a, b} : \A w \in {a, b} : v >= w
      OBVIOUS
  <2> QED BY <2>1
<1>3. least = M!Min({a, b}) /\ most = M!Max({a, b})
    BY DEF M!Min, M!Max
<1> HIDE DEF least, most
<1> QED BY <1>1, <1>2, <1>3

\* What a chunk has room for beside the log.
LEMMA LimitIs ==
    ASSUME log \in LogSizes
    PROVE  /\ M!Limit \in Nat \ {0} /\ log \in Nat /\ TELEGRAM_LIMIT \in Nat
           /\ log = 0 => M!Limit = TELEGRAM_LIMIT
           /\ log # 0 => M!Limit = TELEGRAM_LIMIT - (log + 2)
<1>1. log \in Nat /\ log + 2 < TELEGRAM_LIMIT /\ TELEGRAM_LIMIT \in Nat
    BY DocumentAssumption DEF M!ChunksAssumption
<1>2. M!Max({TELEGRAM_LIMIT - (log + 2), 1}) = TELEGRAM_LIMIT - (log + 2)
  <2>1. TELEGRAM_LIMIT - (log + 2) \in Int /\ 1 \in Int /\ 1 <= TELEGRAM_LIMIT - (log + 2)
      BY <1>1
  <2> DEFINE room == TELEGRAM_LIMIT - (log + 2)
  <2> HIDE DEF room
  <2>2. M!Max({room, 1}) = IF room <= 1 THEN 1 ELSE room
      BY <2>1, LessOfTwo DEF room
  <2> QED BY <2>1, <2>2 DEF room
<1> QED BY <1>1, <1>2 DEF M!Limit

\* As many parts as it takes.
LEMMA PartsSuffice ==
    ASSUME log \in LogSizes, NEW line \in Line
    PROVE  /\ M!Parts(line) \in Nat
           /\ M!Parts(line) * M!Limit >= Len(M!Characters(line))
           /\ \A n \in Nat : n < M!Parts(line) => n * M!Limit < Len(M!Characters(line))
<1> DEFINE size == Len(M!Characters(line))
           L == M!Limit
           enough == {n \in 0..size : n * L >= size}
           least == CHOOSE v \in enough : \A w \in enough : v <= w
<1>1. size \in Nat /\ L \in Nat \ {0}
    BY CharactersType, LenProperties, LimitIs
<1> HIDE DEF size, L
<1>2. size \in enough
  <2>1. size * L >= size
      BY <1>1
  <2> QED BY <1>1, <2>1
<1>3. enough \in SUBSET Nat /\ enough # {}
    BY <1>1, <1>2
<1>4. least \in enough /\ \A w \in enough : least <= w
  <2> HIDE DEF enough
  <2>1. \E v \in enough : \A w \in enough : v <= w
      BY <1>3, LeastNumber
  <2> QED BY <2>1
<1>5. M!Parts(line) = least
    BY DEF M!Parts, M!Min, size, L
<1> HIDE DEF least
<1>6. least \in 0..size /\ least * L >= size
    BY <1>4
<1>7. ASSUME NEW n \in Nat, n < least PROVE n * L < size
  <2>1. n \in 0..size /\ n \notin enough
      BY <1>1, <1>4, <1>6, <1>7
  <2>2. ~(n * L >= size)
      BY <2>1
  <2>3. n * L \in Nat
      BY <1>1
  <2> QED BY <1>1, <2>2, <2>3
<1> QED BY <1>1, <1>5, <1>6, <1>7 DEF size, L

\* A slice of a sequence.
LEMMA Slice ==
    ASSUME NEW C, NEW s \in Seq(C), NEW a \in Nat, NEW b \in Nat, a <= b, b <= Len(s)
    PROVE  /\ SubSeq(s, a + 1, b) \in Seq(C) /\ Len(SubSeq(s, a + 1, b)) = b - a
           /\ \A i \in 1..(b - a) : SubSeq(s, a + 1, b)[i] = s[a + i]
<1>1. a + 1 \in Int /\ b \in Int /\ Len(s) \in Nat
    BY LenProperties
<1>2. \A i \in (a + 1)..b : s[i] \in C
    BY <1>1, ElementOfSeq
<1> DEFINE cut == SubSeq(s, a + 1, b)
<1>3. \A m, n \in Int : (\A i \in m..n : s[i] \in C) =>
        /\ SubSeq(s, m, n) \in Seq(C)
        /\ Len(SubSeq(s, m, n)) = IF m <= n THEN n - m + 1 ELSE 0
        /\ \A i \in 1..(n - m + 1) : SubSeq(s, m, n)[i] = s[m + i - 1]
  <2> TAKE m, n \in Int
  <2> HAVE \A i \in m..n : s[i] \in C
  <2> QED BY SubSeqProperties
<1>4. PICK m \in Int : m = a + 1
    BY <1>1
<1>5. /\ SubSeq(s, m, b) \in Seq(C)
      /\ Len(SubSeq(s, m, b)) = IF m <= b THEN b - m + 1 ELSE 0
      /\ \A i \in 1..(b - m + 1) : SubSeq(s, m, b)[i] = s[m + i - 1]
  <2>1. \A i \in m..b : s[i] \in C
      BY <1>2, <1>4
  <2> QED BY <1>1, <1>3, <2>1
<1> HIDE DEF cut
<1>6. cut = SubSeq(s, m, b)
    BY <1>4 DEF cut
<1>7. b - m + 1 = b - a /\ \A i \in 1..(b - a) : m + i - 1 = a + i
    BY <1>1, <1>4
<1>8. Len(cut) = b - a
    BY <1>1, <1>4, <1>5, <1>6, <1>7
<1>9. \A i \in 1..(b - a) : cut[i] = s[a + i]
    BY <1>5, <1>6, <1>7
<1> QED BY <1>5, <1>6, <1>8, <1>9 DEF cut

\* A slice of a text, and the mark at its end if the slice reaches that, is a slice
\* of the text with the mark.
LEMMA SliceWithEnd ==
    ASSUME NEW C, NEW text \in Seq(C), NEW mark \in C, NEW marked \in BOOLEAN,
           NEW all \in Seq(C), all = IF marked THEN Append(text, mark) ELSE text,
           NEW from \in Nat, NEW to \in Nat, from < to, from < Len(all),
           NEW last, last = IF to <= Len(text) THEN to ELSE Len(text),
           NEW upto, upto = IF to <= Len(all) THEN to ELSE Len(all)
    PROVE  /\ SubSeq(text, from + 1, last) \in Seq(C)
           /\ marked /\ to > Len(text) =>
                Append(SubSeq(text, from + 1, last), mark) = SubSeq(all, from + 1, upto)
           /\ ~(marked /\ to > Len(text)) =>
                SubSeq(text, from + 1, last) = SubSeq(all, from + 1, upto)
<1> DEFINE cut == SubSeq(text, from + 1, last)
           piece == SubSeq(all, from + 1, upto)
<1>1. Len(text) \in Nat /\ Len(all) \in Nat
    BY LenProperties
<1>2. /\ marked => Len(all) = Len(text) + 1 /\ all[Len(text) + 1] = mark
      /\ ~marked => all = text
      /\ \A i \in 1..Len(text) : all[i] = text[i]
    BY AppendProperties
<1>3. last \in Nat /\ from <= last /\ last <= Len(text)
    BY <1>1, <1>2
<1>4. upto \in Nat /\ from <= upto /\ upto <= Len(all)
    BY <1>1
<1>5. cut \in Seq(C) /\ Len(cut) = last - from /\ \A i \in 1..(last - from) : cut[i] = text[from + i]
    BY <1>3, Slice
<1>6. piece \in Seq(C) /\ Len(piece) = upto - from
      /\ \A i \in 1..(upto - from) : piece[i] = all[from + i]
    BY <1>4, Slice
<1> HIDE DEF cut, piece
<1>7. CASE marked /\ to > Len(text)
  <2> DEFINE given == Append(cut, mark)
  <2>1. last = Len(text) /\ upto = Len(text) + 1
      BY <1>1, <1>2, <1>7
  <2>2. given \in Seq(C) /\ Len(given) = Len(cut) + 1 /\ given[Len(cut) + 1] = mark
        /\ \A i \in 1..Len(cut) : given[i] = cut[i]
    <3>1. cut \in Seq(C)
        BY <1>5
    <3> QED BY ONLY <3>1, mark \in C, AppendProperties
  <2> HIDE DEF given
  <2>3. Len(given) = Len(piece)
    <3>1. Len(cut) = last - from /\ Len(piece) = upto - from /\ Len(given) = Len(cut) + 1
        BY <1>5, <1>6, <2>2
    <3> QED BY ONLY <3>1, <2>1, <1>1, <1>3
  <2>4. ASSUME NEW i \in 1..Len(given) PROVE given[i] = piece[i]
    <3>1. i \in 1..(upto - from) /\ piece[i] = all[from + i]
        BY <1>6, <2>3
    <3>2. CASE i = Len(cut) + 1
      <4>1. from + i = Len(text) + 1
          BY <1>1, <1>5, <2>1, <3>2
      <4>2. piece[i] = mark
          BY <1>2, <1>7, <3>1, <4>1
      <4> QED BY <2>2, <3>2, <4>2
    <3>3. CASE i # Len(cut) + 1
      <4>1. i \in 1..Len(cut)
          BY <1>1, <1>3, <1>5, <2>2, <3>3
      <4>2. i \in 1..(last - from) /\ from + i \in 1..Len(text)
          BY <1>1, <1>3, <1>5, <2>1, <4>1
      <4>3. given[i] = text[from + i]
          BY <1>5, <2>2, <4>1, <4>2
      <4>4. piece[i] = text[from + i]
          BY <1>2, <3>1, <4>2
      <4> QED BY <4>3, <4>4
    <3> QED BY <3>2, <3>3
  <2>5. given = piece
      BY <1>6, <2>2, <2>3, <2>4, SeqEqual
  <2> QED BY <1>5, <1>7, <2>5 DEF given, cut, piece
<1>8. CASE ~(marked /\ to > Len(text))
  <2>1. last = upto
      BY <1>1, <1>2, <1>8
  <2>2. ASSUME NEW i \in 1..Len(cut) PROVE cut[i] = piece[i]
    <3>1. i \in 1..(last - from) /\ from + i \in 1..Len(text)
        BY <1>1, <1>3, <1>5
    <3>2. cut[i] = text[from + i] /\ piece[i] = all[from + i]
        BY <1>5, <1>6, <2>1, <3>1
    <3> QED BY <1>2, <3>1, <3>2
  <2>3. Len(cut) = Len(piece)
      BY <1>5, <1>6, <2>1
  <2>4. cut = piece
      BY <1>5, <1>6, <2>2, <2>3, SeqEqual
  <2> QED BY <1>5, <1>8, <2>4 DEF cut, piece
<1> QED BY <1>7, <1>8

\* A part holds the characters it is cut for, the newline being one of them.
LEMMA PartIsCutOut ==
    ASSUME log \in LogSizes, NEW line \in Line, NEW n \in Nat,
           n * M!Limit < Len(M!Characters(line))
    PROVE  /\ M!Part(line, n + 1) \in Line
           /\ M!Characters(M!Part(line, n + 1)) =
                SubSeq(M!Characters(line), n * M!Limit + 1,
                       IF (n + 1) * M!Limit <= Len(M!Characters(line))
                       THEN (n + 1) * M!Limit ELSE Len(M!Characters(line)))
<1>1. PICK text, all, L, from, to, last, upto :
         /\ text = line.text /\ all = M!Characters(line) /\ L = M!Limit
         /\ from = n * L /\ to = (n + 1) * L
         /\ last = IF to <= Len(text) THEN to ELSE Len(text)
         /\ upto = IF to <= Len(all) THEN to ELSE Len(all)
    OBVIOUS
<1>2. L \in Nat \ {0} /\ from \in Nat /\ to \in Nat /\ from < to
  <2>1. L \in Nat \ {0}
      BY <1>1, LimitIs
  <2>2. n * L \in Nat /\ (n + 1) * L = n * L + L
      BY <2>1
  <2> QED BY <1>1, <2>1, <2>2
<1>3. text \in Seq(Character) /\ line.nl \in BOOLEAN /\ all \in Seq(Character)
      /\ "\n" \in Character /\ from < Len(all)
    BY <1>1, CharactersType DEF Line, Character
<1>4. all = IF line.nl THEN Append(text, "\n") ELSE text
    BY <1>1 DEF M!Characters
<1> DEFINE cut == SubSeq(text, from + 1, last)
           ends == line.nl /\ to > Len(text)
           part == M!Part(line, n + 1)
<1>5. /\ cut \in Seq(Character)
      /\ ends => Append(cut, "\n") = SubSeq(all, from + 1, upto)
      /\ ~ends => cut = SubSeq(all, from + 1, upto)
  <2>1. /\ Character # {} /\ text \in Seq(Character) /\ "\n" \in Character
        /\ line.nl \in BOOLEAN /\ all \in Seq(Character)
      BY <1>3
  <2>2. /\ all = IF line.nl THEN Append(text, "\n") ELSE text
        /\ from \in Nat /\ to \in Nat /\ from < to /\ from < Len(all)
      BY <1>2, <1>3, <1>4
  <2>3. /\ last = IF to <= Len(text) THEN to ELSE Len(text)
        /\ upto = IF to <= Len(all) THEN to ELSE Len(all)
      BY <1>1
  <2> QED BY ONLY <2>1, <2>2, <2>3, SliceWithEnd, SMTT(30)
<1>6. part = [text |-> cut, nl |-> ends]
  <2>1. (n + 1) - 1 = n /\ Len(text) \in Nat
      BY <1>3, LenProperties
  <2>2. M!Min({to, Len(text)}) = last
      BY <1>1, <1>2, <2>1, LessOfTwo
  <2> QED BY <1>1, <2>1, <2>2 DEF M!Part
<1> HIDE DEF cut, ends
<1>7. ends \in BOOLEAN
    BY <1>3 DEF ends
<1>8. part \in Line /\ part.text = cut /\ part.nl = ends
    BY <1>5, <1>6, <1>7 DEF Line
<1> HIDE DEF part
<1>9. M!Characters(part) = IF ends THEN Append(cut, "\n") ELSE cut
    BY <1>8 DEF M!Characters
<1>10. M!Characters(part) = SubSeq(all, from + 1, upto)
    BY <1>5, <1>7, <1>9
<1> QED BY <1>1, <1>8, <1>10 DEF part

\* A piece that is one part of a line.
LEMMA CutIsPiece ==
    ASSUME NEW part \in Line
    PROVE  /\ M!Cut(part) \in Piece /\ M!Cut(part).cut /\ M!Cut(part).head = 0
           /\ M!Source(M!Cut(part).plain) = M!Characters(part)
<1>1. << >> \in Seq(Line) /\ Append(<< >>, part) = <<part>> /\ <<part>> \in Seq(Line)
    OBVIOUS
<1>2. M!Source(<< >>) = << >> /\ M!Source(<<part>>) = M!Source(<< >>) \o M!Characters(part)
    BY <1>1, SourceAppend
<1>3. << >> \o M!Characters(part) = M!Characters(part)
    BY CharactersType, ConcatEmptySeq
<1>4. M!Cut(part) = [plain |-> <<part>>, cut |-> TRUE, head |-> 0]
    BY DEF M!Cut
<1>5. M!Cut(part).plain = <<part>> /\ M!Cut(part).cut /\ M!Cut(part).head = 0
    BY <1>4
<1>6. M!Cut(part) \in Piece
    BY <1>1, <1>4 DEF Piece
<1>7. M!Source(M!Cut(part).plain) = M!Characters(part)
    BY <1>2, <1>3, <1>5
<1> QED BY <1>5, <1>6, <1>7

\* The parts of a line, one after the other, are the line.
LEMMA HardSplitIsWhole ==
    ASSUME log \in LogSizes, NEW line \in Line, NEW pieces \in Seq(Piece)
    PROVE  /\ M!HardSplit(line) \in Seq(Piece)
           /\ \A i \in DOMAIN M!HardSplit(line) :
                M!HardSplit(line)[i].cut /\ M!HardSplit(line)[i].head = 0
           /\ M!Plain(pieces \o M!HardSplit(line)) = M!Plain(pieces) \o M!Characters(line)
<1>1. PICK all, L, size : /\ all = M!Characters(line) /\ L = M!Limit /\ size = Len(all)
    OBVIOUS
<1>2. L \in Nat \ {0} /\ all \in Seq(Character) /\ size \in Nat
    BY <1>1, LimitIs, CharactersType, LenProperties
<1>3. PICK N \in Nat : N = M!Parts(line) /\ N * L >= size /\ \A n \in Nat : n < N => n * L < size
    BY <1>1, PartsSuffice
<1> DEFINE made(k) == [n \in 1..k |-> M!Cut(M!Part(line, n))]
           upto(k) == IF k * L <= size THEN k * L ELSE size
           Good(k) == /\ made(k) \in Seq(Piece)
                      /\ \A i \in 1..k : made(k)[i].cut /\ made(k)[i].head = 0
                      /\ M!Plain(pieces \o made(k)) = M!Plain(pieces) \o SubSeq(all, 1, upto(k))
           Bad == {k \in 0..N : ~Good(k)}
<1>4. M!Plain(pieces) \in Seq(Character)
  <2>1. [plain |-> << >>, cut |-> TRUE, head |-> 0] \in Piece
      BY DEF Piece
  <2> QED BY <2>1, PlainAppend
<1>5. Good(0)
  <2>1. made(0) = << >> /\ pieces \o << >> = pieces
      BY ConcatEmptySeq
  <2>2. 0 * L = 0 /\ upto(0) = 0
      BY <1>2
  <2>3. SubSeq(all, 1, 0) = << >>
      BY SubSeqEmpty
  <2>4. M!Plain(pieces) \o << >> = M!Plain(pieces)
      BY <1>4, ConcatEmptySeq
  <2>5. << >> \in Seq(Piece) /\ 1..0 = {}
      OBVIOUS
  <2> HIDE DEF made, upto
  <2> QED BY <2>1, <2>2, <2>3, <2>4, <2>5
<1>6. ASSUME NEW k \in Nat, k < N, Good(k) PROVE Good(k + 1)
  <2>1. PICK from, to : from = k * L /\ to = (k + 1) * L
      OBVIOUS
  <2>2. from \in Nat /\ to \in Nat /\ to = from + L /\ from < size
    <3>1. k * L < size
        BY <1>3, <1>6
    <3>2. k * L \in Nat /\ (k + 1) * L = k * L + L
        BY <1>2
    <3> QED BY <1>2, <2>1, <3>1, <3>2
  <2>3. PICK b : b = IF to <= size THEN to ELSE size
      OBVIOUS
  <2>4. upto(k) = from /\ upto(k + 1) = b
      BY <1>2, <2>1, <2>2, <2>3
  <2> DEFINE part == M!Part(line, k + 1)
             one == M!Cut(part)
  <2>5. part \in Line /\ M!Characters(part) = SubSeq(all, from + 1, b)
    <3>1. k * M!Limit < Len(M!Characters(line))
        BY <1>1, <2>1, <2>2
    <3>2. part \in Line /\ M!Characters(part) =
            SubSeq(M!Characters(line), k * M!Limit + 1,
                       IF (k + 1) * M!Limit <= Len(M!Characters(line))
                       THEN (k + 1) * M!Limit ELSE Len(M!Characters(line)))
        BY <3>1, PartIsCutOut
    <3> HIDE DEF part
    <3> QED BY <1>1, <2>1, <2>3, <3>2
  <2> HIDE DEF part
  <2>6. /\ one \in Piece /\ one.cut /\ one.head = 0
        /\ M!Source(one.plain) = SubSeq(all, from + 1, b)
      BY <2>5, CutIsPiece
  <2>7. made(k) \in Seq(Piece) /\ made(k + 1) = Append(made(k), one)
    <3>1. made(k) \in Seq(Piece) /\ Len(made(k)) = k
        BY <1>6
    <3>2. \A i \in 1..k : made(k)[i] = made(k + 1)[i]
        OBVIOUS
    <3>3. made(k + 1)[k + 1] = one
        BY DEF part
    <3> DEFINE more == made(k + 1)
               other == Append(made(k), one)
    <3>4. other \in Seq(Piece) /\ Len(other) = k + 1 /\ other[k + 1] = one
          /\ \A i \in 1..k : other[i] = made(k)[i]
      <4> HIDE DEF made, one
      <4> QED BY <2>6, <3>1, AppendProperties
    <3>5. DOMAIN more = 1..(k + 1) /\ more = [i \in 1..(k + 1) |-> more[i]]
        OBVIOUS
    <3> HIDE DEF made, one, more, other
    <3>6. \A i \in 1..(k + 1) : more[i] = other[i]
        BY <3>2, <3>3, <3>4 DEF more
    <3>7. more \in Seq(Piece) /\ Len(more) = k + 1
      <4>1. \A i \in 1..(k + 1) : other[i] \in Piece
          BY <3>4, ElementOfSeq
      <4> QED BY <3>5, <3>6, <4>1
    <3>8. more = other
        BY <3>4, <3>6, <3>7, SeqEqual
    <3> QED BY <3>1, <3>8 DEF more, other
  <2> HIDE DEF one
  <2>8. M!Plain(pieces \o made(k)) = M!Plain(pieces) \o SubSeq(all, 1, from)
      BY <1>6, <2>4
  <2>9. \A i \in 1..k : made(k)[i].cut /\ made(k)[i].head = 0
      BY <1>6
  <2>10. Len(made(k)) = k
      OBVIOUS
  <2> HIDE DEF made, upto
  <2>11. pieces \o Append(made(k), one) = Append(pieces \o made(k), one)
         /\ pieces \o made(k) \in Seq(Piece)
    <3>1. PICK m : m = made(k)
        OBVIOUS
    <3>2. Append(m, one) = m \o <<one>> /\ <<one>> \in Seq(Piece) /\ m \in Seq(Piece)
        BY <2>6, <2>7, <3>1, AppendIsConcat
    <3>3. pieces \o (m \o <<one>>) = (pieces \o m) \o <<one>>
        BY <3>2, ConcatAssociative, SMTT(40)
    <3>4. pieces \o m \in Seq(Piece)
        BY <3>2, ConcatProperties
    <3>5. Append(pieces \o m, one) = (pieces \o m) \o <<one>>
        BY <2>6, <3>4, AppendIsConcat
    <3> QED BY <3>1, <3>2, <3>3, <3>4, <3>5
  <2>12. M!Plain(pieces \o made(k + 1)) =
            (M!Plain(pieces) \o SubSeq(all, 1, from)) \o SubSeq(all, from + 1, b)
    <3>1. M!Plain(Append(pieces \o made(k), one)) =
            M!Plain(pieces \o made(k)) \o M!Source(one.plain)
        BY <2>6, <2>11, PlainAppend
    <3> QED BY <2>6, <2>7, <2>8, <2>11, <3>1
  <2>13. (M!Plain(pieces) \o SubSeq(all, 1, from)) \o SubSeq(all, from + 1, b)
            = M!Plain(pieces) \o SubSeq(all, 1, b)
    <3>1. b \in from..Len(all) /\ 1 \in 1..(Len(all) + 1) /\ from \in (1 - 1)..Len(all)
        BY <1>1, <1>2, <2>2, <2>3
    <3>2. SubSeq(all, 1, from) \o SubSeq(all, from + 1, b) = SubSeq(all, 1, b)
        BY <1>1, <1>2, <3>1, ConcatAdjacentSubSeq
    <3>3. SubSeq(all, 1, from) \in Seq(Character) /\ SubSeq(all, from + 1, b) \in Seq(Character)
      <4>1. 0 \in Nat /\ 0 + 1 = 1 /\ b \in Nat /\ from <= b /\ b <= Len(all)
            /\ from <= Len(all) /\ 0 <= from
          BY <1>1, <1>2, <2>2, <3>1
      <4>2. SubSeq(all, 0 + 1, from) \in Seq(Character)
          BY <1>2, <2>2, <4>1, Slice
      <4>3. SubSeq(all, from + 1, b) \in Seq(Character)
          BY <1>2, <2>2, <4>1, Slice
      <4> QED BY <4>1, <4>2, <4>3
    <3>4. PICK begun, s, t : /\ begun = M!Plain(pieces) /\ s = SubSeq(all, 1, from)
                             /\ t = SubSeq(all, from + 1, b)
        OBVIOUS
    <3>5. begun \in Seq(Character) /\ s \in Seq(Character) /\ t \in Seq(Character)
        BY <1>4, <3>3, <3>4
    <3>6. (begun \o s) \o t = begun \o (s \o t)
        BY <3>5, ConcatAssociative, SMTT(40)
    <3> QED BY <3>2, <3>4, <3>6
  <2>14. made(k + 1) \in Seq(Piece)
         /\ \A i \in 1..(k + 1) : made(k + 1)[i].cut /\ made(k + 1)[i].head = 0
    <3>1. /\ Append(made(k), one) \in Seq(Piece) /\ Append(made(k), one)[k + 1] = one
          /\ \A i \in 1..k : Append(made(k), one)[i] = made(k)[i]
        BY <2>6, <2>7, <2>10, AppendProperties
    <3>2. ASSUME NEW i \in 1..(k + 1) PROVE made(k + 1)[i].cut /\ made(k + 1)[i].head = 0
      <4>1. CASE i = k + 1
          BY <2>6, <2>7, <3>1, <4>1
      <4>2. CASE i # k + 1
        <5>1. i \in 1..k
            BY <4>2
        <5>2. made(k + 1)[i] = made(k)[i]
            BY <2>7, <3>1, <5>1
        <5> QED BY <2>9, <5>1, <5>2
      <4> QED BY <4>1, <4>2
    <3> QED BY <2>7, <3>1, <3>2
  <2> QED BY <2>4, <2>12, <2>13, <2>14
<1>7. Bad = {}
  <2> SUFFICES ASSUME Bad # {} PROVE FALSE
      OBVIOUS
  <2>1. PICK k \in Bad : \A j \in Bad : k <= j
    <3>1. Bad \in SUBSET Nat
        BY <1>3
    <3> HIDE DEF Bad
    <3> QED BY <3>1, LeastNumber
  <2> HIDE DEF Good
  <2>2. k \in 0..N /\ ~Good(k) /\ k # 0
      BY <1>5, <2>1
  <2>3. k - 1 \in Nat /\ k - 1 < N /\ k - 1 \notin Bad /\ (k - 1) + 1 = k
      BY <1>3, <2>1, <2>2
  <2>4. Good(k - 1)
      BY <1>3, <2>2, <2>3
  <2>5. Good((k - 1) + 1)
      BY <1>6, <2>3, <2>4
  <2> QED BY <2>2, <2>3, <2>5
<1>8. Good(N)
  <2> HIDE DEF Good
  <2>1. N \in 0..N
      BY <1>3
  <2> QED BY <1>7, <2>1
<1>9. upto(N) = size /\ SubSeq(all, 1, size) = all
  <2>1. upto(N) = size
      BY <1>2, <1>3
  <2> QED BY <1>1, <1>2, <2>1, SubSeqFull
<1>10. M!HardSplit(line) = made(N) /\ DOMAIN M!HardSplit(line) = 1..N
    BY <1>3 DEF M!HardSplit
<1> HIDE DEF made, upto
<1> QED BY <1>1, <1>8, <1>9, <1>10

-----------------------------------------------------------------------------
Output == [len: Nat, gap: Nat]
Parsers == [within: {"none", "code", "paragraph"}, out: Output]

\* What the writer's operations make of an output is one.
LEMMA OutputType ==
    ASSUME NEW out \in Output, NEW n \in Nat
    PROVE  /\ M!Nothing \in Output /\ M!Put(out, n) \in Output /\ M!Newline(out) \in Output
           /\ M!EnsureNl(out) \in Output /\ M!EnsureBlank(out) \in Output
           /\ M!OpenCode(out) \in Output /\ M!CloseCode(out) \in Output
<1>1. M!Nothing \in Output
    BY DEF M!Nothing, Output
<1>2. \A o \in Output, k \in Nat : M!Put(o, k) \in Output
    BY DEF M!Put, Output
<1>3. \A o \in Output : M!Newline(o) \in Output
    BY DEF M!Newline, Output
<1>4. \A o \in Output : M!EnsureNl(o) \in Output /\ M!EnsureBlank(o) \in Output
    BY DEF M!EnsureNl, M!EnsureBlank, M!AtLeast, Output
<1> QED BY <1>1, <1>2, <1>3, <1>4 DEF M!OpenCode, M!CloseCode

\* What is escaped has a length.
LEMMA EscapedType ==
    ASSUME NEW text \in Seq(Character)
    PROVE  Len(text) \in Nat /\ M!Escaped(text) \in Nat
<1>1. Len(text) \in Nat /\ DOMAIN text = 1..Len(text)
    BY LenProperties
<1>2. IsFiniteSet(1..Len(text))
    BY <1>1, FS_Interval
<1>3. IsFiniteSet({i \in DOMAIN text : text[i] = "."})
    BY <1>1, <1>2, FS_Subset
<1>4. M!Reserved(text) \in Nat
  <2>1. PICK S : S = {i \in DOMAIN text : text[i] = "."}
      OBVIOUS
  <2>2. Cardinality(S) \in Nat
      BY <1>3, <2>1, FS_CardinalityType
  <2> QED BY <2>1, <2>2 DEF M!Reserved, M!Cardinality, Cardinality
<1> QED BY <1>1, <1>4 DEF M!Escaped

\* A line brings the parser from one of its states to another.
LEMMA EventType ==
    ASSUME NEW acc \in Parsers, NEW line \in Line
    PROVE  M!Event(acc, line) \in Parsers
<1>1. acc.out \in Output /\ acc.within \in {"none", "code", "paragraph"}
    BY DEF Parsers
<1>2. line.text \in Seq(Character) /\ Len(line.text) \in Nat /\ M!Escaped(line.text) \in Nat
    BY EscapedType DEF Line
<1>3. \A w \in {"none", "code", "paragraph"}, o \in Output : M!Parser(w, o) \in Parsers
    BY DEF M!Parser, Parsers
<1>4. 0 \in Nat
    OBVIOUS
<1>5. M!CloseCode(acc.out) \in Output /\ M!OpenCode(acc.out) \in Output
      /\ M!EnsureBlank(acc.out) \in Output /\ M!Newline(acc.out) \in Output
    BY <1>1, <1>4, OutputType
<1>6. /\ M!Newline(M!Put(acc.out, Len(line.text))) \in Output
      /\ M!Put(M!EnsureBlank(acc.out), M!Escaped(line.text)) \in Output
      /\ M!Put(M!Newline(acc.out), M!Escaped(line.text)) \in Output
    BY <1>1, <1>2, <1>5, OutputType
<1>7. CASE line.text = M!Fence
    BY <1>3, <1>5, <1>7 DEF M!Event
<1>8. CASE line.text # M!Fence /\ acc.within = "code"
    BY <1>3, <1>6, <1>8 DEF M!Event
<1>9. CASE line.text # M!Fence /\ acc.within = "none"
    BY <1>3, <1>5, <1>6, <1>9 DEF M!Event
<1>10. CASE line.text # M!Fence /\ acc.within = "paragraph"
    BY <1>3, <1>5, <1>6, <1>10 DEF M!Event
<1> QED BY <1>1, <1>7, <1>8, <1>9, <1>10

\* What the parser does at its i-th line.
NextParser(after, md, i) == IF i = 0 THEN M!Parser("none", M!Nothing) ELSE M!Event(after[i - 1], md[i])

\* The parser gets as far as any n.
LEMMA ParsersUpTo ==
    ASSUME NEW md, NEW n \in Nat
    PROVE  \E f : f = [i \in 0..n |-> NextParser(f, md, i)]
<1> DEFINE Bad == {k \in Nat : ~\E f : f = [i \in 0..k |-> NextParser(f, md, i)]}
<1> SUFFICES ASSUME Bad # {} PROVE FALSE
    OBVIOUS
<1>1. PICK k \in Bad : \A j \in Bad : k <= j
    BY LeastNumber
<1>2. CASE k = 0
    <2> DEFINE f == [i \in 0..0 |-> M!Parser("none", M!Nothing)]
    <2>1. f = [i \in 0..0 |-> NextParser(f, md, i)]
        BY DEF NextParser
    <2> HIDE DEF f
    <2> QED BY <1>1, <1>2, <2>1
<1>3. CASE k # 0
    <2>1. k \in Nat /\ k - 1 \in Nat /\ k - 1 \notin Bad
        BY <1>1, <1>3
    <2>2. PICK f : f = [i \in 0..(k - 1) |-> NextParser(f, md, i)]
        BY <2>1
    <2> DEFINE h == [i \in 0..k |-> IF i = k THEN NextParser(f, md, k) ELSE f[i]]
    <2>3. ASSUME NEW i \in 0..k PROVE h[i] = NextParser(h, md, i)
        <3>1. i # 0 => i - 1 \in 0..k /\ i - 1 # k
            BY <2>1
        <3>2. i # 0 => h[i - 1] = f[i - 1]
            BY <3>1
        <3> HIDE DEF h
        <3>3. NextParser(h, md, i) = NextParser(f, md, i)
            BY <3>2 DEF NextParser
        <3> USE DEF h
        <3>4. CASE i = k
            BY <3>3, <3>4
        <3>5. CASE i # k
            <4>1. i \in 0..(k - 1)
                BY <2>1, <3>5
            <4>2. f[i] = NextParser(f, md, i)
                BY <2>2, <4>1
            <4> QED BY <3>3, <3>5, <4>2
        <3> QED BY <3>4, <3>5
    <2>4. h = [i \in 0..k |-> NextParser(h, md, i)]
        BY <2>3
    <2> HIDE DEF h
    <2> QED BY <1>1, <2>4
<1> QED BY <1>2, <1>3

\* What is rendered has a length.
LEMMA RenderedType ==
    ASSUME NEW md \in Seq(Line)
    PROVE  M!Rendered(md) \in Nat
<1> DEFINE n == Len(md)
           f == CHOOSE g : g = [i \in 0..n |-> IF i = 0 THEN M!Parser("none", M!Nothing)
                                               ELSE M!Event(g[i - 1], md[i])]
<1>1. n \in Nat /\ \A i \in 1..n : md[i] \in Line
    BY LenProperties, ElementOfSeq
<1>2. M!Parsed(md) = f[n]
    BY DEF M!Parsed
<1>3. f = [i \in 0..n |-> IF i = 0 THEN M!Parser("none", M!Nothing)
                          ELSE M!Event(f[i - 1], md[i])]
  <2>1. \E g : g = [i \in 0..n |-> IF i = 0 THEN M!Parser("none", M!Nothing)
                                   ELSE M!Event(g[i - 1], md[i])]
      BY <1>1, ParsersUpTo DEF NextParser
  <2> QED BY <2>1
<1> HIDE DEF f, n
<1> DEFINE Bad == {i \in 0..n : f[i] \notin Parsers}
<1>4. Bad = {}
  <2> SUFFICES ASSUME Bad # {} PROVE FALSE
      OBVIOUS
  <2>1. PICK k \in Bad : \A j \in Bad : k <= j
    <3>1. Bad \in SUBSET Nat
        BY <1>1
    <3> HIDE DEF Bad
    <3> QED BY <3>1, LeastNumber
  <2>2. k \in 0..n /\ f[k] \notin Parsers /\ (k # 0 => k - 1 \in 0..n /\ f[k - 1] \in Parsers)
      BY <1>1, <2>1
  <2>3. M!Parser("none", M!Nothing) \in Parsers
    <3>1. M!Nothing \in Output
        BY DEF M!Nothing, Output
    <3> QED BY <3>1 DEF M!Parser, Parsers
  <2>4. CASE k = 0
    <3>1. f[k] = M!Parser("none", M!Nothing)
        BY <1>3, <2>2, <2>4
    <3> QED BY <2>2, <2>3, <3>1
  <2>5. CASE k # 0
    <3>1. f[k] = M!Event(f[k - 1], md[k])
        BY <1>3, <2>2, <2>5
    <3>2. k \in 1..n /\ md[k] \in Line /\ f[k - 1] \in Parsers
        BY <1>1, <2>2, <2>5
    <3> QED BY <2>2, <3>1, <3>2, EventType
  <2> QED BY <2>4, <2>5
<1>5. M!Parsed(md) \in Parsers
  <2>1. n \in 0..n
      BY <1>1
  <2> QED BY <1>2, <1>4, <2>1
<1>6. M!Parsed(md).out \in Output /\ 0 \in Nat
    BY <1>5 DEF Parsers
<1>7. M!CloseCode(M!Parsed(md).out) \in Output
    BY <1>6, OutputType
<1> QED BY <1>6, <1>7 DEF M!Rendered, Output

-----------------------------------------------------------------------------
\* What has been cut so far is the beginning of the answer; the lines the loop
\* has not seen are its rest.
CutSoFar(k) ==
    /\ rest = SubSeq(doc, k + 1, Len(doc))
    /\ M!Plain(chunks) \o M!Source(buf) = M!Source(SubSeq(doc, 1, k))

WholeInv ==
    /\ doc \in Seq(Line) /\ rest \in Seq(Line) /\ buf \in Seq(Line) /\ chunks \in Seq(Piece)
    /\ log \in LogSizes /\ pc \in {"splitting", "split", "done"}
    /\ pc = "splitting" => \E k \in 0..Len(doc) : CutSoFar(k)
    /\ pc # "splitting" /\ ~M!IsBlank(doc) => M!Plain(chunks) = M!Source(doc)

\* A piece of whole lines has room for the log before it, which it gets at the end.
FitInv ==
    /\ buf # << >> => M!Rendered(buf) <= M!Limit
    /\ \A i \in DOMAIN chunks : ~chunks[i].cut =>
            /\ M!Rendered(chunks[i].plain) <= M!Limit
            /\ chunks[i].head \in {0, log + 2}
            /\ log = 0 \/ pc # "done" => chunks[i].head = 0

ChunkInv == WholeInv /\ FitInv

\* The first document.
LEMMA DocType ==
    ASSUME NEW d \in M!Docs
    PROVE  d \in Seq(Line)
<1>0. PICK n \in 0..MaxLines : \E t \in [1..n -> Lines], closed \in BOOLEAN :
          d = [i \in 1..n |-> [text |-> t[i], nl |-> i < n \/ closed]]
    BY DEF M!Docs
<1>1. PICK t \in [1..n -> Lines], closed \in BOOLEAN :
          d = [i \in 1..n |-> [text |-> t[i], nl |-> i < n \/ closed]]
    BY <1>0
<1>2. n \in Nat
    BY DocumentAssumption DEF M!ChunksAssumption
<1>3. \A l \in Lines : l \in Seq(Character)
  <2>1. Lines \subseteq Seq({"a", "."}) \cup {M!Fence}
      BY DocumentAssumption DEF M!ChunksAssumption
  <2>2. M!Fence \in Seq(Character)
      BY DEF M!Fence, Character
  <2>3. \A l \in Seq({"a", "."}) : l \in Seq(Character)
    <3>1. {"a", "."} \subseteq Character
        BY DEF Character
    <3> QED BY <3>1, SeqMonotonic
  <2> QED BY <2>1, <2>2, <2>3
<1>4. \A i \in 1..n : [text |-> t[i], nl |-> i < n \/ closed] \in Line
  <2> TAKE i \in 1..n
  <2>1. t[i] \in Seq(Character)
      BY <1>3
  <2>2. (i < n \/ closed) \in BOOLEAN
      OBVIOUS
  <2> QED BY <2>1, <2>2 DEF Line
<1> QED BY <1>1, <1>2, <1>4

\* A piece of whole lines.
LEMMA WholeIsPiece ==
    ASSUME NEW md \in Seq(Line)
    PROVE  /\ M!Whole(md) \in Piece /\ M!Whole(md).plain = md
           /\ ~M!Whole(md).cut /\ M!Whole(md).head = 0
<1>1. M!Whole(md) = [plain |-> md, cut |-> FALSE, head |-> 0]
    BY DEF M!Whole
<1>2. M!Whole(md) \in Piece
    BY <1>1 DEF Piece
<1> QED BY <1>1, <1>2

\* Flushing moves what is buffered into a chunk.
LEMMA FlushedIsWhole ==
    ASSUME ChunkInv, pc = "splitting"
    PROVE  /\ M!Flushed(chunks) \in Seq(Piece)
           /\ M!Plain(M!Flushed(chunks)) = M!Plain(chunks) \o M!Source(buf)
           /\ \A i \in DOMAIN M!Flushed(chunks) : ~M!Flushed(chunks)[i].cut =>
                /\ M!Rendered(M!Flushed(chunks)[i].plain) <= M!Limit
                /\ M!Flushed(chunks)[i].head = 0
<1>1. chunks \in Seq(Piece) /\ buf \in Seq(Line)
    BY DEF ChunkInv, WholeInv
<1>2. \A i \in DOMAIN chunks : ~chunks[i].cut =>
            M!Rendered(chunks[i].plain) <= M!Limit /\ chunks[i].head = 0
    BY DEF ChunkInv, FitInv
<1>3. M!Plain(chunks) \in Seq(Character)
  <2>1. M!Whole(buf) \in Piece
      BY <1>1, WholeIsPiece
  <2> QED BY <1>1, <2>1, PlainAppend
<1>4. CASE buf = << >>
  <2>1. M!Flushed(chunks) = chunks
      BY <1>4 DEF M!Flushed
  <2>2. M!Source(buf) = << >>
    <3>1. [text |-> << >>, nl |-> TRUE] \in Line
        BY DEF Line
    <3> QED BY <1>1, <1>4, <3>1, SourceAppend
  <2>3. M!Plain(chunks) \o << >> = M!Plain(chunks)
      BY <1>3, ConcatEmptySeq
  <2> QED BY <1>1, <1>2, <2>1, <2>2, <2>3
<1>5. CASE buf # << >>
  <2>1. M!Rendered(buf) <= M!Limit
      BY <1>5 DEF ChunkInv, FitInv
  <2>2. PICK piece : piece = M!Whole(buf)
      OBVIOUS
  <2>3. piece \in Piece /\ piece.plain = buf /\ piece.head = 0
      BY <1>1, <2>2, WholeIsPiece
  <2>4. PICK more : more = Append(chunks, piece)
      OBVIOUS
  <2>5. M!Flushed(chunks) = more
      BY <1>5, <2>2, <2>4 DEF M!Flushed
  <2>6. more \in Seq(Piece) /\ M!Plain(more) = M!Plain(chunks) \o M!Source(buf)
      BY <1>1, <2>3, <2>4, PlainAppend, AppendProperties
  <2>7. ASSUME NEW i \in DOMAIN more, ~more[i].cut
        PROVE  M!Rendered(more[i].plain) <= M!Limit /\ more[i].head = 0
    <3>1. Len(chunks) \in Nat /\ DOMAIN chunks = 1..Len(chunks) /\ Len(more) = Len(chunks) + 1
          /\ DOMAIN more = 1..(Len(chunks) + 1) /\ more[Len(chunks) + 1] = piece
          /\ \A j \in 1..Len(chunks) : more[j] = chunks[j]
      <4>1. Len(chunks) \in Nat /\ DOMAIN chunks = 1..Len(chunks)
          BY <1>1, LenProperties
      <4>2. Len(more) = Len(chunks) + 1 /\ more[Len(chunks) + 1] = piece
            /\ \A j \in 1..Len(chunks) : more[j] = chunks[j]
          BY <1>1, <2>3, <2>4, AppendProperties
      <4>3. DOMAIN more = 1..Len(more)
          BY <2>6, LenProperties
      <4> QED BY <4>1, <4>2, <4>3
    <3>2. CASE i = Len(chunks) + 1
        BY <2>1, <2>3, <3>1, <3>2
    <3>3. CASE i # Len(chunks) + 1
      <4>1. i \in DOMAIN chunks /\ more[i] = chunks[i]
          BY <3>1, <3>3
      <4> QED BY <1>2, <2>7, <4>1
    <3> QED BY <3>2, <3>3
  <2> QED BY <2>5, <2>6, <2>7
<1> QED BY <1>4, <1>5

\* The line the loop is at is the next one of the answer.
LEMMA NextLine ==
    ASSUME ChunkInv, pc = "splitting", rest # << >>
    PROVE  /\ Head(rest) \in Line /\ Tail(rest) \in Seq(Line)
           /\ \E k \in 0..Len(doc) :
                /\ k + 1 \in 0..Len(doc) /\ CutSoFar(k)
                /\ Tail(rest) = SubSeq(doc, (k + 1) + 1, Len(doc))
                /\ M!Source(SubSeq(doc, 1, k + 1)) =
                     M!Source(SubSeq(doc, 1, k)) \o M!Characters(Head(rest))
<1>1. doc \in Seq(Line) /\ rest \in Seq(Line) /\ Len(doc) \in Nat
    BY LenProperties DEF ChunkInv, WholeInv
<1>2. PICK k \in 0..Len(doc) : CutSoFar(k)
    BY DEF ChunkInv, WholeInv
<1>3. k \in Nat /\ rest = SubSeq(doc, k + 1, Len(doc))
    BY <1>1, <1>2 DEF CutSoFar
<1>4. k < Len(doc)
  <2>1. ASSUME k = Len(doc) PROVE FALSE
    <3>1. k + 1 \in Int /\ Len(doc) \in Int /\ Len(doc) < k + 1
        BY <1>1, <1>3, <2>1
    <3>2. SubSeq(doc, k + 1, Len(doc)) = << >>
        BY <3>1, SubSeqEmpty
    <3> QED BY <1>3, <3>2
  <2> QED BY <1>1, <1>3, <2>1
<1>5. PICK n : n = k + 1
    OBVIOUS
<1>6. n \in 1..Len(doc) /\ Len(doc) \in n..Len(doc) /\ n \in 1..n
    BY <1>1, <1>3, <1>4, <1>5
<1>7. Head(rest) = doc[n] /\ Tail(rest) = SubSeq(doc, n + 1, Len(doc))
    BY <1>1, <1>3, <1>5, <1>6, HeadTailOfSubSeq
<1>8. doc[n] \in Line
    BY <1>1, <1>6, ElementOfSeq
<1>9. PICK begun : begun = SubSeq(doc, 1, k)
    OBVIOUS
<1>10. begun \in Seq(Line)
  <2>1. 0 \in Nat /\ 0 <= k /\ k <= Len(doc) /\ 0 + 1 = 1
      BY <1>1, <1>3, <1>4
  <2>2. SubSeq(doc, 0 + 1, k) \in Seq(Line)
      BY <1>1, <1>3, <2>1, Slice
  <2> QED BY <1>9, <2>1, <2>2
<1>11. SubSeq(doc, 1, n) = Append(begun, doc[n])
  <2>1. 1 \in 1..Len(doc) /\ n - 1 = k
      BY <1>3, <1>5, <1>6
  <2>2. SubSeq(doc, 1, n) = SubSeq(doc, 1, n - 1) \o <<doc[n]>>
      BY <1>1, <1>6, <2>1, SubSeqRecursiveSecond
  <2>3. Append(begun, doc[n]) = begun \o <<doc[n]>>
      BY <1>8, <1>10, AppendIsConcat
  <2> QED BY <1>9, <2>1, <2>2, <2>3
<1>12. M!Source(Append(begun, doc[n])) = M!Source(begun) \o M!Characters(doc[n])
    BY <1>8, <1>10, SourceAppend
<1>13. n \in 0..Len(doc)
    BY <1>6
<1>14. Tail(rest) \in Seq(Line)
    BY <1>1, HeadTailProperties
<1> QED BY <1>2, <1>5, <1>7, <1>8, <1>9, <1>11, <1>12, <1>13, <1>14

\* A newline belongs to its line: nothing is cut at the beginning.
LEMMA ChunkInit == M!Init => ChunkInv
<1> SUFFICES ASSUME M!Init PROVE ChunkInv
    OBVIOUS
<1>1. doc \in Seq(Line) /\ log \in LogSizes /\ pc = "splitting" /\ rest = doc
      /\ buf = << >> /\ chunks = << >>
    BY DocType DEF M!Init
<1>2. << >> \in Seq(Line) /\ << >> \in Seq(Piece) /\ DOMAIN << >> = {}
    OBVIOUS
<1>3. CutSoFar(0) /\ 0 \in 0..Len(doc)
  <2>1. SubSeq(doc, 0 + 1, Len(doc)) = doc /\ SubSeq(doc, 1, 0) = << >> /\ Len(doc) \in Nat
      BY <1>1, SubSeqFull, SubSeqEmpty, LenProperties
  <2>2. M!Plain(<< >>) = << >>
    <3>1. [plain |-> << >>, cut |-> TRUE, head |-> 0] \in Piece
        BY DEF Piece
    <3> QED BY <1>2, <3>1, PlainAppend
  <2>3. M!Source(<< >>) = << >>
    <3>1. [text |-> << >>, nl |-> TRUE] \in Line
        BY DEF Line
    <3> QED BY <1>2, <3>1, SourceAppend
  <2>4. << >> \o << >> = << >>
      OBVIOUS
  <2>5. rest = SubSeq(doc, 0 + 1, Len(doc))
      BY <1>1, <2>1
  <2>6. M!Plain(chunks) \o M!Source(buf) = M!Source(SubSeq(doc, 1, 0))
      BY <1>1, <2>1, <2>2, <2>3, <2>4
  <2>7. 0 \in 0..Len(doc)
      BY <2>1
  <2> QED BY <2>5, <2>6, <2>7 DEF CutSoFar
<1>4. WholeInv
    BY <1>1, <1>2, <1>3 DEF WholeInv
<1>5. FitInv
    BY <1>1, <1>2 DEF FitInv
<1> QED BY <1>4, <1>5 DEF ChunkInv

\* The sequences the steps concatenate are of characters.
LEMMA TextsType ==
    ASSUME NEW pieces \in Seq(Piece), NEW md \in Seq(Line)
    PROVE  M!Plain(pieces) \in Seq(Character) /\ M!Source(md) \in Seq(Character)
<1>1. [text |-> << >>, nl |-> TRUE] \in Line /\ [plain |-> << >>, cut |-> TRUE, head |-> 0] \in Piece
    BY DEF Line, Piece
<1> QED BY <1>1, PlainAppend, SourceAppend

\* The fast path keeps the answer whole.
LEMMA BeginCuts == ChunkInv /\ M!Begin => ChunkInv'
<1> SUFFICES ASSUME ChunkInv, M!Begin PROVE ChunkInv'
    OBVIOUS
<1>1. doc \in Seq(Line) /\ chunks \in Seq(Piece) /\ log \in LogSizes
    BY DEF ChunkInv, WholeInv
<1>2. pc = "splitting" /\ pc' = "split" /\ UNCHANGED <<doc, log, rest, buf>>
    BY DEF M!Begin
<1>3. M!Limit' = M!Limit
    BY <1>2 DEF M!Limit
<1>4. M!IsBlank(doc)' = M!IsBlank(doc)
    BY <1>2 DEF M!IsBlank
<1>5. CASE M!IsBlank(doc) /\ chunks' = chunks
  <2>1. WholeInv'
      BY <1>2, <1>4, <1>5 DEF ChunkInv, WholeInv
  <2>2. FitInv'
      BY <1>2, <1>3, <1>5 DEF ChunkInv, FitInv
  <2> QED BY <2>1, <2>2 DEF ChunkInv
<1>6. CASE ~M!IsBlank(doc) /\ M!Rendered(doc) <= M!Limit /\ chunks' = <<M!Whole(doc)>>
  <2>1. PICK piece : piece = M!Whole(doc)
      OBVIOUS
  <2>2. piece \in Piece /\ piece.plain = doc /\ piece.head = 0
      BY <1>1, <2>1, WholeIsPiece
  <2>3. << >> \in Seq(Piece) /\ <<piece>> = Append(<< >>, piece) /\ <<piece>> \in Seq(Piece)
        /\ DOMAIN <<piece>> = {1} /\ <<piece>>[1] = piece
      BY <2>2
  <2>4. M!Plain(<<piece>>) = M!Source(doc)
    <3>1. M!Plain(<<piece>>) = M!Plain(<< >>) \o M!Source(doc) /\ M!Plain(<< >>) = << >>
        BY <2>2, <2>3, PlainAppend
    <3>2. << >> \o M!Source(doc) = M!Source(doc)
        BY <1>1, <2>3, TextsType, ConcatEmptySeq
    <3> QED BY <3>1, <3>2
  <2>5. WholeInv'
      BY <1>2, <1>6, <2>1, <2>3, <2>4 DEF ChunkInv, WholeInv
  <2>6. FitInv'
      BY <1>2, <1>3, <1>6, <2>1, <2>2, <2>3 DEF ChunkInv, FitInv
  <2> QED BY <2>5, <2>6 DEF ChunkInv
<1> QED BY <1>5, <1>6 DEF M!Begin

\* A line that is cut comes after what is buffered.
LEMMA CutLineCuts == ChunkInv /\ M!CutLine => ChunkInv'
<1> SUFFICES ASSUME ChunkInv, M!CutLine PROVE ChunkInv'
    OBVIOUS
<1>1. doc \in Seq(Line) /\ chunks \in Seq(Piece) /\ buf \in Seq(Line) /\ log \in LogSizes
    BY DEF ChunkInv, WholeInv
<1>2. /\ pc = "splitting" /\ rest # << >> /\ UNCHANGED <<doc, log, pc>>
      /\ chunks' = M!Flushed(chunks) \o M!HardSplit(Head(rest))
      /\ buf' = << >> /\ rest' = Tail(rest)
    BY DEF M!CutLine, M!Loops
<1>3. M!Limit' = M!Limit
    BY <1>2 DEF M!Limit
<1>4. PICK flushed, split, line :
        flushed = M!Flushed(chunks) /\ split = M!HardSplit(Head(rest)) /\ line = Head(rest)
    OBVIOUS
<1>5. line \in Line /\ Tail(rest) \in Seq(Line)
    BY <1>2, <1>4, NextLine
<1>6. /\ flushed \in Seq(Piece) /\ M!Plain(flushed) = M!Plain(chunks) \o M!Source(buf)
      /\ \A i \in DOMAIN flushed : ~flushed[i].cut =>
            M!Rendered(flushed[i].plain) <= M!Limit /\ flushed[i].head = 0
    BY <1>2, <1>4, FlushedIsWhole
<1>7. /\ split \in Seq(Piece) /\ \A i \in DOMAIN split : split[i].cut
      /\ M!Plain(flushed \o split) = M!Plain(flushed) \o M!Characters(line)
    BY <1>1, <1>4, <1>5, <1>6, HardSplitIsWhole
<1>8. chunks' = flushed \o split /\ chunks' \in Seq(Piece)
    BY <1>2, <1>4, <1>6, <1>7, ConcatProperties
<1>9. PICK k \in 0..Len(doc) :
        /\ k + 1 \in 0..Len(doc) /\ CutSoFar(k)
        /\ Tail(rest) = SubSeq(doc, (k + 1) + 1, Len(doc))
        /\ M!Source(SubSeq(doc, 1, k + 1)) = M!Source(SubSeq(doc, 1, k)) \o M!Characters(line)
    BY <1>2, <1>4, NextLine
<1>10. M!Plain(chunks') \o M!Source(<< >>) = M!Source(SubSeq(doc, 1, k + 1))
  <2>1. M!Plain(chunks') = M!Source(SubSeq(doc, 1, k + 1))
      BY <1>6, <1>7, <1>8, <1>9 DEF CutSoFar
  <2>2. << >> \in Seq(Line)
      OBVIOUS
  <2>3. M!Plain(chunks') \in Seq(Character)
      BY <1>8, <2>2, TextsType
  <2>4. M!Source(<< >>) = << >>
    <3>1. << >> \in Seq(Line)
        OBVIOUS
    <3> QED BY <1>5, <3>1, SourceAppend
  <2> QED BY <2>1, <2>3, <2>4, ConcatEmptySeq
<1>11. WholeInv'
  <2>1. \E j \in 0..Len(doc') : CutSoFar(j)'
    <3>1. rest' = SubSeq(doc', (k + 1) + 1, Len(doc'))
        BY <1>2, <1>9
    <3>2. M!Plain(chunks') \o M!Source(buf') = M!Source(SubSeq(doc', 1, k + 1))
        BY <1>2, <1>10
    <3>3. k + 1 \in 0..Len(doc')
        BY <1>2, <1>9
    <3> QED BY <3>1, <3>2, <3>3 DEF CutSoFar
  <2>2. buf' \in Seq(Line)
      BY <1>2
  <2> QED BY <1>1, <1>2, <1>5, <1>8, <2>1, <2>2 DEF WholeInv
<1>12. FitInv'
  <2>1. ASSUME NEW i \in DOMAIN chunks', ~chunks'[i].cut
        PROVE  M!Rendered(chunks'[i].plain) <= M!Limit /\ chunks'[i].head = 0
    <3>1. /\ Len(flushed) \in Nat /\ Len(split) \in Nat
          /\ DOMAIN flushed = 1..Len(flushed) /\ DOMAIN split = 1..Len(split)
        BY <1>6, <1>7, LenProperties
    <3>2. /\ DOMAIN chunks' = 1..(Len(flushed) + Len(split))
          /\ \A j \in 1..(Len(flushed) + Len(split)) :
               chunks'[j] = IF j <= Len(flushed) THEN flushed[j] ELSE split[j - Len(flushed)]
      <4>1. /\ Len(flushed \o split) = Len(flushed) + Len(split)
            /\ \A j \in 1..Len(flushed) + Len(split) : (flushed \o split)[j] =
                    IF j <= Len(flushed) THEN flushed[j] ELSE split[j - Len(flushed)]
          BY <1>6, <1>7, ConcatProperties
      <4>2. DOMAIN chunks' = 1..Len(chunks')
          BY <1>8, LenProperties
      <4> QED BY <1>8, <4>1, <4>2
    <3>3. CASE i <= Len(flushed)
      <4>1. i \in DOMAIN flushed /\ chunks'[i] = flushed[i]
          BY <3>1, <3>2, <3>3
      <4> QED BY <1>6, <2>1, <4>1
    <3>4. CASE ~(i <= Len(flushed))
      <4>1. i - Len(flushed) \in DOMAIN split /\ chunks'[i] = split[i - Len(flushed)]
          BY <3>1, <3>2, <3>4
      <4> QED BY <1>7, <2>1, <4>1
    <3> QED BY <3>3, <3>4
  <2>2. buf' = << >>
      BY <1>2
  <2> QED BY <1>2, <1>3, <2>1, <2>2 DEF FitInv
<1> QED BY <1>11, <1>12 DEF ChunkInv

\* A line that does not fit behind the buffered ones begins the next chunk.
LEMMA StartChunkCuts == ChunkInv /\ M!StartChunk => ChunkInv'
<1> SUFFICES ASSUME ChunkInv, M!StartChunk PROVE ChunkInv'
    OBVIOUS
<1>1. doc \in Seq(Line) /\ chunks \in Seq(Piece) /\ buf \in Seq(Line) /\ log \in LogSizes
    BY DEF ChunkInv, WholeInv
<1>2. /\ pc = "splitting" /\ rest # << >> /\ UNCHANGED <<doc, log, pc>>
      /\ M!Rendered(<<Head(rest)>>) <= M!Limit
      /\ chunks' = M!Flushed(chunks) /\ buf' = <<Head(rest)>> /\ rest' = Tail(rest)
    BY DEF M!StartChunk, M!Loops
<1>3. M!Limit' = M!Limit
    BY <1>2 DEF M!Limit
<1>4. PICK line : line = Head(rest)
    OBVIOUS
<1>5. line \in Line /\ Tail(rest) \in Seq(Line)
    BY <1>2, <1>4, NextLine
<1>6. /\ chunks' \in Seq(Piece) /\ M!Plain(chunks') = M!Plain(chunks) \o M!Source(buf)
      /\ \A i \in DOMAIN chunks' : ~chunks'[i].cut =>
            M!Rendered(chunks'[i].plain) <= M!Limit /\ chunks'[i].head = 0
  <2>1. PICK flushed : flushed = M!Flushed(chunks)
      OBVIOUS
  <2>2. /\ flushed \in Seq(Piece) /\ M!Plain(flushed) = M!Plain(chunks) \o M!Source(buf)
        /\ \A i \in DOMAIN flushed : ~flushed[i].cut =>
            M!Rendered(flushed[i].plain) <= M!Limit /\ flushed[i].head = 0
      BY <1>2, <2>1, FlushedIsWhole
  <2>3. chunks' = flushed
      BY <1>2, <2>1
  <2> QED BY <2>2, <2>3
<1>7. PICK k \in 0..Len(doc) :
        /\ k + 1 \in 0..Len(doc) /\ CutSoFar(k)
        /\ Tail(rest) = SubSeq(doc, (k + 1) + 1, Len(doc))
        /\ M!Source(SubSeq(doc, 1, k + 1)) = M!Source(SubSeq(doc, 1, k)) \o M!Characters(line)
    BY <1>2, <1>4, NextLine
<1>8. M!Source(<<line>>) = M!Characters(line) /\ <<line>> \in Seq(Line)
  <2>1. << >> \in Seq(Line) /\ Append(<< >>, line) = <<line>> /\ <<line>> \in Seq(Line)
      BY <1>5
  <2>2. M!Source(<<line>>) = M!Source(<< >>) \o M!Characters(line) /\ M!Source(<< >>) = << >>
      BY <1>5, <2>1, SourceAppend
  <2>3. << >> \o M!Characters(line) = M!Characters(line)
      BY <1>5, CharactersType, ConcatEmptySeq
  <2> QED BY <2>1, <2>2, <2>3
<1>9. WholeInv'
  <2>1. \E j \in 0..Len(doc') : CutSoFar(j)'
    <3>1. rest' = SubSeq(doc', (k + 1) + 1, Len(doc'))
        BY <1>2, <1>7
    <3>2. M!Plain(chunks') \o M!Source(buf') = M!Source(SubSeq(doc', 1, k + 1))
        BY <1>2, <1>4, <1>6, <1>7, <1>8 DEF CutSoFar
    <3>3. k + 1 \in 0..Len(doc')
        BY <1>2, <1>7
    <3> QED BY <3>1, <3>2, <3>3 DEF CutSoFar
  <2>2. buf' \in Seq(Line)
      BY <1>2, <1>4, <1>8
  <2> QED BY <1>1, <1>2, <1>5, <1>6, <2>1, <2>2 DEF WholeInv
<1>10. FitInv'
  <2>1. M!Rendered(buf') <= M!Limit
      BY <1>2
  <2> QED BY <1>2, <1>3, <1>6, <2>1 DEF FitInv
<1> QED BY <1>9, <1>10 DEF ChunkInv

\* A line that fits is buffered behind the others.
LEMMA AddLineCuts == ChunkInv /\ M!AddLine => ChunkInv'
<1> SUFFICES ASSUME ChunkInv, M!AddLine PROVE ChunkInv'
    OBVIOUS
<1>1. doc \in Seq(Line) /\ chunks \in Seq(Piece) /\ buf \in Seq(Line) /\ log \in LogSizes
    BY DEF ChunkInv, WholeInv
<1>2. /\ pc = "splitting" /\ rest # << >> /\ UNCHANGED <<doc, log, pc, chunks>>
      /\ M!Rendered(M!Candidate) <= M!Limit
      /\ buf' = M!Candidate /\ rest' = Tail(rest)
    BY DEF M!AddLine, M!Loops
<1>3. M!Limit' = M!Limit
    BY <1>2 DEF M!Limit
<1>4. PICK line : line = Head(rest)
    OBVIOUS
<1>5. line \in Line /\ Tail(rest) \in Seq(Line)
    BY <1>2, <1>4, NextLine
<1>6. buf' = Append(buf, line) /\ buf' \in Seq(Line)
    BY <1>1, <1>2, <1>4, <1>5, AppendProperties DEF M!Candidate
<1>7. PICK k \in 0..Len(doc) :
        /\ k + 1 \in 0..Len(doc) /\ CutSoFar(k)
        /\ Tail(rest) = SubSeq(doc, (k + 1) + 1, Len(doc))
        /\ M!Source(SubSeq(doc, 1, k + 1)) = M!Source(SubSeq(doc, 1, k)) \o M!Characters(line)
    BY <1>2, <1>4, NextLine
<1>8. M!Plain(chunks) \o M!Source(buf') = M!Source(SubSeq(doc, 1, k + 1))
  <2>1. M!Source(buf') = M!Source(buf) \o M!Characters(line)
      BY <1>1, <1>5, <1>6, SourceAppend
  <2>2. PICK p, s, c : p = M!Plain(chunks) /\ s = M!Source(buf) /\ c = M!Characters(line)
      OBVIOUS
  <2>3. p \in Seq(Character) /\ s \in Seq(Character) /\ c \in Seq(Character)
      BY <1>1, <1>5, <2>2, TextsType, CharactersType
  <2>4. p \o (s \o c) = (p \o s) \o c
      BY <2>3, ConcatAssociative, SMTT(40)
  <2> QED BY <1>7, <2>1, <2>2, <2>4 DEF CutSoFar
<1>9. WholeInv'
  <2>1. \E j \in 0..Len(doc') : CutSoFar(j)'
    <3>1. rest' = SubSeq(doc', (k + 1) + 1, Len(doc'))
        BY <1>2, <1>7
    <3>2. M!Plain(chunks') \o M!Source(buf') = M!Source(SubSeq(doc', 1, k + 1))
        BY <1>2, <1>8
    <3>3. k + 1 \in 0..Len(doc')
        BY <1>2, <1>7
    <3> QED BY <3>1, <3>2, <3>3 DEF CutSoFar
  <2> QED BY <1>1, <1>2, <1>5, <1>6, <2>1 DEF WholeInv
<1>10. FitInv'
  <2>1. M!Rendered(buf') <= M!Limit
      BY <1>2
  <2> QED BY <1>2, <1>3, <2>1 DEF ChunkInv, FitInv
<1> QED BY <1>9, <1>10 DEF ChunkInv

\* After the last line there is nothing the chunks lack.
LEMMA FlushLastCuts == ChunkInv /\ M!FlushLast => ChunkInv'
<1> SUFFICES ASSUME ChunkInv, M!FlushLast PROVE ChunkInv'
    OBVIOUS
<1>1. doc \in Seq(Line) /\ chunks \in Seq(Piece) /\ buf \in Seq(Line) /\ log \in LogSizes
      /\ rest \in Seq(Line)
    BY DEF ChunkInv, WholeInv
<1>2. /\ pc = "splitting" /\ rest = << >> /\ UNCHANGED <<doc, log, rest>> /\ pc' = "split"
      /\ chunks' = M!Flushed(chunks) /\ buf' = << >>
    BY DEF M!FlushLast
<1>3. M!Limit' = M!Limit
    BY <1>2 DEF M!Limit
<1>4. PICK flushed : flushed = M!Flushed(chunks)
    OBVIOUS
<1>5. /\ flushed \in Seq(Piece) /\ M!Plain(flushed) = M!Plain(chunks) \o M!Source(buf)
      /\ \A i \in DOMAIN flushed : ~flushed[i].cut =>
            M!Rendered(flushed[i].plain) <= M!Limit /\ flushed[i].head = 0
    BY <1>2, <1>4, FlushedIsWhole
<1>6. PICK k \in 0..Len(doc) : CutSoFar(k)
    BY <1>2 DEF ChunkInv, WholeInv
<1>7. k = Len(doc)
  <2>1. Len(doc) \in Nat /\ k \in Nat /\ k <= Len(doc)
      BY <1>1, LenProperties
  <2>2. Len(SubSeq(doc, k + 1, Len(doc))) = Len(doc) - k
    <3>1. Len(doc) <= Len(doc)
        BY <2>1
    <3> QED BY <1>1, <2>1, <3>1, Slice
  <2>3. Len(rest) = 0 /\ rest = SubSeq(doc, k + 1, Len(doc))
      BY <1>2, <1>6 DEF CutSoFar
  <2> QED BY <2>1, <2>2, <2>3
<1>8. M!Plain(flushed) = M!Source(doc)
  <2>1. SubSeq(doc, 1, Len(doc)) = doc
      BY <1>1, SubSeqFull
  <2> QED BY <1>5, <1>6, <1>7, <2>1 DEF CutSoFar
<1>9. chunks' = flushed
    BY <1>2, <1>4
<1>10. WholeInv'
    BY <1>1, <1>2, <1>5, <1>8, <1>9 DEF WholeInv
<1>11. FitInv'
    BY <1>2, <1>3, <1>5, <1>9 DEF FitInv
<1> QED BY <1>10, <1>11 DEF ChunkInv

\* The log is no part of the answer, and there is room for it.
LEMMA PrependLogCuts == ChunkInv /\ M!PrependLog => ChunkInv'
<1> SUFFICES ASSUME ChunkInv, M!PrependLog PROVE ChunkInv'
    OBVIOUS
<1>1. doc \in Seq(Line) /\ chunks \in Seq(Piece) /\ log \in LogSizes /\ log \in Nat
    BY LimitIs DEF ChunkInv, WholeInv
<1>2. /\ pc = "split" /\ UNCHANGED <<doc, log, rest, buf>> /\ pc' = "done"
      /\ chunks' = IF log = 0 \/ chunks = << >> THEN chunks
                   ELSE [chunks EXCEPT ![1].head = log + 2]
    BY DEF M!PrependLog
<1>3. M!Limit' = M!Limit
    BY <1>2 DEF M!Limit
<1>4. M!IsBlank(doc)' = M!IsBlank(doc)
    BY <1>2 DEF M!IsBlank
<1>5. CASE log = 0 \/ chunks = << >>
  <2>1. chunks' = chunks
      BY <1>2, <1>5
  <2>2. WholeInv'
      BY <1>2, <1>4, <2>1 DEF ChunkInv, WholeInv
  <2>3. DOMAIN chunks = {} \/ log = 0
      BY <1>5
  <2>4. FitInv'
      BY <1>2, <1>3, <2>1, <2>3 DEF ChunkInv, FitInv
  <2> QED BY <2>2, <2>4 DEF ChunkInv
<1>6. CASE log # 0 /\ chunks # << >>
  <2>1. PICK new : new = [chunks EXCEPT ![1].head = log + 2]
      OBVIOUS
  <2>2. chunks' = new
      BY <1>2, <1>6, <2>1
  <2>3. Len(chunks) \in Nat /\ DOMAIN chunks = 1..Len(chunks)
        /\ \A i \in 1..Len(chunks) : chunks[i] \in Piece
      BY <1>1, LenProperties, ElementOfSeq
  <2>4. DOMAIN new = 1..Len(chunks)
        /\ \A i \in 1..Len(chunks) : /\ new[i].plain = chunks[i].plain
                                     /\ new[i].cut = chunks[i].cut
                                     /\ new[i].head \in {chunks[i].head, log + 2}
                                     /\ new[i] \in Piece
    <3>1. DOMAIN new = 1..Len(chunks)
        BY <2>1, <2>3
    <3>2. log + 2 \in Nat
        BY <1>1
    <3>3. ASSUME NEW i \in 1..Len(chunks)
          PROVE  new[i] = IF i = 1 THEN [chunks[i] EXCEPT !.head = log + 2] ELSE chunks[i]
        BY <2>1, <2>3
    <3>4. ASSUME NEW p \in Piece
          PROVE  /\ [p EXCEPT !.head = log + 2] \in Piece
                 /\ [p EXCEPT !.head = log + 2].plain = p.plain
                 /\ [p EXCEPT !.head = log + 2].cut = p.cut
                 /\ [p EXCEPT !.head = log + 2].head = log + 2
        BY <3>2 DEF Piece
    <3>5. ASSUME NEW i \in 1..Len(chunks)
          PROVE  /\ new[i].plain = chunks[i].plain /\ new[i].cut = chunks[i].cut
                 /\ new[i].head \in {chunks[i].head, log + 2} /\ new[i] \in Piece
      <4>1. chunks[i] \in Piece
          BY <2>3
      <4>2. CASE i = 1
        <5>1. PICK p \in Piece : p = chunks[i]
            BY <4>1
        <5>2. new[i] = [p EXCEPT !.head = log + 2]
            BY <3>3, <4>2, <5>1
        <5> QED BY <3>4, <5>1, <5>2
      <4>3. CASE i # 1
        <5>1. new[i] = chunks[i]
            BY <3>3, <4>3
        <5> QED BY <4>1, <5>1
      <4> QED BY <4>2, <4>3
    <3> QED BY <3>1, <3>5
  <2>5. new \in Seq(Piece)
    <3>1. new = [i \in 1..Len(chunks) |-> new[i]]
        BY <2>1, <2>3, <2>4
    <3> QED BY <2>3, <2>4, <3>1
  <2>6. M!Plain(new) = M!Plain(chunks)
    <3>1. [i \in DOMAIN new |-> M!Source(new[i].plain)]
            = [i \in DOMAIN chunks |-> M!Source(chunks[i].plain)]
        BY <2>3, <2>4
    <3> QED BY <3>1 DEF M!Plain
  <2>7. WholeInv'
      BY <1>2, <1>4, <2>2, <2>5, <2>6 DEF ChunkInv, WholeInv
  <2>8. FitInv'
    <3>1. \A i \in 1..Len(chunks) : ~chunks[i].cut =>
            M!Rendered(chunks[i].plain) <= M!Limit /\ chunks[i].head = 0
        BY <1>2, <2>3 DEF ChunkInv, FitInv
    <3>2. \A i \in DOMAIN new : ~new[i].cut =>
            M!Rendered(new[i].plain) <= M!Limit /\ new[i].head \in {0, log + 2}
        BY <2>4, <3>1
    <3>3. buf # << >> => M!Rendered(buf) <= M!Limit
        BY DEF ChunkInv, FitInv
    <3> QED BY <1>2, <1>3, <1>6, <2>2, <3>2, <3>3 DEF FitInv
  <2> QED BY <2>7, <2>8 DEF ChunkInv
<1> QED BY <1>5, <1>6

\* No step of either module loses a line or makes a chunk of lines too long.
LEMMA ChunkStep == ChunkInv /\ BothNext => ChunkInv'
<1> SUFFICES ASSUME ChunkInv, BothNext PROVE ChunkInv'
    OBVIOUS
<1>1. CASE UNCHANGED chunkVars
  <2>1. WholeInv'
      BY <1>1 DEF ChunkInv, WholeInv, CutSoFar, chunkVars, M!IsBlank
  <2>2. FitInv'
      BY <1>1 DEF ChunkInv, FitInv, chunkVars, M!Limit
  <2> QED BY <2>1, <2>2 DEF ChunkInv
<1>2. CASE M!Next
    BY <1>2, BeginCuts, CutLineCuts, StartChunkCuts, AddLineCuts, FlushLastCuts, PrependLogCuts
       DEF M!Next
<1> QED BY <1>1, <1>2 DEF BothNext

\* Both parts of the invariant hold in every reachable state.
LEMMA ChunkInvHolds == BothSpec => []ChunkInv
<1>1. BothInit => ChunkInv
    BY ChunkInit DEF BothInit
<1>2. ChunkInv /\ [BothNext]_<<subject, vars, chunkVars>> => ChunkInv'
  <2>1. ChunkInv /\ UNCHANGED <<subject, vars, chunkVars>> => ChunkInv'
    <3> SUFFICES ASSUME ChunkInv, UNCHANGED chunkVars PROVE ChunkInv'
        OBVIOUS
    <3>1. WholeInv'
        BY DEF ChunkInv, WholeInv, CutSoFar, chunkVars, M!IsBlank
    <3>2. FitInv'
        BY DEF ChunkInv, FitInv, chunkVars, M!Limit
    <3> QED BY <3>1, <3>2 DEF ChunkInv
  <2> QED BY <2>1, ChunkStep
<1> QED BY <1>1, <1>2, PTL DEF BothSpec

\* No character of the answer is lost or repeated by cutting it into messages,
\* whatever lines it has and wherever they are cut (markdown.rs, to_chunks).
THEOREM NothingIsCutAway == BothSpec => []Lossless
<1>1. ChunkInv => Lossless
    BY DEF ChunkInv, WholeInv, Lossless, M!Lossless
<1> QED BY <1>1, ChunkInvHolds, PTL

\* A chunk of whole lines fits into a message, and with the log before it too
\* (stream.rs, finalize).
THEOREM ChunksFit == BothSpec => []WholeLinesFit
<1>1. ChunkInv => WholeLinesFit
  <2> SUFFICES ASSUME ChunkInv, pc = "done", NEW c \in M!ToSet(chunks), ~c.cut
               PROVE  M!Length(c) <= TELEGRAM_LIMIT
      BY DEF WholeLinesFit, M!WholeLinesFit
  <2>1. PICK i \in DOMAIN chunks : c = chunks[i]
      BY DEF M!ToSet
  <2>2. chunks \in Seq(Piece) /\ log \in LogSizes
      BY DEF ChunkInv, WholeInv
  <2>3. c \in Piece
    <3>1. i \in 1..Len(chunks)
        BY <2>2, LenProperties
    <3> QED BY <2>1, <2>2, <3>1, ElementOfSeq
  <2>4. M!Rendered(c.plain) \in Nat
    <3>1. c.plain \in Seq(Line)
        BY <2>3 DEF Piece
    <3> QED BY <3>1, RenderedType
  <2>5. M!Rendered(c.plain) <= M!Limit /\ c.head \in {0, log + 2} /\ (log = 0 => c.head = 0)
      BY <2>1 DEF ChunkInv, FitInv
  <2>6. /\ M!Limit \in Nat /\ log \in Nat /\ TELEGRAM_LIMIT \in Nat
        /\ log = 0 => M!Limit = TELEGRAM_LIMIT
        /\ log # 0 => M!Limit = TELEGRAM_LIMIT - (log + 2)
      BY <2>2, LimitIs
  <2>7. c.head + M!Rendered(c.plain) <= TELEGRAM_LIMIT
    <3>1. PICK r, l, h : r = M!Rendered(c.plain) /\ l = M!Limit /\ h = c.head
        OBVIOUS
    <3> QED BY <2>4, <2>5, <2>6, <3>1
  <2> QED BY <2>7 DEF M!Length
<1> QED BY <1>1, ChunkInvHolds, PTL

-----------------------------------------------------------------------------
\* A behaviour of the run is one of LiveSink and one of MarkdownChunks: what is proved
\* of flush, of finalize and of to_chunks holds in it.
THEOREM SinkIsComposed == BothSpec => Spec /\ M!Spec
<1>1. BothInit => Init /\ M!Init
    BY DEF BothInit
<1>2. [BothNext]_<<subject, vars, chunkVars>> => [Next]_vars /\ [M!Next]_M!vars
    BY DEF BothNext, chunkVars, vars, M!vars
<1> QED BY <1>1, <1>2, PTL DEF BothSpec, Spec, M!Spec

=============================================================================
