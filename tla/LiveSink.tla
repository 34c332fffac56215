------------------------------ MODULE LiveSink ------------------------------
(***************************************************************************)
(* What a turn shows in Telegram.  While opencode works, a ticker flushes  *)
(* the live view into one message, created at the first flush and edited   *)
(* after (`LiveSink::flush`).  When the prompt returns, that message       *)
(* becomes the first chunk of the answer and the other chunks are sent     *)
(* after it (`LiveSink::finalize`); when the turn fails, its worker sends  *)
(* an error reply.                                                         *)
(*                                                                         *)
(* Every call goes through `with_retry`, and falls back from MarkdownV2 to *)
(* plain text when Telegram cannot parse it.  A call can fail before or    *)
(* after Telegram has done it: to the caller both are a network error.     *)
(* Telegram refuses an edit that changes nothing.                          *)
(*                                                                         *)
(* A text is a number: the versions of the live view, the chunks of the    *)
(* answer, a note, the error reply.  `typing` and permission buttons are   *)
(* left out: they touch neither the message nor what is believed of it.    *)
(***************************************************************************)
EXTENDS Naturals, Sequences

CONSTANTS
    MaxView,        \* bound: versions of the live view
    MaxChunks,      \* bound: chunks of an answer
    MaxAttempts,    \* MAX_ATTEMPTS
    Unparsable,     \* texts whose MarkdownV2 Telegram rejects
    MaxLost,        \* bound: calls that are done and whose reply is lost
    MaxRefused      \* bound: calls Telegram refuses for a reason of its own

ASSUME BoundsAssumption ==
    /\ MaxView \in Nat /\ MaxChunks \in Nat /\ MaxLost \in Nat /\ MaxRefused \in Nat
    /\ MaxAttempts \in Nat \ {0}

VARIABLES
    loop,       \* "streaming", "finalizing", "noting", "failing", "done", "failed"
    view,       \* the first chunk of LiveState::render now; 0: nothing visible
    message,    \* message_id: which message of the chat is the live one; 0: none
    lastSent,   \* last_sent
    call,       \* the Telegram call that is awaited
    final,      \* the chunks of the answer
    sent,       \* how many of them are done
    chat,       \* the messages this turn has put into the chat, as they read now
    lost, refused,
    cause       \* history: a reason for the turn to fail has occurred

sinkVars == <<view, message, lastSent>>
answerVars == <<final, sent>>
boundVars == <<lost, refused>>
vars == <<loop, sinkVars, call, answerVars, chat, boundVars, cause>>

Chunk(k)  == MaxView + k
Note      == MaxView + MaxChunks + 1
ErrorText == MaxView + MaxChunks + 2
Text      == 1..ErrorText

Reads(text, mode) == [text |-> text, mode |-> mode]

NoCall == [op |-> "none", text |-> 0, mode |-> "plain", attempt |-> 1, waiting |-> FALSE]

Calls(op, text, mode) ==
    call' = [op |-> op, text |-> text, mode |-> mode, attempt |-> 1, waiting |-> FALSE]

Init ==
    /\ loop = "streaming"
    /\ view = 0
    /\ message = 0
    /\ lastSent = 0
    /\ call = NoCall
    /\ final = << >>
    /\ sent = 0
    /\ chat = << >>
    /\ lost = 0
    /\ refused = 0
    /\ cause = FALSE

-----------------------------------------------------------------------------
(* The select loop: an arm runs to its end before the next is chosen.      *)

\* An event changes the live view.
ViewChanges ==
    /\ loop = "streaming"
    /\ call = NoCall
    /\ view < MaxView
    /\ view' = view + 1
    /\ UNCHANGED <<loop, message, lastSent, call, answerVars, chat, boundVars, cause>>

Differs(text) == text # lastSent

Flush ==
    /\ loop = "streaming"
    /\ call = NoCall
    /\ view # 0
    /\ Differs(view)
    /\ Calls(IF message = 0 THEN "send" ELSE "edit", view, "formatted")
    /\ UNCHANGED <<loop, sinkVars, answerVars, chat, boundVars, cause>>

\* The chunks of the authoritative answer.  The first may be what the live view has
\* come to show, or differ from it (a footer, a folded log, no tool lines).
Answer(n, first) == [k \in 1..n |-> IF k = 1 THEN first ELSE Chunk(k)]

PromptReturns ==
    /\ loop = "streaming"
    /\ call = NoCall
    /\ \/ final' = << >> /\ loop' = "noting"
       \/ \E n \in 1..MaxChunks, first \in {Chunk(1)} \cup ({view} \ {0}) :
             final' = Answer(n, first) /\ loop' = "finalizing"
    /\ UNCHANGED <<sinkVars, call, sent, chat, boundVars, cause>>

PromptFails ==
    /\ loop = "streaming"
    /\ call = NoCall
    /\ loop' = "failing"
    /\ cause' = TRUE
    /\ UNCHANGED <<sinkVars, call, answerVars, chat, boundVars>>

-----------------------------------------------------------------------------
(* finalize, and the error reply of user_worker.                           *)

Finalizing == loop = "finalizing" /\ call = NoCall /\ sent < Len(final)

\* The live message becomes the first chunk.
FinalEdit ==
    /\ Finalizing
    /\ sent = 0 /\ message # 0 /\ Differs(final[1])
    /\ Calls("edit", final[1], "formatted")
    /\ UNCHANGED <<loop, sinkVars, answerVars, chat, boundVars, cause>>

\* It is already showing it.
FinalIsShown ==
    /\ Finalizing
    /\ sent = 0 /\ message # 0 /\ ~Differs(final[1])
    /\ sent' = 1
    /\ UNCHANGED <<loop, sinkVars, call, final, chat, boundVars, cause>>

\* No live message, or a chunk after the first.
FinalSend ==
    /\ Finalizing
    /\ sent = 0 => message = 0
    /\ Calls("send", final[sent + 1], "formatted")
    /\ UNCHANGED <<loop, sinkVars, answerVars, chat, boundVars, cause>>

FinalDone ==
    /\ loop = "finalizing"
    /\ call = NoCall
    /\ sent = Len(final)
    /\ loop' = "done"
    /\ UNCHANGED <<sinkVars, call, answerVars, chat, boundVars, cause>>

\* There is no text to show.
SendNote ==
    /\ loop = "noting"
    /\ call = NoCall
    /\ Calls(IF message = 0 THEN "send" ELSE "edit", Note, "plain")
    /\ UNCHANGED <<loop, sinkVars, answerVars, chat, boundVars, cause>>

SendError ==
    /\ loop = "failing"
    /\ call = NoCall
    /\ Calls("send", ErrorText, "plain")
    /\ UNCHANGED <<loop, sinkVars, answerVars, chat, boundVars, cause>>

-----------------------------------------------------------------------------
(* What comes back of a call.                                              *)

Pending == call # NoCall /\ ~call.waiting

Parses == call.mode = "plain" \/ call.text \notin Unparsable

Modifies == call.op = "edit" => chat[message] # Reads(call.text, call.mode)

Done(messages) ==
    IF call.op = "send" THEN Append(messages, Reads(call.text, call.mode))
    ELSE [messages EXCEPT ![message] = Reads(call.text, call.mode)]

\* Mutant: what was tried is taken for sent.
SentAfter_Tried(ok) == IF loop = "streaming" THEN call.text ELSE lastSent

SentAfter(ok) == IF loop = "streaming" /\ ok THEN call.text ELSE lastSent

\* Mutant: the id of the message that was created is not kept.
MessageAfter_Forgotten(ok, messages) == message

MessageAfter(ok, messages) ==
    IF loop = "streaming" /\ ok /\ call.op = "send" THEN Len(messages) ELSE message

\* A flush that fails is no reason for the turn to fail.
Blamed == cause \/ loop # "streaming"

\* The call is over: flush goes on whatever came of it, finalize fails with it, except
\* for the edit to a note, and nothing is done about an error reply that fails.
Settles(ok) ==
    /\ call' = NoCall
    /\ lastSent' = SentAfter(ok)
    /\ message' = MessageAfter(ok, chat')
    /\ sent' = IF loop = "finalizing" /\ ok THEN sent + 1 ELSE sent
    /\ loop' = CASE loop = "streaming" -> "streaming"
                 [] loop = "finalizing" -> IF ok THEN "finalizing" ELSE "failing"
                 [] loop = "noting" -> IF ok \/ call.op = "edit" THEN "done" ELSE "failing"
                 [] loop = "failing" -> "failed"
    /\ UNCHANGED <<view, final>>

Replied ==
    /\ Pending /\ Parses /\ Modifies
    /\ chat' = Done(chat)
    /\ Settles(TRUE)
    /\ UNCHANGED <<boundVars, cause>>

\* is_parse_error: the same text once more, as it is.
Unparsed ==
    /\ Pending /\ ~Parses
    /\ call' = [call EXCEPT !.mode = "plain", !.attempt = 1]
    /\ UNCHANGED <<loop, sinkVars, answerVars, chat, boundVars, cause>>

\* "message is not modified": an API error like any other.
NotModified ==
    /\ Pending /\ Parses /\ ~Modifies
    /\ Settles(FALSE)
    /\ UNCHANGED <<chat, boundVars, cause>>

Refused ==
    /\ Pending
    /\ refused < MaxRefused
    /\ refused' = refused + 1
    /\ cause' = Blamed
    /\ Settles(FALSE)
    /\ UNCHANGED <<chat, lost>>

GivesUp(attempt) == attempt >= MaxAttempts

\* Mutant: the attempts are not counted.
NextAttempt_Same(attempt) == attempt

NextAttempt(attempt) == attempt + 1

\* A network error or a flood wait: once more after a while, or the error is the
\* caller's.
Retries ==
    \/ /\ ~GivesUp(call.attempt)
       /\ call' = [call EXCEPT !.waiting = TRUE]
       /\ UNCHANGED <<loop, sinkVars, answerVars, cause>>
    \/ /\ GivesUp(call.attempt)
       /\ cause' = Blamed
       /\ Settles(FALSE)

NotReached ==
    /\ Pending
    /\ Retries
    /\ UNCHANGED <<chat, boundVars>>

ReplyLost ==
    /\ Pending /\ Parses /\ Modifies
    /\ lost < MaxLost
    /\ lost' = lost + 1
    /\ chat' = Done(chat)
    /\ Retries
    /\ UNCHANGED refused

BackedOff ==
    /\ call.waiting
    /\ call' = [call EXCEPT !.waiting = FALSE, !.attempt = NextAttempt(@)]
    /\ UNCHANGED <<loop, sinkVars, answerVars, chat, boundVars, cause>>

Returns == Replied \/ Unparsed \/ NotModified \/ Refused \/ NotReached \/ ReplyLost

Next ==
    \/ ViewChanges \/ Flush \/ PromptReturns \/ PromptFails
    \/ FinalEdit \/ FinalIsShown \/ FinalSend \/ FinalDone \/ SendNote \/ SendError
    \/ Replied \/ Unparsed \/ NotModified \/ Refused \/ NotReached \/ ReplyLost
    \/ BackedOff

Spec == Init /\ [][Next]_vars

\* The ticker ticks, a call returns something, a sleep ends, and the task goes on.  Neither the
\* prompt nor the network owes anything.
Fairness ==
    /\ WF_vars(Flush)
    /\ WF_vars(Returns)
    /\ WF_vars(BackedOff)
    /\ WF_vars(FinalEdit \/ FinalIsShown \/ FinalSend \/ FinalDone \/ SendNote \/ SendError)

FairSpec == Spec /\ Fairness

-----------------------------------------------------------------------------
(* Properties.                                                             *)

Modes == {"formatted", "plain"}

\* Every variable keeps its type; no call has more than MAX_ATTEMPTS attempts.
TypeOK ==
    /\ loop \in {"streaming", "finalizing", "noting", "failing", "done", "failed"}
    /\ view \in 0..MaxView
    /\ message \in 0..Len(chat)
    /\ lastSent \in 0..MaxView
    /\ call \in {NoCall} \cup
          [op : {"send", "edit"}, text : Text, mode : Modes, attempt : 1..MaxAttempts,
           waiting : BOOLEAN]
    /\ call.op = "edit" => message # 0
    /\ final \in Seq(Text) /\ sent \in 0..Len(final)
    /\ chat \in Seq([text : Text, mode : Modes])
    /\ lost \in 0..MaxLost /\ refused \in 0..MaxRefused
    /\ cause \in BOOLEAN

Texts == [i \in 1..Len(chat) |-> chat[i].text]

\* While every reply arrives, the turn has one message at most, and what is believed
\* of it is what it shows: the guard against identical edits can be relied upon, and
\* a failed flush leaves no stray message (stream.rs:353-389).
BelievedIsShown ==
    loop = "streaming" /\ lost = 0 =>
        /\ Len(chat) = message
        /\ message <= 1
        /\ message = 1 => chat[1].text = lastSent

\* A turn that ends well has shown every chunk of its answer in order, and nothing
\* else when every reply arrived; each in plain text only if Telegram rejected its
\* MarkdownV2 (stream.rs:391-459).
AnswerIsShown ==
    loop = "done" /\ final # << >> =>
        /\ \E at \in [1..Len(final) -> 1..Len(chat)] :
              /\ \A k \in 1..Len(final) : chat[at[k]].text = final[k]
              /\ \A j, k \in 1..Len(final) : j < k => at[j] < at[k]
        /\ lost = 0 => Texts = final
        /\ \A i \in 1..Len(chat) :
              chat[i].mode = "plain" => chat[i].text \in Unparsable

\* A turn fails only if the prompt failed, or a call was refused or attempted in vain
\* after the prompt had returned; the sink does not make it fail by itself, by editing in vain.
FailsForCause == loop \in {"failing", "failed"} => cause \/ lost > 0

\* Once the prompt has returned the turn ends, however Telegram answers: the chat's
\* worker is not held up (retry.rs:25-31).
TurnIsFinished == loop \in {"finalizing", "noting", "failing"} ~> loop \in {"done", "failed"}

\* What the code says: "dedup-guarded so we never send an identical edit (which
\* Telegram rejects as "message is not modified")" (stream.rs:229-231).
NeverIdenticalEdit ==
    call.op = "edit" => chat[message] # Reads(call.text, call.mode)

=============================================================================
