--------------------------- MODULE PermissionGate ---------------------------
(***************************************************************************)
(* The permission relay: opencode holds a turn on a gate and announces it  *)
(* on the instance-wide event stream; the turn's select loop posts buttons *)
(* (`permission::prompt`); a tap comes back through the dispatcher         *)
(* (`handle_callback`), which answers opencode and unblocks the turn.      *)
(* Between the two lie the pending_approvals table, a lazily opened        *)
(* subscription, /stop, failing requests and restarts of the proxy.        *)
(*                                                                         *)
(* All chats share one instance here, so every turn's stream carries every *)
(* gate.  Whose gate it is, is what TurnScope resolves.                    *)
(***************************************************************************)
EXTENDS Naturals, Sequences, FiniteSets

CONSTANTS
    Chats, NoChat,
    Gates, NoGate,      \* permission ids; the id is the callback token as well
    GateOf,             \* the chat whose turn raises the gate
    SubagentGates,      \* those raised in a session the turn's agent spawned
    Decisions, NoDecision,
    MaxTurns,           \* bound: turns per chat
    MaxLost,            \* bound: gates a reply_permission request is lost for
    MaxCrashes,         \* bound: restarts of the proxy
    MaxFaults           \* bound: connections of the event stream lost, and
                        \* statements the database refuses

ASSUME GateOfAssumption == GateOf \in [Gates -> Chats] /\ SubagentGates \subseteq Gates
ASSUME NullsAssumption ==
    NoChat \notin Chats /\ NoGate \notin Gates /\ NoDecision \notin Decisions
ASSUME DecisionsAssumption == Decisions \cap {"unasked", "pending", "dropped"} = {}
ASSUME BoundsAssumption == {MaxTurns, MaxLost, MaxCrashes, MaxFaults} \subseteq Nat

VARIABLES
    loop,       \* the turn's select loop: "none", "select", or "posting" a gate
    posting,    \* the gate whose buttons are being sent
    stream,     \* the subscription: "unopened", "open", "dropped"
    inbox,      \* permission events received on it and not handled yet
    prompt,     \* the turn's prompt: "none", "sent", "running" in opencode
    orphan,     \* opencode still runs a prompt whose turn died with the proxy
    gate,       \* "unasked", "pending", "dropped", or the decision it was given
    approvals,  \* pending_approvals: token -> chat, NoChat when there is no row
    buttons,    \* the chats with a message that still shows the gate's buttons
    callback,   \* the tap a chat's dispatcher is forwarding, and its reply:
                \* "none", "sent", "ok" or "err"
    connected,  \* the slot is live in the registry
    turns, faults, crashes,
    lost,       \* the gates for which a reply has not got through to opencode
    tapped      \* history: the decisions a chat's user tapped for the gate

turnVars     == <<loop, posting, stream, inbox>>
opencodeVars == <<prompt, orphan, gate>>
userVars     == <<buttons, tapped>>
boundVars    == <<turns, faults, crashes, lost>>
vars == <<turnVars, opencodeVars, approvals, userVars, callback, connected, boundVars>>

NoCallback == [gate |-> NoGate, decision |-> NoDecision, reply |-> "none"]

Busy(c) == orphan[c] \/ prompt[c] = "running"

Pending(c) == {g \in Gates : GateOf[g] = c /\ gate[g] = "pending"}

Init ==
    /\ loop = [c \in Chats |-> "none"]
    /\ posting = [c \in Chats |-> NoGate]
    /\ stream = [c \in Chats |-> "unopened"]
    /\ inbox = [c \in Chats |-> << >>]
    /\ prompt = [c \in Chats |-> "none"]
    /\ orphan = [c \in Chats |-> FALSE]
    /\ gate = [g \in Gates |-> "unasked"]
    /\ approvals = [g \in Gates |-> NoChat]
    /\ buttons = [g \in Gates |-> {}]
    /\ callback = [c \in Chats |-> NoCallback]
    /\ connected = TRUE
    /\ turns = [c \in Chats |-> 0]
    /\ faults = 0
    /\ lost = {}
    /\ crashes = 0
    /\ tapped = [g \in Gates |-> [c \in Chats |-> {}]]

-----------------------------------------------------------------------------
(* The turn: run_streaming_turn.                                           *)

\* The loop is entered with both requests built and neither sent.  The select is
\* biased: the prompt is polled, hence sent, before the subscription is.
StartTurn(c) ==
    /\ loop[c] = "none"
    /\ connected
    /\ turns[c] < MaxTurns
    /\ turns' = [turns EXCEPT ![c] = @ + 1]
    /\ loop' = [loop EXCEPT ![c] = "select"]
    /\ stream' = [stream EXCEPT ![c] = "unopened"]
    /\ prompt' = [prompt EXCEPT ![c] = "sent"]
    /\ UNCHANGED <<posting, inbox, orphan, gate, approvals, userVars, callback, connected,
                   faults, crashes, lost>>

\* The GET of /global/event, issued by the first poll of recv, is answered; after
\* a loss the constant retry opens it again.  Nothing is replayed on it.
StreamOpens(c) ==
    /\ loop[c] # "none"
    /\ stream[c] # "open"
    /\ stream' = [stream EXCEPT ![c] = "open"]
    /\ UNCHANGED <<loop, posting, inbox, opencodeVars, approvals, userVars, callback,
                   connected, boundVars>>

StreamDrops(c) ==
    /\ loop[c] # "none"
    /\ stream[c] = "open"
    /\ faults < MaxFaults
    /\ faults' = faults + 1
    /\ stream' = [stream EXCEPT ![c] = "dropped"]
    /\ UNCHANGED <<loop, posting, inbox, opencodeVars, approvals, userVars, callback,
                   connected, turns, crashes, lost>>

\* scope.resolve: the gate is of this turn.
Owns(c, g) == GateOf[g] = c

\* Mutant: the gate is recorded only once its message is out, and not if that failed.
RowsBeforePosting_None(c, g) == approvals

\* insert_approval, an upsert on the token.
RowsBeforePosting(c, g) == [approvals EXCEPT ![g] = c]

\* The database refuses a statement.
DbRefuses ==
    /\ faults < MaxFaults
    /\ faults' = faults + 1
    /\ UNCHANGED <<turns, crashes, lost>>

\* A permission event is handled.  A gate of the turn gets its row, then its
\* message; without the row there is no message either, only a line in the log.
\* Another turn's gate is passed over, and so is a subagent's whose session could
\* not be looked up just now.
HandlePermission(c) ==
    /\ loop[c] = "select"
    /\ inbox[c] # << >>
    /\ inbox' = [inbox EXCEPT ![c] = Tail(@)]
    /\ LET g == Head(inbox[c]) IN
          \/ /\ Owns(c, g)
             /\ approvals' = RowsBeforePosting(c, g)
             /\ posting' = [posting EXCEPT ![c] = g]
             /\ loop' = [loop EXCEPT ![c] = "posting"]
             /\ UNCHANGED boundVars
          \/ /\ Owns(c, g)
             /\ DbRefuses
             /\ UNCHANGED <<approvals, posting, loop>>
          \/ /\ ~Owns(c, g) \/ g \in SubagentGates
             /\ UNCHANGED <<approvals, posting, loop, boundVars>>
    /\ UNCHANGED <<stream, opencodeVars, userVars, callback, connected>>

\* send_message in permission::prompt returns, with the buttons up or with an
\* error that is logged and nothing more.
PostingDone(c) ==
    /\ loop[c] = "posting"
    /\ buttons' \in {buttons, [buttons EXCEPT ![posting[c]] = @ \cup {c}]}
    /\ posting' = [posting EXCEPT ![c] = NoGate]
    /\ loop' = [loop EXCEPT ![c] = "select"]
    /\ UNCHANGED <<stream, inbox, opencodeVars, approvals, tapped, callback, connected,
                   boundVars>>

InboxAfterTurn(c) == << >>

\* The prompt resolves, answered or aborted: the loop ends, and with it the
\* subscription and whatever it had received.
TurnEnds(c) ==
    /\ loop[c] = "select"
    /\ prompt[c] = "none"
    /\ loop' = [loop EXCEPT ![c] = "none"]
    /\ inbox' = [inbox EXCEPT ![c] = InboxAfterTurn(c)]
    /\ UNCHANGED <<posting, stream, opencodeVars, approvals, userVars, callback,
                   connected, boundVars>>

-----------------------------------------------------------------------------
(* opencode, which runs one prompt of a session at a time.                 *)

PromptRuns(c) ==
    /\ prompt[c] = "sent"
    /\ ~orphan[c]
    /\ prompt' = [prompt EXCEPT ![c] = "running"]
    /\ UNCHANGED <<turnVars, orphan, gate, approvals, userVars, callback, connected,
                   boundVars>>

\* The agent hits a gated command: the turn blocks, the event goes to whoever has
\* the stream open.
AskGate(g) ==
    /\ Busy(GateOf[g])
    /\ gate[g] = "unasked"
    /\ gate' = [gate EXCEPT ![g] = "pending"]
    /\ inbox' = [c \in Chats |->
                   IF loop[c] # "none" /\ stream[c] = "open"
                   THEN Append(inbox[c], g) ELSE inbox[c]]
    /\ UNCHANGED <<loop, posting, stream, prompt, orphan, approvals, userVars, callback,
                   connected, boundVars>>

\* The prompt of session c that runs is over.
Over(c) ==
    /\ orphan' = [orphan EXCEPT ![c] = FALSE]
    /\ prompt' = [prompt EXCEPT ![c] = IF @ = "running" THEN "none" ELSE @]

\* The agent finishes; it cannot while a gate holds it.
PromptAnswers(c) ==
    /\ Busy(c)
    /\ Pending(c) = {}
    /\ Over(c)
    /\ UNCHANGED <<turnVars, gate, approvals, userVars, callback, connected, boundVars>>

\* The reply arrives: a pending gate takes the decision, another one is a 404.
ReplyReceived(c) ==
    LET g == callback[c].gate IN
    /\ callback[c].reply = "sent"
    /\ IF gate[g] = "pending"
       THEN /\ gate' = [gate EXCEPT ![g] = callback[c].decision]
            /\ callback' = [callback EXCEPT ![c].reply = "ok"]
       ELSE /\ callback' = [callback EXCEPT ![c].reply = "err"]
            /\ UNCHANGED gate
    /\ UNCHANGED <<turnVars, prompt, orphan, approvals, userVars, connected, boundVars>>

\* The request does not get through.
ReplyLost(c) ==
    /\ callback[c].reply = "sent"
    /\ Cardinality(lost) < MaxLost
    /\ lost' = lost \cup {callback[c].gate}
    /\ callback' = [callback EXCEPT ![c].reply = "err"]
    /\ UNCHANGED <<turnVars, opencodeVars, approvals, userVars, connected, turns, faults,
                   crashes>>

-----------------------------------------------------------------------------
(* The dispatcher: one update of a chat at a time.                         *)

DispatcherFree(c) == callback[c] = NoCallback

\* A tap on buttons that are still shown reaches handle_callback.
Tap(c, g, d) ==
    /\ c \in buttons[g]
    /\ DispatcherFree(c)
    /\ tapped' = [tapped EXCEPT ![g][c] = @ \cup {d}]
    /\ UNCHANGED <<turnVars, opencodeVars, approvals, buttons, connected>>

\* Mutant: every action is read as the first one.
Parsed_First(d) == CHOOSE e \in Decisions : TRUE

\* parse_callback of what callback_data wrote.
Parsed(d) == d

\* There is a row and its slot is live: reply_permission is sent.
TapForwarded(c, g, d) ==
    /\ Tap(c, g, d)
    /\ approvals[g] # NoChat
    /\ connected
    /\ callback' = [callback EXCEPT ![c] =
                       [gate |-> g, decision |-> Parsed(d), reply |-> "sent"]]
    /\ UNCHANGED boundVars

\* No row ("This request has expired."), or no live slot ("Can't reach opencode."):
\* nothing changes, the row stays.
TapRefused(c, g, d) ==
    /\ Tap(c, g, d)
    /\ approvals[g] = NoChat \/ ~connected
    /\ UNCHANGED <<callback, boundVars>>

\* The row cannot be read ("Something went wrong."), or the binding of its chat cannot
\* ("Can't reach opencode."): nothing changes either.
TapFailed(c, g, d) ==
    /\ Tap(c, g, d)
    /\ DbRefuses
    /\ UNCHANGED callback

\* The reply has returned: the row is deleted whatever it was, and if it cannot be
\* it stays without a word; the buttons are replaced when the reply was accepted,
\* unless Telegram refuses the edit.
CallbackDone(c) ==
    LET g == callback[c].gate IN
    /\ callback[c].reply \in {"ok", "err"}
    /\ \/ approvals' = [approvals EXCEPT ![g] = NoChat] /\ UNCHANGED boundVars
       \/ UNCHANGED approvals /\ DbRefuses
    /\ \/ UNCHANGED buttons
       \/ callback[c].reply = "ok" /\ buttons' = [buttons EXCEPT ![g] = @ \ {c}]
    /\ callback' = [callback EXCEPT ![c] = NoCallback]
    /\ UNCHANGED <<turnVars, opencodeVars, tapped, connected>>

\* /stop, as its abort reaches opencode: what runs in the session unblocks and its
\* gates are void.  The rows and the buttons are left as they are.
HandleStop(c) ==
    /\ DispatcherFree(c)
    /\ connected
    /\ Busy(c)
    /\ Over(c)
    /\ gate' = [g \in Gates |-> IF g \in Pending(c) THEN "dropped" ELSE gate[g]]
    /\ UNCHANGED <<turnVars, approvals, userVars, callback, connected, boundVars>>

-----------------------------------------------------------------------------
(* The process.                                                            *)

\* Mutant: the gates are kept in memory.
RowsAfterCrash_InMemory == [g \in Gates |-> NoChat]

RowsAfterCrash == approvals

\* The turns, the streams and the handlers die with the proxy; the table, the
\* messages in Telegram, the turns opencode runs and requests on the way do not.
\* A reply on the way arrives or does not: the first is ReplyReceived, then Crash.
Crash ==
    /\ crashes < MaxCrashes
    /\ crashes' = crashes + 1
    /\ loop' = [c \in Chats |-> "none"]
    /\ posting' = [c \in Chats |-> NoGate]
    /\ stream' = [c \in Chats |-> "unopened"]
    /\ inbox' = [c \in Chats |-> << >>]
    /\ callback' = [c \in Chats |-> NoCallback]
    /\ orphan' = [c \in Chats |-> Busy(c)]
    /\ prompt' = [c \in Chats |-> "none"]
    /\ connected' = FALSE
    /\ approvals' = RowsAfterCrash
    /\ UNCHANGED <<gate, userVars, turns, faults, lost>>

\* The slot's background bring-up succeeds.
SlotConnects ==
    /\ ~connected
    /\ connected' = TRUE
    /\ UNCHANGED <<turnVars, opencodeVars, approvals, userVars, callback, boundVars>>

Next ==
    \/ \E c \in Chats :
          \/ StartTurn(c) \/ StreamOpens(c) \/ StreamDrops(c)
          \/ HandlePermission(c) \/ PostingDone(c) \/ TurnEnds(c)
          \/ PromptRuns(c) \/ PromptAnswers(c)
          \/ \E g \in Gates, d \in Decisions :
                TapForwarded(c, g, d) \/ TapRefused(c, g, d) \/ TapFailed(c, g, d)
          \/ ReplyReceived(c) \/ ReplyLost(c) \/ CallbackDone(c) \/ HandleStop(c)
    \/ \E g \in Gates : AskGate(g)
    \/ Crash \/ SlotConnects

Spec == Init /\ [][Next]_vars

\* The user taps one of the buttons shown as long as the turn waits; requests get
\* an answer, so do messages; the reconnect task goes on until the slot is up.
Fairness ==
    /\ \A g \in Gates : WF_vars(\E d \in Decisions : TapForwarded(GateOf[g], g, d))
    /\ \A c \in Chats :
          WF_vars(PostingDone(c)) /\ WF_vars(ReplyReceived(c)) /\ WF_vars(CallbackDone(c))
    /\ WF_vars(SlotConnects)

FairSpec == Spec /\ Fairness

-----------------------------------------------------------------------------
(* Properties.                                                             *)

\* Every variable keeps its type; only a running loop posts a gate or holds events.
TypeOK ==
    /\ loop \in [Chats -> {"none", "select", "posting"}]
    /\ posting \in [Chats -> Gates \cup {NoGate}]
    /\ \A c \in Chats : loop[c] = "posting" <=> posting[c] # NoGate
    /\ stream \in [Chats -> {"unopened", "open", "dropped"}]
    /\ inbox \in [Chats -> Seq(Gates)]
    /\ \A c \in Chats : loop[c] = "none" => inbox[c] = << >>
    /\ prompt \in [Chats -> {"none", "sent", "running"}]
    /\ orphan \in [Chats -> BOOLEAN]
    /\ gate \in [Gates -> {"unasked", "pending", "dropped"} \cup Decisions]
    /\ approvals \in [Gates -> Chats \cup {NoChat}]
    /\ buttons \in [Gates -> SUBSET Chats]
    /\ callback \in [Chats -> [gate : Gates \cup {NoGate},
                               decision : Decisions \cup {NoDecision},
                               reply : {"none", "sent", "ok", "err"}]]
    /\ connected \in BOOLEAN
    /\ turns \in [Chats -> 0..MaxTurns]
    /\ faults \in 0..MaxFaults
    /\ crashes \in 0..MaxCrashes
    /\ lost \subseteq Gates
    /\ tapped \in [Gates -> [Chats -> SUBSET Decisions]]

ButtonsShown(g) == GateOf[g] \in buttons[g]

\* A gated command goes ahead, or is refused, only as the user of the chat whose
\* turn raised it has tapped: no other chat, restart, duplicate tap, late reply or
\* /stop decides it (bot.rs:692-776, permission.rs:176-215).
DecisionIsTheOwners ==
    \A g \in Gates : gate[g] \in Decisions => gate[g] \in tapped[g][GateOf[g]]

\* Only the chat whose turn raised a gate is ever asked about it: "or two chats
\* would prompt for one gate and the loser's tap would 404" (permission.rs:58-62).
OneChatIsAsked ==
    \A g \in Gates :
        /\ buttons[g] \subseteq {GateOf[g]}
        /\ approvals[g] \in {GateOf[g], NoChat}

\* As long as a gate blocks its turn and its buttons are shown, there is a row to
\* answer it by, or an answer on its way: across a restart, a lost slot, a crash
\* between the reply and the deletion of the row.  Only a reply that was lost breaks
\* this (SurvivesALostReply).
Answerable(g) ==
    gate[g] = "pending" /\ ButtonsShown(g) =>
        \/ approvals[g] = GateOf[g]
        \/ \E c \in Chats : callback[c].gate = g /\ callback[c].reply = "sent"

ShownIsAnswerable == \A g \in Gates \ lost : Answerable(g)

\* A turn blocked on a gate whose buttons are shown is unblocked, by the decision
\* or by /stop, if the user keeps tapping and no reply is lost; the proxy may
\* restart meanwhile (bot.rs:692-776).
ShownIsDecided ==
    \A g \in Gates :
        (gate[g] = "pending" /\ ButtonsShown(g)) ~> (gate[g] # "pending" \/ g \in lost)

\* What the module doc says of a tap (permission.rs:7-11): the button answers the
\* gate, "unblocking the turn".  Failing that the button must be usable again.
SurvivesALostReply == \A g \in Gates : Answerable(g)

=============================================================================
