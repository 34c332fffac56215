----------------------------- MODULE LiveRender -----------------------------
(***************************************************************************)
(* What a turn makes of its events: `TextRouter` tells answer text from    *)
(* reasoning, `LiveState` gathers the answer, the activity log, the tool   *)
(* failures and the tallies of the footer (`apply_event`).                 *)
(*                                                                         *)
(* opencode streams the deltas of a part and, before, between or after     *)
(* them, the frame that says what the part is.  Frames are lost while the  *)
(* stream is down; when it is back, opencode sends the parts of the        *)
(* message again, so any part frame may come twice or only the second      *)
(* time.  Deltas are not sent again.                                       *)
(*                                                                         *)
(* A delta is the number of its part's deltas so far; some are white space *)
(* only.  Titles, clipping, the log's window, the layout and the footer's  *)
(* context share are left out, and so are frames of other sessions and     *)
(* tool frames of a status the proxy does not know, which change nothing   *)
(* (stream.rs, ToolStatus::Other).                                         *)
(***************************************************************************)
EXTENDS Naturals, Sequences, FiniteSets

CONSTANTS
    Parts,          \* text and reasoning parts
    MaxDeltas,      \* bound: deltas of a part
    Blank,          \* the deltas that are white space only
    Calls, NoCall,  \* tool calls
    Tools,          \* tool names
    Tool            \* the tool of a call

ASSUME NullsAssumption == NoCall \notin Calls
ASSUME ToolAssumption == Tool \in [Calls -> Tools]
ASSUME BlankAssumption == Blank \subseteq [part : Parts, nr : Nat]
ASSUME BoundsAssumption == MaxDeltas \in Nat /\ IsFiniteSet(Calls)

VARIABLES
    verbosity,      \* "quiet", "normal", "verbose"
    kind,           \* what a part is: "text", "reasoning" (opencode knows)
    streamed,       \* how many deltas of a part opencode has sent
    received,       \* history: those that arrived
    known,          \* the parts of which a part frame has arrived
    reached,        \* the statuses of a call opencode has sent
    seen,           \* history: those that arrived
    router,         \* TextRouter: answer, reasoning, pending
    answer,         \* answer: deltas of parts
    log,            \* the activity log: tool lines and narration
    mark,           \* narration_mark
    counted, tally, \* counted_calls; the terminal calls of a tool
    failures        \* the tools of which a failure line is shown

opencodeVars == <<kind, streamed, reached>>
historyVars == <<received, known, seen>>
textVars == <<router, answer>>
toolVars == <<log, mark, counted, tally, failures>>
vars == <<verbosity, opencodeVars, historyVars, textVars, toolVars>>

\* ToolStatus; "running" stands for "pending" too, with which the code does the same.
Statuses == {"running", "completed", "error"}

Tokens == [part : Parts, nr : 1..MaxDeltas]

ToolLine(c, status) == [call |-> c, status |-> status, upto |-> 0]
Narration(upto)     == [call |-> NoCall, status |-> "narration", upto |-> upto]

Init ==
    /\ verbosity \in {"quiet", "normal", "verbose"}
    /\ kind \in [Parts -> {"text", "reasoning"}]
    /\ streamed = [p \in Parts |-> 0]
    /\ received = [p \in Parts |-> << >>]
    /\ known = {}
    /\ reached = [c \in Calls |-> {}]
    /\ seen = [c \in Calls |-> {}]
    /\ router = [answer |-> {}, reasoning |-> {}, pending |-> [p \in Parts |-> << >>]]
    /\ answer = << >>
    /\ log = << >>
    /\ mark = 0
    /\ counted = {}
    /\ tally = [t \in Tools |-> 0]
    /\ failures = {}

-----------------------------------------------------------------------------
(* Text.                                                                   *)

\* Mutant: what is not known to be reasoning is shown.
ShownAtOnce_Optimistic(p) == p \notin router.reasoning

ShownAtOnce(p) == p \in router.answer

Tagged(p, nrs) == [i \in 1..Len(nrs) |-> [part |-> p, nr |-> nrs[i]]]

\* route_delta, push_text.
RouteDelta(p, nr) ==
    \/ /\ ShownAtOnce(p)
       /\ answer' = Append(answer, [part |-> p, nr |-> nr])
       /\ UNCHANGED router
    \/ /\ ~ShownAtOnce(p) /\ p \in router.reasoning
       /\ UNCHANGED textVars
    \/ /\ ~ShownAtOnce(p) /\ p \notin router.reasoning
       /\ router' = [router EXCEPT !.pending[p] = Append(@, nr)]
       /\ UNCHANGED answer

StreamDelta(p) ==
    /\ streamed[p] < MaxDeltas
    /\ streamed' = [streamed EXCEPT ![p] = @ + 1]
    /\ received' = [received EXCEPT ![p] = Append(@, streamed[p] + 1)]
    /\ RouteDelta(p, streamed[p] + 1)
    /\ UNCHANGED <<verbosity, kind, known, reached, seen, toolVars>>

\* The stream is down.
MissDelta(p) ==
    /\ streamed[p] < MaxDeltas
    /\ streamed' = [streamed EXCEPT ![p] = @ + 1]
    /\ UNCHANGED <<verbosity, kind, reached, historyVars, textVars, toolVars>>

\* Mutant: what was buffered of an answer is dropped.
Released_Nothing(p) == << >>

\* What was buffered of an answer is released into it.
Released(p) == router.pending[p]

\* classify; a part frame may come again.
StreamPart(p) ==
    /\ known' = known \cup {p}
    /\ \/ /\ kind[p] = "text"
          /\ router' = [router EXCEPT !.answer = @ \cup {p}, !.pending[p] = << >>]
          /\ answer' = answer \o Tagged(p, Released(p))
       \/ /\ kind[p] = "reasoning"
          /\ router' = [router EXCEPT !.reasoning = @ \cup {p}, !.pending[p] = << >>]
          /\ UNCHANGED answer
    /\ UNCHANGED <<verbosity, opencodeVars, received, seen, toolVars>>

-----------------------------------------------------------------------------
(* Tools.                                                                  *)

LineOf(c) == {i \in 1..Len(log) : log[i].call = c}

\* A terminal status is never taken back.
StatusAfter(old, new) ==
    IF old = "running" \/ new # "running" THEN new ELSE old

\* Mutant: the mark stays where it was.
MarkAfterEcho_Unmoved == mark

MarkAfterEcho == IF verbosity = "verbose" THEN Len(answer) ELSE mark

\* Whether anything but white space has been streamed since the last echo.
Says == \E k \in (mark + 1)..Len(answer) : answer[k] \notin Blank

\* echo_narration: it goes into the log.
Echoed == IF verbosity = "verbose" /\ Says
          THEN Append(log, Narration(Len(answer)))
          ELSE log

\* upsert_tool.
UpsertTool(c, status) ==
    \/ /\ LineOf(c) # {}
       /\ log' = [i \in 1..Len(log) |->
                     IF i \in LineOf(c)
                     THEN ToolLine(c, StatusAfter(log[i].status, status))
                     ELSE log[i]]
       /\ UNCHANGED mark
    \/ /\ LineOf(c) = {}
       /\ log' = Append(Echoed, ToolLine(c, status))
       /\ mark' = MarkAfterEcho

Counts(c, status) == status \in {"completed", "error"} /\ c \notin counted

FailureTold(c, status) == status = "error"

\* apply_part.
ApplyTool(c, status) ==
    /\ UpsertTool(c, status)
    /\ counted' = IF Counts(c, status) THEN counted \cup {c} ELSE counted
    /\ tally' = IF Counts(c, status) THEN [tally EXCEPT ![Tool[c]] = @ + 1] ELSE tally
    /\ failures' = IF FailureTold(c, status) THEN failures \cup {Tool[c]} ELSE failures

\* A call goes on, and its frame is delivered or, with the stream down, lost.
Advances(c, status) ==
    /\ reached[c] \subseteq {"running"} \ {status}
    /\ reached' = [reached EXCEPT ![c] = @ \cup {status}]

StreamTool(c, status) ==
    /\ Advances(c, status)
    /\ seen' = [seen EXCEPT ![c] = @ \cup {status}]
    /\ ApplyTool(c, status)
    /\ UNCHANGED <<verbosity, kind, streamed, received, known, textVars>>

MissTool(c, status) ==
    /\ Advances(c, status)
    /\ UNCHANGED <<verbosity, kind, streamed, historyVars, textVars, toolVars>>

\* A frame that comes again after a reconnection.
ReplayTool(c, status) ==
    /\ status \in reached[c]
    /\ seen' = [seen EXCEPT ![c] = @ \cup {status}]
    /\ ApplyTool(c, status)
    /\ UNCHANGED <<verbosity, opencodeVars, received, known, textVars>>

Next ==
    \/ \E p \in Parts : StreamDelta(p) \/ MissDelta(p) \/ StreamPart(p)
    \/ \E c \in Calls, s \in Statuses : StreamTool(c, s) \/ MissTool(c, s) \/ ReplayTool(c, s)

Spec == Init /\ [][Next]_vars

-----------------------------------------------------------------------------
(* Properties.                                                             *)

Terminal == {"completed", "error"}

\* Every variable keeps its type; no more calls of a tool are tallied than there are.
TypeOK ==
    /\ verbosity \in {"quiet", "normal", "verbose"}
    /\ kind \in [Parts -> {"text", "reasoning"}]
    /\ streamed \in [Parts -> 0..MaxDeltas]
    /\ received \in [Parts -> Seq(1..MaxDeltas)]
    /\ known \subseteq Parts
    /\ reached \in [Calls -> SUBSET Statuses] /\ seen \in [Calls -> SUBSET Statuses]
    /\ router \in [answer : SUBSET Parts, reasoning : SUBSET Parts,
                   pending : [Parts -> Seq(1..MaxDeltas)]]
    /\ answer \in Seq(Tokens)
    /\ log \in Seq([call : Calls \cup {NoCall}, status : Statuses \cup {"narration"},
                    upto : Nat])
    /\ mark \in 0..Len(answer)
    /\ counted \subseteq Calls
    /\ tally \in [Tools -> 0..Cardinality(Calls)]
    /\ failures \subseteq Tools

\* No reasoning is ever shown, in whichever order deltas and part frames come
\* (stream.rs:144-159).
ReasoningStaysHidden == \A i \in 1..Len(answer) : kind[answer[i].part] = "text"

\* The deltas of a part that have arrived, and those the answer shows.
ArrivedOf(p) == {received[p][i] : i \in 1..Len(received[p])}
ShownOf(p) == {answer[i].nr : i \in {j \in 1..Len(answer) : answer[j].part = p}}

\* The answer has, of each part that is known to be text, every delta that arrived, and
\* no other; of a part that is not known, they all wait.  Whatever is shown of a part is
\* shown once and in the order it was streamed.
AnswerIsWhatCame ==
    /\ \A p \in Parts :
          /\ p \in known /\ kind[p] = "text" =>
                ShownOf(p) = ArrivedOf(p) /\ router.pending[p] = << >>
          /\ p \notin known => ShownOf(p) = {} /\ router.pending[p] = received[p]
    /\ \A i, j \in 1..Len(answer) :
          i < j /\ answer[i].part = answer[j].part => answer[i].nr < answer[j].nr

\* The log has one line for each call of which a frame has arrived, and it says what is
\* known of it: a frame that comes again does not restart a tool that is done
\* (render.rs:212-257).
LinesAreCurrent ==
    \A c \in Calls :
        /\ Cardinality(LineOf(c)) = IF seen[c] = {} THEN 0 ELSE 1
        /\ \A i \in LineOf(c) :
              /\ log[i].status \in seen[c]
              /\ seen[c] \cap Terminal # {} => log[i].status \in Terminal

\* The footer counts every finished call once, whatever comes again (render.rs:275-289).
TalliesAreTrue ==
    \A t \in Tools :
        tally[t] = Cardinality({c \in Calls : Tool[c] = t /\ seen[c] \cap Terminal # {}})

\* "Tool failures are always shown at every level" (render.rs:36): a failure that has
\* arrived is told, and no other.
FailuresAreTold ==
    failures = {Tool[c] : c \in {d \in Calls : "error" \in seen[d]}}

\* The lines of the log that are narration.
Echoes == {i \in 1..Len(log) : log[i].call = NoCall}

LastEchoed ==
    IF Echoes = {} THEN 0 ELSE log[CHOOSE i \in Echoes : \A j \in Echoes : j <= i].upto

\* Narration covers the answer up to the mark, each piece of it once, in order and
\* closed by a tool, and nothing but white space is passed over; outside verbose mode
\* there is none (render.rs:259-273).
NarrationIsOnce ==
    /\ verbosity # "verbose" => mark = 0 /\ Echoes = {}
    /\ \A i, j \in Echoes : i < j => log[i].upto < log[j].upto
    /\ \A i \in Echoes : i < Len(log) /\ i + 1 \notin Echoes
    /\ LastEchoed <= mark
    /\ \A k \in (LastEchoed + 1)..mark : answer[k] \in Blank

=============================================================================
