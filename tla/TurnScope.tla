----------------------------- MODULE TurnScope -----------------------------
(***************************************************************************)
(* Whose gate is it?  The event stream of an instance carries the gates of *)
(* every session; a turn owns those of its own session, the root, and of   *)
(* the sessions descended from it.  TurnScope::resolve walks a gate's      *)
(* session up its parent links, one request per link, at most              *)
(* MAX_PARENT_DEPTH of them, and remembers what it settled.                *)
(*                                                                         *)
(* Parent links are opencode's and never change; they may name a session   *)
(* the instance does not know, and nothing here relies on their being      *)
(* acyclic.                                                                *)
(***************************************************************************)
EXTENDS Naturals, Sequences

CONSTANTS
    Sessions,
    Root,               \* the session of the turn
    NoParent,           \* a session without a parent
    Unknown,            \* what get_session says of a session it does not know
    NotSeen, Foreign,   \* no verdict; the verdict "another turn's"
    MAX_PARENT_DEPTH,
    MaxFailures         \* bound: lookups that fail

TurnScopeAssumption ==
    /\ Root \in Sessions
    /\ {NoParent, Unknown, NotSeen, Foreign} \cap Sessions = {}
    /\ NoParent # Unknown /\ NotSeen # Foreign
    /\ MAX_PARENT_DEPTH \in Nat \ {0}
    /\ MaxFailures \in Nat

VARIABLES
    parent,     \* opencode: the parent link of every session, NoParent, Unknown
    seen,       \* session -> NotSeen, Foreign, or the session whose agent names it
    asking,     \* the session being resolved, NotSeen when none is
    cursor,     \* the session whose lookup is awaited
    chain,      \* the sessions looked up in this walk, in order
    failures,
    answer      \* history: the last session resolved, what came out, and whether
                \* a lookup failed

scopeVars == <<seen, asking, cursor, chain>>
vars == <<parent, scopeVars, failures, answer>>

NoAnswer == [of |-> NotSeen, origin |-> Foreign, failed |-> FALSE]

Init ==
    /\ parent \in [Sessions -> Sessions \cup {NoParent, Unknown}]
    /\ seen = [s \in Sessions |-> NotSeen]
    /\ asking = NotSeen
    /\ cursor = NotSeen
    /\ chain = << >>
    /\ failures = 0
    /\ answer = NoAnswer

-----------------------------------------------------------------------------

\* resolve returns: Some(origin), here the session whose agent the prompt names
\* (the root for Origin::Main), or None, here Foreign.
Answer(s, origin, failed) ==
    /\ answer' = [of |-> s, origin |-> origin, failed |-> failed]
    /\ asking' = NotSeen
    /\ cursor' = NotSeen
    /\ chain' = << >>

Idle == asking = NotSeen

\* The turn's own session answers without a request.
ResolveMain ==
    /\ Idle
    /\ Answer(Root, Root, FALSE)
    /\ UNCHANGED <<parent, seen, failures>>

\* So does one already settled.
ResolveSeen(s) ==
    /\ Idle
    /\ s # Root
    /\ seen[s] # NotSeen
    /\ Answer(s, seen[s], FALSE)
    /\ UNCHANGED <<parent, seen, failures>>

\* Any other is walked from, starting with a lookup of itself.
BeginWalk(s) ==
    /\ Idle
    /\ s # Root
    /\ seen[s] = NotSeen
    /\ asking' = s
    /\ cursor' = s
    /\ chain' = << >>
    /\ UNCHANGED <<parent, seen, failures, answer>>

\* A subagent's verdict carries its own agent.
NamedAfter(s) == s

\* Every session on the walked path takes the verdict.
Settled(path, ours) ==
    [s \in Sessions |->
        IF \E i \in 1..Len(path) : path[i] = s
        THEN (IF ours THEN NamedAfter(s) ELSE Foreign)
        ELSE seen[s]]

\* A session with no verdict is not surfaced either.
Surfaced(verdict) == IF verdict = NotSeen THEN Foreign ELSE verdict

\* The lookup of the cursor is answered, and the walk is over with a verdict.
Conclude(path, ours) ==
    /\ seen' = Settled(path, ours)
    /\ Answer(asking, Surfaced(seen'[asking]), FALSE)
    /\ UNCHANGED <<parent, failures>>

Walked == Append(chain, cursor)

Up == parent[cursor]

\* The instance does not know the cursor: nothing to attribute the path to.
LookupUnknown ==
    /\ ~Idle
    /\ Up = Unknown
    /\ Conclude(chain, FALSE)

\* The cursor has no parent: another turn's root, or another client's.
LookupForeignRoot ==
    /\ ~Idle
    /\ Up = NoParent
    /\ Conclude(Walked, FALSE)

\* Its parent is the root of this turn.
LookupOurs ==
    /\ ~Idle
    /\ Up = Root
    /\ Conclude(Walked, TRUE)

VerdictOurs(s) == seen[s] # Foreign

\* Its parent has a verdict to inherit.
LookupSettled ==
    /\ ~Idle
    /\ Up \in Sessions \ {Root}
    /\ seen[Up] # NotSeen
    /\ Conclude(Walked, VerdictOurs(Up))

\* The walk goes on above the cursor.
GoesOn ==
    /\ ~Idle
    /\ Up \in Sessions \ {Root}
    /\ seen[Up] = NotSeen

\* Mutant: one link short.
CapReached_Early(path) == Len(path) >= MAX_PARENT_DEPTH - 1

CapReached(path) == Len(path) >= MAX_PARENT_DEPTH

LookupParent ==
    /\ GoesOn
    /\ ~CapReached(Walked)
    /\ cursor' = Up
    /\ chain' = Walked
    /\ UNCHANGED <<parent, seen, asking, failures, answer>>

\* Mutant: a walk that was cut off proves the path foreign.
AfterCap_Foreign == Settled(Walked, FALSE)

AfterCap == seen

\* The walk is cut off: no verdict, nothing remembered.
LookupTooDeep ==
    /\ GoesOn
    /\ CapReached(Walked)
    /\ seen' = AfterCap
    /\ Answer(asking, Foreign, FALSE)
    /\ UNCHANGED <<parent, failures>>

\* The request fails: no verdict, nothing remembered.
LookupFails ==
    /\ ~Idle
    /\ failures < MaxFailures
    /\ failures' = failures + 1
    /\ Answer(asking, Foreign, TRUE)
    /\ UNCHANGED <<parent, seen>>

Next ==
    \/ ResolveMain
    \/ \E s \in Sessions : ResolveSeen(s) \/ BeginWalk(s)
    \/ LookupUnknown \/ LookupForeignRoot \/ LookupOurs \/ LookupSettled
    \/ LookupParent \/ LookupTooDeep \/ LookupFails

Spec == Init /\ [][Next]_vars

-----------------------------------------------------------------------------
(* The reference: the root and its descendants, and those few links below. *)

\* S holds the root and, with a session, its children.
DownClosed(S) == Root \in S /\ \A s \in Sessions : parent[s] \in S => s \in S

Family == {s \in Sessions : \A S \in SUBSET Sessions : DownClosed(S) => s \in S}

\* Those at most n links below the root.
Generations[n \in 0..MAX_PARENT_DEPTH] ==
    IF n = 0 THEN {Root}
    ELSE Generations[n - 1] \cup {s \in Sessions : parent[s] \in Generations[n - 1]}

Within == Generations[MAX_PARENT_DEPTH]

-----------------------------------------------------------------------------
(* Properties.                                                             *)

\* Every variable keeps its type, and a lookup is awaited exactly during a walk.
TypeOK ==
    /\ parent \in [Sessions -> Sessions \cup {NoParent, Unknown}]
    /\ seen \in [Sessions -> Sessions \cup {NotSeen, Foreign}]
    /\ asking \in (Sessions \ {Root}) \cup {NotSeen}
    /\ cursor \in (Sessions \ {Root}) \cup {NotSeen}
    /\ asking = NotSeen <=> cursor = NotSeen
    /\ chain \in Seq(Sessions \ {Root})
    /\ failures \in 0..MaxFailures
    /\ answer \in [of : Sessions \cup {NotSeen}, origin : Sessions \cup {Foreign},
                   failed : BOOLEAN]

\* Whatever walks were cut off, failed or ran into a cycle, and in whatever order
\* gates came, a remembered verdict is true of the session: "ours" only for a
\* descendant, under its own agent's name, "foreign" only for one that is none
\* (permission.rs:141-168).
MemoIsTrue ==
    \A s \in Sessions :
        /\ seen[s] \in Sessions => s \in Family /\ seen[s] = s
        /\ seen[s] = Foreign => s \notin Family

\* A gate is surfaced only for the turn that owns it, and names the session that
\* really asked (permission.rs:44-50,58-62).
SurfacedIsOurs ==
    answer.origin \in Sessions => answer.of \in Family /\ answer.origin = answer.of

\* A gate at most MAX_PARENT_DEPTH links below the root is surfaced unless one of
\* its own lookups failed: an earlier failure or a walk that was cut off never
\* silences it (permission.rs:64-66,152-158).
NearIsSurfaced ==
    answer.of \in Within => answer.origin \in Sessions \/ answer.failed

\* A walk asks for at most MAX_PARENT_DEPTH sessions, cycles included, "so the
\* resolver can't spin on the turn's event loop" (permission.rs:38-41).
WalkIsShort == ~Idle => Len(chain) < MAX_PARENT_DEPTH

=============================================================================
