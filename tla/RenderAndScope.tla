--------------------------- MODULE RenderAndScope ---------------------------
(* LiveRender and TurnScope: what a turn makes of the events of its own      *)
(* session, and which gates of other sessions are its own too.  One loop     *)
(* does both (run_streaming_turn, telegram/stream.rs), but they share no     *)
(* state: a behaviour is of one of them, and the other rests.                *)
EXTENDS LiveRender

CONSTANTS Sessions, Root, NoParent, Unknown, NotSeen, Foreign, MAX_PARENT_DEPTH, MaxFailures

VARIABLES
    subject,    \* the module the behaviour is of
    parent, verdict, asking, cursor, chain, failed, resolved

scopeVars == <<parent, verdict, asking, cursor, chain, failed, resolved>>

T == INSTANCE TurnScope WITH seen <- verdict, failures <- failed, answer <- resolved

ASSUME ScopeAssumption == T!TurnScopeAssumption

BothInit ==
    /\ Init /\ T!Init
    /\ \/ subject = "render" /\ \A s \in Sessions : parent[s] = NoParent
       \/ subject = "scope" /\ verbosity = "normal" /\ \A p \in Parts : kind[p] = "text"

BothNext ==
    /\ UNCHANGED subject
    /\ \/ subject = "render" /\ Next /\ UNCHANGED scopeVars
       \/ subject = "scope" /\ T!Next /\ UNCHANGED vars

BothSpec == BothInit /\ [][BothNext]_<<subject, vars, scopeVars>>

\* The properties of TurnScope.  A remembered verdict is true of its session
\* (permission.rs, TurnScope::resolve).
MemoIsTrue == T!MemoIsTrue

\* A gate is surfaced only for the turn that owns it, and names the session that asked.
SurfacedIsOurs == T!SurfacedIsOurs

\* A gate at most MAX_PARENT_DEPTH links below the root is surfaced unless one of its
\* own lookups failed.
NearIsSurfaced == T!NearIsSurfaced
=============================================================================
