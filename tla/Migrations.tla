----------------------------- MODULE Migrations -----------------------------
(***************************************************************************)
(* Opening the store (persistence.rs: Db::open, migrate).  The database of *)
(* an earlier release is brought to the current schema step by step, each  *)
(* guarded by the user_version that was read first; the version is stamped *)
(* last.  Every statement commits by itself, so a crash, or an error of    *)
(* SQLite, may fall between any two of them.                               *)
(***************************************************************************)
EXTENDS Naturals, Sequences

CONSTANTS Processes,    \* daemons that may be given the same database
          MaxStarts     \* bound: how often each of them opens it

StartsAssumption == MaxStarts \in Nat

VARIABLES
    user_version,
    tables,     \* the tables that exist
    pc,         \* of each process: "down", "migrating", "open"
    todo,       \* the statements of migrate it has still to run
    starts

vars == <<user_version, tables, pc, todo, starts>>

SCHEMA_VERSION == 4

Core == {"routing", "allowed_users", "pending_pairings", "pending_approvals"}
Current == Core \cup {"user_settings"}

\* What the releases left: the second one added slots, the third dropped it.
TablesOf(v) ==
    CASE v = 0 -> {} [] v = 2 -> Core \cup {"slots"} [] v \in {1, 3} -> Core [] v = 4 -> Current

Init ==
    /\ user_version \in 0..SCHEMA_VERSION
    /\ tables = TablesOf(user_version)
    /\ pc = [p \in Processes |-> "down"]
    /\ todo = [p \in Processes |-> <<>>]
    /\ starts = [p \in Processes |-> 0]

Create(t) == [op |-> "create", table |-> t]
Drop(t)   == [op |-> "drop", table |-> t]
Stamp     == [op |-> "stamp", table |-> "none"]

\* Mutant: the version is stamped before the tables are there.
Steps_StampFirst(v) == <<Stamp, Create("user_settings")>>

\* migrate, for a database of version v: the batches in the order of their
\* statements.
Steps(v) ==
    (IF v < 1 THEN <<Create("routing"), Create("allowed_users"),
                     Create("pending_pairings"), Create("pending_approvals")>>
              ELSE <<>>)
    \o (IF v < 3 THEN <<Drop("slots")>> ELSE <<>>)
    \o (IF v < 4 THEN <<Create("user_settings")>> ELSE <<>>)
    \o <<Stamp>>

Open(p) ==
    /\ pc[p] = "down" /\ starts[p] < MaxStarts
    /\ pc' = [pc EXCEPT ![p] = "migrating"]
    /\ todo' = [todo EXCEPT ![p] = Steps(user_version)]
    /\ starts' = [starts EXCEPT ![p] = @ + 1]
    /\ UNCHANGED <<user_version, tables>>

\* CREATE TABLE IF NOT EXISTS, DROP TABLE IF EXISTS.
Run(p) ==
    /\ pc[p] = "migrating" /\ todo[p] # <<>>
    /\ LET s == Head(todo[p])
       IN /\ tables' = CASE s.op = "create" -> tables \cup {s.table}
                         [] s.op = "drop"   -> tables \ {s.table}
                         [] s.op = "stamp"  -> tables
          /\ user_version' = IF s.op = "stamp" THEN SCHEMA_VERSION ELSE user_version
    /\ todo' = [todo EXCEPT ![p] = Tail(@)]
    /\ UNCHANGED <<pc, starts>>

Opened(p) ==
    /\ pc[p] = "migrating" /\ todo[p] = <<>>
    /\ pc' = [pc EXCEPT ![p] = "open"]
    /\ UNCHANGED <<user_version, tables, todo, starts>>

\* A statement fails - another process has the lock for longer than
\* BUSY_TIMEOUT - and open returns its error; or the process dies.
Dies(p) ==
    /\ pc[p] # "down"
    /\ pc' = [pc EXCEPT ![p] = "down"]
    /\ todo' = [todo EXCEPT ![p] = <<>>]
    /\ UNCHANGED <<user_version, tables, starts>>

Next ==
    \E p \in Processes :
        Open(p) \/ Run(p) \/ Opened(p) \/ Dies(p)

Spec == Init /\ [][Next]_vars

-----------------------------------------------------------------------------
TypeOK ==
    /\ user_version \in 0..SCHEMA_VERSION /\ starts \in [Processes -> 0..MaxStarts]
    /\ tables \subseteq Current \cup {"slots"}
    /\ pc \in [Processes -> {"down", "migrating", "open"}]
    /\ todo \in [Processes -> Seq([op: {"create", "drop", "stamp"},
                                   table: Current \cup {"slots", "none"}])]

\* A store that opens has the current schema and says so, whichever release
\* left it, wherever earlier attempts to open it were cut off and whoever else
\* is opening it; and a store that says so has it, even before it is open.
SchemaIsTrue ==
    /\ \A p \in Processes :
          pc[p] = "open" => tables = Current /\ user_version = SCHEMA_VERSION
    /\ user_version = SCHEMA_VERSION => tables = Current
=============================================================================
