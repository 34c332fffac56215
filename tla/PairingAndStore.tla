-------------------------- MODULE PairingAndStore --------------------------
(* Pairing and Migrations: the store as it is opened, and the pairing that   *)
(* works on it.  Nothing is paired before the store is open, and none of its *)
(* tables changes after that: a behaviour is of one of them, and the other   *)
(* rests.                                                                    *)
EXTENDS Pairing

CONSTANTS Processes, MaxStarts

VARIABLES
    subject,    \* the module the behaviour is of
    user_version, tables, pc, todo, starts

schemaVars == <<user_version, tables, pc, todo, starts>>

S == INSTANCE Migrations

ASSUME SchemaAssumption == S!StartsAssumption

BothInit ==
    /\ Init /\ S!Init
    /\ \/ subject = "pairing" /\ user_version = S!SCHEMA_VERSION
       \/ subject = "schema"

BothNext ==
    /\ UNCHANGED subject
    /\ \/ subject = "pairing" /\ Next /\ UNCHANGED schemaVars
       \/ subject = "schema" /\ S!Next /\ UNCHANGED vars

BothSpec == BothInit /\ [][BothNext]_<<subject, vars, schemaVars>>

\* The property of Migrations: a store that is open, or says so, has the current
\* schema, wherever earlier attempts to open it were cut off (persistence.rs).
SchemaIsTrue == S!SchemaIsTrue
=============================================================================
