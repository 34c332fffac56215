----------------------------- MODULE FileStore -----------------------------
(***************************************************************************)
(* The file store behind inbound media: `put` streams a source to a temp   *)
(* file and registers it under a fresh id; a GET of the id takes it out    *)
(* (`take_by_id`) and reads it back; a sweeper drops what has expired.     *)
(* Puts, GETs and the sweeper are tasks of their own; each may be dropped  *)
(* at an await, as when a client hangs up.                                 *)
(*                                                                         *)
(* The lock is held for one map operation at a time, so each is one step.  *)
(* Sizes are counted in units of which a read returns up to COPY_CHUNK.    *)
(***************************************************************************)
EXTENDS Naturals, Sequences, FiniteSets

CONSTANTS
    Ids,            \* uuids: one per put, never drawn twice
    Takers, NoTaker,
    max_file_bytes, COPY_CHUNK, ttl,
    MaxSource,      \* bound: size of a source
    MaxTime         \* bound: the clock

ASSUME TakersAssumption == NoTaker \notin Takers
ASSUME SizesAssumption ==
    {max_file_bytes, ttl, MaxSource, MaxTime} \subseteq Nat /\ COPY_CHUNK \in Nat \ {0}

VARIABLES
    clock,
    entry,      \* "unused", "writing" (in put), "stored" (in the map), "taken" out
                \* of it by a taker, or "dropped"
    holder,     \* the taker that took it
    source,     \* the size of what is put
    disk,       \* bytes of the temp file, counted while it exists
    linked,     \* the temp files that exist
    deadline,
    served      \* history: what each GET that got the file was sent: when and how much

vars == <<clock, entry, holder, source, disk, linked, deadline, served>>

Init ==
    /\ clock = 0
    /\ entry = [f \in Ids |-> "unused"]
    /\ holder = [f \in Ids |-> NoTaker]
    /\ source \in [Ids -> 0..MaxSource]
    /\ disk = [f \in Ids |-> 0]
    /\ linked = {}
    /\ deadline = [f \in Ids |-> 0]
    /\ served = [f \in Ids |-> << >>]

Tick ==
    /\ clock < MaxTime
    /\ clock' = clock + 1
    /\ UNCHANGED <<entry, holder, source, disk, linked, deadline, served>>

\* Dropping a NamedTempFile unlinks it.
Without(F) == linked \ F

\* The FileMeta, or put's temp file, is dropped.
Drop(f) ==
    /\ entry' = [entry EXCEPT ![f] = "dropped"]
    /\ linked' = Without({f})

-----------------------------------------------------------------------------
(* put.                                                                    *)

PutBegins(f) ==
    /\ entry[f] = "unused"
    /\ entry' = [entry EXCEPT ![f] = "writing"]
    /\ linked' = linked \cup {f}
    /\ UNCHANGED <<clock, holder, source, disk, deadline, served>>

\* What the source has left to give, and what the next read may return of it.
Chunks(f) == {n \in 1..COPY_CHUNK : n <= source[f] - disk[f]}

TooLarge(f, n) == disk[f] + n > max_file_bytes

PutWrites(f) ==
    /\ entry[f] = "writing"
    /\ \E n \in Chunks(f) :
          /\ ~TooLarge(f, n)
          /\ disk' = [disk EXCEPT ![f] = @ + n]
    /\ UNCHANGED <<clock, entry, holder, source, linked, deadline, served>>

\* PutError::TooLarge, before the chunk is written.
PutTooLarge(f) ==
    /\ entry[f] = "writing"
    /\ \E n \in Chunks(f) : TooLarge(f, n)
    /\ Drop(f)
    /\ UNCHANGED <<clock, holder, source, disk, deadline, served>>

\* An I/O error on either side, or the task is dropped at an await.
PutFails(f) ==
    /\ entry[f] = "writing"
    /\ Drop(f)
    /\ UNCHANGED <<clock, holder, source, disk, deadline, served>>

\* Mutant: the entry is registered while it is still being written.
ReadyToRegister_Early(f) == entry[f] = "writing"

\* The source is at its end and flushed.
ReadyToRegister(f) == entry[f] = "writing" /\ disk[f] = source[f]

Deadline == clock + ttl

PutRegisters(f) ==
    /\ ReadyToRegister(f)
    /\ entry' = [entry EXCEPT ![f] = "stored"]
    /\ deadline' = [deadline EXCEPT ![f] = Deadline]
    /\ UNCHANGED <<clock, holder, source, disk, linked, served>>

-----------------------------------------------------------------------------
(* take_by_id and the sweeper.                                             *)

\* The entry is moved out of the map; the deadline is not looked at.
Take(t, f) ==
    /\ entry[f] = "stored"
    /\ \A g \in Ids : entry[g] = "taken" => holder[g] # t
    /\ entry' = [entry EXCEPT ![f] = "taken"]
    /\ holder' = [holder EXCEPT ![f] = t]
    /\ UNCHANGED <<clock, source, disk, linked, deadline, served>>

\* The bytes are read, the meta goes out of scope, the response is sent.
TakeServes(t, f) ==
    /\ entry[f] = "taken"
    /\ holder[f] = t
    /\ Drop(f)
    /\ served' = [served EXCEPT ![f] = Append(@, [at |-> clock, size |-> disk[f]])]
    /\ UNCHANGED <<clock, holder, source, disk, deadline>>

\* An I/O error, or the client hangs up while the file is read.
TakeFails(t, f) ==
    /\ entry[f] = "taken"
    /\ holder[f] = t
    /\ Drop(f)
    /\ UNCHANGED <<clock, holder, source, disk, deadline, served>>

\* Mutant: the comparison is turned round.
Sweepable_Fresh(f) == entry[f] = "stored" /\ deadline[f] > clock

Sweepable(f) == entry[f] = "stored" /\ deadline[f] <= clock

Expired == {f \in Ids : Sweepable(f)}

Sweep ==
    /\ Expired # {}
    /\ entry' = [f \in Ids |-> IF f \in Expired THEN "dropped" ELSE entry[f]]
    /\ linked' = Without(Expired)
    /\ UNCHANGED <<clock, holder, source, disk, deadline, served>>

Next ==
    \/ Tick \/ Sweep
    \/ \E f \in Ids :
          \/ PutBegins(f) \/ PutWrites(f) \/ PutTooLarge(f) \/ PutFails(f) \/ PutRegisters(f)
          \/ \E t \in Takers : Take(t, f) \/ TakeServes(t, f) \/ TakeFails(t, f)

Spec == Init /\ [][Next]_vars

\* Time passes, and the sweep task runs at every tick of its interval.
FairSpec == Spec /\ WF_vars(Tick) /\ WF_vars(Sweep)

-----------------------------------------------------------------------------
(* Properties.                                                             *)

\* Every variable keeps its type.
TypeOK ==
    /\ clock \in 0..MaxTime
    /\ entry \in [Ids -> {"unused", "writing", "stored", "taken", "dropped"}]
    /\ holder \in [Ids -> Takers \cup {NoTaker}]
    /\ source \in [Ids -> 0..MaxSource]
    /\ disk \in [Ids -> Nat]
    /\ linked \subseteq Ids
    /\ deadline \in [Ids -> Nat]
    /\ served \in [Ids -> Seq([at : 0..MaxTime, size : Nat])]

\* However GETs, puts and the sweeper interleave, a file is sent to one GET at
\* most, and whole: never one still being written, or unlinked under the reader
\* (store.rs:18-32,225-251).
ServedOnceAndWhole ==
    \A f \in Ids :
        /\ Len(served[f]) <= 1
        /\ \A i \in 1..Len(served[f]) : served[f][i].size = source[f]
        /\ entry[f] = "taken" => f \in linked /\ served[f] = << >>

\* A source over max_file_bytes never gets that far: at no time does its temp file
\* hold more than that, and it is never registered (store.rs:186-193).
NeverOverLimit ==
    \A f \in Ids :
        /\ disk[f] <= max_file_bytes
        /\ entry[f] \in {"stored", "taken"} => disk[f] = source[f]

\* A temp file exists exactly as long as a put, the map or a taker owns it: no path
\* through success, error, hang-up or expiry leaves one behind (store.rs:28-34).
NoOrphan == linked = {f \in Ids : entry[f] \in {"writing", "stored", "taken"}}

\* A registered file that nobody fetches is reclaimed, if the clock gets past its
\* deadline (store.rs:255-278).
UnfetchedIsReclaimed ==
    \A f \in Ids :
        (entry[f] = "stored" /\ deadline[f] <= MaxTime) ~> entry[f] # "stored"

=============================================================================
