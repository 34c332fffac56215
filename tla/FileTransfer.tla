---------------------------- MODULE FileTransfer ----------------------------
(* FileStore, SendFile and Outbox: the three ways of files - to the agent    *)
(* over the store, and to the chat by the tool or by the outbox.  They share *)
(* no state: a behaviour is of one of them, and the others rest.             *)
EXTENDS FileStore

CONSTANTS
    \* SendFile's
    Chats, Slots, Nobody, NoSlot, Calls, Owner, MAX_ATTEMPTS, MaxClock, ToolStarts,
    \* Outbox's
    Files, Hidden, Debounce, MaxPause, MaxChunks, Endless, MaxVersions, MaxStarts,
    MaxFails, NoFile

VARIABLES
    subject,    \* the module the behaviour is of
    \* SendFile's
    now, toolStarts, live, bound, added_at, step, slot, from, sole, chat, attempt,
    delivered, lost, told,
    \* Outbox's
    owned, up, watching, starts, body, version, pause, chunks, rx, pending, quiet,
    flushing, uploading, tries, landed

toolVars ==
    <<now, toolStarts, live, bound, added_at, step, slot, from, sole, chat, attempt,
      delivered, lost, told>>
outboxVars ==
    <<owned, up, watching, starts, body, version, pause, chunks, rx, pending, quiet,
      flushing, uploading, tries, landed>>

T == INSTANCE SendFile WITH MaxStarts <- ToolStarts, clock <- now, starts <- toolStarts

O == INSTANCE Outbox

ASSUME ToolAssumption == T!SendFileAssumption
ASSUME RelayAssumption == O!OutboxAssumption

\* At rest no action that fairness is about can be taken: the clock is at its
\* bound and nothing is stored, and no daemon runs.
AllInit ==
    /\ T!Init /\ O!Init
    /\ \/ subject = "store" /\ Init /\ owned
       \/ /\ subject \in {"tool", "outbox"} /\ (subject = "tool" => owned)
          /\ clock = MaxTime /\ source = [f \in Ids |-> 0]
          /\ entry = [f \in Ids |-> "unused"] /\ holder = [f \in Ids |-> NoTaker]
          /\ disk = [f \in Ids |-> 0] /\ linked = {}
          /\ deadline = [f \in Ids |-> 0] /\ served = [f \in Ids |-> <<>>]

AllNext ==
    /\ UNCHANGED subject
    /\ \/ subject = "store" /\ Next /\ UNCHANGED <<toolVars, outboxVars>>
       \/ subject = "tool" /\ T!Next /\ UNCHANGED <<vars, outboxVars>>
       \/ subject = "outbox" /\ O!Next /\ UNCHANGED <<vars, toolVars>>

AllSpec ==
    /\ AllInit /\ [][AllNext]_<<subject, vars, toolVars, outboxVars>>
    /\ WF_vars(Tick) /\ WF_vars(Sweep) /\ O!Fairness

\* The properties of SendFile.  The model is told the truth of its file
\* (mcp/mod.rs, send_file_to_user).
ToldIsTrue == T!ToldIsTrue

\* A file made for the only chat of a slot goes to that chat alone
\* (persistence.rs, chat_for_slot).
SoleOwnerReceives == T!SoleOwnerReceives

\* The properties of Outbox.  A file that is written once, without a long pause,
\* is sent at most once and only whole (outbox.rs, relay).
WrittenOnceIsSentWhole == O!WrittenOnceIsSentWhole

\* The last version that lands under the watch is uploaded, unless its upload
\* failed (outbox.rs, relay and deliver).
LandedIsUploaded == O!LandedIsUploaded
=============================================================================
