------------------------------ MODULE SendFile ------------------------------
(***************************************************************************)
(* The MCP tool send_file_to_user (mcp/mod.rs): a turn's model calls it    *)
(* with the name of its slot in a header, and the file goes to the chat    *)
(* that allowed_users binds to the slot - if there are several, to the one *)
(* with the smallest added_at (persistence.rs, chat_for_slot).  Bindings   *)
(* are made by pairing and, at every start, from the configuration; each   *)
(* stamps added_at with the current second.                                *)
(***************************************************************************)
EXTENDS Naturals

CONSTANTS Chats, Slots, Nobody, NoSlot,
          Calls,        \* calls of the tool
          Owner,        \* the telegram_id of each slot in the configuration
          MAX_ATTEMPTS, \* of with_retry
          MaxClock,     \* bound: the clock, in seconds
          MaxStarts     \* bound: starts of the daemon

SendFileAssumption ==
    /\ Nobody \notin Chats /\ NoSlot \notin Slots
    /\ Owner \in [Slots -> Chats \cup {Nobody}]
    /\ {MAX_ATTEMPTS, MaxStarts} \subseteq Nat \ {0} /\ MaxClock \in Nat

VARIABLES
    clock, starts,
    live,       \* the slots in the runtime registry
    bound,      \* allowed_users: the slot of a chat
    added_at,
    step,       \* of each call
    slot,       \* the X-Slot of the call
    from,       \* history: the chat in whose turn the call is made
    sole,       \* history: since the call that chat alone has been bound to the slot
    chat,       \* the recipient the call has looked up
    attempt,
    delivered,  \* history: how often the file reached the recipient
    lost,       \* history: a reply of Telegram was lost
    told        \* what the model was told

bindings == <<clock, starts, live, bound, added_at>>
callVars == <<step, slot, from, sole, chat, attempt, delivered, lost, told>>
vars == <<bindings, callVars>>

Owned == {s \in Slots : Owner[s] # Nobody}
SeededSlot(c) == CHOOSE s \in Owned : Owner[s] = c
Seeds(c) == \E s \in Owned : Owner[s] = c

\* AppState::new seeds the owners of the configuration, at every start.
Seeded(b) == [c \in Chats |-> IF Seeds(c) THEN SeededSlot(c) ELSE b[c]]

Init ==
    /\ clock = 0 /\ starts = 1 /\ live = {}
    /\ bound = Seeded([c \in Chats |-> NoSlot])
    /\ added_at = [c \in Chats |-> 0]
    /\ step = [k \in Calls |-> "idle"]
    /\ slot = [k \in Calls |-> NoSlot]
    /\ from = [k \in Calls |-> Nobody]
    /\ sole = [k \in Calls |-> FALSE]
    /\ chat = [k \in Calls |-> Nobody]
    /\ attempt = [k \in Calls |-> 0]
    /\ delivered = [k \in Calls |-> 0]
    /\ lost = [k \in Calls |-> FALSE]
    /\ told = [k \in Calls |-> "none"]

-----------------------------------------------------------------------------
(* The bindings.                                                           *)

Tick ==
    /\ clock < MaxClock
    /\ clock' = clock + 1
    /\ UNCHANGED <<starts, live, bound, added_at, callVars>>

SlotComesUp(s) ==
    /\ s \notin live
    /\ live' = live \cup {s}
    /\ UNCHANGED <<clock, starts, bound, added_at, callVars>>

Running(k) == step[k] \notin {"idle", "settled"}

\* The calls whose chat keeps its slot to itself as the bindings become b.
Kept(b) == [k \in Calls |-> sole[k] /\ {c \in Chats : b[c] = slot[k]} = {from[k]}]

\* add_allowed: the chat's row is overwritten.  It is called from pair approve,
\* and from connect, which binds before it makes the slot live.
Bind(c, s) ==
    /\ bound' = [bound EXCEPT ![c] = s]
    /\ added_at' = [added_at EXCEPT ![c] = clock]
    /\ sole' = Kept([bound EXCEPT ![c] = s])
    /\ UNCHANGED <<clock, starts, live, step, slot, from, chat, attempt, delivered, lost, told>>

\* The process ends and is started again: calls are cut off, the store stays,
\* the owners of the configuration are seeded, slots come up anew.
Restart ==
    /\ starts < MaxStarts
    /\ starts' = starts + 1
    /\ live' = {}
    /\ bound' = Seeded(bound)
    /\ added_at' = [c \in Chats |-> IF Seeds(c) THEN clock ELSE added_at[c]]
    /\ step' = [k \in Calls |-> IF Running(k) THEN "settled" ELSE step[k]]
    /\ sole' = Kept(Seeded(bound))
    /\ UNCHANGED <<clock, slot, from, chat, attempt, delivered, lost, told>>

-----------------------------------------------------------------------------
(* A call, one step per await or statement of the store.                   *)

\* The header comes from the workspace's own configuration.  slot_of checks it
\* against the live registry; the content is decoded.
Call(k, c) ==
    /\ step[k] = "idle" /\ bound[c] \in live
    /\ slot' = [slot EXCEPT ![k] = bound[c]]
    /\ from' = [from EXCEPT ![k] = c]
    /\ sole' = [sole EXCEPT ![k] = {d \in Chats : bound[d] = bound[c]} = {c}]
    /\ \/ step' = [step EXCEPT ![k] = "valid"] /\ UNCHANGED told
       \/ /\ step' = [step EXCEPT ![k] = "settled"]
          /\ told' = [told EXCEPT ![k] = "invalid"]
    /\ UNCHANGED <<bindings, chat, attempt, delivered, lost>>

\* Mutant: the rows are ordered, and not selected by their slot.
BoundTo_Any(s) == {c \in Chats : bound[c] # NoSlot}

BoundTo(s) == {c \in Chats : bound[c] = s}

\* ORDER BY added_at LIMIT 1; rows of the same second come in either order.
Recipients(s) == {c \in BoundTo(s) : \A d \in BoundTo(s) : added_at[c] <= added_at[d]}

LookUp(k) ==
    /\ step[k] = "valid"
    /\ IF Recipients(slot[k]) = {}
       THEN /\ step' = [step EXCEPT ![k] = "settled"]
            /\ told' = [told EXCEPT ![k] = "nobody"]
            /\ UNCHANGED <<chat, attempt>>
       ELSE /\ \E c \in Recipients(slot[k]) : chat' = [chat EXCEPT ![k] = c]
            /\ step' = [step EXCEPT ![k] = "sending"]
            /\ attempt' = [attempt EXCEPT ![k] = 1]
            /\ UNCHANGED told
    /\ UNCHANGED <<bindings, slot, from, sole, delivered, lost>>

\* An error of the store: "could not resolve recipient".
LookUpFails(k) ==
    /\ step[k] = "valid"
    /\ step' = [step EXCEPT ![k] = "settled"]
    /\ told' = [told EXCEPT ![k] = "failed"]
    /\ UNCHANGED <<bindings, slot, from, sole, chat, attempt, delivered, lost>>

Sent(k) ==
    /\ step[k] = "sending"
    /\ delivered' = [delivered EXCEPT ![k] = @ + 1]
    /\ step' = [step EXCEPT ![k] = "settled"]
    /\ told' = [told EXCEPT ![k] = "sent"]
    /\ UNCHANGED <<bindings, slot, from, sole, chat, attempt, lost>>

Refused(k) ==
    /\ step[k] = "sending"
    /\ step' = [step EXCEPT ![k] = "settled"]
    /\ told' = [told EXCEPT ![k] = "failed"]
    /\ UNCHANGED <<bindings, slot, from, sole, chat, attempt, delivered, lost>>

\* Mutant: an upload that is given up is reported as one that was made.
GivesUp_Quietly == "sent"

\* What with_retry tells once it has no attempt left.
GivesUp == "failed"

\* A network error or a wait that Telegram asks for: not delivered, or
\* delivered and the reply lost.
NotReached(k) ==
    /\ step[k] = "sending"
    /\ \/ UNCHANGED <<delivered, lost>>
       \/ /\ delivered' = [delivered EXCEPT ![k] = @ + 1]
          /\ lost' = [lost EXCEPT ![k] = TRUE]
    /\ IF attempt[k] < MAX_ATTEMPTS
       THEN attempt' = [attempt EXCEPT ![k] = @ + 1] /\ UNCHANGED <<step, told>>
       ELSE /\ step' = [step EXCEPT ![k] = "settled"]
            /\ told' = [told EXCEPT ![k] = GivesUp]
            /\ UNCHANGED attempt
    /\ UNCHANGED <<bindings, slot, from, sole, chat>>

Next ==
    \/ Tick \/ Restart
    \/ \E s \in Slots : SlotComesUp(s) \/ \E c \in Chats : Bind(c, s)
    \/ \E k \in Calls :
          \/ \E c \in Chats : Call(k, c)
          \/ LookUp(k) \/ LookUpFails(k) \/ Sent(k) \/ Refused(k) \/ NotReached(k)

Spec == Init /\ [][Next]_vars

-----------------------------------------------------------------------------
TypeOK ==
    /\ clock \in 0..MaxClock /\ starts \in 1..MaxStarts /\ live \subseteq Slots
    /\ bound \in [Chats -> Slots \cup {NoSlot}]
    /\ added_at \in [Chats -> 0..MaxClock]
    /\ step \in [Calls -> {"idle", "valid", "sending", "settled"}]
    /\ slot \in [Calls -> Slots \cup {NoSlot}] /\ from \in [Calls -> Chats \cup {Nobody}]
    /\ sole \in [Calls -> BOOLEAN] /\ chat \in [Calls -> Chats \cup {Nobody}]
    /\ attempt \in [Calls -> 0..MAX_ATTEMPTS] /\ delivered \in [Calls -> 0..MAX_ATTEMPTS]
    /\ lost \in [Calls -> BOOLEAN]
    /\ told \in [Calls -> {"none", "invalid", "nobody", "failed", "sent"}]

\* What the model is told of its file is true: "sent" means it arrived, an
\* error that it did not, and it arrives twice only after a lost reply.
ToldIsTrue ==
    \A k \in Calls :
        /\ told[k] = "sent" => delivered[k] >= 1
        /\ ~lost[k] => delivered[k] <= 1 /\ (told[k] = "failed" => delivered[k] = 0)

\* A file made in the turn of a chat that has its slot to itself arrives there
\* and nowhere else: whatever slots the other chats move to while the upload is
\* tried again, and whatever an earlier restart has seeded.
SoleOwnerReceives ==
    \A k \in Calls : sole[k] /\ delivered[k] > 0 => chat[k] = from[k]

=============================================================================
