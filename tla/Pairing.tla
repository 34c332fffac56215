------------------------------ MODULE Pairing ------------------------------
(***************************************************************************)
(* Enrolment: an unauthorized chat is given a pairing code                 *)
(* (`handle_unauthorized`, `issue_code`), an admin approves or denies it   *)
(* over the admin socket, which binds the chat to a slot.                  *)
(*                                                                         *)
(* Dispatchers of different chats and admin connections are tasks on a     *)
(* multi-threaded runtime.  The database lock covers one statement, so an  *)
(* operation is as many steps as it has statements.  The tables outlive    *)
(* the process, what an operation holds in its hands does not.             *)
(***************************************************************************)
EXTENDS Naturals, FiniteSets

CONSTANTS
    Chats, NoChat,
    Codes, NoCode,
    Slots, NoSlot,      \* the slots an admin may name
    LiveSlots,          \* those in the registry
    Admins,             \* admin connections
    code_ttl_secs,
    CODE_GEN_ATTEMPTS,
    MaxIssues,          \* bound: codes issued
    MaxTime,            \* bound: the clock
    MaxFaults          \* bound: restarts of the proxy, and statements that fail

ASSUME NullsAssumption == NoChat \notin Chats /\ NoCode \notin Codes /\ NoSlot \notin Slots
ASSUME SlotsAssumption == LiveSlots \subseteq Slots
ASSUME NumbersAssumption ==
    /\ {code_ttl_secs, MaxIssues, MaxTime, MaxFaults} \subseteq Nat
    /\ CODE_GEN_ATTEMPTS \in Nat \ {0}

VARIABLES
    clock,
    pairings,   \* pending_pairings: code -> row
    allowed,    \* allowed_users: chat -> slot
    issuing,    \* what the dispatcher of a chat is doing in issue_code
    admin,      \* what an admin connection is doing
    faults,
    requests,   \* history: every code issued, with its number, chat and expiry
    bound,      \* history: the bindings, by the number of the code used
    denied,     \* history: the numbers of codes whose deny answered true
    uses,       \* history: how often the code of a number has bound a chat
    contended   \* history: codes two admins have held at once, or one who never
                \* came to delete them

historyVars == <<requests, bound, denied, uses, contended>>
vars == <<clock, pairings, allowed, issuing, admin, faults, historyVars>>

NoRow == [chat |-> NoChat, expires |-> 0, nr |-> 0]

NotIssuing == [at |-> "idle", code |-> NoCode, tries |-> 0, now |-> 0]

NotAsked == [at |-> "idle", code |-> NoCode, slot |-> NoSlot, row |-> NoRow, now |-> 0]

Pending(k) == pairings[k] # NoRow

Init ==
    /\ clock = 0
    /\ pairings = [k \in Codes |-> NoRow]
    /\ allowed = [c \in Chats |-> NoSlot]
    /\ issuing = [c \in Chats |-> NotIssuing]
    /\ admin = [a \in Admins |-> NotAsked]
    /\ faults = 0
    /\ requests = {}
    /\ bound = {}
    /\ denied = {}
    /\ uses = [n \in 1..MaxIssues |-> 0]
    /\ contended = {}

Tick ==
    /\ clock < MaxTime
    /\ clock' = clock + 1
    /\ UNCHANGED <<pairings, allowed, issuing, admin, faults, historyVars>>

-----------------------------------------------------------------------------
(* handle_unauthorized and issue_code.                                     *)

\* A message from a chat that is bound to no slot; `now` is read.
HandleUnauthorized(c) ==
    /\ issuing[c] = NotIssuing
    /\ allowed[c] = NoSlot
    /\ Cardinality(requests) < MaxIssues
    /\ issuing' = [issuing EXCEPT ![c].at = "drop", ![c].now = clock]
    /\ UNCHANGED <<clock, pairings, allowed, admin, faults, historyVars>>

\* delete_pairings_for_chat.
Prior(c) == {k \in Codes : pairings[k].chat = c}

DropPrior(c) ==
    /\ issuing[c].at = "drop"
    /\ pairings' = [k \in Codes |-> IF k \in Prior(c) THEN NoRow ELSE pairings[k]]
    /\ issuing' = [issuing EXCEPT ![c].at = "pick"]
    /\ UNCHANGED <<clock, allowed, admin, faults, historyVars>>

\* A random code that is free.
PickFree(c) ==
    /\ issuing[c].at = "pick"
    /\ \E k \in Codes :
          /\ ~Pending(k)
          /\ issuing' = [issuing EXCEPT ![c].at = "insert", ![c].code = k]
    /\ UNCHANGED <<clock, pairings, allowed, admin, faults, historyVars>>

GivesUp(tries) == tries >= CODE_GEN_ATTEMPTS

\* One that is not: draw again, or give up.
PickTaken(c) ==
    /\ issuing[c].at = "pick"
    /\ \E k \in Codes : Pending(k)
    /\ LET tries == issuing[c].tries + 1 IN
       issuing' = [issuing EXCEPT ![c] =
                      IF GivesUp(tries) THEN NotIssuing
                      ELSE [issuing[c] EXCEPT !.tries = tries]]
    /\ UNCHANGED <<clock, pairings, allowed, admin, faults, historyVars>>

\* insert_pairing, an upsert by code; the code is shown to the user.
InsertCode(c) ==
    LET k   == issuing[c].code
        row == [chat |-> c, expires |-> issuing[c].now + code_ttl_secs,
                nr |-> Cardinality(requests) + 1] IN
    /\ issuing[c].at = "insert"
    /\ Cardinality(requests) < MaxIssues
    /\ pairings' = [pairings EXCEPT ![k] = row]
    /\ requests' = requests \cup {[code |-> k, row |-> row]}
    /\ issuing' = [issuing EXCEPT ![c] = NotIssuing]
    /\ UNCHANGED <<clock, allowed, admin, faults, bound, denied, uses, contended>>

-----------------------------------------------------------------------------
(* The admin socket.                                                       *)

\* Another connection has row n in its hands.
Contended(a, n) ==
    contended' = contended \cup {m \in {n} \ {0} : \E b \in Admins \ {a} : admin[b].row.nr = m}

\* Mutant: a code is good for one second more.
IsExpired_Late(row, now) == row.expires < now

IsExpired(row, now) == row.expires <= now

\* Code k and its row, in the hands of a connection.
Holds(at, k) == [at |-> at, code |-> k, slot |-> NoSlot, row |-> pairings[k], now |-> 0]

\* approve: the row is looked up and judged.  An unknown code, or a slot that is
\* not live, is an error that changes nothing.
ApproveLooksUp(a, k, s) ==
    /\ admin[a] = NotAsked
    /\ Pending(k)
    /\ \/ /\ IsExpired(pairings[k], clock)
          /\ admin' = [admin EXCEPT ![a] = Holds("consume", k)]
       \/ /\ ~IsExpired(pairings[k], clock)
          /\ s \in LiveSlots
          /\ admin' = [admin EXCEPT ![a] =
                          [Holds("bind", k) EXCEPT !.slot = s, !.now = clock]]
    /\ Contended(a, pairings[k].nr)
    /\ UNCHANGED <<clock, pairings, allowed, issuing, faults, requests, bound, denied,
                   uses>>

\* add_allowed: the chat is bound, or re-slotted.
ApproveBinds(a) ==
    LET row == admin[a].row IN
    /\ admin[a].at = "bind"
    /\ allowed' = [allowed EXCEPT ![row.chat] = admin[a].slot]
    /\ admin' = [admin EXCEPT ![a].at = "consume", ![a].slot = NoSlot, ![a].now = 0]
    /\ bound' = bound \cup {[nr |-> row.nr, chat |-> row.chat, asked |-> admin[a].now]}
    /\ uses' = [uses EXCEPT ![row.nr] = @ + 1]
    /\ UNCHANGED <<clock, pairings, issuing, faults, requests, denied, contended>>

\* Mutant: an approved code is not consumed.
AfterApproval_Kept(k) == pairings

\* delete_pairing.
AfterApproval(k) == [pairings EXCEPT ![k] = NoRow]

ApproveConsumes(a) ==
    /\ admin[a].at = "consume"
    /\ pairings' = AfterApproval(admin[a].code)
    /\ admin' = [admin EXCEPT ![a] = NotAsked]
    /\ UNCHANGED <<clock, allowed, issuing, faults, historyVars>>

\* deny: is there a row?
DenyLooksUp(a, k) ==
    /\ admin[a] = NotAsked
    /\ admin' = [admin EXCEPT ![a] = Holds("deny", k)]
    /\ Contended(a, pairings[k].nr)
    /\ UNCHANGED <<clock, pairings, allowed, issuing, faults, requests, bound, denied,
                   uses>>

\* Its row is deleted; the answer says whether there was one.
DenyDeletes(a) ==
    LET n == admin[a].row.nr IN
    /\ admin[a].at = "deny"
    /\ pairings' = [pairings EXCEPT ![admin[a].code] = NoRow]
    /\ admin' = [admin EXCEPT ![a] = NotAsked]
    /\ denied' = denied \cup ({n} \ {0})
    /\ UNCHANGED <<clock, allowed, issuing, faults, requests, bound, uses,
                   contended>>

\* list purges what has expired; the read that follows changes nothing.
ListPairings ==
    /\ \E k \in Codes : Pending(k) /\ pairings[k].expires <= clock
    /\ pairings' = [k \in Codes |->
                      IF pairings[k].expires <= clock THEN NoRow ELSE pairings[k]]
    /\ UNCHANGED <<clock, allowed, issuing, admin, faults, historyVars>>

-----------------------------------------------------------------------------
(* Operations that do not come to their end.                               *)

\* Codes whose deletion is not reached.
Undeleted(as) == {admin[a].row.nr : a \in {b \in as : admin[b].at = "consume"}} \ {0}

\* What the dispatchers of the chats cs and the connections as had written stays, what
\* they held is gone.
CutOff(cs, as) ==
    /\ faults < MaxFaults
    /\ faults' = faults + 1
    /\ issuing' = [c \in Chats |-> IF c \in cs THEN NotIssuing ELSE issuing[c]]
    /\ admin' = [a \in Admins |-> IF a \in as THEN NotAsked ELSE admin[a]]
    /\ contended' = contended \cup Undeleted(as)
    /\ UNCHANGED <<clock, pairings, allowed, requests, bound, denied, uses>>

Crash == CutOff(Chats, Admins)

\* A statement of issue_code fails (its `?`): the user is told no code.
IssueFails(c) ==
    /\ issuing[c] # NotIssuing
    /\ CutOff({c}, {})

\* A statement of approve or deny fails (its `?`).  If it is add_allowed, nothing has
\* changed; if it is delete_pairing after that, the chat is bound and the code is left.
AskFails(a) ==
    /\ admin[a] # NotAsked
    /\ CutOff({}, {a})

Next ==
    \/ Tick \/ ListPairings \/ Crash
    \/ \E c \in Chats :
          \/ HandleUnauthorized(c) \/ DropPrior(c)
          \/ PickFree(c) \/ PickTaken(c) \/ InsertCode(c) \/ IssueFails(c)
    \/ \E a \in Admins :
          \/ \E k \in Codes : DenyLooksUp(a, k) \/ \E s \in Slots : ApproveLooksUp(a, k, s)
          \/ ApproveBinds(a) \/ ApproveConsumes(a) \/ DenyDeletes(a) \/ AskFails(a)

Spec == Init /\ [][Next]_vars

-----------------------------------------------------------------------------
(* Properties.                                                             *)

Row == [chat : Chats, expires : 0..(MaxTime + code_ttl_secs), nr : 1..MaxIssues]

\* Every variable keeps its type.
TypeOK ==
    /\ clock \in 0..MaxTime
    /\ pairings \in [Codes -> Row \cup {NoRow}]
    /\ allowed \in [Chats -> LiveSlots \cup {NoSlot}]
    /\ issuing \in [Chats -> [at : {"idle", "drop", "pick", "insert"},
                              code : Codes \cup {NoCode},
                              tries : 0..(CODE_GEN_ATTEMPTS - 1), now : 0..MaxTime]]
    /\ admin \in [Admins -> [at : {"idle", "bind", "consume", "deny"},
                             code : Codes \cup {NoCode}, slot : Slots \cup {NoSlot},
                             row : Row \cup {NoRow}, now : 0..MaxTime]]
    /\ faults \in 0..MaxFaults
    /\ requests \subseteq [code : Codes, row : Row]
    /\ bound \subseteq [nr : 1..MaxIssues, chat : Chats, asked : 0..MaxTime]
    /\ denied \subseteq 1..MaxIssues
    /\ uses \in [1..MaxIssues -> Nat]
    /\ contended \subseteq 1..MaxIssues

\* "A sender spamming the bot only ever holds one active row" (pairing.rs:18-21),
\* whatever admins and other senders do meanwhile, and across restarts.
OneCodePerChat ==
    \A j, k \in Codes : Pending(j) /\ Pending(k) /\ j # k => pairings[j].chat # pairings[k].chat

\* A chat is bound only by an approval of a code that had been issued to that chat
\* and had not expired when the approval came in: not by a stale row, nor by a code
\* that was issued again to another chat (pairing.rs:107-136).
BoundByOwnLiveCode ==
    /\ \A c \in Chats : allowed[c] # NoSlot => \E b \in bound : b.chat = c
    /\ \A b \in bound : \E r \in requests :
          r.row.nr = b.nr /\ r.row.chat = b.chat /\ b.asked < r.row.expires

\* A code binds once at most, and the answer to a deny is final: what was reported
\* denied has not bound and never will (pairing.rs:107-144).  Sequential admins see
\* that, whatever the chats do: it takes two admins with the code in their hands at
\* once, or a crash or an error between a binding and the deletion of the row (the
\* second `?` of approve, pairing.rs:128-129), to break it.
SingleUseUnlessContended ==
    \A n \in (1..MaxIssues) \ contended : uses[n] <= 1 /\ (n \in denied => uses[n] = 0)

=============================================================================
