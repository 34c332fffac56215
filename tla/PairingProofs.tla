--------------------------- MODULE PairingProofs ---------------------------
(***************************************************************************)
(* What enrolment promises for any chats, codes, admins and times, and     *)
(* what the migration of the store does, for any processes that open it.   *)
(***************************************************************************)
EXTENDS PairingAndStore, Sequences, FiniteSetTheorems, TLAPS

\* The constants one by one.
LEMMA Bounds ==
    /\ code_ttl_secs \in Nat /\ MaxIssues \in Nat /\ MaxTime \in Nat /\ MaxFaults \in Nat
    /\ CODE_GEN_ATTEMPTS \in Nat /\ CODE_GEN_ATTEMPTS >= 1
    /\ NoChat \notin Chats /\ NoCode \notin Codes /\ NoSlot \notin Slots
    /\ LiveSlots \subseteq Slots
BY NumbersAssumption, NullsAssumption, SlotsAssumption

-----------------------------------------------------------------------------
(* Types.                                                                  *)

Issuings == [at : {"idle", "drop", "pick", "insert"}, code : Codes \cup {NoCode},
             tries : 0..(CODE_GEN_ATTEMPTS - 1), now : 0..MaxTime]

Askings == [at : {"idle", "bind", "consume", "deny"}, code : Codes \cup {NoCode},
            slot : Slots \cup {NoSlot}, row : Row \cup {NoRow}, now : 0..MaxTime]

Requests == [code : Codes, row : Row]

Bindings == [nr : 1..MaxIssues, chat : Chats, asked : 0..MaxTime]

\* The tables.
TableType ==
    /\ clock \in 0..MaxTime
    /\ pairings \in [Codes -> Row \cup {NoRow}]
    /\ allowed \in [Chats -> LiveSlots \cup {NoSlot}]
    /\ faults \in 0..MaxFaults

\* A code that is about to be inserted has been drawn.
IssuingType ==
    /\ issuing \in [Chats -> Issuings]
    /\ \A c \in Chats : issuing[c].at = "insert" => issuing[c].code \in Codes

\* Whoever is about to bind has a row and a live slot.
AdminType ==
    /\ admin \in [Admins -> Askings]
    /\ \A a \in Admins : admin[a].at = "bind" => admin[a].row \in Row /\ admin[a].slot \in LiveSlots

\* Codes are numbered by counting the requests, which are therefore finite.
HistoryType ==
    /\ requests \subseteq Requests /\ IsFiniteSet(requests)
    /\ bound \subseteq Bindings
    /\ denied \subseteq 1..MaxIssues
    /\ uses \in [1..MaxIssues -> Nat]
    /\ contended \subseteq 1..MaxIssues

TypeInv == TableType /\ IssuingType /\ AdminType /\ HistoryType

\* No row is one of its own kind.
LEMMA NoRowFacts == NoRow \notin Row /\ NoRow.nr = 0 /\ NoRow.chat = NoChat /\ NoRow.expires = 0
BY DEF NoRow, Row

\* What is idle has its type.
LEMMA IdleTypes == NotIssuing \in Issuings /\ NotAsked \in Askings
BY Bounds DEF NotIssuing, NotAsked, Issuings, Askings

\* The number of a row that is, or is not.
LEMMA RowNumber ==
    ASSUME NEW row \in Row \cup {NoRow}
    PROVE  row.nr \in 0..MaxIssues /\ (row.nr # 0 => row.nr \in 1..MaxIssues)
BY Bounds DEF Row, NoRow

\* The row a new code gets.
NewRow(c) == [chat |-> c, expires |-> issuing[c].now + code_ttl_secs,
              nr |-> Cardinality(requests) + 1]

LEMMA NewRowType ==
    ASSUME TypeInv, NEW c \in Chats, Cardinality(requests) < MaxIssues
    PROVE  NewRow(c) \in Row
<1>1. Cardinality(requests) \in Nat
    BY FS_CardinalityType DEF TypeInv, HistoryType
<1>2. issuing[c].now \in 0..MaxTime
    BY DEF TypeInv, IssuingType, Issuings
<1>3. issuing[c].now + code_ttl_secs \in 0..(MaxTime + code_ttl_secs)
    BY <1>2, Bounds
<1>4. Cardinality(requests) + 1 \in 1..MaxIssues
    BY <1>1, Bounds
<1> QED BY <1>3, <1>4 DEF NewRow, Row

\* A crash and an error alike cut off some operations.
LEMMA Faults ==
    ASSUME Crash \/ (\E c \in Chats : IssueFails(c)) \/ (\E a \in Admins : AskFails(a))
    PROVE  \E cs \in SUBSET Chats, as \in SUBSET Admins : CutOff(cs, as)
<1>1. CASE Crash
    BY <1>1 DEF Crash
<1>2. ASSUME NEW c \in Chats, IssueFails(c)
      PROVE  \E cs \in SUBSET Chats, as \in SUBSET Admins : CutOff(cs, as)
    <2>1. {c} \in SUBSET Chats /\ {} \in SUBSET Admins
        OBVIOUS
    <2> QED BY <1>2, <2>1 DEF IssueFails
<1>3. ASSUME NEW a \in Admins, AskFails(a)
      PROVE  \E cs \in SUBSET Chats, as \in SUBSET Admins : CutOff(cs, as)
    <2>1. {} \in SUBSET Chats /\ {a} \in SUBSET Admins
        OBVIOUS
    <2> QED BY <1>3, <2>1 DEF AskFails
<1> QED BY <1>1, <1>2, <1>3

LEMMA TableStep ==
    ASSUME TypeInv, [Next]_vars
    PROVE  TableType'
<1> USE Bounds DEF TypeInv, TableType
<1>1. CASE UNCHANGED vars
    BY <1>1 DEF vars
<1>2. CASE Tick
    BY <1>2 DEF Tick
<1>3. CASE ListPairings
    BY <1>3 DEF ListPairings
<1>4. ASSUME NEW cs \in SUBSET Chats, NEW as \in SUBSET Admins, CutOff(cs, as)
      PROVE  TableType'
    BY <1>4 DEF CutOff
<1>5. ASSUME NEW c \in Chats,
             HandleUnauthorized(c) \/ DropPrior(c) \/ PickFree(c) \/ PickTaken(c)
      PROVE  TableType'
    BY <1>5 DEF HandleUnauthorized, DropPrior, PickFree, PickTaken
<1>6. ASSUME NEW c \in Chats, InsertCode(c)
      PROVE  TableType'
    <2>1. pairings' = [pairings EXCEPT ![issuing[c].code] = NewRow(c)]
        BY <1>6 DEF InsertCode, NewRow
    <2>2. NewRow(c) \in Row
        BY <1>6, NewRowType DEF InsertCode
    <2> QED BY <1>6, <2>1, <2>2 DEF InsertCode
<1>7. ASSUME NEW a \in Admins, NEW k \in Codes, NEW s \in Slots,
             DenyLooksUp(a, k) \/ ApproveLooksUp(a, k, s)
      PROVE  TableType'
    BY <1>7 DEF DenyLooksUp, ApproveLooksUp
<1>8. ASSUME NEW a \in Admins, ApproveBinds(a)
      PROVE  TableType'
    BY <1>8 DEF ApproveBinds, AdminType
<1>9. ASSUME NEW a \in Admins, ApproveConsumes(a) \/ DenyDeletes(a)
      PROVE  TableType'
    BY <1>9 DEF ApproveConsumes, AfterApproval, DenyDeletes
<1>10. ASSUME NEW a \in Admins, NEW k \in Codes, DenyLooksUp(a, k)
       PROVE  TableType'
    BY <1>10 DEF DenyLooksUp
<1> QED BY <1>1, <1>2, <1>3, <1>4, <1>5, <1>6, <1>7, <1>8, <1>9, <1>10, Faults DEF Next

LEMMA IssuingStep ==
    ASSUME TypeInv, [Next]_vars
    PROVE  IssuingType'
<1> USE Bounds DEF TypeInv, IssuingType
<1>1. CASE UNCHANGED issuing
    BY <1>1
<1>2. ASSUME NEW cs \in SUBSET Chats, NEW as \in SUBSET Admins, CutOff(cs, as)
      PROVE  IssuingType'
    BY <1>2, IdleTypes DEF CutOff, NotIssuing
<1>3. ASSUME NEW c \in Chats, HandleUnauthorized(c)
      PROVE  IssuingType'
    <2>1. clock \in 0..MaxTime
        BY DEF TableType
    <2>2. [issuing[c] EXCEPT !.at = "drop", !.now = clock] \in Issuings
        BY <2>1 DEF Issuings
    <2>3. issuing' = [issuing EXCEPT ![c] = [issuing[c] EXCEPT !.at = "drop", !.now = clock]]
        BY <1>3 DEF HandleUnauthorized
    <2>4. [issuing[c] EXCEPT !.at = "drop", !.now = clock].at = "drop"
        BY DEF Issuings
    <2> QED BY <2>2, <2>3, <2>4
<1>4. ASSUME NEW c \in Chats, DropPrior(c)
      PROVE  IssuingType'
    <2>1. [issuing[c] EXCEPT !.at = "pick"] \in Issuings
        BY DEF Issuings
    <2>2. issuing' = [issuing EXCEPT ![c] = [issuing[c] EXCEPT !.at = "pick"]]
        BY <1>4 DEF DropPrior
    <2>3. [issuing[c] EXCEPT !.at = "pick"].at = "pick"
        BY DEF Issuings
    <2> QED BY <2>1, <2>2, <2>3
<1>5. ASSUME NEW c \in Chats, PickFree(c)
      PROVE  IssuingType'
    <2>1. PICK k \in Codes :
             issuing' = [issuing EXCEPT ![c] = [issuing[c] EXCEPT !.at = "insert", !.code = k]]
        BY <1>5 DEF PickFree
    <2>2. [issuing[c] EXCEPT !.at = "insert", !.code = k] \in Issuings
        BY DEF Issuings
    <2>3. [issuing[c] EXCEPT !.at = "insert", !.code = k].code = k
        BY DEF Issuings
    <2> QED BY <2>1, <2>2, <2>3
<1>6. ASSUME NEW c \in Chats, PickTaken(c)
      PROVE  IssuingType'
    <2> DEFINE tries == issuing[c].tries + 1
               next == IF GivesUp(tries) THEN NotIssuing ELSE [issuing[c] EXCEPT !.tries = tries]
    <2>1. issuing' = [issuing EXCEPT ![c] = next]
        BY <1>6 DEF PickTaken
    <2>2. issuing[c].tries \in 0..(CODE_GEN_ATTEMPTS - 1) /\ issuing[c].at = "pick"
        BY <1>6 DEF PickTaken, Issuings
    <2>3. ~GivesUp(tries) => tries \in 0..(CODE_GEN_ATTEMPTS - 1)
        BY <2>2 DEF GivesUp
    <2>4. next \in Issuings
        BY <2>3, IdleTypes DEF Issuings
    <2>5. next.at # "insert"
        BY <2>2 DEF NotIssuing, Issuings
    <2> QED BY <2>1, <2>4, <2>5
<1>7. ASSUME NEW c \in Chats, InsertCode(c)
      PROVE  IssuingType'
    <2>1. issuing' = [issuing EXCEPT ![c] = NotIssuing]
        BY <1>7 DEF InsertCode
    <2> QED BY <2>1, IdleTypes DEF NotIssuing
<1>8. (\E a \in Admins :
          \/ \E k \in Codes : DenyLooksUp(a, k) \/ \E s \in Slots : ApproveLooksUp(a, k, s)
          \/ ApproveBinds(a) \/ ApproveConsumes(a) \/ DenyDeletes(a)) => UNCHANGED issuing
    BY DEF DenyLooksUp, ApproveLooksUp, ApproveBinds, ApproveConsumes, DenyDeletes
<1>9. Tick \/ ListPairings \/ UNCHANGED vars => UNCHANGED issuing
    BY DEF Tick, ListPairings, vars
<1> QED BY <1>1, <1>2, <1>3, <1>4, <1>5, <1>6, <1>7, <1>8, <1>9, Faults DEF Next

\* What a connection holds after it has looked up a code.
LEMMA HoldsType ==
    ASSUME TypeInv, NEW k \in Codes, NEW step \in {"consume", "deny", "bind"}
    PROVE  /\ Holds(step, k) \in Askings
           /\ Holds(step, k).at = step /\ Holds(step, k).row = pairings[k]
           /\ Holds(step, k).code = k
<1>1. pairings[k] \in Row \cup {NoRow}
    BY DEF TypeInv, TableType
<1>2. 0 \in 0..MaxTime
    BY Bounds
<1> QED BY <1>1, <1>2 DEF Holds, Askings

LEMMA AdminStep ==
    ASSUME TypeInv, [Next]_vars
    PROVE  AdminType'
<1> USE Bounds DEF TypeInv, AdminType
<1>1. CASE UNCHANGED admin
    BY <1>1
<1>2. ASSUME NEW cs \in SUBSET Chats, NEW as \in SUBSET Admins, CutOff(cs, as)
      PROVE  AdminType'
    BY <1>2, IdleTypes DEF CutOff, NotAsked
<1>3. ASSUME NEW a \in Admins, NEW k \in Codes, NEW s \in Slots, ApproveLooksUp(a, k, s)
      PROVE  AdminType'
    <2>1. CASE admin' = [admin EXCEPT ![a] = Holds("consume", k)]
        BY <2>1, HoldsType
    <2>2. CASE /\ s \in LiveSlots
               /\ admin' = [admin EXCEPT ![a] =
                               [Holds("bind", k) EXCEPT !.slot = s, !.now = clock]]
        <3> DEFINE held == [Holds("bind", k) EXCEPT !.slot = s, !.now = clock]
        <3>1. Holds("bind", k) \in Askings /\ Holds("bind", k).row = pairings[k]
            BY HoldsType
        <3>2. clock \in 0..MaxTime /\ pairings[k] \in Row
            BY <1>3 DEF TableType, ApproveLooksUp, Pending
        <3>3. held \in Askings /\ held.row = pairings[k] /\ held.slot = s
            BY <3>1, <3>2 DEF Askings
        <3> HIDE DEF held
        <3>4. admin' = [admin EXCEPT ![a] = held]
            BY <2>2 DEF held
        <3> QED BY <2>2, <3>2, <3>3, <3>4
    <2> QED BY <1>3, <2>1, <2>2 DEF ApproveLooksUp
<1>4. ASSUME NEW a \in Admins, ApproveBinds(a)
      PROVE  AdminType'
    <2> DEFINE held == [admin[a] EXCEPT !.at = "consume", !.slot = NoSlot, !.now = 0]
    <2>1. held \in Askings /\ held.at = "consume"
        <3>1. admin[a] \in Askings
            OBVIOUS
        <3>2. 0 \in 0..MaxTime
            OBVIOUS
        <3>3. held.at = "consume"
            BY <3>1 DEF Askings
        <3>4. held \in Askings
            BY <3>1, <3>2 DEF Askings
        <3> QED BY <3>3, <3>4
    <2>2. admin' = [admin EXCEPT ![a] = held]
        BY <1>4 DEF ApproveBinds
    <2> QED BY <2>1, <2>2
<1>5. ASSUME NEW a \in Admins, ApproveConsumes(a) \/ DenyDeletes(a)
      PROVE  AdminType'
    <2>1. admin' = [admin EXCEPT ![a] = NotAsked]
        BY <1>5 DEF ApproveConsumes, DenyDeletes
    <2> QED BY <2>1, IdleTypes DEF NotAsked
<1>6. ASSUME NEW a \in Admins, NEW k \in Codes, DenyLooksUp(a, k)
      PROVE  AdminType'
    <2>1. admin' = [admin EXCEPT ![a] = Holds("deny", k)]
        BY <1>6 DEF DenyLooksUp
    <2> QED BY <2>1, HoldsType
<1>7. (\E c \in Chats :
          \/ HandleUnauthorized(c) \/ DropPrior(c)
          \/ PickFree(c) \/ PickTaken(c) \/ InsertCode(c)) => UNCHANGED admin
    BY DEF HandleUnauthorized, DropPrior, PickFree, PickTaken, InsertCode
<1>8. Tick \/ ListPairings \/ UNCHANGED vars => UNCHANGED admin
    BY DEF Tick, ListPairings, vars
<1> QED BY <1>1, <1>2, <1>3, <1>4, <1>5, <1>6, <1>7, <1>8, Faults DEF Next

LEMMA HistoryStep ==
    ASSUME TypeInv, [Next]_vars
    PROVE  HistoryType'
<1> USE Bounds DEF TypeInv, HistoryType
<1>1. CASE UNCHANGED historyVars
    BY <1>1 DEF historyVars
<1>2. ASSUME NEW cs \in SUBSET Chats, NEW as \in SUBSET Admins, CutOff(cs, as)
      PROVE  HistoryType'
    <2>1. ASSUME NEW a \in Admins, admin[a].row.nr # 0
          PROVE  admin[a].row.nr \in 1..MaxIssues
        BY <2>1, RowNumber DEF AdminType, Askings
    <2>2. Undeleted(as) \subseteq 1..MaxIssues
        BY <2>1 DEF Undeleted
    <2> QED BY <1>2, <2>2 DEF CutOff
<1>3. ASSUME NEW c \in Chats, InsertCode(c)
      PROVE  HistoryType'
    <2> DEFINE request == [code |-> issuing[c].code, row |-> NewRow(c)]
    <2>1. NewRow(c) \in Row
        BY <1>3, NewRowType DEF InsertCode
    <2>2. request \in Requests
        BY <1>3, <2>1 DEF Requests, InsertCode, IssuingType
    <2>3. requests' = requests \cup {request}
        BY <1>3 DEF InsertCode, NewRow
    <2>4. IsFiniteSet(requests')
        BY <2>3, FS_AddElement
    <2> QED BY <1>3, <2>2, <2>3, <2>4 DEF InsertCode
<1>4. ASSUME NEW a \in Admins, NEW k \in Codes, Contended(a, pairings[k].nr),
             UNCHANGED <<requests, bound, denied, uses>>
      PROVE  HistoryType'
    <2>1. pairings[k].nr # 0 => pairings[k].nr \in 1..MaxIssues
        BY RowNumber DEF TableType
    <2>2. contended' \subseteq contended \cup ({pairings[k].nr} \ {0})
        BY <1>4 DEF Contended
    <2> QED BY <1>4, <2>1, <2>2
<1>5. ASSUME NEW a \in Admins, ApproveBinds(a)
      PROVE  HistoryType'
    <2> DEFINE row == admin[a].row
               binding == [nr |-> row.nr, chat |-> row.chat, asked |-> admin[a].now]
    <2>1. row \in Row /\ admin[a].now \in 0..MaxTime
        BY <1>5 DEF ApproveBinds, AdminType, Askings
    <2>2. row.nr \in 1..MaxIssues /\ row.chat \in Chats
        BY <2>1 DEF Row
    <2>3. binding \in Bindings
        BY <2>1, <2>2 DEF Bindings
    <2>4. bound' = bound \cup {binding} /\ uses' = [uses EXCEPT ![row.nr] = @ + 1]
        BY <1>5 DEF ApproveBinds
    <2>5. uses' \in [1..MaxIssues -> Nat]
        BY <2>2, <2>4
    <2> HIDE DEF binding
    <2> QED BY <1>5, <2>3, <2>4, <2>5 DEF ApproveBinds
<1>6. ASSUME NEW a \in Admins, DenyDeletes(a)
      PROVE  HistoryType'
    <2>1. admin[a].row.nr # 0 => admin[a].row.nr \in 1..MaxIssues
        BY RowNumber DEF AdminType, Askings
    <2> QED BY <1>6, <2>1 DEF DenyDeletes
<1>7. ASSUME NEW a \in Admins, ApproveConsumes(a)
      PROVE  UNCHANGED historyVars
    BY <1>7 DEF ApproveConsumes
<1>8. ASSUME NEW c \in Chats,
             HandleUnauthorized(c) \/ DropPrior(c) \/ PickFree(c) \/ PickTaken(c)
      PROVE  UNCHANGED historyVars
    BY <1>8 DEF HandleUnauthorized, DropPrior, PickFree, PickTaken
<1>9. Tick \/ ListPairings \/ UNCHANGED vars => UNCHANGED historyVars
    BY DEF Tick, ListPairings, vars
<1>10. ASSUME NEW a \in Admins, NEW k \in Codes,
              DenyLooksUp(a, k) \/ \E s \in Slots : ApproveLooksUp(a, k, s)
       PROVE  HistoryType'
    BY <1>4, <1>10 DEF DenyLooksUp, ApproveLooksUp
<1> QED BY <1>1, <1>2, <1>3, <1>5, <1>6, <1>7, <1>8, <1>9, <1>10, Faults DEF Next

LEMMA TypesHold == Spec => []TypeInv
<1>1. Init => TypeInv
    <2> SUFFICES ASSUME Init PROVE TypeInv
        OBVIOUS
    <2> USE Bounds DEF Init
    <2>1. TableType
        BY DEF TableType
    <2>2. IssuingType
        BY IdleTypes DEF IssuingType, NotIssuing
    <2>3. AdminType
        BY IdleTypes DEF AdminType, NotAsked
    <2>4. HistoryType
        BY FS_EmptySet DEF HistoryType
    <2> QED BY <2>1, <2>2, <2>3, <2>4 DEF TypeInv
<1>2. TypeInv /\ [Next]_vars => TypeInv'
    BY TableStep, IssuingStep, AdminStep, HistoryStep DEF TypeInv
<1> QED BY <1>1, <1>2, PTL DEF Spec

\* Every variable keeps its type (issue_code, approve, deny).
THEOREM TypeCorrect == Spec => []TypeOK
<1>1. TypeInv => TypeOK
    <2> SUFFICES ASSUME TypeInv PROVE TypeOK
        OBVIOUS
    <2> USE DEF TypeInv
    <2>1. TableType /\ issuing \in [Chats -> Issuings] /\ admin \in [Admins -> Askings]
        BY DEF IssuingType, AdminType
    <2>2. HistoryType
        OBVIOUS
    <2> QED BY <2>1, <2>2 DEF TypeOK, TableType, HistoryType, Issuings, Askings, Requests, Bindings
<1> QED BY <1>1, TypesHold, PTL

-----------------------------------------------------------------------------
(* One code per chat.                                                      *)

\* Only the dispatcher of a chat inserts a row for it, and from the deletion of the
\* earlier one on there is none.
CleanInv ==
    \A c \in Chats, k \in Codes :
        issuing[c].at \in {"pick", "insert"} => pairings[k].chat # c

RowInv == OneCodePerChat /\ CleanInv

\* Rows are only lost, and nobody becomes sure of having none.
LEMMA RowsAreLost ==
    ASSUME TypeInv, RowInv,
           \A k \in Codes : pairings'[k] \in {pairings[k], NoRow},
           \A c \in Chats : issuing'[c].at \in {"pick", "insert"}
                               => issuing[c].at \in {"pick", "insert"}
    PROVE  RowInv'
<1>1. \A k \in Codes : pairings'[k] # NoRow => pairings'[k] = pairings[k]
    OBVIOUS
<1>2. OneCodePerChat'
    BY <1>1 DEF RowInv, OneCodePerChat, Pending
<1>3. CleanInv'
    BY NoRowFacts, Bounds DEF RowInv, CleanInv
<1> QED BY <1>2, <1>3 DEF RowInv

LEMMA RowStep ==
    ASSUME TypeInv, RowInv, [Next]_vars
    PROVE  RowInv'
<1> USE DEF TypeInv, TableType, IssuingType
<1>1. ASSUME UNCHANGED <<pairings, issuing>>
      PROVE  RowInv'
    BY <1>1 DEF RowInv, OneCodePerChat, CleanInv, Pending
<1>2. CASE ListPairings
    BY <1>2, RowsAreLost DEF ListPairings
<1>3. ASSUME NEW cs \in SUBSET Chats, NEW as \in SUBSET Admins, CutOff(cs, as)
      PROVE  RowInv'
    <2>1. \A c \in Chats : issuing'[c] \in {issuing[c], NotIssuing}
        BY <1>3 DEF CutOff
    <2> QED BY <1>3, <2>1, RowsAreLost DEF CutOff, NotIssuing
<1>4. ASSUME NEW a \in Admins, ApproveConsumes(a) \/ DenyDeletes(a)
      PROVE  RowInv'
    BY <1>4, RowsAreLost DEF ApproveConsumes, AfterApproval, DenyDeletes
<1>5. ASSUME NEW c \in Chats, HandleUnauthorized(c)
      PROVE  RowInv'
    <2>1. issuing'[c].at = "drop" /\ \A d \in Chats \ {c} : issuing'[d] = issuing[d]
        BY <1>5 DEF HandleUnauthorized, Issuings
    <2>2. pairings' = pairings
        BY <1>5 DEF HandleUnauthorized
    <2> QED BY <2>1, <2>2, RowsAreLost
<1>6. ASSUME NEW c \in Chats, PickFree(c) \/ PickTaken(c)
      PROVE  RowInv'
    <2>1. pairings' = pairings /\ issuing[c].at = "pick"
        BY <1>6 DEF PickFree, PickTaken
    <2>2. \A d \in Chats \ {c} : issuing'[d] = issuing[d]
        BY <1>6 DEF PickFree, PickTaken
    <2> QED BY <2>1, <2>2, RowsAreLost
<1>7. ASSUME NEW c \in Chats, DropPrior(c)
      PROVE  RowInv'
    <2>1. pairings' = [k \in Codes |-> IF k \in Prior(c) THEN NoRow ELSE pairings[k]]
        BY <1>7 DEF DropPrior
    <2>2. \A d \in Chats \ {c} : issuing'[d] = issuing[d]
        BY <1>7 DEF DropPrior
    <2>3. \A k \in Codes : pairings'[k] \in {pairings[k], NoRow} /\ pairings'[k].chat # c
        BY <2>1, NoRowFacts, Bounds DEF Prior
    <2>4. OneCodePerChat'
        BY <2>3 DEF RowInv, OneCodePerChat, Pending
    <2>5. CleanInv'
        BY <2>2, <2>3, NoRowFacts, Bounds DEF RowInv, CleanInv
    <2> QED BY <2>4, <2>5 DEF RowInv
<1>8. ASSUME NEW c \in Chats, InsertCode(c)
      PROVE  RowInv'
    <2> DEFINE k == issuing[c].code
    <2>1. k \in Codes /\ pairings' = [pairings EXCEPT ![k] = NewRow(c)]
        BY <1>8 DEF InsertCode, NewRow
    <2>2. issuing' = [issuing EXCEPT ![c] = NotIssuing] /\ issuing[c].at = "insert"
        BY <1>8 DEF InsertCode
    <2>3. NewRow(c).chat = c
        BY DEF NewRow
    <2>4. \A j \in Codes : pairings[j].chat # c
        BY <2>2 DEF RowInv, CleanInv
    <2> HIDE DEF k
    <2>5. OneCodePerChat'
        BY <2>1, <2>3, <2>4 DEF RowInv, OneCodePerChat, Pending
    <2>6. CleanInv'
        BY <2>1, <2>2, <2>3 DEF RowInv, CleanInv, NotIssuing
    <2> QED BY <2>5, <2>6 DEF RowInv
<1>9. Tick \/ UNCHANGED vars => UNCHANGED <<pairings, issuing>>
    BY DEF Tick, vars
<1>10. (\E a \in Admins :
           \/ \E k \in Codes : DenyLooksUp(a, k) \/ \E s \in Slots : ApproveLooksUp(a, k, s)
           \/ ApproveBinds(a)) => UNCHANGED <<pairings, issuing>>
    BY DEF DenyLooksUp, ApproveLooksUp, ApproveBinds
<1> QED BY <1>1, <1>2, <1>3, <1>4, <1>5, <1>6, <1>7, <1>8, <1>9, <1>10, Faults DEF Next

\* A chat has one active code at most, whatever dispatchers, admins and restarts do
\* (issue_code, pairing.rs:18-21).
THEOREM OneActiveCode == Spec => []OneCodePerChat
<1>1. Init => RowInv
    BY DEF Init, RowInv, OneCodePerChat, CleanInv, Pending, NotIssuing
<1>2. TypeInv /\ RowInv /\ [Next]_vars => RowInv'
    BY RowStep
<1>3. RowInv => OneCodePerChat
    BY DEF RowInv
<1> QED BY <1>1, <1>2, <1>3, TypesHold, PTL DEF Spec

-----------------------------------------------------------------------------
(* Bound by an own, live code.                                             *)

Issued(row) == \E r \in requests : r.row = row

\* Every row, in the table or in the hands of who binds, has been issued; who binds
\* has found it alive.
IssuedInv ==
    /\ \A k \in Codes : Pending(k) => Issued(pairings[k])
    /\ \A a \in Admins : admin[a].at = "bind" =>
          Issued(admin[a].row) /\ admin[a].now < admin[a].row.expires

BoundInv == IssuedInv /\ BoundByOwnLiveCode

\* No request is forgotten.
LEMMA RequestsGrow ==
    ASSUME [Next]_vars
    PROVE  requests \subseteq requests'
<1>1. ASSUME NEW c \in Chats, InsertCode(c) PROVE requests \subseteq requests'
    BY <1>1 DEF InsertCode
<1>2. CASE requests' = requests
    BY <1>2
<1> QED
    BY <1>1, <1>2
    DEF Next, vars, historyVars, Tick, ListPairings, Crash, IssueFails, AskFails, CutOff,
        HandleUnauthorized, DropPrior, PickFree, PickTaken, DenyLooksUp, ApproveLooksUp,
        ApproveBinds, ApproveConsumes, DenyDeletes

LEMMA IssuedStep ==
    ASSUME TypeInv, IssuedInv, [Next]_vars
    PROVE  IssuedInv'
<1> USE DEF TypeInv, TableType, AdminType, IssuedInv
<1>1. \A row : Issued(row) => Issued(row)'
    <2>1. requests \subseteq requests'
        BY RequestsGrow
    <2> QED BY <2>1 DEF Issued
<1>2. ASSUME \A k \in Codes : pairings'[k] \in {pairings[k], NoRow},
             \A a \in Admins : admin'[a].at = "bind" => admin'[a] = admin[a]
      PROVE  IssuedInv'
    BY <1>1, <1>2 DEF Pending
<1>3. CASE Tick \/ UNCHANGED vars
    BY <1>2, <1>3 DEF Tick, vars
<1>4. CASE ListPairings
    BY <1>2, <1>4 DEF ListPairings
<1>5. ASSUME NEW cs \in SUBSET Chats, NEW as \in SUBSET Admins, CutOff(cs, as)
      PROVE  IssuedInv'
    BY <1>2, <1>5 DEF CutOff, NotAsked
<1>6. ASSUME NEW c \in Chats,
             HandleUnauthorized(c) \/ DropPrior(c) \/ PickFree(c) \/ PickTaken(c)
      PROVE  IssuedInv'
    BY <1>2, <1>6 DEF HandleUnauthorized, DropPrior, PickFree, PickTaken
<1>7. ASSUME NEW c \in Chats, InsertCode(c)
      PROVE  IssuedInv'
    <2>1. pairings' = [pairings EXCEPT ![issuing[c].code] = NewRow(c)] /\ admin' = admin
        BY <1>7 DEF InsertCode, NewRow
    <2> DEFINE row == NewRow(c)
               k == issuing[c].code
    <2>2. PICK r \in requests' : r.row = row
        <3>1. requests' = requests \cup {[code |-> k, row |-> row]}
            BY <1>7 DEF InsertCode, NewRow
        <3> HIDE DEF row, k
        <3>2. [code |-> k, row |-> row].row = row
            OBVIOUS
        <3> QED BY <3>1, <3>2
    <2>3. pairings' = [pairings EXCEPT ![k] = row]
        BY <2>1
    <2> HIDE DEF row, k
    <2>4. ASSUME NEW j \in Codes, pairings'[j] # NoRow
          PROVE  \E q \in requests' : q.row = pairings'[j]
        <3>1. CASE j = k
            BY <2>2, <2>3, <3>1
        <3>2. CASE j # k
            <4>1. Issued(pairings[j]) /\ pairings'[j] = pairings[j]
                BY <2>3, <2>4, <3>2 DEF Pending
            <4> QED BY <1>1, <4>1 DEF Issued
        <3> QED BY <3>1, <3>2
    <2> QED BY <1>1, <2>1, <2>4 DEF Pending, Issued
<1>8. ASSUME NEW a \in Admins, NEW k \in Codes, NEW s \in Slots, ApproveLooksUp(a, k, s)
      PROVE  IssuedInv'
    <2>1. CASE admin' = [admin EXCEPT ![a] = Holds("consume", k)]
        BY <1>2, <1>8, <2>1 DEF ApproveLooksUp, Holds
    <2>2. CASE /\ ~IsExpired(pairings[k], clock)
               /\ admin' = [admin EXCEPT ![a] =
                               [Holds("bind", k) EXCEPT !.slot = s, !.now = clock]]
        <3>1. admin'[a].row = pairings[k] /\ admin'[a].now = clock
            BY <2>2 DEF Holds
        <3>2. pairings' = pairings /\ \A b \in Admins \ {a} : admin'[b] = admin[b]
            BY <1>8, <2>2 DEF ApproveLooksUp
        <3>3. Issued(pairings[k])
            BY <1>8 DEF ApproveLooksUp
        <3>4. pairings[k] \in Row
            BY <1>8 DEF ApproveLooksUp, Pending
        <3>5. clock < pairings[k].expires
            BY <2>2, <3>4, Bounds DEF IsExpired, Row
        <3> QED BY <1>1, <3>1, <3>2, <3>3, <3>5 DEF Pending
    <2> QED BY <1>8, <2>1, <2>2 DEF ApproveLooksUp
<1>9. ASSUME NEW a \in Admins, NEW k \in Codes, DenyLooksUp(a, k)
      PROVE  IssuedInv'
    BY <1>2, <1>9 DEF DenyLooksUp, Holds
<1>10. ASSUME NEW a \in Admins, ApproveBinds(a)
       PROVE  IssuedInv'
    <2>1. admin'[a].at = "consume" /\ \A b \in Admins \ {a} : admin'[b] = admin[b]
        BY <1>10 DEF ApproveBinds, Askings
    <2> QED BY <1>2, <1>10, <2>1 DEF ApproveBinds
<1>11. ASSUME NEW a \in Admins, ApproveConsumes(a) \/ DenyDeletes(a)
       PROVE  IssuedInv'
    BY <1>2, <1>11 DEF ApproveConsumes, AfterApproval, DenyDeletes, NotAsked
<1> QED BY <1>3, <1>4, <1>5, <1>6, <1>7, <1>8, <1>9, <1>10, <1>11, Faults
        DEF Next

LEMMA BoundStep ==
    ASSUME TypeInv, IssuedInv, BoundByOwnLiveCode, [Next]_vars
    PROVE  BoundByOwnLiveCode'
<1> USE DEF TypeInv
<1>1. requests \subseteq requests'
    BY RequestsGrow
<1>2. ASSUME NEW a \in Admins, ApproveBinds(a)
      PROVE  BoundByOwnLiveCode'
    <2> DEFINE row == admin[a].row
               binding == [nr |-> row.nr, chat |-> row.chat, asked |-> admin[a].now]
    <2>1. row \in Row /\ Issued(row) /\ admin[a].now < row.expires
        BY <1>2 DEF ApproveBinds, AdminType, IssuedInv
    <2>2. PICK r \in requests : r.row = row
        BY <2>1 DEF Issued
    <2>3. bound' = bound \cup {binding} /\ allowed' = [allowed EXCEPT ![row.chat] = admin[a].slot]
        BY <1>2 DEF ApproveBinds
    <2>4. binding.chat = row.chat /\ binding.nr = row.nr /\ binding.asked = admin[a].now
        OBVIOUS
    <2> HIDE DEF binding
    <2>5. \A c \in Chats : allowed'[c] # NoSlot => \E b \in bound' : b.chat = c
        BY <2>3, <2>4 DEF TableType, BoundByOwnLiveCode
    <2>6. \A b \in bound' : \E q \in requests' :
             q.row.nr = b.nr /\ q.row.chat = b.chat /\ b.asked < q.row.expires
        BY <1>1, <2>1, <2>2, <2>3, <2>4 DEF BoundByOwnLiveCode
    <2> QED BY <2>5, <2>6 DEF BoundByOwnLiveCode
<1>3. UNCHANGED <<allowed, bound>> \/ \E a \in Admins : ApproveBinds(a)
    BY DEF Next, vars, historyVars, Tick, ListPairings, Crash, IssueFails, AskFails, CutOff,
           HandleUnauthorized, DropPrior, PickFree, PickTaken, InsertCode, DenyLooksUp,
           ApproveLooksUp, ApproveConsumes, DenyDeletes
<1>4. CASE UNCHANGED <<allowed, bound>>
    BY <1>1, <1>4 DEF BoundByOwnLiveCode
<1> QED BY <1>2, <1>3, <1>4

\* A chat is bound only through an approval of a code issued to it that had not
\* expired, whatever is deleted, replaced or issued again meanwhile (approve,
\* pairing.rs:107-136).
THEOREM BoundByOwnCode == Spec => []BoundByOwnLiveCode
<1>1. Init => BoundInv
    BY DEF Init, BoundInv, IssuedInv, BoundByOwnLiveCode, Pending, NotAsked
<1>2. TypeInv /\ BoundInv /\ [Next]_vars => BoundInv'
    BY IssuedStep, BoundStep DEF BoundInv
<1>3. BoundInv => BoundByOwnLiveCode
    BY DEF BoundInv
<1> QED BY <1>1, <1>2, <1>3, TypesHold, PTL DEF Spec

-----------------------------------------------------------------------------
(* Single use.                                                             *)

\* The numbers of the row of a code and of the one in the hands of a connection, 0
\* for none.
Nr(k) == pairings[k].nr
Held(a) == admin[a].row.nr

Issues == Cardinality(requests)

\* A code that has bound a chat, or has been reported denied.
Spent(n) == uses[n] # 0 \/ n \in denied

\* A number is given once: it is of one row, and of the code under which a
\* connection found it.
NumberedInv ==
    /\ \A r \in requests : r.row.nr <= Issues
    /\ \A k \in Codes : Nr(k) <= Issues
    /\ \A a \in Admins : Held(a) <= Issues
    /\ \A n \in 1..MaxIssues : Spent(n) => n <= Issues
    /\ \A j, k \in Codes : Nr(j) # 0 /\ Nr(j) = Nr(k) => j = k
    /\ \A a \in Admins, k \in Codes : Held(a) # 0 /\ Nr(k) = Held(a) => k = admin[a].code

\* What is in the hands of one connection has not been denied, nor used if it is
\* still to bind or to deny; and the row of what is spent is about to be deleted.
Careful(n) ==
    /\ \A a, b \in Admins : Held(a) = n /\ Held(b) = n => a = b
    /\ \A a \in Admins : Held(a) = n =>
          n \notin denied /\ (admin[a].at \in {"bind", "deny"} => uses[n] = 0)
    /\ Spent(n) => \A k \in Codes : Nr(k) = n =>
          \E a \in Admins : Held(a) = n /\ admin[a].at = "consume"
    /\ uses[n] <= 1 /\ (n \in denied => uses[n] = 0)

SingleInv == \A n \in (1..MaxIssues) \ contended : Careful(n)

UseInv == NumberedInv /\ SingleInv

\* Numbers are numbers, and who binds has one.
LEMMA NumberTypes ==
    ASSUME TypeInv
    PROVE  /\ Issues \in Nat
           /\ \A k \in Codes : Nr(k) \in 0..MaxIssues
           /\ \A a \in Admins : Held(a) \in 0..MaxIssues
           /\ \A a \in Admins : admin[a].at = "bind" => Held(a) # 0
<1>1. Issues \in Nat
    BY FS_CardinalityType DEF TypeInv, HistoryType, Issues
<1>2. \A k \in Codes : Nr(k) \in 0..MaxIssues
    BY RowNumber DEF TypeInv, TableType, Nr
<1>3. \A a \in Admins : Held(a) \in 0..MaxIssues
    BY RowNumber DEF TypeInv, AdminType, Askings, Held
<1>4. \A a \in Admins : admin[a].at = "bind" => Held(a) # 0
    BY Bounds DEF TypeInv, AdminType, Held, Row
<1> QED BY <1>1, <1>2, <1>3, <1>4

\* Rows are only lost, and nothing else happens to them.
LEMMA LostRows ==
    ASSUME TypeInv, UseInv, \A k \in Codes : Nr(k)' \in {Nr(k), 0},
           UNCHANGED <<admin, requests, denied, uses, contended>>
    PROVE  UseInv'
<1>1. /\ \A a \in Admins : Held(a)' = Held(a) /\ admin'[a] = admin[a]
      /\ \A n : Spent(n)' = Spent(n)
      /\ Issues' = Issues /\ Issues \in Nat
    BY NumberTypes DEF Held, Spent, Issues
<1>2. NumberedInv'
    BY <1>1 DEF UseInv, NumberedInv
<1>3. SingleInv'
    BY <1>1 DEF UseInv, SingleInv, Careful
<1> QED BY <1>2, <1>3 DEF UseInv

\* A connection takes the row of a code in its hands.
LEMMA Taken ==
    ASSUME TypeInv, UseInv, NEW a \in Admins, NEW k \in Codes,
           admin[a] = NotAsked, Held(a)' = Nr(k), admin'[a].code = k,
           \A b \in Admins \ {a} : admin'[b] = admin[b],
           Contended(a, Nr(k)),
           UNCHANGED <<pairings, requests, denied, uses>>
    PROVE  UseInv'
<1>1. /\ \A b \in Admins \ {a} : Held(b)' = Held(b) /\ admin'[b] = admin[b]
      /\ \A n : Spent(n)' = Spent(n)
      /\ \A j \in Codes : Nr(j)' = Nr(j)
      /\ Issues' = Issues
      /\ Held(a) = 0
    BY DEF Held, Spent, Nr, Issues, NotAsked, NoRow
<1>2. NumberedInv'
    BY <1>1 DEF UseInv, NumberedInv
<1>3. ASSUME NEW n \in (1..MaxIssues) \ contended' PROVE Careful(n)'
    <2>1. Careful(n) /\ n # 0 /\ n \notin contended
        BY Bounds DEF UseInv, SingleInv, Contended
    <2>2. CASE n # Nr(k)
        BY <1>1, <2>1, <2>2 DEF Careful
    <2>3. CASE n = Nr(k)
        <3>1. \A b \in Admins \ {a} : Held(b) # n
            BY <2>1, <2>3 DEF Contended, Held
        <3>2. ~Spent(n)
            BY <1>1, <2>1, <2>3, <3>1 DEF Careful
        <3> QED BY <1>1, <2>1, <3>1, <3>2 DEF Careful, Spent
    <2> QED BY <2>2, <2>3
<1> QED BY <1>2, <1>3 DEF UseInv, SingleInv

\* Every step keeps it: what would break it makes the code contended.
LEMMA UseStep ==
    ASSUME TypeInv, UseInv, [Next]_vars
    PROVE  UseInv'
<1> USE DEF TypeInv, TableType, AdminType, HistoryType
<1>1. CASE UNCHANGED vars
    BY <1>1, LostRows DEF vars, historyVars, Nr
<1>2. CASE Tick \/ ListPairings
    BY <1>2, LostRows, NoRowFacts DEF Tick, ListPairings, historyVars, Nr
<1>3. ASSUME NEW cs \in SUBSET Chats, NEW as \in SUBSET Admins, CutOff(cs, as)
      PROVE  UseInv'
    <2>1. /\ \A n : Spent(n)' = Spent(n)
          /\ \A k \in Codes : Nr(k)' = Nr(k)
          /\ Issues' = Issues /\ Issues \in Nat
          /\ UNCHANGED <<pairings, requests, denied, uses>>
        BY <1>3, NumberTypes DEF CutOff, Spent, Nr, Issues
    <2>2. ASSUME NEW a \in Admins
          PROVE  IF a \in as THEN Held(a)' = 0 ELSE Held(a)' = Held(a) /\ admin'[a] = admin[a]
        BY <1>3 DEF CutOff, NotAsked, NoRow, Held
    <2>3. NumberedInv'
        <3>0. ASSUME NEW a \in Admins
              PROVE  /\ Held(a) <= Issues
                     /\ \A k \in Codes : Held(a) # 0 /\ Nr(k) = Held(a) => k = admin[a].code
            BY DEF UseInv, NumberedInv
        <3>1. \A a \in Admins : Held(a)' <= Issues
            <4>1. 0 <= Issues
                BY <2>1
            <4> QED BY <2>2, <3>0, <4>1
        <3>2. \A a \in Admins, k \in Codes :
                 Held(a)' # 0 /\ Nr(k)' = Held(a)' => k = admin'[a].code
            BY <2>1, <2>2, <3>0
        <3>3. /\ \A r \in requests' : r.row.nr <= Issues
              /\ \A k \in Codes : Nr(k)' <= Issues
              /\ \A n \in 1..MaxIssues : Spent(n)' => n <= Issues
              /\ \A j, k \in Codes : Nr(j)' # 0 /\ Nr(j)' = Nr(k)' => j = k
            BY <2>1 DEF UseInv, NumberedInv
        <3> QED BY <2>1, <3>1, <3>2, <3>3 DEF NumberedInv
    <2>4. ASSUME NEW n \in (1..MaxIssues) \ contended' PROVE Careful(n)'
        <3>0. n \in (1..MaxIssues) \ contended
            BY <1>3, <2>4 DEF CutOff
        <3>1. Careful(n) /\ n # 0
            <4>1. n # 0
                BY Bounds
            <4> QED BY <3>0, <4>1 DEF UseInv, SingleInv
        <3>2. \A a \in as : admin[a].at = "consume" => Held(a) # n
            BY <1>3, <3>1 DEF CutOff, Undeleted, Held
        <3>3. \A a, b \in Admins : Held(a)' = n /\ Held(b)' = n => a = b
            BY <2>2, <3>1 DEF Careful
        <3>4. \A a \in Admins : Held(a)' = n =>
                 n \notin denied' /\ (admin'[a].at \in {"bind", "deny"} => uses'[n] = 0)
            BY <2>1, <2>2, <3>1 DEF Careful
        <3>5. Spent(n)' => \A k \in Codes : Nr(k)' = n =>
                 \E a \in Admins : Held(a)' = n /\ admin'[a].at = "consume"
            BY <2>1, <2>2, <3>1, <3>2 DEF Careful
        <3> QED BY <2>1, <3>1, <3>3, <3>4, <3>5 DEF Careful
    <2> QED BY <2>3, <2>4 DEF UseInv, SingleInv
<1>4. ASSUME NEW c \in Chats,
             HandleUnauthorized(c) \/ DropPrior(c) \/ PickFree(c) \/ PickTaken(c)
      PROVE  UseInv'
    BY <1>4, LostRows, NoRowFacts
       DEF HandleUnauthorized, DropPrior, PickFree, PickTaken, historyVars, Nr
<1>5. ASSUME NEW c \in Chats, InsertCode(c)
      PROVE  UseInv'
    <2>1. PICK k \in Codes : k = issuing[c].code
        BY <1>5 DEF InsertCode, IssuingType
    <2>2. PICK row \in Row : row = NewRow(c)
        BY <1>5, NewRowType DEF InsertCode
    <2>3. /\ pairings' = [pairings EXCEPT ![k] = row]
          /\ requests' = requests \cup {[code |-> k, row |-> row]}
          /\ UNCHANGED <<admin, denied, uses, contended>>
        BY <1>5, <2>1, <2>2 DEF InsertCode, NewRow
    <2>4. row.nr = Issues + 1 /\ Issues \in Nat
        BY <2>2, NumberTypes DEF NewRow, Issues
    <2>5. [code |-> k, row |-> row] \notin requests
        BY <2>4 DEF UseInv, NumberedInv
    <2>6. Issues' = Issues + 1
        BY <2>3, <2>5, FS_AddElement DEF Issues
    <2>7. /\ Nr(k)' = Issues + 1 /\ \A j \in Codes \ {k} : Nr(j)' = Nr(j)
          /\ \A a \in Admins : Held(a)' = Held(a) /\ admin'[a] = admin[a]
          /\ \A n : Spent(n)' = Spent(n)
        BY <2>3, <2>4 DEF Nr, Held, Spent
    <2>8. NumberedInv'
        <3>1. \A r \in requests' : r.row.nr <= Issues + 1
            <4>1. \A r \in requests : r.row.nr \in Nat /\ r.row.nr <= Issues
                BY Bounds DEF UseInv, NumberedInv, Requests, Row
            <4>2. \A r \in requests : r.row.nr <= Issues + 1
                BY <2>4, <4>1
            <4>3. [code |-> k, row |-> row].row.nr <= Issues + 1
                BY <2>4
            <4> QED BY <2>3, <4>2, <4>3
        <3>2. /\ \A j \in Codes : Nr(j) \in Nat /\ Nr(j) <= Issues
              /\ \A a \in Admins : Held(a) \in Nat /\ Held(a) <= Issues
            BY NumberTypes, Bounds DEF UseInv, NumberedInv
        <3>3. \A n \in 1..MaxIssues : Spent(n) => n <= Issues + 1
            BY <2>4 DEF UseInv, NumberedInv
        <3>4. /\ \A j \in Codes : Nr(j)' <= Issues + 1
              /\ \A a \in Admins : Held(a)' <= Issues + 1
            BY <2>4, <2>7, <3>2
        <3>5. \A i, j \in Codes : Nr(i)' # 0 /\ Nr(i)' = Nr(j)' => i = j
            BY <2>4, <2>7, <3>2 DEF UseInv, NumberedInv
        <3>6. \A a \in Admins, j \in Codes :
                 Held(a)' # 0 /\ Nr(j)' = Held(a)' => j = admin'[a].code
            BY <2>4, <2>7, <3>2 DEF UseInv, NumberedInv
        <3> QED BY <2>6, <2>7, <3>1, <3>3, <3>4, <3>5, <3>6 DEF NumberedInv
    <2>9. ASSUME NEW n \in (1..MaxIssues) \ contended' PROVE Careful(n)'
        <3>1. Careful(n)
            BY <2>3 DEF UseInv, SingleInv
        <3>2. n = Issues + 1 => ~Spent(n)
            BY <2>4 DEF UseInv, NumberedInv
        <3> QED BY <2>3, <2>7, <3>1, <3>2 DEF Careful
    <2> QED BY <2>8, <2>9 DEF UseInv, SingleInv
<1>6. ASSUME NEW a \in Admins, NEW k \in Codes, DenyLooksUp(a, k)
      PROVE  UseInv'
    <2>1. admin' = [admin EXCEPT ![a] = Holds("deny", k)]
        BY <1>6 DEF DenyLooksUp
    <2>2. /\ Held(a)' = Nr(k) /\ admin'[a].code = k
          /\ \A b \in Admins \ {a} : admin'[b] = admin[b]
        BY <2>1, HoldsType DEF Held, Nr
    <2> QED BY <1>6, <2>2, Taken DEF DenyLooksUp, Nr
<1>7. ASSUME NEW a \in Admins, NEW k \in Codes, NEW s \in Slots, ApproveLooksUp(a, k, s)
      PROVE  UseInv'
    <2>1. \/ admin' = [admin EXCEPT ![a] = Holds("consume", k)]
          \/ admin' = [admin EXCEPT ![a] = [Holds("bind", k) EXCEPT !.slot = s, !.now = clock]]
        BY <1>7 DEF ApproveLooksUp
    <2>2. /\ Held(a)' = Nr(k) /\ admin'[a].code = k
          /\ \A b \in Admins \ {a} : admin'[b] = admin[b]
        <3>1. \A b \in Admins \ {a} : admin'[b] = admin[b]
            BY <2>1
        <3>2. CASE admin' = [admin EXCEPT ![a] = Holds("consume", k)]
            BY <3>1, <3>2 DEF Held, Nr, Holds
        <3>3. CASE admin' = [admin EXCEPT ![a] =
                                [Holds("bind", k) EXCEPT !.slot = s, !.now = clock]]
            <4> DEFINE held == [Holds("bind", k) EXCEPT !.slot = s, !.now = clock]
            <4>1. held.row = pairings[k] /\ held.code = k
                BY DEF Holds
            <4>2. admin'[a] = held
                BY <3>3
            <4> QED BY <3>1, <4>1, <4>2 DEF Held, Nr
        <3> QED BY <2>1, <3>1, <3>2, <3>3
    <2> QED BY <1>7, <2>2, Taken DEF ApproveLooksUp, Nr
<1>8. ASSUME NEW a \in Admins, ApproveBinds(a)
      PROVE  UseInv'
    <2>1. PICK m \in 1..MaxIssues : m = Held(a)
        BY <1>8, NumberTypes DEF ApproveBinds
    <2>2. /\ uses' = [uses EXCEPT ![m] = @ + 1] /\ admin[a].at = "bind"
          /\ UNCHANGED <<pairings, requests, denied, contended>>
        BY <1>8, <2>1 DEF ApproveBinds, Held
    <2>3. /\ Held(a)' = Held(a) /\ admin'[a].at = "consume" /\ admin'[a].code = admin[a].code
          /\ \A b \in Admins \ {a} : admin'[b] = admin[b] /\ Held(b)' = Held(b)
        BY <1>8 DEF ApproveBinds, Held, Askings
    <2>4. /\ \A k \in Codes : Nr(k)' = Nr(k)
          /\ Issues' = Issues
          /\ \A n \in 1..MaxIssues : n # m => (Spent(n)' <=> Spent(n)) /\ uses'[n] = uses[n]
        BY <2>2 DEF Nr, Issues, Spent
    <2>5. NumberedInv'
        <3>1. \A b \in Admins : Held(b)' = Held(b) /\ admin'[b].code = admin[b].code
            BY <2>3
        <3>2. m <= Issues
            BY <2>1 DEF UseInv, NumberedInv
        <3>3. \A n \in 1..MaxIssues : Spent(n)' => n <= Issues
            BY <2>4, <3>2 DEF UseInv, NumberedInv
        <3> QED BY <2>2, <2>4, <3>1, <3>3 DEF UseInv, NumberedInv
    <2>6. ASSUME NEW n \in (1..MaxIssues) \ contended' PROVE Careful(n)'
        <3>1. Careful(n)
            BY <2>2 DEF UseInv, SingleInv
        <3>2. CASE n # m
            BY <2>1, <2>2, <2>3, <2>4, <3>1, <3>2 DEF Careful
        <3>3. CASE n = m
            <4>1. uses'[n] = 1 /\ n \notin denied
                BY <2>1, <2>2, <3>1, <3>3 DEF Careful
            <4> QED BY <2>1, <2>2, <2>3, <2>4, <3>1, <3>3, <4>1 DEF Careful
        <3> QED BY <3>2, <3>3
    <2> QED BY <2>5, <2>6 DEF UseInv, SingleInv
<1>9. ASSUME NEW a \in Admins, ApproveConsumes(a) \/ DenyDeletes(a)
      PROVE  UseInv'
    <2>1. PICK m \in 0..MaxIssues : m = Held(a)
        BY NumberTypes
    <2>2. /\ pairings' = [pairings EXCEPT ![admin[a].code] = NoRow]
          /\ denied' \subseteq denied \cup ({m} \ {0}) /\ denied \subseteq denied'
          /\ admin[a].at # "deny" => denied' = denied
          /\ admin[a].at \in {"consume", "deny"}
          /\ UNCHANGED <<requests, uses, contended>>
        BY <1>9, <2>1 DEF ApproveConsumes, AfterApproval, DenyDeletes, historyVars, Held
    <2>3. /\ Held(a)' = 0
          /\ \A b \in Admins \ {a} : admin'[b] = admin[b] /\ Held(b)' = Held(b)
        BY <1>9 DEF ApproveConsumes, DenyDeletes, Held, NotAsked, NoRow
    <2>4. /\ \A k \in Codes : Nr(k)' \in {Nr(k), 0} /\ (m # 0 => Nr(k)' # m)
          /\ Issues' = Issues /\ Issues \in Nat
          /\ \A n \in 1..MaxIssues : n # m => (Spent(n)' <=> Spent(n))
        <3>1. \A k \in Codes : Nr(k)' = IF k = admin[a].code THEN 0 ELSE Nr(k)
            BY <2>2, NoRowFacts DEF Nr
        <3>2. \A k \in Codes : m # 0 /\ Nr(k) = m => k = admin[a].code
            BY <2>1 DEF UseInv, NumberedInv
        <3>3. Issues' = Issues /\ Issues \in Nat
            BY <2>2, NumberTypes DEF Issues
        <3>4. \A n \in 1..MaxIssues : n # m => (Spent(n)' <=> Spent(n))
            BY <2>2 DEF Spent
        <3> QED BY <3>1, <3>2, <3>3, <3>4
    <2>5. m # 0 => m <= Issues
        BY <2>1 DEF UseInv, NumberedInv
    <2>6. NumberedInv'
        BY <2>2, <2>3, <2>4, <2>5 DEF UseInv, NumberedInv
    <2>7. ASSUME NEW n \in (1..MaxIssues) \ contended' PROVE Careful(n)'
        <3>1. Careful(n) /\ n # 0
            BY <2>2, Bounds DEF UseInv, SingleInv
        <3>2. CASE n # m
            BY <2>1, <2>2, <2>3, <2>4, <3>1, <3>2 DEF Careful
        <3>3. CASE n = m
            <4>1. \A b \in Admins : Held(b)' # n
                BY <2>1, <2>3, <3>1, <3>3 DEF Careful
            <4>2. \A k \in Codes : Nr(k)' # n
                BY <2>4, <3>1, <3>3
            <4>3. uses'[n] = uses[n] /\ uses[n] <= 1 /\ (n \in denied' => uses[n] = 0)
                BY <2>1, <2>2, <3>1, <3>3 DEF Careful
            <4> QED BY <4>1, <4>2, <4>3 DEF Careful
        <3> QED BY <3>2, <3>3
    <2> QED BY <2>6, <2>7 DEF UseInv, SingleInv
<1> QED BY <1>1, <1>2, <1>3, <1>4, <1>5, <1>6, <1>7, <1>8, <1>9, Faults DEF Next

\* A code binds once at most, and what was reported denied never binds, whatever is
\* issued, replaced, purged or interrupted meanwhile, unless two admins have had it
\* in their hands at once, or one was cut off by a crash or an error before it could
\* delete it (approve and deny, pairing.rs:107-144).
THEOREM SingleUse == Spec => []SingleUseUnlessContended
<1>1. Init => UseInv
    <2> SUFFICES ASSUME Init PROVE UseInv
        OBVIOUS
    <2>1. requests = {} /\ Issues = 0 /\ \A n \in 1..MaxIssues : ~Spent(n) /\ uses[n] = 0
        BY FS_EmptySet DEF Init, Issues, Spent
    <2>2. /\ \A k \in Codes : Nr(k) = 0
          /\ \A a \in Admins : Held(a) = 0
        BY DEF Init, Nr, Held, NotAsked, NoRow
    <2>3. NumberedInv
        BY <2>1, <2>2 DEF NumberedInv
    <2>4. SingleInv
        BY <2>1, <2>2, Bounds DEF SingleInv, Careful, Init
    <2> QED BY <2>3, <2>4 DEF UseInv
<1>2. TypeInv /\ UseInv /\ [Next]_vars => UseInv'
    BY UseStep
<1>3. UseInv => SingleUseUnlessContended
    BY DEF UseInv, SingleInv, Careful, SingleUseUnlessContended
<1> QED BY <1>1, <1>2, <1>3, TypesHold, PTL DEF Spec

-----------------------------------------------------------------------------
(* The store (Migrations).                                                 *)

\* The statements of migrate, in their order.
Statement(k) ==
    CASE k = 1 -> S!Create("routing")
      [] k = 2 -> S!Create("allowed_users")
      [] k = 3 -> S!Create("pending_pairings")
      [] k = 4 -> S!Create("pending_approvals")
      [] k = 5 -> S!Drop("slots")
      [] k = 6 -> S!Create("user_settings")
      [] k = 7 -> S!Stamp

\* Statements, of that list or not.
Statements == [op : {"create", "drop", "stamp"}, table : S!Current \cup {"slots", "none"}]

\* Of a process that has still to run s, how many statements it is past.
Done(s) == 7 - Len(s)

\* What is left to run is the end of the list.
Left(s) == Len(s) <= 7 /\ \A j \in 1..Len(s) : s[j] = Statement(Done(s) + j)

\* The effect of a statement, and of the first k, is there, whoever ran them.
Ran(st) ==
    /\ st.op = "create" => st.table \in tables
    /\ st.op = "drop" => st.table \notin tables
    /\ st.op = "stamp" => user_version = S!SCHEMA_VERSION

Effect(k) == \A j \in 1..k : Ran(Statement(j))

\* How many of the statements a database of version v does not need.
Past(v) == IF v < 1 THEN 0 ELSE IF v < 3 THEN 4 ELSE IF v < 4 THEN 5 ELSE 6

\* The database, and the processes that open it.
SchemaType ==
    /\ user_version \in 0..4 /\ starts \in [Processes -> 0..MaxStarts]
    /\ tables \subseteq S!Current \cup {"slots"}
    /\ pc \in [Processes -> {"down", "migrating", "open"}]
    /\ todo \in [Processes -> Seq(Statements)]

\* The version never claims more than is there, nor does a process that is past a
\* statement, although another may have started it again.
Migrated ==
    /\ Effect(Past(user_version))
    /\ \A p \in Processes :
          /\ pc[p] = "migrating" => Left(todo[p]) /\ Effect(Done(todo[p]))
          /\ pc[p] = "open" => Effect(7)

SchemaInv == SchemaType /\ Migrated

\* migrate runs what the version lacks, and that is the end of the list.
LEMMA StepsAreLeft ==
    ASSUME NEW v \in 0..4
    PROVE  S!Steps(v) \in Seq(Statements) /\ Left(S!Steps(v)) /\ Done(S!Steps(v)) = Past(v)
<1>1. /\ \A t \in S!Current \cup {"slots"} : S!Create(t) \in Statements /\ S!Drop(t) \in Statements
      /\ S!Stamp \in Statements
    BY DEF Statements, S!Create, S!Drop, S!Stamp
<1>2. CASE v = 0
    BY <1>1, <1>2 DEF S!Steps, Left, Done, Statement, Past, S!Current, S!Core
<1>3. CASE v \in {1, 2}
    BY <1>1, <1>3 DEF S!Steps, Left, Done, Statement, Past, S!Current, S!Core
<1>4. CASE v = 3
    BY <1>1, <1>4 DEF S!Steps, Left, Done, Statement, Past, S!Current, S!Core
<1>5. CASE v = 4
    BY <1>1, <1>5 DEF S!Steps, Left, Done, Statement, Past, S!Current, S!Core
<1> QED BY <1>2, <1>3, <1>4, <1>5

\* What follows the first of what is left is left.
LEMMA TailIsLeft ==
    ASSUME NEW s \in Seq(Statements), s # <<>>, Left(s)
    PROVE  /\ Tail(s) \in Seq(Statements) /\ Left(Tail(s)) /\ Done(Tail(s)) = Done(s) + 1
           /\ Done(s) \in 0..6 /\ Head(s) = Statement(Done(s) + 1)
<1>1. Len(s) \in Nat /\ Len(s) # 0 /\ Tail(s) \in Seq(Statements) /\ Len(Tail(s)) = Len(s) - 1
    OBVIOUS
<1>2. \A j \in 1..Len(Tail(s)) : Tail(s)[j] = s[j + 1]
    OBVIOUS
<1>3. Len(s) <= 7 /\ \A j \in 1..Len(s) : s[j] = Statement(Done(s) + j)
    BY DEF Left
<1>4. Done(s) \in 0..6 /\ Done(Tail(s)) = Done(s) + 1
    BY <1>1, <1>3, SMTT(30) DEF Done
<1>5. Head(s) = Statement(Done(s) + 1)
    BY <1>1, <1>3
<1>6. Left(Tail(s))
    BY <1>1, <1>2, <1>3 DEF Left, Done
<1> QED BY <1>1, <1>4, <1>5, <1>6

\* Six statements at most have nothing to do.
LEMMA PastType == ASSUME NEW v \in 0..4 PROVE Past(v) \in 0..6
BY DEF Past

\* A statement creates a table of the current schema, drops slots, or is the last.
LEMMA StatementKinds ==
    ASSUME NEW k \in 1..7
    PROVE  \/ \E t \in S!Current : Statement(k) = S!Create(t)
           \/ Statement(k) = S!Drop("slots")
           \/ Statement(k) = S!Stamp /\ k = 7
<1>1. k = 1 \/ k = 2 \/ k = 3 \/ k = 4 \/ k = 5 \/ k = 6 \/ k = 7
    OBVIOUS
<1> QED BY <1>1 DEF Statement, S!Create, S!Drop, S!Stamp, S!Current, S!Core

\* A statement that has run has its effect, and takes none away.
LEMMA StatementRuns ==
    ASSUME SchemaType, NEW k \in 0..6, Effect(k),
           NEW past \in 0..6, past = Past(user_version), Effect(past),
           tables' = CASE Statement(k + 1).op = "create" -> tables \cup {Statement(k + 1).table}
                       [] Statement(k + 1).op = "drop"   -> tables \ {Statement(k + 1).table}
                       [] Statement(k + 1).op = "stamp"  -> tables,
           user_version' = IF Statement(k + 1).op = "stamp" THEN S!SCHEMA_VERSION ELSE user_version
    PROVE  /\ user_version' \in 0..4 /\ tables' \subseteq S!Current \cup {"slots"}
           /\ \A j \in 0..7 : Effect(j) => Effect(j)'
           /\ Effect(k + 1)'
           /\ Effect(Past(user_version))'
<1>1. \/ \E t \in S!Current : Statement(k + 1) = S!Create(t)
      \/ Statement(k + 1) = S!Drop("slots")
      \/ Statement(k + 1) = S!Stamp /\ k = 6
    BY StatementKinds
<1>2. /\ tables' \subseteq S!Current \cup {"slots"}
      /\ \A t \in S!Current : t \in tables => t \in tables'
      /\ "slots" \in tables' => "slots" \in tables
    BY <1>1 DEF S!Create, S!Drop, S!Stamp, S!Current, S!Core, SchemaType
<1>3. user_version' \in {user_version, S!SCHEMA_VERSION} /\ (user_version' # user_version => k = 6)
    <2>1. CASE \E t \in S!Current : Statement(k + 1) = S!Create(t)
        BY <2>1 DEF S!Create
    <2>2. CASE Statement(k + 1) = S!Drop("slots")
        BY <2>2 DEF S!Drop
    <2>3. CASE Statement(k + 1) = S!Stamp /\ k = 6
        BY <2>3 DEF S!Stamp
    <2> QED BY <1>1, <2>1, <2>2, <2>3
<1>4. ASSUME NEW j \in 1..7, Ran(Statement(j)) PROVE Ran(Statement(j))'
    <2>1. \/ \E t \in S!Current : Statement(j) = S!Create(t)
          \/ Statement(j) = S!Drop("slots")
          \/ Statement(j) = S!Stamp
        BY StatementKinds
    <2>2. ASSUME NEW t \in S!Current, Statement(j) = S!Create(t)
          PROVE  Ran(Statement(j))'
        <3>1. t \in tables
            BY <2>2, <1>4 DEF Ran, S!Create
        <3>2. t \in tables'
            BY <3>1, <1>2
        <3> QED BY <2>2, <3>2 DEF Ran, Statement, S!Create, S!Drop, S!Stamp
    <2>3. CASE Statement(j) = S!Drop("slots")
        <3>1. "slots" \notin tables
            BY <2>3, <1>4 DEF Ran, S!Drop
        <3>2. "slots" \notin tables'
            BY <3>1, <1>2
        <3>3. Statement(j)'.op = "drop" /\ Statement(j)'.table = "slots"
            BY <2>3 DEF Statement, S!Create, S!Drop, S!Stamp
        <3> QED BY ONLY <3>2, <3>3 DEF Ran
    <2>4. CASE Statement(j) = S!Stamp
        BY <2>4, <1>3, <1>4 DEF Ran, S!Stamp
    <2> QED BY <2>1, <2>2, <2>3, <2>4
<1>5. ASSUME NEW j \in 0..7, Effect(j) PROVE Effect(j)'
    <2>1. \A i \in 1..j : i \in 1..7
        OBVIOUS
    <2> QED BY <2>1, <1>4, <1>5 DEF Effect
<1>6. Ran(Statement(k + 1))'
    BY <1>1 DEF Ran, S!Create, S!Drop, S!Stamp
<1>7. Effect(k + 1)'
    <2>1. Effect(k)'
        BY <1>5
    <2>2. \A i \in 1..(k + 1) : i \in 1..k \/ i = k + 1
        OBVIOUS
    <2> QED BY <2>1, <2>2, <1>6 DEF Effect
<1>8. Effect(Past(user_version))'
    <2>1. CASE user_version' # user_version
        <3>1. Effect(6)' /\ Past(user_version') = 6
            BY <2>1, <1>3, <1>5 DEF Past, S!SCHEMA_VERSION
        <3> QED BY <3>1 DEF Effect
    <2>2. CASE user_version' = user_version
        <3>1. Effect(past)' /\ Past(user_version') = past
            BY <2>2, <1>5
        <3> QED BY <3>1 DEF Effect
    <2> QED BY <2>1, <2>2
<1>9. user_version' \in 0..4
    BY <1>3 DEF SchemaType, S!SCHEMA_VERSION
<1> QED BY <1>2, <1>5, <1>7, <1>8, <1>9

\* A database that some version of the proxy left behind.
LEMMA SchemaInitially ==
    ASSUME S!StartsAssumption, S!Init PROVE SchemaInv
<1>1. SchemaType
    BY DEF S!StartsAssumption, S!Init, SchemaType, S!TablesOf, S!SCHEMA_VERSION, S!Current, S!Core
<1>2. Effect(Past(user_version))
    <2>1. /\ user_version >= 1 => S!Core \subseteq tables
          /\ user_version >= 3 => "slots" \notin tables
          /\ user_version >= 4 => "user_settings" \in tables
          /\ user_version \in 0..4
        BY DEF S!Init, S!TablesOf, S!SCHEMA_VERSION, S!Current, S!Core
    <2>2. CASE user_version = 0
        BY <2>2 DEF Effect, Past
    <2>3. CASE user_version \in {1, 2}
        BY <2>1, <2>3 DEF Effect, Past, Ran, Statement, S!Create, S!Core
    <2>4. CASE user_version = 3
        BY <2>1, <2>4 DEF Effect, Past, Ran, Statement, S!Create, S!Drop, S!Core
    <2>5. CASE user_version = 4
        BY <2>1, <2>5 DEF Effect, Past, Ran, Statement, S!Create, S!Drop, S!Core
    <2> QED BY <2>1, <2>2, <2>3, <2>4, <2>5
<1>3. Migrated
    BY <1>2 DEF S!Init, Migrated
<1> QED BY <1>1, <1>3 DEF SchemaInv

\* Every step of every process keeps it, its death included.
LEMMA SchemaStep ==
    ASSUME SchemaInv, [S!Next]_S!vars, MaxStarts \in Nat
    PROVE  SchemaInv'
<1> USE DEF SchemaInv
<1>1. CASE UNCHANGED S!vars
    BY <1>1 DEF S!vars, SchemaType, Migrated, Effect, Ran
<1>2. ASSUME NEW p \in Processes, S!Open(p) PROVE SchemaInv'
    <2>1. user_version \in 0..4
        BY DEF SchemaType
    <2>2. SchemaType'
      <3>1. todo' \in [Processes -> Seq(Statements)]
          BY <1>2, <2>1, StepsAreLeft DEF S!Open, SchemaType
      <3>2. pc' \in [Processes -> {"down", "migrating", "open"}]
            /\ starts' \in [Processes -> 0..MaxStarts]
          BY <1>2 DEF S!Open, SchemaType
      <3> QED BY <1>2, <3>1, <3>2 DEF S!Open, SchemaType
    <2>3. todo'[p] = S!Steps(user_version) /\ pc'[p] = "migrating"
        BY <1>2 DEF S!Open, SchemaType
    <2>4. \A j \in 0..7 : Effect(j)' <=> Effect(j)
        BY <1>2 DEF S!Open, Effect, Ran
    <2>5. \A q \in Processes \ {p} : todo'[q] = todo[q] /\ pc'[q] = pc[q]
        BY <1>2 DEF S!Open, SchemaType
    <2>6. Migrated'
        BY <1>2, <2>1, <2>3, <2>4, <2>5, StepsAreLeft DEF S!Open, Migrated, Effect, Ran
    <2> QED BY <2>2, <2>6
<1>3. ASSUME NEW p \in Processes, S!Run(p) PROVE SchemaInv'
    <2>1. todo[p] \in Seq(Statements) /\ todo[p] # <<>> /\ Left(todo[p]) /\ Effect(Done(todo[p]))
        BY <1>3 DEF S!Run, SchemaType, Migrated
    <2>2. /\ Tail(todo[p]) \in Seq(Statements) /\ Left(Tail(todo[p]))
          /\ Done(Tail(todo[p])) = Done(todo[p]) + 1
          /\ Done(todo[p]) \in 0..6 /\ Head(todo[p]) = Statement(Done(todo[p]) + 1)
        BY <2>1, TailIsLeft
    <2>3. PICK k \in 0..6 : k = Done(todo[p])
        BY <2>2
    <2>4. PICK past \in 0..6 : past = Past(user_version)
        BY PastType DEF SchemaType
    <2>5. /\ todo' = [todo EXCEPT ![p] = Tail(todo[p])] /\ UNCHANGED <<pc, starts>>
          /\ tables' = CASE Statement(k + 1).op = "create" -> tables \cup {Statement(k + 1).table}
                         [] Statement(k + 1).op = "drop"   -> tables \ {Statement(k + 1).table}
                         [] Statement(k + 1).op = "stamp"  -> tables
          /\ user_version' = IF Statement(k + 1).op = "stamp" THEN S!SCHEMA_VERSION
                             ELSE user_version
        BY <1>3, <2>2, <2>3 DEF S!Run
    <2>6. Effect(k) /\ Effect(past)
        BY <2>1, <2>3, <2>4 DEF Migrated
    <2>7. /\ user_version' \in 0..4 /\ tables' \subseteq S!Current \cup {"slots"}
          /\ \A j \in 0..7 : Effect(j) => Effect(j)'
          /\ Effect(k + 1)' /\ Effect(Past(user_version))'
        BY <2>4, <2>5, <2>6, StatementRuns
    <2>8. SchemaType'
        BY <2>2, <2>5, <2>7 DEF SchemaType
    <2>9. ASSUME NEW q \in Processes, pc'[q] = "migrating"
          PROVE  Left(todo'[q]) /\ Effect(Done(todo[q]))'
        <3>1. CASE q = p
            <4>1. todo'[p] = Tail(todo[p]) /\ Done(todo'[p]) = k + 1
                BY <2>2, <2>3, <2>5 DEF SchemaType
            <4>2. Effect(k + 1)'
                BY <2>7
            <4> QED BY <3>1, <4>1, <4>2, <2>2 DEF Effect
        <3>2. CASE q # p
            <4>1. todo'[q] = todo[q] /\ Left(todo[q]) /\ Effect(Done(todo[q]))
                BY <2>5, <2>9, <3>2 DEF SchemaType, Migrated
            <4>2. PICK j \in 0..7 : j = Done(todo[q])
                <5>1. Len(todo[q]) \in Nat /\ Len(todo[q]) <= 7
                    BY <4>1 DEF Left, SchemaType
                <5>2. \A n \in Nat : n <= 7 => 7 - n \in 0..7
                    OBVIOUS
                <5>3. 7 - Len(todo[q]) \in 0..7
                    BY <5>1, <5>2
                <5> QED BY <5>3 DEF Done
            <4>3. Effect(j)'
                BY <4>1, <4>2, <2>7
            <4> QED BY <4>1, <4>2, <4>3 DEF Effect
        <3> QED BY <3>1, <3>2
    <2>10. ASSUME NEW q \in Processes, pc'[q] = "open"
           PROVE  Effect(7)'
        BY <2>5, <2>7, <2>10 DEF Migrated
    <2> QED BY <2>7, <2>8, <2>9, <2>10 DEF SchemaInv, Migrated
<1>4. ASSUME NEW p \in Processes, S!Opened(p) PROVE SchemaInv'
    <2>1. Effect(7)
        <3>1. Effect(Done(todo[p])) /\ todo[p] = <<>>
            BY <1>4 DEF S!Opened, Migrated
        <3>2. Done(<<>>) = 7
            BY DEF Done
        <3> QED BY <3>1, <3>2
    <2>2. pc' = [pc EXCEPT ![p] = "open"] /\ UNCHANGED <<user_version, tables, todo, starts>>
        BY <1>4 DEF S!Opened
    <2>3. SchemaType'
        BY <2>2 DEF SchemaType
    <2>4. Migrated'
        BY <2>1, <2>2 DEF Migrated, Effect, Ran, SchemaType
    <2> QED BY <2>3, <2>4
<1>5. ASSUME NEW p \in Processes, S!Dies(p) PROVE SchemaInv'
    <2>1. /\ pc' = [pc EXCEPT ![p] = "down"] /\ todo' = [todo EXCEPT ![p] = <<>>]
          /\ UNCHANGED <<user_version, tables, starts>>
        BY <1>5 DEF S!Dies
    <2>2. SchemaType'
        BY <2>1 DEF SchemaType
    <2>3. ASSUME NEW q \in Processes, pc'[q] # "down"
          PROVE  todo'[q] = todo[q] /\ pc'[q] = pc[q]
        BY <2>1, <2>3 DEF SchemaType
    <2>4. Migrated'
        BY <2>1, <2>3 DEF Migrated, Effect, Ran
    <2> QED BY <2>2, <2>4
<1> QED BY <1>1, <1>2, <1>3, <1>4, <1>5 DEF S!Next

\* So it always holds.
LEMMA SchemaInvariant == S!Spec => []SchemaInv
<1>1. S!Init => SchemaInv
    BY SchemaInitially, SchemaAssumption
<1>2. SchemaInv /\ [S!Next]_S!vars => SchemaInv'
    BY SchemaStep, SchemaAssumption DEF S!StartsAssumption
<1> QED BY <1>1, <1>2, PTL DEF S!Spec

\* A store that is open, or says so, has the current schema, however many processes
\* opened it at once and wherever they were cut off (persistence.rs, migrate).
THEOREM SchemaStaysTrue == S!Spec => []SchemaIsTrue
<1>1. SchemaInv => SchemaIsTrue
    <2> SUFFICES ASSUME SchemaInv PROVE SchemaIsTrue
        OBVIOUS
    <2>1. ASSUME user_version = S!SCHEMA_VERSION PROVE tables = S!Current
        <3>1. Effect(6)
            BY <2>1 DEF SchemaInv, Migrated, Past, S!SCHEMA_VERSION
        <3>2. \A j \in 1..6 : Ran(Statement(j))
            BY <3>1 DEF Effect
        <3>3. /\ "routing" \in tables /\ "allowed_users" \in tables /\ "pending_pairings" \in tables
              /\ "pending_approvals" \in tables /\ "slots" \notin tables /\ "user_settings" \in tables
            BY <3>2 DEF Ran, Statement, S!Create, S!Drop
        <3> QED BY <3>3 DEF SchemaInv, SchemaType, S!Current, S!Core
    <2>2. ASSUME NEW p \in Processes, pc[p] = "open" PROVE user_version = S!SCHEMA_VERSION
        <3>1. Ran(Statement(7))
            BY <2>2 DEF SchemaInv, Migrated, Effect
        <3> QED BY <3>1 DEF Ran, Statement, S!Stamp
    <2> QED BY <2>1, <2>2 DEF SchemaIsTrue, S!SchemaIsTrue
<1> QED BY <1>1, SchemaInvariant, PTL

\* Every variable of the migration keeps its type (persistence.rs, open).
THEOREM SchemaTypeCorrect == S!Spec => []S!TypeOK
<1>1. SchemaInv => S!TypeOK
    BY DEF SchemaInv, SchemaType, S!TypeOK, S!SCHEMA_VERSION, Statements
<1> QED BY <1>1, SchemaInvariant, PTL

\* A behaviour of the composition is one of Pairing and one of Migrations: what is
\* proved of issue_code, approve and deny, and of migrate, holds in the run of both.
THEOREM PairingIsComposed == BothSpec => Spec /\ S!Spec
<1>1. BothInit => Init /\ S!Init
    BY DEF BothInit
<1>2. [BothNext]_<<subject, vars, schemaVars>> => [Next]_vars /\ [S!Next]_S!vars
    BY DEF BothNext, vars, historyVars, schemaVars, S!vars
<1> QED BY <1>1, <1>2, PTL DEF BothSpec, Spec, S!Spec

=============================================================================
