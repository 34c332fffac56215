------------------------- MODULE SlotRegistryProofs -------------------------
(***************************************************************************)
(* What SlotRegistry and AdminChannel promise, for every number of slots,  *)
(* instances, chats, connections and restarts, of daemons and commands.    *)
(*                                                                         *)
(* SlotRegistry: while no two adds overlap, three copies of a slot agree   *)
(* on its instance (the file, what was loaded from it, the registry), and  *)
(* what a task under way carries agrees with them.  The last part is what  *)
(* makes the invariant inductive: a task acts on what it read long ago.    *)
(* That a live slot keeps its instance needs less, and has an invariant of *)
(* its own: it is about one name at a time and says nothing of the file.   *)
(***************************************************************************)
EXTENDS RegistryAndAdmin, TLAPS

\* A task that is somewhere in ensure_connected_impl.
Busy ==
    [at : {"probe", "bringup", "read", "replace", "allow", "insert"},
     mode : {"existing", "declared", "new"}, name : Names, slot : Slot, doc : Docs]

\* There is a startup task for declared slots only.
StartingIsDeclared == \A p \in Places : starting[p] # "none" => p \in Written(cfg)

\* What holds while no two connects have added at once: one task at most adds,
OneAdds == \A s, t \in Tasks : conn[s].mode = "new" /\ conn[t].mode = "new" => s = t

\* what was loaded is still in the file: an add writes other names,
DeclaredIsInFile == \A n \in Names : Instances(cfg, n) \subseteq Instances(file, n)

\* what is live is in the file, with its instance,
LiveIsInFile == \A n \in Names : Live(n) => registry[n].url \in Instances(file, n)

\* and so is what a chat is bound to.
BoundIsInFile == \A c \in Chats : allowed[c] # NoName => Declares(file, allowed[c])

\* A task that reconnects a live slot carries an instance the file has for it; a
\* slot that was live stays live.
TidyExisting(t) ==
    conn[t].mode = "existing" =>
        Live(conn[t].name) /\ conn[t].slot.url \in Instances(file, conn[t].name)

\* A task that brings a declared slot up carries the first of those that were loaded.
TidyDeclared(t) ==
    conn[t].mode = "declared" =>
        Declares(cfg, conn[t].name) /\ conn[t].slot = Head(cfg[conn[t].name])

\* A task that adds a slot does so under a name that is neither declared nor live;
\* the file it read is the file it replaces, and once that is done the slot is in
\* it.
TidyNew(t) ==
    conn[t].mode = "new" =>
        /\ ~Declares(cfg, conn[t].name) /\ ~Live(conn[t].name)
        /\ conn[t].at = "replace" => conn[t].doc = file
        /\ conn[t].at \in {"allow", "insert"} =>
              conn[t].slot.url \in Instances(file, conn[t].name)

\* All of it. Once two adds have overlapped none of it is claimed.
Uncontended ==
    /\ OneAdds /\ DeclaredIsInFile /\ LiveIsInFile /\ BoundIsInFile
    /\ \A t \in Tasks : TidyExisting(t) /\ TidyDeclared(t) /\ TidyNew(t)

\* The inductive invariant of SlotRegistry.
RegistryInv == TypeOK /\ StartingIsDeclared /\ (~contended => Uncontended)

-----------------------------------------------------------------------------
\* A task that is anywhere has a request with a name, a slot and a mode.
LEMMA ConnIsBusyOrIdle ==
    ASSUME TypeOK, NEW t \in Tasks
    PROVE  /\ conn[t] = Idle \/ conn[t] \in Busy
           /\ conn[t].at # "none" => conn[t] \in Busy
           /\ conn[t].mode # "none" => conn[t] \in Busy
<1>1. conn[t] \in {Idle} \cup Busy
  BY DEF TypeOK, Busy
<1>2. Idle.at = "none" /\ Idle.mode = "none"
  BY DEF Idle, Doing
<1> QED
  BY <1>1, <1>2

\* What stands for no slot is not one, so a slot that is live has an instance.
LEMMA NullsAreNotSlots == NoSlot \notin Slot /\ \A d \in Slot \cup {NoSlot} : d # NoSlot => d \in Slot
<1>1. NoSlot.url = NoUrl
  BY DEF NoSlot
<1>2. \A d \in Slot : d.url \in Urls
  BY DEF Slot
<1> QED
  BY <1>1, <1>2, NullsAssumption

\* An empty file is a config.
LEMMA NoDocIsADoc == NoDoc \in Docs /\ \A n \in Names : ~Declares(NoDoc, n)
  BY DEF NoDoc, Docs, Declares

\* Before anything is live there is no registry but the empty one.
LEMMA NoneLiveIsARegistry == NoneLive \in Registries
  BY DEF NoneLive, Registries

\* What is written at a place of a file is a slot, and its instance one the file
\* gives the name.
LEMMA TableIsASlot ==
    ASSUME NEW doc \in Docs, NEW p \in Written(doc)
    PROVE  /\ Table(doc, p) \in Slot /\ Declares(doc, p[1])
           /\ Table(doc, p).url \in Instances(doc, p[1])
<1>1. p[1] \in Names /\ p[2] \in 1..MaxTables /\ p[2] <= Len(doc[p[1]])
  BY DEF Written, Places
<1>2. doc[p[1]] \in Seq(Slot)
  BY <1>1 DEF Docs
<1>3. p[2] \in Nat /\ p[2] >= 1
  BY <1>1, DeclaredAssumption
<1>4. p[2] \in DOMAIN doc[p[1]]
  BY <1>1, <1>2, <1>3
<1>5. doc[p[1]] # << >>
  BY <1>2, <1>4
<1> QED
  BY <1>2, <1>4, <1>5 DEF Table, Declares, Instances

\* So is the first table of a name that is declared.
LEMMA HeadIsASlot ==
    ASSUME NEW doc \in Docs, NEW n \in Names, Declares(doc, n)
    PROVE  Head(doc[n]) \in Slot /\ Head(doc[n]).url \in Instances(doc, n)
<1>1. doc[n] \in Seq(Slot) /\ doc[n] # << >>
  BY DEF Docs, Declares
<1>2. 1 \in DOMAIN doc[n] /\ Head(doc[n]) = doc[n][1]
  BY <1>1
<1> QED
  BY <1>1, <1>2 DEF Instances

\* A name that has an instance in a file is declared there.
LEMMA InstanceIsDeclared ==
    ASSUME NEW doc \in Docs, NEW n \in Names, Instances(doc, n) # {}
    PROVE  Declares(doc, n)
  BY DEF Instances, Declares

\* Tasks that are not the one that moves stay as they are, and it is where it goes.
\* Goes moves one task and changes nothing but where it is.
LEMMA GoesMoves ==
    ASSUME TypeOK, NEW t \in Tasks, conn[t] \in Busy,
           NEW at \in {"probe", "bringup", "read", "replace", "allow", "insert"},
           at \in {"read", "replace"} => conn[t].mode = "new",
           Goes(t, at)
    PROVE  /\ conn' \in [Tasks -> {Idle} \cup Busy]
           /\ \A s \in Tasks : conn'[s].at \in {"read", "replace"} => conn'[s].mode = "new"
           /\ \A s \in Tasks \ {t} : conn'[s] = conn[s]
           /\ conn'[t].at = at /\ conn'[t].mode = conn[t].mode
           /\ conn'[t].name = conn[t].name /\ conn'[t].slot = conn[t].slot
           /\ conn'[t].doc = conn[t].doc
<1>1. conn \in [Tasks -> {Idle} \cup Busy]
  BY DEF TypeOK, Busy
<1>2. conn' = [conn EXCEPT ![t] = [conn[t] EXCEPT !.at = at]]
  BY DEF Goes
<1>3. [conn[t] EXCEPT !.at = at] \in Busy
  BY DEF Busy
<1>4. conn'[t] = [conn[t] EXCEPT !.at = at] /\ \A s \in Tasks \ {t} : conn'[s] = conn[s]
  BY <1>1, <1>2
<1>5. conn'[t].at = at /\ conn'[t].mode = conn[t].mode /\ conn'[t].name = conn[t].name
      /\ conn'[t].slot = conn[t].slot /\ conn'[t].doc = conn[t].doc
  BY <1>4 DEF Busy
<1>6. \A s \in Tasks : conn'[s].at \in {"read", "replace"} => conn'[s].mode = "new"
  BY <1>4, <1>5, ZenonT(40) DEF TypeOK
<1> QED
  BY <1>1, <1>2, <1>3, <1>4, <1>5, <1>6

\* Returns ends one task's request; the others stay as they are.
LEMMA ReturnsEnds ==
    ASSUME TypeOK, NEW t \in Tasks, Returns(t)
    PROVE  /\ conn' \in [Tasks -> {Idle} \cup Busy]
           /\ \A s \in Tasks : conn'[s].at \in {"read", "replace"} => conn'[s].mode = "new"
           /\ \A s \in Tasks \ {t} : conn'[s] = conn[s]
           /\ conn'[t] = Idle /\ conn'[t].mode = "none"
<1>1. conn \in [Tasks -> {Idle} \cup Busy]
  BY DEF TypeOK, Busy
<1>2. conn' = [conn EXCEPT ![t] = Idle]
  BY DEF Returns
<1>3. conn'[t] = Idle /\ \A s \in Tasks \ {t} : conn'[s] = conn[s]
  BY <1>1, <1>2
<1>4. Idle.at = "none" /\ Idle.mode = "none"
  BY DEF Idle, Doing
<1>5. \A s \in Tasks : conn'[s].at \in {"read", "replace"} => conn'[s].mode = "new"
  BY <1>3, <1>4 DEF TypeOK
<1> QED
  BY <1>1, <1>2, <1>3, <1>4, <1>5

\* A step of one task that leaves the tables alone keeps what is true of the others,
\* and then it is enough that its own request stays tidy.
LEMMA OneTaskMoves ==
    ASSUME RegistryInv, NEW t \in Tasks,
           UNCHANGED <<up, tableVars, cfg, registry, starting, phase, boundVars, historyVars>>,
           conn' \in [Tasks -> {Idle} \cup Busy],
           \A s \in Tasks : conn'[s].at \in {"read", "replace"} => conn'[s].mode = "new",
           \A s \in Tasks \ {t} : conn'[s] = conn[s],
           conn'[t].mode = "new" => conn[t].mode = "new",
           ~contended /\ Uncontended => (TidyExisting(t) /\ TidyDeclared(t) /\ TidyNew(t))'
    PROVE  RegistryInv'
<1> USE DEF tableVars, boundVars, historyVars
<1>1. TypeOK'
  BY DEF RegistryInv, TypeOK, Busy
<1>2. StartingIsDeclared'
  BY DEF RegistryInv, StartingIsDeclared
<1>3. ASSUME ~contended' PROVE Uncontended'
  <2>0. ~contended /\ Uncontended
    BY <1>3 DEF RegistryInv
  <2>1. OneAdds'
    BY <2>0 DEF Uncontended, OneAdds
  <2>2. DeclaredIsInFile' /\ LiveIsInFile' /\ BoundIsInFile'
    BY <2>0 DEF Uncontended, DeclaredIsInFile, LiveIsInFile, BoundIsInFile, Live
  <2>3. ASSUME NEW s \in Tasks PROVE (TidyExisting(s) /\ TidyDeclared(s) /\ TidyNew(s))'
    <3>1. CASE s = t
      BY <3>1, <2>0
    <3>2. CASE s # t
      <4>1. conn'[s] = conn[s] /\ file' = file /\ cfg' = cfg /\ registry' = registry
        BY <3>2
      <4>2. TidyExisting(s) /\ TidyDeclared(s) /\ TidyNew(s)
        BY <2>0 DEF Uncontended
      <4> QED
        BY <4>1, <4>2 DEF TidyExisting, TidyDeclared, TidyNew, Live
    <3> QED
      BY <3>1, <3>2
  <2> QED
    BY <2>1, <2>2, <2>3 DEF Uncontended
<1> QED
  BY <1>1, <1>2, <1>3 DEF RegistryInv

\* A task that ends its request and writes nothing keeps the invariant.
LEMMA TaskGivesUp ==
    ASSUME RegistryInv, NEW t \in Tasks, Returns(t),
           UNCHANGED <<up, tableVars, cfg, registry, starting, phase, boundVars, historyVars>>
    PROVE  RegistryInv'
<1>1. TypeOK
  BY DEF RegistryInv
<1>2. conn'[t].mode = "none"
  BY <1>1, ReturnsEnds
<1>3. (TidyExisting(t) /\ TidyDeclared(t) /\ TidyNew(t))'
  BY <1>2 DEF TidyExisting, TidyDeclared, TidyNew
<1> QED
  BY <1>1, <1>2, <1>3, ReturnsEnds, OneTaskMoves

\* A task that takes its request to its next place and writes nothing keeps the
\* invariant; it reaches allow or insert with an added slot from the write only.
LEMMA TaskGoesOn ==
    ASSUME RegistryInv, NEW t \in Tasks, conn[t] \in Busy,
           NEW at \in {"bringup", "read", "allow", "insert"},
           at = "read" => conn[t].mode = "new",
           at \in {"allow", "insert"} /\ conn[t].mode = "new" => conn[t].at = "allow",
           Goes(t, at),
           UNCHANGED <<up, tableVars, cfg, registry, starting, phase, boundVars, historyVars>>
    PROVE  RegistryInv'
<1>1. TypeOK
  BY DEF RegistryInv
<1>2. conn'[t].at = at /\ conn'[t].mode = conn[t].mode /\ conn'[t].name = conn[t].name
      /\ conn'[t].slot = conn[t].slot
  BY <1>1, GoesMoves
<1>3. ASSUME ~contended, Uncontended PROVE (TidyExisting(t) /\ TidyDeclared(t) /\ TidyNew(t))'
  <2>1. TidyExisting(t) /\ TidyDeclared(t) /\ TidyNew(t)
    BY <1>3 DEF Uncontended
  <2>2. file' = file /\ cfg' = cfg /\ registry' = registry
    BY DEF tableVars
  <2> QED
    BY <1>2, <2>1, <2>2 DEF TidyExisting, TidyDeclared, TidyNew, Live
<1>4. /\ conn' \in [Tasks -> {Idle} \cup Busy]
      /\ \A s \in Tasks : conn'[s].at \in {"read", "replace"} => conn'[s].mode = "new"
      /\ \A s \in Tasks \ {t} : conn'[s] = conn[s]
  BY <1>1, GoesMoves
<1> QED
  BY <1>2, <1>3, <1>4, OneTaskMoves

-----------------------------------------------------------------------------
(* The startup tasks.                                                      *)

\* A startup task that finds its instance up, or gives up.
LEMMA StartupSteps ==
    ASSUME RegistryInv, NEW p \in Places, StartupReady(p) \/ StartupGivesUp(p)
    PROVE  RegistryInv'
<1> USE DEF tableVars, boundVars, historyVars, StartupReady, StartupGivesUp
<1>1. TypeOK'
  BY DEF RegistryInv, TypeOK
<1>2. StartingIsDeclared'
  BY DEF RegistryInv, StartingIsDeclared, TypeOK
<1>3. ASSUME ~contended' PROVE Uncontended'
  <2>1. Uncontended
    BY <1>3 DEF RegistryInv
  <2>2. UNCHANGED <<file, cfg, registry, allowed, conn>>
    OBVIOUS
  <2> QED
    BY <2>1, <2>2 DEF Uncontended, OneAdds, DeclaredIsInFile, LiveIsInFile, BoundIsInFile,
                      TidyExisting, TidyDeclared, TidyNew, Live
<1> QED
  BY <1>1, <1>2, <1>3 DEF RegistryInv

\* A registry that takes one more live slot, or the same instance again.
LEMMA RegistryTakes ==
    ASSUME RegistryInv, ~contended, NEW n \in Names, NEW d \in Slot,
           registry' = [registry EXCEPT ![n] = d],
           UNCHANGED <<file, cfg, allowed>>,
           d.url \in Instances(file, n),
           \A t \in Tasks : conn'[t] = conn[t] \/ conn'[t].mode = "none",
           \A t \in Tasks : conn'[t].mode = "new" => conn[t].name # n
    PROVE  Uncontended'
<1>0. Uncontended /\ TypeOK
  BY DEF RegistryInv
<1>1. registry \in Registries
  BY <1>0 DEF TypeOK
<1>2. registry'[n] = d /\ \A m \in Names \ {n} : registry'[m] = registry[m]
  BY <1>1 DEF Registries
<1>3. Live(n)'
  BY <1>2, NullsAreNotSlots DEF Live
<1>4. OneAdds'
  BY <1>0 DEF Uncontended, OneAdds
<1>5. DeclaredIsInFile' /\ BoundIsInFile'
  BY <1>0 DEF Uncontended, DeclaredIsInFile, BoundIsInFile
<1>6. LiveIsInFile'
  BY <1>0, <1>2 DEF Uncontended, LiveIsInFile, Live
<1>7. ASSUME NEW t \in Tasks, conn'[t] = conn[t], conn[t].mode # "none"
      PROVE  (TidyExisting(t) /\ TidyDeclared(t) /\ TidyNew(t))'
  <2>1. TidyExisting(t) /\ TidyDeclared(t) /\ TidyNew(t)
    BY <1>0 DEF Uncontended
  <2>2. conn[t].name \in Names
    BY <1>0, <1>7, ConnIsBusyOrIdle DEF Busy
  <2>3. TidyExisting(t)'
    <3>1. CASE conn[t].name = n
      BY <3>1, <2>1, <1>3, <1>7 DEF TidyExisting
    <3>2. CASE conn[t].name # n
      BY <3>2, <2>1, <2>2, <1>2, <1>7 DEF TidyExisting, Live
    <3> QED
      BY <3>1, <3>2
  <2>4. TidyDeclared(t)'
    BY <2>1, <1>7 DEF TidyDeclared
  <2>5. TidyNew(t)'
    BY <2>1, <2>2, <1>2, <1>7 DEF TidyNew, Live
  <2> QED
    BY <2>3, <2>4, <2>5
<1>8. ASSUME NEW t \in Tasks, conn'[t].mode = "none"
      PROVE  (TidyExisting(t) /\ TidyDeclared(t) /\ TidyNew(t))'
  BY <1>8 DEF TidyExisting, TidyDeclared, TidyNew
<1> QED
  BY <1>4, <1>5, <1>6, <1>7, <1>8 DEF Uncontended

\* A startup task that makes its slot live: a declared one, which no add has the
\* name of.
LEMMA StartupInsertsStep ==
    ASSUME RegistryInv, NEW p \in Places, StartupInserts(p)
    PROVE  RegistryInv'
<1> USE DEF tableVars, boundVars, historyVars, StartupInserts
<1> DEFINE n == p[1]
           d == Table(cfg, p)
<1>0. TypeOK /\ p \in Written(cfg) /\ cfg \in Docs /\ n \in Names
  BY DEF RegistryInv, StartingIsDeclared, TypeOK, Places
<1>1. d \in Slot /\ Declares(cfg, n) /\ d.url \in Instances(cfg, n)
  BY <1>0, TableIsASlot
<1>a. registry' = [registry EXCEPT ![n] = d]
  OBVIOUS
<1> HIDE DEF n, d
<1>2. TypeOK'
  <2>1. registry' \in Registries
    BY <1>0, <1>1, <1>a DEF TypeOK, Registries
  <2> QED
    BY <2>1, <1>0 DEF TypeOK
<1>3. StartingIsDeclared'
  BY <1>0 DEF RegistryInv, StartingIsDeclared, TypeOK
<1>4. ASSUME ~contended' PROVE Uncontended'
  <2>0. ~contended /\ Uncontended
    BY <1>4 DEF RegistryInv
  <2>1. d.url \in Instances(file, n)
    BY <2>0, <1>0, <1>1 DEF Uncontended, DeclaredIsInFile
  <2>2. \A t \in Tasks : conn'[t].mode = "new" => conn[t].name # n
    BY <2>0, <1>1 DEF Uncontended, TidyNew
  <2> QED
    BY <2>0, <2>1, <2>2, <1>0, <1>1, <1>a, RegistryTakes
<1> QED
  BY <1>2, <1>3, <1>4 DEF RegistryInv

-----------------------------------------------------------------------------
(* ensure_connected_impl.                                                  *)

\* What a request sets out to do: with a live slot, a declared one or a new one.
Sets(t, n, at, mode, d) ==
    /\ conn' = [conn EXCEPT ![t] = Doing(at, mode, n, d)]
    /\ d \in Slot
    /\ mode = "existing" => Live(n) /\ d = registry[n] /\ UNCHANGED historyVars
    /\ mode = "declared" => /\ ~Live(n) /\ Declares(cfg, n) /\ d = Head(cfg[n])
                            /\ UNCHANGED historyVars
    /\ mode = "new" => /\ ~Live(n) /\ ~Declares(cfg, n)
                       /\ ~contended' => ~contended /\ \A o \in Tasks : conn[o].mode # "new"
                       /\ rivals \subseteq rivals'
                       /\ n \notin rivals' => \A o \in Tasks :
                              conn[o].mode = "new" => conn[o].name # n

\* Begin sets a task out, and writes down whether another one was adding.
LEMMA BeginSets ==
    ASSUME TypeOK, NEW t \in Tasks, NEW n \in Names, NEW s \in Slot \cup {NoSlot},
           Begin(t, n, s)
    PROVE  /\ \E at \in {"probe", "bringup"}, mode \in {"existing", "declared", "new"},
                 d \in Slot : Sets(t, n, at, mode, d)
           /\ contended' \in BOOLEAN /\ rivals' \in SUBSET Names
           /\ contended => contended' /\ rivals \subseteq rivals'
<1> USE DEF historyVars
<1>0. /\ registry[n] \in Slot \cup {NoSlot} /\ cfg \in Docs
      /\ contended \in BOOLEAN /\ rivals \in SUBSET Names
  BY DEF TypeOK, Registries
<1>1. CASE Live(n)
  <2>1. registry[n] \in Slot
    BY <1>0, <1>1, NullsAreNotSlots DEF Live
  <2>2. conn' = [conn EXCEPT ![t] = Doing("probe", "existing", n, registry[n])]
        /\ contended' = contended /\ rivals' = rivals
    BY <1>1 DEF Begin, Existing
  <2>3. Sets(t, n, "probe", "existing", registry[n])
    BY <2>1, <2>2, <1>1 DEF Sets
  <2> QED
    BY <2>1, <2>2, <2>3, <1>0
<1>2. CASE ~Live(n) /\ Declares(cfg, n)
  <2>1. Head(cfg[n]) \in Slot
    BY <1>0, <1>2, HeadIsASlot
  <2>2. conn' = [conn EXCEPT ![t] = Doing("bringup", "declared", n, Head(cfg[n]))]
        /\ contended' = contended /\ rivals' = rivals
    BY <1>2 DEF Begin
  <2>3. Sets(t, n, "bringup", "declared", Head(cfg[n]))
    BY <2>1, <2>2, <1>2 DEF Sets
  <2> QED
    BY <2>1, <2>2, <2>3, <1>0
<1>3. CASE ~Live(n) /\ ~Declares(cfg, n)
  <2> DEFINE adding == {conn[o].name : o \in {o \in Tasks : conn[o].mode = "new"}}
  <2>1. /\ s # NoSlot
        /\ conn' = [conn EXCEPT ![t] = Doing("bringup", "new", n, s)]
        /\ contended' = (contended \/ adding # {})
        /\ rivals' = rivals \cup (adding \cap {n})
    BY <1>3 DEF Begin
  <2>2. contended' \in BOOLEAN /\ (contended => contended')
        /\ (~contended' => ~contended /\ adding = {})
    BY <2>1, <1>0
  <2>3. adding = {} => \A o \in Tasks : conn[o].mode # "new"
    OBVIOUS
  <2>4. n \notin rivals' => \A o \in Tasks : conn[o].mode = "new" => conn[o].name # n
    BY <2>1
  <2>5. rivals' \in SUBSET Names /\ rivals \subseteq rivals'
    BY <2>1, <1>0
  <2>6. Sets(t, n, "bringup", "new", s)
    BY <2>1, <2>2, <2>3, <2>4, <2>5, <1>3 DEF Sets
  <2> QED
    BY <2>1, <2>2, <2>5, <2>6
<1> QED
  BY <1>1, <1>2, <1>3

\* A request starts (ensure_connected_impl). A new one is the only one, or the run
\* is contended from now on.
LEMMA BeginStep ==
    ASSUME RegistryInv, NEW t \in Tasks, NEW n \in Names, NEW s \in Slot \cup {NoSlot},
           Begin(t, n, s), connects' \in 0..MaxConnects
    PROVE  RegistryInv'
<1> USE DEF tableVars, historyVars
<1> DEFINE same == UNCHANGED <<up, file, allowed, cfg, registry, starting, phase, flips, crashes>>
<1>0. TypeOK /\ same /\ conn[t] = Idle
  BY DEF RegistryInv, Begin
<1>1. PICK at \in {"probe", "bringup"}, mode \in {"existing", "declared", "new"}, d \in Slot :
         Sets(t, n, at, mode, d)
  BY <1>0, BeginSets
<1>a. contended' \in BOOLEAN /\ rivals' \in SUBSET Names /\ (contended => contended')
  BY <1>0, BeginSets
<1> DEFINE new == Doing(at, mode, n, d)
<1>2. /\ new = [at |-> at, mode |-> mode, name |-> n, slot |-> d, doc |-> NoDoc]
      /\ new \in Busy
  <2>1. new = [at |-> at, mode |-> mode, name |-> n, slot |-> d, doc |-> NoDoc]
    BY DEF Doing
  <2> QED
    BY <2>1, NoDocIsADoc DEF Busy
<1>b. conn' = [conn EXCEPT ![t] = new]
  BY <1>1 DEF Sets
<1>3. conn'[t] = new /\ \A o \in Tasks \ {t} : conn'[o] = conn[o]
  BY <1>0, <1>b DEF TypeOK
<1>4. conn'[t].at = at /\ conn'[t].mode = mode /\ conn'[t].name = n /\ conn'[t].slot = d
  BY <1>2, <1>3
<1>6. TypeOK'
  <2>1. conn' \in [Tasks -> {Idle} \cup Busy]
    <3> HIDE DEF new
    <3> QED
      BY <1>0, <1>b, <1>2 DEF TypeOK, Busy
  <2>2. \A o \in Tasks : conn'[o].at \in {"read", "replace"} => conn'[o].mode = "new"
    <3> HIDE DEF new
    <3> QED
      BY <1>0, <1>3, <1>4 DEF TypeOK
  <2> HIDE DEF new
  <2> QED
    BY <2>1, <2>2, <1>0, <1>a DEF TypeOK, Busy
<1> HIDE DEF new
<1>7. StartingIsDeclared'
  BY <1>0 DEF RegistryInv, StartingIsDeclared
<1>8. ASSUME ~contended' PROVE Uncontended'
  <2>0. ~contended /\ Uncontended
    BY <1>a, <1>8 DEF RegistryInv
  <2>1. mode = "new" => \A o \in Tasks : conn[o].mode # "new"
    BY <1>1, <1>8 DEF Sets
  <2>2. OneAdds'
    BY <2>0, <2>1, <1>3, <1>4 DEF Uncontended, OneAdds
  <2>3. DeclaredIsInFile' /\ LiveIsInFile' /\ BoundIsInFile'
    BY <2>0, <1>0 DEF Uncontended, DeclaredIsInFile, LiveIsInFile, BoundIsInFile, Live
  <2>4. ASSUME NEW o \in Tasks PROVE (TidyExisting(o) /\ TidyDeclared(o) /\ TidyNew(o))'
    <3>1. CASE o = t
      <4>1. mode = "existing" => Live(n) /\ d.url \in Instances(file, n)
        BY <1>1, <2>0 DEF Sets, Uncontended, LiveIsInFile
      <4>2. TidyExisting(t)'
        BY <4>1, <1>0, <1>4 DEF TidyExisting, Live
      <4>3. TidyDeclared(t)'
        BY <1>0, <1>1, <1>4 DEF Sets, TidyDeclared
      <4>4. TidyNew(t)'
        BY <1>0, <1>1, <1>4 DEF Sets, TidyNew, Live
      <4> QED
        BY <3>1, <4>2, <4>3, <4>4
    <3>2. CASE o # t
      <4>1. TidyExisting(o) /\ TidyDeclared(o) /\ TidyNew(o)
        BY <2>0 DEF Uncontended
      <4> QED
        BY <3>2, <4>1, <1>0, <1>3 DEF TidyExisting, TidyDeclared, TidyNew, Live
    <3> QED
      BY <3>1, <3>2
  <2> QED
    BY <2>2, <2>3, <2>4 DEF Uncontended
<1> QED
  BY <1>6, <1>7, <1>8 DEF RegistryInv

\* proxy connect.
LEMMA ConnectStep ==
    ASSUME RegistryInv, NEW a \in Admins, NEW n \in Names, NEW s \in Slot \cup {NoSlot},
           Connect(a, n, s)
    PROVE  RegistryInv'
<1>1. connects' \in 0..MaxConnects
  BY BoundsAssumption DEF Connect, RegistryInv, TypeOK
<1> QED
  BY <1>1, BeginStep DEF Connect, Tasks

\* The reconnect of a failed turn.
LEMMA TurnFailsStep ==
    ASSUME RegistryInv, NEW n \in Names, TurnFails(n)
    PROVE  RegistryInv'
<1>1. connects' \in 0..MaxConnects
  BY DEF TurnFails, RegistryInv, TypeOK
<1> QED
  BY <1>1, BeginStep DEF TurnFails, Tasks

\* The probe of a live slot.
LEMMA ProbeStep ==
    ASSUME RegistryInv, NEW t \in Tasks, Probe(t)
    PROVE  RegistryInv'
<1>1. conn[t] \in Busy
  BY ConnIsBusyOrIdle DEF RegistryInv, Probe
<1>2. CASE conn[t].slot.url \in up
  BY <1>2, TaskGivesUp DEF Probe
<1>3. CASE conn[t].slot.url \notin up
  BY <1>1, <1>3, TaskGoesOn DEF Probe
<1> QED
  BY <1>2, <1>3

\* The instance answers: each mode goes to its next place.
LEMMA ReadyStep ==
    ASSUME RegistryInv, NEW t \in Tasks, Ready(t)
    PROVE  RegistryInv'
<1>1. conn[t] \in Busy
  BY ConnIsBusyOrIdle DEF RegistryInv, Ready
<1>2. conn[t].mode \in {"existing", "declared", "new"}
  BY <1>1 DEF Busy
<1>3. CASE conn[t].mode = "existing"
  <2>1. Goes(t, "insert")
    BY <1>3 DEF Ready, NextAfterReady
  <2> QED
    BY <1>1, <1>3, <2>1, TaskGoesOn DEF Ready
<1>4. CASE conn[t].mode = "declared"
  <2>1. Goes(t, "allow")
    BY <1>4 DEF Ready, NextAfterReady
  <2> QED
    BY <1>1, <1>4, <2>1, TaskGoesOn DEF Ready
<1>5. CASE conn[t].mode = "new"
  <2>1. Goes(t, "read")
    BY <1>5 DEF Ready, NextAfterReady
  <2> QED
    BY <1>1, <1>5, <2>1, TaskGoesOn DEF Ready
<1> QED
  BY <1>2, <1>3, <1>4, <1>5

\* The steps at which a connect fails.
LEMMA FailingSteps ==
    ASSUME RegistryInv, NEW t \in Tasks, NotReady(t) \/ PersistFails(t) \/ AllowFails(t)
    PROVE  RegistryInv'
BY TaskGivesUp DEF NotReady, PersistFails, AllowFails

\* upsert_slot reads the file: from here on its copy is the file.
LEMMA ReadsFileStep ==
    ASSUME RegistryInv, NEW t \in Tasks, ReadsFile(t)
    PROVE  RegistryInv'
<1> DEFINE new == [conn[t] EXCEPT !.at = "replace", !.doc = file]
<1>0. TypeOK
  BY DEF RegistryInv
<1>1. conn[t] \in Busy /\ conn[t].mode = "new"
  BY <1>0, ConnIsBusyOrIdle DEF ReadsFile, TypeOK
<1>2. file \in Docs
  BY <1>0 DEF TypeOK
<1>3. new \in Busy /\ new.at = "replace" /\ new.mode = "new" /\ new.name = conn[t].name
      /\ new.slot = conn[t].slot /\ new.doc = file
  BY <1>1, <1>2 DEF Busy
<1>4. conn' = [conn EXCEPT ![t] = new]
  BY DEF ReadsFile
<1> HIDE DEF new
<1>5. conn'[t] = new /\ \A s \in Tasks \ {t} : conn'[s] = conn[s]
  BY <1>0, <1>4 DEF TypeOK
<1>6. conn' \in [Tasks -> {Idle} \cup Busy]
  BY <1>0, <1>3, <1>4 DEF TypeOK, Busy
<1>7. \A s \in Tasks : conn'[s].at \in {"read", "replace"} => conn'[s].mode = "new"
  BY <1>0, <1>3, <1>5 DEF TypeOK
<1>8. ASSUME ~contended, Uncontended PROVE (TidyExisting(t) /\ TidyDeclared(t) /\ TidyNew(t))'
  <2>1. TidyNew(t)
    BY <1>8 DEF Uncontended
  <2>2. UNCHANGED <<file, cfg, registry>>
    BY DEF ReadsFile, tableVars
  <2> QED
    BY <1>1, <1>3, <1>5, <2>1, <2>2 DEF TidyExisting, TidyDeclared, TidyNew, Live
<1>9. UNCHANGED <<up, tableVars, cfg, registry, starting, phase, boundVars, historyVars>>
  BY DEF ReadsFile
<1> QED
  BY <1>1, <1>5, <1>6, <1>7, <1>8, <1>9, OneTaskMoves

\* upsert_slot writes the slot with its instance and leaves the other names as they
\* are.
LEMMA UpsertedSlot ==
    ASSUME NEW doc \in Docs, NEW n \in Names, NEW s \in Slot
    PROVE  /\ Upserted(doc, n, s) \in Docs
           /\ s.url \in Instances(Upserted(doc, n, s), n)
           /\ \A m \in Names \ {n} : Upserted(doc, n, s)[m] = doc[m]
<1>1. PICK tables \in Seq(Slot) :
         /\ Upserted(doc, n, s) = [doc EXCEPT ![n] = tables]
         /\ 1 \in DOMAIN tables /\ tables[1].url = s.url
  <2>1. doc[n] \in Seq(Slot)
    BY DEF Docs
  <2>2. CASE Declares(doc, n)
    <3> DEFINE table == Edited(doc[n][1], s)
               edited == [doc[n] EXCEPT ![1] = table]
    <3>1. 1 \in DOMAIN doc[n] /\ doc[n][1] \in Slot
      BY <2>1, <2>2 DEF Declares
    <3>2. table \in Slot /\ table.url = s.url
      BY <3>1 DEF Slot, Edited
    <3>3. Upserted(doc, n, s) = [doc EXCEPT ![n] = edited]
      BY <2>2 DEF Upserted
    <3> HIDE DEF table
    <3>4. edited \in Seq(Slot) /\ 1 \in DOMAIN edited /\ edited[1] = table
      BY <2>1, <3>1, <3>2
    <3> QED
      BY <3>2, <3>3, <3>4
  <2>3. CASE ~Declares(doc, n)
    <3>1. Upserted(doc, n, s) = [doc EXCEPT ![n] = <<s>>]
      BY <2>3 DEF Upserted
    <3>2. <<s>> \in Seq(Slot) /\ 1 \in DOMAIN <<s>> /\ <<s>>[1] = s
      OBVIOUS
    <3> QED
      BY <3>1, <3>2
  <2> QED
    BY <2>2, <2>3
<1>2. /\ Upserted(doc, n, s)[n] = tables
      /\ \A m \in Names \ {n} : Upserted(doc, n, s)[m] = doc[m]
      /\ Upserted(doc, n, s) \in Docs
  BY <1>1 DEF Docs
<1>3. s.url \in {tables[i].url : i \in DOMAIN tables}
  BY <1>1
<1> QED
  BY <1>2, <1>3 DEF Instances

\* upsert_slot replaces the file. Only the added name changes, and that is neither
\* declared nor live; this is where a second add would be lost.
LEMMA ReplacesFileStep ==
    ASSUME RegistryInv, NEW t \in Tasks, ReplacesFile(t)
    PROVE  RegistryInv'
<1> USE DEF boundVars, historyVars
<1> DEFINE new == [conn[t] EXCEPT !.at = "allow", !.doc = NoDoc]
           n == conn[t].name
<1>0. TypeOK /\ UNCHANGED <<up, allowed, cfg, registry, starting, phase, boundVars, historyVars>>
  BY DEF RegistryInv, ReplacesFile
<1>1. conn[t] \in Busy /\ conn[t].mode = "new" /\ conn[t].at = "replace"
  BY <1>0, ConnIsBusyOrIdle DEF ReplacesFile, TypeOK
<1>2. n \in Names /\ conn[t].slot \in Slot /\ conn[t].doc \in Docs
  BY <1>1 DEF Busy
<1>3. /\ new \in Busy /\ new.at = "allow" /\ new.mode = "new" /\ new.name = n
      /\ new.slot = conn[t].slot
  BY <1>1, NoDocIsADoc DEF Busy
<1>4. conn' = [conn EXCEPT ![t] = new]
  BY DEF ReplacesFile
<1> HIDE DEF new
<1>5. conn'[t] = new /\ \A s \in Tasks \ {t} : conn'[s] = conn[s]
  BY <1>0, <1>4 DEF TypeOK
<1>6. /\ file' \in Docs /\ conn[t].slot.url \in Instances(file', n)
      /\ \A m \in Names \ {n} : file'[m] = conn[t].doc[m]
  BY <1>2, UpsertedSlot DEF ReplacesFile
<1>b. Declares(file', n)
  BY <1>2, <1>6, InstanceIsDeclared
<1> HIDE DEF n
<1>7. TypeOK'
  <2>1. conn' \in [Tasks -> {Idle} \cup Busy]
    BY <1>0, <1>3, <1>4 DEF TypeOK, Busy
  <2>2. \A s \in Tasks : conn'[s].at \in {"read", "replace"} => conn'[s].mode = "new"
    BY <1>0, <1>3, <1>5 DEF TypeOK
  <2> QED
    BY <2>1, <2>2, <1>0, <1>6 DEF TypeOK, Busy
<1>8. StartingIsDeclared'
  BY <1>0 DEF RegistryInv, StartingIsDeclared
<1>9. ASSUME ~contended' PROVE Uncontended'
  <2>0. ~contended /\ Uncontended
    BY <1>0, <1>9 DEF RegistryInv
  <2>1. conn[t].doc = file /\ ~Declares(cfg, n) /\ ~Live(n)
    BY <2>0, <1>1 DEF Uncontended, TidyNew, n
  <2>2. \A m \in Names \ {n} : file'[m] = file[m] /\ Instances(file', m) = Instances(file, m)
    BY <1>6, <2>1 DEF Instances
  <2>a. Instances(cfg, n) = {}
    BY <2>1, <1>0, <1>2, InstanceIsDeclared DEF TypeOK
  <2>3. OneAdds'
    BY <2>0, <1>1, <1>3, <1>5 DEF Uncontended, OneAdds
  <2>4. DeclaredIsInFile'
    BY <2>0, <2>a, <2>2, <1>0 DEF Uncontended, DeclaredIsInFile
  <2>5. LiveIsInFile'
    BY <2>0, <2>1, <2>2, <1>0 DEF Uncontended, LiveIsInFile, Live
  <2>6. BoundIsInFile'
    <3> SUFFICES ASSUME NEW c \in Chats, allowed[c] # NoName
                 PROVE  Declares(file', allowed[c])
      BY <1>0 DEF BoundIsInFile
    <3>1. allowed[c] \in Names
      BY <1>0 DEF TypeOK
    <3>2. Declares(file, allowed[c])
      BY <2>0 DEF Uncontended, BoundIsInFile
    <3> QED
      BY <3>1, <3>2, <2>2, <1>b DEF Declares
  <2>7. ASSUME NEW s \in Tasks PROVE (TidyExisting(s) /\ TidyDeclared(s) /\ TidyNew(s))'
    <3>1. CASE s = t
      BY <3>1, <2>1, <1>0, <1>3, <1>5, <1>6 DEF TidyExisting, TidyDeclared, TidyNew, Live
    <3>2. CASE s # t
      <4>1. TidyExisting(s) /\ TidyDeclared(s) /\ conn[s].mode # "new"
        BY <2>0, <1>1, <3>2 DEF Uncontended, OneAdds
      <4>2. conn'[s] = conn[s]
        BY <3>2, <1>5
      <4>3. TidyExisting(s)'
        <5>1. CASE conn[s].mode = "existing"
          <6>1. conn[s].name \in Names /\ Live(conn[s].name)
            BY <4>1, <5>1, <1>0, ConnIsBusyOrIdle DEF TidyExisting, Busy
          <6>2. Instances(file', conn[s].name) = Instances(file, conn[s].name)
            BY <6>1, <2>1, <2>2
          <6> QED
            BY <4>1, <4>2, <6>1, <6>2, <1>0 DEF TidyExisting, Live
        <5> QED
          BY <4>2, <5>1 DEF TidyExisting
      <4> QED
        BY <4>1, <4>2, <4>3, <1>0 DEF TidyDeclared, TidyNew
    <3> QED
      BY <3>1, <3>2
  <2> QED
    BY <2>3, <2>4, <2>5, <2>6, <2>7 DEF Uncontended
<1> QED
  BY <1>7, <1>8, <1>9 DEF RegistryInv

\* What a task is about to bind or to insert is in the file.
LEMMA CarriedIsInFile ==
    ASSUME TypeOK, Uncontended, NEW t \in Tasks, conn[t].at \in {"allow", "insert"}
    PROVE  conn[t].slot.url \in Instances(file, conn[t].name)
<1>1. conn[t] \in Busy
  BY ConnIsBusyOrIdle
<1>2. TidyExisting(t) /\ TidyDeclared(t) /\ TidyNew(t) /\ DeclaredIsInFile
  BY DEF Uncontended
<1>3. CASE conn[t].mode = "existing"
  BY <1>2, <1>3 DEF TidyExisting
<1>4. CASE conn[t].mode = "declared"
  <2>1. conn[t].name \in Names /\ cfg \in Docs
    BY <1>1 DEF Busy, TypeOK
  <2>2. Declares(cfg, conn[t].name) /\ conn[t].slot = Head(cfg[conn[t].name])
    BY <1>2, <1>4 DEF TidyDeclared
  <2>3. conn[t].slot.url \in Instances(cfg, conn[t].name)
    BY <2>1, <2>2, HeadIsASlot
  <2> QED
    BY <2>1, <2>3, <1>2 DEF DeclaredIsInFile
<1>5. CASE conn[t].mode = "new"
  BY <1>2, <1>5 DEF TidyNew
<1> QED
  BY <1>1, <1>3, <1>4, <1>5 DEF Busy

\* The owner of a slot is bound to it, which by now is in the file.
LEMMA AllowsStep ==
    ASSUME RegistryInv, NEW t \in Tasks, Allows(t)
    PROVE  RegistryInv'
<1> USE DEF boundVars, historyVars
<1> DEFINE n == conn[t].name
<1>0. /\ TypeOK /\ UNCHANGED <<up, file, cfg, registry, starting, phase, boundVars, historyVars>>
      /\ allowed' = [c \in Chats |-> IF c = conn[t].slot.chat THEN n ELSE allowed[c]]
  BY DEF RegistryInv, Allows
<1>1. conn[t] \in Busy /\ conn[t].at = "allow"
  BY <1>0, ConnIsBusyOrIdle DEF Allows
<1>2. n \in Names
  BY <1>1 DEF Busy
<1>3. /\ conn'[t].at = "insert" /\ conn'[t].mode = conn[t].mode /\ conn'[t].name = n
      /\ conn'[t].slot = conn[t].slot
      /\ conn' \in [Tasks -> {Idle} \cup Busy]
      /\ \A s \in Tasks : conn'[s].at \in {"read", "replace"} => conn'[s].mode = "new"
      /\ \A s \in Tasks \ {t} : conn'[s] = conn[s]
  BY <1>0, <1>1, GoesMoves DEF Allows
<1>4. \A c \in Chats : allowed'[c] = n \/ allowed'[c] = allowed[c]
  BY <1>0
<1>5. TypeOK'
  <2>1. allowed' \in [Chats -> Names \cup {NoName}]
    BY <1>0, <1>2 DEF TypeOK
  <2> QED
    BY <2>1, <1>0, <1>3 DEF TypeOK, Busy
<1>6. StartingIsDeclared'
  BY <1>0 DEF RegistryInv, StartingIsDeclared
<1>7. ASSUME ~contended' PROVE Uncontended'
  <2>0. ~contended /\ Uncontended
    BY <1>0, <1>7 DEF RegistryInv
  <2>1. TidyExisting(t) /\ TidyDeclared(t) /\ TidyNew(t)
    BY <2>0 DEF Uncontended
  <2>2. Declares(file, n)
    BY <2>0, <1>0, <1>1, <1>2, CarriedIsInFile, InstanceIsDeclared DEF TypeOK
  <2>3. OneAdds'
    BY <2>0, <1>3 DEF Uncontended, OneAdds
  <2>4. DeclaredIsInFile' /\ LiveIsInFile'
    BY <2>0, <1>0 DEF Uncontended, DeclaredIsInFile, LiveIsInFile, Live
  <2>5. BoundIsInFile'
    BY <2>0, <2>2, <1>0, <1>4 DEF Uncontended, BoundIsInFile
  <2>6. ASSUME NEW s \in Tasks PROVE (TidyExisting(s) /\ TidyDeclared(s) /\ TidyNew(s))'
    <3>1. CASE s = t
      BY <3>1, <2>1, <1>0, <1>1, <1>3 DEF TidyExisting, TidyDeclared, TidyNew, Live
    <3>2. CASE s # t
      <4>1. TidyExisting(s) /\ TidyDeclared(s) /\ TidyNew(s)
        BY <2>0 DEF Uncontended
      <4> QED
        BY <3>2, <4>1, <1>0, <1>3 DEF TidyExisting, TidyDeclared, TidyNew, Live
    <3> QED
      BY <3>1, <3>2
  <2> QED
    BY <2>3, <2>4, <2>5, <2>6 DEF Uncontended
<1> QED
  BY <1>5, <1>6, <1>7 DEF RegistryInv

\* A slot becomes live with the instance the file has for it.
LEMMA InsertsStep ==
    ASSUME RegistryInv, NEW t \in Tasks, Inserts(t)
    PROVE  RegistryInv'
<1> USE DEF boundVars, tableVars, historyVars
<1> DEFINE n == conn[t].name
<1>0. /\ TypeOK /\ UNCHANGED <<up, file, allowed, cfg, starting, phase, boundVars, historyVars>>
      /\ registry' = [registry EXCEPT ![n] = conn[t].slot]
  BY DEF RegistryInv, Inserts
<1>1. conn[t] \in Busy /\ conn[t].at = "insert"
  BY <1>0, ConnIsBusyOrIdle DEF Inserts
<1>2. n \in Names /\ conn[t].slot \in Slot
  BY <1>1 DEF Busy
<1>3. /\ conn' \in [Tasks -> {Idle} \cup Busy]
      /\ \A s \in Tasks : conn'[s].at \in {"read", "replace"} => conn'[s].mode = "new"
      /\ \A s \in Tasks \ {t} : conn'[s] = conn[s]
      /\ conn'[t].mode = "none"
  BY <1>0, ReturnsEnds DEF Inserts
<1>4. TypeOK'
  <2>1. registry' \in Registries
    BY <1>0, <1>2 DEF TypeOK, Registries
  <2> QED
    BY <2>1, <1>0, <1>3 DEF TypeOK, Busy
<1>5. StartingIsDeclared'
  BY <1>0 DEF RegistryInv, StartingIsDeclared
<1>6. ASSUME ~contended' PROVE Uncontended'
  <2>0. ~contended /\ Uncontended
    BY <1>0, <1>6 DEF RegistryInv
  <2>1. TidyExisting(t) /\ TidyDeclared(t) /\ TidyNew(t)
    BY <2>0 DEF Uncontended
  <2>2. conn[t].slot.url \in Instances(file, n)
    BY <2>0, <1>0, <1>1, CarriedIsInFile
  <2>3. ASSUME NEW s \in Tasks, conn'[s].mode = "new" PROVE conn[s].name # n
    <3>1. s # t /\ conn[s].mode = "new"
      BY <2>3, <1>3
    <3>2. conn[t].mode # "new"
      BY <3>1, <2>0 DEF Uncontended, OneAdds
    <3>3. Live(n) \/ Declares(cfg, n)
      BY <3>2, <2>1, <1>1 DEF Busy, TidyExisting, TidyDeclared
    <3>4. TidyNew(s)
      BY <2>0 DEF Uncontended
    <3> QED
      BY <3>1, <3>3, <3>4 DEF TidyNew
  <2>4. \A s \in Tasks : conn'[s] = conn[s] \/ conn'[s].mode = "none"
    BY <1>3
  <2> HIDE DEF n
  <2> QED
    BY <2>0, <2>2, <2>3, <2>4, <1>0, <1>2, RegistryTakes
<1> QED
  BY <1>4, <1>5, <1>6 DEF RegistryInv

-----------------------------------------------------------------------------
(* The rest.                                                               *)

\* Pairing binds a chat to a live slot, which is in the file.
LEMMA PairApproveStep ==
    ASSUME RegistryInv, NEW c \in Chats, NEW n \in Names, PairApprove(c, n)
    PROVE  RegistryInv'
<1> USE DEF boundVars, historyVars
<1>0. /\ TypeOK /\ Live(n) /\ allowed' = [allowed EXCEPT ![c] = n]
      /\ UNCHANGED <<up, file, cfg, registry, starting, conn, phase, boundVars, historyVars>>
  BY DEF RegistryInv, PairApprove
<1>1. TypeOK'
  <2>1. allowed' \in [Chats -> Names \cup {NoName}]
    BY <1>0 DEF TypeOK
  <2> QED
    BY <2>1, <1>0 DEF TypeOK
<1>2. StartingIsDeclared'
  BY <1>0 DEF RegistryInv, StartingIsDeclared
<1>3. ASSUME ~contended' PROVE Uncontended'
  <2>0. Uncontended
    BY <1>0, <1>3 DEF RegistryInv
  <2>1. Declares(file, n)
    <3>1. registry[n].url \in Instances(file, n)
      BY <2>0, <1>0 DEF Uncontended, LiveIsInFile
    <3> QED
      BY <3>1, <1>0, InstanceIsDeclared DEF TypeOK
  <2>2. \A b \in Chats : allowed'[b] = n \/ allowed'[b] = allowed[b]
    BY <1>0 DEF TypeOK
  <2>3. BoundIsInFile'
    BY <2>0, <2>1, <2>2, <1>0 DEF Uncontended, BoundIsInFile
  <2> QED
    BY <2>0, <2>3, <1>0 DEF Uncontended, OneAdds, DeclaredIsInFile, LiveIsInFile,
                            TidyExisting, TidyDeclared, TidyNew, Live
<1> QED
  BY <1>1, <1>2, <1>3 DEF RegistryInv

\* An instance goes down or comes back.
LEMMA FlipStep ==
    ASSUME RegistryInv, NEW u \in Urls, Flip(u)
    PROVE  RegistryInv'
<1> USE DEF tableVars, historyVars
<1>0. /\ TypeOK
      /\ UNCHANGED <<file, allowed, cfg, registry, starting, conn, phase, contended, rivals>>
      /\ connects' = connects /\ crashes' = crashes
  BY DEF RegistryInv, Flip
<1>1. TypeOK'
  <2>1. up' \subseteq Urls /\ flips' \in 0..MaxFlips
    BY <1>0, BoundsAssumption DEF TypeOK, Flip
  <2> QED
    BY <2>1, <1>0 DEF TypeOK
<1>2. StartingIsDeclared'
  BY <1>0 DEF RegistryInv, StartingIsDeclared
<1>3. ASSUME ~contended' PROVE Uncontended'
  <2>0. Uncontended
    BY <1>0, <1>3 DEF RegistryInv
  <2> QED
    BY <2>0, <1>0 DEF Uncontended, OneAdds, DeclaredIsInFile, LiveIsInFile, BoundIsInFile,
                      TidyExisting, TidyDeclared, TidyNew, Live
<1> QED
  BY <1>1, <1>2, <1>3 DEF RegistryInv

\* What startup binds is in the file, if what was bound before is.
LEMMA SeededBindings ==
    ASSUME NEW doc \in Docs, NEW old \in [Chats -> Names \cup {NoName}],
           \A c \in Chats : old[c] # NoName => Declares(doc, old[c]),
           NEW b \in Seeded(doc, old)
    PROVE  /\ b \in [Chats -> Names \cup {NoName}]
           /\ \A c \in Chats : b[c] # NoName => Declares(doc, b[c])
BY DEF Seeded, Declares

\* What startup binds are names of slots.
LEMMA SeededType ==
    ASSUME NEW doc, NEW old, NEW b \in Seeded(doc, old)
    PROVE  b \in [Chats -> Names \cup {NoName}]
BY DEF Seeded

\* A startup task for each slot of the file.
LEMMA WaitingFor ==
    ASSUME NEW doc \in Docs
    PROVE  /\ Waiting(doc) \in [Places -> {"none", "waiting", "ready"}]
           /\ \A p \in Places : Waiting(doc)[p] # "none" => p \in Written(doc)
BY DEF Waiting

\* A restart, on a valid file and on one that is refused.
LEMMA RestartStep ==
    ASSUME RegistryInv, Restart
    PROVE  RegistryInv'
<1>0. /\ TypeOK /\ UNCHANGED <<up, file, connects, flips, contended, rivals>>
      /\ registry' = NoneLive /\ conn' = [t \in Tasks |-> Idle]
  BY DEF RegistryInv, Restart, historyVars
<1>1. crashes' \in 0..MaxCrashes
  BY <1>0, BoundsAssumption DEF TypeOK, Restart
<1>2. /\ cfg' \in Docs /\ file' \in Docs /\ phase' \in {"running", "refused"}
      /\ starting' \in [Places -> {"none", "waiting", "ready"}]
      /\ allowed' \in [Chats -> Names \cup {NoName}]
      /\ StartingIsDeclared'
      /\ ~contended /\ Uncontended => DeclaredIsInFile' /\ BoundIsInFile'
  <2>1. CASE Valid(file)
    <3>1. cfg' = file /\ starting' = Waiting(file) /\ allowed' \in Seeded(file, allowed)
          /\ phase' = phase
      BY <2>1 DEF Restart
    <3>2. file \in Docs /\ allowed \in [Chats -> Names \cup {NoName}]
      BY <1>0 DEF TypeOK
    <3>3. StartingIsDeclared' /\ starting' \in [Places -> {"none", "waiting", "ready"}]
      BY <3>1, <3>2, WaitingFor DEF StartingIsDeclared
    <3>4. allowed' \in [Chats -> Names \cup {NoName}]
      BY <3>1, SeededType
    <3>5. ASSUME Uncontended PROVE DeclaredIsInFile' /\ BoundIsInFile'
      <4>1. \A c \in Chats : allowed[c] # NoName => Declares(file, allowed[c])
        BY <3>5 DEF Uncontended, BoundIsInFile
      <4>2. \A c \in Chats : allowed'[c] # NoName => Declares(file, allowed'[c])
        BY <3>1, <3>2, <4>1, SeededBindings
      <4> QED
        BY <3>1, <4>2, <1>0 DEF DeclaredIsInFile, BoundIsInFile
    <3> QED
      BY <3>1, <3>2, <3>3, <3>4, <3>5, <1>0 DEF TypeOK
  <2>2. CASE ~Valid(file)
    <3>1. UNCHANGED <<cfg, allowed>> /\ phase' = "refused" /\ starting' = Waiting(NoDoc)
      BY <2>2 DEF Restart
    <3>2. \A p \in Places : starting'[p] = "none"
      <4>1. Written(NoDoc) = {}
        BY DeclaredAssumption DEF Written, Places, NoDoc
      <4> QED
        BY <3>1, <4>1 DEF Waiting
    <3>3. starting' \in [Places -> {"none", "waiting", "ready"}]
      BY <3>1, NoDocIsADoc, WaitingFor
    <3> QED
      BY <3>1, <3>2, <3>3, <1>0 DEF TypeOK, StartingIsDeclared, Uncontended,
                                    DeclaredIsInFile, BoundIsInFile
  <2> QED
    BY <2>1, <2>2
<1>3. /\ OneAdds' /\ LiveIsInFile'
      /\ \A t \in Tasks : (TidyExisting(t) /\ TidyDeclared(t) /\ TidyNew(t))'
      /\ registry' \in Registries
      /\ conn' \in [Tasks -> {Idle} \cup Busy]
      /\ \A t \in Tasks : conn'[t].at \in {"read", "replace"} => conn'[t].mode = "new"
  <2>1. Idle.at = "none" /\ Idle.mode = "none"
    BY DEF Idle, Doing
  <2>2. \A t \in Tasks : conn'[t].at = "none" /\ conn'[t].mode = "none"
    BY <1>0, <2>1
  <2>3. \A n \in Names : ~(Live(n)')
    BY <1>0 DEF Live, NoneLive
  <2> QED
    BY <2>2, <2>3, <1>0, NoneLiveIsARegistry
      DEF OneAdds, LiveIsInFile, TidyExisting, TidyDeclared, TidyNew
<1>4. TypeOK'
  BY <1>0, <1>1, <1>2, <1>3 DEF TypeOK, Busy
<1> QED
  BY <1>0, <1>2, <1>3, <1>4 DEF RegistryInv, Uncontended

\* Nothing is under way and nothing is live: what a start finds.
LEMMA FreshlyStarted ==
    ASSUME registry = NoneLive, conn = [t \in Tasks |-> Idle], file \in Docs, cfg \in Docs
    PROVE  /\ OneAdds /\ LiveIsInFile
           /\ \A t \in Tasks : TidyExisting(t) /\ TidyDeclared(t) /\ TidyNew(t)
           /\ registry \in Registries
           /\ conn \in [Tasks -> {Idle} \cup Busy]
           /\ \A t \in Tasks : conn[t].at \in {"read", "replace"} => conn[t].mode = "new"
<1>1. Idle.at = "none" /\ Idle.mode = "none"
  BY DEF Idle, Doing
<1>2. \A t \in Tasks : conn[t].at = "none" /\ conn[t].mode = "none"
  BY <1>1
<1>3. \A n \in Names : ~Live(n)
  BY DEF Live, NoneLive
<1>4. registry \in Registries
  BY NoneLiveIsARegistry
<1>5. conn \in [Tasks -> {Idle} \cup Busy]
  OBVIOUS
<1> QED
  BY <1>2, <1>3, <1>4, <1>5 DEF OneAdds, LiveIsInFile, TidyExisting, TidyDeclared, TidyNew

\* The first start satisfies the invariant.
LEMMA RegistryStarts == Init => RegistryInv
<1> SUFFICES ASSUME Init PROVE RegistryInv
  OBVIOUS
<1>0. /\ file \in Declared /\ cfg = file /\ registry = NoneLive /\ conn = [t \in Tasks |-> Idle]
      /\ starting = Waiting(file) /\ allowed \in Seeded(file, [c \in Chats |-> NoName])
      /\ up \subseteq Urls /\ phase = "running" /\ contended = FALSE /\ rivals = {}
      /\ connects = 0 /\ flips = 0 /\ crashes = 0
  BY DEF Init
<1>1. file \in Docs /\ cfg \in Docs
  BY <1>0, DeclaredAssumption
<1>2. /\ OneAdds /\ LiveIsInFile
      /\ \A t \in Tasks : TidyExisting(t) /\ TidyDeclared(t) /\ TidyNew(t)
      /\ registry \in Registries
      /\ conn \in [Tasks -> {Idle} \cup Busy]
      /\ \A t \in Tasks : conn[t].at \in {"read", "replace"} => conn[t].mode = "new"
  BY <1>0, <1>1, FreshlyStarted
<1>3. /\ starting \in [Places -> {"none", "waiting", "ready"}]
      /\ StartingIsDeclared
  BY <1>0, <1>1, WaitingFor DEF StartingIsDeclared
<1>4. allowed \in [Chats -> Names \cup {NoName}] /\ BoundIsInFile
  BY <1>0, <1>1, SeededBindings DEF BoundIsInFile
<1>5. DeclaredIsInFile
  BY <1>0 DEF DeclaredIsInFile
<1>6. TypeOK
  <2>1. connects \in 0..MaxConnects /\ flips \in 0..MaxFlips /\ crashes \in 0..MaxCrashes
    BY <1>0, BoundsAssumption
  <2>2. /\ up \subseteq Urls /\ phase \in {"running", "refused"}
        /\ contended \in BOOLEAN /\ rivals \in SUBSET Names
    BY <1>0
  <2> QED
    BY <2>1, <2>2, <1>1, <1>2, <1>3, <1>4 DEF TypeOK, Busy
<1> QED
  BY <1>2, <1>3, <1>4, <1>5, <1>6 DEF RegistryInv, Uncontended

\* Every step keeps it.
LEMMA RegistryStep == RegistryInv /\ [Next]_vars => RegistryInv'
<1> SUFFICES ASSUME RegistryInv, [Next]_vars PROVE RegistryInv'
  OBVIOUS
<1>0. ASSUME NEW p \in Places, StartupReady(p) \/ StartupInserts(p) \/ StartupGivesUp(p)
      PROVE  RegistryInv'
  BY <1>0, StartupSteps, StartupInsertsStep
<1>1. ASSUME NEW n \in Names, TurnFails(n) PROVE RegistryInv'
  BY <1>1, TurnFailsStep
<1>2. ASSUME NEW a \in Admins, NEW n \in Names, NEW s \in Slot \cup {NoSlot}, Connect(a, n, s)
      PROVE  RegistryInv'
  BY <1>2, ConnectStep
<1>3. ASSUME NEW t \in Tasks,
             \/ Probe(t) \/ Ready(t) \/ NotReady(t)
             \/ ReadsFile(t) \/ ReplacesFile(t) \/ PersistFails(t)
             \/ Allows(t) \/ AllowFails(t) \/ Inserts(t)
      PROVE  RegistryInv'
  BY <1>3, ProbeStep, ReadyStep, FailingSteps, ReadsFileStep, ReplacesFileStep, AllowsStep,
     InsertsStep
<1>4. ASSUME NEW c \in Chats, NEW n \in Names, PairApprove(c, n) PROVE RegistryInv'
  BY <1>4, PairApproveStep
<1>5. ASSUME NEW u \in Urls, Flip(u) PROVE RegistryInv'
  BY <1>5, FlipStep
<1>6. CASE Restart
  BY <1>6, RestartStep
<1>7. CASE UNCHANGED vars
  BY <1>7 DEF vars, tableVars, boundVars, historyVars, RegistryInv, TypeOK, StartingIsDeclared, Uncontended,
      OneAdds, DeclaredIsInFile, LiveIsInFile, BoundIsInFile, TidyExisting, TidyDeclared, TidyNew,
      Live
<1> QED
  BY <1>0, <1>1, <1>2, <1>3, <1>4, <1>5, <1>6, <1>7 DEF Next

\* So it holds always.
LEMMA RegistryIsInvariant == Spec => []RegistryInv
BY RegistryStarts, RegistryStep, PTL DEF Spec

\* The variables of SlotRegistry keep their types, and only a request that adds a
\* slot gets to the file (bot.rs, ensure_connected_impl).
THEOREM SlotRegistryTypeCorrect == Spec => []TypeOK
<1>1. RegistryInv => TypeOK
  BY DEF RegistryInv
<1> QED
  BY <1>1, RegistryIsInvariant, PTL

\* "config is the single source of truth for slots" (bot.rs:93-96): whatever
\* connects, reconnects, startup tasks, failures and restarts there are, in any
\* number, a live slot and a slot a chat is bound to are in the file, unless two
\* adds have overlapped.
THEOREM TheFileIsTheTruth == Spec => []FileIsTheTruth
<1>1. RegistryInv => FileIsTheTruth
  BY DEF RegistryInv, Uncontended, LiveIsInFile, BoundIsInFile, FileIsTheTruth
<1> QED
  BY <1>1, RegistryIsInvariant, PTL

-----------------------------------------------------------------------------
(* A live slot stays with its instance.                                    *)

\* A name that is added by one connect at a time, and not declared twice.
Single(n) == n \notin rivals /\ ~Twice(n)

\* Of such a name one task at most adds the slot,
OneAddsIt ==
    \A s, t \in Tasks :
        /\ conn[s].mode = "new" /\ conn[t].mode = "new"
        /\ conn[s].name = conn[t].name /\ Single(conn[s].name)
        => s = t

\* what is live has the instance that was loaded, if one was,
LiveAsLoaded ==
    \A n \in Names :
        Single(n) /\ Live(n) /\ Declares(cfg, n) => registry[n].url = Head(cfg[n]).url

\* a task that reconnects it carries its instance,
KeepsExisting(t) ==
    conn[t].mode = "existing" =>
        /\ Live(conn[t].name)
        /\ Single(conn[t].name) => registry[conn[t].name].url = conn[t].slot.url

\* a task that brings it up carries the instance that was loaded,
KeepsDeclared(t) ==
    conn[t].mode = "declared" =>
        Declares(cfg, conn[t].name) /\ conn[t].slot = Head(cfg[conn[t].name])

\* and a task that adds it finds nothing declared, nor live.
KeepsNew(t) ==
    conn[t].mode = "new" =>
        /\ ~Declares(cfg, conn[t].name)
        /\ Single(conn[t].name) => ~Live(conn[t].name)

Keeps(t) == KeepsExisting(t) /\ KeepsDeclared(t) /\ KeepsNew(t)

\* The inductive invariant of InstanceIsFixed, next to RegistryInv.
FixedInv == OneAddsIt /\ LiveAsLoaded /\ \A t \in Tasks : Keeps(t)

\* The step that InstanceIsFixed allows.
FixedStep ==
    \A n \in Names \ rivals' :
        ~Twice(n) /\ Live(n) /\ registry'[n] # NoSlot
            => registry'[n].url = registry[n].url

\* The step that FixedInv and FixedStep are proved of.
Kept == FixedInv' /\ FixedStep

\* A task that goes on keeps what it set out to do, a task that returns has nothing.
GoesOn(t) ==
    \/ /\ conn'[t].mode = conn[t].mode /\ conn'[t].name = conn[t].name
       /\ conn'[t].slot = conn[t].slot
    \/ conn'[t].mode = "none"

\* A step at which tasks only go on or return.
LEMMA TasksGoOn ==
    ASSUME FixedInv, UNCHANGED <<cfg, registry, rivals>>, \A t \in Tasks : GoesOn(t)
    PROVE  Kept
<1>1. OneAddsIt'
  BY DEF FixedInv, OneAddsIt, GoesOn, Single, Twice
<1>2. LiveAsLoaded'
  BY DEF FixedInv, LiveAsLoaded, Single, Twice, Live
<1>3. ASSUME NEW t \in Tasks PROVE Keeps(t)'
  <2>1. Keeps(t) /\ GoesOn(t)
    BY DEF FixedInv
  <2> QED
    BY <2>1 DEF Keeps, KeepsExisting, KeepsDeclared, KeepsNew, GoesOn, Single, Twice, Live
<1>4. FixedStep
  BY DEF FixedStep
<1> QED
  BY <1>1, <1>2, <1>3, <1>4 DEF Kept, FixedInv

\* A slot becomes live with the instance it has, if it has one already.
LEMMA SlotInserted ==
    ASSUME TypeOK, FixedInv, UNCHANGED <<cfg, rivals>>, \A t \in Tasks : GoesOn(t),
           NEW n \in Names, NEW d \in Slot, registry' = [registry EXCEPT ![n] = d],
           Single(n) /\ Live(n) => registry[n].url = d.url,
           Single(n) /\ Declares(cfg, n) => d.url = Head(cfg[n]).url,
           \A t \in Tasks : conn'[t].mode = "new" => ~(Single(n) /\ conn[t].name = n)
    PROVE  Kept
<1>1. registry'[n] = d /\ \A m \in Names \ {n} : registry'[m] = registry[m]
  BY DEF TypeOK, Registries
<1>2. Live(n)' /\ \A m \in Names : Live(m) => Live(m)'
  BY <1>1, NullsAreNotSlots DEF Live
<1>3. \A m \in Names : Single(m) /\ Live(m) => registry'[m].url = registry[m].url
  BY <1>1
<1>4. \A m : Single(m)' <=> Single(m)
  BY DEF Single, Twice
<1>5. OneAddsIt'
  BY <1>4 DEF FixedInv, OneAddsIt, GoesOn
<1>6. LiveAsLoaded'
  <2> SUFFICES ASSUME NEW m \in Names, Single(m), Live(m)', Declares(cfg, m)
               PROVE  registry'[m].url = Head(cfg[m]).url
    BY <1>4 DEF LiveAsLoaded
  <2>1. CASE m = n
    BY <2>1, <1>1
  <2>2. CASE m # n
    BY <2>2, <1>1 DEF FixedInv, LiveAsLoaded, Live
  <2> QED
    BY <2>1, <2>2
<1>7. ASSUME NEW t \in Tasks, conn'[t].mode # "none" PROVE Keeps(t)'
  <2>1. /\ conn'[t].mode = conn[t].mode /\ conn'[t].name = conn[t].name
        /\ conn'[t].slot = conn[t].slot
    BY <1>7 DEF GoesOn
  <2>2. conn[t].name \in Names
    BY <1>7, <2>1, ConnIsBusyOrIdle DEF Busy
  <2>3. KeepsExisting(t) /\ KeepsDeclared(t) /\ KeepsNew(t)
    BY DEF FixedInv, Keeps
  <2>4. KeepsExisting(t)'
    BY <2>1, <2>2, <2>3, <1>2, <1>3, <1>4 DEF KeepsExisting
  <2>5. KeepsDeclared(t)'
    BY <2>1, <2>3 DEF KeepsDeclared
  <2>6. KeepsNew(t)'
    BY <2>1, <2>2, <2>3, <1>1, <1>4 DEF KeepsNew, Live
  <2> QED
    BY <2>4, <2>5, <2>6 DEF Keeps
<1>8. ASSUME NEW t \in Tasks, conn'[t].mode = "none" PROVE Keeps(t)'
  BY <1>8 DEF Keeps, KeepsExisting, KeepsDeclared, KeepsNew
<1>9. FixedStep
  BY <1>3 DEF FixedStep, Single
<1> QED
  BY <1>5, <1>6, <1>7, <1>8, <1>9 DEF Kept, FixedInv

\* A startup task inserts the only table of the name, which was loaded.
LEMMA StartupInsertsKeeps ==
    ASSUME RegistryInv, FixedInv, NEW p \in Places, StartupInserts(p)
    PROVE  Kept
<1> DEFINE n == p[1]
           d == Table(cfg, p)
<1>1. TypeOK /\ p \in Written(cfg) /\ cfg \in Docs /\ n \in Names
  BY DEF RegistryInv, StartingIsDeclared, StartupInserts, TypeOK, Places
<1>2. d \in Slot /\ Declares(cfg, n)
  BY <1>1, TableIsASlot
<1>3. registry' = [registry EXCEPT ![n] = d] /\ UNCHANGED <<cfg, conn, rivals>>
  BY DEF StartupInserts, historyVars
<1>4. Single(n) => d = Head(cfg[n])
  <2>1. cfg[n] \in Seq(Slot) /\ p[2] \in Nat /\ p[2] >= 1 /\ p[2] <= Len(cfg[n])
    BY <1>1, DeclaredAssumption DEF Docs, Written, Places
  <2>a. Len(cfg[n]) \in Nat
    BY <2>1
  <2> SUFFICES ASSUME ~Twice(n) PROVE d = Head(cfg[n])
    BY DEF Single
  <2>2. p[2] = 1 /\ Len(cfg[n]) = 1
    <3> DEFINE i == p[2]
               l == Len(cfg[n])
    <3>1. ~(l > 1) /\ i \in Nat /\ l \in Nat /\ i >= 1 /\ i <= l
      BY <2>1, <2>a DEF Twice
    <3> HIDE DEF i, l
    <3>2. i = 1 /\ l = 1
      BY <3>1
    <3> QED
      BY <3>2 DEF i, l
  <2>3. Head(cfg[n]) = cfg[n][1]
    BY <2>1, <2>2
  <2> QED
    BY <2>2, <2>3 DEF Table
<1>5. Single(n) /\ Live(n) => registry[n].url = d.url
  BY <1>1, <1>2, <1>4 DEF FixedInv, LiveAsLoaded
<1>6. \A t \in Tasks : conn'[t].mode = "new" => conn[t].name # n
  BY <1>2, <1>3 DEF FixedInv, Keeps, KeepsNew
<1>7. \A t \in Tasks : GoesOn(t)
  BY <1>3 DEF GoesOn
<1> HIDE DEF n, d
<1> QED
  BY <1>1, <1>2, <1>3, <1>4, <1>5, <1>6, <1>7, SlotInserted

\* A task inserts what it carries.
LEMMA InsertsKeeps ==
    ASSUME RegistryInv, FixedInv, NEW t \in Tasks, Inserts(t)
    PROVE  Kept
<1> DEFINE n == conn[t].name
           d == conn[t].slot
<1>1. TypeOK /\ conn[t] \in Busy
  BY ConnIsBusyOrIdle DEF RegistryInv, Inserts
<1>2. n \in Names /\ d \in Slot /\ conn[t].mode \in {"existing", "declared", "new"}
  BY <1>1 DEF Busy
<1>3. registry' = [registry EXCEPT ![n] = d] /\ UNCHANGED <<cfg, rivals>>
  BY DEF Inserts, historyVars
<1>4. conn'[t].mode = "none" /\ \A o \in Tasks \ {t} : conn'[o] = conn[o]
  BY <1>1, ReturnsEnds DEF Inserts
<1>5. OneAddsIt /\ LiveAsLoaded /\ KeepsExisting(t) /\ KeepsDeclared(t) /\ KeepsNew(t)
  BY DEF FixedInv, Keeps
<1>6. Single(n) /\ Live(n) => registry[n].url = d.url
  BY <1>2, <1>5 DEF LiveAsLoaded, KeepsExisting, KeepsDeclared, KeepsNew
<1>7. Single(n) /\ Declares(cfg, n) => d.url = Head(cfg[n]).url
  BY <1>2, <1>5, <1>6 DEF LiveAsLoaded, KeepsExisting, KeepsDeclared, KeepsNew
<1>8. ASSUME NEW o \in Tasks, conn'[o].mode = "new", Single(n), conn[o].name = n PROVE FALSE
  <2>1. o # t /\ conn[o].mode = "new" /\ KeepsNew(o)
    BY <1>4, <1>8 DEF FixedInv, Keeps
  <2>2. ~Declares(cfg, n) /\ ~Live(n)
    BY <1>8, <2>1 DEF KeepsNew
  <2>3. conn[t].mode = "new"
    BY <1>2, <1>5, <2>2 DEF KeepsExisting, KeepsDeclared
  <2> QED
    BY <1>5, <1>8, <2>1, <2>3 DEF OneAddsIt
<1>9. \A o \in Tasks : GoesOn(o)
  BY <1>4 DEF GoesOn
<1> HIDE DEF n, d
<1> QED
  BY <1>1, <1>2, <1>3, <1>6, <1>7, <1>8, <1>9, SlotInserted

\* A request that starts sets out with what the name has now.
LEMMA BeginKeeps ==
    ASSUME RegistryInv, FixedInv, NEW t \in Tasks, NEW n \in Names, NEW s \in Slot \cup {NoSlot},
           Begin(t, n, s)
    PROVE  Kept
<1>0. TypeOK /\ UNCHANGED <<cfg, registry>>
  BY DEF RegistryInv, Begin
<1>1. PICK at \in {"probe", "bringup"}, mode \in {"existing", "declared", "new"}, d \in Slot :
         Sets(t, n, at, mode, d)
  BY <1>0, BeginSets
<1>2. rivals \subseteq rivals'
  BY DEF Begin, historyVars
<1>3. \A m : Single(m)' => Single(m)
  <2>1. \A m : Twice(m)' <=> Twice(m)
    BY <1>0 DEF Twice
  <2> QED
    BY <1>2, <2>1 DEF Single
<1>4. /\ conn'[t].mode = mode /\ conn'[t].name = n /\ conn'[t].slot = d
      /\ \A o \in Tasks \ {t} : conn'[o] = conn[o]
  <2>1. conn' = [conn EXCEPT ![t] = Doing(at, mode, n, d)]
    BY <1>1 DEF Sets
  <2>2. conn'[t] = Doing(at, mode, n, d) /\ \A o \in Tasks \ {t} : conn'[o] = conn[o]
    BY <2>1, <1>0 DEF TypeOK
  <2> QED
    BY <2>2 DEF Doing
<1>5. mode = "new" /\ Single(n)' => \A o \in Tasks : conn[o].mode = "new" => conn[o].name # n
  BY <1>1 DEF Sets, Single
<1>6. OneAddsIt'
  <2> SUFFICES ASSUME NEW a \in Tasks, NEW b \in Tasks,
                      conn'[a].mode = "new", conn'[b].mode = "new",
                      conn'[a].name = conn'[b].name, Single(conn[a].name)'
               PROVE  a = b
    BY DEF OneAddsIt
  <2>1. CASE a # t /\ b # t
    BY <2>1, <1>3, <1>4 DEF FixedInv, OneAddsIt
  <2>2. CASE a = t /\ b # t
    BY <2>2, <1>4, <1>5
  <2>3. CASE a # t /\ b = t
    BY <2>3, <1>4, <1>5
  <2> QED
    BY <2>1, <2>2, <2>3
<1>7. LiveAsLoaded'
  BY <1>0, <1>3 DEF FixedInv, LiveAsLoaded, Live
<1>8. ASSUME NEW o \in Tasks PROVE Keeps(o)'
  <2>1. CASE o = t
    BY <2>1, <1>0, <1>1, <1>4 DEF Sets, Keeps, KeepsExisting, KeepsDeclared, KeepsNew, Live
  <2>2. CASE o # t
    <3>1. Keeps(o) /\ conn'[o] = conn[o]
      BY <2>2, <1>4 DEF FixedInv
    <3> QED
      BY <3>1, <1>0, <1>3 DEF Keeps, KeepsExisting, KeepsDeclared, KeepsNew, Live
  <2> QED
    BY <2>1, <2>2
<1>9. FixedStep
  BY <1>0 DEF FixedStep
<1> QED
  BY <1>6, <1>7, <1>8, <1>9 DEF Kept, FixedInv

\* After a restart nothing is live and nothing is under way.
LEMMA FreshlyFixed ==
    ASSUME registry = NoneLive, conn = [t \in Tasks |-> Idle]
    PROVE  FixedInv
<1>1. Idle.mode = "none"
  BY DEF Idle, Doing
<1>2. \A t \in Tasks : conn[t].mode = "none"
  BY <1>1
<1>3. \A n \in Names : ~Live(n)
  BY DEF Live, NoneLive
<1> QED
  BY <1>2, <1>3 DEF FixedInv, OneAddsIt, LiveAsLoaded, Keeps, KeepsExisting, KeepsDeclared,
                    KeepsNew

\* A restart takes what is live out of the registry, and no slot changes.
LEMMA RestartKeeps == ASSUME Restart PROVE Kept
<1>1. registry' = NoneLive /\ conn' = [t \in Tasks |-> Idle]
  BY DEF Restart
<1>2. Idle.mode = "none"
  BY DEF Idle, Doing
<1>3. \A t \in Tasks : conn'[t].mode = "none"
  BY <1>1, <1>2
<1>4. \A n \in Names : ~(Live(n)')
  BY <1>1 DEF Live, NoneLive
<1>5. FixedInv'
  BY <1>3, <1>4 DEF FixedInv, OneAddsIt, LiveAsLoaded, Keeps, KeepsExisting, KeepsDeclared,
                    KeepsNew
<1>6. FixedStep
  BY <1>1 DEF FixedStep, NoneLive
<1> QED
  BY <1>5, <1>6 DEF Kept

\* The other steps of ensure_connected_impl.
LEMMA TaskStepsKeep ==
    ASSUME RegistryInv, FixedInv, NEW t \in Tasks,
           \/ Probe(t) \/ Ready(t) \/ NotReady(t)
           \/ ReadsFile(t) \/ ReplacesFile(t) \/ PersistFails(t)
           \/ Allows(t) \/ AllowFails(t)
    PROVE  Kept
<1>0. TypeOK
  BY DEF RegistryInv
<1>1. UNCHANGED <<cfg, registry, rivals>>
  BY DEF Probe, Ready, NotReady, ReadsFile, ReplacesFile, PersistFails, Allows, AllowFails,
         historyVars
<1>2. conn[t] \in Busy
  BY <1>0, ConnIsBusyOrIdle
    DEF Probe, Ready, NotReady, ReadsFile, ReplacesFile, PersistFails, Allows, AllowFails
<1>3. ASSUME NEW r, conn' = [conn EXCEPT ![t] = r], r.mode \in {conn[t].mode, "none"},
             r.mode = conn[t].mode => r.name = conn[t].name /\ r.slot = conn[t].slot
      PROVE  \A o \in Tasks : GoesOn(o)
  <2>1. conn'[t] = r /\ \A o \in Tasks \ {t} : conn'[o] = conn[o]
    BY <1>0, <1>3 DEF TypeOK
  <2> QED
    BY <2>1, <1>3 DEF GoesOn
<1>4. \A o \in Tasks : GoesOn(o)
  <2>1. CASE Returns(t)
    <3>1. Idle.mode = "none" /\ conn' = [conn EXCEPT ![t] = Idle]
      BY <2>1 DEF Returns, Idle, Doing
    <3>2. conn[t].mode # "none"
      BY <1>2 DEF Busy
    <3> QED
      BY <3>1, <3>2, <1>3
  <2>2. ASSUME NEW at, Goes(t, at) PROVE \A o \in Tasks : GoesOn(o)
    <3> DEFINE r == [conn[t] EXCEPT !.at = at]
    <3>1. conn' = [conn EXCEPT ![t] = r]
      BY <2>2 DEF Goes
    <3>2. r.mode = conn[t].mode /\ r.name = conn[t].name /\ r.slot = conn[t].slot
      BY <1>2 DEF Busy
    <3> HIDE DEF r
    <3> QED
      BY <3>1, <3>2, <1>3
  <2>3. ASSUME NEW at, NEW doc, conn' = [conn EXCEPT ![t].at = at, ![t].doc = doc]
        PROVE  \A o \in Tasks : GoesOn(o)
    <3> DEFINE r == [conn[t] EXCEPT !.at = at, !.doc = doc]
    <3>1. conn' = [conn EXCEPT ![t] = r]
      BY <2>3
    <3>2. r.mode = conn[t].mode /\ r.name = conn[t].name /\ r.slot = conn[t].slot
      BY <1>2 DEF Busy
    <3> HIDE DEF r
    <3> QED
      BY <3>1, <3>2, <1>3
  <2>4. Returns(t) \/ (\E at : Goes(t, at))
        \/ (\E at, doc : conn' = [conn EXCEPT ![t].at = at, ![t].doc = doc])
    BY DEF Probe, Ready, NotReady, ReadsFile, ReplacesFile, PersistFails, Allows, AllowFails
  <2> QED
    BY <2>1, <2>2, <2>3, <2>4
<1> QED
  BY <1>1, <1>4, TasksGoOn

\* Every step is one of these.
LEMMA InstanceStays == RegistryInv /\ FixedInv /\ [Next]_vars => Kept
<1> SUFFICES ASSUME RegistryInv, FixedInv, [Next]_vars PROVE Kept
  OBVIOUS
<1>1. ASSUME UNCHANGED <<cfg, registry, rivals, conn>> PROVE Kept
  BY <1>1, TasksGoOn DEF GoesOn
<1>2. ASSUME NEW p \in Places, StartupReady(p) \/ StartupInserts(p) \/ StartupGivesUp(p)
      PROVE  Kept
  BY <1>1, <1>2, StartupInsertsKeeps DEF StartupReady, StartupGivesUp, historyVars
<1>3. ASSUME NEW n \in Names, TurnFails(n) PROVE Kept
  BY <1>3, BeginKeeps DEF TurnFails, Tasks
<1>4. ASSUME NEW a \in Admins, NEW n \in Names, NEW s \in Slot \cup {NoSlot}, Connect(a, n, s)
      PROVE  Kept
  BY <1>4, BeginKeeps DEF Connect, Tasks
<1>5. ASSUME NEW t \in Tasks,
             \/ Probe(t) \/ Ready(t) \/ NotReady(t)
             \/ ReadsFile(t) \/ ReplacesFile(t) \/ PersistFails(t)
             \/ Allows(t) \/ AllowFails(t) \/ Inserts(t)
      PROVE  Kept
  BY <1>5, TaskStepsKeep, InsertsKeeps
<1>6. ASSUME NEW c \in Chats, NEW n \in Names, PairApprove(c, n) PROVE Kept
  BY <1>1, <1>6 DEF PairApprove, historyVars
<1>7. ASSUME NEW u \in Urls, Flip(u) PROVE Kept
  BY <1>1, <1>7 DEF Flip, historyVars
<1>8. CASE Restart
  BY <1>8, RestartKeeps
<1>9. CASE UNCHANGED vars
  BY <1>1, <1>9 DEF vars, historyVars
<1> QED
  BY <1>2, <1>3, <1>4, <1>5, <1>6, <1>7, <1>8, <1>9 DEF Next

\* A live slot stays with its instance, through reconnects, late startup tasks and
\* adds of other names, so that the event stream a turn has taken and the client it
\* runs on are of the same instance (bot.rs:1209-1254).  Two adds of the very name
\* at the same time, and a file with two slots of the name, which Config::validate
\* accepts (config.rs:499-513), are excepted: they do change it.
THEOREM InstancesStay == Spec => InstanceIsFixed
<1>1. Init => FixedInv
  BY FreshlyFixed DEF Init
<1>2. RegistryInv /\ FixedInv /\ [Next]_vars => FixedInv' /\ [FixedStep]_vars
  BY InstanceStays DEF Kept
<1>3. Spec => [][FixedStep]_vars
  BY <1>1, <1>2, RegistryIsInvariant, PTL DEF Spec
<1>4. InstanceIsFixed <=> [][FixedStep]_vars
  BY DEF InstanceIsFixed, FixedStep
<1> QED
  BY <1>3, <1>4

-----------------------------------------------------------------------------
(* AdminChannel.                                                           *)

\* What a command has been told, at each place it can be at, and what was done.
ToldAsDone(c) ==
    /\ request[c] \in {"idle", "queued", "reading", "handling"} =>
          done[c] = 0 /\ outcome[c] = "none"
    /\ request[c] = "finishing" => done[c] = 1 /\ outcome[c] = "none"
    /\ request[c] = "replying" =>
          \/ outcome[c] = "ok" /\ done[c] = 1
          \/ outcome[c] = "error" /\ done[c] = 0
          \/ outcome[c] = "error" /\ done[c] = 1 /\ kind[c] # "change"
    /\ request[c] = "settled" =>
          /\ done[c] \in {0, 1}
          /\ outcome[c] = "ok" => done[c] = 1
          /\ outcome[c] = "nobody" => done[c] = 0
          /\ outcome[c] = "error" /\ done[c] = 1 => kind[c] # "change"

\* The inductive invariant for commands.
ChannelInv == A!TypeOK /\ \A c \in Commands : ToldAsDone(c)

\* The types of a command's variables,
CommandTypes ==
    /\ request \in [Commands -> A!Steps] /\ via \in [Commands -> Daemons \cup {Nobody}]
    /\ transport \in [Commands -> {"socket", "http"}] /\ kind \in [Commands -> A!Kinds]
    /\ done \in [Commands -> Nat] /\ outcome \in [Commands -> A!Outcomes]

\* and of the daemons'.
DaemonTypes ==
    /\ daemon \in [Daemons -> A!Phases]
    /\ socket \in [Daemons -> A!Tasks] /\ http \in [Daemons -> A!Tasks]
    /\ aborted \subseteq Daemons /\ inode \in Daemons \cup {Nobody}
    /\ faults \in 0..MaxFaults

\* Together they are TypeOK.
LEMMA ChannelTypes == A!TypeOK <=> DaemonTypes /\ CommandTypes
BY DEF A!TypeOK, DaemonTypes, CommandTypes

\* A system call that fails is counted.
LEMMA FaultCounts ==
    ASSUME DaemonTypes, A!Fault
    PROVE  faults' \in 0..MaxFaults /\ faults' > 0
BY ChannelAssumption DEF A!Fault, DaemonTypes, A!AdminChannelAssumption

\* Steps of a daemon keep the types of the daemons' variables.
LEMMA DaemonStepTypes ==
    ASSUME DaemonTypes, NEW d \in Daemons,
           A!Start(d) \/ A!Stop(d) \/ A!Crash(d) \/ A!Runs(d)
    PROVE  DaemonTypes'
<1>1. CASE A!Start(d)
  BY <1>1 DEF A!Start, DaemonTypes, A!Phases
<1>2. CASE A!Stop(d)
  BY <1>2 DEF A!Stop, DaemonTypes, A!Phases
<1>3. CASE A!Crash(d)
  BY <1>3 DEF A!Crash, A!Ends, DaemonTypes, A!Phases, A!Tasks
<1>4. CASE A!Open(d)
  BY <1>4, ChannelAssumption DEF A!Open, A!HttpTask, DaemonTypes, A!Phases, A!Tasks,
      A!AdminChannelAssumption
<1>5. CASE A!Drained(d)
  BY <1>5 DEF A!Drained, DaemonTypes, A!Phases
<1>6. CASE A!RemoveSocket(d)
  BY <1>6, FaultCounts DEF A!RemoveSocket, A!Unlinked, DaemonTypes, A!Phases
<1>7. CASE A!Exit(d)
  BY <1>7 DEF A!Exit, A!Ends, DaemonTypes, A!Phases, A!Tasks
<1>8. CASE A!RemoveStale(d)
  BY <1>8, FaultCounts DEF A!RemoveStale, A!Unlinked, DaemonTypes, A!Tasks
<1>9. CASE A!Bind(d)
  BY <1>9, FaultCounts DEF A!Bind, DaemonTypes, A!Tasks
<1>10. CASE A!Secure(d)
  BY <1>10, FaultCounts DEF A!Secure, A!Unlinked, DaemonTypes, A!Tasks
<1>11. CASE A!BindHttp(d)
  BY <1>11, FaultCounts DEF A!BindHttp, DaemonTypes, A!Tasks
<1>12. CASE A!SocketAborted(d)
  BY <1>12 DEF A!SocketAborted, DaemonTypes, A!Tasks
<1>13. CASE A!HttpAborted(d)
  BY <1>13 DEF A!HttpAborted, DaemonTypes, A!Tasks
<1> QED
  BY <1>1, <1>2, <1>3, <1>4, <1>5, <1>6, <1>7, <1>8, <1>9, <1>10, <1>11, <1>12, <1>13
    DEF A!Runs

\* A connection that goes tells its command neither ok nor error, whatever was
\* done.
LEMMA HangupTells ==
    ASSUME CommandTypes, \A c \in Commands : ToldAsDone(c),
           NEW gone, A!Hangup(gone)
    PROVE  CommandTypes' /\ \A c \in Commands : ToldAsDone(c)'
<1>1. CommandTypes'
  BY DEF CommandTypes, A!Hangup, A!Steps, A!Outcomes
<1>2. ASSUME NEW c \in Commands PROVE ToldAsDone(c)'
  <2>0. ToldAsDone(c) /\ done'[c] = done[c] /\ kind' = kind /\ request[c] \in A!Steps
    BY DEF A!Hangup, CommandTypes
  <2>1. CASE A!ClosedAt(gone)[c]
    <3>1. request'[c] = "settled" /\ outcome'[c] = "closed"
      BY <2>1 DEF A!Hangup
    <3>2. done[c] \in {0, 1}
      BY <2>0 DEF ToldAsDone, A!Steps
    <3> QED
      BY <2>0, <3>1, <3>2 DEF ToldAsDone
  <2>2. CASE ~A!ClosedAt(gone)[c]
    <3>1. request'[c] = request[c] /\ outcome'[c] = outcome[c]
      BY <2>2 DEF A!Hangup
    <3> QED
      BY <2>0, <3>1 DEF ToldAsDone
  <2> QED
    BY <2>1, <2>2
<1> QED
  BY <1>1, <1>2

\* Steps that leave the commands alone.
LEMMA CommandsRest ==
    ASSUME CommandTypes, \A c \in Commands : ToldAsDone(c), UNCHANGED A!commandVars
    PROVE  CommandTypes' /\ \A c \in Commands : ToldAsDone(c)'
BY DEF CommandTypes, ToldAsDone, A!commandVars

\* A daemon's steps, to a command, are a connection that goes or nothing.
LEMMA DaemonStepTells ==
    ASSUME CommandTypes, \A c \in Commands : ToldAsDone(c), NEW d \in Daemons,
           A!Start(d) \/ A!Stop(d) \/ A!Crash(d) \/ A!Runs(d)
    PROVE  CommandTypes' /\ \A c \in Commands : ToldAsDone(c)'
<1>1. UNCHANGED A!commandVars \/ \E gone : A!Hangup(gone)
  <2>1. CASE A!Start(d) \/ A!Stop(d)
    BY <2>1 DEF A!Start, A!Stop
  <2>2. CASE A!Crash(d) \/ A!Exit(d)
    BY <2>2 DEF A!Crash, A!Exit, A!Ends
  <2>3. CASE A!Open(d) \/ A!Drained(d) \/ A!RemoveSocket(d)
    BY <2>3 DEF A!Open, A!Drained, A!RemoveSocket
  <2>4. CASE A!RemoveStale(d) \/ A!Bind(d) \/ A!BindHttp(d)
    BY <2>4 DEF A!RemoveStale, A!Bind, A!BindHttp
  <2>5. CASE A!Secure(d)
    BY <2>5 DEF A!Secure
  <2>6. CASE A!SocketAborted(d) \/ A!HttpAborted(d)
    BY <2>6 DEF A!SocketAborted, A!HttpAborted
  <2> QED
    BY <2>1, <2>2, <2>3, <2>4, <2>5, <2>6 DEF A!Runs
<1> QED
  BY <1>1, HangupTells, CommandsRest

\* An error that is about to be told before anything was done.
LEMMA ErrorTells ==
    ASSUME NEW c \in Commands,
           request'[c] = "replying", outcome'[c] = "error", done'[c] = 0
    PROVE  ToldAsDone(c)'
BY DEF ToldAsDone

\* The steps of a command: ok is written after the handler has done it, once.
LEMMA CommandStepTells ==
    ASSUME CommandTypes, \A b \in Commands : ToldAsDone(b), NEW c \in Commands,
           A!Connect(c) \/ A!Answers(c)
    PROVE  CommandTypes' /\ \A b \in Commands : ToldAsDone(b)'
<1> USE DEF A!Steps, A!Outcomes
<1>1. CASE A!Connect(c)
  <2>1. CommandTypes'
    <3>1. via' \in [Commands -> Daemons \cup {Nobody}]
      BY <1>1 DEF A!Connect, A!Reached, CommandTypes
    <3> QED
      BY <1>1, <3>1 DEF A!Connect, CommandTypes
  <2>2. ASSUME NEW b \in Commands PROVE ToldAsDone(b)'
    BY <1>1 DEF A!Connect, CommandTypes, ToldAsDone
  <2> QED
    BY <2>1, <2>2
<1>2. CASE A!Accept(c)
  <2>1. /\ request' = [request EXCEPT ![c] = "reading"] /\ request[c] = "queued"
        /\ UNCHANGED <<via, transport, kind, done, outcome>>
    BY <1>2 DEF A!Accept
  <2>2. CommandTypes'
    BY <2>1 DEF CommandTypes
  <2>3. ASSUME NEW b \in Commands PROVE ToldAsDone(b)'
    <3>1. CASE b = c
      BY <2>1, <3>1 DEF CommandTypes, ToldAsDone
    <3>2. CASE b # c
      <4>1. request'[b] = request[b]
        BY <2>1, <3>2 DEF CommandTypes
      <4> QED
        BY <2>1, <4>1 DEF ToldAsDone
    <3> QED
      BY <3>1, <3>2
  <2> QED
    BY <2>2, <2>3
<1>3. CASE A!ReadLine(c)
  <2>1. /\ request[c] = "reading" /\ UNCHANGED <<via, transport, kind, done>>
        /\ \/ request' = [request EXCEPT ![c] = "handling"] /\ UNCHANGED outcome
           \/ /\ request' = [request EXCEPT ![c] = "replying"]
              /\ outcome' = [outcome EXCEPT ![c] = "error"]
    BY <1>3 DEF A!ReadLine
  <2>2. CommandTypes'
    BY <2>1 DEF CommandTypes
  <2>3. ASSUME NEW b \in Commands PROVE ToldAsDone(b)'
    <3>1. CASE b = c
      <4>1. done[c] = 0 /\ outcome[c] = "none"
        BY <2>1 DEF ToldAsDone
      <4>2. CASE request' = [request EXCEPT ![c] = "handling"] /\ UNCHANGED outcome
        <5>1. request'[c] = "handling" /\ outcome'[c] = "none" /\ done'[c] = 0
          BY <2>1, <4>1, <4>2 DEF CommandTypes
        <5> QED
          BY <3>1, <5>1 DEF ToldAsDone
      <4>3. CASE /\ request' = [request EXCEPT ![c] = "replying"]
                 /\ outcome' = [outcome EXCEPT ![c] = "error"]
        <5>1. request'[c] = "replying" /\ outcome'[c] = "error" /\ done'[c] = 0
          BY <2>1, <4>1, <4>3 DEF CommandTypes
        <5> QED
          BY <3>1, <5>1, ErrorTells
      <4> QED
        BY <2>1, <4>2, <4>3
    <3>2. CASE b # c
      <4>1. request'[b] = request[b] /\ outcome'[b] = outcome[b]
        BY <2>1, <3>2 DEF CommandTypes
      <4> QED
        BY <2>1, <4>1 DEF ToldAsDone
    <3> QED
      BY <3>1, <3>2
  <2> QED
    BY <2>2, <2>3
<1>4. CASE A!Effect(c)
  <2>1. done[c] = 0 /\ outcome[c] = "none" /\ request[c] = "handling"
    BY <1>4 DEF A!Effect, ToldAsDone
  <2>2. UNCHANGED <<via, transport, kind>>
    BY <1>4 DEF A!Effect
  <2>3. CASE /\ done' = [done EXCEPT ![c] = @ + 1] /\ UNCHANGED outcome
             /\ request' = [request EXCEPT ![c] = "finishing"]
    BY <2>1, <2>2, <2>3 DEF CommandTypes, ToldAsDone
  <2>4. CASE /\ request' = [request EXCEPT ![c] = "replying"] /\ UNCHANGED done
             /\ outcome' = [outcome EXCEPT ![c] = A!Dispatched(FALSE)]
    <3>1. A!Dispatched(FALSE) = "error"
      BY DEF A!Dispatched
    <3>2. CommandTypes'
      BY <2>2, <2>4, <3>1 DEF CommandTypes
    <3>3. ASSUME NEW b \in Commands PROVE ToldAsDone(b)'
      <4>1. CASE b = c
        <5>1. request'[c] = "replying" /\ outcome'[c] = "error" /\ done'[c] = 0
          BY <2>1, <2>4, <3>1 DEF CommandTypes
        <5> QED
          BY <4>1, <5>1, ErrorTells
      <4>2. CASE b # c
        <5>1. /\ request'[b] = request[b] /\ outcome'[b] = outcome[b]
              /\ done'[b] = done[b] /\ kind'[b] = kind[b]
          BY <2>2, <2>4, <4>2 DEF CommandTypes
        <5> QED
          BY <5>1 DEF ToldAsDone
      <4> QED
        BY <4>1, <4>2
    <3> QED
      BY <3>2, <3>3
  <2> QED
    BY <1>4, <2>3, <2>4 DEF A!Effect
<1>6. CASE A!Finish(c)
  <2>1. PICK ok \in A!Finished(c) : outcome' = [outcome EXCEPT ![c] = A!Dispatched(ok)]
    BY <1>6 DEF A!Finish
  <2>2. /\ request' = [request EXCEPT ![c] = "replying"] /\ request[c] = "finishing"
        /\ UNCHANGED <<via, transport, kind, done>>
    BY <1>6 DEF A!Finish
  <2>3. \/ A!Dispatched(ok) = "ok"
        \/ A!Dispatched(ok) = "error" /\ kind[c] # "change"
    BY DEF A!Dispatched, A!Finished
  <2>4. done[c] = 1
    BY <2>2 DEF ToldAsDone
  <2>5. CommandTypes'
    BY <2>1, <2>2, <2>3 DEF CommandTypes
  <2>6. \A b \in Commands : ToldAsDone(b)'
    BY <2>1, <2>2, <2>3, <2>4 DEF CommandTypes, ToldAsDone
  <2> QED
    BY <2>5, <2>6
<1>5. CASE A!Reply(c)
  BY <1>5 DEF A!Reply, CommandTypes, ToldAsDone
<1> QED
  BY <1>1, <1>2, <1>3, <1>4, <1>5, <1>6 DEF A!Answers

\* Commands leave the daemons as they are.
LEMMA CommandStepKeepsDaemons ==
    ASSUME NEW c \in Commands, A!Connect(c) \/ A!Answers(c)
    PROVE  UNCHANGED <<A!daemonVars, faults>>
BY DEF A!Connect, A!Answers, A!Accept, A!ReadLine, A!Effect, A!Finish, A!Reply

\* The invariant at the start,
LEMMA ChannelStarts == A!Init => ChannelInv
<1> SUFFICES ASSUME A!Init PROVE ChannelInv
  OBVIOUS
<1>1. DaemonTypes
  BY ChannelAssumption DEF A!Init, DaemonTypes, A!Phases, A!Tasks, A!AdminChannelAssumption
<1>2. CommandTypes
  BY DEF A!Init, CommandTypes, A!Steps, A!Outcomes
<1>3. \A c \in Commands : ToldAsDone(c)
  BY DEF A!Init, ToldAsDone
<1> QED
  BY <1>1, <1>2, <1>3, ChannelTypes DEF ChannelInv

\* and over every step.
LEMMA ChannelStep == ChannelInv /\ [A!Next]_A!vars => ChannelInv'
<1> SUFFICES ASSUME ChannelInv, [A!Next]_A!vars PROVE ChannelInv'
  OBVIOUS
<1>0. DaemonTypes /\ CommandTypes /\ \A c \in Commands : ToldAsDone(c)
  BY ChannelTypes DEF ChannelInv
<1>1. DaemonTypes' /\ CommandTypes' /\ \A c \in Commands : ToldAsDone(c)'
  <2>1. ASSUME NEW d \in Daemons, A!Start(d) \/ A!Stop(d) \/ A!Crash(d) \/ A!Runs(d)
        PROVE  DaemonTypes' /\ CommandTypes' /\ \A c \in Commands : ToldAsDone(c)'
    BY <1>0, <2>1, DaemonStepTypes, DaemonStepTells
  <2>2. ASSUME NEW c \in Commands, A!Connect(c) \/ A!Answers(c)
        PROVE  DaemonTypes' /\ CommandTypes' /\ \A b \in Commands : ToldAsDone(b)'
    <3>1. DaemonTypes'
      BY <1>0, <2>2, CommandStepKeepsDaemons DEF DaemonTypes, A!daemonVars
    <3> QED
      BY <1>0, <2>2, <3>1, CommandStepTells
  <2>3. CASE UNCHANGED A!vars
    BY <1>0, <2>3, CommandsRest DEF A!vars, A!daemonVars, DaemonTypes
  <2> QED
    BY <2>1, <2>2, <2>3 DEF A!Next
<1>2. A!TypeOK'
  BY <1>1 DEF A!TypeOK, DaemonTypes, CommandTypes
<1> QED
  BY <1>1, <1>2 DEF ChannelInv

\* It holds always.
LEMMA ChannelIsInvariant == A!Spec => []ChannelInv
BY ChannelStarts, ChannelStep, PTL DEF A!Spec

\* The variables of AdminChannel keep their types.
THEOREM ChannelTypeCorrect == A!Spec => []A!TypeOK
<1>1. ChannelInv => A!TypeOK
  BY DEF ChannelInv
<1> QED
  BY <1>1, ChannelIsInvariant, PTL

\* What a command is told of a change is true, for any number of daemons, commands
\* and failures, with or without the HTTP API and overlapping daemons (admin.rs,
\* dispatch and send_admin): ok only when it was done, an error when it was not,
\* unless the command is an approve or a connect, which may fail after the change.
THEOREM OutcomesAreTrue == A!Spec => []OutcomeIsTrue
<1>1. ChannelInv => OutcomeIsTrue
  BY DEF ChannelInv, ToldAsDone, A!TypeOK, A!Steps, OutcomeIsTrue, A!OutcomeIsTrue
<1> QED
  BY <1>1, ChannelIsInvariant, PTL

-----------------------------------------------------------------------------
(* The path of the socket, where a daemon is started after the last is gone. *)

\* At most one daemon lives,
OneAlive == \A d, e \in Daemons : A!Alive(d) /\ A!Alive(e) => d = e

\* and its socket is at the path from its bind until it stops.
SocketOf(d) ==
    /\ daemon[d] \in {"new", "opening", "gone"} => socket[d] = "none"
    /\ d \in aborted => daemon[d] \in {"closing", "exiting"}
    /\ daemon[d] \in {"running", "draining"} =>
          /\ socket[d] = "binding" => inode = Nobody
          /\ socket[d] \in {"securing", "serving"} => inode = d
          /\ socket[d] = "failed" => faults > 0

\* The inductive invariant for the socket.
SocketInv == A!TypeOK /\ OneAlive /\ \A d \in Daemons : SocketOf(d)

\* A daemon that has a task of the socket, or has aborted it, lives.
LEMMA AliveTasks ==
    ASSUME DaemonTypes, \A d \in Daemons : SocketOf(d), NEW d \in Daemons,
           socket[d] # "none" \/ d \in aborted
    PROVE  A!Alive(d)
BY DEF SocketOf, A!Alive

\* A step of a daemon that lives: the others are new or gone, and stay it.
LEMMA OneDaemonMoves ==
    ASSUME SocketInv, NEW d \in Daemons, A!Alive(d),
           \A e \in Daemons \ {d} :
              daemon'[e] = daemon[e] /\ socket'[e] = socket[e] /\ (e \in aborted' => e \in aborted),
           DaemonTypes', SocketOf(d)'
    PROVE  OneAlive' /\ \A e \in Daemons : SocketOf(e)'
<1>1. \A e \in Daemons \ {d} : ~A!Alive(e)
  BY DEF SocketInv, OneAlive
<1>2. OneAlive'
  BY <1>1 DEF OneAlive, A!Alive
<1>3. ASSUME NEW e \in Daemons \ {d} PROVE SocketOf(e)'
  BY <1>1, <1>3 DEF SocketInv, SocketOf, A!Alive
<1> QED
  BY <1>2, <1>3

\* Every step of a daemon that lives keeps the path as it should be: only it can
\* touch it.
LEMMA SocketDaemonStep ==
    ASSUME SocketInv, NEW d \in Daemons, A!Stop(d) \/ A!Crash(d) \/ A!Runs(d)
    PROVE  OneAlive' /\ \A e \in Daemons : SocketOf(e)'
<1>0. DaemonTypes /\ OneAlive /\ SocketOf(d) /\ \A e \in Daemons : SocketOf(e)
  BY ChannelTypes DEF SocketInv
<1>1. DaemonTypes'
  BY <1>0, DaemonStepTypes
<1>2. faults' \in Nat /\ (faults > 0 => faults' > 0)
  <2>1. faults' = faults \/ A!Fault
    <3>1. CASE A!Stop(d) \/ A!Crash(d) \/ A!Open(d) \/ A!Drained(d) \/ A!Exit(d)
      BY <3>1 DEF A!Stop, A!Crash, A!Open, A!Drained, A!Exit
    <3>2. CASE A!RemoveSocket(d) \/ A!RemoveStale(d) \/ A!Bind(d)
      BY <3>2 DEF A!RemoveSocket, A!RemoveStale, A!Bind
    <3>3. CASE A!Secure(d) \/ A!BindHttp(d)
      BY <3>3 DEF A!Secure, A!BindHttp
    <3>4. CASE A!SocketAborted(d) \/ A!HttpAborted(d)
      BY <3>4 DEF A!SocketAborted, A!HttpAborted
    <3> QED
      BY <3>1, <3>2, <3>3, <3>4 DEF A!Runs
  <2> QED
    BY <2>1, <1>0, <1>1, ChannelAssumption
      DEF DaemonTypes, A!Fault, A!AdminChannelAssumption
<1> DEFINE others == \A e \in Daemons \ {d} :
              daemon'[e] = daemon[e] /\ socket'[e] = socket[e] /\ (e \in aborted' => e \in aborted)
<1>13. CASE A!BindHttp(d)
  <2>1. UNCHANGED <<daemon, socket, aborted, inode>>
    BY <1>13 DEF A!BindHttp
  <2> QED
    BY <1>0, <1>2, <2>1 DEF OneAlive, A!Alive, SocketOf
<1>3. SUFFICES ASSUME ~A!BindHttp(d) PROVE A!Alive(d) /\ others /\ SocketOf(d)'
  BY <1>1, <1>13, OneDaemonMoves
<1>4. CASE A!Stop(d)
  BY <1>0, <1>2, <1>4 DEF A!Stop, A!Alive, SocketOf, DaemonTypes
<1>5. CASE A!Crash(d)
  BY <1>0, <1>5 DEF A!Crash, A!Ends, A!Alive, SocketOf, DaemonTypes
<1>6. CASE A!Open(d)
  BY <1>0, <1>6 DEF A!Open, A!Alive, SocketOf, DaemonTypes
<1>7. CASE A!Drained(d)
  BY <1>0, <1>7 DEF A!Drained, A!Alive, SocketOf, DaemonTypes
<1>8. CASE A!RemoveSocket(d)
  BY <1>0, <1>8 DEF A!RemoveSocket, A!Alive, SocketOf, DaemonTypes
<1>9. CASE A!Exit(d)
  BY <1>0, <1>9 DEF A!Exit, A!Ends, A!Alive, SocketOf, DaemonTypes
<1>10. CASE A!RemoveStale(d)
  <2>1. A!Alive(d)
    BY <1>0, <1>10, AliveTasks DEF A!RemoveStale
  <2>2. A!Fault => faults' > 0
    BY <1>0, FaultCounts
  <2> QED
    BY <1>0, <1>10, <2>1, <2>2 DEF A!RemoveStale, A!Unlinked, SocketOf, DaemonTypes
<1>11. CASE A!Bind(d)
  <2>1. A!Alive(d)
    BY <1>0, <1>11, AliveTasks DEF A!Bind
  <2>2. A!Fault => faults' > 0
    BY <1>0, FaultCounts
  <2> QED
    BY <1>0, <1>11, <2>1, <2>2 DEF A!Bind, SocketOf, DaemonTypes
<1>12. CASE A!Secure(d)
  <2>1. A!Alive(d)
    BY <1>0, <1>12, AliveTasks DEF A!Secure
  <2>2. A!Fault => faults' > 0
    BY <1>0, FaultCounts
  <2>3. Nobody \notin Daemons
    BY ChannelAssumption DEF A!AdminChannelAssumption
  <2> QED
    BY <1>0, <1>12, <2>1, <2>2, <2>3 DEF A!Secure, A!Unlinked, SocketOf, DaemonTypes
<1>14. CASE A!SocketAborted(d)
  <2>1. A!Alive(d)
    BY <1>0, <1>14, AliveTasks DEF A!SocketAborted
  <2> QED
    BY <1>0, <1>14, <2>1 DEF A!SocketAborted, SocketOf, DaemonTypes
<1>15. CASE A!HttpAborted(d)
  <2>1. A!Alive(d)
    BY <1>0, <1>15, AliveTasks DEF A!HttpAborted
  <2> QED
    BY <1>0, <1>15, <2>1 DEF A!HttpAborted, SocketOf, DaemonTypes
<1> QED
  BY <1>4, <1>5, <1>6, <1>7, <1>8, <1>9, <1>10, <1>11, <1>12, <1>3, <1>14, <1>15 DEF A!Runs

\* The invariant at the start,
LEMMA SocketStarts == A!Init => SocketInv
<1> SUFFICES ASSUME A!Init PROVE SocketInv
  OBVIOUS
<1>1. A!TypeOK
  BY ChannelStarts DEF ChannelInv
<1>2. OneAlive /\ \A d \in Daemons : SocketOf(d)
  BY DEF A!Init, OneAlive, SocketOf, A!Alive
<1> QED
  BY <1>1, <1>2 DEF SocketInv

\* and over every step when daemons do not overlap.
LEMMA SocketStep == Overlap = FALSE /\ A!TypeOK' /\ SocketInv /\ [A!Next]_A!vars => SocketInv'
<1> SUFFICES ASSUME Overlap = FALSE, A!TypeOK', SocketInv, [A!Next]_A!vars PROVE SocketInv'
  OBVIOUS
<1>0. DaemonTypes /\ OneAlive /\ \A d \in Daemons : SocketOf(d)
  BY ChannelTypes DEF SocketInv
<1>1. ASSUME NEW d \in Daemons, A!Start(d) PROVE OneAlive' /\ \A e \in Daemons : SocketOf(e)'
  <2>1. \A e \in Daemons : ~A!Alive(e)
    BY <1>1 DEF A!Start
  <2> QED
    BY <1>0, <1>1, <2>1 DEF A!Start, OneAlive, SocketOf, A!Alive, DaemonTypes
<1>2. ASSUME NEW d \in Daemons, A!Stop(d) \/ A!Crash(d) \/ A!Runs(d)
      PROVE  OneAlive' /\ \A e \in Daemons : SocketOf(e)'
  BY <1>2, SocketDaemonStep
<1>3. ASSUME NEW c \in Commands, A!Connect(c) \/ A!Answers(c)
      PROVE  OneAlive' /\ \A e \in Daemons : SocketOf(e)'
  <2>1. UNCHANGED <<A!daemonVars, faults>>
    BY <1>3, CommandStepKeepsDaemons
  <2> QED
    BY <1>0, <2>1 DEF A!daemonVars, OneAlive, SocketOf, A!Alive
<1>4. CASE UNCHANGED A!vars
  <2>1. UNCHANGED <<daemon, socket, aborted, inode, faults>>
    BY <1>4 DEF A!vars, A!daemonVars
  <2> QED
    BY <1>0, <2>1 DEF OneAlive, SocketOf, A!Alive, SocketInv
<1> QED
  BY <1>1, <1>2, <1>3, <1>4 DEF A!Next, SocketInv

\* Daemons that follow one another do not stand in each other's way: the path leads
\* to the daemon that serves, through any number of stops, crashes and starts
\* (admin.rs, serve_admin; lib.rs, serve). Daemons that overlap do: the second
\* takes the path of the first.
THEOREM TheSocketIsServed == Overlap = FALSE => (A!Spec => []SocketIsServed)
<1>1. SocketInv => SocketIsServed
  BY DEF SocketInv, SocketOf, SocketIsServed, A!SocketIsServed
<1> SUFFICES ASSUME Overlap = FALSE PROVE A!Spec => []SocketIsServed
  OBVIOUS
<1>2. A!TypeOK' /\ SocketInv /\ [A!Next]_A!vars => SocketInv'
  BY SocketStep
<1> QED
  BY <1>1, <1>2, SocketStarts, ChannelTypeCorrect, PTL DEF A!Spec

-----------------------------------------------------------------------------
\* RegistryAndAdmin is nothing but its two modules, side by side: what is
\* proved of each holds of the behaviours TLC explores.
THEOREM RegistryIsComposed == BothSpec => Spec /\ A!Spec
<1>1. BothInit => Init /\ A!Init
  BY DEF BothInit
<1>2. [BothNext]_<<subject, vars, channelVars>> => [Next]_vars
  BY DEF BothNext
<1>3. [BothNext]_<<subject, vars, channelVars>> => [A!Next]_A!vars
  <2>1. channelVars' = channelVars => UNCHANGED A!vars
    BY DEF channelVars, A!vars, A!daemonVars, A!commandVars
  <2> QED
    BY <2>1 DEF BothNext
<1> QED
  BY <1>1, <1>2, <1>3, PTL DEF BothSpec, Spec, A!Spec
=============================================================================
