---------------------------- MODULE SlotRegistry ----------------------------
(***************************************************************************)
(* Which slots are live.  The config file declares slots, the registry     *)
(* holds those that have been reached.  They are brought up by a task each *)
(* at startup (`spawn_slot_bringup`), by an admin's `proxy connect` and by *)
(* the reconnect a failed turn asks for (both `ensure_connected_impl`);    *)
(* `connect` may add a slot, which it writes to the file (`upsert_slot`).  *)
(*                                                                         *)
(* All of these are tasks on a multi-threaded runtime.  A restart reads    *)
(* the file again and refuses to start on one that is not valid.           *)
(*                                                                         *)
(* The order of the slots in the file is left out.  When two adds overlap  *)
(* the code may also tear the temp file they share; here they only lose    *)
(* updates, and nothing is claimed of what the file holds afterwards.      *)
(* The operator does not edit the file while the proxy runs.               *)
(***************************************************************************)
EXTENDS Naturals, Sequences, FiniteSets

CONSTANTS
    Names, NoName,      \* slot names
    Urls, NoUrl,        \* opencode instances
    Chats, NoChat,
    Admins,             \* admin connections
    Declared,           \* the config files that the operator may have written
    MaxTables,          \* bound: the tables of one name in such a file
    MaxConnects,        \* bound: connect requests
    MaxFlips,           \* bound: instances going down or coming back
    MaxCrashes          \* bound: restarts of the proxy

Slot   == [url : Urls, chat : Chats \cup {NoChat}]
NoSlot == [url |-> NoUrl, chat |-> NoChat]

\* A config file: the [[slots]] tables of each name, in their order.
Docs == [Names -> Seq(Slot)]

NoDoc == [n \in Names |-> << >>]

\* The places of the tables of a file, and what is there.
Places == Names \X (1..MaxTables)
Written(doc) == {p \in Places : p[2] <= Len(doc[p[1]])}
Table(doc, p) == doc[p[1]][p[2]]

\* Config::validate: slots target distinct instances.  Nothing says that they have
\* distinct names.
Valid(doc) ==
    \A p, q \in Written(doc) : Table(doc, p).url = Table(doc, q).url => p = q

\* The instances the file gives a name.
Instances(doc, n) == {doc[n][i].url : i \in DOMAIN doc[n]}

ASSUME NullsAssumption ==
    NoName \notin Names /\ NoUrl \notin Urls /\ NoChat \notin Chats /\ Admins \cap Names = {}
ASSUME DeclaredAssumption ==
    /\ MaxTables \in Nat \ {0}
    /\ \A doc \in Declared :
          doc \in Docs /\ Valid(doc) /\ \A n \in Names : Len(doc[n]) <= MaxTables
ASSUME BoundsAssumption == {MaxConnects, MaxFlips, MaxCrashes} \subseteq Nat

\* Whoever runs ensure_connected_impl: an admin connection, or the one reconnect
\* task a slot has at a time (the `reconnecting` guard), named after its slot.
Tasks == Admins \cup Names

VARIABLES
    up,         \* the instances that are reachable, and answer
    file,       \* config.toml
    cfg,        \* what was loaded from it at startup
    registry,   \* the live slots
    allowed,    \* allowed_users
    starting,   \* the startup task of each table: "none", "waiting", "ready"
    conn,       \* what a task is doing in ensure_connected_impl
    phase,      \* "running", or "refused" when the file did not load
    connects, flips, crashes,
    contended,  \* history: two connects were adding slots at the same time
    rivals      \* history: the names two connects were adding at the same time

tableVars == <<file, allowed>>
boundVars == <<connects, flips, crashes>>
historyVars == <<contended, rivals>>
vars == <<up, tableVars, cfg, registry, starting, conn, phase, boundVars, historyVars>>

NoneLive == [n \in Names |-> NoSlot]

\* A task at a place in ensure_connected_impl; the file is read later.
Doing(at, mode, n, s) == [at |-> at, mode |-> mode, name |-> n, slot |-> s, doc |-> NoDoc]

Idle == Doing("none", "none", NoName, NoSlot)

Live(n) == registry[n] # NoSlot

\* A task per declared slot.
Waiting(doc) == [p \in Places |-> IF p \in Written(doc) THEN "waiting" ELSE "none"]

\* The bindings after AppState::new: every owner a slot declares is bound to it.
Seeded(doc, bindings) ==
    LET declaring(c) == {n \in Names : \E i \in DOMAIN doc[n] : doc[n][i].chat = c} IN
    {b \in [Chats -> Names \cup {NoName}] :
        \A c \in Chats : IF declaring(c) = {} THEN b[c] = bindings[c]
                                              ELSE b[c] \in declaring(c)}

Init ==
    /\ up \in SUBSET Urls
    /\ file \in Declared
    /\ cfg = file
    /\ registry = NoneLive
    /\ allowed \in Seeded(file, [c \in Chats |-> NoName])
    /\ starting = Waiting(file)
    /\ conn = [t \in Tasks |-> Idle]
    /\ phase = "running"
    /\ connects = 0
    /\ flips = 0
    /\ crashes = 0
    /\ contended = FALSE
    /\ rivals = {}

-----------------------------------------------------------------------------
(* Startup.                                                                *)

\* bring_up_slot succeeds: reachable, the model is valid.
StartupReady(p) ==
    /\ starting[p] = "waiting"
    /\ Table(cfg, p).url \in up
    /\ starting' = [starting EXCEPT ![p] = "ready"]
    /\ UNCHANGED <<up, tableVars, cfg, registry, conn, phase, boundVars, historyVars>>

\* Under the name: of two tables with one name the later task's stays.
StartupInserts(p) ==
    /\ starting[p] = "ready"
    /\ registry' = [registry EXCEPT ![p[1]] = Table(cfg, p)]
    /\ starting' = [starting EXCEPT ![p] = "none"]
    /\ UNCHANGED <<up, tableVars, cfg, conn, phase, boundVars, historyVars>>

\* Mutant: a slot that answers late is given up as well.
OutOfAttempts_Always(url) == TRUE

\* wait_ready fails: no attempt found the instance up.
OutOfAttempts(url) == url \notin up

StartupGivesUp(p) ==
    /\ starting[p] = "waiting"
    /\ OutOfAttempts(Table(cfg, p).url)
    /\ starting' = [starting EXCEPT ![p] = "none"]
    /\ UNCHANGED <<up, tableVars, cfg, registry, conn, phase, boundVars, historyVars>>

-----------------------------------------------------------------------------
(* ensure_connected_impl.                                                  *)

\* Mutant: the parameters of the request replace the slot that is live.
Existing_Replaced(n, s) == IF s = NoSlot THEN registry[n] ELSE s

\* The slot as it is live, whatever the request says.
Existing(n, s) == registry[n]

Declares(doc, n) == doc[n] # << >>

\* The registry is read, then the config: a live slot is probed, a declared one
\* brought up (the first table of its name), an unknown one added if the request
\* says where it is.
Begin(t, n, s) ==
    /\ phase = "running"
    /\ conn[t] = Idle
    /\ \/ /\ Live(n)
          /\ conn' = [conn EXCEPT ![t] = Doing("probe", "existing", n, Existing(n, s))]
          /\ UNCHANGED historyVars
       \/ /\ ~Live(n) /\ Declares(cfg, n)
          /\ conn' = [conn EXCEPT ![t] = Doing("bringup", "declared", n, Head(cfg[n]))]
          /\ UNCHANGED historyVars
       \/ /\ ~Live(n) /\ ~Declares(cfg, n) /\ s # NoSlot
          /\ conn' = [conn EXCEPT ![t] = Doing("bringup", "new", n, s)]
          /\ LET adding == {conn[o].name : o \in {o \in Tasks : conn[o].mode = "new"}} IN
             /\ contended' = (contended \/ adding # {})
             /\ rivals' = rivals \cup (adding \cap {n})
    /\ UNCHANGED <<up, tableVars, cfg, registry, starting, phase, flips, crashes>>

\* `proxy connect`, with or without a URL.
Connect(a, n, s) ==
    /\ connects < MaxConnects
    /\ connects' = connects + 1
    /\ Begin(a, n, s)

\* A turn finds the instance of its slot unreachable: spawn_reconnect.
TurnFails(n) ==
    /\ Live(n)
    /\ registry[n].url \notin up
    /\ Begin(n, n, NoSlot)
    /\ UNCHANGED connects

Goes(t, at) == conn' = [conn EXCEPT ![t].at = at]

Returns(t) == conn' = [conn EXCEPT ![t] = Idle]

\* One short attempt: Connected, or the client is to be rebuilt.
Probe(t) ==
    /\ conn[t].at = "probe"
    /\ IF conn[t].slot.url \in up THEN Returns(t) ELSE Goes(t, "bringup")
    /\ UNCHANGED <<up, tableVars, cfg, registry, starting, phase, boundVars, historyVars>>

\* Mutant: an added slot is live and bound, and not written.
NextAfterReady_NotWritten == [existing |-> "insert", declared |-> "allow", new |-> "allow"]

NextAfterReady == [existing |-> "insert", declared |-> "allow", new |-> "read"]

Ready(t) ==
    /\ conn[t].at = "bringup"
    /\ conn[t].slot.url \in up
    /\ Goes(t, NextAfterReady[conn[t].mode])
    /\ UNCHANGED <<up, tableVars, cfg, registry, starting, phase, boundVars, historyVars>>

NotReady(t) ==
    /\ conn[t].at = "bringup"
    /\ OutOfAttempts(conn[t].slot.url)
    /\ Returns(t)
    /\ UNCHANGED <<up, tableVars, cfg, registry, starting, phase, boundVars, historyVars>>

\* upsert_slot reads the file ...
ReadsFile(t) ==
    /\ conn[t].at = "read"
    /\ conn' = [conn EXCEPT ![t].at = "replace", ![t].doc = file]
    /\ UNCHANGED <<up, tableVars, cfg, registry, starting, phase, boundVars, historyVars>>

\* ... edits it: the first table of the name (without an owner in the request the
\* key stays as it was), or a new one ...
Edited(table, s) == [s EXCEPT !.chat = IF s.chat = NoChat THEN table.chat ELSE s.chat]

Upserted(doc, n, s) ==
    [doc EXCEPT ![n] =
        IF Declares(doc, n) THEN [doc[n] EXCEPT ![1] = Edited(@, s)] ELSE <<s>>]

\* ... and renames the result over it, or fails, and with it the connect.
ReplacesFile(t) ==
    /\ conn[t].at = "replace"
    /\ file' = Upserted(conn[t].doc, conn[t].name, conn[t].slot)
    /\ conn' = [conn EXCEPT ![t].at = "allow", ![t].doc = NoDoc]
    /\ UNCHANGED <<up, allowed, cfg, registry, starting, phase, boundVars, historyVars>>

PersistFails(t) ==
    /\ conn[t].at = "replace"
    /\ Returns(t)
    /\ UNCHANGED <<up, tableVars, cfg, registry, starting, phase, boundVars, historyVars>>

\* add_allowed for the owner, if there is one.
Allows(t) ==
    /\ conn[t].at = "allow"
    /\ allowed' = [c \in Chats |-> IF c = conn[t].slot.chat THEN conn[t].name ELSE allowed[c]]
    /\ Goes(t, "insert")
    /\ UNCHANGED <<up, file, cfg, registry, starting, phase, boundVars, historyVars>>

\* ... which may fail, and with it the connect: the slot is in the file and not live.
AllowFails(t) ==
    /\ conn[t].at = "allow"
    /\ conn[t].slot.chat # NoChat
    /\ Returns(t)
    /\ UNCHANGED <<up, tableVars, cfg, registry, starting, phase, boundVars, historyVars>>

\* The client is swapped in.
Inserts(t) ==
    /\ conn[t].at = "insert"
    /\ registry' = [registry EXCEPT ![conn[t].name] = conn[t].slot]
    /\ Returns(t)
    /\ UNCHANGED <<up, tableVars, cfg, starting, phase, boundVars, historyVars>>

-----------------------------------------------------------------------------
(* The rest.                                                               *)

\* auth::resolve: the slot a chat is bound to, if that is live.
Resolved(c) == IF allowed[c] # NoName /\ Live(allowed[c]) THEN allowed[c] ELSE NoName

\* pair_approve binds a chat to a live slot.
PairApprove(c, n) ==
    /\ Live(n)
    /\ allowed' = [allowed EXCEPT ![c] = n]
    /\ UNCHANGED <<up, file, cfg, registry, starting, conn, phase, boundVars, historyVars>>

\* An instance goes down or comes back.
Flip(u) ==
    /\ flips < MaxFlips
    /\ flips' = flips + 1
    /\ up' = IF u \in up THEN up \ {u} ELSE up \cup {u}
    /\ UNCHANGED <<tableVars, cfg, registry, starting, conn, phase, connects, crashes,
                   historyVars>>

\* The proxy dies and is started again, on the file as it is now.
Restart ==
    /\ phase = "running"
    /\ crashes < MaxCrashes
    /\ crashes' = crashes + 1
    /\ registry' = NoneLive
    /\ conn' = [t \in Tasks |-> Idle]
    /\ IF Valid(file)
       THEN /\ cfg' = file
            /\ starting' = Waiting(file)
            /\ allowed' \in Seeded(file, allowed)
            /\ UNCHANGED phase
       ELSE /\ phase' = "refused"
            /\ starting' = Waiting(NoDoc)
            /\ UNCHANGED <<cfg, allowed>>
    /\ UNCHANGED <<up, file, connects, flips, historyVars>>

Next ==
    \/ \E p \in Places : StartupReady(p) \/ StartupInserts(p) \/ StartupGivesUp(p)
    \/ \E n \in Names : TurnFails(n)
    \/ \E a \in Admins, n \in Names, s \in Slot \cup {NoSlot} : Connect(a, n, s)
    \/ \E t \in Tasks :
          \/ Probe(t) \/ Ready(t) \/ NotReady(t)
          \/ ReadsFile(t) \/ ReplacesFile(t) \/ PersistFails(t)
          \/ Allows(t) \/ AllowFails(t) \/ Inserts(t)
    \/ \E c \in Chats, n \in Names : PairApprove(c, n)
    \/ \E u \in Urls : Flip(u)
    \/ Restart

Spec == Init /\ [][Next]_vars

\* Tasks that can go on do; readiness is polled.
Fairness ==
    /\ \A p \in Places : WF_vars(StartupReady(p)) /\ WF_vars(StartupInserts(p))
    /\ \A t \in Tasks : WF_vars(Allows(t)) /\ WF_vars(Inserts(t))

FairSpec == Spec /\ Fairness

-----------------------------------------------------------------------------
(* Properties.                                                             *)

Registries == [Names -> Slot \cup {NoSlot}]

\* Every variable keeps its type, and a task on its way to the file adds a slot.
TypeOK ==
    /\ up \subseteq Urls
    /\ file \in Docs /\ cfg \in Docs /\ registry \in Registries
    /\ allowed \in [Chats -> Names \cup {NoName}]
    /\ starting \in [Places -> {"none", "waiting", "ready"}]
    /\ conn \in [Tasks ->
          {Idle} \cup
          [at : {"probe", "bringup", "read", "replace", "allow", "insert"},
           mode : {"existing", "declared", "new"}, name : Names, slot : Slot, doc : Docs]]
    /\ \A t \in Tasks : conn[t].at \in {"read", "replace"} => conn[t].mode = "new"
    /\ phase \in {"running", "refused"}
    /\ connects \in 0..MaxConnects /\ flips \in 0..MaxFlips /\ crashes \in 0..MaxCrashes
    /\ contended \in BOOLEAN /\ rivals \in SUBSET Names

\* "config is the single source of truth for slots" (bot.rs:93-96): a live slot, and
\* a slot a chat is bound to, is in the file, with its instance, whatever connects,
\* reconnects, startup tasks and restarts are under way.  Two adds at the same time,
\* of any names, break it: the second writes back the file it had read before the
\* first.
FileIsTheTruth ==
    ~contended =>
        /\ \A n \in Names : Live(n) => registry[n].url \in Instances(file, n)
        /\ \A c \in Chats : allowed[c] # NoName => Declares(file, allowed[c])

\* A name that the file the proxy started with gives to two slots.
Twice(n) == Len(cfg[n]) > 1

\* A live slot stays with its instance: a turn takes the URL of its event stream
\* when it is queued and its client when it runs, and they must be the same
\* instance's (bot.rs:1209-1254).  Two adds of that name at the same time break it,
\* and so does a file with two slots of that name, which Config::validate accepts.
InstanceIsFixed ==
    [][\A n \in Names \ rivals' :
         ~Twice(n) /\ Live(n) /\ registry'[n] # NoSlot
            => registry'[n].url = registry[n].url]_vars

\* While every instance is reachable, a chat that is bound gets its slot: its
\* messages find it live, also after a restart at any step of an add.
OwnersAreServed ==
    [](up = Urls) =>
        \A c \in Chats :
            allowed[c] # NoName ~> (Resolved(c) # NoName \/ contended \/ phase = "refused")

=============================================================================
