---------------------------- MODULE AdminChannel ----------------------------
(***************************************************************************)
(* The life of the daemon around its admin channel (lib.rs serve,          *)
(* admin.rs, main.rs): a daemon opens its store, spawns the task of the    *)
(* admin socket, binds the port of the optional HTTP API, runs the         *)
(* dispatcher, and at the end lets turns finish, aborts the tasks and      *)
(* unlinks the socket.  A command of the CLI connects to whatever is at    *)
(* the socket's path, sends one line and reads one line.                   *)
(*                                                                         *)
(* Several daemons may be given the same path, one after the other (a      *)
(* restart, after a crash too) or, where Overlap allows it, at once.  The  *)
(* path holds the inode of one daemon's listener; the listener of an inode *)
(* that was unlinked serves the connections it has, and gets no more.      *)
(***************************************************************************)
EXTENDS Naturals

CONSTANTS Daemons,      \* processes of the daemon, each started once
          Nobody,
          Commands,     \* runs of the CLI
          Overlap,      \* a daemon may be started while another one runs
          Http,         \* [admin].http_bind and a token are configured
          MaxFaults     \* bound: system calls that fail

AdminChannelAssumption ==
    /\ Nobody \notin Daemons
    /\ Overlap \in BOOLEAN /\ Http \in BOOLEAN /\ MaxFaults \in Nat

VARIABLES
    phase,      \* of each daemon
    socket,     \* its task of the admin socket
    http,       \* its task of the HTTP API
    aborted,    \* daemons that have aborted these tasks
    inode,      \* the daemon whose socket is at the path, or Nobody
    faults,
    request,    \* of each command: how far it is
    via,        \* the daemon it is connected to
    transport,  \* socket or http
    kind,       \* what it asks for
    done,       \* history: how often the daemon changed what it asks to be changed
    outcome     \* what the command was told

daemonVars  == <<phase, socket, http, aborted, inode>>
commandVars == <<request, via, transport, kind, done, outcome>>
vars == <<daemonVars, faults, commandVars>>

Phases == {"new", "opening", "running", "draining", "closing", "exiting", "gone"}
Tasks == {"none", "unlinking", "binding", "securing", "serving", "failed"}
Steps == {"idle", "queued", "reading", "handling", "finishing", "replying", "settled"}

\* A change in one step (pair_deny); pair_approve, which binds the chat and then
\* consumes the code and notifies the user; connect, which waits for an instance,
\* and then writes the file, binds the owner and inserts the slot.
Kinds == {"change", "approve", "connect"}
Outcomes == {"none", "ok", "error", "nobody", "closed"}

Init ==
    /\ phase = [d \in Daemons |-> "new"]
    /\ socket = [d \in Daemons |-> "none"]
    /\ http = [d \in Daemons |-> "none"]
    /\ aborted = {} /\ inode = Nobody /\ faults = 0
    /\ request = [c \in Commands |-> "idle"]
    /\ via = [c \in Commands |-> Nobody]
    /\ transport \in [Commands -> IF Http THEN {"socket", "http"} ELSE {"socket"}]
    /\ kind \in [Commands -> Kinds]
    /\ done = [c \in Commands |-> 0]
    /\ outcome = [c \in Commands |-> "none"]

Alive(d) == phase[d] \notin {"new", "gone"}
Fault == faults < MaxFaults /\ faults' = faults + 1

-----------------------------------------------------------------------------
(* serve, in the order of its statements.                                  *)

Start(d) ==
    /\ phase[d] = "new"
    /\ Overlap \/ \A e \in Daemons : ~Alive(e)
    /\ phase' = [phase EXCEPT ![d] = "opening"]
    /\ UNCHANGED <<socket, http, aborted, inode, faults, commandVars>>

\* The HTTP API has a task when an address and a token are configured.
HttpTask == IF Http THEN "binding" ELSE "none"

\* The store is open: the tasks of the admin transports are spawned.
Open(d) ==
    /\ phase[d] = "opening"
    /\ phase' = [phase EXCEPT ![d] = "running"]
    /\ socket' = [socket EXCEPT ![d] = "unlinking"]
    /\ http' = [http EXCEPT ![d] = HttpTask]
    /\ UNCHANGED <<aborted, inode, faults, commandVars>>

\* Ctrl-C or SIGTERM: the dispatcher returns, shutdown drains the turns.
Stop(d) ==
    /\ phase[d] = "running"
    /\ phase' = [phase EXCEPT ![d] = "draining"]
    /\ UNCHANGED <<socket, http, aborted, inode, faults, commandVars>>

Drained(d) ==
    /\ phase[d] = "draining"
    /\ phase' = [phase EXCEPT ![d] = "closing"]
    /\ aborted' = aborted \cup {d}
    /\ UNCHANGED <<socket, http, inode, faults, commandVars>>

\* Mutant: the file is left where it is.
Unlinked_Left == inode

\* What a remove_file of the socket's path leaves there.
Unlinked == Nobody

\* serve removes the path after it has aborted the tasks; an error is logged.
RemoveSocket(d) ==
    /\ phase[d] = "closing"
    /\ \/ inode' = Unlinked /\ UNCHANGED faults
       \/ Fault /\ UNCHANGED inode
    /\ phase' = [phase EXCEPT ![d] = "exiting"]
    /\ UNCHANGED <<socket, http, aborted, commandVars>>

\* What a command sees when its connection goes: an end of file without a line.
ClosedAt(gone) == [c \in Commands |-> request[c] \notin {"idle", "settled"} /\ gone[c]]

Hangup(gone) ==
    /\ request' = [c \in Commands |-> IF ClosedAt(gone)[c] THEN "settled" ELSE request[c]]
    /\ outcome' = [c \in Commands |-> IF ClosedAt(gone)[c] THEN "closed" ELSE outcome[c]]
    /\ UNCHANGED <<via, transport, kind, done>>

\* The process ends: its sockets are closed, what is at the path stays.
Ends(d) ==
    /\ phase' = [phase EXCEPT ![d] = "gone"]
    /\ socket' = [socket EXCEPT ![d] = "none"]
    /\ http' = [http EXCEPT ![d] = "none"]
    /\ aborted' = aborted \ {d}
    /\ Hangup([c \in Commands |-> via[c] = d])
    /\ UNCHANGED inode

Exit(d)  == phase[d] = "exiting" /\ Ends(d) /\ UNCHANGED faults
Crash(d) == Alive(d) /\ Ends(d) /\ UNCHANGED faults

-----------------------------------------------------------------------------
(* serve_admin and serve_admin_http.  A task that is aborted ends at its   *)
(* next await, and the accept loop is the first.                           *)

RemoveStale(d) ==
    /\ socket[d] = "unlinking"
    /\ \/ /\ inode' = Unlinked
          /\ socket' = [socket EXCEPT ![d] = "binding"]
          /\ UNCHANGED faults
       \/ /\ Fault /\ UNCHANGED inode
          /\ socket' = [socket EXCEPT ![d] = "failed"]
    /\ UNCHANGED <<phase, http, aborted, commandVars>>

\* bind fails when something is at the path already.
Bind(d) ==
    /\ socket[d] = "binding"
    /\ \/ /\ inode = Nobody
          /\ inode' = d
          /\ socket' = [socket EXCEPT ![d] = "securing"]
          /\ UNCHANGED faults
       \/ /\ inode # Nobody
          /\ socket' = [socket EXCEPT ![d] = "failed"]
          /\ UNCHANGED <<inode, faults>>
       \/ /\ Fault /\ UNCHANGED inode
          /\ socket' = [socket EXCEPT ![d] = "failed"]
    /\ UNCHANGED <<phase, http, aborted, commandVars>>

Queued(c, d) == request[c] = "queued" /\ via[c] = d /\ transport[c] = "socket"

\* enforce_mode works on the path: it fails when nothing is there, and then the
\* path is removed and the listener dropped.  When the client for the probes
\* cannot be built, the listener is dropped and the path stays.
Secure(d) ==
    /\ socket[d] = "securing"
    /\ \/ /\ inode # Nobody
          /\ socket' = [socket EXCEPT ![d] = "serving"]
          /\ UNCHANGED <<inode, faults, commandVars>>
       \/ /\ \/ inode = Nobody /\ UNCHANGED faults
             \/ inode # Nobody /\ Fault
          /\ inode' = Unlinked
          /\ socket' = [socket EXCEPT ![d] = "failed"]
          /\ Hangup([c \in Commands |-> Queued(c, d)])
       \/ /\ inode # Nobody /\ Fault /\ UNCHANGED inode
          /\ socket' = [socket EXCEPT ![d] = "failed"]
          /\ Hangup([c \in Commands |-> Queued(c, d)])
    /\ UNCHANGED <<phase, http, aborted>>

HttpTaken == \E e \in Daemons : http[e] = "serving"

BindHttp(d) ==
    /\ http[d] = "binding"
    /\ \/ ~HttpTaken /\ http' = [http EXCEPT ![d] = "serving"] /\ UNCHANGED faults
       \/ HttpTaken /\ http' = [http EXCEPT ![d] = "failed"] /\ UNCHANGED faults
       \/ Fault /\ http' = [http EXCEPT ![d] = "failed"]
    /\ UNCHANGED <<phase, socket, aborted, inode, commandVars>>

\* The connections that wait to be accepted go with the listener; those that
\* were accepted have tasks of their own.
SocketAborted(d) ==
    /\ d \in aborted /\ socket[d] = "serving"
    /\ socket' = [socket EXCEPT ![d] = "none"]
    /\ Hangup([c \in Commands |-> Queued(c, d)])
    /\ UNCHANGED <<phase, http, aborted, inode, faults>>

HttpAborted(d) ==
    /\ d \in aborted /\ http[d] \in {"binding", "serving"}
    /\ http' = [http EXCEPT ![d] = "none"]
    /\ Hangup([c \in Commands |-> request[c] = "queued" /\ via[c] = d /\ transport[c] = "http"])
    /\ UNCHANGED <<phase, socket, aborted, inode, faults>>

-----------------------------------------------------------------------------
(* A command: send_admin over one of the two transports.                   *)

Listening(d) == socket[d] \in {"securing", "serving"}

Reached(c) ==
    IF transport[c] = "socket"
    THEN {d \in Daemons : inode = d /\ Listening(d)}
    ELSE {d \in Daemons : http[d] = "serving"}

Connect(c) ==
    /\ request[c] = "idle"
    /\ IF Reached(c) = {}
       THEN /\ request' = [request EXCEPT ![c] = "settled"]
            /\ outcome' = [outcome EXCEPT ![c] = "nobody"]
            /\ UNCHANGED via
       ELSE /\ \E d \in Reached(c) : via' = [via EXCEPT ![c] = d]
            /\ request' = [request EXCEPT ![c] = "queued"]
            /\ UNCHANGED outcome
    /\ UNCHANGED <<daemonVars, faults, transport, kind, done>>

\* Mutant: the loop ends with its first connection.
Accepting_Once(d) == \A c \in Commands : via[c] = d => request[c] \in {"queued", "idle"}

\* The accept loop goes on for as long as the task lives.
Accepting(d) == TRUE

Serves(c, d) == IF transport[c] = "socket" THEN socket[d] = "serving" ELSE http[d] = "serving"

Accept(c) ==
    /\ request[c] = "queued" /\ Serves(c, via[c])
    /\ Accepting(via[c])
    /\ request' = [request EXCEPT ![c] = "reading"]
    /\ UNCHANGED <<daemonVars, faults, via, transport, kind, done, outcome>>

\* The request line is read and names a command, or does not and is answered
\* with an error.
ReadLine(c) ==
    /\ request[c] = "reading"
    /\ \/ request' = [request EXCEPT ![c] = "handling"] /\ UNCHANGED outcome
       \/ /\ request' = [request EXCEPT ![c] = "replying"]
          /\ outcome' = [outcome EXCEPT ![c] = "error"]
    /\ UNCHANGED <<daemonVars, faults, via, transport, kind, done>>

\* Mutant: the error of a handler is not passed on.
Dispatched_AlwaysOk(ok) == "ok"

\* What dispatch makes of the result of a handler.
Dispatched(ok) == IF ok THEN "ok" ELSE "error"

\* The handler up to its first change, or up to an error before it.
Effect(c) ==
    /\ request[c] = "handling"
    /\ \/ /\ done' = [done EXCEPT ![c] = @ + 1]
          /\ request' = [request EXCEPT ![c] = "finishing"]
          /\ UNCHANGED outcome
       \/ /\ request' = [request EXCEPT ![c] = "replying"]
          /\ outcome' = [outcome EXCEPT ![c] = Dispatched(FALSE)]
          /\ UNCHANGED done
    /\ UNCHANGED <<daemonVars, faults, via, transport, kind>>

\* Whether what follows the first change can fail: delete_pairing and send_message,
\* add_allowed.
Finished(c) == IF kind[c] = "change" THEN {TRUE} ELSE BOOLEAN

\* The rest of it: what is done stays done when it fails.
Finish(c) ==
    /\ request[c] = "finishing"
    /\ \E ok \in Finished(c) : outcome' = [outcome EXCEPT ![c] = Dispatched(ok)]
    /\ request' = [request EXCEPT ![c] = "replying"]
    /\ UNCHANGED <<daemonVars, faults, via, transport, kind, done>>

\* The response line is written and the connection closed.
Reply(c) ==
    /\ request[c] = "replying"
    /\ request' = [request EXCEPT ![c] = "settled"]
    /\ UNCHANGED <<daemonVars, faults, via, transport, kind, done, outcome>>

-----------------------------------------------------------------------------
Runs(d) ==
    \/ Open(d) \/ Drained(d) \/ RemoveSocket(d) \/ Exit(d)
    \/ RemoveStale(d) \/ Bind(d) \/ Secure(d) \/ BindHttp(d)
    \/ SocketAborted(d) \/ HttpAborted(d)

Answers(c) == Accept(c) \/ ReadLine(c) \/ Effect(c) \/ Finish(c) \/ Reply(c)

Next ==
    \/ \E d \in Daemons : Start(d) \/ Stop(d) \/ Crash(d) \/ Runs(d)
    \/ \E c \in Commands : Connect(c) \/ Answers(c)

Spec == Init /\ [][Next]_vars

\* The handler of a connect waits for its instance with a client that has no
\* timeout: an instance that takes the connection and does not answer keeps it
\* there (OpencodeClient::new, bring_up_slot, wait_ready).
AwaitsInstance(c) == request[c] = "handling" /\ kind[c] = "connect"

\* A process that runs goes on, the drain of the turns is bounded, and so is what
\* the other handlers wait for: the bot's client and the probes' have timeouts.
Fairness ==
    /\ \A d \in Daemons : WF_vars(Runs(d))
    /\ \A c \in Commands : WF_vars(Answers(c) /\ ~AwaitsInstance(c))

FairSpec == Spec /\ Fairness

-----------------------------------------------------------------------------
TypeOK ==
    /\ phase \in [Daemons -> Phases]
    /\ socket \in [Daemons -> Tasks] /\ http \in [Daemons -> Tasks]
    /\ aborted \subseteq Daemons /\ inode \in Daemons \cup {Nobody}
    /\ faults \in 0..MaxFaults
    /\ request \in [Commands -> Steps] /\ via \in [Commands -> Daemons \cup {Nobody}]
    /\ transport \in [Commands -> {"socket", "http"}] /\ kind \in [Commands -> Kinds]
    /\ done \in [Commands -> Nat] /\ outcome \in [Commands -> Outcomes]

\* What a command is told of a change is true, through aborts, crashes and
\* restarts: "ok" means done once, nobody there means not done, and so does an
\* error unless there was more to do after the change: an approve or a connect
\* that is answered with an error may have changed something and keeps it.  A
\* connection that closes without a line leaves it open.
OutcomeIsTrue ==
    \A c \in Commands :
        /\ done[c] <= 1
        /\ request[c] = "settled" /\ outcome[c] = "ok" => done[c] = 1
        /\ outcome[c] = "nobody" => done[c] = 0
        /\ outcome[c] = "error" /\ done[c] = 1 => kind[c] # "change"

\* Daemons that follow one another, by a restart or after a crash, do not stand
\* in each other's way: a daemon that serves its socket is the one the path
\* leads to, until it removes it, and without a failing system call it does.
SocketIsServed ==
    \A d \in Daemons :
        phase[d] \in {"running", "draining"} =>
            /\ socket[d] = "serving" => inode = d
            /\ socket[d] = "failed" => faults > 0

\* A command that has connected is answered or told that nobody will answer, for
\* it has no timeout of its own: only a connect may wait for ever, and only for
\* its instance; once that has answered (it is finishing, and does not wait again)
\* it is settled like the others.
CommandIsSettled ==
    \A c \in Commands :
        request[c] \in {"queued", "finishing"} ~>
            (request[c] = "settled" \/ AwaitsInstance(c))

=============================================================================
