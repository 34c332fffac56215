-------------------------- MODULE RegistryAndAdmin --------------------------
(* SlotRegistry and AdminChannel: how a command reaches the daemon, and what *)
(* the one that has the most steps, connect, does there.  They share no      *)
(* state: a behaviour is of one of them, and the other rests.                *)
EXTENDS SlotRegistry

CONSTANTS Daemons, Nobody, Commands, Overlap, Http, MaxFaults

VARIABLES
    subject,    \* the module the behaviour is of
    daemon, socket, http, aborted, inode, faults,
    request, via, transport, kind, done, outcome

channelVars ==
    <<daemon, socket, http, aborted, inode, faults,
      request, via, transport, kind, done, outcome>>

A == INSTANCE AdminChannel WITH phase <- daemon

ASSUME ChannelAssumption == A!AdminChannelAssumption

\* At rest no action that fairness is about can be taken: no instance is
\* reachable, no daemon is started.
BothInit ==
    /\ Init /\ A!Init
    /\ \/ /\ subject = "registry"
          /\ \A c \in Commands : transport[c] = "socket" /\ kind[c] = "change"
       \/ subject = "channel" /\ up = {}

BothNext ==
    /\ UNCHANGED subject
    /\ \/ subject = "registry" /\ Next /\ UNCHANGED channelVars
       \/ subject = "channel" /\ A!Next /\ UNCHANGED vars

BothSpec == BothInit /\ [][BothNext]_<<subject, vars, channelVars>> /\ Fairness /\ A!Fairness

\* The properties of AdminChannel.  What a command is told of what it asked for
\* is true (admin.rs, dispatch).
OutcomeIsTrue == A!OutcomeIsTrue

\* The path leads to the daemon that serves, through stops, crashes and starts
\* (admin.rs, serve_admin; lib.rs, serve).
SocketIsServed == A!SocketIsServed

\* A command that has connected is answered or told that nobody will (admin.rs,
\* send_admin).
CommandIsSettled == A!CommandIsSettled
=============================================================================
