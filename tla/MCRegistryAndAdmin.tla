------------------------- MODULE MCRegistryAndAdmin -------------------------
(* RegistryAndAdmin with one slot that the operator has declared, with an    *)
(* owner, or two slots of one name.                                          *)
EXTENDS RegistryAndAdmin

CONSTANTS n1, u1, u2, c1, a1, a2, k1, k2

OneDeclared == [n \in Names |-> IF n = n1 THEN <<[url |-> u1, chat |-> c1]>> ELSE << >>]
TwoOfOneName ==
    [n \in Names |-> IF n = n1 THEN <<[url |-> u1, chat |-> c1], [url |-> u2, chat |-> NoChat]>>
                    ELSE << >>]
MCDeclared == {OneDeclared, TwoOfOneName}

\* The channel's commands: an approve beside a change, both over the socket, or
\* a connect over the socket beside a change over HTTP.
\* The registry starts with the instance that no table of OneDeclared names reachable,
\* and with two slots of one name with both.
MCInit ==
    /\ BothInit
    /\ transport[k1] = "socket" /\ kind[k2] = "change"
    /\ subject = "channel" =>
          \/ kind[k1] = "approve" /\ transport[k2] = "socket"
          \/ kind[k1] = "connect" /\ transport[k2] = "http"
    /\ subject = "registry" => u2 \in up
    /\ file # OneDeclared => subject = "registry" /\ up = Urls

\* ... and sees one connect.  Which admin makes a connect is told apart by nothing
\* but whether another is under way: the second comes in when the first is busy.
MCNext ==
    /\ BothNext
    /\ Twice(n1) => connects' <= 1
    /\ conn[a2] = Idle /\ conn'[a2] # Idle => conn[a1] # Idle

MCSpec == MCInit /\ [][MCNext]_<<subject, vars, channelVars>> /\ Fairness /\ A!Fairness
=============================================================================
