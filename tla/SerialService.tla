--------------------------- MODULE SerialService ---------------------------
(***************************************************************************)
(* What the turn queues promise, with no worker, channel or map in sight:  *)
(* each chat is a serial server with one job in service and a bounded      *)
(* first-come first-served queue behind it.  A job taken is served, save   *)
(* for two reasons: the job in service crashes, which takes those behind   *)
(* it along and is counted, or the drain that begins when the service      *)
(* closes is cut off.  A drain that ends has left nothing unserved.        *)
(* TurnQueue implements it.                                                *)
(***************************************************************************)
EXTENDS Naturals, Sequences

CONSTANTS Chats, Depth, MaxArrivals

VARIABLES
    arrived,    \* messages seen, per chat
    current,    \* the job in service, 0 when there is none
    waiting,    \* the jobs behind it
    served,     \* the jobs served, in the order their service ended
    dropped,    \* the jobs taken that will never be served
    crashes,    \* jobs that crashed in service
    state       \* "serving", "draining", then "drained" or "cut"

serverVars == <<arrived, current, waiting, served, dropped, crashes, state>>

Init ==
    /\ arrived = [c \in Chats |-> 0]
    /\ current = [c \in Chats |-> 0]
    /\ waiting = [c \in Chats |-> << >>]
    /\ served = [c \in Chats |-> << >>]
    /\ dropped = [c \in Chats |-> {}]
    /\ crashes = 0
    /\ state = "serving"

\* What the server of a chat holds.
Holds(c) == ({current[c]} \ {0}) \cup {waiting[c][i] : i \in 1..Len(waiting[c])}

Arrives(c) ==
    /\ state = "serving"
    /\ arrived[c] < MaxArrivals
    /\ arrived' = [arrived EXCEPT ![c] = @ + 1]

Take(c) ==
    /\ Arrives(c)
    /\ Len(waiting[c]) < Depth
    /\ waiting' = [waiting EXCEPT ![c] = Append(@, arrived[c] + 1)]
    /\ UNCHANGED <<current, served, dropped, crashes, state>>

\* Only a full queue refuses a job.
Refuse(c) ==
    /\ Arrives(c)
    /\ Len(waiting[c]) = Depth
    /\ UNCHANGED <<current, waiting, served, dropped, crashes, state>>

Start(c) ==
    /\ current[c] = 0
    /\ waiting[c] # << >>
    /\ current' = [current EXCEPT ![c] = Head(waiting[c])]
    /\ waiting' = [waiting EXCEPT ![c] = Tail(@)]
    /\ UNCHANGED <<arrived, served, dropped, crashes, state>>

Finish(c) ==
    /\ current[c] # 0
    /\ served' = [served EXCEPT ![c] = Append(@, current[c])]
    /\ current' = [current EXCEPT ![c] = 0]
    /\ UNCHANGED <<arrived, waiting, dropped, crashes, state>>

\* The job in service crashes: it and those behind it are dropped, and the
\* server stands empty, ready for the next.
Crash(c) ==
    /\ current[c] # 0
    /\ crashes' = crashes + 1
    /\ dropped' = [dropped EXCEPT ![c] = @ \cup Holds(c)]
    /\ current' = [current EXCEPT ![c] = 0]
    /\ waiting' = [waiting EXCEPT ![c] = << >>]
    /\ UNCHANGED <<arrived, served, state>>

\* Nothing is taken any more; what was taken goes on being served.
Close ==
    /\ state = "serving"
    /\ state' = "draining"
    /\ UNCHANGED <<arrived, current, waiting, served, dropped, crashes>>

\* The drain is over when no server holds anything.
End ==
    /\ state = "draining"
    /\ \A c \in Chats : current[c] = 0 /\ waiting[c] = << >>
    /\ state' = "drained"
    /\ UNCHANGED <<arrived, current, waiting, served, dropped, crashes>>

\* The drain is cut off: every server drops what it holds.
CutOff ==
    /\ state = "draining"
    /\ state' = "cut"
    /\ dropped' = [c \in Chats |-> dropped[c] \cup Holds(c)]
    /\ current' = [c \in Chats |-> 0]
    /\ waiting' = [c \in Chats |-> << >>]
    /\ UNCHANGED <<arrived, served, crashes>>

Next ==
    \/ \E c \in Chats : Take(c) \/ Refuse(c) \/ Start(c) \/ Finish(c) \/ Crash(c)
    \/ Close \/ End \/ CutOff

Spec == Init /\ [][Next]_serverVars

=============================================================================
