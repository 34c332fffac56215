------------------------------ MODULE MCFiles ------------------------------
EXTENDS FileTransfer

CONSTANTS alice, bob, home, work, report, minutes, dot

\* Two chats that pair, a slot with an owner in the configuration, one without.
MCChats == {alice, bob}
MCSlots == {home, work}
MCOwner == [s \in MCSlots |-> IF s = home THEN alice ELSE Nobody]

\* Two names for deliverables, one of them written twice, and a hidden name.
MCNames == {report, minutes, dot}
MCHidden == {dot}
MCMaxVersions == [f \in MCNames |-> IF f = report THEN 2 ELSE 1]
MCMaxChunks == [f \in MCNames |-> IF f = report THEN 1 ELSE 0]

\* Three files are written in all: one twice and another, or three names.
MCNext ==
    /\ AllNext
    /\ version'[report] + version'[minutes] + version'[dot] <= 3

MCSpec ==
    /\ AllInit /\ [][MCNext]_<<subject, vars, toolVars, outboxVars>>
    /\ WF_vars(Tick) /\ WF_vars(Sweep) /\ O!Fairness
=============================================================================
