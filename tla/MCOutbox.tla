------------------------------ MODULE MCOutbox ------------------------------
EXTENDS Outbox

CONSTANTS report, log

\* A deliverable, and a log file whose writer never closes it.
MCNames == {report, log}
MCMaxVersions == [f \in MCNames |-> 1]
MCMaxChunks == [f \in MCNames |-> 1]
=============================================================================
