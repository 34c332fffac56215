--------------------------- MODULE SinkAndChunks ---------------------------
(* LiveSink and MarkdownChunks: how the chunks of an answer are made, and    *)
(* how they are sent.  The one knows a chunk by its length, the other by its *)
(* number, so they share no state: a behaviour is of one of them, and the    *)
(* other rests.                                                              *)
EXTENDS LiveSink

CONSTANTS Lines, MaxLines, LogSizes, TELEGRAM_LIMIT

VARIABLES
    subject,    \* the module the behaviour is of
    doc, log, pc, rest, buf, chunks

chunkVars == <<doc, log, pc, rest, buf, chunks>>

M == INSTANCE MarkdownChunks

ASSUME DocumentAssumption == M!ChunksAssumption

\* A sink that has not begun has nothing to do that fairness is about.
BothInit ==
    /\ Init /\ M!Init
    /\ \/ subject = "sink" /\ doc = <<>> /\ \A size \in LogSizes : log <= size
       \/ subject = "chunks"

BothNext ==
    /\ UNCHANGED subject
    /\ \/ subject = "sink" /\ Next /\ UNCHANGED chunkVars
       \/ subject = "chunks" /\ M!Next /\ UNCHANGED vars

BothSpec == BothInit /\ [][BothNext]_<<subject, vars, chunkVars>> /\ Fairness

\* The properties of MarkdownChunks.  No character of the answer is lost or
\* repeated by cutting it (markdown.rs, to_chunks).
Lossless == M!Lossless

\* A chunk that ends at a line's end fits into a message, the log included
\* (stream.rs, finalize).
WholeLinesFit == M!WholeLinesFit
=============================================================================
