-------------------------- MODULE MCSinkAndChunks --------------------------
(* SinkAndChunks on a small instance.                                        *)
EXTENDS SinkAndChunks

Ordinary(n) == [i \in 1..n |-> "a"]
Fence == [i \in 1..3 |-> "'"]

\* A short line, a blank one, a fence, a line that is over the limit by what is
\* escaped, and one that is so with a length of exactly the limit.
MCLines == {<<>>, Ordinary(4), Fence, [i \in 1..8 |-> "."], Append(Ordinary(11), ".")}
=============================================================================
