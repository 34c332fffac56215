-------------------------- MODULE MCRenderAndScope --------------------------
(* RenderAndScope on a small instance: two calls of one tool; every parent   *)
(* relation, cyclic ones included, of a root and a few more sessions.        *)
EXTENDS RenderAndScope, TLC

CONSTANT bash

\* The second delta of a part is a line break.
LineBreaks == {[part |-> p, nr |-> 2] : p \in Parts}

OneTool == [c \in Calls |-> bash]

\* Parts are alike, and so are calls, and the sessions that are not the root.
Alike == Permutations(Parts) \cup Permutations(Calls) \cup Permutations(Sessions \ {Root})
=============================================================================
