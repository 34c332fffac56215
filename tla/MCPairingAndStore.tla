------------------------- MODULE MCPairingAndStore -------------------------
EXTENDS PairingAndStore, TLC

\* Few enough codes for chats to draw the same; the chats are alike, and so are
\* the codes and the admins.
Symmetry == Permutations(Chats) \cup Permutations(Codes) \cup Permutations(Admins)
=============================================================================
