------------------------- MODULE MCSignalingServer -------------------------
(* SignalingServer for TLC: model values and their symmetry.               *)
EXTENDS SignalingServer, TLC

CONSTANTS h1, h2, h3, n1, n2, n3

Symmetry == Permutations(Handles) \cup Permutations(Names)

\* No guard and no property reads sent, only sent': states that differ in
\* nothing else have the same futures.
View == <<registry, maps, clock, conn, reachable>>
=============================================================================
