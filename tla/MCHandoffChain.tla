--------------------------- MODULE MCHandoffChain ---------------------------
(* Three cells on two hosts, crossed one way: c1 -> c2 -> c3.              *)
EXTENDS HandoffOneWay, TLC
CONSTANTS c1, c2, c3

MCCells == {c1, c2, c3}
MCHostOf == c1 :> 1 @@ c2 :> 1 @@ c3 :> 2
MCCrosses == {<<c1, c2>>, <<c2, c3>>}
MCRank == c1 :> 0 @@ c2 :> 1 @@ c3 :> 2

\* In one PostSystems at most one frame about the entity leaves the cell, and
\* no other cell's step reads what the rest of it writes.  So it takes effect
\* where that frame is sent, and running one at a time loses no behaviour.
OnePostSystemsAtATime ==
    \A x, y \in Cells :
       loop[x] \notin {"inbox", "systems"} /\ loop[y] \notin {"inbox", "systems"} => x = y

\* Nothing is promised of an entity that has despawned: the run checks the step
\* that despawns it and leaves it there.
BeforeDespawn == ~despawned
=============================================================================
