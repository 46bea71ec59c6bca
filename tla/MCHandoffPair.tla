---------------------------- MODULE MCHandoffPair ----------------------------
(* Two cells on one host, crossed one way or both ways.                    *)
EXTENDS Handoff, TLC
CONSTANTS c1, c2,
    MaxLag   \* ticks one loop may run ahead of another

MCCells == {c1, c2}
OneHost == c1 :> 1 @@ c2 :> 1
BothWays == {<<c1, c2>>, <<c2, c1>>}

\* In one PostSystems at most one frame about the entity leaves the cell, and
\* no other cell's step reads what the rest of it writes.  So it takes effect
\* where that frame is sent, and running one at a time loses no behaviour.
OnePostSystemsAtATime ==
    \A x, y \in Cells :
       loop[x] \notin {"inbox", "systems"} /\ loop[y] \notin {"inbox", "systems"} => x = y

\* The loops keep time: every PostSystems reads the next cluster tick, and none
\* runs further ahead than MaxLag.  At MaxTick time stands still and the loops go
\* on, so that what must eventually happen can.
KeepTime ==
    \A x \in Cells : tick'[x] # tick[x] \/ (loop[x] = "systems" /\ loop'[x] # "systems")
       => /\ tick'[x] = tick[x] + 1 \/ tick[x] = MaxTick
          /\ \A y \in Cells : tick'[x] <= tick[y] + MaxLag
=============================================================================
