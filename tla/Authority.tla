------------------------------ MODULE Authority ------------------------------
(***************************************************************************)
(* What the handoff promises for an entity that never turns back: until    *)
(* the game removes it there is at every moment one cell that owns it, and *)
(* ownership moves only across a boundary the entity crosses.              *)
(***************************************************************************)
CONSTANTS Cells, Home, Crosses

VARIABLES owner, gone

vars == <<owner, gone>>

Init == owner = Home /\ gone = FALSE

\* Authority moves on to the next cell.
Move ==
    /\ ~gone
    /\ \E d \in Cells : <<owner, d>> \in Crosses /\ owner' = d
    /\ UNCHANGED gone

\* The game removes the entity; nothing is promised afterwards.
Remove == gone' = TRUE /\ owner' = Home

Next == Move \/ Remove

Spec == Init /\ [][Next]_vars

=============================================================================
