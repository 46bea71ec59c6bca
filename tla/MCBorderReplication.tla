------------------------- MODULE MCBorderReplication -------------------------
(* Two source cells and the receiver of both.                              *)
EXTENDS BorderReplication

CONSTANTS west, east, south

(* An entity handed on twice; one handed on once that also moves and whose *)
(* source is rewired; one that only moves in and out of the margin; one    *)
(* handed on twice while frames are late.                                  *)
MCBudgets ==
    {[changes |-> 1, handoffs |-> 2, moves |-> 0, rewires |-> 0, losses |-> 2, delay |-> 0],
     [changes |-> 1, handoffs |-> 1, moves |-> 1, rewires |-> 1, losses |-> 1, delay |-> 0],
     [changes |-> 1, handoffs |-> 0, moves |-> 2, rewires |-> 1, losses |-> 2, delay |-> 0],
     [changes |-> 1, handoffs |-> 2, moves |-> 0, rewires |-> 0, losses |-> 0, delay |-> 2]}
=============================================================================
