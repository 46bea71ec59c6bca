--------------------------- MODULE MCCellTransfer ---------------------------
(* Instances of CellTransfer: a parent cell with two or three quadrants on *)
(* two or three hosts.                                                     *)
EXTENDS CellTransfer

CONSTANTS h1, h2, h3, P, C1, C2, C3, e1, e2, e3

TwoChildren == <<C1, C2>>
ThreeChildren == <<C1, C2, C3>>

(* The parent on h1, not split.                                            *)
Whole == {[c \in Cells |-> IF c = P THEN h1 ELSE NoHost]}

(* Split, with the quadrants on any of the hosts.                          *)
Quartered == {f \in [Cells -> Hosts \union {NoHost}] :
                \A c \in Cells : (f[c] = NoHost) <=> (c = P)}

Either == Whole \union Quartered
=============================================================================
