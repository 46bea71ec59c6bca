------------------------ MODULE MCClientReplication ------------------------
(* One viewer, its own entity and one other, two delta-encoded fields.     *)
EXTENDS ClientReplication

CONSTANTS self, ship, pos, hp

FieldSymmetry == Permutations(Fields)

(* Two changes where no gateway multiplies the interleavings.              *)
TwoChanges == [l \in Links |-> IF l \in {"ws", "udp"} THEN 2 ELSE 1]
OneChange == [l \in Links |-> 1]
OneFault == [l \in Links |-> 1]
FewFaults == [l \in Links |-> IF l = "mesh_udp" THEN 0 ELSE 1]
=============================================================================
