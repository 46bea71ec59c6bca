---------------------------- MODULE HandoffOneWay ----------------------------
(***************************************************************************)
(* The handoff of an entity that never turns back: the cells are ranked    *)
(* and every crossing goes up in rank.  Frames may still be lost, refused, *)
(* delayed and reordered and loops may stall, but a send that is reported  *)
(* as failed has not left the host.                                        *)
(***************************************************************************)
EXTENDS Handoff

CONSTANT Rank   \* cell -> its place along the way

ASSUME OneWayAssumption ==
    /\ Rank \in [Cells -> Nat]
    /\ \A c, d \in Cells : Rank[c] = Rank[d] => c = d
    /\ \A c, d \in Cells : <<c, d>> \in Crosses => Rank[c] < Rank[d]
    /\ ~SendDeadline

\* The entity is removed, or held at rank r or beyond.
Covered(r) == despawned \/ \E x \in Cells : Holder(x) /\ r <= Rank[x]

\* The cell's crossings and handoffs go up in rank.
Onward(c) ==
    /\ \A x \in crossings[c] : Rank[c] < Rank[x.dest]
    /\ \A a \in inflight[c] : Rank[c] < Rank[a.dest]

\* What makes NoOrphan inductive.  A mark means that its cell holds the
\* entity, so a repeated acknowledgement is as good as the first; an
\* acknowledgement on its way, and the demote it arms, are backed by a holder
\* at or beyond the cell that gave it, which is beyond the cell that demotes.
OneWayInv ==
    /\ TypeOK
    /\ NoOrphan
    /\ \A c \in Cells : accepted[c] # 0 => despawned \/ Holder(c)
    /\ \A m \in InTransit : m.type = "Accepted" => Covered(Rank[m.from])
    /\ \A c \in Cells : Onward(c)
    /\ \A c \in Cells : \A d \in demotes[c] :
          Rank[c] < Rank[d.dest] /\ Covered(Rank[d.dest])

-----------------------------------------------------------------------------
\* The cell furthest along the way that holds the entity.
Front ==
    IF despawned THEN Home
    ELSE IF NoOrphan
    THEN CHOOSE x \in Cells : Holder(x) /\ \A y \in Cells :
                                             Holder(y) => Rank[y] <= Rank[x]
    ELSE "nobody"

Abstract == INSTANCE Authority WITH owner <- Front, gone <- despawned

\* Handoff along the way implements Authority: the destination's acceptance is
\* the step that moves ownership, and no demote, retry or late frame moves it
\* back.
ImplementsAuthority == Abstract!Spec

=============================================================================
