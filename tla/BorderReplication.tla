-------------------------- MODULE BorderReplication --------------------------
(* Replication of one entity over a cell border: the source cells, whose   *)
(* BorderDispatcher pushes the entity to the receiving cell once a tick    *)
(* over a lossy stream, and the receiver, which keeps a replica of it,     *)
(* takes authority over it at a handoff and gives it away again            *)
(* (pkg/universe: border_replication.go, border_viewer.go, stage.go,       *)
(* cell.go, handoff_driver.go).                                            *)
(*                                                                         *)
(* All cells run at one rate: in every round each cell ticks once, in any  *)
(* order, and a frame waits at most until the receiver's next tick.        *)
EXTENDS Integers, Sequences, FiniteSets

CONSTANTS
    Sources,        \* cells that push to the receiver
    Receiver,       \* the cell whose replica is observed
    Home,           \* the cell that has the entity at the start
    None,
    EpochSpace,     \* 2^32: authority epochs wrap
    FirstEpoch,     \* the entity's epoch at the start
    FullTails,      \* borderLifecycleFullTailFrames
    Resync,         \* borderFullResyncInterval
    TTL,            \* Replica.TTL of a replica just refreshed
    LeadTicks,      \* HandoffLeadTicks
    MaxChanges,     \* bound: changes of the entity's components
    Budgets         \* bounds: how many changes, handoffs, moves in or out of
                    \* a margin, rewirings of the neighbours and lost frames a
                    \* behaviour has, and how many ticks a frame may be late

Cells == Sources \union {Receiver}
Epochs == 0 .. EpochSpace - 1
Tails == 0 .. MaxChanges
Unset == -1         \* components at their zero values
Unchanged == -2     \* borderTailUnchanged

(* A Live copy; the viewer's baseline; the entity's entry in a border      *)
(* frame, a frame with the tick it was sent in; a replica, with the epoch  *)
(* of the authority its contents are from; a handoff and who has acted.    *)
LiveCopy == [epoch : Epochs, tail : Tails \union {Unset}]
Baseline == [epoch : Epochs, tail : Tails \union {Unset}, left : 0 .. FullTails]
Entry == [epoch : Epochs, tail : Tails \union {Unset, Unchanged}]
Frame == [entry : Entry \union {None}, sent : 0 .. Resync - 1]
Replica == [epoch : Epochs, tail : Tails \union {Unset}, ttl : 1 .. TTL, from : Epochs]
HandoffPayload == [src : Cells, dst : Cells, epoch : Epochs, tail : Tails \union {Unset},
                   left : 0 .. LeadTicks, done : SUBSET Cells]

Budget == [changes : 0 .. MaxChanges, handoffs : Nat, moves : Nat, rewires : Nat,
           losses : Nat, delay : Nat]

ASSUME BorderAssumption ==
    /\ Receiver \notin Sources /\ Home \in Sources
    /\ EpochSpace \in Nat \ {0} /\ FirstEpoch \in Epochs
    /\ FullTails \in Nat /\ Resync \in Nat \ {0} /\ LeadTicks \in Nat
    /\ MaxChanges \in Nat /\ TTL \in Nat \ {0}
    /\ Budgets \subseteq Budget
    /\ \A m \in Budgets : /\ 2 * m.handoffs < EpochSpace
                          /\ m.losses < FullTails
                          /\ m.delay + 1 < Resync
                          /\ m.losses + m.delay + 2 < TTL

(* The absent copy, replica or handoff is none of those there can be.      *)
ASSUME NoneAssumption ==
    /\ None \notin LiveCopy /\ None \notin Entry /\ None \notin Replica

VARIABLES
    copy,       \* per cell: its Live copy [epoch, tail], or None
    viewer,     \* per source: the CellViewer of the receiver
    chan,       \* per source: border frames under way to the receiver
    replica,    \* the receiver's replica [epoch, tail, ttl, from], or None
    highest,    \* highestSeenEpoch of the entity, or None
    lastSeen,   \* sources whose borderLastSeen holds the entity
    handoff,    \* the handoff under way, or None
    near,       \* per source: the entity is within the receiver's margin
    round,      \* the cluster tick modulo Resync
    ticked,     \* cells that have ticked in this round
    lost,       \* border frames lost so far
    budget      \* what is left of the other bounds

vars == <<copy, viewer, chan, replica, highest, lastSeen, handoff, near, round, ticked,
          lost, budget>>

NoViewer == [inSet |-> FALSE, base |-> None]

Init ==
    /\ copy = [x \in Cells |-> IF x = Home THEN [epoch |-> FirstEpoch, tail |-> 0] ELSE None]
    /\ viewer = [x \in Sources |-> NoViewer]
    /\ chan = [x \in Sources |-> <<>>]
    /\ replica = None
    /\ highest = None
    /\ lastSeen = {}
    /\ handoff = None
    /\ near = [x \in Sources |-> TRUE]
    /\ round = 1 % Resync
    /\ ticked = {}
    /\ lost = 0
    /\ budget \in Budgets

(* serialUint32After: candidate follows current in serial-number order.    *)
serialUint32After(candidate, current) ==
    LET delta == (candidate - current) % EpochSpace
    IN  delta # 0 /\ delta < EpochSpace \div 2

Stale(epoch, current) == epoch # current /\ ~serialUint32After(epoch, current)

-----------------------------------------------------------------------------
(* The sender.                                                             *)

\* Mutant: the baseline outlives the authority epoch.
LiveBaselineUnscoped(v, c) ==
    IF v.base # None
    THEN [v.base EXCEPT !.epoch = c.epoch]
    ELSE [epoch |-> c.epoch, tail |-> Unset, left |-> FullTails]

(* The baseline the entity is compared with: one per authority epoch, and  *)
(* a fresh one owes FullTails full tails.                                  *)
LiveBaseline(v, c) ==
    IF v.base # None /\ v.base.epoch = c.epoch
    THEN v.base
    ELSE [epoch |-> c.epoch, tail |-> Unset, left |-> FullTails]

\* Mutant: no periodic full tail.
BuildOnce(v, c) ==
    LET b == LiveBaseline(v, c)
    IN  IF b.left = 0 /\ b.tail = c.tail
        THEN [entry |-> [epoch |-> c.epoch, tail |-> Unchanged], base |-> b]
        ELSE [entry |-> [epoch |-> c.epoch, tail |-> c.tail],
              base |-> [b EXCEPT !.tail = c.tail, !.left = IF @ > 0 THEN @ - 1 ELSE 0]]

(* The Build closure: the sentinel when nothing forces a full tail and the *)
(* components are those last sent, and otherwise the full tail, which      *)
(* becomes the baseline.                                                   *)
Build(v, c) ==
    LET b == LiveBaseline(v, c)
        forceResync == b.tail = Unset \/ b.left > 0 \/ round = 0
    IN  IF ~forceResync /\ b.tail = c.tail
        THEN [entry |-> [epoch |-> c.epoch, tail |-> Unchanged], base |-> b]
        ELSE [entry |-> [epoch |-> c.epoch, tail |-> c.tail],
              base |-> [b EXCEPT !.tail = c.tail, !.left = IF @ > 0 THEN @ - 1 ELSE 0]]

\* Mutant: the baseline of an entity that has left stays.
SwapInSetKeeps(inSet, base) == [inSet |-> inSet, base |-> base]

(* SwapInSet: what has left the set takes its baseline with it.            *)
SwapInSet(inSet, base) == [inSet |-> inSet, base |-> IF inSet THEN base ELSE None]

(* Send: nothing goes out when the set was empty and still is.             *)
Sends(x, inSet) == inSet \/ viewer[x].inSet

(* BorderDispatcher.Tick of x towards the receiver, x holding c.  The      *)
(* frame may be lost: a full inbox, or a stream that fails.                *)
BorderTick(x, c, lose) ==
    LET inSet == c # None /\ near[x]
        built == Build(viewer[x], c)
        frame == [entry |-> IF inSet THEN built.entry ELSE None, sent |-> round]
    IN  /\ viewer' = [viewer EXCEPT ![x] = SwapInSet(inSet, IF inSet THEN built.base ELSE viewer[x].base)]
        /\ lose => Sends(x, inSet) /\ lost < budget.losses
        /\ lost' = IF lose THEN lost + 1 ELSE lost
        /\ chan' = IF Sends(x, inSet) /\ ~lose
                   THEN [chan EXCEPT ![x] = Append(@, frame)] ELSE chan

-----------------------------------------------------------------------------
(* Handoffs.  The message follows the border frames its source had sent,   *)
(* on the same stream; what is not held up by them arrives in the lead.    *)

Arrived ==
    handoff.dst = Receiver =>
       \A i \in DOMAIN chan[handoff.src] :
          LET f == chan[handoff.src][i].entry IN f # None => f.epoch = handoff.epoch

Due(x) == handoff # None /\ handoff.left = 0 /\ x \notin handoff.done /\ Arrived
Promotes(x) == Due(x) /\ handoff.dst = x
Demotes(x) == Due(x) /\ handoff.src = x

(* The handoff after x has played its part.                                *)
Settle(x) == IF handoff.done = {} THEN [handoff EXCEPT !.done = {x}] ELSE None

(* What the blob, or the replica, hands the destination of a handoff that  *)
(* is not the receiver.                                                    *)
Handed == {handoff.tail}
          \union {copy[y].tail : y \in {z \in {handoff.src} : copy[z] # None}}

(* HandoffDriver.Tick of x, which holds c after its promotes: the due      *)
(* demote, or a crossing (handleCrossing), which bumps the epoch the       *)
(* source goes on pushing and takes the components down in the blob.       *)
HandoffTick(x, c) ==
    \/ /\ Demotes(x)
       /\ copy' = [copy EXCEPT ![x] = None]
       /\ handoff' = Settle(x)
       /\ budget' = budget
    \/ /\ ~Demotes(x)
       /\ copy' = [copy EXCEPT ![x] = c]
       /\ handoff' = IF Promotes(x) THEN Settle(x) ELSE handoff
       /\ budget' = budget
    \/ /\ handoff = None /\ c # None /\ budget.handoffs > 0
       /\ \E dst \in Cells \ {x} :
             /\ dst = Receiver => near[x]
             /\ LET e == (c.epoch + 1) % EpochSpace
                IN  /\ copy' = [copy EXCEPT ![x] = [c EXCEPT !.epoch = e]]
                    /\ handoff' = [src |-> x, dst |-> dst, epoch |-> e, tail |-> c.tail,
                                   left |-> LeadTicks, done |-> {}]
       /\ budget' = [budget EXCEPT !.handoffs = @ - 1]

-----------------------------------------------------------------------------
(* PostSystems of a source: promotes, the border frame, the handoffs.      *)
PostSystems(x) ==
    /\ x \notin ticked
    /\ ticked' = ticked \union {x}
    /\ \E c \in IF Promotes(x) THEN {[epoch |-> handoff.epoch, tail |-> t] : t \in Handed}
                               ELSE {copy[x]} :
          /\ \E lose \in BOOLEAN : BorderTick(x, c, lose)
          /\ HandoffTick(x, c)
    /\ UNCHANGED <<replica, highest, lastSeen, near, round>>

(* drainPendingPromotes of the receiver: a replica's components win over   *)
(* the blob's, and the replica goes (RemoveReplicaByNetID).                *)
PromotedTail == IF replica # None THEN replica.tail ELSE handoff.tail

(* DemoteLiveToReplica.                                                    *)
Demoted(c) == [epoch |-> c.epoch, tail |-> c.tail, ttl |-> TTL, from |-> c.epoch]

(* ExpireReplicas.                                                         *)
Expired(r) ==
    IF r = None THEN None
    ELSE IF r.ttl > 1 THEN [r EXCEPT !.ttl = @ - 1] ELSE None

(* The tick of the receiver: PreTick has applied the frames of earlier     *)
(* rounds; PostSystems promotes, demotes or crosses, and ages the replica. *)
(* A replica that goes takes the entity out of every interest set.         *)
ReceiverTick ==
    /\ Receiver \notin ticked
    /\ \A x \in Sources : \A i \in DOMAIN chan[x] : (round - chan[x][i].sent) % Resync <= budget.delay
    /\ ticked' = ticked \union {Receiver}
    /\ LET c == IF Promotes(Receiver)
                THEN [epoch |-> handoff.epoch, tail |-> PromotedTail]
                ELSE copy[Receiver]
           r == IF Promotes(Receiver) THEN None
                ELSE IF Demotes(Receiver) THEN Demoted(c) ELSE replica
       IN  /\ HandoffTick(Receiver, c)
           /\ replica' = Expired(r)
           /\ lastSeen' = IF replica # None /\ replica' = None THEN {} ELSE lastSeen
    /\ UNCHANGED <<viewer, chan, highest, near, round, lost>>

-----------------------------------------------------------------------------
(* The receiver's side of a frame.                                         *)

\* Mutant: the materialized epoch is not looked at.
RefusedByHighest(f) == highest # None /\ Stale(f.epoch, highest)

(* upsertBorderReplica refuses an entry older than the replica or than     *)
(* what has been seen.                                                     *)
Refused(f) ==
    \/ replica # None /\ Stale(f.epoch, replica.epoch)
    \/ highest # None /\ Stale(f.epoch, highest)

(* The replica after an accepted entry.  applyEntityComponents leaves the  *)
(* components alone on the sentinel; on a new replica they are zero.       *)
Upserted(f) ==
    LET old == IF replica # None THEN replica.tail ELSE Unset
    IN  IF copy[Receiver] # None THEN replica
        ELSE [epoch |-> f.epoch,
              tail |-> IF f.tail = Unchanged THEN old ELSE f.tail,
              ttl |-> TTL, from |-> f.epoch]

(* netIDStillPushedByOtherSource.                                          *)
netIDStillPushedByOtherSource(x) == lastSeen \ {x} # {}

(* The interest-set difference: the frame of x no longer lists the entity. *)
DropsOut(x, f) == x \in lastSeen /\ f = None /\ ~netIDStillPushedByOtherSource(x)

(* ApplyBorderFrame of the oldest frame from x.                            *)
ApplyBorderFrame(x) ==
    /\ chan[x] # <<>>
    /\ chan' = [chan EXCEPT ![x] = Tail(@)]
    /\ LET f == Head(chan[x]).entry
           accepted == f # None /\ ~Refused(f)
       IN  /\ highest' = IF accepted THEN f.epoch ELSE highest
           /\ replica' = IF accepted THEN Upserted(f)
                         ELSE IF DropsOut(x, f) THEN None ELSE replica
           /\ lastSeen' = IF f # None THEN lastSeen \union {x}
                          ELSE IF DropsOut(x, f) THEN {} ELSE lastSeen \ {x}
    /\ UNCHANGED <<copy, viewer, handoff, near, round, ticked, lost, budget>>

-----------------------------------------------------------------------------
(* The game and the cluster around them.                                   *)

(* A system of the authority changes a component.                          *)
Simulate(x) ==
    /\ copy[x] # None /\ budget.changes > 0
    /\ copy' = [copy EXCEPT ![x].tail = MaxChanges - budget.changes + 1]
    /\ budget' = [budget EXCEPT !.changes = @ - 1]
    /\ UNCHANGED <<viewer, chan, replica, highest, lastSeen, handoff, near, round, ticked, lost>>

(* The entity enters or leaves the margin along the receiver's edge        *)
(* (entityNearNeighborEdge); one that is crossing that edge is within it.  *)
Move(x) ==
    /\ budget.moves > 0
    /\ handoff # None => ~(handoff.src = x /\ handoff.dst = Receiver)
    /\ near' = [near EXCEPT ![x] = ~@]
    /\ budget' = [budget EXCEPT !.moves = @ - 1]
    /\ UNCHANGED <<copy, viewer, chan, replica, highest, lastSeen, handoff, round, ticked, lost>>

(* invalidateBorderDispatcher, and ensureBorderDispatcher at the next      *)
(* tick: a new viewer that remembers nothing.                              *)
invalidateBorderDispatcher(x) ==
    /\ budget.rewires > 0
    /\ viewer' = [viewer EXCEPT ![x] = NoViewer]
    /\ budget' = [budget EXCEPT !.rewires = @ - 1]
    /\ UNCHANGED <<copy, chan, replica, highest, lastSeen, handoff, near, round, ticked, lost>>

(* The entity is destroyed by its authority.                               *)
Destroy(x) ==
    /\ copy[x] # None /\ handoff = None
    /\ copy' = [copy EXCEPT ![x] = None]
    /\ UNCHANGED <<viewer, chan, replica, highest, lastSeen, handoff, near, round, ticked,
                   lost, budget>>

(* The cluster clock moves on when every cell has ticked.                  *)
NextTick ==
    /\ ticked = Cells
    /\ ticked' = {}
    /\ round' = (round + 1) % Resync
    /\ handoff' = IF handoff # None /\ handoff.left > 0
                  THEN [handoff EXCEPT !.left = @ - 1] ELSE handoff
    /\ UNCHANGED <<copy, viewer, chan, replica, highest, lastSeen, near, lost, budget>>

Next ==
    \/ \E x \in Sources : \/ PostSystems(x)
                          \/ ApplyBorderFrame(x)
                          \/ Move(x)
                          \/ invalidateBorderDispatcher(x)
    \/ ReceiverTick
    \/ \E x \in Cells : Simulate(x) \/ Destroy(x)
    \/ NextTick

Spec == Init /\ [][Next]_vars

(* Every loop keeps ticking and drains its inbox.                          *)
FairSpec ==
    /\ Spec
    /\ \A x \in Sources : WF_vars(PostSystems(x)) /\ WF_vars(ApplyBorderFrame(x))
    /\ WF_vars(ReceiverTick)
    /\ WF_vars(NextTick)

-----------------------------------------------------------------------------
(* Properties.                                                             *)

(* The type of every variable: copies, viewers and their baselines, frames *)
(* under way, the replica and the receiver's books, the handoff.           *)
TypeOK ==
    /\ copy \in [Cells -> LiveCopy \union {None}]
    /\ viewer \in [Sources -> [inSet : BOOLEAN, base : Baseline \union {None}]]
    /\ chan \in [Sources -> Seq(Frame)]
    /\ replica \in Replica \union {None}
    /\ highest \in Epochs \union {None}
    /\ lastSeen \subseteq Sources
    /\ handoff \in HandoffPayload \union {None}
    /\ near \in [Sources -> BOOLEAN]
    /\ round \in 0 .. Resync - 1
    /\ ticked \subseteq Cells
    /\ lost \in Nat
    /\ budget \in Budget

(* No replica of a living entity is ever shown with zero-valued            *)
(* components: as long as fewer frames are lost than full tails are sent   *)
(* for a fresh baseline, the unchanged-sentinel never meets a receiver     *)
(* without the components it stands for, whatever handoffs, moves and      *)
(* rewirings happen in between.                                            *)
NeverBare ==
    replica # None /\ (\E x \in Cells : copy[x] # None) => replica.tail # Unset

(* The receiver never holds a replica beside its own Live copy, although   *)
(* frames of the previous authority still arrive after the promote.        *)
OnePresence == ~(replica # None /\ copy[Receiver] # None)

(* The contents of a replica are never replaced by those of an earlier     *)
(* authority, also not by a frame that was under way while the receiver    *)
(* itself was the authority.                                               *)
ContentForward ==
    [][replica # None /\ replica' # None => ~Stale(replica'.from, replica.from)]_vars

(* A promote never undoes a change: drainPendingPromotes prefers the       *)
(* replica's components to the blob's, and they are at least as new.  The  *)
(* first handoff of the entity bears the loss of a frame, since the bumped *)
(* epoch makes the source send the full tail again; later ones hold while  *)
(* no frame is lost.                                                       *)
PromoteFresh ==
    [][/\ ReceiverTick /\ Promotes(Receiver)
       /\ budget.delay = 0
       /\ lost = 0 \/ (lost = 1 /\ handoff.epoch = (FirstEpoch + 1) % EpochSpace)
       => copy'[Receiver].tail >= handoff.tail]_vars

(* In the end the receiver has a replica only of an entity that a source   *)
(* pushes, also when the one empty frame that says so was lost or a        *)
(* rewired viewer never sent it; and the replica shows the components of   *)
(* the authority, although a change is sent once and the frame may be      *)
(* lost, or be overwritten by the previous authority's last frames of the  *)
(* same epoch.                                                             *)
ReplicaConverges ==
    <>[](replica # None =>
           /\ \E x \in Sources : copy[x] # None /\ near[x]
           /\ \A x \in Sources : copy[x] # None /\ near[x] => replica.tail = copy[x].tail)
=============================================================================
