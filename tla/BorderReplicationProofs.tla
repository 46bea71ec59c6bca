----------------------- MODULE BorderReplicationProofs -----------------------
(* Safety of border replication for any set of sources, any epoch space,   *)
(* any redundancy, any TTL and any bounds: types, one presence per entity, *)
(* and the order in which the contents of a replica replace each other.    *)
EXTENDS BorderReplication, TLAPS

(* The source of a handoff still has its copy until it has demoted it, and *)
(* no cell hands an entity to itself.                                      *)
SourceHolds ==
    handoff # None =>
       /\ handoff.src # handoff.dst
       /\ handoff.src \notin handoff.done => copy[handoff.src] # None

(* A replica carries the epoch its contents came with.                     *)
FromIsEpoch == replica # None => replica.from = replica.epoch

PInv == TypeOK /\ OnePresence /\ SourceHolds /\ FromIsEpoch

-----------------------------------------------------------------------------
(* What the operators return.                                              *)

(* Spending from a bound leaves a bound.                                   *)
LEMMA BudgetStep ==
    ASSUME NEW m \in Budget
    PROVE  /\ m.changes > 0 => [m EXCEPT !.changes = @ - 1] \in Budget
           /\ m.handoffs > 0 => [m EXCEPT !.handoffs = @ - 1] \in Budget
           /\ m.moves > 0 => [m EXCEPT !.moves = @ - 1] \in Budget
           /\ m.rewires > 0 => [m EXCEPT !.rewires = @ - 1] \in Budget
<1>1. m.changes \in 0 .. MaxChanges /\ m.handoffs \in Nat /\ m.moves \in Nat /\ m.rewires \in Nat
  BY DEF Budget
<1>2. /\ m.changes > 0 => m.changes - 1 \in 0 .. MaxChanges
      /\ m.handoffs > 0 => m.handoffs - 1 \in Nat
      /\ m.moves > 0 => m.moves - 1 \in Nat
      /\ m.rewires > 0 => m.rewires - 1 \in Nat
  BY <1>1, BorderAssumption
<1>3. m.changes > 0 => [m EXCEPT !.changes = @ - 1] \in Budget
  BY <1>2 DEF Budget
<1>4. m.handoffs > 0 => [m EXCEPT !.handoffs = @ - 1] \in Budget
  BY <1>2 DEF Budget
<1>5. m.moves > 0 => [m EXCEPT !.moves = @ - 1] \in Budget
  BY <1>2 DEF Budget
<1>6. m.rewires > 0 => [m EXCEPT !.rewires = @ - 1] \in Budget
  BY <1>2 DEF Budget
<1> QED BY <1>3, <1>4, <1>5, <1>6

(* The baseline that Build leaves and the entry that it encodes.           *)
LEMMA BuildType ==
    ASSUME NEW v \in [inSet : BOOLEAN, base : Baseline \union {None}],
           NEW c \in LiveCopy
    PROVE  Build(v, c) \in [entry : Entry, base : Baseline]
<1> USE BorderAssumption
<1> DEFINE b == LiveBaseline(v, c)
<1>1. b \in Baseline
  BY DEF LiveBaseline, Baseline, LiveCopy
<1>2. c.epoch \in Epochs /\ c.tail \in Tails \union {Unset}
  BY DEF LiveCopy
<1>3. [epoch |-> c.epoch, tail |-> Unchanged] \in Entry
  BY <1>2 DEF Entry
<1>4. [epoch |-> c.epoch, tail |-> c.tail] \in Entry
  BY <1>2 DEF Entry
<1>5. [b EXCEPT !.tail = c.tail, !.left = IF @ > 0 THEN @ - 1 ELSE 0] \in Baseline
  <2> HIDE DEF b
  <2>1. (IF b.left > 0 THEN b.left - 1 ELSE 0) \in 0 .. FullTails
    BY <1>1 DEF Baseline
  <2> QED BY <1>1, <1>2, <2>1 DEF Baseline
<1> HIDE DEF b
<1>6. Build(v, c) = IF ~(b.tail = Unset \/ b.left > 0 \/ round = 0) /\ b.tail = c.tail
                    THEN [entry |-> [epoch |-> c.epoch, tail |-> Unchanged], base |-> b]
                    ELSE [entry |-> [epoch |-> c.epoch, tail |-> c.tail],
                          base |-> [b EXCEPT !.tail = c.tail, !.left = IF @ > 0 THEN @ - 1 ELSE 0]]
  BY DEF Build, b
<1> QED BY <1>1, <1>3, <1>4, <1>5, <1>6

(* A dispatcher tick keeps viewers and streams well-formed.                *)
LEMMA BorderTickType ==
    ASSUME TypeOK, NEW x \in Sources, NEW c \in LiveCopy \union {None}, NEW lose \in BOOLEAN,
           BorderTick(x, c, lose)
    PROVE  /\ viewer' \in [Sources -> [inSet : BOOLEAN, base : Baseline \union {None}]]
           /\ chan' \in [Sources -> Seq(Frame)]
           /\ lost' \in Nat
<1> DEFINE inSet == c # None /\ near[x]
           built == Build(viewer[x], c)
           frame == [entry |-> IF inSet THEN built.entry ELSE None, sent |-> round]
<1>1. viewer[x] \in [inSet : BOOLEAN, base : Baseline \union {None}] /\ near[x] \in BOOLEAN
  BY DEF TypeOK
<1>2. inSet \in BOOLEAN
  BY <1>1
<1>3. inSet => built.entry \in Entry /\ built.base \in Baseline
  <2> SUFFICES ASSUME inSet PROVE built \in [entry : Entry, base : Baseline]
    OBVIOUS
  <2>1. c \in LiveCopy
    OBVIOUS
  <2> QED BY <1>1, <2>1, BuildType
<1> HIDE DEF built
<1>4. frame \in Frame
  BY <1>3 DEF Frame, TypeOK
<1>5. SwapInSet(inSet, IF inSet THEN built.base ELSE viewer[x].base)
         \in [inSet : BOOLEAN, base : Baseline \union {None}]
  BY <1>1, <1>2, <1>3 DEF SwapInSet
<1>6. viewer' = [viewer EXCEPT ![x] = SwapInSet(inSet, IF inSet THEN built.base ELSE viewer[x].base)]
  BY DEF BorderTick, built
<1>7. \/ chan' = chan
      \/ chan' = [chan EXCEPT ![x] = Append(@, frame)]
  BY DEF BorderTick, built
<1> HIDE DEF frame, inSet
<1>8. chan' \in [Sources -> Seq(Frame)]
  <2>1. chan[x] \in Seq(Frame)
    BY DEF TypeOK
  <2>2. Append(chan[x], frame) \in Seq(Frame)
    BY <1>4, <2>1
  <2> QED BY <1>7, <2>2 DEF TypeOK
<1>9. lost' \in Nat
  BY DEF BorderTick, TypeOK
<1>10. viewer' \in [Sources -> [inSet : BOOLEAN, base : Baseline \union {None}]]
  BY <1>5, <1>6 DEF TypeOK
<1> QED BY <1>8, <1>9, <1>10

(* A handoff tick keeps copies and the handoff well-formed, leaves the     *)
(* copies of other cells alone and keeps the source's copy until its       *)
(* demote.                                                                 *)
LEMMA HandoffTickType ==
    ASSUME TypeOK, SourceHolds, NEW x \in Cells, NEW c \in LiveCopy \union {None},
           HandoffTick(x, c), ~Promotes(x) => c = copy[x], Promotes(x) => c # None
    PROVE  /\ copy' \in [Cells -> LiveCopy \union {None}]
           /\ handoff' \in HandoffPayload \union {None}
           /\ budget' \in Budget
           /\ SourceHolds'
           /\ \A y \in Cells \ {x} : copy'[y] = copy[y]
           /\ copy'[x] # None => c # None /\ ~Demotes(x)
<1> USE BorderAssumption, NoneAssumption
<1>a. Due(x) => Settle(x) \in HandoffPayload \union {None}
  BY DEF Settle, HandoffPayload, TypeOK, Due
<1>1. CASE Demotes(x)
  <2>1. copy' = [copy EXCEPT ![x] = None] /\ handoff' = Settle(x) /\ budget' = budget
    BY <1>1 DEF HandoffTick, Demotes, Due
  <2>2. handoff # None /\ handoff.src = x /\ handoff \in HandoffPayload
    BY <1>1 DEF Demotes, Due, TypeOK
  <2>3. SourceHolds'
    <3>1. handoff' # None => handoff' = [handoff EXCEPT !.done = {x}]
      BY <2>1 DEF Settle
    <3> QED BY <3>1, <2>2 DEF SourceHolds, HandoffPayload
  <2> QED BY <2>1, <2>3, <1>a, <1>1 DEF TypeOK, Demotes
<1>2. CASE ~Demotes(x) /\ copy' = [copy EXCEPT ![x] = c] /\ budget' = budget
           /\ handoff' = IF Promotes(x) THEN Settle(x) ELSE handoff
  <2>1. CASE Promotes(x)
    <3>1. handoff # None /\ handoff.dst = x /\ handoff \in HandoffPayload /\ Due(x)
      BY <2>1 DEF Promotes, Due, TypeOK
    <3>2. handoff' # None => /\ handoff' = [handoff EXCEPT !.done = {x}]
                             /\ handoff.done = {}
      BY <1>2, <2>1 DEF Settle
    <3>3. handoff.src # x /\ handoff.src \in Cells
      BY <3>1 DEF SourceHolds, HandoffPayload
    <3>4. SourceHolds'
      BY <3>1, <3>2, <3>3, <1>2 DEF SourceHolds, HandoffPayload, TypeOK
    <3> QED BY <1>2, <2>1, <3>1, <3>4, <1>a DEF TypeOK
  <2>2. CASE ~Promotes(x)
    <3>1. copy' = copy /\ handoff' = handoff
      BY <1>2, <2>2 DEF TypeOK
    <3> QED BY <1>2, <2>2, <3>1 DEF TypeOK, SourceHolds
  <2> QED BY <2>1, <2>2
<1>3. CASE /\ handoff = None /\ c # None /\ budget.handoffs > 0
           /\ \E dst \in Cells \ {x} :
                /\ dst = Receiver => near[x]
                /\ LET e == (c.epoch + 1) % EpochSpace
                   IN  /\ copy' = [copy EXCEPT ![x] = [c EXCEPT !.epoch = e]]
                       /\ handoff' = [src |-> x, dst |-> dst, epoch |-> e, tail |-> c.tail,
                                      left |-> LeadTicks, done |-> {}]
           /\ budget' = [budget EXCEPT !.handoffs = @ - 1]
  <2> DEFINE e == (c.epoch + 1) % EpochSpace
  <2>1. PICK dst \in Cells \ {x} :
           /\ copy' = [copy EXCEPT ![x] = [c EXCEPT !.epoch = e]]
           /\ handoff' = [src |-> x, dst |-> dst, epoch |-> e, tail |-> c.tail,
                          left |-> LeadTicks, done |-> {}]
    BY <1>3
  <2>2. c \in LiveCopy
    BY <1>3
  <2>3. e \in Epochs
    BY <2>2 DEF LiveCopy, Epochs
  <2> HIDE DEF e
  <2>4. [c EXCEPT !.epoch = e] \in LiveCopy
    BY <2>2, <2>3 DEF LiveCopy
  <2>5. copy' \in [Cells -> LiveCopy \union {None}] /\ copy'[x] = [c EXCEPT !.epoch = e]
    BY <2>1, <2>4 DEF TypeOK
  <2>6. handoff' \in HandoffPayload
    BY <2>1, <2>2, <2>3 DEF HandoffPayload, LiveCopy
  <2>7. budget' \in Budget
    BY <1>3, BudgetStep DEF TypeOK
  <2>8. SourceHolds'
    BY <2>1, <2>4, <2>5 DEF SourceHolds
  <2> QED BY <1>3, <2>1, <2>5, <2>6, <2>7, <2>8 DEF TypeOK, Demotes, Due
<1> QED BY <1>1, <1>2, <1>3 DEF HandoffTick

(* Ageing keeps a replica, its epoch and its contents, or removes it.      *)
LEMMA ExpiredType ==
    ASSUME NEW r \in Replica \union {None}
    PROVE  /\ Expired(r) \in Replica \union {None}
           /\ Expired(r) # None => /\ r # None
                                   /\ Expired(r).epoch = r.epoch /\ Expired(r).from = r.from
<1>1. CASE r = None
  BY <1>1 DEF Expired
<1>2. CASE r # None /\ r.ttl > 1
  <2>1. r \in Replica /\ r.ttl - 1 \in 1 .. TTL
    BY <1>2, BorderAssumption DEF Replica
  <2>2. Expired(r) = [r EXCEPT !.ttl = r.ttl - 1]
    BY <1>2 DEF Expired
  <2> QED BY <2>1, <2>2, <1>2 DEF Replica
<1>3. CASE r # None /\ ~(r.ttl > 1)
  BY <1>3 DEF Expired
<1> QED BY <1>1, <1>2, <1>3

(* An accepted entry makes a replica with the epoch it came with, or the   *)
(* receiver has the entity itself and nothing changes.                     *)
LEMMA UpsertedType ==
    ASSUME TypeOK, NEW f \in Entry
    PROVE  \/ copy[Receiver] # None /\ Upserted(f) = replica
           \/ /\ copy[Receiver] = None
              /\ Upserted(f) \in Replica
              /\ Upserted(f).epoch = f.epoch /\ Upserted(f).from = f.epoch
<1> DEFINE old == IF replica # None THEN replica.tail ELSE Unset
           new == IF f.tail = Unchanged THEN old ELSE f.tail
<1>1. CASE copy[Receiver] # None
  BY <1>1 DEF Upserted
<1>2. CASE copy[Receiver] = None
  <2>1. old \in Tails \union {Unset}
    BY DEF TypeOK, Replica
  <2>2. f.tail \in Tails \union {Unset, Unchanged} /\ f.epoch \in Epochs
    BY DEF Entry
  <2> HIDE DEF old
  <2>3. new \in Tails \union {Unset}
    BY <2>1, <2>2
  <2>4. Upserted(f) = [epoch |-> f.epoch, tail |-> new, ttl |-> TTL, from |-> f.epoch]
    BY <1>2 DEF Upserted, old
  <2> HIDE DEF new
  <2>5. TTL \in 1 .. TTL
    BY BorderAssumption
  <2> QED BY <1>2, <2>2, <2>3, <2>4, <2>5 DEF Replica
<1> QED BY <1>1, <1>2

-----------------------------------------------------------------------------
(* One lemma per step.                                                     *)

(* The tick of a source: it never touches the receiver's copy.             *)
LEMMA SourceTickStep ==
    ASSUME PInv, NEW x \in Sources, PostSystems(x)
    PROVE  PInv'
<1> USE BorderAssumption, NoneAssumption
<1>1. PICK c \in (IF Promotes(x) THEN {[epoch |-> handoff.epoch, tail |-> t] : t \in Handed}
                                 ELSE {copy[x]}) :
         /\ \E lose \in BOOLEAN : BorderTick(x, c, lose)
         /\ HandoffTick(x, c)
  BY DEF PostSystems
<1>2. x \in Cells /\ x # Receiver /\ Receiver \in Cells
  BY DEF Cells
<1>3. Promotes(x) => c \in LiveCopy
  <2> SUFFICES ASSUME Promotes(x) PROVE c \in LiveCopy
    OBVIOUS
  <2>1. handoff \in HandoffPayload
    BY DEF Promotes, Due, PInv, TypeOK
  <2>2. PICK t \in Handed : c = [epoch |-> handoff.epoch, tail |-> t]
    BY <1>1
  <2>3. handoff.tail \in Tails \union {Unset} /\ handoff.epoch \in Epochs /\ handoff.src \in Cells
    BY <2>1 DEF HandoffPayload
  <2>4. copy[handoff.src] # None => copy[handoff.src] \in LiveCopy
    BY <2>3 DEF PInv, TypeOK
  <2>5. copy[handoff.src] # None => copy[handoff.src].tail \in Tails \union {Unset}
    BY <2>4 DEF LiveCopy
  <2>6. t \in Tails \union {Unset}
    BY <2>2, <2>3, <2>5 DEF Handed
  <2> QED BY <2>2, <2>3, <2>6 DEF LiveCopy
<1>4. /\ c \in LiveCopy \union {None}
      /\ ~Promotes(x) => c = copy[x]
      /\ Promotes(x) => c # None
  BY <1>1, <1>2, <1>3 DEF PInv, TypeOK
<1>5. /\ viewer' \in [Sources -> [inSet : BOOLEAN, base : Baseline \union {None}]]
      /\ chan' \in [Sources -> Seq(Frame)]
      /\ lost' \in Nat
  BY <1>1, <1>4, BorderTickType DEF PInv
<1>6. /\ copy' \in [Cells -> LiveCopy \union {None}]
      /\ handoff' \in HandoffPayload \union {None}
      /\ budget' \in Budget
      /\ SourceHolds'
      /\ copy'[Receiver] = copy[Receiver]
  BY <1>1, <1>2, <1>4, HandoffTickType DEF PInv
<1>7. UNCHANGED <<replica, highest, lastSeen, near, round>> /\ ticked' \subseteq Cells
  BY <1>2 DEF PostSystems, PInv, TypeOK
<1>8. TypeOK'
  BY <1>5, <1>6, <1>7 DEF PInv, TypeOK
<1> QED BY <1>6, <1>7, <1>8 DEF PInv, OnePresence, FromIsEpoch

(* The tick of the receiver: a promote removes the replica, a demote       *)
(* creates one, and the contents of a replica that stays stay.             *)
LEMMA ReceiverTickStep ==
    ASSUME PInv, ReceiverTick
    PROVE  PInv' /\ (replica # None /\ replica' # None => replica'.from = replica.from)
<1> USE BorderAssumption, NoneAssumption
<1> DEFINE c == IF Promotes(Receiver) THEN [epoch |-> handoff.epoch, tail |-> PromotedTail]
                ELSE copy[Receiver]
           r == IF Promotes(Receiver) THEN None
                ELSE IF Demotes(Receiver) THEN Demoted(c) ELSE replica
<1>1. Receiver \in Cells
  BY DEF Cells
<1>2. /\ HandoffTick(Receiver, c) /\ replica' = Expired(r)
      /\ lastSeen' = IF replica # None /\ replica' = None THEN {} ELSE lastSeen
      /\ ticked' = ticked \union {Receiver}
      /\ UNCHANGED <<viewer, chan, highest, near, round, lost>>
  BY DEF ReceiverTick
<1>3. Promotes(Receiver) => c \in LiveCopy
  <2> SUFFICES ASSUME Promotes(Receiver) PROVE c \in LiveCopy
    OBVIOUS
  <2>1. handoff \in HandoffPayload
    BY DEF Promotes, Due, PInv, TypeOK
  <2>2. PromotedTail \in Tails \union {Unset}
    BY <2>1 DEF PromotedTail, HandoffPayload, Replica, PInv, TypeOK
  <2> QED BY <2>1, <2>2 DEF HandoffPayload, LiveCopy
<1>4. /\ c \in LiveCopy \union {None}
      /\ ~Promotes(Receiver) => c = copy[Receiver]
      /\ Promotes(Receiver) => c # None
  BY <1>1, <1>3 DEF PInv, TypeOK
<1> HIDE DEF c
<1>5. /\ copy' \in [Cells -> LiveCopy \union {None}]
      /\ handoff' \in HandoffPayload \union {None}
      /\ budget' \in Budget
      /\ SourceHolds'
      /\ copy'[Receiver] # None => c # None /\ ~Demotes(Receiver)
  BY <1>1, <1>2, <1>4, HandoffTickType DEF PInv
<1>6. Demotes(Receiver) /\ ~Promotes(Receiver) => copy[Receiver] # None
  BY DEF Demotes, Due, PInv, SourceHolds
<1>7. Demotes(Receiver) /\ ~Promotes(Receiver) =>
         /\ Demoted(c) \in Replica /\ Demoted(c).from = Demoted(c).epoch
         /\ replica = None
  <2> SUFFICES ASSUME Demotes(Receiver), ~Promotes(Receiver)
               PROVE  /\ Demoted(c) \in Replica /\ Demoted(c).from = Demoted(c).epoch
                      /\ replica = None
    OBVIOUS
  <2>1. c \in LiveCopy
    BY <1>4, <1>6
  <2>2. c.epoch \in Epochs /\ c.tail \in Tails \union {Unset} /\ TTL \in 1 .. TTL
    BY <2>1 DEF LiveCopy
  <2> QED BY <1>6, <2>2 DEF Demoted, Replica, PInv, OnePresence
<1>8. /\ r \in Replica \union {None}
      /\ r # None => r.from = r.epoch
      /\ r # None /\ replica # None => r = replica
  BY <1>7 DEF PInv, TypeOK, FromIsEpoch
<1>9. r # None /\ ~Demotes(Receiver) => copy[Receiver] = None /\ ~Promotes(Receiver)
  BY DEF PInv, OnePresence
<1> HIDE DEF r
<1>10. /\ replica' \in Replica \union {None}
       /\ replica' # None => r # None /\ replica'.epoch = r.epoch /\ replica'.from = r.from
  BY <1>2, <1>8, ExpiredType
<1>11. TypeOK'
  BY <1>1, <1>2, <1>5, <1>10 DEF PInv, TypeOK
<1>12. OnePresence'
  BY <1>4, <1>5, <1>9, <1>10 DEF OnePresence
<1>13. FromIsEpoch'
  BY <1>8, <1>10 DEF FromIsEpoch
<1> QED BY <1>5, <1>8, <1>10, <1>11, <1>12, <1>13 DEF PInv

(* A frame: what it writes is not older than what it overwrites.           *)
LEMMA FrameStep ==
    ASSUME PInv, NEW x \in Sources, ApplyBorderFrame(x)
    PROVE  PInv' /\ (replica # None /\ replica' # None => ~Stale(replica'.from, replica.from))
<1> USE BorderAssumption, NoneAssumption
<1> DEFINE f == Head(chan[x]).entry
           accepted == f # None /\ ~Refused(f)
<1>1. chan[x] \in Seq(Frame) /\ chan[x] # <<>>
  BY DEF PInv, TypeOK, ApplyBorderFrame
<1>2. Head(chan[x]) \in Frame /\ Tail(chan[x]) \in Seq(Frame)
  BY <1>1
<1>3. f \in Entry \union {None}
  BY <1>2 DEF Frame
<1>4. /\ chan' = [chan EXCEPT ![x] = Tail(@)]
      /\ highest' = IF accepted THEN f.epoch ELSE highest
      /\ replica' = IF accepted THEN Upserted(f)
                    ELSE IF DropsOut(x, f) THEN None ELSE replica
      /\ lastSeen' = IF f # None THEN lastSeen \union {x}
                     ELSE IF DropsOut(x, f) THEN {} ELSE lastSeen \ {x}
      /\ UNCHANGED <<copy, viewer, handoff, near, round, ticked, lost, budget>>
  BY DEF ApplyBorderFrame
<1> HIDE DEF f
<1>5. CASE accepted
  <2>1. f \in Entry /\ replica' = Upserted(f) /\ f.epoch \in Epochs
    BY <1>3, <1>4, <1>5 DEF Entry
  <2>2. \/ copy[Receiver] # None /\ replica' = replica
        \/ /\ copy[Receiver] = None
           /\ replica' \in Replica
           /\ replica'.epoch = f.epoch /\ replica'.from = f.epoch
    BY <2>1, UpsertedType DEF PInv
  <2>3. replica # None => ~Stale(f.epoch, replica.from)
    BY <1>5 DEF Refused, PInv, FromIsEpoch
  <2>4. TypeOK'
    BY <1>2, <1>4, <1>5, <2>1, <2>2 DEF PInv, TypeOK
  <2>5. replica # None /\ replica' # None => ~Stale(replica'.from, replica.from)
    BY <2>2, <2>3 DEF Stale
  <2> QED BY <1>4, <2>2, <2>4, <2>5 DEF PInv, OnePresence, SourceHolds, FromIsEpoch
<1>6. CASE ~accepted
  <2>1. replica' = None \/ replica' = replica
    BY <1>4, <1>6
  <2>2. TypeOK'
    BY <1>2, <1>4, <1>6, <2>1 DEF PInv, TypeOK
  <2> QED BY <1>4, <2>1, <2>2 DEF PInv, OnePresence, SourceHolds, FromIsEpoch, Stale
<1> QED BY <1>5, <1>6

(* The game and the cluster: a change, a move, a rewiring, a destruction.  *)
LEMMA WorldStep ==
    ASSUME PInv,
           \/ \E x \in Sources : Move(x) \/ invalidateBorderDispatcher(x)
           \/ \E x \in Cells : Simulate(x) \/ Destroy(x)
           \/ NextTick
    PROVE  PInv' /\ replica' = replica
<1> USE BorderAssumption, NoneAssumption
<1>1. CASE \E x \in Sources : Move(x)
  <2>1. PICK x \in Sources : Move(x)
    BY <1>1
  <2>2. near' \in [Sources -> BOOLEAN] /\ budget' \in Budget
    <3>1. near[x] \in BOOLEAN
      BY DEF PInv, TypeOK
    <3> QED BY <2>1, <3>1, BudgetStep DEF Move, PInv, TypeOK
  <2> QED BY <2>1, <2>2 DEF Move, PInv, TypeOK, OnePresence, SourceHolds, FromIsEpoch
<1>2. CASE \E x \in Sources : invalidateBorderDispatcher(x)
  <2>1. PICK x \in Sources : invalidateBorderDispatcher(x)
    BY <1>2
  <2>2. NoViewer \in [inSet : BOOLEAN, base : Baseline \union {None}]
    BY DEF NoViewer
  <2>3. budget' \in Budget
    BY <2>1, BudgetStep DEF invalidateBorderDispatcher, PInv, TypeOK
  <2> QED BY <2>1, <2>2, <2>3
          DEF invalidateBorderDispatcher, PInv, TypeOK, OnePresence, SourceHolds, FromIsEpoch
<1>3. CASE \E x \in Cells : Simulate(x)
  <2>1. PICK x \in Cells : Simulate(x)
    BY <1>3
  <2> DEFINE t == MaxChanges - budget.changes + 1
  <2>2. t \in Tails
    <3>1. budget.changes \in 0 .. MaxChanges /\ budget.changes > 0
      BY <2>1 DEF Simulate, PInv, TypeOK, Budget
    <3> QED BY <3>1 DEF Tails
  <2>3. copy[x] \in LiveCopy
    BY <2>1 DEF Simulate, PInv, TypeOK
  <2>4. copy' = [copy EXCEPT ![x] = [copy[x] EXCEPT !.tail = t]]
    BY <2>1 DEF Simulate
  <2> HIDE DEF t
  <2>5. [copy[x] EXCEPT !.tail = t] \in LiveCopy
    BY <2>2, <2>3 DEF LiveCopy
  <2>6. copy' \in [Cells -> LiveCopy \union {None}] /\ \A y \in Cells : copy'[y] # None <=> copy[y] # None
    BY <2>3, <2>4, <2>5 DEF PInv, TypeOK
  <2>7. budget' \in Budget
    BY <2>1, BudgetStep DEF Simulate, PInv, TypeOK
  <2>8. handoff # None => handoff.src \in Cells
    BY DEF PInv, TypeOK, HandoffPayload
  <2>9. Receiver \in Cells
    BY DEF Cells
  <2>10. UNCHANGED <<viewer, chan, replica, highest, lastSeen, handoff, near, round, ticked, lost>>
    BY <2>1 DEF Simulate
  <2>11. SourceHolds' /\ OnePresence' /\ FromIsEpoch'
    BY <2>6, <2>8, <2>9, <2>10 DEF PInv, OnePresence, SourceHolds, FromIsEpoch
  <2> QED BY <2>6, <2>7, <2>10, <2>11 DEF PInv, TypeOK
<1>4. CASE \E x \in Cells : Destroy(x)
  <2>1. PICK x \in Cells : Destroy(x)
    BY <1>4
  <2>2. Receiver \in Cells
    BY DEF Cells
  <2> QED BY <2>1, <2>2 DEF Destroy, PInv, TypeOK, OnePresence, SourceHolds, FromIsEpoch
<1>5. CASE NextTick
  <2>1. handoff' \in HandoffPayload \union {None}
    <3>1. CASE handoff # None /\ handoff.left > 0
      <4>1. handoff \in HandoffPayload /\ handoff' = [handoff EXCEPT !.left = handoff.left - 1]
        BY <1>5, <3>1 DEF NextTick, PInv, TypeOK
      <4>2. handoff.left - 1 \in 0 .. LeadTicks
        BY <3>1, <4>1 DEF HandoffPayload
      <4> QED BY <4>1, <4>2 DEF HandoffPayload
    <3>2. CASE ~(handoff # None /\ handoff.left > 0)
      BY <1>5, <3>2 DEF NextTick, PInv, TypeOK
    <3> QED BY <3>1, <3>2
  <2>2. round' \in 0 .. Resync - 1
    BY <1>5 DEF NextTick, PInv, TypeOK
  <2>3. SourceHolds'
    BY <1>5 DEF NextTick, PInv, TypeOK, SourceHolds, HandoffPayload
  <2> QED BY <1>5, <2>1, <2>2, <2>3 DEF NextTick, PInv, TypeOK, OnePresence, FromIsEpoch
<1> QED BY <1>1, <1>2, <1>3, <1>4, <1>5

-----------------------------------------------------------------------------
(* PInv holds at the start.                                                *)
LEMMA InitPInv == Init => PInv
<1> USE BorderAssumption, NoneAssumption
<1> SUFFICES ASSUME Init PROVE PInv
  OBVIOUS
<1>1. [epoch |-> FirstEpoch, tail |-> 0] \in LiveCopy
  BY DEF LiveCopy, Tails
<1>2. copy \in [Cells -> LiveCopy \union {None}]
  BY <1>1 DEF Init
<1>3. viewer \in [Sources -> [inSet : BOOLEAN, base : Baseline \union {None}]]
  BY DEF Init, NoViewer
<1>4. chan \in [Sources -> Seq(Frame)]
  BY DEF Init
<1>5. round \in 0 .. Resync - 1
  BY DEF Init
<1>6. TypeOK
  BY <1>2, <1>3, <1>4, <1>5 DEF Init, TypeOK
<1> QED BY <1>6 DEF PInv, Init, OnePresence, SourceHolds, FromIsEpoch

(* PInv is preserved, and no step puts older contents into a replica.      *)
LEMMA NextPInv ==
    PInv /\ [Next]_vars =>
       /\ PInv'
       /\ replica # None /\ replica' # None => ~Stale(replica'.from, replica.from)
<1> SUFFICES ASSUME PInv, [Next]_vars
             PROVE  /\ PInv'
                    /\ replica # None /\ replica' # None => ~Stale(replica'.from, replica.from)
  OBVIOUS
<1>1. ASSUME NEW x \in Sources, PostSystems(x)
      PROVE  PInv' /\ replica' = replica
  BY <1>1, SourceTickStep DEF PostSystems
<1>2. CASE ReceiverTick
  BY <1>2, ReceiverTickStep DEF Stale
<1>3. ASSUME NEW x \in Sources, ApplyBorderFrame(x)
      PROVE  PInv' /\ (replica # None /\ replica' # None => ~Stale(replica'.from, replica.from))
  BY <1>3, FrameStep
<1>4. CASE \/ \E x \in Sources : Move(x) \/ invalidateBorderDispatcher(x)
           \/ \E x \in Cells : Simulate(x) \/ Destroy(x)
           \/ NextTick
  BY <1>4, WorldStep DEF Stale
<1>5. CASE UNCHANGED vars
  BY <1>5 DEF vars, PInv, TypeOK, OnePresence, SourceHolds, FromIsEpoch, Stale
<1> QED BY <1>1, <1>2, <1>3, <1>4, <1>5 DEF Next, Stale

(* Every variable keeps its type, for any bounds: no baseline counts its   *)
(* full tails below zero, and no replica outlives its TTL.                 *)
THEOREM TypesHold == Spec => []TypeOK
<1>1. PInv => TypeOK
  BY DEF PInv
<1> QED BY <1>1, InitPInv, NextPInv, PTL DEF Spec

(* A cell never holds a replica beside its own Live copy: a promote        *)
(* removes the replica, and upsertBorderReplica drops the frames of the    *)
(* previous authority that come after it.                                  *)
THEOREM OnePresenceHolds == Spec => []OnePresence
<1>1. PInv => OnePresence
  BY DEF PInv
<1> QED BY <1>1, InitPInv, NextPInv, PTL DEF Spec

(* The contents of a replica only ever move forward through the            *)
(* authorities: the epoch of a demoted copy fences late frames too.        *)
THEOREM ContentsGoForward == Spec => ContentForward
<1>1. PInv /\ [Next]_vars => [replica # None /\ replica' # None
                                 => ~Stale(replica'.from, replica.from)]_vars
  BY NextPInv
<1> QED BY <1>1, InitPInv, NextPInv, PTL DEF Spec, ContentForward

=============================================================================
