-------------------------- MODULE ClientReplication --------------------------
(***************************************************************************)
(* The replication stream of one viewer: ReplicationSystem                 *)
(* (pkg/system/replication.go) builds at most one frame per tick, a        *)
(* transport carries it, and the generated decoder of the client           *)
(* (delta-decoder.ts, generated by cmd/sdkgen) turns frames back into      *)
(* entities.  A delta is only meaningful on top of the exact snapshot it   *)
(* was computed from, so the server must know what the client holds:       *)
(*                                                                         *)
(*   ws        local WebSocket: an accepted frame is committed at once;    *)
(*   udp       local datagrams: a frame is committed by the client's ACK;  *)
(*   mesh_ws   through a gateway, committed by the gateway's receipt;      *)
(*   mesh_udp  through a gateway whose receipt reveals that the client is  *)
(*             on datagrams: the connection changes to explicit ACKs.      *)
(*                                                                         *)
(* Generations and sequence numbers are serial numbers: uint32 in the      *)
(* code, arithmetic modulo GenSpace and SeqSpace here.                     *)
(***************************************************************************)
EXTENDS Integers, Sequences, FiniteSets, SequencesExt

CONSTANTS
    Entities,        \* network ids of the area of interest
    Self,            \* the viewer's own entity
    Lively,          \* the entities that change, other than by moving
    Fields,          \* delta-encoded fields of an entity
    Links,           \* the transports considered
    GenSpace, SeqSpace,  \* 2^32 in the code
    ReceiptTimeout,  \* PendingReceiptTimeoutTicks
    AckTimeout,      \* PendingAckTimeoutTicks
    MaxQueue,        \* frames in a queue or in the network
    MaxChanges,      \* per link: changes of the world and keyframes
    MaxFaults,       \* per link: losses, late answers, refusals, pauses, handovers
    None

ASSUME ReplicationAssumption ==
    /\ Self \in Entities /\ Lively \subseteq Entities
    /\ Links \subseteq {"ws", "udp", "mesh_ws", "mesh_udp"}
    /\ None \notin Nat
    /\ GenSpace \in Nat /\ SeqSpace \in Nat /\ MaxQueue \in Nat
    /\ \A l \in Links : MaxChanges[l] \in Nat /\ 4 * MaxFaults[l] < GenSpace

VARIABLES
    link,         \* the viewer's transport
    world,        \* the entities: in the world, in the area of interest, state
    feed,         \* RemovedNetIDs: destroyed since the last sample
    viewing,      \* whether ActiveViewers lists the viewer
    gen,          \* session.StreamGeneration
    conn,         \* connections[connID], or None
    lastVisible,  \* lastVisible[connID], or None
    mesh,         \* frames between the cell's host and the gateway
    wire,         \* frames between the gateway (or host) and the client
    receipts,     \* receipts on their way to the host
    inbox,        \* receipts in the VirtualConnManager
    acks,         \* ACKs of the client on their way
    client,       \* the decoder
    mourned,      \* history: visible entities whose destruction was sampled
    changes, faults

vars == <<link, world, feed, viewing, gen, conn, lastVisible, mesh, wire,
          receipts, inbox, acks, client, mourned, changes, faults>>
network == <<mesh, wire, receipts, inbox, acks>>
server == <<feed, viewing, gen, conn, lastVisible, mourned>>

-----------------------------------------------------------------------------
(* Serial numbers and functions with a partial domain.                     *)

(* streamGenerationAfter, isNewerAuthorityEpoch, isNewerFrameSequence.     *)
After(candidate, current, mod) ==
    candidate # current /\ (candidate - current) % mod < mod \div 2

Without(f, S) == [e \in DOMAIN f \ S |-> f[e]]
Onto(f, g) == [e \in DOMAIN f \union DOMAIN g |->
                 IF e \in DOMAIN g THEN g[e] ELSE f[e]]

Mesh == link \in {"mesh_ws", "mesh_udp"}
Datagrams == link \in {"udp", "mesh_udp"}

Snapshots == [Fields -> 0..1]
Nothing == [e \in {} |-> None]

(* What the client should have once it has applied a frame built now.      *)
Visible == {e \in Entities : world[e].alive /\ world[e].near}
Shows == [e \in Visible |-> [epoch |-> world[e].epoch,
                             snap |-> world[e].snap, name |-> world[e].name]]

-----------------------------------------------------------------------------
(* connState.                                                              *)

(* newConnState.  base is the BaselineStore; the hash of the last sent     *)
(* state is that of the baseline's snapshot, so it is not kept apart.      *)
NewConn(mode) ==
    [mode |-> mode, epoch |-> 0, explicit |-> FALSE, next |-> 0,
     fresh |-> FALSE, base |-> Nothing, removed |-> {}, pending |-> None]

(* AckModeFor of the default configuration: only a local datagram          *)
(* connection is seen to be one.                                           *)
AckModeFor == IF link = "udp" THEN "explicit" ELSE "reliable"

NoBaseline == [epoch |-> None, acked |-> None, name |-> None]

(* replicationStateTxn.commit and commitExplicit: install what the frame   *)
(* carried, drop what left.                                                *)
CommitTxn(base, tx) == Onto(Without(base, tx.drop), tx.stage)

(* Mutant: the tombstones of everything the attempt showed are cleared,    *)
(* also those sampled while it was in flight.                              *)
CommitPendingClearsAll(c) ==
    [c EXCEPT !.base = CommitTxn(@, c.pending.tx),
              !.removed = @ \ (c.pending.visible \union c.pending.clear
                                 \union c.pending.exited),
              !.pending = None,
              !.fresh = FALSE]

(* commitPendingAttempt.                                                   *)
CommitPending(c) ==
    [c EXCEPT !.base = CommitTxn(@, c.pending.tx),
              !.removed = @ \ (c.pending.clear \union c.pending.exited),
              !.pending = None,
              !.fresh = FALSE]

(* Mutant: the next frame goes on with deltas.                             *)
DiscardPendingQuietly(c) ==
    IF c.pending = None THEN c
    ELSE [c EXCEPT !.removed = @ \union c.pending.removed, !.pending = None]

(* discardPendingAttempt.                                                  *)
DiscardPending(c) ==
    IF c.pending = None THEN c
    ELSE [c EXCEPT !.removed = @ \union c.pending.removed,
                   !.pending = None,
                   !.fresh = TRUE]

Stream == [c |-> conn, shown |-> lastVisible]

(* drainFrameReceipts.  Every receipt the gateway sends reports a queued   *)
(* frame; at most one of them is the pending attempt's.                    *)
DrainReceipts(s) ==
    LET Mine == {r \in inbox : /\ s.c # None
                               /\ s.c.pending # None
                               /\ r.epoch = s.c.pending.epoch
                               /\ r.seq = s.c.pending.seq}
    IN  IF Mine = {} THEN s
        ELSE LET r == CHOOSE x \in Mine : TRUE
             IN  CASE s.c.pending.await /\ r.delivery = "reliable" ->
                        [c |-> CommitPending(s.c), shown |-> s.c.pending.visible]
                   [] s.c.pending.await /\ r.delivery = "best" ->
                        [c |-> [NewConn("explicit") EXCEPT
                                  !.epoch = s.c.epoch, !.explicit = s.c.explicit,
                                  !.next = s.c.next, !.fresh = TRUE],
                         shown |-> None]
                   [] ~s.c.pending.await -> s

(* getConn and resolveStreamGeneration.                                    *)
Adopt(c) == [c EXCEPT !.epoch = gen, !.explicit = TRUE]
ResolveStreamGeneration(s) ==
    LET c == IF s.c = None THEN NewConn(AckModeFor) ELSE s.c
        restart == [c |-> Adopt(NewConn(c.mode)), shown |-> None]
    IN  IF ~c.explicit
        THEN IF c.next # 0 /\ c.epoch # gen THEN restart
             ELSE [c |-> Adopt(c), shown |-> s.shown]
        ELSE IF After(gen, c.epoch, GenSpace) THEN restart
             ELSE [c |-> c, shown |-> s.shown]

(* The reconciliation of a viewer that ActiveViewers omits while its       *)
(* session exists.                                                         *)
OmitViewer(c) ==
    IF c = None THEN c ELSE [DiscardPending(c) EXCEPT !.fresh = TRUE]

(* The ticks since sentTick, up to the longer timeout.                     *)
Older(age) == IF age < ReceiptTimeout + AckTimeout THEN age + 1 ELSE age

(* Mutant: wait for the answer for ever.                                   *)
PendingNeverTimesOut(p) == FALSE

PendingTimedOut(p) ==
    p.age + 1 >= IF p.await THEN ReceiptTimeout ELSE AckTimeout

(* A tick that finds an attempt in flight: keep the removals it samples,   *)
(* then either go on waiting or give the attempt up.                       *)
KeepRemovals(s) ==
    IF s.c.pending = None THEN s
    ELSE [s EXCEPT !.c.removed = @ \union
        (feed \intersect (s.c.pending.visible \union
                            IF s.shown = None THEN {} ELSE s.shown))]

-----------------------------------------------------------------------------
(* Building a frame.                                                       *)

NeedsFull(s, e) ==
    \/ s.c.fresh
    \/ s.shown = None \/ e \notin s.shown
    \/ e \in s.c.removed
    \/ e \in DOMAIN s.c.base /\ s.c.base[e].epoch # world[e].epoch

InitialChanged(s, e) ==
    e \notin DOMAIN s.c.base \/ s.c.base[e].name # world[e].name

(* The entities that get a full entry with their initial data, a full      *)
(* entry without it (keyframe), and a delta against the baseline.          *)
Fulls(s) ==
    {e \in Visible : \/ NeedsFull(s, e) \/ InitialChanged(s, e)
                     \/ s.c.base[e].acked = None}
Keyed(s, key) == IF key THEN Visible \ Fulls(s) ELSE {}
Deltas(s, key) ==
    IF key THEN {}
    ELSE {e \in Visible \ Fulls(s) : s.c.base[e].acked # world[e].snap}

(* DeltaEncoder.Encode: the fields that differ.                            *)
Encode(old, new) == [f \in {g \in Fields : old[g] # new[g]} |-> new[f]]

Departed(s) == (IF s.shown = None THEN {} ELSE s.shown) \ Visible
Removed(s) == Departed(s) \intersect (feed \union s.c.removed)
Exited(s) == (Departed(s) \ Removed(s)) \ {Self}

Frame(s, key) ==
    [epoch |-> s.c.epoch,
     seq |-> s.c.next,
     fresh |-> s.c.fresh \/ s.shown = None,
     full |-> [e \in Fulls(s) \union Keyed(s, key) |->
                 [epoch |-> world[e].epoch, snap |-> world[e].snap,
                  name |-> IF e \in Fulls(s) THEN world[e].name ELSE None]],
     delta |-> [e \in Deltas(s, key) |->
                 [epoch |-> world[e].epoch,
                  data |-> Encode(s.c.base[e].acked, world[e].snap)]],
     removed |-> Removed(s),
     exited |-> Exited(s),
     shows |-> Shows]

(* The staged transaction: metadata and snapshot of every entity sent.     *)
Txn(s, key) ==
    [stage |-> [e \in Fulls(s) \union Keyed(s, key) \union Deltas(s, key) |->
                  [epoch |-> world[e].epoch, acked |-> world[e].snap,
                   name |-> world[e].name]],
     drop |-> Removed(s) \union Exited(s)]

(* A reliable transport took the frame: commit now.                        *)
CommitNow(s, key) ==
    [c |-> [s.c EXCEPT !.base = CommitTxn(@, Txn(s, key)),
                       !.removed = @ \ (Visible \union Removed(s)),
                       !.fresh = FALSE],
     shown |-> Visible]

(* retainSent: an entity first sent in explicit mode gets an empty         *)
(* baseline before its first ACK.                                          *)
RetainSent(c, tx) ==
    IF c.mode # "explicit" THEN c.base
    ELSE Onto([e \in DOMAIN tx.stage |-> NoBaseline], c.base)

(* stagePendingAttempt.  told is a history field.                          *)
StagePending(s, key, told) ==
    LET tx == Txn(s, key)
    IN  [s EXCEPT !.c.base = RetainSent(s.c, tx),
                  !.c.removed = @ \union Removed(s),
                  !.c.pending =
                     [epoch |-> s.c.epoch, seq |-> s.c.next, age |-> 0,
                      visible |-> Visible, exited |-> Exited(s),
                      removed |-> Removed(s),
                      clear |-> (Visible \intersect s.c.removed)
                                  \union Removed(s),
                      tx |-> tx, await |-> s.c.mode = "reliable",
                      told |-> told]]

(* The transport refused the frame: nothing was sent.                      *)
Refuse(s) == [s EXCEPT !.c.removed = @ \union Removed(s)]

NextSeq(s) == [s EXCEPT !.c.next = (@ + 1) % SeqSpace]

-----------------------------------------------------------------------------
(* The network of the viewer.                                              *)

(* Datagrams in flight: a new one pushes the oldest out.                   *)
Put(q, f) == IF Datagrams /\ Len(q) = MaxQueue THEN Append(Tail(q), f)
             ELSE Append(q, f)
HasRoom(q) == Len(q) < MaxQueue

Send(f) ==
    IF Mesh THEN /\ HasRoom(mesh)
                 /\ mesh' = Append(mesh, f)
                 /\ UNCHANGED wire
    ELSE /\ HasRoom(wire) \/ Datagrams
         /\ wire' = Put(wire, f)
         /\ UNCHANGED mesh

Fault == faults < MaxFaults[link] /\ faults' = faults + 1

-----------------------------------------------------------------------------
(* Update: one tick of the replication system.                             *)

Install(s) == conn' = s.c /\ lastVisible' = s.shown

(* History: destructions that the stream owes the client.  A committed     *)
(* frame settles those it was built with; a later one survives it.         *)
Shown(s) == IF s.shown = None THEN {} ELSE s.shown
Ready == KeepRemovals(ResolveStreamGeneration(DrainReceipts(Stream)))
PendingBefore == IF conn = None THEN None ELSE conn.pending
Committed(s) == PendingBefore # None /\ s.c.pending = None /\ ~s.c.fresh
Owed(s) ==
    ((IF Committed(s) THEN mourned \ PendingBefore.told ELSE mourned)
       \union IF viewing THEN feed \ Visible ELSE {}) \intersect Shown(s)

(* The viewer is not active (handoff, docked, suspended): its session      *)
(* exists, so the attempt in flight is given up and the state kept.        *)
UpdateOmitted ==
    LET s == DrainReceipts(Stream)
    IN  /\ ~viewing
        /\ Install([s EXCEPT !.c = OmitViewer(@)])
        /\ mourned' = Owed(s)
        /\ UNCHANGED <<mesh, wire, changes, faults>>

Waiting(s) == s.c.pending # None /\ ~PendingTimedOut(s.c.pending)

UpdateWaits(s) ==
    /\ viewing /\ Waiting(s)
    /\ Install([s EXCEPT !.c.pending.age = Older(@)])
    /\ mourned' = Owed(s)
    /\ UNCHANGED <<mesh, wire, changes, faults>>

(* The stream a frame is built on: a timed-out attempt is given up first.  *)
Building(s) == NextSeq([s EXCEPT !.c = DiscardPending(@)])

(* Serial numbers compare correctly while nothing older than half the      *)
(* space is still around: 2^31 frames in the code, a guard here.           *)
Numbers(epoch) ==
    {x.seq : x \in {y \in ToSet(mesh) \union ToSet(wire) \union ToSet(receipts)
                            \union {client} : y.epoch = epoch}}
      \union {a[2] : a \in {b \in acks : b[1] = epoch}}
InWindow(c) ==
    \A n \in Numbers(c.epoch) : (c.next - n) % SeqSpace < SeqSpace \div 2

(* Giving up an attempt whose frame, receipt or ACK is still on its way    *)
(* counts as a fault (a late answer); after a loss it is free.             *)
Late(p) ==
    /\ p # None
    /\ \/ \E x \in ToSet(mesh) \union ToSet(wire) \union ToSet(receipts) :
            x.epoch = p.epoch /\ x.seq = p.seq
       \/ <<p.epoch, p.seq>> \in acks

UpdateSends(s, key) ==
    /\ InWindow(s.c)
    /\ Send(Frame(s, key))
    /\ IF link = "ws"
       THEN Install(CommitNow(s, key)) /\ mourned' = {}
       ELSE Install(StagePending(s, key, Owed(s))) /\ mourned' = Owed(s)
    /\ IF key THEN changes < MaxChanges[link] /\ changes' = changes + 1
       ELSE UNCHANGED changes

UpdateRefused(s) ==
    /\ InWindow(s.c)
    /\ Install(Refuse(s))
    /\ mourned' = Owed(s)
    /\ UNCHANGED <<mesh, wire, changes>>

UpdateBuilds(s) ==
    /\ viewing /\ ~Waiting(s)
    /\ \E t \in {Building(s)} :
         \/ /\ IF Late(s.c.pending) THEN Fault ELSE UNCHANGED faults
            /\ \E key \in BOOLEAN : UpdateSends(t, key)
         \/ ~Late(s.c.pending) /\ Fault /\ UpdateRefused(t)

(* drainFrameReceipts, the reconciliation of omitted viewers, then the     *)
(* viewer's frame.  Ready is bound by \E so that TLC evaluates it once.    *)
Update ==
    /\ \/ UpdateOmitted
       \/ \E s \in {Ready} : UpdateWaits(s) \/ UpdateBuilds(s)
    /\ feed' = {}
    /\ inbox' = {}
    /\ UNCHANGED <<link, world, viewing, gen, receipts, acks, client>>

(* Mutant: the generation of the ACK is not looked at (AckSequence).       *)
AckMatchesSeq(a, c) ==
    /\ c.mode = "explicit"
    /\ c.pending # None
    /\ ~c.pending.await
    /\ a[2] = c.pending.seq

(* AckFrame: the exact attempt in flight.                                  *)
AckMatches(a, c) ==
    /\ c.mode = "explicit"
    /\ c.pending # None
    /\ ~c.pending.await
    /\ a = <<c.pending.epoch, c.pending.seq>>

(* AckReplicationFrame, in the input phase of a tick.                      *)
AckFrame(a) ==
    /\ a \in acks
    /\ acks' = acks \ {a}
    /\ IF conn # None /\ AckMatches(a, conn)
       THEN /\ Install([c |-> CommitPending(conn), shown |-> conn.pending.visible])
            /\ mourned' = (mourned \ conn.pending.told)
                             \intersect conn.pending.visible
       ELSE UNCHANGED <<conn, lastVisible, mourned>>
    /\ UNCHANGED <<link, world, feed, viewing, gen, mesh, wire, receipts,
                   inbox, client, changes, faults>>

-----------------------------------------------------------------------------
(* The gateway and the VirtualConnManager.                                 *)

(* Streams of different cells are not ordered with each other: the next    *)
(* frame is the first of any generation.                                   *)
Heads == {i \in 1..Len(mesh) : \A j \in 1..(i - 1) : mesh[j].epoch # mesh[i].epoch}

(* routeInboundFrame, ClientFrame at the gateway: enqueue on the client's  *)
(* connection, then report the delivery class to the sending host.         *)
GatewaySends(i) ==
    /\ i \in Heads
    /\ HasRoom(wire) \/ Datagrams
    /\ HasRoom(receipts)
    /\ mesh' = RemoveAt(mesh, i)
    /\ wire' = Put(wire, mesh[i])
    /\ receipts' = Append(receipts,
                     [epoch |-> mesh[i].epoch, seq |-> mesh[i].seq,
                      delivery |-> IF Datagrams THEN "best" ELSE "reliable"])
    /\ UNCHANGED <<link, world, server, inbox, acks, client, changes, faults>>

(* The route no longer names the sending host, or the stream broke: the    *)
(* frame goes nowhere and there is no receipt.                             *)
GatewayDrops(i) ==
    /\ i \in Heads /\ Fault
    /\ mesh' = RemoveAt(mesh, i)
    /\ UNCHANGED <<link, world, server, wire, receipts, inbox, acks, client,
                   changes>>

(* recordReplicationReceipt, or its loss on the way.                       *)
ReceiptArrives ==
    /\ receipts # <<>>
    /\ receipts' = Tail(receipts)
    /\ inbox' = inbox \union {Head(receipts)}
    /\ UNCHANGED <<link, world, server, mesh, wire, acks, client, changes,
                   faults>>

ReceiptLost ==
    /\ receipts # <<>> /\ Fault
    /\ receipts' = Tail(receipts)
    /\ UNCHANGED <<link, world, server, mesh, wire, inbox, acks, client,
                   changes>>

-----------------------------------------------------------------------------
(* The client.                                                             *)

(* acceptFrame.                                                            *)
NewStream(f) == client.epoch # None /\ After(f.epoch, client.epoch, GenSpace)
Accepted(f) ==
    \/ client.epoch = None
    \/ NewStream(f)
    \/ f.epoch = client.epoch /\ After(f.seq, client.seq, SeqSpace)

(* decode: full entries, then deltas, then removals and exits.             *)
Decode(f) ==
    LET auth0 == IF NewStream(f) THEN Nothing ELSE client.auth
        base0 == IF NewStream(f) \/ f.fresh THEN Nothing ELSE client.base
        Stale(e) == /\ e \in DOMAIN auth0 /\ f.full[e].epoch # auth0[e]
                    /\ ~After(f.full[e].epoch, auth0[e], GenSpace)
        Taken == {e \in DOMAIN f.full : ~Stale(e)}
        Name(e) == IF f.full[e].name # None THEN f.full[e].name
                   ELSE IF e \in DOMAIN base0 /\ base0[e].epoch = f.full[e].epoch
                        THEN base0[e].name ELSE None
        base1 == Onto(base0, [e \in Taken |->
                   [epoch |-> f.full[e].epoch, snap |-> f.full[e].snap,
                    name |-> Name(e)]])
        Based == {e \in DOMAIN f.delta \intersect DOMAIN base1 :
                    base1[e].epoch = f.delta[e].epoch}
        base2 == Onto(base1, [e \in Based |->
                   [base1[e] EXCEPT !.snap = Onto(@, f.delta[e].data)]])
        auth1 == Onto(auth0, [e \in Taken |-> f.full[e].epoch])
        gone == f.removed \union f.exited
        kept == IF f.fresh THEN DOMAIN f.full ELSE DOMAIN auth1
    IN  [epoch |-> f.epoch, seq |-> f.seq,
         base |-> Without(base2, gone),
         auth |-> [e \in (DOMAIN auth1 \intersect kept) \ gone |-> auth1[e]],
         shows |-> f.shows]

(* A frame reaches the client, which decodes it and, on datagrams,         *)
(* acknowledges it whether or not the decoder took it (AckWorldDelta).     *)
Apply(f) ==
    /\ client' = IF Accepted(f) THEN Decode(f) ELSE client
    /\ acks' = IF Datagrams THEN acks \union {<<f.epoch, f.seq>>} ELSE acks

Receive(i) ==
    /\ i \in 1..Len(wire)
    /\ Datagrams \/ i = 1
    /\ Apply(wire[i])
    /\ wire' = RemoveAt(wire, i)
    /\ UNCHANGED <<link, world, server, mesh, receipts, inbox, changes, faults>>

Duplicated(i) ==
    /\ Datagrams /\ i \in 1..Len(wire) /\ Fault
    /\ Apply(wire[i])
    /\ UNCHANGED <<link, world, server, mesh, wire, receipts, inbox, changes>>

DatagramLost(i) ==
    /\ Datagrams /\ i \in 1..Len(wire) /\ Fault
    /\ wire' = RemoveAt(wire, i)
    /\ UNCHANGED <<link, world, server, mesh, receipts, inbox, acks, client,
                   changes>>

AckLost(a) ==
    /\ a \in acks /\ Fault
    /\ acks' = acks \ {a}
    /\ UNCHANGED <<link, world, server, mesh, wire, receipts, inbox, client,
                   changes>>

-----------------------------------------------------------------------------
(* The world and the session.                                              *)

Changed(e, entity) ==
    /\ changes < MaxChanges[link] /\ changes' = changes + 1
    /\ world' = [world EXCEPT ![e] = entity]

Bump(e) == (world[e].epoch + 1) % GenSpace

(* A field, or a field sent only with full entries, changes.               *)
ChangeField(e, f) ==
    /\ world[e].alive
    /\ Changed(e, [world[e] EXCEPT !.snap[f] = 1 - @])
    /\ UNCHANGED <<link, server, network, client, faults>>

Rename(e) ==
    /\ world[e].alive
    /\ Changed(e, [world[e] EXCEPT !.name = 1 - @])
    /\ UNCHANGED <<link, server, network, client, faults>>

(* The entity crosses the edge of the area of interest.                    *)
Cross(e) ==
    /\ world[e].alive
    /\ Changed(e, [world[e] EXCEPT !.near = ~@])
    /\ UNCHANGED <<link, server, network, client, faults>>

(* A handoff of the entity advances its authority epoch in place.          *)
EntityHandoff(e) ==
    /\ world[e].alive
    /\ Changed(e, [world[e] EXCEPT !.epoch = Bump(e)])
    /\ UNCHANGED <<link, server, network, client, faults>>

(* publishRemovedNetID.  Ids are not reused: an id is destroyed once, but  *)
(* a straggling border replica may show it again, and be evicted later.    *)
Destroy(e) ==
    /\ e # Self /\ world[e].alive /\ ~world[e].doomed
    /\ Changed(e, [world[e] EXCEPT !.alive = FALSE, !.doomed = TRUE])
    /\ feed' = feed \union {e}
    /\ UNCHANGED <<link, viewing, gen, conn, lastVisible, mourned, network,
                   client, faults>>

Reappear(e) ==
    /\ ~world[e].alive
    /\ Changed(e, [world[e] EXCEPT !.alive = TRUE])
    /\ UNCHANGED <<link, server, network, client, faults>>

(* The viewer leaves the active viewers while its session lives on (a game *)
(* state without a view, or DeactivateTransferViewers), and rejoins them.  *)
Pause ==
    /\ viewing /\ Fault
    /\ viewing' = FALSE
    /\ UNCHANGED <<link, world, feed, gen, conn, lastVisible, mourned, network,
                   client, changes>>

Resume ==
    /\ ~viewing
    /\ viewing' = TRUE
    /\ UNCHANGED <<link, world, feed, gen, conn, lastVisible, mourned, network,
                   client, changes, faults>>

(* ReactivateTransferViewers after an aborted transfer: the destination    *)
(* may have used generation N + 1 already.                                 *)
Reactivate ==
    /\ ~viewing
    /\ viewing' = TRUE
    /\ gen' = (gen + 2) % GenSpace
    /\ UNCHANGED <<link, world, feed, conn, lastVisible, mourned, network,
                   client, changes, faults>>

(* The player's own handoff: the transferred copy has the next generation, *)
(* and a replication system that has no state for the player takes over.   *)
Handover ==
    /\ Fault
    /\ gen' = (gen + 1) % GenSpace
    /\ conn' = None /\ lastVisible' = None /\ mourned' = {}
    /\ feed' = {} /\ receipts' = <<>> /\ inbox' = {}
    /\ viewing' = TRUE
    /\ UNCHANGED <<link, world, mesh, wire, acks, client, changes>>

-----------------------------------------------------------------------------
Init ==
    /\ link \in Links
    /\ world \in [Entities -> [alive : {TRUE}, doomed : {FALSE}, near : {TRUE},
                               epoch : {GenSpace - 1},
                               snap : {[f \in Fields |-> 0]}, name : {0}]]
    /\ feed = {} /\ viewing = TRUE /\ gen = GenSpace - 1
    /\ conn = None /\ lastVisible = None
    /\ mesh = <<>> /\ wire = <<>> /\ receipts = <<>> /\ inbox = {} /\ acks = {}
    /\ client = [epoch |-> None, seq |-> None, base |-> Nothing,
                 auth |-> Nothing, shows |-> Nothing]
    /\ mourned = {} /\ changes = 0 /\ faults = 0

WorldStep ==
    \/ \E e \in Entities : Cross(e)
    \/ \E e \in Lively :
         \/ \E f \in Fields : ChangeField(e, f)
         \/ Rename(e) \/ EntityHandoff(e) \/ Destroy(e) \/ Reappear(e)

GatewayStep == \E i \in 1..MaxQueue : GatewaySends(i)
ReceiveStep == \E i \in 1..MaxQueue : Receive(i)
AckStep == \E a \in acks : AckFrame(a)

LossStep ==
    \/ \E i \in 1..MaxQueue : GatewayDrops(i) \/ Duplicated(i) \/ DatagramLost(i)
    \/ ReceiptLost
    \/ \E a \in acks : AckLost(a)

Next ==
    \/ Update \/ GatewayStep \/ ReceiptArrives \/ ReceiveStep \/ AckStep
    \/ WorldStep \/ LossStep \/ Pause \/ Resume \/ Reactivate \/ Handover

Spec == Init /\ [][Next]_vars

(* The loop ticks, the queues drain.                                       *)
FairSpec ==
    /\ Spec
    /\ WF_vars(Update) /\ WF_vars(GatewayStep) /\ WF_vars(ReceiptArrives)
    /\ WF_vars(ReceiveStep) /\ WF_vars(AckStep)

-----------------------------------------------------------------------------
(* Properties.                                                             *)

(* Whatever was lost, late, repeated or refused before, a frame that the   *)
(* decoder takes leaves the client with exactly the entities and values    *)
(* that the server meant to show when it built that frame.  The viewer's   *)
(* own entity alone may linger, since an exit never names it.              *)
ViewFaithful ==
    /\ \A e \in DOMAIN client.shows :
         e \in DOMAIN client.base /\ client.base[e] = client.shows[e]
    /\ DOMAIN client.base \subseteq DOMAIN client.shows \union {Self}

(* Once an Update of an active viewer has sampled the destruction of an    *)
(* entity that the client is known to have, the tombstone stays in         *)
(* pendingRemoved until a frame that reports it (or shows the entity       *)
(* again) is committed, so it never degrades into an exit.                 *)
TombstoneKept ==
    mourned # {} => mourned \subseteq conn.removed

(* An ACK commits the attempt in flight only if the decoder has applied    *)
(* that very frame and nothing newer.                                      *)
AckMeansApplied ==
    [][(/\ acks' # acks /\ conn # None /\ conn' # conn) =>
         client.epoch = conn.pending.epoch /\ client.seq = conn.pending.seq]_vars

Matches(e) ==
    IF e \in Visible THEN e \in DOMAIN client.base /\ client.base[e] = Shows[e]
    ELSE e \in DOMAIN client.base => e = Self

(* If the viewer stays active, the client ends up with the visible world   *)
(* and keeps it, whatever the receipts and ACKs do.                        *)
CatchesUp == <>[]viewing => <>[](\A e \in Entities : Matches(e))
=============================================================================
