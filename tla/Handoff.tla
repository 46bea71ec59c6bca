------------------------------- MODULE Handoff -------------------------------
(***************************************************************************)
(* The hard-cut boundary handoff: how authority over one entity moves from *)
(* cell to cell.  The source serializes the entity, sends one Handoff with *)
(* a commit tick a little in the future, re-sends it until the destination *)
(* acknowledges it, and demotes its own copy at the commit tick; the       *)
(* destination acknowledges, queues a promote and becomes authoritative at *)
(* the commit tick.                                                        *)
(*                                                                         *)
(* The module follows one netID: handoffs of different entities share only *)
(* inbox capacity, and a full inbox is a possible outcome of every send.   *)
(* Each cell is one game loop.  A tick of it is: drain the inbox until it  *)
(* is empty, run the systems, then PostSystems = drain promotes, retry,    *)
(* demote, handle the crossings.  loop[c] says which of these runs next,   *)
(* so ticks of the cells interleave at every one of these points.  The     *)
(* netID index is modelled with StrictNetIDIndex on.                       *)
(***************************************************************************)
EXTENDS Naturals

CONSTANTS
    Cells,          \* the cells of the mesh
    Home,           \* the cell on which the entity is spawned
    HostOf,         \* cell -> host process; cells of one host share memory
    Crosses,        \* pairs <<c, d>>: the entity may leave c for d
    LeadTicks,      \* HandoffLeadTicks
    RetryTicks,     \* HandoffAcceptRetryTicks
    CooldownTicks,  \* HandoffCooldownTicks
    TransferTicks,  \* TransferCooldown.Remaining on arrival
    Teleports,      \* does the game move the entity with MoveEntityTo?
    Lossy,          \* may a frame be lost, or refused by a full inbox?
    SendDeadline,   \* may SendReliable fail after the frame was enqueued?
    MaxTick,        \* bound: the last cluster tick a cell reads
    MaxEpoch        \* bound: the last authority epoch

ASSUME HandoffAssumption ==
    /\ Home \in Cells
    /\ Crosses \subseteq {p \in Cells \X Cells : p[1] # p[2]}
    /\ LeadTicks \in Nat \ {0}
    /\ RetryTicks \in Nat \ {0}
    /\ CooldownTicks \in Nat /\ TransferTicks \in Nat
    /\ Teleports \in BOOLEAN
    /\ Lossy \in BOOLEAN /\ SendDeadline \in BOOLEAN
    /\ MaxTick \in Nat
    /\ MaxEpoch \in Nat

VARIABLES
    presence,    \* netIDIndex slot: "None", "Live" or "Replica"
    epoch,       \* NetworkID.Epoch of the slot's entity
    accepted,    \* Stage.handoffAccepted; 0 when there is no mark
    promotes,    \* Cell.pendingPromotes
    inflight,    \* HandoffDriver.inflight (no entry or one)
    demotes,     \* HandoffDriver.pendingDemotes
    lastHandoff, \* HandoffDriver.lastHandoff; 0 when there is no entry
    crossings,   \* Stage's queue of crossing events, without its order
    cooldown,    \* TransferCooldown.Remaining of the slot's entity
    tick,        \* the cluster tick read by the cell's last PostSystems
    loop,        \* the part of the tick the cell's loop runs next
    inbox,       \* Cell.Inbox, without its order
    net,         \* frames between hosts, delayed and reordered at will
    despawned    \* the game has removed the entity

cellVars == <<presence, epoch, accepted, promotes>>
driverVars == <<inflight, demotes, lastHandoff>>
crossVars == <<crossings, cooldown>>
vars == <<cellVars, driverVars, crossVars, tick, loop, inbox, net, despawned>>

Presences == {"None", "Live", "Replica"}
LoopSteps == {"inbox", "systems", "retry", "demote", "cross"}
Message == [type : {"Handoff", "Accepted"}, from : Cells, to : Cells,
            epoch : Nat, commit : Nat]
Promote == [epoch : Nat, commit : Nat]
Attempt == [dest : Cells, epoch : Nat, commit : Nat, retry : Nat]
Demote == [dest : Cells, commit : Nat]
Crossing == [dest : Cells, bypass : BOOLEAN]

Colocated(c, d) == HostOf[c] = HostOf[d]

Init ==
    /\ presence = [c \in Cells |-> IF c = Home THEN "Live" ELSE "None"]
    /\ epoch = [c \in Cells |-> 0]
    /\ accepted = [c \in Cells |-> 0]
    /\ promotes = [c \in Cells |-> {}]
    /\ inflight = [c \in Cells |-> {}]
    /\ demotes = [c \in Cells |-> {}]
    /\ lastHandoff = [c \in Cells |-> [d \in Cells |-> 0]]
    /\ crossings = [c \in Cells |-> {}]
    /\ cooldown = [c \in Cells |-> 0]
    /\ tick = [c \in Cells |-> 0]
    /\ loop = [c \in Cells |-> "inbox"]
    /\ inbox = [c \in Cells |-> {}]
    /\ net = {}
    /\ despawned = FALSE

\* The loop of c goes on from one part of its tick to the next.
NextStep(c, from, to) ==
    /\ loop[c] = from
    /\ loop' = [loop EXCEPT ![c] = to]

-----------------------------------------------------------------------------
(* Sending.  ok is what the bridge returns to the caller, sent whether the *)
(* frame is on its way.  Between colocated cells the two agree.  Between   *)
(* hosts a frame reported as sent may be lost, with its stream or at the   *)
(* receiver's full inbox, and with SendDeadline a frame reported as failed *)
(* may still be delivered.                                                 *)

Sent == [ok |-> TRUE, sent |-> TRUE]

RemoteOutcomes ==
    {o \in [ok : BOOLEAN, sent : BOOLEAN] :
        /\ ~o.sent => Lossy
        /\ ~o.ok /\ o.sent => SendDeadline}

\* cellBridge.SendHandoff blocks until the inbox takes the message.
HandoffOutcomes(c, d) ==
    IF Colocated(c, d) THEN {Sent} ELSE RemoteOutcomes

\* cellBridge.SendHandoffAccepted gives up on a full inbox.
AckOutcomes(c, d) ==
    IF Colocated(c, d) THEN {o \in RemoteOutcomes : o.ok = o.sent}
                       ELSE RemoteOutcomes

\* The inboxes and the network after m is sent, or not, from inboxes q.
Transmit(m, sent, q) ==
    IF Colocated(m.from, m.to)
    THEN /\ inbox' = IF sent THEN [q EXCEPT ![m.to] = @ \cup {m}] ELSE q
         /\ net' = net
    ELSE /\ inbox' = q
         /\ net' = IF sent THEN net \cup {m} ELSE net

\* routeInboundFrame hands a frame to the destination cell's inbox.
Deliver(m) ==
    /\ m \in net
    /\ net' = net \ {m}
    /\ inbox' = [inbox EXCEPT ![m.to] = @ \cup {m}]
    /\ UNCHANGED <<cellVars, driverVars, crossVars, tick, loop, despawned>>

-----------------------------------------------------------------------------
(* The destination.                                                        *)

\* Stage.handoffAlreadyAccepted, for epochs that have not wrapped.
AlreadyAccepted(c, e) == accepted[c] # 0 /\ e <= accepted[c]

\* Cell.processMessage, case MsgHandoff: acknowledge first, and only then
\* mark the handoff as accepted and queue the promote.
ReceiveHandoff(c, m) ==
    /\ loop[c] = "inbox"
    /\ m \in inbox[c] /\ m.type = "Handoff"
    /\ \E o \in AckOutcomes(c, m.from) :
          /\ Transmit([type |-> "Accepted", from |-> c, to |-> m.from,
                       epoch |-> m.epoch, commit |-> m.commit],
                      o.sent, [inbox EXCEPT ![c] = @ \ {m}])
          /\ IF AlreadyAccepted(c, m.epoch) \/ ~o.ok
             THEN UNCHANGED <<accepted, promotes>>
             ELSE /\ accepted' = [accepted EXCEPT ![c] = m.epoch]
                  /\ promotes' = [promotes EXCEPT ![c] =
                         @ \cup {[epoch |-> m.epoch, commit |-> m.commit]}]
    /\ UNCHANGED <<presence, epoch, driverVars, crossVars, tick, loop, despawned>>

\* Cell.DrainInbox finds the inbox empty and counts the transfer cooldown
\* down; messages that arrive from now on wait for the next tick.
DrainDone(c) ==
    /\ NextStep(c, "inbox", "systems")
    /\ inbox[c] = {}
    /\ cooldown' = [cooldown EXCEPT ![c] = IF @ = 0 THEN 0 ELSE @ - 1]
    /\ UNCHANGED <<cellVars, driverVars, crossings, tick, inbox, net, despawned>>

\* Mutant: the replica is not removed first, so its slot rejects the spawn.
DrainPendingPromotesKeepsReplica(c, t) ==
    LET due == {p \in promotes[c] : p.commit <= t}
    IN  /\ NextStep(c, "systems", "retry")
        /\ tick' = [tick EXCEPT ![c] = t]
        /\ promotes' = [promotes EXCEPT ![c] = @ \ due]
        /\ IF due = {} \/ presence[c] # "None"
           THEN UNCHANGED <<presence, epoch, cooldown>>
           ELSE /\ presence' = [presence EXCEPT ![c] = "Live"]
                /\ \E p \in due : epoch' = [epoch EXCEPT ![c] = p.epoch]
                /\ cooldown' = [cooldown EXCEPT ![c] = TransferTicks]
        /\ UNCHANGED <<accepted, driverVars, crossings, inbox, net, despawned>>

\* Cell.drainPendingPromotes, after PostSystems has read the cluster tick t.
\* A replica of the entity is removed before the spawn; a Live slot makes the
\* spawn fail as a duplicate.
DrainPendingPromotes(c, t) ==
    LET due == {p \in promotes[c] : p.commit <= t}
    IN  /\ NextStep(c, "systems", "retry")
        /\ tick' = [tick EXCEPT ![c] = t]
        /\ promotes' = [promotes EXCEPT ![c] = @ \ due]
        /\ IF due = {} \/ presence[c] = "Live"
           THEN UNCHANGED <<presence, epoch, cooldown>>
           ELSE /\ presence' = [presence EXCEPT ![c] = "Live"]
                /\ \E p \in due : epoch' = [epoch EXCEPT ![c] = p.epoch]
                /\ cooldown' = [cooldown EXCEPT ![c] = TransferTicks]
        /\ UNCHANGED <<accepted, driverVars, crossings, inbox, net, despawned>>

-----------------------------------------------------------------------------
(* The source: HandoffDriver.                                              *)

\* Mutant: the acknowledged attempt is forgotten without arming the demote.
ReceiveAcceptedNoDemote(c, m) ==
    LET matched == {a \in inflight[c] : /\ a.epoch = m.epoch
                                        /\ a.commit = m.commit
                                        /\ a.dest = m.from}
    IN  /\ loop[c] = "inbox"
        /\ m \in inbox[c] /\ m.type = "Accepted"
        /\ inbox' = [inbox EXCEPT ![c] = @ \ {m}]
        /\ inflight' = [inflight EXCEPT ![c] = @ \ matched]
        /\ UNCHANGED <<demotes, lastHandoff, cellVars, crossVars, tick, loop, net,
                       despawned>>

\* HandoffDriver.OnHandoffAccepted: the only step that arms a demote.
ReceiveAccepted(c, m) ==
    LET matched == {a \in inflight[c] : /\ a.epoch = m.epoch
                                        /\ a.commit = m.commit
                                        /\ a.dest = m.from}
    IN  /\ loop[c] = "inbox"
        /\ m \in inbox[c] /\ m.type = "Accepted"
        /\ inbox' = [inbox EXCEPT ![c] = @ \ {m}]
        /\ inflight' = [inflight EXCEPT ![c] = @ \ matched]
        /\ demotes' = [demotes EXCEPT ![c] =
               @ \cup {[dest |-> a.dest, commit |-> a.commit] : a \in matched}]
        /\ lastHandoff' = [lastHandoff EXCEPT ![c] =
               [d \in Cells |-> IF \E a \in matched : a.dest = d
                                THEN m.commit ELSE @[d]]]
        /\ UNCHANGED <<cellVars, crossVars, tick, loop, net, despawned>>

\* The tick of the next retry; the last tick of the model is always due.
RetryAt(c) ==
    IF tick[c] + RetryTicks <= MaxTick THEN tick[c] + RetryTicks ELSE MaxTick

\* The attempts whose retry timer has run out.
RetryDue(c) == {a \in inflight[c] : a.retry <= tick[c]}

HandoffTo(c, a) == [type |-> "Handoff", from |-> c, to |-> a.dest,
                    epoch |-> a.epoch, commit |-> a.commit]

\* HandoffDriver.retryInflight: nothing is due.
RetryNothing(c) ==
    /\ NextStep(c, "retry", "demote")
    /\ RetryDue(c) = {}
    /\ UNCHANGED <<cellVars, driverVars, crossVars, tick, inbox, net, despawned>>

\* retryInflight: the entity is no longer Live here, so the entry is dropped.
RetryDead(c) ==
    /\ NextStep(c, "retry", "demote")
    /\ RetryDue(c) # {} /\ presence[c] # "Live"
    /\ inflight' = [inflight EXCEPT ![c] = @ \ RetryDue(c)]
    /\ UNCHANGED <<cellVars, demotes, lastHandoff, crossVars, tick, inbox, net,
                   despawned>>

\* retryInflight: the identical Handoff is sent again.
RetryResend(c) ==
    /\ NextStep(c, "retry", "demote")
    /\ presence[c] = "Live"
    /\ \E a \in RetryDue(c) : \E o \in HandoffOutcomes(c, a.dest) :
          /\ o.ok
          /\ Transmit(HandoffTo(c, a), o.sent, inbox)
          /\ inflight' = [inflight EXCEPT ![c] =
                 (@ \ {a}) \cup {[a EXCEPT !.retry = RetryAt(c)]}]
    /\ UNCHANGED <<cellVars, demotes, lastHandoff, crossVars, tick, despawned>>

\* retryInflight: the send is reported as failed and the handoff abandoned,
\* the epoch staying bumped.
RetryAbandon(c) ==
    /\ NextStep(c, "retry", "demote")
    /\ presence[c] = "Live"
    /\ \E a \in RetryDue(c) : \E o \in HandoffOutcomes(c, a.dest) :
          /\ ~o.ok
          /\ Transmit(HandoffTo(c, a), o.sent, inbox)
          /\ inflight' = [inflight EXCEPT ![c] = @ \ {a}]
          /\ lastHandoff' = [lastHandoff EXCEPT ![c][a.dest] = 0]
    /\ UNCHANGED <<cellVars, demotes, crossVars, tick, despawned>>

\* Mutant: the acceptance mark survives the demote.
CommitDemotesKeepsMark(c) ==
    LET due == {d \in demotes[c] : d.commit <= tick[c]}
    IN  /\ NextStep(c, "demote", "cross")
        /\ demotes' = [demotes EXCEPT ![c] = @ \ due]
        /\ presence' = IF due # {} /\ presence[c] = "Live"
                       THEN [presence EXCEPT ![c] = "Replica"] ELSE presence
        /\ UNCHANGED <<epoch, accepted, promotes, inflight, lastHandoff, crossVars,
                       tick, inbox, net, despawned>>

\* HandoffDriver.Tick, due demotes: DemoteLiveToReplica and, with it,
\* forgetHandoffAccepted.  A slot that is not Live makes it an error only.
CommitDemotes(c) ==
    LET due == {d \in demotes[c] : d.commit <= tick[c]}
    IN  /\ NextStep(c, "demote", "cross")
        /\ demotes' = [demotes EXCEPT ![c] = @ \ due]
        /\ IF due # {} /\ presence[c] = "Live"
           THEN /\ presence' = [presence EXCEPT ![c] = "Replica"]
                /\ accepted' = [accepted EXCEPT ![c] = 0]
           ELSE UNCHANGED <<presence, accepted>>
        /\ UNCHANGED <<epoch, promotes, inflight, lastHandoff, crossVars, tick,
                       inbox, net, despawned>>

\* HandoffDriver.hasHandoffInFlight
HandoffInFlight(c) == inflight[c] # {} \/ demotes[c] # {}

\* The anti-thrash cooldown of handleCrossing, which a teleport bypasses.
Cooled(c, d) ==
    lastHandoff[c][d] = 0 \/ tick[c] >= lastHandoff[c][d] + CooldownTicks

\* The model's bounds leave room for one more handoff.
WithinBounds(c) == epoch[c] < MaxEpoch /\ tick[c] + LeadTicks <= MaxTick

\* The conditions handleCrossing checks before it starts a handoff.
Admitted(c, x) ==
    /\ presence[c] = "Live"
    /\ ~HandoffInFlight(c)
    /\ x.bypass \/ Cooled(c, x.dest)
    /\ WithinBounds(c)

\* The early returns of HandoffDriver.handleCrossing.
DropCrossing(c, x) ==
    /\ loop[c] = "cross"
    /\ x \in crossings[c] /\ ~Admitted(c, x)
    /\ crossings' = [crossings EXCEPT ![c] = @ \ {x}]
    /\ UNCHANGED <<cellVars, driverVars, cooldown, tick, loop, inbox, net, despawned>>

\* HandoffDriver.handleCrossing: bump the epoch, record the attempt, send.
\* A send reported as failed removes the attempt and rolls the epoch back.
HandleCrossing(c, x) ==
    LET a == [dest |-> x.dest, epoch |-> epoch[c] + 1,
              commit |-> tick[c] + LeadTicks, retry |-> RetryAt(c)]
    IN  /\ loop[c] = "cross"
        /\ x \in crossings[c] /\ Admitted(c, x)
        /\ crossings' = [crossings EXCEPT ![c] = @ \ {x}]
        /\ \E o \in HandoffOutcomes(c, x.dest) :
              /\ Transmit(HandoffTo(c, a), o.sent, inbox)
              /\ IF o.ok
                 THEN /\ inflight' = [inflight EXCEPT ![c] = {a}]
                      /\ epoch' = [epoch EXCEPT ![c] = a.epoch]
                 ELSE UNCHANGED <<inflight, epoch>>
        /\ UNCHANGED <<presence, accepted, promotes, demotes, lastHandoff,
                       cooldown, tick, loop, despawned>>

\* The queue is drained; the next tick begins.
CrossDone(c) ==
    /\ NextStep(c, "cross", "inbox")
    /\ crossings[c] = {}
    /\ UNCHANGED <<cellVars, driverVars, crossVars, tick, inbox, net, despawned>>

-----------------------------------------------------------------------------
(* The rest of the cell, as far as it reaches the netID index.             *)

\* A crossing is queued: by BoundarySystem.Update when the entity is outside
\* the cell's bounds and carries no TransferCooldown, or by MoveEntityTo,
\* which ignores that cooldown and may bypass the driver's as well.
QueueCrossing(c, d, bypass) ==
    /\ loop[c] = "systems"
    /\ presence[c] = "Live" /\ <<c, d>> \in Crosses
    /\ Teleports \/ (~bypass /\ cooldown[c] = 0)
    /\ WithinBounds(c)
    /\ crossings' = [crossings EXCEPT ![c] = @ \cup {[dest |-> d, bypass |-> bypass]}]
    /\ UNCHANGED <<cellVars, driverVars, cooldown, tick, loop, inbox, net, despawned>>

\* A border frame from the cell s makes or refreshes a replica of the entity
\* (upsertBorderReplica); a Live slot is left alone.
BorderUpsert(c, s) ==
    /\ loop[c] = "inbox"
    /\ presence[s] = "Live"
    /\ presence[c] = "None" \/ (presence[c] = "Replica" /\ epoch[c] < epoch[s])
    /\ presence' = [presence EXCEPT ![c] = "Replica"]
    /\ epoch' = [epoch EXCEPT ![c] = epoch[s]]
    /\ UNCHANGED <<accepted, promotes, driverVars, crossVars, tick, loop, inbox,
                   net, despawned>>

\* A replica is removed by its TTL (ExpireReplicas) or by the interest-set
\* diff of a border frame (RemoveReplicaByNetID).
ReplicaGone(c) ==
    /\ loop[c] = "inbox"
    /\ presence[c] = "Replica"
    /\ presence' = [presence EXCEPT ![c] = "None"]
    /\ epoch' = [epoch EXCEPT ![c] = 0]
    /\ UNCHANGED <<accepted, promotes, driverVars, crossVars, tick, loop, inbox,
                   net, despawned>>

\* The game removes its Live entity (cleanupEntityRemoval frees the slot; the
\* acceptance mark and the driver's maps are not touched).
Despawn(c) ==
    /\ loop[c] = "systems"
    /\ presence[c] = "Live"
    /\ presence' = [presence EXCEPT ![c] = "None"]
    /\ epoch' = [epoch EXCEPT ![c] = 0]
    /\ despawned' = TRUE
    /\ UNCHANGED <<accepted, promotes, driverVars, crossVars, tick, loop, inbox,
                   net>>

Drain(c) == \E m \in inbox[c] : ReceiveHandoff(c, m) \/ ReceiveAccepted(c, m)

Retry(c) == RetryNothing(c) \/ RetryDead(c) \/ RetryResend(c) \/ RetryAbandon(c)

Cross(c) ==
    \/ \E x \in crossings[c] : DropCrossing(c, x) \/ HandleCrossing(c, x)
    \/ CrossDone(c)

Next ==
    \/ \E c \in Cells :
          \/ Drain(c) \/ DrainDone(c)
          \/ \E t \in tick[c] .. MaxTick : DrainPendingPromotes(c, t)
          \/ Retry(c)
          \/ CommitDemotes(c)
          \/ Cross(c)
          \/ \E d \in Cells, bypass \in BOOLEAN : QueueCrossing(c, d, bypass)
          \/ \E s \in Cells : BorderUpsert(c, s)
          \/ ReplicaGone(c)
          \/ Despawn(c)
    \/ \E m \in net : Deliver(m)

Spec == Init /\ [][Next]_vars

\* A Handoff is drained and its acknowledgement finds room at the source.
AckGetsThrough(c) ==
    \E m \in inbox[c] :
       /\ ReceiveHandoff(c, m)
       /\ \E r \in inbox'[m.from] : r.type = "Accepted" /\ r.epoch = m.epoch

\* Every loop keeps running and its clock keeps advancing, and an inbox is not
\* full at every single attempt.
FairSpec ==
    /\ Spec
    /\ \A c \in Cells :
          /\ WF_vars(Drain(c)) /\ WF_vars(DrainDone(c))
          /\ WF_vars(\E t \in tick[c] .. MaxTick : DrainPendingPromotes(c, t))
          /\ SF_vars(\E t \in tick[c] + 1 .. MaxTick : DrainPendingPromotes(c, t))
          /\ WF_vars(Retry(c)) /\ WF_vars(CommitDemotes(c)) /\ WF_vars(Cross(c))
          /\ SF_vars(AckGetsThrough(c))

-----------------------------------------------------------------------------
(* Properties.                                                             *)

\* Every variable has its type: slots, marks, queues and messages are
\* well formed in every cell.
TypeOK ==
    /\ presence \in [Cells -> Presences]
    /\ epoch \in [Cells -> Nat]
    /\ accepted \in [Cells -> Nat]
    /\ promotes \in [Cells -> SUBSET Promote]
    /\ inflight \in [Cells -> SUBSET Attempt]
    /\ demotes \in [Cells -> SUBSET Demote]
    /\ lastHandoff \in [Cells -> [Cells -> Nat]]
    /\ crossings \in [Cells -> SUBSET Crossing]
    /\ cooldown \in [Cells -> Nat]
    /\ tick \in [Cells -> Nat]
    /\ loop \in [Cells -> LoopSteps]
    /\ inbox \in [Cells -> SUBSET Message]
    /\ net \in SUBSET Message
    /\ despawned \in BOOLEAN

\* A cell holds the entity when it is authoritative or has committed itself to
\* become so.
Holder(c) == presence[c] = "Live" \/ promotes[c] # {}

\* handoff_driver.go: a handoff never leaves the entity with zero
\* authoritative holders.
NoOrphan == despawned \/ \E c \in Cells : Holder(c)

\* handoff_driver.go: double authority is only a window of a handoff in
\* progress, so of two authoritative cells one still has its handoff
\* outstanding and will demote.
DualIsClosing ==
    \A c, d \in Cells :
       presence[c] = "Live" /\ presence[d] = "Live" /\ c # d
          => HandoffInFlight(c) \/ HandoffInFlight(d)

\* handoff_driver.go: "double-authority is transient and self-healing".  Once
\* the entity stops crossing, exactly one cell ends up authoritative.
Settles ==
    <>[](despawned \/ \E c \in Cells : \A d \in Cells :
                          presence[d] = "Live" <=> d = c)

\* Frames that have been sent and not yet processed.
InTransit == net \cup UNION {inbox[c] : c \in Cells}

\* cell.go, MsgHandoff: an acknowledgement, first or repeated, leaves a cell
\* only when that cell holds the entity, so the demote it arms at the source
\* never retires the last copy on the word of a cell that has none.
AckedByHolder ==
    [][\A m \in InTransit' \ InTransit :
          m.type = "Accepted" => despawned \/ Holder(m.from)']_vars

\* handoff_driver.go, hasHandoffInFlight: a cell never has two handoffs of one
\* entity outstanding, neither awaiting acceptance nor awaiting the commit.
OneHandoffAtATime ==
    \A c \in Cells :
       /\ \A a, b \in inflight[c] : a = b
       /\ \A a, b \in demotes[c] : a = b
       /\ inflight[c] = {} \/ demotes[c] = {}
=============================================================================
