---------------------------- MODULE SessionRoutes ----------------------------
(***************************************************************************)
(* Where one client session is routed, in a cluster whose coordinator,     *)
(* gateway and hosts are processes of their own.  Four parties each hold   *)
(* a copy of the answer and learn of a change by messages on streams that  *)
(* are ordered one by one but not with each other:                         *)
(*                                                                         *)
(*   coordinator  route     sessionRoutes[key]: host, cell, fencing epoch  *)
(*   gateway      gw        sessions[connID]: host, cell, epoch            *)
(*   each host    vcm[h]    VirtualConnManager entry: epoch, cell          *)
(*   each cell    seat[c]   the player session in the cell's PlayerManager *)
(*                                                                         *)
(* A player moves when a handoff commits (OnPlayerTransfer), when its cell *)
(* moves to another host (CommitMigrate) and when its cell is split or     *)
(* merged (CommitReshape).  The gateway's control stream may break and     *)
(* come back, its heartbeats may lapse, the coordinator may restart, and   *)
(* single sends may fail.  One connection is modelled, from its login to   *)
(* its close: a key is never used twice.                                   *)
(***************************************************************************)
EXTENDS Naturals, Sequences, FiniteSets

CONSTANTS
    Hosts, Cells,
    Layout,      \* the host each cell starts on; Nobody: not there yet
    MaxMoves,    \* handoffs and cell transfers in a run
    MaxBlips,    \* stream breaks, heartbeat lapses and coordinator restarts
    MaxLost      \* sends that fail

Nobody == "nobody"

ASSUME RoutesAssumption ==
    /\ Layout \in [Cells -> Hosts \union {Nobody}] /\ Nobody \notin Hosts
    /\ MaxMoves \in Nat /\ MaxBlips \in Nat /\ MaxLost \in Nat

VARIABLES
    owner,      \* [Cells -> Hosts \union {Nobody}]: who runs each cell
    seat,       \* [Cells -> {"none", "active", "grace"}]: the player session
    moving,     \* an accepted handoff whose commit tick is still to come
    phase,      \* the client's connection: "new", "open", "closed"
    gw,         \* the gateway's localSession, or None
    route,      \* the coordinator's SessionRoute, or None
    vcm,        \* [Hosts -> the VirtualConnManager entry, or None]
    mesh,       \* [Hosts -> Seq]: MeshData frames from the gateway
    migrated,   \* [Hosts -> Seq]: PlayerMigrated on the host's control stream
    registers,  \* [Hosts -> Seq]: SessionRegister on the host's control stream
    link,       \* the gateway's control stream: "up", "torn", "down"
    reg,        \* its GatewayRegistry entry: "live"; "dead" with its stream;
                \* "lapsed" (also GatewayDead), by its heartbeats; "gone"
    tracked,    \* whether that entry's Sessions holds the session
    toCoord,    \* SessionAnnounce messages on the stream
    switches,   \* UpstreamSwitch messages on the stream
    replay,     \* the snapshot reannounceSessions has still to send, or None
    evicted,    \* whether a superseded stream handler has yet to return
    late,       \* what that handler may still read
    clock,      \* history: places the player has been given so far
    applied,    \* history: the latest of them the coordinator has been told
    disordered, \* history: the coordinator, or a cell, learnt of one too late
    blips, lost

world == <<owner, seat, moving>>
stream == <<link, reg, tracked, toCoord, switches, replay, evicted, late>>
history == <<clock, applied, disordered>>
vars == <<world, phase, gw, route, vcm, mesh, migrated, registers, stream, history, blips, lost>>

None == [absent |-> TRUE]

Place == [host : Hosts, cell : Cells, epoch : Nat]
Entry == [epoch : Nat, cell : Cells]
Frame == [kind : {"assign"}, epoch : Nat, cell : Cells] \union [kind : {"leave"}]
Note == [host : Hosts, cell : Cells, at : Nat]
Message == [kind : {"announce"}, host : Hosts, cell : Cells, at : Nat] \union [kind : {"tombstone"}]

TypeOK ==
    /\ owner \in [Cells -> Hosts \union {Nobody}]
    /\ seat \in [Cells -> {"none", "active", "grace"}]
    /\ moving \in [from : Cells, to : Cells] \union {None}
    /\ phase \in {"new", "open", "closed"}
    /\ gw \in Place \union {None} /\ route \in Place \union {None}
    /\ vcm \in [Hosts -> Entry \union {None}]
    /\ mesh \in [Hosts -> Seq(Frame)]
    /\ migrated \in [Hosts -> Seq(Note)]
    /\ registers \in [Hosts -> Seq(Entry)]
    /\ link \in {"up", "torn", "down"}
    /\ reg \in {"live", "dead", "lapsed", "gone"}
    /\ tracked \in BOOLEAN
    /\ toCoord \in Seq(Message) /\ switches \in Seq(Place)
    /\ replay \in Place \union {None}
    /\ evicted \in BOOLEAN /\ late \in Seq(Message)
    /\ clock \in Nat /\ applied \in Nat /\ disordered \in BOOLEAN
    /\ blips \in 0..MaxBlips /\ lost \in 0..MaxLost

Init ==
    /\ owner = Layout
    /\ seat = [c \in Cells |-> "none"]
    /\ moving = None
    /\ phase = "new" /\ gw = None /\ route = None
    /\ vcm = [h \in Hosts |-> None]
    /\ mesh = [h \in Hosts |-> <<>>]
    /\ migrated = [h \in Hosts |-> <<>>]
    /\ registers = [h \in Hosts |-> <<>>]
    /\ link = "up" /\ reg = "live" /\ tracked = FALSE
    /\ toCoord = <<>> /\ switches = <<>>
    /\ replay = None /\ evicted = FALSE /\ late = <<>>
    /\ clock = 0 /\ applied = 0 /\ disordered = FALSE
    /\ blips = 0 /\ lost = 0

-----------------------------------------------------------------------------
(* Sends.  A message for a stream that is not up is logged and dropped.    *)

Sent(q, m) == IF link = "up" THEN Append(q, m) ELSE q

(* A fault of the budget: one send fails.                                  *)
Loses == lost < MaxLost /\ lost' = lost + 1

(* The coordinator hears of the place the player was given at time at.     *)
Hears(at) ==
    /\ disordered' = (disordered \/ at < applied)
    /\ applied' = IF at > applied THEN at ELSE applied

-----------------------------------------------------------------------------
(* VirtualConnManager                                                      *)

(* A lower epoch never replaces a higher one; the cell is always taken.    *)
RegisterSession(entry, epoch, c) ==
    [epoch |-> IF entry # None /\ epoch < entry.epoch THEN entry.epoch ELSE epoch,
     cell |-> c]

(* Whether h takes client input that the gateway stamped with epoch.       *)
InjectChannelInputWithEpoch(h, epoch) ==
    /\ vcm[h] # None
    /\ epoch > 0 => ~(epoch < vcm[h].epoch)

-----------------------------------------------------------------------------
(* Gateway: login and disconnect                                           *)

announceSession(s, at) == [kind |-> "announce", host |-> s.host, cell |-> s.cell, at |-> at]

(* Auth succeeded: record the session at epoch 1, announce it, assign the  *)
(* player.  When the assignment cannot be sent the session is deleted; a   *)
(* send that failed by its deadline may still have been delivered.         *)
dispatchPostAuthAssignment(c) ==
    LET s == [host |-> owner[c], cell |-> c, epoch |-> 1]
        Assign == mesh' = [mesh EXCEPT ![s.host] = Append(@, [kind |-> "assign", epoch |-> 1, cell |-> c])]
    IN
    /\ phase = "new" /\ owner[c] # Nobody
    /\ toCoord' = Sent(toCoord, announceSession(s, 1))
    /\ clock' = 1
    /\ \/ gw' = s /\ phase' = "open" /\ Assign /\ UNCHANGED lost
       \/ gw' = None /\ phase' = "closed" /\ Loses /\ (Assign \/ UNCHANGED mesh)
    /\ UNCHANGED <<world, route, vcm, migrated, registers, link, reg, tracked, switches,
                   replay, evicted, late, applied, disordered, blips>>

(* The connection closes: tell the host the gateway knows, and the         *)
(* coordinator.                                                            *)
handleDisconnect ==
    /\ phase = "open"
    /\ phase' = "closed" /\ gw' = None
    /\ \/ /\ mesh' = [mesh EXCEPT ![gw.host] = Append(@, [kind |-> "leave"])]
          /\ UNCHANGED lost
       \/ Loses /\ UNCHANGED mesh
    /\ toCoord' = Sent(toCoord, [kind |-> "tombstone"])
    /\ UNCHANGED <<world, route, vcm, migrated, registers, link, reg, tracked, switches,
                   replay, evicted, late, history, blips>>

\* Mutant: the epoch stays that of the login.
OnUpstreamSwitchKeepsEpoch ==
    /\ link = "up" /\ replay = None /\ switches # <<>>
    /\ gw' = IF gw = None THEN None ELSE [Head(switches) EXCEPT !.epoch = gw.epoch]
    /\ switches' = Tail(switches)
    /\ UNCHANGED <<world, phase, route, vcm, mesh, migrated, registers, link, reg, tracked,
                   toCoord, replay, evicted, late, history, blips, lost>>

(* No check of the epoch: the last switch to arrive wins.                  *)
OnUpstreamSwitch ==
    /\ link = "up" /\ replay = None /\ switches # <<>>
    /\ gw' = IF gw = None THEN None ELSE Head(switches)
    /\ switches' = Tail(switches)
    /\ UNCHANGED <<world, phase, route, vcm, mesh, migrated, registers, link, reg, tracked,
                   toCoord, replay, evicted, late, history, blips, lost>>

-----------------------------------------------------------------------------
(* Hosts                                                                   *)

(* One MeshData frame from the gateway.  The VCM entry is written before   *)
(* the cell is looked up, so an assignment for a cell that has just left   *)
(* leaves an entry and no player.                                          *)
routeInboundFrame(h) ==
    LET f == Head(mesh[h])
        c == IF f.kind = "assign" THEN f.cell ELSE vcm[h].cell
    IN
    /\ mesh[h] # <<>>
    /\ mesh' = [mesh EXCEPT ![h] = Tail(@)]
    /\ \/ /\ f.kind = "assign"
          /\ vcm' = [vcm EXCEPT ![h] = RegisterSession(@, f.epoch, f.cell)]
          /\ seat' = IF owner[c] = h THEN [seat EXCEPT ![c] = "active"] ELSE seat
          /\ disordered' = (disordered \/ clock > 1)
       \/ /\ f.kind = "leave" /\ vcm[h] # None
          /\ vcm' = [vcm EXCEPT ![h] = None]
          /\ seat' = IF owner[c] = h /\ seat[c] = "active" THEN [seat EXCEPT ![c] = "grace"] ELSE seat
          /\ UNCHANGED disordered
       \/ /\ f.kind = "leave" /\ vcm[h] = None
          /\ UNCHANGED <<vcm, seat, disordered>>
    /\ UNCHANGED <<owner, moving, phase, gw, route, migrated, registers, stream, clock, applied,
                   blips, lost>>

(* The destination accepts a handoff of the player's entity and registers  *)
(* the session ahead of the commit tick, at epoch 0, if the source still   *)
(* knows its key.                                                          *)
AcceptHandoff(c, d) ==
    /\ clock <= MaxMoves
    /\ moving = None /\ c # d /\ seat[c] = "active" /\ owner[d] # Nobody
    /\ moving' = [from |-> c, to |-> d]
    /\ seat' = [seat EXCEPT ![d] = "active"]
    /\ vcm' = IF vcm[owner[c]] = None THEN vcm
              ELSE [vcm EXCEPT ![owner[d]] = RegisterSession(@, 0, d)]
    /\ UNCHANGED <<owner, phase, gw, route, mesh, migrated, registers, stream, history, blips, lost>>

(* The commit tick on the source: the session leaves the cell, and the     *)
(* host tells the coordinator if its VCM still has the key.                *)
OnPlayerTransfer ==
    LET src == owner[moving.from]
        note == [host |-> owner[moving.to], cell |-> moving.to, at |-> clock + 1]
    IN
    /\ moving # None
    /\ moving' = None
    /\ seat' = [seat EXCEPT ![moving.from] = "none"]
    /\ clock' = clock + 1
    /\ \/ /\ vcm[src] # None
          /\ \/ migrated' = [migrated EXCEPT ![src] = Append(@, note)] /\ UNCHANGED lost
             \/ Loses /\ UNCHANGED migrated
       \/ vcm[src] = None /\ UNCHANGED <<migrated, lost>>
    /\ UNCHANGED <<owner, phase, gw, route, vcm, mesh, registers, stream, applied, disordered, blips>>

HandleSessionRegister(h) ==
    /\ registers[h] # <<>>
    /\ vcm' = [vcm EXCEPT ![h] = RegisterSession(@, Head(registers[h]).epoch, Head(registers[h]).cell)]
    /\ registers' = [registers EXCEPT ![h] = Tail(@)]
    /\ UNCHANGED <<world, phase, gw, route, mesh, migrated, stream, history, blips, lost>>

-----------------------------------------------------------------------------
(* Coordinator                                                             *)

\* Mutant: the epoch only grows when the host changes.
MigrateKeepsEpoch(r, h, c) ==
    [host |-> h, cell |-> c, epoch |-> IF h = r.host THEN r.epoch ELSE r.epoch + 1]

Migrate(r, h, c) == [host |-> h, cell |-> c, epoch |-> r.epoch + 1]

\* Mutant: a move within the host is kept from the gateway.
RerouteQuietly(h, c) ==
    LET r == Migrate(route, h, c) IN
    /\ route' = r
    /\ registers' = [registers EXCEPT ![h] = Append(@, [epoch |-> r.epoch, cell |-> c])]
    /\ switches' = IF h = route.host THEN switches ELSE Sent(switches, r)

(* Migrate the route to h and c, tell h's VCM and the gateway.             *)
Reroute(h, c) ==
    LET r == Migrate(route, h, c) IN
    /\ route' = r
    /\ registers' = [registers EXCEPT ![h] = Append(@, [epoch |-> r.epoch, cell |-> c])]
    /\ switches' = Sent(switches, r)

(* A PlayerMigrated from h.  One for a session without a route is dropped. *)
notifyPlayerMigrated(h) ==
    LET m == Head(migrated[h]) IN
    /\ migrated[h] # <<>>
    /\ migrated' = [migrated EXCEPT ![h] = Tail(@)]
    /\ Hears(m.at)
    /\ \/ route # None /\ Reroute(m.host, m.cell)
       \/ route = None /\ UNCHANGED <<route, registers, switches>>
    /\ UNCHANGED <<world, phase, gw, vcm, mesh, link, reg, tracked, toCoord, replay, evicted, late,
                   clock, blips, lost>>

(* The commit of a transfer that turns cell c into d on host h.  The       *)
(* destination has imported c's sessions, each at the epoch of the         *)
(* source's VCM; the routes that name c are remapped.                      *)
Commit(c, d, h) ==
    /\ clock <= MaxMoves /\ phase # "new" /\ moving = None
    /\ owner[c] # Nobody
    /\ vcm' = IF seat[c] = "none" \/ vcm[owner[c]] = None THEN vcm
              ELSE [vcm EXCEPT ![h] = RegisterSession(@, vcm[owner[c]].epoch, d)]
    /\ clock' = clock + 1
    /\ IF seat[c] = "active" THEN Hears(clock + 1) ELSE UNCHANGED <<applied, disordered>>
    /\ \/ route # None /\ route.cell = c /\ Reroute(h, d)
       \/ ~(route # None /\ route.cell = c) /\ UNCHANGED <<route, registers, switches>>
    /\ UNCHANGED <<moving, phase, gw, mesh, migrated, link, reg, tracked, toCoord, replay,
                   evicted, late, blips, lost>>

CommitMigrate(c, h) ==
    /\ h # owner[c]
    /\ Commit(c, c, h)
    /\ owner' = [owner EXCEPT ![c] = h]
    /\ UNCHANGED seat

(* A split gives the player to one of the children, a merge to the parent. *)
CommitReshape(c, d, h) ==
    /\ owner[d] = Nobody
    /\ Commit(c, d, h)
    /\ owner' = [owner EXCEPT ![c] = Nobody, ![d] = h]
    /\ seat' = [seat EXCEPT ![c] = "none", ![d] = seat[c]]

(* A SessionAnnounce.  The message carries no epoch: the route starts over *)
(* at 1.  A tombstone removes it.                                          *)
HandleSessionAnnounce(m) ==
    \/ /\ m.kind = "announce"
       /\ route' = [host |-> m.host, cell |-> m.cell, epoch |-> 1]
       /\ tracked' = (reg # "gone")
       /\ Hears(m.at)
    \/ /\ m.kind = "tombstone"
       /\ route' = None
       /\ tracked' = FALSE
       /\ UNCHANGED <<applied, disordered>>

(* The stream's handler reads on until it notices that the stream is gone. *)
ReadAnnounce ==
    /\ link # "down" /\ toCoord # <<>>
    /\ HandleSessionAnnounce(Head(toCoord))
    /\ toCoord' = Tail(toCoord)
    /\ UNCHANGED <<world, phase, gw, vcm, mesh, migrated, registers, link, reg, switches, replay,
                   evicted, late, clock, blips, lost>>

-----------------------------------------------------------------------------
(* The gateway's control stream                                            *)

Blips == blips < MaxBlips /\ blips' = blips + 1

(* The gateway loses its stream; what was on its way to it is lost.        *)
StreamBreaks ==
    /\ Blips
    /\ link = "up"
    /\ link' = "torn"
    /\ switches' = <<>> /\ replay' = None
    /\ UNCHANGED <<world, phase, gw, route, vcm, mesh, migrated, registers, reg, tracked, toCoord,
                   evicted, late, history, lost>>

(* The coordinator's handler returns and still owns the registration: with *)
(* sessions tracked it is a crash and their routes go.                     *)
StreamCloses ==
    /\ link = "torn"
    /\ link' = "down"
    /\ toCoord' = <<>>
    /\ IF tracked THEN reg' = "dead" /\ route' = None /\ UNCHANGED tracked
       ELSE reg' = "gone" /\ UNCHANGED <<route, tracked>>
    /\ UNCHANGED <<world, phase, gw, vcm, mesh, migrated, registers, switches, replay, evicted, late,
                   history, blips, lost>>

\* Mutant: nothing is announced again.
ReconnectSilently ==
    /\ link # "up"
    /\ link' = "up"
    /\ reg' = "live" /\ tracked' = FALSE
    /\ toCoord' = <<>>
    /\ IF link = "torn" THEN evicted' = TRUE /\ late' = toCoord ELSE UNCHANGED <<evicted, late>>
    /\ UNCHANGED <<world, phase, gw, route, vcm, mesh, migrated, registers, switches, replay,
                   history, blips, lost>>

(* The gateway registers again.  If the old handler is still there, its    *)
(* heartbeats have lapsed and it is evicted.  Register starts a fresh      *)
(* entry, and the live session is to be announced again.                   *)
runConnection ==
    /\ link # "up"
    /\ link' = "up"
    /\ reg' = "live" /\ tracked' = FALSE
    /\ replay' = gw
    /\ toCoord' = <<>>
    /\ IF link = "torn" THEN evicted' = TRUE /\ late' = toCoord ELSE UNCHANGED <<evicted, late>>
    /\ UNCHANGED <<world, phase, gw, route, vcm, mesh, migrated, registers, switches, history,
                   blips, lost>>

reannounceSessions ==
    /\ link = "up" /\ replay # None
    /\ toCoord' = Append(toCoord, announceSession(replay, clock))
    /\ replay' = None
    /\ UNCHANGED <<world, phase, gw, route, vcm, mesh, migrated, registers, link, reg, tracked,
                   switches, evicted, late, history, blips, lost>>

(* The evicted handler may read on before it sees that it was killed, and  *)
(* then returns without any teardown: the registration is no longer its    *)
(* own.                                                                    *)
EvictedReads ==
    /\ evicted /\ late # <<>>
    /\ HandleSessionAnnounce(Head(late))
    /\ late' = Tail(late)
    /\ UNCHANGED <<world, phase, gw, vcm, mesh, migrated, registers, link, reg, toCoord, switches,
                   replay, evicted, clock, blips, lost>>

releaseGatewayStream ==
    /\ evicted
    /\ evicted' = FALSE /\ late' = <<>>
    /\ UNCHANGED <<route, reg, tracked>>

EvictedReturns ==
    /\ releaseGatewayStream
    /\ UNCHANGED <<world, phase, gw, vcm, mesh, migrated, registers, link, toCoord, switches,
                   replay, history, blips, lost>>

(* No heartbeat for gatewayDeadThreshold: the routes go, the stream stays. *)
checkGatewayLiveness ==
    /\ Blips
    /\ reg = "live"
    /\ reg' = "lapsed" /\ route' = None
    /\ UNCHANGED <<world, phase, gw, vcm, mesh, migrated, registers, link, tracked, toCoord,
                   switches, replay, evicted, late, history, lost>>

(* The coordinator restarts with empty tables; every stream to it closes.  *)
CoordinatorRestarts ==
    /\ Blips
    /\ route' = None
    /\ link' = "down" /\ reg' = "gone" /\ tracked' = FALSE
    /\ toCoord' = <<>> /\ switches' = <<>> /\ replay' = None
    /\ evicted' = FALSE /\ late' = <<>>
    /\ migrated' = [h \in Hosts |-> <<>>]
    /\ registers' = [h \in Hosts |-> <<>>]
    /\ UNCHANGED <<world, phase, gw, vcm, mesh, history, lost>>

-----------------------------------------------------------------------------
Next ==
    \/ \E c \in Cells : dispatchPostAuthAssignment(c)
    \/ handleDisconnect
    \/ OnUpstreamSwitch
    \/ \E h \in Hosts : routeInboundFrame(h)
    \/ \E c, d \in Cells : AcceptHandoff(c, d)
    \/ OnPlayerTransfer
    \/ \E h \in Hosts : HandleSessionRegister(h)
    \/ \E h \in Hosts : notifyPlayerMigrated(h)
    \/ \E c \in Cells, h \in Hosts : CommitMigrate(c, h)
    \/ \E c, d \in Cells, h \in Hosts : CommitReshape(c, d, h)
    \/ ReadAnnounce
    \/ StreamBreaks
    \/ StreamCloses
    \/ runConnection
    \/ reannounceSessions
    \/ EvictedReads
    \/ EvictedReturns
    \/ checkGatewayLiveness
    \/ CoordinatorRestarts

Spec == Init /\ [][Next]_vars

(* A connected gateway keeps redialling and announces again, and each      *)
(* stream's reader keeps reading: the loops of runConnectLoop,             *)
(* handleGatewayControl and the hosts' control clients.                    *)
FairSpec ==
    /\ Spec
    /\ WF_vars(runConnection) /\ WF_vars(reannounceSessions)
    /\ WF_vars(ReadAnnounce)

-----------------------------------------------------------------------------
(* Nothing is on its way and no handoff is pending.                        *)
Quiet ==
    /\ moving = None /\ link = "up" /\ replay = None
    /\ toCoord = <<>> /\ switches = <<>> /\ ~evicted
    /\ \A h \in Hosts : mesh[h] = <<>> /\ migrated[h] = <<>> /\ registers[h] = <<>>

(* No fault; the assignment came before the first move, and the            *)
(* coordinator heard of the moves in their order.                          *)
InOrder == blips = 0 /\ lost = 0 /\ ~disordered

(* The fencing epoch names one place: while the gateway's control stream   *)
(* has not blipped, no epoch the gateway holds, or that a switch or a      *)
(* register in flight carries, is above the route's, and whoever holds the *)
(* route's own epoch holds its host and cell.  The gateway's epoch tests   *)
(* on client frames and receipts, and the hosts' on input, rely on it.     *)
EpochNamesRoute ==
    blips = 0 /\ route # None =>
        /\ gw # None => gw.epoch < route.epoch \/ gw = route
        /\ \A i \in 1..Len(switches) : switches[i].epoch < route.epoch \/ switches[i] = route
        /\ \A h \in Hosts : \A i \in 1..Len(registers[h]) :
               LET r == registers[h][i] IN
               r.epoch < route.epoch \/ [host |-> h, cell |-> r.cell, epoch |-> r.epoch] = route

(* Once everything has arrived, and if the coordinator heard of the moves  *)
(* in order, an open session's gateway and coordinator agree on a cell and *)
(* on the host that runs it, the player is seated in that cell and in no   *)
(* other, and that host's VCM takes the gateway's input.                   *)
SettledRoute ==
    Quiet /\ InOrder /\ gw # None =>
        /\ route = gw
        /\ \A c \in Cells : seat[c] = "active" <=> c = gw.cell
        /\ gw.host = owner[gw.cell]
        /\ InjectChannelInputWithEpoch(gw.host, gw.epoch)

(* A connected gateway with nothing left to announce has a route for its   *)
(* open session unless its heartbeats have lapsed, whatever streams broke, *)
(* were evicted or superseded before: the teardown of an old stream never  *)
(* takes the routes of its successor.                                      *)
RouteTracked ==
    link = "up" /\ reg # "lapsed" /\ replay = None /\ toCoord = <<>> /\ gw # None
        => route # None

(* An open session whose route was lost to a broken stream or a restarted  *)
(* coordinator gets a route again, unless the session closes or the        *)
(* registration lapses.                                                    *)
RouteComesBack ==
    gw # None /\ route = None /\ reg # "lapsed" ~> route # None \/ gw = None \/ reg = "lapsed"

(* Once everything has arrived, the host that the gateway sends an open    *)
(* session's input to takes it, although sends have failed and moves were  *)
(* heard of in the wrong order.  This needs a stream that has not broken:  *)
(* a session announced again starts over at epoch 1, below the epochs the  *)
(* hosts were told of.                                                     *)
InputAdmitted ==
    Quiet /\ blips = 0 /\ gw # None => InjectChannelInputWithEpoch(gw.host, gw.epoch)
=============================================================================
