------------------------- MODULE SessionRoutesProofs -------------------------
(***************************************************************************)
(* Proofs about SessionRoutes, for any hosts, cells, layout and bounds.    *)
(***************************************************************************)
EXTENDS SessionRoutes, TLAPS

(* TypeOK needs one more fact: the cell a pending handoff goes to exists.  *)
TInv ==
    /\ TypeOK
    /\ moving # None => owner[moving.to] # Nobody

(* A session that is not open is unknown to the gateway, and only a closed *)
(* one has a tombstone on its way.                                         *)
SInv ==
    /\ phase # "open" => gw = None
    /\ \A i \in 1..Len(toCoord) : toCoord[i].kind = "tombstone" => phase = "closed"
    /\ \A i \in 1..Len(late) : late[i].kind = "tombstone" => phase = "closed"

(* No route has been made yet, and nobody has been told of one.            *)
Unrouted == route = None /\ switches = <<>> /\ \A h \in Hosts : registers[h] = <<>>

(* Without a blip the only announcement is the one of the login, and until *)
(* it is read there is no other news of the session.  So the route starts  *)
(* at epoch 1 with nothing else at large, and every later epoch is issued  *)
(* by Reroute, above all that went out before.                             *)
EInv ==
    blips = 0 =>
        /\ link = "up" /\ ~evicted /\ replay = None
        /\ phase = "new" => toCoord = <<>> /\ Unrouted
        /\ \A i \in 1..Len(toCoord) : toCoord[i].kind = "announce" =>
               /\ i = 1 /\ Unrouted
               /\ gw # None => gw = [host |-> toCoord[i].host, cell |-> toCoord[i].cell, epoch |-> 1]
        /\ EpochNamesRoute

(* An open session of a connected gateway has a route, or an announcement  *)
(* that will make one.                                                     *)
KInv ==
    link = "up" /\ reg # "lapsed" /\ gw # None =>
        \/ route # None
        \/ replay # None
        \/ \E i \in 1..Len(toCoord) : toCoord[i].kind = "announce"

(* Where the session is routed, now or when its announcement is read.      *)
Current == IF route = None THEN gw ELSE route

(* Host h knows the session, or will when it has read what is under way.   *)
Known(h) == vcm[h] # None \/ registers[h] # <<>> \/ mesh[h] # <<>>

(* Nobody has heard of the session yet.                                    *)
Untouched ==
    /\ moving = None /\ clock = 0 /\ applied = 0
    /\ \A c \in Cells : seat[c] = "none"
    /\ \A h \in Hosts : vcm[h] = None /\ mesh[h] = <<>> /\ migrated[h] = <<>>

(* The host of the current route knows the session, no host knows a later  *)
(* epoch, and the gateway has been told of the route or will be, last of   *)
(* all.                                                                    *)
Led ==
    /\ \A h \in Hosts : \A i \in 1..Len(mesh[h]) : mesh[h][i].kind = "assign" /\ mesh[h][i].epoch = 1
    /\ Current.epoch >= 1
    /\ \A h \in Hosts : vcm[h] # None => vcm[h].epoch <= Current.epoch
    /\ Known(Current.host)
    /\ IF switches = <<>> THEN gw = Current ELSE switches[Len(switches)] = Current

(* Without a blip, an open session is led to a host that takes its input,  *)
(* and nobody has heard of a session that is not.                          *)
HInv ==
    blips = 0 =>
        /\ reg = "live"
        /\ phase = "new" => Untouched
        /\ gw # None => Led

(* What the coordinator has still to read about the player's place.        *)
Announced == {toCoord[i] : i \in {j \in 1..Len(toCoord) : toCoord[j].kind = "announce"}}
Notes(h) == {migrated[h][i] : i \in 1..Len(migrated[h])}
News == Announced \union UNION {Notes(h) : h \in Hosts}
Newest(m) == m \in News /\ \A n \in News : n.at <= m.at

(* The assignment has not reached its host yet.                            *)
AssignDue == \E h \in Hosts : mesh[h] # <<>>

(* The coordinator, or a cell, is bound to learn of something too late.    *)
Doomed == (\E m \in News : m.at < applied) \/ (clock > 1 /\ AssignDue)

(* The route will name cell c and its host, once all news has been read.   *)
Located(c) ==
    IF News = {} THEN route # None /\ route.cell = c /\ route.host = owner[c]
    ELSE /\ \E m \in News : Newest(m)
         /\ \A m \in News : Newest(m) => m.cell = c /\ m.host = owner[c]

(* The assignment is on its way to the host that runs its cell.            *)
Arriving ==
    /\ moving = None /\ \A c \in Cells : seat[c] # "active"
    /\ \E h \in Hosts : /\ Len(mesh[h]) = 1 /\ owner[mesh[h][1].cell] = h /\ Located(mesh[h][1].cell)
                        /\ \A g \in Hosts \ {h} : mesh[g] = <<>>

(* The player is seated in c, and in the cell of a pending handoff, on     *)
(* hosts that know the session.                                            *)
Seated(c) ==
    /\ seat[c] = "active" /\ Located(c)
    /\ moving # None => moving.from = c /\ moving.to # c /\ seat[moving.to] = "active"
    /\ \A d \in Cells : seat[d] = "active" =>
           /\ owner[d] # Nobody /\ vcm[owner[d]] # None
           /\ d = c \/ (moving # None /\ d = moving.to)

(* Either somebody will learn of something too late, or the player is on   *)
(* the way to one cell, or seated in one that the news leads to.           *)
Settling ==
    /\ clock >= 1 /\ applied <= clock
    /\ \A m \in News : m.at \in Nat /\ m.at <= clock
    /\ ~Doomed => IF AssignDue THEN Arriving ELSE \E c \in Cells : Seated(c)

(* Without a fault, and with all heard of in order, that is so.            *)
PInv == InOrder /\ gw # None => Settling

LEMMA NoneIsNoPlace == None \notin Place /\ None \notin Entry /\ None \notin [from : Cells, to : Cells]
  BY Zenon DEF None, Place, Entry

(* What the helpers return has the type of what they are given. *)
LEMMA RegisterSessionType ==
  ASSUME NEW e \in Entry \union {None}, NEW n \in Nat, NEW c \in Cells
  PROVE  RegisterSession(e, n, c) \in Entry
  BY Zenon DEF RegisterSession, Entry

LEMMA SentType ==
  ASSUME NEW S, NEW q \in Seq(S), NEW m \in S
  PROVE  Sent(q, m) \in Seq(S)
  BY DEF Sent

LEMMA AppendAtType ==
  ASSUME NEW S, NEW q \in [Hosts -> Seq(S)], NEW h, NEW m \in S
  PROVE  [q EXCEPT ![h] = Append(@, m)] \in [Hosts -> Seq(S)]
<1> DEFINE r == [q EXCEPT ![h] = Append(@, m)]
<1>1. r = [g \in Hosts |-> IF g = h THEN Append(q[h], m) ELSE q[g]]
  BY Zenon
<1>2. \A g \in Hosts : g = h => Append(q[h], m) \in Seq(S)
  OBVIOUS
<1>3. \A g \in Hosts : r[g] \in Seq(S)
  BY <1>1, <1>2, Zenon
<1> QED
  BY <1>1, <1>3, Zenon

LEMMA RerouteType ==
  ASSUME TypeOK, NEW h \in Hosts, NEW c \in Cells, route # None, Reroute(h, c)
  PROVE  /\ route' \in Place
         /\ registers' \in [Hosts -> Seq(Entry)]
         /\ switches' \in Seq(Place)
<1> DEFINE r == Migrate(route, h, c)
<1>1. r \in Place
  BY DEF TypeOK, Migrate, Place
<1>2. [epoch |-> r.epoch, cell |-> c] \in Entry
  BY <1>1, Zenon DEF Place, Entry
<1> HIDE DEF r
<1>3. route' = r /\ switches' = Sent(switches, r)
      /\ registers' = [registers EXCEPT ![h] = Append(@, [epoch |-> r.epoch, cell |-> c])]
  BY Zenon DEF Reroute, r
<1>4. switches' \in Seq(Place)
  BY <1>1, <1>3, SentType, Zenon DEF TypeOK
<1>5. registers' \in [Hosts -> Seq(Entry)]
  BY <1>2, <1>3 DEF TypeOK
<1> QED
  BY <1>1, <1>3, <1>4, <1>5, Zenon

LEMMA HandleAnnounceType ==
  ASSUME TypeOK, NEW m \in Message, HandleSessionAnnounce(m)
  PROVE  /\ route' \in Place \union {None}
         /\ tracked' \in BOOLEAN
         /\ applied' \in Nat /\ disordered' \in BOOLEAN
<1>1. CASE m.kind = "announce"
  <2>1. m.host \in Hosts /\ m.cell \in Cells /\ m.at \in Nat
    BY <1>1, Zenon DEF Message
  <2>2. /\ route' = [host |-> m.host, cell |-> m.cell, epoch |-> 1]
        /\ tracked' = (reg # "gone")
        /\ disordered' = (disordered \/ m.at < applied)
        /\ applied' = IF m.at > applied THEN m.at ELSE applied
    BY <1>1, Zenon DEF HandleSessionAnnounce, Hears
  <2>3. route' \in Place
    BY <2>1, <2>2, Zenon DEF Place
  <2>4. tracked' \in BOOLEAN /\ disordered' \in BOOLEAN
    BY <2>2, Zenon
  <2>5. applied' \in Nat
    BY <2>1, <2>2, Zenon DEF TypeOK
  <2> QED
    BY <2>3, <2>4, <2>5, Zenon
<1>2. CASE m.kind = "tombstone"
  BY <1>2, Zenon DEF TypeOK, HandleSessionAnnounce
<1> QED
  BY <1>1, <1>2, Zenon DEF HandleSessionAnnounce

(* The announcement made for a session that is in a place. *)
LEMMA AnnounceType ==
  ASSUME NEW p \in Place, NEW n \in Nat
  PROVE  announceSession(p, n) \in Message
  BY Zenon DEF announceSession, Message, Place

(* The parts of a cell transfer's commit that are common to all kinds. *)
LEMMA CommitType ==
  ASSUME TypeOK, NEW c \in Cells, NEW d \in Cells, NEW h \in Hosts, Commit(c, d, h)
  PROVE  /\ vcm' \in [Hosts -> Entry \union {None}]
         /\ clock' \in Nat /\ applied' \in Nat /\ disordered' \in BOOLEAN
         /\ route' \in Place \union {None}
         /\ registers' \in [Hosts -> Seq(Entry)]
         /\ switches' \in Seq(Place)
<1>1. owner[c] \in Hosts
  BY Zenon DEF TypeOK, Commit
<1>2. vcm[owner[c]] # None => RegisterSession(vcm[h], vcm[owner[c]].epoch, d) \in Entry
  BY <1>1, RegisterSessionType, Zenon DEF TypeOK, Entry
<1>3. vcm' \in [Hosts -> Entry \union {None}]
  BY <1>2, Zenon DEF TypeOK, Commit
<1>4. clock' \in Nat /\ applied' \in Nat
  BY DEF TypeOK, Commit, Hears
<1>5. disordered' \in BOOLEAN
  BY Zenon DEF TypeOK, Commit, Hears
<1>6. /\ route' \in Place \union {None}
      /\ registers' \in [Hosts -> Seq(Entry)]
      /\ switches' \in Seq(Place)
  BY RerouteType, Zenon DEF TypeOK, Commit
<1> QED
  BY <1>3, <1>4, <1>5, <1>6, Zenon

(* Every step of the system keeps the types. *)
LEMMA TInvStep == TInv /\ [Next]_vars => TInv'
<1> SUFFICES ASSUME TInv, [Next]_vars PROVE TInv'
  BY Zenon
<1> USE RoutesAssumption
<1>0. TypeOK
  BY Zenon DEF TInv
<1>1. ASSUME NEW c \in Cells, dispatchPostAuthAssignment(c) PROVE TInv'
  <2>1. [host |-> owner[c], cell |-> c, epoch |-> 1] \in Place
    BY <1>1, Zenon DEF TInv, TypeOK, Place, dispatchPostAuthAssignment
  <2>2. [kind |-> "assign", epoch |-> 1, cell |-> c] \in Frame
    BY <1>1, Zenon DEF TInv, TypeOK, Frame
  <2>3. announceSession([host |-> owner[c], cell |-> c, epoch |-> 1], 1) \in Message
    BY <1>1, <2>1, AnnounceType, Zenon DEF TInv, TypeOK
  <2>4. [mesh EXCEPT ![owner[c]] = Append(@, [kind |-> "assign", epoch |-> 1, cell |-> c])] \in [Hosts -> Seq(Frame)]
    BY <1>1, <2>2, AppendAtType, Zenon DEF TInv, TypeOK
  <2>5. gw' \in Place \union {None}
    BY <1>1, <1>0, <2>1, Zenon DEF TypeOK, dispatchPostAuthAssignment
  <2>6. phase' \in {"new", "open", "closed"}
    BY <1>1, <1>0, Zenon DEF TypeOK, dispatchPostAuthAssignment
  <2>7. mesh' \in [Hosts -> Seq(Frame)]
    BY <1>1, <1>0, <2>4, Zenon DEF TypeOK, dispatchPostAuthAssignment
  <2>8. toCoord' \in Seq(Message)
    BY <1>1, <1>0, <2>3, SentType, Zenon DEF TypeOK, dispatchPostAuthAssignment
  <2>9. clock' \in Nat
    BY <1>1, <1>0, Zenon DEF TypeOK, dispatchPostAuthAssignment
  <2>10. lost' \in 0..MaxLost
    BY <1>1, <1>0 DEF TypeOK, dispatchPostAuthAssignment, Loses
  <2>11. UNCHANGED <<owner, seat, moving, route, vcm, migrated, registers, link, reg, tracked,
       switches, replay, evicted, late, applied, disordered, blips>>
    BY <1>1, Zenon DEF dispatchPostAuthAssignment, world, stream, history
  <2>12. (moving # None => owner[moving.to] # Nobody)'
    BY <1>1, Zenon DEF TInv, TypeOK, dispatchPostAuthAssignment, world
  <2> QED
    BY <1>0, <2>5, <2>6, <2>7, <2>8, <2>9, <2>10, <2>11, <2>12, ZenonT(60) DEF TInv, TypeOK
<1>2. CASE handleDisconnect
  <2>1. [kind |-> "leave"] \in Frame
    BY <1>2, Zenon DEF TInv, TypeOK, Frame
  <2>2. [kind |-> "tombstone"] \in Message
    BY <1>2, Zenon DEF TInv, TypeOK, Message
  <2>3. [mesh EXCEPT ![gw.host] = Append(@, [kind |-> "leave"])] \in [Hosts -> Seq(Frame)]
    BY <1>2, <2>1, AppendAtType, Zenon DEF TInv, TypeOK
  <2>4. gw' \in Place \union {None}
    BY <1>2, <1>0, Zenon DEF TypeOK, handleDisconnect
  <2>5. phase' \in {"new", "open", "closed"}
    BY <1>2, <1>0, Zenon DEF TypeOK, handleDisconnect
  <2>6. mesh' \in [Hosts -> Seq(Frame)]
    BY <1>2, <1>0, <2>3, Zenon DEF TypeOK, handleDisconnect
  <2>7. toCoord' \in Seq(Message)
    BY <1>2, <1>0, <2>2, SentType, Zenon DEF TypeOK, handleDisconnect
  <2>8. lost' \in 0..MaxLost
    BY <1>2, <1>0 DEF TypeOK, handleDisconnect, Loses
  <2>9. UNCHANGED <<owner, seat, moving, route, vcm, migrated, registers, link, reg, tracked,
       switches, replay, evicted, late, clock, applied, disordered, blips>>
    BY <1>2, Zenon DEF handleDisconnect, world, stream, history
  <2>10. (moving # None => owner[moving.to] # Nobody)'
    BY <1>2, Zenon DEF TInv, TypeOK, handleDisconnect, world
  <2> QED
    BY <1>0, <2>4, <2>5, <2>6, <2>7, <2>8, <2>9, <2>10, ZenonT(60) DEF TInv, TypeOK
<1>3. CASE OnUpstreamSwitch
  <2>1. gw' \in Place \union {None}
    BY <1>3, <1>0 DEF TypeOK, OnUpstreamSwitch
  <2>2. switches' \in Seq(Place)
    BY <1>3, <1>0 DEF TypeOK, OnUpstreamSwitch
  <2>3. UNCHANGED <<owner, seat, moving, phase, route, vcm, mesh, migrated, registers, link,
       reg, tracked, toCoord, replay, evicted, late, clock, applied, disordered, blips, lost>>
    BY <1>3, Zenon DEF OnUpstreamSwitch, world, stream, history
  <2>4. (moving # None => owner[moving.to] # Nobody)'
    BY <1>3, Zenon DEF TInv, TypeOK, OnUpstreamSwitch, world
  <2> QED
    BY <1>0, <2>1, <2>2, <2>3, <2>4, ZenonT(60) DEF TInv, TypeOK
<1>4. ASSUME NEW h \in Hosts, routeInboundFrame(h) PROVE TInv'
  <2>1. Head(mesh[h]) \in Frame
    BY <1>4 DEF TInv, TypeOK, routeInboundFrame
  <2>2. Head(mesh[h]).kind = "assign" => Head(mesh[h]).epoch \in Nat /\ Head(mesh[h]).cell \in Cells
    BY <1>4, <2>1, Zenon DEF TInv, TypeOK, Frame
  <2>3. Head(mesh[h]).kind = "assign" => RegisterSession(vcm[h], Head(mesh[h]).epoch, Head(mesh[h]).cell) \in Entry
    BY <1>4, <2>2, RegisterSessionType, Zenon DEF TInv, TypeOK
  <2>4. mesh' \in [Hosts -> Seq(Frame)]
    BY <1>4, <1>0 DEF TypeOK, routeInboundFrame
  <2>5. vcm' \in [Hosts -> Entry \union {None}]
    BY <1>4, <1>0, <2>3, Zenon DEF TypeOK, routeInboundFrame
  <2>6. seat' \in [Cells -> {"none", "active", "grace"}]
    BY <1>4, <1>0, Zenon DEF TypeOK, routeInboundFrame
  <2>7. disordered' \in BOOLEAN
    BY <1>4, <1>0, Zenon DEF TypeOK, routeInboundFrame
  <2>8. UNCHANGED <<owner, moving, phase, gw, route, migrated, registers, link, reg, tracked,
       toCoord, switches, replay, evicted, late, clock, applied, blips, lost>>
    BY <1>4, Zenon DEF routeInboundFrame, world, stream, history
  <2>9. (moving # None => owner[moving.to] # Nobody)'
    BY <1>4, Zenon DEF TInv, TypeOK, routeInboundFrame, world
  <2> QED
    BY <1>0, <2>4, <2>5, <2>6, <2>7, <2>8, <2>9, ZenonT(60) DEF TInv, TypeOK
<1>5. ASSUME NEW c \in Cells, NEW d \in Cells, AcceptHandoff(c, d) PROVE TInv'
  <2>1. owner[d] \in Hosts
    BY <1>5, Zenon DEF TInv, TypeOK, AcceptHandoff
  <2>2. RegisterSession(vcm[owner[d]], 0, d) \in Entry
    BY <1>5, <2>1, RegisterSessionType, Zenon DEF TInv, TypeOK
  <2>3. moving' \in [from : Cells, to : Cells] \union {None}
    BY <1>5, <1>0, Zenon DEF TypeOK, AcceptHandoff
  <2>4. seat' \in [Cells -> {"none", "active", "grace"}]
    BY <1>5, <1>0, Zenon DEF TypeOK, AcceptHandoff
  <2>5. vcm' \in [Hosts -> Entry \union {None}]
    BY <1>5, <1>0, <2>1, <2>2, Zenon DEF TypeOK, AcceptHandoff
  <2>6. UNCHANGED <<owner, phase, gw, route, mesh, migrated, registers, link, reg, tracked,
       toCoord, switches, replay, evicted, late, clock, applied, disordered, blips, lost>>
    BY <1>5, Zenon DEF AcceptHandoff, world, stream, history
  <2>7. (moving # None => owner[moving.to] # Nobody)'
    BY <1>5, Zenon DEF TInv, TypeOK, AcceptHandoff, world
  <2> QED
    BY <1>0, <2>3, <2>4, <2>5, <2>6, <2>7, ZenonT(60) DEF TInv, TypeOK
<1>6. CASE OnPlayerTransfer
  <2>1. moving \in [from : Cells, to : Cells] /\ owner[moving.to] \in Hosts
    BY <1>6, Zenon DEF TInv, TypeOK, OnPlayerTransfer
  <2>2. [host |-> owner[moving.to], cell |-> moving.to, at |-> clock + 1] \in Note
    BY <1>6, <2>1 DEF TInv, TypeOK, Note
  <2>3. [migrated EXCEPT ![owner[moving.from]] = Append(@, [host |-> owner[moving.to], cell |-> moving.to,
                                                           at |-> clock + 1])] \in [Hosts -> Seq(Note)]
    BY <1>6, <2>2, AppendAtType, Zenon DEF TInv, TypeOK
  <2>4. moving' \in [from : Cells, to : Cells] \union {None}
    BY <1>6, <1>0, Zenon DEF TypeOK, OnPlayerTransfer
  <2>5. seat' \in [Cells -> {"none", "active", "grace"}]
    BY <1>6, <1>0, Zenon DEF TypeOK, OnPlayerTransfer
  <2>6. clock' \in Nat
    BY <1>6, <1>0 DEF TypeOK, OnPlayerTransfer
  <2>7. migrated' \in [Hosts -> Seq(Note)]
    BY <1>6, <1>0, <2>3, Zenon DEF TypeOK, OnPlayerTransfer
  <2>8. lost' \in 0..MaxLost
    BY <1>6, <1>0 DEF TypeOK, OnPlayerTransfer, Loses
  <2>9. UNCHANGED <<owner, phase, gw, route, vcm, mesh, registers, link, reg, tracked, toCoord,
       switches, replay, evicted, late, applied, disordered, blips>>
    BY <1>6, Zenon DEF OnPlayerTransfer, world, stream, history
  <2>10. (moving # None => owner[moving.to] # Nobody)'
    BY <1>6, Zenon DEF TInv, TypeOK, OnPlayerTransfer, world
  <2> QED
    BY <1>0, <2>4, <2>5, <2>6, <2>7, <2>8, <2>9, <2>10, ZenonT(60) DEF TInv, TypeOK
<1>7. ASSUME NEW h \in Hosts, HandleSessionRegister(h) PROVE TInv'
  <2>1. Head(registers[h]) \in Entry
    BY <1>7 DEF TInv, TypeOK, HandleSessionRegister
  <2>2. RegisterSession(vcm[h], Head(registers[h]).epoch, Head(registers[h]).cell) \in Entry
    BY <1>7, <2>1, RegisterSessionType, Zenon DEF TInv, TypeOK, Entry
  <2>3. vcm' \in [Hosts -> Entry \union {None}]
    BY <1>7, <1>0, <2>2, Zenon DEF TypeOK, HandleSessionRegister
  <2>4. registers' \in [Hosts -> Seq(Entry)]
    BY <1>7, <1>0 DEF TypeOK, HandleSessionRegister
  <2>5. UNCHANGED <<owner, seat, moving, phase, gw, route, mesh, migrated, link, reg, tracked,
       toCoord, switches, replay, evicted, late, clock, applied, disordered, blips, lost>>
    BY <1>7, Zenon DEF HandleSessionRegister, world, stream, history
  <2>6. (moving # None => owner[moving.to] # Nobody)'
    BY <1>7, Zenon DEF TInv, TypeOK, HandleSessionRegister, world
  <2> QED
    BY <1>0, <2>3, <2>4, <2>5, <2>6 DEF TInv, TypeOK
<1>8. ASSUME NEW h \in Hosts, notifyPlayerMigrated(h) PROVE TInv'
  <2>1. Head(migrated[h]) \in Note
    BY <1>8 DEF TInv, TypeOK, notifyPlayerMigrated
  <2>2. Head(migrated[h]).host \in Hosts /\ Head(migrated[h]).cell \in Cells /\ Head(migrated[h]).at \in Nat
    BY <1>8, <2>1, Zenon DEF TInv, TypeOK, Note
  <2>3. route' \in Place \union {None} /\ registers' \in [Hosts -> Seq(Entry)] /\ switches' \in Seq(Place)
    BY <1>8, <2>2, RerouteType, Zenon DEF TInv, TypeOK, notifyPlayerMigrated
  <2>4. migrated' \in [Hosts -> Seq(Note)]
    BY <1>8, <1>0 DEF TypeOK, notifyPlayerMigrated
  <2>5. /\ route' \in Place \union {None}
        /\ registers' \in [Hosts -> Seq(Entry)]
        /\ switches' \in Seq(Place)
    BY <1>8, <1>0, <2>3, Zenon DEF TypeOK
  <2>6. applied' \in Nat
    BY <1>8, <1>0, <2>2, Zenon DEF TypeOK, notifyPlayerMigrated, Hears
  <2>7. disordered' \in BOOLEAN
    BY <1>8, <1>0, Zenon DEF TypeOK, notifyPlayerMigrated, Hears
  <2>8. UNCHANGED <<owner, seat, moving, phase, gw, vcm, mesh, link, reg, tracked, toCoord,
       replay, evicted, late, clock, blips, lost>>
    BY <1>8, Zenon DEF notifyPlayerMigrated, world, stream, history
  <2>9. (moving # None => owner[moving.to] # Nobody)'
    BY <1>8, Zenon DEF TInv, TypeOK, notifyPlayerMigrated, world
  <2> QED
    BY <1>0, <2>4, <2>5, <2>6, <2>7, <2>8, <2>9, ZenonT(60) DEF TInv, TypeOK
<1>9. ASSUME NEW c \in Cells, NEW h \in Hosts, CommitMigrate(c, h) PROVE TInv'
  <2>1. Commit(c, c, h)
    BY <1>9, Zenon DEF TInv, TypeOK, CommitMigrate
  <2>2. owner' \in [Cells -> Hosts \union {Nobody}]
    BY <1>9, <1>0, Zenon DEF TypeOK, CommitMigrate
  <2>3. /\ vcm' \in [Hosts -> Entry \union {None}]
        /\ clock' \in Nat
        /\ applied' \in Nat
        /\ disordered' \in BOOLEAN
        /\ route' \in Place \union {None}
        /\ registers' \in [Hosts -> Seq(Entry)]
        /\ switches' \in Seq(Place)
    BY <1>9, <1>0, <2>1, CommitType, Zenon DEF TypeOK
  <2>4. UNCHANGED <<seat, moving, phase, gw, mesh, migrated, link, reg, tracked, toCoord,
       replay, evicted, late, blips, lost>>
    BY <1>9, Zenon DEF CommitMigrate, Commit, world, stream, history
  <2>5. (moving # None => owner[moving.to] # Nobody)'
    BY <1>9, Zenon DEF TInv, TypeOK, CommitMigrate, Commit, world
  <2> QED
    BY <1>0, <2>2, <2>3, <2>4, <2>5, ZenonT(60) DEF TInv, TypeOK
<1>10. ASSUME NEW c \in Cells, NEW d \in Cells, NEW h \in Hosts, CommitReshape(c, d, h) PROVE TInv'
  <2>1. Commit(c, d, h)
    BY <1>10, Zenon DEF TInv, TypeOK, CommitReshape
  <2>2. /\ owner' \in [Cells -> Hosts \union {Nobody}]
        /\ seat' \in [Cells -> {"none", "active", "grace"}]
    BY <1>10, <1>0, Zenon DEF TypeOK, CommitReshape
  <2>3. /\ vcm' \in [Hosts -> Entry \union {None}]
        /\ clock' \in Nat
        /\ applied' \in Nat
        /\ disordered' \in BOOLEAN
        /\ route' \in Place \union {None}
        /\ registers' \in [Hosts -> Seq(Entry)]
        /\ switches' \in Seq(Place)
    BY <1>10, <1>0, <2>1, CommitType, Zenon DEF TypeOK
  <2>4. UNCHANGED <<moving, phase, gw, mesh, migrated, link, reg, tracked, toCoord, replay,
       evicted, late, blips, lost>>
    BY <1>10, Zenon DEF CommitReshape, Commit, world, stream, history
  <2>5. (moving # None => owner[moving.to] # Nobody)'
    BY <1>10, Zenon DEF TInv, TypeOK, CommitReshape, Commit, world
  <2> QED
    BY <1>0, <2>2, <2>3, <2>4, <2>5, ZenonT(60) DEF TInv, TypeOK
<1>11. CASE ReadAnnounce
  <2>1. Head(toCoord) \in Message /\ HandleSessionAnnounce(Head(toCoord))
    BY <1>11 DEF TInv, TypeOK, ReadAnnounce
  <2>2. /\ route' \in Place \union {None}
        /\ tracked' \in BOOLEAN
        /\ applied' \in Nat
        /\ disordered' \in BOOLEAN
    BY <1>11, <1>0, <2>1, HandleAnnounceType, Zenon DEF TypeOK
  <2>3. toCoord' \in Seq(Message)
    BY <1>11, <1>0 DEF TypeOK, ReadAnnounce
  <2>4. UNCHANGED <<owner, seat, moving, phase, gw, vcm, mesh, migrated, registers, link, reg,
       switches, replay, evicted, late, clock, blips, lost>>
    BY <1>11, Zenon DEF ReadAnnounce, world, stream, history
  <2>5. (moving # None => owner[moving.to] # Nobody)'
    BY <1>11, Zenon DEF TInv, TypeOK, ReadAnnounce, world
  <2> QED
    BY <1>0, <2>2, <2>3, <2>4, <2>5, Zenon DEF TInv, TypeOK
<1>12. CASE StreamBreaks
  <2>1. blips' \in 0..MaxBlips
    BY <1>12, <1>0 DEF TypeOK, StreamBreaks, Blips
  <2>2. /\ link' \in {"up", "torn", "down"}
        /\ switches' \in Seq(Place)
        /\ replay' \in Place \union {None}
    BY <1>12, <1>0 DEF TypeOK, StreamBreaks
  <2>3. UNCHANGED <<owner, seat, moving, phase, gw, route, vcm, mesh, migrated, registers, reg,
       tracked, toCoord, evicted, late, clock, applied, disordered, lost>>
    BY <1>12, Zenon DEF StreamBreaks, world, stream, history
  <2>4. (moving # None => owner[moving.to] # Nobody)'
    BY <1>12, Zenon DEF TInv, TypeOK, StreamBreaks, world
  <2> QED
    BY <1>0, <2>1, <2>2, <2>3, <2>4, ZenonT(60) DEF TInv, TypeOK
<1>13. CASE StreamCloses
  <2>1. link' \in {"up", "torn", "down"}
    BY <1>13, <1>0, Zenon DEF TypeOK, StreamCloses
  <2>2. toCoord' \in Seq(Message)
    BY <1>13, <1>0 DEF TypeOK, StreamCloses
  <2>3. reg' \in {"live", "dead", "lapsed", "gone"}
    BY <1>13, <1>0, Zenon DEF TypeOK, StreamCloses
  <2>4. route' \in Place \union {None}
    BY <1>13, <1>0, Zenon DEF TypeOK, StreamCloses
  <2>5. tracked' \in BOOLEAN
    BY <1>13, <1>0, Zenon DEF TypeOK, StreamCloses
  <2>6. UNCHANGED <<owner, seat, moving, phase, gw, vcm, mesh, migrated, registers, switches,
       replay, evicted, late, clock, applied, disordered, blips, lost>>
    BY <1>13, Zenon DEF StreamCloses, world, stream, history
  <2>7. (moving # None => owner[moving.to] # Nobody)'
    BY <1>13, Zenon DEF TInv, TypeOK, StreamCloses, world
  <2> QED
    BY <1>0, <2>1, <2>2, <2>3, <2>4, <2>5, <2>6, <2>7, Zenon DEF TInv, TypeOK
<1>14. CASE runConnection
  <2>1. /\ link' \in {"up", "torn", "down"}
        /\ reg' \in {"live", "dead", "lapsed", "gone"}
    BY <1>14, <1>0, Zenon DEF TypeOK, runConnection
  <2>2. tracked' \in BOOLEAN
    BY <1>14, <1>0, Zenon DEF TypeOK, runConnection
  <2>3. replay' \in Place \union {None}
    BY <1>14, <1>0, Zenon DEF TypeOK, runConnection
  <2>4. /\ toCoord' \in Seq(Message)
        /\ late' \in Seq(Message)
    BY <1>14, <1>0 DEF TypeOK, runConnection
  <2>5. evicted' \in BOOLEAN
    BY <1>14, <1>0, Zenon DEF TypeOK, runConnection
  <2>6. UNCHANGED <<owner, seat, moving, phase, gw, route, vcm, mesh, migrated, registers,
       switches, clock, applied, disordered, blips, lost>>
    BY <1>14, Zenon DEF runConnection, world, stream, history
  <2>7. (moving # None => owner[moving.to] # Nobody)'
    BY <1>14, Zenon DEF TInv, TypeOK, runConnection, world
  <2> QED
    BY <1>0, <2>1, <2>2, <2>3, <2>4, <2>5, <2>6, <2>7, Zenon DEF TInv, TypeOK
<1>15. CASE reannounceSessions
  <2>1. replay \in Place
    BY <1>15, Zenon DEF TInv, TypeOK, reannounceSessions
  <2>2. announceSession(replay, clock) \in Message
    BY <1>15, <2>1, AnnounceType, Zenon DEF TInv, TypeOK
  <2>3. toCoord' \in Seq(Message)
    BY <1>15, <1>0, <2>2 DEF TypeOK, reannounceSessions
  <2>4. replay' \in Place \union {None}
    BY <1>15, <1>0, Zenon DEF TypeOK, reannounceSessions
  <2>5. UNCHANGED <<owner, seat, moving, phase, gw, route, vcm, mesh, migrated, registers,
       link, reg, tracked, switches, evicted, late, clock, applied, disordered, blips, lost>>
    BY <1>15, Zenon DEF reannounceSessions, world, stream, history
  <2>6. (moving # None => owner[moving.to] # Nobody)'
    BY <1>15, Zenon DEF TInv, TypeOK, reannounceSessions, world
  <2> QED
    BY <1>0, <2>3, <2>4, <2>5, <2>6, ZenonT(60) DEF TInv, TypeOK
<1>16. CASE EvictedReads
  <2>1. Head(late) \in Message /\ HandleSessionAnnounce(Head(late))
    BY <1>16 DEF TInv, TypeOK, EvictedReads
  <2>2. /\ route' \in Place \union {None}
        /\ tracked' \in BOOLEAN
        /\ applied' \in Nat
        /\ disordered' \in BOOLEAN
    BY <1>16, <1>0, <2>1, HandleAnnounceType, Zenon DEF TypeOK
  <2>3. late' \in Seq(Message)
    BY <1>16, <1>0 DEF TypeOK, EvictedReads
  <2>4. UNCHANGED <<owner, seat, moving, phase, gw, vcm, mesh, migrated, registers, link, reg,
       toCoord, switches, replay, evicted, clock, blips, lost>>
    BY <1>16, Zenon DEF EvictedReads, world, stream, history
  <2>5. (moving # None => owner[moving.to] # Nobody)'
    BY <1>16, Zenon DEF TInv, TypeOK, EvictedReads, world
  <2> QED
    BY <1>0, <2>2, <2>3, <2>4, <2>5, Zenon DEF TInv, TypeOK
<1>17. CASE EvictedReturns
  <2>1. evicted' \in BOOLEAN
    BY <1>17, <1>0, Zenon DEF TypeOK, EvictedReturns, releaseGatewayStream
  <2>2. late' \in Seq(Message)
    BY <1>17, <1>0 DEF TypeOK, EvictedReturns, releaseGatewayStream
  <2>3. /\ route' \in Place \union {None}
        /\ reg' \in {"live", "dead", "lapsed", "gone"}
        /\ tracked' \in BOOLEAN
    BY <1>17, <1>0, Zenon DEF TypeOK, EvictedReturns, releaseGatewayStream
  <2>4. UNCHANGED <<owner, seat, moving, phase, gw, vcm, mesh, migrated, registers, link,
       toCoord, switches, replay, clock, applied, disordered, blips, lost>>
    BY <1>17, Zenon DEF EvictedReturns, releaseGatewayStream, world, stream, history
  <2>5. (moving # None => owner[moving.to] # Nobody)'
    BY <1>17, Zenon DEF TInv, TypeOK, EvictedReturns, releaseGatewayStream, world
  <2> QED
    BY <1>0, <2>1, <2>2, <2>3, <2>4, <2>5, Zenon DEF TInv, TypeOK
<1>18. CASE checkGatewayLiveness
  <2>1. blips' \in 0..MaxBlips
    BY <1>18, <1>0 DEF TypeOK, checkGatewayLiveness, Blips
  <2>2. /\ reg' \in {"live", "dead", "lapsed", "gone"}
        /\ route' \in Place \union {None}
    BY <1>18, <1>0, Zenon DEF TypeOK, checkGatewayLiveness
  <2>3. UNCHANGED <<owner, seat, moving, phase, gw, vcm, mesh, migrated, registers, link,
       tracked, toCoord, switches, replay, evicted, late, clock, applied, disordered, lost>>
    BY <1>18, Zenon DEF checkGatewayLiveness, world, stream, history
  <2>4. (moving # None => owner[moving.to] # Nobody)'
    BY <1>18, Zenon DEF TInv, TypeOK, checkGatewayLiveness, world
  <2> QED
    BY <1>0, <2>1, <2>2, <2>3, <2>4, ZenonT(60) DEF TInv, TypeOK
<1>19. CASE CoordinatorRestarts
  <2>1. blips' \in 0..MaxBlips
    BY <1>19, <1>0 DEF TypeOK, CoordinatorRestarts, Blips
  <2>2. /\ route' \in Place \union {None}
        /\ link' \in {"up", "torn", "down"}
        /\ reg' \in {"live", "dead", "lapsed", "gone"}
        /\ toCoord' \in Seq(Message)
        /\ switches' \in Seq(Place)
        /\ replay' \in Place \union {None}
        /\ late' \in Seq(Message)
    BY <1>19, <1>0 DEF TypeOK, CoordinatorRestarts
  <2>3. tracked' \in BOOLEAN
    BY <1>19, <1>0, Zenon DEF TypeOK, CoordinatorRestarts
  <2>4. evicted' \in BOOLEAN
    BY <1>19, <1>0, Zenon DEF TypeOK, CoordinatorRestarts
  <2>5. /\ migrated' \in [Hosts -> Seq(Note)]
        /\ registers' \in [Hosts -> Seq(Entry)]
    BY <1>19, <1>0 DEF TypeOK, CoordinatorRestarts
  <2>6. UNCHANGED <<owner, seat, moving, phase, gw, vcm, mesh, clock, applied, disordered, lost>>
    BY <1>19, Zenon DEF CoordinatorRestarts, world, stream, history
  <2>7. (moving # None => owner[moving.to] # Nobody)'
    BY <1>19, Zenon DEF TInv, TypeOK, CoordinatorRestarts, world
  <2> QED
    BY <1>0, <2>1, <2>2, <2>3, <2>4, <2>5, <2>6, <2>7, Zenon DEF TInv, TypeOK
<1>20. CASE UNCHANGED vars
  BY <1>20 DEF TInv, TypeOK, vars, world, stream, history
<1> QED
  BY <1>1, <1>2, <1>3, <1>4, <1>5, <1>6, <1>7, <1>8, <1>9, <1>10, <1>11, <1>12, <1>13,
     <1>14, <1>15, <1>16, <1>17, <1>18, <1>19, <1>20, Zenon DEF Next

-----------------------------------------------------------------------------
(* Sequences: what is in a queue after a send or a receive. *)
LEMMA TailFacts ==
  ASSUME NEW S, NEW q \in Seq(S), q # <<>>
  PROVE  /\ Tail(q) \in Seq(S) /\ Head(q) = q[1] /\ 1 \in 1..Len(q)
         /\ \A i \in 1..Len(Tail(q)) : i + 1 \in 1..Len(q) /\ Tail(q)[i] = q[i + 1]
  OBVIOUS

LEMMA AppendFacts ==
  ASSUME NEW S, NEW q \in Seq(S), NEW m \in S
  PROVE  /\ Append(q, m) \in Seq(S) /\ Len(Append(q, m)) = Len(q) + 1
         /\ \A i \in 1..Len(Append(q, m)) : (i \in 1..Len(q) /\ Append(q, m)[i] = q[i])
                                            \/ (i = Len(q) + 1 /\ Append(q, m)[i] = m)
         /\ \A i \in 1..Len(q) : i \in 1..Len(Append(q, m)) /\ Append(q, m)[i] = q[i]
         /\ Len(q) + 1 \in 1..Len(Append(q, m)) /\ Append(q, m)[Len(q) + 1] = m
  OBVIOUS

LEMMA SInvStep == TInv /\ SInv /\ [Next]_vars => SInv'
<1> SUFFICES ASSUME TInv, SInv, [Next]_vars PROVE SInv'
  BY Zenon
<1>0. toCoord \in Seq(Message) /\ late \in Seq(Message)
  BY Zenon DEF TInv, TypeOK
<1>1. ASSUME NEW c \in Cells, dispatchPostAuthAssignment(c) PROVE SInv'
  <2> DEFINE m == announceSession([host |-> owner[c], cell |-> c, epoch |-> 1], 1)
  <2>1. m.kind = "announce" /\ m \in Message
    BY <1>1, AnnounceType, Zenon DEF announceSession, TInv, TypeOK, dispatchPostAuthAssignment, Place
  <2>2. toCoord' = toCoord \/ toCoord' = Append(toCoord, m)
    BY <1>1, Zenon DEF dispatchPostAuthAssignment, Sent
  <2>3. phase = "new" /\ late' = late /\ (phase' # "open" => gw' = None)
    BY <1>1, Zenon DEF dispatchPostAuthAssignment
  <2> HIDE DEF m
  <2> QED
    BY <1>0, <2>1, <2>2, <2>3, AppendFacts DEF SInv
<1>2. CASE handleDisconnect
  BY <1>2, Zenon DEF SInv, handleDisconnect
<1>3. CASE OnUpstreamSwitch
  BY <1>3, Zenon DEF SInv, OnUpstreamSwitch
<1>4. CASE ReadAnnounce
  BY <1>0, <1>4, TailFacts, Zenon DEF SInv, ReadAnnounce
<1>5. CASE StreamCloses
  BY <1>5 DEF SInv, StreamCloses
<1>6. CASE runConnection
  BY <1>6 DEF SInv, runConnection
<1>7. CASE reannounceSessions
  <2> DEFINE m == announceSession(replay, clock)
  <2>1. m.kind = "announce" /\ m \in Message
    BY <1>7, AnnounceType, Zenon DEF announceSession, TInv, TypeOK, reannounceSessions
  <2>2. toCoord' = Append(toCoord, m) /\ UNCHANGED <<phase, gw, late>>
    BY <1>7, Zenon DEF reannounceSessions
  <2> HIDE DEF m
  <2> QED
    BY <1>0, <2>1, <2>2, AppendFacts DEF SInv
<1>8. CASE EvictedReads
  BY <1>0, <1>8, TailFacts, Zenon DEF SInv, EvictedReads
<1>9. CASE EvictedReturns
  BY <1>9 DEF SInv, EvictedReturns, releaseGatewayStream
<1>10. CASE CoordinatorRestarts
  BY <1>10 DEF SInv, CoordinatorRestarts
<1>11. CASE UNCHANGED <<phase, gw, toCoord, late>>
  BY <1>11, Zenon DEF SInv
<1>12. CASE \/ \E h \in Hosts : routeInboundFrame(h) \/ HandleSessionRegister(h) \/ notifyPlayerMigrated(h)
            \/ \E c, d \in Cells : AcceptHandoff(c, d)
            \/ OnPlayerTransfer \/ StreamBreaks \/ checkGatewayLiveness
            \/ \E c \in Cells, h \in Hosts : CommitMigrate(c, h)
            \/ \E c, d \in Cells, h \in Hosts : CommitReshape(c, d, h)
  <2>1. UNCHANGED <<phase, gw, toCoord, late>>
    BY <1>12, Zenon DEF routeInboundFrame, HandleSessionRegister, notifyPlayerMigrated, AcceptHandoff,
       OnPlayerTransfer, StreamBreaks, checkGatewayLiveness, CommitMigrate, CommitReshape, Commit,
       stream
  <2> QED
    BY <2>1, <1>11, Zenon
<1>13. CASE UNCHANGED vars
  BY <1>11, <1>13, Zenon DEF vars, stream
<1> QED
  BY <1>1, <1>2, <1>3, <1>4, <1>5, <1>6, <1>7, <1>8, <1>9, <1>10, <1>12, <1>13, Zenon DEF Next

LEMMA ElementType ==
  ASSUME NEW S, NEW q \in Seq(S), NEW i \in 1..Len(q)
  PROVE  q[i] \in S
  OBVIOUS

(* A new epoch is above every epoch at large, and goes out with its place. *)
LEMMA RerouteEpoch ==
  ASSUME TypeOK, EpochNamesRoute, NEW h \in Hosts, NEW c \in Cells,
         route # None, Reroute(h, c), blips = 0, UNCHANGED <<gw, blips>>
  PROVE  EpochNamesRoute'
<1> DEFINE r == Migrate(route, h, c)
<1>1. r \in Place /\ r.epoch = route.epoch + 1 /\ r.host = h /\ r.cell = c /\ route.epoch \in Nat
  BY DEF TypeOK, Migrate, Place
<1>2. route' = r /\ switches' = Sent(switches, r)
      /\ registers' = [registers EXCEPT ![h] = Append(@, [epoch |-> r.epoch, cell |-> c])]
  BY Zenon DEF Reroute
<1>3. [host |-> h, cell |-> c, epoch |-> r.epoch] = r
  BY <1>1, Zenon DEF Migrate
<1>4. [epoch |-> r.epoch, cell |-> c] \in Entry
  BY <1>1, Zenon DEF Entry, Place
<1> HIDE DEF r
<1>5. gw' # None => gw'.epoch < r.epoch
  <2> SUFFICES ASSUME gw # None PROVE gw.epoch < r.epoch
    BY Zenon
  <2>1. gw.epoch \in Nat
    BY Zenon DEF TypeOK, Place
  <2> QED
    BY <2>1, <1>1 DEF EpochNamesRoute
<1>6. ASSUME NEW i \in 1..Len(switches') PROVE switches'[i].epoch < r.epoch \/ switches'[i] = r
  <2>1. switches \in Seq(Place)
    BY Zenon DEF TypeOK
  <2>2. \A j \in 1..Len(switches) : switches[j].epoch \in Nat
    <3>1. \A j \in 1..Len(switches) : switches[j] \in Place
      BY <2>1, ElementType, Zenon
    <3> QED
      BY <3>1, Zenon DEF Place
  <2>3. \A j \in 1..Len(switches) : switches[j].epoch < r.epoch
    BY <2>2, <1>1 DEF EpochNamesRoute
  <2>4. switches' = switches \/ switches' = Append(switches, r)
    BY <1>2, Zenon DEF Sent
  <2> QED
    BY <1>1, <2>1, <2>3, <2>4, AppendFacts
<1>7. ASSUME NEW g \in Hosts, NEW i \in 1..Len(registers'[g])
      PROVE  \/ registers'[g][i].epoch < r.epoch
             \/ [host |-> g, cell |-> registers'[g][i].cell, epoch |-> registers'[g][i].epoch] = r
  <2>1. registers[g] \in Seq(Entry)
    BY Zenon DEF TypeOK
  <2>2. \A j \in 1..Len(registers[g]) : registers[g][j].epoch \in Nat
    <3>1. \A j \in 1..Len(registers[g]) : registers[g][j] \in Entry
      BY <2>1, ElementType, Zenon
    <3> QED
      BY <3>1, Zenon DEF Entry
  <2>3. \A j \in 1..Len(registers[g]) : registers[g][j].epoch < r.epoch
    BY <2>2, <1>1 DEF EpochNamesRoute
  <2>4. CASE g # h
    <3>1. registers'[g] = registers[g]
      BY <2>4, <1>2, Zenon DEF TypeOK
    <3> QED
      BY <2>3, <3>1, Zenon
  <2>5. CASE g = h
    <3>1. registers'[g] = Append(registers[g], [epoch |-> r.epoch, cell |-> c])
      BY <2>5, <1>2, Zenon DEF TypeOK
    <3>2. CASE i \in 1..Len(registers[g]) /\ registers'[g][i] = registers[g][i]
      BY <3>2, <2>3, Zenon
    <3>3. CASE registers'[g][i] = [epoch |-> r.epoch, cell |-> c]
      BY <3>3, <2>5, <1>3
    <3> QED
      BY <3>1, <3>2, <3>3, <2>1, <1>4, AppendFacts
  <2> QED
    BY <2>4, <2>5, Zenon
<1> QED
  BY <1>2, <1>5, <1>6, <1>7, Zenon DEF EpochNamesRoute

(* A step that leaves the routes and what was sent of them alone. *)
LEMMA EInvUnchanged ==
  ASSUME EInv, UNCHANGED <<blips, link, evicted, replay, phase, toCoord, route, switches, registers, gw>>
  PROVE  EInv'
  BY Zenon DEF EInv, EpochNamesRoute, Unrouted

(* A Reroute finds a route, so the login's announcement has been read. *)
LEMMA EInvReroute ==
  ASSUME TInv, SInv, EInv, NEW h \in Hosts, NEW c \in Cells, route # None, Reroute(h, c),
         UNCHANGED <<blips, link, evicted, replay, phase, toCoord, gw>>
  PROVE  EInv'
<1> SUFFICES ASSUME blips = 0
             PROVE  /\ (link = "up" /\ ~evicted /\ replay = None)'
                    /\ (phase = "new" => toCoord = <<>> /\ Unrouted)'
                    /\ \A i \in 1..Len(toCoord) : toCoord[i].kind # "announce"
                    /\ EpochNamesRoute'
  BY Zenon DEF EInv
<1>1. EpochNamesRoute'
  BY RerouteEpoch, Zenon DEF EInv, TInv
<1>2. phase # "new"
  BY Zenon DEF EInv, Unrouted
<1>3. \A i \in 1..Len(toCoord) : toCoord[i].kind # "announce"
  BY Zenon DEF EInv, Unrouted
<1> QED
  BY <1>1, <1>2, <1>3, Zenon DEF EInv

LEMMA EInvStep == TInv /\ SInv /\ EInv /\ [Next]_vars => EInv'
<1> SUFFICES ASSUME TInv, SInv, EInv, [Next]_vars PROVE EInv'
  BY Zenon
<1>0. TypeOK /\ blips \in Nat /\ toCoord \in Seq(Message)
  BY RoutesAssumption DEF TInv, TypeOK
<1>1. ASSUME NEW c \in Cells, dispatchPostAuthAssignment(c) PROVE EInv'
  <2> SUFFICES ASSUME blips = 0 PROVE EInv'
    BY <1>1, Zenon DEF EInv, dispatchPostAuthAssignment
  <2> DEFINE s == [host |-> owner[c], cell |-> c, epoch |-> 1]
             m == announceSession(s, 1)
  <2>1. phase = "new" /\ toCoord = <<>> /\ Unrouted /\ link = "up"
    BY <1>1, Zenon DEF EInv, dispatchPostAuthAssignment
  <2>2. toCoord' = <<m>> /\ (gw' = s \/ gw' = None) /\ phase' # "new"
        /\ UNCHANGED <<blips, link, evicted, replay, route, switches, registers>>
    BY <1>1, <2>1 DEF dispatchPostAuthAssignment, Sent
  <2>3. m.host = s.host /\ m.cell = s.cell /\ s = [host |-> m.host, cell |-> m.cell, epoch |-> 1]
    BY Zenon DEF announceSession
  <2>4. Unrouted' /\ route' = None
    BY <2>1, <2>2, Zenon DEF Unrouted
  <2> HIDE DEF m, s
  <2>5. \A i \in 1..Len(toCoord') : i = 1 /\ toCoord'[i] = m
    BY <2>2
  <2> QED
    BY <2>2, <2>3, <2>4, <2>5, Zenon DEF EInv, EpochNamesRoute
<1>2. CASE handleDisconnect
  <2> SUFFICES ASSUME blips = 0 PROVE EInv'
    BY <1>2, Zenon DEF EInv, handleDisconnect
  <2> DEFINE m == [kind |-> "tombstone"]
  <2>1. m \in Message /\ m.kind # "announce"
    BY Zenon DEF Message
  <2>2. toCoord' = toCoord \/ toCoord' = Append(toCoord, m)
    BY <1>2, Zenon DEF handleDisconnect, Sent
  <2>3. gw' = None /\ phase' = "closed"
        /\ UNCHANGED <<blips, link, evicted, replay, route, switches, registers>>
    BY <1>2, Zenon DEF handleDisconnect
  <2> HIDE DEF m
  <2>4. ASSUME NEW i \in 1..Len(toCoord'), toCoord'[i].kind = "announce" PROVE i = 1 /\ Unrouted
    BY <1>0, <2>1, <2>2, <2>4, AppendFacts DEF EInv
  <2>5. EpochNamesRoute'
    BY <2>3, Zenon DEF EInv, EpochNamesRoute
  <2> QED
    BY <2>3, <2>4, <2>5, Zenon DEF EInv, Unrouted
<1>3. CASE OnUpstreamSwitch
  <2> SUFFICES ASSUME blips = 0 PROVE EInv'
    BY <1>3, Zenon DEF EInv, OnUpstreamSwitch
  <2>1. switches # <<>> /\ switches \in Seq(Place) /\ switches' = Tail(switches)
        /\ gw' = (IF gw = None THEN None ELSE Head(switches))
        /\ UNCHANGED <<blips, link, evicted, replay, phase, toCoord, route, registers>>
    BY <1>3, <1>0, Zenon DEF OnUpstreamSwitch, TypeOK
  <2>2. phase # "new" /\ \A i \in 1..Len(toCoord) : toCoord[i].kind # "announce"
    BY <2>1, Zenon DEF EInv, Unrouted
  <2>3. EpochNamesRoute'
    BY <2>1, TailFacts DEF EInv, EpochNamesRoute
  <2> QED
    BY <2>1, <2>2, <2>3, Zenon DEF EInv
<1>4. ASSUME NEW h \in Hosts, routeInboundFrame(h) PROVE EInv'
  BY <1>4, EInvUnchanged, Zenon DEF routeInboundFrame, stream
<1>5. ASSUME NEW c \in Cells, NEW d \in Cells, AcceptHandoff(c, d) PROVE EInv'
  BY <1>5, EInvUnchanged, Zenon DEF AcceptHandoff, stream
<1>6. CASE OnPlayerTransfer
  BY <1>6, EInvUnchanged, Zenon DEF OnPlayerTransfer, stream
<1>7. ASSUME NEW h \in Hosts, HandleSessionRegister(h) PROVE EInv'
  <2> SUFFICES ASSUME blips = 0 PROVE EInv'
    BY <1>7, Zenon DEF EInv, HandleSessionRegister
  <2>1. registers[h] # <<>> /\ registers[h] \in Seq(Entry)
        /\ registers' = [registers EXCEPT ![h] = Tail(@)]
        /\ UNCHANGED <<blips, link, evicted, replay, phase, toCoord, route, switches, gw>>
    BY <1>7, <1>0, Zenon DEF HandleSessionRegister, TypeOK, stream
  <2>2. phase # "new" /\ \A i \in 1..Len(toCoord) : toCoord[i].kind # "announce"
    BY <2>1, Zenon DEF EInv, Unrouted
  <2>3. registers'[h] = Tail(registers[h]) /\ \A g \in Hosts : g # h => registers'[g] = registers[g]
    BY <2>1, <1>0, Zenon DEF TypeOK
  <2>4. \A g \in Hosts : \A i \in 1..Len(registers'[g]) :
           \E j \in 1..Len(registers[g]) : registers'[g][i] = registers[g][j]
    BY <2>1, <2>3, TailFacts
  <2>5. EpochNamesRoute'
    BY <2>1, <2>4 DEF EInv, EpochNamesRoute
  <2> QED
    BY <2>1, <2>2, <2>5, Zenon DEF EInv
<1>8. ASSUME NEW h \in Hosts, notifyPlayerMigrated(h) PROVE EInv'
  <2> DEFINE m == Head(migrated[h])
  <2>1. m \in Note
    BY <1>8, <1>0 DEF notifyPlayerMigrated, TypeOK
  <2>2. m.host \in Hosts /\ m.cell \in Cells
    BY <2>1, Zenon DEF Note
  <2>3. UNCHANGED <<blips, link, evicted, replay, phase, toCoord, gw>>
    BY <1>8, Zenon DEF notifyPlayerMigrated
  <2>4. CASE route # None /\ Reroute(m.host, m.cell)
    BY <2>2, <2>3, <2>4, EInvReroute, Zenon
  <2>5. CASE UNCHANGED <<route, registers, switches>>
    BY <2>3, <2>5, EInvUnchanged, Zenon
  <2> QED
    BY <1>8, <2>4, <2>5, Zenon DEF notifyPlayerMigrated
<1>9. ASSUME NEW c \in Cells, NEW d \in Cells, NEW h \in Hosts, Commit(c, d, h) PROVE EInv'
  <2>1. UNCHANGED <<blips, link, evicted, replay, phase, toCoord, gw>>
    BY <1>9, Zenon DEF Commit
  <2>2. CASE route # None /\ Reroute(h, d)
    BY <2>1, <2>2, EInvReroute, Zenon
  <2>3. CASE UNCHANGED <<route, registers, switches>>
    BY <2>1, <2>3, EInvUnchanged, Zenon
  <2> QED
    BY <1>9, <2>2, <2>3, Zenon DEF Commit
<1>10. CASE ReadAnnounce
  <2> SUFFICES ASSUME blips = 0 PROVE EInv'
    BY <1>10, Zenon DEF EInv, ReadAnnounce
  <2> DEFINE m == Head(toCoord)
  <2>1. toCoord # <<>> /\ toCoord' = Tail(toCoord) /\ HandleSessionAnnounce(m) /\ m = toCoord[1]
        /\ 1 \in 1..Len(toCoord)
        /\ UNCHANGED <<blips, link, evicted, replay, phase, switches, registers, gw>>
    BY <1>10, <1>0, TailFacts, Zenon DEF ReadAnnounce
  <2>2. \A i \in 1..Len(toCoord') : toCoord'[i].kind # "announce"
    <3> SUFFICES ASSUME NEW i \in 1..Len(toCoord'), toCoord'[i].kind = "announce" PROVE FALSE
      BY Zenon
    <3>1. i + 1 \in 1..Len(toCoord) /\ toCoord[i + 1].kind = "announce" /\ i + 1 # 1
      BY <1>0, <2>1, TailFacts
    <3> QED
      BY <3>1, Zenon DEF EInv
  <2>3. phase # "new"
    BY <2>1, Zenon DEF EInv
  <2>4. CASE m.kind = "announce"
    <3>1. route' = [host |-> m.host, cell |-> m.cell, epoch |-> 1]
      BY <2>1, <2>4, Zenon DEF HandleSessionAnnounce
    <3>2. Unrouted /\ (gw # None => gw = route')
      BY <2>1, <2>4, <3>1, Zenon DEF EInv
    <3>3. EpochNamesRoute'
      BY <2>1, <3>2 DEF EpochNamesRoute, Unrouted
    <3> QED
      BY <2>1, <2>2, <2>3, <3>3, Zenon DEF EInv
  <2>5. CASE m.kind = "tombstone"
    <3>1. route' = None
      BY <2>1, <2>5, Zenon DEF HandleSessionAnnounce
    <3> QED
      BY <2>1, <2>2, <2>3, <3>1, Zenon DEF EInv, EpochNamesRoute
  <2> QED
    BY <2>1, <2>4, <2>5, Zenon DEF HandleSessionAnnounce
<1>11. CASE StreamBreaks \/ checkGatewayLiveness \/ CoordinatorRestarts
  <2>1. blips' = blips + 1
    BY <1>11, Zenon DEF StreamBreaks, checkGatewayLiveness, CoordinatorRestarts, Blips
  <2> QED
    BY <1>0, <2>1 DEF EInv
<1>12. CASE StreamCloses \/ runConnection \/ reannounceSessions \/ EvictedReads \/ EvictedReturns
  <2>1. blips' = blips /\ (link # "up" \/ replay # None \/ evicted)
    BY <1>12, Zenon DEF StreamCloses, runConnection, reannounceSessions, EvictedReads, EvictedReturns,
       releaseGatewayStream
  <2> QED
    BY <2>1, Zenon DEF EInv
<1>13. CASE UNCHANGED vars
  BY <1>13, EInvUnchanged, Zenon DEF vars, stream
<1> QED
  BY <1>1, <1>2, <1>3, <1>4, <1>5, <1>6, <1>7, <1>8, <1>9, <1>10, <1>11, <1>12, <1>13
    , Zenon DEF Next, CommitMigrate, CommitReshape

(* The route of an announced session is a place, so it is there. *)
LEMMA AnnouncedRoute ==
  ASSUME NEW m \in Message, m.kind = "announce", HandleSessionAnnounce(m)
  PROVE  route' # None
<1>1. m.host \in Hosts /\ m.cell \in Cells
  BY Zenon DEF Message
<1>2. route' \in Place
  BY <1>1 DEF HandleSessionAnnounce, Place
<1> QED
  BY <1>2, NoneIsNoPlace, Zenon

LEMMA KInvStep == TInv /\ SInv /\ KInv /\ [Next]_vars => KInv'
<1> SUFFICES ASSUME TInv, SInv, KInv, [Next]_vars PROVE KInv'
  BY Zenon
<1>0. TypeOK /\ toCoord \in Seq(Message) /\ late \in Seq(Message)
  BY Zenon DEF TInv, TypeOK
<1>1. ASSUME NEW c \in Cells, dispatchPostAuthAssignment(c) PROVE KInv'
  <2> DEFINE m == announceSession([host |-> owner[c], cell |-> c, epoch |-> 1], 1)
  <2>1. m.kind = "announce" /\ m \in Message
    BY <1>1, <1>0, AnnounceType, Zenon DEF announceSession, TypeOK, dispatchPostAuthAssignment, Place
  <2>2. link' = link /\ (link = "up" => toCoord' = Append(toCoord, m))
    BY <1>1, Zenon DEF dispatchPostAuthAssignment, Sent
  <2> HIDE DEF m
  <2> QED
    BY <1>0, <2>1, <2>2, AppendFacts DEF KInv
<1>2. CASE handleDisconnect
  BY <1>2, Zenon DEF KInv, handleDisconnect
<1>3. CASE OnUpstreamSwitch
  BY <1>3, Zenon DEF KInv, OnUpstreamSwitch
<1>4. ASSUME route' # None, UNCHANGED <<link, reg, gw, replay, toCoord>> PROVE KInv'
  BY <1>4, Zenon DEF KInv
<1>5. CASE UNCHANGED <<link, reg, gw, replay, toCoord, route>>
  BY <1>5, Zenon DEF KInv
<1>6. ASSUME NEW h \in Hosts, NEW c \in Cells, Reroute(h, c), route # None,
             UNCHANGED <<link, reg, gw, replay, toCoord>>
      PROVE  KInv'
  BY <1>0, <1>4, <1>6, RerouteType, NoneIsNoPlace, Zenon
<1>7. ASSUME NEW h \in Hosts, notifyPlayerMigrated(h) PROVE KInv'
  <2>1. Head(migrated[h]) \in Note
    BY <1>7, <1>0 DEF notifyPlayerMigrated, TypeOK
  <2>2. Head(migrated[h]).host \in Hosts /\ Head(migrated[h]).cell \in Cells
    BY <2>1, Zenon DEF Note
  <2> QED
    BY <1>5, <1>6, <1>7, <2>2, Zenon DEF notifyPlayerMigrated
<1>8. ASSUME NEW c \in Cells, NEW d \in Cells, NEW h \in Hosts, Commit(c, d, h) PROVE KInv'
  BY <1>5, <1>6, <1>8, Zenon DEF Commit
<1>9. CASE ReadAnnounce
  <2> DEFINE m == Head(toCoord)
  <2>1. toCoord # <<>> /\ toCoord' = Tail(toCoord) /\ HandleSessionAnnounce(m) /\ m = toCoord[1]
        /\ 1 \in 1..Len(toCoord) /\ m \in Message
        /\ UNCHANGED <<link, reg, gw, phase, replay>>
    BY <1>9, <1>0, TailFacts, ElementType, ZenonT(60) DEF ReadAnnounce
  <2>2. CASE m.kind = "announce"
    BY <2>1, <2>2, AnnouncedRoute, Zenon DEF KInv
  <2>3. CASE m.kind = "tombstone"
    BY <2>1, <2>3, Zenon DEF KInv, SInv
  <2> QED
    BY <2>1, <2>2, <2>3, Zenon DEF HandleSessionAnnounce
<1>10. CASE EvictedReads
  <2> DEFINE m == Head(late)
  <2>1. HandleSessionAnnounce(m) /\ m = late[1] /\ 1 \in 1..Len(late) /\ m \in Message
        /\ UNCHANGED <<link, reg, gw, phase, replay, toCoord>>
    BY <1>10, <1>0, TailFacts, ElementType DEF EvictedReads
  <2>2. CASE m.kind = "announce"
    BY <2>1, <2>2, AnnouncedRoute, Zenon DEF KInv
  <2>3. CASE m.kind = "tombstone"
    BY <2>1, <2>3, Zenon DEF KInv, SInv
  <2> QED
    BY <2>1, <2>2, <2>3, Zenon DEF HandleSessionAnnounce
<1>11. CASE StreamBreaks \/ StreamCloses \/ CoordinatorRestarts
  BY <1>11, Zenon DEF KInv, StreamBreaks, StreamCloses, CoordinatorRestarts
<1>12. CASE runConnection
  BY <1>12, Zenon DEF KInv, runConnection
<1>13. CASE reannounceSessions
  <2> DEFINE m == announceSession(replay, clock)
  <2>1. m.kind = "announce" /\ m \in Message
    BY <1>13, <1>0, AnnounceType, Zenon DEF announceSession, TypeOK, reannounceSessions
  <2>2. toCoord' = Append(toCoord, m)
    BY <1>13, Zenon DEF reannounceSessions
  <2> HIDE DEF m
  <2> QED
    BY <1>0, <2>1, <2>2, AppendFacts DEF KInv
<1>14. CASE EvictedReturns
  BY <1>5, <1>14, Zenon DEF EvictedReturns, releaseGatewayStream
<1>15. CASE checkGatewayLiveness
  BY <1>15, Zenon DEF KInv, checkGatewayLiveness
<1>16. CASE \/ \E h \in Hosts : routeInboundFrame(h) \/ HandleSessionRegister(h)
            \/ \E c, d \in Cells : AcceptHandoff(c, d)
            \/ OnPlayerTransfer \/ UNCHANGED vars
  <2>1. UNCHANGED <<link, reg, gw, replay, toCoord, route>>
    BY <1>16, Zenon DEF routeInboundFrame, HandleSessionRegister, AcceptHandoff, OnPlayerTransfer, vars,
       stream
  <2> QED
    BY <1>5, <2>1, Zenon
<1> QED
  BY <1>1, <1>2, <1>3, <1>7, <1>8, <1>9, <1>10, <1>11, <1>12, <1>13, <1>14, <1>15, <1>16
    , Zenon DEF Next, CommitMigrate, CommitReshape

-----------------------------------------------------------------------------
(* The host that the gateway is led to                                     *)

(* The steps that are left while the gateway's stream has not blipped.     *)
CalmNext ==
    \/ \E c \in Cells : dispatchPostAuthAssignment(c)
    \/ handleDisconnect \/ OnUpstreamSwitch \/ ReadAnnounce \/ OnPlayerTransfer
    \/ \E h \in Hosts : routeInboundFrame(h) \/ HandleSessionRegister(h) \/ notifyPlayerMigrated(h)
    \/ \E c, d \in Cells : AcceptHandoff(c, d)
    \/ \E c \in Cells, h \in Hosts : CommitMigrate(c, h)
    \/ \E c, d \in Cells, h \in Hosts : CommitReshape(c, d, h)
    \/ UNCHANGED vars

LEMMA Calm ==
  ASSUME TInv, EInv, blips' = 0, [Next]_vars
  PROVE  blips = 0 /\ CalmNext
<1>0. blips \in Nat
  BY RoutesAssumption DEF TInv, TypeOK
<1>1. CASE StreamBreaks \/ checkGatewayLiveness \/ CoordinatorRestarts
  BY <1>0, <1>1 DEF StreamBreaks, checkGatewayLiveness, CoordinatorRestarts, Blips
<1>2. CASE StreamCloses \/ runConnection \/ reannounceSessions \/ EvictedReads \/ EvictedReturns
  <2>1. blips' = blips /\ (link # "up" \/ replay # None \/ evicted)
    BY <1>2, Zenon DEF StreamCloses, runConnection, reannounceSessions, EvictedReads, EvictedReturns,
       releaseGatewayStream
  <2> QED
    BY <2>1, Zenon DEF EInv
<1>3. CASE CalmNext
  <2>1. blips' = blips
    BY <1>3, Zenon DEF CalmNext, dispatchPostAuthAssignment, handleDisconnect, OnUpstreamSwitch, ReadAnnounce,
       OnPlayerTransfer, routeInboundFrame, HandleSessionRegister, notifyPlayerMigrated, AcceptHandoff,
       CommitMigrate, CommitReshape, Commit, vars
  <2> QED
    BY <1>3, <2>1, Zenon
<1>4. StreamBreaks \/ checkGatewayLiveness \/ CoordinatorRestarts \/ StreamCloses \/ runConnection
      \/ reannounceSessions \/ EvictedReads \/ EvictedReturns \/ CalmNext
  BY Zenon DEF Next, CalmNext
<1> QED
  BY <1>1, <1>2, <1>3, <1>4, Zenon

(* An open session has a route, or its announcement is all there is.       *)
LEMMA RouteOrAnnounce ==
  ASSUME TInv, SInv, EInv, KInv, HInv, blips = 0, gw # None
  PROVE  /\ phase = "open" /\ link = "up"
         /\ \A i \in 1..Len(toCoord) : toCoord[i].kind = "announce" /\ i = 1
         /\ route = None => Unrouted /\ toCoord # <<>>
         /\ route # None => toCoord = <<>>
<1>1. phase = "open" /\ link = "up" /\ replay = None /\ reg # "lapsed"
  BY Zenon DEF SInv, EInv, HInv, TInv, TypeOK
<1>2. toCoord \in Seq(Message)
  BY Zenon DEF TInv, TypeOK
<1>3. \A i \in 1..Len(toCoord) : toCoord[i].kind = "announce"
  <2>1. \A i \in 1..Len(toCoord) : toCoord[i] \in Message
    BY <1>2
  <2>2. \A i \in 1..Len(toCoord) : toCoord[i].kind # "tombstone"
    BY <1>1, Zenon DEF SInv
  <2> QED
    BY <2>1, <2>2, Zenon DEF Message
<1>4. \A i \in 1..Len(toCoord) : i = 1 /\ Unrouted
  BY <1>3, Zenon DEF EInv
<1>5. route = None => \E i \in 1..Len(toCoord) : toCoord[i].kind = "announce"
  BY <1>1, Zenon DEF KInv
<1>6. route = None => Unrouted /\ toCoord # <<>>
  BY <1>2, <1>4, <1>5
<1>7. route # None => toCoord = <<>>
  BY <1>2, <1>4 DEF Unrouted
<1> QED
  BY <1>1, <1>3, <1>4, <1>6, <1>7, Zenon

(* The current route of an open session is a place. *)
LEMMA CurrentPlace ==
  ASSUME TInv, gw # None
  PROVE  Current \in Place /\ Current.host \in Hosts /\ Current.cell \in Cells /\ Current.epoch \in Nat
<1>1. Current \in Place
  BY Zenon DEF TInv, TypeOK, Current
<1> QED
  BY <1>1, Zenon DEF Place

(* RegisterSession raises an entry's epoch no higher than the one it is given. *)
LEMMA RegisterEpoch ==
  ASSUME NEW e \in Entry \union {None}, NEW n \in Nat, NEW c \in Cells, NEW k \in Nat,
         n <= k, e # None => e.epoch <= k
  PROVE  RegisterSession(e, n, c) # None /\ RegisterSession(e, n, c).epoch <= k
<1>1. RegisterSession(e, n, c) \in Entry
  BY RegisterSessionType, Zenon
<1>2. RegisterSession(e, n, c).epoch <= k
  BY Zenon DEF RegisterSession
<1> QED
  BY <1>1, <1>2, NoneIsNoPlace, Zenon

LEMMA LastOfTail ==
  ASSUME NEW S, NEW q \in Seq(S), q # <<>>
  PROVE  IF Tail(q) = <<>> THEN Head(q) = q[Len(q)] ELSE Tail(q)[Len(Tail(q))] = q[Len(q)]
<1>1. Len(q) \in Nat /\ Len(q) # 0
  OBVIOUS
<1>2. Len(Tail(q)) = Len(q) - 1 /\ Head(q) = q[1]
  OBVIOUS
<1>3. CASE Tail(q) = <<>>
  <2>1. Len(q) - 1 = 0
    <3>1. Len(<<>>) = 0
      BY Zenon
    <3> QED
      BY <1>2, <1>3, <3>1, Zenon
  <2>2. Len(q) = 1
    BY <1>1, <2>1
  <2> QED
    BY <1>2, <1>3, <2>2, Zenon
<1>4. CASE Tail(q) # <<>>
  <2>1. Len(Tail(q)) \in 1..Len(Tail(q))
    BY <1>4
  <2>2. Tail(q)[Len(Tail(q))] = q[Len(Tail(q)) + 1]
    BY <2>1, TailFacts, Zenon
  <2>3. Len(Tail(q)) + 1 = Len(q)
    BY <1>1, <1>2
  <2> QED
    BY <1>4, <2>2, <2>3, Zenon
<1> QED
  BY <1>3, <1>4, Zenon

(* A step of the hosts. *)
LEMMA LedKept ==
  ASSUME TInv, Led, gw # None, UNCHANGED <<gw, route, switches>>,
         \A h \in Hosts : \A i \in 1..Len(mesh'[h]) : mesh'[h][i].kind = "assign" /\ mesh'[h][i].epoch = 1,
         \A h \in Hosts : vcm'[h] # None => vcm'[h].epoch <= Current.epoch,
         \A h \in Hosts : Known(h) => Known(h)'
  PROVE  Led'
<1>1. Current' = Current
  BY Zenon DEF Current
<1>2. Current.host \in Hosts
  BY CurrentPlace, Zenon
<1>3. Known(Current.host)'
  BY <1>1, <1>2, Zenon DEF Led, Known
<1> QED
  BY <1>1, <1>3, Zenon DEF Led

(* A step of the coordinator that moves the route. *)
LEMMA LedReroute ==
  ASSUME TInv, TInv', Led, gw # None, route # None, link = "up",
         NEW h \in Hosts, NEW c \in Cells, Reroute(h, c), UNCHANGED <<gw, mesh>>,
         \A g \in Hosts : vcm'[g] # None => vcm'[g].epoch <= route.epoch
  PROVE  Led'
<1>1. route' \in Place /\ switches' = Append(switches, route') /\ switches \in Seq(Place)
      /\ route'.epoch = route.epoch + 1 /\ route'.host = h /\ route.epoch \in Nat
  <2>1. route.epoch \in Nat
    BY Zenon DEF TInv, TypeOK, Place
  <2> QED
    BY <2>1, RerouteType, Zenon DEF Reroute, Migrate, Sent, TInv, TypeOK
<1>2. route' # None
  BY <1>1, NoneIsNoPlace, Zenon
<1>3. Current' = route' /\ Current = route
  BY <1>2, Zenon DEF Current
<1>4. Len(switches') = Len(switches) + 1 /\ switches'[Len(switches')] = route' /\ switches' # <<>>
  BY <1>1, AppendFacts
<1>5. registers'[h] # <<>>
  <2>1. registers \in [Hosts -> Seq(Entry)]
    BY Zenon DEF TInv, TypeOK
  <2>2. registers'[h] = Append(registers[h], [epoch |-> route'.epoch, cell |-> c])
    BY <2>1, Zenon DEF Reroute
  <2>3. [epoch |-> route'.epoch, cell |-> c] \in Entry
    BY <1>1 DEF Entry
  <2>4. registers[h] \in Seq(Entry)
    BY <2>1, Zenon
  <2> QED
    BY <2>2, <2>3, <2>4
<1>6. \A g \in Hosts : vcm'[g] # None => vcm'[g].epoch <= route'.epoch
  <2> SUFFICES ASSUME NEW g \in Hosts, vcm'[g] # None PROVE vcm'[g].epoch <= route'.epoch
    BY Zenon
  <2>1. vcm'[g].epoch \in Nat
    BY Zenon DEF TInv, TypeOK, Entry
  <2> QED
    BY <1>1, <2>1
<1>7. Current'.epoch >= 1
  BY <1>1, <1>3
<1>8. Known(Current.host)'
  BY <1>1, <1>3, <1>5, Zenon DEF Known
<1>9. \A g \in Hosts : \A i \in 1..Len(mesh'[g]) : mesh'[g][i].kind = "assign" /\ mesh'[g][i].epoch = 1
  BY Zenon DEF Led
<1> QED
  BY <1>3, <1>4, <1>6, <1>7, <1>8, <1>9, Zenon DEF Led

LEMMA HInvStep == TInv /\ SInv /\ EInv /\ KInv /\ HInv /\ TInv' /\ [Next]_vars => HInv'
<1> SUFFICES ASSUME TInv, SInv, EInv, KInv, HInv, TInv', [Next]_vars, blips' = 0
             PROVE  /\ reg' = "live"
                    /\ phase' = "new" => Untouched'
                    /\ gw' # None => Led'
  BY Zenon DEF HInv
<1>0. blips = 0 /\ CalmNext /\ TypeOK
  BY Calm, Zenon DEF TInv
<1>a. reg = "live" /\ (phase = "new" => Untouched) /\ (gw # None => Led)
      /\ link = "up" /\ (phase = "new" => Unrouted) /\ EpochNamesRoute
  BY <1>0, Zenon DEF HInv, EInv
<1>b. reg' = "live"
  <2>1. reg' = reg
    BY <1>0, Zenon DEF CalmNext, dispatchPostAuthAssignment, handleDisconnect, OnUpstreamSwitch, ReadAnnounce,
       OnPlayerTransfer, routeInboundFrame, HandleSessionRegister, notifyPlayerMigrated, AcceptHandoff,
       CommitMigrate, CommitReshape, Commit, vars, stream
  <2> QED
    BY <1>a, <2>1, Zenon
<1> SUFFICES (phase' = "new" => Untouched') /\ (gw' # None => Led')
  BY <1>b, Zenon
<1>c. gw # None => /\ phase = "open"
                   /\ \A i \in 1..Len(toCoord) : toCoord[i].kind = "announce" /\ i = 1
                   /\ route = None => Unrouted /\ toCoord # <<>>
                   /\ route # None => toCoord = <<>>
  BY <1>0, RouteOrAnnounce, Zenon
<1>t. /\ mesh \in [Hosts -> Seq(Frame)] /\ vcm \in [Hosts -> Entry \union {None}]
      /\ registers \in [Hosts -> Seq(Entry)] /\ owner \in [Cells -> Hosts \union {Nobody}]
      /\ switches \in Seq(Place) /\ toCoord \in Seq(Message) /\ migrated \in [Hosts -> Seq(Note)]
      /\ seat \in [Cells -> {"none", "active", "grace"}]
  BY <1>0, Zenon DEF TypeOK
<1>1. ASSUME NEW c \in Cells, dispatchPostAuthAssignment(c)
      PROVE  phase' # "new" /\ (gw' # None => Led')
  <2>1. phase' # "new" /\ phase = "new"
    BY <1>1, Zenon DEF dispatchPostAuthAssignment
  <2> SUFFICES ASSUME gw' # None PROVE Led'
    BY <2>1, Zenon
  <2> DEFINE s == [host |-> owner[c], cell |-> c, epoch |-> 1]
             f == [kind |-> "assign", epoch |-> 1, cell |-> c]
  <2>2. gw' = s /\ mesh' = [mesh EXCEPT ![owner[c]] = Append(@, f)] /\ owner[c] \in Hosts
        /\ UNCHANGED <<route, vcm, switches, registers>>
    BY <1>1, <1>t, Zenon DEF dispatchPostAuthAssignment
  <2>3. Unrouted /\ Untouched
    BY <1>a, <2>1, Zenon
  <2>4. f \in Frame
    BY Zenon DEF Frame
  <2>5. f.kind = "assign" /\ f.epoch = 1 /\ s.epoch = 1 /\ s.host = owner[c]
    BY Zenon
  <2> HIDE DEF f, s
  <2>6. mesh'[owner[c]] = <<f>> /\ \A h \in Hosts : h # owner[c] => mesh'[h] = <<>>
    <3>1. \A h \in Hosts : mesh[h] = <<>>
      BY <2>3, Zenon DEF Untouched
    <3>2. mesh'[owner[c]] = Append(mesh[owner[c]], f) /\ \A h \in Hosts : h # owner[c] => mesh'[h] = mesh[h]
      BY <1>t, <2>2, Zenon
    <3>3. Append(<<>>, f) = <<f>>
      OBVIOUS
    <3> QED
      BY <2>2, <3>1, <3>2, <3>3, Zenon
  <2>7. Current' = s /\ switches' = <<>>
    BY <2>2, <2>3, Zenon DEF Current, Unrouted
  <2>8. Known(Current.host)'
    <3>1. <<f>> # <<>>
      BY Zenon
    <3> QED
      BY <2>5, <2>6, <2>7, <3>1, Zenon DEF Known
  <2>9. \A h \in Hosts : vcm'[h] = None
    BY <2>2, <2>3, Zenon DEF Untouched
  <2>10. \A h \in Hosts : \A i \in 1..Len(mesh'[h]) : mesh'[h][i].kind = "assign" /\ mesh'[h][i].epoch = 1
    BY <2>5, <2>6
  <2> QED
    BY <2>2, <2>5, <2>7, <2>8, <2>9, <2>10 DEF Led
<1>2. CASE handleDisconnect
  BY <1>2, Zenon DEF handleDisconnect
<1>3. CASE OnUpstreamSwitch
  <2>1. switches # <<>> /\ switches' = Tail(switches) /\ UNCHANGED <<phase, route, vcm, mesh, registers>>
        /\ gw' = (IF gw = None THEN None ELSE Head(switches))
    BY <1>3, Zenon DEF OnUpstreamSwitch
  <2>2. phase' # "new"
    BY <1>a, <2>1, Zenon DEF Unrouted
  <2> SUFFICES ASSUME gw' # None PROVE Led'
    BY <2>2, Zenon
  <2>3. gw # None /\ Led /\ route # None
    BY <1>a, <1>c, <2>1, Zenon DEF Unrouted
  <2>4. Current' = Current
    BY <2>1, <2>3, Zenon DEF Current
  <2>5. switches[Len(switches)] = Current
    BY <2>1, <2>3, Zenon DEF Led
  <2>6. IF switches' = <<>> THEN gw' = Current ELSE switches'[Len(switches')] = Current
    BY <1>t, <2>1, <2>3, <2>5, LastOfTail, Zenon
  <2>7. Known(Current.host)'
    BY <2>1, <2>3, <2>4, Zenon DEF Known, Led
  <2> QED
    BY <2>1, <2>3, <2>4, <2>6, <2>7, Zenon DEF Led
<1>4. CASE ReadAnnounce
  <2>1. toCoord # <<>> /\ HandleSessionAnnounce(Head(toCoord))
        /\ UNCHANGED <<gw, phase, vcm, mesh, registers, switches>>
    BY <1>4, Zenon DEF ReadAnnounce
  <2>2. phase' # "new"
    BY <1>0, <2>1, Zenon DEF EInv
  <2> SUFFICES ASSUME gw' # None PROVE Led'
    BY <2>2, Zenon
  <2>3. gw # None /\ Led /\ route = None
    BY <1>a, <1>c, <2>1, Zenon
  <2>4. Head(toCoord) = toCoord[1] /\ 1 \in 1..Len(toCoord)
    BY <1>t, <2>1
  <2>5. toCoord[1].kind = "announce" /\ toCoord[1] \in Message
    BY <1>c, <1>t, <2>3, <2>4, ElementType, Zenon
  <2>6. gw = [host |-> toCoord[1].host, cell |-> toCoord[1].cell, epoch |-> 1]
    BY <1>0, <2>3, <2>4, <2>5, Zenon DEF EInv
  <2>7. route' = gw
    BY <2>1, <2>4, <2>5, <2>6, Zenon DEF HandleSessionAnnounce
  <2>8. Current' = Current
    BY <2>1, <2>3, <2>7, Zenon DEF Current
  <2>9. Known(Current.host)'
    BY <2>1, <2>3, <2>8, Zenon DEF Known, Led
  <2> QED
    BY <2>1, <2>3, <2>8, <2>9, Zenon DEF Led
<1>u. ASSUME UNCHANGED <<phase, gw, route, switches, vcm, mesh, registers>>, phase # "new"
      PROVE  phase' # "new" /\ (gw' # None => Led')
  BY <1>a, <1>u, Zenon DEF Led, Current, Known
<1>5. CASE OnPlayerTransfer
  <2>1. UNCHANGED <<phase, gw, route, switches, vcm, mesh, registers>> /\ moving # None
    BY <1>5, Zenon DEF OnPlayerTransfer, stream
  <2> QED
    BY <1>a, <1>u, <2>1, Zenon DEF Untouched
<1>6. ASSUME NEW h \in Hosts, routeInboundFrame(h)
      PROVE  phase' # "new" /\ (gw' # None => Led')
  <2>1. mesh[h] # <<>> /\ mesh' = [mesh EXCEPT ![h] = Tail(@)]
        /\ UNCHANGED <<phase, gw, route, switches, registers>>
    BY <1>6, Zenon DEF routeInboundFrame, stream
  <2>2. phase' # "new"
    BY <1>a, <2>1, Zenon DEF Untouched
  <2> SUFFICES ASSUME gw' # None PROVE Led'
    BY <2>2, Zenon
  <2>3. gw # None /\ Led
    BY <1>a, <2>1, Zenon
  <2>4. mesh[h] \in Seq(Frame) /\ mesh'[h] = Tail(mesh[h]) /\ \A g \in Hosts : g # h => mesh'[g] = mesh[g]
    BY <1>t, <2>1, Zenon
  <2>5. Head(mesh[h]) = mesh[h][1] /\ 1 \in 1..Len(mesh[h]) /\ mesh[h][1] \in Frame
    BY <2>1, <2>4, TailFacts, ElementType, Zenon
  <2>6. Head(mesh[h]).kind = "assign" /\ Head(mesh[h]).epoch = 1
    BY <2>3, <2>5, Zenon DEF Led
  <2>7. Head(mesh[h]).cell \in Cells
    BY <2>5, <2>6, Zenon DEF Frame
  <2>8. vcm' = [vcm EXCEPT ![h] = RegisterSession(@, 1, Head(mesh[h]).cell)]
    BY <1>6, <2>6, Zenon DEF routeInboundFrame
  <2>9. vcm'[h] = RegisterSession(vcm[h], 1, Head(mesh[h]).cell) /\ \A g \in Hosts : g # h => vcm'[g] = vcm[g]
    BY <1>t, <2>8, Zenon
  <2>10. vcm[h] \in Entry \union {None} /\ Current.epoch \in Nat /\ 1 <= Current.epoch
         /\ (vcm[h] # None => vcm[h].epoch <= Current.epoch)
    BY <1>t, <2>3, CurrentPlace, Zenon DEF Led
  <2>11. vcm'[h] # None /\ vcm'[h].epoch <= Current.epoch
    BY <2>7, <2>9, <2>10, RegisterEpoch, Zenon
  <2>12. \A g \in Hosts : vcm'[g] # None => vcm'[g].epoch <= Current.epoch
    BY <2>3, <2>9, <2>11, Zenon DEF Led
  <2>13. \A g \in Hosts : Known(g) => Known(g)'
    BY <2>1, <2>4, <2>9, <2>11, Zenon DEF Known
  <2>14. \A g \in Hosts : \A i \in 1..Len(mesh'[g]) : mesh'[g][i].kind = "assign" /\ mesh'[g][i].epoch = 1
    BY <2>1, <2>3, <2>4, TailFacts DEF Led
  <2> QED
    BY <2>1, <2>3, <2>12, <2>13, <2>14, LedKept, Zenon
<1>7. ASSUME NEW h \in Hosts, HandleSessionRegister(h)
      PROVE  phase' # "new" /\ (gw' # None => Led')
  <2> DEFINE m == Head(registers[h])
  <2>1. registers[h] # <<>> /\ registers' = [registers EXCEPT ![h] = Tail(@)]
        /\ vcm' = [vcm EXCEPT ![h] = RegisterSession(@, m.epoch, m.cell)]
        /\ UNCHANGED <<phase, gw, route, switches, mesh>>
    BY <1>7, Zenon DEF HandleSessionRegister, stream
  <2>2. phase' # "new"
    BY <1>a, <2>1, Zenon DEF Unrouted
  <2> SUFFICES ASSUME gw' # None PROVE Led'
    BY <2>2, Zenon
  <2>3. gw # None /\ Led /\ route # None
    BY <1>a, <1>c, <2>1, Zenon DEF Unrouted
  <2>4. m = registers[h][1] /\ 1 \in 1..Len(registers[h]) /\ m \in Entry
    BY <1>t, <2>1, TailFacts, ElementType
  <2>5. m.epoch \in Nat /\ m.cell \in Cells
    BY <2>4, Zenon DEF Entry
  <2>6. Current = route /\ route.epoch \in Nat
    BY <2>3, CurrentPlace, Zenon DEF Current
  <2>7. \/ m.epoch < route.epoch
        \/ [host |-> h, cell |-> m.cell, epoch |-> m.epoch] = route
    BY <1>0, <1>a, <2>3, <2>4, Zenon DEF EpochNamesRoute
  <2> HIDE DEF m
  <2>8. m.epoch <= Current.epoch
    BY <2>5, <2>6, <2>7
  <2>9. vcm'[h] = RegisterSession(vcm[h], m.epoch, m.cell) /\ \A g \in Hosts : g # h => vcm'[g] = vcm[g]
        /\ registers'[g] = registers[g]
    BY <1>t, <2>1, Zenon
  <2>10. vcm[h] \in Entry \union {None} /\ Current.epoch \in Nat
         /\ (vcm[h] # None => vcm[h].epoch <= Current.epoch)
    BY <1>t, <2>3, <2>6, Zenon DEF Led
  <2>11. vcm'[h] # None /\ vcm'[h].epoch <= Current.epoch
    BY <2>5, <2>8, <2>9, <2>10, RegisterEpoch, Zenon
  <2>12. \A g \in Hosts : vcm'[g] # None => vcm'[g].epoch <= Current.epoch
    BY <2>3, <2>9, <2>11, Zenon DEF Led
  <2>13. \A g \in Hosts : Known(g) => Known(g)'
    BY <2>1, <2>9, <2>11, Zenon DEF Known
  <2> QED
    BY <2>1, <2>3, <2>12, <2>13, LedKept, Zenon DEF Led
<1>8. ASSUME NEW h \in Hosts, notifyPlayerMigrated(h)
      PROVE  phase' # "new" /\ (gw' # None => Led')
  <2> DEFINE m == Head(migrated[h])
  <2>1. migrated[h] # <<>> /\ UNCHANGED <<phase, gw, vcm, mesh>>
        /\ (\/ route # None /\ Reroute(m.host, m.cell)
            \/ UNCHANGED <<route, registers, switches>>)
    BY <1>8, Zenon DEF notifyPlayerMigrated
  <2>2. phase # "new"
    BY <1>a, <2>1, Zenon DEF Untouched
  <2>3. CASE UNCHANGED <<route, registers, switches>>
    BY <1>u, <2>1, <2>2, <2>3, Zenon
  <2>4. CASE route # None /\ Reroute(m.host, m.cell)
    <3> SUFFICES ASSUME gw # None PROVE Led'
      BY <2>1, <2>2, Zenon
    <3>1. m \in Note
      BY <1>t, <2>1, TailFacts, ElementType
    <3>2. m.host \in Hosts /\ m.cell \in Cells
      BY <3>1, Zenon DEF Note
    <3> HIDE DEF m
    <3>3. Led /\ Current = route
      BY <1>a, <2>4, Zenon DEF Current
    <3>4. \A g \in Hosts : vcm'[g] # None => vcm'[g].epoch <= route.epoch
      BY <2>1, <3>3, Zenon DEF Led
    <3> QED
      BY <1>a, <2>1, <2>4, <3>2, <3>3, <3>4, LedReroute, Zenon
  <2> QED
    BY <2>1, <2>3, <2>4, Zenon
<1>9. ASSUME NEW c \in Cells, NEW d \in Cells, AcceptHandoff(c, d)
      PROVE  phase' # "new" /\ (gw' # None => Led')
  <2>1. seat[c] = "active" /\ owner[d] # Nobody /\ UNCHANGED <<phase, gw, route, switches, mesh, registers>>
        /\ (vcm' = vcm \/ vcm' = [vcm EXCEPT ![owner[d]] = RegisterSession(@, 0, d)])
    BY <1>9, Zenon DEF AcceptHandoff, stream
  <2>2. phase # "new"
    BY <1>a, <2>1, Zenon DEF Untouched
  <2>3. CASE vcm' = vcm
    BY <1>u, <2>1, <2>2, <2>3, Zenon
  <2>4. CASE vcm' = [vcm EXCEPT ![owner[d]] = RegisterSession(@, 0, d)]
    <3> SUFFICES ASSUME gw # None PROVE Led'
      BY <2>1, <2>2, Zenon
    <3>1. Led
      BY <1>a, Zenon
    <3>2. owner[d] \in Hosts
      BY <1>t, <2>1, Zenon
    <3>3. vcm'[owner[d]] = RegisterSession(vcm[owner[d]], 0, d)
          /\ \A g \in Hosts : g # owner[d] => vcm'[g] = vcm[g]
      BY <1>t, <2>4, <3>2, Zenon
    <3>4. vcm[owner[d]] \in Entry \union {None} /\ Current.epoch \in Nat /\ 0 <= Current.epoch
          /\ (vcm[owner[d]] # None => vcm[owner[d]].epoch <= Current.epoch)
      BY <1>t, <3>1, <3>2, CurrentPlace DEF Led
    <3>5. vcm'[owner[d]] # None /\ vcm'[owner[d]].epoch <= Current.epoch
      BY <3>3, <3>4, RegisterEpoch, Zenon
    <3>6. \A g \in Hosts : vcm'[g] # None => vcm'[g].epoch <= Current.epoch
      BY <3>1, <3>3, <3>5, Zenon DEF Led
    <3>7. \A g \in Hosts : Known(g) => Known(g)'
      BY <2>1, <3>3, <3>5, Zenon DEF Known
    <3> QED
      BY <2>1, <3>1, <3>6, <3>7, LedKept, Zenon DEF Led
  <2> QED
    BY <2>1, <2>3, <2>4, Zenon
<1>10. ASSUME NEW c \in Cells, NEW d \in Cells, NEW h \in Hosts, Commit(c, d, h)
      PROVE  phase' # "new" /\ (gw' # None => Led')
  <2>1. /\ phase # "new" /\ owner[c] # Nobody /\ UNCHANGED <<phase, gw, mesh>>
        /\ vcm' = (IF seat[c] = "none" \/ vcm[owner[c]] = None THEN vcm
                   ELSE [vcm EXCEPT ![h] = RegisterSession(@, vcm[owner[c]].epoch, d)])
        /\ \/ route # None /\ Reroute(h, d)
           \/ UNCHANGED <<route, registers, switches>>
    BY <1>10, Zenon DEF Commit
  <2> SUFFICES ASSUME gw # None PROVE Led'
    BY <2>1, Zenon
  <2>2. Led /\ Current.epoch \in Nat
    BY <1>a, CurrentPlace, Zenon
  <2>3. \A g \in Hosts : (vcm'[g] # None => vcm'[g].epoch <= Current.epoch) /\ (vcm[g] # None => vcm'[g] # None)
    <3>1. CASE vcm' = vcm
      BY <2>2, <3>1, Zenon DEF Led
    <3>2. CASE vcm[owner[c]] # None /\ vcm' = [vcm EXCEPT ![h] = RegisterSession(@, vcm[owner[c]].epoch, d)]
      <4>1. owner[c] \in Hosts
        BY <1>t, <2>1, Zenon
      <4>2. vcm[owner[c]] \in Entry
        BY <1>t, <4>1, <3>2, Zenon
      <4>3. vcm[owner[c]].epoch \in Nat /\ vcm[owner[c]].epoch <= Current.epoch
        BY <4>1, <4>2, <2>2, <3>2, Zenon DEF Entry, Led
      <4>4. vcm'[h] = RegisterSession(vcm[h], vcm[owner[c]].epoch, d) /\ \A g \in Hosts : g # h => vcm'[g] = vcm[g]
        BY <1>t, <3>2, Zenon
      <4>5. vcm[h] \in Entry \union {None} /\ (vcm[h] # None => vcm[h].epoch <= Current.epoch)
        BY <1>t, <2>2, Zenon DEF Led
      <4>6. vcm'[h] # None /\ vcm'[h].epoch <= Current.epoch
        BY <2>2, <4>3, <4>4, <4>5, RegisterEpoch, Zenon
      <4> QED
        BY <2>2, <4>4, <4>6, Zenon DEF Led
    <3> QED
      BY <2>1, <3>1, <3>2, Zenon
  <2>4. CASE UNCHANGED <<route, registers, switches>>
    <3>1. \A g \in Hosts : Known(g) => Known(g)'
      BY <2>1, <2>3, <2>4, Zenon DEF Known
    <3> QED
      BY <2>1, <2>2, <2>3, <2>4, <3>1, LedKept, Zenon DEF Led
  <2>5. CASE route # None /\ Reroute(h, d)
    <3>1. Current = route
      BY <2>5, Zenon DEF Current
    <3> QED
      BY <1>a, <2>1, <2>2, <2>3, <2>5, <3>1, LedReroute, Zenon
  <2> QED
    BY <2>1, <2>4, <2>5, Zenon
<1>11. CASE UNCHANGED vars
  <2>1. CASE phase # "new"
    BY <1>11, <1>u, <2>1, Zenon DEF vars, stream
  <2>2. CASE phase = "new"
    <3>1. gw = None
      BY <2>2, Zenon DEF SInv
    <3> QED
      BY <1>11, <1>a, <2>2, <3>1, Zenon DEF vars, world, history, Untouched
  <2> QED
    BY <2>1, <2>2, Zenon
<1> QED
  BY <1>0, <1>1, <1>2, <1>3, <1>4, <1>5, <1>6, <1>7, <1>8, <1>9, <1>10, <1>11, Zenon
     DEF CalmNext, CommitMigrate, CommitReshape

LEMMA HInvInit == Init => HInv
  BY Zenon DEF Init, HInv, Untouched

LEMMA Admits == HInv /\ TInv => InputAdmitted
<1> SUFFICES ASSUME HInv, TInv, Quiet, blips = 0, gw # None
             PROVE  InjectChannelInputWithEpoch(gw.host, gw.epoch)
  BY Zenon DEF InputAdmitted
<1>1. Led /\ gw = Current /\ gw.host \in Hosts /\ gw.epoch \in Nat
  BY CurrentPlace, Zenon DEF HInv, Led, Quiet
<1>2. vcm[gw.host] # None
  BY <1>1, Zenon DEF Led, Known, Quiet
<1>3. vcm[gw.host] \in Entry
  BY <1>1, <1>2, Zenon DEF TInv, TypeOK
<1>4. vcm[gw.host].epoch \in Nat /\ vcm[gw.host].epoch <= gw.epoch
  BY <1>1, <1>2, <1>3, Zenon DEF Led, Entry
<1> QED
  BY <1>1, <1>2, <1>4 DEF InjectChannelInputWithEpoch

-----------------------------------------------------------------------------
(* The place that the route settles on                                     *)

LEMMA NewsSame ==
  ASSUME UNCHANGED <<toCoord, migrated>>
  PROVE  News' = News
<1>1. Announced' = Announced
  BY Zenon DEF Announced
<1>2. \A h \in Hosts : Notes(h)' = Notes(h)
  BY Zenon DEF Notes
<1> QED
  BY <1>1, <1>2, Zenon DEF News

(* A step that adds no news and moves nothing. *)
LEMMA SettlingSame ==
  ASSUME TInv, Settling, UNCHANGED <<owner, seat, moving, route, toCoord, migrated, mesh, clock, applied>>,
         \A h \in Hosts : vcm[h] # None => vcm'[h] # None
  PROVE  Settling'
<1>1. News' = News
  BY NewsSame, Zenon
<1>2. AssignDue' = AssignDue
  BY Zenon DEF AssignDue
<1>3. Doomed => Doomed'
  BY <1>1, <1>2, Zenon DEF Doomed
<1>5. \A c \in Cells : Located(c) => Located(c)'
  BY <1>1, Zenon DEF Located, Newest
<1>6. Arriving => Arriving'
  BY <1>1, Zenon DEF Arriving, Located, Newest
<1>7. ASSUME NEW c \in Cells, Seated(c) PROVE Seated(c)'
  <2>1. \A d \in Cells : owner[d] # Nobody => owner[d] \in Hosts
    BY Zenon DEF TInv, TypeOK
  <2> QED
    BY <1>5, <1>7, <2>1, Zenon DEF Seated
<1> QED
  BY <1>1, <1>2, <1>3, <1>6, <1>7, Zenon DEF Settling

(* Reading a message that is not too late keeps the newest news. *)
LEMMA LocatedRead ==
  ASSUME NEW m \in News, News' \subseteq News, News \subseteq News' \union {m},
         \A n \in News : n.at \in Nat,
         \A n \in News' : ~(n.at < m.at),
         News' = {} => route' # None /\ route'.cell = m.cell /\ route'.host = m.host,
         owner' = owner, NEW c, Located(c)
  PROVE  Located(c)'
<1>1. News # {}
  BY Zenon
<1>2. PICK k \in News : Newest(k)
  BY <1>1, Zenon DEF Located
<1>3. \A n \in News : Newest(n) => n.cell = c /\ n.host = owner[c]
  BY <1>1, Zenon DEF Located
<1>4. \A n \in News : n.at <= k.at
  BY <1>2, Zenon DEF Newest
<1>5. CASE News' = {}
  <2>1. k = m
    BY <1>5, Zenon
  <2> QED
    BY <1>2, <1>3, <1>5, <2>1, Zenon DEF Located
<1>6. CASE News' # {}
  <2>1. PICK l \in News' : l.at = k.at
    <3>1. CASE k \in News'
      BY <3>1, Zenon
    <3>2. CASE k = m
      <4>1. PICK l \in News' : TRUE
        BY <1>6, Zenon
      <4>2. l.at \in Nat /\ k.at \in Nat /\ l.at <= k.at /\ ~(l.at < k.at)
        BY <3>2, <1>4, <4>1, Zenon
      <4>3. l.at = k.at
        BY <4>2
      <4> QED
        BY <4>3, Zenon
    <3> QED
      BY <3>1, <3>2, Zenon
  <2>2. \A n \in News' : n.at <= l.at
    BY <1>4, <2>1, Zenon
  <2>3. \E n \in News' : Newest(n)'
    BY <2>1, <2>2, Zenon DEF Newest
  <2>4. ASSUME NEW n \in News', Newest(n)' PROVE n.cell = c /\ n.host = owner[c]
    <3>1. n \in News /\ l.at <= n.at /\ n.at \in Nat /\ k.at \in Nat
      BY <2>1, <2>4, Zenon DEF Newest
    <3>2. k.at <= n.at
      BY <2>1, <3>1, Zenon
    <3>3. \A j \in News : j.at <= n.at
      <4> SUFFICES ASSUME NEW j \in News PROVE j.at <= n.at
        BY Zenon
      <4>1. j.at \in Nat /\ j.at <= k.at
        BY <1>4, Zenon
      <4> QED
        BY <3>1, <3>2, <4>1
    <3> QED
      BY <1>3, <3>1, <3>3, Zenon DEF Newest
  <2> QED
    BY <1>6, <2>3, <2>4, Zenon DEF Located
<1> QED
  BY <1>5, <1>6, Zenon

(* The coordinator reads m.  If something older is left, it will be heard  *)
(* too late; if not, the newest news is still there, or is the route.      *)
LEMMA SettlingRead ==
  ASSUME Settling, NEW m \in News, News' \subseteq News, News \subseteq News' \union {m},
         ~(m.at < applied), applied \in Nat, applied' = (IF m.at > applied THEN m.at ELSE applied),
         News' = {} => route' # None /\ route'.cell = m.cell /\ route'.host = m.host,
         UNCHANGED <<owner, seat, moving, vcm, mesh, clock>>
  PROVE  Settling'
<1>1. AssignDue' = AssignDue
  BY Zenon DEF AssignDue
<1>2. \A n \in News : n.at \in Nat /\ n.at <= clock
  BY Zenon DEF Settling
<1>3. m.at \in Nat /\ m.at <= clock /\ applied' = m.at
  <2>1. m.at \in Nat /\ m.at <= clock
    BY <1>2, Zenon
  <2> QED
    BY <2>1
<1>4. clock' >= 1 /\ applied' <= clock' /\ \A n \in News' : n.at \in Nat /\ n.at <= clock'
  BY <1>2, <1>3, Zenon DEF Settling
<1> SUFFICES ASSUME ~Doomed' PROVE IF AssignDue THEN Arriving' ELSE \E c \in Cells : Seated(c)'
  BY <1>1, <1>4, Zenon DEF Settling
<1>5. \A n \in News' : ~(n.at < m.at)
  BY <1>3, Zenon DEF Doomed
<1>6. ~Doomed
  <2>1. ~(clock > 1 /\ AssignDue)
    BY <1>1, Zenon DEF Doomed
  <2>2. ASSUME NEW n \in News, n.at < applied PROVE FALSE
    <3>1. n # m
      BY <2>2, Zenon
    <3>2. n \in News' /\ n.at \in Nat /\ ~(n.at < m.at)
      BY <1>2, <1>5, <3>1, Zenon
    <3> QED
      BY <2>2, <3>2, <1>3
  <2> QED
    BY <2>1, <2>2, Zenon DEF Doomed
<1>7. \A c : Located(c) => Located(c)'
  BY <1>2, <1>5, LocatedRead, Zenon
<1>8. CASE AssignDue
  <2>1. Arriving
    BY <1>6, <1>8, Zenon DEF Settling
  <2>2. PICK h \in Hosts : /\ Len(mesh[h]) = 1 /\ owner[mesh[h][1].cell] = h /\ Located(mesh[h][1].cell)
                           /\ \A g \in Hosts \ {h} : mesh[g] = <<>>
    BY <2>1, Zenon DEF Arriving
  <2>3. PICK c : c = mesh[h][1].cell
    BY Zenon
  <2>4. Located(c)' /\ mesh'[h][1].cell = c
    BY <1>7, <2>2, <2>3, Zenon
  <2>5. Located(mesh[h][1].cell)'
    BY <2>4, Zenon DEF Located
  <2> QED
    BY <1>8, <2>1, <2>2, <2>5, Zenon DEF Arriving
<1>9. CASE ~AssignDue
  <2>1. PICK c \in Cells : Seated(c)
    BY <1>6, <1>9, Zenon DEF Settling
  <2>2. Seated(c)'
    BY <1>7, <2>1, Zenon DEF Seated
  <2> QED
    BY <1>9, <2>2, Zenon
<1> QED
  BY <1>8, <1>9, Zenon

(* A host sends a note. *)
LEMMA NewsSent ==
  ASSUME TInv, NEW h \in Hosts, NEW m \in Note, migrated' = [migrated EXCEPT ![h] = Append(@, m)],
         toCoord' = toCoord
  PROVE  News' = News \union {m}
<1>1. Announced' = Announced
  BY Zenon DEF Announced
<1>2. migrated[h] \in Seq(Note) /\ migrated'[h] = Append(migrated[h], m)
      /\ \A g \in Hosts : g # h => migrated'[g] = migrated[g]
  BY Zenon DEF TInv, TypeOK
<1>3. Notes(h)' = Notes(h) \union {m}
  <2>1. \A i \in 1..Len(migrated'[h]) : \/ i \in 1..Len(migrated[h]) /\ migrated'[h][i] = migrated[h][i]
                                        \/ migrated'[h][i] = m
    BY <1>2, AppendFacts
  <2>2. \A i \in 1..Len(migrated[h]) : i \in 1..Len(migrated'[h]) /\ migrated'[h][i] = migrated[h][i]
    BY <1>2, AppendFacts
  <2>3. \E i \in 1..Len(migrated'[h]) : migrated'[h][i] = m
    BY <1>2, AppendFacts
  <2> QED
    BY <2>1, <2>2, <2>3, Zenon DEF Notes
<1>4. \A g \in Hosts : g # h => Notes(g)' = Notes(g)
  BY <1>2, Zenon DEF Notes
<1> QED
  BY <1>1, <1>3, <1>4, Zenon DEF News

LEMMA TailOfOne ==
  ASSUME NEW S, NEW q \in Seq(S), Len(q) = 1
  PROVE  Tail(q) = <<>>
<1>1. q # <<>>
  OBVIOUS
<1>2. Tail(q) \in Seq(S) /\ Len(Tail(q)) = 0
  BY <1>1
<1>3. Tail(q) # <<>> => 1 \in 1..Len(Tail(q))
  BY <1>2, TailFacts, Zenon
<1>4. 1 \notin 1..0
  OBVIOUS
<1> QED
  BY <1>2, <1>3, <1>4, Zenon

(* Login: the assignment is under way to the host that runs the cell. *)
LEMMA SettlingLogin ==
  ASSUME TInv, EInv, Untouched, blips = 0, NEW c \in Cells, dispatchPostAuthAssignment(c), gw' # None
  PROVE  Settling'
<1> DEFINE s == [host |-> owner[c], cell |-> c, epoch |-> 1]
           f == [kind |-> "assign", epoch |-> 1, cell |-> c]
<1>0. PICK m : m = announceSession(s, 1)
  BY Zenon
<1>1. /\ phase = "new" /\ owner[c] # Nobody /\ toCoord' = Sent(toCoord, m) /\ clock' = 1
      /\ mesh' = [mesh EXCEPT ![owner[c]] = Append(@, f)]
      /\ UNCHANGED <<owner, seat, moving, migrated, applied>>
  BY <1>0, Zenon DEF dispatchPostAuthAssignment, world
<1>2. toCoord' = <<m>>
  BY <1>1 DEF EInv, Sent
<1>3. m.kind = "announce" /\ m.at = 1 /\ m.cell = c /\ m.host = owner[c] /\ f.cell = c
  BY <1>0, Zenon DEF announceSession
<1> HIDE DEF f, s
<1>4. owner[c] \in Hosts /\ mesh \in [Hosts -> Seq(Frame)]
  BY <1>1, Zenon DEF TInv, TypeOK
<1>5. \A h \in Hosts : mesh[h] = <<>> /\ migrated'[h] = <<>>
  BY <1>1, Zenon DEF Untouched
<1>6. mesh'[owner[c]] = <<f>> /\ \A g \in Hosts : g # owner[c] => mesh'[g] = <<>>
  <2>1. mesh'[owner[c]] = Append(mesh[owner[c]], f) /\ \A g \in Hosts : g # owner[c] => mesh'[g] = mesh[g]
    BY <1>1, <1>4, Zenon
  <2>2. Append(<<>>, f) = <<f>>
    OBVIOUS
  <2> QED
    BY <1>4, <1>5, <2>1, <2>2, Zenon
<1>7. News' = {m}
  <2>1. Announced' = {m}
    <3>1. Len(toCoord') = 1 /\ toCoord'[1] = m
      BY <1>2, Zenon
    <3> QED
      BY <1>3, <3>1 DEF Announced
  <2>2. \A h \in Hosts : Notes(h)' = {}
    <3>1. Len(<<>>) = 0
      BY Zenon
    <3>2. \A h \in Hosts : Len(migrated'[h]) = 0
      BY <1>5, <3>1, Zenon
    <3> QED
      BY <3>2 DEF Notes
  <2> QED
    BY <2>1, <2>2, Zenon DEF News
<1>8. applied' = 0 /\ moving' = None /\ \A d \in Cells : seat'[d] # "active"
  BY <1>1, Zenon DEF Untouched
<1>9. ~Doomed'
  BY <1>1, <1>3, <1>7, <1>8 DEF Doomed
<1>10. Located(c)'
  <2>1. Newest(m)'
    BY <1>3, <1>7 DEF Newest
  <2> QED
    BY <1>1, <1>3, <1>7, <2>1, Zenon DEF Located
<1>11. Arriving'
  <2>1. Len(mesh'[owner[c]]) = 1 /\ mesh'[owner[c]][1] = f
    BY <1>6
  <2>2. mesh'[owner[c]][1].cell = c /\ owner' = owner
    BY <1>1, <1>3, <2>1, Zenon
  <2>3. PICK h \in Hosts : h = owner[c]
    BY <1>4, Zenon
  <2>4. (Located(mesh[h][1].cell))'
    BY <1>10, <2>2, <2>3, Zenon DEF Located
  <2> QED
    BY <1>6, <1>8, <2>1, <2>2, <2>3, <2>4, Zenon DEF Arriving
<1>12. AssignDue'
  <2>1. <<f>> # <<>>
    BY Zenon
  <2> QED
    BY <1>4, <1>6, <2>1, Zenon DEF AssignDue
<1>13. clock' >= 1 /\ applied' <= clock' /\ \A n \in News' : n.at \in Nat /\ n.at <= clock'
  BY <1>1, <1>3, <1>7, <1>8
<1> QED
  BY <1>11, <1>12, <1>13, Zenon DEF Settling

(* The assignment arrives, before any move. *)
LEMMA SettlingArrival ==
  ASSUME TInv, Led, Settling, NEW h \in Hosts, routeInboundFrame(h), ~disordered'
  PROVE  Settling'
<1>1. /\ mesh[h] # <<>> /\ mesh' = [mesh EXCEPT ![h] = Tail(@)]
      /\ UNCHANGED <<owner, moving, route, migrated, toCoord, clock, applied>>
  BY Zenon DEF routeInboundFrame, stream
<1>2. mesh[h] \in Seq(Frame) /\ mesh'[h] = Tail(mesh[h]) /\ (\A g \in Hosts : g # h => mesh'[g] = mesh[g])
      /\ vcm \in [Hosts -> Entry \union {None}] /\ seat \in [Cells -> {"none", "active", "grace"}]
      /\ clock \in Nat
  BY <1>1, Zenon DEF TInv, TypeOK
<1>3. Head(mesh[h]) = mesh[h][1] /\ 1 \in 1..Len(mesh[h]) /\ mesh[h][1] \in Frame
  BY <1>1, <1>2, TailFacts, ElementType, Zenon
<1>4. mesh[h][1].kind = "assign"
  BY <1>3, Zenon DEF Led
<1>c. PICK c : c = mesh[h][1].cell
  BY Zenon
<1>5. c \in Cells /\ mesh[h][1].epoch \in Nat
  BY <1>c, <1>3, <1>4, Zenon DEF Frame
<1>6. /\ vcm' = [vcm EXCEPT ![h] = RegisterSession(@, mesh[h][1].epoch, c)]
      /\ seat' = IF owner[c] = h THEN [seat EXCEPT ![c] = "active"] ELSE seat
      /\ ~(clock > 1)
  BY <1>c, <1>3, <1>4, Zenon DEF routeInboundFrame
<1>7. News' = News
  BY <1>1, NewsSame, Zenon
<1>8. AssignDue
  BY <1>1, Zenon DEF AssignDue
<1>9. clock' >= 1 /\ applied' <= clock' /\ \A m \in News' : m.at \in Nat /\ m.at <= clock'
  BY <1>1, <1>7, Zenon DEF Settling
<1>10. SUFFICES ASSUME ~Doomed' PROVE ~AssignDue' /\ Seated(c)'
  BY <1>5, <1>9, Zenon DEF Settling
<1>11. ~Doomed
  BY <1>1, <1>6, <1>7, <1>10, Zenon DEF Doomed
<1>12. Arriving
  BY <1>8, <1>11, Zenon DEF Settling
<1>13. Len(mesh[h]) = 1 /\ owner[c] = h /\ Located(c) /\ \A g \in Hosts : g # h => mesh[g] = <<>>
  BY <1>c, <1>1, <1>12, Zenon DEF Arriving
<1>14. ~AssignDue'
  <2>1. Tail(mesh[h]) = <<>>
    BY <1>2, <1>13, TailOfOne, Zenon
  <2>2. mesh'[h] = <<>>
    BY <1>2, <2>1, Zenon
  <2> QED
    BY <1>2, <1>13, <2>2, Zenon DEF AssignDue
<1>15. seat'[c] = "active" /\ \A d \in Cells : seat'[d] = "active" => d = c
  <2>1. \A d \in Cells : seat[d] # "active"
    BY <1>12, Zenon DEF Arriving
  <2> QED
    BY <1>2, <1>5, <1>6, <1>13, <2>1, Zenon
<1>16. vcm'[h] # None
  <2>1. vcm'[h] = RegisterSession(vcm[h], mesh[h][1].epoch, c)
    BY <1>2, <1>6, Zenon
  <2>2. vcm[h] \in Entry \union {None}
    BY <1>2, Zenon
  <2>3. vcm'[h] \in Entry
    BY <1>5, <2>1, <2>2, RegisterSessionType, Zenon
  <2> QED
    BY <2>3, NoneIsNoPlace, Zenon
<1>17. Located(c)'
  BY <1>1, <1>7, <1>13, Zenon DEF Located, Newest
<1>18. moving' = None
  BY <1>1, <1>12, Zenon DEF Arriving
<1>19. h # Nobody
  BY RoutesAssumption, Zenon
<1> QED
  BY <1>1, <1>13, <1>14, <1>15, <1>16, <1>17, <1>18, <1>19, Zenon DEF Seated

(* The destination accepts a handoff: the player is seated in both cells. *)
LEMMA SettlingAccept ==
  ASSUME TInv, Settling, NEW c \in Cells, NEW d \in Cells, AcceptHandoff(c, d)
  PROVE  Settling'
<1>1. /\ moving = None /\ c # d /\ seat[c] = "active" /\ owner[d] # Nobody
      /\ moving' = [from |-> c, to |-> d]
      /\ seat' = [seat EXCEPT ![d] = "active"]
      /\ vcm' = IF vcm[owner[c]] = None THEN vcm
                ELSE [vcm EXCEPT ![owner[d]] = RegisterSession(@, 0, d)]
      /\ UNCHANGED <<owner, route, mesh, migrated, toCoord, clock, applied>>
  BY Zenon DEF AcceptHandoff, stream, history
<1>2. News' = News /\ AssignDue' = AssignDue
  <2>1. AssignDue' = AssignDue
    BY <1>1, Zenon DEF AssignDue
  <2> QED
    BY <1>1, <2>1, NewsSame, Zenon
<1>3. clock' >= 1 /\ applied' <= clock' /\ \A m \in News' : m.at \in Nat /\ m.at <= clock'
  BY <1>1, <1>2, Zenon DEF Settling
<1>4. SUFFICES ASSUME ~Doomed' PROVE ~AssignDue /\ Seated(c)'
  BY <1>2, <1>3, Zenon DEF Settling
<1>5. ~Doomed
  BY <1>1, <1>2, <1>4, Zenon DEF Doomed
<1>6. ~AssignDue
  BY <1>1, <1>5, Zenon DEF Settling, Arriving
<1>7. Seated(c)
  BY <1>1, <1>5, <1>6, Zenon DEF Settling, Seated
<1>8. /\ vcm \in [Hosts -> Entry \union {None}] /\ seat \in [Cells -> {"none", "active", "grace"}]
      /\ \A e \in Cells : owner[e] # Nobody => owner[e] \in Hosts
  BY Zenon DEF TInv, TypeOK
<1>9. vcm'[owner[d]] # None /\ \A h \in Hosts : vcm[h] # None => vcm'[h] # None
  <2>1. vcm[owner[c]] # None
    BY <1>1, <1>7, Zenon DEF Seated
  <2>2. vcm' = [vcm EXCEPT ![owner[d]] = RegisterSession(@, 0, d)]
    BY <1>1, <2>1, Zenon
  <2>3. vcm'[owner[d]] = RegisterSession(vcm[owner[d]], 0, d) /\ owner[d] \in Hosts
        /\ \A h \in Hosts : h # owner[d] => vcm'[h] = vcm[h]
    BY <1>1, <1>8, <2>2, Zenon
  <2>4. vcm[owner[d]] \in Entry \union {None}
    BY <1>8, <2>3, Zenon
  <2>5. vcm'[owner[d]] # None
    BY <2>3, <2>4, RegisterSessionType, NoneIsNoPlace, Zenon
  <2> QED
    BY <2>3, <2>5, Zenon
<1>10. seat'[c] = "active" /\ seat'[d] = "active" /\ \A e \in Cells : e # d => seat'[e] = seat[e]
  BY <1>1, <1>8, Zenon
<1>11. moving' # None /\ moving'.from = c /\ moving'.to = d
  <2>1. moving' \in [from : Cells, to : Cells]
    BY <1>1, Zenon
  <2> QED
    BY <1>1, <2>1, NoneIsNoPlace, Zenon
<1>12. Located(c)'
  BY <1>1, <1>2, <1>7, Zenon DEF Seated, Located, Newest
<1>13. ASSUME NEW e \in Cells, seat'[e] = "active"
       PROVE  owner[e] # Nobody /\ vcm'[owner[e]] # None /\ (e = c \/ e = d)
  BY <1>1, <1>7, <1>8, <1>9, <1>10, <1>13, Zenon DEF Seated
<1> QED
  BY <1>1, <1>6, <1>10, <1>11, <1>12, <1>13, Zenon DEF Seated

(* The commit tick: the note it sends is the newest news. *)
LEMMA SettlingTransfer ==
  ASSUME TInv, Settling, lost = 0, lost' = 0, OnPlayerTransfer
  PROVE  Settling'
<1>t. /\ moving \in [from : Cells, to : Cells] /\ clock \in Nat /\ lost \in Nat
      /\ seat \in [Cells -> {"none", "active", "grace"}] /\ owner[moving.to] # Nobody
      /\ \A e \in Cells : owner[e] # Nobody => owner[e] \in Hosts
  BY RoutesAssumption, Zenon DEF TInv, TypeOK, OnPlayerTransfer
<1>p. PICK c \in Cells, d \in Cells : c = moving.from /\ d = moving.to
  BY <1>t, Zenon
<1>n. PICK m : m = [host |-> owner[d], cell |-> d, at |-> clock + 1]
  BY Zenon
<1>m. m \in Note /\ m.host = owner[d] /\ m.cell = d /\ m.at = clock + 1
  BY <1>t, <1>p, <1>n DEF Note
<1>1. /\ moving # None /\ moving' = None
      /\ seat' = [seat EXCEPT ![c] = "none"]
      /\ clock' = clock + 1
      /\ \/ vcm[owner[c]] # None /\ migrated' = [migrated EXCEPT ![owner[c]] = Append(@, m)]
         \/ vcm[owner[c]] = None /\ migrated' = migrated
      /\ UNCHANGED <<owner, route, vcm, mesh, toCoord, applied>>
  <2>1. ~Loses
    BY <1>t DEF Loses
  <2> QED
    BY <1>p, <1>n, <2>1, Zenon DEF OnPlayerTransfer, stream
<1>2. AssignDue' = AssignDue
  BY <1>1, Zenon DEF AssignDue
<1>3. clock >= 1 /\ applied <= clock /\ \A n \in News : n.at \in Nat /\ n.at <= clock
  BY Zenon DEF Settling
<1>4. clock' > 1 /\ clock' >= 1 /\ m.at = clock' /\ clock' \in Nat /\ (applied \in Nat => applied' <= clock')
      /\ \A k \in Nat : k <= clock => k <= clock' /\ ~(clock' <= k)
  BY <1>1, <1>3, <1>t, <1>m
<1>5. applied \in Nat
  BY Zenon DEF TInv, TypeOK
<1>6. CASE migrated' = migrated
  <2>1. News' = News
    BY <1>1, <1>6, NewsSame, Zenon
  <2>2. Doomed'
    <3>1. CASE Doomed
      BY <1>1, <1>2, <1>4, <2>1, <3>1, Zenon DEF Doomed
    <3>2. CASE AssignDue
      BY <1>2, <1>4, <3>2, Zenon DEF Doomed
    <3>3. CASE ~Doomed /\ ~AssignDue
      <4>1. vcm[owner[c]] # None
        BY <1>1, <1>p, <3>3, Zenon DEF Settling, Seated
      <4>2. FALSE
        <5>1. PICK h : h = owner[c]
          BY Zenon
        <5>2. h \in Hosts
          BY <1>t, <3>3, <1>1, <1>p, <5>1, Zenon DEF Settling, Seated
        <5>3. migrated[h] \in Seq(Note) /\ migrated'[h] = Append(migrated[h], m)
          BY <1>1, <4>1, <5>1, <5>2, Zenon DEF TInv, TypeOK
        <5> QED
          BY <1>6, <1>m, <5>3
      <4> QED
        BY <4>2, Zenon
    <3> QED
      BY <3>1, <3>2, <3>3, Zenon
  <2> QED
    BY <1>3, <1>4, <1>5, <2>1, <2>2, Zenon DEF Settling
<1>7. CASE vcm[owner[c]] # None /\ migrated' = [migrated EXCEPT ![owner[c]] = Append(@, m)]
  <2>0. CASE owner[c] \notin Hosts
    <3>1. migrated' = migrated
      BY <1>7, <2>0, Zenon DEF TInv, TypeOK
    <3> QED
      BY <1>6, <3>1, Zenon
  <2> SUFFICES ASSUME owner[c] \in Hosts PROVE Settling'
    BY <2>0, Zenon
  <2>1. News' = News \union {m}
    BY <1>1, <1>7, <1>m, NewsSent, Zenon
  <2>2. \A n \in News' : n.at \in Nat /\ n.at <= clock'
    BY <1>3, <1>4, <2>1
  <2>3. SUFFICES ASSUME ~Doomed' PROVE ~AssignDue /\ Seated(d)'
    BY <1>2, <1>4, <1>5, <2>2, Zenon DEF Settling
  <2>4. ~AssignDue
    BY <1>2, <1>4, <2>3, Zenon DEF Doomed
  <2>5. ~Doomed
    BY <1>1, <2>1, <2>3, <2>4, Zenon DEF Doomed
  <2>6. PICK e \in Cells : Seated(e)
    BY <2>4, <2>5, Zenon DEF Settling
  <2>7. Seated(c) /\ d # c /\ seat[d] = "active"
    BY <1>1, <1>p, <2>6, Zenon DEF Seated
  <2>8. seat'[c] = "none" /\ \A x \in Cells : x # c => seat'[x] = seat[x]
    BY <1>1, <1>t, Zenon
  <2>9. \A x \in Cells : seat'[x] = "active" => x = d
    BY <1>p, <2>7, <2>8, Zenon DEF Seated
  <2>10. owner[d] # Nobody /\ vcm[owner[d]] # None
    BY <2>7, Zenon DEF Seated
  <2>11. Located(d)'
    <3>1. Newest(m)' /\ m \in News'
      BY <1>4, <2>1, <2>2, Zenon DEF Newest
    <3>2. ASSUME NEW n \in News', Newest(n)' PROVE n = m
      <4>1. clock' <= n.at
        BY <1>4, <3>1, <3>2, Zenon DEF Newest
      <4> QED
        BY <1>3, <1>4, <2>1, <4>1, Zenon
    <3> QED
      BY <1>1, <1>m, <3>1, <3>2, Zenon DEF Located
  <2> QED
    BY <1>1, <2>4, <2>7, <2>8, <2>9, <2>10, <2>11, Zenon DEF Seated
<1> QED
  BY <1>1, <1>6, <1>7, Zenon

(* Somebody else's cell is transferred: the player's place stays.  Its own *)
(* is: the coordinator knows at once, so older news comes too late, and    *)
(* without news the route follows.                                         *)
LEMMA SettlingCommit ==
  ASSUME TInv, Settling, NEW c \in Cells, NEW d \in Cells, NEW h \in Hosts, Commit(c, d, h),
         \/ /\ c = d /\ owner' = [owner EXCEPT ![c] = h] /\ seat' = seat
         \/ /\ owner[d] = Nobody /\ owner' = [owner EXCEPT ![c] = Nobody, ![d] = h]
            /\ seat' = [seat EXCEPT ![c] = "none", ![d] = seat[c]]
  PROVE  Settling'
<1>1. /\ moving = None /\ owner[c] # Nobody /\ clock' = clock + 1
      /\ vcm' = (IF seat[c] = "none" \/ vcm[owner[c]] = None THEN vcm
                 ELSE [vcm EXCEPT ![h] = RegisterSession(@, vcm[owner[c]].epoch, d)])
      /\ seat[c] # "active" => applied' = applied
      /\ seat[c] = "active" => applied' = IF clock + 1 > applied THEN clock + 1 ELSE applied
      /\ \/ route # None /\ route.cell = c /\ Reroute(h, d)
         \/ ~(route # None /\ route.cell = c) /\ UNCHANGED <<route, registers, switches>>
      /\ UNCHANGED <<moving, mesh, migrated, toCoord>>
  BY Zenon DEF Commit, Hears
<1>t. /\ vcm \in [Hosts -> Entry \union {None}] /\ seat \in [Cells -> {"none", "active", "grace"}]
      /\ owner \in [Cells -> Hosts \union {Nobody}] /\ clock \in Nat /\ applied \in Nat
      /\ (\A e \in Cells : owner[e] # Nobody => owner[e] \in Hosts) /\ h # Nobody
  BY RoutesAssumption, Zenon DEF TInv, TypeOK
<1>2. News' = News
  BY <1>1, NewsSame, Zenon
<1>3. AssignDue' = AssignDue
  BY <1>1, Zenon DEF AssignDue
<1>4. clock >= 1 /\ applied <= clock /\ \A n \in News : n.at \in Nat /\ n.at <= clock
  BY Zenon DEF Settling
<1>5. clock' > 1 /\ clock' >= 1 /\ applied' <= clock' /\ applied <= applied' /\ applied' \in Nat
      /\ (seat[c] = "active" => applied' = clock')
      /\ \A k \in Nat : k <= clock => k <= clock' /\ k < clock'
  BY <1>1, <1>4, <1>t
<1>6. \A n \in News' : n.at \in Nat /\ n.at <= clock'
  BY <1>2, <1>4, <1>5, Zenon
<1>7. SUFFICES ASSUME ~Doomed' PROVE ~AssignDue /\ \E e \in Cells : Seated(e)'
  BY <1>3, <1>5, <1>6, Zenon DEF Settling
<1>8. ~AssignDue
  BY <1>3, <1>5, <1>7, Zenon DEF Doomed
<1>9. ~Doomed
  <2> SUFFICES ASSUME NEW n \in News, n.at < applied PROVE FALSE
    BY <1>8, Zenon DEF Doomed
  <2>1. n.at < applied'
    BY <1>4, <1>5, <1>t
  <2> QED
    BY <1>2, <1>7, <2>1, Zenon DEF Doomed
<1>10. PICK x \in Cells : Seated(x)
  BY <1>8, <1>9, Zenon DEF Settling
<1>11. /\ seat[x] = "active" /\ owner[x] # Nobody /\ vcm[owner[x]] # None /\ owner[x] \in Hosts
       /\ \A e \in Cells : seat[e] = "active" => e = x
  BY <1>1, <1>10, <1>t, Zenon DEF Seated
<1>12. \A g \in Hosts : vcm[g] # None => vcm'[g] # None
  <2>1. CASE vcm' = vcm
    BY <2>1, Zenon
  <2>2. CASE vcm[owner[c]] # None /\ vcm' = [vcm EXCEPT ![h] = RegisterSession(@, vcm[owner[c]].epoch, d)]
    <3>1. vcm'[h] = RegisterSession(vcm[h], vcm[owner[c]].epoch, d) /\ \A g \in Hosts : g # h => vcm'[g] = vcm[g]
      BY <1>t, <2>2, Zenon
    <3>2. owner[c] \in Hosts
      BY <1>1, <1>t, Zenon
    <3>3. vcm[owner[c]].epoch \in Nat /\ vcm[h] \in Entry \union {None}
      BY <1>t, <2>2, <3>2, Zenon DEF Entry
    <3>4. vcm'[h] # None
      BY <3>1, <3>3, RegisterSessionType, NoneIsNoPlace
    <3> QED
      BY <3>1, <3>4, Zenon
  <2> QED
    BY <1>1, <2>1, <2>2, Zenon
<1>13. CASE c # x
  <2>1. seat[c] # "active"
    BY <1>11, <1>13, Zenon
  <2>2. owner'[x] = owner[x] /\ seat'[x] = seat[x] /\ \A e \in Cells : seat'[e] = "active" => e = x
    <3>1. CASE c = d /\ owner' = [owner EXCEPT ![c] = h] /\ seat' = seat
      BY <1>t, <1>11, <1>13, <3>1, Zenon
    <3>2. CASE /\ owner[d] = Nobody /\ owner' = [owner EXCEPT ![c] = Nobody, ![d] = h]
               /\ seat' = [seat EXCEPT ![c] = "none", ![d] = seat[c]]
      BY <1>t, <1>11, <1>13, <2>1, <3>2, Zenon
    <3> QED
      BY <3>1, <3>2, Zenon
  <2>3. Located(x)'
    <3>1. CASE News = {}
      <4>1. route # None /\ route.cell = x /\ route.host = owner[x]
        BY <1>10, <3>1, Zenon DEF Seated, Located
      <4>2. route' = route
        BY <1>1, <1>13, <4>1, Zenon
      <4> QED
        BY <1>2, <2>2, <3>1, <4>1, <4>2, Zenon DEF Located
    <3>2. CASE News # {}
      BY <1>2, <1>10, <2>2, <3>2, Zenon DEF Seated, Located, Newest
    <3> QED
      BY <3>1, <3>2, Zenon
  <2>4. Seated(x)'
    BY <1>1, <1>11, <1>12, <2>2, <2>3, Zenon DEF Seated
  <2> QED
    BY <1>8, <2>4, Zenon
<1>14. CASE c = x
  <2>1. News = {}
    <3> SUFFICES ASSUME NEW n \in News PROVE FALSE
      BY Zenon
    <3>1. n.at < applied'
      <4>1. n.at \in Nat /\ n.at <= clock
        BY <1>4, Zenon
      <4>2. n.at < clock'
        BY <1>5, <4>1, Zenon
      <4> QED
        BY <1>5, <1>11, <1>14, <4>2, Zenon
    <3> QED
      BY <1>2, <1>7, <3>1, Zenon DEF Doomed
  <2>2. route # None /\ route.cell = c /\ Reroute(h, d)
    BY <1>1, <1>10, <1>14, <2>1, Zenon DEF Seated, Located
  <2>3. route' \in Place /\ route'.cell = d /\ route'.host = h
    BY <2>2, RerouteType, Zenon DEF TInv, Reroute, Migrate
  <2>4. vcm'[h] # None
    <3>1. vcm' = [vcm EXCEPT ![h] = RegisterSession(@, vcm[owner[c]].epoch, d)]
      BY <1>1, <1>11, <1>14, Zenon
    <3>2. vcm'[h] = RegisterSession(vcm[h], vcm[owner[c]].epoch, d)
      BY <1>t, <3>1, Zenon
    <3>3. vcm[owner[c]].epoch \in Nat /\ vcm[h] \in Entry \union {None}
      BY <1>t, <1>11, <1>14, Zenon DEF Entry
    <3> QED
      BY <3>2, <3>3, RegisterSessionType, NoneIsNoPlace
  <2>5. owner'[d] = h /\ seat'[d] = "active" /\ \A e \in Cells : seat'[e] = "active" => e = d
    <3>1. CASE c = d /\ owner' = [owner EXCEPT ![c] = h] /\ seat' = seat
      BY <1>t, <1>11, <1>14, <3>1, Zenon
    <3>2. CASE /\ owner[d] = Nobody /\ owner' = [owner EXCEPT ![c] = Nobody, ![d] = h]
               /\ seat' = [seat EXCEPT ![c] = "none", ![d] = seat[c]]
      BY <1>t, <1>11, <1>14, <3>2, Zenon
    <3> QED
      BY <3>1, <3>2, Zenon
  <2>6. Located(d)'
    <3>1. route' # None
      BY <2>3, NoneIsNoPlace, Zenon
    <3> QED
      BY <1>2, <2>1, <2>3, <2>5, <3>1, Zenon DEF Located
  <2>7. Seated(d)'
    BY <1>1, <1>t, <2>4, <2>5, <2>6, Zenon DEF Seated
  <2> QED
    BY <1>8, <2>7, Zenon
<1> QED
  BY <1>13, <1>14, Zenon

(* What is left when the coordinator has read a note, or the announcement. *)
LEMMA NewsNoted ==
  ASSUME TInv, NEW h \in Hosts, migrated[h] # <<>>, migrated' = [migrated EXCEPT ![h] = Tail(@)],
         toCoord' = toCoord
  PROVE  /\ Head(migrated[h]) \in News /\ Head(migrated[h]) \in Note
         /\ News' \subseteq News /\ News \subseteq News' \union {Head(migrated[h])}
         /\ Announced' = Announced
<1>1. Announced' = Announced
  BY Zenon DEF Announced
<1>2. migrated[h] \in Seq(Note) /\ migrated'[h] = Tail(migrated[h])
      /\ \A g \in Hosts : g # h => migrated'[g] = migrated[g]
  BY Zenon DEF TInv, TypeOK
<1>3. /\ Head(migrated[h]) = migrated[h][1] /\ 1 \in 1..Len(migrated[h])
      /\ \A i \in 1..Len(migrated'[h]) : i + 1 \in 1..Len(migrated[h]) /\ migrated'[h][i] = migrated[h][i + 1]
  <2>1. PICK q \in Seq(Note) : q = migrated[h]
    BY <1>2, Zenon
  <2>2. /\ Head(q) = q[1] /\ 1 \in 1..Len(q)
        /\ \A i \in 1..Len(Tail(q)) : i + 1 \in 1..Len(q) /\ Tail(q)[i] = q[i + 1]
    <3>1. q # <<>>
      BY <2>1, Zenon
    <3> QED
      BY <3>1, TailFacts, Zenon
  <2>3. migrated'[h] = Tail(q)
    BY <1>2, <2>1, Zenon
  <2> QED
    BY <2>1, <2>2, <2>3, Zenon
<1>4. \A i \in 1..Len(migrated[h]) : i = 1 \/ \E j \in 1..Len(migrated'[h]) : migrated'[h][j] = migrated[h][i]
  <2> SUFFICES ASSUME NEW i \in 1..Len(migrated[h]), i # 1
               PROVE  \E j \in 1..Len(migrated'[h]) : migrated'[h][j] = migrated[h][i]
    BY Zenon
  <2>1. i - 1 \in 1..Len(migrated'[h]) /\ (i - 1) + 1 = i
    BY <1>2
  <2> QED
    BY <1>3, <2>1, Zenon
<1>5. Notes(h)' \subseteq Notes(h) /\ Notes(h) \subseteq Notes(h)' \union {Head(migrated[h])}
      /\ Head(migrated[h]) \in Notes(h)
  <2>1. ASSUME NEW x \in Notes(h)' PROVE x \in Notes(h)
    <3>1. PICK i \in 1..Len(migrated'[h]) : x = migrated'[h][i]
      BY Zenon DEF Notes
    <3> QED
      BY <1>3, <3>1, Zenon DEF Notes
  <2>2. ASSUME NEW x \in Notes(h) PROVE x \in Notes(h)' \union {Head(migrated[h])}
    <3>1. PICK i \in 1..Len(migrated[h]) : x = migrated[h][i]
      BY Zenon DEF Notes
    <3> QED
      BY <1>3, <1>4, <3>1, Zenon DEF Notes
  <2>3. Head(migrated[h]) \in Notes(h)
    BY <1>3, Zenon DEF Notes
  <2> QED
    BY <2>1, <2>2, <2>3, Zenon
<1>6. \A g \in Hosts : g # h => Notes(g)' = Notes(g)
  BY <1>2, Zenon DEF Notes
<1>7. Head(migrated[h]) \in Note
  BY <1>2, <1>3, ElementType
<1>8. Head(migrated[h]) \in News
  BY <1>5, Zenon DEF News
<1>9. News' \subseteq News
  BY <1>1, <1>5, <1>6, Zenon DEF News
<1>10. News \subseteq News' \union {Head(migrated[h])}
  BY <1>1, <1>5, <1>6, Zenon DEF News
<1> QED
  BY <1>1, <1>7, <1>8, <1>9, <1>10, Zenon

LEMMA SettlingNoted ==
  ASSUME TInv, SInv, EInv, KInv, HInv, blips = 0, gw # None, Settling,
         NEW h \in Hosts, notifyPlayerMigrated(h), ~disordered'
  PROVE  Settling'
<1>p. PICK m : m = Head(migrated[h])
  BY Zenon
<1>1. /\ migrated[h] # <<>> /\ migrated' = [migrated EXCEPT ![h] = Tail(@)]
      /\ ~(m.at < applied) /\ applied' = (IF m.at > applied THEN m.at ELSE applied)
      /\ \/ route # None /\ Reroute(m.host, m.cell)
         \/ route = None /\ UNCHANGED <<route, registers, switches>>
      /\ UNCHANGED <<owner, seat, moving, vcm, mesh, clock, toCoord>>
  BY <1>p, Zenon DEF notifyPlayerMigrated, Hears, world
<1>2. m \in News /\ m \in Note /\ News' \subseteq News /\ News \subseteq News' \union {m} /\ Announced' = Announced
  BY <1>p, <1>1, NewsNoted, Zenon
<1>3. News' = {} => route' # None /\ route'.cell = m.cell /\ route'.host = m.host
  <2>1. CASE route # None /\ Reroute(m.host, m.cell)
    <3>1. m.host \in Hosts /\ m.cell \in Cells
      BY <1>2, Zenon DEF Note
    <3>2. route' \in Place
      BY <2>1, <3>1, RerouteType, Zenon DEF TInv
    <3>3. route'.cell = m.cell /\ route'.host = m.host
      BY <2>1, Zenon DEF Reroute, Migrate
    <3> QED
      BY <3>2, <3>3, NoneIsNoPlace, Zenon
  <2>2. CASE route = None
    <3>1. toCoord # <<>> /\ \A i \in 1..Len(toCoord) : toCoord[i].kind = "announce"
      BY <2>2, RouteOrAnnounce, Zenon
    <3>2. toCoord \in Seq(Message)
      BY Zenon DEF TInv, TypeOK
    <3>3. 1 \in 1..Len(toCoord)
      BY <3>1, <3>2, TailFacts, Zenon
    <3>4. toCoord[1] \in Announced
      BY <3>1, <3>3, Zenon DEF Announced
    <3>5. toCoord[1] \in News'
      BY <1>2, <3>4, Zenon DEF News
    <3> QED
      BY <3>5, Zenon
  <2> QED
    BY <1>1, <2>1, <2>2, Zenon
<1>4. applied \in Nat
  BY Zenon DEF TInv, TypeOK
<1> QED
  BY <1>1, <1>2, <1>3, <1>4, SettlingRead, Zenon

LEMMA SettlingAnnounced ==
  ASSUME TInv, SInv, EInv, KInv, HInv, blips = 0, gw # None, Settling, ReadAnnounce, ~disordered'
  PROVE  Settling'
<1>p. PICK m : m = Head(toCoord)
  BY Zenon
<1>0. toCoord \in Seq(Message) /\ applied \in Nat
  BY Zenon DEF TInv, TypeOK
<1>1. /\ toCoord # <<>> /\ toCoord' = Tail(toCoord) /\ HandleSessionAnnounce(m)
      /\ UNCHANGED <<owner, seat, moving, vcm, mesh, clock, migrated>>
  BY <1>p, Zenon DEF ReadAnnounce, world
<1>2. m = toCoord[1] /\ 1 \in 1..Len(toCoord) /\ m \in Message
  BY <1>p, <1>0, <1>1, TailFacts, ElementType, ZenonT(60)
<1>3. m.kind = "announce" /\ \A i \in 1..Len(toCoord) : i = 1
  BY <1>2, RouteOrAnnounce, Zenon
<1>4. /\ route' = [host |-> m.host, cell |-> m.cell, epoch |-> 1]
      /\ ~(m.at < applied) /\ applied' = (IF m.at > applied THEN m.at ELSE applied)
  BY <1>1, <1>3, Zenon DEF HandleSessionAnnounce, Hears
<1>5. route' # None
  BY <1>1, <1>2, <1>3, AnnouncedRoute, Zenon
<1>6. Announced = {m}
  BY <1>2, <1>3, Zenon DEF Announced
<1>7. Announced' = {}
  <2>1. \A i \in 1..Len(toCoord') : i + 1 \in 1..Len(toCoord)
    BY <1>0, <1>1, TailFacts, Zenon
  <2>2. \A i \in 1..Len(toCoord') : FALSE
    <3> SUFFICES ASSUME NEW i \in 1..Len(toCoord') PROVE FALSE
      BY Zenon
    <3>1. i + 1 = 1 /\ i \in Nat /\ i >= 1
      BY <1>0, <1>1, <1>3, <2>1
    <3> QED
      BY <3>1
  <2> QED
    BY <2>2, Zenon DEF Announced
<1>8. \A h \in Hosts : Notes(h)' = Notes(h)
  BY <1>1, Zenon DEF Notes
<1>9. m \in News /\ News' \subseteq News /\ News \subseteq News' \union {m}
  BY <1>6, <1>7, <1>8, Zenon DEF News
<1>10. route'.cell = m.cell /\ route'.host = m.host
  BY <1>4, Zenon
<1> QED
  BY <1>0, <1>1, <1>4, <1>5, <1>9, <1>10, SettlingRead, Zenon

LEMMA PInvStep ==
  TInv /\ SInv /\ EInv /\ KInv /\ HInv /\ PInv /\ [Next]_vars => PInv'
<1> SUFFICES ASSUME TInv, SInv, EInv, KInv, HInv, PInv, [Next]_vars,
                    blips' = 0, lost' = 0, ~disordered', gw' # None
             PROVE  Settling'
  BY Zenon DEF PInv, InOrder
<1>0. blips = 0 /\ CalmNext
  BY Calm, Zenon
<1>1. ASSUME NEW c \in Cells, dispatchPostAuthAssignment(c) PROVE Settling'
  <2>1. Untouched
    BY <1>0, <1>1, Zenon DEF HInv, dispatchPostAuthAssignment
  <2> QED
    BY <1>0, <1>1, <2>1, SettlingLogin, Zenon
<1>2. ASSUME lost' = lost \/ Loses, disordered => disordered', gw # None
      PROVE  lost = 0 /\ Settling /\ Led
  <2>1. lost \in Nat
    BY RoutesAssumption DEF TInv, TypeOK
  <2>2. lost = 0
    BY <1>2, <2>1 DEF Loses
  <2> QED
    BY <1>0, <1>2, <2>2, Zenon DEF PInv, InOrder, HInv
<1>3. CASE handleDisconnect
  BY <1>3, Zenon DEF handleDisconnect
<1>4. CASE OnUpstreamSwitch
  <2>1. /\ lost' = lost /\ disordered' = disordered /\ gw # None /\ vcm' = vcm
        /\ UNCHANGED <<owner, seat, moving, route, toCoord, migrated, mesh, clock, applied>>
    BY <1>4, Zenon DEF OnUpstreamSwitch, world, history
  <2> QED
    BY <1>2, <2>1, SettlingSame, Zenon
<1>5. CASE UNCHANGED vars
  <2>1. /\ lost' = lost /\ disordered' = disordered /\ gw' = gw /\ vcm' = vcm
        /\ UNCHANGED <<owner, seat, moving, route, toCoord, migrated, mesh, clock, applied>>
    BY <1>5, Zenon DEF vars, world, history, stream
  <2> QED
    BY <1>2, <2>1, SettlingSame, Zenon
<1>6. ASSUME NEW h \in Hosts, HandleSessionRegister(h) PROVE Settling'
  <2>1. /\ lost' = lost /\ disordered' = disordered /\ gw' = gw
        /\ vcm' = [vcm EXCEPT ![h] = RegisterSession(@, Head(registers[h]).epoch, Head(registers[h]).cell)]
        /\ UNCHANGED <<owner, seat, moving, route, toCoord, migrated, mesh, clock, applied>>
    BY <1>6, Zenon DEF HandleSessionRegister, world, history, stream
  <2>2. Head(registers[h]) \in Entry
    BY <1>6, TailFacts, ElementType DEF HandleSessionRegister, TInv, TypeOK
  <2>3. Head(registers[h]).epoch \in Nat /\ Head(registers[h]).cell \in Cells
    BY <2>2, Zenon DEF Entry
  <2>4. vcm \in [Hosts -> Entry \union {None}] /\ vcm[h] \in Entry \union {None}
    BY Zenon DEF TInv, TypeOK
  <2>5. vcm'[h] = RegisterSession(vcm[h], Head(registers[h]).epoch, Head(registers[h]).cell)
        /\ \A g \in Hosts : g # h => vcm'[g] = vcm[g]
    BY <2>1, <2>4, Zenon
  <2>6. vcm'[h] # None
    BY <2>3, <2>4, <2>5, RegisterSessionType, NoneIsNoPlace, Zenon
  <2>7. \A g \in Hosts : vcm[g] # None => vcm'[g] # None
    BY <2>5, <2>6, Zenon
  <2> QED
    BY <1>2, <2>1, <2>7, SettlingSame, Zenon
<1>7. ASSUME NEW h \in Hosts, routeInboundFrame(h) PROVE Settling'
  <2>1. lost' = lost /\ gw' = gw
    BY <1>7, Zenon DEF routeInboundFrame
  <2>2. disordered' = (disordered \/ clock > 1) \/ disordered' = disordered
    BY <1>7, Zenon DEF routeInboundFrame
  <2>3. disordered => disordered'
    BY <2>2, Zenon
  <2> QED
    BY <1>2, <1>7, <2>1, <2>3, SettlingArrival, Zenon
<1>8. ASSUME NEW h \in Hosts, notifyPlayerMigrated(h) PROVE Settling'
  <2>1. lost' = lost /\ (disordered => disordered') /\ gw' = gw
    BY <1>8, Zenon DEF notifyPlayerMigrated, Hears
  <2> QED
    BY <1>0, <1>2, <1>8, <2>1, SettlingNoted, Zenon
<1>9. CASE ReadAnnounce
  <2>1. lost' = lost /\ gw' = gw
    BY <1>9, Zenon DEF ReadAnnounce
  <2>2. disordered' = (disordered \/ Head(toCoord).at < applied) \/ disordered' = disordered
    BY <1>9, Zenon DEF ReadAnnounce, HandleSessionAnnounce, Hears
  <2>3. disordered => disordered'
    BY <2>2, Zenon
  <2> QED
    BY <1>0, <1>2, <1>9, <2>1, <2>3, SettlingAnnounced, Zenon
<1>10. CASE OnPlayerTransfer
  <2>1. (lost' = lost \/ Loses) /\ disordered' = disordered /\ gw' = gw
    BY <1>10, Zenon DEF OnPlayerTransfer
  <2> QED
    BY <1>2, <1>10, <2>1, SettlingTransfer, Zenon
<1>11. ASSUME NEW c \in Cells, NEW d \in Cells, AcceptHandoff(c, d) PROVE Settling'
  <2>1. lost' = lost /\ disordered' = disordered /\ gw' = gw
    BY <1>11, Zenon DEF AcceptHandoff, history
  <2> QED
    BY <1>2, <1>11, <2>1, SettlingAccept, Zenon
<1>12. ASSUME NEW c \in Cells, NEW d \in Cells, NEW h \in Hosts, Commit(c, d, h)
       PROVE  Settling /\ Led
  <2>1. lost' = lost /\ (disordered => disordered') /\ gw' = gw
    BY <1>12, Zenon DEF Commit, Hears
  <2> QED
    BY <1>2, <2>1, Zenon
<1>13. ASSUME NEW c \in Cells, NEW h \in Hosts, CommitMigrate(c, h) PROVE Settling'
  <2>1. Commit(c, c, h) /\ owner' = [owner EXCEPT ![c] = h] /\ seat' = seat
    BY <1>13, Zenon DEF CommitMigrate
  <2> QED
    BY <1>12, <2>1, SettlingCommit, Zenon
<1>14. ASSUME NEW c \in Cells, NEW d \in Cells, NEW h \in Hosts, CommitReshape(c, d, h) PROVE Settling'
  <2>1. Commit(c, d, h) /\ owner[d] = Nobody /\ owner' = [owner EXCEPT ![c] = Nobody, ![d] = h]
        /\ seat' = [seat EXCEPT ![c] = "none", ![d] = seat[c]]
    BY <1>14, Zenon DEF CommitReshape
  <2> QED
    BY <1>12, <2>1, SettlingCommit, Zenon
<1> QED
  BY <1>0, <1>1, <1>3, <1>4, <1>5, <1>6, <1>7, <1>8, <1>9, <1>10, <1>11, <1>13, <1>14, Zenon DEF CalmNext

LEMMA Settles == TInv /\ HInv /\ PInv => SettledRoute
<1> SUFFICES ASSUME TInv, HInv, PInv, Quiet, InOrder, gw # None
             PROVE  /\ route = gw
                    /\ \A c \in Cells : seat[c] = "active" <=> c = gw.cell
                    /\ gw.host = owner[gw.cell]
                    /\ InjectChannelInputWithEpoch(gw.host, gw.epoch)
  BY Zenon DEF SettledRoute
<1>0. Len(<<>>) = 0
  BY Zenon
<1>1. News = {}
  <2>1. Announced = {}
    BY <1>0 DEF Announced, Quiet
  <2>2. \A h \in Hosts : Notes(h) = {}
    BY <1>0 DEF Notes, Quiet
  <2> QED
    BY <2>1, <2>2, Zenon DEF News
<1>2. ~AssignDue /\ ~Doomed
  BY <1>1, Zenon DEF AssignDue, Doomed, Quiet
<1>3. PICK c \in Cells : Seated(c)
  BY <1>2, Zenon DEF PInv, Settling
<1>4. route # None /\ route.cell = c /\ route.host = owner[c] /\ seat[c] = "active"
      /\ \A d \in Cells : seat[d] = "active" => d = c
  BY <1>1, <1>3, Zenon DEF Seated, Located, Quiet
<1>5. gw = route
  BY <1>4, Zenon DEF HInv, InOrder, Led, Current, Quiet
<1>6. InjectChannelInputWithEpoch(gw.host, gw.epoch)
  BY Admits, Zenon DEF InputAdmitted, InOrder
<1> QED
  BY <1>4, <1>5, <1>6, Zenon

-----------------------------------------------------------------------------
LEMMA InitInv == Init => TInv /\ SInv /\ EInv /\ KInv
<1> SUFFICES ASSUME Init PROVE TInv /\ SInv /\ EInv /\ KInv
  BY Zenon
<1> USE RoutesAssumption
<1>1. TInv
  <2>1. tracked \in BOOLEAN /\ evicted \in BOOLEAN /\ disordered \in BOOLEAN
    BY Zenon DEF Init
  <2>2. blips \in 0..MaxBlips /\ lost \in 0..MaxLost /\ clock \in Nat /\ applied \in Nat
    BY DEF Init
  <2>3. /\ mesh \in [Hosts -> Seq(Frame)]
        /\ migrated \in [Hosts -> Seq(Note)]
        /\ registers \in [Hosts -> Seq(Entry)]
        /\ toCoord \in Seq(Message) /\ switches \in Seq(Place) /\ late \in Seq(Message)
    BY DEF Init
  <2>4. /\ owner \in [Cells -> Hosts \union {Nobody}]
        /\ seat \in [Cells -> {"none", "active", "grace"}]
        /\ vcm \in [Hosts -> Entry \union {None}]
    BY Zenon DEF Init
  <2> QED
    BY <2>1, <2>2, <2>3, <2>4, Zenon DEF Init, TInv, TypeOK
<1>2. SInv
  BY DEF Init, SInv
<1>3. EInv
  BY DEF Init, EInv, Unrouted, EpochNamesRoute
<1>4. KInv
  BY Zenon DEF Init, KInv
<1> QED
  BY <1>1, <1>2, <1>3, <1>4, Zenon

LEMMA Invariants == Spec => [](TInv /\ SInv /\ EInv /\ KInv /\ HInv /\ PInv)
<1>1. Init => HInv /\ PInv
  BY HInvInit, Zenon DEF Init, PInv
<1>2. /\ TInv /\ SInv /\ EInv /\ KInv /\ HInv /\ PInv /\ [Next]_vars
      => (TInv /\ SInv /\ EInv /\ KInv /\ HInv /\ PInv)'
  BY TInvStep, SInvStep, EInvStep, KInvStep, HInvStep, PInvStep, Zenon
<1> QED
  BY InitInv, <1>1, <1>2, PTL DEF Spec

(* Every variable keeps its type, for any hosts, cells, layout and bounds. *)
THEOREM TypesHold == Spec => []TypeOK
<1>1. TInv => TypeOK
  BY Zenon DEF TInv
<1> QED
  BY Invariants, <1>1, PTL

(* The fencing epoch names one place: as long as the gateway's control     *)
(* stream has not blipped, no epoch at large is above the coordinator's,   *)
(* and whoever holds the coordinator's epoch holds its host and cell, over *)
(* any number of handoffs and cell transfers.                              *)
THEOREM EpochsFence == Spec => []EpochNamesRoute
<1>1. EInv => EpochNamesRoute
  BY Zenon DEF EInv, EpochNamesRoute
<1> QED
  BY Invariants, <1>1, PTL

(* A connected gateway with nothing left to announce has a route for its   *)
(* open session unless its heartbeats have lapsed, over any number of      *)
(* broken streams, evicted handlers and coordinator restarts.              *)
THEOREM RoutesStay == Spec => []RouteTracked
<1>1. KInv => RouteTracked
  BY DEF KInv, RouteTracked
<1> QED
  BY Invariants, <1>1, PTL

(* As long as the gateway's control stream has not broken, and once        *)
(* everything has arrived, the host that the gateway sends an open         *)
(* session's input to takes it, over any number of moves, failed sends and *)
(* notes read out of order.                                                *)
THEOREM InputIsAdmitted == Spec => []InputAdmitted
  BY Invariants, Admits, PTL

(* Without a fault, and if the coordinator heard of the moves in order,    *)
(* then once everything has arrived the gateway and the coordinator agree  *)
(* on the one cell that seats the player and on the host that runs it, for *)
(* any cells and hosts and any number of handoffs and cell transfers.      *)
THEOREM RoutesSettle == Spec => []SettledRoute
  BY Invariants, Settles, PTL
=============================================================================
