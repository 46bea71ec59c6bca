------------------------------ MODULE Datagram ------------------------------
(***************************************************************************)
(* The reliable channel of the UDP transport, from a client (udpclient) to *)
(* the server (UDPTransport), over a network that loses, delays, reorders  *)
(* and duplicates datagrams.  The session has been established; both ends  *)
(* run the same algorithm in both directions, so one direction is enough:  *)
(*                                                                         *)
(*   sender     sequence numbers modulo SeqMod, a ring of unacknowledged   *)
(*              messages, retransmission by a tick, a lifetime per message *)
(*   receiver   the highest sequence seen and a window of bits behind it,  *)
(*              both a duplicate filter and the acknowledgement it sends   *)
(*                                                                         *)
(* Packets are sealed under a counter and a replay window refuses second   *)
(* and very late copies.  That only removes deliveries, so the model lets  *)
(* every copy pass: what holds here does not rest on the window.           *)
(*                                                                         *)
(* The server half of the session also ends: by the tick's timeouts, by a  *)
(* Disconnect packet and by a kick, each on a goroutine of its own.        *)
(***************************************************************************)
EXTENDS Integers, FiniteSets

CONSTANTS
    SeqMod,       \* sequence numbers (2^16)
    Ring,         \* slots of sendBuf (reliableBufSize, 256)
    Window,       \* bits of recvBits (32)
    MaxAge,       \* ticks a message may stay unacknowledged (reliableTimeout)
    Scenes,       \* bounds of a behaviour: its first sequence number, the
                  \* messages sent, the goroutines that may end the session
    MaxMsgs,      \* messages in any behaviour
    MaxFails,     \* socket writes that fail in a run
    MaxInFlight   \* datagrams the network holds in each direction

ASSUME DatagramAssumption ==
    /\ {SeqMod, Ring, Window, MaxAge, MaxMsgs, MaxInFlight} \subseteq Nat \ {0}
    /\ MaxFails \in Nat
    /\ SeqMod % Ring = 0 /\ Window < Ring
    /\ Scenes \subseteq [start : 0 .. SeqMod - 1, msgs : 0 .. MaxMsgs,
                          enders : SUBSET {"tick", "reader", "kick"}]

\* The network of the model keeps a copy as long as it likes, where the code's
\* replay window (ReplayWindowSize) refuses one that old.  So a run is short
\* enough for sequence numbers to be told apart.
ASSUME RunAssumption ==
    2 * MaxMsgs < SeqMod /\ MaxMsgs + Window < SeqMod

VARIABLES
    sendSeq,    \* the client's next sequence number
    sendBuf,    \* [0 .. Ring - 1 -> reliableEntry]
    cliClosed,
    recv,       \* the server's recvInit, recvSeq, recvBits
    ackDirty,
    ackOut,     \* the acknowledgement the tick has taken and not yet written
    closed,     \* the server transport's closed flag
    byToken,    \* whether the server's session maps hold the transport
    conns,      \* whether the ConnManager tracks the connection
    ending,     \* [Enders -> where each goroutine that ends the session is]
    goodbyes,   \* Disconnect events the ConnManager has fired
    up, down,   \* datagrams in the network: to the server, to the client
    fails,
    next,       \* history: the next message the client's application sends
    refused,    \* history: messages whose SendReliable returned an error
    got,        \* history: how often each message was handed to routePayload
    written,    \* history: the last acknowledgement written
    scene       \* the bounds of this behaviour

client == <<sendSeq, sendBuf, cliClosed, next, refused>>
receiver == <<recv, ackDirty, got>>
acking == <<ackOut, written>>
session == <<closed, byToken, conns, ending, goodbyes>>
vars == <<client, receiver, acking, session, up, down, fails, scene>>

Messages == 1 .. MaxMsgs
Slots == 0 .. Ring - 1
Seqs == 0 .. SeqMod - 1
Free == [seq |-> 0, msg |-> 0, age |-> 0]
NoAck == [seq |-> 0, bits |-> {0}]

\* "tick": maintenanceTick; "reader": a Disconnect packet; "kick": Remove.
Enders == {"tick", "reader", "kick"}

Used(i) == sendBuf[i].msg # 0
Held(m) == \E i \in Slots : sendBuf[i].msg = m
Settled(g) == ending[g] \in {"idle", "done"}

-----------------------------------------------------------------------------
(* Sequence numbers and windows.                                           *)

NextSeq(s) == (s + 1) % SeqMod

SeqGreaterThan(a, b) ==
    \/ a > b /\ a - b <= SeqMod \div 2
    \/ a < b /\ b - a > SeqMod \div 2

\* A duplicate filter that forgets the previous highest sequence on a jump.
TrackForgetful(r, seq) ==
    LET ahead == (seq - r.seq) % SeqMod
        back == (r.seq - seq) % SeqMod
    IN  IF ~r.init
        THEN [init |-> TRUE, seq |-> seq, bits |-> {}]
        ELSE IF SeqGreaterThan(seq, r.seq)
        THEN [r EXCEPT !.seq = seq,
                       !.bits = {b \in 1 .. Window : b - ahead \in r.bits}]
        ELSE [r EXCEPT !.bits = @ \union ({back} \intersect 1 .. Window)]

\* recvBits is the set of distances behind recvSeq whose bit is set.  A jump
\* ahead shifts the bits and sets the one of the previous recvSeq, if it is
\* still inside the window; an older packet sets its own bit.
Track(r, seq) ==
    LET ahead == (seq - r.seq) % SeqMod
        back == (r.seq - seq) % SeqMod
    IN  IF ~r.init
        THEN [init |-> TRUE, seq |-> seq, bits |-> {}]
        ELSE IF SeqGreaterThan(seq, r.seq)
        THEN [r EXCEPT !.seq = seq,
                       !.bits = {b \in 1 .. Window :
                                    b = ahead \/ b - ahead \in r.bits}]
        ELSE [r EXCEPT !.bits = @ \union ({back} \intersect 1 .. Window)]

\* A packet is delivered when it is the first, a new highest, or an unseen one
\* inside the window.
Unseen(r, seq) ==
    LET back == (r.seq - seq) % SeqMod
    IN  \/ ~r.init
        \/ SeqGreaterThan(seq, r.seq)
        \/ back \in 1 .. Window /\ back \notin r.bits

-----------------------------------------------------------------------------
(* The network.  A datagram that is written may be lost at once; one that  *)
(* is received may stay, and so be received again.                         *)

Write(net, sent, net2) ==
    \E kept \in SUBSET sent :
        /\ Cardinality(net \union kept) <= MaxInFlight
        /\ net2 = net \union kept

Take(net, d, net2) == net2 \in {net, net \ {d}}

Reliable(e) == [kind |-> "reliable", seq |-> e.seq, msg |-> e.msg]
Disconnect == [kind |-> "disconnect", seq |-> 0, msg |-> 0]

-----------------------------------------------------------------------------
(* The client.                                                             *)

\* A failed first write takes the entry back out of the ring.
RollBack(buf, i, e) == [buf EXCEPT ![i] = Free]

\* SendReliable: the slot of the next sequence number must be free, or the
\* call returns ErrReliableWindowFull and nothing changes.  The sequence
\* number is used up even when the write fails.
SendReliable ==
    LET i == sendSeq % Ring
        e == [seq |-> sendSeq, msg |-> next, age |-> 0]
    IN  /\ ~cliClosed /\ next <= scene.msgs /\ ~Used(i)
        /\ sendSeq' = NextSeq(sendSeq)
        /\ next' = next + 1
        /\ \/ /\ sendBuf' = [sendBuf EXCEPT ![i] = e]
              /\ Write(up, {Reliable(e)}, up')
              /\ UNCHANGED <<refused, fails>>
           \/ /\ fails < MaxFails
              /\ fails' = fails + 1
              /\ sendBuf' = RollBack(sendBuf, i, e)
              /\ refused' = refused \union {next}
              /\ UNCHANGED up
        /\ UNCHANGED <<cliClosed, receiver, acking, session, down>>

\* Close clears the ring and sends one Disconnect packet.
CloseClient(net) ==
    /\ cliClosed' = TRUE
    /\ sendBuf' = [i \in Slots |-> Free]
    /\ Write(net, {Disconnect}, up')

\* The application closes the client, or nothing was heard for
\* connectionTimeout: the passing of time is any step here.
Close ==
    /\ ~cliClosed
    /\ CloseClient(up)
    /\ UNCHANGED <<sendSeq, next, refused, receiver, acking, session, down, fails>>

Expired(i) == Used(i) /\ sendBuf[i].age > MaxAge

\* The slots a pass of the tick reaches: it stops at the first expired one.
Reached == {i \in Slots : Used(i) /\ \A j \in 0 .. i : ~Expired(j)}

\* Those of them whose last write is a whole interval ago.
Resent == {i \in Reached : sendBuf[i].age > 0}

\* A tick that stops retransmitting an expired message and keeps its slot.
maintenanceTickLenient ==
    /\ ~cliClosed /\ \E i \in Slots : Used(i)
    /\ Write(up, {Reliable(sendBuf[i]) : i \in Resent}, up')
    /\ sendBuf' = [i \in Slots |-> IF i \in Reached
                                   THEN [sendBuf[i] EXCEPT !.age = @ + 1]
                                   ELSE sendBuf[i]]
    /\ UNCHANGED <<sendSeq, cliClosed, next, refused, receiver, acking, session,
                   down, fails>>

\* maintenanceTick of the client: every slot up to the first expired one is
\* sealed again and written with its stored sequence; an expired one closes
\* the client.
maintenanceTick ==
    LET sent == {Reliable(sendBuf[i]) : i \in Resent}
    IN  /\ ~cliClosed /\ \E i \in Slots : Used(i)
        /\ IF \E i \in Slots : Expired(i)
           THEN \E mid \in SUBSET (up \union sent) :
                    Write(up, sent, mid) /\ CloseClient(mid)
           ELSE /\ Write(up, sent, up')
                /\ sendBuf' = [i \in Slots |->
                                IF Used(i) THEN [sendBuf[i] EXCEPT !.age = @ + 1]
                                           ELSE sendBuf[i]]
                /\ UNCHANGED cliClosed
        /\ UNCHANGED <<sendSeq, next, refused, receiver, acking, session, down,
                       fails>>

\* Frees whatever message now occupies the ring slot of an acknowledged one.
markAckedBySlot(buf, seqs) ==
    [i \in Slots |-> IF \E s \in seqs : s % Ring = i THEN Free ELSE buf[i]]

\* Only the message with exactly that sequence number is released.
markAcked(buf, seqs) ==
    [i \in Slots |-> IF buf[i].msg # 0 /\ buf[i].seq \in seqs THEN Free ELSE buf[i]]

\* processACK: the sequence of the packet and those its bits name.
processACK(d) ==
    /\ ~cliClosed
    /\ sendBuf' = markAcked(sendBuf, {d.seq} \union {(d.seq - b) % SeqMod : b \in d.bits})
    /\ Take(down, d, down')
    /\ UNCHANGED <<sendSeq, cliClosed, next, refused, receiver, acking,
                   session, up, fails>>

\* A packet for a client whose socket is closed.
RefuseDown(d) ==
    /\ cliClosed
    /\ down' = down \ {d}
    /\ UNCHANGED <<client, receiver, acking, session, up, fails>>

-----------------------------------------------------------------------------
(* The server transport: its reader goroutine and its tick.                *)

\* handleReliable of a packet of a session in the maps, from its address.
\* ackDirty is set for duplicates as well: the acknowledgement may be lost.
handleReliable(d) ==
    /\ d.kind = "reliable" /\ Settled("reader")
    /\ byToken
    /\ recv' = Track(recv, d.seq)
    /\ ackDirty' = TRUE
    /\ IF Unseen(recv, d.seq)
       THEN got' = [got EXCEPT ![d.msg] = @ + 1]
       ELSE UNCHANGED got
    /\ Take(up, d, up')
    /\ UNCHANGED <<client, acking, session, down, fails>>

\* routeFor finds no session for the packet.
RefuseUp(d) ==
    /\ Settled("reader") /\ ~byToken
    /\ up' = up \ {d}
    /\ UNCHANGED <<client, receiver, acking, session, down, fails>>

\* takePendingACK: the tick snapshots the window and clears ackDirty.
takePendingACK ==
    /\ ackDirty /\ ackOut = NoAck /\ ending["tick"] = "idle"
    /\ ackOut' = [seq |-> recv.seq, bits |-> recv.bits]
    /\ ackDirty' = FALSE
    /\ UNCHANGED <<client, recv, got, written, session, up, down, fails>>

\* An acknowledgement that clears the flag once it is out.
sendACKClears ==
    /\ ackOut # NoAck
    /\ ackOut' = NoAck
    /\ \/ closed /\ UNCHANGED <<ackDirty, written, down>>
       \/ ~closed /\ ackDirty' = FALSE /\ written' = ackOut /\ Write(down, {ackOut}, down')
    /\ UNCHANGED <<client, recv, got, session, up, fails>>

\* The rest of sendACK: a failed write asks for another acknowledgement, a
\* write on a closed transport does not.
sendACK ==
    /\ ackOut # NoAck
    /\ ackOut' = NoAck
    /\ \/ /\ closed
          /\ UNCHANGED <<ackDirty, written, down, fails>>
       \/ /\ ~closed
          /\ written' = ackOut
          /\ Write(down, {ackOut}, down')
          /\ UNCHANGED <<ackDirty, fails>>
       \/ /\ ~closed /\ fails < MaxFails
          /\ fails' = fails + 1
          /\ ackDirty' = TRUE
          /\ UNCHANGED <<written, down>>
    /\ UNCHANGED <<client, recv, got, session, up>>

-----------------------------------------------------------------------------
(* The end of the server's session.                                        *)

\* connectionTimeout in the server's tick, which ends with it.
TickTimeout ==
    /\ ackOut = NoAck /\ ending["tick"] = "idle" /\ "tick" \in scene.enders
    /\ ending' = [ending EXCEPT !["tick"] = "removing"]
    /\ UNCHANGED <<client, receiver, acking, closed, byToken, conns, goodbyes, up,
                   down, fails>>

\* An authentic Disconnect packet of a session that routeFor found.
handleDisconnectPacket(d) ==
    /\ d.kind = "disconnect" /\ ending["reader"] = "idle"
    /\ "reader" \in scene.enders
    /\ byToken
    /\ ending' = [ending EXCEPT !["reader"] = "removing"]
    /\ Take(up, d, up')
    /\ UNCHANGED <<client, receiver, acking, closed, byToken, conns, goodbyes, down,
                   fails>>

\* ConnManager.Remove: the gateway kicks the connection.
Remove ==
    /\ ending["kick"] = "idle" /\ conns /\ "kick" \in scene.enders
    /\ conns' = FALSE
    /\ ending' = [ending EXCEPT !["kick"] = "closing"]
    /\ UNCHANGED <<client, receiver, acking, closed, byToken, goodbyes, up, down, fails>>

\* A removal that does not look whether another one was first.
forgetTransportBlindly(g) ==
    /\ ending[g] = "removing"
    /\ byToken' = FALSE
    /\ ending' = [ending EXCEPT ![g] = "told"]
    /\ UNCHANGED <<client, receiver, acking, closed, conns, goodbyes, up, down, fails>>

\* removeTransport's forgetTransport drops the transport from the session maps;
\* only the caller that found it there is told the connID.
forgetTransport(g) ==
    /\ ending[g] = "removing"
    /\ byToken' = FALSE
    /\ ending' = [ending EXCEPT ![g] = IF byToken THEN "told" ELSE "closing"]
    /\ UNCHANGED <<client, receiver, acking, closed, conns, goodbyes, up, down, fails>>

\* The transport's Close, a no-op on a closed one.  The Disconnect packet it
\* writes is one the client does not handle.
CloseTransport(g) ==
    /\ ending[g] \in {"told", "closing"}
    /\ closed' = TRUE
    /\ ending' = [ending EXCEPT ![g] = IF @ = "told" THEN "unregister"
                                       ELSE IF closed THEN "done" ELSE "clearing"]
    /\ UNCHANGED <<client, receiver, acking, byToken, conns, goodbyes, up, down, fails>>

\* The forgetTransport inside Close, whose answer nobody reads.
ClearMaps(g) ==
    /\ ending[g] = "clearing"
    /\ byToken' = FALSE
    /\ ending' = [ending EXCEPT ![g] = "done"]
    /\ UNCHANGED <<client, receiver, acking, closed, conns, goodbyes, up, down, fails>>

\* ConnManager.Unregister: one Disconnect event for the gateway.
Unregister(g) ==
    /\ ending[g] = "unregister"
    /\ conns' = FALSE
    /\ goodbyes' = goodbyes + 1
    /\ ending' = [ending EXCEPT ![g] = "done"]
    /\ UNCHANGED <<client, receiver, acking, closed, byToken, up, down, fails>>

-----------------------------------------------------------------------------
\* A run starts on a fresh session, or on one whose earlier messages have all
\* been received and acknowledged and whose sequence numbers are about to wrap.
Init ==
    /\ scene \in Scenes
    /\ LET s == scene.start IN
        /\ sendSeq = s
        /\ recv = IF s = 0 THEN [init |-> FALSE, seq |-> 0, bits |-> {}]
                  ELSE [init |-> TRUE, seq |-> s - 1, bits |-> 1 .. Window]
        /\ written = IF s = 0 THEN NoAck ELSE [seq |-> s - 1, bits |-> 1 .. Window]
    /\ sendBuf = [i \in Slots |-> Free]
    /\ cliClosed = FALSE /\ closed = FALSE
    /\ ackDirty = FALSE /\ ackOut = NoAck
    /\ byToken = TRUE /\ conns = TRUE
    /\ ending = [g \in Enders |-> "idle"] /\ goodbyes = 0
    /\ up = {} /\ down = {} /\ fails = 0
    /\ next = 1 /\ refused = {}
    /\ got = [m \in Messages |-> 0]

Next ==
    /\ \/ SendReliable \/ Close \/ maintenanceTick
       \/ \E d \in down : processACK(d) \/ RefuseDown(d)
       \/ \E d \in up : handleReliable(d) \/ handleDisconnectPacket(d) \/ RefuseUp(d)
       \/ takePendingACK \/ sendACK
       \/ TickTimeout \/ Remove
       \/ \E g \in Enders :
            forgetTransport(g) \/ CloseTransport(g) \/ ClearMaps(g) \/ Unregister(g)
    /\ UNCHANGED scene

Spec == Init /\ [][Next]_vars

\* The client's ticker fires every retransmitInterval until the client is
\* closed.  Nothing is assumed of the network or of the server.
FairSpec == Spec /\ WF_vars(maintenanceTick /\ UNCHANGED scene)

-----------------------------------------------------------------------------
(* Properties.                                                             *)

TypeOK ==
    /\ sendSeq \in Seqs
    /\ sendBuf \in [Slots -> [seq : Seqs, msg : 0 .. MaxMsgs, age : 0 .. MaxAge + 1]]
    /\ recv \in [init : BOOLEAN, seq : Seqs, bits : SUBSET (1 .. Window)]
    /\ ackOut \in [seq : Seqs, bits : SUBSET (0 .. Window)]
    /\ cliClosed \in BOOLEAN /\ closed \in BOOLEAN /\ ackDirty \in BOOLEAN
    /\ byToken \in BOOLEAN /\ conns \in BOOLEAN
    /\ ending \in [Enders -> {"idle", "removing", "told", "closing",
                             "clearing", "unregister", "done"}]
    /\ goodbyes \in Nat /\ fails \in 0 .. MaxFails
    /\ next \in 1 .. MaxMsgs + 1 /\ refused \subseteq Messages
    /\ got \in [Messages -> Nat]

\* No message is handed to the server's queues twice, although it is
\* retransmitted with fresh counters that the replay window lets pass: the
\* receive window of handleReliable must remember every sequence it could
\* still accept, across jumps and across the wrap of the sequence numbers.
AtMostOnce == \A m \in Messages : got[m] <= 1

\* While the client is open, a message SendReliable accepted is still in the
\* ring, to be retransmitted, or has reached the server.  A late or repeated
\* acknowledgement, one whose sequence shares the slot of a newer message, and
\* a message that fell out of the receive window unseen must not break this:
\* the last of them ends the connection by its lifetime, never in silence.
NothingLost ==
    ~cliClosed => \A m \in 1 .. next - 1 : m \in refused \/ Held(m) \/ got[m] > 0

\* A message whose SendReliable returned an error never reaches the server and
\* is not in the ring: the caller may send it again without a duplicate.
RefusedStaysOut == \A m \in refused : got[m] = 0 /\ ~Held(m)

\* When the tick has no acknowledgement to take or to write, the last one it
\* wrote describes all that the reader goroutine has received meanwhile.
AckFresh ==
    ~ackDirty /\ ackOut = NoAck /\ ~closed /\ recv.init
        => written = [seq |-> recv.seq, bits |-> recv.bits]

\* However the tick, the reader and a kick overlap in ending the session, the
\* gateway hears at most one Disconnect event, and once they are through, a
\* closed transport holds neither a session slot nor a connection entry, and
\* the gateway knows: it was told, or it kicked the connection itself.
OneGoodbye ==
    /\ goodbyes <= 1
    /\ closed /\ (\A g \in Enders : Settled(g))
        => ~byToken /\ ~conns /\ (goodbyes = 1 \/ ending["kick"] = "done")

\* Every message put into the ring leaves it again: it is acknowledged, or its
\* lifetime ends and the client closes.  The lifetime is that of the first
\* write, whatever is retransmitted since.
RingDrains == \A m \in Messages : Held(m) ~> ~Held(m)
=============================================================================
