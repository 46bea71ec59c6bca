--------------------------- MODULE DatagramProofs ---------------------------
(***************************************************************************)
(* Proofs about Datagram, for windows, rings and runs of every size.       *)
(***************************************************************************)
EXTENDS Datagram, TLAPS

-----------------------------------------------------------------------------
(* The end of a session.                                                   *)

Stages == {"idle", "removing", "told", "closing", "clearing", "unregister", "done"}

\* Whoever found the transport in the session maps and has not reported yet.
Reporting(g) == ending[g] \in {"told", "unregister"}

\* The report belongs to the one goroutine that took the transport out of the
\* maps: while it is in them nobody reports, afterwards one does or did, or the
\* kick took it out.
GInv ==
    /\ byToken \in BOOLEAN /\ conns \in BOOLEAN /\ closed \in BOOLEAN
    /\ ending \in [Enders -> Stages]
    /\ goodbyes \in {0, 1}
    /\ byToken \/ goodbyes = 1 => \A g \in Enders : ~Reporting(g)
    /\ byToken => goodbyes = 0
    /\ goodbyes = 1 => ~conns
    /\ \A g, h \in Enders : Reporting(g) /\ Reporting(h) => g = h
    /\ \A g \in Enders : ending[g] \in {"unregister", "clearing", "done"} => closed
    /\ ~Reporting("kick") /\ ending["kick"] # "removing"
    /\ conns => ending["kick"] = "idle"
    /\ ~conns => ending["kick"] # "idle" \/ goodbyes = 1
    /\ closed /\ byToken => ending["kick"] = "clearing"
    /\ \A g \in Enders \ {"kick"} : ending[g] \in {"closing", "clearing", "done"} => ~byToken
    /\ ~byToken => \/ goodbyes = 1
                   \/ ending["kick"] = "done"
                   \/ \E g \in Enders : Reporting(g)

\* Nothing but the end of the session changes its state.
LEMMA EndingSteps ==
    ASSUME Next
    PROVE  \/ UNCHANGED session
           \/ TickTimeout \/ Remove
           \/ \E d \in up : handleDisconnectPacket(d)
           \/ \E g \in Enders : \/ forgetTransport(g) \/ CloseTransport(g)
                                \/ ClearMaps(g) \/ Unregister(g)
BY DEF Next, session, SendReliable, Close, maintenanceTick, processACK, RefuseDown,
       handleReliable, RefuseUp, takePendingACK, sendACK

LEMMA GInvInit == Init => GInv
<1> SUFFICES ASSUME Init PROVE GInv
  OBVIOUS
<1>1. /\ ending \in [Enders -> Stages] /\ \A g \in Enders : ending[g] = "idle"
      /\ byToken /\ conns /\ ~closed /\ goodbyes = 0 /\ goodbyes # 1
  BY DEF Init, Stages
<1>2. byToken \in BOOLEAN /\ conns \in BOOLEAN /\ closed \in BOOLEAN
  BY DEF Init
<1> QED
  BY <1>1, <1>2 DEF GInv, Enders, Reporting

LEMMA GInvStep == GInv /\ [Next]_vars => GInv'
<1> SUFFICES ASSUME GInv, [Next]_vars PROVE GInv'
  OBVIOUS
<1> USE DEF GInv, Enders, Stages, Reporting
<1>1. CASE UNCHANGED session
  BY <1>1 DEF session
<1>2. CASE TickTimeout
  BY <1>2 DEF TickTimeout
<1>3. CASE Remove
  BY <1>3 DEF Remove
<1>4. ASSUME NEW d \in up, handleDisconnectPacket(d) PROVE GInv'
  BY <1>4 DEF handleDisconnectPacket
<1>5. ASSUME NEW g \in Enders, forgetTransport(g) PROVE GInv'
  <2>1. /\ ending[g] = "removing" /\ g # "kick"
        /\ \A h \in Enders \ {g} : ending'[h] = ending[h]
        /\ ending'[g] = IF byToken THEN "told" ELSE "closing"
        /\ ending' \in [Enders -> Stages]
        /\ byToken' = FALSE /\ UNCHANGED <<closed, conns, goodbyes>>
    BY <1>5 DEF forgetTransport
  <2>2. CASE byToken
    <3>1. goodbyes = 0 /\ goodbyes # 1
      BY <2>2
    <3>2. Reporting(g)' /\ \A h \in Enders \ {g} : ~Reporting(h)'
      BY <2>1, <2>2
    <3> QED
      BY <2>1, <2>2, <3>1, <3>2
  <2>3. CASE ~byToken
    BY <2>1, <2>3
  <2> QED
    BY <2>2, <2>3
<1>6. ASSUME NEW g \in Enders, CloseTransport(g) PROVE GInv'
  BY <1>6 DEF CloseTransport
<1>7. ASSUME NEW g \in Enders, ClearMaps(g) PROVE GInv'
  BY <1>7 DEF ClearMaps
<1>8. ASSUME NEW g \in Enders, Unregister(g) PROVE GInv'
  <2>1. /\ ending[g] = "unregister" /\ g # "kick"
        /\ \A h \in Enders \ {g} : ending'[h] = ending[h]
        /\ ending'[g] = "done" /\ ending' \in [Enders -> Stages]
        /\ conns' = FALSE /\ goodbyes' = goodbyes + 1 /\ UNCHANGED <<byToken, closed>>
    BY <1>8 DEF Unregister
  <2>2. goodbyes' = 1 /\ ~byToken
    BY <2>1
  <2>3. \A h \in Enders : ~Reporting(h)'
    BY <2>1
  <2> QED
    BY <2>1, <2>2, <2>3
<1>9. CASE UNCHANGED vars
  BY <1>9, <1>1 DEF vars, session
<1> QED
  BY <1>1, <1>2, <1>3, <1>4, <1>5, <1>6, <1>7, <1>8, <1>9, EndingSteps

LEMMA GInvSays == GInv => OneGoodbye
BY DEF GInv, OneGoodbye, Settled, Enders, Stages, Reporting

\* However the tick, the reader and a kick overlap, one Disconnect event at
\* most is fired, and a session that is over holds no slot and no connection.
THEOREM OneGoodbyeHolds == Spec => []OneGoodbye
BY GInvInit, GInvStep, GInvSays, PTL DEF Spec

-----------------------------------------------------------------------------
(* The channel.                                                            *)

Entries == [seq : Seqs, msg : 0 .. MaxMsgs, age : 0 .. MaxAge + 1]
Packets == [kind : {"reliable", "disconnect"}, seq : Seqs, msg : 0 .. MaxMsgs]

TInv == TypeOK /\ up \subseteq Packets /\ scene \in Scenes

\* Messages in the ring and in the network were accepted, and nothing of a
\* message that is still to be sent is anywhere.
RInv ==
    /\ \A m \in refused : m < next /\ got[m] = 0
    /\ \A m \in Messages : m >= next => got[m] = 0
    /\ \A i \in Slots : sendBuf[i].msg < next /\ sendBuf[i].msg \notin refused
    /\ \A d \in up : /\ d.msg < next /\ d.msg \notin refused
                     /\ d.kind = "reliable" => d.msg # 0

\* While the flag is down, the acknowledgement under way or the last one
\* written is the state of the window.
AInv ==
    ~ackDirty /\ ~closed /\ recv.init
        => [seq |-> recv.seq, bits |-> recv.bits] = IF ackOut = NoAck THEN written ELSE ackOut

LEMMA Modulo == \A x \in Int : x % SeqMod \in Seqs
BY DatagramAssumption DEF Seqs

LEMMA WriteKeeps ==
    ASSUME NEW net, NEW sent, NEW net2, Write(net, sent, net2)
    PROVE  net2 \subseteq net \union sent
BY DEF Write

LEMMA MarkAckedFrees ==
    ASSUME NEW buf, NEW seqs, NEW i \in Slots
    PROVE  markAcked(buf, seqs)[i] \in {Free, buf[i]}
BY DEF markAcked

LEMMA FreeEntry == Free \in Entries /\ Disconnect \in Packets
BY DatagramAssumption DEF Free, Disconnect, Entries, Packets, Seqs

\* What the receive window of handleReliable becomes has its type again.
LEMMA TrackType ==
    ASSUME NEW r \in [init : BOOLEAN, seq : Seqs, bits : SUBSET (1 .. Window)],
           NEW seq \in Seqs
    PROVE  Track(r, seq) \in [init : BOOLEAN, seq : Seqs, bits : SUBSET (1 .. Window)]
BY DEF Track

LEMMA TInvInit == Init => TInv
<1> SUFFICES ASSUME Init PROVE TInv
  OBVIOUS
<1>1. scene \in Scenes /\ scene.start \in Seqs
  BY DatagramAssumption DEF Init, Seqs
<1>2. recv \in [init : BOOLEAN, seq : Seqs, bits : SUBSET (1 .. Window)]
  BY <1>1, DatagramAssumption DEF Init, Seqs
<1>3. sendBuf \in [Slots -> Entries]
  BY FreeEntry DEF Init
<1>4. ackOut \in [seq : Seqs, bits : SUBSET (0 .. Window)]
  BY DatagramAssumption DEF Init, NoAck, Seqs
<1>5. got \in [Messages -> Nat]
  BY DEF Init
<1>6. /\ next \in 1 .. MaxMsgs + 1 /\ fails \in 0 .. MaxFails /\ goodbyes \in Nat
      /\ refused \subseteq Messages /\ up \subseteq Packets /\ sendSeq \in Seqs
  BY <1>1, DatagramAssumption DEF Init
<1>7. /\ cliClosed \in BOOLEAN /\ closed \in BOOLEAN /\ ackDirty \in BOOLEAN
      /\ byToken \in BOOLEAN /\ conns \in BOOLEAN
      /\ ending \in [Enders -> Stages]
  BY DEF Init, Stages
<1> QED
  BY <1>1, <1>2, <1>3, <1>4, <1>5, <1>6, <1>7 DEF TInv, TypeOK, Entries, Stages

LEMMA RInvInit == Init => RInv
<1> SUFFICES ASSUME Init PROVE RInv
  OBVIOUS
<1>1. up = {} /\ refused = {} /\ next = 1 /\ \A m \in Messages : got[m] = 0
  BY DEF Init
<1>2. \A i \in Slots : sendBuf[i].msg = 0
  BY DEF Init, Free
<1> QED
  BY <1>1, <1>2 DEF RInv

LEMMA AInvInit == Init => AInv
BY DatagramAssumption DEF Init, AInv, NoAck

\* The steps that leave client, receiver and acknowledgement alone.
Quiet ==
    /\ UNCHANGED <<client, receiver, acking, fails, scene>>
    /\ up' \subseteq up /\ down' \subseteq down
    /\ closed => closed'

LEMMA QuietSteps ==
    ASSUME Next, TInv
    PROVE  \/ SendReliable \/ Close \/ maintenanceTick
           \/ \E d \in down : processACK(d)
           \/ \E d \in up : handleReliable(d)
           \/ takePendingACK \/ sendACK
           \/ Quiet
<1>1. ASSUME NEW d \in down, RefuseDown(d) PROVE UNCHANGED scene => Quiet
  BY <1>1 DEF RefuseDown, Quiet, session
<1>2. ASSUME NEW d \in up, RefuseUp(d) \/ handleDisconnectPacket(d)
      PROVE  UNCHANGED scene => Quiet
  BY <1>2 DEF RefuseUp, handleDisconnectPacket, Take, Quiet, session
<1>3. TickTimeout \/ Remove => (UNCHANGED scene => Quiet)
  BY DEF TickTimeout, Remove, Quiet
<1>4. ASSUME NEW g \in Enders,
             forgetTransport(g) \/ CloseTransport(g) \/ ClearMaps(g) \/ Unregister(g)
      PROVE  UNCHANGED scene => Quiet
  BY <1>4 DEF forgetTransport, CloseTransport, ClearMaps, Unregister, Quiet
<1> QED
  BY <1>1, <1>2, <1>3, <1>4 DEF Next

\* The types of everything but the state of the session's end.
ChannelTypes ==
    /\ sendSeq \in Seqs
    /\ sendBuf \in [Slots -> Entries]
    /\ recv \in [init : BOOLEAN, seq : Seqs, bits : SUBSET (1 .. Window)]
    /\ ackOut \in [seq : Seqs, bits : SUBSET (0 .. Window)]
    /\ cliClosed \in BOOLEAN /\ ackDirty \in BOOLEAN
    /\ fails \in 0 .. MaxFails
    /\ next \in 1 .. MaxMsgs + 1 /\ refused \subseteq Messages
    /\ got \in [Messages -> Nat]
    /\ up \subseteq Packets /\ scene \in Scenes

LEMMA TypesSplit == TInv <=> /\ ChannelTypes
                             /\ closed \in BOOLEAN /\ byToken \in BOOLEAN
                             /\ conns \in BOOLEAN /\ goodbyes \in Nat
                             /\ ending \in [Enders -> Stages]
BY DEF TInv, TypeOK, ChannelTypes, Entries, Stages

\* What a slot sends is a packet of its message.
LEMMA ReliablePacket ==
    ASSUME NEW e \in Entries
    PROVE  /\ Reliable(e) \in Packets
           /\ Reliable(e).msg = e.msg /\ Reliable(e).kind = "reliable"
BY DEF Reliable, Entries, Packets

\* Closing the client leaves an empty ring and adds only a Disconnect packet.
LEMMA CloseTypes ==
    ASSUME NEW net, net \subseteq Packets, CloseClient(net)
    PROVE  /\ cliClosed' \in BOOLEAN /\ sendBuf' \in [Slots -> Entries]
           /\ \A i \in Slots : sendBuf'[i] = Free
           /\ up' \subseteq net \union {Disconnect} /\ up' \subseteq Packets
BY FreeEntry, WriteKeeps DEF CloseClient

\* A tick writes packets of used slots, and either ages the ring or empties it.
LEMMA TickKeeps ==
    ASSUME ChannelTypes, maintenanceTick
    PROVE  /\ sendBuf' \in [Slots -> Entries] /\ cliClosed' \in BOOLEAN
           /\ \A i \in Slots : sendBuf'[i].msg \in {0, sendBuf[i].msg}
           /\ up' \subseteq Packets
           /\ \A d \in up' : \/ d \in up \/ d = Disconnect
                             \/ \E i \in Slots : d = Reliable(sendBuf[i]) /\ Used(i)
<1> DEFINE sent == {Reliable(sendBuf[i]) : i \in Resent}
<1>1. /\ sent \subseteq Packets
      /\ \A d \in sent : \E i \in Slots : d = Reliable(sendBuf[i]) /\ Used(i)
  BY ReliablePacket DEF Resent, Reached, ChannelTypes
<1>2. CASE \E i \in Slots : Expired(i)
  <2>1. PICK mid \in SUBSET (up \union sent) : CloseClient(mid)
    BY <1>2 DEF maintenanceTick
  <2>2. mid \subseteq Packets
    BY <1>1 DEF ChannelTypes
  <2>3. /\ cliClosed' \in BOOLEAN /\ sendBuf' \in [Slots -> Entries]
        /\ \A i \in Slots : sendBuf'[i] = Free
        /\ up' \subseteq mid \union {Disconnect} /\ up' \subseteq Packets
    BY <2>1, <2>2, CloseTypes
  <2>4. \A i \in Slots : sendBuf'[i].msg = 0
    BY <2>3 DEF Free
  <2> HIDE DEF sent
  <2> QED
    BY <1>1, <2>1, <2>3, <2>4
<1>3. CASE ~\E i \in Slots : Expired(i)
  <2>1. /\ Write(up, sent, up') /\ UNCHANGED cliClosed
        /\ sendBuf' = [i \in Slots |->
                         IF Used(i) THEN [sendBuf[i] EXCEPT !.age = @ + 1] ELSE sendBuf[i]]
    BY <1>3 DEF maintenanceTick
  <2>2. ASSUME NEW i \in Slots
        PROVE  sendBuf'[i] \in Entries /\ sendBuf'[i].msg = sendBuf[i].msg
    <3>1. sendBuf[i] \in Entries /\ (Used(i) => ~(sendBuf[i].age > MaxAge))
      BY <1>3 DEF ChannelTypes, Expired
    <3>2. sendBuf'[i] = IF Used(i) THEN [sendBuf[i] EXCEPT !.age = @ + 1] ELSE sendBuf[i]
      BY <2>1
    <3> QED
      BY <3>1, <3>2, DatagramAssumption DEF Entries
  <2>3. sendBuf' \in [Slots -> Entries]
    BY <2>1, <2>2
  <2>4. up' \subseteq up \union sent
    BY <2>1, WriteKeeps
  <2> HIDE DEF sent
  <2> QED
    BY <1>1, <2>1, <2>2, <2>3, <2>4 DEF ChannelTypes
<1> QED
  BY <1>2, <1>3

\* SendReliable stages one entry and writes its packet, or refuses the message.
LEMMA SendStep ==
    ASSUME ChannelTypes, RInv, SendReliable, UNCHANGED scene
    PROVE  ChannelTypes' /\ RInv'
<1> DEFINE k == sendSeq % Ring
           e == [seq |-> sendSeq, msg |-> next, age |-> 0]
<1>1. next \in Messages /\ next' = next + 1 /\ next' \in 1 .. MaxMsgs + 1
  BY DatagramAssumption DEF SendReliable, ChannelTypes, Messages
<1>2. sendSeq' \in Seqs
  BY DatagramAssumption, Modulo DEF SendReliable, ChannelTypes, NextSeq, Seqs
<1>3. e \in Entries /\ Free \in Entries /\ e.msg = next /\ Free.msg = 0
  BY <1>1, FreeEntry, DatagramAssumption DEF ChannelTypes, Entries, Messages, Free
<1>4. k \in Slots
  BY DatagramAssumption DEF ChannelTypes, Seqs, Slots
<1>5. UNCHANGED <<recv, ackOut, cliClosed, ackDirty, got, scene>>
  BY DEF SendReliable, receiver, acking
<1>6. next \notin refused
  BY <1>1 DEF RInv, ChannelTypes, Messages
<1>7. CASE /\ sendBuf' = [sendBuf EXCEPT ![k] = e]
           /\ Write(up, {Reliable(e)}, up') /\ UNCHANGED <<refused, fails>>
  <2>1. Reliable(e) \in Packets /\ Reliable(e).msg = next
    BY <1>3, ReliablePacket
  <2>2. up' \subseteq up \union {Reliable(e)}
    BY <1>7, WriteKeeps
  <2>3. sendBuf' \in [Slots -> Entries]
    BY <1>3, <1>4, <1>7 DEF ChannelTypes
  <2>4. \A i \in Slots : sendBuf'[i].msg \in {sendBuf[i].msg, next}
    BY <1>3, <1>4, <1>7 DEF ChannelTypes
  <2> HIDE DEF e, k
  <2>5. ChannelTypes'
    BY <1>1, <1>2, <1>5, <1>7, <2>1, <2>2, <2>3 DEF ChannelTypes
  <2>6. RInv'
    <3>1. \A m \in refused' : m < next' /\ got'[m] = 0
      BY <1>1, <1>5, <1>7 DEF RInv, ChannelTypes, Messages
    <3>2. \A m \in Messages : m >= next' => got'[m] = 0
      BY <1>1, <1>5 DEF RInv, Messages
    <3>3. ASSUME NEW i \in Slots
          PROVE  sendBuf'[i].msg < next' /\ sendBuf'[i].msg \notin refused'
      <4>1. sendBuf[i].msg < next /\ sendBuf[i].msg \notin refused /\ sendBuf[i].msg \in Nat
        BY DEF RInv, ChannelTypes, Entries
      <4> QED
        BY <1>1, <1>6, <1>7, <2>4, <4>1 DEF Messages
    <3>4. ASSUME NEW d \in up'
          PROVE  /\ d.msg < next' /\ d.msg \notin refused'
                 /\ d.kind = "reliable" => d.msg # 0
      <4>1. CASE d \in up
        <5>1. /\ d.msg < next /\ d.msg \notin refused /\ d.msg \in Nat
              /\ d.kind = "reliable" => d.msg # 0
          BY <4>1 DEF RInv, ChannelTypes, Packets
        <5> QED
          BY <1>1, <1>7, <5>1 DEF Messages
      <4>2. CASE d = Reliable(e)
        BY <1>1, <1>6, <1>7, <2>1, <4>2 DEF Messages
      <4> QED
        BY <2>2, <4>1, <4>2
    <3> QED
      BY <3>1, <3>2, <3>3, <3>4 DEF RInv
  <2> QED
    BY <2>5, <2>6
<1>8. CASE /\ fails < MaxFails /\ fails' = fails + 1
           /\ sendBuf' = RollBack(sendBuf, k, e)
           /\ refused' = refused \union {next} /\ UNCHANGED up
  <2>1. sendBuf' \in [Slots -> Entries]
    BY <1>3, <1>4, <1>8 DEF ChannelTypes, RollBack
  <2>2. \A i \in Slots : sendBuf'[i].msg \in {sendBuf[i].msg, 0}
    BY <1>3, <1>4, <1>8 DEF ChannelTypes, RollBack
  <2>3. fails' \in 0 .. MaxFails
    BY <1>8, DatagramAssumption DEF ChannelTypes
  <2> HIDE DEF e, k
  <2>4. ChannelTypes'
    BY <1>1, <1>2, <1>5, <1>8, <2>1, <2>3 DEF ChannelTypes
  <2>5. RInv'
    <3>1. \A m \in refused' : m < next' /\ got'[m] = 0
      BY <1>1, <1>5, <1>8 DEF RInv, ChannelTypes, Messages
    <3>2. \A m \in Messages : m >= next' => got'[m] = 0
      BY <1>1, <1>5 DEF RInv, Messages
    <3>3. \A i \in Slots : sendBuf'[i].msg < next' /\ sendBuf'[i].msg \notin refused'
      <4> SUFFICES ASSUME NEW i \in Slots
                   PROVE  sendBuf'[i].msg < next' /\ sendBuf'[i].msg \notin refused'
        OBVIOUS
      <4>1. sendBuf[i].msg < next /\ sendBuf[i].msg \notin refused /\ sendBuf[i].msg \in Nat
        BY DEF RInv, ChannelTypes, Entries
      <4>2. 0 < next /\ 0 \notin refused
        BY <1>1 DEF Messages, ChannelTypes
      <4> QED
        BY <1>1, <1>8, <2>2, <4>1, <4>2 DEF Messages
    <3>4. ASSUME NEW d \in up'
          PROVE  /\ d.msg < next' /\ d.msg \notin refused'
                 /\ d.kind = "reliable" => d.msg # 0
      <4>1. /\ d.msg < next /\ d.msg \notin refused /\ d.msg \in Nat
            /\ d.kind = "reliable" => d.msg # 0
        BY <1>8 DEF RInv, ChannelTypes, Packets
      <4> QED
        BY <1>1, <1>8, <4>1 DEF Messages
    <3> QED
      BY <3>1, <3>2, <3>3, <3>4 DEF RInv
  <2> QED
    BY <2>4, <2>5
<1> QED
  BY <1>7, <1>8 DEF SendReliable

\* The client's tick, its close and the acknowledgements it reads only take
\* entries out of the ring, and write packets of those that are in it.
LEMMA ClientStep ==
    ASSUME ChannelTypes, RInv, UNCHANGED scene,
           Close \/ maintenanceTick \/ \E d \in down : processACK(d)
    PROVE  ChannelTypes' /\ RInv'
<1>1. UNCHANGED <<sendSeq, next, refused, recv, ackDirty, got, ackOut, fails, scene>>
  BY DEF Close, maintenanceTick, processACK, receiver, acking
<1> DEFINE Shrinks ==
        /\ sendBuf' \in [Slots -> Entries] /\ cliClosed' \in BOOLEAN
        /\ \A i \in Slots : sendBuf'[i].msg \in {0, sendBuf[i].msg}
        /\ up' \subseteq Packets
        /\ \A d \in up' : \/ d \in up \/ d = Disconnect
                          \/ \E i \in Slots : d = Reliable(sendBuf[i]) /\ Used(i)
      Sound(d) == d.msg < next /\ d.msg \notin refused /\ (d.kind = "reliable" => d.msg # 0)
<1>2. Shrinks
  <2>1. CASE Close
    <3>1. /\ cliClosed' \in BOOLEAN /\ sendBuf' \in [Slots -> Entries]
          /\ \A i \in Slots : sendBuf'[i] = Free
          /\ up' \subseteq up \union {Disconnect} /\ up' \subseteq Packets
      BY <2>1, CloseTypes DEF Close, ChannelTypes
    <3> QED
      BY <3>1 DEF Free
  <2>2. CASE maintenanceTick
    BY <2>2, TickKeeps
  <2>3. ASSUME NEW d \in down, processACK(d) PROVE Shrinks
    <3> DEFINE seqs == {d.seq} \union {(d.seq - b) % SeqMod : b \in d.bits}
    <3>1. sendBuf' = markAcked(sendBuf, seqs) /\ UNCHANGED <<up, cliClosed>>
      BY <2>3 DEF processACK
    <3> HIDE DEF seqs
    <3>2. \A i \in Slots : sendBuf'[i] \in {Free, sendBuf[i]}
      BY <3>1, MarkAckedFrees
    <3>3. sendBuf' \in [Slots -> Entries]
      BY <3>1, <3>2, FreeEntry DEF markAcked, ChannelTypes
    <3> QED
      BY <3>1, <3>2, <3>3 DEF Free, ChannelTypes
  <2> QED
    BY <2>1, <2>2, <2>3
<1>3. ChannelTypes'
  BY <1>1, <1>2 DEF ChannelTypes
<1>4. 0 < next /\ 0 \notin refused
  BY DEF ChannelTypes, Messages
<1>5. ASSUME NEW d \in up' PROVE Sound(d)
  <2>1. CASE d \in up
    BY <2>1 DEF RInv
  <2>2. CASE d = Disconnect
    BY <2>2, <1>4 DEF Disconnect
  <2>3. ASSUME NEW i \in Slots, d = Reliable(sendBuf[i]), Used(i) PROVE Sound(d)
    BY <2>3, ReliablePacket DEF RInv, Used, ChannelTypes
  <2> QED
    BY <1>2, <2>1, <2>2, <2>3
<1>6. RInv'
  BY <1>1, <1>2, <1>4, <1>5 DEF RInv
<1> QED
  BY <1>3, <1>6

\* A packet that is handled is of an accepted message; the rest of the server
\* touches neither the client nor the counts.
LEMMA ServerStep ==
    ASSUME ChannelTypes, RInv, UNCHANGED scene,
           (\E d \in up : handleReliable(d)) \/ takePendingACK \/ sendACK \/ Quiet
    PROVE  ChannelTypes' /\ RInv'
<1>1. ASSUME NEW d \in up, handleReliable(d) PROVE ChannelTypes' /\ RInv'
  <2>1. /\ UNCHANGED <<sendSeq, sendBuf, cliClosed, next, refused, ackOut, fails, scene>>
        /\ up' \subseteq up /\ recv' = Track(recv, d.seq) /\ ackDirty' = TRUE
        /\ got' \in {got, [got EXCEPT ![d.msg] = @ + 1]}
    BY <1>1 DEF handleReliable, Take, client, acking
  <2>2. /\ d.seq \in Seqs /\ d.msg \in Messages /\ d.msg < next /\ d.msg \notin refused
    <3>1. d \in Packets /\ d.kind = "reliable"
      BY <1>1 DEF handleReliable, ChannelTypes
    <3> QED
      BY <3>1 DEF RInv, Packets, Messages
  <2>3. recv' \in [init : BOOLEAN, seq : Seqs, bits : SUBSET (1 .. Window)]
    BY <2>1, <2>2, TrackType DEF ChannelTypes
  <2>4. got' \in [Messages -> Nat]
    BY <2>1, <2>2 DEF ChannelTypes
  <2>5. \A m \in Messages : m # d.msg => got'[m] = got[m]
    BY <2>1, <2>2 DEF ChannelTypes
  <2>6. ChannelTypes'
    BY <2>1, <2>3, <2>4 DEF ChannelTypes
  <2>7. RInv'
    BY <2>1, <2>2, <2>5 DEF RInv, ChannelTypes, Messages
  <2> QED
    BY <2>6, <2>7
<1>2. CASE takePendingACK
  <2>1. /\ UNCHANGED <<sendSeq, sendBuf, cliClosed, next, refused, recv, got, fails, up, scene>>
        /\ ackDirty' = FALSE /\ ackOut' = [seq |-> recv.seq, bits |-> recv.bits]
    BY <1>2 DEF takePendingACK, client
  <2>2. ackOut' \in [seq : Seqs, bits : SUBSET (0 .. Window)]
    BY <2>1, DatagramAssumption DEF ChannelTypes
  <2> QED
    BY <2>1, <2>2 DEF ChannelTypes, RInv
<1>3. CASE sendACK
  <2>1. /\ UNCHANGED <<sendSeq, sendBuf, cliClosed, next, refused, recv, got, up, scene>>
        /\ ackOut' = NoAck /\ (ackDirty' = TRUE \/ UNCHANGED ackDirty)
        /\ \/ UNCHANGED fails
           \/ fails < MaxFails /\ fails' = fails + 1
    BY <1>3 DEF sendACK, client
  <2>2. ackOut' \in [seq : Seqs, bits : SUBSET (0 .. Window)]
    BY <2>1, DatagramAssumption DEF NoAck, Seqs
  <2>3. fails' \in 0 .. MaxFails
    BY <2>1, DatagramAssumption DEF ChannelTypes
  <2> QED
    BY <2>1, <2>2, <2>3 DEF ChannelTypes, RInv
<1>4. CASE Quiet
  BY <1>4 DEF Quiet, client, receiver, acking, ChannelTypes, RInv
<1> QED
  BY <1>1, <1>2, <1>3, <1>4

\* The window is the acknowledgement under way or the last one written, unless
\* the flag is up: receiving raises it, and only a snapshot takes it down.
LEMMA AInvStep ==
    ASSUME ChannelTypes, AInv, [Next]_vars, TInv
    PROVE  AInv'
<1>1. CASE UNCHANGED <<recv, ackDirty, ackOut, written>> /\ (closed => closed')
  BY <1>1, TypesSplit DEF AInv
<1>2. SendReliable \/ Close \/ maintenanceTick \/ (\E d \in down : processACK(d))
      => UNCHANGED <<recv, ackDirty, ackOut, written, closed>>
  BY DEF SendReliable, Close, maintenanceTick, processACK, receiver, acking, session
<1>3. ASSUME NEW d \in up, handleReliable(d) PROVE AInv'
  BY <1>3 DEF handleReliable, AInv
<1>4. CASE takePendingACK
  <2>1. /\ ackOut' = [seq |-> recv.seq, bits |-> recv.bits] /\ UNCHANGED recv
    BY <1>4 DEF takePendingACK
  <2>2. 0 \notin recv.bits
    BY DatagramAssumption DEF ChannelTypes
  <2>3. ackOut' # NoAck
    BY <2>1, <2>2 DEF NoAck
  <2> QED
    BY <2>1, <2>3 DEF AInv, NoAck
<1>5. CASE sendACK
  <2>1. ackOut # NoAck /\ ackOut' = NoAck /\ UNCHANGED <<recv, closed>>
    BY <1>5 DEF sendACK, session
  <2>2. closed \/ ackDirty' = TRUE \/ (written' = ackOut /\ UNCHANGED ackDirty)
    BY <1>5 DEF sendACK
  <2> QED
    BY <2>1, <2>2 DEF AInv, NoAck
<1>6. CASE Quiet
  BY <1>1, <1>6 DEF Quiet, receiver, acking
<1>7. CASE UNCHANGED vars
  BY <1>1, <1>7 DEF vars, receiver, acking, session
<1> QED
  BY <1>1, <1>2, <1>3, <1>4, <1>5, <1>6, <1>7, QuietSteps

DInv == TInv /\ RInv /\ AInv /\ GInv

LEMMA DInvStep == DInv /\ [Next]_vars => DInv'
<1> SUFFICES ASSUME DInv, [Next]_vars PROVE DInv'
  OBVIOUS
<1>1. ChannelTypes /\ TInv /\ RInv /\ AInv /\ GInv
  BY TypesSplit DEF DInv
<1>2. ChannelTypes' /\ RInv'
  <2>1. CASE Next
    <3>1. UNCHANGED scene
      BY <2>1 DEF Next
    <3> QED
      BY <1>1, <2>1, <3>1, QuietSteps, SendStep, ClientStep, ServerStep
  <2>2. CASE UNCHANGED vars
    BY <1>1, <2>2 DEF vars, client, receiver, acking, ChannelTypes, RInv
  <2> QED
    BY <2>1, <2>2
<1>3. GInv' /\ AInv'
  BY <1>1, GInvStep, AInvStep
<1>4. /\ closed' \in BOOLEAN /\ byToken' \in BOOLEAN /\ conns' \in BOOLEAN
      /\ goodbyes' \in Nat /\ ending' \in [Enders -> Stages]
  BY <1>3 DEF GInv
<1>5. TInv'
  BY <1>2, <1>4, TypesSplit DEF TInv, TypeOK, ChannelTypes, Entries, Stages
<1> QED
  BY <1>2, <1>3, <1>5 DEF DInv

LEMMA Invariants == Spec => []DInv
<1>1. Init => DInv
  BY TInvInit, RInvInit, AInvInit, GInvInit DEF DInv
<1> QED
  BY <1>1, DInvStep, PTL DEF Spec

\* Every variable keeps its type, the wrapping sequence numbers and the ages of
\* the ring's entries included.
THEOREM TypesHold == Spec => []TypeOK
<1>1. DInv => TypeOK
  BY DEF DInv, TInv
<1> QED
  BY Invariants, <1>1, PTL

\* A message whose first write failed is neither sent later nor received.
THEOREM RefusedHolds == Spec => []RefusedStaysOut
<1>1. DInv => RefusedStaysOut
  BY DEF DInv, RInv, RefusedStaysOut, Held
<1> QED
  BY Invariants, <1>1, PTL

\* A packet received while an acknowledgement is written is not forgotten: with
\* the flag down and nothing under way, what was written last is the window.
THEOREM AcksStayFresh == Spec => []AckFresh
<1>1. DInv => AckFresh
  BY DEF DInv, AInv, AckFresh
<1> QED
  BY Invariants, <1>1, PTL

-----------------------------------------------------------------------------
(* Delivery.  Message m of a run has one sequence number, however often it *)
(* is sent, and sequence numbers that far apart compare as the messages do.*)

SeqAt(m) == (scene.start + m - 1) % SeqMod

\* The messages of a run, and those of before that a window may reach back to.
Spanned == -Window .. MaxMsgs + 1

\* The remainder of a number within a period of the modulus.
LEMMA ModBelow ==
    ASSUME NEW x \in Int, 0 <= x, x < SeqMod
    PROVE  x % SeqMod = x
BY DatagramAssumption

LEMMA ModAbove ==
    ASSUME NEW x \in Int, SeqMod <= x, x < 2 * SeqMod
    PROVE  x % SeqMod = x - SeqMod
BY DatagramAssumption

LEMMA ModMinus ==
    ASSUME NEW x \in Int, -SeqMod <= x, x < 0
    PROVE  x % SeqMod = x + SeqMod
BY DatagramAssumption

LEMMA SeqAtIs ==
    ASSUME scene \in Scenes, NEW m \in Spanned
    PROVE  /\ SeqAt(m) \in {scene.start + m - 1, scene.start + m - 1 + SeqMod,
                         scene.start + m - 1 - SeqMod}
           /\ SeqAt(m) \in 0 .. SeqMod - 1
<1>1. /\ scene.start \in 0 .. SeqMod - 1 /\ SeqMod \in Nat \ {0}
      /\ Window \in Nat /\ MaxMsgs \in Nat \ {0}
  BY DatagramAssumption
<1> DEFINE x == scene.start + m - 1
<1>2. x \in Int /\ -SeqMod <= x /\ x < 2 * SeqMod
  BY <1>1, RunAssumption DEF Spanned
<1>3. SeqAt(m) = x % SeqMod
  BY DEF SeqAt
<1> HIDE DEF x
<1>4. SeqAt(m) \in {x, x + SeqMod, x - SeqMod} /\ SeqAt(m) \in 0 .. SeqMod - 1
  <2>1. CASE x < 0
    BY <1>1, <1>2, <1>3, <2>1, ModMinus
  <2>2. CASE 0 <= x /\ x < SeqMod
    BY <1>1, <1>2, <1>3, <2>2, ModBelow
  <2>3. CASE SeqMod <= x
    BY <1>1, <1>2, <1>3, <2>3, ModAbove
  <2>4. x < 0 \/ (0 <= x /\ x < SeqMod) \/ SeqMod <= x
    BY <1>1, <1>2
  <2> QED
    BY <2>1, <2>2, <2>3, <2>4
<1> QED
  BY <1>1, <1>4 DEF x, Spanned

\* The distance between two sequence numbers is that of their messages.
LEMMA Distance ==
    ASSUME scene \in Scenes, NEW m \in -Window .. MaxMsgs, NEW k \in -Window .. MaxMsgs, m <= k
    PROVE  (SeqAt(k) - SeqAt(m)) % SeqMod = k - m
<1>1. /\ scene.start \in 0 .. SeqMod - 1 /\ SeqMod \in Nat \ {0}
      /\ Window \in Nat /\ MaxMsgs \in Nat \ {0}
  BY DatagramAssumption
<1> DEFINE x == SeqAt(k) - SeqAt(m)
<1>2. m \in Spanned /\ k \in Spanned
  BY <1>1 DEF Spanned
<1>3. x \in {k - m, k - m - SeqMod, k - m + SeqMod} /\ x \in Int /\ x < SeqMod /\ -SeqMod < x
  BY <1>1, <1>2, SeqAtIs, RunAssumption
<1>4. 0 <= k - m /\ k - m < SeqMod /\ k - m \in Int
  BY <1>1, RunAssumption
<1> HIDE DEF x
<1>5. x % SeqMod = k - m
  BY <1>1, <1>3, <1>4, ModBelow, ModMinus
<1> QED
  BY <1>5 DEF x

LEMMA SameSeq ==
    ASSUME scene \in Scenes, NEW m \in -Window .. MaxMsgs, NEW k \in -Window .. MaxMsgs,
           SeqAt(m) = SeqAt(k)
    PROVE  m = k
<1>1. /\ scene.start \in 0 .. SeqMod - 1 /\ SeqMod \in Nat \ {0}
      /\ Window \in Nat /\ MaxMsgs \in Nat \ {0}
  BY DatagramAssumption
<1>2. m \in Spanned /\ k \in Spanned
  BY <1>1 DEF Spanned
<1> QED
  BY <1>1, <1>2, SeqAtIs, RunAssumption

\* SeqGreaterThan orders them.
LEMMA Ordered ==
    ASSUME scene \in Scenes, NEW a \in 0 .. MaxMsgs, NEW b \in 0 .. MaxMsgs
    PROVE  SeqGreaterThan(SeqAt(a), SeqAt(b)) <=> a > b
<1>1. /\ scene.start \in 0 .. SeqMod - 1 /\ SeqMod \in Nat \ {0}
      /\ Window \in Nat /\ MaxMsgs \in Nat \ {0}
  BY DatagramAssumption
<1>2. a \in Spanned /\ b \in Spanned
  BY <1>1 DEF Spanned
<1>3. SeqMod \div 2 \in Nat /\ MaxMsgs <= SeqMod \div 2 /\ SeqMod - MaxMsgs > SeqMod \div 2
  BY <1>1, RunAssumption
<1> QED
  BY <1>1, <1>2, <1>3, SeqAtIs, RunAssumption DEF SeqGreaterThan

\* Going back from a sequence number is going back in the messages.
LEMMA Behind ==
    ASSUME scene \in Scenes, NEW k \in 0 .. MaxMsgs, NEW b \in 1 .. Window
    PROVE  (SeqAt(k) - b) % SeqMod = SeqAt(k - b)
<1>1. /\ scene.start \in 0 .. SeqMod - 1 /\ SeqMod \in Nat \ {0}
      /\ Window \in Nat /\ MaxMsgs \in Nat \ {0}
  BY DatagramAssumption
<1> DEFINE x == SeqAt(k) - b
<1>2. k \in Spanned /\ k - b \in Spanned
  BY <1>1 DEF Spanned
<1>3. x \in Int /\ -SeqMod < x /\ x < SeqMod
  BY <1>1, <1>2, SeqAtIs, RunAssumption
<1>4. SeqAt(k - b) = IF x < 0 THEN x + SeqMod ELSE x
  BY <1>1, <1>2, SeqAtIs, RunAssumption
<1> HIDE DEF x
<1>5. x % SeqMod = SeqAt(k - b)
  BY <1>1, <1>3, <1>4, ModBelow, ModMinus
<1> QED
  BY <1>5 DEF x

LEMMA SeqAtNext ==
    ASSUME scene \in Scenes, NEW m \in Messages
    PROVE  NextSeq(SeqAt(m)) = SeqAt(m + 1)
<1>1. /\ scene.start \in 0 .. SeqMod - 1 /\ SeqMod \in Nat \ {0}
      /\ Window \in Nat /\ MaxMsgs \in Nat \ {0}
  BY DatagramAssumption
<1> DEFINE x == SeqAt(m) + 1
<1>2. m \in Spanned /\ m + 1 \in Spanned
  BY <1>1 DEF Spanned, Messages
<1>3. x \in Int /\ 0 <= x /\ x < 2 * SeqMod
  BY <1>1, <1>2, SeqAtIs, RunAssumption
<1>4. SeqAt(m + 1) = IF x < SeqMod THEN x ELSE x - SeqMod
  BY <1>1, <1>2, SeqAtIs, RunAssumption DEF Messages
<1> HIDE DEF x
<1>5. x % SeqMod = SeqAt(m + 1)
  BY <1>1, <1>3, <1>4, ModBelow, ModAbove
<1> QED
  BY <1>5 DEF x, NextSeq

\* What an acknowledgement names.
Named(a) == {a.seq} \union {(a.seq - b) % SeqMod : b \in a.bits}

\* The ring and the network pair each message with its sequence number.
Sequenced ==
    /\ sendSeq = SeqAt(next)
    /\ \A i \in Slots : sendBuf[i].msg # 0 => sendBuf[i].seq = SeqAt(sendBuf[i].msg)
    /\ \A d \in up : d.kind = "reliable" => d.seq = SeqAt(d.msg)

\* top is the newest message received, and the window's bits say which of
\* those just behind it have been received; 0 is the last one before the run.
Received(top) ==
    /\ \A m \in Messages : m > top => got[m] = 0
    /\ ~recv.init => top = 0
    /\ recv.init => recv.seq = SeqAt(top)
    /\ top > 0 => got[top] = 1
    /\ \A m \in Messages : m < top /\ top - m <= Window =>
          (top - m \in recv.bits <=> got[m] = 1)

Windowed ==
    /\ \A m \in Messages : got[m] \in {0, 1}
    /\ \E top \in 0 .. MaxMsgs : Received(top)

\* Acknowledgements name no message of this run that was not received.
AckTrue(a) == \A m \in Messages : SeqAt(m) \in Named(a) => got[m] = 1

Truthful ==
    /\ ackDirty => recv.init
    /\ ackOut # NoAck => recv.init /\ AckTrue(ackOut)
    /\ \A a \in down : AckTrue(a)

PInv == Sequenced /\ Windowed /\ Truthful /\ NothingLost

LEMMA SeqAtSame == scene' = scene => \A m : SeqAt(m)' = SeqAt(m)
BY DEF SeqAt

\* The tick keeps what it leaves in the ring, and empties it only on closing.
LEMMA TickRing ==
    ASSUME ChannelTypes, maintenanceTick
    PROVE  /\ \A i \in Slots : sendBuf'[i].msg # 0 =>
                  sendBuf'[i].seq = sendBuf[i].seq /\ sendBuf'[i].msg = sendBuf[i].msg
           /\ ~cliClosed' => \A i \in Slots : sendBuf'[i].msg = sendBuf[i].msg
<1>1. CASE \E i \in Slots : Expired(i)
  <2>1. cliClosed' = TRUE /\ \A i \in Slots : sendBuf'[i].msg = 0
    BY <1>1 DEF maintenanceTick, CloseClient, Free
  <2> QED
    BY <2>1
<1>2. CASE ~\E i \in Slots : Expired(i)
  <2>1. sendBuf' = [i \in Slots |->
                      IF Used(i) THEN [sendBuf[i] EXCEPT !.age = @ + 1] ELSE sendBuf[i]]
    BY <1>2 DEF maintenanceTick
  <2>2. \A i \in Slots : sendBuf[i] \in Entries
    BY DEF ChannelTypes
  <2> QED
    BY <2>1, <2>2 DEF Entries
<1> QED
  BY <1>1, <1>2

LEMMA SequencedStep ==
    ASSUME ChannelTypes, RInv, Sequenced, Next, TInv
    PROVE  Sequenced'
<1>0. UNCHANGED scene /\ (\A m : SeqAt(m)' = SeqAt(m))
  BY SeqAtSame DEF Next
<1>1. CASE SendReliable
  <2> DEFINE k == sendSeq % Ring
             e == [seq |-> sendSeq, msg |-> next, age |-> 0]
  <2>1. next \in Messages /\ next' = next + 1 /\ sendSeq' = NextSeq(sendSeq) /\ k \in Slots
    BY <1>1, DatagramAssumption DEF SendReliable, ChannelTypes, Messages, Seqs, Slots
  <2>2. sendSeq' = SeqAt(next + 1)
    BY <2>1, SeqAtNext DEF Sequenced, ChannelTypes
  <2>3. \A i \in Slots : sendBuf'[i] \in {sendBuf[i], e, Free}
    BY <1>1, <2>1 DEF SendReliable, RollBack, ChannelTypes
  <2>4. up' \subseteq up \union {Reliable(e)}
    BY <1>1, WriteKeeps DEF SendReliable
  <2>5. e.seq = SeqAt(e.msg) /\ Reliable(e).seq = SeqAt(Reliable(e).msg) /\ Free.msg = 0
    BY DEF Sequenced, Reliable, Free
  <2> HIDE DEF e
  <2>6. \A i \in Slots : sendBuf'[i].msg # 0 => sendBuf'[i].seq = SeqAt(sendBuf'[i].msg)
    BY <2>3, <2>5 DEF Sequenced
  <2>7. \A d \in up' : d.kind = "reliable" => d.seq = SeqAt(d.msg)
    BY <2>4, <2>5 DEF Sequenced
  <2> QED
    BY <1>0, <2>1, <2>2, <2>6, <2>7 DEF Sequenced, SeqAt
<1>2. CASE Close \/ maintenanceTick \/ \E d \in down : processACK(d)
  <2>1. UNCHANGED <<sendSeq, next>>
    BY <1>2 DEF Close, maintenanceTick, processACK
  <2>2. \A i \in Slots : sendBuf'[i].msg # 0 =>
           sendBuf'[i].seq = sendBuf[i].seq /\ sendBuf'[i].msg = sendBuf[i].msg
    <3>1. CASE Close
      BY <3>1 DEF Close, CloseClient, Free
    <3>2. ASSUME NEW d \in down, processACK(d)
          PROVE  \A i \in Slots : sendBuf'[i] \in {Free, sendBuf[i]}
      BY <3>2, MarkAckedFrees DEF processACK
    <3> QED
      BY <1>2, <3>1, <3>2, TickRing DEF Free
  <2>3. \A d \in up' : \/ d \in up \/ d = Disconnect
                       \/ \E i \in Slots : d = Reliable(sendBuf[i]) /\ Used(i)
    <3>1. CASE Close
      BY <3>1, CloseTypes DEF Close, ChannelTypes
    <3>2. ASSUME NEW d \in down, processACK(d) PROVE up' = up
      BY <3>2 DEF processACK
    <3> QED
      BY <1>2, <3>1, <3>2, TickKeeps
  <2>4. ASSUME NEW d \in up', d.kind = "reliable" PROVE d.seq = SeqAt(d.msg)
    <3>1. ASSUME NEW i \in Slots, d = Reliable(sendBuf[i]), Used(i) PROVE d.seq = SeqAt(d.msg)
      BY <3>1 DEF Sequenced, Reliable, Used
    <3> QED
      BY <2>3, <2>4, <3>1 DEF Sequenced, Disconnect
  <2> QED
    BY <1>0, <2>1, <2>2, <2>4 DEF Sequenced
<1>3. CASE (\E d \in up : handleReliable(d)) \/ takePendingACK \/ sendACK \/ Quiet
  <2>1. UNCHANGED <<sendSeq, next, sendBuf>> /\ up' \subseteq up
    BY <1>3 DEF handleReliable, Take, takePendingACK, sendACK, Quiet, client
  <2> QED
    BY <1>0, <2>1 DEF Sequenced
<1> QED
  BY <1>1, <1>2, <1>3, QuietSteps

\* handleReliable keeps the window in step with what was delivered.
LEMMA HandleWindow ==
    ASSUME ChannelTypes, RInv, Sequenced, Windowed, UNCHANGED scene,
           NEW d \in up, handleReliable(d)
    PROVE  /\ Windowed' /\ recv'.init
           /\ \A m \in Messages : got[m] > 0 => got'[m] > 0
           /\ \A m \in Messages : got[m] = 1 => got'[m] = 1
<1> DEFINE n == d.msg
<1>1. PICK top \in 0 .. MaxMsgs : Received(top)
  BY DEF Windowed
<1>2. /\ n \in Messages /\ d.seq = SeqAt(n) /\ n \in 0 .. MaxMsgs
      /\ n \in -Window .. MaxMsgs /\ top \in -Window .. MaxMsgs
      /\ top \in Int /\ n \in Int /\ Window \in Nat
  BY DatagramAssumption DEF handleReliable, ChannelTypes, Packets, Sequenced, RInv, Messages
<1>3. /\ recv' = Track(recv, SeqAt(n)) /\ scene \in Scenes
      /\ Unseen(recv, SeqAt(n)) => got' = [got EXCEPT ![n] = @ + 1]
      /\ ~Unseen(recv, SeqAt(n)) => got' = got
      /\ got \in [Messages -> Nat]
      /\ recv \in [init : BOOLEAN, seq : Seqs, bits : SUBSET (1 .. Window)]
      /\ \A m \in Messages : got[m] \in {0, 1}
  BY <1>2 DEF handleReliable, ChannelTypes, Windowed
<1>4. \A m : SeqAt(m)' = SeqAt(m)
  BY SeqAtSame
<1> HIDE DEF n
<1>5. CASE ~recv.init
  <2>1. recv' = [init |-> TRUE, seq |-> SeqAt(n), bits |-> {}] /\ top = 0
    BY <1>1, <1>3, <1>5 DEF Track, Received
  <2>2. got' = [got EXCEPT ![n] = @ + 1] /\ \A m \in Messages : got[m] = 0
    BY <1>1, <1>3, <1>5, <2>1 DEF Unseen, Received, Messages
  <2>3. got'[n] = 1 /\ \A m \in Messages : m # n => got'[m] = 0
    BY <1>2, <1>3, <2>2
  <2>4. Received(n)'
    BY <1>2, <1>4, <2>1, <2>3 DEF Received, Messages
  <2> QED
    BY <1>2, <2>1, <2>2, <2>3, <2>4 DEF Windowed
<1>6. CASE recv.init /\ n > top
  <2>1. recv.seq = SeqAt(top) /\ SeqGreaterThan(SeqAt(n), recv.seq)
    BY <1>1, <1>2, <1>3, <1>6, Ordered DEF Received
  <2>2. (SeqAt(n) - recv.seq) % SeqMod = n - top
    BY <1>2, <1>3, <1>6, <2>1, Distance
  <2>3. /\ recv'.init /\ recv'.seq = SeqAt(n)
        /\ recv'.bits = {b \in 1 .. Window : b = n - top \/ b - (n - top) \in recv.bits}
    BY <1>3, <1>6, <2>1, <2>2 DEF Track
  <2>4. got' = [got EXCEPT ![n] = @ + 1] /\ got[n] = 0
    BY <1>1, <1>2, <1>3, <1>6, <2>1 DEF Unseen, Received
  <2>5. got'[n] = 1 /\ \A m \in Messages : m # n => got'[m] = got[m]
    BY <1>2, <1>3, <2>4
  <2>6. ASSUME NEW m \in Messages, m < n, n - m <= Window
        PROVE  n - m \in recv'.bits <=> got'[m] = 1
    <3>0. m \in Int /\ m > 0 /\ got'[m] = got[m] /\ n - m \in 1 .. Window
      BY <1>2, <2>5, <2>6 DEF Messages
    <3>1. CASE m > top
      <4>1. got[m] = 0
        BY <1>1, <3>1 DEF Received
      <4>2. n - m # n - top /\ n - m - (n - top) < 0 /\ n - m - (n - top) \in Int
        BY <1>2, <3>0, <3>1
      <4>3. n - m - (n - top) \notin recv.bits
        BY <1>3, <4>2
      <4> QED
        BY <2>3, <3>0, <4>1, <4>2, <4>3
    <3>2. CASE m = top
      BY <1>1, <2>3, <3>0, <3>2 DEF Received
    <3>3. CASE m < top
      <4>1. n - m - (n - top) = top - m /\ n - m # n - top /\ top - m <= Window
        BY <1>2, <1>6, <2>6, <3>0, <3>3
      <4>2. top - m \in recv.bits <=> got[m] = 1
        BY <1>1, <3>3, <4>1 DEF Received
      <4> QED
        BY <2>3, <3>0, <4>1, <4>2
    <3> QED
      BY <1>2, <3>0, <3>1, <3>2, <3>3
  <2>7. \A m \in Messages : m > n => got'[m] = 0
    BY <1>1, <1>2, <1>6, <2>5 DEF Received, Messages
  <2>8. Received(n)'
    BY <1>2, <1>4, <2>3, <2>5, <2>6, <2>7 DEF Received
  <2> QED
    BY <1>2, <1>3, <2>3, <2>4, <2>5, <2>8 DEF Windowed
<1>7. CASE recv.init /\ ~(n > top)
  <2>1. recv.seq = SeqAt(top) /\ ~SeqGreaterThan(SeqAt(n), recv.seq)
    BY <1>1, <1>2, <1>3, <1>7, Ordered DEF Received
  <2>2. (recv.seq - SeqAt(n)) % SeqMod = top - n
    BY <1>2, <1>3, <1>7, <2>1, Distance
  <2>3. /\ recv'.init /\ recv'.seq = SeqAt(top)
        /\ recv'.bits = recv.bits \union ({top - n} \intersect 1 .. Window)
    BY <1>3, <1>7, <2>1, <2>2 DEF Track
  <2>4. Unseen(recv, SeqAt(n)) <=> top - n \in 1 .. Window /\ top - n \notin recv.bits
    BY <1>7, <2>1, <2>2 DEF Unseen
  <2>5. n \in 1 .. top
    BY <1>2, <1>7 DEF Messages
  <2>6. CASE top - n \in 1 .. Window
    <3>1. n < top /\ (top - n \in recv.bits <=> got[n] = 1)
      BY <1>1, <1>2, <2>6 DEF Received
    <3>2. got'[n] = 1 /\ \A m \in Messages : m # n => got'[m] = got[m]
      BY <1>2, <1>3, <2>4, <2>6, <3>1
    <3>3. ASSUME NEW m \in Messages, m < top, top - m <= Window
          PROVE  top - m \in recv'.bits <=> got'[m] = 1
      <4>1. m \in Int /\ (m # n => top - m # top - n) /\ (m = n => top - m = top - n)
        BY <1>2 DEF Messages
      <4>2. top - m \in recv.bits <=> got[m] = 1
        BY <1>1, <3>3 DEF Received
      <4> QED
        BY <2>3, <2>6, <3>1, <3>2, <4>1, <4>2
    <3>4. (\A m \in Messages : m > top => got'[m] = 0) /\ (top > 0 => got'[top] = 1)
      BY <1>1, <1>2, <3>1, <3>2 DEF Received, Messages
    <3>5. Received(top)'
      BY <1>2, <1>4, <2>3, <3>3, <3>4 DEF Received
    <3> QED
      BY <1>2, <1>3, <2>3, <3>2, <3>5 DEF Windowed
  <2>7. CASE top - n \notin 1 .. Window
    <3>1. got' = got /\ recv'.bits = recv.bits
      BY <1>3, <2>3, <2>4, <2>7
    <3>2. Received(top)'
      BY <1>1, <1>2, <1>4, <1>7, <2>3, <3>1 DEF Received
    <3> QED
      BY <1>3, <2>3, <3>1, <3>2 DEF Windowed
  <2> QED
    BY <2>6, <2>7
<1> QED
  BY <1>3, <1>5, <1>6, <1>7

LEMMA WindowedStep ==
    ASSUME ChannelTypes, TInv, RInv, Sequenced, Windowed, Next
    PROVE  /\ Windowed' /\ (recv.init => recv'.init)
           /\ \A m \in Messages : got[m] > 0 => got'[m] > 0
           /\ \A m \in Messages : got[m] = 1 => got'[m] = 1
<1>0. UNCHANGED scene /\ (\A m : SeqAt(m)' = SeqAt(m))
  BY SeqAtSame DEF Next
<1>1. CASE \E d \in up : handleReliable(d)
  BY <1>0, <1>1, HandleWindow
<1>2. CASE ~\E d \in up : handleReliable(d)
  <2>1. UNCHANGED <<recv, got>>
    BY <1>2, QuietSteps DEF SendReliable, Close, maintenanceTick, processACK,
       takePendingACK, sendACK, Quiet, receiver
  <2> QED
    BY <1>0, <2>1 DEF Windowed, Received
<1> QED
  BY <1>1, <1>2

\* The snapshot takePendingACK takes of the window names received messages.
LEMMA SnapshotTrue ==
    ASSUME ChannelTypes, Windowed, recv.init
    PROVE  AckTrue([seq |-> recv.seq, bits |-> recv.bits])
<1> DEFINE a == [seq |-> recv.seq, bits |-> recv.bits]
<1>1. PICK top \in 0 .. MaxMsgs : Received(top)
  BY DEF Windowed
<1>2. SUFFICES ASSUME NEW m \in Messages, SeqAt(m) \in Named(a) PROVE got[m] = 1
  BY DEF AckTrue
<1>3. /\ m \in -Window .. MaxMsgs /\ top \in -Window .. MaxMsgs /\ m > 0 /\ m \in Int
      /\ recv.seq = SeqAt(top) /\ scene \in Scenes /\ Window \in Nat
  BY <1>1, DatagramAssumption DEF Messages, Received, ChannelTypes
<1>4. CASE SeqAt(m) = recv.seq
  <2>1. m = top
    BY <1>3, <1>4, SameSeq
  <2> QED
    BY <1>1, <1>3, <2>1 DEF Received
<1>5. ASSUME NEW b \in recv.bits, SeqAt(m) = (recv.seq - b) % SeqMod PROVE got[m] = 1
  <2>0. b \in 1 .. Window
    BY DEF ChannelTypes
  <2>1. b \in 1 .. Window /\ top - b \in -Window .. MaxMsgs
    BY <1>1, <1>3, <2>0, DatagramAssumption
  <2>2. SeqAt(m) = SeqAt(top - b)
    BY <1>3, <1>5, <2>1, Behind
  <2>3. m = top - b
    BY <1>3, <2>1, <2>2, SameSeq
  <2>4. m < top /\ top - m = b
    BY <1>3, <2>1, <2>3
  <2> QED
    BY <1>1, <1>3, <2>1, <2>4 DEF Received
<1> QED
  BY <1>2, <1>4, <1>5 DEF Named

LEMMA TruthfulStep ==
    ASSUME ChannelTypes, TInv, RInv, Sequenced, Windowed, Truthful, Next
    PROVE  Truthful'
<1>0. UNCHANGED scene /\ (\A m : SeqAt(m)' = SeqAt(m))
  BY SeqAtSame DEF Next
<1>1. \A a : AckTrue(a) => AckTrue(a)'
  BY <1>0, WindowedStep DEF AckTrue, Named
<1>2. recv.init => recv'.init
  BY WindowedStep
<1>3. CASE takePendingACK
  <2>1. AckTrue([seq |-> recv.seq, bits |-> recv.bits])
    BY <1>3, SnapshotTrue DEF takePendingACK, Truthful
  <2>2. /\ ackOut' = [seq |-> recv.seq, bits |-> recv.bits] /\ down' = down
        /\ ackDirty' = FALSE /\ ackDirty
    BY <1>3 DEF takePendingACK
  <2> QED
    BY <1>1, <1>2, <2>1, <2>2 DEF Truthful
<1>4. CASE sendACK
  <2>1. down' \subseteq down \union {ackOut} /\ ackOut # NoAck /\ ackOut' = NoAck
    BY <1>4, WriteKeeps DEF sendACK
  <2> QED
    BY <1>1, <1>2, <2>1 DEF Truthful
<1>5. CASE \E d \in up : handleReliable(d)
  <2>1. recv'.init
    BY <1>0, <1>5, HandleWindow
  <2>2. UNCHANGED <<ackOut, down>>
    BY <1>5 DEF handleReliable, acking
  <2> QED
    BY <1>1, <2>1, <2>2 DEF Truthful
<1>6. CASE ~(takePendingACK \/ sendACK \/ \E d \in up : handleReliable(d))
  <2>1. UNCHANGED <<ackDirty, ackOut>> /\ down' \subseteq down
    BY <1>6, QuietSteps DEF SendReliable, Close, maintenanceTick, processACK, Take,
       Quiet, receiver, acking
  <2> QED
    BY <1>1, <1>2, <2>1 DEF Truthful
<1> QED
  BY <1>3, <1>4, <1>5, <1>6

LEMMA NothingLostStep ==
    ASSUME ChannelTypes, TInv, RInv, PInv, Next
    PROVE  NothingLost'
<1>0. UNCHANGED scene /\ (\A m : SeqAt(m)' = SeqAt(m))
  BY SeqAtSame DEF Next
<1>1. \A m \in Messages : got[m] > 0 => got'[m] > 0
  BY WindowedStep DEF PInv
<1>2. /\ 1 .. next - 1 \subseteq Messages /\ next \in Nat
      /\ got \in [Messages -> Nat]
  BY DatagramAssumption DEF ChannelTypes, Messages
<1>3. CASE SendReliable
  <2> DEFINE k == sendSeq % Ring
             e == [seq |-> sendSeq, msg |-> next, age |-> 0]
  <2>0. k \in Slots
    BY DatagramAssumption DEF ChannelTypes, Seqs, Slots
  <2>1. /\ next' = next + 1 /\ ~cliClosed /\ sendBuf[k].msg = 0
        /\ \A i \in Slots \ {k} : sendBuf'[i] = sendBuf[i]
        /\ refused \subseteq refused'
        /\ next \in refused' \/ sendBuf'[k] = e
    BY <1>3, <2>0 DEF SendReliable, RollBack, ChannelTypes, Used
  <2>2. \A m \in 1 .. next - 1 : m # 0 /\ (Held(m) => Held(m)')
    BY <2>1 DEF Held
  <2>3. next \in refused' \/ \E i \in Slots : sendBuf'[i].msg = next
    BY <2>0, <2>1
  <2>4. ASSUME NEW m \in 1 .. next' - 1
        PROVE  m \in refused' \/ Held(m)' \/ got'[m] > 0
    <3>1. m = next \/ m \in 1 .. next - 1
      BY <1>2, <2>1
    <3>2. CASE m = next
      BY <2>3, <3>2 DEF Held
    <3>3. CASE m \in 1 .. next - 1
      BY <1>1, <1>2, <2>1, <2>2, <3>3 DEF PInv, NothingLost
    <3> QED
      BY <3>1, <3>2, <3>3
  <2> QED
    BY <2>4 DEF NothingLost
<1>4. CASE Close
  BY <1>4 DEF Close, CloseClient, NothingLost
<1>5. CASE maintenanceTick
  <2>1. ~cliClosed /\ UNCHANGED <<next, refused>>
    BY <1>5 DEF maintenanceTick
  <2>2. ~cliClosed' => \A i \in Slots : sendBuf'[i].msg = sendBuf[i].msg
    BY <1>5, TickRing
  <2> QED
    BY <1>1, <1>2, <2>1, <2>2 DEF PInv, NothingLost, Held
<1>6. ASSUME NEW a \in down, processACK(a) PROVE NothingLost'
  <2>1. sendBuf' = markAcked(sendBuf, Named(a)) /\ UNCHANGED <<next, refused, cliClosed>>
    BY <1>6 DEF processACK, Named
  <2>2. ASSUME NEW m \in 1 .. next - 1, Held(m) PROVE Held(m)' \/ got[m] > 0
    <3>1. PICK i \in Slots : sendBuf[i].msg = m
      BY <2>2 DEF Held
    <3>2. sendBuf[i].seq = SeqAt(m) /\ m # 0 /\ m \in Messages
      BY <1>2, <3>1 DEF PInv, Sequenced
    <3>3. CASE SeqAt(m) \in Named(a)
      BY <3>2, <3>3 DEF PInv, Truthful, AckTrue
    <3>4. CASE SeqAt(m) \notin Named(a)
      BY <2>1, <3>1, <3>2, <3>4 DEF markAcked, Held
    <3> QED
      BY <3>3, <3>4
  <2> QED
    BY <1>1, <1>2, <2>1, <2>2 DEF PInv, NothingLost
<1>7. CASE (\E d \in up : handleReliable(d)) \/ takePendingACK \/ sendACK \/ Quiet
  <2>1. UNCHANGED <<sendBuf, next, refused, cliClosed>>
    BY <1>7 DEF handleReliable, takePendingACK, sendACK, Quiet, client
  <2> QED
    BY <1>1, <1>2, <2>1 DEF PInv, NothingLost, Held
<1> QED
  BY <1>3, <1>4, <1>5, <1>6, <1>7, QuietSteps

LEMMA PInvInit == Init => PInv
<1> SUFFICES ASSUME Init PROVE PInv
  OBVIOUS
<1>1. /\ scene \in Scenes /\ scene.start \in 0 .. SeqMod - 1 /\ SeqMod \in Nat \ {0}
      /\ MaxMsgs \in Nat \ {0} /\ Window \in Nat \ {0}
  BY DatagramAssumption DEF Init
<1>2. Sequenced
  <2>1. SeqAt(1) = scene.start
    BY <1>1, ModBelow DEF SeqAt
  <2> QED
    BY <2>1 DEF Init, Sequenced, Free
<1>3. Windowed
  <2>1. scene.start # 0 => SeqAt(0) = scene.start - 1
    BY <1>1, ModBelow DEF SeqAt
  <2>2. Received(0)
    BY <1>1, <2>1 DEF Init, Received, Messages
  <2>3. (\A m \in Messages : got[m] \in {0, 1}) /\ 0 \in 0 .. MaxMsgs
    BY <1>1 DEF Init
  <2> QED
    BY <2>2, <2>3 DEF Windowed
<1>4. Truthful
  BY DEF Init, Truthful
<1>5. NothingLost
  BY DEF Init, NothingLost
<1> QED
  BY <1>2, <1>3, <1>4, <1>5 DEF PInv

LEMMA PInvStep == DInv /\ PInv /\ [Next]_vars => PInv'
<1> SUFFICES ASSUME DInv, PInv, [Next]_vars PROVE PInv'
  OBVIOUS
<1>1. CASE Next
  <2>1. ChannelTypes /\ TInv /\ RInv
    BY TypesSplit DEF DInv
  <2> QED
    BY <1>1, <2>1, SequencedStep, WindowedStep, TruthfulStep, NothingLostStep DEF PInv
<1>2. CASE UNCHANGED vars
  <2>1. \A m : SeqAt(m)' = SeqAt(m)
    BY <1>2, SeqAtSame DEF vars
  <2> QED
    BY <1>2, <2>1 DEF PInv, Sequenced, Windowed, Received, Truthful, AckTrue, Named,
       NothingLost, Held, vars, client, receiver, acking
<1> QED
  BY <1>1, <1>2

LEMMA Delivery == Spec => []PInv
BY Invariants, PInvInit, PInvStep, PTL DEF Spec

\* A retransmitted or repeated message is handed to the queues at most once,
\* across jumps ahead and across the wrap of the sequence numbers: whatever the
\* window of handleReliable could accept, its bits remember.
THEOREM DeliveredAtMostOnce == Spec => []AtMostOnce
<1>1. PInv => AtMostOnce
  BY DEF PInv, Windowed, AtMostOnce
<1> QED
  BY <1>1, Delivery, PTL

\* Until the client closes, an accepted message is in the ring or has been
\* received: an acknowledgement, however late, names no other message.
THEOREM NothingIsLost == Spec => []NothingLost
<1>1. PInv => NothingLost
  BY DEF PInv
<1> QED
  BY <1>1, Delivery, PTL
=============================================================================
