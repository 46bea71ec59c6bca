---------------------------- MODULE HandoffProofs ----------------------------
(***************************************************************************)
(* Theorems about the boundary handoff, for any number of cells and hosts  *)
(* and any lead, retry and cooldown times.                                 *)
(***************************************************************************)
EXTENDS HandoffOneWay, TLAPS

\* Transmit puts at most its message into the inboxes and the network.
LEMMA TransmitType ==
    ASSUME NEW m \in Message, NEW sent, NEW q \in [Cells -> SUBSET Message],
           net \in SUBSET Message, Transmit(m, sent, q)
    PROVE  inbox' \in [Cells -> SUBSET Message] /\ net' \in SUBSET Message
<1>1. m.to \in Cells
  BY DEF Message
<1>2. [q EXCEPT ![m.to] = @ \cup {m}] \in [Cells -> SUBSET Message]
  BY <1>1
<1>3. net \cup {m} \in SUBSET Message
  OBVIOUS
<1> QED
  BY <1>2, <1>3 DEF Transmit

\* Every step of the handoff keeps every variable within its type.
LEMMA TypeStep == TypeOK /\ [Next]_vars => TypeOK'
<1> SUFFICES ASSUME TypeOK, [Next]_vars PROVE TypeOK'
  OBVIOUS
<1> USE HandoffAssumption DEF TypeOK
<1>1. CASE UNCHANGED vars
  BY <1>1 DEF vars, cellVars, driverVars, crossVars
<1>2. ASSUME NEW c \in Cells, NEW m \in inbox[c], ReceiveHandoff(c, m)
      PROVE  TypeOK'
  <2> DEFINE ack == [type |-> "Accepted", from |-> c, to |-> m.from,
                     epoch |-> m.epoch, commit |-> m.commit]
  <2>1. m \in Message
    OBVIOUS
  <2>2. ack \in Message
    BY <2>1 DEF Message
  <2>3. [inbox EXCEPT ![c] = @ \ {m}] \in [Cells -> SUBSET Message]
    OBVIOUS
  <2>4. PICK o \in AckOutcomes(c, m.from) :
          /\ Transmit(ack, o.sent, [inbox EXCEPT ![c] = @ \ {m}])
          /\ \/ UNCHANGED <<accepted, promotes>>
             \/ /\ accepted' = [accepted EXCEPT ![c] = m.epoch]
                /\ promotes' = [promotes EXCEPT ![c] =
                       @ \cup {[epoch |-> m.epoch, commit |-> m.commit]}]
    BY SMTT(30), <1>2 DEF ReceiveHandoff
  <2>5. inbox' \in [Cells -> SUBSET Message] /\ net' \in SUBSET Message
    BY Zenon, <2>2, <2>3, <2>4, TransmitType
  <2>6. m.epoch \in Nat /\ [epoch |-> m.epoch, commit |-> m.commit] \in Promote
    BY <2>1 DEF Message, Promote
  <2>7. accepted' \in [Cells -> Nat]
    BY Zenon, <2>4, <2>6
  <2>8. promotes' \in [Cells -> SUBSET Promote]
    BY <2>4, <2>6
  <2> QED
    BY <1>2, <2>5, <2>7, <2>8 DEF ReceiveHandoff, driverVars, crossVars
<1>3. ASSUME NEW c \in Cells, NEW m \in inbox[c], ReceiveAccepted(c, m)
      PROVE  TypeOK'
  <2>1. m \in Message
    OBVIOUS
  <2>2. demotes' \in [Cells -> SUBSET Demote]
    BY <1>3 DEF ReceiveAccepted, Demote, Attempt
  <2>3. lastHandoff' \in [Cells -> [Cells -> Nat]]
    BY <1>3, <2>1 DEF ReceiveAccepted, Message
  <2> QED
    BY <1>3, <2>2, <2>3 DEF ReceiveAccepted, cellVars, crossVars
<1>4. ASSUME NEW c \in Cells, DrainDone(c)
      PROVE  TypeOK'
  <2>1. cooldown' \in [Cells -> Nat]
    <3> DEFINE left == IF cooldown[c] = 0 THEN 0 ELSE cooldown[c] - 1
    <3>1. left \in Nat
      OBVIOUS
    <3>2. cooldown' = [cooldown EXCEPT ![c] = left]
      BY <1>4 DEF DrainDone
    <3> HIDE DEF left
    <3> QED
      BY <3>1, <3>2
  <2>2. loop' \in [Cells -> LoopSteps]
    BY <1>4 DEF DrainDone, NextStep, LoopSteps
  <2> QED
    BY <1>4, <2>1, <2>2 DEF DrainDone, cellVars, driverVars
<1>5. ASSUME NEW c \in Cells, NEW t \in tick[c] .. MaxTick,
             DrainPendingPromotes(c, t)
      PROVE  TypeOK'
  <2>1. loop' \in [Cells -> LoopSteps]
    BY <1>5 DEF DrainPendingPromotes, NextStep, LoopSteps
  <2>2. tick' \in [Cells -> Nat]
    BY <1>5 DEF DrainPendingPromotes
  <2>3. promotes' \in [Cells -> SUBSET Promote]
    BY <1>5 DEF DrainPendingPromotes
  <2>4. /\ presence' \in [Cells -> Presences]
        /\ cooldown' \in [Cells -> Nat]
    <3>1. \/ UNCHANGED <<presence, cooldown>>
          \/ /\ presence' = [presence EXCEPT ![c] = "Live"]
             /\ cooldown' = [cooldown EXCEPT ![c] = TransferTicks]
      BY <1>5 DEF DrainPendingPromotes
    <3>2. "Live" \in Presences /\ TransferTicks \in Nat
      BY DEF Presences
    <3> QED
      BY <3>1, <3>2
  <2>5. epoch' \in [Cells -> Nat]
    <3>1. \A p \in promotes[c] : p.epoch \in Nat
      BY DEF Promote
    <3> QED
      BY <1>5, <3>1 DEF DrainPendingPromotes
  <2> QED
    BY <1>5, <2>1, <2>2, <2>3, <2>4, <2>5 DEF DrainPendingPromotes, driverVars
<1>6. ASSUME NEW c \in Cells, Retry(c)
      PROVE  TypeOK'
  <2>1. CASE RetryNothing(c)
    BY <2>1 DEF RetryNothing, NextStep, LoopSteps, cellVars, driverVars, crossVars
  <2>2. CASE RetryDead(c)
    <3>1. inflight' \in [Cells -> SUBSET Attempt]
      BY <2>2 DEF RetryDead
    <3>2. loop' \in [Cells -> LoopSteps]
      BY <2>2 DEF RetryDead, NextStep, LoopSteps
    <3> QED
      BY <2>2, <3>1, <3>2 DEF RetryDead, cellVars, crossVars
  <2>3. CASE RetryResend(c)
    <3>1. PICK a \in RetryDue(c) : \E o \in HandoffOutcomes(c, a.dest) :
             /\ Transmit(HandoffTo(c, a), o.sent, inbox)
             /\ inflight' = [inflight EXCEPT ![c] =
                    (@ \ {a}) \cup {[a EXCEPT !.retry = RetryAt(c)]}]
      BY Zenon, <2>3 DEF RetryResend
    <3>2. a \in Attempt
      BY DEF RetryDue
    <3>3. HandoffTo(c, a) \in Message
      BY <3>2 DEF HandoffTo, Attempt, Message
    <3>4. [a EXCEPT !.retry = RetryAt(c)] \in Attempt
      BY <3>2 DEF Attempt, RetryAt
    <3>5. inflight' \in [Cells -> SUBSET Attempt]
      <4> DEFINE left == (inflight[c] \ {a}) \cup {[a EXCEPT !.retry = RetryAt(c)]}
      <4>1. left \in SUBSET Attempt
        BY Zenon, <3>4
      <4>2. inflight' = [inflight EXCEPT ![c] = left]
        BY <3>1
      <4> HIDE DEF left
      <4> QED
        BY <4>1, <4>2
    <3>6. inbox' \in [Cells -> SUBSET Message] /\ net' \in SUBSET Message
      BY <3>1, <3>3, TransmitType
    <3>7. loop' \in [Cells -> LoopSteps]
      BY <2>3 DEF RetryResend, NextStep, LoopSteps
    <3> QED
      BY <2>3, <3>5, <3>6, <3>7 DEF RetryResend, cellVars, crossVars
  <2>4. CASE RetryAbandon(c)
    <3>1. PICK a \in RetryDue(c) : \E o \in HandoffOutcomes(c, a.dest) :
             /\ Transmit(HandoffTo(c, a), o.sent, inbox)
             /\ inflight' = [inflight EXCEPT ![c] = @ \ {a}]
             /\ lastHandoff' = [lastHandoff EXCEPT ![c][a.dest] = 0]
      BY Zenon, <2>4 DEF RetryAbandon
    <3>2. a \in Attempt
      BY DEF RetryDue
    <3>3. HandoffTo(c, a) \in Message
      BY <3>2 DEF HandoffTo, Attempt, Message
    <3>4. lastHandoff' \in [Cells -> [Cells -> Nat]]
      <4>1. a.dest \in Cells
        BY <3>2 DEF Attempt
      <4>2. [lastHandoff[c] EXCEPT ![a.dest] = 0] \in [Cells -> Nat]
        BY <4>1
      <4> QED
        BY <3>1, <4>2
    <3>5. inflight' \in [Cells -> SUBSET Attempt]
      BY <3>1
    <3>6. inbox' \in [Cells -> SUBSET Message] /\ net' \in SUBSET Message
      BY <3>1, <3>3, TransmitType
    <3>7. loop' \in [Cells -> LoopSteps]
      BY <2>4 DEF RetryAbandon, NextStep, LoopSteps
    <3> QED
      BY <2>4, <3>4, <3>5, <3>6, <3>7 DEF RetryAbandon, cellVars, crossVars
  <2> QED
    BY <1>6, <2>1, <2>2, <2>3, <2>4 DEF Retry
<1>7. ASSUME NEW c \in Cells, CommitDemotes(c)
      PROVE  TypeOK'
  BY <1>7 DEF CommitDemotes, NextStep, LoopSteps, Presences, crossVars
<1>8. ASSUME NEW c \in Cells, NEW x \in crossings[c], HandleCrossing(c, x)
      PROVE  TypeOK'
  <2> DEFINE a == [dest |-> x.dest, epoch |-> epoch[c] + 1,
                   commit |-> tick[c] + LeadTicks, retry |-> RetryAt(c)]
  <2>1. a \in Attempt
    BY DEF Attempt, Crossing, RetryAt
  <2>2. HandoffTo(c, a) \in Message
    BY <2>1 DEF HandoffTo, Attempt, Message
  <2>3. PICK o \in HandoffOutcomes(c, x.dest) :
           Transmit(HandoffTo(c, a), o.sent, inbox)
    BY <1>8 DEF HandleCrossing
  <2>4. inbox' \in [Cells -> SUBSET Message] /\ net' \in SUBSET Message
    BY <2>2, <2>3, TransmitType
  <2>5. inflight' \in [Cells -> SUBSET Attempt] /\ epoch' \in [Cells -> Nat]
    BY <1>8, <2>1 DEF HandleCrossing
  <2> QED
    BY Zenon, <1>8, <2>4, <2>5 DEF HandleCrossing
<1>9. ASSUME NEW c \in Cells, NEW x \in crossings[c], DropCrossing(c, x)
      PROVE  TypeOK'
  BY <1>9 DEF DropCrossing, cellVars, driverVars
<1>10. ASSUME NEW c \in Cells, CrossDone(c)
       PROVE  TypeOK'
  BY <1>10 DEF CrossDone, NextStep, LoopSteps, cellVars, driverVars, crossVars
<1>11. ASSUME NEW c \in Cells, NEW d \in Cells, NEW bypass \in BOOLEAN,
              QueueCrossing(c, d, bypass)
       PROVE  TypeOK'
  BY <1>11 DEF QueueCrossing, Crossing, cellVars, driverVars
<1>12. ASSUME NEW c \in Cells, NEW s \in Cells, BorderUpsert(c, s)
       PROVE  TypeOK'
  BY <1>12 DEF BorderUpsert, Presences, driverVars, crossVars
<1>13. ASSUME NEW c \in Cells, ReplicaGone(c)
       PROVE  TypeOK'
  BY <1>13 DEF ReplicaGone, Presences, driverVars, crossVars
<1>14. ASSUME NEW c \in Cells, Despawn(c)
       PROVE  TypeOK'
  <2>1. presence' \in [Cells -> Presences] /\ epoch' \in [Cells -> Nat]
    BY <1>14 DEF Despawn, Presences
  <2>2. despawned' \in BOOLEAN
    BY <1>14 DEF Despawn
  <2> QED
    BY <1>14, <2>1, <2>2 DEF Despawn, driverVars, crossVars
<1>15. ASSUME NEW m \in net, Deliver(m)
       PROVE  TypeOK'
  BY <1>15 DEF Deliver, Message, cellVars, driverVars, crossVars
<1> QED
  BY <1>1, <1>2, <1>3, <1>4, <1>5, <1>6, <1>7, <1>8, <1>9, <1>10, <1>11,
     <1>12, <1>13, <1>14, <1>15 DEF Next, Drain, Cross

\* The initial state is well typed.
LEMMA TypeInit == Init => TypeOK
<1> SUFFICES ASSUME Init PROVE TypeOK
  OBVIOUS
<1>1. lastHandoff \in [Cells -> [Cells -> Nat]]
  BY DEF Init
<1>2. presence \in [Cells -> Presences] /\ loop \in [Cells -> LoopSteps]
  BY DEF Init, Presences, LoopSteps
<1>3. despawned \in BOOLEAN
  BY Zenon DEF Init
<1>4. /\ epoch \in [Cells -> Nat] /\ accepted \in [Cells -> Nat]
      /\ cooldown \in [Cells -> Nat] /\ tick \in [Cells -> Nat]
  BY DEF Init
<1>5. /\ promotes \in [Cells -> SUBSET Promote]
      /\ inflight \in [Cells -> SUBSET Attempt]
      /\ demotes \in [Cells -> SUBSET Demote]
      /\ crossings \in [Cells -> SUBSET Crossing]
      /\ inbox \in [Cells -> SUBSET Message] /\ net \in SUBSET Message
  BY DEF Init
<1> QED
  BY <1>1, <1>2, <1>3, <1>4, <1>5 DEF TypeOK

\* Slots, marks, queues and messages are well formed in every reachable state.
THEOREM TypeCorrect == Spec => []TypeOK
BY TypeInit, TypeStep, PTL DEF Spec

-----------------------------------------------------------------------------
\* hasHandoffInFlight makes the source hand an entity to one cell at a time:
\* the guard of handleCrossing, and the acknowledgement that turns the attempt
\* into the demote, never leave two outstanding.
THEOREM OneHandoff == Spec => []OneHandoffAtATime
<1>1. Init => OneHandoffAtATime
  BY Zenon DEF Init, OneHandoffAtATime
<1>2. TypeOK /\ OneHandoffAtATime /\ [Next]_vars => OneHandoffAtATime'
  <2> SUFFICES ASSUME TypeOK, OneHandoffAtATime, [Next]_vars
               PROVE  OneHandoffAtATime'
    OBVIOUS
  <2>1. CASE UNCHANGED <<inflight, demotes>>
    BY <2>1 DEF OneHandoffAtATime
  <2>2. ASSUME NEW c \in Cells, NEW m \in inbox[c], ReceiveAccepted(c, m)
        PROVE  OneHandoffAtATime'
    <3> DEFINE matched == {a \in inflight[c] : /\ a.epoch = m.epoch
                                               /\ a.commit = m.commit
                                               /\ a.dest = m.from}
    <3>1. CASE matched = {}
      <4>1. inflight' = inflight /\ demotes' = demotes
        BY <2>2, <3>1 DEF ReceiveAccepted, TypeOK
      <4> QED
        BY <4>1 DEF OneHandoffAtATime
    <3>2. CASE matched # {}
      <4>1. PICK a \in inflight[c] : inflight[c] = {a} /\ matched = {a}
        BY <3>2 DEF OneHandoffAtATime
      <4>2. demotes[c] = {}
        BY <4>1 DEF OneHandoffAtATime
      <4>3. inflight' = [inflight EXCEPT ![c] = {}]
        BY Zenon, <2>2, <4>1 DEF ReceiveAccepted
      <4>4. demotes' = [demotes EXCEPT ![c] = {[dest |-> a.dest, commit |-> a.commit]}]
        BY Zenon, <2>2, <4>1, <4>2 DEF ReceiveAccepted
      <4> QED
        BY <4>3, <4>4 DEF OneHandoffAtATime, TypeOK
    <3> QED
      BY <3>1, <3>2
  <2>3. ASSUME NEW c \in Cells, RetryDead(c) \/ RetryAbandon(c)
        PROVE  OneHandoffAtATime'
    <3>1. PICK S : inflight' = [inflight EXCEPT ![c] = @ \ S] /\ demotes' = demotes
      BY Zenon, <2>3 DEF RetryDead, RetryAbandon
    <3> QED
      BY <3>1 DEF OneHandoffAtATime, TypeOK
  <2>4. ASSUME NEW c \in Cells, RetryResend(c)
        PROVE  OneHandoffAtATime'
    <3>1. PICK a \in inflight[c], b \in Attempt :
             inflight' = [inflight EXCEPT ![c] = (@ \ {a}) \cup {b}] /\ demotes' = demotes
      <4>1. PICK a \in RetryDue(c) :
               inflight' = [inflight EXCEPT ![c] =
                               (@ \ {a}) \cup {[a EXCEPT !.retry = RetryAt(c)]}]
        BY Zenon, <2>4 DEF RetryResend
      <4>2. a \in inflight[c] /\ a \in Attempt
        BY DEF RetryDue, TypeOK
      <4>3. [a EXCEPT !.retry = RetryAt(c)] \in Attempt
        BY <4>2, HandoffAssumption DEF Attempt, RetryAt, TypeOK
      <4> QED
        BY Zenon, <2>4, <4>1, <4>2, <4>3 DEF RetryResend
    <3>2. inflight[c] = {a} /\ demotes[c] = {}
      BY DEF OneHandoffAtATime
    <3>3. inflight' = [inflight EXCEPT ![c] = {b}]
      BY Zenon, <3>1, <3>2
    <3> QED
      BY <3>1, <3>2, <3>3 DEF OneHandoffAtATime, TypeOK
  <2>5. ASSUME NEW c \in Cells, CommitDemotes(c)
        PROVE  OneHandoffAtATime'
    <3>1. PICK S : demotes' = [demotes EXCEPT ![c] = @ \ S] /\ inflight' = inflight
      BY Zenon, <2>5 DEF CommitDemotes
    <3> QED
      BY <3>1 DEF OneHandoffAtATime, TypeOK
  <2>6. ASSUME NEW c \in Cells, NEW x \in crossings[c], HandleCrossing(c, x)
        PROVE  OneHandoffAtATime'
    <3>1. inflight[c] = {} /\ demotes[c] = {} /\ demotes' = demotes
      BY <2>6 DEF HandleCrossing, Admitted, HandoffInFlight
    <3>2. \/ inflight' = inflight
          \/ \E a : inflight' = [inflight EXCEPT ![c] = {a}]
      BY Zenon, <2>6 DEF HandleCrossing
    <3>3. ASSUME NEW a, inflight' = [inflight EXCEPT ![c] = {a}]
          PROVE  OneHandoffAtATime'
      BY <3>1, <3>3 DEF OneHandoffAtATime, TypeOK
    <3>4. CASE inflight' = inflight
      BY <3>1, <3>4 DEF OneHandoffAtATime
    <3> QED
      BY Zenon, <3>2, <3>3, <3>4
  <2>7. ASSUME NEW c \in Cells, NEW m \in inbox[c], ReceiveHandoff(c, m)
        PROVE  UNCHANGED <<inflight, demotes>>
    BY <2>7 DEF ReceiveHandoff, driverVars
  <2>8. ASSUME NEW c \in Cells,
               \/ DrainDone(c) \/ RetryNothing(c) \/ CrossDone(c)
               \/ ReplicaGone(c) \/ Despawn(c)
               \/ \E s \in Cells : BorderUpsert(c, s)
               \/ \E t \in tick[c] .. MaxTick : DrainPendingPromotes(c, t)
               \/ \E x \in crossings[c] : DropCrossing(c, x)
               \/ \E d \in Cells, bypass \in BOOLEAN : QueueCrossing(c, d, bypass)
        PROVE  UNCHANGED <<inflight, demotes>>
    BY Zenon, <2>8 DEF DrainDone, RetryNothing, CrossDone, ReplicaGone, Despawn,
                BorderUpsert, DrainPendingPromotes, DropCrossing, QueueCrossing,
                driverVars
  <2>9. ASSUME NEW m \in net, Deliver(m)
        PROVE  UNCHANGED <<inflight, demotes>>
    BY <2>9 DEF Deliver, driverVars
  <2>10. CASE UNCHANGED vars
    BY <2>1, <2>10 DEF vars, driverVars
  <2> QED
    BY <2>1, <2>2, <2>3, <2>4, <2>5, <2>6, <2>7, <2>8, <2>9, <2>10
       DEF Next, Drain, Retry, Cross
<1> QED
  BY <1>1, <1>2, TypeCorrect, PTL DEF Spec

-----------------------------------------------------------------------------
\* After a send the frames in transit are among the old ones and the new one.
LEMMA TransmitInTransit ==
    ASSUME TypeOK, NEW m, m.to \in Cells, NEW sent,
           NEW q \in [Cells -> SUBSET Message],
           \A c \in Cells : q[c] \subseteq inbox[c],
           Transmit(m, sent, q)
    PROVE  \A k \in InTransit' : k \in InTransit \/ (sent /\ k = m)
<1> SUFFICES ASSUME NEW k \in InTransit', k \notin InTransit
             PROVE  sent /\ k = m
  OBVIOUS
<1>1. k \in net' \/ \E c \in Cells : k \in inbox'[c]
  BY DEF InTransit
<1>2. k \notin net /\ \A c \in Cells : k \notin inbox[c]
  BY DEF InTransit
<1> QED
  BY <1>1, <1>2 DEF Transmit

\* What a step has to keep for OneWayInv to hold after it.
LEMMA Preserve ==
    ASSUME OneWayInv, TypeOK',
           \A r \in Nat : Covered(r) => Covered(r)',
           \A c \in Cells : accepted'[c] # 0 => despawned' \/ Holder(c)',
           \A m \in InTransit' : m.type = "Accepted"
               => m \in InTransit \/ Covered(Rank[m.from])',
           \A c \in Cells : Onward(c)',
           \A c \in Cells : \A d \in demotes'[c] :
               d \in demotes[c] \/ (Rank[c] < Rank[d.dest] /\ Covered(Rank[d.dest]))
    PROVE  OneWayInv'
<1>1. NoOrphan'
  <2>1. Covered(0)
    BY OneWayAssumption DEF OneWayInv, NoOrphan, Covered
  <2>2. Covered(0)'
    BY <2>1
  <2> QED
    BY <2>2 DEF Covered, NoOrphan
<1>2. \A m \in InTransit' : m.type = "Accepted" => Covered(Rank[m.from])'
  <2> SUFFICES ASSUME NEW m \in InTransit', m.type = "Accepted", m \in InTransit
               PROVE  Covered(Rank[m.from])'
    OBVIOUS
  <2>1. m \in Message
    BY DEF OneWayInv, TypeOK, InTransit
  <2>2. Rank[m.from] \in Nat
    BY <2>1, OneWayAssumption DEF Message
  <2> QED
    BY <2>2 DEF OneWayInv
<1>3. \A c \in Cells : \A d \in demotes'[c] :
         Rank[c] < Rank[d.dest] /\ Covered(Rank[d.dest])'
  <2> SUFFICES ASSUME NEW c \in Cells, NEW d \in demotes'[c]
               PROVE  Rank[c] < Rank[d.dest] /\ Covered(Rank[d.dest])'
    OBVIOUS
  <2>1. Rank[c] < Rank[d.dest] /\ Covered(Rank[d.dest])
    BY DEF OneWayInv
  <2>2. d \in Demote
    BY DEF TypeOK
  <2>3. Rank[d.dest] \in Nat
    BY <2>2, OneWayAssumption DEF Demote
  <2> QED
    BY <2>1, <2>3
<1> QED
  BY <1>1, <1>2, <1>3 DEF OneWayInv

\* The same for a step that takes no holder away and touches no mark.
LEMMA PreserveHolders ==
    ASSUME OneWayInv, TypeOK', despawned => despawned',
           \A c \in Cells : Holder(c) => Holder(c)',
           accepted' = accepted,
           \A m \in InTransit' : m.type = "Accepted" => m \in InTransit,
           \A c \in Cells : Onward(c)',
           \A c \in Cells : \A d \in demotes'[c] :
               d \in demotes[c] \/ (Rank[c] < Rank[d.dest] /\ Covered(Rank[d.dest]))
    PROVE  OneWayInv'
<1>1. \A r \in Nat : Covered(r) => Covered(r)'
  BY DEF Covered
<1>2. \A c \in Cells : accepted'[c] # 0 => despawned' \/ Holder(c)'
  BY DEF OneWayInv
<1> QED
  BY <1>1, <1>2, Preserve

\* A send that is not reported as failed is the only one that may leave a
\* frame behind.
LEMMA SentIsOk ==
    ASSUME NEW c \in Cells, NEW d \in Cells,
           NEW o \in AckOutcomes(c, d), o.sent
    PROVE  o.ok
BY OneWayAssumption DEF AckOutcomes, RemoteOutcomes

\* Every step of the handoff preserves OneWayInv.
LEMMA OneWayStep == OneWayInv /\ [Next]_vars => OneWayInv'
<1> SUFFICES ASSUME OneWayInv, [Next]_vars PROVE OneWayInv'
  OBVIOUS
<1>1. TypeOK /\ TypeOK'
  BY TypeStep DEF OneWayInv
<1>2. ASSUME NEW c \in Cells, NEW m \in inbox[c], ReceiveHandoff(c, m)
      PROVE  OneWayInv'
  <2> DEFINE ack == [type |-> "Accepted", from |-> c, to |-> m.from,
                     epoch |-> m.epoch, commit |-> m.commit]
  <2>1. m \in Message
    BY <1>1 DEF TypeOK
  <2>2. m.from \in Cells
    BY <2>1 DEF Message
  <2>3. PICK o \in AckOutcomes(c, m.from) :
          /\ Transmit(ack, o.sent, [inbox EXCEPT ![c] = @ \ {m}])
          /\ IF AlreadyAccepted(c, m.epoch) \/ ~o.ok
             THEN UNCHANGED <<accepted, promotes>>
             ELSE /\ accepted' = [accepted EXCEPT ![c] = m.epoch]
                  /\ promotes' = [promotes EXCEPT ![c] =
                         @ \cup {[epoch |-> m.epoch, commit |-> m.commit]}]
    BY <1>2 DEF ReceiveHandoff
  <2>4. /\ presence' = presence /\ despawned' = despawned
        /\ inflight' = inflight /\ demotes' = demotes /\ crossings' = crossings
    BY <1>2 DEF ReceiveHandoff, driverVars, crossVars
  <2>5. \A x \in Cells : Holder(x) => Holder(x)'
    <3>1. \/ promotes' = promotes
          \/ promotes' = [promotes EXCEPT ![c] =
                 @ \cup {[epoch |-> m.epoch, commit |-> m.commit]}]
      BY <2>3
    <3>2. \A x \in Cells : promotes[x] # {} => promotes'[x] # {}
      BY Zenon, <1>1, <3>1 DEF TypeOK
    <3> QED
      BY <2>4, <3>2 DEF Holder
  <2>6. \A r \in Nat : Covered(r) => Covered(r)'
    BY <2>4, <2>5 DEF Covered
  <2>7. ~AlreadyAccepted(c, m.epoch) /\ o.ok => Holder(c)'
    <3> SUFFICES ASSUME ~AlreadyAccepted(c, m.epoch), o.ok PROVE Holder(c)'
      OBVIOUS
    <3>1. promotes' = [promotes EXCEPT ![c] =
             @ \cup {[epoch |-> m.epoch, commit |-> m.commit]}]
      BY <2>3
    <3>2. promotes'[c] # {}
      BY ZenonT(30), <1>1, <3>1 DEF TypeOK
    <3> QED
      BY <3>2 DEF Holder
  <2>8. \A x \in Cells : accepted'[x] # 0 => despawned' \/ Holder(x)'
    BY <1>1, <2>3, <2>4, <2>5, <2>7 DEF OneWayInv, TypeOK
  <2>9. o.sent => despawned' \/ Holder(c)'
    <3>1. AlreadyAccepted(c, m.epoch) => despawned \/ Holder(c)
      BY DEF AlreadyAccepted, OneWayInv
    <3>2. o.sent => o.ok
      BY <2>2, SentIsOk
    <3> QED
      BY <2>4, <2>5, <2>7, <3>1, <3>2
  <2>10. o.sent => Covered(Rank[c])'
    BY <2>9, OneWayAssumption DEF Covered
  <2>11. \A k \in InTransit' : k \in InTransit \/ (o.sent /\ k = ack)
    <3>1. [inbox EXCEPT ![c] = @ \ {m}] \in [Cells -> SUBSET Message]
      BY <1>1 DEF TypeOK
    <3>2. \A x \in Cells : [inbox EXCEPT ![c] = @ \ {m}][x] \subseteq inbox[x]
      BY <1>1 DEF TypeOK
    <3> QED
      BY ZenonT(30), <1>1, <2>2, <2>3, <3>1, <3>2, TransmitInTransit
  <2>12. \A k \in InTransit' : k.type = "Accepted"
            => k \in InTransit \/ Covered(Rank[k.from])'
    BY <2>10, <2>11
  <2>13. /\ \A x \in Cells : Onward(x)'
         /\ \A x \in Cells : \A d \in demotes'[x] : d \in demotes[x]
    BY <2>4 DEF OneWayInv, Onward
  <2> QED
    BY <1>1, <2>6, <2>8, <2>12, <2>13, Preserve
<1>3. ASSUME NEW c \in Cells, NEW m \in inbox[c], ReceiveAccepted(c, m)
      PROVE  OneWayInv'
  <2> DEFINE matched == {a \in inflight[c] : /\ a.epoch = m.epoch
                                             /\ a.commit = m.commit
                                             /\ a.dest = m.from}
  <2>1. /\ presence' = presence /\ promotes' = promotes /\ accepted' = accepted
        /\ despawned' = despawned /\ net' = net
        /\ inbox' = [inbox EXCEPT ![c] = @ \ {m}] /\ crossings' = crossings
    BY <1>3 DEF ReceiveAccepted, cellVars, crossVars
  <2>2. \A x \in Cells : Holder(x) => Holder(x)'
    BY <2>1 DEF Holder
  <2>3. \A k \in InTransit' : k \in InTransit
    BY <1>1, <2>1 DEF InTransit, TypeOK
  <2>4. \A x \in Cells : Onward(x)'
    BY <1>1, <1>3, <2>1 DEF ReceiveAccepted, OneWayInv, Onward, TypeOK
  <2>5. Covered(Rank[m.from])
    BY <1>3 DEF ReceiveAccepted, OneWayInv, InTransit
  <2>6. \A a \in matched : Rank[c] < Rank[a.dest] /\ Covered(Rank[a.dest])
    BY <2>5 DEF OneWayInv, Onward
  <2>7. \A x \in Cells : \A d \in demotes'[x] :
           d \in demotes[x] \/ (Rank[x] < Rank[d.dest] /\ Covered(Rank[d.dest]))
    <3> SUFFICES ASSUME NEW x \in Cells, NEW d \in demotes'[x], d \notin demotes[x]
                 PROVE  Rank[x] < Rank[d.dest] /\ Covered(Rank[d.dest])
      OBVIOUS
    <3>1. demotes' = [demotes EXCEPT ![c] =
             @ \cup {[dest |-> a.dest, commit |-> a.commit] : a \in matched}]
      BY <1>3 DEF ReceiveAccepted
    <3>2. x = c
      BY <1>1, <3>1 DEF TypeOK
    <3>3. PICK a \in matched : d = [dest |-> a.dest, commit |-> a.commit]
      BY <1>1, <3>1, <3>2 DEF TypeOK
    <3>4. d.dest = a.dest
      BY <3>3
    <3> QED
      BY <2>6, <3>2, <3>4
  <2> QED
    BY <1>1, <2>1, <2>2, <2>3, <2>4, <2>7, PreserveHolders
<1>4. ASSUME NEW c \in Cells, NEW t \in tick[c] .. MaxTick,
             DrainPendingPromotes(c, t)
      PROVE  OneWayInv'
  <2>1. /\ accepted' = accepted /\ despawned' = despawned /\ inflight' = inflight
        /\ demotes' = demotes /\ inbox' = inbox /\ net' = net /\ crossings' = crossings
    BY <1>4 DEF DrainPendingPromotes, driverVars
  <2>2. \A x \in Cells : Holder(x) => Holder(x)'
    BY <1>1, <1>4 DEF DrainPendingPromotes, Holder, TypeOK
  <2>3. InTransit' = InTransit
    BY <2>1 DEF InTransit
  <2>4. /\ \A x \in Cells : Onward(x)'
        /\ \A x \in Cells : \A d \in demotes'[x] : d \in demotes[x]
    BY ZenonT(30), <2>1 DEF OneWayInv, Onward
  <2> QED
    BY <1>1, <2>1, <2>2, <2>3, <2>4, PreserveHolders
<1>5. ASSUME NEW c \in Cells, RetryResend(c) \/ RetryAbandon(c)
      PROVE  OneWayInv'
  <2>1. PICK a \in RetryDue(c) : \E o \in HandoffOutcomes(c, a.dest) :
           Transmit(HandoffTo(c, a), o.sent, inbox)
    BY <1>5 DEF RetryResend, RetryAbandon
  <2>2. a \in inflight[c] /\ a.dest \in Cells
    BY <1>1 DEF RetryDue, TypeOK, Attempt
  <2>3. /\ presence' = presence /\ promotes' = promotes /\ accepted' = accepted
        /\ despawned' = despawned /\ demotes' = demotes /\ crossings' = crossings
    BY <1>5 DEF RetryResend, RetryAbandon, cellVars, crossVars
  <2>4. \A x \in Cells : Holder(x) => Holder(x)'
    BY <2>3 DEF Holder
  <2>5. \A k \in InTransit' : k \in InTransit \/ k = HandoffTo(c, a)
    BY Zenon, <1>1, <2>1, <2>2, TransmitInTransit DEF TypeOK, HandoffTo
  <2>6. \A k \in InTransit' : k.type = "Accepted" => k \in InTransit
    BY <2>5 DEF HandoffTo
  <2>7. \A x \in Cells : Onward(x)'
    <3>1. CASE RetryResend(c)
      <4>1. PICK b \in RetryDue(c) :
               inflight' = [inflight EXCEPT ![c] =
                               (@ \ {b}) \cup {[b EXCEPT !.retry = RetryAt(c)]}]
        BY Zenon, <3>1 DEF RetryResend
      <4>2. b \in inflight[c] /\ b \in Attempt
        BY <1>1 DEF RetryDue, TypeOK
      <4>3. [b EXCEPT !.retry = RetryAt(c)].dest = b.dest
        BY SMTT(30), <4>2 DEF Attempt
      <4> QED
        BY Zenon, <1>1, <2>3, <4>1, <4>2, <4>3 DEF OneWayInv, Onward, TypeOK
    <3>2. CASE RetryAbandon(c)
      BY <1>1, <2>3, <3>2 DEF RetryAbandon, OneWayInv, Onward, TypeOK
    <3> QED
      BY <1>5, <3>1, <3>2
  <2>8. \A x \in Cells : \A d \in demotes'[x] : d \in demotes[x]
    BY <2>3
  <2> QED
    BY Zenon, <1>1, <2>3, <2>4, <2>6, <2>7, <2>8, PreserveHolders
<1>6. ASSUME NEW c \in Cells, CommitDemotes(c)
      PROVE  OneWayInv'
  <2> DEFINE due == {d \in demotes[c] : d.commit <= tick[c]}
  <2>1. /\ promotes' = promotes /\ despawned' = despawned /\ inflight' = inflight
        /\ inbox' = inbox /\ net' = net /\ crossings' = crossings
        /\ demotes' = [demotes EXCEPT ![c] = @ \ due]
    BY <1>6 DEF CommitDemotes, crossVars
  <2>2. InTransit' = InTransit
    BY <2>1 DEF InTransit
  <2>3. /\ \A x \in Cells : Onward(x)'
        /\ \A x \in Cells : \A d \in demotes'[x] : d \in demotes[x]
    BY <1>1, <2>1 DEF OneWayInv, Onward, TypeOK
  <2>4. CASE due = {} \/ presence[c] # "Live"
    <3>1. presence' = presence /\ accepted' = accepted
      BY <1>6, <2>4 DEF CommitDemotes
    <3>2. \A x \in Cells : Holder(x) => Holder(x)'
      BY <2>1, <3>1 DEF Holder
    <3> QED
      BY Zenon, <1>1, <2>1, <2>2, <2>3, <3>1, <3>2, PreserveHolders
  <2>5. CASE due # {} /\ presence[c] = "Live"
    <3>1. /\ presence' = [presence EXCEPT ![c] = "Replica"]
          /\ accepted' = [accepted EXCEPT ![c] = 0]
      BY <1>6, <2>5 DEF CommitDemotes
    <3>2. \A x \in Cells : x # c /\ Holder(x) => Holder(x)'
      BY <1>1, <2>1, <3>1 DEF Holder, TypeOK
    <3>3. PICK d \in demotes[c] : Rank[c] < Rank[d.dest] /\ Covered(Rank[d.dest])
      BY <2>5 DEF OneWayInv
    <3>4. d.dest \in Cells
      BY <1>1 DEF TypeOK, Demote
    <3>5. despawned \/ \E y \in Cells : Holder(y)' /\ Rank[c] < Rank[y]
      <4>1. CASE despawned
        BY <4>1
      <4>2. CASE ~despawned
        <5>1. PICK y \in Cells : Holder(y) /\ Rank[d.dest] <= Rank[y]
          BY <3>3, <4>2 DEF Covered
        <5>2. Rank[c] < Rank[y] /\ y # c
          BY <3>3, <3>4, <5>1, OneWayAssumption
        <5> QED
          BY <3>2, <5>1, <5>2
      <4> QED
        BY <4>1, <4>2
    <3>6. \A r \in Nat : Covered(r) => Covered(r)'
      <4> SUFFICES ASSUME NEW r \in Nat, Covered(r) PROVE Covered(r)'
        OBVIOUS
      <4>1. CASE despawned
        BY <2>1, <4>1 DEF Covered
      <4>2. CASE ~despawned
        <5>1. PICK x \in Cells : Holder(x) /\ r <= Rank[x]
          BY <4>2 DEF Covered
        <5>2. PICK y \in Cells : Holder(y)' /\ Rank[c] < Rank[y]
          BY <3>5, <4>2
        <5>3. CASE x # c
          BY <3>2, <5>1, <5>3 DEF Covered
        <5>4. CASE x = c
          <6>1. r <= Rank[y]
            BY <5>1, <5>2, <5>4, OneWayAssumption
          <6> QED
            BY <5>2, <6>1 DEF Covered
        <5> QED
          BY <5>3, <5>4
      <4> QED
        BY <4>1, <4>2
    <3>7. \A x \in Cells : accepted'[x] # 0 => despawned' \/ Holder(x)'
      BY <1>1, <2>1, <3>1, <3>2 DEF OneWayInv, TypeOK
    <3> QED
      BY <1>1, <2>2, <2>3, <3>6, <3>7, Preserve
  <2> QED
    BY <2>4, <2>5
<1>7. ASSUME NEW c \in Cells, NEW x \in crossings[c], HandleCrossing(c, x)
      PROVE  OneWayInv'
  <2> DEFINE a == [dest |-> x.dest, epoch |-> epoch[c] + 1,
                   commit |-> tick[c] + LeadTicks, retry |-> RetryAt(c)]
  <2>1. /\ presence' = presence /\ promotes' = promotes /\ accepted' = accepted
        /\ despawned' = despawned /\ demotes' = demotes
        /\ crossings' = [crossings EXCEPT ![c] = @ \ {x}]
    BY Zenon, <1>7 DEF HandleCrossing
  <2>2. \A y \in Cells : Holder(y) => Holder(y)'
    BY <2>1 DEF Holder
  <2>3. x.dest \in Cells
    BY <1>1 DEF TypeOK, Crossing
  <2>4. PICK o \in HandoffOutcomes(c, x.dest) :
          /\ Transmit(HandoffTo(c, a), o.sent, inbox)
          /\ inflight' = inflight \/ inflight' = [inflight EXCEPT ![c] = {a}]
    BY ZenonT(30), <1>7 DEF HandleCrossing
  <2>5. HandoffTo(c, a).to \in Cells /\ HandoffTo(c, a).type # "Accepted"
    <3>1. a.dest = x.dest
      OBVIOUS
    <3> HIDE DEF a
    <3>2. HandoffTo(c, a).to = a.dest /\ HandoffTo(c, a).type = "Handoff"
      BY Zenon DEF HandoffTo
    <3> QED
      BY <2>3, <3>1, <3>2
  <2>6. \A k \in InTransit' : k.type = "Accepted" => k \in InTransit
    <3>1. inbox \in [Cells -> SUBSET Message]
      BY <1>1 DEF TypeOK
    <3>2. \A k \in InTransit' : k \in InTransit \/ k = HandoffTo(c, a)
      BY ZenonT(30), <1>1, <2>4, <2>5, <3>1, TransmitInTransit
    <3> QED
      BY Zenon, <2>5, <3>2
  <2>7. Rank[c] < Rank[a.dest]
    BY Zenon DEF OneWayInv, Onward
  <2> HIDE DEF a
  <2>8. ASSUME NEW y \in Cells PROVE Onward(y)'
    <3>1. inflight'[y] = inflight[y] \/ (y = c /\ inflight'[y] = {a})
      BY <1>1, <2>4 DEF TypeOK
    <3>2. crossings'[y] \subseteq crossings[y]
      BY <1>1, <2>1 DEF TypeOK
    <3>3. Onward(y)
      BY Zenon DEF OneWayInv
    <3>4. \A z \in inflight'[y] : Rank[y] < Rank[z.dest]
      BY <2>7, <3>1, <3>3 DEF Onward
    <3>5. \A z \in crossings'[y] : Rank[y] < Rank[z.dest]
      BY <3>2, <3>3 DEF Onward
    <3> QED
      BY <3>4, <3>5 DEF Onward
  <2>9. \A y \in Cells : \A d \in demotes'[y] : d \in demotes[y]
    BY <2>1
  <2> QED
    BY ZenonT(30), <1>1, <2>1, <2>2, <2>6, <2>8, <2>9, PreserveHolders
<1>8. ASSUME UNCHANGED <<presence, promotes, accepted, despawned, inflight,
                         demotes, inbox, net>>,
             \A c \in Cells : Onward(c)'
      PROVE  OneWayInv'
  <2>1. \A c \in Cells : Holder(c) => Holder(c)'
    BY <1>8 DEF Holder
  <2>2. InTransit' = InTransit
    BY <1>8 DEF InTransit
  <2>3. \A x \in Cells : \A d \in demotes'[x] : d \in demotes[x]
    BY <1>8
  <2> QED
    BY <1>1, <1>8, <2>1, <2>2, <2>3, PreserveHolders
<1>9. CASE UNCHANGED vars
  <2>1. UNCHANGED <<presence, promotes, accepted, despawned, inflight, demotes,
                    inbox, net, crossings>>
    BY <1>9 DEF vars, cellVars, driverVars, crossVars
  <2>2. \A c \in Cells : Onward(c)'
    BY Zenon, <2>1 DEF OneWayInv, Onward
  <2> QED
    BY <1>8, <2>1, <2>2
<1>10. ASSUME NEW c \in Cells, DrainDone(c) \/ CrossDone(c) \/ RetryNothing(c)
       PROVE  OneWayInv'
  <2>1. UNCHANGED <<presence, promotes, accepted, despawned, inflight, demotes,
                    inbox, net, crossings>>
    BY Zenon, <1>10 DEF DrainDone, CrossDone, RetryNothing, cellVars, driverVars, crossVars
  <2>2. \A x \in Cells : Onward(x)'
    BY Zenon, <2>1 DEF OneWayInv, Onward
  <2> QED
    BY <1>8, <2>1, <2>2
<1>11. ASSUME NEW c \in Cells, NEW x \in crossings[c], DropCrossing(c, x)
       PROVE  OneWayInv'
  <2>1. /\ UNCHANGED <<presence, promotes, accepted, despawned, inflight, demotes,
                       inbox, net>>
        /\ crossings' = [crossings EXCEPT ![c] = @ \ {x}]
    BY <1>11 DEF DropCrossing, cellVars, driverVars
  <2>2. \A y \in Cells : Onward(y)'
    BY <1>1, <2>1 DEF OneWayInv, Onward, TypeOK
  <2> QED
    BY <1>8, <2>1, <2>2
<1>12. ASSUME NEW c \in Cells, NEW d \in Cells, NEW bypass \in BOOLEAN,
              QueueCrossing(c, d, bypass)
       PROVE  OneWayInv'
  <2>1. /\ UNCHANGED <<presence, promotes, accepted, despawned, inflight, demotes,
                       inbox, net>>
        /\ crossings' = [crossings EXCEPT ![c] =
                            @ \cup {[dest |-> d, bypass |-> bypass]}]
    BY <1>12 DEF QueueCrossing, cellVars, driverVars
  <2>2. Rank[c] < Rank[d]
    BY <1>12, OneWayAssumption DEF QueueCrossing
  <2>3. \A y \in Cells : Onward(y)'
    BY <1>1, <2>1, <2>2 DEF OneWayInv, Onward, TypeOK
  <2> QED
    BY <1>8, <2>1, <2>3
<1>13. ASSUME NEW c \in Cells, RetryDead(c)
       PROVE  OneWayInv'
  <2>1. /\ UNCHANGED <<presence, promotes, accepted, despawned, demotes, inbox,
                       net, crossings>>
        /\ inflight' = [inflight EXCEPT ![c] = @ \ RetryDue(c)]
    BY <1>13 DEF RetryDead, cellVars, crossVars
  <2>2. \A y \in Cells : Onward(y)'
    BY <1>1, <2>1 DEF OneWayInv, Onward, TypeOK
  <2>3. \A y \in Cells : Holder(y) => Holder(y)'
    BY <2>1 DEF Holder
  <2>4. InTransit' = InTransit /\ \A y \in Cells : \A d \in demotes'[y] : d \in demotes[y]
    BY <2>1 DEF InTransit
  <2> QED
    BY Zenon, <1>1, <2>1, <2>2, <2>3, <2>4, PreserveHolders
<1>14. ASSUME NEW c \in Cells,
              \/ ReplicaGone(c) \/ Despawn(c)
              \/ \E s \in Cells : BorderUpsert(c, s)
       PROVE  OneWayInv'
  <2>1. /\ UNCHANGED <<promotes, accepted, inflight, demotes, inbox, net, crossings>>
        /\ despawned => despawned'
    BY <1>14 DEF ReplicaGone, Despawn, BorderUpsert, driverVars, crossVars
  <2>2. \A y \in Cells : Onward(y)'
    BY <2>1 DEF OneWayInv, Onward
  <2>3. InTransit' = InTransit /\ \A y \in Cells : \A d \in demotes'[y] : d \in demotes[y]
    BY <2>1 DEF InTransit
  <2>4. CASE despawned'
    <3>1. \A r \in Nat : Covered(r)'
      BY <2>4 DEF Covered
    <3> QED
      BY Zenon, <1>1, <2>2, <2>3, <2>4, <3>1, Preserve
  <2>5. CASE ~despawned'
    <3>1. ~Despawn(c)
      BY <2>5 DEF Despawn
    <3>2. \A y \in Cells : Holder(y) => Holder(y)'
      BY <1>1, <1>14, <2>1, <3>1 DEF ReplicaGone, BorderUpsert, Holder, TypeOK
    <3> QED
      BY Zenon, <1>1, <2>1, <2>2, <2>3, <3>2, PreserveHolders
  <2> QED
    BY <2>4, <2>5
<1>15. ASSUME NEW m \in net, Deliver(m)
       PROVE  OneWayInv'
  <2>1. /\ UNCHANGED <<presence, promotes, accepted, despawned, inflight, demotes,
                       crossings>>
        /\ net' = net \ {m} /\ inbox' = [inbox EXCEPT ![m.to] = @ \cup {m}]
    BY <1>15 DEF Deliver, cellVars, driverVars, crossVars
  <2>2. \A k \in InTransit' : k \in InTransit
    BY <1>1, <2>1 DEF InTransit, TypeOK
  <2>3. /\ \A y \in Cells : Onward(y)'
        /\ \A y \in Cells : \A d \in demotes'[y] : d \in demotes[y]
    BY ZenonT(30), <2>1 DEF OneWayInv, Onward
  <2>4. \A y \in Cells : Holder(y) => Holder(y)'
    BY <2>1 DEF Holder
  <2> QED
    BY Zenon, <1>1, <2>1, <2>2, <2>3, <2>4, PreserveHolders
<1> QED
  BY <1>2, <1>3, <1>4, <1>5, <1>6, <1>7, <1>9, <1>10, <1>11, <1>12, <1>13,
     <1>14, <1>15 DEF Next, Drain, Retry, Cross

LEMMA OneWayInit == Init => OneWayInv
<1> SUFFICES ASSUME Init PROVE OneWayInv
  OBVIOUS
<1>1. TypeOK
  BY TypeInit
<1>2. NoOrphan
  BY HandoffAssumption DEF Init, NoOrphan, Holder
<1>3. InTransit = {}
  BY DEF Init, InTransit
<1> QED
  BY Zenon, <1>1, <1>2, <1>3 DEF Init, OneWayInv, Onward

\* handoff_driver.go, cell.go: where the entity never turns back, a cell's mark
\* of having accepted means that it holds the entity, and an acknowledgement on
\* its way, or the demote it armed, is backed by a holder at or beyond its sender.
THEOREM OneWayHolds == Spec => []OneWayInv
BY OneWayInit, OneWayStep, PTL DEF Spec

\* handoff_driver.go: with crossings that never turn back and sends that fail
\* only before the frame is queued, no loss, refusal, delay, reordering or
\* stall leaves the entity without a cell that holds it.
THEOREM HandoffNeverOrphans == Spec => []NoOrphan
<1>1. OneWayInv => NoOrphan
  BY DEF OneWayInv
<1> QED
  BY <1>1, OneWayInit, OneWayStep, PTL DEF Spec

-----------------------------------------------------------------------------
(* The refinement: Handoff along a line of cells implements Authority, for *)
(* any number of cells.  Whatever is lost, refused, repeated or late, the  *)
(* furthest holder moves on only across a boundary the entity crosses.     *)

\* A crossing leads to the next cell along the way.
Adjacent ==
    \A c, d, x \in Cells : <<c, d>> \in Crosses /\ Rank[c] <= Rank[x] /\ Rank[x] < Rank[d] => x = c

\* Crossings, attempts and frames go along Crosses, and a frame lies in
\* the inbox of the cell it is for.
Edges ==
    /\ \A c \in Cells : \A x \in crossings[c] : <<c, x.dest>> \in Crosses
    /\ \A c \in Cells : \A a \in inflight[c] : <<c, a.dest>> \in Crosses
    /\ \A c \in Cells : \A m \in inbox[c] : m.to = c

\* A Handoff on its way was sent by a cell that held the entity, and the
\* entity is still held there or beyond.
Backed ==
    \A m \in InTransit : m.type = "Handoff" => <<m.from, m.to>> \in Crosses /\ Covered(Rank[m.from])

\* x holds the entity and no cell beyond x does.
Foremost(x) == Holder(x) /\ \A y \in Cells : Holder(y) => Rank[y] <= Rank[x]

FrontInv ==
    /\ OneWayInv /\ Edges /\ Backed
    /\ despawned \/ \E x \in Cells : Foremost(x)

-----------------------------------------------------------------------------
\* What a step does to the holders.

SameHolders == \A x \in Cells : Holder(x)' <=> Holder(x)

Gains(c) ==
    /\ \E m \in inbox[c] : m.type = "Handoff"
    /\ Holder(c)' /\ \A x \in Cells \ {c} : Holder(x)' <=> Holder(x)

Loses(c) ==
    /\ \E y \in Cells : Holder(y) /\ Rank[c] < Rank[y]
    /\ \A x \in Cells \ {c} : Holder(x)' <=> Holder(x)
    /\ ~Holder(c)'

\* A cell becomes a holder by a Handoff in its inbox, and stops being one
\* when a cell beyond it is one, or the entity is removed.
LEMMA HolderStep ==
    ASSUME OneWayInv, [Next]_vars, ~despawned'
    PROVE  /\ ~despawned
           /\ SameHolders \/ \E c \in Cells : Gains(c) \/ Loses(c)
<1>1. TypeOK
  BY DEF OneWayInv
<1>2. ASSUME NEW c \in Cells, NEW m \in inbox[c], ReceiveHandoff(c, m)
      PROVE  despawned' = despawned /\ (SameHolders \/ Gains(c))
  <2>1. m.type = "Handoff" /\ presence' = presence /\ despawned' = despawned
    BY <1>2 DEF ReceiveHandoff
  <2>2. \/ promotes' = promotes
        \/ promotes' = [promotes EXCEPT ![c] = @ \cup {[epoch |-> m.epoch, commit |-> m.commit]}]
    BY <1>2 DEF ReceiveHandoff
  <2>3. CASE promotes' = promotes
    BY <2>1, <2>3 DEF SameHolders, Holder
  <2>4. CASE promotes' = [promotes EXCEPT ![c] = @ \cup {[epoch |-> m.epoch, commit |-> m.commit]}]
    <3>1. promotes'[c] # {}
      BY ZenonT(30), <1>1, <2>4 DEF TypeOK
    <3>2. \A x \in Cells \ {c} : promotes'[x] = promotes[x]
      BY <1>1, <2>4 DEF TypeOK
    <3> QED
      BY <2>1, <3>1, <3>2 DEF Gains, Holder
  <2> QED
    BY <2>1, <2>2, <2>3, <2>4
<1>3. ASSUME UNCHANGED <<presence, promotes, despawned>>
      PROVE  despawned' = despawned /\ SameHolders
  BY <1>3 DEF SameHolders, Holder
<1>4. ASSUME NEW c \in Cells, NEW t \in tick[c] .. MaxTick, DrainPendingPromotes(c, t)
      PROVE  despawned' = despawned /\ SameHolders
  <2>1. despawned' = despawned
    BY <1>4 DEF DrainPendingPromotes
  <2>2. \A x \in Cells : Holder(x)' <=> Holder(x)
    BY <1>1, <1>4 DEF DrainPendingPromotes, Holder, TypeOK
  <2> QED
    BY <2>1, <2>2 DEF SameHolders
<1>5. ASSUME NEW c \in Cells, CommitDemotes(c)
      PROVE  despawned' = despawned /\ (SameHolders \/ Loses(c))
  <2> DEFINE due == {d \in demotes[c] : d.commit <= tick[c]}
  <2>1. promotes' = promotes /\ despawned' = despawned
    BY <1>5 DEF CommitDemotes
  <2>2. CASE due = {} \/ presence[c] # "Live"
    <3>1. presence' = presence
      BY <1>5, <2>2 DEF CommitDemotes
    <3> QED
      BY <1>3, <2>1, <3>1
  <2>3. CASE due # {} /\ presence[c] = "Live"
    <3>1. presence' = [presence EXCEPT ![c] = "Replica"]
      BY <1>5, <2>3 DEF CommitDemotes
    <3>2. \A x \in Cells \ {c} : Holder(x)' <=> Holder(x)
      BY <1>1, <2>1, <3>1 DEF Holder, TypeOK
    <3>3. PICK d \in demotes[c] : Rank[c] < Rank[d.dest] /\ Covered(Rank[d.dest])
      BY <2>3 DEF OneWayInv
    <3>4. d.dest \in Cells
      BY <1>1 DEF TypeOK, Demote
    <3>5. PICK y \in Cells : Holder(y) /\ Rank[d.dest] <= Rank[y]
      BY <2>1, <3>3 DEF Covered
    <3>6. Rank[c] < Rank[y]
      BY <3>3, <3>4, <3>5, OneWayAssumption
    <3>7. CASE Holder(c)'
      BY <2>1, <2>3, <3>2, <3>7 DEF SameHolders, Holder
    <3>8. CASE ~Holder(c)'
      BY <2>1, <3>2, <3>5, <3>6, <3>8 DEF Loses
    <3> QED
      BY <3>7, <3>8, <2>1
  <2> QED
    BY <2>2, <2>3
<1>6. ASSUME NEW c \in Cells, ReplicaGone(c) \/ \E s \in Cells : BorderUpsert(c, s)
      PROVE  despawned' = despawned /\ SameHolders
  <2>1. despawned' = despawned /\ promotes' = promotes
    BY <1>6 DEF ReplicaGone, BorderUpsert
  <2>2. \A x \in Cells : Holder(x)' <=> Holder(x)
    BY <1>1, <1>6, <2>1 DEF ReplicaGone, BorderUpsert, Holder, TypeOK
  <2> QED
    BY <2>1, <2>2 DEF SameHolders
<1>7. ASSUME NEW c \in Cells
      PROVE  ~Despawn(c)
  BY DEF Despawn
<1>8. ASSUME NEW c \in Cells,
             \/ \E m \in inbox[c] : ReceiveAccepted(c, m)
             \/ DrainDone(c) \/ Retry(c) \/ Cross(c)
             \/ \E d \in Cells, bypass \in BOOLEAN : QueueCrossing(c, d, bypass)
      PROVE  UNCHANGED <<presence, promotes, despawned>>
  BY <1>8 DEF ReceiveAccepted, DrainDone, Retry, RetryNothing, RetryDead, RetryResend,
              RetryAbandon, Cross, DropCrossing, HandleCrossing, CrossDone, QueueCrossing, cellVars
<1>9. ASSUME NEW m \in net, Deliver(m)
      PROVE  UNCHANGED <<presence, promotes, despawned>>
  BY <1>9 DEF Deliver, cellVars
<1>10. CASE UNCHANGED vars
  BY <1>3, <1>10 DEF vars, cellVars
<1> DEFINE Goal == ~despawned /\ (SameHolders \/ \E c \in Cells : Gains(c) \/ Loses(c))
<1>11. ASSUME NEW c \in Cells, Drain(c) \/ DrainDone(c) \/ Retry(c) \/ Cross(c)
       PROVE  Goal
  BY <1>2, <1>3, <1>8, <1>11 DEF Drain
<1>12. ASSUME NEW c \in Cells,
              \/ \E t \in tick[c] .. MaxTick : DrainPendingPromotes(c, t)
              \/ CommitDemotes(c)
              \/ \E s \in Cells : BorderUpsert(c, s)
              \/ ReplicaGone(c)
              \/ Despawn(c)
              \/ \E d \in Cells, bypass \in BOOLEAN : QueueCrossing(c, d, bypass)
       PROVE  Goal
  BY <1>3, <1>4, <1>5, <1>6, <1>7, <1>8, <1>12
<1>13. ASSUME NEW m \in net, Deliver(m)
       PROVE  Goal
  BY <1>3, <1>9, <1>13
<1>14. CASE UNCHANGED vars
  BY <1>10, <1>14
<1> QED
  BY SMTT(30), <1>11, <1>12, <1>13, <1>14 DEF Next

\* The frames a step adds are an acknowledgement by a cell that holds the entity
\* after the step, or a Handoff across a boundary by a cell that holds it.
LEMMA FrameStep ==
    ASSUME OneWayInv, Edges, [Next]_vars, NEW k \in InTransit', k \notin InTransit
    PROVE  \/ k.type = "Accepted" /\ (despawned \/ Holder(k.from)')
           \/ k.type = "Handoff" /\ <<k.from, k.to>> \in Crosses /\ Holder(k.from)
<1>1. TypeOK
  BY DEF OneWayInv
<1>2. ASSUME NEW c \in Cells, NEW m \in inbox[c], ReceiveHandoff(c, m)
      PROVE  k.type = "Accepted" /\ (despawned \/ Holder(k.from)')
  <2> DEFINE ack == [type |-> "Accepted", from |-> c, to |-> m.from,
                     epoch |-> m.epoch, commit |-> m.commit]
  <2>1. m \in Message
    BY <1>1 DEF TypeOK
  <2>2. m.from \in Cells
    BY <2>1 DEF Message
  <2>3. PICK o \in AckOutcomes(c, m.from) :
          /\ Transmit(ack, o.sent, [inbox EXCEPT ![c] = @ \ {m}])
          /\ AlreadyAccepted(c, m.epoch) \/ ~o.ok => promotes' = promotes
          /\ ~AlreadyAccepted(c, m.epoch) /\ o.ok => promotes' = [promotes EXCEPT ![c] =
                         @ \cup {[epoch |-> m.epoch, commit |-> m.commit]}]
    BY <1>2 DEF ReceiveHandoff
  <2>4. presence' = presence
    BY <1>2 DEF ReceiveHandoff
  <2>5. o.sent /\ k = ack
    <3>1. [inbox EXCEPT ![c] = @ \ {m}] \in [Cells -> SUBSET Message]
      BY <1>1 DEF TypeOK
    <3>2. \A x \in Cells : [inbox EXCEPT ![c] = @ \ {m}][x] \subseteq inbox[x]
      BY <1>1 DEF TypeOK
    <3> QED
      BY ZenonT(30), <1>1, <2>2, <2>3, <3>1, <3>2, TransmitInTransit
  <2>6. o.ok
    BY SMTT(30), <2>2, <2>5, SentIsOk
  <2>7. CASE AlreadyAccepted(c, m.epoch)
    BY <2>3, <2>4, <2>5, <2>7 DEF AlreadyAccepted, OneWayInv, Holder
  <2>8. CASE ~AlreadyAccepted(c, m.epoch)
    <3>1. promotes' = [promotes EXCEPT ![c] =
             @ \cup {[epoch |-> m.epoch, commit |-> m.commit]}]
      BY <2>3, <2>6, <2>8
    <3>2. promotes'[c] # {}
      BY ZenonT(30), <1>1, <3>1 DEF TypeOK
    <3> QED
      BY <2>5, <3>2 DEF Holder
  <2> QED
    BY <2>7, <2>8
<1>3. ASSUME NEW c \in Cells, NEW a \in Attempt, NEW sent, <<c, a.dest>> \in Crosses,
             presence[c] = "Live", Transmit(HandoffTo(c, a), sent, inbox)
      PROVE  k.type = "Handoff" /\ <<k.from, k.to>> \in Crosses /\ Holder(k.from)
  <2>1. HandoffTo(c, a).to \in Cells
    BY DEF HandoffTo, Attempt
  <2>2. k = HandoffTo(c, a)
    BY ZenonT(30), <1>1, <1>3, <2>1, TransmitInTransit DEF TypeOK
  <2> QED
    BY <1>3, <2>2 DEF HandoffTo, Holder
<1>4. ASSUME NEW c \in Cells, RetryResend(c) \/ RetryAbandon(c)
      PROVE  k.type = "Handoff" /\ <<k.from, k.to>> \in Crosses /\ Holder(k.from)
  <2>1. PICK a \in RetryDue(c) :
           \E o \in HandoffOutcomes(c, a.dest) : Transmit(HandoffTo(c, a), o.sent, inbox)
    BY <1>4 DEF RetryResend, RetryAbandon
  <2>2. a \in Attempt /\ <<c, a.dest>> \in Crosses
    BY <1>1 DEF RetryDue, TypeOK, Edges
  <2>3. presence[c] = "Live"
    BY <1>4 DEF RetryResend, RetryAbandon
  <2> QED
    BY <1>3, <2>1, <2>2, <2>3
<1>5. ASSUME NEW c \in Cells, NEW x \in crossings[c], HandleCrossing(c, x)
      PROVE  k.type = "Handoff" /\ <<k.from, k.to>> \in Crosses /\ Holder(k.from)
  <2> DEFINE a == [dest |-> x.dest, epoch |-> epoch[c] + 1,
                   commit |-> tick[c] + LeadTicks, retry |-> RetryAt(c)]
  <2>1. PICK o \in HandoffOutcomes(c, x.dest) : Transmit(HandoffTo(c, a), o.sent, inbox)
    BY <1>5 DEF HandleCrossing
  <2>2. a \in Attempt
    BY <1>1, HandoffAssumption DEF TypeOK, Crossing, Attempt, RetryAt
  <2>3. <<c, a.dest>> \in Crosses
    BY SMTT(30) DEF Edges
  <2>4. presence[c] = "Live"
    BY <1>5 DEF HandleCrossing, Admitted
  <2> HIDE DEF a
  <2> QED
    BY SMTT(30), <1>3, <2>1, <2>2, <2>3, <2>4
<1>6. ASSUME NEW c \in Cells, NEW m \in inbox[c], ReceiveAccepted(c, m)
      PROVE  FALSE
  BY <1>1, <1>6 DEF ReceiveAccepted, InTransit, TypeOK
<1>7. ASSUME NEW m \in net, Deliver(m)
      PROVE  FALSE
  BY <1>1, <1>7 DEF Deliver, InTransit, TypeOK, Message
<1>8. ASSUME UNCHANGED <<inbox, net>>
      PROVE  FALSE
  BY <1>8 DEF InTransit
<1>9. ASSUME NEW c \in Cells,
             \/ DrainDone(c) \/ RetryNothing(c) \/ RetryDead(c) \/ CommitDemotes(c)
             \/ \E t \in tick[c] .. MaxTick : DrainPendingPromotes(c, t)
             \/ \E x \in crossings[c] : DropCrossing(c, x)
             \/ CrossDone(c) \/ ReplicaGone(c) \/ Despawn(c)
             \/ \E d \in Cells, bypass \in BOOLEAN : QueueCrossing(c, d, bypass)
             \/ \E s \in Cells : BorderUpsert(c, s)
      PROVE  UNCHANGED <<inbox, net>>
  BY <1>9 DEF DrainDone, RetryNothing, RetryDead, CommitDemotes, DrainPendingPromotes,
              DropCrossing, CrossDone, ReplicaGone, Despawn, QueueCrossing, BorderUpsert
<1> QED
  BY <1>2, <1>4, <1>5, <1>6, <1>7, <1>8, <1>9 DEF Next, Drain, Retry, Cross, vars

-----------------------------------------------------------------------------
\* Every step preserves FrontInv.

LEMMA EdgesStep ==
    ASSUME TypeOK, Edges, [Next]_vars
    PROVE  Edges'
<1> USE DEF TypeOK, Edges
<1>1. ASSUME crossings' = crossings, inflight' = inflight,
             \A c \in Cells : \A m \in inbox'[c] : m \in inbox[c] \/ m.to = c
      PROVE  Edges'
  BY <1>1
<1>2. ASSUME NEW m, m.to \in Cells, NEW sent, NEW q \in [Cells -> SUBSET Message],
             \A c \in Cells : q[c] \subseteq inbox[c], Transmit(m, sent, q)
      PROVE  \A c \in Cells : \A k \in inbox'[c] : k \in inbox[c] \/ k.to = c
  BY SMTT(30), <1>2 DEF Transmit
<1>3. ASSUME NEW c \in Cells, NEW m \in inbox[c], ReceiveHandoff(c, m)
      PROVE  Edges'
  <2> DEFINE ack == [type |-> "Accepted", from |-> c, to |-> m.from,
                     epoch |-> m.epoch, commit |-> m.commit]
             q == [inbox EXCEPT ![c] = @ \ {m}]
  <2>1. m \in Message /\ m.from \in Cells
    BY DEF Message
  <2>2. q \in [Cells -> SUBSET Message] /\ \A x \in Cells : q[x] \subseteq inbox[x]
    OBVIOUS
  <2>3. PICK o \in AckOutcomes(c, m.from) : Transmit(ack, o.sent, q)
    BY SMTT(30), <1>3 DEF ReceiveHandoff
  <2>4. ack.to \in Cells
    BY <2>1
  <2> HIDE DEF ack, q
  <2>5. \A x \in Cells : \A k \in inbox'[x] : k \in inbox[x] \/ k.to = x
    BY <1>2, <2>2, <2>3, <2>4
  <2> QED
    BY <1>1, <1>3, <2>5 DEF ReceiveHandoff, driverVars, crossVars
<1>4. ASSUME NEW c \in Cells, NEW a \in Attempt, NEW sent, Transmit(HandoffTo(c, a), sent, inbox)
      PROVE  \A x \in Cells : \A m \in inbox'[x] : m.to = x
  <2>1. HandoffTo(c, a).to \in Cells
    BY SMTT(30) DEF HandoffTo, Attempt
  <2>2. \A x \in Cells : \A k \in inbox'[x] : k \in inbox[x] \/ k.to = x
    BY <1>2, <1>4, <2>1
  <2> QED
    BY <2>2
<1>5. ASSUME NEW c \in Cells, RetryResend(c)
      PROVE  Edges'
  <2>1. PICK a \in RetryDue(c) :
          /\ \E o \in HandoffOutcomes(c, a.dest) : Transmit(HandoffTo(c, a), o.sent, inbox)
          /\ inflight' = [inflight EXCEPT ![c] = (@ \ {a}) \cup {[a EXCEPT !.retry = RetryAt(c)]}]
    BY <1>5 DEF RetryResend
  <2>2. a \in inflight[c] /\ a \in Attempt
    BY DEF RetryDue
  <2>3. \A x \in Cells : \A m \in inbox'[x] : m.to = x
    BY <1>4, <2>1, <2>2
  <2>4. [a EXCEPT !.retry = RetryAt(c)].dest = a.dest
    BY <2>2 DEF Attempt
  <2>5. \A x \in Cells : \A b \in inflight'[x] : <<x, b.dest>> \in Crosses
    BY <2>1, <2>2, <2>4
  <2> QED
    BY <1>5, <2>3, <2>5 DEF RetryResend, crossVars
<1>6. ASSUME NEW c \in Cells, RetryAbandon(c)
      PROVE  Edges'
  <2>1. PICK a \in RetryDue(c) :
          /\ \E o \in HandoffOutcomes(c, a.dest) : Transmit(HandoffTo(c, a), o.sent, inbox)
          /\ inflight' = [inflight EXCEPT ![c] = @ \ {a}]
    BY <1>6 DEF RetryAbandon
  <2>2. a \in Attempt
    BY SMTT(30) DEF RetryDue
  <2>3. \A x \in Cells : \A m \in inbox'[x] : m.to = x
    BY <1>4, <2>1, <2>2
  <2>4. \A x \in Cells : \A b \in inflight'[x] : <<x, b.dest>> \in Crosses
    BY <2>1
  <2> QED
    BY <1>6, <2>3, <2>4 DEF RetryAbandon, crossVars
<1>7. ASSUME NEW c \in Cells, NEW x \in crossings[c], HandleCrossing(c, x)
      PROVE  Edges'
  <2> DEFINE a == [dest |-> x.dest, epoch |-> epoch[c] + 1,
                   commit |-> tick[c] + LeadTicks, retry |-> RetryAt(c)]
  <2>1. a \in Attempt /\ <<c, a.dest>> \in Crosses
    BY HandoffAssumption DEF Crossing, Attempt, RetryAt
  <2>2. /\ \E o \in HandoffOutcomes(c, x.dest) : Transmit(HandoffTo(c, a), o.sent, inbox)
        /\ inflight' = [inflight EXCEPT ![c] = {a}] \/ inflight' = inflight
        /\ crossings' = [crossings EXCEPT ![c] = @ \ {x}]
    BY SMTT(30), <1>7 DEF HandleCrossing
  <2> HIDE DEF a
  <2>3. \A y \in Cells : \A m \in inbox'[y] : m.to = y
    BY <1>4, <2>1, <2>2
  <2>4. \A y \in Cells : \A b \in inflight'[y] : <<y, b.dest>> \in Crosses
    <3> SUFFICES ASSUME NEW y \in Cells, NEW b \in inflight'[y]
                 PROVE  <<y, b.dest>> \in Crosses
      OBVIOUS
    <3>1. b \in inflight[y] \/ (y = c /\ b = a)
      BY <2>2
    <3> QED
      BY <2>1, <3>1
  <2>5. \A y \in Cells : \A z \in crossings'[y] : <<y, z.dest>> \in Crosses
    BY <2>2
  <2> QED
    BY <2>3, <2>4, <2>5
<1>8. ASSUME NEW c \in Cells, NEW m \in inbox[c], ReceiveAccepted(c, m)
      PROVE  Edges'
  BY <1>8 DEF ReceiveAccepted, crossVars
<1>9. ASSUME NEW m \in net, Deliver(m)
      PROVE  Edges'
  BY <1>1, <1>9 DEF Deliver, driverVars, crossVars, Message
<1>10. ASSUME NEW c \in Cells, RetryDead(c)
       PROVE  Edges'
  BY <1>10 DEF RetryDead, crossVars
<1>11. ASSUME NEW c \in Cells, NEW x \in crossings[c], DropCrossing(c, x)
       PROVE  Edges'
  BY <1>11 DEF DropCrossing, driverVars
<1>12. ASSUME NEW c \in Cells, NEW d \in Cells, NEW bypass \in BOOLEAN, QueueCrossing(c, d, bypass)
       PROVE  Edges'
  <2>1. /\ <<c, d>> \in Crosses /\ inflight' = inflight /\ inbox' = inbox
        /\ crossings' = [crossings EXCEPT ![c] = @ \cup {[dest |-> d, bypass |-> bypass]}]
    BY SMTT(30), <1>12 DEF QueueCrossing, driverVars
  <2>2. ASSUME NEW y \in Cells, NEW z \in crossings'[y]
        PROVE  <<y, z.dest>> \in Crosses
    <3>1. z \in crossings[y] \/ (y = c /\ z = [dest |-> d, bypass |-> bypass])
      BY <2>1
    <3>2. CASE z \in crossings[y]
      BY <3>2
    <3>3. CASE y = c /\ z = [dest |-> d, bypass |-> bypass]
      BY SMTT(30), <2>1, <3>3
    <3> QED
      BY <3>1, <3>2, <3>3
  <2> QED
    BY <2>1, <2>2
<1>13. ASSUME NEW c \in Cells,
              \/ DrainDone(c) \/ RetryNothing(c) \/ CommitDemotes(c)
              \/ \E t \in tick[c] .. MaxTick : DrainPendingPromotes(c, t)
              \/ CrossDone(c) \/ ReplicaGone(c) \/ Despawn(c)
              \/ \E s \in Cells : BorderUpsert(c, s)
       PROVE  Edges'
  BY <1>1, <1>13 DEF DrainDone, RetryNothing, CommitDemotes, DrainPendingPromotes,
               CrossDone, ReplicaGone, Despawn, BorderUpsert, driverVars, crossVars
<1>14. CASE UNCHANGED vars
  BY <1>1, <1>14 DEF vars, driverVars, crossVars
<1> HIDE DEF TypeOK, Edges
<1> QED
  BY <1>3, <1>5, <1>6, <1>7, <1>8, <1>9, <1>10, <1>11, <1>12, <1>13, <1>14
     DEF Next, Drain, Retry, Cross

LEMMA CoveredStep ==
    ASSUME OneWayInv, [Next]_vars, NEW r \in Nat, Covered(r)
    PROVE  Covered(r)'
<1>1. CASE despawned'
  BY <1>1 DEF Covered
<1>2. CASE ~despawned'
  <2>1. PICK x \in Cells : Holder(x) /\ r <= Rank[x]
    BY <1>2, HolderStep DEF Covered
  <2>2. SameHolders \/ \E c \in Cells : Gains(c) \/ Loses(c)
    BY <1>2, HolderStep
  <2>3. CASE SameHolders
    BY <2>1, <2>3 DEF SameHolders, Covered
  <2>4. ASSUME NEW c \in Cells, Gains(c) PROVE Covered(r)'
    BY <2>1, <2>4 DEF Gains, Covered
  <2>5. ASSUME NEW c \in Cells, Loses(c) PROVE Covered(r)'
    <3>1. PICK y \in Cells : Holder(y) /\ Rank[c] < Rank[y]
      BY <2>5 DEF Loses
    <3>2. CASE x # c
      BY <2>1, <2>5, <3>2 DEF Loses, Covered
    <3>3. CASE x = c
      <4>1. y # c /\ r <= Rank[y]
        BY <2>1, <3>1, <3>3, OneWayAssumption
      <4>2. Holder(y)'
        BY <2>5, <3>1, <4>1 DEF Loses
      <4> QED
        BY <4>1, <4>2 DEF Covered
    <3> QED
      BY <3>2, <3>3
  <2> QED
    BY <2>2, <2>3, <2>4, <2>5
<1> QED
  BY <1>1, <1>2

LEMMA BackedStep ==
    ASSUME OneWayInv, Edges, Backed, [Next]_vars
    PROVE  Backed'
<1> SUFFICES ASSUME NEW k \in InTransit', k.type = "Handoff"
             PROVE  <<k.from, k.to>> \in Crosses /\ Covered(Rank[k.from])'
  BY DEF Backed
<1>1. <<k.from, k.to>> \in Crosses /\ Covered(Rank[k.from])
  <2>1. CASE k \in InTransit
    BY <2>1 DEF Backed
  <2>2. CASE k \notin InTransit
    <3>1. <<k.from, k.to>> \in Crosses /\ Holder(k.from)
      BY <2>2, FrameStep
    <3>2. k.from \in Cells
      BY <3>1, HandoffAssumption
    <3> QED
      BY <3>1, <3>2, OneWayAssumption DEF Covered
  <2> QED
    BY <2>1, <2>2
<1>2. Rank[k.from] \in Nat
  BY <1>1, HandoffAssumption, OneWayAssumption
<1> QED
  BY <1>1, <1>2, CoveredStep

\* Where the foremost holder is after a step: where it was, or where a Handoff
\* across a boundary from there has been accepted.
LEMMA ForemostStep ==
    ASSUME Adjacent, FrontInv, [Next]_vars, ~despawned', NEW x \in Cells, Foremost(x)
    PROVE  Foremost(x)' \/ \E d \in Cells : <<x, d>> \in Crosses /\ Foremost(d)'
<1>1. OneWayInv /\ Backed /\ Edges
  BY DEF FrontInv
<1>2. SameHolders \/ \E c \in Cells : Gains(c) \/ Loses(c)
  BY <1>1, HolderStep
<1>3. ~despawned
  BY <1>1, HolderStep
<1>4. CASE SameHolders
  BY <1>4 DEF SameHolders, Foremost
<1>5. ASSUME NEW c \in Cells, Loses(c) PROVE Foremost(x)'
  <2>1. x # c
    BY <1>5, OneWayAssumption DEF Loses, Foremost
  <2> QED
    BY <1>5, <2>1 DEF Loses, Foremost
<1>6. ASSUME NEW c \in Cells, Gains(c)
      PROVE  Foremost(x)' \/ (<<x, c>> \in Crosses /\ Foremost(c)')
  <2>1. CASE Rank[c] <= Rank[x]
    <3>1. Holder(x)'
      BY <1>6 DEF Gains, Foremost
    <3>2. \A y \in Cells : Holder(y)' => Rank[y] <= Rank[x]
      BY <1>6, <2>1 DEF Gains, Foremost
    <3> QED
      BY <3>1, <3>2 DEF Foremost
  <2>2. CASE Rank[x] < Rank[c]
    <3>1. PICK m \in inbox[c] : m.type = "Handoff"
      BY <1>6 DEF Gains
    <3>2. m \in InTransit /\ m.to = c
      BY <1>1 DEF InTransit, Edges
    <3>3. <<m.from, c>> \in Crosses /\ Covered(Rank[m.from])
      BY <1>1, <3>1, <3>2 DEF Backed
    <3>4. m.from \in Cells
      BY <3>3, HandoffAssumption
    <3>5. PICK z \in Cells : Holder(z) /\ Rank[m.from] <= Rank[z]
      BY <1>3, <3>3 DEF Covered
    <3>6. Rank[m.from] <= Rank[x]
      BY <3>4, <3>5, OneWayAssumption DEF Foremost
    <3>7. x = m.from
      BY <2>2, <3>3, <3>4, <3>6 DEF Adjacent
    <3>8. \A y \in Cells : Holder(y)' => Rank[y] <= Rank[c]
      BY <1>6, <2>2, OneWayAssumption DEF Gains, Foremost
    <3> QED
      BY <1>6, <3>3, <3>7, <3>8 DEF Gains, Foremost
  <2> QED
    BY <2>1, <2>2, OneWayAssumption
<1> QED
  BY <1>2, <1>4, <1>5, <1>6

LEMMA FrontInvStep ==
    ASSUME Adjacent, FrontInv, [Next]_vars
    PROVE  FrontInv'
<1>1. TypeOK /\ OneWayInv /\ Edges /\ Backed
  BY DEF FrontInv, OneWayInv
<1>2. OneWayInv' /\ Edges' /\ Backed'
  BY <1>1, OneWayStep, EdgesStep, BackedStep
<1>3. ASSUME ~despawned' PROVE \E x \in Cells : Foremost(x)'
  <2>1. PICK x \in Cells : Foremost(x)
    BY <1>1, <1>3, HolderStep DEF FrontInv
  <2> QED
    BY <1>3, <2>1, ForemostStep
<1> QED
  BY <1>2, <1>3 DEF FrontInv

LEMMA FrontInvInit == Init => FrontInv
<1> SUFFICES ASSUME Init PROVE FrontInv
  OBVIOUS
<1> USE HandoffAssumption, OneWayAssumption DEF Init
<1>1. OneWayInv
  BY OneWayInit
<1>2. Edges
  BY DEF Edges
<1>3. InTransit = {}
  BY DEF InTransit
<1>4. Backed
  BY <1>3 DEF Backed
<1>5. Foremost(Home)
  BY DEF Foremost, Holder
<1> QED
  BY <1>1, <1>2, <1>4, <1>5 DEF FrontInv

-----------------------------------------------------------------------------
\* cell.go, MsgHandoff: an acknowledgement leaves a cell only when that cell holds
\* the entity, the repeated one for a duplicate Handoff included.  Here the entity
\* never turns back and a send reported as failed has not left the host.
THEOREM AcksAreBacked == Spec => AckedByHolder
<1>1. Init => OneWayInv /\ Edges
  BY SMTT(30), FrontInvInit DEF FrontInv
<1>2. OneWayInv /\ Edges /\ [Next]_vars => (OneWayInv /\ Edges)'
  BY OneWayStep, EdgesStep DEF OneWayInv
<1>3. OneWayInv /\ Edges /\ [Next]_vars
        => [\A m \in InTransit' \ InTransit :
               m.type = "Accepted" => despawned \/ Holder(m.from)']_vars
  BY FrameStep
<1> QED
  BY <1>1, <1>2, <1>3, PTL DEF Spec, AckedByHolder

\* The abstract owner is the foremost holder, before and after a step.
LEMMA FrontIs ==
    ASSUME ~despawned, NEW x \in Cells, Foremost(x)
    PROVE  Front = x
<1>1. NoOrphan
  BY DEF NoOrphan, Foremost
<1>2. ASSUME NEW y \in Cells, Foremost(y)
      PROVE  y = x
  <2>1. Rank[y] <= Rank[x] /\ Rank[x] <= Rank[y]
    BY <1>2 DEF Foremost
  <2> QED
    BY <2>1, OneWayAssumption
<1>3. Front = CHOOSE z \in Cells : Foremost(z)
  BY <1>1 DEF Front, Foremost
<1> QED
  BY <1>2, <1>3

LEMMA FrontIsNext ==
    ASSUME ~despawned', NEW x \in Cells, Foremost(x)'
    PROVE  Front' = x
<1>1. NoOrphan'
  BY DEF NoOrphan, Foremost
<1>2. \A y \in Cells : Foremost(y)' <=> y = x
  BY OneWayAssumption DEF Foremost
<1>3. Front' = CHOOSE z \in Cells : Foremost(z)'
  BY <1>1 DEF Front, Foremost
<1> QED
  BY <1>2, <1>3

\* handoff_driver.go and cell.go: along cells crossed one after the other, whatever
\* is lost, refused, repeated, late or retried, the entity has one owner that moves
\* on only when the next cell accepts it, and never back, until the game removes it.
THEOREM HandoffImplementsAuthority ==
    ASSUME Adjacent
    PROVE  Spec => ImplementsAuthority
<1>1. Init => Abstract!Init
  <2> SUFFICES ASSUME Init PROVE Abstract!Init
    OBVIOUS
  <2>1. despawned = FALSE
    BY DEF Init
  <2>2. Foremost(Home)
    BY HandoffAssumption, OneWayAssumption DEF Init, Foremost, Holder
  <2> QED
    BY <2>1, <2>2, FrontIs, HandoffAssumption DEF Abstract!Init
<1>2. FrontInv /\ [Next]_vars => [Abstract!Next]_<<Front, despawned>>
  <2> SUFFICES ASSUME FrontInv, [Next]_vars
               PROVE  Abstract!Next \/ (Front' = Front /\ despawned' = despawned)
    BY SMTT(30)
  <2>1. despawned \in BOOLEAN /\ despawned' \in BOOLEAN
    BY TypeStep DEF FrontInv, OneWayInv, TypeOK
  <2>2. CASE despawned'
    <3>1. despawned' = TRUE /\ Front' = Home
      BY <2>1, <2>2 DEF Front
    <3> QED
      BY <3>1 DEF Abstract!Next, Abstract!Remove
  <2>3. CASE ~despawned'
    <3>1. ~despawned
      BY <2>3, HolderStep DEF FrontInv
    <3>2. despawned' = despawned
      BY <2>1, <2>3, <3>1
    <3>3. PICK x \in Cells : Foremost(x)
      BY <3>1 DEF FrontInv
    <3>4. Front = x
      BY <3>1, <3>3, FrontIs
    <3>5. CASE Foremost(x)'
      BY <2>3, <3>2, <3>4, <3>5, FrontIsNext
    <3>6. ASSUME NEW d \in Cells, <<x, d>> \in Crosses, Foremost(d)'
          PROVE  Abstract!Next
      <4>1. Front' = d
        BY <2>3, <3>6, FrontIsNext
      <4> QED
        BY <3>1, <3>2, <3>4, <3>6, <4>1 DEF Abstract!Next, Abstract!Move
    <3> QED
      BY <2>3, <3>2, <3>3, <3>5, <3>6, ForemostStep
  <2> QED
    BY <2>2, <2>3
<1>3. FrontInv /\ [Next]_vars => FrontInv'
  BY FrontInvStep
<1> QED
  BY <1>1, <1>2, <1>3, FrontInvInit, PTL DEF Spec, ImplementsAuthority, Abstract!Spec, Abstract!vars

=============================================================================
