------------------------- MODULE ControlStreamProofs -------------------------
(***************************************************************************)
(* The safety of the host control streams, for any number of streams and   *)
(* faults.  The invariant is the conjunction of what the run checks: that  *)
(* an evicted handler has been told to end (ServedOrKilled) is what makes  *)
(* the liveness watcher's cancel reach the right stream (DeadIsDown) and   *)
(* what makes a late teardown visible as an overlap (ServedIsRegistered).  *)
(***************************************************************************)
EXTENDS ControlStream, TLAPS

\* One more fault is still within the bound.
LEMMA FaultsBounded == TypeOK /\ faults < MaxFaults => faults + 1 \in 0 .. MaxFaults
  BY StreamsAssumption DEF TypeOK

\* A step of one handler, of the host, or of the rest of the coordinator.
Handlers == \E s \in Streams : HandlerStep(s) \/ Heartbeat(s)
Host == (\E s \in Streams : Dial(s)) \/ Lost \/ Break \/ Stop
Rest == Assign \/ Unassign \/ HostKill \/ Lapse \/ WatcherStep

\* Every step is a stutter or a step of one of the three.
LEMMA StepKinds == [Next]_vars => UNCHANGED vars \/ Handlers \/ Host \/ Rest
  BY Zenon DEF Next, Handlers, Host, Rest

-----------------------------------------------------------------------------
(* Types.                                                                  *)

\* The handlers' steps keep the types: what pc, the slot, the copies and the entry
\* are given are handler states, streams, flags and entries.
LEMMA HandlersTyped == TypeOK /\ Handlers => TypeOK'
<1> SUFFICES ASSUME TypeOK, NEW s \in Streams, HandlerStep(s) \/ Heartbeat(s)
             PROVE  TypeOK'
  BY DEF Handlers
<1> USE StreamsAssumption DEF TypeOK, Goto, Handler, Entry, Absent, Known, streamVars, hostVars
<1>1. CASE AdmitRead(s) \/ AdmitDecide(s)
  BY <1>1 DEF AdmitRead, AdmitDecide
<1>2. CASE RegisterHostStream(s) \/ AckSent(s) \/ AckFails(s) \/ End(s) \/ ReleaseHostStream(s)
  BY <1>2 DEF RegisterHostStream, AckSent, AckFails, End, ReleaseHostStream
<1>3. CASE Register(s)
  BY <1>3 DEF Register
<1>4. CASE TeardownGet(s)
  BY <1>4 DEF TeardownGet
<1>5. CASE TeardownLeave(s)
  BY <1>5 DEF TeardownLeave, Superseded
<1>6. CASE TeardownDead(s)
  BY <1>6 DEF TeardownDead, MarkedDead, Superseded
<1>7. CASE TeardownReassign(s)
  BY <1>7 DEF TeardownReassign, Reassigned
<1>8. CASE Heartbeat(s)
  BY <1>8 DEF Heartbeat
<1> QED
  BY <1>1, <1>2, <1>3, <1>4, <1>5, <1>6, <1>7, <1>8 DEF HandlerStep

\* So do the steps of the host.
LEMMA HostTyped == TypeOK /\ Host => TypeOK'
<1> SUFFICES ASSUME TypeOK, Host PROVE TypeOK'
  OBVIOUS
<1> USE StreamsAssumption DEF TypeOK, Goto, Handler, Entry, Absent, Known, streamVars, hostVars
<1>1. ASSUME NEW s \in Streams, Dial(s) PROVE TypeOK'
  BY <1>1 DEF Dial
<1>2. CASE Lost
  BY <1>2 DEF Lost
<1>3. CASE Break
  BY <1>3, FaultsBounded DEF Break
<1>4. CASE Stop
  BY <1>4 DEF Stop
<1> QED
  BY <1>1, <1>2, <1>3, <1>4 DEF Host

\* And those of the assignment passes, the console, the clock and the watcher.
LEMMA RestTyped == TypeOK /\ Rest => TypeOK'
<1> SUFFICES ASSUME TypeOK, Rest PROVE TypeOK'
  OBVIOUS
<1> USE StreamsAssumption DEF TypeOK, Entry, Absent, Known, streamVars, hostVars
<1>1. CASE Assign \/ Unassign
  <2>1. Known
    BY <1>1 DEF Assign, Unassign
  <2>2. entry'.state = entry.state /\ entry' \in Entry
    BY <1>1 DEF Assign, Unassign
  <2> QED
    BY <1>1, <2>1, <2>2 DEF Assign, Unassign
<1>2. CASE HostKill
  BY <1>2, FaultsBounded DEF HostKill
<1>3. CASE Lapse
  <2>1. faults' \in 0 .. MaxFaults
    BY <1>3, FaultsBounded DEF Lapse
  <2>2. Known
    BY <1>3 DEF Lapse
  <2>3. entry'.state = entry.state /\ entry' \in Entry
    BY <1>3 DEF Lapse
  <2> QED
    BY <1>3, <2>1, <2>2, <2>3 DEF Lapse
<1>4. CASE WatchPoll \/ WatchCancel
  BY <1>4 DEF WatchPoll, WatchCancel
<1>5. CASE WatchMark
  BY <1>5 DEF WatchMark, MarkedDead
<1>6. CASE WatchReassign
  BY <1>6 DEF WatchReassign, Reassigned
<1> QED
  BY <1>1, <1>2, <1>3, <1>4, <1>5, <1>6 DEF Rest, WatcherStep

\* Streams, handlers, the registry entry and its copies stay well formed whatever
\* handleHostControl, the watcher and the host do.
THEOREM ControlTyped == Spec => []TypeOK
<1>1. Init => TypeOK
  <2>1. Absent \in Entry
    BY DEF Absent, Entry
  <2>2. ASSUME Init
        PROVE  /\ killed \in [Streams -> BOOLEAN] /\ broken \in [Streams -> BOOLEAN]
               /\ seen \in [Streams -> BOOLEAN] /\ pc \in [Streams -> Handler]
    BY <2>2 DEF Init, Handler
  <2>3. ASSUME Init PROVE faults \in 0 .. MaxFaults
    BY <2>3, StreamsAssumption DEF Init
  <2> QED
    BY <2>1, <2>2, <2>3, Zenon DEF Init, TypeOK
<1>2. TypeOK /\ [Next]_vars => TypeOK'
  <2>1. ASSUME TypeOK, UNCHANGED vars PROVE TypeOK'
    BY <2>1 DEF TypeOK, Known, vars, streamVars, hostVars
  <2> QED
    BY <2>1, StepKinds, HandlersTyped, HostTyped, RestTyped
<1> QED
  BY <1>1, <1>2, PTL DEF Spec

-----------------------------------------------------------------------------
(* Which streams are served.                                               *)

\* Only registerHostStream takes the slot of another stream, and it closes the kill
\* channel of the one it takes it from.
LEMMA ServedOrKilledStep ==
  ASSUME TypeOK, ServedOrKilled, [Next]_vars
  PROVE  ServedOrKilled'
<1> SUFFICES ASSUME NEW t \in Streams, pc'[t] \in {"insert", "ack", "serve"}
             PROVE  current' = t \/ killed'[t]
  BY DEF ServedOrKilled
<1> USE DEF TypeOK, ServedOrKilled, Goto, streamVars, hostVars
<1>1. CASE UNCHANGED vars
  BY <1>1 DEF vars
<1>2. CASE Handlers
  <2> PICK s \in Streams : HandlerStep(s) \/ Heartbeat(s)
    BY <1>2 DEF Handlers
  <2>1. CASE RegisterHostStream(s)
    <3>1. CASE t = s
      BY <2>1, <3>1 DEF RegisterHostStream
    <3>2. CASE t # s
      <4>1. current = t \/ killed[t]
        BY <2>1, <3>2 DEF RegisterHostStream
      <4> QED
        BY <2>1, <4>1, StreamsAssumption DEF RegisterHostStream
    <3> QED
      BY <3>1, <3>2
  <2>2. CASE ReleaseHostStream(s)
    BY <2>2 DEF ReleaseHostStream
  <2>3. CASE AdmitRead(s) \/ AdmitDecide(s) \/ Register(s) \/ AckSent(s) \/ AckFails(s)
    BY <2>3 DEF AdmitRead, AdmitDecide, Register, AckSent, AckFails
  <2>4. CASE TeardownGet(s) \/ TeardownLeave(s) \/ TeardownDead(s) \/ TeardownReassign(s)
    BY <2>4 DEF TeardownGet, TeardownLeave, TeardownDead, TeardownReassign
  <2>5. CASE End(s) \/ Heartbeat(s)
    BY <2>5 DEF End, Heartbeat
  <2> QED
    BY <2>1, <2>2, <2>3, <2>4, <2>5 DEF HandlerStep
<1>3. CASE Host
  <2>1. ASSUME NEW s \in Streams, Dial(s) PROVE current' = t \/ killed'[t]
    BY <2>1 DEF Dial
  <2>2. CASE Lost \/ Break \/ Stop
    BY <2>2 DEF Lost, Break, Stop
  <2> QED
    BY <1>3, <2>1, <2>2 DEF Host
<1>4. CASE Rest
  BY <1>4 DEF Rest, Assign, Unassign, HostKill, Lapse, WatcherStep, WatchPoll, WatchMark,
              WatchCancel, WatchReassign
<1> QED
  BY <1>1, <1>2, <1>3, <1>4, StepKinds

\* A stream that has registered and is not told to end holds the slot, so a teardown
\* that acts beside it counts as an overlap.
LEMMA LiveIsSuperseding ==
  ASSUME TypeOK, ServedOrKilled,
         NEW t \in Streams, pc[t] \in {"ack", "serve"}, ~killed[t]
  PROVE  Superseded
  BY StreamsAssumption DEF TypeOK, ServedOrKilled, Superseded

\* A Dead host is on its way down: the watcher's cancel reaches the stream that
\* holds the slot, and a handler that marks it Dead beside a successor overlaps.
LEMMA DeadIsDownStep ==
  ASSUME TypeOK, ServedOrKilled, DeadIsDown, [Next]_vars
  PROVE  DeadIsDown'
<1> SUFFICES ASSUME entry'.state = "Dead", watcher' # "cancel", ~overlapped',
                    NEW t \in Streams, pc'[t] \in {"ack", "serve"}
             PROVE  killed'[t]
  BY DEF DeadIsDown
<1> USE DEF TypeOK, DeadIsDown, Goto, Entry, streamVars, hostVars
<1>1. CASE UNCHANGED vars
  BY <1>1 DEF vars
<1>2. CASE Handlers
  <2> PICK s \in Streams : HandlerStep(s) \/ Heartbeat(s)
    BY <1>2 DEF Handlers
  <2>1. CASE RegisterHostStream(s)
    BY <2>1 DEF RegisterHostStream
  <2>2. CASE Register(s)
    BY <2>2 DEF Register
  <2>3. CASE AdmitRead(s) \/ AdmitDecide(s) \/ AckSent(s) \/ AckFails(s) \/ End(s)
    BY <2>3 DEF AdmitRead, AdmitDecide, AckSent, AckFails, End
  <2>4. CASE ReleaseHostStream(s) \/ TeardownGet(s)
    BY <2>4 DEF ReleaseHostStream, TeardownGet
  <2>5. CASE TeardownLeave(s)
    BY <2>5 DEF TeardownLeave, Absent
  <2>6. CASE TeardownDead(s)
    <3>1. pc[t] \in {"ack", "serve"} /\ ~Superseded
      BY <2>6 DEF TeardownDead
    <3> QED
      BY <2>6, <3>1, LiveIsSuperseding DEF TeardownDead
  <2>7. CASE TeardownReassign(s)
    BY <2>7 DEF TeardownReassign, Reassigned
  <2>8. CASE Heartbeat(s)
    BY <2>8 DEF Heartbeat
  <2> QED
    BY <2>1, <2>2, <2>3, <2>4, <2>5, <2>6, <2>7, <2>8 DEF HandlerStep
<1>3. CASE Host
  <2>1. ASSUME NEW s \in Streams, Dial(s) PROVE killed'[t]
    BY <2>1 DEF Dial
  <2>2. CASE Lost \/ Break \/ Stop
    BY <2>2 DEF Lost, Break, Stop
  <2> QED
    BY <1>3, <2>1, <2>2 DEF Host
<1>4. CASE Rest
  <2>1. CASE Assign \/ Unassign \/ HostKill \/ Lapse
    BY <2>1 DEF Assign, Unassign, HostKill, Lapse
  <2>2. CASE WatchPoll \/ WatchMark
    BY <2>2 DEF WatchPoll, WatchMark
  <2>3. CASE WatchCancel
    <3>1. current = t \/ killed[t]
      BY <2>3 DEF WatchCancel, ServedOrKilled
    <3> QED
      BY <2>3, <3>1, StreamsAssumption DEF WatchCancel
  <2>4. CASE WatchReassign
    BY <2>4 DEF WatchReassign, Reassigned
  <2> QED
    BY <1>4, <2>1, <2>2, <2>3, <2>4 DEF Rest, WatcherStep
<1> QED
  BY <1>1, <1>2, <1>3, <1>4, StepKinds

\* Only a teardown removes the entry, and beside a registered stream that is an
\* overlap.
LEMMA ServedIsRegisteredStep ==
  ASSUME TypeOK, ServedOrKilled, ServedIsRegistered, [Next]_vars
  PROVE  ServedIsRegistered'
<1> SUFFICES ASSUME NEW t \in Streams, pc'[t] \in {"ack", "serve"}, ~killed'[t], ~overlapped'
             PROVE  Known'
  BY DEF ServedIsRegistered
<1> USE DEF TypeOK, ServedIsRegistered, Known, Goto, Entry, streamVars, hostVars
<1>1. CASE UNCHANGED vars
  BY <1>1 DEF vars
<1>2. CASE Handlers
  <2> PICK s \in Streams : HandlerStep(s) \/ Heartbeat(s)
    BY <1>2 DEF Handlers
  <2>1. CASE RegisterHostStream(s)
    BY <2>1 DEF RegisterHostStream
  <2>2. CASE Register(s)
    BY <2>2 DEF Register
  <2>3. CASE AdmitRead(s) \/ AdmitDecide(s) \/ AckSent(s) \/ AckFails(s) \/ End(s)
    BY <2>3 DEF AdmitRead, AdmitDecide, AckSent, AckFails, End
  <2>4. CASE ReleaseHostStream(s) \/ TeardownGet(s)
    BY <2>4 DEF ReleaseHostStream, TeardownGet
  <2>5. CASE TeardownLeave(s)
    <3>1. pc[t] \in {"ack", "serve"} /\ ~killed[t] /\ ~Superseded
      BY <2>5 DEF TeardownLeave
    <3> QED
      BY <3>1, LiveIsSuperseding
  <2>6. CASE TeardownDead(s)
    BY <2>6 DEF TeardownDead, MarkedDead
  <2>7. CASE TeardownReassign(s)
    BY <2>7 DEF TeardownReassign, Reassigned
  <2>8. CASE Heartbeat(s)
    BY <2>8 DEF Heartbeat
  <2> QED
    BY <2>1, <2>2, <2>3, <2>4, <2>5, <2>6, <2>7, <2>8 DEF HandlerStep
<1>3. CASE Host
  <2>1. ASSUME NEW s \in Streams, Dial(s) PROVE Known'
    BY <2>1 DEF Dial
  <2>2. CASE Lost \/ Break \/ Stop
    BY <2>2 DEF Lost, Break, Stop
  <2> QED
    BY <1>3, <2>1, <2>2 DEF Host
<1>4. CASE Rest
  <2>1. CASE Assign \/ Unassign \/ HostKill \/ Lapse
    BY <2>1 DEF Assign, Unassign, HostKill, Lapse
  <2>2. CASE WatchPoll \/ WatchMark \/ WatchCancel
    BY <2>2 DEF WatchPoll, WatchMark, MarkedDead, WatchCancel
  <2>3. CASE WatchReassign
    BY <2>3 DEF WatchReassign, Reassigned
  <2> QED
    BY <1>4, <2>1, <2>2, <2>3 DEF Rest, WatcherStep
<1> QED
  BY <1>1, <1>2, <1>3, <1>4, StepKinds

-----------------------------------------------------------------------------
\* registerHostStream: whoever no longer holds the slot has been told to end, for
\* any number of streams that overlap.
THEOREM EvictedAreKilled == Spec => []ServedOrKilled
<1>1. Init => ServedOrKilled
  BY DEF Init, ServedOrKilled
<1> QED
  BY <1>1, ServedOrKilledStep, ControlTyped, PTL DEF Spec

\* checkLiveness: no host is left Dead with a stream that goes on, unless a teardown
\* overlapped with a new registration.
THEOREM DeadHostsGoDown == Spec => []DeadIsDown
<1>1. Init => DeadIsDown
  BY DEF Init, DeadIsDown, Absent
<1> QED
  BY <1>1, DeadIsDownStep, EvictedAreKilled, ControlTyped, PTL DEF Spec

\* handleHostControl's teardown: a registered stream keeps its registry entry, with
\* the same exception.
THEOREM ServedHostsAreKnown == Spec => []ServedIsRegistered
<1>1. Init => ServedIsRegistered
  BY DEF Init, ServedIsRegistered
<1> QED
  BY <1>1, ServedIsRegisteredStep, EvictedAreKilled, ControlTyped, PTL DEF Spec
=============================================================================
