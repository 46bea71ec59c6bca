---------------------------- MODULE ControlStream ----------------------------
(***************************************************************************)
(* The control stream between one host and the coordinator.  The host      *)
(* dials, registers and heartbeats, and dials again whenever its stream    *)
(* ends.  At the coordinator every stream has a handler of its own         *)
(* (handleHostControl), which admits the registration, takes over the slot *)
(* of the stream map, evicts its predecessor and, when its stream ends,    *)
(* tears the registration down; the liveness watcher declares a silent     *)
(* host dead.  Handlers and watcher interleave at every lock they take.    *)
(*                                                                         *)
(* A stream is a slot that is used again once its handler has returned.    *)
(* The cells of the host are a flag: teardown only asks whether it has any.*)
(***************************************************************************)
EXTENDS Naturals, FiniteSets

CONSTANTS
    Streams,     \* slots for control streams
    None,        \* no stream
    MaxFaults    \* bound: breaks, operator kills and late heartbeats

ASSUME StreamsAssumption ==
    /\ None \notin Streams
    /\ MaxFaults \in Nat

VARIABLES
    current,     \* meshControlServer.streams[hostID]
    killed,      \* controlStream.kill is closed
    broken,      \* the transport under the stream is gone
    pc,          \* what the stream's handler does next; "idle" without a handler
    seen,        \* what the handler keeps of its copy of the entry (HostRegistry.Get)
    entry,       \* HostRegistry.hosts[hostID]
    watcher,     \* what the liveness watcher does next
    copy,        \* the watcher's copy of the host has cells (LiveHosts)
    client,      \* the host's stream (meshControlClient.stream)
    stopped,     \* the host process has ended
    faults,      \* faults so far
    overlapped   \* history: a teardown went on after a successor had registered

streamVars == <<current, killed, broken>>
hostVars == <<client, stopped, faults>>
vars == <<streamVars, pc, seen, entry, watcher, copy, hostVars, overlapped>>

Handler == {"idle", "admit", "decide", "register", "insert", "ack", "serve",
            "release", "get", "leave", "dead", "reassign"}
Entry == [state : {"None", "Registered", "Live", "Dead"}, fresh : BOOLEAN, cells : BOOLEAN]
Absent == [state |-> "None", fresh |-> FALSE, cells |-> FALSE]

Init ==
    /\ current = None
    /\ killed = [s \in Streams |-> FALSE] /\ broken = [s \in Streams |-> FALSE]
    /\ pc = [s \in Streams |-> "idle"] /\ seen = [s \in Streams |-> FALSE]
    /\ entry = Absent
    /\ watcher = "poll" /\ copy = FALSE
    /\ client = None /\ stopped = FALSE /\ faults = 0
    /\ overlapped = FALSE

Goto(s, from, to) == pc[s] = from /\ pc' = [pc EXCEPT ![s] = to]

Known == entry.state # "None"

-----------------------------------------------------------------------------
(* The host: meshControlClient.                                            *)

\* Slots that no handler runs on and the stream map does not hold.
Free == {s \in Streams : pc[s] = "idle" /\ current # s}

\* runConnection: a new stream is opened and RegisterHost sent on it.  One free
\* slot is as good as another.
Dial(s) ==
    /\ client = None /\ ~stopped
    /\ s \in Free /\ s = CHOOSE t \in Free : TRUE
    /\ Goto(s, "idle", "admit")
    /\ client' = s
    /\ killed' = [killed EXCEPT ![s] = FALSE] /\ broken' = [broken EXCEPT ![s] = FALSE]
    /\ UNCHANGED <<current, seen, entry, watcher, copy, stopped, faults, overlapped>>

\* runRecvLoop returns: the transport broke or the coordinator's handler ended.
\* The loop of runConnectLoop dials again.
Lost ==
    /\ client # None
    /\ broken[client] \/ pc[client] = "idle"
    /\ client' = None
    /\ UNCHANGED <<streamVars, pc, seen, entry, watcher, copy, stopped, faults, overlapped>>

\* The transport breaks; each end finds out in its own time.
Break ==
    /\ client # None /\ ~broken[client] /\ faults < MaxFaults
    /\ broken' = [broken EXCEPT ![client] = TRUE]
    /\ faults' = faults + 1
    /\ UNCHANGED <<current, killed, pc, seen, entry, watcher, copy, client, stopped, overlapped>>

\* The host process ends without a word.
Stop ==
    /\ ~stopped /\ stopped' = TRUE
    /\ client' = None
    /\ broken' = IF client = None THEN broken ELSE [broken EXCEPT ![client] = TRUE]
    /\ UNCHANGED <<current, killed, pc, seen, entry, watcher, copy, faults, overlapped>>

-----------------------------------------------------------------------------
(* The handler of a stream: handleHostControl.                             *)

\* Mutant: staleness is not considered, so a host that never heartbeats keeps its id.
AdmitReadNotDead(s) ==
    /\ Goto(s, "admit", "decide")
    /\ seen' = [seen EXCEPT ![s] = entry.state \notin {"None", "Dead"}]
    /\ UNCHANGED <<streamVars, entry, watcher, copy, hostVars, overlapped>>

\* admitHostRegistration reads the registry entry: is the host heartbeating?
AdmitRead(s) ==
    /\ Goto(s, "admit", "decide")
    /\ seen' = [seen EXCEPT ![s] = entry.state \notin {"None", "Dead"} /\ entry.fresh]
    /\ UNCHANGED <<streamVars, entry, watcher, copy, hostVars, overlapped>>

\* Then it reads the stream map, and refuses a host id that is still defended by a
\* stream nobody has ordered down (clause c).
AdmitDecide(s) ==
    /\ Goto(s, "decide", IF seen[s] /\ current # None /\ ~killed[current]
                         THEN "idle" ELSE "register")
    /\ seen' = [seen EXCEPT ![s] = FALSE]
    /\ UNCHANGED <<streamVars, entry, watcher, copy, hostVars, overlapped>>

\* Mutant: the predecessor is replaced but not told to end.
RegisterHostStreamKeepsOld(s) ==
    /\ Goto(s, "register", "insert")
    /\ current' = s
    /\ UNCHANGED <<killed, broken, seen, entry, watcher, copy, hostVars, overlapped>>

\* registerHostStream: take the slot and close the predecessor's kill channel.
RegisterHostStream(s) ==
    /\ Goto(s, "register", "insert")
    /\ current' = s
    /\ killed' = IF current = None THEN killed ELSE [killed EXCEPT ![current] = TRUE]
    /\ UNCHANGED <<broken, seen, entry, watcher, copy, hostVars, overlapped>>

\* HostRegistry.Register: a fresh entry without cells.
Register(s) ==
    /\ Goto(s, "insert", "ack")
    /\ entry' = [state |-> "Registered", fresh |-> TRUE, cells |-> FALSE]
    /\ UNCHANGED <<streamVars, seen, watcher, copy, hostVars, overlapped>>

\* The RegisterAck goes to whichever stream the map holds.
AckSent(s) ==
    /\ Goto(s, "ack", "serve")
    /\ current # None
    /\ UNCHANGED <<streamVars, seen, entry, watcher, copy, hostVars, overlapped>>

\* The send fails and the handler returns before its teardown is deferred: the
\* map and the registry keep the registration.
AckFails(s) ==
    /\ Goto(s, "ack", "idle")
    /\ current # None => broken[current]
    /\ UNCHANGED <<streamVars, seen, entry, watcher, copy, hostVars, overlapped>>

\* HostRegistry.Touch, for a Heartbeat read from the stream.
Heartbeat(s) ==
    /\ pc[s] = "serve" /\ Known
    /\ entry' = [entry EXCEPT !.fresh = TRUE,
                              !.state = IF @ = "Registered" THEN "Live" ELSE @]
    /\ UNCHANGED <<streamVars, pc, seen, watcher, copy, hostVars, overlapped>>

\* The drain loop ends on a receive error or the closed kill channel.
End(s) ==
    /\ Goto(s, "serve", "release")
    /\ broken[s] \/ killed[s]
    /\ UNCHANGED <<streamVars, seen, entry, watcher, copy, hostVars, overlapped>>

\* releaseHostStream: a handler that has been superseded skips its teardown.
ReleaseHostStream(s) ==
    /\ Goto(s, "release", IF current = s THEN "get" ELSE "idle")
    /\ current' = IF current = s THEN None ELSE current
    /\ UNCHANGED <<killed, broken, seen, entry, watcher, copy, hostVars, overlapped>>

\* The teardown reads the entry.  A host without cells has left in good order,
\* one with cells has crashed.
TeardownGet(s) ==
    /\ Goto(s, "get", IF ~Known THEN "idle" ELSE IF entry.cells THEN "dead" ELSE "leave")
    /\ seen' = [seen EXCEPT ![s] = entry.cells]
    /\ UNCHANGED <<streamVars, entry, watcher, copy, hostVars, overlapped>>

\* A successor has registered since the slot was given up.
Superseded == current # None /\ pc[current] \in {"ack", "serve"}

\* MarkLeaving and Remove.
TeardownLeave(s) ==
    /\ Goto(s, "leave", "idle")
    /\ entry' = Absent
    /\ overlapped' = (overlapped \/ Superseded)
    /\ UNCHANGED <<streamVars, seen, watcher, copy, hostVars>>

MarkedDead == IF Known THEN [entry EXCEPT !.state = "Dead"] ELSE entry

TeardownDead(s) ==
    /\ Goto(s, "dead", "reassign")
    /\ entry' = MarkedDead
    /\ overlapped' = (overlapped \/ Superseded)
    /\ UNCHANGED <<streamVars, seen, watcher, copy, hostVars>>

\* reassignOrphanedCells: the cells go to a surviving host, or stay on the entry
\* when there is none.
Reassigned(had) ==
    {entry, IF had /\ Known THEN [entry EXCEPT !.cells = FALSE] ELSE entry}

TeardownReassign(s) ==
    /\ Goto(s, "reassign", "idle")
    /\ entry' \in Reassigned(seen[s])
    /\ seen' = [seen EXCEPT ![s] = FALSE]
    /\ UNCHANGED <<streamVars, watcher, copy, hostVars, overlapped>>

-----------------------------------------------------------------------------
(* The rest of the coordinator.                                            *)

\* An assignment pass, a commit or a CellReady gives the host cells (AssignCell).
Assign ==
    /\ Known /\ ~entry.cells
    /\ entry' = [entry EXCEPT !.cells = TRUE]
    /\ UNCHANGED <<streamVars, pc, seen, watcher, copy, hostVars, overlapped>>

\* A pass, a commit or a CellStopped takes them away (ReleaseCell).
Unassign ==
    /\ entry.cells
    /\ entry' = [entry EXCEPT !.cells = FALSE]
    /\ UNCHANGED <<streamVars, pc, seen, watcher, copy, hostVars, overlapped>>

\* The console's "host kill" (cancelStream).
HostKill ==
    /\ current # None /\ ~killed[current] /\ faults < MaxFaults
    /\ killed' = [killed EXCEPT ![current] = TRUE]
    /\ faults' = faults + 1
    /\ UNCHANGED <<current, broken, pc, seen, entry, watcher, copy, client, stopped, overlapped>>

\* A stream that brings heartbeats.
Beating == client # None /\ pc[client] = "serve" /\ ~broken[client] /\ ~killed[client]

\* No goroutine of the coordinator is in the middle of its work.
Quiet ==
    /\ watcher = "poll"
    /\ \A s \in Streams : pc[s] = "idle" \/ (pc[s] = "serve" /\ ~killed[s])

\* deadThreshold passes without a heartbeat.  It is long for a goroutine at work:
\* that one stalls so long, or heartbeats come so late, counts as a fault.
Lapse ==
    /\ entry.fresh
    /\ entry' = [entry EXCEPT !.fresh = FALSE]
    /\ IF Quiet /\ ~Beating THEN faults' = faults
                            ELSE faults < MaxFaults /\ faults' = faults + 1
    /\ UNCHANGED <<streamVars, pc, seen, watcher, copy, client, stopped, overlapped>>

\* checkLiveness copies the entry of a Live host that has gone silent.
WatchPoll ==
    /\ watcher = "poll" /\ watcher' = "mark"
    /\ entry.state = "Live" /\ ~entry.fresh
    /\ copy' = entry.cells
    /\ UNCHANGED <<streamVars, pc, seen, entry, hostVars, overlapped>>

\* HostRegistry.MarkDead.
WatchMark ==
    /\ watcher = "mark" /\ watcher' = "cancel"
    /\ entry' = MarkedDead
    /\ UNCHANGED <<streamVars, pc, seen, copy, hostVars, overlapped>>

\* Mutant: the dead host's stream is left alone.
WatchCancelNothing ==
    /\ watcher = "cancel" /\ watcher' = "reassign"
    /\ UNCHANGED <<streamVars, pc, seen, entry, copy, hostVars, overlapped>>

\* cancelStream, so that the host dials again.
WatchCancel ==
    /\ watcher = "cancel" /\ watcher' = "reassign"
    /\ killed' = IF current = None THEN killed ELSE [killed EXCEPT ![current] = TRUE]
    /\ UNCHANGED <<current, broken, pc, seen, entry, copy, hostVars, overlapped>>

WatchReassign ==
    /\ watcher = "reassign" /\ watcher' = "poll"
    /\ entry' \in Reassigned(copy) /\ copy' = FALSE
    /\ UNCHANGED <<streamVars, pc, seen, hostVars, overlapped>>

-----------------------------------------------------------------------------
\* What the handler does without waiting for anybody.
HandlerStep(s) ==
    \/ AdmitRead(s) \/ AdmitDecide(s)
    \/ RegisterHostStream(s) \/ Register(s) \/ AckSent(s) \/ AckFails(s)
    \/ End(s) \/ ReleaseHostStream(s)
    \/ TeardownGet(s) \/ TeardownLeave(s) \/ TeardownDead(s) \/ TeardownReassign(s)

WatcherStep == WatchPoll \/ WatchMark \/ WatchCancel \/ WatchReassign

Next ==
    \/ \E s \in Streams : Dial(s) \/ HandlerStep(s) \/ Heartbeat(s)
    \/ Lost \/ Break \/ Stop
    \/ Assign \/ Unassign \/ HostKill \/ Lapse
    \/ WatcherStep

Spec == Init /\ [][Next]_vars

\* Every goroutine keeps running, the host dials again when its stream is gone
\* and heartbeats while it has one, and time passes.
FairSpec ==
    /\ Spec
    /\ \A s \in Streams : WF_vars(HandlerStep(s)) /\ WF_vars(Heartbeat(s) /\ client = s)
    /\ WF_vars(\E s \in Streams : Dial(s))
    /\ WF_vars(Lost) /\ SF_vars(Lapse /\ Quiet /\ ~Beating) /\ WF_vars(WatcherStep)

-----------------------------------------------------------------------------
(* Properties.                                                             *)

\* Streams, handlers, the entry and the copies of it are well formed, and what is
\* not in the registry has neither a heartbeat nor cells.
TypeOK ==
    /\ current \in Streams \cup {None} /\ client \in Streams \cup {None}
    /\ killed \in [Streams -> BOOLEAN] /\ broken \in [Streams -> BOOLEAN]
    /\ pc \in [Streams -> Handler]
    /\ seen \in [Streams -> BOOLEAN] /\ entry \in Entry /\ copy \in BOOLEAN
    /\ ~Known => entry = Absent
    /\ watcher \in {"poll", "mark", "cancel", "reassign"}
    /\ stopped \in BOOLEAN /\ overlapped \in BOOLEAN
    /\ faults \in 0 .. MaxFaults

\* mesh_control_server.go, registerHostStream and releaseHostStream: a handler that
\* no longer holds the slot of the stream map has been told to end, so no stream
\* is served that the coordinator cannot send on.
ServedOrKilled ==
    \A s \in Streams : pc[s] \in {"insert", "ack", "serve"} => current = s \/ killed[s]

\* coord_assignment.go, checkLiveness: a host marked Dead is not left a "permanent
\* zombie": a stream that registered it is told to end, so it dials again.  The
\* exception is a teardown that had already given up the slot and went on after
\* the next handler registered.
DeadIsDown ==
    entry.state = "Dead" =>
       \/ \A s \in Streams : pc[s] \in {"ack", "serve"} => killed[s]
       \/ watcher = "cancel"
       \/ overlapped

\* mesh_control_server.go, "none of the teardown below may run against it": a stream
\* that has registered and is not told to end has its entry in the registry, with
\* the same exception.
ServedIsRegistered ==
    \A s \in Streams : pc[s] \in {"ack", "serve"} /\ ~killed[s] => Known \/ overlapped

\* A host that keeps running ends up Live, on the stream the coordinator sends on.
Connected ==
    /\ client # None /\ current = client /\ pc[client] = "serve"
    /\ entry.state = "Live"

\* registration_admission.go and coord_assignment.go: whatever broke, was killed,
\* came late or was left behind by a failed registration, a host that keeps
\* dialing is admitted in the end and stays Live.
ComesBack == <>[](stopped \/ overlapped \/ Connected)

=============================================================================
