---------------------------- MODULE CellTransfer ----------------------------
(***************************************************************************)
(* Split, merge and migrate of cells: the coordinator's orchestrator       *)
(* (pkg/universe/cell_transfer.go), the executors on the hosts             *)
(* (cell_transfer_executor.go) and the commit plans (commit_builders_*.go) *)
(* in the deployment where every host is a process of its own.             *)
(*                                                                         *)
(* A request is a list of commands, one per child (split), per donor       *)
(* (merge) or just one (migrate).  Each command is carried out by two      *)
(* goroutines, Execute on the source host and Receive on the destination,  *)
(* and neither is ordered with the Abort, Commit, CellRelease and          *)
(* CellRename messages that the coordinator sends to the same hosts.       *)
(*                                                                         *)
(* A cell instance on a host is its set of live entities, whether its      *)
(* viewers are suspended (Stage.transferDeactivatedViewers) and whether    *)
(* its handoff driver is frozen (Stage.drainingForMerge).                  *)
(***************************************************************************)
EXTENDS Integers, Sequences, FiniteSets

CONSTANTS
    Hosts,            \* cell-bearing hosts
    Parent,           \* a cell
    Children,         \* the sequence of its quadrants (four in the code)
    Kinds,            \* which of "split", "merge", "migrate" are requested
    Entities,         \* entities of the region
    Newcomers,        \* those of them that only arrive later, by a handoff
    Layouts,          \* the initial owner maps
    MaxRequests,      \* requests begun in a behaviour
    CallersWait,      \* whether a request begins only when the last one is decided
    Failing,          \* kinds whose serialize, ship and populate may fail
    DeadlineExpires,  \* whether the orchestrator's 10 s deadline can pass
    SameTick,         \* whether a split's serialize jobs share one tick
    NoHost

ChildSet == {Children[i] : i \in 1..Len(Children)}
Cells == {Parent} \union ChildSet

ASSUME LayoutAssumption ==
    /\ Children \in Seq(ChildSet) /\ Len(Children) > 1
    /\ \A i, j \in 1..Len(Children) : Children[i] = Children[j] => i = j
    /\ Parent \notin ChildSet /\ NoHost \notin Hosts
    /\ Kinds \subseteq {"split", "merge", "migrate"}
    /\ Newcomers \subseteq Entities
    /\ Layouts \subseteq [Cells -> Hosts \union {NoHost}]

(* A region is one cell, or it is split and its quadrants are the cells.   *)
ASSUME RegionAssumption ==
    \A f \in Layouts : \A c \in ChildSet : (f[c] = NoHost) <=> (f[Parent] # NoHost)

VARIABLES
    owner,     \* ControlPlane.cellToHostMap
    inst,      \* the cell instances of the hosts (Host.Cells)
    quad,      \* the quadrant each entity stands in
    reqs,      \* the requests begun so far
    book,      \* the executors' records: transferSrcCells, pending, ...
    ready,     \* CellTransferReady messages on their way
    notices    \* Abort, Commit, CellRelease, CellRename on their way

vars == <<owner, inst, quad, reqs, book, ready, notices>>

Down == [up |-> FALSE, live |-> {}, suspended |-> FALSE, frozen |-> FALSE]
Fresh == [Down EXCEPT !.up = TRUE]

Requests == 1..Len(reqs)
Commands(r) == 1..Len(reqs[r].cmds)
Open == {r \in Requests : reqs[r].state \notin {"committed", "rolledback"}}
Arrived == UNION {inst[h][c].live : h \in Hosts, c \in Cells}

Init ==
    /\ owner \in Layouts
    /\ quad \in [Entities -> 1..Len(Children)]
    /\ inst = [h \in Hosts |-> [c \in Cells |->
                 IF owner[c] # h THEN Down
                 ELSE [Fresh EXCEPT !.live =
                         {e \in Entities \ Newcomers :
                            c = Parent \/ c = Children[quad[e]]}]]]
    /\ reqs = <<>>
    /\ book = [src |-> {}, pending |-> {}, survivor |-> {}, imported |-> {}]
    /\ ready = {}
    /\ notices = {}

-----------------------------------------------------------------------------
(* The game meanwhile: entities move inside the parent, others arrive.     *)

Unserialized(r) == {i \in Commands(r) : reqs[r].cmds[i].pc = "sent"}
BetweenSerializes(r) == Unserialized(r) \notin {{}, Commands(r)}

Move(e, q) ==
    /\ owner[Parent] # NoHost /\ e \in inst[owner[Parent]][Parent].live
    /\ q # quad[e]
    /\ SameTick => \A r \in Requests : ~BetweenSerializes(r)
    /\ quad' = [quad EXCEPT ![e] = q]
    /\ UNCHANGED <<owner, inst, reqs, book, ready, notices>>

(* A boundary handoff from outside the region promotes e on a running cell *)
(* (drainPendingPromotes); it does not look at running transfers.          *)
Arrive(e, h, c) ==
    /\ e \in Newcomers \ Arrived
    /\ \A r \in Requests : \A i \in Commands(r) : e \notin reqs[r].cmds[i].ents
    /\ inst[h][c].up /\ owner[c] = h
    /\ c = Parent \/ c = Children[quad[e]]
    /\ inst' = [inst EXCEPT ![h][c].live = @ \union {e}]
    /\ UNCHANGED <<owner, quad, reqs, book, ready, notices>>

-----------------------------------------------------------------------------
(* Begin*: record the request and dispatch every command concurrently.     *)

Command(s, sh, d, dh) ==
    [src |-> s, srcHost |-> sh, dst |-> d, dstHost |-> dh,
     pc |-> "sent", ents |-> {}]

Begin(kind, cmds) ==
    /\ kind \in Kinds
    /\ Len(reqs) < MaxRequests
    /\ CallersWait => Open = {}
    /\ reqs' = Append(reqs, [kind |-> kind, cmds |-> cmds, acked |-> {},
                             okHosts |-> {}, state |-> "inflight"])
    /\ UNCHANGED <<owner, inst, quad, book, ready, notices>>

(* assign is what AssignCellsAcrossHostsWithLocality returns.              *)
BeginSplit(assign) ==
    /\ owner[Parent] # NoHost
    /\ Begin("split", [i \in 1..Len(Children) |->
                 Command(Parent, owner[Parent], Children[i], assign[i])])

(* The survivor is the first sibling on the host that AssignCellToHost     *)
(* picks for the parent, else the first sibling.                           *)
BeginMerge(rendezvous) ==
    LET OnIt == {i \in 1..Len(Children) : owner[Children[i]] = rendezvous}
        Survivor(s) == IF OnIt = {} THEN s = 1 ELSE s \in OnIt /\ \A j \in OnIt : s <= j
        Donor(s, i) == Children[IF i < s THEN i ELSE i + 1]
    IN  /\ \A c \in ChildSet : owner[c] # NoHost
        /\ \E s \in 1..Len(Children) :
             /\ Survivor(s)
             /\ Begin("merge", [i \in 1..(Len(Children) - 1) |->
                          Command(Donor(s, i), owner[Donor(s, i)],
                                  Children[s], owner[Children[s]])])

BeginMigrate(c, dest) ==
    /\ owner[c] \notin {NoHost, dest}
    /\ Begin("migrate", <<Command(c, owner[c], c, dest)>>)

-----------------------------------------------------------------------------
(* Execute, on the source host.                                            *)

Cmd(r, i) == reqs[r].cmds[i]
MayFail(r) == reqs[r].kind \in Failing
At(r, i, pc) == reqs[r].cmds[i].pc = pc
Goto(r, i, pc) == reqs' = [reqs EXCEPT ![r].cmds[i].pc = pc]

ReadyMsg(r, i, host, ok) ==
    [req |-> r, cmd |-> i, host |-> host, dst |-> Cmd(r, i).dst, ok |-> ok]
Report(r, i, host, ok) == ready' = ready \union {ReadyMsg(r, i, host, ok)}

(* Mutant: every quadrant takes the whole cell.                            *)
SerializedAll(r, i) == inst[Cmd(r, i).srcHost][Cmd(r, i).src].live

(* What the commit-path serializer takes.                                  *)
Serialized(r, i) ==
    LET live == inst[Cmd(r, i).srcHost][Cmd(r, i).src].live
    IN  IF reqs[r].kind = "split" THEN {e \in live : quad[e] = i} ELSE live

(* One job on the source cell's loop: freeze (merge), serialize, suspend.  *)
Serialize(r, i) ==
    LET h == Cmd(r, i).srcHost
        c == Cmd(r, i).src
    IN  /\ At(r, i, "sent")
        /\ inst[h][c].up
        /\ reqs' = [reqs EXCEPT ![r].cmds[i] =
                      [@ EXCEPT !.pc = "serialized", !.ents = Serialized(r, i)]]
        /\ inst' = [inst EXCEPT
                      ![h][c].suspended = TRUE,
                      ![h][c].frozen = @ \/ reqs[r].kind = "merge"]
        /\ UNCHANGED <<owner, quad, book, ready, notices>>

(* Source cell unknown, or the serialize job failed or timed out: a merge  *)
(* clears the freeze again, and the host reports a failed Ready.           *)
SerializeFails(r, i) ==
    LET h == Cmd(r, i).srcHost
        c == Cmd(r, i).src
    IN  /\ At(r, i, "sent")
        /\ ~inst[h][c].up \/ MayFail(r)
        /\ Goto(r, i, "done")
        /\ inst' = [inst EXCEPT ![h][c].frozen = @ /\ reqs[r].kind # "merge"]
        /\ Report(r, i, h, FALSE)
        /\ UNCHANGED <<owner, quad, book, notices>>

(* transferSrcCells, and mergeSources for a merge, under the executor's    *)
(* mutex but after the loop job has returned.                              *)
RegisterSource(r, i) ==
    /\ At(r, i, "serialized")
    /\ Goto(r, i, "registered")
    /\ book' = [book EXCEPT !.src = @ \union {<<Cmd(r, i).srcHost, r, Cmd(r, i).src>>}]
    /\ UNCHANGED <<owner, inst, quad, ready, notices>>

Ship(r, i) ==
    /\ At(r, i, "registered")
    /\ Goto(r, i, "shipped")
    /\ UNCHANGED <<owner, inst, quad, book, ready, notices>>

(* The source-side undo of Execute: the record is deleted, the cell thawed *)
(* and its viewers resumed.                                                *)
Resume(cell, thaw) == [cell EXCEPT !.suspended = FALSE, !.frozen = @ /\ ~thaw]

UndoSource(r, i) ==
    LET h == Cmd(r, i).srcHost
        c == Cmd(r, i).src
    IN  /\ Goto(r, i, "done")
        /\ book' = [book EXCEPT !.src = @ \ {<<h, r, c>>}]
        /\ inst' = [inst EXCEPT ![h][c] = Resume(@, reqs[r].kind = "merge")]
        /\ Report(r, i, h, FALSE)
        /\ UNCHANGED <<owner, quad, notices>>

ShipFails(r, i) ==
    /\ At(r, i, "registered")
    /\ MayFail(r) /\ Cmd(r, i).srcHost # Cmd(r, i).dstHost
    /\ UndoSource(r, i)

(* A Receive called in place, source and destination on one host, has      *)
(* returned an error to Execute.                                           *)
LocalShipFails(r, i) ==
    /\ At(r, i, "undo")
    /\ UndoSource(r, i)

-----------------------------------------------------------------------------
(* Receive, on the destination host.                                       *)

AfterError(r, i) ==
    IF Cmd(r, i).srcHost = Cmd(r, i).dstHost THEN "undo" ELSE "done"

(* Split and migrate: create the cell and note it as pending ...           *)
ReceiveCreates(r, i) ==
    LET h == Cmd(r, i).dstHost
        c == Cmd(r, i).dst
    IN  /\ At(r, i, "shipped") /\ reqs[r].kind # "merge"
        /\ ~inst[h][c].up
        /\ inst' = [inst EXCEPT ![h][c] = Fresh]
        /\ book' = [book EXCEPT !.pending = @ \union {<<h, r, c>>}]
        /\ Goto(r, i, "created")
        /\ UNCHANGED <<owner, quad, ready, notices>>

(* ... or, when the host already runs a cell of that name, only ack.       *)
ReceiveAcks(r, i) ==
    /\ At(r, i, "shipped") /\ reqs[r].kind # "merge"
    /\ inst[Cmd(r, i).dstHost][Cmd(r, i).dst].up
    /\ Goto(r, i, "done")
    /\ Report(r, i, Cmd(r, i).dstHost, TRUE)
    /\ UNCHANGED <<owner, inst, quad, book, notices>>

Populate(r, i) ==
    LET h == Cmd(r, i).dstHost
        c == Cmd(r, i).dst
    IN  /\ At(r, i, "created") /\ reqs[r].kind # "merge"
        /\ <<h, r, c>> \in book.pending
        /\ inst' = [inst EXCEPT ![h][c].live = @ \union Cmd(r, i).ents]
        /\ Goto(r, i, "done")
        /\ Report(r, i, h, TRUE)
        /\ UNCHANGED <<owner, quad, book, notices>>

(* teardownPending: every cell the host created for the request goes.      *)
Pending(h, r) == {c \in Cells : <<h, r, c>> \in book.pending}

TornDown(h, r) ==
    [inst EXCEPT ![h] = [c \in Cells |-> IF c \in Pending(h, r) THEN Down ELSE @[c]]]
WithoutRecords(h, r) ==
    [book EXCEPT !.pending = {x \in @ : ~(x[1] = h /\ x[2] = r)}]

(* The populate job failed, timed out, or its cell was torn down by Abort. *)
PopulateFails(r, i) ==
    LET h == Cmd(r, i).dstHost
    IN  /\ At(r, i, "created") /\ reqs[r].kind # "merge"
        /\ MayFail(r) \/ <<h, r, Cmd(r, i).dst>> \notin book.pending
        /\ inst' = TornDown(h, r)
        /\ book' = WithoutRecords(h, r)
        /\ Goto(r, i, AfterError(r, i))
        /\ Report(r, i, h, FALSE)
        /\ UNCHANGED <<owner, quad, notices>>

(* Merge: the survivor must run here; it is noted for Abort first.         *)
ReceiveMerge(r, i) ==
    LET h == Cmd(r, i).dstHost
        c == Cmd(r, i).dst
    IN  /\ At(r, i, "shipped") /\ reqs[r].kind = "merge"
        /\ inst[h][c].up
        /\ book' = [book EXCEPT !.survivor = @ \union {<<h, r, c>>}]
        /\ Goto(r, i, "created")
        /\ UNCHANGED <<owner, inst, quad, ready, notices>>

ReceiveMergeGone(r, i) ==
    /\ At(r, i, "shipped") /\ reqs[r].kind = "merge"
    /\ ~inst[Cmd(r, i).dstHost][Cmd(r, i).dst].up
    /\ Goto(r, i, AfterError(r, i))
    /\ Report(r, i, Cmd(r, i).dstHost, FALSE)
    /\ UNCHANGED <<owner, inst, quad, book, notices>>

(* The populate job freezes the survivor and imports what it has not got.  *)
Import(r, i, some) ==
    LET h == Cmd(r, i).dstHost
        c == Cmd(r, i).dst
    IN  /\ inst' = [inst EXCEPT ![h][c].frozen = TRUE,
                                ![h][c].live = @ \union some]
        /\ book' = [book EXCEPT !.imported =
                      @ \union {<<h, r, e>> : e \in some \ inst[h][c].live}]

MergePopulate(r, i) ==
    /\ At(r, i, "created") /\ reqs[r].kind = "merge"
    /\ inst[Cmd(r, i).dstHost][Cmd(r, i).dst].up
    /\ Import(r, i, Cmd(r, i).ents)
    /\ Goto(r, i, "done")
    /\ Report(r, i, Cmd(r, i).dstHost, TRUE)
    /\ UNCHANGED <<owner, quad, notices>>

(* The job failed after importing some entities, or never ran (its loop    *)
(* stopped, or the wait timed out).  The survivor is left frozen.          *)
MergePopulateFails(r, i) ==
    LET up == inst[Cmd(r, i).dstHost][Cmd(r, i).dst].up
    IN  /\ At(r, i, "created") /\ reqs[r].kind = "merge"
        /\ MayFail(r) \/ ~up
        /\ \/ up /\ \E some \in SUBSET Cmd(r, i).ents : Import(r, i, some)
           \/ UNCHANGED <<inst, book>>
        /\ Goto(r, i, AfterError(r, i))
        /\ Report(r, i, Cmd(r, i).dstHost, FALSE)
        /\ UNCHANGED <<owner, quad, notices>>

-----------------------------------------------------------------------------
(* The orchestrator: OnReady, rollback and the deadline.                   *)

Sources(r) == {Cmd(r, i).srcHost : i \in Commands(r)}
Destinations(r) == {Cmd(r, i).dstHost : i \in Commands(r)}
Notice(kind, h, r, c) == [kind |-> kind, host |-> h, req |-> r, cell |-> c]

(* Mutant: only the hosts that have reported Ready are told of an abort.   *)
AbortTargetsReadyOnly(r) == reqs[r].okHosts

(* cellTransferRequestHosts: an Abort goes to every source and to the      *)
(* destinations that have reported Ready, a Commit to all of them.         *)
AbortTargets(r) == reqs[r].okHosts \union Sources(r)
CommitTargets(r) == reqs[r].okHosts \union Sources(r) \union Destinations(r)

Rollback(r) ==
    /\ reqs' = [reqs EXCEPT ![r].state = "rolledback"]
    /\ notices' = notices \union
                    {Notice("abort", h, r, Parent) : h \in AbortTargets(r)}

(* The first command without an ack that names this host and cell.         *)
Matching(m) ==
    {i \in Commands(m.req) \ reqs[m.req].acked :
        Cmd(m.req, i).dstHost = m.host /\ Cmd(m.req, i).dst = m.dst}

Acked(m) ==
    reqs[m.req].acked \union {i \in Matching(m) : \A j \in Matching(m) : i <= j}

(* Mutant: one Ready is enough to commit.                                  *)
AnyAcked(r, acked) == acked # {}

AllAcked(r, acked) == acked = Commands(r)

OnReadyStale(m) ==
    /\ reqs[m.req].state # "inflight"
    /\ ready' = ready \ {m}
    /\ UNCHANGED <<owner, inst, quad, reqs, book, notices>>

OnReadyFailed(m) ==
    /\ reqs[m.req].state = "inflight" /\ ~m.ok
    /\ ready' = ready \ {m}
    /\ Rollback(m.req)
    /\ UNCHANGED <<owner, inst, quad, book>>

(* Mutant: a failed Ready counts as well.                                  *)
OnReadyAny(m) ==
    /\ reqs[m.req].state = "inflight"
    /\ ready' = ready \ {m}
    /\ reqs' = [reqs EXCEPT
                  ![m.req].acked = Acked(m),
                  ![m.req].okHosts =
                     IF Matching(m) = {} THEN @ ELSE @ \union {m.host},
                  ![m.req].state =
                     IF AllAcked(m.req, Acked(m)) THEN "acked" ELSE @]
    /\ UNCHANGED <<owner, inst, quad, book, notices>>

OnReadyOk(m) ==
    /\ reqs[m.req].state = "inflight" /\ m.ok
    /\ ready' = ready \ {m}
    /\ reqs' = [reqs EXCEPT
                  ![m.req].acked = Acked(m),
                  ![m.req].okHosts =
                     IF Matching(m) = {} THEN @ ELSE @ \union {m.host},
                  ![m.req].state =
                     IF AllAcked(m.req, Acked(m)) THEN "acked" ELSE @]
    /\ UNCHANGED <<owner, inst, quad, book, notices>>

(* reportReady only logs a failed send.                                    *)
ReadyLost(m) ==
    /\ DeadlineExpires
    /\ ready' = ready \ {m}
    /\ UNCHANGED <<owner, inst, quad, reqs, book, notices>>

(* Mutant: the scan passes over a request that has seen a Ready.           *)
ExpireSilent(r) ==
    /\ DeadlineExpires
    /\ reqs[r].state = "inflight" /\ reqs[r].acked = {}
    /\ Rollback(r)
    /\ UNCHANGED <<owner, inst, quad, book, ready>>

(* scanTimeouts: the deadline passed.                                      *)
Expire(r) ==
    /\ DeadlineExpires
    /\ reqs[r].state = "inflight"
    /\ Rollback(r)
    /\ UNCHANGED <<owner, inst, quad, book, ready>>

-----------------------------------------------------------------------------
(* commit: the steps of the CommitPlan in order.  A step that asks a host  *)
(* waits for its HostOpAck, but goes on when the wait times out.           *)

Outstanding(kind, r) == {n \in notices : n.kind = kind /\ n.req = r}
Step(r, state) == reqs' = [reqs EXCEPT ![r].state = state]

(* The cells a committed request adds to and removes from the owner map.   *)
Adds(r) ==
    IF reqs[r].kind = "merge" THEN {<<Parent, Cmd(r, 1).dstHost>>}
    ELSE {<<Cmd(r, i).dst, Cmd(r, i).dstHost>> : i \in Commands(r)}
Removes(r) ==
    CASE reqs[r].kind = "split" -> {Parent}
      [] reqs[r].kind = "merge" -> ChildSet
      [] reqs[r].kind = "migrate" -> {}

CommitMap(r) ==
    /\ reqs[r].state = "acked"
    /\ owner' = [c \in Cells |->
                   IF \E h \in Hosts : <<c, h>> \in Adds(r)
                   THEN CHOOSE h \in Hosts : <<c, h>> \in Adds(r)
                   ELSE IF c \in Removes(r) THEN NoHost ELSE owner[c]]
    /\ Step(r, "mapped")
    /\ notices' = notices \union
         (IF reqs[r].kind = "merge"
          THEN {Notice("rename", Cmd(r, 1).dstHost, r, Cmd(r, 1).dst)} ELSE {})
    /\ UNCHANGED <<inst, quad, book, ready>>

CommitRelease(r) ==
    /\ reqs[r].state = "mapped"
    /\ Outstanding("rename", r) = {} \/ DeadlineExpires
    /\ Step(r, "releasing")
    /\ notices' = notices \union
         {Notice("release", Cmd(r, i).srcHost, r, Cmd(r, i).src) : i \in Commands(r)}
    /\ UNCHANGED <<owner, inst, quad, book, ready>>

CommitNotify(r) ==
    /\ reqs[r].state = "releasing"
    /\ Outstanding("release", r) = {} \/ DeadlineExpires
    /\ Step(r, "committed")
    /\ notices' = notices \union
         {Notice("commit", h, r, Parent) : h \in CommitTargets(r)}
    /\ UNCHANGED <<owner, inst, quad, book, ready>>

-----------------------------------------------------------------------------
(* The hosts' handlers of the coordinator's messages.                      *)

(* Abort: thaw and resume the sources, drop what a merge imported into its *)
(* survivor and thaw it, tear the pending cells down.                      *)
Aborted(h, r) ==
    LET Resumed(c) == IF <<h, r, c>> \in book.src
                      THEN Resume(inst[h][c], reqs[r].kind = "merge")
                      ELSE inst[h][c]
        Cleaned(c) == IF <<h, r, c>> \in book.survivor
                      THEN [Resumed(c) EXCEPT
                              !.live = {e \in @ : <<h, r, e>> \notin book.imported},
                              !.frozen = FALSE]
                      ELSE Resumed(c)
    IN  [inst EXCEPT ![h] = [c \in Cells |->
            IF <<h, r, c>> \in book.pending THEN Down ELSE Cleaned(c)]]

Forget(h, r) ==
    [f \in DOMAIN book |-> {x \in book[f] : ~(x[1] = h /\ x[2] = r)}]

HandleAbort(n) ==
    /\ n.kind = "abort"
    /\ notices' = notices \ {n}
    /\ inst' = Aborted(n.host, n.req)
    /\ book' = Forget(n.host, n.req)
    /\ UNCHANGED <<owner, quad, reqs, ready>>

HandleCommit(n) ==
    /\ n.kind = "commit"
    /\ notices' = notices \ {n}
    /\ book' = Forget(n.host, n.req)
    /\ UNCHANGED <<owner, inst, quad, reqs, ready>>

(* The executors' records point to the cell itself, whatever its name.     *)
Renamed(n) ==
    [f \in DOMAIN book |->
        {IF x = <<n.host, x[2], n.cell>> THEN <<n.host, x[2], Parent>> ELSE x
           : x \in book[f]}]

(* renameCellOnNode also thaws the cell; a cell it cannot find is an error.*)
HandleRename(n) ==
    /\ n.kind = "rename"
    /\ notices' = notices \ {n}
    /\ IF ~inst[n.host][n.cell].up THEN UNCHANGED <<inst, book>>
       ELSE /\ inst' = [inst EXCEPT
                 ![n.host][Parent] = [inst[n.host][n.cell] EXCEPT !.frozen = FALSE],
                 ![n.host][n.cell] = Down]
            /\ book' = Renamed(n)
    /\ UNCHANGED <<owner, quad, reqs, ready>>

HandleRelease(n) ==
    /\ n.kind = "release"
    /\ notices' = notices \ {n}
    /\ inst' = [inst EXCEPT ![n.host][n.cell] = Down]
    /\ UNCHANGED <<owner, quad, reqs, book, ready>>

-----------------------------------------------------------------------------
Execute(r, i) ==
    \/ Serialize(r, i) \/ SerializeFails(r, i)
    \/ RegisterSource(r, i) \/ Ship(r, i)
    \/ ShipFails(r, i) \/ LocalShipFails(r, i)

Receive(r, i) ==
    \/ ReceiveCreates(r, i) \/ ReceiveAcks(r, i)
    \/ Populate(r, i) \/ PopulateFails(r, i)
    \/ ReceiveMerge(r, i) \/ ReceiveMergeGone(r, i)
    \/ MergePopulate(r, i) \/ MergePopulateFails(r, i)

OnReady(m) == OnReadyStale(m) \/ OnReadyFailed(m) \/ OnReadyOk(m)
Commit(r) == CommitMap(r) \/ CommitRelease(r) \/ CommitNotify(r)
Handle(n) ==
    HandleAbort(n) \/ HandleCommit(n) \/ HandleRename(n) \/ HandleRelease(n)

BeginRequest ==
    \/ \E assign \in [1..Len(Children) -> Hosts] : BeginSplit(assign)
    \/ \E h \in Hosts : BeginMerge(h)
    \/ \E c \in Cells, h \in Hosts : BeginMigrate(c, h)

World ==
    \/ \E e \in Entities, q \in 1..Len(Children) : Move(e, q)
    \/ \E e \in Newcomers, h \in Hosts, c \in Cells : Arrive(e, h, c)

Next ==
    \/ World
    \/ BeginRequest
    \/ \E r \in Requests : \/ Commit(r) \/ Expire(r)
                           \/ \E i \in Commands(r) : Execute(r, i) \/ Receive(r, i)
    \/ \E m \in ready : OnReady(m) \/ ReadyLost(m)
    \/ \E n \in notices : Handle(n)

Spec == Init /\ [][Next]_vars

(* Every goroutine that has been started and every message on a live       *)
(* stream is served eventually: each wait in Execute, Receive and commit   *)
(* has a time limit, the receive loops never block on one another, and     *)
(* timeoutLoop scans the requests for as long as the coordinator runs.     *)
Protocol ==
    \/ \E r \in Requests : \/ Commit(r) \/ Expire(r)
                           \/ \E i \in Commands(r) : Execute(r, i) \/ Receive(r, i)
    \/ \E m \in ready : OnReady(m)
    \/ \E n \in notices : Handle(n)

FairSpec == Spec /\ WF_vars(Protocol)

-----------------------------------------------------------------------------
(* Properties.                                                             *)

(* Nothing of any transfer is under way: no goroutine, no message.         *)
Rest ==
    /\ ready = {} /\ notices = {}
    /\ \A r \in Requests : /\ reqs[r].state \in {"committed", "rolledback"}
                           /\ \A i \in Commands(r) : At(r, i, "done")

(* The instance that stands for cell c of host h in the owner map: while a *)
(* merge has flipped the map and its rename is still to come, the survivor *)
(* stands for the parent.                                                  *)
Serving(h, c) ==
    /\ inst[h][c].up
    /\ \/ owner[c] = h
       \/ \E n \in notices : n.kind = "rename" /\ n.host = h /\ n.cell = c

(* Type of the state.                                                      *)
TypeOK ==
    /\ owner \in [Cells -> Hosts \union {NoHost}]
    /\ inst \in [Hosts -> [Cells -> [up : BOOLEAN, live : SUBSET Entities,
                                    suspended : BOOLEAN, frozen : BOOLEAN]]]
    /\ quad \in [Entities -> 1..Len(Children)]
    /\ \A r \in Requests :
         /\ reqs[r].kind \in Kinds
         /\ reqs[r].acked \subseteq Commands(r)
         /\ reqs[r].okHosts \subseteq Destinations(r)
         /\ reqs[r].state \in {"inflight", "acked", "mapped", "releasing",
                               "committed", "rolledback"}
    /\ book.src \union book.pending \union book.survivor
         \subseteq Hosts \X Requests \X Cells
    /\ \A n \in notices : n.host \in Hosts /\ n.req \in Requests

(* host-ownership-matches-coord (integrity.go:110): whatever races and     *)
(* fails, the host the owner map names for a cell runs that cell.          *)
OwnerServes ==
    \A c \in Cells : owner[c] # NoHost =>
        \/ inst[owner[c]][c].up
        \/ c = Parent /\ \E n \in notices : /\ n.kind = "rename" /\ n.host = owner[c]
                                            /\ inst[n.host][n.cell].up

(* Entity conservation (conservation.go:28): no transfer, committed or     *)
(* rolled back, ever leaves an entity on no serving cell.                  *)
NoEntityLost ==
    \A e \in Entities \ Newcomers : \E h \in Hosts, c \in Cells :
        Serving(h, c) /\ e \in inst[h][c].live

(* At rest the hosts run the cells of the owner map and no others, and     *)
(* every one of them serves its players and emits handoffs: a rolled back  *)
(* request leaves no destination cell, no suspended viewers and no frozen  *)
(* cell, a committed one no source and a thawed survivor.                  *)
RestIsClean ==
    Rest => /\ \A h \in Hosts, c \in Cells : inst[h][c].up => owner[c] = h
            /\ \A c \in Cells : owner[c] # NoHost =>
                 ~inst[owner[c]][c].suspended /\ ~inst[owner[c]][c].frozen

(* At rest every entity is live in exactly one running cell.               *)
OneLiveCopy ==
    Rest => \A e \in Entities \ Newcomers :
        Cardinality({x \in Hosts \X Cells : /\ inst[x[1]][x[2]].up
                                            /\ e \in inst[x[1]][x[2]].live}) = 1

(* When a request commits, each destination holds what the source of that  *)
(* command serialized for this very request.                               *)
CommitCarriesState ==
    \A r \in Requests : reqs[r].state = "acked" =>
        \A i \in Commands(r) :
            Cmd(r, i).ents \subseteq inst[Cmd(r, i).dstHost][Cmd(r, i).dst].live

(* Every request ends and everything comes to rest, whatever fails on the  *)
(* way and whichever Readys are lost.                                      *)
TransfersEnd == \A r \in 1..MaxRequests : (r \in Requests) ~> Rest

=============================================================================
