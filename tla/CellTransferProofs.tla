------------------------- MODULE CellTransferProofs -------------------------
(***************************************************************************)
(* Proofs about CellTransfer, for any hosts, children, entities, layouts   *)
(* and numbers of requests, when the callers wait for a request to be      *)
(* decided before they begin the next.                                     *)
(***************************************************************************)
EXTENDS CellTransfer, TLAPS

(* The shapes of the data.                                                 *)
States == {"inflight", "acked", "mapped", "releasing", "committed", "rolledback"}

Steps == {"sent", "serialized", "registered", "shipped", "created", "undo", "done"}

CommandT == [src : Cells, srcHost : Hosts, dst : Cells, dstHost : Hosts,
             pc : Steps, ents : SUBSET Entities]

RequestT == [kind : Kinds, cmds : Seq(CommandT), acked : SUBSET Nat,
             okHosts : SUBSET Hosts, state : States]

Record == Hosts \X Nat \X Cells

BookT == [src : SUBSET Record, pending : SUBSET Record, survivor : SUBSET Record,
          imported : SUBSET (Hosts \X Nat \X (Entities \union Cells))]

MsgT == [req : Nat, cmd : Nat, host : Hosts, dst : Cells, ok : BOOLEAN]

NoticeT == [kind : {"abort", "commit", "release", "rename"}, host : Hosts,
            req : Nat, cell : Cells]

InstT == [up : BOOLEAN, live : SUBSET Entities, suspended : BOOLEAN, frozen : BOOLEAN]

(* The type of the state, and that records and messages name requests and  *)
(* commands that exist.                                                    *)
TInv ==
    /\ owner \in [Cells -> Hosts \union {NoHost}]
    /\ inst \in [Hosts -> [Cells -> InstT]]
    /\ quad \in [Entities -> 1..Len(Children)]
    /\ reqs \in Seq(RequestT)
    /\ book \in BookT
    /\ ready \in SUBSET MsgT
    /\ notices \in SUBSET NoticeT
    /\ \A r \in Requests : /\ reqs[r].acked \subseteq Commands(r)
                           /\ reqs[r].okHosts \subseteq Destinations(r)
    /\ \A x \in book.src \union book.pending \union book.survivor : x[2] \in Requests
    /\ \A n \in notices : n.req \in Requests
    /\ \A m \in ready : m.req \in Requests /\ m.cmd \in Commands(m.req)

(* The hypothesis of the theorems: the callers begin a request when the    *)
(* one before is decided, and either there is only one request, whatever   *)
(* fails, or nothing times out and only migrates fail.                     *)
OneByOne ==
    /\ CallersWait
    /\ MaxRequests = 1 \/ (~DeadlineExpires /\ Failing \subseteq {"migrate"})

Mild == ~DeadlineExpires /\ Failing \subseteq {"migrate"}

(* Abbreviations: a running cell, a merge, the newest request.             *)
Up(h, c) == inst[h][c].up

Merge(r) == reqs[r].kind = "merge"

Last(r) == r = Len(reqs)

(* The commands of a request, as the Begin operations build them.          *)
Built(r) ==
    /\ \A i \in Commands(r) :
         /\ Cmd(r, i).src \in Cells /\ Cmd(r, i).srcHost \in Hosts
         /\ Cmd(r, i).dst \in Cells /\ Cmd(r, i).dstHost \in Hosts
    /\ ~Merge(r) => \A i, j \in Commands(r) : Cmd(r, i).dst = Cmd(r, j).dst => i = j
    /\ reqs[r].kind = "split" =>
         \A i \in Commands(r) : Cmd(r, i).src = Parent /\ Cmd(r, i).dst \in ChildSet
    /\ Merge(r) =>
         \A i \in Commands(r) :
             /\ Cmd(r, i).src \in ChildSet /\ Cmd(r, i).dst \in ChildSet
             /\ \A j \in Commands(r) : /\ Cmd(r, i).src # Cmd(r, j).dst
                                       /\ Cmd(r, i).dst = Cmd(r, j).dst
                                       /\ Cmd(r, i).dstHost = Cmd(r, j).dstHost
    /\ reqs[r].kind = "migrate" =>
         /\ Len(reqs[r].cmds) = 1
         /\ Cmd(r, 1).src = Cmd(r, 1).dst /\ Cmd(r, 1).srcHost # Cmd(r, 1).dstHost

(* An older request can do nothing any more. *)
Gone(r) ==
    /\ reqs[r].state \in {"committed", "rolledback"}
    /\ ~Merge(r) => \A i \in Commands(r) : At(r, i, "done")
    /\ \A n \in notices : n.req = r => n.kind \notin {"rename", "release"}
    /\ reqs[r].state = "rolledback" => \A x \in book.pending : x[2] # r

(* While a request is undecided the map still names its sources; once its  *)
(* map is flipped the newest request's sources are nobody's; a request     *)
(* that is acked has, unless it is a merge, no goroutine left.             *)
Owned(r) ==
    /\ reqs[r].state \in {"inflight", "acked"} =>
         \A i \in Commands(r) : /\ owner[Cmd(r, i).src] = Cmd(r, i).srcHost
                                /\ Merge(r) => owner[Cmd(r, i).dst] = Cmd(r, i).dstHost
    /\ Last(r) /\ reqs[r].state \in {"mapped", "releasing", "committed"} =>
         \A i \in Commands(r) : owner[Cmd(r, i).src] # Cmd(r, i).srcHost
    /\ reqs[r].state \in {"acked", "mapped", "releasing", "committed"} =>
         /\ 1 \in Commands(r)
         /\ ~Merge(r) => \A i \in Commands(r) : At(r, i, "done")

(* What a message of the coordinator says about its request.  A rename     *)
(* that is still to come finds the survivor running.                       *)
Posted(n) ==
    /\ n.req \in Requests /\ n.host \in Hosts
    /\ n.kind = "abort" => reqs[n.req].state = "rolledback"
    /\ n.kind = "commit" => reqs[n.req].state = "committed"
    /\ n.kind = "release" =>
         /\ Last(n.req) /\ reqs[n.req].state \in {"releasing", "committed"}
         /\ \E i \in Commands(n.req) : /\ n.cell = Cmd(n.req, i).src
                                       /\ n.host = Cmd(n.req, i).srcHost
    /\ n.kind = "rename" =>
         /\ Last(n.req) /\ reqs[n.req].state \in {"mapped", "releasing", "committed"}
         /\ Merge(n.req) /\ 1 \in Commands(n.req)
         /\ n.cell = Cmd(n.req, 1).dst /\ n.host = Cmd(n.req, 1).dstHost
         /\ owner[Parent] = n.host /\ owner[n.cell] # n.host /\ Up(n.host, n.cell)

(* A pending record of a request that is not committed is for a cell that  *)
(* the map does not give to that host.                                     *)
Noted(x) ==
    /\ x[1] \in Hosts /\ x[2] \in Requests /\ x[3] \in Cells
    /\ ~Merge(x[2])
    /\ reqs[x[2]].state \in {"inflight", "rolledback"} =>
         /\ owner[x[3]] # x[1]
         /\ reqs[x[2]].state = "inflight" => Up(x[1], x[3])
         /\ \E i \in Commands(x[2]) :
              /\ x[1] = Cmd(x[2], i).dstHost /\ x[3] = Cmd(x[2], i).dst
              /\ reqs[x[2]].cmds[i].pc \in {"created", "undo", "done"}

(* A Ready is sent by a goroutine that has nothing left to do but the      *)
(* undo, an ok Ready by the one that carried the command out.              *)
Said(m) ==
    /\ m.req \in Requests /\ m.cmd \in Commands(m.req)
    /\ At(m.req, m.cmd, "done") \/ At(m.req, m.cmd, "undo")
    /\ m.ok => /\ m.host = Cmd(m.req, m.cmd).dstHost
               /\ m.dst = Cmd(m.req, m.cmd).dst
               /\ At(m.req, m.cmd, "done")

(* An ok Ready for the command is on its way.                              *)
OkSaid(r, i) == \E m \in ready : m.ok /\ m.req = r /\ m.cmd = i

(* The command has failed, so its request can never commit.                *)
Failed(r, j) ==
    /\ reqs[r].cmds[j].pc \in {"undo", "done"}
    /\ j \notin reqs[r].acked /\ ~OkSaid(r, j)

(* A split or a migrate that counts a destination as ready finds it        *)
(* running, unless another command of the request has failed; when all are *)
(* acked every destination runs.                                           *)
Populated(r) ==
    ~Merge(r) =>
      /\ reqs[r].state = "inflight" =>
           \A i \in Commands(r) : i \in reqs[r].acked \/ OkSaid(r, i) =>
             /\ At(r, i, "done")
             /\ \/ Up(Cmd(r, i).dstHost, Cmd(r, i).dst)
                \/ \E j \in Commands(r) : Failed(r, j)
      /\ reqs[r].state = "acked" =>
           \A i \in Commands(r) : Up(Cmd(r, i).dstHost, Cmd(r, i).dst)

(* What only holds when nothing times out and only migrates fail: a split  *)
(* and a merge commit, a failed migrate leaves nothing behind, and a       *)
(* commit step waits for the messages of the step before.                  *)
Orderly(r) ==
    Mild =>
      /\ reqs[r].kind # "migrate" =>
           /\ reqs[r].state # "rolledback"
           /\ reqs[r].state = "inflight" =>
                /\ \A m \in ready : m.req = r => m.ok
                /\ \A i \in Commands(r) : ~At(r, i, "undo")
      /\ reqs[r].state = "inflight" /\ ~Merge(r) =>
           \A i \in Commands(r) : At(r, i, "created") =>
             <<Cmd(r, i).dstHost, r, Cmd(r, i).dst>> \in book.pending
      /\ reqs[r].kind = "migrate" =>
           /\ ~At(r, 1, "undo")
           /\ reqs[r].state = "rolledback" \/ (\E m \in ready : m.req = r /\ ~m.ok) =>
                At(r, 1, "done") /\ \A x \in book.pending : x[2] # r
      /\ \A n \in notices : n.req = r =>
           /\ n.kind = "rename" => reqs[r].state = "mapped"
           /\ n.kind = "release" => reqs[r].state = "releasing"

(* The inductive invariant.                                                *)
CInv ==
    /\ \A r \in Requests : /\ Built(r) /\ Owned(r) /\ Populated(r) /\ Orderly(r)
                           /\ r < Len(reqs) => Gone(r)
    /\ \A n \in notices : Posted(n)
    /\ \A x \in book.pending : Noted(x)
    /\ \A m \in ready : Said(m)
    /\ OwnerServes

-----------------------------------------------------------------------------

(* A leaf that names no prover is for Zenon; those that need arithmetic or *)
(* sequences name SMT.                                                     *)
(* A fact that serves one part of the protocol only is a step of the lemma *)
(* about that part, and USE of that step's name brings in what it assumes. *)
USE ZenonT(30)

(* What an edit of one command, or of one request, does to the table.      *)

(* A step of command i of request r leaves it as v.                        *)
Edited(r, i, v) ==
    /\ reqs' \in Seq(RequestT) /\ Len(reqs') = Len(reqs)
    /\ \A s \in Requests :
         /\ reqs'[s].kind = reqs[s].kind /\ reqs'[s].state = reqs[s].state
         /\ reqs'[s].acked = reqs[s].acked /\ reqs'[s].okHosts = reqs[s].okHosts
         /\ Len(reqs'[s].cmds) = Len(reqs[s].cmds)
    /\ \A s \in Requests : \A j \in Commands(s) :
         reqs'[s].cmds[j] = IF s = r /\ j = i THEN v ELSE reqs[s].cmds[j]

(* An edit of one place of a sequence leaves the length and the others.    *)
LEMMA SeqExcept ==
    ASSUME NEW S, NEW s \in Seq(S), NEW i \in 1..Len(s), NEW e \in S
    PROVE  /\ [s EXCEPT ![i] = e] \in Seq(S)
           /\ Len([s EXCEPT ![i] = e]) = Len(s)
           /\ \A j \in 1..Len(s) : [s EXCEPT ![i] = e][j] = IF j = i THEN e ELSE s[j]
<1> DEFINE t == [s EXCEPT ![i] = e]
<1>1. Len(s) \in Nat /\ s \in [1..Len(s) -> S]
  BY SMTT(30)
<1>2. t \in [1..Len(s) -> S]
  BY <1>1
<1>3. t \in Seq(S) /\ Len(t) = Len(s)
  BY <1>1, <1>2, SMTT(30)
<1>4. \A j \in 1..Len(s) : t[j] = IF j = i THEN e ELSE s[j]
  BY <1>1
<1> QED BY <1>3, <1>4

(* The parts of the requests and of their commands have their types.       *)
LEMMA Elements ==
    ASSUME reqs \in Seq(RequestT), NEW r \in Requests
    PROVE  /\ reqs[r] \in RequestT /\ reqs[r].cmds \in Seq(CommandT)
           /\ reqs[r] = [kind |-> reqs[r].kind, cmds |-> reqs[r].cmds,
                         acked |-> reqs[r].acked, okHosts |-> reqs[r].okHosts,
                         state |-> reqs[r].state]
           /\ \A i \in Commands(r) : Cmd(r, i) \in CommandT
<1>1. reqs[r] \in RequestT
  BY SMTT(30) DEF Requests
<1>2. reqs[r].cmds \in Seq(CommandT)
  BY <1>1 DEF RequestT
<1>3. \A i \in Commands(r) : Cmd(r, i) \in CommandT
  BY <1>2, SMTT(30) DEF Commands, Cmd
<1>4. reqs[r] = [kind |-> reqs[r].kind, cmds |-> reqs[r].cmds,
                 acked |-> reqs[r].acked, okHosts |-> reqs[r].okHosts,
                 state |-> reqs[r].state]
  BY <1>1 DEF RequestT
<1> QED BY <1>1, <1>2, <1>3, <1>4

(* A step of Execute or Receive edits one command of one request.          *)
LEMMA EditCommand ==
    ASSUME reqs \in Seq(RequestT), NEW r \in Requests, NEW i \in Commands(r),
           NEW v \in CommandT,
           reqs' = [reqs EXCEPT ![r] = [reqs[r] EXCEPT !.cmds = [reqs[r].cmds EXCEPT ![i] = v]]]
    PROVE  Edited(r, i, v)
<1> DEFINE q == reqs[r]
           c == [q.cmds EXCEPT ![i] = v]
           n == [q EXCEPT !.cmds = c]
<1>1. q \in RequestT /\ q.cmds \in Seq(CommandT)
  BY Elements
<1>2. /\ c \in Seq(CommandT) /\ Len(c) = Len(q.cmds)
      /\ \A j \in 1..Len(q.cmds) : c[j] = IF j = i THEN v ELSE q.cmds[j]
  BY <1>1, SeqExcept, i \in 1..Len(q.cmds), SMTT(30) DEF Commands
<1>3. n \in RequestT /\ n.kind = q.kind /\ n.state = q.state /\ n.acked = q.acked
      /\ n.okHosts = q.okHosts /\ n.cmds = c
  BY <1>1, <1>2 DEF RequestT
<1>4. reqs' = [reqs EXCEPT ![r] = n]
  BY DEF q
<1>5. /\ reqs' \in Seq(RequestT) /\ Len(reqs') = Len(reqs)
      /\ \A s \in Requests : reqs'[s] = IF s = r THEN n ELSE reqs[s]
  <2> HIDE DEF n
  <2> QED BY <1>3, <1>4, SeqExcept, SMTT(30) DEF Requests
<1> HIDE DEF n, c
<1> QED BY <1>2, <1>3, <1>5, SMTT(30) DEF Edited, Commands

(* So does a step that only moves the goroutine on.                        *)
LEMMA GotoEdits ==
    ASSUME reqs \in Seq(RequestT), NEW r \in Requests, NEW i \in Commands(r),
           NEW p \in Steps, Goto(r, i, p)
    PROVE  Edited(r, i, [Cmd(r, i) EXCEPT !.pc = p])
<1>1. reqs[r] \in RequestT /\ reqs[r].cmds \in Seq(CommandT)
  BY Elements
<1>2. Cmd(r, i) \in CommandT
  BY Elements
<1>3. [Cmd(r, i) EXCEPT !.pc = p] \in CommandT
  BY <1>2 DEF CommandT
<1>4. reqs' = [reqs EXCEPT ![r] =
                 [reqs[r] EXCEPT !.cmds =
                    [reqs[r].cmds EXCEPT ![i] = [Cmd(r, i) EXCEPT !.pc = p]]]]
  BY DEF Goto, Cmd
<1> QED BY <1>3, <1>4, EditCommand

(* So does the serialize job.                                              *)
LEMMA SerializeEdits ==
    ASSUME reqs \in Seq(RequestT), NEW r \in Requests, NEW i \in Commands(r),
           Serialized(r, i) \subseteq Entities,
           reqs' = [reqs EXCEPT ![r].cmds[i] =
                      [@ EXCEPT !.pc = "serialized", !.ents = Serialized(r, i)]]
    PROVE  Edited(r, i, [Cmd(r, i) EXCEPT !.pc = "serialized",
                                          !.ents = Serialized(r, i)])
<1> DEFINE v == [Cmd(r, i) EXCEPT !.pc = "serialized", !.ents = Serialized(r, i)]
<1>1. reqs[r] \in RequestT /\ reqs[r].cmds \in Seq(CommandT)
  BY Elements
<1>2. Cmd(r, i) \in CommandT
  BY Elements
<1>3. v \in CommandT
  BY <1>2 DEF CommandT, Steps
<1>4. reqs' = [reqs EXCEPT ![r] = [reqs[r] EXCEPT !.cmds = [reqs[r].cmds EXCEPT ![i] = v]]]
  BY DEF Cmd, v
<1> QED BY <1>3, <1>4, EditCommand

(* The coordinator edits request r, and keeps its commands.                *)
LEMMA EditRequest ==
    ASSUME reqs \in Seq(RequestT), NEW r \in Requests, NEW v \in RequestT,
           v.cmds = reqs[r].cmds, v.kind = reqs[r].kind,
           reqs' = [reqs EXCEPT ![r] = v]
    PROVE  /\ reqs' \in Seq(RequestT) /\ Len(reqs') = Len(reqs)
           /\ \A s \in Requests : reqs'[s] = IF s = r THEN v ELSE reqs[s]
           /\ \A s \in Requests : reqs'[s].kind = reqs[s].kind
                                  /\ reqs'[s].cmds = reqs[s].cmds
<1>1. /\ reqs' \in Seq(RequestT) /\ Len(reqs') = Len(reqs)
      /\ \A s \in Requests : reqs'[s] = IF s = r THEN v ELSE reqs[s]
  BY SeqExcept, SMTT(30) DEF Requests
<1> QED BY <1>1

-----------------------------------------------------------------------------

(* The steps of the goroutines, seen from the invariant.                   *)

(* Command i of request r has moved on to p, all else in the requests      *)
(* stays.                                                                  *)
Moved(r, i, p) ==
    /\ Len(reqs') = Len(reqs)
    /\ \A s \in Requests :
         /\ reqs'[s].kind = reqs[s].kind /\ reqs'[s].state = reqs[s].state
         /\ reqs'[s].acked = reqs[s].acked
         /\ Len(reqs'[s].cmds) = Len(reqs[s].cmds)
         /\ \A j \in Commands(s) :
              /\ reqs'[s].cmds[j].src = reqs[s].cmds[j].src
              /\ reqs'[s].cmds[j].srcHost = reqs[s].cmds[j].srcHost
              /\ reqs'[s].cmds[j].dst = reqs[s].cmds[j].dst
              /\ reqs'[s].cmds[j].dstHost = reqs[s].cmds[j].dstHost
              /\ reqs'[s].cmds[j].pc = IF s = r /\ j = i THEN p ELSE reqs[s].cmds[j].pc

(* No cell goes up or down.                                                *)
SameUp == \A h \in Hosts, c \in Cells : inst'[h][c].up = inst[h][c].up

(* The four ways a goroutine goes on without a cell going up or down: it   *)
(* only advances, it reports a failure, or it reports success.             *)
Quietly(r, i, p) ==
    /\ Moved(r, i, p) /\ SameUp
    /\ owner' = owner /\ notices' = notices /\ book'.pending = book.pending

Advances(r, i, p) ==
    /\ Quietly(r, i, p) /\ ready' = ready
    /\ \/ /\ p \in {"serialized", "registered", "shipped"}
          /\ reqs[r].cmds[i].pc \in {"sent", "serialized", "registered"}
       \/ p = "created" /\ Merge(r) /\ At(r, i, "shipped")

Complains(r, i, p, h) ==
    /\ Quietly(r, i, p) /\ p \in {"undo", "done"} /\ ~At(r, i, "done")
    /\ h \in Hosts
    /\ ready' = ready \union {ReadyMsg(r, i, h, FALSE)}

Confirms(r, i) ==
    /\ Quietly(r, i, "done") /\ reqs[r].cmds[i].pc \in {"shipped", "created"}
    /\ ready' = ready \union {ReadyMsg(r, i, Cmd(r, i).dstHost, TRUE)}

(* An edit that sets pc moves the command.                                 *)
LEMMA EditMoves ==
    ASSUME NEW r \in Requests, NEW i \in Commands(r), NEW v, Edited(r, i, v),
           v.src = Cmd(r, i).src, v.srcHost = Cmd(r, i).srcHost,
           v.dst = Cmd(r, i).dst, v.dstHost = Cmd(r, i).dstHost
    PROVE  Moved(r, i, v.pc)
BY DEF Edited, Moved, Cmd

(* Goto moves the command.                                                 *)
LEMMA GotoMoves ==
    ASSUME TInv, NEW r \in Requests, NEW i \in Commands(r),
           NEW p \in Steps, Goto(r, i, p)
    PROVE  Moved(r, i, p) /\ Edited(r, i, [Cmd(r, i) EXCEPT !.pc = p])
<1> DEFINE v == [Cmd(r, i) EXCEPT !.pc = p]
<1>1. Cmd(r, i) \in CommandT
  BY Elements DEF TInv
<1>2. Edited(r, i, v)
  BY GotoEdits DEF TInv
<1>3. /\ v.src = Cmd(r, i).src /\ v.srcHost = Cmd(r, i).srcHost
      /\ v.dst = Cmd(r, i).dst /\ v.dstHost = Cmd(r, i).dstHost /\ v.pc = p
  BY <1>1 DEF CommandT
<1> HIDE DEF v
<1>4. Moved(r, i, p)
  BY <1>2, <1>3, EditMoves
<1> QED BY <1>2, <1>4 DEF v

(* What TInv says of the requests, kept by every step of a command.        *)
LEMMA EditTyped ==
    ASSUME TInv, NEW r \in Requests, NEW i \in Commands(r), NEW v, Edited(r, i, v),
           v.dstHost = Cmd(r, i).dstHost
    PROVE  /\ reqs' \in Seq(RequestT) /\ Requests' = Requests
           /\ \A s \in Requests : Commands(s)' = Commands(s)
           /\ \A s \in Requests : /\ reqs'[s].acked \subseteq Commands(s)'
                                  /\ reqs'[s].okHosts \subseteq Destinations(s)'
<1>1. reqs' \in Seq(RequestT) /\ Requests' = Requests
  BY DEF Edited, Requests
<1>2. \A s \in Requests : Commands(s)' = Commands(s)
  BY DEF Edited, Commands
<1>3. \A s \in Requests : \A j \in Commands(s) :
        Cmd(s, j)'.dstHost = Cmd(s, j).dstHost
  BY DEF Edited, Cmd
<1>4. \A s \in Requests : Destinations(s)' = Destinations(s)
  BY <1>2, <1>3 DEF Destinations
<1> QED BY <1>1, <1>2, <1>4 DEF TInv, Edited

(* The rest of TInv, given what the step writes.                           *)
LEMMA CommandTyped ==
    ASSUME TInv, NEW r \in Requests, NEW i \in Commands(r), NEW v, Edited(r, i, v),
           v.dstHost = Cmd(r, i).dstHost,
           owner' = owner, quad' = quad, notices' = notices,
           inst' \in [Hosts -> [Cells -> InstT]],
           book' \in BookT,
           \A x \in book'.src \union book'.pending \union book'.survivor :
             \/ x \in book.src \union book.pending \union book.survivor
             \/ x[2] = r,
           \/ ready' = ready
           \/ \E h \in Hosts, ok \in BOOLEAN : ready' = ready \union {ReadyMsg(r, i, h, ok)}
    PROVE  TInv'
<1>1. /\ reqs' \in Seq(RequestT) /\ Requests' = Requests
      /\ \A s \in Requests : Commands(s)' = Commands(s)
      /\ \A s \in Requests : /\ reqs'[s].acked \subseteq Commands(s)'
                             /\ reqs'[s].okHosts \subseteq Destinations(s)'
  BY EditTyped
<1>2. \A x \in book'.src \union book'.pending \union book'.survivor : x[2] \in Requests'
  BY <1>1 DEF TInv
<1>3. r \in Nat /\ i \in Nat /\ Cmd(r, i).dst \in Cells
  <2>1. Cmd(r, i) \in CommandT
    BY Elements DEF TInv
  <2> QED BY <2>1, Elements, SMTT(30) DEF TInv, Requests, Commands, CommandT
<1>4. \A h \in Hosts, ok \in BOOLEAN :
        /\ ReadyMsg(r, i, h, ok) \in MsgT
        /\ ReadyMsg(r, i, h, ok).req = r /\ ReadyMsg(r, i, h, ok).cmd = i
  BY <1>3 DEF ReadyMsg, MsgT
<1>5. ready' \in SUBSET MsgT /\ \A m \in ready' : m.req \in Requests' /\ m.cmd \in Commands(m.req)'
  BY <1>1, <1>4 DEF TInv
<1>6. notices' \in SUBSET NoticeT /\ \A n \in notices' : n.req \in Requests'
  BY <1>1 DEF TInv
<1>7. owner' \in [Cells -> Hosts \union {NoHost}] /\ quad' \in [Entities -> 1..Len(Children)]
  BY DEF TInv
<1> QED BY <1>1, <1>2, <1>5, <1>6, <1>7 DEF TInv

(* A step that writes one instance keeps the type of all.                  *)
LEMMA OneInst ==
    ASSUME TInv, NEW h \in Hosts, NEW c \in Cells, NEW v \in InstT,
           inst' = [inst EXCEPT ![h][c] = v]
    PROVE  /\ inst' \in [Hosts -> [Cells -> InstT]]
           /\ \A g \in Hosts, d \in Cells :
                inst'[g][d] = IF g = h /\ d = c THEN v ELSE inst[g][d]
BY DEF TInv

(* The fields of a command have their types.                               *)
LEMMA CommandFields ==
    ASSUME TInv, NEW r \in Requests, NEW i \in Commands(r)
    PROVE  /\ Cmd(r, i).src \in Cells /\ Cmd(r, i).srcHost \in Hosts
           /\ Cmd(r, i).dst \in Cells /\ Cmd(r, i).dstHost \in Hosts
           /\ Cmd(r, i).ents \subseteq Entities /\ Cmd(r, i).pc \in Steps
           /\ r \in Nat /\ i \in Nat
           /\ \A p : [Cmd(r, i) EXCEPT !.pc = p].dstHost = Cmd(r, i).dstHost
           /\ reqs[r].kind \in Kinds
<1>1. Cmd(r, i) \in CommandT /\ reqs[r] \in RequestT
  BY Elements DEF TInv
<1>2. r \in Nat /\ i \in Nat
  BY Elements, SMTT(30) DEF TInv, Requests, Commands
<1> QED BY <1>1, <1>2 DEF CommandT, RequestT

(* A record that an executor adds has its type.                            *)
LEMMA Recorded ==
    ASSUME TInv, NEW h \in Hosts, NEW r \in Requests, NEW c \in Cells
    PROVE  /\ <<h, r, c>> \in Record /\ <<h, r, c>>[2] = r
           /\ \A S \in SUBSET Record :
                /\ [book EXCEPT !.src = S] \in BookT
                /\ [book EXCEPT !.pending = S] \in BookT
                /\ [book EXCEPT !.survivor = S] \in BookT
           /\ book.src \in SUBSET Record /\ book.pending \in SUBSET Record
           /\ book.survivor \in SUBSET Record
<1>1. r \in Nat
  BY SMTT(30) DEF TInv, Requests
<1>2. <<h, r, c>> \in Record /\ <<h, r, c>>[2] = r
  BY <1>1 DEF Record
<1> QED BY <1>2 DEF TInv, BookT

(* The serialize job advances its command and keeps the types.             *)
LEMMA SerializeStep ==
    ASSUME TInv, NEW r \in Requests, NEW i \in Commands(r), Serialize(r, i)
    PROVE  TInv' /\ Advances(r, i, "serialized")
<1> DEFINE h == Cmd(r, i).srcHost
           c == Cmd(r, i).src
           v == [Cmd(r, i) EXCEPT !.pc = "serialized", !.ents = Serialized(r, i)]
<1>1. h \in Hosts /\ c \in Cells
  BY CommandFields
<1>2. inst[h][c] \in InstT
  BY <1>1 DEF TInv
<1>3. Serialized(r, i) \subseteq Entities
  BY <1>1, <1>2 DEF Serialized, InstT
<1>4. Edited(r, i, v)
  BY <1>3, SerializeEdits DEF TInv, Serialize
<1>5. /\ v.src = Cmd(r, i).src /\ v.srcHost = Cmd(r, i).srcHost
      /\ v.dst = Cmd(r, i).dst /\ v.dstHost = Cmd(r, i).dstHost /\ v.pc = "serialized"
  BY Elements, SMTT(30) DEF TInv, CommandT
<1> HIDE DEF v
<1>6. Moved(r, i, "serialized")
  BY <1>4, <1>5, EditMoves
<1>7. inst' \in [Hosts -> [Cells -> InstT]] /\ SameUp
  <2>1. inst' = [inst EXCEPT ![h][c].suspended = TRUE,
                             ![h][c].frozen = @ \/ reqs[r].kind = "merge"]
    BY DEF Serialize
  <2>2. inst \in [Hosts -> [Cells -> InstT]]
    BY DEF TInv
  <2> HIDE DEF h, c
  <2> QED BY <1>1, <1>2, <2>1, <2>2 DEF InstT, SameUp
<1>8. TInv'
  BY <1>4, <1>5, <1>7, CommandTyped DEF Serialize, TInv
<1> QED BY <1>6, <1>7, <1>8 DEF Serialize, Advances, Quietly, At

(* An import into a survivor takes no cell up or down.                     *)
LEMMA ImportStep ==
    ASSUME TInv, NEW r \in Requests, NEW i \in Commands(r),
           NEW some \in SUBSET Cmd(r, i).ents, Import(r, i, some)
    PROVE  /\ inst' \in [Hosts -> [Cells -> InstT]] /\ SameUp
           /\ book' \in BookT /\ book'.pending = book.pending
           /\ book'.src = book.src /\ book'.survivor = book.survivor
<1> DEFINE h == Cmd(r, i).dstHost
           c == Cmd(r, i).dst
           v == [inst[h][c] EXCEPT !.frozen = TRUE, !.live = inst[h][c].live \union some]
           S == book.imported \union {<<h, r, e>> : e \in some \ inst[h][c].live}
<1>1. h \in Hosts /\ c \in Cells /\ r \in Nat /\ some \subseteq Entities
  BY CommandFields
<1>2. inst' \in [Hosts -> [Cells -> InstT]] /\ SameUp
  <2>1. inst[h][c] \in InstT /\ inst \in [Hosts -> [Cells -> InstT]]
    BY <1>1 DEF TInv
  <2>2. inst' = [inst EXCEPT ![h][c].frozen = TRUE, ![h][c].live = @ \union some]
    BY DEF Import
  <2> HIDE DEF h, c
  <2> QED BY <1>1, <2>1, <2>2 DEF InstT, SameUp
<1>3. S \in SUBSET (Hosts \X Nat \X (Entities \union Cells))
  BY <1>1, SMTT(30) DEF TInv, BookT
<1>4. book' = [book EXCEPT !.imported = S]
  BY DEF Import
<1>5. /\ book' \in BookT /\ book'.pending = book.pending
      /\ book'.src = book.src /\ book'.survivor = book.survivor
  <2> HIDE DEF S
  <2> QED BY <1>3, <1>4 DEF TInv, BookT
<1> QED BY <1>2, <1>5

(* The two steps that change which cells run.                              *)
LEMMA CreateStep ==
    ASSUME TInv, NEW r \in Requests, NEW i \in Commands(r), ReceiveCreates(r, i)
    PROVE  /\ TInv' /\ Moved(r, i, "created")
           /\ owner' = owner /\ notices' = notices /\ ready' = ready
           /\ At(r, i, "shipped") /\ ~Merge(r) /\ ~Up(Cmd(r, i).dstHost, Cmd(r, i).dst)
           /\ book'.pending =
                book.pending \union {<<Cmd(r, i).dstHost, r, Cmd(r, i).dst>>}
           /\ \A h \in Hosts, c \in Cells :
                inst'[h][c].up <=> \/ inst[h][c].up
                                   \/ h = Cmd(r, i).dstHost /\ c = Cmd(r, i).dst
<1> DEFINE h == Cmd(r, i).dstHost
           c == Cmd(r, i).dst
           x == <<h, r, c>>
           S == book.pending \union {x}
<1>1. h \in Hosts /\ c \in Cells
  BY CommandFields
<1>2. /\ Moved(r, i, "created") /\ Edited(r, i, [Cmd(r, i) EXCEPT !.pc = "created"])
  BY GotoMoves DEF ReceiveCreates, Steps
<1>3. Fresh \in InstT /\ Fresh.up = TRUE
  BY DEF Fresh, Down, InstT
<1>4. /\ inst' \in [Hosts -> [Cells -> InstT]]
      /\ \A g \in Hosts, d \in Cells :
           inst'[g][d] = IF g = h /\ d = c THEN Fresh ELSE inst[g][d]
  BY <1>1, <1>3, OneInst, ZenonT(60) DEF ReceiveCreates
<1>5. x \in Record /\ x[2] = r /\ book.pending \in SUBSET Record
  BY <1>1, Recorded
<1>6. book' = [book EXCEPT !.pending = S]
  BY DEF ReceiveCreates
<1> HIDE DEF x
<1>7. /\ book' \in BookT /\ book'.pending = S
      /\ book'.src = book.src /\ book'.survivor = book.survivor
  <2>1. S \in SUBSET Record
    BY <1>5
  <2> HIDE DEF S
  <2> QED BY <2>1, <1>6 DEF TInv, BookT
<1>8. TInv'
  <2>1. /\ owner' = owner /\ quad' = quad /\ notices' = notices /\ ready' = ready
        /\ inst' \in [Hosts -> [Cells -> InstT]]
    BY <1>4 DEF ReceiveCreates
  <2>2. \A y \in book'.src \union book'.pending \union book'.survivor :
          y \in book.src \union book.pending \union book.survivor \/ y[2] = r
    BY <1>5, <1>7
  <2> QED BY <1>2, <1>7, <2>1, <2>2, CommandTyped, CommandFields
<1>9. \A g \in Hosts, d \in Cells : inst[g][d].up \in BOOLEAN
  BY DEF TInv, InstT
<1> QED BY <1>1, <1>2, <1>3, <1>4, <1>7, <1>8, <1>9 DEF ReceiveCreates, Merge, Up, x

(* teardownPending takes down what the host created for the request.       *)
LEMMA TeardownStep ==
    ASSUME TInv, NEW r \in Requests, NEW i \in Commands(r), PopulateFails(r, i)
    PROVE  /\ TInv' /\ Moved(r, i, AfterError(r, i))
           /\ owner' = owner /\ notices' = notices
           /\ ready' = ready \union {ReadyMsg(r, i, Cmd(r, i).dstHost, FALSE)}
           /\ At(r, i, "created") /\ ~Merge(r)
           /\ book'.pending = {x \in book.pending : ~(x[1] = Cmd(r, i).dstHost /\ x[2] = r)}
           /\ \A h \in Hosts, c \in Cells :
                inst'[h][c].up <=> /\ inst[h][c].up
                                   /\ ~(h = Cmd(r, i).dstHost /\ <<h, r, c>> \in book.pending)
<1> DEFINE h == Cmd(r, i).dstHost
           S == {x \in book.pending : ~(x[1] = h /\ x[2] = r)}
<1>1. h \in Hosts
  BY CommandFields
<1>2. AfterError(r, i) \in {"undo", "done"}
  BY DEF AfterError
<1>3. /\ Moved(r, i, AfterError(r, i))
      /\ Edited(r, i, [Cmd(r, i) EXCEPT !.pc = AfterError(r, i)])
  BY <1>2, GotoMoves DEF PopulateFails, Steps
<1>4. inst' \in [Hosts -> [Cells -> InstT]]
  BY <1>1, ZenonT(60) DEF PopulateFails, TornDown, TInv, InstT, Down
<1>5. \A g \in Hosts, c \in Cells :
        inst'[g][c] = IF g = h /\ <<h, r, c>> \in book.pending THEN Down ELSE inst[g][c]
  <2> DEFINE f == [c \in Cells |-> IF c \in Pending(h, r) THEN Down ELSE inst[h][c]]
  <2>1. inst' = [inst EXCEPT ![h] = f] /\ inst \in [Hosts -> [Cells -> InstT]]
    BY DEF PopulateFails, TornDown, TInv
  <2>2. \A c \in Cells : f[c] = IF <<h, r, c>> \in book.pending THEN Down ELSE inst[h][c]
    BY DEF Pending
  <2> HIDE DEF f, h
  <2> QED BY <1>1, <2>1, <2>2
<1>6. Down.up = FALSE
  BY DEF Down
<1>7. book' = [book EXCEPT !.pending = S]
  BY DEF PopulateFails, WithoutRecords
<1>8. /\ book' \in BookT /\ book'.pending = S
      /\ book'.src = book.src /\ book'.survivor = book.survivor
  <2>1. S \in SUBSET Record
    BY DEF TInv, BookT
  <2> HIDE DEF S
  <2> QED BY <2>1, <1>7 DEF TInv, BookT
<1>9. ready' = ready \union {ReadyMsg(r, i, h, FALSE)}
  BY DEF PopulateFails, Report
<1>10. TInv'
  BY <1>1, <1>3, <1>4, <1>8, <1>9, CommandTyped, CommandFields DEF PopulateFails, TInv
<1>11. \A g \in Hosts, d \in Cells : inst[g][d].up \in BOOLEAN
  BY DEF TInv, InstT
<1> QED BY <1>3, <1>5, <1>6, <1>8, <1>9, <1>10, <1>11, ZenonT(60) DEF PopulateFails, Merge

-----------------------------------------------------------------------------

(* A step of a command keeps CInv, conjunct by conjunct.                   *)

(* A step of a goroutine touches neither the map nor the coordinator's     *)
(* messages.                                                               *)
Kept(r, i, p) == Moved(r, i, p) /\ owner' = owner /\ notices' = notices

(* Every request but the last is over.                                     *)
LEMMA EarlierGone ==
    ASSUME TInv, CInv, NEW r \in Requests, ~Last(r)
    PROVE  r < Len(reqs) /\ Gone(r)
<1>1. Len(reqs) \in Nat
  BY SMTT(30) DEF TInv
<1>2. r < Len(reqs)
  BY <1>1, SMTT(30) DEF Last, Requests
<1> QED BY <1>2 DEF CInv

(* A request that is still under way is the last one.                      *)
LEMMA StillLast ==
    ASSUME TInv, CInv, NEW r \in Requests,
           \/ reqs[r].state \notin {"committed", "rolledback"}
           \/ ~Merge(r) /\ \E i \in Commands(r) : ~At(r, i, "done")
    PROVE  Last(r)
BY EarlierGone DEF Gone

(* An unfinished command of a split or migrate belongs to a request that   *)
(* is not decided in its favour.                                           *)
LEMMA Unfinished ==
    ASSUME CInv, NEW r \in Requests, NEW i \in Commands(r), ~At(r, i, "done"), ~Merge(r)
    PROVE  reqs[r].state \notin {"acked", "mapped", "releasing", "committed"}
BY DEF CInv, Owned

(* In the mild case a host that is asked finds the cell it is asked about. *)
LEMMA SourceUp ==
    ASSUME TInv, CInv, NEW r \in Requests, NEW i \in Commands(r),
           reqs[r].state = "inflight"
    PROVE  /\ Up(Cmd(r, i).srcHost, Cmd(r, i).src)
           /\ Merge(r) => Up(Cmd(r, i).dstHost, Cmd(r, i).dst)
<1>1. Last(r)
  BY StillLast
<1>2. \A n \in notices : n.kind # "rename"
  BY <1>1 DEF CInv, Posted, Last
<1>3. /\ owner[Cmd(r, i).src] = Cmd(r, i).srcHost
      /\ Merge(r) => owner[Cmd(r, i).dst] = Cmd(r, i).dstHost
  BY DEF CInv, Owned
<1>4. /\ Cmd(r, i).src \in Cells /\ Cmd(r, i).srcHost \in Hosts
      /\ Cmd(r, i).dst \in Cells /\ Cmd(r, i).dstHost \in Hosts
  BY CommandFields
<1> QED BY <1>2, <1>3, <1>4, LayoutAssumption DEF CInv, OwnerServes, Up

(* Every step of the Execute and Receive goroutines keeps CInv.            *)
LEMMA WorkersKeep ==
    TInv /\ CInv =>
      \A r \in Requests : \A i \in Commands(r) : Execute(r, i) \/ Receive(r, i) => TInv' /\ CInv'
(* A failed serialize job reports a failure.                               *)
<1>SerializeFailsStep.
    ASSUME TInv, NEW r \in Requests, NEW i \in Commands(r), SerializeFails(r, i)
    PROVE  TInv' /\ Complains(r, i, "done", Cmd(r, i).srcHost)
  <2> USE <1>SerializeFailsStep
  <2> DEFINE h == Cmd(r, i).srcHost
             c == Cmd(r, i).src
  <2>1. h \in Hosts /\ c \in Cells
    BY CommandFields
  <2>2. /\ Moved(r, i, "done") /\ Edited(r, i, [Cmd(r, i) EXCEPT !.pc = "done"])
    BY GotoMoves DEF SerializeFails, Steps
  <2>3. inst' \in [Hosts -> [Cells -> InstT]] /\ SameUp
    <3> DEFINE v == [inst[h][c] EXCEPT
                       !.frozen = inst[h][c].frozen /\ reqs[r].kind # "merge"]
    <3>1. inst' = [inst EXCEPT ![h][c] = v]
      BY DEF SerializeFails
    <3>2. inst[h][c] \in InstT
      BY <2>1 DEF TInv
    <3>3. v \in InstT /\ v.up = inst[h][c].up
      BY <3>2 DEF InstT
    <3> HIDE DEF v
    <3> QED BY <2>1, <3>1, <3>3, OneInst DEF SameUp
  <2>4. ready' = ready \union {ReadyMsg(r, i, h, FALSE)}
    BY DEF SerializeFails, Report
  <2>5. TInv'
    BY <2>1, <2>2, <2>3, <2>4, CommandTyped, CommandFields DEF SerializeFails, TInv
  <2> QED BY <2>1, <2>2, <2>3, <2>4, <2>5 DEF SerializeFails, Complains, Quietly, At

(* Registering the source and shipping advance the command.                *)
<1>SourceSteps.
    ASSUME TInv, NEW r \in Requests, NEW i \in Commands(r)
    PROVE  /\ RegisterSource(r, i) => TInv' /\ Advances(r, i, "registered")
           /\ Ship(r, i) => TInv' /\ Advances(r, i, "shipped")
  <2> USE <1>SourceSteps
  <2>1. ASSUME RegisterSource(r, i) PROVE TInv' /\ Advances(r, i, "registered")
    <3>1. /\ Moved(r, i, "registered")
          /\ Edited(r, i, [Cmd(r, i) EXCEPT !.pc = "registered"])
      BY <2>1, GotoMoves DEF RegisterSource, Steps
    <3> DEFINE x == <<Cmd(r, i).srcHost, r, Cmd(r, i).src>>
               S == book.src \union {x}
    <3>2. x \in Record /\ x[2] = r /\ book.src \in SUBSET Record
      BY CommandFields, Recorded
    <3> HIDE DEF x
    <3>3. S \in SUBSET Record /\ book' = [book EXCEPT !.src = S]
      BY <2>1, <3>2 DEF RegisterSource, x
    <3>4. /\ book' \in BookT /\ book'.pending = book.pending
          /\ book'.src = S /\ book'.survivor = book.survivor
      <4> HIDE DEF S
      <4> QED BY <3>3 DEF TInv, BookT
    <3>5. TInv'
      BY <2>1, <3>1, <3>2, <3>4, CommandTyped, CommandFields DEF RegisterSource, TInv
    <3> QED BY <2>1, <3>1, <3>4, <3>5 DEF RegisterSource, Advances, Quietly, At, SameUp
  <2>2. ASSUME Ship(r, i) PROVE TInv' /\ Advances(r, i, "shipped")
    <3>1. /\ Moved(r, i, "shipped")
          /\ Edited(r, i, [Cmd(r, i) EXCEPT !.pc = "shipped"])
      BY <2>2, GotoMoves DEF Ship, Steps
    <3>2. TInv'
      BY <2>2, <3>1, CommandTyped, CommandFields DEF Ship, TInv
    <3> QED BY <2>2, <3>1, <3>2 DEF Ship, Advances, Quietly, At, SameUp
  <2> QED BY <2>1, <2>2

(* The source-side undo reports a failure.                                 *)
<1>UndoStep.
    ASSUME TInv, NEW r \in Requests, NEW i \in Commands(r), ~At(r, i, "done"),
           UndoSource(r, i)
    PROVE  TInv' /\ Complains(r, i, "done", Cmd(r, i).srcHost)
  <2> USE <1>UndoStep
  <2> DEFINE h == Cmd(r, i).srcHost
             c == Cmd(r, i).src
  <2>1. h \in Hosts /\ c \in Cells
    BY CommandFields
  <2>2. /\ Moved(r, i, "done") /\ Edited(r, i, [Cmd(r, i) EXCEPT !.pc = "done"])
    BY GotoMoves DEF UndoSource, Steps
  <2>3. inst' \in [Hosts -> [Cells -> InstT]] /\ SameUp
    <3> DEFINE v == Resume(inst[h][c], reqs[r].kind = "merge")
    <3>1. inst' = [inst EXCEPT ![h][c] = v]
      BY DEF UndoSource, Resume
    <3>2. inst[h][c] \in InstT
      BY <2>1 DEF TInv
    <3>3. v \in InstT /\ v.up = inst[h][c].up
      BY <3>2 DEF Resume, InstT
    <3> HIDE DEF v
    <3> QED BY <2>1, <3>1, <3>3, OneInst DEF SameUp
  <2>4. /\ book' \in BookT /\ book'.pending = book.pending /\ book'.survivor = book.survivor
        /\ book'.src \subseteq book.src
    BY <2>1, CommandFields DEF UndoSource, TInv, BookT, Record
  <2>5. ready' = ready \union {ReadyMsg(r, i, h, FALSE)}
    BY DEF UndoSource, Report
  <2>6. TInv'
    BY <2>1, <2>2, <2>3, <2>4, <2>5, CommandTyped, CommandFields DEF UndoSource, TInv
  <2> QED BY <2>1, <2>2, <2>3, <2>4, <2>5, <2>6 DEF UndoSource, Complains, Quietly

(* Receive, on the destination host.                                       *)
<1>AckStep.
    ASSUME TInv, NEW r \in Requests, NEW i \in Commands(r), ReceiveAcks(r, i)
    PROVE  TInv' /\ Confirms(r, i) /\ Up(Cmd(r, i).dstHost, Cmd(r, i).dst)
  <2> USE <1>AckStep
  <2>1. /\ Moved(r, i, "done") /\ Edited(r, i, [Cmd(r, i) EXCEPT !.pc = "done"])
    BY GotoMoves DEF ReceiveAcks, Steps
  <2>2. ready' = ready \union {ReadyMsg(r, i, Cmd(r, i).dstHost, TRUE)}
    BY DEF ReceiveAcks, Report
  <2>3. TInv'
    BY <2>1, <2>2, CommandTyped, CommandFields DEF ReceiveAcks, TInv
  <2> QED BY <2>1, <2>2, <2>3 DEF ReceiveAcks, Confirms, Quietly, At, SameUp, Up

(* Populating the destination reports success.                             *)
<1>PopulateStep.
    ASSUME TInv, NEW r \in Requests, NEW i \in Commands(r), Populate(r, i)
    PROVE  TInv' /\ Confirms(r, i)
  <2> USE <1>PopulateStep
  <2> DEFINE h == Cmd(r, i).dstHost
             c == Cmd(r, i).dst
             v == [inst[h][c] EXCEPT !.live = inst[h][c].live \union Cmd(r, i).ents]
  <2>1. h \in Hosts /\ c \in Cells
    BY CommandFields
  <2>2. /\ Moved(r, i, "done") /\ Edited(r, i, [Cmd(r, i) EXCEPT !.pc = "done"])
    BY GotoMoves DEF Populate, Steps
  <2>3. inst' \in [Hosts -> [Cells -> InstT]] /\ SameUp
    <3>1. inst' = [inst EXCEPT ![h][c] = v]
      BY DEF Populate
    <3>2. inst[h][c] \in InstT
      BY <2>1 DEF TInv
    <3>3. v \in InstT /\ v.up = inst[h][c].up
      BY <3>2, CommandFields DEF InstT
    <3> HIDE DEF v
    <3> QED BY <2>1, <3>1, <3>3, OneInst DEF SameUp
  <2>4. ready' = ready \union {ReadyMsg(r, i, h, TRUE)}
    BY DEF Populate, Report
  <2>5. TInv'
    BY <2>1, <2>2, <2>3, <2>4, CommandTyped, CommandFields DEF Populate, TInv
  <2> QED BY <2>2, <2>3, <2>4, <2>5 DEF Populate, Confirms, Quietly, At

(* The steps of Receive for a merge, one by one.                           *)
<1>MergeSteps.
    ASSUME TInv, NEW r \in Requests, NEW i \in Commands(r)
    PROVE  /\ ReceiveMerge(r, i) => TInv' /\ Advances(r, i, "created")
           /\ ReceiveMergeGone(r, i) =>
                TInv' /\ Complains(r, i, AfterError(r, i), Cmd(r, i).dstHost)
           /\ MergePopulate(r, i) => TInv' /\ Confirms(r, i)
           /\ MergePopulateFails(r, i) =>
                TInv' /\ Complains(r, i, AfterError(r, i), Cmd(r, i).dstHost)
  <2> USE <1>MergeSteps
  <2>1. AfterError(r, i) \in {"undo", "done"}
    BY DEF AfterError
  <2>2. ASSUME ReceiveMerge(r, i) PROVE TInv' /\ Advances(r, i, "created")
    <3>1. /\ Moved(r, i, "created")
          /\ Edited(r, i, [Cmd(r, i) EXCEPT !.pc = "created"])
      BY <2>2, GotoMoves DEF ReceiveMerge, Steps
    <3> DEFINE x == <<Cmd(r, i).dstHost, r, Cmd(r, i).dst>>
               S == book.survivor \union {x}
    <3>2. x \in Record /\ x[2] = r /\ book.survivor \in SUBSET Record
      BY CommandFields, Recorded
    <3> HIDE DEF x
    <3>3. S \in SUBSET Record /\ book' = [book EXCEPT !.survivor = S]
      BY <2>2, <3>2 DEF ReceiveMerge, x
    <3>4. /\ book' \in BookT /\ book'.pending = book.pending
          /\ book'.src = book.src /\ book'.survivor = S
      <4> HIDE DEF S
      <4> QED BY <3>3 DEF TInv, BookT
    <3>5. TInv'
      BY <2>2, <3>1, <3>2, <3>4, CommandTyped, CommandFields DEF ReceiveMerge, TInv
    <3> QED BY <2>2, <3>1, <3>4, <3>5 DEF ReceiveMerge, Advances, Quietly, At, SameUp, Merge
  <2>3. ASSUME ReceiveMergeGone(r, i)
        PROVE  TInv' /\ Complains(r, i, AfterError(r, i), Cmd(r, i).dstHost)
    <3>1. /\ Moved(r, i, AfterError(r, i))
          /\ Edited(r, i, [Cmd(r, i) EXCEPT !.pc = AfterError(r, i)])
      BY <2>1, <2>3, GotoMoves DEF ReceiveMergeGone, Steps
    <3>2. ready' = ready \union {ReadyMsg(r, i, Cmd(r, i).dstHost, FALSE)}
      BY <2>3 DEF ReceiveMergeGone, Report
    <3>3. TInv'
      BY <2>3, <3>1, <3>2, CommandTyped, CommandFields DEF ReceiveMergeGone, TInv
    <3> QED BY <2>1, <2>3, <3>1, <3>2, <3>3, CommandFields DEF ReceiveMergeGone, Complains, Quietly, At, SameUp
  <2>4. ASSUME MergePopulate(r, i) PROVE TInv' /\ Confirms(r, i)
    <3>1. /\ Moved(r, i, "done") /\ Edited(r, i, [Cmd(r, i) EXCEPT !.pc = "done"])
      BY <2>4, GotoMoves DEF MergePopulate, Steps
    <3>2. ready' = ready \union {ReadyMsg(r, i, Cmd(r, i).dstHost, TRUE)}
      BY <2>4 DEF MergePopulate, Report
    <3>3. /\ inst' \in [Hosts -> [Cells -> InstT]] /\ SameUp
          /\ book' \in BookT /\ book'.pending = book.pending
          /\ book'.src = book.src /\ book'.survivor = book.survivor
      BY <2>4, ImportStep DEF MergePopulate
    <3>4. TInv'
      BY <2>4, <3>1, <3>2, <3>3, CommandTyped, CommandFields DEF MergePopulate, TInv
    <3> QED BY <2>4, <3>1, <3>2, <3>3, <3>4 DEF MergePopulate, Confirms, Quietly, At
  <2>5. ASSUME MergePopulateFails(r, i)
        PROVE  TInv' /\ Complains(r, i, AfterError(r, i), Cmd(r, i).dstHost)
    <3>1. /\ Moved(r, i, AfterError(r, i))
          /\ Edited(r, i, [Cmd(r, i) EXCEPT !.pc = AfterError(r, i)])
      BY <2>1, <2>5, GotoMoves DEF MergePopulateFails, Steps
    <3>2. ready' = ready \union {ReadyMsg(r, i, Cmd(r, i).dstHost, FALSE)}
      BY <2>5 DEF MergePopulateFails, Report
    <3>3. /\ inst' \in [Hosts -> [Cells -> InstT]] /\ SameUp
          /\ book' \in BookT /\ book'.pending = book.pending
          /\ book'.src = book.src /\ book'.survivor = book.survivor
      <4>1. CASE \E some \in SUBSET Cmd(r, i).ents : Import(r, i, some)
        BY <4>1, ImportStep
      <4>2. CASE UNCHANGED <<inst, book>>
        BY <4>2 DEF TInv, SameUp
      <4> QED BY <2>5, <4>1, <4>2 DEF MergePopulateFails
    <3>4. TInv'
      BY <2>5, <3>1, <3>2, <3>3, CommandTyped, CommandFields DEF MergePopulateFails, TInv
    <3> QED BY <2>1, <2>5, <3>1, <3>2, <3>3, <3>4, CommandFields DEF MergePopulateFails, Complains, Quietly, At
  <2> QED BY <2>2, <2>3, <2>4, <2>5

(* Each conjunct of CInv, over a step of a goroutine: what the commands    *)
(* are.                                                                    *)
<1>BuiltKept.
    ASSUME NEW r, NEW i, NEW p, Moved(r, i, p), NEW s \in Requests, Built(s)
    PROVE  Built(s)'
  <2> USE <1>BuiltKept
  <2>1. /\ reqs'[s].kind = reqs[s].kind /\ Commands(s)' = Commands(s)
        /\ Len(reqs'[s].cmds) = Len(reqs[s].cmds)
    BY DEF Moved, Commands
  <2>2. \A j \in Commands(s) :
          /\ Cmd(s, j)'.src = Cmd(s, j).src /\ Cmd(s, j)'.srcHost = Cmd(s, j).srcHost
          /\ Cmd(s, j)'.dst = Cmd(s, j).dst /\ Cmd(s, j)'.dstHost = Cmd(s, j).dstHost
    BY DEF Moved, Cmd
  <2>3. reqs[s].kind = "migrate" => 1 \in Commands(s)
    <3> SUFFICES ASSUME reqs[s].kind = "migrate" PROVE 1 \in 1..Len(reqs[s].cmds)
      BY DEF Commands
    <3>1. Len(reqs[s].cmds) = 1
      BY DEF Built
    <3>2. 1 \in 1..1
      BY SMTT(30)
    <3> QED BY <3>1, <3>2
  <2> QED BY <2>1, <2>2, <2>3, SMTT(30) DEF Built, Merge

(* Who owns the sources.                                                   *)
<1>OwnedKept.
    ASSUME NEW r \in Requests, NEW i \in Commands(r), NEW p, Kept(r, i, p),
           ~At(r, i, "done"), NEW s \in Requests, Owned(s)
    PROVE  Owned(s)'
  <2> USE <1>OwnedKept
  <2>1. /\ reqs'[s].kind = reqs[s].kind /\ Commands(s)' = Commands(s)
        /\ reqs'[s].state = reqs[s].state /\ (Last(s)' <=> Last(s)) /\ owner' = owner
    BY DEF Kept, Moved, Commands, Last
  <2>2. \A j \in Commands(s) :
          /\ Cmd(s, j)'.src = Cmd(s, j).src /\ Cmd(s, j)'.srcHost = Cmd(s, j).srcHost
          /\ Cmd(s, j)'.dst = Cmd(s, j).dst /\ Cmd(s, j)'.dstHost = Cmd(s, j).dstHost
          /\ At(s, j, "done") => At(s, j, "done")'
    BY DEF Kept, Moved, Cmd, At
  <2> QED BY <2>1, <2>2, SMTT(30) DEF Owned, Merge

(* What is over stays over.                                                *)
<1>GoneKept.
    ASSUME NEW r \in Requests, NEW i \in Commands(r), NEW p, Kept(r, i, p),
           ~At(r, i, "done"), NEW s \in Requests, Gone(s),
           \A x \in book'.pending : x \in book.pending \/ (x[2] = r /\ ~Merge(r))
    PROVE  Gone(s)'
  <2> USE <1>GoneKept
  <2>1. /\ reqs'[s].kind = reqs[s].kind /\ Commands(s)' = Commands(s)
        /\ reqs'[s].state = reqs[s].state /\ notices' = notices
    BY DEF Kept, Moved, Commands
  <2>2. \A j \in Commands(s) : At(s, j, "done") => At(s, j, "done")'
    BY DEF Kept, Moved, At
  <2>3. s = r => Merge(r)
    BY DEF Gone
  <2> QED BY <2>1, <2>2, <2>3 DEF Gone, Merge

(* The coordinator's messages.                                             *)
<1>PostedKept.
    ASSUME NEW r, NEW i, NEW p, Kept(r, i, p), NEW n \in notices, Posted(n),
           n.kind = "rename" => inst'[n.host][n.cell].up
    PROVE  Posted(n)'
  <2> USE <1>PostedKept
  <2> DEFINE s == n.req
  <2>1. s \in Requests /\ Requests' = Requests
    BY DEF Posted, Kept, Moved, Requests
  <2>2. /\ reqs'[s].kind = reqs[s].kind /\ Commands(s)' = Commands(s)
        /\ reqs'[s].state = reqs[s].state /\ owner' = owner /\ (Last(s)' <=> Last(s))
    BY <2>1 DEF Kept, Moved, Commands, Last
  <2>3. \A j \in Commands(s) :
          /\ Cmd(s, j)'.src = Cmd(s, j).src /\ Cmd(s, j)'.srcHost = Cmd(s, j).srcHost
          /\ Cmd(s, j)'.dst = Cmd(s, j).dst /\ Cmd(s, j)'.dstHost = Cmd(s, j).dstHost
    BY <2>1 DEF Kept, Moved, Cmd
  <2> QED BY <2>1, <2>2, <2>3, ZenonT(60) DEF Posted, Merge, Up

(* The pending records.                                                    *)
<1>NotedKept.
    ASSUME NEW r \in Requests, NEW i \in Commands(r), NEW p, Kept(r, i, p),
           NEW x, Noted(x),
           p \in {"undo", "done"} \/ ~(reqs[r].cmds[i].pc \in {"created", "undo", "done"}),
           reqs[x[2]].state = "inflight" /\ Up(x[1], x[3]) => inst'[x[1]][x[3]].up
    PROVE  Noted(x)'
  <2> USE <1>NotedKept
  <2> DEFINE s == x[2]
  <2>1. s \in Requests /\ Requests' = Requests
    BY DEF Noted, Kept, Moved, Requests
  <2>2. /\ reqs'[s].kind = reqs[s].kind /\ Commands(s)' = Commands(s)
        /\ reqs'[s].state = reqs[s].state /\ owner' = owner
    BY <2>1 DEF Kept, Moved, Commands
  <2>3. \A j \in Commands(s) :
          /\ Cmd(s, j)'.dst = Cmd(s, j).dst /\ Cmd(s, j)'.dstHost = Cmd(s, j).dstHost
          /\ reqs[s].cmds[j].pc \in {"created", "undo", "done"} =>
               reqs'[s].cmds[j].pc \in {"created", "undo", "done"}
    BY <2>1 DEF Kept, Moved, Cmd
  <2> QED BY <2>1, <2>2, <2>3, ZenonT(60) DEF Noted, Merge, Up

(* The Readys.                                                             *)
<1>SaidKept.
    ASSUME NEW r \in Requests, NEW i \in Commands(r), NEW p, Kept(r, i, p),
           ~At(r, i, "done"), NEW m, Said(m),
           At(r, i, "undo") => p \in {"undo", "done"}
    PROVE  Said(m)'
  <2> USE <1>SaidKept
  <2> DEFINE s == m.req
             j == m.cmd
  <2>1. s \in Requests /\ Requests' = Requests /\ j \in Commands(s)
    BY DEF Said, Kept, Moved, Requests
  <2>2. Commands(s)' = Commands(s)
    BY <2>1 DEF Kept, Moved, Commands
  <2>3. /\ Cmd(s, j)'.dst = Cmd(s, j).dst /\ Cmd(s, j)'.dstHost = Cmd(s, j).dstHost
        /\ At(s, j, "done") => At(s, j, "done")'
        /\ At(s, j, "undo") => At(s, j, "undo")' \/ At(s, j, "done")'
    BY <2>1 DEF Kept, Moved, Cmd, At
  <2> QED BY <2>1, <2>2, <2>3 DEF Said

(* What the running cells must keep for the acks to stay true: the         *)
(* destinations that were up stay up, or the step fails a command.         *)
<1>PopulatedKept.
    ASSUME NEW r \in Requests, NEW i \in Commands(r), NEW p, Kept(r, i, p),
           ~At(r, i, "done"), NEW s \in Requests, Populated(s),
           \A m \in ready : Said(m),
           \A j \in Commands(s) :
             /\ Up(Cmd(s, j).dstHost, Cmd(s, j).dst) =>
                  \/ inst'[Cmd(s, j).dstHost][Cmd(s, j).dst].up
                  \/ s = r /\ reqs[s].state = "inflight" /\ Failed(r, i)',
           ready \subseteq ready',
           \A m \in ready' \ ready :
             /\ m.req = r /\ m.cmd = i
             /\ m.ok => /\ p = "done" /\ ~At(r, i, "undo")
                        /\ reqs[r].state = "inflight" =>
                             Up(Cmd(r, i).dstHost, Cmd(r, i).dst),
           At(r, i, "undo") => p \in {"undo", "done"},
           s = r => reqs[s].state # "acked" \/ Merge(s)
    PROVE  Populated(s)'
  <2> USE <1>PopulatedKept
  <2>1. /\ reqs'[s].kind = reqs[s].kind /\ Commands(s)' = Commands(s)
        /\ reqs'[s].state = reqs[s].state /\ reqs'[s].acked = reqs[s].acked
    BY DEF Kept, Moved, Commands
  <2>2. \A j \in Commands(s) :
          /\ Cmd(s, j)'.dst = Cmd(s, j).dst /\ Cmd(s, j)'.dstHost = Cmd(s, j).dstHost
          /\ At(s, j, "done") => At(s, j, "done")'
          /\ At(s, j, "undo") => At(s, j, "undo")' \/ At(s, j, "done")'
          /\ s = r /\ j = i /\ p = "done" => At(s, j, "done")'
    BY DEF Kept, Moved, Cmd, At
  <2>3. SUFFICES ASSUME ~Merge(s) PROVE Populated(s)'
    BY <2>1 DEF Populated, Merge
  <2>4. ASSUME reqs[s].state = "acked", NEW j \in Commands(s)
        PROVE  inst'[Cmd(s, j).dstHost][Cmd(s, j).dst].up
    BY <2>3, <2>4 DEF Populated
  <2>5. ASSUME reqs[s].state = "inflight", NEW j \in Commands(s),
               j \in reqs[s].acked \/ OkSaid(s, j)'
        PROVE  /\ At(s, j, "done")'
               /\ \/ inst'[Cmd(s, j).dstHost][Cmd(s, j).dst].up
                  \/ \E k \in Commands(s) : Failed(s, k)'
    <3>1. CASE j \in reqs[s].acked \/ OkSaid(s, j)
      <4>1. /\ At(s, j, "done")
            /\ \/ Up(Cmd(s, j).dstHost, Cmd(s, j).dst)
               \/ \E k \in Commands(s) : Failed(s, k)
        BY <2>3, <2>5, <3>1 DEF Populated
      <4>2. CASE Up(Cmd(s, j).dstHost, Cmd(s, j).dst)
        BY <2>2, <4>1, <4>2
      <4>3. ASSUME NEW k \in Commands(s), Failed(s, k) PROVE Failed(s, k)'
        <5>1. ~OkSaid(s, k)'
          <6>1. ASSUME OkSaid(s, k)' PROVE FALSE
            <7>1. PICK m \in ready' : m.ok /\ m.req = s /\ m.cmd = k
              BY <6>1 DEF OkSaid
            <7>2. m \notin ready
              BY <4>3, <7>1 DEF Failed, OkSaid
            <7>3. s = r /\ k = i /\ ~At(s, k, "undo") /\ ~At(s, k, "done")
              BY <7>1, <7>2
            <7> QED BY <4>3, <7>3 DEF Failed, At
          <6> QED BY <6>1
        <5>2. reqs'[s].cmds[k].pc \in {"undo", "done"}
          BY <2>2, <4>3 DEF Failed, At
        <5> QED BY <2>1, <4>3, <5>1, <5>2 DEF Failed
      <4> QED BY <2>2, <4>1, <4>2, <4>3
    <3>2. CASE ~(j \in reqs[s].acked \/ OkSaid(s, j))
      <4>1. PICK m \in ready' : m.ok /\ m.req = s /\ m.cmd = j
        BY <2>5, <3>2 DEF OkSaid
      <4>2. m \notin ready
        BY <3>2, <4>1 DEF OkSaid
      <4>3. s = r /\ j = i /\ p = "done" /\ Up(Cmd(s, j).dstHost, Cmd(s, j).dst)
        BY <2>5, <4>1, <4>2
      <4> QED BY <2>2, <2>5, <4>3
    <3> QED BY <3>1, <3>2
  <2> QED BY <2>1, <2>2, <2>3, <2>4, <2>5 DEF Populated, Merge, Up

(* The orderly case.                                                       *)
<1>OrderlyKept.
    ASSUME NEW r \in Requests, NEW i \in Commands(r), NEW p, Kept(r, i, p),
           ~At(r, i, "done"), NEW s \in Requests, Built(s), Orderly(s),
           Mild /\ p = "undo" => reqs[r].kind # "migrate" /\ reqs[r].state # "inflight",
           p = "created" /\ ~Merge(r) =>
             <<Cmd(r, i).dstHost, r, Cmd(r, i).dst>> \in book'.pending,
           Mild /\ reqs[s].state = "inflight" /\ ~Merge(s) =>
             \A j \in Commands(s) :
                <<Cmd(s, j).dstHost, s, Cmd(s, j).dst>> \in book.pending =>
                  \/ s = r /\ j = i /\ p # "created"
                  \/ <<Cmd(s, j).dstHost, s, Cmd(s, j).dst>> \in book'.pending,
           \A m \in ready' \ ready :
             /\ m.req = r
             /\ Mild /\ ~m.ok =>
                  /\ reqs[r].state = "inflight" => reqs[r].kind = "migrate"
                  /\ reqs[r].kind = "migrate" =>
                       p = "done" /\ \A x \in book'.pending : x[2] # r,
           \A x \in book'.pending \ book.pending : x[2] = r
    PROVE  Orderly(s)'
  <2> USE <1>OrderlyKept
  <2>1. /\ reqs'[s].kind = reqs[s].kind /\ Commands(s)' = Commands(s)
        /\ reqs'[s].state = reqs[s].state /\ notices' = notices
    BY DEF Kept, Moved, Commands
  <2>2. \A j \in Commands(s) :
          /\ Cmd(s, j)'.dst = Cmd(s, j).dst /\ Cmd(s, j)'.dstHost = Cmd(s, j).dstHost
          /\ \A q : At(s, j, q)' <=> IF s = r /\ j = i THEN p = q ELSE At(s, j, q)
    BY DEF Kept, Moved, Cmd, At
  <2>3. SUFFICES ASSUME Mild PROVE Orderly(s)'
    BY DEF Orderly, Mild
  <2>4. ASSUME reqs[s].kind # "migrate"
        PROVE  /\ reqs[s].state # "rolledback"
               /\ reqs[s].state = "inflight" =>
                    /\ \A m \in ready' : m.req = s => m.ok
                    /\ \A j \in Commands(s) : ~At(s, j, "undo")'
    BY <2>2, <2>3, <2>4 DEF Orderly
  <2>5. ASSUME reqs[s].state = "inflight", ~Merge(s), NEW j \in Commands(s),
               At(s, j, "created")'
        PROVE  <<Cmd(s, j).dstHost, s, Cmd(s, j).dst>> \in book'.pending
    <3>1. CASE s = r /\ j = i
      BY <2>2, <2>5, <3>1
    <3>2. CASE ~(s = r /\ j = i)
      BY <2>2, <2>3, <2>5, <3>2 DEF Orderly
    <3> QED BY <3>1, <3>2
  <2>6. ASSUME reqs[s].kind = "migrate"
        PROVE  /\ ~At(s, 1, "undo")'
               /\ reqs[s].state = "rolledback" \/ (\E m \in ready' : m.req = s /\ ~m.ok) =>
                    At(s, 1, "done")' /\ \A x \in book'.pending : x[2] # s
    <3>1. Len(reqs[s].cmds) = 1
      BY <2>6 DEF Built
    <3>2. Commands(s) = {1}
      BY <3>1, SMTT(30) DEF Commands
    <3>3. ~At(s, 1, "undo")'
      BY <2>2, <2>3, <2>6, <3>2 DEF Orderly
    <3>4. ASSUME reqs[s].state = "rolledback" \/ (\E m \in ready : m.req = s /\ ~m.ok)
          PROVE  At(s, 1, "done")' /\ \A x \in book'.pending : x[2] # s
      <4>1. At(s, 1, "done") /\ \A x \in book.pending : x[2] # s
        BY <2>3, <2>6, <3>4 DEF Orderly
      <4>2. s # r
        BY <3>2, <4>1
      <4> QED BY <2>2, <3>2, <4>1, <4>2
    <3>5. ASSUME NEW m \in ready' \ ready, m.req = s /\ ~m.ok
          PROVE  At(s, 1, "done")' /\ \A x \in book'.pending : x[2] # s
      BY <2>2, <2>3, <2>6, <3>2, <3>5, ZenonT(60)
    <3> QED BY <3>3, <3>4, <3>5
  <2>7. \A n \in notices : n.req = s =>
          /\ n.kind = "rename" => reqs[s].state = "mapped"
          /\ n.kind = "release" => reqs[s].state = "releasing"
    BY <2>3 DEF Orderly
  <2> QED BY <2>1, <2>2, <2>4, <2>5, <2>6, <2>7 DEF Orderly, Merge

(* The owner map.                                                          *)
<1>ServesKept.
    ASSUME TInv, OwnerServes, owner' = owner, notices' = notices,
           \A c \in Cells : owner[c] # NoHost /\ Up(owner[c], c) => inst'[owner[c]][c].up,
           \A n \in notices : n.kind = "rename" /\ Up(n.host, n.cell)
                                => inst'[n.host][n.cell].up
    PROVE  OwnerServes'
  BY <1>ServesKept DEF OwnerServes, Up

(* CInv, from its conjuncts.                                               *)
<1>Together.
    ASSUME NEW r, NEW i, NEW p, Kept(r, i, p), OwnerServes',
           \A s \in Requests : /\ Built(s)' /\ Owned(s)' /\ Populated(s)' /\ Orderly(s)'
                               /\ s < Len(reqs) => Gone(s)',
           \A n \in notices : Posted(n)',
           \A x \in book'.pending : Noted(x)',
           \A m \in ready' : Said(m)'
    PROVE  CInv'
  <2> USE <1>Together
  <2>1. Requests' = Requests /\ Len(reqs') = Len(reqs) /\ notices' = notices
    BY DEF Kept, Moved, Requests
  <2> QED BY <2>1 DEF CInv

(* What the quiet steps have in common.                                    *)
<1>QuietCommon.
    ASSUME TInv, CInv, NEW r \in Requests, NEW i \in Commands(r), NEW p,
           Quietly(r, i, p), ~At(r, i, "done"),
           p \in {"undo", "done"} \/ reqs[r].cmds[i].pc \notin {"created", "undo", "done"}
    PROVE  /\ Kept(r, i, p) /\ OwnerServes'
           /\ \A s \in Requests : Built(s)' /\ Owned(s)' /\ (s < Len(reqs) => Gone(s)')
           /\ \A n \in notices : Posted(n)'
           /\ \A x \in book'.pending : Noted(x)'
           /\ \A m \in ready : Said(m)'
  <2> USE <1>QuietCommon
  <2>1. Kept(r, i, p) /\ SameUp /\ book'.pending = book.pending
    BY DEF Quietly, Kept
  <2>2. \A s \in Requests : Built(s)'
    BY <2>1, <1>BuiltKept DEF Kept, CInv
  <2>3. \A s \in Requests : Owned(s)'
    BY <2>1, <1>OwnedKept DEF CInv
  <2>4. \A s \in Requests : s < Len(reqs) => Gone(s)'
    <3> SUFFICES ASSUME NEW s \in Requests, s < Len(reqs) PROVE Gone(s)'
      OBVIOUS
    <3>1. Gone(s)
      BY DEF CInv
    <3>2. \A x \in book'.pending : x \in book.pending \/ (x[2] = r /\ ~Merge(r))
      BY <2>1
    <3> QED BY <2>1, <3>1, <3>2, <1>GoneKept
  <2>5. \A n \in notices : n.host \in Hosts /\ n.cell \in Cells
    BY DEF TInv, NoticeT
  <2>6. \A n \in notices : Posted(n)'
    BY <2>1, <2>5, <1>PostedKept DEF CInv, SameUp, Posted, Up
  <2>7. \A x \in book'.pending : Noted(x)'
    <3> SUFFICES ASSUME NEW x \in book.pending PROVE Noted(x)'
      BY <2>1
    <3>1. Noted(x) /\ x[1] \in Hosts /\ x[3] \in Cells
      BY DEF CInv, Noted
    <3> QED BY <2>1, <3>1, <1>NotedKept DEF SameUp, Up
  <2>8. \A m \in ready : Said(m)'
    <3> SUFFICES ASSUME NEW m \in ready PROVE Said(m)'
      OBVIOUS
    <3>1. Said(m)
      BY DEF CInv
    <3>2. At(r, i, "undo") => p \in {"undo", "done"}
      BY DEF At
    <3> QED BY <2>1, <3>1, <3>2, <1>SaidKept
  <2>9. OwnerServes'
    <3>1. \A c \in Cells : owner[c] # NoHost => owner[c] \in Hosts
      BY DEF TInv
    <3> QED BY <2>1, <2>5, <3>1, <1>ServesKept DEF CInv, SameUp, Up, Kept
  <2> QED BY <2>1, <2>2, <2>3, <2>4, <2>6, <2>7, <2>8, <2>9

(* A step that fails no command keeps the destinations populated.          *)
<1>QuietPopulated.
    ASSUME TInv, CInv, NEW r \in Requests, NEW i \in Commands(r), NEW p,
           Quietly(r, i, p), ~At(r, i, "done"),
           ready \subseteq ready',
           \A m \in ready' \ ready :
             /\ m.req = r /\ m.cmd = i
             /\ m.ok => /\ p = "done" /\ ~At(r, i, "undo")
                        /\ reqs[r].state = "inflight" =>
                             Up(Cmd(r, i).dstHost, Cmd(r, i).dst),
           At(r, i, "undo") => p \in {"undo", "done"},
           NEW s \in Requests
    PROVE  Populated(s)'
  <2> USE <1>QuietPopulated
  <2>1. Kept(r, i, p) /\ SameUp
    BY DEF Quietly, Kept
  <2>2. Populated(s) /\ \A m \in ready : Said(m)
    BY DEF CInv
  <2>3. \A j \in Commands(s) : Up(Cmd(s, j).dstHost, Cmd(s, j).dst) =>
          inst'[Cmd(s, j).dstHost][Cmd(s, j).dst].up
    BY <2>1, CommandFields, ZenonT(60) DEF SameUp, Up
  <2>4. s = r => reqs[s].state # "acked" \/ Merge(s)
    BY Unfinished
  <2> QED BY <2>1, <2>2, <2>3, <2>4, <1>PopulatedKept

(* A goroutine that only goes on keeps the invariant.                      *)
<1>AdvanceKeeps.
    ASSUME TInv, CInv, NEW r \in Requests, NEW i \in Commands(r), NEW p,
           Advances(r, i, p)
    PROVE  CInv'
  <2> USE <1>AdvanceKeeps
  <2>1. /\ Quietly(r, i, p) /\ ~At(r, i, "done") /\ ~At(r, i, "undo") /\ ready' = ready
        /\ reqs[r].cmds[i].pc \notin {"created", "undo", "done"}
        /\ p \in {"serialized", "registered", "shipped"} \/ (p = "created" /\ Merge(r))
    BY DEF Advances, At
  <2>2. /\ Kept(r, i, p) /\ OwnerServes'
        /\ \A s \in Requests : Built(s)' /\ Owned(s)' /\ (s < Len(reqs) => Gone(s)')
        /\ \A n \in notices : Posted(n)'
        /\ \A x \in book'.pending : Noted(x)'
        /\ \A m \in ready' : Said(m)'
    BY <2>1, <1>QuietCommon
  <2>3. \A s \in Requests : Populated(s)'
    BY <2>1, <1>QuietPopulated
  <2>4. \A s \in Requests : Orderly(s)'
    <3> SUFFICES ASSUME NEW s \in Requests PROVE Orderly(s)'
      OBVIOUS
    <3>1. Built(s) /\ Orderly(s) /\ book'.pending = book.pending
      BY <2>1 DEF CInv, Quietly
    <3> QED BY <2>1, <2>2, <3>1, <1>OrderlyKept
  <2> QED BY <2>2, <2>3, <2>4, <1>Together

(* A failed Ready keeps the invariant.                                     *)
<1>ComplainKeeps.
    ASSUME TInv, CInv, NEW r \in Requests, NEW i \in Commands(r), NEW p, NEW h,
           Complains(r, i, p, h),
           Mild => /\ reqs[r].state = "inflight" => reqs[r].kind = "migrate"
                   /\ reqs[r].kind = "migrate" =>
                        p = "done" /\ \A x \in book.pending : x[2] # r
    PROVE  CInv'
  <2> USE <1>ComplainKeeps
  <2> DEFINE msg == ReadyMsg(r, i, h, FALSE)
  <2>1. /\ Quietly(r, i, p) /\ ~At(r, i, "done") /\ p \in {"undo", "done"}
        /\ ready' = ready \union {msg} /\ book'.pending = book.pending
    BY DEF Complains, Quietly
  <2>2. msg.req = r /\ msg.cmd = i /\ ~msg.ok
    BY DEF ReadyMsg
  <2> HIDE DEF msg
  <2>3. /\ Kept(r, i, p) /\ OwnerServes'
        /\ \A s \in Requests : Built(s)' /\ Owned(s)' /\ (s < Len(reqs) => Gone(s)')
        /\ \A n \in notices : Posted(n)'
        /\ \A x \in book'.pending : Noted(x)'
        /\ \A m \in ready : Said(m)'
    BY <2>1, <1>QuietCommon
  <2>4. ASSUME NEW m, m = msg PROVE Said(m)'
    BY <2>1, <2>2, <2>3, <2>4 DEF Said, Kept, Moved, Requests, Commands, At
  <2>5. \A s \in Requests : Populated(s)'
    BY <2>1, <2>2, <1>QuietPopulated
  <2>6. \A s \in Requests : Orderly(s)'
    <3> SUFFICES ASSUME NEW s \in Requests PROVE Orderly(s)'
      OBVIOUS
    <3>1. Built(s) /\ Orderly(s)
      BY DEF CInv
    <3>2. Mild /\ p = "undo" => reqs[r].kind # "migrate" /\ reqs[r].state # "inflight"
      OBVIOUS
    <3> QED BY <2>1, <2>2, <2>3, <3>1, <3>2, <1>OrderlyKept, ZenonT(60)
  <2>7. \A m \in ready' : Said(m)'
    BY <2>1, <2>3, <2>4
  <2> QED BY <2>3, <2>5, <2>6, <2>7, <1>Together

(* An ok Ready keeps the invariant.                                        *)
<1>ConfirmKeeps.
    ASSUME TInv, CInv, NEW r \in Requests, NEW i \in Commands(r), Confirms(r, i),
           reqs[r].state = "inflight" => Up(Cmd(r, i).dstHost, Cmd(r, i).dst)
    PROVE  CInv'
  <2> USE <1>ConfirmKeeps
  <2> DEFINE msg == ReadyMsg(r, i, Cmd(r, i).dstHost, TRUE)
  <2>1. /\ Quietly(r, i, "done") /\ ~At(r, i, "done") /\ ~At(r, i, "undo")
        /\ ready' = ready \union {msg} /\ book'.pending = book.pending
    BY DEF Confirms, Quietly, At
  <2>2. /\ msg.req = r /\ msg.cmd = i /\ msg.ok
        /\ msg.host = Cmd(r, i).dstHost /\ msg.dst = Cmd(r, i).dst
    BY DEF ReadyMsg
  <2> HIDE DEF msg
  <2>3. /\ Kept(r, i, "done") /\ OwnerServes'
        /\ \A s \in Requests : Built(s)' /\ Owned(s)' /\ (s < Len(reqs) => Gone(s)')
        /\ \A n \in notices : Posted(n)'
        /\ \A x \in book'.pending : Noted(x)'
        /\ \A m \in ready : Said(m)'
    BY <2>1, <1>QuietCommon
  <2>4. ASSUME NEW m, m = msg PROVE Said(m)'
    BY <2>1, <2>2, <2>3, <2>4 DEF Said, Kept, Moved, Requests, Commands, At, Cmd
  <2>5. \A s \in Requests : Populated(s)'
    BY <2>1, <2>2, <1>QuietPopulated
  <2>6. \A s \in Requests : Orderly(s)'
    <3> SUFFICES ASSUME NEW s \in Requests PROVE Orderly(s)'
      OBVIOUS
    <3>1. Built(s) /\ Orderly(s)
      BY DEF CInv
    <3>2. \A m \in ready' \ ready :
            /\ m.req = r
            /\ Mild /\ ~m.ok =>
                 /\ reqs[r].state = "inflight" => reqs[r].kind = "migrate"
                 /\ reqs[r].kind = "migrate" => \A x \in book'.pending : x[2] # r
      BY <2>1, <2>2
    <3>3. \A x \in book'.pending \ book.pending : x[2] = r
      BY <2>1
    <3>4. Mild /\ reqs[s].state = "inflight" /\ ~Merge(s) =>
            \A j \in Commands(s) :
               <<Cmd(s, j).dstHost, s, Cmd(s, j).dst>> \in book.pending =>
                 <<Cmd(s, j).dstHost, s, Cmd(s, j).dst>> \in book'.pending
      BY <2>1
    <3>5. PICK p : p = "done"
      OBVIOUS
    <3>6. Kept(r, i, p) /\ ~At(r, i, "done") /\ p # "undo" /\ p # "created"
      BY <2>1, <2>3, <3>5
    <3> QED BY <3>1, <3>2, <3>3, <3>4, <3>5, <3>6, <1>OrderlyKept, ZenonT(120)
  <2>7. \A m \in ready' : Said(m)'
    BY <2>1, <2>3, <2>4
  <2> QED BY <2>3, <2>5, <2>6, <2>7, <1>Together

(* No cell that the owner map counts on is created anew.                   *)
<1>CreateKeeps.
    ASSUME TInv, CInv, NEW r \in Requests, NEW i \in Commands(r), ReceiveCreates(r, i)
    PROVE  CInv'
  <2> USE <1>CreateKeeps
  <2> DEFINE h == Cmd(r, i).dstHost
             c == Cmd(r, i).dst
             rec == <<h, r, c>>
  <2>1. /\ Moved(r, i, "created")
        /\ owner' = owner /\ notices' = notices /\ ready' = ready
        /\ At(r, i, "shipped") /\ ~Merge(r) /\ ~Up(h, c)
        /\ book'.pending = book.pending \union {rec}
        /\ \A g \in Hosts, d \in Cells :
             inst'[g][d].up <=> inst[g][d].up \/ (g = h /\ d = c)
    BY CreateStep
  <2>2. /\ h \in Hosts /\ c \in Cells /\ Kept(r, i, "created")
        /\ ~At(r, i, "done") /\ ~At(r, i, "undo")
        /\ reqs[r].cmds[i].pc \notin {"created", "undo", "done"}
    BY <2>1, CommandFields DEF Kept, At
  <2>3. /\ Last(r) /\ reqs[r].state \notin {"acked", "mapped", "releasing", "committed"}
    BY <2>1, <2>2, StillLast, Unfinished
  <2>4. \A n \in notices : n.kind # "rename"
    BY <2>1, <2>3 DEF CInv, Posted, Last
  <2>5. owner[c] # h
    BY <2>1, <2>2, <2>4, LayoutAssumption, ZenonT(60) DEF CInv, OwnerServes, Up
  <2>6. \A s \in Requests : Built(s)' /\ Owned(s)'
    <3>1. \A s \in Requests : Built(s)'
      BY <2>1, <1>BuiltKept DEF CInv
    <3> QED BY <2>2, <3>1, <1>OwnedKept DEF CInv
  <2>7. rec[2] = r /\ rec[1] = h /\ rec[3] = c
    OBVIOUS
  <2> HIDE DEF rec
  <2>8. \A s \in Requests : s < Len(reqs) => Gone(s)'
    <3> SUFFICES ASSUME NEW s \in Requests, s < Len(reqs) PROVE Gone(s)'
      OBVIOUS
    <3>1. Gone(s)
      BY DEF CInv
    <3>2. \A x \in book'.pending : x \in book.pending \/ (x[2] = r /\ ~Merge(r))
      BY <2>1, <2>7
    <3> QED BY <2>2, <3>1, <3>2, <1>GoneKept
  <2>9. \A n \in notices : Posted(n)'
    BY <2>2, <2>4, <1>PostedKept DEF CInv
  <2>10. \A x \in book'.pending : Noted(x)'
    <3>1. ASSUME NEW x \in book.pending PROVE Noted(x)'
      <4>1. Noted(x) /\ x[1] \in Hosts /\ x[3] \in Cells
        BY DEF CInv, Noted
      <4>2. Up(x[1], x[3]) => inst'[x[1]][x[3]].up
        BY <2>1, <4>1 DEF Up
      <4> QED BY <2>2, <4>1, <4>2, <1>NotedKept
    <3>2. ASSUME NEW x, x = rec PROVE Noted(x)'
      <4>1. reqs'[r].cmds[i].pc = "created" /\ inst'[h][c].up
        BY <2>1, <2>2 DEF Moved
      <4>2. /\ Cmd(r, i)'.dstHost = h /\ Cmd(r, i)'.dst = c /\ i \in Commands(r)'
            /\ r \in Requests' /\ reqs'[r].kind = reqs[r].kind
        BY <2>1 DEF Moved, Cmd, Commands, Requests
      <4> QED BY <2>1, <2>2, <2>5, <2>7, <3>2, <4>1, <4>2, ZenonT(60) DEF Noted, Merge, Up
    <3> QED BY <2>1, <3>1, <3>2
  <2>11. \A m \in ready' : Said(m)'
    BY <2>1, <2>2, <1>SaidKept DEF CInv
  <2>12. \A s \in Requests : Populated(s)'
    <3> SUFFICES ASSUME NEW s \in Requests PROVE Populated(s)'
      OBVIOUS
    <3>1. Populated(s) /\ \A m \in ready : Said(m)
      BY DEF CInv
    <3>2. \A j \in Commands(s) : Up(Cmd(s, j).dstHost, Cmd(s, j).dst) =>
            inst'[Cmd(s, j).dstHost][Cmd(s, j).dst].up
      BY <2>1, CommandFields DEF Up
    <3>3. s = r => reqs[s].state # "acked"
      BY <2>3
    <3>4. ready \subseteq ready' /\ ready' \ ready = {}
      BY <2>1
    <3> QED BY <2>2, <3>1, <3>2, <3>3, <3>4, <1>PopulatedKept
  <2>13. \A s \in Requests : Orderly(s)'
    <3> SUFFICES ASSUME NEW s \in Requests PROVE Orderly(s)'
      OBVIOUS
    <3>1. Built(s) /\ Orderly(s)
      BY DEF CInv
    <3>2. ready' \ ready = {} /\ rec \in book'.pending
      BY <2>1
    <3>3. \A x \in book'.pending \ book.pending : x[2] = r
      BY <2>1, <2>7
    <3> QED BY <2>1, <2>2, <3>1, <3>2, <3>3, <1>OrderlyKept DEF rec
  <2>14. OwnerServes'
    <3>1. \A d \in Cells : owner[d] # NoHost => owner[d] \in Hosts
      BY DEF TInv
    <3>2. \A d \in Cells : owner[d] # NoHost /\ Up(owner[d], d) => inst'[owner[d]][d].up
      BY <2>1, <3>1 DEF Up
    <3> QED BY <2>1, <2>4, <3>2, <1>ServesKept DEF CInv
  <2> QED BY <2>1, <2>2, <2>6, <2>8, <2>9, <2>10, <2>11, <2>12, <2>13, <2>14, <1>Together

(* In the mild case only a migrate fails, and it fails alone.              *)
<1>NoStragglers.
    ASSUME TInv, CInv, NEW r \in Requests, NEW i \in Commands(r),
           reqs[r].kind = "migrate",
           reqs[r].cmds[i].pc \in {"sent", "serialized", "registered", "shipped"}
    PROVE  \A x \in book.pending : x[2] # r
  <2> USE <1>NoStragglers
  <2>1. Len(reqs[r].cmds) = 1
    BY DEF CInv, Built
  <2>2. Commands(r) = {1}
    BY <2>1, SMTT(30) DEF Commands
  <2>3. reqs[r].state \in {"inflight", "rolledback"}
    <3>1. reqs[r] \in RequestT
      BY Elements DEF TInv
    <3> QED BY <3>1, Unfinished DEF RequestT, States, At, Merge
  <2> QED BY <2>2, <2>3 DEF CInv, Noted

(* A failed populate takes down the cells of its own request: none that    *)
(* the owner map names, and the failure keeps the request from committing. *)
<1>TeardownKeeps.
    ASSUME TInv, CInv, NEW r \in Requests, NEW i \in Commands(r), PopulateFails(r, i)
    PROVE  CInv'
  <2> USE <1>TeardownKeeps
  <2> DEFINE h == Cmd(r, i).dstHost
             msg == ReadyMsg(r, i, h, FALSE)
  <2>p. PICK p : p = AfterError(r, i)
    OBVIOUS
  <2>1. /\ Moved(r, i, p)
        /\ owner' = owner /\ notices' = notices /\ ready' = ready \union {msg}
        /\ At(r, i, "created") /\ ~Merge(r)
        /\ book'.pending = {x \in book.pending : ~(x[1] = h /\ x[2] = r)}
        /\ \A g \in Hosts, d \in Cells :
             inst'[g][d].up <=> inst[g][d].up /\ ~(g = h /\ <<g, r, d>> \in book.pending)
    BY <2>p, TeardownStep
  <2>2. /\ h \in Hosts /\ Kept(r, i, p) /\ p \in {"undo", "done"}
        /\ ~At(r, i, "done") /\ ~At(r, i, "undo")
    BY <2>1, <2>p, CommandFields DEF Kept, At, AfterError
  <2>3. /\ Last(r) /\ reqs[r].state \in {"inflight", "rolledback"}
    <3>1. reqs[r] \in RequestT
      BY Elements DEF TInv
    <3> QED BY <2>1, <2>2, <3>1, StillLast, Unfinished DEF RequestT, States
  <2>4. \A n \in notices : n.kind # "rename"
    BY <2>1, <2>3 DEF CInv, Posted, Last
  <2>5. msg.req = r /\ msg.cmd = i /\ ~msg.ok
    BY DEF ReadyMsg
  <2> HIDE DEF msg
  <2>6. \A s \in Requests : Built(s)' /\ Owned(s)'
    <3>1. \A s \in Requests : Built(s)'
      BY <2>1, <1>BuiltKept DEF CInv
    <3> QED BY <2>2, <3>1, <1>OwnedKept DEF CInv
  <2>7. \A s \in Requests : s < Len(reqs) => Gone(s)'
    <3> SUFFICES ASSUME NEW s \in Requests, s < Len(reqs) PROVE Gone(s)'
      OBVIOUS
    <3>1. Gone(s)
      BY DEF CInv
    <3>2. \A x \in book'.pending : x \in book.pending \/ (x[2] = r /\ ~Merge(r))
      BY <2>1
    <3> QED BY <2>2, <3>1, <3>2, <1>GoneKept
  <2>8. \A n \in notices : Posted(n)'
    BY <2>2, <2>4, <1>PostedKept DEF CInv
  <2>9. \A x \in book'.pending : Noted(x)'
    <3> SUFFICES ASSUME NEW x \in book'.pending PROVE Noted(x)'
      OBVIOUS
    <3>1. /\ x \in book.pending /\ ~(x[1] = h /\ x[2] = r)
          /\ Noted(x) /\ x[1] \in Hosts /\ x[3] \in Cells /\ x[2] \in Requests
      BY <2>1 DEF CInv, Noted
    <3>2. reqs[x[2]].state = "inflight" /\ Up(x[1], x[3]) => inst'[x[1]][x[3]].up
      <4> SUFFICES ASSUME reqs[x[2]].state = "inflight", Up(x[1], x[3]), x[1] = h,
                          <<h, r, x[3]>> \in book.pending
                   PROVE  FALSE
        BY <2>1, <3>1 DEF Up
      <4>1. Last(x[2])
        BY <3>1, StillLast
      <4> QED BY <2>3, <3>1, <4>1 DEF Last
    <3> QED BY <2>2, <3>1, <3>2, <1>NotedKept
  <2>10. \A m \in ready' : Said(m)'
    <3>1. \A m \in ready : Said(m)'
      BY <2>1, <2>2, <1>SaidKept DEF CInv
    <3>2. ASSUME NEW m, m = msg PROVE Said(m)'
      BY <2>1, <2>2, <2>5, <3>2 DEF Said, Moved, Requests, Commands, At
    <3> QED BY <2>1, <3>1, <3>2
  <2>11. reqs[r].state = "inflight" => Failed(r, i)'
    <3>1. reqs'[r].cmds[i].pc \in {"undo", "done"} /\ reqs'[r].acked = reqs[r].acked
      BY <2>1, <2>2 DEF Moved
    <3>2. ~OkSaid(r, i)
      BY <2>2 DEF CInv, Said, OkSaid
    <3>3. reqs[r].state = "inflight" => i \notin reqs[r].acked
      BY <2>1, <2>2 DEF CInv, Populated
    <3> QED BY <2>1, <2>5, <3>1, <3>2, <3>3 DEF Failed, OkSaid
  <2>12. \A s \in Requests : Populated(s)'
    <3> SUFFICES ASSUME NEW s \in Requests PROVE Populated(s)'
      OBVIOUS
    <3>1. Populated(s) /\ \A m \in ready : Said(m)
      BY DEF CInv
    <3>2. CASE reqs[s].state \notin {"inflight", "acked"}
      BY <2>1, <3>2 DEF Populated, Moved, Merge
    <3>3. CASE reqs[s].state \in {"inflight", "acked"}
      <4>1. s = r /\ reqs[s].state = "inflight"
        BY <2>3, <3>3, StillLast DEF Last
      <4>2. ready \subseteq ready' /\ \A m \in ready' \ ready : m.req = r /\ m.cmd = i /\ ~m.ok
        BY <2>1, <2>5
      <4> QED BY <2>2, <2>11, <3>1, <4>1, <4>2, <1>PopulatedKept
    <3> QED BY <3>2, <3>3
  <2>13. OwnerServes'
    <3>1. ASSUME NEW d \in Cells, owner[d] # NoHost, Up(owner[d], d)
          PROVE  inst'[owner[d]][d].up
      <4>1. owner[d] \in Hosts
        BY <3>1 DEF TInv
      <4>2. ASSUME <<owner[d], r, d>> \in book.pending PROVE FALSE
        <5> DEFINE x == <<owner[d], r, d>>
        <5>1. Noted(x) /\ x[1] = owner[d] /\ x[2] = r /\ x[3] = d
          BY <4>2 DEF CInv
        <5> HIDE DEF x
        <5> QED BY <2>3, <5>1 DEF Noted
      <4> QED BY <2>1, <3>1, <4>1, <4>2 DEF Up
    <3> QED BY <2>1, <2>4, <3>1, <1>ServesKept DEF CInv
  <2>14. Mild => /\ reqs[r].kind = "migrate" /\ p = "done"
                 /\ \A x \in book'.pending : x[2] # r
    <3> SUFFICES ASSUME Mild
                 PROVE  /\ reqs[r].kind = "migrate" /\ p = "done"
                        /\ \A x \in book'.pending : x[2] # r
      OBVIOUS
    <3>1. reqs[r].kind = "migrate"
      <4>1. MayFail(r) => reqs[r].kind = "migrate"
        BY DEF MayFail, Mild
      <4>2. ~MayFail(r) => <<h, r, Cmd(r, i).dst>> \notin book.pending
        BY DEF PopulateFails
      <4>3. Orderly(r)
        BY DEF CInv
      <4> QED BY <2>1, <2>3, <4>1, <4>2, <4>3 DEF Orderly
    <3>2. /\ Len(reqs[r].cmds) = 1 /\ Cmd(r, 1).srcHost # Cmd(r, 1).dstHost
      BY <3>1 DEF CInv, Built
    <3>3. Commands(r) = {1} /\ i = 1
      BY <3>2, SMTT(30) DEF Commands
    <3>4. p = "done"
      BY <2>p, <3>2, <3>3 DEF AfterError
    <3>5. ASSUME NEW x \in book.pending, x[2] = r PROVE x[1] = h
      BY <2>3, <3>3, <3>5 DEF CInv, Noted
    <3> QED BY <2>1, <3>1, <3>4, <3>5
  <2>15. \A s \in Requests : Orderly(s)'
    <3> SUFFICES ASSUME NEW s \in Requests PROVE Orderly(s)'
      OBVIOUS
    <3>1. Built(s) /\ Orderly(s)
      BY DEF CInv
    <3>2. \A m \in ready' \ ready : m.req = r
      BY <2>1, <2>5
    <3>3. \A x \in book'.pending \ book.pending : x[2] = r
      BY <2>1
    <3>4. ASSUME Mild, reqs[s].state = "inflight", NEW j \in Commands(s),
                 <<Cmd(s, j).dstHost, s, Cmd(s, j).dst>> \in book.pending
          PROVE  s = r /\ j = i
      <4>1. s = r
        BY <2>3, <3>4, StillLast DEF Last
      <4>2. Len(reqs[r].cmds) = 1
        BY <2>14, <3>4 DEF CInv, Built
      <4> QED BY <4>1, <4>2, SMTT(30) DEF Commands
    <3>5. p # "created" /\ (Mild => p # "undo")
      BY <2>2, <2>14
    <3>6. \A m \in ready' \ ready :
            /\ m.req = r
            /\ Mild /\ ~m.ok =>
                 /\ reqs[r].state = "inflight" => reqs[r].kind = "migrate"
                 /\ reqs[r].kind = "migrate" =>
                      p = "done" /\ \A x \in book'.pending : x[2] # r
      BY <2>14, <3>2
    <3>7. Mild /\ reqs[s].state = "inflight" /\ ~Merge(s) =>
            \A j \in Commands(s) :
               <<Cmd(s, j).dstHost, s, Cmd(s, j).dst>> \in book.pending =>
                 \/ s = r /\ j = i /\ p # "created"
                 \/ <<Cmd(s, j).dstHost, s, Cmd(s, j).dst>> \in book'.pending
      BY <3>4, <3>5
    <3> QED BY <2>2, <3>1, <3>3, <3>5, <3>6, <3>7, <1>OrderlyKept, ZenonT(120)
  <2> QED BY <2>2, <2>6, <2>7, <2>8, <2>9, <2>10, <2>12, <2>13, <2>15, <1>Together

(* Every step of Execute keeps the invariant.                              *)
<1>ExecuteKeeps.
    ASSUME TInv, CInv, NEW r \in Requests, NEW i \in Commands(r), Execute(r, i)
    PROVE  TInv' /\ CInv'
  <2> USE <1>ExecuteKeeps
  <2>1. CASE Serialize(r, i)
    BY <2>1, SerializeStep, <1>AdvanceKeeps
  <2>2. CASE RegisterSource(r, i) \/ Ship(r, i)
    BY <2>2, <1>SourceSteps, <1>AdvanceKeeps
  <2>3. CASE SerializeFails(r, i)
    <3>1. TInv' /\ Complains(r, i, "done", Cmd(r, i).srcHost)
      BY <2>3, <1>SerializeFailsStep
    <3>2. ~Up(Cmd(r, i).srcHost, Cmd(r, i).src) \/ MayFail(r)
      BY <2>3 DEF SerializeFails, Up
    <3>3. Mild /\ reqs[r].state = "inflight" => reqs[r].kind = "migrate"
      BY <3>2, SourceUp DEF MayFail, Mild
    <3>4. reqs[r].kind = "migrate" => \A x \in book.pending : x[2] # r
      BY <2>3, <1>NoStragglers DEF SerializeFails, At
    <3> QED BY <3>1, <3>3, <3>4, <1>ComplainKeeps
  <2>4. CASE ShipFails(r, i)
    <3>1. TInv' /\ Complains(r, i, "done", Cmd(r, i).srcHost)
      BY <2>4, <1>UndoStep DEF ShipFails, At
    <3>2. Mild => reqs[r].kind = "migrate"
      BY <2>4 DEF ShipFails, MayFail, Mild
    <3>3. reqs[r].kind = "migrate" => \A x \in book.pending : x[2] # r
      BY <2>4, <1>NoStragglers DEF ShipFails, At
    <3> QED BY <3>1, <3>2, <3>3, <1>ComplainKeeps
  <2>5. CASE LocalShipFails(r, i)
    <3>1. TInv' /\ Complains(r, i, "done", Cmd(r, i).srcHost)
      BY <2>5, <1>UndoStep DEF LocalShipFails, At
    <3>2. At(r, i, "undo") /\ Orderly(r)
      BY <2>5 DEF LocalShipFails, CInv
    <3>3. Mild => reqs[r].kind # "migrate"
      <4> SUFFICES ASSUME Mild, reqs[r].kind = "migrate" PROVE FALSE
        OBVIOUS
      <4>1. Len(reqs[r].cmds) = 1
        BY DEF CInv, Built
      <4>2. i = 1
        BY <4>1, SMTT(30) DEF Commands
      <4> QED BY <3>2, <4>2 DEF Orderly
    <3>4. Mild => reqs[r].state # "inflight"
      BY <3>2, <3>3 DEF Orderly
    <3> QED BY <3>1, <3>3, <3>4, <1>ComplainKeeps
  <2> QED BY <2>1, <2>2, <2>3, <2>4, <2>5 DEF Execute

(* Every step of Receive keeps the invariant.                              *)
<1>ReceiveKeeps.
    ASSUME TInv, CInv, NEW r \in Requests, NEW i \in Commands(r), Receive(r, i)
    PROVE  TInv' /\ CInv'
  <2> USE <1>ReceiveKeeps
  <2>1. CASE ReceiveCreates(r, i)
    BY <2>1, CreateStep, <1>CreateKeeps
  <2>2. CASE ReceiveAcks(r, i)
    BY <2>2, <1>AckStep, <1>ConfirmKeeps
  <2>3. CASE Populate(r, i)
    <3> DEFINE x == <<Cmd(r, i).dstHost, r, Cmd(r, i).dst>>
    <3>1. x \in book.pending /\ x[1] = Cmd(r, i).dstHost /\ x[2] = r /\ x[3] = Cmd(r, i).dst
      BY <2>3 DEF Populate
    <3> HIDE DEF x
    <3>2. reqs[r].state = "inflight" => Up(Cmd(r, i).dstHost, Cmd(r, i).dst)
      BY <3>1 DEF CInv, Noted
    <3> QED BY <2>3, <3>2, <1>PopulateStep, <1>ConfirmKeeps
  <2>4. CASE PopulateFails(r, i)
    BY <2>4, TeardownStep, <1>TeardownKeeps
  <2>5. CASE ReceiveMerge(r, i)
    BY <2>5, <1>MergeSteps, <1>AdvanceKeeps
  <2>6. CASE MergePopulate(r, i)
    <3>1. Up(Cmd(r, i).dstHost, Cmd(r, i).dst)
      BY <2>6 DEF MergePopulate, Up
    <3> QED BY <2>6, <3>1, <1>MergeSteps, <1>ConfirmKeeps
  <2>7. CASE ReceiveMergeGone(r, i) \/ MergePopulateFails(r, i)
    <3>1. TInv' /\ Complains(r, i, AfterError(r, i), Cmd(r, i).dstHost)
      BY <2>7, <1>MergeSteps
    <3>2. Merge(r) /\ (~Up(Cmd(r, i).dstHost, Cmd(r, i).dst) \/ MayFail(r))
      BY <2>7 DEF ReceiveMergeGone, MergePopulateFails, Merge, Up
    <3>3. Mild => reqs[r].state # "inflight" /\ reqs[r].kind # "migrate"
      BY <3>2, SourceUp DEF Mild, MayFail, Merge
    <3> QED BY <3>1, <3>3, <1>ComplainKeeps
  <2> QED BY <2>1, <2>2, <2>3, <2>4, <2>5, <2>6, <2>7 DEF Receive
<1> QED BY <1>ExecuteKeeps, <1>ReceiveKeeps

-----------------------------------------------------------------------------

(* The coordinator's steps.                                                *)

(* Request r gets state st and acks ak; every other request stays.         *)
Judged(r, st, ak) ==
    /\ reqs' \in Seq(RequestT) /\ Len(reqs') = Len(reqs)
    /\ \A s \in Requests :
         /\ reqs'[s].kind = reqs[s].kind /\ reqs'[s].cmds = reqs[s].cmds
         /\ reqs'[s].state = IF s = r THEN st ELSE reqs[s].state
         /\ reqs'[s].acked = IF s = r THEN ak ELSE reqs[s].acked

(* A decision that only sets the state.                                    *)
LEMMA StateJudged ==
    ASSUME TInv, NEW r \in Requests, NEW st \in States,
           reqs' = [reqs EXCEPT ![r].state = st]
    PROVE  /\ Judged(r, st, reqs[r].acked)
           /\ \A s \in Requests : reqs'[s].okHosts = reqs[s].okHosts
<1> DEFINE v == [reqs[r] EXCEPT !.state = st]
<1>1. reqs[r] \in RequestT /\ reqs \in Seq(RequestT)
  BY Elements DEF TInv
<1>2. /\ v \in RequestT /\ v.cmds = reqs[r].cmds /\ v.kind = reqs[r].kind
      /\ v.state = st /\ v.acked = reqs[r].acked /\ v.okHosts = reqs[r].okHosts
  BY <1>1 DEF RequestT
<1>3. reqs' = [reqs EXCEPT ![r] = v]
  OBVIOUS
<1> HIDE DEF v
<1>4. /\ reqs' \in Seq(RequestT) /\ Len(reqs') = Len(reqs)
      /\ \A s \in Requests : reqs'[s] = IF s = r THEN v ELSE reqs[s]
  BY <1>1, <1>2, <1>3, EditRequest, ZenonT(60)
<1> QED BY <1>2, <1>4, SMTT(30) DEF Judged

(* TInv after a step of the coordinator.                                   *)
LEMMA JudgedTyped ==
    ASSUME TInv, NEW r \in Requests, NEW st, NEW ak, Judged(r, st, ak),
           ak \subseteq Commands(r),
           \A s \in Requests : reqs'[s].okHosts \subseteq Destinations(s),
           owner' \in [Cells -> Hosts \union {NoHost}],
           inst' = inst, quad' = quad, book' = book, ready' \subseteq ready,
           \A n \in notices' : n \in notices \/ (n \in NoticeT /\ n.req = r)
    PROVE  TInv'
<1>1. Requests' = Requests
  BY DEF Judged, Requests
<1>2. \A s \in Requests : /\ Commands(s)' = Commands(s)
                          /\ \A i \in Commands(s) : Cmd(s, i)' = Cmd(s, i)
  BY DEF Judged, Commands, Cmd
<1>3. \A s \in Requests : Destinations(s)' = Destinations(s)
  BY <1>2, SMTT(30) DEF Destinations
<1>4. \A s \in Requests : reqs'[s].acked \subseteq Commands(s)
  BY DEF TInv, Judged
<1>5. notices' \in SUBSET NoticeT /\ \A n \in notices' : n.req \in Requests
  BY DEF TInv
<1>6. ready' \in SUBSET MsgT
      /\ \A m \in ready' : m.req \in Requests /\ m.cmd \in Commands(m.req)
  BY DEF TInv
<1>7. inst' \in [Hosts -> [Cells -> InstT]] /\ quad' \in [Entities -> 1..Len(Children)]
      /\ book' \in BookT
      /\ \A x \in book'.src \union book'.pending \union book'.survivor : x[2] \in Requests
  BY DEF TInv
<1>8. reqs' \in Seq(RequestT)
  BY DEF Judged
<1> QED BY <1>1, <1>2, <1>3, <1>4, <1>5, <1>6, <1>7, <1>8, SMTT(30) DEF TInv

(* What a decision leaves alone.                                           *)
LEMMA JudgedSame ==
    ASSUME NEW r \in Requests, NEW st, NEW ak, Judged(r, st, ak)
    PROVE  /\ Requests' = Requests /\ Len(reqs') = Len(reqs)
           /\ \A s \in Requests :
                /\ Commands(s)' = Commands(s) /\ (Last(s)' <=> Last(s))
                /\ (Merge(s)' <=> Merge(s)) /\ reqs'[s].kind = reqs[s].kind
                /\ reqs'[s].cmds = reqs[s].cmds
                /\ \A i \in Commands(s) : /\ Cmd(s, i)' = Cmd(s, i)
                                          /\ \A p : At(s, i, p)' <=> At(s, i, p)
           /\ \A s \in Requests \ {r} : reqs'[s].state = reqs[s].state
                                        /\ reqs'[s].acked = reqs[s].acked
           /\ reqs'[r].state = st /\ reqs'[r].acked = ak
BY DEF Judged, Requests, Commands, Last, Merge, Cmd, At

(* What the first matching command is.                                     *)
LEMMA AckedFacts ==
    ASSUME TInv, CInv, NEW m \in ready, m.ok
    PROVE  /\ Acked(m) \subseteq Commands(m.req)
           /\ ~Merge(m.req) => Acked(m) = reqs[m.req].acked \union {m.cmd}
           /\ m.cmd \in Commands(m.req)
           /\ m.host \in Hosts
           /\ Matching(m) # {} => m.host \in Destinations(m.req)
<1> DEFINE r == m.req
<1>1. /\ r \in Requests /\ m.cmd \in Commands(r) /\ m.host \in Hosts
      /\ m.host = Cmd(r, m.cmd).dstHost /\ m.dst = Cmd(r, m.cmd).dst
  BY DEF CInv, Said, TInv, MsgT
<1>2. reqs[r].acked \subseteq Commands(r) /\ Matching(m) \subseteq Commands(r)
  BY <1>1 DEF TInv, Matching
<1>3. Commands(r) \subseteq Nat
  BY <1>1, CommandFields
<1>5. Acked(m) \subseteq Commands(r)
  BY <1>2 DEF Acked
<1>6. ASSUME ~Merge(r) PROVE Acked(m) = reqs[r].acked \union {m.cmd}
  <2>1. \A i \in Commands(r) : Cmd(r, i).dst = m.dst => i = m.cmd
    BY <1>1, <1>6, SMTT(30) DEF CInv, Built
  <2>2. \A i \in Matching(m) : i = m.cmd
    BY <2>1 DEF Matching
  <2>3. CASE m.cmd \in reqs[r].acked
    <3>1. Matching(m) = {}
      BY <2>2, <2>3 DEF Matching
    <3> QED BY <2>3, <3>1 DEF Acked
  <2>4. CASE m.cmd \notin reqs[r].acked
    <3>1. m.cmd \in Matching(m)
      BY <1>1, <2>4 DEF Matching
    <3>2. {i \in Matching(m) : \A j \in Matching(m) : i <= j} = {m.cmd}
      BY <1>1, <1>3, <2>2, <3>1, SMTT(30)
    <3> QED BY <3>2 DEF Acked
  <2> QED BY <2>3, <2>4
<1>7. Matching(m) # {} => m.host \in Destinations(r)
  BY DEF Matching, Destinations
<1> QED BY <1>1, <1>5, <1>6, <1>7

(* An ok Ready in time acks one command, and the last one the request.     *)
LEMMA OkJudged ==
    ASSUME TInv, CInv, NEW m \in ready, OnReadyOk(m)
    PROVE  /\ Judged(m.req, IF Acked(m) = Commands(m.req) THEN "acked" ELSE "inflight",
                     Acked(m))
           /\ TInv'
<1> DEFINE r == m.req
           st == IF Acked(m) = Commands(r) THEN "acked" ELSE "inflight"
           ok == IF Matching(m) = {} THEN reqs[r].okHosts ELSE reqs[r].okHosts \union {m.host}
           v == [reqs[r] EXCEPT !.acked = Acked(m), !.okHosts = ok, !.state = st]
<1>1. /\ m.ok /\ r \in Requests /\ reqs[r].state = "inflight"
  BY DEF OnReadyOk, TInv
<1>2. /\ Acked(m) \subseteq Commands(r) /\ m.host \in Hosts
      /\ Matching(m) # {} => m.host \in Destinations(r)
  BY <1>1, AckedFacts
<1>3. reqs[r] \in RequestT /\ reqs \in Seq(RequestT) /\ Commands(r) \subseteq Nat
  BY <1>1, Elements, CommandFields DEF TInv
<1>4. ok \subseteq Hosts /\ ok \subseteq Destinations(r) /\ st \in States
  BY <1>1, <1>2, <1>3 DEF TInv, RequestT, States
<1>5. reqs' = [reqs EXCEPT ![r].acked = Acked(m), ![r].okHosts = ok, ![r].state = st]
  BY <1>1 DEF OnReadyOk, AllAcked
<1>6. reqs' = [reqs EXCEPT ![r] = v]
  <2> DEFINE ak == Acked(m)
  <2>1. reqs' = [reqs EXCEPT ![r].acked = ak, ![r].okHosts = ok, ![r].state = st]
    BY <1>5
  <2> HIDE DEF ak, ok, st
  <2> QED BY <1>1, <1>3, <2>1 DEF Requests, RequestT, ak
<1>7. /\ v \in RequestT /\ v.cmds = reqs[r].cmds /\ v.kind = reqs[r].kind
      /\ v.state = st /\ v.acked = Acked(m) /\ v.okHosts = ok
  <2> HIDE DEF ok, st
  <2> QED BY <1>2, <1>3, <1>4 DEF RequestT
<1> HIDE DEF v, ok, st
<1>8. /\ reqs' \in Seq(RequestT) /\ Len(reqs') = Len(reqs)
      /\ \A s \in Requests : reqs'[s] = IF s = r THEN v ELSE reqs[s]
  BY <1>1, <1>3, <1>6, <1>7, EditRequest
<1>9. Judged(r, st, Acked(m)) /\ \A s \in Requests : reqs'[s].okHosts \subseteq Destinations(s)
  BY <1>4, <1>7, <1>8 DEF Judged, TInv
<1>10. TInv'
  BY <1>1, <1>2, <1>9, JudgedTyped DEF OnReadyOk, TInv
<1> QED BY <1>9, <1>10 DEF st

(* The owner map after a commit.                                           *)
LEMMA MapFlip ==
    ASSUME TInv, CInv, NEW r \in Requests, CommitMap(r)
    PROVE  /\ owner' \in [Cells -> Hosts \union {NoHost}]
           /\ Merge(r) => /\ owner'[Parent] = Cmd(r, 1).dstHost
                          /\ \A c \in ChildSet : owner'[c] = NoHost
           /\ ~Merge(r) => \A i \in Commands(r) : owner'[Cmd(r, i).dst] = Cmd(r, i).dstHost
           /\ ~Merge(r) => \A c \in Cells :
                (\A i \in Commands(r) : Cmd(r, i).dst # c) =>
                  owner'[c] = IF c \in Removes(r) THEN NoHost ELSE owner[c]
<1>1. /\ reqs[r].state = "acked" /\ 1 \in Commands(r) /\ Built(r)
      /\ \A i \in Commands(r) : Cmd(r, i).dst \in Cells /\ Cmd(r, i).dstHost \in Hosts
  BY CommandFields DEF CommitMap, CInv, Owned
<1>2. \A c \in Cells :
        owner'[c] = IF \E h \in Hosts : <<c, h>> \in Adds(r)
                    THEN CHOOSE h \in Hosts : <<c, h>> \in Adds(r)
                    ELSE IF c \in Removes(r) THEN NoHost ELSE owner[c]
  BY DEF CommitMap
<1>3. owner' \in [Cells -> Hosts \union {NoHost}]
  <2> DEFINE F(c) == IF \E h \in Hosts : <<c, h>> \in Adds(r)
                     THEN CHOOSE h \in Hosts : <<c, h>> \in Adds(r)
                     ELSE IF c \in Removes(r) THEN NoHost ELSE owner[c]
  <2>1. \A c \in Cells : F(c) \in Hosts \union {NoHost}
    BY DEF TInv
  <2>2. owner' = [c \in Cells |-> F(c)]
    BY DEF CommitMap
  <2> HIDE DEF F
  <2> QED BY <2>1, <2>2
<1>4. ASSUME Merge(r)
      PROVE  /\ owner'[Parent] = Cmd(r, 1).dstHost
             /\ \A c \in ChildSet : owner'[c] = NoHost
  <2>1. \A c, h : <<c, h>> \in Adds(r) <=> c = Parent /\ h = Cmd(r, 1).dstHost
    BY <1>4 DEF Adds, Merge
  <2>2. Removes(r) = ChildSet
    BY <1>4 DEF Removes, Merge
  <2>3. Parent \in Cells /\ Parent \notin ChildSet /\ ChildSet \subseteq Cells
    BY LayoutAssumption DEF Cells
  <2>4. (CHOOSE h \in Hosts : <<Parent, h>> \in Adds(r)) = Cmd(r, 1).dstHost
    BY <1>1, <2>1, SMTT(30)
  <2> QED BY <1>1, <1>2, <2>1, <2>2, <2>3, <2>4
<1>5. ASSUME ~Merge(r)
      PROVE  \A c, h : <<c, h>> \in Adds(r) <=>
               \E i \in Commands(r) : c = Cmd(r, i).dst /\ h = Cmd(r, i).dstHost
  BY <1>5 DEF Adds, Merge
<1>6. ASSUME ~Merge(r), NEW i \in Commands(r)
      PROVE  owner'[Cmd(r, i).dst] = Cmd(r, i).dstHost
  <2> DEFINE c == Cmd(r, i).dst
  <2>1. \A j \in Commands(r) : Cmd(r, j).dst = c => j = i
    BY <1>1, <1>6 DEF Built
  <2>2. \A h : <<c, h>> \in Adds(r) <=> h = Cmd(r, i).dstHost
    BY <1>5, <1>6, <2>1, SMTT(30)
  <2>3. (CHOOSE h \in Hosts : <<c, h>> \in Adds(r)) = Cmd(r, i).dstHost
    BY <1>1, <2>2
  <2> QED BY <1>1, <1>2, <2>2, <2>3
<1>7. ASSUME ~Merge(r), NEW c \in Cells, \A i \in Commands(r) : Cmd(r, i).dst # c
      PROVE  owner'[c] = IF c \in Removes(r) THEN NoHost ELSE owner[c]
  <2>1. \A h : <<c, h>> \notin Adds(r)
    BY <1>5, <1>7
  <2> QED BY <1>2, <2>1
<1> QED BY <1>3, <1>4, <1>6, <1>7

(* Every step of the orchestrator keeps CInv: a Ready, the deadline, and   *)
(* the steps of a commit.                                                  *)
LEMMA OrchestratorKeeps ==
    TInv /\ CInv =>
      /\ \A r \in Requests : Commit(r) \/ Expire(r) => TInv' /\ CInv'
      /\ \A m \in ready : OnReady(m) \/ ReadyLost(m) => TInv' /\ CInv'
(* The parts of CInv that no decision on r touches.                        *)
<1>JudgedCommon.
    ASSUME TInv, CInv, NEW r \in Requests, NEW st, NEW ak, Judged(r, st, ak), Last(r),
           inst' = inst, book' = book, ready' \subseteq ready,
           \A n \in notices' : n \in notices \/ n.req = r
    PROVE  /\ \A s \in Requests : Built(s)'
           /\ \A s \in Requests : s < Len(reqs) => Gone(s)'
           /\ \A s \in Requests \ {r} : Owned(s)' /\ Populated(s)' /\ Orderly(s)'
           /\ \A m \in ready' : Said(m)'
           /\ \A x \in book'.pending : x[2] # r => Noted(x)'
           /\ \A n \in notices' : n.req # r => Posted(n)'
  <2> USE <1>JudgedCommon
  <2> USE JudgedSame
  <2>1. \A s \in Requests \ {r} : s < Len(reqs) /\ Gone(s)
    BY EarlierGone DEF Last
  <2>2. \A s \in Requests : Built(s)'
    <3> SUFFICES ASSUME NEW s \in Requests PROVE Built(s)'
      OBVIOUS
    <3>1. /\ Built(s) /\ Commands(s)' = Commands(s) /\ reqs'[s].kind = reqs[s].kind
          /\ reqs'[s].cmds = reqs[s].cmds
      BY DEF CInv
    <3> QED BY <3>1, SMTT(30) DEF Built, Cmd, Merge
  <2>3. ASSUME NEW s \in Requests, s < Len(reqs) PROVE Gone(s)'
    <3>1. Gone(s) /\ s # r
      BY <2>3, SMTT(30) DEF CInv, Last, TInv
    <3>2. /\ reqs'[s].state = reqs[s].state /\ (Merge(s)' <=> Merge(s))
          /\ Commands(s)' = Commands(s)
          /\ \A i \in Commands(s) : At(s, i, "done")' <=> At(s, i, "done")
      BY <3>1
    <3> QED BY <3>1, <3>2 DEF Gone
  <2>4. ASSUME NEW s \in Requests \ {r} PROVE Owned(s)' /\ Populated(s)' /\ Orderly(s)'
    <3>1. /\ Gone(s) /\ Owned(s) /\ Orderly(s) /\ ~Last(s) /\ Built(s)
      BY <2>1 DEF CInv, Last
    <3>2. /\ reqs'[s].state = reqs[s].state /\ (Merge(s)' <=> Merge(s))
          /\ Commands(s)' = Commands(s) /\ ~Last(s)' /\ reqs'[s].kind = reqs[s].kind
          /\ \A i \in Commands(s) : \A p : At(s, i, p)' <=> At(s, i, p)
      BY <3>1
    <3>3. Owned(s)'
      BY <3>1, <3>2 DEF Owned, Gone
    <3>4. Populated(s)'
      BY <3>1, <3>2 DEF Populated, Gone
    <3>5. \A n \in notices' : n.req = s => n.kind \notin {"rename", "release"}
      BY <3>1 DEF Gone
    <3>6. reqs[s].kind = "migrate" => 1 \in Commands(s)
      <4> SUFFICES ASSUME reqs[s].kind = "migrate" PROVE Commands(s) = {1}
        OBVIOUS
      <4>1. Len(reqs[s].cmds) = 1
        BY <3>1 DEF Built
      <4> QED BY <4>1, SMTT(30) DEF Commands
    <3>7. Orderly(s)'
      BY <3>1, <3>2, <3>5, <3>6 DEF Orderly, Gone, Mild
    <3> QED BY <3>3, <3>4, <3>7
  <2>5. ASSUME NEW m \in ready' PROVE Said(m)'
    <3>1. Said(m) /\ m.req \in Requests /\ m.cmd \in Commands(m.req)
      BY DEF CInv, Said
    <3> QED BY <3>1 DEF Said
  <2>6. ASSUME NEW x \in book'.pending, x[2] # r PROVE Noted(x)'
    <3>1. Noted(x) /\ x[2] \in Requests \ {r} /\ x \in book.pending
      BY <2>6 DEF CInv, Noted
    <3>2. Gone(x[2]) /\ reqs'[x[2]].state = reqs[x[2]].state
      BY <2>1, <3>1
    <3>3. reqs[x[2]].state = "committed"
      BY <3>1, <3>2 DEF Gone
    <3> QED BY <3>1, <3>2, <3>3 DEF Noted
  <2>7. ASSUME NEW n \in notices', n.req # r PROVE Posted(n)'
    <3>1. n \in notices /\ Posted(n) /\ n.req \in Requests \ {r}
      BY <2>7 DEF CInv, Posted
    <3>2. Gone(n.req) /\ reqs'[n.req].state = reqs[n.req].state
      BY <2>1, <3>1
    <3> QED BY <3>1, <3>2 DEF Gone, Posted
  <2> QED BY <2>2, <2>3, <2>4, <2>5, <2>6, <2>7

(* A Ready that is lost, or comes after the decision, changes nothing.     *)
<1>DropReady.
    ASSUME TInv, CInv, NEW m, ready' = ready \ {m},
           UNCHANGED <<owner, inst, quad, reqs, book, notices>>
    PROVE  TInv' /\ CInv'
  <2> USE <1>DropReady
  <2>1. TInv'
    <3>1. /\ Requests' = Requests
          /\ \A s : Commands(s)' = Commands(s) /\ Destinations(s)' = Destinations(s)
      BY DEF Requests, Commands, Destinations, Cmd
    <3> QED BY <3>1 DEF TInv
  <2>2. \A s, j : OkSaid(s, j)' => OkSaid(s, j)
    BY DEF OkSaid
  <2>3. \A s, j : Failed(s, j) => Failed(s, j)'
    BY <2>2 DEF Failed
  <2>4. ASSUME NEW s \in Requests PROVE Populated(s)'
    <3>1. Populated(s) /\ Requests' = Requests /\ Commands(s)' = Commands(s)
          /\ (Merge(s)' <=> Merge(s)) /\ reqs' = reqs /\ inst' = inst
      BY DEF CInv, Requests, Commands, Merge
    <3> QED BY <2>2, <2>3, <3>1 DEF Populated, At, Cmd, Up
  <2>5. ASSUME NEW s \in Requests
        PROVE  Built(s)' /\ Owned(s)' /\ (s < Len(reqs) => Gone(s)')
    BY SMTT(30) DEF CInv, Built, Owned, Gone, Commands, Merge, Cmd, At, Last
  <2>6. ASSUME NEW s \in Requests PROVE Orderly(s)'
    <3>1. Orderly(s)
      BY DEF CInv
    <3> QED BY <3>1 DEF Orderly, Commands, Merge, Cmd, At, Mild
  <2>7. (\A n \in notices : Posted(n)') /\ (\A x \in book.pending : Noted(x)')
    BY DEF CInv, Posted, Noted, Requests, Commands, Merge, Cmd, Last, Up
  <2>8. \A k \in ready' : Said(k)'
    BY DEF CInv, Said, Requests, Commands, Cmd, At
  <2>9. OwnerServes'
    BY DEF CInv, OwnerServes
  <2> QED BY <2>1, <2>4, <2>5, <2>6, <2>7, <2>8, <2>9 DEF CInv, Requests

(* Nothing has been posted for a request that is in flight or acked.       *)
<1>NothingPosted.
    ASSUME TInv, CInv, NEW r \in Requests, reqs[r].state \in {"inflight", "acked"}
    PROVE  \A n \in notices : n.req # r
  <2> USE <1>NothingPosted
  <2>1. \A n \in notices : n.kind \in {"abort", "commit", "release", "rename"}
    BY DEF TInv, NoticeT
  <2> QED BY <2>1 DEF CInv, Posted

(* A message of the coordinator has its type.                              *)
<1>NoticeTyped.
    ASSUME TInv, NEW r \in Requests, NEW h \in Hosts, NEW c \in Cells,
           NEW k \in {"abort", "commit", "release", "rename"}
    PROVE  /\ Notice(k, h, r, c) \in NoticeT
           /\ Notice(k, h, r, c).kind = k /\ Notice(k, h, r, c).host = h
           /\ Notice(k, h, r, c).req = r /\ Notice(k, h, r, c).cell = c
  <2> USE <1>NoticeTyped
  <2>1. r \in Nat
    BY SMTT(30) DEF TInv, Requests
  <2> QED BY <2>1 DEF Notice, NoticeT

(* rollback, after a failed Ready or the deadline: the cells the Aborts    *)
(* will take down are none that the map names.                             *)
<1>RollbackKeeps.
    ASSUME TInv, CInv, NEW r \in Requests, reqs[r].state = "inflight", Rollback(r),
           owner' = owner, inst' = inst, quad' = quad, book' = book,
           ready' \subseteq ready,
           Mild => \E m \in ready : m.req = r /\ ~m.ok
    PROVE  TInv' /\ CInv'
  <2> USE <1>RollbackKeeps
  <2>1. /\ Judged(r, "rolledback", reqs[r].acked)
        /\ \A s \in Requests : reqs'[s].okHosts = reqs[s].okHosts
    BY StateJudged DEF Rollback, States
  <2>2. AbortTargets(r) \subseteq Hosts /\ Parent \in Cells
    <3>1. reqs[r] \in RequestT
      BY Elements DEF TInv
    <3> QED BY <3>1, CommandFields DEF AbortTargets, Sources, RequestT, Cells
  <2>3. \A n \in notices' : \/ n \in notices
                            \/ n \in NoticeT /\ n.req = r /\ n.kind = "abort" /\ n.host \in Hosts
    <3>1. notices' = notices \union {Notice("abort", h, r, Parent) : h \in AbortTargets(r)}
      BY DEF Rollback
    <3> QED BY <2>2, <3>1, <1>NoticeTyped, SMTT(30)
  <2>4. TInv'
    BY <2>1, <2>3, JudgedTyped DEF TInv
  <2>5. Last(r)
    BY StillLast
  <2>6. /\ \A s \in Requests : Built(s)'
        /\ \A s \in Requests : s < Len(reqs) => Gone(s)'
        /\ \A s \in Requests \ {r} : Owned(s)' /\ Populated(s)' /\ Orderly(s)'
        /\ \A m \in ready' : Said(m)'
        /\ \A x \in book'.pending : x[2] # r => Noted(x)'
        /\ \A n \in notices' : n.req # r => Posted(n)'
    BY <2>1, <2>3, <2>5, <1>JudgedCommon
  <2>7. /\ reqs'[r].state = "rolledback" /\ Requests' = Requests
        /\ (Merge(r)' <=> Merge(r)) /\ Commands(r)' = Commands(r)
        /\ reqs'[r].kind = reqs[r].kind /\ reqs'[r].cmds = reqs[r].cmds
        /\ \A i \in Commands(r) : Cmd(r, i)' = Cmd(r, i)
    BY <2>1, JudgedSame
  <2>8. Owned(r)' /\ Populated(r)'
    BY <2>7 DEF Owned, Populated
  <2>9. \A n \in notices' : n.req = r => n.kind = "abort" /\ n.host \in Hosts
    BY <2>3, <1>NothingPosted
  <2>10. Orderly(r)'
    <3> SUFFICES ASSUME Mild PROVE Orderly(r)'
      BY DEF Orderly, Mild
    <3>1. Orderly(r) /\ \E m \in ready : m.req = r /\ ~m.ok
      BY DEF CInv
    <3>2. /\ reqs[r].kind = "migrate" /\ ~At(r, 1, "undo") /\ At(r, 1, "done")
          /\ \A x \in book.pending : x[2] # r
      BY <3>1 DEF Orderly
    <3>3. ~At(r, 1, "undo")' /\ At(r, 1, "done")'
      BY <2>7, <3>2 DEF At
    <3> QED BY <2>7, <2>9, <3>2, <3>3 DEF Orderly
  <2>11. \A n \in notices' : n.req = r => Posted(n)'
    BY <2>7, <2>9 DEF Posted
  <2>12. ASSUME NEW x \in book'.pending, x[2] = r PROVE Noted(x)'
    <3>1. Noted(x)
      BY <2>12 DEF CInv
    <3> QED BY <2>7, <2>12, <3>1 DEF Noted
  <2>13. OwnerServes'
    <3>1. OwnerServes /\ notices \subseteq notices'
      BY DEF CInv, Rollback
    <3> QED BY <3>1 DEF OwnerServes
  <2>14. \A s \in Requests : Owned(s)' /\ Populated(s)' /\ Orderly(s)'
    BY <2>6, <2>8, <2>10
  <2>15. (\A n \in notices' : Posted(n)') /\ (\A x \in book'.pending : Noted(x)')
    BY <2>6, <2>11, <2>12
  <2>16. Len(reqs') = Len(reqs)
    BY <2>1 DEF Judged
  <2> QED BY <2>4, <2>6, <2>7, <2>13, <2>14, <2>15, <2>16 DEF CInv

(* When the last command is acked all destinations run.                    *)
<1>OkKeeps.
    ASSUME TInv, CInv, NEW m \in ready, OnReadyOk(m)
    PROVE  CInv'
  <2> USE <1>OkKeeps
  <2> DEFINE r == m.req
             st == IF Acked(m) = Commands(r) THEN "acked" ELSE "inflight"
  <2>1. /\ Judged(r, st, Acked(m)) /\ m.ok /\ r \in Requests /\ reqs[r].state = "inflight"
        /\ m.cmd \in Commands(r) /\ Acked(m) \subseteq Commands(r)
        /\ ready' = ready \ {m} /\ notices' = notices /\ book' = book
        /\ owner' = owner /\ inst' = inst
        /\ ~Merge(r) => Acked(m) = reqs[r].acked \union {m.cmd}
    BY OkJudged, AckedFacts DEF OnReadyOk, TInv
  <2>2. Last(r)
    BY <2>1, StillLast
  <2>3. /\ \A s \in Requests : Built(s)'
        /\ \A s \in Requests : s < Len(reqs) => Gone(s)'
        /\ \A s \in Requests \ {r} : Owned(s)' /\ Populated(s)' /\ Orderly(s)'
        /\ \A k \in ready' : Said(k)'
        /\ \A x \in book'.pending : x[2] # r => Noted(x)'
        /\ \A n \in notices' : n.req # r => Posted(n)'
    BY <2>1, <2>2, <1>JudgedCommon
  <2>4. /\ reqs'[r].state = st /\ reqs'[r].acked = Acked(m) /\ Requests' = Requests
        /\ (Merge(r)' <=> Merge(r)) /\ Commands(r)' = Commands(r)
        /\ reqs'[r].kind = reqs[r].kind /\ reqs'[r].cmds = reqs[r].cmds
        /\ (Last(r)' <=> Last(r)) /\ Len(reqs') = Len(reqs)
        /\ \A i \in Commands(r) : /\ Cmd(r, i)' = Cmd(r, i)
                                  /\ \A p : At(r, i, p)' <=> At(r, i, p)
    BY <2>1, JudgedSame, ZenonT(60)
  <2>5. st \in {"inflight", "acked"} /\ (st = "acked" => Acked(m) = Commands(r))
    OBVIOUS
  <2> HIDE DEF st
  <2>6. ASSUME ~Merge(r), NEW i \in Commands(r), i \in Acked(m) \/ OkSaid(r, i)'
        PROVE  /\ At(r, i, "done")
               /\ \/ Up(Cmd(r, i).dstHost, Cmd(r, i).dst)
                  \/ \E j \in Commands(r) : Failed(r, j)
    <3>1. OkSaid(r, m.cmd) /\ (OkSaid(r, i)' => OkSaid(r, i))
      BY <2>1 DEF OkSaid
    <3>2. i \in reqs[r].acked \/ OkSaid(r, i)
      BY <2>1, <2>6, <3>1
    <3> QED BY <2>1, <2>6, <3>2 DEF CInv, Populated
  <2>7. ASSUME ~Merge(r), NEW j \in Commands(r), Failed(r, j)
        PROVE  Failed(r, j)' /\ j \notin Acked(m)
    <3>1. OkSaid(r, m.cmd) /\ (OkSaid(r, j)' => OkSaid(r, j))
      BY <2>1 DEF OkSaid
    <3>2. j \notin Acked(m)
      BY <2>1, <2>7, <3>1 DEF Failed
    <3> QED BY <2>4, <2>7, <3>1, <3>2 DEF Failed
  <2>8. Populated(r)'
    <3>1. ASSUME ~Merge(r), st = "acked", NEW i \in Commands(r)
          PROVE  Up(Cmd(r, i).dstHost, Cmd(r, i).dst)
      BY <2>5, <2>6, <2>7, <3>1
    <3>2. ASSUME ~Merge(r), NEW i \in Commands(r), i \in Acked(m) \/ OkSaid(r, i)'
          PROVE  /\ At(r, i, "done")'
                 /\ \/ Up(Cmd(r, i).dstHost, Cmd(r, i).dst)
                    \/ \E j \in Commands(r) : Failed(r, j)'
      BY <2>4, <2>6, <2>7, <3>2
    <3>3. \A i \in Commands(r) :
            Up(Cmd(r, i).dstHost, Cmd(r, i).dst)' <=> Up(Cmd(r, i).dstHost, Cmd(r, i).dst)
      BY <2>1, <2>4 DEF Up
    <3> QED BY <2>4, <2>5, <3>1, <3>2, <3>3 DEF Populated
  <2>9. Owned(r)'
    <3>1. Owned(r)
      BY <2>1 DEF CInv
    <3>2. 1 \in Commands(r)
      <4>1. Len(reqs[r].cmds) \in Nat
        BY <2>1, Elements, SMTT(30) DEF TInv
      <4> QED BY <2>1, <4>1, SMTT(30) DEF Commands
    <3>3. st = "acked" /\ ~Merge(r) => \A i \in Commands(r) : At(r, i, "done")
      BY <2>5, <2>6
    <3> QED BY <2>1, <2>4, <2>5, <3>1, <3>2, <3>3, SMTT(30) DEF Owned
  <2>10. \A n \in notices' : n.req # r
    BY <2>1, <1>NothingPosted
  <2>11. Orderly(r)'
    <3>1. Orderly(r) /\ Built(r)
      BY <2>1 DEF CInv
    <3>2. reqs[r].kind = "migrate" => 1 \in Commands(r)
      <4> SUFFICES ASSUME reqs[r].kind = "migrate" PROVE Commands(r) = {1}
        OBVIOUS
      <4>1. Len(reqs[r].cmds) = 1
        BY <3>1 DEF Built
      <4> QED BY <4>1, SMTT(30) DEF Commands
    <3> QED BY <2>1, <2>4, <2>5, <2>10, <3>1, <3>2, SMTT(30) DEF Orderly, Mild
  <2>12. ASSUME NEW x \in book'.pending, x[2] = r PROVE Noted(x)'
    <3>1. Noted(x)
      BY <2>1, <2>12 DEF CInv
    <3> QED BY <2>1, <2>4, <2>5, <2>12, <3>1, ZenonT(60) DEF Noted, Up
  <2>13. OwnerServes'
    BY <2>1 DEF CInv, OwnerServes
  <2>14. \A s \in Requests : Owned(s)' /\ Populated(s)' /\ Orderly(s)'
    BY <2>3, <2>8, <2>9, <2>11
  <2>15. (\A n \in notices' : Posted(n)') /\ (\A x \in book'.pending : Noted(x)')
    BY <2>3, <2>10, <2>12
  <2> QED BY <2>3, <2>4, <2>13, <2>14, <2>15 DEF CInv

(* The flip of the owner map: for a split and a migrate every new owner    *)
(* runs its cell, for a merge the survivor runs until its rename comes.    *)
<1>MapKeeps.
    ASSUME TInv, CInv, NEW r \in Requests, CommitMap(r)
    PROVE  TInv' /\ CInv'
  <2> USE <1>MapKeeps
  <2>1. /\ Judged(r, "mapped", reqs[r].acked)
        /\ \A s \in Requests : reqs'[s].okHosts = reqs[s].okHosts
    BY StateJudged DEF CommitMap, Step, States
  <2>2. /\ reqs[r].state = "acked" /\ 1 \in Commands(r) /\ Built(r) /\ Owned(r)
        /\ Populated(r) /\ Orderly(r)
        /\ inst' = inst /\ quad' = quad /\ book' = book /\ ready' = ready
    BY DEF CommitMap, CInv, Owned
  <2> DEFINE note == Notice("rename", Cmd(r, 1).dstHost, r, Cmd(r, 1).dst)
  <2>3. /\ note \in NoticeT /\ note.kind = "rename" /\ note.req = r
        /\ note.host = Cmd(r, 1).dstHost /\ note.cell = Cmd(r, 1).dst
    BY <2>2, CommandFields, <1>NoticeTyped, SMTT(30)
  <2>4. notices' = notices \union (IF Merge(r) THEN {note} ELSE {})
    BY DEF CommitMap, Merge
  <2> HIDE DEF note
  <2>5. TInv'
    <3>1. owner' \in [Cells -> Hosts \union {NoHost}]
      BY MapFlip
    <3>2. \A n \in notices' : n \in notices \/ (n \in NoticeT /\ n.req = r)
      BY <2>3, <2>4
    <3>3. /\ reqs[r].acked \subseteq Commands(r)
          /\ \A s \in Requests : reqs'[s].okHosts \subseteq Destinations(s)
      BY <2>1 DEF TInv
    <3>4. ready' \subseteq ready /\ quad' = quad
      BY <2>2
    <3> QED BY <2>1, <2>2, <3>1, <3>2, <3>3, <3>4, JudgedTyped
  <2>6. Last(r) /\ \A n \in notices : n.req # r
    BY <2>2, StillLast, <1>NothingPosted
  <2>7. \A n \in notices : n.kind # "rename"
    BY <2>6 DEF CInv, Posted, Last
  <2>8. /\ \A s \in Requests : Built(s)'
        /\ \A s \in Requests : s < Len(reqs) => Gone(s)'
        /\ \A s \in Requests \ {r} : Owned(s)' /\ Populated(s)' /\ Orderly(s)'
        /\ \A m \in ready' : Said(m)'
        /\ \A x \in book'.pending : x[2] # r => Noted(x)'
        /\ \A n \in notices' : n.req # r => Posted(n)'
    BY <2>1, <2>2, <2>3, <2>4, <2>6, <1>JudgedCommon
  <2>9. /\ reqs'[r].state = "mapped" /\ Requests' = Requests
        /\ (Merge(r)' <=> Merge(r)) /\ Commands(r)' = Commands(r)
        /\ reqs'[r].kind = reqs[r].kind /\ reqs'[r].cmds = reqs[r].cmds
        /\ Last(r)' /\ Len(reqs') = Len(reqs)
        /\ \A i \in Commands(r) : /\ Cmd(r, i)' = Cmd(r, i)
                                  /\ \A p : At(r, i, p)' <=> At(r, i, p)
    BY <2>1, <2>6, JudgedSame
  <2>10. \A i \in Commands(r) : owner'[Cmd(r, i).src] # Cmd(r, i).srcHost
    <3> SUFFICES ASSUME NEW i \in Commands(r)
                 PROVE  owner'[Cmd(r, i).src] # Cmd(r, i).srcHost
      OBVIOUS
    <3>1. Cmd(r, i).srcHost \in Hosts /\ reqs[r].kind \in {"split", "merge", "migrate"}
      BY CommandFields, LayoutAssumption
    <3>2. CASE Merge(r)
      BY <2>2, <3>1, <3>2, MapFlip, LayoutAssumption DEF Built
    <3>3. CASE reqs[r].kind = "split"
      <4>1. Cmd(r, i).src = Parent /\ Parent \in Cells
            /\ \A j \in Commands(r) : Cmd(r, j).dst # Parent
        BY <2>2, <3>3, LayoutAssumption, ZenonT(60) DEF Built, Cells
      <4>2. Parent \in Removes(r) /\ ~Merge(r)
        BY <3>3 DEF Removes, Merge
      <4> QED BY <3>1, <4>1, <4>2, MapFlip, LayoutAssumption, SMTT(30)
    <3>4. CASE reqs[r].kind = "migrate"
      <4>1. Len(reqs[r].cmds) = 1 /\ Cmd(r, 1).src = Cmd(r, 1).dst
            /\ Cmd(r, 1).srcHost # Cmd(r, 1).dstHost /\ ~Merge(r)
        BY <2>2, <3>4 DEF Built, Merge
      <4>2. i = 1
        BY <4>1, SMTT(30) DEF Commands
      <4> QED BY <4>1, <4>2, MapFlip
    <3> QED BY <3>1, <3>2, <3>3, <3>4 DEF Merge
  <2>11. Owned(r)' /\ Populated(r)'
    BY <2>2, <2>9, <2>10, SMTT(30) DEF Owned, Populated
  <2>12. \A n \in notices' : n.req = r => Merge(r) /\ n = note
    BY <2>4, <2>6
  <2>13. Orderly(r)'
    <3>1. reqs[r].kind = "migrate" => 1 \in Commands(r)
      BY <2>2
    <3> QED BY <2>2, <2>3, <2>9, <2>12, <3>1 DEF Orderly, Mild
  <2>14. ASSUME Merge(r) PROVE Up(Cmd(r, 1).dstHost, Cmd(r, 1).dst)
    <3>1. /\ owner[Cmd(r, 1).dst] = Cmd(r, 1).dstHost /\ Cmd(r, 1).dst \in ChildSet
          /\ Cmd(r, 1).dstHost \in Hosts /\ Cmd(r, 1).dst \in Cells
      BY <2>2, <2>14, CommandFields DEF Owned, Built
    <3> QED BY <2>7, <3>1, LayoutAssumption DEF CInv, OwnerServes, Up
  <2>15. \A n \in notices' : n.req = r => Posted(n)'
    <3> SUFFICES ASSUME NEW n \in notices', n.req = r PROVE Posted(n)'
      OBVIOUS
    <3>1. /\ Merge(r) /\ n.kind = "rename" /\ n.host = Cmd(r, 1).dstHost
          /\ n.cell = Cmd(r, 1).dst /\ n.host \in Hosts /\ n.cell \in ChildSet
      BY <2>2, <2>3, <2>12, CommandFields DEF Built
    <3>2. owner'[Parent] = n.host /\ owner'[n.cell] # n.host
      BY <3>1, MapFlip, LayoutAssumption, ZenonT(60)
    <3> QED BY <2>2, <2>9, <2>14, <3>1, <3>2 DEF Posted, Up
  <2>16. ASSUME NEW x \in book'.pending, x[2] = r PROVE Noted(x)'
    <3>1. Noted(x)
      BY <2>2, <2>16 DEF CInv
    <3> QED BY <2>9, <2>16, <3>1 DEF Noted
  <2>17. OwnerServes'
    <3> SUFFICES ASSUME NEW c \in Cells, owner'[c] # NoHost
                 PROVE  \/ inst[owner'[c]][c].up
                        \/ c = Parent /\ \E n \in notices' :
                             /\ n.kind = "rename" /\ n.host = owner'[c]
                             /\ inst[n.host][n.cell].up
      BY <2>2 DEF OwnerServes
    <3>1. CASE Merge(r)
      <4>1. c = Parent /\ owner'[c] = Cmd(r, 1).dstHost
        BY <3>1, MapFlip DEF Cells
      <4> QED BY <2>3, <2>4, <2>14, <3>1, <4>1 DEF Up
    <3>2. CASE ~Merge(r) /\ \E i \in Commands(r) : Cmd(r, i).dst = c
      BY <2>2, <3>2, MapFlip, ZenonT(60) DEF Populated, Up
    <3>3. CASE ~Merge(r) /\ \A i \in Commands(r) : Cmd(r, i).dst # c
      <4>1. owner'[c] = owner[c]
        BY <3>3, MapFlip
      <4> QED BY <2>7, <4>1 DEF CInv, OwnerServes
    <3> QED BY <3>1, <3>2, <3>3
  <2>18. \A s \in Requests : Owned(s)' /\ Populated(s)' /\ Orderly(s)'
    BY <2>8, <2>11, <2>13
  <2>19. (\A n \in notices' : Posted(n)') /\ (\A x \in book'.pending : Noted(x)')
    BY <2>8, <2>15, <2>16
  <2> QED BY <2>5, <2>8, <2>9, <2>17, <2>18, <2>19 DEF CInv

(* The two later commit steps only send messages.                          *)
<1>TellKeeps.
    ASSUME TInv, CInv, NEW r \in Requests, NEW k \in {"release", "commit"},
           IF k = "release" THEN CommitRelease(r) ELSE CommitNotify(r)
    PROVE  TInv' /\ CInv'
  <2> USE <1>TellKeeps
  <2> DEFINE st == IF k = "release" THEN "releasing" ELSE "committed"
  <2>1. /\ reqs[r].state = IF k = "release" THEN "mapped" ELSE "releasing"
        /\ owner' = owner /\ inst' = inst /\ quad' = quad /\ book' = book /\ ready' = ready
        /\ Built(r) /\ Owned(r) /\ Populated(r) /\ Orderly(r) /\ 1 \in Commands(r)
    BY DEF CommitRelease, CommitNotify, CInv, Owned
  <2>2. /\ Judged(r, st, reqs[r].acked)
        /\ \A s \in Requests : reqs'[s].okHosts = reqs[s].okHosts
    BY StateJudged DEF CommitRelease, CommitNotify, Step, States
  <2>3. ASSUME NEW n \in notices'
        PROVE  \/ n \in notices
               \/ /\ n \in NoticeT /\ n.req = r /\ n.kind = k /\ n.host \in Hosts
                  /\ k = "release" => \E i \in Commands(r) : /\ n.cell = Cmd(r, i).src
                                                             /\ n.host = Cmd(r, i).srcHost
    <3>1. CASE k = "release"
      <4>1. \/ n \in notices
            \/ \E i \in Commands(r) : n = Notice("release", Cmd(r, i).srcHost, r, Cmd(r, i).src)
        BY <2>3, <3>1 DEF CommitRelease
      <4> QED BY <3>1, <4>1, <1>NoticeTyped, CommandFields, SMTT(30)
    <3>2. CASE k = "commit"
      <4>1. CommitTargets(r) \subseteq Hosts /\ Parent \in Cells
        <5>1. reqs[r] \in RequestT
          BY Elements DEF TInv
        <5> QED BY <5>1, CommandFields DEF CommitTargets, Sources, Destinations, RequestT, Cells
      <4>2. n \in notices \/ \E h \in CommitTargets(r) : n = Notice("commit", h, r, Parent)
        BY <2>3, <3>2 DEF CommitNotify
      <4> QED BY <3>2, <4>1, <4>2, <1>NoticeTyped, SMTT(30)
    <3> QED BY <3>1, <3>2
  <2>4. TInv'
    <3>1. owner' \in [Cells -> Hosts \union {NoHost}]
      BY <2>1 DEF TInv
    <3>2. \A n \in notices' : n \in notices \/ (n \in NoticeT /\ n.req = r)
      BY <2>3
    <3>3. /\ reqs[r].acked \subseteq Commands(r)
          /\ \A s \in Requests : reqs'[s].okHosts \subseteq Destinations(s)
      BY <2>2 DEF TInv
    <3>4. ready' \subseteq ready
      BY <2>1
    <3> QED BY <2>1, <2>2, <3>1, <3>2, <3>3, <3>4, JudgedTyped
  <2>5. Last(r)
    BY <2>1, StillLast
  <2>6. /\ \A s \in Requests : Built(s)'
        /\ \A s \in Requests : s < Len(reqs) => Gone(s)'
        /\ \A s \in Requests \ {r} : Owned(s)' /\ Populated(s)' /\ Orderly(s)'
        /\ \A m \in ready' : Said(m)'
        /\ \A x \in book'.pending : x[2] # r => Noted(x)'
        /\ \A n \in notices' : n.req # r => Posted(n)'
    <3>1. \A n \in notices' : n \in notices \/ n.req = r
      BY <2>3
    <3>2. ready' \subseteq ready
      BY <2>1
    <3> QED BY <2>1, <2>2, <2>5, <3>1, <3>2, <1>JudgedCommon
  <2>7. /\ reqs'[r].state = st /\ Requests' = Requests
        /\ (Merge(r)' <=> Merge(r)) /\ Commands(r)' = Commands(r)
        /\ reqs'[r].kind = reqs[r].kind /\ reqs'[r].cmds = reqs[r].cmds
        /\ Last(r)' /\ Len(reqs') = Len(reqs)
        /\ \A i \in Commands(r) : /\ Cmd(r, i)' = Cmd(r, i)
                                  /\ \A p : At(r, i, p)' <=> At(r, i, p)
    BY <2>2, <2>5, JudgedSame
  <2>8. Owned(r)' /\ Populated(r)'
    BY <2>1, <2>5, <2>7 DEF Owned, Populated
  <2>9. ASSUME Mild, NEW n \in notices', n.req = r
        PROVE  /\ n.kind # "rename"
               /\ n.kind = "release" => k = "release"
    <3>1. CASE n \notin notices
      BY <2>3, <2>9, <3>1
    <3>2. CASE n \in notices
      <4>1. CASE k = "release"
        BY <2>9, <3>2, <4>1 DEF CommitRelease, Outstanding, Mild
      <4>2. CASE k = "commit"
        BY <2>1, <2>9, <3>2, <4>2 DEF CommitNotify, Outstanding, Mild, Orderly
      <4> QED BY <4>1, <4>2
    <3> QED BY <3>1, <3>2
  <2>10. Orderly(r)'
    BY <2>1, <2>7, <2>9 DEF Orderly, Mild
  <2>11. ASSUME NEW n \in notices', n.req = r PROVE Posted(n)'
    <3>1. CASE n \notin notices
      <4>1. /\ n.req = r /\ n.kind = k /\ n.host \in Hosts
            /\ k = "release" => \E i \in Commands(r) : /\ n.cell = Cmd(r, i).src
                                                       /\ n.host = Cmd(r, i).srcHost
        BY <2>3, <3>1
      <4> QED BY <2>7, <4>1 DEF Posted
    <3>2. CASE n \in notices
      <4>1. Posted(n)
        BY <3>2 DEF CInv
      <4>2. n.kind # "abort" /\ n.kind # "commit"
        BY <2>1, <2>11, <4>1 DEF Posted
      <4> QED BY <2>1, <2>7, <2>11, <4>1, <4>2 DEF Posted, Up
    <3> QED BY <3>1, <3>2
  <2>12. ASSUME NEW x \in book'.pending, x[2] = r PROVE Noted(x)'
    <3>1. Noted(x)
      BY <2>1, <2>12 DEF CInv
    <3> QED BY <2>7, <2>12, <3>1 DEF Noted
  <2>13. OwnerServes'
    <3>1. notices \subseteq notices'
      BY DEF CommitRelease, CommitNotify
    <3> QED BY <2>1, <3>1 DEF CInv, OwnerServes
  <2> HIDE DEF st
  <2>14. \A s \in Requests : Owned(s)' /\ Populated(s)' /\ Orderly(s)'
    BY <2>6, <2>8, <2>10
  <2>15. (\A n \in notices' : Posted(n)') /\ (\A x \in book'.pending : Noted(x)')
    BY <2>6, <2>11, <2>12
  <2> QED BY <2>4, <2>6, <2>7, <2>13, <2>14, <2>15 DEF CInv

(* Every step of a commit plan keeps the invariant.                        *)
<1>CommitKeeps.
    ASSUME TInv, CInv, NEW r \in Requests, Commit(r)
    PROVE  TInv' /\ CInv'
  <2> USE <1>CommitKeeps
  <2>1. CASE CommitMap(r)
    BY <2>1, <1>MapKeeps
  <2>2. CASE CommitRelease(r)
    BY <2>2, <1>TellKeeps
  <2>3. CASE CommitNotify(r)
    BY <2>3, <1>TellKeeps
  <2> QED BY <2>1, <2>2, <2>3 DEF Commit

(* So does the deadline.                                                   *)
<1>ExpireKeeps.
    ASSUME TInv, CInv, NEW r \in Requests, Expire(r)
    PROVE  TInv' /\ CInv'
  <2> USE <1>ExpireKeeps
  <2>1. ready' \subseteq ready /\ ~Mild
    BY DEF Expire, Mild
  <2> QED BY <2>1, <1>RollbackKeeps DEF Expire

(* So does every Ready.                                                    *)
<1>ReadyKeeps.
    ASSUME TInv, CInv, NEW m \in ready, OnReady(m) \/ ReadyLost(m)
    PROVE  TInv' /\ CInv'
  <2> USE <1>ReadyKeeps
  <2>1. CASE OnReadyStale(m) \/ ReadyLost(m)
    BY <2>1, <1>DropReady DEF OnReadyStale, ReadyLost
  <2>2. CASE OnReadyFailed(m)
    <3>1. m.req \in Requests /\ ready' \subseteq ready
      BY <2>2 DEF OnReadyFailed, TInv
    <3> QED BY <2>2, <3>1, <1>RollbackKeeps DEF OnReadyFailed
  <2>3. CASE OnReadyOk(m)
    BY <2>3, <1>OkKeeps, OkJudged
  <2> QED BY <2>1, <2>2, <2>3 DEF OnReady
<1> QED BY <1>CommitKeeps, <1>ExpireKeeps, <1>ReadyKeeps

(* A host that forgets a request keeps the records of the others.          *)
LEMMA ForgetTyped ==
    ASSUME TInv, NEW h, NEW r, book' = Forget(h, r)
    PROVE  /\ book' \in BookT
           /\ \A x : x \in book'.pending <=> x \in book.pending /\ ~(x[1] = h /\ x[2] = r)
           /\ book'.src \subseteq book.src /\ book'.pending \subseteq book.pending
           /\ book'.survivor \subseteq book.survivor /\ book'.imported \subseteq book.imported
<1>1. /\ book \in BookT /\ DOMAIN book = {"src", "pending", "survivor", "imported"}
  BY DEF TInv, BookT
<1> DEFINE F(S) == {x \in S : ~(x[1] = h /\ x[2] = r)}
<1>2. book' = [src |-> F(book.src), pending |-> F(book.pending),
               survivor |-> F(book.survivor), imported |-> F(book.imported)]
  BY <1>1 DEF Forget
<1> QED BY <1>1, <1>2, SMTT(30) DEF BookT

(* Abort takes down the pending cells of the request and no other.         *)
LEMMA AbortedInst ==
    ASSUME TInv, NEW h \in Hosts, NEW r \in Requests, inst' = Aborted(h, r)
    PROVE  /\ inst' \in [Hosts -> [Cells -> InstT]]
           /\ \A g \in Hosts, c \in Cells :
                inst'[g][c].up = (inst[g][c].up /\ ~(g = h /\ <<h, r, c>> \in book.pending))
<1> DEFINE Resumed(c) == IF <<h, r, c>> \in book.src
                         THEN Resume(inst[h][c], reqs[r].kind = "merge")
                         ELSE inst[h][c]
           Cleaned(c) == IF <<h, r, c>> \in book.survivor
                         THEN [Resumed(c) EXCEPT
                                 !.live = {e \in @ : <<h, r, e>> \notin book.imported},
                                 !.frozen = FALSE]
                         ELSE Resumed(c)
           F(c) == IF <<h, r, c>> \in book.pending THEN Down ELSE Cleaned(c)
<1>1. inst' = [inst EXCEPT ![h] = [c \in Cells |-> F(c)]]
  BY DEF Aborted
<1>2. \A c \in Cells : inst[h][c] \in InstT
  BY DEF TInv
<1>3. \A c \in Cells : Resumed(c) \in InstT /\ Resumed(c).up = inst[h][c].up
  BY <1>2 DEF InstT, Resume
<1>4. \A c \in Cells : Cleaned(c) \in InstT /\ Cleaned(c).up = inst[h][c].up
  <2> HIDE DEF Resumed
  <2> QED BY <1>3 DEF InstT
<1>5. /\ \A c \in Cells : F(c) \in InstT
      /\ \A c \in Cells : F(c).up = (inst[h][c].up /\ <<h, r, c>> \notin book.pending)
  <2> HIDE DEF Cleaned
  <2>1. Down \in InstT /\ Down.up = FALSE
    BY DEF Down, InstT
  <2>2. \A c \in Cells : inst[h][c].up \in BOOLEAN
    BY <1>2 DEF InstT
  <2> QED BY <1>4, <2>1, <2>2
<1> HIDE DEF F
<1>6. inst \in [Hosts -> [Cells -> InstT]]
  BY DEF TInv
<1>7. \A g \in Hosts : inst'[g] = IF g = h THEN [c \in Cells |-> F(c)] ELSE inst[g]
  BY <1>1, <1>6
<1>8. \A g \in Hosts, c \in Cells : inst[g][c].up \in BOOLEAN
  BY <1>6 DEF InstT
<1>9. \A g \in Hosts, c \in Cells :
        inst'[g][c].up = (inst[g][c].up /\ ~(g = h /\ <<h, r, c>> \in book.pending))
  BY <1>5, <1>7, <1>8, ZenonT(60)
<1> QED BY <1>1, <1>5, <1>6, <1>9, SMTT(30)

(* A newest request that is decided leaves nobody waiting on an instance.  *)
LEMMA NobodyWaits ==
    ASSUME TInv, CInv, NEW r \in Requests, Last(r),
           reqs[r].state \notin {"inflight", "acked"}
    PROVE  \A s \in Requests : reqs[s].state \notin {"inflight", "acked"}
BY EarlierGone DEF Last, Gone

(* The records after a rename are for the same requests.                   *)
LEMMA RenamedTyped ==
    ASSUME TInv, NEW n \in notices, book' = Renamed(n)
    PROVE  /\ book' \in BookT
           /\ \A x \in book'.pending : \E y \in book.pending : y[2] = x[2]
           /\ \A x \in book'.survivor : \E y \in book.survivor : y[2] = x[2]
           /\ \A x \in book'.imported : \E y \in book.imported : y[2] = x[2]
           /\ \A x \in book'.src \union book'.pending \union book'.survivor : x[2] \in Requests
<1>1. /\ book \in BookT /\ DOMAIN book = {"src", "pending", "survivor", "imported"}
      /\ n.host \in Hosts /\ n.cell \in Cells /\ Parent \in Cells
  BY DEF TInv, BookT, NoticeT, Cells
<1> DEFINE G(x) == IF x = <<n.host, x[2], n.cell>> THEN <<n.host, x[2], Parent>> ELSE x
           F(S) == {G(x) : x \in S}
<1>2. book' = [src |-> F(book.src), pending |-> F(book.pending),
               survivor |-> F(book.survivor), imported |-> F(book.imported)]
  BY <1>1 DEF Renamed
<1>3. \A x : G(x)[2] = x[2]
  OBVIOUS
<1>4. /\ \A x \in Record : G(x) \in Record
      /\ \A x \in Hosts \X Nat \X (Entities \union Cells) :
           G(x) \in Hosts \X Nat \X (Entities \union Cells)
  BY <1>1 DEF Record
<1> HIDE DEF G
<1>5. /\ book.src \subseteq Record /\ book.pending \subseteq Record
      /\ book.survivor \subseteq Record
      /\ book.imported \subseteq Hosts \X Nat \X (Entities \union Cells)
  BY <1>1 DEF BookT
<1>6. book' \in BookT
  <2>1. F(book.src) \subseteq Record /\ F(book.pending) \subseteq Record
    BY <1>4, <1>5
  <2>2. F(book.survivor) \subseteq Record
    BY <1>4, <1>5
  <2>3. F(book.imported) \subseteq Hosts \X Nat \X (Entities \union Cells)
    BY <1>4, <1>5
  <2> HIDE DEF F
  <2> QED BY <1>2, <2>1, <2>2, <2>3, SMTT(30) DEF BookT
<1>7. /\ book'.src = F(book.src) /\ book'.pending = F(book.pending)
      /\ book'.survivor = F(book.survivor) /\ book'.imported = F(book.imported)
  <2> HIDE DEF F
  <2> QED BY <1>2, SMTT(30)
<1>8. /\ \A x \in book'.pending : \E y \in book.pending : y[2] = x[2]
      /\ \A x \in book'.survivor : \E y \in book.survivor : y[2] = x[2]
      /\ \A x \in book'.imported : \E y \in book.imported : y[2] = x[2]
  BY <1>3, <1>7
<1>9. \A x \in book'.src \union book'.pending \union book'.survivor :
        \E y \in book.src \union book.pending \union book.survivor : y[2] = x[2]
  BY <1>3, <1>7, SMTT(30)
<1> QED BY <1>6, <1>8, <1>9 DEF TInv

(* With one request at a time, a request that begins finds all the others  *)
(* gone.                                                                   *)
LEMMA OthersGone ==
    ASSUME TInv, CInv, OneByOne, Len(reqs) < MaxRequests, CallersWait => Open = {}
    PROVE  \A s \in Requests : Gone(s)
<1>1. Len(reqs) \in Nat /\ Requests = 1..Len(reqs)
  BY SMTT(30) DEF TInv, Requests
<1>2. Open = {}
  BY DEF OneByOne
<1> SUFFICES ASSUME NEW s \in Requests PROVE Gone(s)
  OBVIOUS
<1>3. reqs[s].state \in {"committed", "rolledback"}
  BY <1>2 DEF Open
<1>4. CASE MaxRequests = 1
  BY <1>1, <1>4, SMTT(30)
<1>5. CASE Mild
  <2>1. Orderly(s) /\ Owned(s) /\ Built(s)
    BY DEF CInv
  <2>2. \A n \in notices : n.req = s => n.kind \notin {"rename", "release"}
    BY <1>3, <1>5, <2>1 DEF Orderly
  <2>3. CASE reqs[s].state = "committed"
    BY <1>3, <2>1, <2>2, <2>3 DEF Gone, Owned
  <2>4. CASE reqs[s].state = "rolledback"
    <3>1. reqs[s].kind = "migrate"
      BY <1>5, <2>1, <2>4 DEF Orderly
    <3>2. Len(reqs[s].cmds) = 1 /\ At(s, 1, "done") /\ \A x \in book.pending : x[2] # s
      BY <1>5, <2>1, <2>4, <3>1 DEF Orderly, Built
    <3>3. Commands(s) = {1}
      BY <3>2, SMTT(30) DEF Commands
    <3> QED BY <1>3, <2>2, <3>2, <3>3 DEF Gone
  <2> QED BY <1>3, <2>3, <2>4
<1> QED BY <1>4, <1>5 DEF OneByOne, Mild

(* A request that begins when its turn has come keeps CInv.                *)
LEMMA RequestKeeps ==
    TInv /\ CInv /\ OneByOne /\ BeginRequest => TInv' /\ CInv'
(* What begins is built of commands that are still to be executed.         *)
<1>BeginKeeps.
    ASSUME TInv, CInv, OneByOne, NEW kind, NEW cmds \in Seq(CommandT), Begin(kind, cmds),
           \A i \in 1..Len(cmds) :
             /\ cmds[i].pc = "sent" /\ owner[cmds[i].src] = cmds[i].srcHost
             /\ kind = "merge" => owner[cmds[i].dst] = cmds[i].dstHost,
           kind # "merge" =>
             \A i, j \in 1..Len(cmds) : cmds[i].dst = cmds[j].dst => i = j,
           kind = "split" =>
             \A i \in 1..Len(cmds) : cmds[i].src = Parent /\ cmds[i].dst \in ChildSet,
           kind = "merge" =>
             \A i \in 1..Len(cmds) :
               /\ cmds[i].src \in ChildSet /\ cmds[i].dst \in ChildSet
               /\ \A j \in 1..Len(cmds) : /\ cmds[i].src # cmds[j].dst
                                          /\ cmds[i].dst = cmds[j].dst
                                          /\ cmds[i].dstHost = cmds[j].dstHost,
           kind = "migrate" =>
             /\ Len(cmds) = 1
             /\ cmds[1].src = cmds[1].dst /\ cmds[1].srcHost # cmds[1].dstHost
    PROVE  TInv' /\ CInv'
  <2> USE <1>BeginKeeps
  <2> DEFINE v == [kind |-> kind, cmds |-> cmds, acked |-> {}, okHosts |-> {},
                   state |-> "inflight"]
  <2>0. PICK r : r = Len(reqs) + 1
    OBVIOUS
  <2>1. /\ kind \in Kinds /\ reqs' = Append(reqs, v) /\ Len(reqs) < MaxRequests
        /\ CallersWait => Open = {}
        /\ UNCHANGED <<owner, inst, quad, book, ready, notices>>
    BY DEF Begin
  <2>2. v \in RequestT /\ v.kind = kind /\ v.cmds = cmds /\ v.acked = {} /\ v.okHosts = {}
        /\ v.state = "inflight"
    BY <2>1 DEF RequestT, States
  <2> HIDE DEF v
  <2>3. /\ reqs' \in Seq(RequestT) /\ Len(reqs') = Len(reqs) + 1 /\ Len(reqs) \in Nat
        /\ reqs'[r] = v /\ \A s \in 1..Len(reqs) : reqs'[s] = reqs[s]
    BY <2>0, <2>1, <2>2, SMTT(30) DEF TInv
  <2>4. /\ Requests = 1..Len(reqs) /\ Requests' = Requests \union {r} /\ r \notin Requests
        /\ r = Len(reqs') /\ \A s \in Requests : s < Len(reqs')
    BY <2>0, <2>3, SMTT(30) DEF Requests
  <2>5. \A s \in Requests :
          /\ reqs'[s] = reqs[s] /\ Commands(s)' = Commands(s)
          /\ (Merge(s)' <=> Merge(s)) /\ ~Last(s)'
          /\ \A i : Cmd(s, i)' = Cmd(s, i) /\ \A p : At(s, i, p)' <=> At(s, i, p)
    BY <2>3, <2>4 DEF Commands, Merge, Last, Cmd, At
  <2>6. /\ Commands(r)' = 1..Len(cmds) /\ (Merge(r)' <=> kind = "merge") /\ Last(r)'
        /\ \A i : Cmd(r, i)' = cmds[i] /\ \A p : At(r, i, p)' <=> cmds[i].pc = p
    BY <2>2, <2>3, <2>4 DEF Commands, Merge, Last, Cmd, At
  <2>7. \A s \in Requests : Gone(s)
    BY <2>1, OthersGone
  <2>8. TInv'
    <3>1. \A s \in Requests : Destinations(s)' = Destinations(s)
      BY <2>5, SMTT(30) DEF Destinations
    <3>2. \A s \in Requests' : /\ reqs'[s].acked \subseteq Commands(s)'
                               /\ reqs'[s].okHosts \subseteq Destinations(s)'
      <4>1. ASSUME NEW s \in Requests
            PROVE  /\ reqs'[s].acked \subseteq Commands(s)'
                   /\ reqs'[s].okHosts \subseteq Destinations(s)'
        <5>1. reqs[s].acked \subseteq Commands(s) /\ reqs[s].okHosts \subseteq Destinations(s)
          BY DEF TInv
        <5>2. reqs'[s] = reqs[s] /\ Commands(s)' = Commands(s) /\ Destinations(s)' = Destinations(s)
          BY <2>5, <3>1
        <5> QED BY <5>1, <5>2
      <4>2. reqs'[r].acked = {} /\ reqs'[r].okHosts = {}
        BY <2>2, <2>3
      <4> QED BY <2>4, <4>1, <4>2
    <3>3. \A m \in ready' : m.req \in Requests' /\ m.cmd \in Commands(m.req)'
      BY <2>1, <2>4, <2>5 DEF TInv
    <3>4. \A x \in book'.src \union book'.pending \union book'.survivor : x[2] \in Requests'
      BY <2>1, <2>4 DEF TInv
    <3>5. \A n \in notices' : n.req \in Requests'
      BY <2>1, <2>4 DEF TInv
    <3>6. /\ owner' \in [Cells -> Hosts \union {NoHost}]
          /\ inst' \in [Hosts -> [Cells -> InstT]]
          /\ quad' \in [Entities -> 1..Len(Children)]
          /\ book' \in BookT /\ ready' \in SUBSET MsgT /\ notices' \in SUBSET NoticeT
      BY <2>1 DEF TInv
    <3> QED BY <2>3, <3>2, <3>3, <3>4, <3>5, <3>6 DEF TInv
  <2>9. \A s \in Requests : Gone(s)'
    BY <2>1, <2>5, <2>7 DEF Gone
  <2>10. \A s \in Requests : Built(s)'
    BY <2>5, SMTT(30) DEF CInv, Built
  <2>11. ASSUME NEW s \in Requests PROVE Owned(s)'
    <3>1. Owned(s) /\ Gone(s)
      BY <2>7 DEF CInv
    <3>2. reqs'[s] = reqs[s] /\ reqs[s].state \in {"committed", "rolledback"} /\ ~Last(s)'
      BY <2>5, <3>1 DEF Gone
    <3> QED BY <2>5, <3>1, <3>2 DEF Owned
  <2>12. \A s \in Requests : Populated(s)'
    BY <2>5, <2>7 DEF Populated, Gone
  <2>13. ASSUME NEW s \in Requests PROVE Orderly(s)'
    <3>1. Orderly(s)
      BY DEF CInv
    <3>2. /\ reqs'[s] = reqs[s] /\ Commands(s)' = Commands(s) /\ (Merge(s)' <=> Merge(s))
          /\ \A i : Cmd(s, i)' = Cmd(s, i) /\ \A p : At(s, i, p)' <=> At(s, i, p)
          /\ book' = book /\ ready' = ready /\ notices' = notices
      BY <2>1, <2>5
    <3> QED BY <3>1, <3>2, SMTT(30) DEF Orderly, Mild
  <2>14. ASSUME NEW n \in notices' PROVE Posted(n)'
    <3>1. n \in notices /\ Posted(n) /\ n.req \in Requests
      BY <2>1 DEF CInv, Posted
    <3>2. n.kind \notin {"rename", "release"}
      BY <2>7, <3>1 DEF Gone
    <3>3. reqs'[n.req] = reqs[n.req] /\ n.req \in Requests'
      BY <2>4, <2>5, <3>1
    <3> QED BY <3>1, <3>2, <3>3 DEF Posted
  <2>15. ASSUME NEW x \in book'.pending PROVE Noted(x)'
    <3>1. Noted(x) /\ x[2] \in Requests
      BY <2>1 DEF CInv, Noted
    <3>2. /\ reqs'[x[2]] = reqs[x[2]] /\ x[2] \in Requests'
          /\ Commands(x[2])' = Commands(x[2]) /\ (Merge(x[2])' <=> Merge(x[2]))
          /\ \A i : Cmd(x[2], i)' = Cmd(x[2], i)
      BY <2>4, <2>5, <3>1
    <3>3. owner' = owner /\ inst' = inst
      BY <2>1
    <3> QED BY <3>1, <3>2, <3>3, SMTT(30) DEF Noted, Up
  <2>16. ASSUME NEW m \in ready' PROVE Said(m)'
    <3>1. Said(m) /\ m.req \in Requests
      BY <2>1 DEF CInv, Said
    <3> QED BY <2>4, <2>5, <3>1 DEF Said
  <2>17. OwnerServes'
    BY <2>1 DEF CInv, OwnerServes
  <2>18. Built(r)'
    <3>1. \A i \in 1..Len(cmds) : /\ cmds[i].src \in Cells /\ cmds[i].srcHost \in Hosts
                                  /\ cmds[i].dst \in Cells /\ cmds[i].dstHost \in Hosts
      <4>1. \A i \in 1..Len(cmds) : cmds[i] \in CommandT
        BY SMTT(30)
      <4> QED BY <4>1 DEF CommandT
    <3> QED BY <2>2, <2>3, <2>6, <3>1, SMTT(30) DEF Built
  <2>19. Owned(r)'
    BY <2>1, <2>2, <2>3, <2>6, SMTT(30) DEF Owned
  <2>20. /\ \A m \in ready' : m.req # r
         /\ \A x \in book'.pending : x[2] # r
         /\ \A n \in notices' : n.req # r
    BY <2>1, <2>4, SMTT(30) DEF TInv
  <2>21. Populated(r)'
    BY <2>2, <2>3, <2>6, <2>20 DEF Populated, OkSaid
  <2>22. Orderly(r)'
    <3>1. ASSUME kind = "migrate" PROVE 1 \in 1..Len(cmds)
      <4>1. Len(cmds) = 1
        BY <3>1
      <4>2. 1 \in 1..1
        BY SMTT(30)
      <4> QED BY <4>1, <4>2
    <3>2. reqs'[r].state = "inflight" /\ reqs'[r].kind = kind
      BY <2>2, <2>3
    <3> QED BY <2>6, <2>20, <3>1, <3>2, SMTT(30) DEF Orderly
  <2>23. ASSUME NEW s \in Requests'
         PROVE  /\ Built(s)' /\ Owned(s)' /\ Populated(s)' /\ Orderly(s)'
                /\ s < Len(reqs') => Gone(s)'
    <3>1. CASE s \in Requests
      BY <2>9, <2>10, <2>11, <2>12, <2>13, <3>1
    <3>2. CASE s = r
      <4>1. ~(s < Len(reqs'))
        BY <2>3, <2>4, <3>2, SMTT(30)
      <4> QED BY <2>18, <2>19, <2>21, <2>22, <3>2, <4>1
    <3> QED BY <2>4, <3>1, <3>2
  <2> QED BY <2>8, <2>14, <2>15, <2>16, <2>17, <2>23 DEF CInv

(* BeginSplit keeps the invariant.                                         *)
<1>SplitKeeps.
    ASSUME TInv, CInv, OneByOne, NEW assign \in [1..Len(Children) -> Hosts],
           BeginSplit(assign)
    PROVE  TInv' /\ CInv'
  <2> USE <1>SplitKeeps
  <2>0. Len(Children) \in Nat /\ 1..Len(Children) \subseteq Nat
    BY LayoutAssumption, SMTT(30)
  <2>1. PICK cmds : cmds = [i \in 1..Len(Children) |->
                              Command(Parent, owner[Parent], Children[i], assign[i])]
    OBVIOUS
  <2>2. Begin("split", cmds) /\ owner[Parent] \in Hosts /\ Parent \in Cells
    BY <2>1 DEF BeginSplit, TInv, Cells
  <2>3. \A i \in 1..Len(Children) : Children[i] \in ChildSet /\ Children[i] \in Cells
    BY DEF ChildSet, Cells
  <2>4. \A i \in 1..Len(Children) :
          /\ cmds[i] \in CommandT /\ cmds[i].pc = "sent"
          /\ cmds[i].src = Parent /\ cmds[i].srcHost = owner[Parent]
          /\ cmds[i].dst = Children[i] /\ cmds[i].dstHost = assign[i]
    BY <2>1, <2>2, <2>3 DEF Command, CommandT, Steps
  <2>5. cmds \in Seq(CommandT) /\ Len(cmds) = Len(Children)
    <3>1. cmds \in [1..Len(Children) -> CommandT]
      BY <2>1, <2>4
    <3> QED BY <2>0, <3>1, SMTT(30)
  <2>6. \A i, j \in 1..Len(cmds) : cmds[i].dst = cmds[j].dst => i = j
    BY <2>4, <2>5, LayoutAssumption, SMTT(30)
  <2>7. \A i \in 1..Len(cmds) : /\ cmds[i].pc = "sent" /\ owner[cmds[i].src] = cmds[i].srcHost
                                /\ cmds[i].src = Parent /\ cmds[i].dst \in ChildSet
    BY <2>3, <2>4, <2>5
  <2> QED BY <2>2, <2>5, <2>6, <2>7, <1>BeginKeeps

(* BeginMigrate keeps the invariant.                                       *)
<1>MigrateKeeps.
    ASSUME TInv, CInv, OneByOne, NEW c \in Cells, NEW dest \in Hosts,
           BeginMigrate(c, dest)
    PROVE  TInv' /\ CInv'
  <2> USE <1>MigrateKeeps
  <2>1. PICK k : k = Command(c, owner[c], c, dest)
    OBVIOUS
  <2>2. Begin("migrate", <<k>>) /\ owner[c] \in Hosts /\ owner[c] # dest
    BY <2>1 DEF BeginMigrate, TInv
  <2>3. /\ k \in CommandT /\ k.pc = "sent" /\ k.src = c /\ k.srcHost = owner[c]
        /\ k.dst = c /\ k.dstHost = dest
    BY <2>1, <2>2 DEF Command, CommandT, Steps
  <2>4. <<k>> \in Seq(CommandT) /\ Len(<<k>>) = 1 /\ <<k>>[1] = k
    BY <2>3, SMTT(30)
  <2>5. \A i \in 1..Len(<<k>>) : i = 1
    BY <2>4, SMTT(30)
  <2>6. PICK cmds : cmds = <<k>>
    OBVIOUS
  <2>7. /\ cmds \in Seq(CommandT) /\ Len(cmds) = 1 /\ cmds[1] = k /\ Begin("migrate", cmds)
        /\ \A i \in 1..Len(cmds) : cmds[i] = k /\ i = 1
    BY <2>2, <2>4, <2>5, <2>6
  <2>8. \A i \in 1..Len(cmds) : cmds[i].pc = "sent" /\ owner[cmds[i].src] = cmds[i].srcHost
    BY <2>3, <2>7
  <2>9. \A i, j \in 1..Len(cmds) : cmds[i].dst = cmds[j].dst => i = j
    BY <2>7
  <2>10. cmds[1].src = cmds[1].dst /\ cmds[1].srcHost # cmds[1].dstHost
    BY <2>2, <2>3, <2>7
  <2> QED BY <2>7, <2>8, <2>9, <2>10, <1>BeginKeeps

(* BeginMerge keeps the invariant: the survivor is no donor.               *)
<1>MergeKeeps.
    ASSUME TInv, CInv, OneByOne, NEW rendezvous \in Hosts, BeginMerge(rendezvous)
    PROVE  TInv' /\ CInv'
  <2> USE <1>MergeKeeps
  <2> DEFINE L == Len(Children)
  <2>0. L \in Nat /\ L > 1 /\ 1..L \subseteq Nat
        /\ \A i, j \in 1..L : Children[i] = Children[j] => i = j
    BY LayoutAssumption, SMTT(30)
  <2>1. PICK s \in 1..L :
          Begin("merge", [i \in 1..(L - 1) |->
              Command(Children[IF i < s THEN i ELSE i + 1],
                      owner[Children[IF i < s THEN i ELSE i + 1]],
                      Children[s], owner[Children[s]])])
    BY DEF BeginMerge
  <2> DEFINE D(i) == IF i < s THEN i ELSE i + 1
  <2>3. PICK cmds : cmds = [i \in 1..(L - 1) |->
                              Command(Children[D(i)], owner[Children[D(i)]],
                                      Children[s], owner[Children[s]])]
    OBVIOUS
  <2>4. /\ Begin("merge", cmds)
        /\ \A c \in ChildSet : owner[c] # NoHost
    BY <2>1, <2>3 DEF BeginMerge
  <2>5. \A c \in ChildSet : owner[c] \in Hosts /\ c \in Cells
    BY <2>4 DEF TInv, Cells
  <2>6. \A i \in 1..L : Children[i] \in ChildSet
    BY DEF ChildSet
  <2>7. s \in 1..L /\ \A i \in 1..(L - 1) : D(i) \in 1..L /\ D(i) # s
    BY <2>0, SMTT(30)
  <2>8. \A i \in 1..(L - 1) : Children[D(i)] \in ChildSet /\ Children[D(i)] # Children[s]
    BY <2>0, <2>6, <2>7
  <2> HIDE DEF D
  <2>9. \A i \in 1..(L - 1) :
          /\ cmds[i] \in CommandT /\ cmds[i].pc = "sent"
          /\ cmds[i].src = Children[D(i)] /\ cmds[i].srcHost = owner[Children[D(i)]]
          /\ cmds[i].dst = Children[s] /\ cmds[i].dstHost = owner[Children[s]]
    <3>1. Children[s] \in ChildSet
      BY <2>6, <2>7
    <3> QED BY <2>3, <2>5, <2>8, <3>1 DEF Command, CommandT, Steps
  <2>10. cmds \in Seq(CommandT) /\ Len(cmds) = L - 1
    <3>1. cmds \in [1..(L - 1) -> CommandT] /\ L - 1 \in Nat
      BY <2>0, <2>3, <2>9, SMTT(30)
    <3> QED BY <3>1, SMTT(30)
  <2> HIDE DEF L
  <2>11. \A i \in 1..Len(cmds) :
           /\ cmds[i].pc = "sent" /\ owner[cmds[i].src] = cmds[i].srcHost
           /\ owner[cmds[i].dst] = cmds[i].dstHost
           /\ cmds[i].src \in ChildSet /\ cmds[i].dst \in ChildSet
           /\ \A j \in 1..Len(cmds) : /\ cmds[i].src # cmds[j].dst
                                      /\ cmds[i].dst = cmds[j].dst
                                      /\ cmds[i].dstHost = cmds[j].dstHost
    BY <2>6, <2>7, <2>8, <2>9, <2>10
  <2> QED BY <2>4, <2>10, <2>11, <1>BeginKeeps

(* So every new request does.                                              *)
<1>RequestKeeps.
    ASSUME TInv, CInv, OneByOne, BeginRequest
    PROVE  TInv' /\ CInv'
  BY <1>RequestKeeps, <1>SplitKeeps, <1>MergeKeeps, <1>MigrateKeeps DEF BeginRequest
<1> QED BY <1>RequestKeeps

(* The steps that leave the requests alone keep CInv: the four handlers on *)
(* the hosts, the players' moves and arrivals, and stuttering.             *)
LEMMA OthersKeep ==
    TInv /\ CInv =>
      /\ \A n \in notices : Handle(n) => TInv' /\ CInv'
      /\ World \/ UNCHANGED vars => TInv' /\ CInv'
(* What every handler leaves of CInv.                                      *)
<1>HandledCommon.
    ASSUME TInv, CInv, UNCHANGED <<owner, quad, reqs, ready>>, notices' \subseteq notices,
           inst' \in [Hosts -> [Cells -> InstT]], book' \in BookT,
           \A x \in book'.src \union book'.pending \union book'.survivor : x[2] \in Requests,
           \A x \in book'.pending : \E y \in book.pending : y[2] = x[2],
           \A x \in book.pending : reqs[x[2]].state = "inflight" => x \in book'.pending
    PROVE  /\ TInv'
           /\ \A s \in Requests : /\ Built(s)' /\ Owned(s)' /\ Orderly(s)'
                                  /\ s < Len(reqs) => Gone(s)'
           /\ \A m \in ready' : Said(m)'
  <2> USE <1>HandledCommon
  <2>1. /\ Requests' = Requests
        /\ \A s : /\ Commands(s)' = Commands(s) /\ Destinations(s)' = Destinations(s)
                  /\ (Merge(s)' <=> Merge(s)) /\ (Last(s)' <=> Last(s))
                  /\ \A i : Cmd(s, i)' = Cmd(s, i) /\ \A p : At(s, i, p)' <=> At(s, i, p)
    BY DEF Requests, Commands, Destinations, Cmd, Merge, Last, At
  <2>2. TInv'
    BY <2>1 DEF TInv
  <2>3. ASSUME NEW s \in Requests
        PROVE  Built(s)' /\ Owned(s)' /\ (s < Len(reqs) => Gone(s)')
    BY <2>1, SMTT(30) DEF CInv, Built, Owned, Gone
  <2>4. ASSUME NEW s \in Requests PROVE Orderly(s)'
    <3>1. Orderly(s)
      BY DEF CInv
    <3>2. ASSUME NEW i, <<Cmd(s, i).dstHost, s, Cmd(s, i).dst>> \in book.pending,
                 reqs[s].state = "inflight"
          PROVE  <<Cmd(s, i).dstHost, s, Cmd(s, i).dst>> \in book'.pending
      BY <3>2
    <3> QED BY <2>1, <3>1, <3>2 DEF Orderly, Mild
  <2>5. \A m \in ready' : Said(m)'
    BY <2>1 DEF CInv, Said
  <2> QED BY <2>2, <2>3, <2>4, <2>5

(* CInv after a handler, from its conjuncts.                               *)
<1>HandledAll.
    ASSUME TInv', \A s \in Requests : /\ Built(s)' /\ Owned(s)' /\ Orderly(s)'
                                      /\ s < Len(reqs) => Gone(s)',
           reqs' = reqs, \A m \in ready' : Said(m)',
           \A n \in notices' : Posted(n)', \A x \in book'.pending : Noted(x)',
           \A s \in Requests : Populated(s)', OwnerServes'
    PROVE  CInv'
  <2> USE <1>HandledAll
  <2>1. Requests' = Requests
    BY DEF Requests
  <2> QED BY <2>1 DEF CInv

(* While no cell goes up or down, what is said of running cells stays.     *)
<1>UpsSame.
    ASSUME TInv, CInv, UNCHANGED <<owner, quad, reqs, ready>>, notices' \subseteq notices,
           \A n \in notices \ notices' : n.kind # "rename",
           \A h \in Hosts, c \in Cells : Up(h, c)' = Up(h, c),
           book'.pending \subseteq book.pending
    PROVE  /\ \A n \in notices' : Posted(n)'
           /\ \A x \in book'.pending : Noted(x)'
           /\ \A s \in Requests : Populated(s)'
           /\ OwnerServes'
  <2> USE <1>UpsSame
  <2>1. /\ Requests' = Requests
        /\ \A s : /\ Commands(s)' = Commands(s)
                  /\ (Merge(s)' <=> Merge(s)) /\ (Last(s)' <=> Last(s))
                  /\ \A i : Cmd(s, i)' = Cmd(s, i) /\ \A p : At(s, i, p)' <=> At(s, i, p)
                  /\ \A i : (OkSaid(s, i)' <=> OkSaid(s, i)) /\ (Failed(s, i)' <=> Failed(s, i))
    BY DEF Requests, Commands, Cmd, Merge, Last, At, OkSaid, Failed
  <2>2. \A n \in notices : n.cell \in Cells /\ n.host \in Hosts
    BY DEF TInv, NoticeT
  <2>3. ASSUME NEW n \in notices' PROVE Posted(n)'
    BY <2>1, <2>2 DEF CInv, Posted
  <2>4. ASSUME NEW x \in book'.pending PROVE Noted(x)'
    BY <2>1 DEF CInv, Noted
  <2>5. ASSUME NEW s \in Requests PROVE Populated(s)'
    <3>1. Populated(s)
      BY DEF CInv
    <3>2. \A i \in Commands(s) : Up(Cmd(s, i).dstHost, Cmd(s, i).dst)'
                                 <=> Up(Cmd(s, i).dstHost, Cmd(s, i).dst)
      BY <2>1, CommandFields DEF Up
    <3> QED BY <2>1, <3>1, <3>2 DEF Populated
  <2>6. OwnerServes'
    <3> SUFFICES ASSUME NEW c \in Cells, owner[c] # NoHost
                 PROVE  \/ inst'[owner[c]][c].up
                        \/ c = Parent /\ \E n \in notices' :
                             /\ n.kind = "rename" /\ n.host = owner[c]
                             /\ inst'[n.host][n.cell].up
      BY DEF OwnerServes
    <3>1. owner[c] \in Hosts
      BY DEF TInv
    <3> QED BY <2>2, <3>1, SMTT(30) DEF CInv, OwnerServes, Up
  <2> QED BY <2>3, <2>4, <2>5, <2>6

(* Then there is nothing to show about destinations.                       *)
<1>VacantlyPopulated.
    ASSUME reqs' = reqs,
           \A s \in Requests : reqs[s].state \notin {"inflight", "acked"}
    PROVE  \A s \in Requests : Populated(s)'
  BY <1>VacantlyPopulated DEF Populated, Merge

(* A host that handles Abort takes down no cell that the map gives it, be  *)
(* the Abort as late as it may.                                            *)
<1>AbortKeeps.
    ASSUME TInv, CInv, NEW n \in notices, HandleAbort(n)
    PROVE  TInv' /\ CInv'
  <2> USE <1>AbortKeeps
  <2>1. /\ n.kind = "abort" /\ n.req \in Requests /\ n.host \in Hosts
        /\ reqs[n.req].state = "rolledback"
        /\ UNCHANGED <<owner, quad, reqs, ready>> /\ notices' = notices \ {n}
        /\ inst' = Aborted(n.host, n.req) /\ book' = Forget(n.host, n.req)
    BY DEF CInv, Posted, HandleAbort
  <2>2. /\ book' \in BookT
        /\ \A x : x \in book'.pending <=> x \in book.pending /\ ~(x[1] = n.host /\ x[2] = n.req)
        /\ book'.src \subseteq book.src /\ book'.pending \subseteq book.pending
        /\ book'.survivor \subseteq book.survivor
    BY <2>1, ForgetTyped
  <2>3. /\ inst' \in [Hosts -> [Cells -> InstT]]
        /\ \A g \in Hosts, c \in Cells :
             inst'[g][c].up = (inst[g][c].up /\ ~(g = n.host /\ <<n.host, n.req, c>> \in book.pending))
    BY <2>1, AbortedInst
  <2>4. /\ TInv'
        /\ \A s \in Requests : /\ Built(s)' /\ Owned(s)' /\ Orderly(s)'
                               /\ s < Len(reqs) => Gone(s)'
        /\ \A m \in ready' : Said(m)'
    <3>1. notices' \subseteq notices
      BY <2>1
    <3>2. \A x \in book'.src \union book'.pending \union book'.survivor : x[2] \in Requests
      BY <2>2 DEF TInv
    <3>3. \A x \in book'.pending : \E y \in book.pending : y[2] = x[2]
      BY <2>2
    <3>4. \A x \in book.pending : reqs[x[2]].state = "inflight" => x \in book'.pending
      BY <2>1, <2>2
    <3> QED BY <2>1, <2>2, <2>3, <3>1, <3>2, <3>3, <3>4, <1>HandledCommon
  <2>5. /\ \A k \in notices' : Posted(k)'
        /\ \A x \in book'.pending : Noted(x)'
        /\ \A s \in Requests : Populated(s)'
        /\ OwnerServes'
    <3>1. CASE Last(n.req)
      <4>1. \A s \in Requests : reqs[s].state \notin {"inflight", "acked"}
        BY <2>1, <3>1, NobodyWaits
      <4>2. \A s \in Requests : Populated(s)'
        BY <2>1, <4>1, <1>VacantlyPopulated
      <4>3. \A k \in notices : k.kind # "rename"
        BY <2>1, <3>1 DEF CInv, Posted, Last
      <4>4. \A k \in notices' : Posted(k)'
        BY <2>1, <4>3 DEF CInv, Posted, Requests, Commands, Cmd, Last
      <4>5. ASSUME NEW x \in book'.pending PROVE Noted(x)'
        <5>1. Noted(x) /\ reqs[x[2]].state # "inflight"
          BY <2>2, <4>1 DEF CInv, Noted
        <5> QED BY <2>1, <5>1 DEF Noted, Requests, Commands, Cmd, Merge
      <4>6. OwnerServes'
        <5> SUFFICES ASSUME NEW c \in Cells, owner[c] # NoHost
                     PROVE  inst'[owner[c]][c].up
          BY <2>1 DEF OwnerServes
        <5>1. owner[c] \in Hosts /\ inst[owner[c]][c].up
          BY <4>3 DEF TInv, CInv, OwnerServes
        <5>2. ~(owner[c] = n.host /\ <<n.host, n.req, c>> \in book.pending)
          BY <2>1 DEF CInv, Noted
        <5> QED BY <2>3, <5>1, <5>2
      <4> QED BY <4>2, <4>4, <4>5, <4>6
    <3>2. CASE ~Last(n.req)
      <4>1. Gone(n.req)
        BY <2>1, <3>2, EarlierGone
      <4>2. \A c : <<n.host, n.req, c>> \notin book.pending
        BY <2>1, <4>1 DEF Gone
      <4>3. \A g \in Hosts, c \in Cells : inst[g][c].up \in BOOLEAN
        BY DEF TInv, InstT
      <4>4. \A g \in Hosts, c \in Cells : Up(g, c)' = Up(g, c)
        <5> SUFFICES ASSUME NEW g \in Hosts, NEW c \in Cells
                     PROVE  inst'[g][c].up = inst[g][c].up
          BY DEF Up
        <5>1. inst'[g][c].up = (inst[g][c].up
                                  /\ ~(g = n.host /\ <<n.host, n.req, c>> \in book.pending))
          BY <2>3
        <5>2. ~(g = n.host /\ <<n.host, n.req, c>> \in book.pending)
          BY <4>2
        <5>3. inst[g][c].up \in BOOLEAN
          BY <4>3
        <5> QED BY <5>1, <5>2, <5>3
      <4>5. /\ notices' \subseteq notices
            /\ \A k \in notices \ notices' : k.kind # "rename"
        BY <2>1
      <4> QED BY <2>1, <2>2, <4>4, <4>5, <1>UpsSame
    <3> QED BY <3>1, <3>2
  <2> QED BY <2>1, <2>4, <2>5, <1>HandledAll

(* A host that handles Commit only forgets.                                *)
<1>CommitHandled.
    ASSUME TInv, CInv, NEW n \in notices, HandleCommit(n)
    PROVE  TInv' /\ CInv'
  <2> USE <1>CommitHandled
  <2>1. /\ n.kind = "commit" /\ n.req \in Requests
        /\ reqs[n.req].state = "committed"
        /\ UNCHANGED <<owner, quad, reqs, ready>> /\ notices' = notices \ {n}
        /\ inst' = inst /\ book' = Forget(n.host, n.req)
    BY DEF CInv, Posted, HandleCommit
  <2>2. /\ book' \in BookT
        /\ \A x : x \in book'.pending <=> x \in book.pending /\ ~(x[1] = n.host /\ x[2] = n.req)
        /\ book'.src \subseteq book.src /\ book'.pending \subseteq book.pending
        /\ book'.survivor \subseteq book.survivor
    BY <2>1, ForgetTyped
  <2>3. inst' \in [Hosts -> [Cells -> InstT]]
    BY <2>1 DEF TInv
  <2>4. /\ TInv'
        /\ \A s \in Requests : /\ Built(s)' /\ Owned(s)' /\ Orderly(s)'
                               /\ s < Len(reqs) => Gone(s)'
        /\ \A m \in ready' : Said(m)'
    <3>1. notices' \subseteq notices
      BY <2>1
    <3>2. \A x \in book'.src \union book'.pending \union book'.survivor : x[2] \in Requests
      BY <2>2 DEF TInv
    <3>3. \A x \in book'.pending : \E y \in book.pending : y[2] = x[2]
      BY <2>2
    <3>4. \A x \in book.pending : reqs[x[2]].state = "inflight" => x \in book'.pending
      BY <2>1, <2>2
    <3> QED BY <2>1, <2>2, <2>3, <3>1, <3>2, <3>3, <3>4, <1>HandledCommon
  <2>5. /\ notices' \subseteq notices
        /\ \A k \in notices \ notices' : k.kind # "rename"
        /\ \A g \in Hosts, c \in Cells : Up(g, c)' = Up(g, c)
    BY <2>1 DEF Up
  <2>6. /\ \A k \in notices' : Posted(k)'
        /\ \A x \in book'.pending : Noted(x)'
        /\ \A s \in Requests : Populated(s)'
        /\ OwnerServes'
    BY <2>1, <2>2, <2>5, <1>UpsSame
  <2> QED BY <2>1, <2>4, <2>6, <1>HandledAll

(* CellRelease takes down a source that the map no longer names, and never *)
(* a survivor whose rename is still to come.                               *)
<1>ReleaseKeeps.
    ASSUME TInv, CInv, NEW n \in notices, HandleRelease(n)
    PROVE  TInv' /\ CInv'
  <2> USE <1>ReleaseKeeps
  <2>1. /\ n.kind = "release" /\ n.req \in Requests /\ n.host \in Hosts /\ n.cell \in Cells
        /\ Last(n.req) /\ reqs[n.req].state \in {"releasing", "committed"}
        /\ UNCHANGED <<owner, quad, reqs, ready>> /\ notices' = notices \ {n}
        /\ inst' = [inst EXCEPT ![n.host][n.cell] = Down] /\ book' = book
    BY DEF CInv, Posted, HandleRelease, TInv, NoticeT
  <2>2. PICK i \in Commands(n.req) : n.cell = Cmd(n.req, i).src /\ n.host = Cmd(n.req, i).srcHost
    BY <2>1 DEF CInv, Posted
  <2>3. owner[n.cell] # n.host
    BY <2>1, <2>2 DEF CInv, Owned
  <2>4. inst \in [Hosts -> [Cells -> InstT]] /\ Down \in InstT
    BY DEF TInv, Down, InstT
  <2>5. /\ inst' \in [Hosts -> [Cells -> InstT]]
        /\ \A g \in Hosts, c \in Cells : ~(g = n.host /\ c = n.cell) => inst'[g][c] = inst[g][c]
    BY <2>1, <2>4
  <2>6. /\ TInv'
        /\ \A s \in Requests : /\ Built(s)' /\ Owned(s)' /\ Orderly(s)'
                               /\ s < Len(reqs) => Gone(s)'
        /\ \A m \in ready' : Said(m)'
    <3>1. notices' \subseteq notices /\ book' \in BookT
      BY <2>1 DEF TInv
    <3>2. \A x \in book'.src \union book'.pending \union book'.survivor : x[2] \in Requests
      BY <2>1 DEF TInv
    <3>3. \A x \in book'.pending : \E y \in book.pending : y[2] = x[2]
      BY <2>1
    <3>4. \A x \in book.pending : reqs[x[2]].state = "inflight" => x \in book'.pending
      BY <2>1
    <3> QED BY <2>1, <2>5, <3>1, <3>2, <3>3, <3>4, <1>HandledCommon
  <2>7. \A s \in Requests : reqs[s].state \notin {"inflight", "acked"}
    BY <2>1, NobodyWaits
  <2>8. \A s \in Requests : Populated(s)'
    BY <2>1, <2>7, <1>VacantlyPopulated
  <2>9. ASSUME NEW k \in notices, k.kind = "rename"
        PROVE  ~(k.host = n.host /\ k.cell = n.cell) /\ k.host \in Hosts /\ k.cell \in Cells
    <3>1. k.req = n.req /\ Merge(n.req) /\ k.cell = Cmd(n.req, 1).dst /\ 1 \in Commands(n.req)
      BY <2>1, <2>9 DEF CInv, Posted, Last
    <3>2. k.host \in Hosts /\ k.cell \in Cells
      BY DEF TInv, NoticeT
    <3> QED BY <2>1, <2>2, <3>1, <3>2, SMTT(30) DEF CInv, Built
  <2>10. ASSUME NEW k \in notices' PROVE Posted(k)'
    <3>1. k \in notices /\ Posted(k)
      BY <2>1 DEF CInv
    <3>2. k.kind = "rename" => inst'[k.host][k.cell] = inst[k.host][k.cell]
      BY <2>5, <2>9, <3>1
    <3> QED BY <2>1, <3>1, <3>2 DEF Posted, Requests, Commands, Cmd, Last, Merge, Up
  <2>11. ASSUME NEW x \in book'.pending PROVE Noted(x)'
    <3>1. Noted(x) /\ reqs[x[2]].state # "inflight"
      BY <2>1, <2>7 DEF CInv, Noted
    <3> QED BY <2>1, <3>1 DEF Noted, Requests, Commands, Cmd, Merge
  <2>12. OwnerServes'
    <3> SUFFICES ASSUME NEW c \in Cells, owner[c] # NoHost
                 PROVE  \/ inst'[owner[c]][c].up
                        \/ c = Parent /\ \E k \in notices' :
                             /\ k.kind = "rename" /\ k.host = owner[c]
                             /\ inst'[k.host][k.cell].up
      BY <2>1 DEF OwnerServes
    <3>1. owner[c] \in Hosts
      BY DEF TInv
    <3>2. CASE inst[owner[c]][c].up
      BY <2>3, <2>5, <3>1, <3>2
    <3>3. CASE ~inst[owner[c]][c].up
      <4>1. PICK k \in notices : /\ c = Parent /\ k.kind = "rename" /\ k.host = owner[c]
                                 /\ inst[k.host][k.cell].up
        BY <3>3 DEF CInv, OwnerServes
      <4>2. k \in notices' /\ inst'[k.host][k.cell].up
        BY <2>1, <2>5, <2>9, <4>1
      <4> QED BY <4>1, <4>2
    <3> QED BY <3>2, <3>3
  <2> QED BY <2>1, <2>6, <2>8, <2>10, <2>11, <2>12, <1>HandledAll

(* CellRename brings up the parent on the host that the map names for it.  *)
<1>RenameKeeps.
    ASSUME TInv, CInv, NEW n \in notices, HandleRename(n)
    PROVE  TInv' /\ CInv'
  <2> USE <1>RenameKeeps
  <2>1. /\ n.kind = "rename" /\ n.req \in Requests /\ n.host \in Hosts /\ n.cell \in Cells
        /\ Last(n.req) /\ reqs[n.req].state \in {"mapped", "releasing", "committed"}
        /\ Merge(n.req) /\ 1 \in Commands(n.req)
        /\ n.cell = Cmd(n.req, 1).dst /\ n.host = Cmd(n.req, 1).dstHost
        /\ owner[Parent] = n.host /\ owner[n.cell] # n.host /\ inst[n.host][n.cell].up
    BY DEF CInv, Posted, HandleRename, TInv, NoticeT, Up
  <2>2. n.cell # Parent /\ Parent \in Cells
    BY <2>1 DEF Cells
  <2>3. /\ UNCHANGED <<owner, quad, reqs, ready>> /\ notices' = notices \ {n}
        /\ book' = Renamed(n)
        /\ inst' = [inst EXCEPT
                   ![n.host][Parent] = [inst[n.host][n.cell] EXCEPT !.frozen = FALSE],
                   ![n.host][n.cell] = Down]
    BY <2>1 DEF HandleRename
  <2>4. /\ inst \in [Hosts -> [Cells -> InstT]] /\ Down \in InstT
        /\ [inst[n.host][n.cell] EXCEPT !.frozen = FALSE] \in InstT
        /\ [inst[n.host][n.cell] EXCEPT !.frozen = FALSE].up
    <3>1. inst \in [Hosts -> [Cells -> InstT]]
      BY DEF TInv
    <3>2. inst[n.host][n.cell] \in InstT
      BY <2>1, <3>1
    <3> QED BY <2>1, <3>1, <3>2 DEF InstT, Down
  <2>5. /\ inst' \in [Hosts -> [Cells -> InstT]]
        /\ inst'[n.host][Parent].up
        /\ \A g \in Hosts, c \in Cells :
             ~(g = n.host /\ c \in {Parent, n.cell}) => inst'[g][c] = inst[g][c]
    <3> DEFINE v == [inst[n.host][n.cell] EXCEPT !.frozen = FALSE]
    <3>1. v \in InstT /\ v.up
          /\ inst' = [inst EXCEPT ![n.host][Parent] = v, ![n.host][n.cell] = Down]
      BY <2>3, <2>4
    <3> HIDE DEF v
    <3> QED BY <2>1, <2>2, <2>4, <3>1
  <2>6. /\ book' \in BookT
        /\ \A x \in book'.pending : \E y \in book.pending : y[2] = x[2]
        /\ \A x \in book'.src \union book'.pending \union book'.survivor : x[2] \in Requests
    BY <2>3, RenamedTyped
  <2>7. \A s \in Requests : reqs[s].state \notin {"inflight", "acked"}
    BY <2>1, NobodyWaits
  <2>8. /\ TInv'
        /\ \A s \in Requests : /\ Built(s)' /\ Owned(s)' /\ Orderly(s)'
                               /\ s < Len(reqs) => Gone(s)'
        /\ \A m \in ready' : Said(m)'
    <3>1. notices' \subseteq notices
      BY <2>3
    <3>2. \A x \in book.pending : reqs[x[2]].state = "inflight" => x \in book'.pending
      BY <2>7 DEF TInv
    <3> QED BY <2>3, <2>5, <2>6, <3>1, <3>2, <1>HandledCommon
  <2>9. \A s \in Requests : Populated(s)'
    BY <2>3, <2>7, <1>VacantlyPopulated
  <2>10. \A k \in notices' : k.kind # "rename"
    <3> SUFFICES ASSUME NEW k \in notices, k.kind = "rename" PROVE k = n
      BY <2>3
    <3>1. k.req = n.req /\ k.cell = n.cell /\ k.host = n.host /\ k.kind = n.kind
      BY <2>1 DEF CInv, Posted, Last
    <3>2. k \in NoticeT /\ n \in NoticeT
      BY DEF TInv
    <3> QED BY <3>1, <3>2, SMTT(30) DEF NoticeT
  <2>11. ASSUME NEW k \in notices' PROVE Posted(k)'
    <3>1. k \in notices /\ Posted(k) /\ k.kind # "rename"
      BY <2>3, <2>10 DEF CInv
    <3> QED BY <2>3, <3>1 DEF Posted, Requests, Commands, Cmd, Last
  <2>12. ASSUME NEW x \in book'.pending PROVE Noted(x)'
    <3>1. PICK y \in book.pending : y[2] = x[2]
      BY <2>6
    <3>2. x[2] \in Requests /\ ~Merge(x[2]) /\ reqs[x[2]].state # "inflight"
      BY <2>7, <3>1 DEF CInv, Noted
    <3>3. reqs[x[2]].state # "rolledback"
      <4>1. x[2] = n.req \/ Gone(x[2])
        BY <2>1, <3>2, EarlierGone DEF Last
      <4> QED BY <2>1, <3>1, <4>1 DEF Gone
    <3>4. x[1] \in Hosts /\ x[3] \in Cells
      BY <2>6 DEF BookT, Record
    <3> QED BY <2>3, <3>2, <3>3, <3>4 DEF Noted, Requests, Merge
  <2>13. OwnerServes'
    <3> SUFFICES ASSUME NEW c \in Cells, owner[c] # NoHost
                 PROVE  inst'[owner[c]][c].up
      BY <2>3 DEF OwnerServes
    <3>1. owner[c] \in Hosts
      BY DEF TInv
    <3>2. CASE c = Parent
      BY <2>1, <2>5, <3>2
    <3>3. CASE c # Parent
      <4>1. inst[owner[c]][c].up
        BY <3>3 DEF CInv, OwnerServes
      <4> QED BY <2>1, <2>5, <3>1, <3>3, <4>1, ZenonT(60)
    <3> QED BY <3>2, <3>3
  <2> QED BY <2>3, <2>8, <2>9, <2>11, <2>12, <2>13, <1>HandledAll

(* Every handler keeps the invariant.                                      *)
<1>HandleKeeps.
    ASSUME TInv, CInv, NEW n \in notices, Handle(n)
    PROVE  TInv' /\ CInv'
  BY <1>HandleKeeps, <1>AbortKeeps, <1>CommitHandled, <1>RenameKeeps, <1>ReleaseKeeps DEF Handle

(* An arrival or a movement in the game is no step of a transfer.          *)
<1>WorldKeeps.
    ASSUME TInv, CInv, World
    PROVE  TInv' /\ CInv'
  <2> USE <1>WorldKeeps
  <2>1. ASSUME NEW e \in Entities, NEW q \in 1..Len(Children), Move(e, q)
        PROVE  TInv' /\ CInv'
    <3>1. /\ UNCHANGED <<owner, inst, reqs, book, ready, notices>>
          /\ quad' = [quad EXCEPT ![e] = q]
      BY <2>1 DEF Move
    <3>2. TInv'
      BY <3>1, SMTT(30) DEF TInv, Requests, Commands, Destinations, Cmd
    <3>3. CInv'
      <4>1. \A s : /\ (Built(s)' <=> Built(s)) /\ (Owned(s)' <=> Owned(s))
                   /\ (Gone(s)' <=> Gone(s))
        BY <3>1, SMTT(30) DEF Built, Owned, Gone, Commands, Cmd, Merge, Last, At
      <4>2. \A s : Populated(s)' <=> Populated(s)
        BY <3>1, ZenonT(60) DEF Populated, OkSaid, Failed, Commands, Cmd, Merge, At, Up
      <4>3. \A s : Orderly(s)' <=> Orderly(s)
        BY <3>1, ZenonT(60) DEF Orderly, Mild, Commands, Cmd, Merge, At
      <4>4. \A x : /\ (Posted(x)' <=> Posted(x)) /\ (Noted(x)' <=> Noted(x))
                   /\ (Said(x)' <=> Said(x))
        BY <3>1, SMTT(30) DEF Posted, Noted, Said, Requests, Commands, Cmd, Merge, Last, At, Up
      <4>5. Requests' = Requests /\ (OwnerServes' <=> OwnerServes)
        BY <3>1 DEF Requests, OwnerServes
      <4> QED BY <3>1, <4>1, <4>2, <4>3, <4>4, <4>5 DEF CInv
    <3> QED BY <3>2, <3>3
  <2>2. ASSUME NEW e \in Newcomers, NEW h \in Hosts, NEW c \in Cells, Arrive(e, h, c)
        PROVE  TInv' /\ CInv'
    <3> DEFINE v == [inst[h][c] EXCEPT !.live = inst[h][c].live \union {e}]
    <3>1. /\ UNCHANGED <<owner, quad, reqs, book, ready, notices>>
          /\ inst' = [inst EXCEPT ![h][c] = v]
      BY <2>2 DEF Arrive, TInv, InstT
    <3>2. inst \in [Hosts -> [Cells -> InstT]] /\ inst[h][c] \in InstT
      BY DEF TInv
    <3>3. v \in InstT /\ v.up = inst[h][c].up
      BY <2>2, <3>2, LayoutAssumption DEF InstT
    <3> HIDE DEF v
    <3>4. /\ inst' \in [Hosts -> [Cells -> InstT]]
          /\ \A g \in Hosts, d \in Cells : inst'[g][d].up = inst[g][d].up
      BY <3>1, <3>2, <3>3
    <3>5. \A g \in Hosts, d \in Cells : Up(g, d)' = Up(g, d)
      BY <3>4 DEF Up
    <3>6. /\ \A k \in notices' : Posted(k)'
          /\ \A x \in book'.pending : Noted(x)'
          /\ \A s \in Requests : Populated(s)'
          /\ OwnerServes'
      <4>1. /\ notices' \subseteq notices /\ book'.pending \subseteq book.pending
            /\ \A n \in notices \ notices' : n.kind # "rename"
        BY <3>1
      <4> QED BY <3>1, <3>5, <4>1, <1>UpsSame
    <3>7. /\ TInv'
          /\ \A s \in Requests : /\ Built(s)' /\ Owned(s)' /\ Orderly(s)'
                                 /\ s < Len(reqs) => Gone(s)'
          /\ \A m \in ready' : Said(m)'
      <4>1. notices' \subseteq notices /\ book' \in BookT
        BY <3>1 DEF TInv
      <4>2. \A x \in book'.src \union book'.pending \union book'.survivor : x[2] \in Requests
        BY <3>1 DEF TInv
      <4>3. \A x \in book'.pending : \E y \in book.pending : y[2] = x[2]
        BY <3>1
      <4>4. \A x \in book.pending : reqs[x[2]].state = "inflight" => x \in book'.pending
        BY <3>1
      <4> QED BY <3>1, <3>4, <4>1, <4>2, <4>3, <4>4, <1>HandledCommon
    <3> QED BY <3>1, <3>6, <3>7, <1>HandledAll
  <2> QED BY <2>1, <2>2 DEF World

(* So does a step of nobody.                                               *)
<1>StutterKeeps.
    ASSUME TInv, CInv, UNCHANGED vars
    PROVE  TInv' /\ CInv'
  <2> USE <1>StutterKeeps
  <2>1. /\ UNCHANGED <<owner, quad, reqs, ready>> /\ notices' \subseteq notices
        /\ book' = book /\ inst' = inst /\ notices' = notices
    BY DEF vars
  <2>2. /\ book'.pending \subseteq book.pending
        /\ \A n \in notices \ notices' : n.kind # "rename"
        /\ \A g \in Hosts, d \in Cells : Up(g, d)' = Up(g, d)
        /\ \A x \in book'.pending : \E y \in book.pending : y[2] = x[2]
        /\ \A x \in book.pending : reqs[x[2]].state = "inflight" => x \in book'.pending
    BY <2>1 DEF Up
  <2>3. /\ inst' \in [Hosts -> [Cells -> InstT]] /\ book' \in BookT
        /\ \A x \in book'.src \union book'.pending \union book'.survivor : x[2] \in Requests
    BY <2>1 DEF TInv
  <2>4. /\ \A k \in notices' : Posted(k)'
        /\ \A x \in book'.pending : Noted(x)'
        /\ \A s \in Requests : Populated(s)'
        /\ OwnerServes'
    BY <2>1, <2>2, <1>UpsSame
  <2>5. /\ TInv'
        /\ \A s \in Requests : /\ Built(s)' /\ Owned(s)' /\ Orderly(s)'
                               /\ s < Len(reqs) => Gone(s)'
        /\ \A m \in ready' : Said(m)'
    BY <2>1, <2>2, <2>3, <1>HandledCommon
  <2> QED BY <2>1, <2>4, <2>5, <1>HandledAll
<1> QED BY <1>HandleKeeps, <1>WorldKeeps, <1>StutterKeeps

(* The invariant holds when the program starts.                            *)
LEMMA Begins ==
    ASSUME Init
    PROVE  TInv /\ CInv
<1>1. Requests = {} /\ reqs = <<>>
  BY SMTT(30) DEF Init, Requests
<1>2. /\ owner \in [Cells -> Hosts \union {NoHost}]
      /\ quad \in [Entities -> 1..Len(Children)] /\ ready = {} /\ notices = {}
      /\ book = [src |-> {}, pending |-> {}, survivor |-> {}, imported |-> {}]
  BY LayoutAssumption DEF Init
<1> DEFINE live(c) == {e \in Entities \ Newcomers : c = Parent \/ c = Children[quad[e]]}
<1>3. inst = [h \in Hosts |-> [c \in Cells |->
                IF owner[c] # h THEN Down ELSE [Fresh EXCEPT !.live = live(c)]]]
  BY DEF Init
<1>4. \A c \in Cells : live(c) \subseteq Entities
  OBVIOUS
<1> HIDE DEF live
<1>5. /\ Down \in InstT
      /\ \A c \in Cells : /\ [Fresh EXCEPT !.live = live(c)] \in InstT
                          /\ [Fresh EXCEPT !.live = live(c)].up
  BY <1>4 DEF InstT, Fresh, Down
<1>6. inst \in [Hosts -> [Cells -> InstT]]
  BY <1>3, <1>5
<1>7. OwnerServes
  BY <1>2, <1>3, <1>5 DEF OwnerServes
<1>8. book \in BookT /\ book.src = {} /\ book.pending = {} /\ book.survivor = {}
  BY <1>2 DEF BookT
<1>9. reqs \in Seq(RequestT)
  BY <1>1, SMTT(30)
<1>10. TInv
  BY <1>1, <1>2, <1>6, <1>8, <1>9 DEF TInv
<1> QED BY <1>1, <1>2, <1>7, <1>8, <1>10 DEF CInv

(* Every step keeps the invariant.                                         *)
LEMMA NextKeeps ==
    ASSUME TInv, CInv, OneByOne, [Next]_vars
    PROVE  TInv' /\ CInv'
<1>1. CASE World
  BY <1>1, OthersKeep
<1>2. CASE BeginRequest
  BY <1>2, RequestKeeps
<1>3. ASSUME NEW r \in Requests, Commit(r) \/ Expire(r)
      PROVE  TInv' /\ CInv'
  BY <1>3, OrchestratorKeeps
<1>4. ASSUME NEW r \in Requests, NEW i \in Commands(r), Execute(r, i) \/ Receive(r, i)
      PROVE  TInv' /\ CInv'
  BY <1>4, WorkersKeep
<1>5. ASSUME NEW m \in ready, OnReady(m) \/ ReadyLost(m)
      PROVE  TInv' /\ CInv'
  BY <1>5, OrchestratorKeeps
<1>6. ASSUME NEW n \in notices, Handle(n)
      PROVE  TInv' /\ CInv'
  BY <1>6, OthersKeep
<1>7. CASE UNCHANGED vars
  BY <1>7, OthersKeep
<1> QED BY <1>1, <1>2, <1>3, <1>4, <1>5, <1>6, <1>7 DEF Next

(* CInv is an invariant of the transfer protocol.                          *)
THEOREM TransferInvariant == ASSUME OneByOne PROVE Spec => [](TInv /\ CInv)
<1>1. Init => TInv /\ CInv
  BY Begins
<1>2. TInv /\ CInv /\ [Next]_vars => (TInv /\ CInv)'
  BY NextKeeps
<1> QED BY <1>1, <1>2, PTL DEF Spec

(* The state keeps its types: every record and message of a transfer names *)
(* a request that was begun, and an ack a command of its request.          *)
THEOREM TransferTyped == ASSUME OneByOne PROVE Spec => []TypeOK
<1>1. TInv => TypeOK
  <2> SUFFICES ASSUME TInv PROVE TypeOK
    OBVIOUS
  <2>1. \A r \in Requests : reqs[r] \in RequestT
    BY SMTT(30) DEF TInv, Requests
  <2>2. \A r \in Requests : reqs[r].kind \in Kinds /\ reqs[r].state \in States
    BY <2>1 DEF RequestT
  <2>3. ASSUME NEW x \in book.src \union book.pending \union book.survivor
        PROVE  x \in Hosts \X Requests \X Cells
    <3>1. x \in Record /\ x[2] \in Requests
      BY SMTT(30) DEF TInv, BookT
    <3> QED BY <3>1, SMTT(30) DEF Record
  <2>4. \A n \in notices : n.host \in Hosts /\ n.req \in Requests
    BY SMTT(30) DEF TInv, NoticeT
  <2> QED BY <2>2, <2>3, <2>4, SMTT(30) DEF TInv, TypeOK, InstT, States
<1> QED BY <1>1, TransferInvariant, PTL

(* With requests one by one, the host the owner map names for a cell runs  *)
(* that cell: in every state, whatever the order of Execute, Receive, the  *)
(* Readys, the deadline, the commit steps and the four handlers, for any   *)
(* number of hosts, children, entities and requests (integrity.go:110,     *)
(* host-ownership-matches-coord).                                          *)
THEOREM MapNamesRunningCells == ASSUME OneByOne PROVE Spec => []OwnerServes
<1>1. TInv /\ CInv => OwnerServes
  BY DEF CInv
<1> QED BY <1>1, TransferInvariant, PTL

-----------------------------------------------------------------------------

(* The second invariant: where the entities are.                           *)

(* What the Begin operations say further about the commands.               *)
Shaped(r) ==
    /\ reqs[r].kind = "split" =>
         /\ Len(reqs[r].cmds) = Len(Children)
         /\ \A i \in Commands(r) : Cmd(r, i).dst = Children[i]
    /\ Merge(r) =>
         /\ 1 \in Commands(r)
         /\ \A c \in ChildSet : \/ c = Cmd(r, 1).dst
                                \/ \E i \in Commands(r) : c = Cmd(r, i).src

(* The region is one cell, or all its quadrants are.                       *)
Region == \A c \in ChildSet : (owner[c] = NoHost) <=> (owner[Parent] # NoHost)

(* The command has taken everything that its source holds, but for what    *)
(* arrived later; and the destination holds what was taken.                *)
Took(r, i) ==
    inst[Cmd(r, i).srcHost][Cmd(r, i).src].live \ Newcomers \subseteq Cmd(r, i).ents

Filled(r, i) ==
    /\ Cmd(r, i).ents \subseteq inst[Cmd(r, i).dstHost][Cmd(r, i).dst].live
    /\ reqs[r].kind # "split" => Took(r, i)

(* A merge that is decided in its favour has no goroutine left, and an     *)
(* older merge is committed.                                               *)
Finished(r) ==
    Merge(r) => /\ reqs[r].state \in {"acked", "mapped", "releasing", "committed"} =>
                     \A i \in Commands(r) : At(r, i, "done")
                /\ r < Len(reqs) => reqs[r].state = "committed"

(* What the goroutines of an undecided request carry.                      *)
Taken(r) ==
    reqs[r].state = "inflight" =>
      /\ \A i \in Commands(r) : At(r, i, "sent") => Cmd(r, i).ents = {}
      /\ reqs[r].kind # "split" =>
           \A i \in Commands(r) :
             reqs[r].cmds[i].pc \in {"serialized", "registered", "shipped", "created"} =>
               Took(r, i)

(* The Readys counted so far are those of so many commands, though not of  *)
(* the ones marked: f matches the commands one to one.                     *)
Tallied(r) ==
    \E f \in [Commands(r) -> Commands(r)] :
      /\ \A j, k \in Commands(r) : f[j] = f[k] => j = k
      /\ \A i \in Commands(r) : \E k \in Commands(r) : f[k] = i
      /\ \A k \in reqs[r].acked : At(r, f[k], "done") /\ ~OkSaid(r, f[k]) /\ Filled(r, f[k])

Carried(r) ==
    /\ reqs[r].state = "inflight" /\ ~Merge(r) =>
         \A i \in Commands(r) : i \in reqs[r].acked \/ OkSaid(r, i) =>
           Filled(r, i) \/ \E j \in Commands(r) : Failed(r, j)
    /\ reqs[r].state = "inflight" /\ Merge(r) =>
         /\ \A i \in Commands(r) : OkSaid(r, i) => Filled(r, i)
         /\ Tallied(r)
    /\ reqs[r].state = "acked" => \A i \in Commands(r) : Filled(r, i)

(* A split leaves nobody out: who is in the parent has been taken or will  *)
(* be, unless a command has failed.                                        *)
Covered(r) ==
    SameTick /\ reqs[r].kind = "split" /\ reqs[r].state \in {"inflight", "acked"} =>
      \A e \in inst[owner[Parent]][Parent].live \ Newcomers :
        \E i \in Commands(r) :
          \/ e \in Cmd(r, i).ents
          \/ reqs[r].state = "inflight" /\ At(r, i, "sent") /\ quad[e] = i
          \/ reqs[r].state = "inflight" /\ Failed(r, i)

(* Nothing runs yet where a cell is going to be created or renamed to.     *)
Vacant(r) ==
    /\ ~Merge(r) =>
         \A i \in Commands(r) :
           reqs[r].cmds[i].pc \in {"sent", "serialized", "registered", "shipped"} =>
             ~Up(Cmd(r, i).dstHost, Cmd(r, i).dst)
    /\ Merge(r) /\ (\/ reqs[r].state \in {"inflight", "acked"}
                    \/ \E n \in notices : n.kind = "rename") =>
         ~Up(Cmd(r, 1).dstHost, Parent)

(* When nothing times out and only migrates fail, a cell that runs and is  *)
(* not in the map belongs to the newest request.                           *)
Excused(h, c) ==
    \E r \in Requests :
      /\ Last(r)
      /\ \/ reqs[r].state = "inflight" /\ <<h, r, c>> \in book.pending
         \/ /\ reqs[r].state = "acked" /\ ~Merge(r)
            /\ \E i \in Commands(r) : h = Cmd(r, i).dstHost /\ c = Cmd(r, i).dst
         \/ /\ reqs[r].state = "mapped"
            /\ \E i \in Commands(r) : h = Cmd(r, i).srcHost /\ c = Cmd(r, i).src
         \/ \E n \in notices : /\ n.kind \in {"release", "rename"}
                               /\ n.host = h /\ n.cell = c

Placed ==
    Mild \/ reqs = <<>> =>
      \A h \in Hosts, c \in Cells : Up(h, c) => owner[c] = h \/ Excused(h, c)

(* The executors note survivors of merges only.                            *)
Logged(x) ==
    /\ Merge(x[2])
    /\ reqs[x[2]].state \in {"inflight", "acked", "rolledback"} =>
         x[1] = Cmd(x[2], 1).dstHost /\ x[3] = Cmd(x[2], 1).dst

(* The merge may still drop what it imported into the cell.                *)
Revocable(r, h, c) ==
    /\ Merge(r) /\ reqs[r].state \in {"inflight", "acked", "rolledback"}
    /\ h = Cmd(r, 1).dstHost /\ c = Cmd(r, 1).dst

(* An entity is on a serving cell, and not only as an import.              *)
Home(e, h, c) ==
    /\ Serving(h, c) /\ e \in inst[h][c].live
    /\ \A r \in Requests : Revocable(r, h, c) => <<h, r, e>> \notin book.imported

EInv ==
    /\ Region
    /\ \A r \in Requests : Shaped(r) /\ Finished(r)
    /\ \A r \in Requests : Last(r) => Taken(r) /\ Carried(r) /\ Covered(r) /\ Vacant(r)
    /\ Placed
    /\ \A x \in book.survivor : Logged(x)
    /\ \A e \in Entities \ Newcomers : SameTick => \E h \in Hosts, c \in Cells : Home(e, h, c)

(* The records of imports name requests that have begun.                   *)
Imports == \A x \in book.imported : x[2] \in Requests

-----------------------------------------------------------------------------

(* The goroutines.                                                         *)

(* Command i of request r goes on to p.                                    *)
Goes(r, i, p) ==
    /\ Moved(r, i, p) /\ ~At(r, i, "done")
    /\ p \in Steps \ {"sent"} /\ (p = "created" => Merge(r))
    /\ p \in {"registered", "shipped", "created"} =>
         reqs[r].cmds[i].pc \in {"serialized", "registered", "shipped"}
    /\ At(r, i, "undo") => p = "done"
    /\ \A s \in Requests : \A j \in Commands(s) :
         ~(s = r /\ j = i) => Cmd(s, j)'.ents = Cmd(s, j).ents
    /\ p = "serialized" => At(r, i, "sent") /\ Cmd(r, i)'.ents = Serialized(r, i)
    /\ p # "serialized" => Cmd(r, i)'.ents = Cmd(r, i).ents

(* It reports when it ends, and an ok Ready says that all it was to bring  *)
(* is there.                                                               *)
Says(r, i, p, S) ==
    /\ ready \subseteq ready'
    /\ p \notin {"undo", "done"} => ready' = ready
    /\ \A m \in ready' \ ready :
         /\ m.req = r /\ m.cmd = i
         /\ m.ok => p = "done" /\ At(r, i, "created") /\ Cmd(r, i).ents \subseteq S

(* It takes no cell up or down and may bring S to its destination.         *)
Brings(r, i, S) ==
    /\ S # {} /\ ~Merge(r) => <<Cmd(r, i).dstHost, r, Cmd(r, i).dst>> \in book.pending
    /\ \A g \in Hosts, d \in Cells :
         /\ inst'[g][d].up = inst[g][d].up
         /\ inst[g][d].live \subseteq inst'[g][d].live
         /\ ~(g = Cmd(r, i).dstHost /\ d = Cmd(r, i).dst) => inst'[g][d].live = inst[g][d].live
    /\ inst'[Cmd(r, i).dstHost][Cmd(r, i).dst].live =
         inst[Cmd(r, i).dstHost][Cmd(r, i).dst].live \union S
    /\ \A x \in book'.survivor :
         x \in book.survivor \/ (Merge(r) /\ x = <<Cmd(r, i).dstHost, r, Cmd(r, i).dst>>)
    /\ \A x \in book'.imported :
         \/ x \in book.imported
         \/ \E e \in S \ inst[Cmd(r, i).dstHost][Cmd(r, i).dst].live :
              x = <<Cmd(r, i).dstHost, r, e>>

Works(r, i, p, S) ==
    /\ Goes(r, i, p) /\ Says(r, i, p, S) /\ Brings(r, i, S)
    /\ owner' = owner /\ notices' = notices /\ quad' = quad
    /\ book'.pending = book.pending

(* The two steps of Receive that take cells up and down.                   *)

(* A split or a migrate goes on to p; it touches no cell that is in use.   *)
Builds(r, i, p) ==
    /\ Moved(r, i, p) /\ ~Merge(r) /\ p \in {"created", "undo", "done"}
    /\ reqs[r].cmds[i].pc \in {"shipped", "created"}
    /\ p = "created" => At(r, i, "shipped")
    /\ \A s \in Requests : \A j \in Commands(s) : Cmd(s, j)'.ents = Cmd(s, j).ents
    /\ owner' = owner /\ notices' = notices /\ quad' = quad
    /\ book'.survivor = book.survivor /\ book'.imported = book.imported
    /\ \A m \in ready' \ ready : m.req = r /\ m.cmd = i /\ ~m.ok

Harmless ==
    \A g \in Hosts, d \in Cells : owner[d] = g /\ Up(g, d) =>
      inst'[g][d].up = inst[g][d].up /\ inst'[g][d].live = inst[g][d].live

(* What a step of a command leaves alone.                                  *)
LEMMA MovedSame ==
    ASSUME NEW r, NEW i, NEW p, Moved(r, i, p)
    PROVE  /\ Requests' = Requests /\ Len(reqs') = Len(reqs)
           /\ \A s \in Requests :
                /\ Commands(s)' = Commands(s) /\ (Last(s)' <=> Last(s))
                /\ (Merge(s)' <=> Merge(s)) /\ reqs'[s].kind = reqs[s].kind
                /\ Len(reqs'[s].cmds) = Len(reqs[s].cmds)
                /\ reqs'[s].state = reqs[s].state /\ reqs'[s].acked = reqs[s].acked
                /\ \A j \in Commands(s) :
                     /\ Cmd(s, j)'.src = Cmd(s, j).src
                     /\ Cmd(s, j)'.srcHost = Cmd(s, j).srcHost
                     /\ Cmd(s, j)'.dst = Cmd(s, j).dst
                     /\ Cmd(s, j)'.dstHost = Cmd(s, j).dstHost
                     /\ \A q : At(s, j, q)' <=> IF s = r /\ j = i THEN p = q ELSE At(s, j, q)
BY ZenonT(60) DEF Moved, Requests, Commands, Last, Merge, Cmd, At

(* A home stays one while the cell serves and keeps the entity.            *)
LEMMA HomeKept ==
    ASSUME NEW e, NEW h, NEW c, Home(e, h, c), Serving(h, c)', e \in inst'[h][c].live,
           Requests' = Requests,
           \A r \in Requests : Revocable(r, h, c)' =>
             Revocable(r, h, c) /\ (<<h, r, e>> \in book'.imported => <<h, r, e>> \in book.imported)
    PROVE  Home(e, h, c)'
BY DEF Home

(* A command that is acked, or about to be, has nothing left to do.        *)
LEMMA OkDone ==
    ASSUME CInv, NEW r \in Requests, NEW k \in Commands(r)
    PROVE  /\ OkSaid(r, k) => At(r, k, "done")
           /\ reqs[r].state = "inflight" /\ ~Merge(r) /\ k \in reqs[r].acked => At(r, k, "done")
<1>1. OkSaid(r, k) => At(r, k, "done")
  BY DEF CInv, Said, OkSaid
<1>2. Populated(r)
  BY DEF CInv
<1> QED BY <1>1, <1>2 DEF Populated

-----------------------------------------------------------------------------

(* Every step of the Execute and Receive goroutines keeps EInv and Imports. *)
LEMMA WorkersCarry ==
    TInv /\ CInv /\ EInv =>
      \A r \in Requests : \A i \in Commands(r) :
        Execute(r, i) \/ Receive(r, i) => EInv' /\ (Imports => Imports')
(* A goroutine at work belongs to the newest request, which is undecided   *)
(* or rolled back.                                                         *)
<1>Busy.
    ASSUME TInv, CInv, EInv, NEW r \in Requests, NEW i \in Commands(r), ~At(r, i, "done")
    PROVE  Last(r) /\ reqs[r].state \in {"inflight", "rolledback"}
  <2> USE <1>Busy
  <2>1. reqs[r].state \notin {"acked", "mapped", "releasing", "committed"}
    BY Unfinished DEF EInv, Finished
  <2>2. reqs[r] \in RequestT
    BY Elements DEF TInv
  <2>3. reqs[r].state \in {"inflight", "rolledback"}
    BY <2>1, <2>2 DEF RequestT, States
  <2>4. ~Merge(r) => Last(r)
    BY StillLast
  <2>5. Merge(r) => ~(r < Len(reqs))
    BY <2>1 DEF EInv, Finished
  <2>6. Merge(r) => Last(r)
    BY <2>5, EarlierGone
  <2> QED BY <2>3, <2>4, <2>6

(* The shapes of the requests, and what is finished, stay.                 *)
<1>ShapedKept.
    ASSUME NEW r \in Requests, NEW i \in Commands(r), NEW p, Moved(r, i, p),
           ~At(r, i, "done"), NEW s \in Requests, Shaped(s), Finished(s)
    PROVE  Shaped(s)' /\ Finished(s)'
  <2> USE <1>ShapedKept
  <2>1. Shaped(s)'
    <3>1. /\ Commands(s)' = Commands(s) /\ (Merge(s)' <=> Merge(s))
          /\ reqs'[s].kind = reqs[s].kind /\ Len(reqs'[s].cmds) = Len(reqs[s].cmds)
          /\ \A j \in Commands(s) : Cmd(s, j)'.src = Cmd(s, j).src /\ Cmd(s, j)'.dst = Cmd(s, j).dst
      BY MovedSame, ZenonT(60)
    <3>2. ASSUME Merge(s), NEW c \in ChildSet
          PROVE  c = Cmd(s, 1)'.dst \/ \E j \in Commands(s) : c = Cmd(s, j)'.src
      BY <3>1, <3>2 DEF Shaped
    <3>3. ASSUME reqs[s].kind = "split", NEW j \in Commands(s) PROVE Cmd(s, j)'.dst = Children[j]
      BY <3>1, <3>3 DEF Shaped
    <3>4. /\ Merge(s) => 1 \in Commands(s)
          /\ reqs[s].kind = "split" => Len(reqs'[s].cmds) = Len(Children)
      BY <3>1 DEF Shaped
    <3> QED BY <3>1, <3>2, <3>3, <3>4 DEF Shaped
  <2>2. Finished(s)'
    <3>1. /\ Commands(s)' = Commands(s) /\ (Merge(s)' <=> Merge(s))
          /\ Len(reqs') = Len(reqs) /\ reqs'[s].state = reqs[s].state
          /\ \A j \in Commands(s) : At(s, j, "done") => At(s, j, "done")'
      BY MovedSame
    <3> QED BY <3>1 DEF Finished
  <2> QED BY <2>1, <2>2

(* A command that has failed stays failed.                                 *)
<1>FailedKept.
    ASSUME NEW r \in Requests, NEW i \in Commands(r), NEW p, Moved(r, i, p),
           ~At(r, i, "done"), At(r, i, "undo") => p \in {"undo", "done"},
           \A m \in ready' \ ready : m.req = r /\ m.cmd = i /\ (m.ok => ~At(r, i, "undo")),
           NEW s \in Requests, NEW k \in Commands(s), Failed(s, k)
    PROVE  Failed(s, k)'
  <2> USE <1>FailedKept
  <2>1. ~OkSaid(s, k)'
    <3> SUFFICES ASSUME OkSaid(s, k)' PROVE FALSE
      OBVIOUS
    <3>1. PICK m \in ready' : m.ok /\ m.req = s /\ m.cmd = k
      BY DEF OkSaid
    <3>2. m \notin ready
      BY <3>1 DEF Failed, OkSaid
    <3> QED BY <3>1, <3>2 DEF Failed, At
  <2>2. reqs'[s].cmds[k].pc \in {"undo", "done"} /\ reqs'[s].acked = reqs[s].acked
    BY DEF Failed, Moved, At
  <2> QED BY <2>1, <2>2 DEF Failed

(* A step that works on its cells and says what it did keeps EInv.         *)
<1>WorkKeeps.
    TInv /\ CInv /\ EInv =>
      \A r \in Requests : \A i \in Commands(r) : \A p, S : Works(r, i, p, S) => EInv'
  (* No goroutine touches the entities of a source.                          *)
  <2>SourcesSame.
      ASSUME TInv, CInv, NEW r \in Requests, NEW i \in Commands(r), NEW S,
             Brings(r, i, S), reqs[r].state = "inflight", NEW j \in Commands(r)
      PROVE  inst'[Cmd(r, j).srcHost][Cmd(r, j).src].live =
               inst[Cmd(r, j).srcHost][Cmd(r, j).src].live
    <3> USE <2>SourcesSame
    <3>1. /\ Cmd(r, j).srcHost \in Hosts /\ Cmd(r, j).src \in Cells
          /\ Built(r) /\ owner[Cmd(r, j).src] = Cmd(r, j).srcHost
      BY CommandFields DEF CInv, Owned
    <3>2. S # {} => ~(Cmd(r, j).srcHost = Cmd(r, i).dstHost /\ Cmd(r, j).src = Cmd(r, i).dst)
      <4>1. CASE Merge(r)
        BY <3>1, <4>1 DEF Built
      <4>2. CASE ~Merge(r)
        <5> SUFFICES ASSUME S # {} PROVE owner[Cmd(r, i).dst] # Cmd(r, i).dstHost
          BY <3>1
        <5>1. PICK x : x = <<Cmd(r, i).dstHost, r, Cmd(r, i).dst>>
          OBVIOUS
        <5>2. x \in book.pending /\ x[1] = Cmd(r, i).dstHost /\ x[2] = r /\ x[3] = Cmd(r, i).dst
          BY <4>2, <5>1 DEF Brings
        <5> QED BY <5>2 DEF CInv, Noted
      <4> QED BY <4>1, <4>2
    <3>3. CASE Cmd(r, j).srcHost = Cmd(r, i).dstHost /\ Cmd(r, j).src = Cmd(r, i).dst
      <4>1. S = {}
        BY <3>2, <3>3
      <4>2. inst'[Cmd(r, i).dstHost][Cmd(r, i).dst].live =
              inst[Cmd(r, i).dstHost][Cmd(r, i).dst].live \union S
        BY DEF Brings
      <4> QED BY <3>3, <4>1, <4>2
    <3>4. CASE ~(Cmd(r, j).srcHost = Cmd(r, i).dstHost /\ Cmd(r, j).src = Cmd(r, i).dst)
      BY <3>1, <3>4 DEF Brings
    <3> QED BY <3>3, <3>4

  (* The serving cells keep their entities.                                  *)
  <2>WorkHome.
      ASSUME TInv, CInv, EInv, NEW r \in Requests, NEW i \in Commands(r), NEW p, NEW S,
             Works(r, i, p, S), NEW e, NEW h \in Hosts, NEW c \in Cells, Home(e, h, c)
      PROVE  Home(e, h, c)'
    <3> USE <2>WorkHome
    <3>1. Serving(h, c)' /\ e \in inst'[h][c].live
      <4>1. inst'[h][c].up = inst[h][c].up /\ inst[h][c].live \subseteq inst'[h][c].live
        BY DEF Works, Brings
      <4>2. owner' = owner /\ notices' = notices
        BY DEF Works
      <4> QED BY <4>1, <4>2 DEF Home, Serving
    <3>2. /\ Requests' = Requests /\ Built(r)
          /\ \A s \in Requests : Merge(s) => 1 \in Commands(s)
      BY MovedSame DEF Works, Goes, CInv, EInv, Shaped
    <3>3. \A s \in Requests : Revocable(s, h, c)' => Revocable(s, h, c)
      <4> SUFFICES ASSUME NEW s \in Requests, Revocable(s, h, c)' PROVE Revocable(s, h, c)
        OBVIOUS
      <4>1. /\ (Merge(s)' <=> Merge(s)) /\ reqs'[s].state = reqs[s].state
            /\ Merge(s) => /\ Cmd(s, 1)'.dst = Cmd(s, 1).dst
                           /\ Cmd(s, 1)'.dstHost = Cmd(s, 1).dstHost
        BY <3>2, MovedSame, ZenonT(60) DEF Works, Goes
      <4> QED BY <4>1 DEF Revocable
    <3>4. ASSUME NEW s \in Requests, Revocable(s, h, c), <<h, s, e>> \in book'.imported
          PROVE  <<h, s, e>> \in book.imported
      <4> SUFFICES ASSUME <<h, s, e>> \notin book.imported PROVE FALSE
        OBVIOUS
      <4>1. PICK f \in S \ inst[Cmd(r, i).dstHost][Cmd(r, i).dst].live :
              <<h, s, e>> = <<Cmd(r, i).dstHost, r, f>>
        BY <3>4 DEF Works, Brings
      <4>2. h = Cmd(r, i).dstHost /\ s = r /\ e = f
        BY <4>1
      <4>3. c = Cmd(r, i).dst
        BY <3>2, <3>4, <4>2 DEF Revocable, Built
      <4> QED BY <4>1, <4>2, <4>3 DEF Home
    <3> QED BY <3>1, <3>2, <3>3, <3>4, HomeKept

  (* Which cells run and why does not change.                                *)
  <2>WorkPlaced.
      ASSUME TInv, CInv, EInv, NEW r \in Requests, NEW i \in Commands(r), NEW p, NEW S,
             Works(r, i, p, S)
      PROVE  Placed'
    <3> USE <2>WorkPlaced
    <3>1. /\ Requests' = Requests /\ owner' = owner /\ notices' = notices
          /\ book'.pending = book.pending /\ (reqs' = <<>> => reqs = <<>>)
      <4>1. Len(reqs') = Len(reqs) /\ Len(reqs) # 0
        BY SMTT(30) DEF Works, Goes, Moved, Requests, TInv
      <4>2. reqs' # <<>>
        BY <4>1, SMTT(30)
      <4> QED BY <4>2, MovedSame DEF Works, Goes
    <3>2. ASSUME NEW h \in Hosts, NEW c \in Cells, Excused(h, c) PROVE Excused(h, c)'
      <4>1. PICK s \in Requests :
              /\ Last(s)
              /\ \/ reqs[s].state = "inflight" /\ <<h, s, c>> \in book.pending
                 \/ /\ reqs[s].state = "acked" /\ ~Merge(s)
                    /\ \E j \in Commands(s) : h = Cmd(s, j).dstHost /\ c = Cmd(s, j).dst
                 \/ /\ reqs[s].state = "mapped"
                    /\ \E j \in Commands(s) : h = Cmd(s, j).srcHost /\ c = Cmd(s, j).src
                 \/ \E n \in notices : /\ n.kind \in {"release", "rename"}
                                       /\ n.host = h /\ n.cell = c
        BY <3>2 DEF Excused
      <4>2. /\ Last(s)' /\ reqs'[s].state = reqs[s].state /\ (Merge(s)' <=> Merge(s))
            /\ Commands(s)' = Commands(s)
            /\ \A j \in Commands(s) :
                 /\ Cmd(s, j)'.srcHost = Cmd(s, j).srcHost /\ Cmd(s, j)'.src = Cmd(s, j).src
                 /\ Cmd(s, j)'.dstHost = Cmd(s, j).dstHost /\ Cmd(s, j)'.dst = Cmd(s, j).dst
        <5>1. Moved(r, i, p)
          BY DEF Works, Goes
        <5> QED BY <4>1, <5>1, MovedSame, ZenonT(60)
      <4> QED BY <3>1, <4>1, <4>2 DEF Excused
    <3>3. ASSUME NEW h \in Hosts, NEW c \in Cells, Up(h, c)' PROVE Up(h, c)
      BY <3>3 DEF Works, Brings, Up
    <3> QED BY <3>1, <3>2, <3>3 DEF EInv, Placed, Mild

  (* Nothing comes to run where a cell is still to be created.               *)
  <2>WorkVacant.
      ASSUME TInv, CInv, EInv, NEW r \in Requests, NEW i \in Commands(r), NEW p, NEW S,
             Works(r, i, p, S), NEW s \in Requests, Last(s)
      PROVE  Vacant(s)'
    <3> USE <2>WorkVacant
    <3>1. Vacant(s) /\ Shaped(s)
      BY DEF EInv
    <3>2. Moved(r, i, p) /\ notices' = notices
      BY DEF Works, Goes
    <3>3. /\ (Merge(s)' <=> Merge(s)) /\ Commands(s)' = Commands(s)
          /\ reqs'[s].state = reqs[s].state
          /\ \A j \in Commands(s) : /\ Cmd(s, j)'.dst = Cmd(s, j).dst
                                    /\ Cmd(s, j)'.dstHost = Cmd(s, j).dstHost
                                    /\ Cmd(s, j).dstHost \in Hosts /\ Cmd(s, j).dst \in Cells
      <4>1. \A j \in Commands(s) : Cmd(s, j).dstHost \in Hosts /\ Cmd(s, j).dst \in Cells
        BY CommandFields
      <4>2. /\ (Merge(s)' <=> Merge(s)) /\ Commands(s)' = Commands(s)
            /\ reqs'[s].state = reqs[s].state
            /\ \A j \in Commands(s) : /\ Cmd(s, j)'.dst = Cmd(s, j).dst
                                      /\ Cmd(s, j)'.dstHost = Cmd(s, j).dstHost
        BY <3>2, MovedSame
      <4> QED BY <4>1, <4>2
    <3>4. \A g \in Hosts, d \in Cells : Up(g, d)' => Up(g, d)
      BY DEF Works, Brings, Up
    <3>5. ASSUME NEW j \in Commands(s), ~Merge(s),
                 reqs'[s].cmds[j].pc \in {"sent", "serialized", "registered", "shipped"}
          PROVE  reqs[s].cmds[j].pc \in {"sent", "serialized", "registered", "shipped"}
      <4>1. CASE s = r /\ j = i
        <5>1. reqs'[s].cmds[j].pc = p
          BY <3>2, <4>1 DEF Moved
        <5>2. p # "sent" /\ p \in {"serialized", "registered", "shipped"}
          BY <3>5, <5>1 DEF Works, Goes
        <5> QED BY <4>1, <5>2 DEF Works, Goes, At
      <4>2. CASE ~(s = r /\ j = i)
        <5>1. reqs'[s].cmds[j].pc = reqs[s].cmds[j].pc
          BY <3>2, <4>2 DEF Moved
        <5> QED BY <3>5, <5>1
      <4> QED BY <4>1, <4>2
    <3>6. ASSUME NEW j \in Commands(s), ~Merge(s),
                 reqs'[s].cmds[j].pc \in {"sent", "serialized", "registered", "shipped"}
          PROVE  ~Up(Cmd(s, j).dstHost, Cmd(s, j).dst)'
      <4>1. ~Up(Cmd(s, j).dstHost, Cmd(s, j).dst)
        BY <3>1, <3>5, <3>6 DEF Vacant
      <4> QED BY <3>3, <3>4, <4>1 DEF Up
    <3>7. ASSUME Merge(s), reqs[s].state \in {"inflight", "acked"} \/ \E n \in notices : n.kind = "rename"
          PROVE  ~Up(Cmd(s, 1).dstHost, Parent)'
      <4>1. ~Up(Cmd(s, 1).dstHost, Parent) /\ 1 \in Commands(s) /\ Parent \in Cells
        BY <3>1, <3>7 DEF Vacant, Shaped, Cells
      <4> QED BY <3>3, <3>4, <4>1 DEF Up
    <3> QED BY <3>1, <3>2, <3>3, <3>6, <3>7 DEF Vacant, Shaped

  (* What a command has taken and brought stays so for the others.           *)
  <2>FilledKept.
      ASSUME TInv, CInv, NEW r \in Requests, NEW i \in Commands(r), NEW p, NEW S,
             Works(r, i, p, S), reqs[r].state = "inflight",
             NEW j \in Commands(r), j # i
      PROVE  /\ Took(r, j) => Took(r, j)'
             /\ Filled(r, j) => Filled(r, j)'
    <3> USE <2>FilledKept
    <3>1. Moved(r, i, p) /\ Brings(r, i, S) /\ Cmd(r, j)'.ents = Cmd(r, j).ents
      BY DEF Works, Goes
    <3>2. /\ Cmd(r, j)'.src = Cmd(r, j).src /\ Cmd(r, j)'.srcHost = Cmd(r, j).srcHost
          /\ Cmd(r, j)'.dst = Cmd(r, j).dst /\ Cmd(r, j)'.dstHost = Cmd(r, j).dstHost
          /\ reqs'[r].kind = reqs[r].kind
      BY <3>1, MovedSame
    <3>3. Cmd(r, j).dstHost \in Hosts /\ Cmd(r, j).dst \in Cells
      BY CommandFields
    <3>4. /\ inst'[Cmd(r, j).srcHost][Cmd(r, j).src].live =
               inst[Cmd(r, j).srcHost][Cmd(r, j).src].live
          /\ inst[Cmd(r, j).dstHost][Cmd(r, j).dst].live \subseteq
               inst'[Cmd(r, j).dstHost][Cmd(r, j).dst].live
      <4>1. inst'[Cmd(r, j).srcHost][Cmd(r, j).src].live =
              inst[Cmd(r, j).srcHost][Cmd(r, j).src].live
        BY <3>1, <2>SourcesSame
      <4> QED BY <3>1, <3>3, <4>1 DEF Brings
    <3>5. Took(r, j) => Took(r, j)'
      BY <3>1, <3>2, <3>4 DEF Took
    <3>6. ASSUME Filled(r, j) PROVE Cmd(r, j)'.ents \subseteq inst'[Cmd(r, j)'.dstHost][Cmd(r, j)'.dst].live
      BY <3>1, <3>2, <3>4, <3>6 DEF Filled
    <3> QED BY <3>2, <3>5, <3>6 DEF Filled

  (* What the goroutines carry.                                              *)
  <2>WorkTaken.
      ASSUME TInv, CInv, EInv, NEW r \in Requests, NEW i \in Commands(r), NEW p, NEW S,
             Works(r, i, p, S), Last(r)
      PROVE  Taken(r)'
    <3> USE <2>WorkTaken
    <3>1. Taken(r) /\ Built(r)
      BY DEF EInv, CInv
    <3>2. Moved(r, i, p) /\ Brings(r, i, S)
      BY DEF Works, Goes
    <3>3. /\ reqs'[r].kind = reqs[r].kind /\ Commands(r)' = Commands(r)
          /\ reqs'[r].state = reqs[r].state
          /\ Cmd(r, i)'.src = Cmd(r, i).src /\ Cmd(r, i)'.srcHost = Cmd(r, i).srcHost
          /\ reqs'[r].cmds[i].pc = p
          /\ \A j \in Commands(r) : j # i => reqs'[r].cmds[j].pc = reqs[r].cmds[j].pc
      <4>1. /\ reqs'[r].cmds[i].pc = p
            /\ \A j \in Commands(r) : j # i => reqs'[r].cmds[j].pc = reqs[r].cmds[j].pc
        BY <3>2 DEF Moved
      <4>2. /\ reqs'[r].kind = reqs[r].kind /\ Commands(r)' = Commands(r)
            /\ reqs'[r].state = reqs[r].state
            /\ Cmd(r, i)'.src = Cmd(r, i).src /\ Cmd(r, i)'.srcHost = Cmd(r, i).srcHost
        BY <3>2, MovedSame
      <4> QED BY <4>1, <4>2
    <3> SUFFICES ASSUME reqs[r].state = "inflight" PROVE Taken(r)'
      BY <3>3 DEF Taken
    <3>4. ASSUME NEW j \in Commands(r), At(r, j, "sent")' PROVE Cmd(r, j)'.ents = {}
      <4>1. j # i
        BY <3>3, <3>4 DEF Works, Goes, At
      <4>2. Cmd(r, j)'.ents = Cmd(r, j).ents /\ At(r, j, "sent")
        BY <3>3, <3>4, <4>1 DEF Works, Goes, At
      <4> QED BY <3>1, <4>2 DEF Taken
    <3>5. ASSUME reqs[r].kind # "split", NEW j \in Commands(r),
                 reqs'[r].cmds[j].pc \in {"serialized", "registered", "shipped", "created"}
          PROVE  Took(r, j)'
      <4>1. CASE j # i
        <5>1. Took(r, j)
          BY <3>1, <3>3, <3>5, <4>1 DEF Taken
        <5> QED BY <4>1, <5>1, <2>FilledKept
      <4>2. CASE j = i /\ p = "serialized"
        <5>1. Cmd(r, i)'.ents = inst[Cmd(r, i).srcHost][Cmd(r, i).src].live
          BY <3>5, <4>2 DEF Works, Goes, Serialized
        <5>2. inst'[Cmd(r, i).srcHost][Cmd(r, i).src].live =
                inst[Cmd(r, i).srcHost][Cmd(r, i).src].live
          BY <3>2, <2>SourcesSame
        <5> QED BY <3>3, <4>2, <5>1, <5>2 DEF Took
      <4>3. CASE j = i /\ p # "serialized"
        <5>1. p \in {"registered", "shipped", "created"}
          BY <3>3, <3>5, <4>3
        <5>2. /\ reqs[r].cmds[i].pc \in {"serialized", "registered", "shipped"}
              /\ Cmd(r, i)'.ents = Cmd(r, i).ents
          BY <4>3, <5>1 DEF Works, Goes
        <5>3. Took(r, i)
          BY <3>1, <3>5, <5>2 DEF Taken
        <5>4. inst'[Cmd(r, i).srcHost][Cmd(r, i).src].live =
                inst[Cmd(r, i).srcHost][Cmd(r, i).src].live
          BY <3>2, <2>SourcesSame
        <5> QED BY <3>3, <4>3, <5>2, <5>3, <5>4 DEF Took
      <4> QED BY <4>1, <4>2, <4>3
    <3> QED BY <3>3, <3>4, <3>5 DEF Taken

  (* An ok Ready for another command is not news.                            *)
  <2>OkNews.
      ASSUME NEW r \in Requests, NEW i \in Commands(r), NEW p, NEW S, Says(r, i, p, S),
             NEW k, OkSaid(r, k)'
      PROVE  \/ OkSaid(r, k)
             \/ k = i /\ p = "done" /\ At(r, i, "created") /\ Cmd(r, i).ents \subseteq S
    <3> USE <2>OkNews
    <3>1. PICK m \in ready' : m.ok /\ m.req = r /\ m.cmd = k
      BY DEF OkSaid
    <3> QED BY <3>1 DEF OkSaid, Says

  (* A command that reports success has filled its destination.              *)
  <2>FilledNow.
      ASSUME TInv, CInv, NEW r \in Requests, NEW i \in Commands(r), NEW p, NEW S,
             Works(r, i, p, S), reqs[r].state = "inflight", Taken(r),
             p = "done", At(r, i, "created"), Cmd(r, i).ents \subseteq S
      PROVE  Filled(r, i)'
    <3> USE <2>FilledNow
    <3>1. Moved(r, i, p) /\ Brings(r, i, S) /\ Cmd(r, i)'.ents = Cmd(r, i).ents
      <4>1. Goes(r, i, p) /\ Brings(r, i, S)
        BY DEF Works
      <4> QED BY <4>1 DEF Goes
    <3>2. /\ Cmd(r, i)'.src = Cmd(r, i).src /\ Cmd(r, i)'.srcHost = Cmd(r, i).srcHost
          /\ Cmd(r, i)'.dst = Cmd(r, i).dst /\ Cmd(r, i)'.dstHost = Cmd(r, i).dstHost
          /\ reqs'[r].kind = reqs[r].kind
      BY <3>1, MovedSame, ZenonT(60)
    <3>3. inst'[Cmd(r, i).dstHost][Cmd(r, i).dst].live =
            inst[Cmd(r, i).dstHost][Cmd(r, i).dst].live \union S
      BY <3>1 DEF Brings
    <3>4. Cmd(r, i)'.ents \subseteq inst'[Cmd(r, i)'.dstHost][Cmd(r, i)'.dst].live
      BY <3>1, <3>2, <3>3
    <3>5. ASSUME reqs[r].kind # "split" PROVE Took(r, i)'
      <4>1. Took(r, i)
        BY <3>5 DEF Taken, At
      <4>2. inst'[Cmd(r, i).srcHost][Cmd(r, i).src].live =
              inst[Cmd(r, i).srcHost][Cmd(r, i).src].live
        BY <3>1, <2>SourcesSame
      <4> QED BY <3>1, <3>2, <4>1, <4>2 DEF Took
    <3> QED BY <3>2, <3>4, <3>5 DEF Filled

  <2>WorkCarried.
      ASSUME TInv, CInv, EInv, NEW r \in Requests, NEW i \in Commands(r), NEW p, NEW S,
             Works(r, i, p, S), Last(r)
      PROVE  Carried(r)'
    <3> USE <2>WorkCarried
    <3>1. Taken(r) /\ Carried(r)
      BY DEF EInv
    <3>2. Moved(r, i, p) /\ ~At(r, i, "done") /\ Says(r, i, p, S)
      <4>1. Goes(r, i, p) /\ Says(r, i, p, S)
        BY DEF Works
      <4> QED BY <4>1 DEF Goes
    <3>3. /\ (Merge(r)' <=> Merge(r)) /\ Commands(r)' = Commands(r)
          /\ reqs'[r].state = reqs[r].state /\ reqs'[r].acked = reqs[r].acked
      BY <3>2, MovedSame
    <3>4. reqs[r].state \in {"inflight", "rolledback"}
      BY <3>2, <1>Busy
    <3> SUFFICES ASSUME reqs[r].state = "inflight" PROVE Carried(r)'
      BY <3>3, <3>4 DEF Carried
    <3>5. ASSUME NEW k \in Commands(r), At(r, k, "done"), Filled(r, k)
          PROVE  Filled(r, k)' /\ At(r, k, "done")'
      <4>1. k # i
        BY <3>2, <3>5
      <4>2. Filled(r, k)'
        BY <3>5, <4>1, <2>FilledKept
      <4>3. At(r, k, "done")'
        BY <3>2, <3>5, <4>1 DEF Moved, At
      <4> QED BY <4>2, <4>3
    <3>6. ASSUME NEW k \in Commands(r), OkSaid(r, k)', ~OkSaid(r, k) PROVE Filled(r, k)' /\ k = i
      <4>1. k = i /\ p = "done" /\ At(r, i, "created") /\ Cmd(r, i).ents \subseteq S
        BY <3>2, <3>6, <2>OkNews
      <4> QED BY <3>1, <4>1, <2>FilledNow
    <3>7. ASSUME ~Merge(r), NEW k \in Commands(r), k \in reqs[r].acked \/ OkSaid(r, k)'
          PROVE  Filled(r, k)' \/ \E j \in Commands(r) : Failed(r, j)'
      <4>1. CASE OkSaid(r, k)' /\ ~OkSaid(r, k)
        BY <3>6, <4>1
      <4>2. CASE k \in reqs[r].acked \/ OkSaid(r, k)
        <5>1. Filled(r, k) \/ \E j \in Commands(r) : Failed(r, j)
          BY <3>1, <3>7, <4>2 DEF Carried
        <5>2. At(r, k, "done")
          BY <3>7, <4>2, OkDone
        <5>3. ASSUME NEW j \in Commands(r), Failed(r, j) PROVE Failed(r, j)'
          <6>1. At(r, i, "undo") => p \in {"undo", "done"}
            BY DEF Works, Goes
          <6>2. \A m \in ready' \ ready : m.req = r /\ m.cmd = i /\ (m.ok => ~At(r, i, "undo"))
            BY <3>2 DEF Says, At
          <6> QED BY <3>2, <5>3, <6>1, <6>2, <1>FailedKept
        <5> QED BY <3>5, <5>1, <5>2, <5>3
      <4> QED BY <3>7, <4>1, <4>2
    <3>8. ASSUME Merge(r), NEW k \in Commands(r), OkSaid(r, k)' PROVE Filled(r, k)'
      <4>1. CASE OkSaid(r, k)
        BY <3>1, <3>5, <3>8, <4>1, OkDone DEF Carried
      <4> QED BY <3>6, <3>8, <4>1
    <3>9. ASSUME Merge(r) PROVE Tallied(r)'
      <4>0. reqs[r].acked \subseteq Commands(r)
        BY DEF TInv
      <4>1. PICK f \in [Commands(r) -> Commands(r)] :
              /\ \A j, k \in Commands(r) : f[j] = f[k] => j = k
              /\ \A j \in Commands(r) : \E k \in Commands(r) : f[k] = j
              /\ \A k \in reqs[r].acked : At(r, f[k], "done") /\ ~OkSaid(r, f[k]) /\ Filled(r, f[k])
        BY <3>1, <3>9 DEF Carried, Tallied
      <4>2. ASSUME NEW k \in reqs[r].acked
            PROVE  At(r, f[k], "done")' /\ ~OkSaid(r, f[k])' /\ Filled(r, f[k])'
        <5>1. f[k] \in Commands(r) /\ At(r, f[k], "done") /\ ~OkSaid(r, f[k]) /\ Filled(r, f[k])
          BY <4>0, <4>1, <4>2
        <5>2. ~OkSaid(r, f[k])'
          BY <3>2, <3>6, <5>1
        <5> QED BY <3>5, <5>1, <5>2
      <4>3. /\ f \in [Commands(r)' -> Commands(r)']
            /\ \A j, k \in Commands(r)' : f[j] = f[k] => j = k
            /\ \A j \in Commands(r)' : \E k \in Commands(r)' : f[k] = j
        BY <3>3, <4>1, ZenonT(60)
      <4>4. \A k \in reqs'[r].acked : At(r, f[k], "done")' /\ ~OkSaid(r, f[k])' /\ Filled(r, f[k])'
        BY <3>3, <4>2
      <4> QED BY <4>3, <4>4 DEF Tallied
    <3> QED BY <3>3, <3>7, <3>8, <3>9 DEF Carried

  (* Nobody is left out of a split.                                          *)
  <2>WorkCovered.
      ASSUME TInv, CInv, EInv, NEW r \in Requests, NEW i \in Commands(r), NEW p, NEW S,
             Works(r, i, p, S), Last(r)
      PROVE  Covered(r)'
    <3> USE <2>WorkCovered
    <3>1. Taken(r) /\ Covered(r) /\ Built(r) /\ Owned(r)
      BY DEF EInv, CInv
    <3>2. /\ Moved(r, i, p) /\ ~At(r, i, "done") /\ Says(r, i, p, S) /\ Goes(r, i, p)
          /\ Brings(r, i, S) /\ owner' = owner /\ quad' = quad
      <4>1. /\ Goes(r, i, p) /\ Says(r, i, p, S) /\ Brings(r, i, S)
            /\ owner' = owner /\ quad' = quad
        BY DEF Works
      <4> QED BY <4>1 DEF Goes
    <3>3. /\ reqs'[r].kind = reqs[r].kind /\ Commands(r)' = Commands(r)
          /\ reqs'[r].state = reqs[r].state /\ reqs'[r].acked = reqs[r].acked
      BY <3>2, MovedSame
    <3>4. reqs[r].state \in {"inflight", "rolledback"}
      BY <3>2, <1>Busy
    <3> SUFFICES ASSUME reqs[r].state = "inflight", SameTick, reqs[r].kind = "split",
                        NEW e \in inst'[owner[Parent]][Parent].live \ Newcomers
                 PROVE  \E k \in Commands(r) : \/ e \in Cmd(r, k)'.ents
                                               \/ At(r, k, "sent")' /\ quad[e] = k
                                               \/ Failed(r, k)'
      BY <3>2, <3>3, <3>4 DEF Covered
    <3>5. ~Merge(r) /\ Cmd(r, i).src = Parent /\ Cmd(r, i).srcHost = owner[Parent]
      BY <3>1 DEF Merge, Built, Owned
    <3>6. inst'[Cmd(r, i).srcHost][Cmd(r, i).src].live =
            inst[Cmd(r, i).srcHost][Cmd(r, i).src].live
      BY <3>2, <2>SourcesSame
    <3>7. PICK k \in Commands(r) : \/ e \in Cmd(r, k).ents
                                   \/ At(r, k, "sent") /\ quad[e] = k
                                   \/ Failed(r, k)
      BY <3>1, <3>5, <3>6 DEF Covered
    <3>8. CASE k # i /\ ~Failed(r, k)
      <4>1. Cmd(r, k)'.ents = Cmd(r, k).ents
        BY <3>2, <3>8 DEF Goes
      <4>2. At(r, k, "sent")' <=> At(r, k, "sent")
        BY <3>2, <3>8 DEF Moved, At
      <4> QED BY <3>7, <3>8, <4>1, <4>2
    <3>9. CASE Failed(r, k)
      <4>1. At(r, i, "undo") => p \in {"undo", "done"}
        BY <3>2 DEF Goes
      <4>2. \A m \in ready' \ ready : m.req = r /\ m.cmd = i /\ (m.ok => ~At(r, i, "undo"))
        BY <3>2 DEF Says, At
      <4>3. Failed(r, k)'
        BY <3>2, <3>9, <4>1, <4>2, <1>FailedKept
      <4> QED BY <4>3
    <3>10. CASE k = i /\ e \in Cmd(r, i).ents
      <4>1. p # "serialized"
        BY <3>1, <3>2, <3>10 DEF Goes, Taken
      <4> QED BY <3>2, <3>10, <4>1 DEF Goes
    <3>11. CASE k = i /\ At(r, i, "sent") /\ quad[e] = i
      <4>1. CASE p = "serialized"
        <5>1. Cmd(r, i)'.ents = Serialized(r, i)
          BY <3>2, <4>1 DEF Goes
        <5>2. e \in Serialized(r, i)
          BY <3>5, <3>6, <3>11 DEF Serialized
        <5> QED BY <5>1, <5>2
      <4>2. CASE p # "serialized"
        <5>1. p \in {"undo", "done"}
          BY <3>2, <3>11, <4>2 DEF Goes, Steps, At
        <5>2. reqs'[r].cmds[i].pc = p
          BY <3>2 DEF Moved
        <5>3. ~OkSaid(r, i)'
          <6> SUFFICES ASSUME OkSaid(r, i)' PROVE FALSE
            OBVIOUS
          <6>1. OkSaid(r, i) \/ At(r, i, "created")
            BY <3>2, <2>OkNews
          <6> QED BY <3>2, <3>11, <6>1, OkDone DEF At
        <5>4. i \notin reqs[r].acked
          BY <3>2, <3>5, OkDone
        <5> QED BY <3>3, <5>1, <5>2, <5>3, <5>4 DEF Failed
      <4> QED BY <4>1, <4>2
    <3> QED BY <3>7, <3>8, <3>9, <3>10, <3>11

  (* Only merges note survivors.                                             *)
  <2>WorkLogged.
      ASSUME TInv, CInv, EInv, NEW r \in Requests, NEW i \in Commands(r), NEW p, NEW S,
             Works(r, i, p, S), NEW x \in book'.survivor
      PROVE  Logged(x)'
    <3> USE <2>WorkLogged
    <3>1. Moved(r, i, p) /\ Brings(r, i, S)
      <4>1. Goes(r, i, p) /\ Brings(r, i, S)
        BY DEF Works
      <4> QED BY <4>1 DEF Goes
    <3>2. CASE x \in book.survivor
      <4>1. Logged(x) /\ x[2] \in Requests
        BY <3>2 DEF EInv, TInv
      <4>2. 1 \in Commands(x[2])
        BY <4>1 DEF EInv, Logged, Shaped
      <4>3. /\ (Merge(x[2])' <=> Merge(x[2])) /\ reqs'[x[2]].state = reqs[x[2]].state
            /\ Cmd(x[2], 1)'.dst = Cmd(x[2], 1).dst
            /\ Cmd(x[2], 1)'.dstHost = Cmd(x[2], 1).dstHost
        BY <3>1, <4>1, <4>2, MovedSame
      <4> QED BY <4>1, <4>3 DEF Logged
    <3>3. CASE Merge(r) /\ x = <<Cmd(r, i).dstHost, r, Cmd(r, i).dst>>
      <4>1. x[1] = Cmd(r, i).dstHost /\ x[2] = r /\ x[3] = Cmd(r, i).dst
        BY <3>3
      <4>2. 1 \in Commands(r) /\ Built(r)
        BY <3>3 DEF EInv, Shaped, CInv
      <4>3. /\ (Merge(r)' <=> Merge(r)) /\ Cmd(r, 1)'.dst = Cmd(r, 1).dst
            /\ Cmd(r, 1)'.dstHost = Cmd(r, 1).dstHost
        BY <3>1, <4>2, MovedSame
      <4>4. Cmd(r, 1).dst = Cmd(r, i).dst /\ Cmd(r, 1).dstHost = Cmd(r, i).dstHost
        BY <3>3, <4>2 DEF Built
      <4> QED BY <3>3, <4>1, <4>3, <4>4 DEF Logged
    <3> QED BY <3>1, <3>2, <3>3 DEF Brings

  (* So a step of a goroutine that takes no cell up or down is safe.         *)
  <2>WorkKeeps.
      ASSUME TInv, CInv, EInv, NEW r \in Requests, NEW i \in Commands(r), NEW p, NEW S,
             Works(r, i, p, S)
      PROVE  EInv'
    <3> USE <2>WorkKeeps
    <3>1. Moved(r, i, p) /\ ~At(r, i, "done") /\ owner' = owner
      <4>1. Goes(r, i, p) /\ owner' = owner
        BY DEF Works
      <4> QED BY <4>1 DEF Goes
    <3>2. Requests' = Requests /\ Last(r) /\ \A s \in Requests : Last(s)' <=> Last(s)
      <4>1. Last(r)
        BY <3>1, <1>Busy
      <4> QED BY <3>1, <4>1, MovedSame
    <3>3. Region'
      BY <3>1 DEF EInv, Region
    <3>4. \A s \in Requests : Shaped(s)' /\ Finished(s)'
      BY <3>1, <1>ShapedKept DEF EInv
    <3>5. ASSUME NEW s \in Requests, Last(s)
          PROVE  Taken(s)' /\ Carried(s)' /\ Covered(s)' /\ Vacant(s)'
      <4>1. s = r
        BY <3>2, <3>5 DEF Last
      <4> QED BY <3>2, <4>1, <2>WorkTaken, <2>WorkCarried, <2>WorkCovered, <2>WorkVacant
    <3>6. Placed'
      BY <2>WorkPlaced
    <3>7. \A x \in book'.survivor : Logged(x)'
      BY <2>WorkLogged
    <3>8. ASSUME NEW e \in Entities \ Newcomers, SameTick
          PROVE  \E h \in Hosts, c \in Cells : Home(e, h, c)'
      <4>1. PICK h \in Hosts, c \in Cells : Home(e, h, c)
        BY <3>8 DEF EInv
      <4>2. Home(e, h, c)'
        BY <4>1, <2>WorkHome
      <4> QED BY <4>2
    <3> QED BY <3>2, <3>3, <3>4, <3>5, <3>6, <3>7, <3>8 DEF EInv
  <2> QED BY <2>WorkKeeps

(* The steps of Execute and Receive are such steps.                        *)

<1>GotoGoes.
    ASSUME TInv, NEW r \in Requests, NEW i \in Commands(r), NEW p \in Steps, Goto(r, i, p),
           ~At(r, i, "done"), p \notin {"sent", "serialized"}, p = "created" => Merge(r),
           p \in {"registered", "shipped", "created"} =>
             reqs[r].cmds[i].pc \in {"serialized", "registered", "shipped"},
           At(r, i, "undo") => p = "done"
    PROVE  Goes(r, i, p)
  <2> USE <1>GotoGoes
  <2>1. Moved(r, i, p) /\ Edited(r, i, [Cmd(r, i) EXCEPT !.pc = p])
    BY GotoMoves
  <2>2. [Cmd(r, i) EXCEPT !.pc = p].ents = Cmd(r, i).ents
    <3>1. Cmd(r, i) \in CommandT
      BY Elements DEF TInv
    <3> QED BY <3>1 DEF CommandT
  <2>3. \A s \in Requests : \A j \in Commands(s) : Cmd(s, j)'.ents = Cmd(s, j).ents
    BY <2>1, <2>2 DEF Edited, Cmd
  <2> QED BY <2>1, <2>3 DEF Goes

<1>SaysFailure.
    ASSUME NEW r, NEW i, NEW p \in {"undo", "done"}, NEW S, NEW h,
           ready' = ready \union {ReadyMsg(r, i, h, FALSE)}
    PROVE  Says(r, i, p, S)
  <2> USE <1>SaysFailure
  <2>1. PICK q : q = ReadyMsg(r, i, h, FALSE)
    OBVIOUS
  <2>2. q.req = r /\ q.cmd = i /\ ~q.ok
    BY <2>1, SMTT(30) DEF ReadyMsg
  <2>3. \A m \in ready' \ ready : m = q
    BY <2>1
  <2> QED BY <2>2, <2>3 DEF Says

<1>BringsNothing.
    ASSUME TInv, NEW r \in Requests, NEW i \in Commands(r),
           \A g \in Hosts, d \in Cells : /\ inst'[g][d].up = inst[g][d].up
                                         /\ inst'[g][d].live = inst[g][d].live,
           book'.survivor = book.survivor, book'.imported = book.imported
    PROVE  Brings(r, i, {})
  <2> USE <1>BringsNothing
  <2>1. Cmd(r, i).dst \in Cells /\ Cmd(r, i).dstHost \in Hosts
    BY CommandFields
  <2> QED BY <2>1 DEF Brings

<1>SerializeWorks.
    ASSUME TInv, NEW r \in Requests, NEW i \in Commands(r), Serialize(r, i)
    PROVE  Works(r, i, "serialized", {})
  <2> USE <1>SerializeWorks
  <2> DEFINE h == Cmd(r, i).srcHost
             c == Cmd(r, i).src
             v == [Cmd(r, i) EXCEPT !.pc = "serialized", !.ents = Serialized(r, i)]
  <2>1. h \in Hosts /\ c \in Cells
    BY CommandFields
  <2>2. inst[h][c] \in InstT /\ inst \in [Hosts -> [Cells -> InstT]]
    BY <2>1 DEF TInv
  <2>3. Serialized(r, i) \subseteq Entities
    BY <2>1, <2>2 DEF Serialized, InstT
  <2>4. Edited(r, i, v)
    BY <2>3, SerializeEdits DEF TInv, Serialize
  <2>5. v.ents = Serialized(r, i)
    BY Elements, SMTT(30) DEF TInv, CommandT
  <2> HIDE DEF v
  <2>6. /\ Cmd(r, i)'.ents = Serialized(r, i)
        /\ \A s \in Requests : \A j \in Commands(s) :
             ~(s = r /\ j = i) => Cmd(s, j)'.ents = Cmd(s, j).ents
    BY <2>4, <2>5 DEF Edited, Cmd
  <2>7. Moved(r, i, "serialized")
    BY SerializeStep DEF Advances, Quietly
  <2>8. Goes(r, i, "serialized")
    BY <2>6, <2>7 DEF Goes, Serialize, At, Steps
  <2>9. \A g \in Hosts, d \in Cells : /\ inst'[g][d].up = inst[g][d].up
                                      /\ inst'[g][d].live = inst[g][d].live
    <3>1. inst' = [inst EXCEPT ![h][c].suspended = TRUE,
                               ![h][c].frozen = @ \/ reqs[r].kind = "merge"]
      BY DEF Serialize
    <3> HIDE DEF h, c
    <3> QED BY <2>1, <2>2, <3>1 DEF InstT
  <2>10. book' = book /\ ready' = ready /\ owner' = owner /\ notices' = notices /\ quad' = quad
    BY DEF Serialize
  <2>11. Brings(r, i, {})
    BY <2>9, <2>10, <1>BringsNothing
  <2>12. Says(r, i, "serialized", {})
    BY <2>10 DEF Says
  <2> QED BY <2>8, <2>10, <2>11, <2>12 DEF Works

<1>SerializeFailsWorks.
    ASSUME TInv, NEW r \in Requests, NEW i \in Commands(r), SerializeFails(r, i)
    PROVE  Works(r, i, "done", {})
  <2> USE <1>SerializeFailsWorks
  <2> DEFINE h == Cmd(r, i).srcHost
             c == Cmd(r, i).src
  <2>1. h \in Hosts /\ c \in Cells
    BY CommandFields
  <2>2. Goes(r, i, "done")
    BY <1>GotoGoes DEF SerializeFails, Steps, At
  <2>3. \A g \in Hosts, d \in Cells : /\ inst'[g][d].up = inst[g][d].up
                                      /\ inst'[g][d].live = inst[g][d].live
    <3> DEFINE v == [inst[h][c] EXCEPT
                       !.frozen = inst[h][c].frozen /\ reqs[r].kind # "merge"]
    <3>1. inst' = [inst EXCEPT ![h][c] = v]
      BY DEF SerializeFails
    <3>2. inst[h][c] \in InstT
      BY <2>1 DEF TInv
    <3>3. v \in InstT /\ v.up = inst[h][c].up /\ v.live = inst[h][c].live
      BY <3>2 DEF InstT
    <3> HIDE DEF v
    <3> QED BY <2>1, <3>1, <3>3, OneInst
  <2>4. /\ book' = book /\ owner' = owner /\ notices' = notices /\ quad' = quad
        /\ ready' = ready \union {ReadyMsg(r, i, h, FALSE)}
    BY DEF SerializeFails, Report
  <2>5. Brings(r, i, {})
    BY <2>3, <2>4, <1>BringsNothing
  <2>6. Says(r, i, "done", {})
    BY <2>4, <1>SaysFailure
  <2> QED BY <2>2, <2>4, <2>5, <2>6 DEF Works

<1>SourceWorks.
    ASSUME TInv, NEW r \in Requests, NEW i \in Commands(r)
    PROVE  /\ RegisterSource(r, i) => Works(r, i, "registered", {})
           /\ Ship(r, i) => Works(r, i, "shipped", {})
  <2> USE <1>SourceWorks
  <2>1. ASSUME RegisterSource(r, i) PROVE Works(r, i, "registered", {})
    <3>1. Goes(r, i, "registered")
      BY <2>1, <1>GotoGoes DEF RegisterSource, Steps, At
    <3>2. /\ inst' = inst /\ owner' = owner /\ notices' = notices /\ quad' = quad
          /\ ready' = ready
      BY <2>1 DEF RegisterSource
    <3>3. /\ book'.survivor = book.survivor /\ book'.imported = book.imported
          /\ book'.pending = book.pending
      BY <2>1 DEF RegisterSource, TInv, BookT
    <3>4. Brings(r, i, {})
      BY <3>2, <3>3, <1>BringsNothing
    <3>5. Says(r, i, "registered", {})
      BY <3>2 DEF Says
    <3> QED BY <3>1, <3>2, <3>3, <3>4, <3>5 DEF Works
  <2>2. ASSUME Ship(r, i) PROVE Works(r, i, "shipped", {})
    <3>1. Goes(r, i, "shipped")
      BY <2>2, <1>GotoGoes DEF Ship, Steps, At
    <3>2. /\ inst' = inst /\ owner' = owner /\ notices' = notices /\ quad' = quad
          /\ ready' = ready /\ book' = book
      BY <2>2 DEF Ship
    <3>3. Brings(r, i, {})
      BY <3>2, <1>BringsNothing
    <3>4. Says(r, i, "shipped", {})
      BY <3>2 DEF Says
    <3> QED BY <3>1, <3>2, <3>3, <3>4 DEF Works
  <2> QED BY <2>1, <2>2

<1>UndoWorks.
    ASSUME TInv, NEW r \in Requests, NEW i \in Commands(r), ~At(r, i, "done"),
           UndoSource(r, i)
    PROVE  Works(r, i, "done", {})
  <2> USE <1>UndoWorks
  <2> DEFINE h == Cmd(r, i).srcHost
             c == Cmd(r, i).src
  <2>1. h \in Hosts /\ c \in Cells
    BY CommandFields
  <2>2. Goes(r, i, "done")
    BY <1>GotoGoes DEF UndoSource, Steps
  <2>3. \A g \in Hosts, d \in Cells : /\ inst'[g][d].up = inst[g][d].up
                                      /\ inst'[g][d].live = inst[g][d].live
    <3> DEFINE v == Resume(inst[h][c], reqs[r].kind = "merge")
    <3>1. inst' = [inst EXCEPT ![h][c] = v]
      BY DEF UndoSource, Resume
    <3>2. inst[h][c] \in InstT
      BY <2>1 DEF TInv
    <3>3. v \in InstT /\ v.up = inst[h][c].up /\ v.live = inst[h][c].live
      BY <3>2 DEF Resume, InstT
    <3> HIDE DEF v
    <3> QED BY <2>1, <3>1, <3>3, OneInst
  <2>4. /\ owner' = owner /\ notices' = notices /\ quad' = quad
        /\ ready' = ready \union {ReadyMsg(r, i, h, FALSE)}
    BY DEF UndoSource, Report
  <2>5. /\ book'.survivor = book.survivor /\ book'.imported = book.imported
        /\ book'.pending = book.pending
    BY DEF UndoSource, TInv, BookT
  <2>6. Brings(r, i, {})
    BY <2>3, <2>5, <1>BringsNothing
  <2>7. Says(r, i, "done", {})
    BY <2>4, <1>SaysFailure
  <2> QED BY <2>2, <2>4, <2>5, <2>6, <2>7 DEF Works

(* So Execute keeps the invariant.                                         *)
<1>ExecuteCarries.
    ASSUME TInv, CInv, EInv, NEW r \in Requests, NEW i \in Commands(r), Execute(r, i)
    PROVE  EInv'
  <2> USE <1>ExecuteCarries
  <2>1. ASSUME UndoSource(r, i), ~At(r, i, "done") PROVE EInv'
    BY <2>1, <1>UndoWorks, <1>WorkKeeps
  <2>2. CASE Serialize(r, i)
    BY <2>2, <1>SerializeWorks, <1>WorkKeeps
  <2>3. CASE SerializeFails(r, i)
    BY <2>3, <1>SerializeFailsWorks, <1>WorkKeeps
  <2>4. CASE RegisterSource(r, i) \/ Ship(r, i)
    BY <2>4, <1>SourceWorks, <1>WorkKeeps
  <2>5. CASE ShipFails(r, i)
    BY <2>1, <2>5 DEF ShipFails, At
  <2>6. CASE LocalShipFails(r, i)
    BY <2>1, <2>6 DEF LocalShipFails, At
  <2> QED BY <2>2, <2>3, <2>4, <2>5, <2>6 DEF Execute

<1>SaysSuccess.
    ASSUME NEW r, NEW i, NEW S, NEW h, At(r, i, "created"), Cmd(r, i).ents \subseteq S,
           ready' = ready \union {ReadyMsg(r, i, h, TRUE)}
    PROVE  Says(r, i, "done", S)
  <2> USE <1>SaysSuccess
  <2>1. PICK q : q = ReadyMsg(r, i, h, TRUE)
    OBVIOUS
  <2>2. q.req = r /\ q.cmd = i
    BY <2>1, SMTT(30) DEF ReadyMsg
  <2>3. \A m \in ready' \ ready : m = q
    BY <2>1
  <2> QED BY <2>2, <2>3 DEF Says

<1>PopulateWorks.
    ASSUME TInv, NEW r \in Requests, NEW i \in Commands(r), Populate(r, i)
    PROVE  Works(r, i, "done", Cmd(r, i).ents)
  <2> USE <1>PopulateWorks
  <2> DEFINE h == Cmd(r, i).dstHost
             c == Cmd(r, i).dst
             v == [inst[h][c] EXCEPT !.live = inst[h][c].live \union Cmd(r, i).ents]
  <2>1. h \in Hosts /\ c \in Cells
    BY CommandFields
  <2>2. Goes(r, i, "done")
    BY <1>GotoGoes DEF Populate, Steps, At
  <2>3. /\ book' = book /\ owner' = owner /\ notices' = notices /\ quad' = quad
        /\ ready' = ready \union {ReadyMsg(r, i, h, TRUE)} /\ <<h, r, c>> \in book.pending
        /\ At(r, i, "created")
    BY DEF Populate, Report
  <2>4. /\ \A g \in Hosts, d \in Cells :
             inst'[g][d] = IF g = h /\ d = c THEN v ELSE inst[g][d]
        /\ v.up = inst[h][c].up /\ v.live = inst[h][c].live \union Cmd(r, i).ents
    <3>1. inst' = [inst EXCEPT ![h][c] = v]
      BY DEF Populate
    <3>2. inst[h][c] \in InstT
      BY <2>1 DEF TInv
    <3>3. /\ v \in InstT /\ v.up = inst[h][c].up
          /\ v.live = inst[h][c].live \union Cmd(r, i).ents
      BY <3>2, CommandFields DEF InstT
    <3> HIDE DEF v
    <3> QED BY <2>1, <3>1, <3>3, OneInst
  <2> HIDE DEF v
  <2>5. Brings(r, i, Cmd(r, i).ents)
    BY <2>1, <2>3, <2>4 DEF Brings
  <2>6. Says(r, i, "done", Cmd(r, i).ents)
    BY <2>3, <1>SaysSuccess
  <2> QED BY <2>2, <2>3, <2>5, <2>6 DEF Works

<1>ImportBrings.
    ASSUME TInv, NEW r \in Requests, NEW i \in Commands(r), Merge(r),
           NEW some \in SUBSET Cmd(r, i).ents, Import(r, i, some)
    PROVE  Brings(r, i, some)
  <2> USE <1>ImportBrings
  <2> DEFINE h == Cmd(r, i).dstHost
             c == Cmd(r, i).dst
  <2>1. h \in Hosts /\ c \in Cells
    BY CommandFields
  <2>2. book'.survivor = book.survivor
    BY ImportStep
  <2>3. book'.imported = book.imported \union {<<h, r, e>> : e \in some \ inst[h][c].live}
    BY DEF Import, TInv, BookT
  <2>4. /\ \A g \in Hosts, d \in Cells :
             /\ inst'[g][d].up = inst[g][d].up
             /\ ~(g = h /\ d = c) => inst'[g][d].live = inst[g][d].live
        /\ inst'[h][c].live = inst[h][c].live \union some
    <3>1. inst[h][c] \in InstT /\ inst \in [Hosts -> [Cells -> InstT]]
      BY <2>1 DEF TInv
    <3>2. inst' = [inst EXCEPT ![h][c].frozen = TRUE, ![h][c].live = @ \union some]
      BY DEF Import
    <3> HIDE DEF h, c
    <3> QED BY <2>1, <3>1, <3>2 DEF InstT
  <2>5. \A g \in Hosts, d \in Cells : inst[g][d].live \subseteq inst'[g][d].live
    BY <2>4
  <2>6. ASSUME NEW x \in book'.imported
        PROVE  \/ x \in book.imported
               \/ \E e \in some \ inst[h][c].live : x = <<h, r, e>>
    BY <2>3, <2>6
  <2> QED BY <2>2, <2>4, <2>5, <2>6, ZenonT(60) DEF Brings

<1>MergeWorks.
    ASSUME TInv, NEW r \in Requests, NEW i \in Commands(r)
    PROVE  /\ ReceiveMerge(r, i) => Works(r, i, "created", {})
           /\ ReceiveMergeGone(r, i) => Works(r, i, AfterError(r, i), {})
           /\ MergePopulate(r, i) => Works(r, i, "done", Cmd(r, i).ents)
           /\ MergePopulateFails(r, i) =>
                \E some \in SUBSET Entities : Works(r, i, AfterError(r, i), some)
  <2> USE <1>MergeWorks
  <2>1. AfterError(r, i) \in {"undo", "done"} /\ AfterError(r, i) \in Steps
    BY DEF AfterError, Steps
  <2>2. ASSUME ReceiveMerge(r, i) PROVE Works(r, i, "created", {})
    <3>1. Goes(r, i, "created")
      BY <2>2, <1>GotoGoes DEF ReceiveMerge, Steps, At, Merge
    <3>2. /\ inst' = inst /\ owner' = owner /\ notices' = notices /\ quad' = quad
          /\ ready' = ready /\ Merge(r)
      BY <2>2 DEF ReceiveMerge, Merge
    <3>3. /\ book'.survivor = book.survivor \union {<<Cmd(r, i).dstHost, r, Cmd(r, i).dst>>}
          /\ book'.imported = book.imported /\ book'.pending = book.pending
      BY <2>2 DEF ReceiveMerge, TInv, BookT
    <3>4. Brings(r, i, {})
      BY <3>2, <3>3 DEF Brings
    <3>5. Says(r, i, "created", {})
      BY <3>2 DEF Says
    <3> QED BY <3>1, <3>2, <3>3, <3>4, <3>5 DEF Works
  <2>3. ASSUME ReceiveMergeGone(r, i) PROVE Works(r, i, AfterError(r, i), {})
    <3>1. Goes(r, i, AfterError(r, i))
      BY <2>1, <2>3, <1>GotoGoes DEF ReceiveMergeGone, At
    <3>2. /\ inst' = inst /\ owner' = owner /\ notices' = notices /\ quad' = quad
          /\ book' = book
          /\ ready' = ready \union {ReadyMsg(r, i, Cmd(r, i).dstHost, FALSE)}
      BY <2>3 DEF ReceiveMergeGone, Report
    <3>3. Brings(r, i, {})
      BY <3>2, <1>BringsNothing
    <3>4. Says(r, i, AfterError(r, i), {})
      BY <2>1, <3>2, <1>SaysFailure
    <3> QED BY <3>1, <3>2, <3>3, <3>4 DEF Works
  <2>4. ASSUME MergePopulate(r, i) PROVE Works(r, i, "done", Cmd(r, i).ents)
    <3>1. Goes(r, i, "done")
      BY <2>4, <1>GotoGoes DEF MergePopulate, Steps, At
    <3>2. /\ owner' = owner /\ notices' = notices /\ quad' = quad /\ At(r, i, "created")
          /\ ready' = ready \union {ReadyMsg(r, i, Cmd(r, i).dstHost, TRUE)}
          /\ Import(r, i, Cmd(r, i).ents) /\ Merge(r)
      BY <2>4 DEF MergePopulate, Report, Merge
    <3>3. Brings(r, i, Cmd(r, i).ents) /\ book'.pending = book.pending
      BY <3>2, <1>ImportBrings, ImportStep
    <3>4. Says(r, i, "done", Cmd(r, i).ents)
      BY <3>2, <1>SaysSuccess
    <3> QED BY <3>1, <3>2, <3>3, <3>4 DEF Works
  <2>5. ASSUME MergePopulateFails(r, i)
        PROVE  \E some \in SUBSET Entities : Works(r, i, AfterError(r, i), some)
    <3>1. Goes(r, i, AfterError(r, i))
      BY <2>1, <2>5, <1>GotoGoes DEF MergePopulateFails, At
    <3>2. /\ owner' = owner /\ notices' = notices /\ quad' = quad /\ Merge(r)
          /\ ready' = ready \union {ReadyMsg(r, i, Cmd(r, i).dstHost, FALSE)}
      BY <2>5 DEF MergePopulateFails, Report, Merge
    <3>3. PICK some \in SUBSET Cmd(r, i).ents :
            Brings(r, i, some) /\ book'.pending = book.pending
      <4>1. CASE \E some \in SUBSET Cmd(r, i).ents : Import(r, i, some)
        BY <3>2, <4>1, <1>ImportBrings, ImportStep
      <4>2. CASE UNCHANGED <<inst, book>>
        <5>1. Brings(r, i, {})
          BY <4>2, <1>BringsNothing
        <5> QED BY <4>2, <5>1
      <4> QED BY <2>5, <4>1, <4>2 DEF MergePopulateFails
    <3>4. Says(r, i, AfterError(r, i), some)
      BY <2>1, <3>2, <1>SaysFailure
    <3>5. Works(r, i, AfterError(r, i), some) /\ some \in SUBSET Entities
      BY <3>1, <3>2, <3>3, <3>4, CommandFields DEF Works
    <3> QED BY <3>5
  <2> QED BY <2>2, <2>3, <2>4, <2>5

<1>GotoEnts.
    ASSUME TInv, NEW r \in Requests, NEW i \in Commands(r), NEW p \in Steps, Goto(r, i, p)
    PROVE  \A s \in Requests : \A j \in Commands(s) : Cmd(s, j)'.ents = Cmd(s, j).ents
  <2> USE <1>GotoEnts
  <2>1. Edited(r, i, [Cmd(r, i) EXCEPT !.pc = p])
    BY GotoMoves
  <2>2. [Cmd(r, i) EXCEPT !.pc = p].ents = Cmd(r, i).ents
    <3>1. Cmd(r, i) \in CommandT
      BY Elements DEF TInv
    <3> QED BY <3>1 DEF CommandT
  <2> QED BY <2>1, <2>2 DEF Edited, Cmd

<1>BuildBusy.
    ASSUME TInv, CInv, EInv, NEW r \in Requests, NEW i \in Commands(r), NEW p,
           Builds(r, i, p)
    PROVE  /\ Last(r) /\ ~At(r, i, "done") /\ reqs[r].state \in {"inflight", "rolledback"}
           /\ \A n \in notices : n.kind # "rename"
  <2> USE <1>BuildBusy
  <2>1. ~At(r, i, "done") /\ ~Merge(r)
    BY DEF Builds, At
  <2>2. Last(r) /\ reqs[r].state \in {"inflight", "rolledback"}
    BY <2>1, <1>Busy
  <2>3. \A n \in notices : n.kind = "rename" => Last(n.req) /\ Merge(n.req)
    BY DEF CInv, Posted
  <2> QED BY <2>1, <2>2, <2>3 DEF Last

(* The sources of the request are in use.                                  *)
<1>BuildSources.
    ASSUME TInv, CInv, Harmless, NEW r \in Requests, reqs[r].state = "inflight",
           NEW j \in Commands(r)
    PROVE  inst'[Cmd(r, j).srcHost][Cmd(r, j).src].live =
             inst[Cmd(r, j).srcHost][Cmd(r, j).src].live
  <2> USE <1>BuildSources
  <2>1. /\ Cmd(r, j).srcHost \in Hosts /\ Cmd(r, j).src \in Cells
        /\ owner[Cmd(r, j).src] = Cmd(r, j).srcHost
    BY CommandFields DEF CInv, Owned
  <2>2. Up(Cmd(r, j).srcHost, Cmd(r, j).src)
    BY SourceUp
  <2> QED BY <2>1, <2>2 DEF Harmless

<1>BuildTaken.
    ASSUME TInv, CInv, EInv, NEW r \in Requests, NEW i \in Commands(r), NEW p,
           Builds(r, i, p), Harmless
    PROVE  Taken(r)'
  <2> USE <1>BuildTaken
  <2>1. Taken(r) /\ Last(r)
    BY <1>BuildBusy DEF EInv
  <2>2. /\ Moved(r, i, p) /\ p \in {"created", "undo", "done"}
        /\ p = "created" => At(r, i, "shipped")
        /\ \A j \in Commands(r) : Cmd(r, j)'.ents = Cmd(r, j).ents
    BY DEF Builds
  <2>3. /\ reqs'[r].kind = reqs[r].kind /\ Commands(r)' = Commands(r)
        /\ reqs'[r].state = reqs[r].state
        /\ \A j \in Commands(r) : /\ Cmd(r, j)'.src = Cmd(r, j).src
                                  /\ Cmd(r, j)'.srcHost = Cmd(r, j).srcHost
    BY <2>2, MovedSame
  <2>4. /\ reqs'[r].cmds[i].pc = p
        /\ \A j \in Commands(r) : j # i => reqs'[r].cmds[j].pc = reqs[r].cmds[j].pc
    BY <2>2 DEF Moved
  <2> SUFFICES ASSUME reqs[r].state = "inflight" PROVE Taken(r)'
    BY <2>3 DEF Taken
  <2>5. ASSUME NEW j \in Commands(r), At(r, j, "sent")' PROVE Cmd(r, j)'.ents = {}
    <3>1. At(r, j, "sent")
      BY <2>2, <2>4, <2>5 DEF At
    <3> QED BY <2>1, <2>2, <3>1 DEF Taken
  <2>6. ASSUME reqs[r].kind # "split", NEW j \in Commands(r),
               reqs'[r].cmds[j].pc \in {"serialized", "registered", "shipped", "created"}
        PROVE  Took(r, j)'
    <3>1. reqs[r].cmds[j].pc \in {"serialized", "registered", "shipped", "created"}
      BY <2>2, <2>4, <2>6 DEF At
    <3>2. Took(r, j)
      BY <2>1, <2>6, <3>1 DEF Taken
    <3>3. inst'[Cmd(r, j).srcHost][Cmd(r, j).src].live =
            inst[Cmd(r, j).srcHost][Cmd(r, j).src].live
      BY <1>BuildSources
    <3> QED BY <2>2, <2>3, <3>2, <3>3 DEF Took
  <2> QED BY <2>3, <2>5, <2>6 DEF Taken

<1>BuildCovered.
    ASSUME TInv, CInv, EInv, NEW r \in Requests, NEW i \in Commands(r), NEW p,
           Builds(r, i, p), Harmless
    PROVE  Covered(r)'
  <2> USE <1>BuildCovered
  <2>1. /\ Covered(r) /\ Last(r) /\ Built(r) /\ Owned(r) /\ ~At(r, i, "done")
        /\ reqs[r].state \in {"inflight", "rolledback"}
    BY <1>BuildBusy DEF EInv, CInv
  <2>2. /\ Moved(r, i, p) /\ p \in {"created", "undo", "done"}
        /\ reqs[r].cmds[i].pc \in {"shipped", "created"}
        /\ \A j \in Commands(r) : Cmd(r, j)'.ents = Cmd(r, j).ents
        /\ \A m \in ready' \ ready : m.req = r /\ m.cmd = i /\ ~m.ok
        /\ owner' = owner /\ quad' = quad
    BY DEF Builds
  <2>3. /\ reqs'[r].kind = reqs[r].kind /\ Commands(r)' = Commands(r)
        /\ reqs'[r].state = reqs[r].state
    BY <2>2, MovedSame
  <2> SUFFICES ASSUME reqs[r].state = "inflight", SameTick, reqs[r].kind = "split",
                      NEW e \in inst'[owner[Parent]][Parent].live \ Newcomers
               PROVE  \E k \in Commands(r) : \/ e \in Cmd(r, k)'.ents
                                             \/ At(r, k, "sent")' /\ quad[e] = k
                                             \/ Failed(r, k)'
    BY <2>1, <2>2, <2>3 DEF Covered
  <2>5. Cmd(r, i).src = Parent /\ Cmd(r, i).srcHost = owner[Parent]
    BY <2>1 DEF Built, Owned
  <2>6. inst'[Cmd(r, i).srcHost][Cmd(r, i).src].live =
          inst[Cmd(r, i).srcHost][Cmd(r, i).src].live
    BY <1>BuildSources
  <2>7. PICK k \in Commands(r) : \/ e \in Cmd(r, k).ents
                                 \/ At(r, k, "sent") /\ quad[e] = k
                                 \/ Failed(r, k)
    BY <2>1, <2>5, <2>6 DEF Covered
  <2>8. At(r, k, "sent") => At(r, k, "sent")'
    BY <2>2 DEF Moved, At
  <2>9. Failed(r, k) => Failed(r, k)'
    BY <2>1, <2>2, <1>FailedKept DEF At
  <2> QED BY <2>2, <2>7, <2>8, <2>9

(* What the two steps do to the instances and to the other records.        *)
<1>CreateInst.
    ASSUME TInv, NEW r \in Requests, NEW i \in Commands(r), ReceiveCreates(r, i)
    PROVE  /\ \A g \in Hosts, d \in Cells :
                ~(g = Cmd(r, i).dstHost /\ d = Cmd(r, i).dst) => inst'[g][d] = inst[g][d]
           /\ book'.survivor = book.survivor /\ book'.imported = book.imported
           /\ Builds(r, i, "created")
  <2> USE <1>CreateInst
  <2>1. Cmd(r, i).dstHost \in Hosts /\ Cmd(r, i).dst \in Cells
    BY CommandFields
  <2>2. Fresh \in InstT
    BY DEF Fresh, Down, InstT
  <2>3. \A g \in Hosts, d \in Cells :
          ~(g = Cmd(r, i).dstHost /\ d = Cmd(r, i).dst) => inst'[g][d] = inst[g][d]
    <3>1. inst' = [inst EXCEPT ![Cmd(r, i).dstHost][Cmd(r, i).dst] = Fresh]
      BY DEF ReceiveCreates
    <3> QED BY <2>1, <2>2, <3>1, OneInst, ZenonT(60)
  <2>4. book'.survivor = book.survivor /\ book'.imported = book.imported
    BY DEF ReceiveCreates, TInv, BookT
  <2>5. \A s \in Requests : \A j \in Commands(s) : Cmd(s, j)'.ents = Cmd(s, j).ents
    BY <1>GotoEnts DEF ReceiveCreates, Steps
  <2>6. /\ Moved(r, i, "created") /\ ~Merge(r) /\ At(r, i, "shipped")
        /\ owner' = owner /\ notices' = notices /\ ready' = ready
    BY CreateStep
  <2>7. quad' = quad
    BY DEF ReceiveCreates
  <2> QED BY <2>3, <2>4, <2>5, <2>6, <2>7 DEF Builds, At

<1>TeardownInst.
    ASSUME TInv, NEW r \in Requests, NEW i \in Commands(r), PopulateFails(r, i)
    PROVE  /\ \A g \in Hosts, d \in Cells :
                ~(g = Cmd(r, i).dstHost /\ <<g, r, d>> \in book.pending) =>
                  inst'[g][d] = inst[g][d]
           /\ book'.survivor = book.survivor /\ book'.imported = book.imported
           /\ Builds(r, i, AfterError(r, i))
  <2> USE <1>TeardownInst
  <2> DEFINE h == Cmd(r, i).dstHost
  <2>1. h \in Hosts
    BY CommandFields
  <2>2. \A g \in Hosts, d \in Cells :
          ~(g = h /\ <<g, r, d>> \in book.pending) => inst'[g][d] = inst[g][d]
    <3> DEFINE f == [c \in Cells |-> IF c \in Pending(h, r) THEN Down ELSE inst[h][c]]
    <3>1. inst' = [inst EXCEPT ![h] = f] /\ inst \in [Hosts -> [Cells -> InstT]]
      BY DEF PopulateFails, TornDown, TInv
    <3>2. \A c \in Cells : <<h, r, c>> \notin book.pending => f[c] = inst[h][c]
      BY DEF Pending
    <3> HIDE DEF f, h
    <3> QED BY <2>1, <3>1, <3>2
  <2>3. book'.survivor = book.survivor /\ book'.imported = book.imported
    BY DEF PopulateFails, WithoutRecords, TInv, BookT
  <2>4. AfterError(r, i) \in {"undo", "done"}
    BY DEF AfterError
  <2>5. \A s \in Requests : \A j \in Commands(s) : Cmd(s, j)'.ents = Cmd(s, j).ents
    BY <2>4, <1>GotoEnts DEF PopulateFails, Steps
  <2>6. /\ Moved(r, i, AfterError(r, i)) /\ ~Merge(r) /\ At(r, i, "created")
        /\ owner' = owner /\ notices' = notices
        /\ ready' = ready \union {ReadyMsg(r, i, h, FALSE)}
    BY TeardownStep
  <2>7. Says(r, i, AfterError(r, i), {}) /\ \A m \in ready' \ ready : m.req = r /\ m.cmd = i /\ ~m.ok
    <3>1. PICK q : q = ReadyMsg(r, i, h, FALSE)
      OBVIOUS
    <3>2. q.req = r /\ q.cmd = i /\ ~q.ok
      BY <3>1, SMTT(30) DEF ReadyMsg
    <3>3. \A m \in ready' \ ready : m = q
      BY <2>6, <3>1
    <3> QED BY <2>4, <2>6, <3>2, <3>3, <1>SaysFailure
  <2>8. quad' = quad
    BY DEF PopulateFails
  <2> QED BY <2>2, <2>3, <2>4, <2>5, <2>6, <2>7, <2>8 DEF Builds, At

(* The rest of the invariant is kept by what these steps have in common.   *)
<1>BuildKeeps.
    ASSUME TInv, CInv, EInv, NEW r \in Requests, NEW i \in Commands(r), NEW p,
           Builds(r, i, p), Harmless, Carried(r)', Vacant(r)', Placed'
    PROVE  EInv'
  <2> USE <1>BuildKeeps
  <2>1. /\ Moved(r, i, p) /\ owner' = owner /\ notices' = notices /\ ~Merge(r)
        /\ book'.survivor = book.survivor /\ book'.imported = book.imported
    BY DEF Builds
  <2>2. Last(r) /\ ~At(r, i, "done") /\ \A n \in notices : n.kind # "rename"
    BY <1>BuildBusy
  <2>3. Requests' = Requests /\ \A s \in Requests : Last(s)' <=> Last(s)
    BY <2>1, MovedSame
  <2>4. Region'
    BY <2>1 DEF EInv, Region
  <2>5. \A s \in Requests : Shaped(s)' /\ Finished(s)'
    BY <2>1, <2>2, <1>ShapedKept DEF EInv
  <2>6. ASSUME NEW s \in Requests, Last(s)
        PROVE  Taken(s)' /\ Carried(s)' /\ Covered(s)' /\ Vacant(s)'
    <3>1. s = r
      BY <2>2, <2>6 DEF Last
    <3> QED BY <3>1, <1>BuildTaken, <1>BuildCovered
  <2>7. ASSUME NEW s \in Requests, Merge(s)
        PROVE  /\ Merge(s)' /\ reqs'[s].state = reqs[s].state
               /\ Cmd(s, 1)'.dst = Cmd(s, 1).dst /\ Cmd(s, 1)'.dstHost = Cmd(s, 1).dstHost
    <3>1. 1 \in Commands(s)
      BY <2>7 DEF EInv, Shaped
    <3> QED BY <2>1, <2>7, <3>1, MovedSame
  <2>8. ASSUME NEW x \in book'.survivor PROVE Logged(x)'
    <3>1. Logged(x) /\ x[2] \in Requests
      BY <2>1, <2>8 DEF EInv, TInv
    <3> QED BY <2>7, <3>1 DEF Logged
  <2>9. ASSUME NEW e \in Entities \ Newcomers, SameTick
        PROVE  \E h \in Hosts, c \in Cells : Home(e, h, c)'
    <3>1. PICK h \in Hosts, c \in Cells : Home(e, h, c)
      BY <2>9 DEF EInv
    <3>2. owner[c] = h /\ Up(h, c)
      BY <2>2, <3>1 DEF Home, Serving, Up
    <3>3. Serving(h, c)' /\ e \in inst'[h][c].live
      BY <2>1, <3>1, <3>2 DEF Harmless, Home, Serving
    <3>4. \A s \in Requests : Revocable(s, h, c)' => Revocable(s, h, c)
      <4> SUFFICES ASSUME NEW s \in Requests, Revocable(s, h, c)' PROVE Revocable(s, h, c)
        OBVIOUS
      <4>1. Merge(s)' <=> Merge(s)
        BY <2>1, MovedSame
      <4> QED BY <2>7, <4>1 DEF Revocable
    <3>5. Home(e, h, c)'
      BY <2>1, <2>3, <3>1, <3>3, <3>4, HomeKept
    <3> QED BY <3>5
  <2> QED BY <2>3, <2>4, <2>5, <2>6, <2>8, <2>9 DEF EInv

(* An excuse that does not rest on a pending record lasts.                 *)
<1>ExcusedKept.
    ASSUME NEW r, NEW i, NEW p, Moved(r, i, p), notices' = notices, NEW h, NEW c,
           Excused(h, c),
           \A s \in Requests : Last(s) /\ <<h, s, c>> \in book.pending =>
                                 <<h, s, c>> \in book'.pending
    PROVE  Excused(h, c)'
  <2> USE <1>ExcusedKept
  <2>1. PICK s \in Requests :
          /\ Last(s)
          /\ \/ reqs[s].state = "inflight" /\ <<h, s, c>> \in book.pending
             \/ /\ reqs[s].state = "acked" /\ ~Merge(s)
                /\ \E j \in Commands(s) : h = Cmd(s, j).dstHost /\ c = Cmd(s, j).dst
             \/ /\ reqs[s].state = "mapped"
                /\ \E j \in Commands(s) : h = Cmd(s, j).srcHost /\ c = Cmd(s, j).src
             \/ \E n \in notices : /\ n.kind \in {"release", "rename"}
                                   /\ n.host = h /\ n.cell = c
    BY DEF Excused
  <2>2. /\ Last(s)' /\ reqs'[s].state = reqs[s].state /\ (Merge(s)' <=> Merge(s))
        /\ Commands(s)' = Commands(s) /\ Requests' = Requests
        /\ \A j \in Commands(s) :
             /\ Cmd(s, j)'.srcHost = Cmd(s, j).srcHost /\ Cmd(s, j)'.src = Cmd(s, j).src
             /\ Cmd(s, j)'.dstHost = Cmd(s, j).dstHost /\ Cmd(s, j)'.dst = Cmd(s, j).dst
    BY <2>1, MovedSame
  <2> QED BY <2>1, <2>2 DEF Excused

<1>CreateCarries.
    ASSUME TInv, CInv, EInv, NEW r \in Requests, NEW i \in Commands(r), ReceiveCreates(r, i)
    PROVE  EInv'
  <2> USE <1>CreateCarries
  <2>1. /\ Builds(r, i, "created")
        /\ \A g \in Hosts, d \in Cells :
             ~(g = Cmd(r, i).dstHost /\ d = Cmd(r, i).dst) => inst'[g][d] = inst[g][d]
    BY <1>CreateInst
  <2>2. /\ Moved(r, i, "created") /\ ready' = ready /\ At(r, i, "shipped") /\ ~Merge(r)
        /\ ~Up(Cmd(r, i).dstHost, Cmd(r, i).dst) /\ notices' = notices /\ owner' = owner
        /\ book'.pending = book.pending \union {<<Cmd(r, i).dstHost, r, Cmd(r, i).dst>>}
        /\ \A h \in Hosts, c \in Cells :
             inst'[h][c].up <=> \/ inst[h][c].up
                                \/ h = Cmd(r, i).dstHost /\ c = Cmd(r, i).dst
    BY CreateStep
  <2>3. /\ Last(r) /\ ~At(r, i, "done") /\ reqs[r].state \in {"inflight", "rolledback"}
        /\ Carried(r) /\ Vacant(r) /\ Built(r) /\ Orderly(r)
    BY <2>1, <1>BuildBusy DEF EInv, CInv
  <2>4. /\ (Merge(r)' <=> Merge(r)) /\ Commands(r)' = Commands(r)
        /\ reqs'[r].kind = reqs[r].kind
        /\ reqs'[r].state = reqs[r].state /\ reqs'[r].acked = reqs[r].acked
        /\ \A j \in Commands(r) : /\ Cmd(r, j)'.src = Cmd(r, j).src
                                  /\ Cmd(r, j)'.srcHost = Cmd(r, j).srcHost
                                  /\ Cmd(r, j)'.dst = Cmd(r, j).dst
                                  /\ Cmd(r, j)'.dstHost = Cmd(r, j).dstHost
    BY <2>2, MovedSame
  <2>5. Harmless
    <3> SUFFICES ASSUME NEW g \in Hosts, NEW d \in Cells, Up(g, d)
                 PROVE  inst'[g][d] = inst[g][d]
      BY DEF Harmless
    <3>1. ~(g = Cmd(r, i).dstHost /\ d = Cmd(r, i).dst)
      BY <2>2
    <3> QED BY <2>1, <3>1
  <2>6. \A j \in Commands(r) : j # i =>
          /\ Cmd(r, j).dstHost \in Hosts /\ Cmd(r, j).dst \in Cells
          /\ Cmd(r, j).dst # Cmd(r, i).dst
    BY <2>2, <2>3, CommandFields DEF Built
  <2>7. Carried(r)'
    <3> SUFFICES ASSUME reqs[r].state = "inflight", NEW k \in Commands(r),
                        k \in reqs[r].acked \/ OkSaid(r, k)
                 PROVE  Filled(r, k)' \/ \E j \in Commands(r) : Failed(r, j)'
      BY <2>2, <2>3, <2>4 DEF Carried, OkSaid
    <3>1. At(r, k, "done") /\ k # i
      BY <2>2, <2>3, OkDone
    <3>2. CASE Filled(r, k)
      <4>1. inst'[Cmd(r, k).dstHost][Cmd(r, k).dst] = inst[Cmd(r, k).dstHost][Cmd(r, k).dst]
        BY <2>1, <2>6, <3>1
      <4>2. inst'[Cmd(r, k).srcHost][Cmd(r, k).src].live =
              inst[Cmd(r, k).srcHost][Cmd(r, k).src].live
        BY <2>5, <1>BuildSources
      <4>3. Cmd(r, k)'.ents = Cmd(r, k).ents
        BY <2>1 DEF Builds
      <4> QED BY <2>4, <3>2, <4>1, <4>2, <4>3 DEF Filled, Took
    <3>3. CASE \E j \in Commands(r) : Failed(r, j)
      <4>1. PICK j \in Commands(r) : Failed(r, j)
        BY <3>3
      <4>2. Failed(r, j)'
        BY <2>2, <2>3, <4>1, <1>FailedKept DEF At
      <4> QED BY <4>2
    <3> QED BY <2>2, <2>3, <3>2, <3>3 DEF Carried
  <2>8. Vacant(r)'
    <3> SUFFICES ASSUME NEW j \in Commands(r),
                        reqs'[r].cmds[j].pc \in {"sent", "serialized", "registered", "shipped"}
                 PROVE  ~Up(Cmd(r, j).dstHost, Cmd(r, j).dst)'
      BY <2>2, <2>4 DEF Vacant
    <3>1. j # i /\ reqs'[r].cmds[j].pc = reqs[r].cmds[j].pc
      BY <2>2 DEF Moved
    <3>2. ~Up(Cmd(r, j).dstHost, Cmd(r, j).dst)
      BY <2>2, <2>3, <3>1 DEF Vacant
    <3> QED BY <2>2, <2>4, <2>6, <3>1, <3>2 DEF Up
  <2>9. Placed'
    <3>1. reqs' # <<>> /\ reqs # <<>>
      BY <2>2, SMTT(30) DEF Moved, TInv, Requests
    <3> SUFFICES ASSUME Mild, NEW h \in Hosts, NEW c \in Cells, Up(h, c)'
                 PROVE  owner[c] = h \/ Excused(h, c)'
      BY <2>2, <3>1 DEF Placed, Mild
    <3>2. CASE Up(h, c)
      <4>1. owner[c] = h \/ Excused(h, c)
        BY <3>2 DEF EInv, Placed
      <4> QED BY <2>2, <4>1, <1>ExcusedKept
    <3>3. CASE ~Up(h, c)
      <4>1. h = Cmd(r, i).dstHost /\ c = Cmd(r, i).dst
        BY <2>2, <3>3 DEF Up
      <4>2. reqs[r].state = "inflight"
        <5>1. reqs[r].kind # "migrate" => reqs[r].state # "rolledback"
          BY <2>3 DEF Orderly
        <5>2. reqs[r].kind = "migrate" => i = 1
          <6>1. reqs[r].kind = "migrate" => Len(reqs[r].cmds) = 1
            BY <2>3 DEF Built
          <6>2. i \in 1..Len(reqs[r].cmds)
            BY DEF Commands
          <6>3. i \in 1..1 => i = 1
            BY SMTT(30)
          <6> QED BY <6>1, <6>2, <6>3
        <5>3. reqs[r].kind = "migrate" /\ reqs[r].state = "rolledback" => At(r, 1, "done")
          BY <2>3 DEF Orderly
        <5> QED BY <2>3, <5>1, <5>2, <5>3
      <4>3. r \in Requests' /\ Last(r)' /\ reqs'[r].state = "inflight"
        BY <2>2, <2>3, <2>4, <4>2, MovedSame
      <4> QED BY <2>2, <4>1, <4>3 DEF Excused
    <3> QED BY <3>2, <3>3, ZenonT(60)
  <2> QED BY <2>1, <2>5, <2>7, <2>8, <2>9, <1>BuildKeeps

<1>TeardownCarries.
    ASSUME TInv, CInv, EInv, NEW r \in Requests, NEW i \in Commands(r), PopulateFails(r, i)
    PROVE  EInv'
  <2> USE <1>TeardownCarries
  <2> DEFINE p == AfterError(r, i)
  <2>1. /\ Builds(r, i, p)
        /\ \A g \in Hosts, d \in Cells :
             ~(g = Cmd(r, i).dstHost /\ <<g, r, d>> \in book.pending) => inst'[g][d] = inst[g][d]
    BY <1>TeardownInst
  <2>2. /\ Moved(r, i, p) /\ At(r, i, "created") /\ ~Merge(r)
        /\ notices' = notices /\ owner' = owner
        /\ book'.pending = {x \in book.pending : ~(x[1] = Cmd(r, i).dstHost /\ x[2] = r)}
        /\ \A h \in Hosts, c \in Cells :
             inst'[h][c].up <=> /\ inst[h][c].up
                                /\ ~(h = Cmd(r, i).dstHost /\ <<h, r, c>> \in book.pending)
    BY TeardownStep
  <2>3. /\ Last(r) /\ ~At(r, i, "done") /\ reqs[r].state \in {"inflight", "rolledback"}
        /\ Carried(r) /\ Vacant(r) /\ p \in {"undo", "done"}
    BY <2>1, <1>BuildBusy DEF EInv, AfterError
  <2> HIDE DEF p
  <2>4. /\ (Merge(r)' <=> Merge(r)) /\ Commands(r)' = Commands(r)
        /\ reqs'[r].state = reqs[r].state /\ reqs'[r].acked = reqs[r].acked
        /\ \A j \in Commands(r) : /\ Cmd(r, j)'.dst = Cmd(r, j).dst
                                  /\ Cmd(r, j)'.dstHost = Cmd(r, j).dstHost
    BY <2>2, MovedSame
  <2>5. Harmless
    <3> SUFFICES ASSUME NEW g \in Hosts, NEW d \in Cells, owner[d] = g
                 PROVE  <<g, r, d>> \notin book.pending
      BY <2>1 DEF Harmless
    <3> SUFFICES ASSUME <<g, r, d>> \in book.pending PROVE FALSE
      OBVIOUS
    <3>1. PICK x : x = <<g, r, d>>
      OBVIOUS
    <3>2. x \in book.pending /\ x[1] = g /\ x[2] = r /\ x[3] = d
      BY <3>1
    <3>3. Noted(x)
      BY <3>2 DEF CInv
    <3> QED BY <2>3, <3>2, <3>3 DEF Noted
  <2>6. Carried(r)'
    <3> SUFFICES ASSUME reqs[r].state = "inflight" PROVE Failed(r, i)'
      BY <2>2, <2>3, <2>4 DEF Carried
    <3>1. reqs'[r].cmds[i].pc = p
      BY <2>2 DEF Moved
    <3>2. ~OkSaid(r, i) /\ i \notin reqs[r].acked
      BY <2>2, <2>3, OkDone
    <3>3. ~OkSaid(r, i)'
      <4>1. \A m \in ready' \ ready : ~m.ok
        BY <2>1 DEF Builds
      <4> QED BY <3>2, <4>1 DEF OkSaid
    <3> QED BY <2>3, <2>4, <3>1, <3>2, <3>3 DEF Failed
  <2>7. Vacant(r)'
    <3> SUFFICES ASSUME NEW j \in Commands(r),
                        reqs'[r].cmds[j].pc \in {"sent", "serialized", "registered", "shipped"}
                 PROVE  ~Up(Cmd(r, j).dstHost, Cmd(r, j).dst)'
      BY <2>2, <2>4 DEF Vacant
    <3>1. j # i /\ reqs'[r].cmds[j].pc = reqs[r].cmds[j].pc
      BY <2>2, <2>3 DEF Moved
    <3>2. ~Up(Cmd(r, j).dstHost, Cmd(r, j).dst)
      BY <2>2, <2>3, <3>1 DEF Vacant
    <3>3. Cmd(r, j).dstHost \in Hosts /\ Cmd(r, j).dst \in Cells
      BY CommandFields
    <3> QED BY <2>2, <2>4, <3>2, <3>3 DEF Up
  <2>8. Placed'
    <3>1. reqs' # <<>> /\ reqs # <<>>
      BY <2>2, SMTT(30) DEF Moved, TInv, Requests
    <3> SUFFICES ASSUME Mild, NEW h \in Hosts, NEW c \in Cells, Up(h, c)'
                 PROVE  owner[c] = h \/ Excused(h, c)'
      BY <2>2, <3>1 DEF Placed, Mild
    <3>2. Up(h, c) /\ ~(h = Cmd(r, i).dstHost /\ <<h, r, c>> \in book.pending)
      BY <2>2 DEF Up
    <3>3. owner[c] = h \/ Excused(h, c)
      BY <3>2 DEF EInv, Placed
    <3>4. ASSUME NEW s \in Requests, Last(s), <<h, s, c>> \in book.pending
          PROVE  <<h, s, c>> \in book'.pending
      <4>1. s = r
        BY <2>3, <3>4 DEF Last
      <4>2. <<h, s, c>>[1] = h
        OBVIOUS
      <4> QED BY <2>2, <3>2, <3>4, <4>1, <4>2
    <3> QED BY <2>2, <3>3, <3>4, <1>ExcusedKept, ZenonT(60)
  <2> QED BY <2>1, <2>5, <2>6, <2>7, <2>8, <1>BuildKeeps

(* So Receive keeps the invariant too; it never only acks.                 *)
<1>ReceiveCarries.
    ASSUME TInv, CInv, EInv, NEW r \in Requests, NEW i \in Commands(r), Receive(r, i)
    PROVE  EInv'
  <2> USE <1>ReceiveCarries
  <2>1. ~ReceiveAcks(r, i)
    <3> SUFFICES ASSUME ReceiveAcks(r, i) PROVE FALSE
      OBVIOUS
    <3>1. At(r, i, "shipped") /\ ~Merge(r) /\ Up(Cmd(r, i).dstHost, Cmd(r, i).dst)
      BY DEF ReceiveAcks, Merge, Up
    <3>2. Last(r)
      BY <3>1, <1>Busy DEF At
    <3> QED BY <3>1, <3>2 DEF EInv, Vacant, At
  <2>2. CASE ReceiveCreates(r, i)
    BY <2>2, <1>CreateCarries
  <2>3. CASE PopulateFails(r, i)
    BY <2>3, <1>TeardownCarries
  <2>4. CASE Populate(r, i)
    BY <2>4, <1>PopulateWorks, <1>WorkKeeps
  <2>5. CASE ReceiveMerge(r, i) \/ ReceiveMergeGone(r, i) \/ MergePopulate(r, i)
    BY <2>5, <1>MergeWorks, <1>WorkKeeps
  <2>6. CASE MergePopulateFails(r, i)
    BY <2>6, <1>MergeWorks, <1>WorkKeeps
  <2> QED BY <2>1, <2>2, <2>3, <2>4, <2>5, <2>6 DEF Receive

<1>ImportsWork.
    ASSUME TInv, Imports, NEW r \in Requests, NEW i \in Commands(r), NEW p, NEW S,
           Works(r, i, p, S)
    PROVE  Imports'
  <2> USE <1>ImportsWork
  <2>1. Requests' = Requests
    BY MovedSame DEF Works, Goes
  <2>2. ASSUME NEW x \in book'.imported PROVE x[2] \in Requests
    <3>1. \/ x \in book.imported
          \/ \E e : x = <<Cmd(r, i).dstHost, r, e>>
      <4>1. Brings(r, i, S)
        BY DEF Works
      <4>2. \A y \in book'.imported :
              \/ y \in book.imported
              \/ \E e \in S \ inst[Cmd(r, i).dstHost][Cmd(r, i).dst].live :
                   y = <<Cmd(r, i).dstHost, r, e>>
        BY <4>1 DEF Brings
      <4> QED BY <2>2, <4>2
    <3>2. CASE x \in book.imported
      BY <3>2 DEF Imports
    <3>3. CASE \E e : x = <<Cmd(r, i).dstHost, r, e>>
      <4>1. PICK e : x = <<Cmd(r, i).dstHost, r, e>>
        BY <3>3
      <4>2. x[2] = r
        BY <4>1
      <4> QED BY <4>2
    <3> QED BY <3>1, <3>2, <3>3
  <2> QED BY <2>1, <2>2 DEF Imports

<1>ImportsReceive.
    ASSUME TInv, CInv, EInv, Imports, NEW r \in Requests, NEW i \in Commands(r), Receive(r, i)
    PROVE  Imports'
  <2> USE <1>ImportsReceive
  <2>1. CASE ReceiveAcks(r, i)
    <3>1. Requests' = Requests /\ book' = book
      <4>1. Moved(r, i, "done") /\ book' = book
        BY <2>1, GotoMoves DEF ReceiveAcks, TInv, Steps
      <4> QED BY <4>1, MovedSame
    <3> QED BY <3>1 DEF Imports
  <2>2. CASE ReceiveCreates(r, i) \/ PopulateFails(r, i)
    <3>1. PICK p : Builds(r, i, p)
      BY <2>2, <1>CreateInst, <1>TeardownInst
    <3>2. Requests' = Requests /\ book'.imported = book.imported
      BY <3>1, MovedSame DEF Builds
    <3> QED BY <3>2 DEF Imports
  <2>3. CASE Populate(r, i)
    BY <2>3, <1>PopulateWorks, <1>ImportsWork
  <2>4. CASE ReceiveMerge(r, i) \/ ReceiveMergeGone(r, i) \/ MergePopulate(r, i)
    BY <2>4, <1>MergeWorks, <1>ImportsWork
  <2>5. CASE MergePopulateFails(r, i)
    BY <2>5, <1>MergeWorks, <1>ImportsWork
  <2> QED BY <2>1, <2>2, <2>3, <2>4, <2>5 DEF Receive

<1>ImportsExecute.
    ASSUME TInv, CInv, EInv, Imports, NEW r \in Requests, NEW i \in Commands(r), Execute(r, i)
    PROVE  Imports'
  <2> USE <1>ImportsExecute
  <2>1. ASSUME UndoSource(r, i), ~At(r, i, "done") PROVE Imports'
    BY <2>1, <1>UndoWorks, <1>ImportsWork
  <2>2. CASE Serialize(r, i)
    BY <2>2, <1>SerializeWorks, <1>ImportsWork
  <2>3. CASE SerializeFails(r, i)
    BY <2>3, <1>SerializeFailsWorks, <1>ImportsWork
  <2>4. CASE RegisterSource(r, i) \/ Ship(r, i)
    BY <2>4, <1>SourceWorks, <1>ImportsWork
  <2>5. CASE ShipFails(r, i)
    BY <2>1, <2>5 DEF ShipFails, At
  <2>6. CASE LocalShipFails(r, i)
    BY <2>1, <2>6 DEF LocalShipFails, At
  <2> QED BY <2>2, <2>3, <2>4, <2>5, <2>6 DEF Execute
<1> QED BY <1>ExecuteCarries, <1>ReceiveCarries, <1>ImportsExecute, <1>ImportsReceive

-----------------------------------------------------------------------------

(* The coordinator.                                                        *)

(* A Ready that is dropped can only make a command fail.                   *)
LEMMA FewerOk ==
    ASSUME ready' \subseteq ready
    PROVE  \A r, k : OkSaid(r, k)' => OkSaid(r, k)
BY DEF OkSaid

LEMMA DropCarries ==
    ASSUME EInv, ready' \subseteq ready,
           UNCHANGED <<owner, inst, quad, reqs, book, notices>>
    PROVE  EInv'
<1>0. /\ owner' = owner /\ inst' = inst /\ quad' = quad /\ reqs' = reqs /\ book' = book
      /\ notices' = notices
  OBVIOUS
<1>1. /\ Requests' = Requests /\ \A r : Commands(r)' = Commands(r) /\ (Last(r)' <=> Last(r))
      /\ \A r : (Merge(r)' <=> Merge(r))
      /\ \A r, i : Cmd(r, i)' = Cmd(r, i)
      /\ \A r, i, p : At(r, i, p)' <=> At(r, i, p)
      /\ \A h, c : Up(h, c)' <=> Up(h, c)
  BY <1>0 DEF Requests, Commands, Last, Merge, Cmd, At, Up
<1>2. \A r, j : Failed(r, j) => Failed(r, j)'
  BY <1>0, FewerOk DEF Failed
<1>3. \A r, i : (Took(r, i)' <=> Took(r, i)) /\ (Filled(r, i)' <=> Filled(r, i))
  BY <1>0, <1>1 DEF Took, Filled
<1>4. ASSUME NEW r, Carried(r) PROVE Carried(r)'
  <2>1. Tallied(r) => Tallied(r)'
    BY <1>0, <1>1, <1>3, FewerOk DEF Tallied
  <2> QED BY <1>0, <1>1, <1>2, <1>3, <1>4, <2>1, FewerOk DEF Carried
<1>5. ASSUME NEW r, Covered(r) PROVE Covered(r)'
  BY <1>0, <1>1, <1>2, <1>5 DEF Covered
<1>6. \A r : (Taken(r) => Taken(r)') /\ (Vacant(r) => Vacant(r)')
  BY <1>0, <1>1, <1>3 DEF Taken, Vacant
<1>7. \A r : (Shaped(r) => Shaped(r)') /\ (Finished(r) => Finished(r)')
  BY <1>0, <1>1 DEF Shaped, Finished
<1>8. Region'
  BY <1>0 DEF EInv, Region
<1>9. Placed'
  <2>1. \A h, c : Excused(h, c) => Excused(h, c)'
    BY <1>0, <1>1, ZenonT(60) DEF Excused
  <2> QED BY <1>0, <1>1, <2>1 DEF EInv, Placed, Mild
<1>10. \A x : Logged(x) => Logged(x)'
  BY <1>0, <1>1 DEF Logged
<1>11. \A e, h, c : Home(e, h, c) => Home(e, h, c)'
  BY <1>0, <1>1 DEF Home, Serving, Revocable
<1> QED BY <1>0, <1>1, <1>4, <1>5, <1>6, <1>7, <1>8, <1>9, <1>10, <1>11 DEF EInv

(* A decision on the newest request: the parts of the invariant that no    *)
(* decision but the flip of the map touches.                               *)
Decides(r, st, ak) ==
    /\ Judged(r, st, ak) /\ Last(r)
    /\ owner' = owner /\ inst' = inst /\ book' = book /\ quad' = quad
    /\ ready' \subseteq ready /\ notices \subseteq notices'
    /\ st \in {"inflight", "acked", "rolledback"} =>
         reqs[r].state \in {"inflight", "acked", "rolledback"}

(* Every step of the orchestrator keeps EInv.                              *)
LEMMA OrchestratorCarries ==
    TInv /\ CInv /\ EInv =>
      /\ \A r \in Requests : Commit(r) \/ Expire(r) => EInv'
      /\ \A m \in ready : OnReady(m) \/ ReadyLost(m) => EInv'
<1>DecidedRecords.
    ASSUME TInv, EInv, NEW r \in Requests, NEW st, NEW ak, Judged(r, st, ak),
           st \in {"inflight", "acked", "rolledback"} =>
             reqs[r].state \in {"inflight", "acked", "rolledback"},
           book' = book
    PROVE  /\ \A s \in Requests : Shaped(s)'
           /\ \A x \in book'.survivor : Logged(x)'
           /\ \A s \in Requests : \A h, c : Revocable(s, h, c)' => Revocable(s, h, c)
  <2> USE <1>DecidedRecords
  <2>1. ASSUME NEW s \in Requests PROVE Shaped(s)'
    <3>1. /\ (Merge(s)' <=> Merge(s)) /\ Commands(s)' = Commands(s)
          /\ reqs'[s].kind = reqs[s].kind /\ reqs'[s].cmds = reqs[s].cmds
          /\ \A i \in Commands(s) : Cmd(s, i)' = Cmd(s, i)
      BY JudgedSame
    <3>2. Shaped(s)
      BY DEF EInv
    <3>3. ASSUME Merge(s), NEW c \in ChildSet
          PROVE  c = Cmd(s, 1)'.dst \/ \E j \in Commands(s) : c = Cmd(s, j)'.src
      BY <3>1, <3>2, <3>3 DEF Shaped
    <3>4. ASSUME reqs[s].kind = "split", NEW j \in Commands(s) PROVE Cmd(s, j)'.dst = Children[j]
      BY <3>1, <3>2, <3>4 DEF Shaped
    <3> QED BY <3>1, <3>2, <3>3, <3>4 DEF Shaped
  <2>2. ASSUME NEW s \in Requests
        PROVE  /\ Merge(s)' <=> Merge(s)
               /\ reqs'[s].state \in {"inflight", "acked", "rolledback"} =>
                    reqs[s].state \in {"inflight", "acked", "rolledback"}
               /\ Merge(s) => Cmd(s, 1)' = Cmd(s, 1)
    <3>1. Merge(s) => 1 \in Commands(s)
      BY DEF EInv, Shaped
    <3>2. reqs'[s].state = IF s = r THEN st ELSE reqs[s].state
      BY DEF Judged
    <3> QED BY <3>1, <3>2, JudgedSame
  <2>3. ASSUME NEW x \in book'.survivor PROVE Logged(x)'
    <3>1. Logged(x) /\ x[2] \in Requests
      BY <2>3 DEF EInv, TInv
    <3> QED BY <2>2, <3>1 DEF Logged
  <2>4. ASSUME NEW s \in Requests, NEW h, NEW c, Revocable(s, h, c)' PROVE Revocable(s, h, c)
    BY <2>2, <2>4 DEF Revocable
  <2> QED BY <2>1, <2>3, <2>4

<1>DecideKeeps.
    ASSUME TInv, CInv, EInv, NEW r \in Requests, NEW st, NEW ak, Decides(r, st, ak),
           Finished(r)', Taken(r)', Carried(r)', Covered(r)', Vacant(r)', Placed'
    PROVE  EInv'
  <2> USE <1>DecideKeeps
  <2>1. /\ Judged(r, st, ak) /\ Last(r) /\ owner' = owner /\ inst' = inst /\ book' = book
        /\ notices \subseteq notices'
        /\ st \in {"inflight", "acked", "rolledback"} =>
             reqs[r].state \in {"inflight", "acked", "rolledback"}
    BY DEF Decides
  <2>2. Requests' = Requests /\ \A s \in Requests : Last(s)' <=> Last(s)
    BY <2>1, JudgedSame
  <2>3. Region'
    BY <2>1 DEF EInv, Region
  <2>4. /\ \A s \in Requests : Shaped(s)'
        /\ \A x \in book'.survivor : Logged(x)'
        /\ \A s \in Requests : \A h, c : Revocable(s, h, c)' => Revocable(s, h, c)
    BY <2>1, <1>DecidedRecords
  <2>5. ASSUME NEW s \in Requests PROVE Finished(s)'
    <3>1. CASE s # r
      <4>1. /\ (Merge(s)' <=> Merge(s)) /\ Commands(s)' = Commands(s)
            /\ reqs'[s].state = reqs[s].state /\ Len(reqs') = Len(reqs)
            /\ \A i \in Commands(s) : \A p : At(s, i, p)' <=> At(s, i, p)
        BY <2>1, <3>1, JudgedSame
      <4>2. Finished(s)
        BY DEF EInv
      <4> QED BY <4>1, <4>2 DEF Finished
    <3> QED BY <3>1
  <2>6. ASSUME NEW s \in Requests, Last(s)
        PROVE  Taken(s)' /\ Carried(s)' /\ Covered(s)' /\ Vacant(s)'
    <3>1. s = r
      BY <2>1, <2>6 DEF Last
    <3> QED BY <3>1
  <2>7. ASSUME NEW e \in Entities \ Newcomers, SameTick
        PROVE  \E h \in Hosts, c \in Cells : Home(e, h, c)'
    <3>1. PICK h \in Hosts, c \in Cells : Home(e, h, c)
      BY <2>7 DEF EInv
    <3>2. Serving(h, c)' /\ e \in inst'[h][c].live
      BY <2>1, <3>1 DEF Home, Serving
    <3>3. Home(e, h, c)'
      BY <2>1, <2>2, <2>4, <3>1, <3>2, HomeKept
    <3> QED BY <3>3
  <2> QED BY <2>2, <2>3, <2>4, <2>5, <2>6, <2>7 DEF EInv

(* What a decision keeps of the request and of the excuses.                *)
<1>DecidedSame.
    ASSUME TInv, NEW r \in Requests, NEW st, NEW ak, Judged(r, st, ak), Last(r)
    PROVE  /\ reqs'[r].state = st /\ reqs'[r].acked = ak /\ reqs'[r].kind = reqs[r].kind
           /\ (Merge(r)' <=> Merge(r)) /\ Commands(r)' = Commands(r) /\ Last(r)'
           /\ reqs'[r].cmds = reqs[r].cmds /\ Requests' = Requests /\ Len(reqs') = Len(reqs)
           /\ reqs' # <<>> /\ reqs # <<>>
           /\ \A i \in Commands(r) : /\ Cmd(r, i)' = Cmd(r, i)
                                     /\ \A p : At(r, i, p)' <=> At(r, i, p)
  <2> USE <1>DecidedSame
  <2>1. reqs' # <<>> /\ reqs # <<>>
    BY SMTT(30) DEF TInv, Requests, Judged
  <2> QED BY <2>1, JudgedSame, ZenonT(60)

(* A request that is given up: nothing of it stays when only migrates fail.*)
<1>RollbackCarries.
    ASSUME TInv, CInv, EInv, NEW r \in Requests, reqs[r].state = "inflight", Rollback(r),
           owner' = owner, inst' = inst, quad' = quad, book' = book,
           ready' \subseteq ready,
           Mild => \E m \in ready : m.req = r /\ ~m.ok
    PROVE  EInv'
  <2> USE <1>RollbackCarries
  <2>1. Judged(r, "rolledback", reqs[r].acked)
    BY StateJudged DEF Rollback, States
  <2>2. Last(r) /\ Vacant(r) /\ Orderly(r)
    BY StillLast DEF EInv, CInv
  <2>3. /\ notices \subseteq notices'
        /\ \A n \in notices' \ notices : n.kind = "abort"
    <3>1. \A n \in notices' \ notices : \E h \in AbortTargets(r) : n = Notice("abort", h, r, Parent)
      BY DEF Rollback
    <3>2. \A h : Notice("abort", h, r, Parent).kind = "abort"
      BY SMTT(30) DEF Notice
    <3> QED BY <3>1, <3>2 DEF Rollback
  <2>4. Decides(r, "rolledback", reqs[r].acked)
    BY <2>1, <2>2, <2>3 DEF Decides
  <2>5. /\ reqs'[r].state = "rolledback" /\ reqs'[r].kind = reqs[r].kind
        /\ (Merge(r)' <=> Merge(r)) /\ Commands(r)' = Commands(r) /\ Last(r)'
        /\ reqs'[r].cmds = reqs[r].cmds /\ Requests' = Requests /\ Len(reqs') = Len(reqs)
        /\ reqs' # <<>> /\ reqs # <<>>
        /\ \A i \in Commands(r) : Cmd(r, i)' = Cmd(r, i)
    BY <2>1, <2>2, <1>DecidedSame
  <2>6. Finished(r)' /\ Taken(r)' /\ Carried(r)' /\ Covered(r)'
    <3>1. ~(r < Len(reqs))
      BY <2>2, SMTT(30) DEF Last, TInv
    <3> QED BY <2>5, <3>1 DEF Finished, Taken, Carried, Covered
  <2>7. Vacant(r)'
    <3>1. Merge(r) => 1 \in Commands(r)
      BY DEF EInv, Shaped
    <3>2. ASSUME ~Merge(r), NEW j \in Commands(r),
                 reqs[r].cmds[j].pc \in {"sent", "serialized", "registered", "shipped"}
          PROVE  ~Up(Cmd(r, j).dstHost, Cmd(r, j).dst)'
      BY <2>2, <2>5, <3>2 DEF Vacant, Up
    <3>3. ASSUME Merge(r) PROVE ~Up(Cmd(r, 1).dstHost, Parent)'
      BY <2>2, <2>5, <3>1, <3>3 DEF Vacant, Up
    <3> QED BY <2>5, <3>2, <3>3 DEF Vacant
  <2>8. Placed'
    <3> SUFFICES ASSUME Mild, NEW h \in Hosts, NEW c \in Cells, Up(h, c)
                 PROVE  owner[c] = h \/ Excused(h, c)'
      BY <2>5 DEF Placed, Mild, Up
    <3>1. \A x \in book.pending : x[2] # r
      <4>1. PICK m \in ready : m.req = r /\ ~m.ok
        OBVIOUS
      <4>2. reqs[r].kind = "migrate"
        BY <2>2, <4>1 DEF Orderly
      <4> QED BY <2>2, <4>1, <4>2 DEF Orderly
    <3>2. <<h, r, c>> \notin book.pending
      <4>1. <<h, r, c>>[2] = r
        OBVIOUS
      <4> QED BY <3>1, <4>1
    <3>3. CASE Excused(h, c)
      <4>1. \E n \in notices : n.kind \in {"release", "rename"} /\ n.host = h /\ n.cell = c
        BY <2>2, <3>2, <3>3 DEF Excused, Last
      <4> QED BY <2>3, <2>5, <4>1 DEF Excused
    <3> QED BY <3>3 DEF EInv, Placed
  <2> QED BY <2>4, <2>6, <2>7, <2>8, <1>DecideKeeps

(* An ok Ready that counts, for a split or a migrate.                      *)
<1>OkCarriesOne.
    ASSUME TInv, CInv, EInv, NEW m \in ready, OnReadyOk(m), ~Merge(m.req)
    PROVE  EInv'
  <2> USE <1>OkCarriesOne
  <2> DEFINE r == m.req
             st == IF Acked(m) = Commands(r) THEN "acked" ELSE "inflight"
  <2>1. /\ Judged(r, st, Acked(m)) /\ m.ok /\ r \in Requests /\ reqs[r].state = "inflight"
        /\ m.cmd \in Commands(r) /\ Acked(m) \subseteq Commands(r)
        /\ ready' = ready \ {m} /\ notices' = notices /\ book' = book
        /\ owner' = owner /\ inst' = inst /\ quad' = quad
        /\ Acked(m) = reqs[r].acked \union {m.cmd}
    BY OkJudged, AckedFacts DEF OnReadyOk, TInv
  <2>2. /\ Last(r) /\ Vacant(r) /\ Taken(r) /\ Carried(r) /\ Covered(r)
    <3>1. Last(r)
      BY <2>1, StillLast
    <3> QED BY <2>1, <3>1 DEF EInv
  <2>3. st \in {"inflight", "acked"} /\ (st = "acked" => Acked(m) = Commands(r))
    OBVIOUS
  <2> HIDE DEF st
  <2>4. /\ reqs'[r].state = st /\ reqs'[r].acked = Acked(m) /\ reqs'[r].kind = reqs[r].kind
        /\ (Merge(r)' <=> Merge(r)) /\ Commands(r)' = Commands(r) /\ Last(r)'
        /\ reqs'[r].cmds = reqs[r].cmds /\ Requests' = Requests /\ Len(reqs') = Len(reqs)
        /\ reqs' # <<>> /\ reqs # <<>>
        /\ \A i \in Commands(r) : /\ Cmd(r, i)' = Cmd(r, i)
                                  /\ \A p : At(r, i, p)' <=> At(r, i, p)
    BY <2>1, <2>2, <1>DecidedSame, ZenonT(60)
  <2>5. Decides(r, st, Acked(m))
    BY <2>1, <2>2 DEF Decides
  <2>6. OkSaid(r, m.cmd) /\ \A k : OkSaid(r, k)' => OkSaid(r, k)
    BY <2>1 DEF OkSaid
  <2>7. ASSUME NEW j \in Commands(r), Failed(r, j) PROVE Failed(r, j)' /\ j \notin Acked(m)
    <3>1. j \notin Acked(m)
      BY <2>1, <2>6, <2>7 DEF Failed
    <3> QED BY <2>4, <2>6, <2>7, <3>1 DEF Failed
  <2>8. ASSUME NEW k \in Commands(r)
        PROVE  (Took(r, k)' <=> Took(r, k)) /\ (Filled(r, k)' <=> Filled(r, k))
    BY <2>1, <2>4 DEF Took, Filled
  <2>9. ASSUME NEW k \in Commands(r), k \in Acked(m) \/ OkSaid(r, k)
        PROVE  At(r, k, "done") /\ (Filled(r, k) \/ \E j \in Commands(r) : Failed(r, j))
    <3>1. k \in reqs[r].acked \/ OkSaid(r, k)
      BY <2>1, <2>6, <2>9
    <3>2. At(r, k, "done")
      BY <2>1, <3>1, OkDone
    <3> QED BY <2>1, <2>2, <3>1, <3>2 DEF Carried
  <2>10. Carried(r)'
    <3>1. ASSUME st = "acked", NEW k \in Commands(r) PROVE Filled(r, k)'
      BY <2>3, <2>7, <2>8, <2>9, <3>1
    <3>2. ASSUME NEW k \in Commands(r), k \in Acked(m) \/ OkSaid(r, k)'
          PROVE  Filled(r, k)' \/ \E j \in Commands(r) : Failed(r, j)'
      BY <2>6, <2>7, <2>8, <2>9, <3>2
    <3> QED BY <2>4, <3>1, <3>2 DEF Carried
  <2>11. Taken(r)'
    <3>1. ASSUME reqs[r].kind # "split", NEW k \in Commands(r),
                 reqs[r].cmds[k].pc \in {"serialized", "registered", "shipped", "created"}
          PROVE  Took(r, k)'
      BY <2>1, <2>2, <2>8, <3>1 DEF Taken
    <3> QED BY <2>1, <2>2, <2>4, <3>1 DEF Taken
  <2>12. Covered(r)'
    <3> SUFFICES ASSUME SameTick, reqs[r].kind = "split",
                        NEW e \in inst[owner[Parent]][Parent].live \ Newcomers
                 PROVE  \E i \in Commands(r) :
                          \/ e \in Cmd(r, i)'.ents
                          \/ st = "inflight" /\ At(r, i, "sent")' /\ quad[e] = i
                          \/ st = "inflight" /\ Failed(r, i)'
      <4>1. /\ owner' = owner /\ inst' = inst /\ quad' = quad /\ reqs'[r].state = st
            /\ reqs'[r].kind = reqs[r].kind /\ Commands(r)' = Commands(r)
        BY <2>1, <2>4
      <4> QED BY <4>1 DEF Covered
    <3>1. PICK i \in Commands(r) : \/ e \in Cmd(r, i).ents
                                   \/ At(r, i, "sent") /\ quad[e] = i
                                   \/ Failed(r, i)
      BY <2>1, <2>2 DEF Covered
    <3>2. CASE st = "inflight"
      BY <2>4, <2>7, <3>1, <3>2
    <3>3. CASE st = "acked"
      <4>1. ~Failed(r, i) /\ At(r, i, "done")
        BY <2>3, <2>7, <2>9, <3>3
      <4>2. ~At(r, i, "sent")
        BY <4>1 DEF At
      <4> QED BY <2>4, <3>1, <4>1, <4>2
    <3> QED BY <2>3, <3>2, <3>3
  <2>13. Finished(r)' /\ Vacant(r)'
    <3>1. ~Merge(r)
      OBVIOUS
    <3>2. ASSUME NEW j \in Commands(r),
                 reqs[r].cmds[j].pc \in {"sent", "serialized", "registered", "shipped"}
          PROVE  ~Up(Cmd(r, j).dstHost, Cmd(r, j).dst)'
      BY <2>1, <2>2, <2>4, <3>1, <3>2 DEF Vacant, Up
    <3> QED BY <2>4, <3>1, <3>2 DEF Vacant, Finished
  <2>14. Placed'
    <3> SUFFICES ASSUME Mild, NEW h \in Hosts, NEW c \in Cells, Up(h, c)
                 PROVE  owner[c] = h \/ Excused(h, c)'
      BY <2>1, <2>4 DEF Placed, Mild, Up
    <3>1. CASE Excused(h, c)
      <4>1. \/ <<h, r, c>> \in book.pending
            \/ \E n \in notices : n.kind \in {"release", "rename"} /\ n.host = h /\ n.cell = c
        BY <2>1, <2>2, <3>1 DEF Excused, Last
      <4>2. CASE <<h, r, c>> \in book.pending
        <5>1. PICK x : x = <<h, r, c>>
          OBVIOUS
        <5>2. x \in book.pending /\ x[1] = h /\ x[2] = r /\ x[3] = c
          BY <4>2, <5>1
        <5>3. \E i \in Commands(r) : h = Cmd(r, i).dstHost /\ c = Cmd(r, i).dst
          BY <2>1, <5>2 DEF CInv, Noted
        <5>4. ~Merge(r)
          OBVIOUS
        <5> QED BY <2>1, <2>3, <2>4, <4>2, <5>3, <5>4, ZenonT(60) DEF Excused
      <4> QED BY <2>1, <2>4, <4>1, <4>2 DEF Excused
    <3> QED BY <3>1 DEF EInv, Placed
  <2> QED BY <2>1, <2>5, <2>10, <2>11, <2>12, <2>13, <2>14, <1>DecideKeeps

(* There is at most one ok Ready of a command.                             *)
<1>OneOk.
    ASSUME TInv, CInv, NEW m \in ready, NEW q \in ready, m.ok, q.ok,
           m.req = q.req, m.cmd = q.cmd
    PROVE  m = q
  <2> USE <1>OneOk
  <2>1. \A x \in ready : /\ x = [req |-> x.req, cmd |-> x.cmd, host |-> x.host,
                                 dst |-> x.dst, ok |-> x.ok]
                         /\ x.ok \in BOOLEAN
    <3> SUFFICES ASSUME NEW x \in ready
                 PROVE  /\ x = [req |-> x.req, cmd |-> x.cmd, host |-> x.host,
                                dst |-> x.dst, ok |-> x.ok]
                        /\ x.ok \in BOOLEAN
      OBVIOUS
    <3>1. x \in MsgT
      BY DEF TInv
    <3> QED BY <3>1, SMTT(30) DEF MsgT
  <2>2. /\ m.host = Cmd(m.req, m.cmd).dstHost /\ m.dst = Cmd(m.req, m.cmd).dst
        /\ q.host = Cmd(q.req, q.cmd).dstHost /\ q.dst = Cmd(q.req, q.cmd).dst
    BY DEF CInv, Said
  <2>3. m.ok = TRUE /\ q.ok = TRUE
    BY <2>1
  <2>4. m.host = q.host /\ m.dst = q.dst /\ m.ok = q.ok
    BY <2>2, <2>3
  <2> QED BY <2>1, <2>4

(* Another Ready counts for another command: f is kept one to one by an    *)
(* exchange of two of its values.                                          *)
<1>Tally.
    ASSUME TInv, CInv, NEW m \in ready, m.ok, Merge(m.req), reqs[m.req].state = "inflight",
           Carried(m.req), ready' = ready \ {m}
    PROVE  \E g \in [Commands(m.req) -> Commands(m.req)] :
             /\ \A j, k \in Commands(m.req) : g[j] = g[k] => j = k
             /\ \A i \in Commands(m.req) : \E k \in Commands(m.req) : g[k] = i
             /\ \A k \in Acked(m) : /\ At(m.req, g[k], "done") /\ ~OkSaid(m.req, g[k])'
                                    /\ Filled(m.req, g[k])
  <2> USE <1>Tally
  <2> DEFINE r == m.req
             C == Commands(r)
  <2>1. /\ r \in Requests /\ m.cmd \in C /\ At(r, m.cmd, "done")
        /\ OkSaid(r, m.cmd) /\ Filled(r, m.cmd) /\ reqs[r].acked \subseteq C
    BY DEF TInv, CInv, Said, OkSaid, Carried
  <2>2. ~OkSaid(r, m.cmd)' /\ \A k : OkSaid(r, k)' => OkSaid(r, k)
    BY <1>OneOk DEF OkSaid
  <2>3. PICK f \in [C -> C] :
          /\ \A j, k \in C : f[j] = f[k] => j = k
          /\ \A i \in C : \E k \in C : f[k] = i
          /\ \A k \in reqs[r].acked : At(r, f[k], "done") /\ ~OkSaid(r, f[k]) /\ Filled(r, f[k])
    BY DEF Carried, Tallied
  <2>4. CASE \A i \in Matching(m) : \E j \in Matching(m) : ~(i <= j)
    <3>1. Acked(m) = reqs[r].acked
      BY <2>4 DEF Acked
    <3>2. \A k \in Acked(m) : At(r, f[k], "done") /\ ~OkSaid(r, f[k])' /\ Filled(r, f[k])
      BY <2>2, <2>3, <3>1
    <3> QED BY <2>3, <3>2
  <2>5. CASE \E i \in Matching(m) : \A j \in Matching(m) : i <= j
    <3>1. PICK k0 \in Matching(m) : \A j \in Matching(m) : k0 <= j
      BY <2>5
    <3>2. k0 \in C /\ k0 \notin reqs[r].acked /\ Matching(m) \subseteq C /\ C \subseteq Nat
      BY <2>1, <3>1, CommandFields DEF Matching
    <3>3. Acked(m) = reqs[r].acked \union {k0}
      <4>1. {i \in Matching(m) : \A j \in Matching(m) : i <= j} = {k0}
        BY <3>1, <3>2, SMTT(30)
      <4> QED BY <4>1 DEF Acked
    <3>4. PICK k1 \in C : f[k1] = m.cmd
      BY <2>1, <2>3
    <3>5. k1 \notin reqs[r].acked
      BY <2>1, <2>3, <3>4
    <3>6. PICK g : g = [k \in C |-> IF k = k0 THEN m.cmd ELSE IF k = k1 THEN f[k0] ELSE f[k]]
      OBVIOUS
    <3> HIDE DEF C
    <3>7. /\ g \in [C -> C] /\ g[k0] = m.cmd
          /\ \A k \in C : k # k0 => g[k] = IF k = k1 THEN f[k0] ELSE f[k]
      BY <2>1, <2>3, <3>2, <3>6
    <3>8. ASSUME NEW j \in C, NEW k \in C, g[j] = g[k] PROVE j = k
      <4>1. \A a, b \in C : f[a] = f[b] => a = b
        BY <2>3
      <4>2. CASE j = k0 \/ k = k0
        BY <3>2, <3>4, <3>7, <3>8, <4>1, <4>2, SMTT(30)
      <4>3. CASE j # k0 /\ k # k0
        BY <3>2, <3>4, <3>7, <3>8, <4>1, <4>3, SMTT(30)
      <4> QED BY <4>2, <4>3
    <3>9. ASSUME NEW i \in C PROVE \E k \in C : g[k] = i
      <4>1. PICK k \in C : f[k] = i
        BY <2>3, <3>9
      <4>2. CASE k = k1
        BY <3>2, <3>4, <3>7, <4>1, <4>2
      <4>3. CASE k # k1 /\ k = k0
        BY <3>4, <3>7, <4>1, <4>3
      <4>4. CASE k # k1 /\ k # k0
        BY <3>7, <4>1, <4>4
      <4> QED BY <4>2, <4>3, <4>4
    <3>10. ASSUME NEW k \in Acked(m)
           PROVE  At(r, g[k], "done") /\ ~OkSaid(r, g[k])' /\ Filled(r, g[k])
      <4>1. CASE k = k0
        <5>1. g[k] = m.cmd
          BY <3>7, <4>1
        <5> QED BY <2>1, <2>2, <5>1
      <4>2. CASE k # k0
        <5>1. k \in reqs[r].acked /\ g[k] = f[k]
          BY <2>1, <3>3, <3>5, <3>7, <3>10, <4>2
        <5> QED BY <2>2, <2>3, <5>1
      <4> QED BY <4>1, <4>2
    <3> USE DEF C
    <3> QED BY <3>7, <3>8, <3>9, <3>10
  <2> QED BY <2>4, <2>5

(* An ok Ready that counts, for a merge.                                   *)
<1>OkCarriesMerge.
    ASSUME TInv, CInv, EInv, NEW m \in ready, OnReadyOk(m), Merge(m.req)
    PROVE  EInv'
  <2> USE <1>OkCarriesMerge
  <2> DEFINE r == m.req
             st == IF Acked(m) = Commands(r) THEN "acked" ELSE "inflight"
  <2>1. /\ Judged(r, st, Acked(m)) /\ m.ok /\ r \in Requests /\ reqs[r].state = "inflight"
        /\ m.cmd \in Commands(r) /\ Acked(m) \subseteq Commands(r)
        /\ ready' = ready \ {m} /\ notices' = notices /\ book' = book
        /\ owner' = owner /\ inst' = inst /\ quad' = quad
    BY OkJudged, AckedFacts DEF OnReadyOk, TInv
  <2>2. Last(r) /\ Vacant(r) /\ Taken(r) /\ Carried(r) /\ Shaped(r)
    <3>1. Last(r)
      BY <2>1, StillLast
    <3> QED BY <2>1, <3>1 DEF EInv
  <2>3. st \in {"inflight", "acked"} /\ (st = "acked" => Acked(m) = Commands(r))
    OBVIOUS
  <2> HIDE DEF st
  <2>4. /\ reqs'[r].state = st /\ reqs'[r].acked = Acked(m) /\ reqs'[r].kind = reqs[r].kind
        /\ (Merge(r)' <=> Merge(r)) /\ Commands(r)' = Commands(r) /\ Last(r)'
        /\ reqs'[r].cmds = reqs[r].cmds /\ Requests' = Requests /\ Len(reqs') = Len(reqs)
        /\ reqs' # <<>> /\ reqs # <<>>
        /\ \A i \in Commands(r) : /\ Cmd(r, i)' = Cmd(r, i)
                                  /\ \A p : At(r, i, p)' <=> At(r, i, p)
    BY <2>1, <2>2, <1>DecidedSame, ZenonT(60)
  <2>5. Decides(r, st, Acked(m))
    BY <2>1, <2>2 DEF Decides
  <2>6. \A k : OkSaid(r, k)' => OkSaid(r, k)
    BY <2>1 DEF OkSaid
  <2>8. ASSUME NEW k \in Commands(r)
        PROVE  (Took(r, k)' <=> Took(r, k)) /\ (Filled(r, k)' <=> Filled(r, k))
    BY <2>1, <2>4 DEF Took, Filled
  <2>9. PICK g \in [Commands(r) -> Commands(r)] :
          /\ \A j, k \in Commands(r) : g[j] = g[k] => j = k
          /\ \A i \in Commands(r) : \E k \in Commands(r) : g[k] = i
          /\ \A k \in Acked(m) : /\ At(r, g[k], "done") /\ ~OkSaid(r, g[k])'
                                 /\ Filled(r, g[k])
    BY <2>1, <2>2, <1>Tally
  <2>10. ASSUME st = "acked", NEW i \in Commands(r) PROVE At(r, i, "done") /\ Filled(r, i)
    <3>1. PICK k \in Commands(r) : g[k] = i
      BY <2>9
    <3>2. k \in Acked(m)
      BY <2>3, <2>10
    <3>3. At(r, g[k], "done") /\ Filled(r, g[k])
      BY <2>9, <3>2
    <3> QED BY <3>1, <3>3
  <2>11. Tallied(r)'
    <3>1. /\ g \in [Commands(r)' -> Commands(r)']
          /\ \A j, k \in Commands(r)' : g[j] = g[k] => j = k
          /\ \A j \in Commands(r)' : \E k \in Commands(r)' : g[k] = j
      <4>1. Commands(r)' = Commands(r)
        BY <2>4
      <4>2. /\ g \in [Commands(r) -> Commands(r)]
            /\ \A j, k \in Commands(r) : g[j] = g[k] => j = k
            /\ \A j \in Commands(r) : \E k \in Commands(r) : g[k] = j
        BY <2>9
      <4> QED BY <4>1, <4>2
    <3>2. ASSUME NEW k \in Acked(m)
          PROVE  At(r, g[k], "done")' /\ ~OkSaid(r, g[k])' /\ Filled(r, g[k])'
      <4>1. g[k] \in Commands(r)
        BY <2>1, <2>9
      <4> QED BY <2>4, <2>8, <2>9, <4>1
    <3>3. \A k \in reqs'[r].acked : At(r, g[k], "done")' /\ ~OkSaid(r, g[k])' /\ Filled(r, g[k])'
      BY <2>4, <3>2
    <3> QED BY <3>1, <3>3 DEF Tallied
  <2>12. Carried(r)'
    <3>1. ASSUME NEW k \in Commands(r), OkSaid(r, k)' PROVE Filled(r, k)'
      BY <2>1, <2>2, <2>6, <2>8, <3>1 DEF Carried
    <3> QED BY <2>4, <2>8, <2>10, <2>11, <3>1 DEF Carried
  <2>13. Taken(r)'
    <3>1. ASSUME reqs[r].kind # "split", NEW k \in Commands(r),
                 reqs[r].cmds[k].pc \in {"serialized", "registered", "shipped", "created"}
          PROVE  Took(r, k)'
      BY <2>1, <2>2, <2>8, <3>1 DEF Taken
    <3> QED BY <2>1, <2>2, <2>4, <3>1 DEF Taken
  <2>14. Covered(r)'
    <3>1. reqs[r].kind # "split"
      BY DEF Merge
    <3> QED BY <2>4, <3>1 DEF Covered
  <2>15. Finished(r)'
    <3>1. ~(r < Len(reqs))
      BY <2>2, SMTT(30) DEF Last, TInv
    <3> QED BY <2>3, <2>4, <2>10, <3>1 DEF Finished
  <2>16. Vacant(r)'
    <3>1. ~Up(Cmd(r, 1).dstHost, Parent)'
      BY <2>1, <2>2, <2>4 DEF Vacant, Up, Shaped
    <3> QED BY <2>4, <3>1 DEF Vacant
  <2>17. Placed'
    <3> SUFFICES ASSUME Mild, NEW h \in Hosts, NEW c \in Cells, Up(h, c)
                 PROVE  owner[c] = h \/ Excused(h, c)'
      BY <2>1, <2>4 DEF Placed, Mild, Up
    <3>1. CASE Excused(h, c)
      <4>1. \/ <<h, r, c>> \in book.pending
            \/ \E n \in notices : n.kind \in {"release", "rename"} /\ n.host = h /\ n.cell = c
        BY <2>1, <2>2, <3>1 DEF Excused, Last
      <4>2. <<h, r, c>> \notin book.pending
        <5>1. <<h, r, c>>[2] = r
          OBVIOUS
        <5>2. \A x \in book.pending : ~Merge(x[2])
          BY DEF CInv, Noted
        <5> QED BY <5>1, <5>2
      <4> QED BY <2>1, <2>4, <4>1, <4>2 DEF Excused
    <3> QED BY <3>1 DEF EInv, Placed
  <2> QED BY <2>1, <2>5, <2>12, <2>13, <2>14, <2>15, <2>16, <2>17, <1>DecideKeeps

(* The flip of the map.  What changes hands: a cell that is no destination *)
(* and not the parent's, or the quadrants', in a merge keeps its owner.    *)
<1>MapHands.
    ASSUME TInv, CInv, EInv, NEW r \in Requests, CommitMap(r)
    PROVE  /\ Region'
           /\ \A c \in Cells : owner[c] # NoHost =>
                \/ owner'[c] = owner[c]
                \/ \E i \in Commands(r) : c = Cmd(r, i).src /\ owner[c] = Cmd(r, i).srcHost
                \/ Merge(r) /\ c = Cmd(r, 1).dst /\ owner[c] = Cmd(r, 1).dstHost
  <2> USE <1>MapHands
  <2>1. /\ reqs[r].state = "acked" /\ Built(r) /\ Owned(r) /\ 1 \in Commands(r)
        /\ Shaped(r) /\ Region
    BY DEF CommitMap, CInv, EInv, Owned
  <2>2. /\ \A i \in Commands(r) : /\ owner[Cmd(r, i).src] = Cmd(r, i).srcHost
                                  /\ Cmd(r, i).srcHost \in Hosts /\ Cmd(r, i).dstHost \in Hosts
        /\ Merge(r) => owner[Cmd(r, 1).dst] = Cmd(r, 1).dstHost
    BY <2>1, CommandFields DEF Owned
  <2>3. /\ Parent \in Cells /\ Parent \notin ChildSet /\ NoHost \notin Hosts
        /\ ChildSet \subseteq Cells /\ \A c \in Cells : c = Parent \/ c \in ChildSet
    BY LayoutAssumption DEF Cells
  <2>4. CASE Merge(r)
    <3>1. owner'[Parent] = Cmd(r, 1).dstHost /\ \A c \in ChildSet : owner'[c] = NoHost
      BY <2>4, MapFlip
    <3>2. Region'
      BY <2>1, <2>2, <2>3, <3>1 DEF Region
    <3>3. Cmd(r, 1).dst \in ChildSet
      BY <2>1, <2>4 DEF Built
    <3>4. owner[Parent] = NoHost
      BY <2>1, <2>2, <2>3, <2>4, <3>3 DEF Region
    <3>5. ASSUME NEW c \in Cells, owner[c] # NoHost
          PROVE  \/ \E i \in Commands(r) : c = Cmd(r, i).src /\ owner[c] = Cmd(r, i).srcHost
                 \/ c = Cmd(r, 1).dst /\ owner[c] = Cmd(r, 1).dstHost
      <4>1. c \in ChildSet
        BY <2>3, <3>4, <3>5
      <4> QED BY <2>1, <2>2, <2>4, <4>1 DEF Shaped
    <3> QED BY <2>4, <3>2, <3>5
  <2>5. CASE reqs[r].kind = "split"
    <3>1. ~Merge(r) /\ Parent \in Removes(r)
      BY <2>5 DEF Merge, Removes
    <3>2. /\ \A i \in Commands(r) : owner'[Cmd(r, i).dst] = Cmd(r, i).dstHost
          /\ (\A i \in Commands(r) : Cmd(r, i).dst # Parent) => owner'[Parent] = NoHost
      BY <2>3, <3>1, MapFlip
    <3>3. \A c \in ChildSet : \E i \in Commands(r) : c = Cmd(r, i).dst
      <4>1. Len(reqs[r].cmds) = Len(Children) /\ \A i \in Commands(r) : Cmd(r, i).dst = Children[i]
        BY <2>1, <2>5 DEF Shaped
      <4> QED BY <4>1 DEF ChildSet, Commands
    <3>4. \A i \in Commands(r) : Cmd(r, i).dst # Parent /\ Cmd(r, i).src = Parent
      BY <2>1, <2>3, <2>5 DEF Built
    <3>5. owner'[Parent] = NoHost /\ \A c \in ChildSet : owner'[c] # NoHost
      <4>1. owner'[Parent] = NoHost
        BY <3>2, <3>4
      <4>2. \A i \in Commands(r) : owner'[Cmd(r, i).dst] # NoHost
        BY <2>2, <2>3, <3>2
      <4> QED BY <3>3, <4>1, <4>2
    <3>6. Region'
      BY <3>5 DEF Region
    <3>7. owner[Parent] # NoHost /\ owner[Parent] = Cmd(r, 1).srcHost /\ Cmd(r, 1).src = Parent
      BY <2>1, <2>2, <2>3, <3>4
    <3>8. \A c \in ChildSet : owner[c] = NoHost
      BY <2>1, <3>7 DEF Region
    <3> QED BY <2>1, <2>3, <3>6, <3>7, <3>8
  <2>6. CASE reqs[r].kind = "migrate"
    <3>1. ~Merge(r) /\ Removes(r) = {} /\ Cmd(r, 1).src = Cmd(r, 1).dst
      BY <2>1, <2>6 DEF Merge, Removes, Built
    <3>2. \A i \in Commands(r) : i = 1
      <4>1. Len(reqs[r].cmds) = 1
        BY <2>1, <2>6 DEF Built
      <4> QED BY <4>1, SMTT(30) DEF Commands
    <3>3. /\ owner'[Cmd(r, 1).dst] = Cmd(r, 1).dstHost
          /\ \A c \in Cells : Cmd(r, 1).dst # c => owner'[c] = owner[c]
      BY <2>1, <3>1, <3>2, MapFlip
    <3>4. \A c \in Cells : owner'[c] = NoHost <=> owner[c] = NoHost
      BY <2>1, <2>2, <2>3, <3>1, <3>3
    <3>5. Region'
      BY <2>1, <2>3, <3>4 DEF Region
    <3> QED BY <2>1, <2>2, <3>1, <3>3, <3>5
  <2>7. reqs[r].kind \in {"split", "merge", "migrate"}
    <3>1. 1 \in Commands(r) /\ reqs[r].kind \in Kinds
      BY <2>1, CommandFields
    <3> QED BY <3>1, LayoutAssumption
  <2> QED BY <2>4, <2>5, <2>6, <2>7 DEF Merge

(* Whoever is on a serving cell when the map flips is on one afterwards:   *)
(* the new owners hold what their sources held, and the survivor of a      *)
(* merge stands for the parent until it is renamed.                        *)
<1>MapHome.
    ASSUME TInv, CInv, EInv, NEW r \in Requests, CommitMap(r), SameTick,
           NEW e \in Entities \ Newcomers
    PROVE  \E h \in Hosts, c \in Cells : Home(e, h, c)'
  <2> USE <1>MapHome
  <2>1. /\ reqs[r].state = "acked" /\ Built(r) /\ Owned(r) /\ 1 \in Commands(r)
        /\ Shaped(r) /\ Region /\ Populated(r) /\ inst' = inst /\ book' = book
    BY DEF CommitMap, CInv, EInv, Owned
  <2>2. Judged(r, "mapped", reqs[r].acked)
    BY StateJudged DEF CommitMap, Step, States
  <2>3. Last(r) /\ \A i \in Commands(r) : Filled(r, i)
    <3>1. Last(r)
      BY <2>1, StillLast
    <3> QED BY <2>1, <3>1 DEF EInv, Carried
  <2>4. Covered(r)
    BY <2>3 DEF EInv
  <2>5. \A n \in notices : n.kind # "rename"
    BY <2>1, <2>3 DEF CInv, Posted, Last
  <2>6. Requests' = Requests /\ \A s \in Requests : \A h, c : ~Revocable(s, h, c)'
    <3>1. Requests' = Requests
      BY <2>2, JudgedSame
    <3>2. ASSUME NEW s \in Requests, NEW h, NEW c, Revocable(s, h, c)' PROVE FALSE
      <4>1. /\ reqs'[r].state = "mapped" /\ (Merge(s)' <=> Merge(s))
            /\ s # r => reqs'[s].state = reqs[s].state
        BY <2>2, JudgedSame
      <4>2. s # r /\ Merge(s) /\ reqs[s].state \in {"inflight", "acked", "rolledback"}
        BY <3>2, <4>1 DEF Revocable
      <4>3. s < Len(reqs)
        BY <2>3, <4>2, SMTT(30) DEF Last, TInv, Requests
      <4> QED BY <4>2, <4>3 DEF EInv, Finished
    <3> QED BY <3>1, <3>2
  <2>7. ASSUME NEW h \in Hosts, NEW c \in Cells, Up(h, c), e \in inst[h][c].live,
               \/ owner'[c] = h
               \/ \E n \in notices' : n.kind = "rename" /\ n.host = h /\ n.cell = c
        PROVE  Home(e, h, c)'
    BY <2>1, <2>6, <2>7 DEF Home, Serving, Up
  <2>8. Merge(r) => \E n \in notices' : /\ n.kind = "rename" /\ n.host = Cmd(r, 1).dstHost
                                        /\ n.cell = Cmd(r, 1).dst
    <3>1. Merge(r) => Notice("rename", Cmd(r, 1).dstHost, r, Cmd(r, 1).dst) \in notices'
      BY DEF CommitMap, Merge
    <3> QED BY <3>1, SMTT(30) DEF Notice
  <2>9. /\ \A i \in Commands(r) : Cmd(r, i).dst \in Cells /\ Cmd(r, i).dstHost \in Hosts
        /\ Merge(r) => Up(Cmd(r, 1).dstHost, Cmd(r, 1).dst)
    <3>1. \A i \in Commands(r) : Cmd(r, i).dst \in Cells /\ Cmd(r, i).dstHost \in Hosts
      BY CommandFields
    <3>2. ASSUME Merge(r) PROVE Up(Cmd(r, 1).dstHost, Cmd(r, 1).dst)
      <4>1. /\ owner[Cmd(r, 1).dst] = Cmd(r, 1).dstHost /\ Cmd(r, 1).dst \in ChildSet
        BY <2>1, <3>2 DEF Owned, Built
      <4>2. /\ Cmd(r, 1).dst \in Cells /\ Cmd(r, 1).dst # Parent
            /\ owner[Cmd(r, 1).dst] # NoHost
        BY <2>1, <3>1, <4>1, LayoutAssumption, ZenonT(60)
      <4> QED BY <2>5, <4>1, <4>2 DEF CInv, OwnerServes, Up
    <3> QED BY <3>1, <3>2
  <2>10. ASSUME NEW i \in Commands(r), e \in Cmd(r, i).ents
         PROVE  \E h \in Hosts, c \in Cells : Home(e, h, c)'
    <3>1. e \in inst[Cmd(r, i).dstHost][Cmd(r, i).dst].live
      BY <2>3, <2>10 DEF Filled
    <3>2. CASE Merge(r)
      <4>1. Cmd(r, i).dstHost = Cmd(r, 1).dstHost /\ Cmd(r, i).dst = Cmd(r, 1).dst
        BY <2>1, <3>2 DEF Built
      <4> QED BY <2>1, <2>7, <2>8, <2>9, <3>1, <3>2, <4>1
    <3>3. CASE ~Merge(r)
      <4>1. Up(Cmd(r, i).dstHost, Cmd(r, i).dst)
        BY <2>1, <3>3 DEF Populated
      <4>2. owner'[Cmd(r, i).dst] = Cmd(r, i).dstHost
        BY <3>3, MapFlip
      <4> QED BY <2>7, <2>9, <3>1, <4>1, <4>2
    <3> QED BY <3>2, <3>3
  <2>11. PICK h \in Hosts, c \in Cells : Home(e, h, c)
    BY DEF EInv
  <2>12. Up(h, c) /\ e \in inst[h][c].live /\ owner[c] = h /\ owner[c] # NoHost
    BY <2>5, <2>11, LayoutAssumption DEF Home, Serving, Up
  <2>13. \/ owner'[c] = owner[c]
         \/ \E i \in Commands(r) : c = Cmd(r, i).src /\ owner[c] = Cmd(r, i).srcHost
         \/ Merge(r) /\ c = Cmd(r, 1).dst /\ owner[c] = Cmd(r, 1).dstHost
    BY <2>12, <1>MapHands
  <2>14. CASE owner'[c] = owner[c]
    BY <2>7, <2>12, <2>14
  <2>15. CASE Merge(r) /\ c = Cmd(r, 1).dst /\ owner[c] = Cmd(r, 1).dstHost
    BY <2>7, <2>8, <2>12, <2>15
  <2>16. CASE \E i \in Commands(r) : c = Cmd(r, i).src /\ owner[c] = Cmd(r, i).srcHost
    <3>1. PICK i \in Commands(r) : c = Cmd(r, i).src /\ owner[c] = Cmd(r, i).srcHost
      BY <2>16
    <3>2. CASE reqs[r].kind = "split"
      <4>1. c = Parent
        BY <2>1, <3>1, <3>2 DEF Built
      <4>2. \E j \in Commands(r) : e \in Cmd(r, j).ents
        BY <2>1, <2>4, <2>12, <3>2, <4>1 DEF Covered
      <4> QED BY <2>10, <4>2
    <3>3. CASE reqs[r].kind # "split"
      <4>1. Took(r, i)
        BY <2>3, <3>3 DEF Filled
      <4>2. e \in Cmd(r, i).ents
        BY <2>12, <3>1, <4>1 DEF Took
      <4> QED BY <2>10, <4>2
    <3> QED BY <3>2, <3>3
  <2> QED BY <2>13, <2>14, <2>15, <2>16

<1>MapCarries.
    ASSUME TInv, CInv, EInv, NEW r \in Requests, CommitMap(r)
    PROVE  EInv'
  <2> USE <1>MapCarries
  <2>1. /\ reqs[r].state = "acked" /\ 1 \in Commands(r) /\ inst' = inst /\ book' = book
        /\ notices \subseteq notices'
    BY DEF CommitMap, CInv, Owned
  <2>2. Judged(r, "mapped", reqs[r].acked)
    BY StateJudged DEF CommitMap, Step, States
  <2>3. Last(r) /\ Vacant(r) /\ Finished(r)
    <3>1. Last(r)
      BY <2>1, StillLast
    <3> QED BY <2>1, <3>1 DEF EInv
  <2>4. /\ reqs'[r].state = "mapped" /\ reqs'[r].kind = reqs[r].kind
        /\ (Merge(r)' <=> Merge(r)) /\ Commands(r)' = Commands(r) /\ Last(r)'
        /\ reqs'[r].cmds = reqs[r].cmds /\ Requests' = Requests /\ Len(reqs') = Len(reqs)
        /\ reqs' # <<>> /\ reqs # <<>>
        /\ \A i \in Commands(r) : /\ Cmd(r, i)' = Cmd(r, i)
                                  /\ \A p : At(r, i, p)' <=> At(r, i, p)
    BY <2>2, <2>3, <1>DecidedSame, ZenonT(60)
  <2>5. \A s \in Requests : Last(s)' => s = r
    BY <2>3, <2>4 DEF Last
  <2>6. /\ \A s \in Requests : Shaped(s)'
        /\ \A x \in book'.survivor : Logged(x)'
    BY <2>1, <2>2, <1>DecidedRecords
  <2>7. ASSUME NEW s \in Requests PROVE Finished(s)'
    <3>1. CASE s = r
      BY <2>1, <2>3, <2>4, <3>1 DEF Finished, Last
    <3>2. CASE s # r
      <4>1. /\ (Merge(s)' <=> Merge(s)) /\ Commands(s)' = Commands(s)
            /\ reqs'[s].state = reqs[s].state /\ Len(reqs') = Len(reqs)
            /\ \A i \in Commands(s) : \A p : At(s, i, p)' <=> At(s, i, p)
        BY <2>2, <3>2, JudgedSame
      <4>2. Finished(s)
        BY DEF EInv
      <4> QED BY <4>1, <4>2 DEF Finished
    <3> QED BY <3>1, <3>2
  <2>8. Taken(r)' /\ Carried(r)' /\ Covered(r)'
    BY <2>4 DEF Taken, Carried, Covered
  <2>9. Vacant(r)'
    <3>2. ASSUME ~Merge(r), NEW j \in Commands(r),
                 reqs[r].cmds[j].pc \in {"sent", "serialized", "registered", "shipped"}
          PROVE  ~Up(Cmd(r, j).dstHost, Cmd(r, j).dst)'
      BY <2>1, <2>3, <2>4, <3>2 DEF Vacant, Up
    <3>3. ASSUME Merge(r) PROVE ~Up(Cmd(r, 1).dstHost, Parent)'
      BY <2>1, <2>3, <2>4, <3>3 DEF Vacant, Up
    <3> QED BY <2>4, <3>2, <3>3 DEF Vacant
  <2>10. Placed'
    <3> SUFFICES ASSUME Mild, NEW h \in Hosts, NEW c \in Cells, Up(h, c)
                 PROVE  owner'[c] = h \/ Excused(h, c)'
      BY <2>1, <2>4 DEF Placed, Mild, Up
    <3>1. CASE Excused(h, c)
      <4>1. \/ \E i \in Commands(r) : ~Merge(r) /\ h = Cmd(r, i).dstHost /\ c = Cmd(r, i).dst
            \/ \E n \in notices : n.kind \in {"release", "rename"} /\ n.host = h /\ n.cell = c
        BY <2>1, <2>3, <3>1 DEF Excused, Last
      <4>2. CASE \E i \in Commands(r) : ~Merge(r) /\ h = Cmd(r, i).dstHost /\ c = Cmd(r, i).dst
        BY <4>2, MapFlip
      <4> QED BY <2>1, <2>4, <4>1, <4>2 DEF Excused
    <3>2. CASE owner[c] = h
      <4>1. \/ owner'[c] = owner[c]
            \/ \E i \in Commands(r) : c = Cmd(r, i).src /\ owner[c] = Cmd(r, i).srcHost
            \/ Merge(r) /\ c = Cmd(r, 1).dst /\ owner[c] = Cmd(r, 1).dstHost
        <5>1. owner[c] # NoHost
          BY <3>2, LayoutAssumption
        <5> QED BY <5>1, <1>MapHands
      <4>2. CASE \E i \in Commands(r) : c = Cmd(r, i).src /\ owner[c] = Cmd(r, i).srcHost
        <5>1. PICK i \in Commands(r) : c = Cmd(r, i).src /\ h = Cmd(r, i).srcHost
          BY <3>2, <4>2
        <5> QED BY <2>4, <5>1 DEF Excused
      <4>3. CASE Merge(r) /\ c = Cmd(r, 1).dst /\ owner[c] = Cmd(r, 1).dstHost
        <5>1. Notice("rename", Cmd(r, 1).dstHost, r, Cmd(r, 1).dst) \in notices'
          BY <4>3 DEF CommitMap, Merge
        <5>2. \E n \in notices' : n.kind = "rename" /\ n.host = h /\ n.cell = c
          BY <3>2, <4>3, <5>1, SMTT(30) DEF Notice
        <5> QED BY <2>4, <5>2 DEF Excused
      <4> QED BY <3>2, <4>1, <4>2, <4>3
    <3> QED BY <3>1, <3>2 DEF EInv, Placed
  <2>11. Region'
    BY <1>MapHands
  <2>12. ASSUME NEW e \in Entities \ Newcomers, SameTick
         PROVE  \E h \in Hosts, c \in Cells : Home(e, h, c)'
    BY <2>12, <1>MapHome
  <2>13. \A s \in Requests : Last(s)' => Taken(s)' /\ Carried(s)' /\ Covered(s)' /\ Vacant(s)'
    BY <2>5, <2>8, <2>9
  <2> QED BY <2>4, <2>6, <2>7, <2>10, <2>11, <2>12, <2>13 DEF EInv

(* The two later steps of a commit only post messages.                     *)
<1>TellCarries.
    ASSUME TInv, CInv, EInv, NEW r \in Requests, CommitRelease(r) \/ CommitNotify(r)
    PROVE  EInv'
  <2> USE <1>TellCarries
  <2>1. PICK st \in {"releasing", "committed"} :
          /\ Judged(r, st, reqs[r].acked)
          /\ reqs[r].state = IF st = "releasing" THEN "mapped" ELSE "releasing"
          /\ st = "releasing" => CommitRelease(r)
    BY StateJudged, ZenonT(60) DEF CommitRelease, CommitNotify, Step, States
  <2>2. /\ owner' = owner /\ inst' = inst /\ quad' = quad /\ book' = book /\ ready' = ready
        /\ notices \subseteq notices' /\ \A n \in notices' \ notices : n.kind # "rename"
    <3>1. \A h, c : /\ Notice("release", h, r, c).kind = "release"
                    /\ Notice("commit", h, r, c).kind = "commit"
      BY SMTT(30) DEF Notice
    <3>2. CASE CommitRelease(r)
      <4>1. \A n \in notices' \ notices :
              \E i \in Commands(r) : n = Notice("release", Cmd(r, i).srcHost, r, Cmd(r, i).src)
        BY <3>2 DEF CommitRelease
      <4>2. \A n \in notices' \ notices : n.kind = "release"
        BY <3>1, <4>1, SMTT(30)
      <4> QED BY <3>2, <4>2 DEF CommitRelease
    <3>3. CASE CommitNotify(r)
      <4>1. \A n \in notices' \ notices :
              \E h \in CommitTargets(r) : n = Notice("commit", h, r, Parent)
        BY <3>3 DEF CommitNotify
      <4>2. \A n \in notices' \ notices : n.kind = "commit"
        BY <3>1, <4>1
      <4> QED BY <3>3, <4>2 DEF CommitNotify
    <3> QED BY <3>2, <3>3
  <2>3. Last(r) /\ Vacant(r) /\ Finished(r)
    <3>1. Last(r)
      BY <2>1, StillLast
    <3> QED BY <3>1 DEF EInv
  <2>4. Decides(r, st, reqs[r].acked)
    BY <2>1, <2>2, <2>3 DEF Decides
  <2>5. /\ reqs'[r].state = st /\ reqs'[r].kind = reqs[r].kind
        /\ (Merge(r)' <=> Merge(r)) /\ Commands(r)' = Commands(r) /\ Last(r)'
        /\ reqs'[r].cmds = reqs[r].cmds /\ Requests' = Requests /\ Len(reqs') = Len(reqs)
        /\ reqs' # <<>> /\ reqs # <<>>
        /\ \A i \in Commands(r) : /\ Cmd(r, i)' = Cmd(r, i)
                                  /\ \A p : At(r, i, p)' <=> At(r, i, p)
    BY <2>1, <2>3, <1>DecidedSame, ZenonT(60)
  <2>6. Finished(r)' /\ Taken(r)' /\ Carried(r)' /\ Covered(r)'
    <3>1. Finished(r)'
      <4>1. reqs[r].state \in {"mapped", "releasing"}
        BY <2>1
      <4> QED BY <2>3, <2>5, <4>1 DEF Finished, Last
    <3>2. st # "inflight" /\ st # "acked"
      BY <2>1
    <3> QED BY <2>5, <3>1, <3>2 DEF Taken, Carried, Covered
  <2>7. Vacant(r)'
    <3>1. Merge(r) => 1 \in Commands(r)
      BY DEF EInv, Shaped
    <3>2. ASSUME ~Merge(r), NEW j \in Commands(r),
                 reqs[r].cmds[j].pc \in {"sent", "serialized", "registered", "shipped"}
          PROVE  ~Up(Cmd(r, j).dstHost, Cmd(r, j).dst)'
      BY <2>2, <2>3, <2>5, <3>2 DEF Vacant, Up
    <3>3. ASSUME Merge(r), \E n \in notices' : n.kind = "rename"
          PROVE  ~Up(Cmd(r, 1).dstHost, Parent)'
      <4>1. \E n \in notices : n.kind = "rename"
        BY <2>2, <3>3
      <4> QED BY <2>2, <2>3, <2>5, <3>1, <3>3, <4>1 DEF Vacant, Up
    <3>4. st # "inflight" /\ st # "acked"
      BY <2>1
    <3> QED BY <2>5, <3>2, <3>3, <3>4 DEF Vacant
  <2>8. Placed'
    <3> SUFFICES ASSUME Mild, NEW h \in Hosts, NEW c \in Cells, Up(h, c)
                 PROVE  owner[c] = h \/ Excused(h, c)'
      BY <2>2, <2>5 DEF Placed, Mild, Up
    <3>1. CASE Excused(h, c)
      <4>1. \/ st = "releasing" /\ \E i \in Commands(r) : h = Cmd(r, i).srcHost /\ c = Cmd(r, i).src
            \/ \E n \in notices : n.kind \in {"release", "rename"} /\ n.host = h /\ n.cell = c
        BY <2>1, <2>3, <3>1 DEF Excused, Last
      <4>2. ASSUME st = "releasing", NEW i \in Commands(r), h = Cmd(r, i).srcHost, c = Cmd(r, i).src
            PROVE  \E n \in notices' : n.kind = "release" /\ n.host = h /\ n.cell = c
        <5>1. Notice("release", Cmd(r, i).srcHost, r, Cmd(r, i).src) \in notices'
          BY <2>1, <4>2 DEF CommitRelease
        <5> QED BY <4>2, <5>1, SMTT(30) DEF Notice
      <4>3. \E n \in notices' : n.kind \in {"release", "rename"} /\ n.host = h /\ n.cell = c
        BY <2>2, <4>1, <4>2
      <4> QED BY <2>5, <4>3 DEF Excused
    <3> QED BY <3>1 DEF EInv, Placed
  <2> QED BY <2>4, <2>6, <2>7, <2>8, <1>DecideKeeps

(* Every step of a commit plan, every Ready and every deadline.            *)
<1>CommitCarries.
    ASSUME TInv, CInv, EInv, NEW r \in Requests, Commit(r)
    PROVE  EInv'
  BY <1>CommitCarries, <1>MapCarries, <1>TellCarries DEF Commit

<1>ExpireCarries.
    ASSUME TInv, CInv, EInv, NEW r \in Requests, Expire(r)
    PROVE  EInv'
  <2> USE <1>ExpireCarries
  <2>1. ready' \subseteq ready /\ ~Mild
    BY DEF Expire, Mild
  <2> QED BY <2>1, <1>RollbackCarries DEF Expire

<1>ReadyCarries.
    ASSUME TInv, CInv, EInv, NEW m \in ready, OnReady(m) \/ ReadyLost(m)
    PROVE  EInv'
  <2> USE <1>ReadyCarries
  <2>1. CASE OnReadyStale(m) \/ ReadyLost(m)
    BY <2>1, DropCarries DEF OnReadyStale, ReadyLost
  <2>2. CASE OnReadyFailed(m)
    <3>1. m.req \in Requests /\ ready' \subseteq ready
      BY <2>2 DEF OnReadyFailed, TInv
    <3> QED BY <2>2, <3>1, <1>RollbackCarries DEF OnReadyFailed
  <2>3. CASE OnReadyOk(m)
    BY <2>3, <1>OkCarriesOne, <1>OkCarriesMerge
  <2> QED BY <2>1, <2>2, <2>3 DEF OnReady
<1> QED BY <1>CommitCarries, <1>ExpireCarries, <1>ReadyCarries

-----------------------------------------------------------------------------

(* The four handlers on the hosts keep EInv.                               *)
LEMMA HandlersCarry ==
    TInv /\ CInv /\ EInv => \A n \in notices : Handle(n) => EInv'
(* The hosts' handlers.                                                    *)

(* What they have in common: they decide nothing, and while a request is   *)
(* undecided they leave every cell and its entities alone.                 *)
<1>HandledCarries.
    ASSUME TInv, CInv, EInv, UNCHANGED <<owner, quad, reqs, ready>>,
           \/ \A s \in Requests : reqs[s].state \notin {"inflight", "acked"}
           \/ \A g \in Hosts, c \in Cells : inst'[g][c].live = inst[g][c].live,
           \A x \in book'.survivor : Logged(x),
           \A s \in Requests : Last(s) => Vacant(s)',
           Placed',
           \A e \in Entities \ Newcomers : SameTick => \E h \in Hosts, c \in Cells : Home(e, h, c)'
    PROVE  EInv'
  <2> USE <1>HandledCarries
  <2>1. /\ owner' = owner /\ quad' = quad /\ reqs' = reqs /\ Requests' = Requests
        /\ \A s : /\ Commands(s)' = Commands(s)
                  /\ (Merge(s)' <=> Merge(s)) /\ (Last(s)' <=> Last(s))
                  /\ \A i : Cmd(s, i)' = Cmd(s, i) /\ \A p : At(s, i, p)' <=> At(s, i, p)
                  /\ \A i : (OkSaid(s, i)' <=> OkSaid(s, i)) /\ (Failed(s, i)' <=> Failed(s, i))
    BY DEF Requests, Commands, Cmd, Merge, Last, At, OkSaid, Failed
  <2>2. \A s \in Requests : Shaped(s)' /\ Finished(s)'
    <3>1. \A s : (Shaped(s) => Shaped(s)') /\ (Finished(s) => Finished(s)')
      BY <2>1 DEF Shaped, Finished
    <3> QED BY <3>1 DEF EInv
  <2>3. Region'
    BY <2>1 DEF EInv, Region
  <2>4. \A x \in book'.survivor : Logged(x)'
    BY <2>1 DEF Logged
  <2>5. ASSUME NEW s \in Requests, Last(s) PROVE Taken(s)' /\ Carried(s)' /\ Covered(s)'
    <3>1. Taken(s) /\ Carried(s) /\ Covered(s)
      BY <2>5 DEF EInv
    <3>2. CASE reqs[s].state \notin {"inflight", "acked"}
      BY <2>1, <3>2 DEF Taken, Carried, Covered
    <3>3. CASE \A g \in Hosts, c \in Cells : inst'[g][c].live = inst[g][c].live
      <4>1. ASSUME NEW i \in Commands(s)
            PROVE  (Took(s, i)' <=> Took(s, i)) /\ (Filled(s, i)' <=> Filled(s, i))
        <5>1. /\ Cmd(s, i).src \in Cells /\ Cmd(s, i).srcHost \in Hosts
              /\ Cmd(s, i).dst \in Cells /\ Cmd(s, i).dstHost \in Hosts
          BY CommandFields
        <5> QED BY <2>1, <3>3, <5>1 DEF Took, Filled
      <4>2. Taken(s)'
        BY <2>1, <3>1, <4>1 DEF Taken
      <4>3. Carried(s)'
        <5>1. reqs[s].acked \subseteq Commands(s)
          BY DEF TInv
        <5>2. Tallied(s) => Tallied(s)'
          BY <2>1, <4>1, <5>1 DEF Tallied
        <5> QED BY <2>1, <3>1, <4>1, <5>2 DEF Carried
      <4>4. Covered(s)'
        <5>1. CASE SameTick /\ reqs[s].kind = "split" /\ reqs[s].state \in {"inflight", "acked"}
          <6>1. 1 \in Commands(s)
            <7>1. Len(reqs[s].cmds) = Len(Children)
              BY <5>1 DEF EInv, Shaped
            <7> QED BY <7>1, LayoutAssumption, SMTT(30) DEF Commands
          <6>2. owner[Parent] \in Hosts
            <7>1. Cmd(s, 1).src = Parent /\ owner[Cmd(s, 1).src] = Cmd(s, 1).srcHost
              BY <5>1, <6>1 DEF CInv, Built, Owned
            <7> QED BY <6>1, <7>1, CommandFields
          <6>3. inst'[owner[Parent]][Parent].live = inst[owner[Parent]][Parent].live
            BY <3>3, <6>2 DEF Cells
          <6> QED BY <2>1, <3>1, <6>3 DEF Covered
        <5> QED BY <2>1, <5>1 DEF Covered
      <4> QED BY <4>2, <4>3, <4>4
    <3> QED BY <3>2, <3>3
  <2>6. \A s \in Requests' : Last(s)' => Taken(s)' /\ Carried(s)' /\ Covered(s)' /\ Vacant(s)'
    BY <2>1, <2>5
  <2> QED BY <2>1, <2>2, <2>3, <2>4, <2>6 DEF EInv

(* A cell that goes down leaves vacant what was vacant.                    *)
<1>VacantKept.
    ASSUME TInv, EInv, reqs' = reqs, notices' \subseteq notices,
           \A g \in Hosts, c \in Cells : Up(g, c)' => Up(g, c),
           NEW s \in Requests, Last(s)
    PROVE  Vacant(s)'
  <2> USE <1>VacantKept
  <2>1. /\ Commands(s)' = Commands(s) /\ (Merge(s)' <=> Merge(s))
        /\ \A i : Cmd(s, i)' = Cmd(s, i)
    BY DEF Commands, Cmd, Merge
  <2>2. Vacant(s) /\ (Merge(s) => 1 \in Commands(s)) /\ Parent \in Cells
    BY DEF EInv, Shaped, Cells
  <2>3. ASSUME NEW i \in Commands(s), ~Up(Cmd(s, i).dstHost, Cmd(s, i).dst)
        PROVE  ~Up(Cmd(s, i).dstHost, Cmd(s, i).dst)'
    <3>1. Cmd(s, i).dst \in Cells /\ Cmd(s, i).dstHost \in Hosts
      BY CommandFields
    <3> QED BY <2>1, <2>3, <3>1 DEF Up
  <2>4. ASSUME Merge(s), ~Up(Cmd(s, 1).dstHost, Parent) PROVE ~Up(Cmd(s, 1).dstHost, Parent)'
    <3>1. Cmd(s, 1).dstHost \in Hosts
      BY <2>2, <2>4, CommandFields
    <3> QED BY <2>1, <2>2, <2>4, <3>1 DEF Up
  <2> QED BY <2>1, <2>2, <2>3, <2>4 DEF Vacant

(* An excuse stays until its message is handled.                           *)
<1>ExcuseKept.
    ASSUME reqs' = reqs, NEW h, NEW c, Excused(h, c),
           \A n \in notices : n.kind \in {"release", "rename"} /\ n.host = h /\ n.cell = c =>
             n \in notices',
           \A s \in Requests : Last(s) /\ reqs[s].state = "inflight" /\ <<h, s, c>> \in book.pending =>
             <<h, s, c>> \in book'.pending
    PROVE  Excused(h, c)'
  <2> USE <1>ExcuseKept
  <2>1. /\ Requests' = Requests
        /\ \A s : /\ Commands(s)' = Commands(s) /\ (Merge(s)' <=> Merge(s))
                  /\ (Last(s)' <=> Last(s)) /\ \A i : Cmd(s, i)' = Cmd(s, i)
    BY DEF Requests, Commands, Cmd, Merge, Last
  <2> QED BY <2>1 DEF Excused

(* Abort takes entities only out of a survivor, and only imported ones.    *)
<1>AbortedLive.
    ASSUME TInv, NEW h \in Hosts, NEW r, inst' = Aborted(h, r),
           NEW g \in Hosts, NEW c \in Cells, ~(g = h /\ <<h, r, c>> \in book.pending)
    PROVE  inst'[g][c].live =
             IF g = h /\ <<h, r, c>> \in book.survivor
             THEN {e \in inst[g][c].live : <<h, r, e>> \notin book.imported}
             ELSE inst[g][c].live
  <2> USE <1>AbortedLive
  <2> DEFINE Resumed(d) == IF <<h, r, d>> \in book.src
                           THEN Resume(inst[h][d], reqs[r].kind = "merge")
                           ELSE inst[h][d]
             Cleaned(d) == IF <<h, r, d>> \in book.survivor
                           THEN [Resumed(d) EXCEPT
                                   !.live = {e \in @ : <<h, r, e>> \notin book.imported},
                                   !.frozen = FALSE]
                           ELSE Resumed(d)
             F(d) == IF <<h, r, d>> \in book.pending THEN Down ELSE Cleaned(d)
  <2>1. inst' = [inst EXCEPT ![h] = [d \in Cells |-> F(d)]]
    BY DEF Aborted
  <2>2. inst \in [Hosts -> [Cells -> InstT]] /\ inst[h][c] \in InstT
    BY DEF TInv
  <2>3. Resumed(c) \in InstT /\ Resumed(c).live = inst[h][c].live
    BY <2>2 DEF InstT, Resume
  <2>4. Cleaned(c).live = IF <<h, r, c>> \in book.survivor
                          THEN {e \in inst[h][c].live : <<h, r, e>> \notin book.imported}
                          ELSE inst[h][c].live
    <3> HIDE DEF Resumed
    <3> QED BY <2>3, SMTT(30) DEF InstT
  <2>5. F(c) = Cleaned(c) \/ g # h
    OBVIOUS
  <2> HIDE DEF Cleaned
  <2>6. inst'[g][c] = IF g = h THEN F(c) ELSE inst[g][c]
    <3> HIDE DEF F
    <3> QED BY <2>1, <2>2
  <2> HIDE DEF F
  <2> QED BY <2>4, <2>5, <2>6

(* Abort: the cells it takes down are nobody's home, and what it drops     *)
(* from a survivor has a home elsewhere.  A late Abort finds nothing.      *)
<1>AbortCarries.
    ASSUME TInv, CInv, EInv, NEW n \in notices, HandleAbort(n)
    PROVE  EInv'
  <2> USE <1>AbortCarries
  <2> DEFINE r == n.req
             h == n.host
  <2>1. /\ n.kind = "abort" /\ r \in Requests /\ h \in Hosts /\ reqs[r].state = "rolledback"
        /\ UNCHANGED <<owner, quad, reqs, ready>> /\ reqs' = reqs /\ owner' = owner
        /\ notices' = notices \ {n}
        /\ inst' = Aborted(h, r) /\ book' = Forget(h, r)
    BY DEF CInv, Posted, HandleAbort
  <2>2. /\ \A x : x \in book'.pending <=> x \in book.pending /\ ~(x[1] = h /\ x[2] = r)
        /\ book'.survivor \subseteq book.survivor /\ book'.imported \subseteq book.imported
    BY <2>1, ForgetTyped
  <2> HIDE DEF r, h
  <2>3. \A g \in Hosts, c \in Cells :
          /\ inst'[g][c].up = (inst[g][c].up /\ ~(g = h /\ <<h, r, c>> \in book.pending))
          /\ inst[g][c].up \in BOOLEAN
    <3>1. \A g \in Hosts, c \in Cells :
            inst'[g][c].up = (inst[g][c].up /\ ~(g = h /\ <<h, r, c>> \in book.pending))
      BY <2>1, AbortedInst
    <3>2. \A g \in Hosts, c \in Cells : inst[g][c].up \in BOOLEAN
      BY DEF TInv, InstT
    <3> QED BY <3>1, <3>2
  <2>4. \A g \in Hosts, c \in Cells : Up(g, c)' => Up(g, c)
    BY <2>3 DEF Up
  <2>5. ASSUME ~Last(r)
        PROVE  /\ \A c : <<h, r, c>> \notin book.pending
               /\ \A c : <<h, r, c>> \notin book.survivor
    <3>1. r < Len(reqs)
      BY <2>1, <2>5, SMTT(30) DEF Last, Requests, TInv
    <3>2. Gone(r) /\ ~Merge(r)
      BY <2>1, <3>1 DEF CInv, EInv, Finished
    <3>3. \A c : <<h, r, c>>[2] = r
      OBVIOUS
    <3>4. \A c : <<h, r, c>> \notin book.pending
      BY <2>1, <3>2, <3>3 DEF Gone
    <3>5. \A x \in book.survivor : Merge(x[2])
      BY DEF EInv, Logged
    <3> QED BY <3>2, <3>3, <3>4, <3>5
  <2>6. ASSUME Last(r)
        PROVE  /\ \A s \in Requests : reqs[s].state \notin {"inflight", "acked"}
               /\ \A k \in notices : k.kind # "rename"
    <3>1. \A s \in Requests : reqs[s].state \notin {"inflight", "acked"}
      BY <2>1, <2>6, NobodyWaits
    <3> QED BY <2>1, <2>6, <3>1 DEF CInv, Posted, Last
  <2>7. \/ \A s \in Requests : reqs[s].state \notin {"inflight", "acked"}
        \/ \A g \in Hosts, c \in Cells : inst'[g][c].live = inst[g][c].live
    <3>1. CASE ~Last(r)
      <4> SUFFICES ASSUME NEW g \in Hosts, NEW c \in Cells
                   PROVE  inst'[g][c].live = inst[g][c].live
        OBVIOUS
      <4>1. <<h, r, c>> \notin book.pending /\ <<h, r, c>> \notin book.survivor
        BY <2>5, <3>1
      <4> QED BY <2>1, <4>1, <1>AbortedLive
    <3> QED BY <2>6, <3>1
  <2>8. \A x \in book'.survivor : Logged(x)
    BY <2>2 DEF EInv
  <2>9. \A s \in Requests : Last(s) => Vacant(s)'
    <3>1. notices' \subseteq notices
      BY <2>1
    <3> QED BY <2>1, <2>4, <3>1, <1>VacantKept
  <2>10. Placed'
    <3> SUFFICES ASSUME Mild \/ reqs = <<>>, NEW g \in Hosts, NEW c \in Cells, Up(g, c)'
                 PROVE  owner[c] = g \/ Excused(g, c)'
      BY <2>1 DEF Placed, Mild
    <3>1. owner[c] = g \/ Excused(g, c)
      BY <2>4 DEF EInv, Placed
    <3>2. \A k \in notices : k.kind \in {"release", "rename"} => k \in notices'
      BY <2>1
    <3>3. ASSUME NEW s \in Requests, reqs[s].state = "inflight", <<g, s, c>> \in book.pending
          PROVE  <<g, s, c>> \in book'.pending
      <4>1. <<g, s, c>>[2] = s /\ s # r
        BY <2>1, <3>3
      <4> QED BY <2>2, <3>3, <4>1
    <3> QED BY <2>1, <3>1, <3>2, <3>3, <1>ExcuseKept
  <2>11. ASSUME NEW e \in Entities \ Newcomers, SameTick
         PROVE  \E g \in Hosts, c \in Cells : Home(e, g, c)'
    <3>1. PICK g \in Hosts, c \in Cells : Home(e, g, c)
      BY <2>11 DEF EInv
    <3>2. ~(g = h /\ <<h, r, c>> \in book.pending)
      <4> SUFFICES ASSUME g = h, <<h, r, c>> \in book.pending PROVE FALSE
        OBVIOUS
      <4>1. Last(r)
        BY <2>5
      <4>2. owner[c] = g
        BY <2>6, <3>1, <4>1 DEF Home, Serving
      <4>3. PICK x : x = <<h, r, c>>
        OBVIOUS
      <4>4. x \in book.pending /\ x[1] = h /\ x[2] = r /\ x[3] = c
        BY <4>3
      <4>5. owner[c] # h
        BY <2>1, <4>4 DEF CInv, Noted
      <4> QED BY <4>2, <4>5
    <3>3. e \in inst'[g][c].live
      <4>1. CASE g = h /\ <<h, r, c>> \in book.survivor
        <5>1. PICK x : x = <<h, r, c>>
          OBVIOUS
        <5>2. x \in book.survivor /\ x[1] = h /\ x[2] = r /\ x[3] = c
          BY <4>1, <5>1
        <5>3. Revocable(r, h, c)
          BY <2>1, <5>2 DEF EInv, Logged, Revocable
        <5>4. <<h, r, e>> \notin book.imported /\ e \in inst[g][c].live
          BY <2>1, <3>1, <4>1, <5>3 DEF Home
        <5>5. inst'[g][c].live = {d \in inst[g][c].live : <<h, r, d>> \notin book.imported}
          BY <2>1, <3>2, <4>1, <1>AbortedLive
        <5> QED BY <5>4, <5>5
      <4>2. CASE ~(g = h /\ <<h, r, c>> \in book.survivor)
        <5>1. inst'[g][c].live = inst[g][c].live
          BY <2>1, <3>2, <4>2, <1>AbortedLive
        <5> QED BY <3>1, <5>1 DEF Home
      <4> QED BY <4>1, <4>2
    <3>4. Serving(g, c)'
      <4>1. inst'[g][c].up
        BY <2>3, <3>1, <3>2 DEF Home, Serving
      <4>2. \A k \in notices : k.kind = "rename" => k \in notices'
        BY <2>1
      <4> QED BY <2>1, <3>1, <4>1, <4>2 DEF Home, Serving
    <3>5. Requests' = Requests /\ \A s \in Requests : Revocable(s, g, c)' <=> Revocable(s, g, c)
      BY <2>1 DEF Requests, Revocable, Merge, Cmd
    <3>6. Home(e, g, c)'
      BY <2>2, <3>1, <3>3, <3>4, <3>5, HomeKept
    <3> QED BY <3>6
  <2> QED BY <2>1, <2>7, <2>8, <2>9, <2>10, <2>11, <1>HandledCarries

(* Commit: the host forgets.                                               *)
<1>ForgetCarries.
    ASSUME TInv, CInv, EInv, NEW n \in notices, HandleCommit(n)
    PROVE  EInv'
  <2> USE <1>ForgetCarries
  <2>1. /\ n.kind = "commit" /\ n.req \in Requests /\ reqs[n.req].state = "committed"
        /\ UNCHANGED <<owner, quad, reqs, ready>> /\ reqs' = reqs /\ owner' = owner
        /\ notices' = notices \ {n} /\ inst' = inst /\ book' = Forget(n.host, n.req)
    BY DEF CInv, Posted, HandleCommit
  <2>2. /\ \A x : x \in book'.pending <=> x \in book.pending /\ ~(x[1] = n.host /\ x[2] = n.req)
        /\ book'.survivor \subseteq book.survivor /\ book'.imported \subseteq book.imported
    BY <2>1, ForgetTyped
  <2>3. /\ \A g \in Hosts, c \in Cells : (Up(g, c)' => Up(g, c)) /\ inst'[g][c].live = inst[g][c].live
        /\ \A x \in book'.survivor : Logged(x)
        /\ notices' \subseteq notices
        /\ \A k \in notices : k.kind \in {"release", "rename"} => k \in notices'
    BY <2>1, <2>2 DEF EInv, Up
  <2>4. \A s \in Requests : Last(s) => Vacant(s)'
    BY <2>1, <2>3, <1>VacantKept
  <2>5. Placed'
    <3> SUFFICES ASSUME Mild \/ reqs = <<>>, NEW g \in Hosts, NEW c \in Cells, Up(g, c)'
                 PROVE  owner[c] = g \/ Excused(g, c)'
      BY <2>1 DEF Placed, Mild
    <3>1. owner[c] = g \/ Excused(g, c)
      BY <2>3 DEF EInv, Placed
    <3>2. ASSUME NEW s \in Requests, reqs[s].state = "inflight", <<g, s, c>> \in book.pending
          PROVE  <<g, s, c>> \in book'.pending
      <4>1. <<g, s, c>>[2] = s /\ s # n.req
        BY <2>1, <3>2
      <4> QED BY <2>2, <3>2, <4>1
    <3> QED BY <2>1, <2>3, <3>1, <3>2, <1>ExcuseKept
  <2>6. ASSUME NEW e \in Entities \ Newcomers, SameTick
        PROVE  \E g \in Hosts, c \in Cells : Home(e, g, c)'
    <3>1. PICK g \in Hosts, c \in Cells : Home(e, g, c)
      BY <2>6 DEF EInv
    <3>2. Serving(g, c)' /\ e \in inst'[g][c].live
      BY <2>1, <2>3, <3>1 DEF Home, Serving
    <3>3. Requests' = Requests /\ \A s \in Requests : Revocable(s, g, c)' <=> Revocable(s, g, c)
      BY <2>1 DEF Requests, Revocable, Merge, Cmd
    <3>4. Home(e, g, c)'
      BY <2>2, <3>1, <3>2, <3>3, HomeKept
    <3> QED BY <3>4
  <2>7. \A g \in Hosts, c \in Cells : inst'[g][c].live = inst[g][c].live
    BY <2>3
  <2>8. \A x \in book'.survivor : Logged(x)
    BY <2>3
  <2> QED BY <2>1, <2>4, <2>5, <2>6, <2>7, <2>8, <1>HandledCarries

(* CellRelease: the source that goes down serves nobody any more.          *)
<1>ReleaseCarries.
    ASSUME TInv, CInv, EInv, NEW n \in notices, HandleRelease(n)
    PROVE  EInv'
  <2> USE <1>ReleaseCarries
  <2>1. /\ n.kind = "release" /\ n.req \in Requests /\ n.host \in Hosts /\ n.cell \in Cells
        /\ Last(n.req) /\ reqs[n.req].state \in {"releasing", "committed"}
        /\ UNCHANGED <<owner, quad, reqs, ready>> /\ reqs' = reqs /\ owner' = owner
        /\ notices' = notices \ {n}
        /\ inst' = [inst EXCEPT ![n.host][n.cell] = Down] /\ book' = book
    BY DEF CInv, Posted, HandleRelease, TInv, NoticeT
  <2>2. PICK i \in Commands(n.req) : n.cell = Cmd(n.req, i).src /\ n.host = Cmd(n.req, i).srcHost
    BY <2>1 DEF CInv, Posted
  <2>3. owner[n.cell] # n.host
    BY <2>1, <2>2 DEF CInv, Owned
  <2>4. /\ inst \in [Hosts -> [Cells -> InstT]] /\ ~Down.up
    BY DEF TInv, Down
  <2>5. /\ ~inst'[n.host][n.cell].up
        /\ \A g \in Hosts, c \in Cells : ~(g = n.host /\ c = n.cell) => inst'[g][c] = inst[g][c]
    BY <2>1, <2>4
  <2>6. \A s \in Requests : reqs[s].state \notin {"inflight", "acked"}
    BY <2>1, NobodyWaits
  <2>7. \A g \in Hosts, c \in Cells : Up(g, c)' => Up(g, c) /\ ~(g = n.host /\ c = n.cell)
    BY <2>5 DEF Up
  <2>8. ASSUME NEW k \in notices, k.kind = "rename"
        PROVE  k \in notices' /\ ~(k.host = n.host /\ k.cell = n.cell)
    <3>1. k.req = n.req /\ Merge(n.req) /\ k.cell = Cmd(n.req, 1).dst /\ 1 \in Commands(n.req)
      BY <2>1, <2>8 DEF CInv, Posted, Last
    <3>2. Cmd(n.req, i).src # Cmd(n.req, 1).dst
      BY <2>1, <3>1 DEF CInv, Built
    <3> QED BY <2>1, <2>2, <2>8, <3>1, <3>2
  <2>9. \A s \in Requests : Last(s) => Vacant(s)'
    <3>1. notices' \subseteq notices
      BY <2>1
    <3> QED BY <2>1, <2>7, <3>1, <1>VacantKept
  <2>10. Placed'
    <3> SUFFICES ASSUME Mild \/ reqs = <<>>, NEW g \in Hosts, NEW c \in Cells, Up(g, c)'
                 PROVE  owner[c] = g \/ Excused(g, c)'
      BY <2>1 DEF Placed, Mild
    <3>1. owner[c] = g \/ Excused(g, c)
      BY <2>7 DEF EInv, Placed
    <3>2. \A k \in notices : k.host = g /\ k.cell = c => k \in notices'
      BY <2>1, <2>7
    <3> QED BY <2>1, <3>1, <3>2, <1>ExcuseKept
  <2>11. ASSUME NEW e \in Entities \ Newcomers, SameTick
         PROVE  \E g \in Hosts, c \in Cells : Home(e, g, c)'
    <3>1. PICK g \in Hosts, c \in Cells : Home(e, g, c)
      BY <2>11 DEF EInv
    <3>2. ~(g = n.host /\ c = n.cell)
      BY <2>3, <2>8, <3>1 DEF Home, Serving
    <3>3. inst'[g][c] = inst[g][c]
      BY <2>5, <3>2
    <3>4. Serving(g, c)' /\ e \in inst'[g][c].live
      BY <2>1, <2>8, <3>1, <3>3 DEF Home, Serving
    <3>5. Requests' = Requests /\ \A s \in Requests : Revocable(s, g, c)' <=> Revocable(s, g, c)
      BY <2>1 DEF Requests, Revocable, Merge, Cmd
    <3>6. Home(e, g, c)'
      BY <2>1, <3>1, <3>4, <3>5, HomeKept
    <3> QED BY <3>6
  <2>12. \A x \in book'.survivor : Logged(x)
    BY <2>1 DEF EInv
  <2> QED BY <2>1, <2>6, <2>9, <2>10, <2>11, <2>12, <1>HandledCarries

(* CellRename: the survivor becomes the parent, and it takes nobody's      *)
(* place.                                                                  *)
<1>RenameCarries.
    ASSUME TInv, CInv, EInv, NEW n \in notices, HandleRename(n)
    PROVE  EInv'
  <2> USE <1>RenameCarries
  <2>1. /\ n.kind = "rename" /\ n.req \in Requests /\ n.host \in Hosts /\ n.cell \in Cells
        /\ Last(n.req) /\ reqs[n.req].state \in {"mapped", "releasing", "committed"}
        /\ Merge(n.req) /\ n.host = Cmd(n.req, 1).dstHost
        /\ owner[Parent] = n.host /\ owner[n.cell] # n.host /\ inst[n.host][n.cell].up
    BY DEF CInv, Posted, HandleRename, TInv, NoticeT, Up
  <2>2. n.cell # Parent /\ Parent \in Cells
    BY <2>1 DEF Cells
  <2>3. /\ UNCHANGED <<owner, quad, reqs, ready>> /\ reqs' = reqs /\ owner' = owner
        /\ notices' = notices \ {n} /\ book' = Renamed(n)
        /\ inst' = [inst EXCEPT
                   ![n.host][Parent] = [inst[n.host][n.cell] EXCEPT !.frozen = FALSE],
                   ![n.host][n.cell] = Down]
    BY <2>1 DEF HandleRename
  <2>4. /\ inst \in [Hosts -> [Cells -> InstT]] /\ ~Down.up
        /\ [inst[n.host][n.cell] EXCEPT !.frozen = FALSE].up
        /\ [inst[n.host][n.cell] EXCEPT !.frozen = FALSE].live = inst[n.host][n.cell].live
    <3>1. inst \in [Hosts -> [Cells -> InstT]]
      BY DEF TInv
    <3>2. inst[n.host][n.cell] \in InstT
      BY <2>1, <3>1
    <3> QED BY <2>1, <3>1, <3>2 DEF InstT, Down
  <2>5. /\ inst'[n.host][Parent].up /\ inst'[n.host][Parent].live = inst[n.host][n.cell].live
        /\ ~inst'[n.host][n.cell].up
        /\ \A g \in Hosts, c \in Cells :
             ~(g = n.host /\ c \in {Parent, n.cell}) => inst'[g][c] = inst[g][c]
    <3> DEFINE v == [inst[n.host][n.cell] EXCEPT !.frozen = FALSE]
    <3>1. v.up /\ v.live = inst[n.host][n.cell].live
          /\ inst' = [inst EXCEPT ![n.host][Parent] = v, ![n.host][n.cell] = Down]
      BY <2>3, <2>4
    <3> HIDE DEF v
    <3> QED BY <2>1, <2>2, <2>4, <3>1
  <2>6. \A s \in Requests : reqs[s].state \notin {"inflight", "acked"}
    BY <2>1, NobodyWaits
  <2>7. \A s \in Requests : Merge(s) => reqs[s].state # "rolledback"
    <3> SUFFICES ASSUME NEW s \in Requests, Merge(s), s # n.req
                 PROVE  reqs[s].state # "rolledback"
      BY <2>1
    <3>1. s < Len(reqs)
      BY <2>1, SMTT(30) DEF Last, Requests, TInv
    <3> QED BY <3>1 DEF EInv, Finished
  <2>8. \A k \in notices : k.kind = "rename" => k = n
    <3> SUFFICES ASSUME NEW k \in notices, k.kind = "rename" PROVE k = n
      OBVIOUS
    <3>1. k.req = n.req /\ k.cell = n.cell /\ k.host = n.host /\ k.kind = n.kind
      BY <2>1 DEF CInv, Posted, Last
    <3>2. k \in NoticeT /\ n \in NoticeT
      BY DEF TInv
    <3> QED BY <3>1, <3>2, SMTT(30) DEF NoticeT
  <2>9. ASSUME NEW x \in book'.survivor PROVE Logged(x)
    <3>1. PICK y \in book.survivor : y[2] = x[2]
      BY <2>3, <2>9, RenamedTyped
    <3>2. Merge(x[2]) /\ x[2] \in Requests
      BY <3>1 DEF EInv, Logged, TInv
    <3> QED BY <2>6, <2>7, <3>2 DEF Logged
  <2>10. ASSUME NEW s \in Requests, Last(s) PROVE Vacant(s)'
    <3>1. s = n.req /\ Merge(s)'
      BY <2>1, <2>3, <2>10 DEF Last, Merge
    <3>2. reqs'[s].state \notin {"inflight", "acked"} /\ \A k \in notices' : k.kind # "rename"
      BY <2>3, <2>6, <2>8
    <3> QED BY <3>1, <3>2 DEF Vacant
  <2>11. ~Up(n.host, Parent)
    BY <2>1 DEF EInv, Vacant
  <2>12. Placed'
    <3> SUFFICES ASSUME Mild \/ reqs = <<>>, NEW g \in Hosts, NEW c \in Cells, Up(g, c)',
                        owner[c] # g
                 PROVE  Excused(g, c)'
      BY <2>3 DEF Placed, Mild
    <3>1. ~(g = n.host /\ c \in {Parent, n.cell})
      BY <2>1, <2>5 DEF Up
    <3>2. Up(g, c)
      BY <2>5, <3>1 DEF Up
    <3>3. Excused(g, c)
      BY <3>2 DEF EInv, Placed
    <3>4. \A k \in notices : k.host = g /\ k.cell = c => k \in notices'
      BY <2>3, <3>1
    <3> QED BY <2>3, <2>6, <3>3, <3>4, <1>ExcuseKept
  <2>13. ASSUME NEW e \in Entities \ Newcomers, SameTick
         PROVE  \E g \in Hosts, c \in Cells : Home(e, g, c)'
    <3>1. PICK g \in Hosts, c \in Cells : Home(e, g, c)
      BY <2>13 DEF EInv
    <3>2. Requests' = Requests /\ \A s \in Requests : \A k, d : ~Revocable(s, k, d)'
      <4>1. Requests' = Requests /\ \A s \in Requests : \A k, d : Revocable(s, k, d)' <=> Revocable(s, k, d)
        BY <2>3 DEF Requests, Revocable, Merge, Cmd
      <4>2. \A s \in Requests : \A k, d : ~Revocable(s, k, d)
        BY <2>6, <2>7 DEF Revocable
      <4> QED BY <4>1, <4>2
    <3>3. CASE g = n.host /\ c = n.cell
      <4>1. e \in inst'[n.host][Parent].live /\ inst'[n.host][Parent].up
        BY <2>5, <3>1, <3>3 DEF Home
      <4>2. Home(e, n.host, Parent)'
        BY <2>1, <2>3, <3>2, <4>1 DEF Home, Serving
      <4> QED BY <2>1, <2>2, <4>2
    <3>4. CASE ~(g = n.host /\ c = n.cell)
      <4>1. Up(g, c) /\ owner[c] = g /\ e \in inst[g][c].live
        BY <2>8, <3>1, <3>4 DEF Home, Serving, Up
      <4>2. inst'[g][c] = inst[g][c]
        BY <2>5, <2>11, <3>4, <4>1
      <4>3. Home(e, g, c)'
        BY <2>3, <3>2, <4>1, <4>2 DEF Home, Serving, Up
      <4> QED BY <4>3
    <3> QED BY <3>3, <3>4
  <2>14. \A x \in book'.survivor : Logged(x)
    BY <2>9
  <2>15. \A s \in Requests : Last(s) => Vacant(s)'
    BY <2>10
  <2> QED BY <2>3, <2>6, <2>12, <2>13, <2>14, <2>15, <1>HandledCarries

(* Every handler.                                                          *)
<1>HandleCarries.
    ASSUME TInv, CInv, EInv, NEW n \in notices, Handle(n)
    PROVE  EInv'
  BY <1>HandleCarries, <1>AbortCarries, <1>ForgetCarries, <1>ReleaseCarries, <1>RenameCarries DEF Handle
<1> QED BY <1>HandleCarries

-----------------------------------------------------------------------------

(* No other step adds such a record.                                       *)
LEMMA ImportsElse ==
    ASSUME TInv, CInv, Imports
    PROVE  /\ World \/ BeginRequest => Imports'
           /\ \A r \in Requests : Commit(r) \/ Expire(r) => Imports'
           /\ \A m \in ready : OnReady(m) \/ ReadyLost(m) => Imports'
           /\ \A n \in notices : Handle(n) => Imports'
           /\ UNCHANGED vars => Imports'
<1>1. ASSUME book' = book, Len(reqs') \in {Len(reqs), Len(reqs) + 1} PROVE Imports'
  <2>1. Requests \subseteq Requests'
    BY <1>1, SMTT(30) DEF Requests, TInv
  <2> QED BY <1>1, <2>1 DEF Imports
<1>2. ASSUME World \/ UNCHANGED vars PROVE Imports'
  <2>1. book' = book /\ reqs' = reqs
    BY <1>2 DEF World, Move, Arrive, vars
  <2> QED BY <1>1, <2>1
<1>3. ASSUME BeginRequest PROVE Imports'
  <2>1. PICK kind, cmds : Begin(kind, cmds)
    BY <1>3 DEF BeginRequest, BeginSplit, BeginMerge, BeginMigrate
  <2>2. \E v : reqs' = Append(reqs, v)
    BY <2>1 DEF Begin
  <2>3. Len(reqs') = Len(reqs) + 1
    BY <2>2, SMTT(30) DEF TInv
  <2> QED BY <1>1, <2>1, <2>3 DEF Begin
<1>4. ASSUME NEW r \in Requests, NEW st \in States, reqs' = [reqs EXCEPT ![r].state = st],
             book' = book
      PROVE  Imports'
  <2>1. Len(reqs') = Len(reqs)
    BY <1>4, StateJudged DEF Judged
  <2> QED BY <1>1, <1>4, <2>1
<1>5. ASSUME NEW r \in Requests, Commit(r) \/ Expire(r) PROVE Imports'
  BY <1>4, <1>5 DEF Commit, CommitMap, CommitRelease, CommitNotify, Step, States, Expire, Rollback
<1>6. ASSUME NEW m \in ready, OnReady(m) \/ ReadyLost(m) PROVE Imports'
  <2>1. CASE OnReadyStale(m) \/ ReadyLost(m)
    BY <1>1, <2>1 DEF OnReadyStale, ReadyLost
  <2>2. CASE OnReadyFailed(m)
    BY <1>4, <2>2 DEF OnReadyFailed, Rollback, States, TInv
  <2>3. CASE OnReadyOk(m)
    <3>1. Len(reqs') = Len(reqs) /\ book' = book
      BY <2>3, OkJudged DEF OnReadyOk, Judged
    <3> QED BY <1>1, <3>1
  <2> QED BY <1>6, <2>1, <2>2, <2>3 DEF OnReady
<1>7. ASSUME NEW n \in notices, Handle(n) PROVE Imports'
  <2>1. reqs' = reqs
    BY <1>7 DEF Handle, HandleAbort, HandleCommit, HandleRelease, HandleRename
  <2>2. CASE book' = book
    BY <1>1, <2>1, <2>2
  <2>3. CASE book' = Forget(n.host, n.req)
    <3>1. book'.imported \subseteq book.imported
      BY <2>3, ForgetTyped
    <3> QED BY <2>1, <3>1 DEF Imports, Requests
  <2>4. CASE book' = Renamed(n)
    <3>1. \A x \in book'.imported : \E y \in book.imported : y[2] = x[2]
      BY <2>4, RenamedTyped
    <3> QED BY <2>1, <3>1 DEF Imports, Requests
  <2> QED BY <1>7, <2>2, <2>3, <2>4 DEF Handle, HandleAbort, HandleCommit, HandleRelease, HandleRename
<1> QED BY <1>2, <1>3, <1>5, <1>6, <1>7

-----------------------------------------------------------------------------

(* What begins is shaped as its kind asks, carries nothing and goes to     *)
(* cells that the map does not name.                                       *)
Starts(kind, cmds) ==
    /\ cmds \in Seq(CommandT)
    /\ \A i \in 1..Len(cmds) :
         /\ cmds[i].pc = "sent" /\ cmds[i].ents = {}
         /\ kind # "merge" => owner[cmds[i].dst] # cmds[i].dstHost
    /\ kind = "split" =>
         /\ Len(cmds) = Len(Children) /\ owner[Parent] \in Hosts
         /\ \A i \in 1..Len(cmds) : cmds[i].dst = Children[i]
    /\ kind = "merge" =>
         /\ 1 \in 1..Len(cmds) /\ owner[Parent] # cmds[1].dstHost
         /\ \A c \in ChildSet : \/ c = cmds[1].dst
                                \/ \E i \in 1..Len(cmds) : c = cmds[i].src

(* A request that begins when its turn has come keeps EInv.                *)
LEMMA RequestCarries ==
    TInv /\ CInv /\ EInv /\ Imports /\ OneByOne /\ BeginRequest => EInv'
(* Begin and the game.                                                     *)

(* When a request begins, the cells that run are those of the map.         *)
<1>AllPlaced.
    ASSUME TInv, CInv, EInv, OneByOne, Len(reqs) < MaxRequests, CallersWait => Open = {}
    PROVE  /\ \A h \in Hosts, c \in Cells : Up(h, c) => owner[c] = h
           /\ \A s \in Requests : Merge(s) => reqs[s].state = "committed"
  <2> USE <1>AllPlaced
  <2>1. \A s \in Requests : Gone(s)
    BY OthersGone
  <2>2. \A h, c : ~Excused(h, c)
    <3> SUFFICES ASSUME NEW h, NEW c, Excused(h, c) PROVE FALSE
      OBVIOUS
    <3>1. PICK n \in notices : n.kind \in {"release", "rename"}
      BY <2>1 DEF Excused, Gone
    <3>2. n.req \in Requests
      BY DEF CInv, Posted
    <3> QED BY <2>1, <3>1, <3>2 DEF Gone
  <2>3. CASE MaxRequests = 1
    <3>1. reqs = <<>> /\ Requests = {}
      BY <2>3, SMTT(30) DEF TInv, Requests
    <3> QED BY <2>2, <3>1 DEF EInv, Placed
  <2>4. CASE Mild
    <3>1. ASSUME NEW s \in Requests, Merge(s) PROVE reqs[s].state = "committed"
      <4>1. Orderly(s) /\ reqs[s].kind # "migrate"
        BY <3>1 DEF CInv, Merge
      <4> QED BY <2>1, <2>4, <4>1 DEF Gone, Orderly
    <3> QED BY <2>2, <2>4, <3>1 DEF EInv, Placed
  <2> QED BY <2>3, <2>4 DEF OneByOne, Mild

<1>BeginCarries.
    ASSUME TInv, CInv, EInv, Imports, OneByOne, NEW kind, NEW cmds, Begin(kind, cmds),
           Starts(kind, cmds)
    PROVE  EInv'
  <2> USE <1>BeginCarries
  <2> DEFINE v == [kind |-> kind, cmds |-> cmds, acked |-> {}, okHosts |-> {},
                   state |-> "inflight"]
  <2>0. PICK r : r = Len(reqs) + 1
    OBVIOUS
  <2>1. /\ reqs' = Append(reqs, v) /\ Len(reqs) < MaxRequests
        /\ CallersWait => Open = {}
        /\ owner' = owner /\ inst' = inst /\ quad' = quad /\ book' = book /\ ready' = ready
        /\ notices' = notices
    BY DEF Begin
  <2>2. v.kind = kind /\ v.cmds = cmds /\ v.acked = {} /\ v.state = "inflight"
    OBVIOUS
  <2> HIDE DEF v
  <2>3. /\ Len(reqs') = Len(reqs) + 1 /\ Len(reqs) \in Nat
        /\ reqs'[r] = v /\ \A s \in 1..Len(reqs) : reqs'[s] = reqs[s]
    BY <2>0, <2>1, <2>2, SMTT(30) DEF TInv
  <2>4. /\ Requests = 1..Len(reqs) /\ Requests' = Requests \union {r} /\ r \notin Requests
        /\ r = Len(reqs') /\ ~(r < Len(reqs')) /\ \A s \in Requests : s < Len(reqs')
    BY <2>0, <2>3, SMTT(30) DEF Requests
  <2>5. \A s \in Requests :
          /\ reqs'[s] = reqs[s] /\ Commands(s)' = Commands(s)
          /\ (Merge(s)' <=> Merge(s)) /\ ~Last(s)'
          /\ \A i : Cmd(s, i)' = Cmd(s, i) /\ \A p : At(s, i, p)' <=> At(s, i, p)
    BY <2>3, <2>4 DEF Commands, Merge, Last, Cmd, At
  <2>6. /\ Commands(r)' = 1..Len(cmds) /\ (Merge(r)' <=> kind = "merge") /\ Last(r)'
        /\ \A i : Cmd(r, i)' = cmds[i] /\ \A p : At(r, i, p)' <=> cmds[i].pc = p
    BY <2>2, <2>3, <2>4 DEF Commands, Merge, Last, Cmd, At
  <2>7. /\ reqs'[r].kind = kind /\ reqs'[r].cmds = cmds /\ reqs'[r].acked = {}
        /\ reqs'[r].state = "inflight"
    BY <2>2, <2>3
  <2>8. /\ \A h \in Hosts, c \in Cells : Up(h, c) => owner[c] = h
        /\ \A s \in Requests : Merge(s) => reqs[s].state = "committed"
    BY <2>1, <1>AllPlaced
  <2>9. Region'
    BY <2>1 DEF EInv, Region
  <2>10. ASSUME NEW s \in Requests PROVE Shaped(s)' /\ Finished(s)'
    <3>1. Shaped(s) /\ Finished(s)
      BY DEF EInv
    <3>2. /\ reqs'[s] = reqs[s] /\ Commands(s)' = Commands(s) /\ (Merge(s)' <=> Merge(s))
          /\ \A i : Cmd(s, i)' = Cmd(s, i) /\ \A p : At(s, i, p)' <=> At(s, i, p)
      BY <2>5
    <3>3. Shaped(s)'
      <4>1. ASSUME Merge(s), NEW c \in ChildSet
            PROVE  c = Cmd(s, 1)'.dst \/ \E j \in Commands(s) : c = Cmd(s, j)'.src
        BY <3>1, <3>2, <4>1 DEF Shaped
      <4>2. ASSUME reqs[s].kind = "split", NEW j \in Commands(s) PROVE Cmd(s, j)'.dst = Children[j]
        BY <3>1, <3>2, <4>2 DEF Shaped
      <4>3. /\ Merge(s) => 1 \in Commands(s)
            /\ reqs[s].kind = "split" => Len(reqs'[s].cmds) = Len(Children)
        BY <3>1, <3>2 DEF Shaped
      <4> QED BY <3>2, <4>1, <4>2, <4>3 DEF Shaped
    <3>4. Merge(s) => reqs[s].state = "committed"
      BY <2>8
    <3>5. Finished(s)'
      BY <3>1, <3>2, <3>4 DEF Finished
    <3> QED BY <3>3, <3>5
  <2>11. Shaped(r)' /\ Finished(r)'
    <3>1. Shaped(r)'
      <4>1. \A i : Cmd(r, i)' = cmds[i]
        BY <2>6
      <4>2. Commands(r)' = 1..Len(cmds) /\ (Merge(r)' <=> kind = "merge")
        BY <2>6
      <4>3. ASSUME kind = "merge", NEW c \in ChildSet
            PROVE  c = Cmd(r, 1)'.dst \/ \E j \in 1..Len(cmds) : c = Cmd(r, j)'.src
        <5>1. c = cmds[1].dst \/ \E j \in 1..Len(cmds) : c = cmds[j].src
          BY <4>3 DEF Starts
        <5> QED BY <4>1, <5>1
      <4>4. ASSUME kind = "split", NEW j \in 1..Len(cmds) PROVE Cmd(r, j)'.dst = Children[j]
        <5>1. cmds[j].dst = Children[j]
          BY <4>4 DEF Starts
        <5> QED BY <4>1, <5>1
      <4>5. /\ kind = "merge" => 1 \in 1..Len(cmds)
            /\ kind = "split" => Len(cmds) = Len(Children)
        BY DEF Starts
      <4> QED BY <2>7, <4>2, <4>3, <4>4, <4>5 DEF Shaped
    <3>2. reqs'[r].state \notin {"acked", "mapped", "releasing", "committed"}
      BY <2>7
    <3>3. Finished(r)'
      BY <2>4, <3>2 DEF Finished
    <3> QED BY <3>1, <3>3
  <2>12. \A i : ~OkSaid(r, i)'
    <3>1. \A m \in ready : m.req # r
      BY <2>4 DEF TInv
    <3> QED BY <2>1, <3>1 DEF OkSaid
  <2>13. Taken(r)'
    <3>1. ASSUME NEW i \in 1..Len(cmds) PROVE /\ Cmd(r, i)'.ents = {}
                                             /\ reqs'[r].cmds[i].pc = "sent"
      <4>1. cmds[i].pc = "sent" /\ cmds[i].ents = {}
        BY <3>1 DEF Starts
      <4> QED BY <2>6, <2>7, <4>1
    <3>2. Commands(r)' = 1..Len(cmds)
      BY <2>6
    <3> QED BY <3>1, <3>2 DEF Taken
  <2>14. Carried(r)'
    <3>1. ASSUME kind = "merge" PROVE Tallied(r)'
      <4> DEFINE f == [k \in 1..Len(cmds) |-> k]
      <4>1. /\ f \in [1..Len(cmds) -> 1..Len(cmds)]
            /\ \A j, k \in 1..Len(cmds) : f[j] = f[k] => j = k
            /\ \A i \in 1..Len(cmds) : \E k \in 1..Len(cmds) : f[k] = i
        OBVIOUS
      <4> HIDE DEF f
      <4>2. Commands(r)' = 1..Len(cmds) /\ reqs'[r].acked = {}
        BY <2>6, <2>7
      <4> QED BY <4>1, <4>2 DEF Tallied
    <3> QED BY <2>6, <2>7, <2>12, <3>1 DEF Carried
  <2>15. Covered(r)'
    <3> SUFFICES ASSUME kind = "split", NEW e \in inst[owner[Parent]][Parent].live
                 PROVE  \E i \in 1..Len(cmds) : At(r, i, "sent")' /\ quad[e] = i
      <4>1. /\ owner' = owner /\ inst' = inst /\ quad' = quad /\ reqs'[r].kind = kind
            /\ reqs'[r].state = "inflight" /\ Commands(r)' = 1..Len(cmds)
        BY <2>1, <2>6, <2>7
      <4> QED BY <4>1 DEF Covered
    <3>1. e \in Entities
      <4>1. inst[owner[Parent]][Parent] \in InstT
        BY ZenonT(60) DEF TInv, Cells, Starts
      <4> QED BY <4>1 DEF InstT
    <3>2. quad[e] \in 1..Len(cmds)
      BY <3>1 DEF TInv, Starts
    <3>3. cmds[quad[e]].pc = "sent"
      BY <3>2 DEF Starts
    <3> QED BY <2>6, <3>2, <3>3
  <2>16. Vacant(r)'
    <3>1. \A i \in 1..Len(cmds) : cmds[i].dst \in Cells /\ cmds[i].dstHost \in Hosts
      <4>1. \A i \in 1..Len(cmds) : cmds[i] \in CommandT
        BY SMTT(30) DEF Starts
      <4> QED BY <4>1 DEF CommandT
    <3>2. ASSUME kind # "merge", NEW i \in 1..Len(cmds)
          PROVE  ~Up(Cmd(r, i).dstHost, Cmd(r, i).dst)'
      <4>1. ~Up(cmds[i].dstHost, cmds[i].dst)
        BY <2>8, <3>1, <3>2 DEF Starts
      <4> QED BY <2>1, <2>6, <4>1 DEF Up
    <3>3. ASSUME kind = "merge" PROVE ~Up(Cmd(r, 1).dstHost, Parent)'
      <4>1. cmds[1].dstHost \in Hosts /\ owner[Parent] # cmds[1].dstHost /\ Parent \in Cells
        BY <3>1, <3>3 DEF Starts, Cells
      <4>2. ~Up(cmds[1].dstHost, Parent)
        BY <2>8, <4>1
      <4> QED BY <2>1, <2>6, <4>2 DEF Up
    <3> QED BY <2>6, <3>2, <3>3 DEF Vacant
  <2>17. Placed'
    BY <2>1, <2>8 DEF Placed, Up
  <2>18. ASSUME NEW x \in book'.survivor PROVE Logged(x)'
    <3>1. Logged(x) /\ x[2] \in Requests
      BY <2>1, <2>18 DEF EInv, TInv
    <3> QED BY <2>5, <3>1 DEF Logged
  <2>19. ASSUME NEW e \in Entities \ Newcomers, SameTick
         PROVE  \E h \in Hosts, c \in Cells : Home(e, h, c)'
    <3>1. PICK h \in Hosts, c \in Cells : Home(e, h, c)
      BY <2>19 DEF EInv
    <3>2. <<h, r, e>> \notin book.imported
      <4>1. <<h, r, e>>[2] = r
        OBVIOUS
      <4> QED BY <2>4, <4>1 DEF Imports
    <3>3. ASSUME NEW s \in Requests, Revocable(s, h, c)' PROVE <<h, s, e>> \notin book.imported
      <4>1. Revocable(s, h, c)
        BY <2>5, <3>3 DEF Revocable
      <4> QED BY <3>1, <4>1 DEF Home
    <3>4. Serving(h, c)' /\ e \in inst'[h][c].live
      BY <2>1, <3>1 DEF Home, Serving
    <3>5. Home(e, h, c)'
      BY <2>1, <2>4, <3>2, <3>3, <3>4 DEF Home
    <3> QED BY <3>5
  <2>20. \A s \in Requests' : Last(s)' => Taken(s)' /\ Carried(s)' /\ Covered(s)' /\ Vacant(s)'
    BY <2>4, <2>5, <2>13, <2>14, <2>15, <2>16
  <2>21. \A s \in Requests' : Shaped(s)' /\ Finished(s)'
    BY <2>4, <2>10, <2>11
  <2> QED BY <2>9, <2>17, <2>18, <2>19, <2>20, <2>21 DEF EInv

<1>SplitCarries.
    ASSUME TInv, CInv, EInv, Imports, OneByOne, NEW assign \in [1..Len(Children) -> Hosts],
           BeginSplit(assign)
    PROVE  EInv'
  <2> USE <1>SplitCarries
  <2>0. Len(Children) \in Nat /\ NoHost \notin Hosts
    BY LayoutAssumption, SMTT(30)
  <2>1. PICK cmds : cmds = [i \in 1..Len(Children) |->
                              Command(Parent, owner[Parent], Children[i], assign[i])]
    OBVIOUS
  <2>2. Begin("split", cmds) /\ owner[Parent] \in Hosts /\ Parent \in Cells
    BY <2>1 DEF BeginSplit, TInv, Cells
  <2>3. \A i \in 1..Len(Children) :
          Children[i] \in Cells /\ owner[Children[i]] = NoHost /\ assign[i] \in Hosts
    <3>1. \A i \in 1..Len(Children) : Children[i] \in ChildSet
      BY DEF ChildSet
    <3>2. owner[Parent] # NoHost
      BY <2>0, <2>2
    <3> QED BY <3>1, <3>2 DEF Cells, EInv, Region
  <2>4. \A i \in 1..Len(Children) :
          /\ cmds[i] \in CommandT /\ cmds[i].pc = "sent" /\ cmds[i].ents = {}
          /\ cmds[i].dst = Children[i] /\ cmds[i].dstHost = assign[i]
    BY <2>1, <2>2, <2>3 DEF Command, CommandT, Steps
  <2>5. cmds \in Seq(CommandT) /\ Len(cmds) = Len(Children)
    <3>1. cmds \in [1..Len(Children) -> CommandT]
      BY <2>1, <2>4
    <3> QED BY <2>0, <3>1, SMTT(30)
  <2>6. ASSUME NEW i \in 1..Len(cmds)
        PROVE  /\ cmds[i].pc = "sent" /\ cmds[i].ents = {} /\ cmds[i].dst = Children[i]
               /\ owner[cmds[i].dst] # cmds[i].dstHost
    <3>1. i \in 1..Len(Children)
      BY <2>5
    <3>2. /\ cmds[i].pc = "sent" /\ cmds[i].ents = {}
          /\ cmds[i].dst = Children[i] /\ cmds[i].dstHost = assign[i]
      BY <2>4, <3>1
    <3>3. owner[Children[i]] # assign[i]
      BY <2>0, <2>3, <3>1
    <3> QED BY <3>2, <3>3
  <2>7. Starts("split", cmds)
    BY <2>2, <2>5, <2>6 DEF Starts
  <2> QED BY <2>2, <2>7, <1>BeginCarries

<1>MigrateCarries.
    ASSUME TInv, CInv, EInv, Imports, OneByOne, NEW c \in Cells, NEW dest \in Hosts,
           BeginMigrate(c, dest)
    PROVE  EInv'
  <2> USE <1>MigrateCarries
  <2>1. PICK k : k = Command(c, owner[c], c, dest)
    OBVIOUS
  <2>2. Begin("migrate", <<k>>) /\ owner[c] \in Hosts /\ owner[c] # dest
    BY <2>1 DEF BeginMigrate, TInv
  <2>3. /\ k \in CommandT /\ k.pc = "sent" /\ k.ents = {}
        /\ k.dst = c /\ k.dstHost = dest
    BY <2>1, <2>2 DEF Command, CommandT, Steps
  <2>4. <<k>> \in Seq(CommandT) /\ \A i \in 1..Len(<<k>>) : <<k>>[i] = k
    BY <2>3, SMTT(30)
  <2>5. PICK cmds : cmds = <<k>>
    OBVIOUS
  <2>6. Begin("migrate", cmds) /\ cmds \in Seq(CommandT) /\ \A i \in 1..Len(cmds) : cmds[i] = k
    BY <2>2, <2>4, <2>5
  <2>7. \A i \in 1..Len(cmds) :
          /\ cmds[i].pc = "sent" /\ cmds[i].ents = {} /\ owner[cmds[i].dst] # cmds[i].dstHost
    BY <2>2, <2>3, <2>6
  <2>8. Starts("migrate", cmds)
    BY <2>6, <2>7 DEF Starts
  <2> QED BY <2>6, <2>8, <1>BeginCarries

<1>MergeCarries.
    ASSUME TInv, CInv, EInv, Imports, OneByOne, NEW rendezvous \in Hosts,
           BeginMerge(rendezvous)
    PROVE  EInv'
  <2> USE <1>MergeCarries
  <2> DEFINE L == Len(Children)
  <2>0. L \in Nat /\ L > 1 /\ NoHost \notin Hosts
    BY LayoutAssumption, SMTT(30)
  <2>1. PICK s \in 1..L :
          Begin("merge", [i \in 1..(L - 1) |->
              Command(Children[IF i < s THEN i ELSE i + 1],
                      owner[Children[IF i < s THEN i ELSE i + 1]],
                      Children[s], owner[Children[s]])])
    BY DEF BeginMerge
  <2> DEFINE D(i) == IF i < s THEN i ELSE i + 1
  <2>2. PICK cmds : cmds = [i \in 1..(L - 1) |->
                              Command(Children[D(i)], owner[Children[D(i)]],
                                      Children[s], owner[Children[s]])]
    OBVIOUS
  <2>3. /\ Begin("merge", cmds)
        /\ \A c \in ChildSet : owner[c] # NoHost
    BY <2>1, <2>2 DEF BeginMerge
  <2>4. \A c \in ChildSet : owner[c] \in Hosts /\ c \in Cells
    BY <2>3 DEF TInv, Cells
  <2>5. \A i \in 1..L : Children[i] \in ChildSet
    BY DEF ChildSet
  <2>6. /\ \A i \in 1..(L - 1) : D(i) \in 1..L
        /\ \A j \in 1..L : j = s \/ \E i \in 1..(L - 1) : D(i) = j
    <3>1. \A i \in 1..(L - 1) : D(i) \in 1..L
      BY <2>0, SMTT(30)
    <3>2. ASSUME NEW j \in 1..L, j # s PROVE \E i \in 1..(L - 1) : D(i) = j
      <4>1. CASE j < s
        <5>1. j \in 1..(L - 1) /\ D(j) = j
          BY <2>0, <4>1, SMTT(30)
        <5> QED BY <5>1, SMTT(30)
      <4>2. CASE ~(j < s)
        <5>1. j - 1 \in 1..(L - 1) /\ D(j - 1) = j
          BY <2>0, <3>2, <4>2, SMTT(30)
        <5> QED BY <5>1, SMTT(30)
      <4> QED BY <4>1, <4>2, SMTT(30)
    <3> QED BY <3>1, <3>2, SMTT(30)
  <2> HIDE DEF D
  <2>7. /\ \A i \in 1..(L - 1) : Children[D(i)] \in ChildSet
        /\ Children[s] \in ChildSet /\ 1 \in 1..(L - 1)
    <3>1. 1 \in 1..(L - 1)
      BY <2>0, SMTT(30)
    <3> QED BY <2>5, <2>6, <3>1
  <2>8. \A i \in 1..(L - 1) :
          /\ cmds[i] \in CommandT /\ cmds[i].pc = "sent" /\ cmds[i].ents = {}
          /\ cmds[i].src = Children[D(i)]
          /\ cmds[i].dst = Children[s] /\ cmds[i].dstHost = owner[Children[s]]
    BY <2>2, <2>4, <2>7 DEF Command, CommandT, Steps
  <2>9. cmds \in Seq(CommandT) /\ Len(cmds) = L - 1
    <3>1. cmds \in [1..(L - 1) -> CommandT] /\ L - 1 \in Nat
      BY <2>0, <2>2, <2>8, SMTT(30)
    <3> QED BY <3>1, SMTT(30)
  <2>10. ASSUME NEW c \in ChildSet
         PROVE  c = cmds[1].dst \/ \E i \in 1..(L - 1) : c = cmds[i].src
    <3>1. PICK j \in 1..L : c = Children[j]
      BY DEF ChildSet
    <3> QED BY <2>6, <2>7, <2>8, <3>1
  <2>11. owner[Parent] # cmds[1].dstHost
    <3>1. owner[Parent] = NoHost
      BY <2>3, <2>7 DEF EInv, Region
    <3> QED BY <2>0, <2>4, <2>7, <2>8, <3>1
  <2> HIDE DEF L
  <2>12. \A i \in 1..Len(cmds) : cmds[i].pc = "sent" /\ cmds[i].ents = {}
    BY <2>8, <2>9
  <2>13. /\ 1 \in 1..Len(cmds)
         /\ \A c \in ChildSet : c = cmds[1].dst \/ \E i \in 1..Len(cmds) : c = cmds[i].src
    BY <2>7, <2>9, <2>10
  <2>14. Starts("merge", cmds)
    BY <2>9, <2>11, <2>12, <2>13 DEF Starts
  <2> QED BY <2>3, <2>14, <1>BeginCarries

<1>RequestCarries.
    ASSUME TInv, CInv, EInv, Imports, OneByOne, BeginRequest
    PROVE  EInv'
  BY <1>RequestCarries, <1>SplitCarries, <1>MergeCarries, <1>MigrateCarries DEF BeginRequest
<1> QED BY <1>RequestCarries

-----------------------------------------------------------------------------

(* The game: entities move inside the parent and newcomers arrive.         *)

LEMMA PlayKeeps ==
    ASSUME TInv, CInv, EInv, UNCHANGED <<owner, reqs, book, ready, notices>>,
           \A h \in Hosts, c \in Cells :
             /\ inst'[h][c].up = inst[h][c].up
             /\ inst[h][c].live \subseteq inst'[h][c].live
             /\ inst'[h][c].live \subseteq inst[h][c].live \union Newcomers,
           \A r \in Requests : Last(r) => Covered(r)'
    PROVE  EInv'
<1>0. /\ owner' = owner /\ reqs' = reqs /\ book' = book /\ ready' = ready
      /\ notices' = notices
  OBVIOUS
<1>1. /\ Requests' = Requests /\ \A r : Commands(r)' = Commands(r) /\ (Last(r)' <=> Last(r))
      /\ \A r : (Merge(r)' <=> Merge(r))
      /\ \A r, i : Cmd(r, i)' = Cmd(r, i) /\ (Failed(r, i)' <=> Failed(r, i))
      /\ \A r, i : OkSaid(r, i)' <=> OkSaid(r, i)
      /\ \A r, i, p : At(r, i, p)' <=> At(r, i, p)
  BY <1>0 DEF Requests, Commands, Last, Merge, Cmd, At, OkSaid, Failed
<1>2. \A h \in Hosts, c \in Cells : Up(h, c)' <=> Up(h, c)
  BY DEF Up
<1>3. \A r \in Requests : \A i \in Commands(r) :
        /\ Cmd(r, i).src \in Cells /\ Cmd(r, i).srcHost \in Hosts
        /\ Cmd(r, i).dst \in Cells /\ Cmd(r, i).dstHost \in Hosts
  BY DEF CInv, Built
<1>4. ASSUME NEW r \in Requests, NEW i \in Commands(r)
      PROVE  (Took(r, i) => Took(r, i)') /\ (Filled(r, i) => Filled(r, i)')
  <2>1. Took(r, i) => Took(r, i)'
    BY <1>1, <1>3 DEF Took
  <2>2. Cmd(r, i).ents \subseteq inst[Cmd(r, i).dstHost][Cmd(r, i).dst].live =>
          Cmd(r, i).ents \subseteq inst'[Cmd(r, i).dstHost][Cmd(r, i).dst].live
    BY <1>3
  <2> QED BY <1>0, <1>1, <2>1, <2>2 DEF Filled
<1>5. ASSUME NEW r \in Requests, Carried(r) PROVE Carried(r)'
  <2>1. ASSUME Tallied(r) PROVE Tallied(r)'
    <3>1. PICK f \in [Commands(r) -> Commands(r)] :
            /\ \A j, k \in Commands(r) : f[j] = f[k] => j = k
            /\ \A i \in Commands(r) : \E k \in Commands(r) : f[k] = i
            /\ \A k \in reqs[r].acked : At(r, f[k], "done") /\ ~OkSaid(r, f[k]) /\ Filled(r, f[k])
      BY <2>1 DEF Tallied
    <3>2. reqs[r].acked \subseteq Commands(r)
      BY DEF TInv
    <3>3. \A k \in reqs[r].acked : Filled(r, f[k])'
      BY <1>4, <3>1, <3>2
    <3>4. /\ Commands(r)' = Commands(r) /\ reqs'[r].acked = reqs[r].acked
          /\ \A k : (At(r, f[k], "done")' <=> At(r, f[k], "done")) /\ (OkSaid(r, f[k])' <=> OkSaid(r, f[k]))
      BY <1>0, <1>1
    <3>5. \A k \in reqs'[r].acked :
            At(r, f[k], "done")' /\ ~OkSaid(r, f[k])' /\ Filled(r, f[k])'
      BY <3>1, <3>3, <3>4
    <3>6. /\ \A j, k \in Commands(r)' : f[j] = f[k] => j = k
          /\ \A i \in Commands(r)' : \E k \in Commands(r)' : f[k] = i
      <4>1. /\ \A j, k \in Commands(r) : f[j] = f[k] => j = k
            /\ \A i \in Commands(r) : \E k \in Commands(r) : f[k] = i
        BY <3>1
      <4>2. Commands(r)' = Commands(r)
        BY <3>4
      <4>3. ASSUME NEW i \in Commands(r)' PROVE \E k \in Commands(r)' : f[k] = i
        BY <4>1, <4>2
      <4>4. ASSUME NEW j \in Commands(r)', NEW k \in Commands(r)', f[j] = f[k] PROVE j = k
        <5>1. j \in Commands(r) /\ k \in Commands(r)
          BY <4>2
        <5> QED BY <4>1, <4>4, <5>1, SMTT(30)
      <4> QED BY <4>3, <4>4
    <3>7. f \in [Commands(r)' -> Commands(r)']
      BY <3>4
    <3> QED BY <3>5, <3>6, <3>7 DEF Tallied
  <2>2. /\ reqs'[r] = reqs[r] /\ Commands(r)' = Commands(r) /\ (Merge(r)' <=> Merge(r))
        /\ \A i : (Failed(r, i)' <=> Failed(r, i)) /\ (OkSaid(r, i)' <=> OkSaid(r, i))
        /\ \A i \in Commands(r) : Filled(r, i) => Filled(r, i)'
    BY <1>0, <1>1, <1>4
  <2> QED BY <1>5, <2>1, <2>2 DEF Carried
<1>6. ASSUME NEW r \in Requests, Taken(r), Vacant(r), Last(r) PROVE Taken(r)' /\ Vacant(r)'
  <2>1. Taken(r)'
    BY <1>0, <1>1, <1>4, <1>6 DEF Taken
  <2>2. \A i \in Commands(r) :
          Up(Cmd(r, i).dstHost, Cmd(r, i).dst)' => Up(Cmd(r, i).dstHost, Cmd(r, i).dst)
    BY <1>1, <1>2, <1>3 DEF Up
  <2>3. Merge(r) => (Up(Cmd(r, 1).dstHost, Parent)' => Up(Cmd(r, 1).dstHost, Parent))
    <3>1. Merge(r) => 1 \in Commands(r)
      BY DEF EInv, Shaped
    <3>2. Merge(r) => Cmd(r, 1).dstHost \in Hosts /\ Parent \in Cells
      BY <1>3, <3>1 DEF Cells
    <3> QED BY <1>1, <3>2 DEF Up
  <2>4. reqs'[r] = reqs[r] /\ Commands(r)' = Commands(r) /\ (Merge(r)' <=> Merge(r)) /\ notices' = notices
    BY <1>0, <1>1
  <2>5. Vacant(r)'
    BY <1>6, <2>2, <2>3, <2>4 DEF Vacant
  <2> QED BY <2>1, <2>5
<1>7. \A r : (Shaped(r) => Shaped(r)') /\ (Finished(r) => Finished(r)')
  BY <1>0, <1>1 DEF Shaped, Finished
<1>8. Region'
  BY <1>0 DEF EInv, Region
<1>9. Placed'
  <2>1. \A h, c : Excused(h, c) => Excused(h, c)'
    BY <1>0, <1>1, ZenonT(60) DEF Excused
  <2> QED BY <1>0, <1>2, <2>1 DEF EInv, Placed, Mild
<1>10. \A x : Logged(x) => Logged(x)'
  BY <1>0, <1>1 DEF Logged
<1>11. ASSUME NEW e, NEW h \in Hosts, NEW c \in Cells, Home(e, h, c) PROVE Home(e, h, c)'
  <2>1. \A r : Revocable(r, h, c)' <=> Revocable(r, h, c)
    BY <1>0, <1>1 DEF Revocable
  <2>2. Serving(h, c)' /\ e \in inst'[h][c].live
    BY <1>0, <1>11 DEF Home, Serving
  <2> QED BY <1>0, <1>1, <1>11, <2>1, <2>2 DEF Home
<1>12. \A e \in Entities \ Newcomers : SameTick => \E h \in Hosts, c \in Cells : Home(e, h, c)'
  BY <1>11 DEF EInv
<1>13. \A r \in Requests : Last(r) => Taken(r)' /\ Carried(r)' /\ Covered(r)' /\ Vacant(r)'
  BY <1>5, <1>6 DEF EInv
<1>14. \A r \in Requests : Shaped(r)' /\ Finished(r)'
  BY <1>7 DEF EInv
<1>15. \A x \in book.survivor : Logged(x)'
  BY <1>10 DEF EInv
<1> QED BY <1>0, <1>1, <1>8, <1>9, <1>12, <1>13, <1>14, <1>15 DEF EInv

(* Who moves before the split's jobs run is taken in the new quadrant, and *)
(* who moves after them has been taken: nobody moves in between.           *)
LEMMA MoveCarries ==
    ASSUME TInv, CInv, EInv, NEW e \in Entities, NEW q \in 1..Len(Children), Move(e, q)
    PROVE  EInv'
<1>0. /\ owner' = owner /\ inst' = inst /\ reqs' = reqs /\ book' = book /\ ready' = ready
      /\ notices' = notices /\ quad' = [quad EXCEPT ![e] = q]
  BY DEF Move
<1>1. ASSUME NEW r \in Requests, Last(r) PROVE Covered(r)'
  <2> SUFFICES ASSUME SameTick, reqs'[r].kind = "split", reqs'[r].state \in {"inflight", "acked"},
                      NEW x \in inst'[owner'[Parent]][Parent].live \ Newcomers
               PROVE  \E i \in Commands(r)' :
                        \/ x \in Cmd(r, i)'.ents
                        \/ reqs'[r].state = "inflight" /\ At(r, i, "sent")' /\ quad'[x] = i
                        \/ reqs'[r].state = "inflight" /\ Failed(r, i)'
    BY DEF Covered
  <2>1. /\ reqs[r].kind = "split" /\ reqs[r].state \in {"inflight", "acked"}
        /\ x \in inst[owner[Parent]][Parent].live \ Newcomers
    BY <1>0
  <2>2. Covered(r) /\ Shaped(r) /\ Owned(r) /\ Built(r)
    BY <1>1 DEF EInv, CInv
  <2>3. PICK i \in Commands(r) :
          \/ x \in Cmd(r, i).ents
          \/ reqs[r].state = "inflight" /\ At(r, i, "sent") /\ quad[x] = i
          \/ reqs[r].state = "inflight" /\ Failed(r, i)
    BY <2>1, <2>2 DEF Covered
  <2>4. /\ Commands(r)' = Commands(r) /\ reqs'[r].state = reqs[r].state
        /\ \A j : Cmd(r, j)' = Cmd(r, j) /\ (Failed(r, j)' <=> Failed(r, j))
        /\ \A j : At(r, j, "sent")' <=> At(r, j, "sent")
    BY <1>0 DEF Commands, Cmd, Failed, OkSaid, At
  <2>5. CASE x # e
    <3>1. quad'[x] = quad[x]
      <4>1. owner[Parent] \in Hosts /\ Parent \in Cells
        <5>1. owner[Parent] = Cmd(r, i).srcHost /\ Cmd(r, i).srcHost \in Hosts
          BY <2>1, <2>2 DEF Owned, Built
        <5> QED BY <5>1 DEF Cells
      <4>2. inst[owner[Parent]][Parent] \in InstT
        BY <4>1 DEF TInv
      <4>3. x \in Entities
        BY <2>1, <4>2 DEF InstT
      <4> QED BY <1>0, <2>5, <4>3 DEF TInv
    <3> QED BY <2>3, <2>4, <3>1
  <2>6. CASE x = e /\ ~(reqs[r].state = "inflight" /\ At(r, i, "sent") /\ quad[x] = i)
    BY <2>3, <2>4, <2>6
  <2>7. CASE x = e /\ reqs[r].state = "inflight" /\ At(r, i, "sent")
    <3>1. Unserialized(r) \in {{}, Commands(r)}
      BY DEF Move, BetweenSerializes
    <3>2. i \in Unserialized(r)
      BY <2>7 DEF Unserialized, At
    <3>3. q \in Commands(r)
      BY <2>1, <2>2 DEF Shaped, Commands
    <3>4. At(r, q, "sent")
      BY <3>1, <3>2, <3>3 DEF Unserialized, At
    <3>5. quad'[x] = q
      BY <1>0, <2>7 DEF TInv
    <3> QED BY <2>4, <2>7, <3>3, <3>4, <3>5
  <2> QED BY <2>5, <2>6, <2>7
<1>2. \A h \in Hosts, c \in Cells :
        /\ inst'[h][c].up = inst[h][c].up
        /\ inst[h][c].live \subseteq inst'[h][c].live
        /\ inst'[h][c].live \subseteq inst[h][c].live \union Newcomers
  BY <1>0
<1>3. UNCHANGED <<owner, reqs, book, ready, notices>>
  BY <1>0
<1>4. \A r \in Requests : Last(r) => Covered(r)'
  BY <1>1
<1> QED BY <1>2, <1>3, <1>4, PlayKeeps

LEMMA ArriveCarries ==
    ASSUME TInv, CInv, EInv, NEW e \in Newcomers, NEW h \in Hosts, NEW c \in Cells,
           Arrive(e, h, c)
    PROVE  EInv'
<1> DEFINE v == [inst[h][c] EXCEPT !.live = inst[h][c].live \union {e}]
<1>0. /\ owner' = owner /\ quad' = quad /\ reqs' = reqs /\ book' = book /\ ready' = ready
      /\ notices' = notices /\ inst' = [inst EXCEPT ![h][c] = v]
  BY DEF Arrive
<1>1. inst \in [Hosts -> [Cells -> InstT]] /\ inst[h][c] \in InstT
  BY DEF TInv
<1>2. v.up = inst[h][c].up /\ v.live = inst[h][c].live \union {e}
  BY <1>1 DEF InstT
<1> HIDE DEF v
<1>3. ASSUME NEW g \in Hosts, NEW d \in Cells
      PROVE  /\ inst'[g][d].up = inst[g][d].up
             /\ inst[g][d].live \subseteq inst'[g][d].live
             /\ inst'[g][d].live \subseteq inst[g][d].live \union Newcomers
  <2>1. inst'[g][d] = IF g = h /\ d = c THEN v ELSE inst[g][d]
    BY <1>0, <1>1
  <2> QED BY <1>2, <2>1
<1>4. ASSUME NEW r \in Requests, Last(r) PROVE Covered(r)'
  <2> SUFFICES ASSUME SameTick, reqs'[r].kind = "split", reqs'[r].state \in {"inflight", "acked"},
                      NEW x \in inst'[owner'[Parent]][Parent].live \ Newcomers
               PROVE  \E i \in Commands(r)' :
                        \/ x \in Cmd(r, i)'.ents
                        \/ reqs'[r].state = "inflight" /\ At(r, i, "sent")' /\ quad'[x] = i
                        \/ reqs'[r].state = "inflight" /\ Failed(r, i)'
    BY DEF Covered
  <2>1. reqs[r].kind = "split" /\ reqs[r].state \in {"inflight", "acked"}
    BY <1>0
  <2>2. Covered(r) /\ Shaped(r) /\ Owned(r) /\ Built(r)
    BY <1>4 DEF EInv, CInv
  <2>3. x \in inst[owner[Parent]][Parent].live \ Newcomers
    <3>1. 1 \in Commands(r)
      <4>1. 1 \in 1..Len(Children)
        BY LayoutAssumption, SMTT(30)
      <4> QED BY <2>1, <2>2, <4>1 DEF Shaped, Commands
    <3>2. owner[Parent] = Cmd(r, 1).srcHost /\ Cmd(r, 1).srcHost \in Hosts
      BY <2>1, <2>2, <3>1 DEF Owned, Built
    <3>3. owner[Parent] \in Hosts /\ Parent \in Cells
      BY <3>2 DEF Cells
    <3> QED BY <1>0, <1>3, <3>3
  <2>4. PICK i \in Commands(r) :
          \/ x \in Cmd(r, i).ents
          \/ reqs[r].state = "inflight" /\ At(r, i, "sent") /\ quad[x] = i
          \/ reqs[r].state = "inflight" /\ Failed(r, i)
    BY <2>1, <2>2, <2>3 DEF Covered
  <2>5. /\ Commands(r)' = Commands(r) /\ reqs'[r].state = reqs[r].state
        /\ \A j : Cmd(r, j)' = Cmd(r, j) /\ (Failed(r, j)' <=> Failed(r, j))
        /\ \A j : At(r, j, "sent")' <=> At(r, j, "sent")
    BY <1>0 DEF Commands, Cmd, Failed, OkSaid, At
  <2> QED BY <1>0, <2>4, <2>5
<1>5. UNCHANGED <<owner, reqs, book, ready, notices>>
  BY <1>0
<1>6. \A r \in Requests : Last(r) => Covered(r)'
  BY <1>4
<1> QED BY <1>3, <1>5, <1>6, PlayKeeps

LEMMA WorldCarries ==
    ASSUME TInv, CInv, EInv, World
    PROVE  EInv'
BY MoveCarries, ArriveCarries DEF World

(* The entities start in the cells of their layout.                        *)
LEMMA EntitiesBegin ==
    ASSUME Init
    PROVE  EInv /\ Imports
<1>1. Requests = {} /\ reqs = <<>>
  BY SMTT(30) DEF Init, Requests
<1>2. /\ owner \in Layouts /\ owner \in [Cells -> Hosts \union {NoHost}]
      /\ quad \in [Entities -> 1..Len(Children)] /\ NoHost \notin Hosts
      /\ book.survivor = {} /\ book.imported = {}
  BY LayoutAssumption DEF Init
<1> DEFINE live(c) == {e \in Entities \ Newcomers : c = Parent \/ c = Children[quad[e]]}
<1>3. inst = [h \in Hosts |-> [c \in Cells |->
                IF owner[c] # h THEN Down ELSE [Fresh EXCEPT !.live = live(c)]]]
  BY DEF Init
<1>4. ASSUME NEW e \in Entities \ Newcomers, NEW c \in Cells, c = Parent \/ c = Children[quad[e]]
      PROVE  e \in live(c)
  BY <1>4
<1> HIDE DEF live
<1>5. \A c \in Cells : /\ [Fresh EXCEPT !.live = live(c)].up
                       /\ [Fresh EXCEPT !.live = live(c)].live = live(c)
  BY DEF Fresh, Down
<1>6. Region
  BY <1>2, RegionAssumption DEF Region
<1>7. ASSUME NEW h \in Hosts, NEW c \in Cells, Up(h, c) PROVE owner[c] = h
  <2>1. ~Down.up
    BY DEF Down
  <2> QED BY <1>3, <1>7, <2>1 DEF Up
<1>8. ASSUME NEW e \in Entities \ Newcomers
      PROVE  \E h \in Hosts, c \in Cells : Home(e, h, c)
  <2>1. PICK c \in Cells : owner[c] # NoHost /\ (c = Parent \/ c = Children[quad[e]])
    <3>1. Children[quad[e]] \in ChildSet /\ ChildSet \subseteq Cells /\ Parent \in Cells
      BY <1>2 DEF ChildSet, Cells
    <3> QED BY <1>6, <3>1 DEF Region
  <2>2. PICK h \in Hosts : owner[c] = h
    BY <1>2, <2>1
  <2>3. inst[h][c].up /\ e \in inst[h][c].live
    BY <1>3, <1>4, <1>5, <2>1, <2>2
  <2> QED BY <1>1, <2>2, <2>3 DEF Home, Serving
<1>9. Placed
  BY <1>7 DEF Placed
<1> QED BY <1>1, <1>2, <1>6, <1>8, <1>9 DEF EInv, Imports

(* Every step keeps the entities where a serving cell has them.            *)
LEMMA NextCarries ==
    ASSUME TInv, CInv, EInv, Imports, OneByOne, [Next]_vars
    PROVE  EInv' /\ Imports'
<1>1. CASE World
  BY <1>1, WorldCarries, ImportsElse
<1>2. CASE BeginRequest
  BY <1>2, RequestCarries, ImportsElse
<1>3. ASSUME NEW r \in Requests, Commit(r) \/ Expire(r)
      PROVE  EInv' /\ Imports'
  BY <1>3, OrchestratorCarries, ImportsElse
<1>4. ASSUME NEW r \in Requests, NEW i \in Commands(r), Execute(r, i) \/ Receive(r, i)
      PROVE  EInv' /\ Imports'
  BY <1>4, WorkersCarry
<1>5. ASSUME NEW m \in ready, OnReady(m) \/ ReadyLost(m)
      PROVE  EInv' /\ Imports'
  BY <1>5, OrchestratorCarries, ImportsElse
<1>6. ASSUME NEW n \in notices, Handle(n)
      PROVE  EInv' /\ Imports'
  BY <1>6, HandlersCarry, ImportsElse
<1>7. CASE UNCHANGED vars
  <2>1. ready' \subseteq ready /\ UNCHANGED <<owner, inst, quad, reqs, book, notices>>
    BY <1>7 DEF vars
  <2> QED BY <1>7, <2>1, DropCarries, ImportsElse
<1> QED BY <1>1, <1>2, <1>3, <1>4, <1>5, <1>6, <1>7 DEF Next

(* EInv is an invariant of the transfer protocol.                          *)
THEOREM EntityInvariant ==
    ASSUME OneByOne PROVE Spec => [](TInv /\ CInv /\ EInv /\ Imports)
<1>1. Init => TInv /\ CInv /\ EInv /\ Imports
  BY Begins, EntitiesBegin
<1>2. TInv /\ CInv /\ EInv /\ Imports /\ [Next]_vars => (TInv /\ CInv /\ EInv /\ Imports)'
  BY NextKeeps, NextCarries
<1> QED BY <1>1, <1>2, PTL DEF Spec

(* When the orchestrator has all its Readys, every destination holds what  *)
(* the source of that command serialized for this very request: a Ready    *)
(* that an Abort, a teardown or another command's failure has overtaken    *)
(* never counts towards a commit.                                          *)
THEOREM CommittedStateArrives == ASSUME OneByOne PROVE Spec => []CommitCarriesState
<1>1. TInv /\ CInv /\ EInv /\ Imports => CommitCarriesState
  <2> SUFFICES ASSUME TInv, CInv, EInv, NEW r \in Requests, reqs[r].state = "acked",
                      NEW i \in Commands(r)
               PROVE  Cmd(r, i).ents \subseteq inst[Cmd(r, i).dstHost][Cmd(r, i).dst].live
    BY DEF CommitCarriesState
  <2>1. Last(r)
    BY StillLast
  <2>2. Filled(r, i)
    BY <2>1 DEF EInv, Carried
  <2> QED BY <2>2 DEF Filled
<1> QED BY <1>1, EntityInvariant, PTL

(* Entity conservation (conservation.go:28): no split, merge or migrate,   *)
(* committed, rolled back or still under way, leaves an entity on no       *)
(* serving cell, for any number of hosts, quadrants, entities and          *)
(* requests, when the serialize jobs of a split run in one tick.           *)
THEOREM EntitiesSurvive == ASSUME OneByOne, SameTick PROVE Spec => []NoEntityLost
<1>1. TInv /\ CInv /\ EInv /\ Imports => NoEntityLost
  BY DEF EInv, Home, NoEntityLost
<1> QED BY <1>1, EntityInvariant, PTL

=============================================================================
