--------------------------- MODULE LoopQueueProofs ---------------------------
(***************************************************************************)
(* The loop job queue keeps the contract of LoopContract, for any set of   *)
(* calls, any nesting of closures, any capacity and any number of runs.    *)
(***************************************************************************)
EXTENDS LoopQueue, TLAPS

InQueue(r) == \E i \in 1..Len(queue) : queue[i] = r

\* What the claim says about a job.
JobInv(r) ==
    /\ claimed[r] = "no" => done[r] = "open" /\ current # r
    /\ claimed[r] = "caller" => done[r] = "open" /\ current # r /\ ran[r] = "no" /\ pc[r] = "returned"
    /\ claimed[r] = "stop" => done[r] = "stopped" /\ current # r /\ ran[r] = "no"
    /\ claimed[r] = "loop" => \/ current = r /\ done[r] = "open" /\ ran[r] = "running"
                              \/ current # r /\ done[r] = "ok" /\ ran[r] = "yes"

\* What the caller's position and answer say about its job.
CallInv(r) ==
    /\ pc[r] = "returned" <=> result[r] # "none"
    /\ pc[r] \in {"idle", "check", "send", "inline", "inlined"} => claimed[r] = "no" /\ ~InQueue(r)
    /\ pc[r] = "await" => claimed[r] # "no"
    /\ pc[r] = "inline" => ran[r] = "running"
    /\ pc[r] = "inlined" => ran[r] = "yes"
    /\ claimed[r] = "no" /\ pc[r] \notin {"inline", "inlined", "returned"} => ran[r] = "no"
    /\ claimed[r] = "no" /\ InQueue(r) => ran[r] = "no"
    /\ claimed[r] = "no" /\ ran[r] = "running" => pc[r] = "inline"
    /\ result[r] \in {"stopped", "ctx", "full"} =>
           ran[r] = "no" /\ claimed[r] # "loop" /\ (claimed[r] = "no" => ~InQueue(r))
    /\ result[r] = "ok" /\ r \in Waiting => ran[r] = "yes"

\* An unclaimed job whose caller has left it lies in a queue that will be drained.
DrainInv(r) == Free(r) /\ InQueue(r) /\ closed /\ loop # "stopping" => pc[r] \in {"recheck", "wait"}

QueueInv == TypeOK /\ \A r \in Requests : JobInv(r) /\ CallInv(r) /\ DrainInv(r)

-----------------------------------------------------------------------------
(* The job channel. *)

\* A send adds the job it sends and nothing else.
LEMMA QueueAppend == ASSUME queue \in Seq(Requests), NEW r \in Requests, queue' = Append(queue, r)
                     PROVE  /\ queue' \in Seq(Requests)
                            /\ \A x : InQueue(x)' <=> InQueue(x) \/ x = r
  BY DEF InQueue

\* A receive takes a job that was there and adds none.
LEMMA QueueTail == ASSUME queue \in Seq(Requests), queue # <<>>, queue' = Tail(queue)
                   PROVE  /\ queue' \in Seq(Requests)
                          /\ Head(queue) \in Requests
                          /\ InQueue(Head(queue))
                          /\ \A x : InQueue(x)' => InQueue(x)
<1>1. queue' \in Seq(Requests) /\ Head(queue) \in Requests
  OBVIOUS
<1>2. InQueue(Head(queue))
  <2>1. 1 \in 1..Len(queue) /\ queue[1] = Head(queue)
    OBVIOUS
  <2> QED BY <2>1 DEF InQueue
<1>3. ASSUME NEW x, InQueue(x)' PROVE InQueue(x)
  <2>1. PICK i \in 1..Len(queue') : queue'[i] = x
    BY <1>3 DEF InQueue
  <2>2. i + 1 \in 1..Len(queue) /\ queue[i + 1] = x
    BY <2>1
  <2> QED BY <2>2 DEF InQueue
<1> QED BY <1>1, <1>2, <1>3

LEMMA QueueSame == ASSUME queue' = queue
                   PROVE  \A x : InQueue(x)' <=> InQueue(x)
  BY DEF InQueue

LEMMA QueueEmpty == ASSUME queue = <<>> PROVE \A x : ~InQueue(x)
  BY DEF InQueue

-----------------------------------------------------------------------------
(* The invariant. *)

\* A step that leaves a call and its job alone keeps what is known of them.
LEMMA Frame ==
  ASSUME NEW x \in Requests, JobInv(x), CallInv(x), DrainInv(x),
         pc'[x] = pc[x], claimed'[x] = claimed[x], ran'[x] = ran[x],
         done'[x] = done[x], result'[x] = result[x],
         current' = x <=> current = x,
         InQueue(x)' => InQueue(x),
         \/ closed' /\ loop' # "stopping" => closed /\ loop # "stopping"
         \/ ~InQueue(x)'
  PROVE  JobInv(x)' /\ CallInv(x)' /\ DrainInv(x)'
<1>1. JobInv(x)'
  BY DEF JobInv
<1>2. CallInv(x)'
  BY DEF CallInv
<1>3. DrainInv(x)'
  BY DEF DrainInv, Free
<1> QED BY <1>1, <1>2, <1>3

LEMMA InitInv == Init => QueueInv
<1> SUFFICES ASSUME Init PROVE QueueInv
  OBVIOUS
<1>1. TypeOK
  <2>1. closed \in BOOLEAN
    BY Zenon DEF Init
  <2> QED BY <2>1, RequestsAssumption DEF Init, TypeOK, Labels, LoopStates
<1>2. \A x : ~InQueue(x)
  BY QueueEmpty DEF Init
<1>3. ASSUME NEW r \in Requests PROVE JobInv(r) /\ CallInv(r) /\ DrainInv(r)
  BY <1>2, RequestsAssumption DEF Init, JobInv, CallInv, DrainInv
<1> QED BY <1>1, <1>3 DEF QueueInv

AnyCallerStep(r) == Caller(r) \/ SendRefused(r) \/ WaitCtx(r)

\* A caller's step has types right and touches no other call, and no loop state.
LEMMA CallerTouches ==
  ASSUME TypeOK, NEW r \in Requests, AnyCallerStep(r)
  PROVE  /\ pc' \in [Requests -> Labels] /\ seen' \in [Requests -> Nat]
         /\ claimed' \in [Requests -> {"no", "caller", "loop", "stop"}]
         /\ ran' \in [Requests -> {"no", "running", "yes"}]
         /\ result' \in [Requests -> {"none", "ok", "stopped", "ctx", "full"}]
         /\ \A x \in Requests \ {r} : /\ pc'[x] = pc[x] /\ claimed'[x] = claimed[x]
                                      /\ ran'[x] = ran[x] /\ result'[x] = result[x]
         /\ done' = done
         /\ gate' = gate /\ closed' = closed /\ loop' = loop /\ current' = current /\ runs' = runs
         /\ queue' = queue \/ (pc[r] = "send" /\ queue' = Append(queue, r))
<1> USE DEF TypeOK, Labels, callerVars, jobVars, loopVars, Goto, Return, Claim
<1>1. CASE ReadGate(r) BY <1>1 DEF ReadGate
<1>2. CASE CallInline(r) BY <1>2 DEF CallInline
<1>3. CASE InlineEnds(r) BY <1>3 DEF InlineEnds
<1>4. CASE InlineReturns(r) BY <1>4 DEF InlineReturns
<1>5. CASE CheckGate(r) BY <1>5 DEF CheckGate
<1>6. CASE Send(r) BY <1>6 DEF Send
<1>7. CASE Recheck(r) BY <1>7 DEF Recheck, AfterRecheck
<1>8. CASE JobDone(r) BY <1>8 DEF JobDone
<1>9. CASE WaitGate(r) BY <1>9 DEF WaitGate, GiveUp
<1>10. CASE SendRefused(r) BY <1>10 DEF SendRefused
<1>11. CASE WaitCtx(r) BY <1>11 DEF WaitCtx, GiveUp
<1> QED BY <1>1, <1>2, <1>3, <1>4, <1>5, <1>6, <1>7, <1>8, <1>9, <1>10, <1>11
        DEF AnyCallerStep, Caller

\* A caller's step keeps the invariant for that caller.
LEMMA CallerInv ==
  ASSUME QueueInv, NEW r \in Requests, AnyCallerStep(r)
  PROVE  JobInv(r)' /\ CallInv(r)' /\ DrainInv(r)'
<1> USE DEF QueueInv, TypeOK, Labels, callerVars, jobVars, loopVars, Goto, Return, Claim, Free,
            JobInv, CallInv, DrainInv
<1>1. CASE ReadGate(r) BY <1>1, QueueSame DEF ReadGate
<1>2. CASE CallInline(r) BY <1>2, QueueSame DEF CallInline
<1>3. CASE InlineEnds(r) BY <1>3, QueueSame DEF InlineEnds
<1>4. CASE InlineReturns(r) BY <1>4, QueueSame DEF InlineReturns
<1>5. CASE CheckGate(r) BY <1>5, QueueSame DEF CheckGate
<1>6. CASE Send(r) BY <1>6, QueueAppend DEF Send
<1>7. CASE Recheck(r) BY <1>7, QueueSame DEF Recheck, AfterRecheck, Closed
<1>8. CASE JobDone(r) BY <1>8, QueueSame DEF JobDone
<1>9. CASE WaitGate(r) BY <1>9, QueueSame DEF WaitGate, GiveUp
<1>10. CASE SendRefused(r) BY <1>10, QueueSame DEF SendRefused
<1>11. CASE WaitCtx(r) BY <1>11, QueueSame DEF WaitCtx, GiveUp
<1> QED BY <1>1, <1>2, <1>3, <1>4, <1>5, <1>6, <1>7, <1>8, <1>9, <1>10, <1>11
        DEF AnyCallerStep, Caller

\* The steps of the loop that take no job keep the invariant.
LEMMA LoopIdleInv ==
  ASSUME QueueInv, Start \/ Stop \/ Tick \/ DrainEmpty \/ StopEnd
  PROVE  QueueInv'
<1> USE DEF callerVars, jobVars
<1>1. /\ UNCHANGED <<pc, seen, result, claimed, ran, done, queue, current>>
      /\ closed' /\ loop' # "stopping" => (closed /\ loop # "stopping") \/ queue = <<>>
  BY DEF QueueInv, TypeOK, LoopStates, Start, Stop, Tick, DrainEmpty, StopEnd
<1>2. closed' \in BOOLEAN
  BY Zenon DEF QueueInv, TypeOK, Start, Stop, Tick, DrainEmpty, StopEnd
<1>3. gate' \in Nat \ {0} /\ runs' \in Nat /\ loop' \in LoopStates /\ loop # "job" /\ loop' # "job"
  BY DEF QueueInv, TypeOK, LoopStates, Start, Stop, Tick, DrainEmpty, StopEnd
<1>4. TypeOK'
  BY <1>1, <1>2, <1>3 DEF QueueInv, TypeOK
<1>5. ASSUME NEW x \in Requests PROVE JobInv(x)' /\ CallInv(x)' /\ DrainInv(x)'
  <2>1. InQueue(x)' <=> InQueue(x)
    BY <1>1, QueueSame
  <2>2. \/ closed' /\ loop' # "stopping" => closed /\ loop # "stopping"
        \/ ~InQueue(x)'
    BY <1>1, <2>1, QueueEmpty
  <2> QED BY <1>1, <2>1, <2>2, Frame DEF QueueInv
<1> QED BY <1>4, <1>5 DEF QueueInv

\* The steps of the loop that take a job from the queue keep the invariant.
LEMMA LoopTakeInv ==
  ASSUME QueueInv, DrainSkip \/ DrainRun \/ StopTake
  PROVE  QueueInv'
<1>0. /\ queue' \in Seq(Requests) /\ Head(queue) \in Requests /\ InQueue(Head(queue))
      /\ \A x : InQueue(x)' => InQueue(x)
  BY QueueTail DEF QueueInv, TypeOK, DrainSkip, DrainRun, StopTake
<1>h. PICK h \in Requests : h = Head(queue)
  BY <1>0
<1>1. /\ queue' \in Seq(Requests) /\ h = Head(queue) /\ InQueue(h)
      /\ \A x : InQueue(x)' => InQueue(x)
  BY <1>0, <1>h
<1>2. TypeOK'
  <2>1. closed' \in BOOLEAN
    BY Zenon DEF QueueInv, TypeOK, DrainSkip, DrainRun, StopTake, loopVars
  <2> USE DEF QueueInv, TypeOK, LoopStates, DrainOrReturn, Claim, callerVars, loopVars
  <2>2. CASE DrainSkip BY <1>1, <2>1, <2>2 DEF DrainSkip
  <2>3. CASE DrainRun BY <1>1, <2>1, <2>3, RequestsAssumption DEF DrainRun
  <2>4. CASE StopTake BY <1>1, <2>1, <2>4 DEF StopTake
  <2> QED BY <2>2, <2>3, <2>4
<1>3. JobInv(h)' /\ CallInv(h)' /\ DrainInv(h)'
  <2>1. TypeOK /\ JobInv(h) /\ CallInv(h) /\ DrainInv(h) /\ (InQueue(h)' => InQueue(h)) /\ InQueue(h)
    BY <1>1 DEF QueueInv
  <2> USE DEF TypeOK, LoopStates, DrainOrReturn, Claim, Free, callerVars, loopVars,
              JobInv, CallInv, DrainInv
  <2>2. CASE DrainSkip BY <1>1, <2>1, <2>2 DEF DrainSkip
  <2>3. CASE DrainRun BY <1>1, <2>1, <2>3 DEF DrainRun
  <2>4. CASE StopTake BY <1>1, <2>1, <2>4 DEF StopTake
  <2> QED BY <2>2, <2>3, <2>4
<1>4. ASSUME NEW x \in Requests \ {h} PROVE JobInv(x)' /\ CallInv(x)' /\ DrainInv(x)'
  <2>1. /\ pc'[x] = pc[x] /\ claimed'[x] = claimed[x] /\ ran'[x] = ran[x]
        /\ done'[x] = done[x] /\ result'[x] = result[x]
        /\ current' = x <=> current = x
        /\ closed' /\ loop' # "stopping" => closed /\ loop # "stopping"
    BY <1>1, RequestsAssumption DEF QueueInv, TypeOK, LoopStates, DrainSkip, DrainRun, StopTake,
       DrainOrReturn, Claim, callerVars, loopVars
  <2>2. JobInv(x) /\ CallInv(x) /\ DrainInv(x) /\ (InQueue(x)' => InQueue(x))
    BY <1>1 DEF QueueInv
  <2> QED BY <2>1, <2>2, Frame
<1> QED BY <1>1, <1>2, <1>3, <1>4 DEF QueueInv

\* A job's end keeps the invariant.
LEMMA JobEndsInv == ASSUME QueueInv, JobEnds PROVE QueueInv'
<1>1. current \in Requests
  BY DEF QueueInv, TypeOK, JobEnds
<1>2. TypeOK'
  <2>1. closed' \in BOOLEAN
    BY Zenon DEF QueueInv, TypeOK, JobEnds
  <2> QED BY <1>1, <2>1 DEF QueueInv, TypeOK, LoopStates, JobEnds, DrainOrReturn, callerVars
<1>3. \A x : InQueue(x)' <=> InQueue(x)
  BY QueueSame DEF JobEnds
<1>c. PICK c \in Requests : c = current
  BY <1>1
<1>4. JobInv(c)' /\ CallInv(c)' /\ DrainInv(c)'
  <2>1. TypeOK /\ JobInv(c) /\ CallInv(c) /\ DrainInv(c) /\ (InQueue(c)' => InQueue(c))
    BY <1>3 DEF QueueInv
  <2> QED BY <1>c, <2>1, RequestsAssumption
          DEF TypeOK, LoopStates, JobEnds, DrainOrReturn, callerVars, JobInv, CallInv, DrainInv, Free
<1>5. ASSUME NEW x \in Requests, x # c PROVE JobInv(x)' /\ CallInv(x)' /\ DrainInv(x)'
  <2>1. /\ pc'[x] = pc[x] /\ claimed'[x] = claimed[x] /\ ran'[x] = ran[x]
        /\ done'[x] = done[x] /\ result'[x] = result[x]
        /\ current' = x <=> current = x
        /\ closed' /\ loop' # "stopping" => closed /\ loop # "stopping"
    BY <1>c, <1>5, RequestsAssumption DEF QueueInv, TypeOK, LoopStates, JobEnds, DrainOrReturn, callerVars
  <2>2. JobInv(x) /\ CallInv(x) /\ DrainInv(x) /\ (InQueue(x)' => InQueue(x))
    BY <1>3 DEF QueueInv
  <2> QED BY <2>1, <2>2, Frame
<1> QED BY <1>2, <1>4, <1>5 DEF QueueInv

LEMMA StepInv == QueueInv /\ [Next]_vars => QueueInv'
<1> SUFFICES ASSUME QueueInv, [Next]_vars PROVE QueueInv'
  OBVIOUS
<1>1. ASSUME NEW r \in Requests, AnyCallerStep(r) PROVE QueueInv'
  <2>1. TypeOK'
    BY <1>1, CallerTouches, QueueAppend DEF QueueInv, TypeOK
  <2>2. ASSUME NEW x \in Requests \ {r} PROVE JobInv(x)' /\ CallInv(x)' /\ DrainInv(x)'
    <3>1. InQueue(x)' => InQueue(x)
      BY <1>1, CallerTouches, QueueAppend, QueueSame DEF QueueInv, TypeOK
    <3> QED BY <1>1, <3>1, CallerTouches, Frame DEF QueueInv
  <2> QED BY <1>1, <2>1, <2>2, CallerInv DEF QueueInv
<1>2. CASE Start \/ Stop \/ Tick \/ DrainEmpty \/ StopEnd
  BY <1>2, LoopIdleInv
<1>3. CASE DrainSkip \/ DrainRun \/ StopTake
  BY <1>3, LoopTakeInv
<1>4. CASE JobEnds
  BY <1>4, JobEndsInv
<1>5. CASE UNCHANGED vars
  <2>1. \A x : InQueue(x)' <=> InQueue(x)
    BY <1>5, QueueSame DEF vars, jobVars
  <2> QED BY <1>5, <2>1 DEF QueueInv, TypeOK, JobInv, CallInv, DrainInv, Free, vars, callerVars, jobVars, loopVars
<1> QED BY <1>1, <1>2, <1>3, <1>4, <1>5 DEF Next, LoopWorks, AnyCallerStep

LEMMA Invariance == Spec => []QueueInv
<1> QED BY InitInv, StepInv, PTL DEF Spec

-----------------------------------------------------------------------------
\* Every reachable state of the loop job queue has its types (run_on_loop.go:25-61).
THEOREM QueueTypeCorrect == Spec => []TypeOK
<1>1. QueueInv => TypeOK
  BY DEF QueueInv
<1> QED BY <1>1, Invariance, PTL

\* No closure reported as accepted lies unclaimed in the queue of a loop that has
\* exited: the second look at the gate in RunOnLoop and SubmitLoopJob suffices.
THEOREM NoJobStranded == Spec => []NoStrandedJob
<1>1. QueueInv => NoStrandedJob
  <2> SUFFICES ASSUME QueueInv, closed, loop = "idle", NEW i \in DOMAIN queue, Free(queue[i])
               PROVE  pc[queue[i]] \in {"recheck", "wait"}
    BY DEF NoStrandedJob
  <2>1. queue[i] \in Requests /\ i \in 1..Len(queue)
    BY DEF QueueInv, TypeOK
  <2>2. InQueue(queue[i])
    BY <2>1 DEF InQueue
  <2>3. DrainInv(queue[i])
    BY <2>1 DEF QueueInv
  <2> QED BY <2>2, <2>3 DEF DrainInv
<1> QED BY <1>1, Invariance, PTL

-----------------------------------------------------------------------------
(* The refinement. *)

F == [r \in Requests |-> Fate(r)]
A == [r \in Requests |-> Answer(r)]

\* A step of one call changes the abstract state at that call only.
LEMMA OneCall ==
  ASSUME NEW r \in Requests, NEW f, NEW a,
         Fate(r)' = f, Answer(r)' = a,
         \A x \in Requests \ {r} : /\ ran'[x] = ran[x] /\ claimed'[x] = claimed[x]
                                   /\ result'[x] = result[x]
  PROVE  F' = [F EXCEPT ![r] = f] /\ A' = [A EXCEPT ![r] = a]
<1>1. ASSUME NEW x \in Requests \ {r} PROVE Fate(x)' = Fate(x) /\ Answer(x)' = Answer(x)
  BY DEF Fate, Answer
<1> QED BY <1>1 DEF F, A

LEMMA SameCalls ==
  ASSUME ran' = ran, claimed' = claimed, result' = result
  PROVE  F' = F /\ A' = A
  BY DEF F, A, Fate, Answer

\* The changes of a call's fate f and answer a that the contract allows.
Allowed(r, f, a) ==
    \/ f = Fate(r) /\ a = Answer(r)
    \/ Fate(r) = "open" /\ f = "running" /\ a = Answer(r)
    \/ Fate(r) = "running" /\ f = "ran" /\ a = Answer(r)
    \/ Fate(r) = "open" /\ f = "refused" /\ a = Answer(r)
    \/ Fate(r) = "open" /\ f = "refused" /\ Answer(r) = "none" /\ a = "refused"
    \/ /\ Answer(r) = "none" /\ f = Fate(r)
       /\ \/ f = "ran" /\ a = "accepted"
          \/ f = "refused" /\ a = "refused"
          \/ r \notin Waiting /\ a = "accepted"

LEMMA AllowedStep ==
  ASSUME NEW r \in Requests, Allowed(r, Fate(r)', Answer(r)'),
         \A x \in Requests \ {r} : /\ ran'[x] = ran[x] /\ claimed'[x] = claimed[x]
                                   /\ result'[x] = result[x]
  PROVE  Contract!Next \/ (F' = F /\ A' = A)
<1>1. PICK f, a : f = Fate(r)' /\ a = Answer(r)'
  OBVIOUS
<1>2. F' = [F EXCEPT ![r] = f] /\ A' = [A EXCEPT ![r] = a]
  BY <1>1, OneCall
<1>3. F[r] = Fate(r) /\ A[r] = Answer(r) /\ F = [F EXCEPT ![r] = F[r]] /\ A = [A EXCEPT ![r] = A[r]]
  BY DEF F, A
<1>4. Allowed(r, f, a)
  BY <1>1
<1>5. CASE f = Fate(r) /\ a = Answer(r)
  BY <1>2, <1>3, <1>5
<1>6. CASE Fate(r) = "open" /\ f = "running" /\ a = Answer(r)
  <2>1. Contract!Begin(r) BY <1>2, <1>3, <1>6 DEF Contract!Begin, F, A
  <2> QED BY <2>1 DEF Contract!Next
<1>7. CASE Fate(r) = "running" /\ f = "ran" /\ a = Answer(r)
  <2>1. Contract!Finish(r) BY <1>2, <1>3, <1>7 DEF Contract!Finish, F, A
  <2> QED BY <2>1 DEF Contract!Next
<1>8. CASE Fate(r) = "open" /\ f = "refused" /\ a = Answer(r)
  <2>1. Contract!Refuse(r) BY <1>2, <1>3, <1>8 DEF Contract!Refuse, F, A
  <2> QED BY <2>1 DEF Contract!Next
<1>9. CASE Fate(r) = "open" /\ f = "refused" /\ Answer(r) = "none" /\ a = "refused"
  <2>1. Contract!RefuseAndReturn(r) BY <1>2, <1>3, <1>9 DEF Contract!RefuseAndReturn, F, A
  <2> QED BY <2>1 DEF Contract!Next
<1>10. CASE /\ Answer(r) = "none" /\ f = Fate(r)
            /\ \/ f = "ran" /\ a = "accepted"
               \/ f = "refused" /\ a = "refused"
               \/ r \notin Waiting /\ a = "accepted"
  <2>1. Contract!Return(r) BY <1>2, <1>3, <1>10 DEF Contract!Return, F, A
  <2> QED BY <2>1 DEF Contract!Next
<1> QED BY <1>4, <1>5, <1>6, <1>7, <1>8, <1>9, <1>10 DEF Allowed

\* Every step of a caller is a step its contract allows.
LEMMA CallerAllowed ==
  ASSUME QueueInv, NEW r \in Requests, AnyCallerStep(r)
  PROVE  Allowed(r, Fate(r)', Answer(r)')
<1>0. TypeOK /\ JobInv(r) /\ CallInv(r)
  BY DEF QueueInv
<1> USE <1>0 DEF TypeOK, Labels, callerVars, jobVars, loopVars, Goto, Return, Claim, Free,
                 JobInv, CallInv, Allowed, Fate, Answer
<1>1. CASE ReadGate(r) BY <1>1 DEF ReadGate
<1>2. CASE CallInline(r) BY <1>2 DEF CallInline
<1>3. CASE InlineEnds(r) BY <1>3 DEF InlineEnds
<1>4. CASE InlineReturns(r) BY <1>4 DEF InlineReturns
<1>5. CASE CheckGate(r) BY <1>5 DEF CheckGate
<1>6. CASE Send(r) BY <1>6 DEF Send
<1>7. CASE Recheck(r) BY <1>7 DEF Recheck, AfterRecheck
<1>8. CASE JobDone(r) BY <1>8 DEF JobDone
<1>9. CASE WaitGate(r) BY <1>9 DEF WaitGate, GiveUp
<1>10. CASE SendRefused(r) BY <1>10 DEF SendRefused
<1>11. CASE WaitCtx(r) BY <1>11 DEF WaitCtx, GiveUp
<1> QED BY <1>1, <1>2, <1>3, <1>4, <1>5, <1>6, <1>7, <1>8, <1>9, <1>10, <1>11
        DEF AnyCallerStep, Caller

LEMMA StepRefines == QueueInv /\ [Next]_vars => Contract!Next \/ (F' = F /\ A' = A)
<1> SUFFICES ASSUME QueueInv, [Next]_vars PROVE Contract!Next \/ (F' = F /\ A' = A)
  OBVIOUS
<1>1. ASSUME NEW r \in Requests, AnyCallerStep(r) PROVE Contract!Next \/ (F' = F /\ A' = A)
  BY <1>1, CallerAllowed, CallerTouches, AllowedStep DEF QueueInv
<1>2. CASE Start \/ Stop \/ Tick \/ DrainEmpty \/ StopEnd \/ DrainSkip
  <2>1. ran' = ran /\ claimed' = claimed /\ result' = result
    BY <1>2 DEF Start, Stop, Tick, DrainEmpty, StopEnd, DrainSkip, callerVars, jobVars
  <2> QED BY <2>1, SameCalls
<1>3. CASE DrainRun \/ StopTake
  <2>1. Head(queue) \in Requests /\ InQueue(Head(queue))
    BY <1>3, QueueTail DEF QueueInv, TypeOK, DrainRun, StopTake
  <2>2. PICK h \in Requests : h = Head(queue)
    BY <2>1
  <2>3. TypeOK /\ JobInv(h) /\ CallInv(h) /\ InQueue(h)
    BY <2>1, <2>2 DEF QueueInv
  <2>4. Allowed(h, Fate(h)', Answer(h)')
    BY <1>3, <2>2, <2>3 DEF TypeOK, JobInv, CallInv, DrainRun, StopTake, Claim, Free, callerVars, loopVars,
       Allowed, Fate, Answer
  <2>5. \A x \in Requests \ {h} : /\ ran'[x] = ran[x] /\ claimed'[x] = claimed[x] /\ result'[x] = result[x]
    BY <1>3, <2>2, <2>3 DEF TypeOK, DrainRun, StopTake, Claim, callerVars
  <2> QED BY <2>4, <2>5, AllowedStep
<1>4. CASE JobEnds
  <2>1. PICK c \in Requests : c = current
    BY <1>4 DEF QueueInv, TypeOK, JobEnds
  <2>2. TypeOK /\ JobInv(c) /\ CallInv(c)
    BY DEF QueueInv
  <2>3. Allowed(c, Fate(c)', Answer(c)')
    BY <1>4, <2>1, <2>2 DEF TypeOK, JobInv, CallInv, JobEnds, callerVars, Allowed, Fate, Answer
  <2>4. \A x \in Requests \ {c} : /\ ran'[x] = ran[x] /\ claimed'[x] = claimed[x] /\ result'[x] = result[x]
    BY <1>4, <2>1, <2>2 DEF TypeOK, JobEnds, callerVars
  <2> QED BY <2>3, <2>4, AllowedStep
<1>5. CASE UNCHANGED vars
  BY <1>5, SameCalls DEF vars, callerVars, jobVars
<1> QED BY <1>1, <1>2, <1>3, <1>4, <1>5 DEF Next, LoopWorks, AnyCallerStep

\* Whatever the goroutines interleave, a closure handed to the loop runs once before its
\* RunOnLoop caller returns, or is refused and never runs (run_on_loop.go:28-33, 116-126).
THEOREM QueueKeepsContract == Spec => ImplementsContract
<1>1. Init => Contract!Init
  BY DEF Init, Contract!Init, Fate, Answer
<1>2. QueueInv /\ [Next]_vars => [Contract!Next]_<<[r \in Requests |-> Fate(r)], [r \in Requests |-> Answer(r)]>>
  BY StepRefines DEF F, A
<1> QED BY <1>1, <1>2, Invariance, PTL DEF Spec, ImplementsContract, Contract!Spec

\* A RunOnLoop caller that has come back shares nothing with its closure any more.
THEOREM NoLateWrite == Spec => NoWriteAfterReturn
<1>1. QueueInv /\ QueueInv' /\ [Next]_vars =>
        [\A r \in Waiting : result[r] # "none" => ran[r] # "running" /\ ran'[r] = ran[r]]_vars
  <2> SUFFICES ASSUME QueueInv, QueueInv', [Next]_vars, NEW r \in Waiting, result[r] # "none"
               PROVE  ran[r] # "running" /\ ran'[r] = ran[r]
    OBVIOUS
  <2>1. r \in Requests
    BY RequestsAssumption
  <2>2. pc[r] = "returned"
    BY <2>1 DEF QueueInv, CallInv
  <2>3. ASSUME NEW x \in Requests, AnyCallerStep(x) PROVE result'[r] = result[r]
    <3>1. pc[x] # "returned"
      BY <2>3 DEF AnyCallerStep, Caller, ReadGate, CallInline, InlineEnds, InlineReturns, CheckGate, Send,
                  Recheck, JobDone, WaitGate, SendRefused, WaitCtx, GiveUp
    <3> QED BY <2>1, <2>2, <2>3, <3>1, CallerTouches DEF QueueInv
  <2>4. result'[r] = result[r]
    BY <2>3 DEF Next, LoopWorks, AnyCallerStep, Start, Stop, Tick, DrainEmpty, StopEnd, DrainSkip,
                DrainRun, StopTake, JobEnds, vars, callerVars
  <2>5. result[r] = "ok" \/ result[r] \in {"stopped", "ctx", "full"}
    BY <2>1 DEF QueueInv, TypeOK
  <2>6. CallInv(r) /\ CallInv(r)'
    BY <2>1 DEF QueueInv
  <2>7. CASE result[r] = "ok"
    BY <2>4, <2>6, <2>7 DEF CallInv
  <2>8. CASE result[r] \in {"stopped", "ctx", "full"}
    BY <2>4, <2>6, <2>8 DEF CallInv
  <2> QED BY <2>5, <2>7, <2>8
<1> QED BY <1>1, Invariance, PTL DEF Spec, NoWriteAfterReturn
=============================================================================
