------------------------------ MODULE LoopQueue ------------------------------
(***************************************************************************)
(* pkg/engine/run_on_loop.go and the part of pkg/engine/loop.go that       *)
(* serves it: closures handed to a cell's game loop by other goroutines.   *)
(*                                                                         *)
(* A request is one call of RunOnLoop (a member of Waiting) or of          *)
(* SubmitLoopJob, made once.  Child[r] is the call, if any, that r's own   *)
(* closure makes while it runs on the loop.  The loop may be stopped and   *)
(* run again on the same engine, which replaces the gate channel: gate     *)
(* counts the channels made so far and closed says whether the newest one  *)
(* is closed; every older one is.                                          *)
(***************************************************************************)
EXTENDS Naturals, Sequences, FiniteSets

CONSTANTS Requests,  \* calls
          Waiting,   \* the calls that are RunOnLoop
          NoRequest, \* "none"
          Child,     \* the call a request's closure makes, or NoRequest
          Capacity,  \* the buffer of the job channel
          MaxRuns    \* bound: how often GameLoop.Run is called

ASSUME RequestsAssumption == /\ NoRequest \notin Requests
                             /\ Waiting \subseteq Requests
                             /\ Child \in [Requests -> Requests \cup {NoRequest}]
                             /\ \A r \in Requests : Child[r] # r
ASSUME BoundsAssumption == Capacity \in Nat \ {0} /\ MaxRuns \in Nat

VARIABLES pc,      \* where each caller is
          seen,    \* the gate channel each caller holds
          claimed, \* who won each job's claim
          ran,     \* what became of each closure
          done,    \* the job's done channel: open, or closed over job.err
          result,  \* what each call returned
          queue,   \* the job channel
          gate, closed,
          loop,    \* what the loop goroutine does
          current, \* the job it runs
          runs

callerVars == <<pc, seen, result>>
jobVars == <<claimed, ran, done, queue>>
loopVars == <<gate, closed, loop, current, runs>>
vars == <<callerVars, jobVars, loopVars>>

Parent(c) == {r \in Requests : Child[r] = c}
\* Calls made by goroutines other than the loop.
Outside(r) == Parent(r) = {}

Closed(g) == g < gate \/ closed

Init == /\ pc = [r \in Requests |-> "idle"]
        /\ seen = [r \in Requests |-> 0]
        /\ claimed = [r \in Requests |-> "no"]
        /\ ran = [r \in Requests |-> "no"]
        /\ done = [r \in Requests |-> "open"]
        /\ result = [r \in Requests |-> "none"]
        /\ queue = <<>>
        /\ gate = 1
        /\ closed = FALSE
        /\ loop = "idle"
        /\ current = NoRequest
        /\ runs = 0

Goto(r, label) == pc' = [pc EXCEPT ![r] = label]
Return(r, answer) == /\ Goto(r, "returned")
                     /\ result' = [result EXCEPT ![r] = answer]

\* j.claim(): the compare-and-swap, tried by the caller (who = "caller") or the loop.
Free(r) == claimed[r] = "no"
Claim(r, who) == /\ Free(r)
                 /\ claimed' = [claimed EXCEPT ![r] = who]

-----------------------------------------------------------------------------
(* The caller. *)

\* gate := e.loopQ.gate()
ReadGate(r) == /\ pc[r] = "idle"
               /\ Outside(r)
               /\ Goto(r, "check")
               /\ seen' = [seen EXCEPT ![r] = gate]
               /\ UNCHANGED <<result, jobVars, loopVars>>

\* A closure's call into its own loop without the goroutine check: it queues behind itself.
CallInlineQueued(r) == /\ pc[r] = "idle"
                       /\ current \in Parent(r)
                       /\ Goto(r, "check")
                       /\ seen' = [seen EXCEPT ![r] = gate]
                       /\ UNCHANGED <<result, jobVars, loopVars>>

\* The call made by a closure running on the loop: IsLoopGoroutine, so fn runs inline.
CallInline(r) == /\ pc[r] = "idle"
                 /\ current \in Parent(r)
                 /\ ran' = [ran EXCEPT ![r] = "running"]
                 /\ Goto(r, "inline")
                 /\ UNCHANGED <<seen, result, claimed, done, queue, loopVars>>

InlineEnds(r) == /\ pc[r] = "inline"
                 /\ ran' = [ran EXCEPT ![r] = "yes"]
                 /\ Goto(r, "inlined")
                 /\ UNCHANGED <<seen, result, claimed, done, queue, loopVars>>

InlineReturns(r) == /\ pc[r] = "inlined"
                    /\ Return(r, "ok")
                    /\ UNCHANGED <<seen, jobVars, loopVars>>

CheckGate(r) == /\ pc[r] = "check"
                /\ IF Closed(seen[r])
                   THEN Return(r, "stopped")
                   ELSE Goto(r, "send") /\ UNCHANGED result
                /\ UNCHANGED <<seen, jobVars, loopVars>>

Send(r) == /\ pc[r] = "send"
           /\ Len(queue) < Capacity
           /\ queue' = Append(queue, r)
           /\ Goto(r, "recheck")
           /\ UNCHANGED <<seen, result, claimed, ran, done, loopVars>>

\* RunOnLoop blocks in the send until there is room, the gate closes or ctx ends;
\* SubmitLoopJob drops the job when there is no room.
SendRefused(r) == /\ pc[r] = "send"
                  /\ IF r \in Waiting
                     THEN \/ Closed(seen[r]) /\ Return(r, "stopped")
                          \/ Return(r, "ctx")
                     ELSE Len(queue) = Capacity /\ Return(r, "full")
                  /\ UNCHANGED <<seen, jobVars, loopVars>>

\* What each call does after the recheck: SubmitLoopJob returns nil.
AfterRecheck(r) == IF r \in Waiting
                   THEN Goto(r, "wait") /\ UNCHANGED result
                   ELSE Return(r, "ok")

\* SubmitLoopJob without the second look at the gate.
RecheckOnlyWaiting(r) == /\ pc[r] = "recheck"
                         /\ \/ r \in Waiting /\ Closed(seen[r]) /\ Claim(r, "caller") /\ Return(r, "stopped")
                            \/ /\ (r \notin Waiting \/ ~Closed(seen[r]) \/ ~Free(r))
                               /\ AfterRecheck(r)
                               /\ UNCHANGED claimed
                         /\ UNCHANGED <<seen, ran, done, queue, loopVars>>

Recheck(r) == /\ pc[r] = "recheck"
              /\ \/ Closed(seen[r]) /\ Claim(r, "caller") /\ Return(r, "stopped")
                 \/ /\ ~Closed(seen[r]) \/ ~Free(r)
                    /\ AfterRecheck(r)
                    /\ UNCHANGED claimed
              /\ UNCHANGED <<seen, ran, done, queue, loopVars>>

\* <-job.done, in the last select or after a lost claim.
JobDone(r) == /\ pc[r] \in {"wait", "await"}
              /\ done[r] # "open"
              /\ Return(r, done[r])
              /\ UNCHANGED <<seen, jobVars, loopVars>>

\* A wake-up by the gate or by ctx: take the job back, or wait for it if the loop has it.
GiveUp(r, answer) == /\ pc[r] = "wait"
                     /\ \/ Claim(r, "caller") /\ Return(r, answer)
                        \/ ~Free(r) /\ Goto(r, "await") /\ UNCHANGED <<claimed, result>>
                     /\ UNCHANGED <<seen, ran, done, queue, loopVars>>

WaitGate(r) == Closed(seen[r]) /\ GiveUp(r, "stopped")

WaitCtx(r) == GiveUp(r, "ctx")

-----------------------------------------------------------------------------
(* The loop goroutine. *)

\* GameLoop.Run: loopQ.start() reopens a closed gate by making a new one.
Start == /\ loop = "idle"
         /\ runs < MaxRuns
         /\ runs' = runs + 1
         /\ gate' = IF closed THEN gate + 1 ELSE gate
         /\ closed' = FALSE
         /\ loop' = "select"
         /\ UNCHANGED <<callerVars, jobVars, current>>

\* A tick reaches processAdminCmds.
Tick == /\ loop = "select"
        /\ loop' = "drain"
        /\ UNCHANGED <<callerVars, jobVars, gate, closed, current, runs>>

\* The rest of the tick, once the queue is empty.
DrainEmpty == /\ loop = "drain"
              /\ queue = <<>>
              /\ loop' = "select"
              /\ UNCHANGED <<callerVars, jobVars, gate, closed, current, runs>>

\* After each job the drain goes on or, past its budget, ends.
DrainOrReturn == loop' \in {"drain", "select"}

DrainSkip == /\ loop = "drain"
             /\ queue # <<>>
             /\ ~Free(Head(queue))
             /\ queue' = Tail(queue)
             /\ DrainOrReturn
             /\ UNCHANGED <<callerVars, claimed, ran, done, gate, closed, current, runs>>

\* The drain runs whatever it takes, abandoned or not.
DrainRunUnclaimed == /\ loop = "drain"
                     /\ queue # <<>>
                     /\ claimed' = [claimed EXCEPT ![Head(queue)] = "loop"]
                     /\ queue' = Tail(queue)
                     /\ ran' = [ran EXCEPT ![Head(queue)] = "running"]
                     /\ current' = Head(queue)
                     /\ loop' = "job"
                     /\ UNCHANGED <<callerVars, done, gate, closed, runs>>

DrainRun == /\ loop = "drain"
            /\ queue # <<>>
            /\ Claim(Head(queue), "loop")
            /\ queue' = Tail(queue)
            /\ ran' = [ran EXCEPT ![Head(queue)] = "running"]
            /\ current' = Head(queue)
            /\ loop' = "job"
            /\ UNCHANGED <<callerVars, done, gate, closed, runs>>

\* fn returns or panics, err is stored and done closed.
JobEnds == /\ loop = "job"
           /\ Child[current] # NoRequest => result[Child[current]] # "none"
           /\ ran' = [ran EXCEPT ![current] = "yes"]
           /\ done' = [done EXCEPT ![current] = "ok"]
           /\ current' = NoRequest
           /\ DrainOrReturn
           /\ UNCHANGED <<callerVars, claimed, queue, gate, closed, runs>>

\* ctx.Done(): stop() closes the gate, then empties the queue.
Stop == /\ loop = "select"
        /\ loop' = "stopping"
        /\ closed' = TRUE
        /\ UNCHANGED <<callerVars, jobVars, gate, current, runs>>

StopTake == /\ loop = "stopping"
            /\ queue # <<>>
            /\ queue' = Tail(queue)
            /\ \/ ~Free(Head(queue)) /\ UNCHANGED <<claimed, done>>
               \/ /\ Claim(Head(queue), "stop")
                  /\ done' = [done EXCEPT ![Head(queue)] = "stopped"]
            /\ UNCHANGED <<callerVars, ran, loopVars>>

StopEnd == /\ loop = "stopping"
           /\ queue = <<>>
           /\ loop' = "idle"
           /\ UNCHANGED <<callerVars, jobVars, gate, closed, current, runs>>

-----------------------------------------------------------------------------
\* A caller's steps that its goroutine is sure to take once they are possible.
Caller(r) == \/ ReadGate(r) \/ CallInline(r) \/ InlineEnds(r) \/ InlineReturns(r)
             \/ CheckGate(r) \/ Send(r) \/ Recheck(r) \/ JobDone(r) \/ WaitGate(r)
LoopWorks == \/ Tick \/ DrainEmpty \/ DrainSkip \/ DrainRun \/ JobEnds \/ StopTake \/ StopEnd
Next == \/ \E r \in Requests : Caller(r) \/ SendRefused(r) \/ WaitCtx(r)
        \/ Start \/ Stop \/ LoopWorks

Spec == Init /\ [][Next]_vars

\* The Go scheduler runs every runnable goroutine, a cell's loop is started once,
\* and a running loop keeps ticking.  Stopping, restarting and deadlines may never happen.
Fairness == /\ \A r \in Requests : WF_vars(Caller(r))
            /\ \A r \in Requests : WF_vars(SendRefused(r) /\ (Closed(seen[r]) \/ r \notin Waiting))
            /\ WF_vars(Start /\ runs = 0)
            /\ WF_vars(LoopWorks)
FairSpec == Spec /\ Fairness

-----------------------------------------------------------------------------
Labels == {"idle", "check", "send", "recheck", "wait", "await", "inline", "inlined", "returned"}
LoopStates == {"idle", "select", "drain", "job", "stopping"}

\* Every variable has its type; the loop holds a job exactly while it runs one.
TypeOK == /\ pc \in [Requests -> Labels]
          /\ seen \in [Requests -> Nat]
          /\ claimed \in [Requests -> {"no", "caller", "loop", "stop"}]
          /\ ran \in [Requests -> {"no", "running", "yes"}]
          /\ done \in [Requests -> {"open", "ok", "stopped"}]
          /\ result \in [Requests -> {"none", "ok", "stopped", "ctx", "full"}]
          /\ queue \in Seq(Requests)
          /\ gate \in Nat \ {0}
          /\ closed \in BOOLEAN
          /\ loop \in LoopStates
          /\ current \in Requests \cup {NoRequest}
          /\ loop = "job" <=> current # NoRequest
          /\ runs \in Nat

\* A job that sits unclaimed in the queue of a loop that has exited still has its
\* caller inside the call: nobody was told that a closure is accepted while it lies
\* in a queue no tick will drain ("queued" on a stopped loop, run_on_loop.go:201-205).
NoStrandedJob ==
    closed /\ loop = "idle" =>
        \A i \in DOMAIN queue : Free(queue[i]) => pc[queue[i]] \in {"recheck", "wait"}

\* Once RunOnLoop has returned, its closure neither starts nor is still writing
\* (the claim handshake, run_on_loop.go:28-33).
NoWriteAfterReturn ==
    [][\A r \in Waiting : result[r] # "none" => ran[r] # "running" /\ ran'[r] = ran[r]]_vars

\* The mapping to the contract of LoopContract: a closure is refused once the caller or
\* the stopping loop has claimed its job, or when the call returned before sending one.
Fate(r) == CASE ran[r] = "running" -> "running"
             [] ran[r] = "yes" -> "ran"
             [] OTHER -> IF claimed[r] \in {"caller", "stop"} \/ result[r] \in {"stopped", "ctx", "full"}
                         THEN "refused" ELSE "open"
Answer(r) == CASE result[r] = "none" -> "none"
               [] result[r] = "ok" -> "accepted"
               [] OTHER -> "refused"

Contract == INSTANCE LoopContract WITH fate <- [r \in Requests |-> Fate(r)],
                                       answer <- [r \in Requests |-> Answer(r)]

\* The queue, the claim and the gate together keep the promise of LoopContract.
ImplementsContract == Contract!Spec

\* Every call that was begun returns: no caller is left behind by a stop, a restart, a
\* full queue or a closure that calls back into its own loop (run_on_loop.go:116-192).
CallReturns == \A r \in Requests : pc[r] # "idle" ~> pc[r] = "returned"
=============================================================================
