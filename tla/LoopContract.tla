---------------------------- MODULE LoopContract ----------------------------
(***************************************************************************)
(* What a caller of RunOnLoop and SubmitLoopJob is promised, without any   *)
(* queue, gate or claim: the closure either runs once, to the end, or is   *)
(* refused and never runs.  A waiting caller comes back only when that is  *)
(* settled and is told which of the two it was; a submitting caller may    *)
(* come back earlier, but is told of a refusal only when it is one.        *)
(***************************************************************************)
CONSTANTS Requests, Waiting

VARIABLES fate, answer

Fates == {"open", "running", "ran", "refused"}
Answers == {"none", "accepted", "refused"}

Init == /\ fate = [r \in Requests |-> "open"]
        /\ answer = [r \in Requests |-> "none"]

Begin(r) == /\ fate[r] = "open"
            /\ fate' = [fate EXCEPT ![r] = "running"]
            /\ UNCHANGED answer

Finish(r) == /\ fate[r] = "running"
             /\ fate' = [fate EXCEPT ![r] = "ran"]
             /\ UNCHANGED answer

Refuse(r) == /\ fate[r] = "open"
             /\ fate' = [fate EXCEPT ![r] = "refused"]
             /\ UNCHANGED answer

\* A caller that takes its job back and returns does both in one step.
RefuseAndReturn(r) == /\ fate[r] = "open"
                      /\ answer[r] = "none"
                      /\ fate' = [fate EXCEPT ![r] = "refused"]
                      /\ answer' = [answer EXCEPT ![r] = "refused"]

Return(r) == /\ answer[r] = "none"
             /\ \/ /\ fate[r] = "ran"
                   /\ answer' = [answer EXCEPT ![r] = "accepted"]
                \/ /\ fate[r] = "refused"
                   /\ answer' = [answer EXCEPT ![r] = "refused"]
                \/ /\ r \notin Waiting
                   /\ answer' = [answer EXCEPT ![r] = "accepted"]
             /\ UNCHANGED fate

Next == \E r \in Requests : \/ Begin(r) \/ Finish(r) \/ Refuse(r)
                            \/ RefuseAndReturn(r) \/ Return(r)

Spec == Init /\ [][Next]_<<fate, answer>>
=============================================================================
