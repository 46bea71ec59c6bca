----------------------------- MODULE MCLoopQueue -----------------------------
(***************************************************************************)
(* Two RunOnLoop calls from other goroutines, the closure of one of which  *)
(* calls RunOnLoop itself, and one SubmitLoopJob call.                     *)
(***************************************************************************)
EXTENDS LoopQueue

CONSTANTS w1, w2, n1, s1, none

Calls == {w1, w2, n1, s1}
RunOnLoopCalls == {w1, w2, n1}
Nesting == [r \in Calls |-> IF r = w1 THEN n1 ELSE none]
=============================================================================
