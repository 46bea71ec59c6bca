------------------------------ MODULE MCMarket ------------------------------
EXTENDS Market
CONSTANTS ann, bob, f1, f2

(* Three operations with a failing write or an expiry and a restart; two   *)
(* or one with flushes that overlap and fail.                              *)
MCBudgets ==
    {[ops |-> 3, faults |-> 1, ages |-> 0, flushes |-> 0, restarts |-> 1],
     [ops |-> 3, faults |-> 0, ages |-> 1, flushes |-> 0, restarts |-> 1],
     [ops |-> 2, faults |-> 1, ages |-> 0, flushes |-> 3, restarts |-> 1],
     [ops |-> 1, faults |-> 1, ages |-> 1, flushes |-> 3, restarts |-> 1]}

MCWallets == [bank : Nat, flux : Int]

PlayerSymmetry == Permutations(Players) \cup Permutations(Flushers)
=============================================================================
