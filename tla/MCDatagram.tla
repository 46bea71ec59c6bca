----------------------------- MODULE MCDatagram -----------------------------
(* Datagram for model checking: a fresh session, a session whose sequence  *)
(* numbers are about to wrap, and a short one that several goroutines end. *)
EXTENDS Datagram

MCScenes ==
    {[start |-> 0, msgs |-> 4, enders |-> {}],
     [start |-> 10, msgs |-> 3, enders |-> {}],
     [start |-> 0, msgs |-> 1, enders |-> Enders]}
=============================================================================
