---------------------------- MODULE MCSessionRoutes ---------------------------
(* Two hosts and four cells: two cells share a host, so that a player can  *)
(* move within a host as well as between hosts, and a fourth comes up when *)
(* one of them is split or merged.                                         *)
EXTENDS SessionRoutes, TLC

CONSTANTS h1, h2, c1, c2, c3, c4

TwoHosts == c1 :> h1 @@ c2 :> h1 @@ c3 :> h2 @@ c4 :> Nobody
=============================================================================
