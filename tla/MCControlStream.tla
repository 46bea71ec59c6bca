--------------------------- MODULE MCControlStream ---------------------------
(* One host, three stream slots: a stream, its successor and one more.     *)
EXTENDS ControlStream
CONSTANTS s1, s2, s3
=============================================================================
