--------------------------- MODULE MCClientStream ---------------------------
(* A small instance of ClientStream for TLC. *)
EXTENDS ClientStream
=============================================================================
