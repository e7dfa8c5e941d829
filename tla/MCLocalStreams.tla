--------------------------- MODULE MCLocalStreams ---------------------------
(* Small instances of LocalStreams for TLC. *)
EXTENDS LocalStreams
=============================================================================
