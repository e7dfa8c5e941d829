----------------------------- MODULE MCSendFlow -----------------------------
(* Small instances of SendFlow for TLC. *)
EXTENDS SendFlow
=============================================================================
