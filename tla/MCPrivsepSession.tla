--------------------------- MODULE MCPrivsepSession ---------------------------
(* Small instances of PrivsepSession. *)
EXTENDS PrivsepSession
=============================================================================
