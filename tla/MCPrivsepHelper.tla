--------------------------- MODULE MCPrivsepHelper ---------------------------
(* Small instance of PrivsepHelper: the helper against an arbitrary core. *)
EXTENDS PrivsepHelper, TLC

CONSTANTS r1, r2

MCRegions == {r1, r2}

MCSymmetry == Permutations(MCRegions)

=============================================================================
