------------------------- MODULE MCWaylandSurfaces -------------------------
(* A small instance of WaylandSurfaces.  Slots are interchangeable. *)
EXTENDS WaylandSurfaces, TLC

SlotSymmetry == Permutations(Slots)
=============================================================================
