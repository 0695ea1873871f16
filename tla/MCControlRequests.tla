------------------------- MODULE MCControlRequests --------------------------
(* Small instances of ControlRequests for TLC. *)
EXTENDS ControlRequests

CONSTANTS p1, p2, o1, o2
=============================================================================
