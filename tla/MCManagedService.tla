-------------------------- MODULE MCManagedService --------------------------
(* Small instances of ManagedService for TLC. *)
EXTENDS ManagedService

CONSTANTS p1, p2, o1, o2, s1, s2, k1, k2, r1, r2
=============================================================================
