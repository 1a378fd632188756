--------------------------- MODULE MCConductor ------------------------------
(***************************************************************************)
(* Small instances of Conductor: one or two credentials, two or three      *)
(* goroutines.                                                             *)
(***************************************************************************)
EXTENDS Conductor, TLC

CONSTANTS r1, r2, u1

MCSymmetry == Permutations({r1, r2})
=============================================================================
