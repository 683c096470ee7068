---------------------------- MODULE MCContainer ----------------------------
(***************************************************************************)
(* Instances of Container for TLC.                                         *)
(***************************************************************************)
EXTENDS Container, TLC

ThreadSymmetry == Permutations(Threads)
=============================================================================
