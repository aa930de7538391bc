------------------------------- MODULE MCImdn -------------------------------
(***************************************************************************)
(* Module Imdn for TLC.  Messages only differ by their names.              *)
(***************************************************************************)
EXTENDS Imdn, TLC

MessageSymmetry == Permutations(Message)
=============================================================================
