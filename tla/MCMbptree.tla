------------------------------ MODULE MCMbptree ------------------------------
(***************************************************************************)
(* Instances of Mbptree for TLC.                                           *)
(***************************************************************************)
EXTENDS Mbptree

AppenderSymmetry == Permutations(Appenders)
=============================================================================
