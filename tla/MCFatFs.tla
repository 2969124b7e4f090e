------------------------------ MODULE MCFatFs ------------------------------
(* FatFs for TLC: file names are interchangeable. *)
EXTENDS FatFs, TLC

NameSymmetry == Permutations(Names)
=============================================================================
