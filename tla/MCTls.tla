------------------------------- MODULE MCTls -------------------------------
(* Tls for TLC: pages are interchangeable. *)
EXTENDS Tls, TLC

PageSymmetry == Permutations(Page)
=============================================================================
