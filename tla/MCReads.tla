------------------------------- MODULE MCReads -------------------------------
(* Small instances of MetaReads. *)
EXTENDS MetaReads, TLC

CONSTANTS w1, w2, w3, k1

Symmetric == Permutations({w1, w2, w3})
===============================================================================
