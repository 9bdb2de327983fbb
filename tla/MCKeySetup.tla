----------------------------- MODULE MCKeySetup -----------------------------
(* Model-checking instance of KeySetup. *)
EXTENDS KeySetup, TLC

Symmetry == Permutations(KeyPairs)
=============================================================================
