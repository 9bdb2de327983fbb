--------------------------- MODULE MCSessionStore ---------------------------
(* Model-checking instance of SessionStore and SessionFile. *)
EXTENDS SessionFile, TLC

Symmetry == Permutations(Workers) \cup Permutations(Sessions) \cup Permutations(Txns) \cup Permutations(Requests)
=============================================================================
