------------------------- MODULE MCMetadataDiscovery -------------------------
(* Model-checking instances of MetadataDiscovery. *)
EXTENDS MetadataDiscovery

CONSTANT t1

(* One transaction of MaxSegments segments, the others of one. *)
MCBankTotal == [t \in Txns |-> IF t = t1 THEN MaxSegments ELSE 1]

Symmetry == Permutations(Calls) \cup Permutations({t \in Txns : MCBankTotal[t] = 1})
=============================================================================
