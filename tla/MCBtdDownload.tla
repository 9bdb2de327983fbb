--------------------------- MODULE MCBtdDownload ---------------------------
(* Model-checking instances of BtdDownload: values for its constants. *)
EXTENDS BtdDownload, TLC

CONSTANTS t1, t2

(* One transaction of a single segment and document, one of two. *)
MCTotal == [t \in Txns |-> IF t = t1 THEN 1 ELSE 2]
MCDocuments == [t \in Txns |-> IF t = t1 THEN 1 ELSE 2]

Symmetry == Permutations(Workers) \cup Permutations(Requests)
=============================================================================
