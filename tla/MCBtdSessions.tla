--------------------------- MODULE MCBtdSessions ---------------------------
(* A model-checking instance of BtdDownload with several sessions: every     *)
(* transaction is one segment with one document.                             *)
EXTENDS BtdDownload, TLC

MCTotal == [t \in Txns |-> 1]
MCDocuments == [t \in Txns |-> 1]

Symmetry == Permutations(Workers) \cup Permutations(Sessions)
              \cup Permutations(Txns) \cup Permutations(Requests)
=============================================================================
