---------------------------- MODULE SessionFile ----------------------------
(***************************************************************************)
(* The state file of a session: to_mapping() and from_mapping() of         *)
(* DownloadSession, between which the value exists only as JSON.           *)
(*                                                                         *)
(* SessionStore keeps the value itself.  That is justified here: what the  *)
(* store writes is read back after a restart, as the same session.         *)
(* from_mapping() treats the file as untrusted and runs every check of the *)
(* constructor again, on the documents too.                                *)
(***************************************************************************)
EXTENDS SessionStore, Sequences

CONSTANT Null   \* JSON's null

ASSUME NullAssumption == Null \notin Txns \cup Nat \cup ReceiptKinds

(* A document as it is stored: DocumentStagingId.derive() is injective, the   *)
(* provenance repeats the transaction and its number of segments.             *)
Document(s, k) ==
    [staging_id |-> <<s.request, s.txn, k>>, transaction |-> s.txn, segment_count |-> s.total]
DocumentList(s, n) == [k \in 1..n |-> Document(s, k)]

to_mapping(s) ==
    [request_identity |-> s.request,
     phase |-> s.phase,
     transaction_id |-> IF s.txn = NoTxn THEN Null ELSE s.txn,
     next_segment |-> s.next,
     total_segments |-> IF s.total = 0 THEN Null ELSE s.total,
     max_segments |-> MaxSegments,
     revision |-> s.revision,
     receipt_kind |-> IF s.receipt = "none" THEN Null ELSE s.receipt,
     staged_documents |-> DocumentList(s, s.staged),
     published_documents |-> DocumentList(s, s.published)]

(* The arguments from_mapping() passes to the constructor. *)
FromFields(m) ==
    [request |-> m.request_identity,
     phase |-> m.phase,
     txn |-> IF m.transaction_id = Null THEN NoTxn ELSE m.transaction_id,
     next |-> m.next_segment,
     total |-> IF m.total_segments = Null THEN 0 ELSE m.total_segments,
     revision |-> m.revision,
     receipt |-> IF m.receipt_kind = Null THEN "none" ELSE m.receipt_kind,
     staged |-> Len(m.staged_documents),
     published |-> Len(m.published_documents)]

SegmentsInRangeActive(m) ==   \* mutant: a session that has all its segments is refused
    m.total_segments # Null =>
        /\ m.total_segments \in 1..m.max_segments
        /\ m.next_segment <= m.total_segments
SegmentsInRange(m) ==
    m.total_segments # Null =>
        /\ m.total_segments \in 1..m.max_segments
        /\ m.next_segment <= m.total_segments + 1

(* The enumerations and the checks of DownloadSession.__init__. *)
FieldsValid(m) ==
    /\ m.phase \in Phases
    /\ m.receipt_kind \in (ReceiptKinds \ {"none"}) \cup {Null}
    /\ m.next_segment \in Nat \ {0} /\ m.max_segments \in Nat \ {0} /\ m.revision \in Nat
    /\ SegmentsInRange(m)

(* What _validate_coherence compares in the documents themselves. *)
DocumentsValid(m) ==
    LET s == FromFields(m)
    IN  /\ \A k \in 1..Len(m.staged_documents) : m.staged_documents[k] = Document(s, k)
        /\ \A k \in 1..Len(m.published_documents) :
               m.published_documents[k] = m.staged_documents[k]

(* from_mapping() raises otherwise, and so does every operation on the session. *)
Loads(m) == FieldsValid(m) /\ Coherent(FromFields(m)) /\ DocumentsValid(m)

-----------------------------------------------------------------------------
(* Every state file the store ever writes, at whatever point of a session's   *)
(* life the process was lost, is accepted by from_mapping() and yields the    *)
(* session that was stored: its documents, its decision about the receipt     *)
(* and its revision, which the next compare-and-swap has to match.            *)
SurvivesRestart ==
    \A s \in Sessions : state[s] # NoSession =>
        /\ Loads(to_mapping(state[s]))
        /\ FromFields(to_mapping(state[s])) = state[s]
=============================================================================
