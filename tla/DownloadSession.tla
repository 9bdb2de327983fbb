-------------------------- MODULE DownloadSession --------------------------
(***************************************************************************)
(* The immutable DownloadSession value of models.py and its transitions.   *)
(*                                                                         *)
(* A transition is a pair of operators: CanX(s), the conditions under      *)
(* which the method does not raise ConfigurationError, and X(s), the       *)
(* session it returns.  A session names its documents only by position:    *)
(* the code derives every staging ID from the request, the transaction and *)
(* the position, so the number of staged documents identifies them all.    *)
(* The session ID is the key under which a store keeps the value.          *)
(***************************************************************************)
EXTENDS Naturals

CONSTANTS
    Requests,      \* hidden identities of download requests
    Txns,          \* bank transaction IDs
    NoTxn,         \* transaction_id is None
    NoSession,     \* a store holds no state for the session ID
    MaxSegments,   \* ProtocolLimits.max_segments
    MaxDocuments   \* ProtocolLimits.max_zip_members

ASSUME SessionAssumption ==
    /\ MaxSegments \in Nat \ {0}
    /\ MaxDocuments \in Nat \ {0}
    /\ NoTxn \notin Txns

(* DownloadPhase *)
ReceivePhases == {"new", "initialized", "receiving_segments", "segments_received",
                  "signatures_and_digests_verified"}
ProcessPhases == {"decrypted", "container_verified"}
UncertainPhases == {"receipt_pending", "receipt_ambiguous", "receipt_response_verified"}
PublishedPhases == {"documents_published", "complete"}
TerminalPhases == {"complete", "negative_complete", "failed"}
Phases == ReceivePhases \cup ProcessPhases \cup {"documents_staged"}
            \cup UncertainPhases \cup PublishedPhases \cup TerminalPhases

(* ReceiptKind, with "none" for None *)
ReceiptKinds == {"none", "positive", "negative"}

(* total = 0 stands for total_segments = None *)
Session == [request: Requests, phase: Phases, txn: Txns \cup {NoTxn},
            next: 1..(MaxSegments + 1), total: 0..MaxSegments, revision: Nat,
            receipt: ReceiptKinds, staged: 0..MaxDocuments, published: 0..MaxDocuments]

start(r) ==
    [request |-> r, phase |-> "new", txn |-> NoTxn, next |-> 1, total |-> 0,
     revision |-> 0, receipt |-> "none", staged |-> 0, published |-> 0]

(* _advance: every transition takes exactly one revision *)
Advance(s, phase) == [s EXCEPT !.phase = phase, !.revision = s.revision + 1]

CanInitialize(s, t, n) == s.phase = "new" /\ n \in 1..MaxSegments

InitializeZeroBased(s, t, n) ==   \* mutant: segments are counted from zero
    [Advance(s, "initialized") EXCEPT !.txn = t, !.next = 0, !.total = n]

initialize(s, t, n) ==
    [Advance(s, "initialized") EXCEPT !.txn = t, !.next = 1, !.total = n]

CanRecordSegment(s) == s.phase \in {"initialized", "receiving_segments"}
record_segment(s) ==
    [Advance(s, IF s.next = s.total THEN "segments_received" ELSE "receiving_segments")
        EXCEPT !.next = s.next + 1]

CanMarkVerified(s) == s.phase = "segments_received"
mark_signatures_and_digests_verified(s) == Advance(s, "signatures_and_digests_verified")

CanMarkDecrypted(s) == s.phase = "signatures_and_digests_verified"
mark_decrypted(s) == Advance(s, "decrypted")

CanMarkContainerVerified(s) == s.phase = "decrypted"
mark_container_verified(s) == Advance(s, "container_verified")

CanMarkDocumentsStaged(s, n) == s.phase = "container_verified" /\ n \in 1..MaxDocuments
mark_documents_staged(s, n) == [Advance(s, "documents_staged") EXCEPT !.staged = n]

CanMarkPositivePending(s) == s.phase = "documents_staged"
mark_positive_receipt_pending(s) ==
    [Advance(s, "receipt_pending") EXCEPT !.receipt = "positive"]

CanMarkNegativePending(s) ==
    s.phase \in {"segments_received", "signatures_and_digests_verified",
                 "decrypted", "container_verified"}
mark_negative_receipt_pending(s) ==
    [Advance(s, "receipt_pending") EXCEPT !.receipt = "negative"]

CanMarkAmbiguous(s) == s.phase = "receipt_pending"
mark_receipt_ambiguous(s) == Advance(s, "receipt_ambiguous")

CanMarkResponseVerified(s) == s.phase \in {"receipt_pending", "receipt_ambiguous"}
mark_receipt_response_verified(s) == Advance(s, "receipt_response_verified")

(* The published documents must be exactly the staged ones, one by one. *)
CanMarkPublished(s, n) ==
    s.phase = "receipt_response_verified" /\ s.receipt = "positive" /\ n = s.staged
mark_documents_published(s, n) ==
    [Advance(s, "documents_published") EXCEPT !.published = n]

CanFinish(s) ==
    IF s.receipt = "positive" THEN s.phase = "documents_published"
                              ELSE s.phase = "receipt_response_verified"
FinishAlwaysComplete(s) == Advance(s, "complete")   \* mutant: the receipt kind is ignored

finish(s) ==
    Advance(s, IF s.receipt = "positive" THEN "complete" ELSE "negative_complete")

CanFailAgain(s) ==   \* mutant: a failed session may fail again
    s.phase \in ReceivePhases \cup ProcessPhases \cup {"failed"}

CanFail(s) == s.phase \in ReceivePhases \cup ProcessPhases
fail(s) == [Advance(s, "failed") EXCEPT !.staged = 0, !.published = 0]

(* Exactly the sessions some transition other than initialize produces. *)
is_exact_successor_of(new, s) ==
    \/ CanRecordSegment(s) /\ new = record_segment(s)
    \/ CanMarkVerified(s) /\ new = mark_signatures_and_digests_verified(s)
    \/ CanMarkDecrypted(s) /\ new = mark_decrypted(s)
    \/ CanMarkContainerVerified(s) /\ new = mark_container_verified(s)
    \/ CanMarkDocumentsStaged(s, new.staged) /\ new = mark_documents_staged(s, new.staged)
    \/ CanMarkPositivePending(s) /\ new = mark_positive_receipt_pending(s)
    \/ CanMarkNegativePending(s) /\ new = mark_negative_receipt_pending(s)
    \/ CanMarkAmbiguous(s) /\ new = mark_receipt_ambiguous(s)
    \/ CanMarkResponseVerified(s) /\ new = mark_receipt_response_verified(s)
    \/ CanMarkPublished(s, new.published) /\ new = mark_documents_published(s, new.published)
    \/ CanFinish(s) /\ new = finish(s)
    \/ CanFail(s) /\ new = fail(s)

(* Every value a caller can build from s with a transition method. *)
Successors(s) ==
    {n \in {record_segment(s), mark_signatures_and_digests_verified(s), mark_decrypted(s),
            mark_container_verified(s), mark_positive_receipt_pending(s),
            mark_negative_receipt_pending(s), mark_receipt_ambiguous(s),
            mark_receipt_response_verified(s), mark_documents_published(s, s.staged),
            finish(s), fail(s)}
           \cup {mark_documents_staged(s, k) : k \in 1..MaxDocuments} :
        is_exact_successor_of(n, s)}

(***************************************************************************)
(* _validate_coherence, run by every construction: the method raises       *)
(* unless this holds, so a transition that broke it would be unusable.     *)
(***************************************************************************)
CoherentBeforeTransaction(s) ==
    /\ s.txn = NoTxn /\ s.total = 0 /\ s.next = 1 /\ s.receipt = "none"
    /\ s.staged = 0 /\ s.published = 0

SegmentsCoherent(s) ==
    /\ s.total \in 1..MaxSegments /\ s.next \in 1..(s.total + 1)
    /\ s.phase = "initialized" => s.next = 1
    /\ s.phase = "receiving_segments" => s.next >= 2
    /\ s.phase \notin {"initialized", "receiving_segments", "failed"} => s.next = s.total + 1
    /\ s.phase \in {"initialized", "receiving_segments"} => s.next <= s.total

ReceiptCoherent(s) ==
    /\ (s.phase \in UncertainPhases \cup PublishedPhases \cup {"negative_complete"})
          <=> (s.receipt # "none")
    /\ s.phase = "complete" => s.receipt = "positive"
    /\ s.phase = "negative_complete" => s.receipt = "negative"

DocumentsCoherent(s) ==
    /\ (s.staged # 0) <=>
          IF s.phase \in UncertainPhases THEN s.receipt = "positive"
          ELSE s.phase \in {"documents_staged"} \cup PublishedPhases
    /\ (s.published # 0) <=> (s.phase \in PublishedPhases)
    /\ s.published # 0 => s.published = s.staged

Coherent(s) ==
    IF s.phase = "new" \/ (s.phase = "failed" /\ s.txn = NoTxn)
    THEN CoherentBeforeTransaction(s)
    ELSE /\ s.txn # NoTxn
         /\ SegmentsCoherent(s)
         /\ ReceiptCoherent(s)
         /\ DocumentsCoherent(s)
=============================================================================
