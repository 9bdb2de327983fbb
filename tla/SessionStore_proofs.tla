------------------------ MODULE SessionStore_proofs ------------------------
(***************************************************************************)
(* Proofs about DownloadSession, SessionStore and SessionFile, for any     *)
(* sets of requests, transactions, sessions and workers and any positive   *)
(* limits.                                                                 *)
(***************************************************************************)
EXTENDS SessionFile, TLAPS

(* One step of _advance: a session in the new phase, one revision on, and     *)
(* nothing else changed.                                                      *)
LEMMA AdvanceFields ==
    ASSUME NEW s \in Session, NEW phase \in Phases
    PROVE  LET a == Advance(s, phase)
           IN  /\ a \in Session
               /\ a.phase = phase /\ a.revision = s.revision + 1
               /\ a.request = s.request /\ a.txn = s.txn
               /\ a.next = s.next /\ a.total = s.total
               /\ a.receipt = s.receipt /\ a.staged = s.staged /\ a.published = s.published
<1>1. s.revision + 1 \in Nat
  BY DEF Session
<1>2. Advance(s, phase) \in Session
  BY <1>1 DEF Advance, Session
<1> QED
  BY <1>2 DEF Advance, Session

(* The transitions of models.py keep a session well formed: from a coherent   *)
(* session each of them builds a value its own constructor accepts.           *)
LEMMA SuccessorCoherent ==
    ASSUME NEW s \in Session, Coherent(s),
           NEW new, is_exact_successor_of(new, s)
    PROVE  new \in Session /\ Coherent(new)
<1> USE SessionAssumption
<1> DEFINE A(phase) == Advance(s, phase)
           F(phase, a) == /\ a \in Session
               /\ a.phase = phase /\ a.revision = s.revision + 1
               /\ a.request = s.request /\ a.txn = s.txn
               /\ a.next = s.next /\ a.total = s.total
               /\ a.receipt = s.receipt /\ a.staged = s.staged /\ a.published = s.published
<1>a. \A phase \in Phases : F(phase, A(phase))
  BY AdvanceFields
<1>b. \A phase \in {"receiving_segments", "segments_received", "decrypted",
         "signatures_and_digests_verified", "container_verified", "documents_staged",
         "receipt_pending", "receipt_ambiguous", "receipt_response_verified",
         "documents_published", "complete", "negative_complete", "failed"} :
        F(phase, A(phase))
  BY <1>a DEF Phases, ReceivePhases, ProcessPhases, UncertainPhases, PublishedPhases,
              TerminalPhases
<1> HIDE DEF A
<1>1. CASE CanRecordSegment(s) /\ new = record_segment(s)
  <2>1. s.next \in 1..s.total /\ s.total \in 1..MaxSegments /\ s.phase \in {"initialized", "receiving_segments"}
        /\ s.txn # NoTxn /\ s.receipt = "none" /\ s.staged = 0 /\ s.published = 0
    BY <1>1 DEF CanRecordSegment, Coherent, SegmentsCoherent, ReceiptCoherent,
                DocumentsCoherent, UncertainPhases, PublishedPhases, Session, ReceiptKinds
  <2>2. PICK phase \in {"receiving_segments", "segments_received"} :
            /\ phase = IF s.next = s.total THEN "segments_received" ELSE "receiving_segments"
            /\ new = [A(phase) EXCEPT !.next = s.next + 1]
    BY <1>1 DEF record_segment, A
  <2>3. F(phase, A(phase)) /\ s.next + 1 \in 1..(MaxSegments + 1)
    BY <1>b, <2>1
  <2>4. /\ new \in Session /\ new.next = s.next + 1 /\ new.phase = phase
        /\ new.txn = s.txn /\ new.total = s.total /\ new.receipt = s.receipt
        /\ new.staged = s.staged /\ new.published = s.published
    BY <2>2, <2>3 DEF Session
  <2>5. Coherent(new)
    BY <2>1, <2>2, <2>4 DEF Coherent, CoherentBeforeTransaction, SegmentsCoherent,
       ReceiptCoherent, DocumentsCoherent, UncertainPhases, PublishedPhases
  <2> QED BY <2>4, <2>5
<1>2. CASE CanMarkVerified(s) /\ new = mark_signatures_and_digests_verified(s)
  <2>1. /\ s.txn # NoTxn /\ s.total \in 1..MaxSegments /\ s.next = s.total + 1
        /\ s.receipt = "none" /\ s.staged = 0 /\ s.published = 0
    BY <1>2 DEF CanMarkVerified, Coherent, SegmentsCoherent, ReceiptCoherent,
       DocumentsCoherent, UncertainPhases, PublishedPhases, Session, ReceiptKinds
  <2>2. new = A("signatures_and_digests_verified") /\ F("signatures_and_digests_verified", A("signatures_and_digests_verified"))
    BY <1>2, <1>b DEF mark_signatures_and_digests_verified, A
  <2>3. Coherent(new)
    BY <2>1, <2>2 DEF Coherent, CoherentBeforeTransaction, SegmentsCoherent,
       ReceiptCoherent, DocumentsCoherent, UncertainPhases, PublishedPhases
  <2> QED BY <2>2, <2>3
<1>3. CASE CanMarkDecrypted(s) /\ new = mark_decrypted(s)
  <2>1. /\ s.txn # NoTxn /\ s.total \in 1..MaxSegments /\ s.next = s.total + 1
        /\ s.receipt = "none" /\ s.staged = 0 /\ s.published = 0
    BY <1>3 DEF CanMarkDecrypted, Coherent, SegmentsCoherent, ReceiptCoherent,
       DocumentsCoherent, UncertainPhases, PublishedPhases, Session, ReceiptKinds
  <2>2. new = A("decrypted") /\ F("decrypted", A("decrypted"))
    BY <1>3, <1>b DEF mark_decrypted, A
  <2>3. Coherent(new)
    BY <2>1, <2>2 DEF Coherent, CoherentBeforeTransaction, SegmentsCoherent,
       ReceiptCoherent, DocumentsCoherent, UncertainPhases, PublishedPhases
  <2> QED BY <2>2, <2>3
<1>4. CASE CanMarkContainerVerified(s) /\ new = mark_container_verified(s)
  <2>1. /\ s.txn # NoTxn /\ s.total \in 1..MaxSegments /\ s.next = s.total + 1
        /\ s.receipt = "none" /\ s.staged = 0 /\ s.published = 0
    BY <1>4 DEF CanMarkContainerVerified, Coherent, SegmentsCoherent, ReceiptCoherent,
       DocumentsCoherent, UncertainPhases, PublishedPhases, Session, ReceiptKinds
  <2>2. new = A("container_verified") /\ F("container_verified", A("container_verified"))
    BY <1>4, <1>b DEF mark_container_verified, A
  <2>3. Coherent(new)
    BY <2>1, <2>2 DEF Coherent, CoherentBeforeTransaction, SegmentsCoherent,
       ReceiptCoherent, DocumentsCoherent, UncertainPhases, PublishedPhases
  <2> QED BY <2>2, <2>3
<1>5. CASE CanMarkDocumentsStaged(s, new.staged) /\ new = mark_documents_staged(s, new.staged)
  <2>1. /\ s.txn # NoTxn /\ s.total \in 1..MaxSegments /\ s.next = s.total + 1
        /\ s.receipt = "none" /\ s.staged = 0 /\ s.published = 0 /\ new.staged \in 1..MaxDocuments
    BY <1>5 DEF CanMarkDocumentsStaged, Coherent, SegmentsCoherent, ReceiptCoherent,
       DocumentsCoherent, UncertainPhases, PublishedPhases, Session, ReceiptKinds
  <2>2. new = [A("documents_staged") EXCEPT !.staged = new.staged] /\ F("documents_staged", A("documents_staged"))
    BY <1>5, <1>b DEF mark_documents_staged, A
  <2>3. /\ new \in Session /\ new.phase = "documents_staged"
        /\ new.txn = s.txn /\ new.next = s.next /\ new.total = s.total /\ new.receipt = s.receipt /\ new.published = s.published
    BY <2>1, <2>2 DEF Session, ReceiptKinds
  <2>4. Coherent(new)
    BY <2>1, <2>2, <2>3 DEF Coherent, CoherentBeforeTransaction, SegmentsCoherent,
       ReceiptCoherent, DocumentsCoherent, UncertainPhases, PublishedPhases
  <2> QED BY <2>3, <2>4
<1>6. CASE CanMarkPositivePending(s) /\ new = mark_positive_receipt_pending(s)
  <2>1. /\ s.txn # NoTxn /\ s.total \in 1..MaxSegments /\ s.next = s.total + 1
        /\ s.staged \in 1..MaxDocuments /\ s.published = 0
    BY <1>6 DEF CanMarkPositivePending, Coherent, SegmentsCoherent, ReceiptCoherent,
       DocumentsCoherent, UncertainPhases, PublishedPhases, Session, ReceiptKinds
  <2>2. new = [A("receipt_pending") EXCEPT !.receipt = "positive"] /\ F("receipt_pending", A("receipt_pending"))
    BY <1>6, <1>b DEF mark_positive_receipt_pending, A
  <2>3. /\ new \in Session /\ new.phase = "receipt_pending" /\ new.receipt = "positive"
        /\ new.txn = s.txn /\ new.next = s.next /\ new.total = s.total /\ new.staged = s.staged /\ new.published = s.published
    BY <2>1, <2>2 DEF Session, ReceiptKinds
  <2>4. Coherent(new)
    BY <2>1, <2>2, <2>3 DEF Coherent, CoherentBeforeTransaction, SegmentsCoherent,
       ReceiptCoherent, DocumentsCoherent, UncertainPhases, PublishedPhases
  <2> QED BY <2>3, <2>4
<1>7. CASE CanMarkNegativePending(s) /\ new = mark_negative_receipt_pending(s)
  <2>1. /\ s.txn # NoTxn /\ s.total \in 1..MaxSegments /\ s.next = s.total + 1
        /\ s.receipt = "none" /\ s.staged = 0 /\ s.published = 0
    BY <1>7 DEF CanMarkNegativePending, Coherent, SegmentsCoherent, ReceiptCoherent,
       DocumentsCoherent, UncertainPhases, PublishedPhases, Session, ReceiptKinds
  <2>2. new = [A("receipt_pending") EXCEPT !.receipt = "negative"] /\ F("receipt_pending", A("receipt_pending"))
    BY <1>7, <1>b DEF mark_negative_receipt_pending, A
  <2>3. /\ new \in Session /\ new.phase = "receipt_pending" /\ new.receipt = "negative"
        /\ new.txn = s.txn /\ new.next = s.next /\ new.total = s.total /\ new.staged = s.staged /\ new.published = s.published
    BY <2>1, <2>2 DEF Session, ReceiptKinds
  <2>4. Coherent(new)
    BY <2>1, <2>2, <2>3 DEF Coherent, CoherentBeforeTransaction, SegmentsCoherent,
       ReceiptCoherent, DocumentsCoherent, UncertainPhases, PublishedPhases
  <2> QED BY <2>3, <2>4
<1>8. CASE CanMarkAmbiguous(s) /\ new = mark_receipt_ambiguous(s)
  <2>1. /\ s.txn # NoTxn /\ s.total \in 1..MaxSegments /\ s.next = s.total + 1
        /\ s.receipt \in {"positive", "negative"} /\ s.published = 0
        /\ (s.staged # 0) <=> (s.receipt = "positive")
    BY <1>8 DEF CanMarkAmbiguous, Coherent, SegmentsCoherent, ReceiptCoherent,
       DocumentsCoherent, UncertainPhases, PublishedPhases, Session, ReceiptKinds
  <2>2. new = A("receipt_ambiguous") /\ F("receipt_ambiguous", A("receipt_ambiguous"))
    BY <1>8, <1>b DEF mark_receipt_ambiguous, A
  <2>3. Coherent(new)
    BY <2>1, <2>2 DEF Coherent, CoherentBeforeTransaction, SegmentsCoherent,
       ReceiptCoherent, DocumentsCoherent, UncertainPhases, PublishedPhases
  <2> QED BY <2>2, <2>3
<1>9. CASE CanMarkResponseVerified(s) /\ new = mark_receipt_response_verified(s)
  <2>1. /\ s.txn # NoTxn /\ s.total \in 1..MaxSegments /\ s.next = s.total + 1
        /\ s.receipt \in {"positive", "negative"} /\ s.published = 0
        /\ (s.staged # 0) <=> (s.receipt = "positive")
    BY <1>9 DEF CanMarkResponseVerified, Coherent, SegmentsCoherent, ReceiptCoherent,
       DocumentsCoherent, UncertainPhases, PublishedPhases, Session, ReceiptKinds
  <2>2. new = A("receipt_response_verified") /\ F("receipt_response_verified", A("receipt_response_verified"))
    BY <1>9, <1>b DEF mark_receipt_response_verified, A
  <2>3. Coherent(new)
    BY <2>1, <2>2 DEF Coherent, CoherentBeforeTransaction, SegmentsCoherent,
       ReceiptCoherent, DocumentsCoherent, UncertainPhases, PublishedPhases
  <2> QED BY <2>2, <2>3
<1>10. CASE CanMarkPublished(s, new.published) /\ new = mark_documents_published(s, new.published)
  <2>1. /\ s.txn # NoTxn /\ s.total \in 1..MaxSegments /\ s.next = s.total + 1
        /\ s.receipt = "positive" /\ s.staged \in 1..MaxDocuments /\ new.published = s.staged
    BY <1>10 DEF CanMarkPublished, Coherent, SegmentsCoherent, ReceiptCoherent,
       DocumentsCoherent, UncertainPhases, PublishedPhases, Session, ReceiptKinds
  <2>2. new = [A("documents_published") EXCEPT !.published = new.published] /\ F("documents_published", A("documents_published"))
    BY <1>10, <1>b DEF mark_documents_published, A
  <2>3. /\ new \in Session /\ new.phase = "documents_published"
        /\ new.txn = s.txn /\ new.next = s.next /\ new.total = s.total /\ new.receipt = s.receipt /\ new.staged = s.staged
    BY <2>1, <2>2 DEF Session, ReceiptKinds
  <2>4. Coherent(new)
    BY <2>1, <2>2, <2>3 DEF Coherent, CoherentBeforeTransaction, SegmentsCoherent,
       ReceiptCoherent, DocumentsCoherent, UncertainPhases, PublishedPhases
  <2> QED BY <2>3, <2>4
<1>11. CASE CanFinish(s) /\ new = finish(s)
  <2>1. /\ s.txn # NoTxn /\ s.total \in 1..MaxSegments /\ s.next = s.total + 1
        /\ \/ /\ s.receipt = "positive" /\ s.phase = "documents_published"
              /\ s.staged # 0 /\ s.published = s.staged
           \/ /\ s.receipt = "negative" /\ s.phase = "receipt_response_verified"
              /\ s.staged = 0 /\ s.published = 0
    BY <1>11 DEF CanFinish, Coherent, SegmentsCoherent, ReceiptCoherent,
       DocumentsCoherent, UncertainPhases, PublishedPhases, Session, ReceiptKinds
  <2>2. PICK phase \in {"complete", "negative_complete"} :
            /\ phase = IF s.receipt = "positive" THEN "complete" ELSE "negative_complete"
            /\ new = A(phase)
    BY <1>11 DEF finish, A
  <2>3. F(phase, A(phase))
    BY <1>b
  <2>4. Coherent(new)
    BY <2>1, <2>2, <2>3 DEF Coherent, CoherentBeforeTransaction, SegmentsCoherent,
       ReceiptCoherent, DocumentsCoherent, UncertainPhases, PublishedPhases
  <2> QED BY <2>2, <2>3, <2>4
<1>12. CASE CanFail(s) /\ new = fail(s)
  <2>1. new = [A("failed") EXCEPT !.staged = 0, !.published = 0] /\ F("failed", A("failed"))
    BY <1>12, <1>b DEF fail, A
  <2>2. /\ new \in Session /\ new.phase = "failed" /\ new.staged = 0 /\ new.published = 0
        /\ new.txn = s.txn /\ new.next = s.next /\ new.total = s.total /\ new.receipt = s.receipt
    <3> DEFINE a == A("failed")
               b == [a EXCEPT !.staged = 0]
    <3>1. 0 \in 0..MaxDocuments
      OBVIOUS
    <3>2. b \in Session /\ b.staged = 0
          /\ b.phase = "failed" /\ b.txn = s.txn /\ b.next = s.next /\ b.total = s.total
          /\ b.receipt = s.receipt
      BY <2>1, <3>1 DEF Session
    <3>3. new = [b EXCEPT !.published = 0]
      BY <2>1, <3>2 DEF Session
    <3> HIDE DEF b
    <3> QED BY <3>1, <3>2, <3>3 DEF Session
  <2>3. /\ s.receipt = "none" /\ s.total \in Nat /\ s.next \in Nat
        /\ IF s.txn = NoTxn THEN s.total = 0 /\ s.next = 1
           ELSE s.total \in 1..MaxSegments /\ s.next \in 1..(s.total + 1)
    BY <1>12 DEF CanFail, CoherentBeforeTransaction, ReceivePhases, ProcessPhases,
       Coherent, SegmentsCoherent, ReceiptCoherent,
       DocumentsCoherent, UncertainPhases, PublishedPhases, Session, ReceiptKinds
  <2>4. Coherent(new)
    BY <2>2, <2>3 DEF Coherent, CoherentBeforeTransaction, SegmentsCoherent,
       ReceiptCoherent, DocumentsCoherent, UncertainPhases, PublishedPhases
  <2> QED BY <2>2, <2>4
<1> QED
  BY <1>1, <1>2, <1>3, <1>4, <1>5, <1>6, <1>7, <1>8, <1>9, <1>10, <1>11, <1>12
  DEF is_exact_successor_of

(* A successor stays with its request's commitments: there is none from a     *)
(* terminal phase, and a receipt kind once chosen is kept.                    *)
LEMMA SuccessorCommitted ==
    ASSUME NEW s \in Session, Coherent(s),
           NEW new, is_exact_successor_of(new, s)
    PROVE  /\ s.phase \notin TerminalPhases
           /\ s.receipt # "none" => new.receipt = s.receipt
<1> DEFINE Kept == s.receipt # "none" => new.receipt = s.receipt
<1>1. s.phase \notin TerminalPhases
  BY DEF is_exact_successor_of, TerminalPhases, CanRecordSegment, CanMarkVerified,
     CanMarkDecrypted, CanMarkContainerVerified, CanMarkDocumentsStaged,
     CanMarkPositivePending, CanMarkNegativePending, CanMarkAmbiguous,
     CanMarkResponseVerified, CanMarkPublished, CanFinish, CanFail, ReceivePhases,
     ProcessPhases
<1>2. CASE s.phase \in ReceivePhases \cup ProcessPhases \cup {"documents_staged"}
  <2>1. s.receipt = "none"
    BY <1>2 DEF Coherent, CoherentBeforeTransaction, ReceiptCoherent, ReceivePhases,
       ProcessPhases, UncertainPhases, PublishedPhases, Session, ReceiptKinds
  <2> QED BY <1>1, <2>1
<1>3. CASE s.phase \notin ReceivePhases \cup ProcessPhases \cup {"documents_staged"}
  <2>1. \/ new = mark_receipt_ambiguous(s)
        \/ new = mark_receipt_response_verified(s)
        \/ new = mark_documents_published(s, new.published)
        \/ new = finish(s)
    BY <1>3 DEF is_exact_successor_of, CanRecordSegment, CanMarkVerified,
       CanMarkDecrypted, CanMarkContainerVerified, CanMarkDocumentsStaged,
       CanMarkPositivePending, CanMarkNegativePending, CanFail, ReceivePhases,
       ProcessPhases
  <2>2. ASSUME NEW phase, NEW n
        PROVE  /\ Advance(s, phase).receipt = s.receipt
               /\ [Advance(s, phase) EXCEPT !.published = n].receipt = s.receipt
    BY DEF Advance, Session
  <2> QED BY <1>1, <2>1, <2>2 DEF mark_receipt_ambiguous, mark_receipt_response_verified,
             mark_documents_published, finish
<1> QED BY <1>2, <1>3

(* DownloadSession.start and initialize build coherent sessions too.          *)
LEMMA StartCoherent ==
    ASSUME NEW r \in Requests
    PROVE  start(r) \in Session /\ Coherent(start(r)) /\ start(r).txn = NoTxn
<1> USE SessionAssumption
<1>1. start(r) \in Session
  BY DEF start, Session, Phases, ReceivePhases, ReceiptKinds
<1> QED BY <1>1 DEF start, Coherent, CoherentBeforeTransaction

LEMMA InitializeCoherent ==
    ASSUME NEW s \in Session, Coherent(s), NEW t \in Txns, NEW n \in 1..MaxSegments,
           s.phase = "new"
    PROVE  LET new == initialize(s, t, n)
           IN  /\ new \in Session /\ Coherent(new) /\ new.txn = t
               /\ new.request = s.request /\ new.receipt = "none" /\ s.receipt = "none"
<1> USE SessionAssumption
<1> DEFINE new == initialize(s, t, n)
<1>1. s.receipt = "none" /\ s.staged = 0 /\ s.published = 0
  BY DEF Coherent, CoherentBeforeTransaction
<1>2. "initialized" \in Phases /\ s.revision + 1 \in Nat /\ 1 \in 1..(MaxSegments + 1)
      /\ n \in 0..MaxSegments
  BY DEF Phases, ReceivePhases, Session
<1> DEFINE a == Advance(s, "initialized")
           b == [a EXCEPT !.txn = t]
           c == [b EXCEPT !.next = 1]
<1>3. /\ a \in Session /\ a.phase = "initialized" /\ a.request = s.request
      /\ a.receipt = s.receipt /\ a.staged = s.staged /\ a.published = s.published
  BY <1>2, AdvanceFields
<1> HIDE DEF a
<1>4. /\ b \in Session /\ b.phase = "initialized" /\ b.request = s.request /\ b.txn = t
      /\ b.receipt = s.receipt /\ b.staged = s.staged /\ b.published = s.published
  BY <1>3 DEF Session
<1>5. /\ c \in Session /\ c.phase = "initialized" /\ c.request = s.request /\ c.txn = t
      /\ c.receipt = s.receipt /\ c.staged = s.staged /\ c.published = s.published
      /\ c.next = 1
  BY <1>2, <1>4 DEF Session
<1>6. new = [c EXCEPT !.total = n]
  BY <1>3 DEF initialize, a, Session
<1> HIDE DEF new, b, c
<1>7. /\ new \in Session /\ new.phase = "initialized" /\ new.request = s.request
      /\ new.txn = t /\ new.receipt = s.receipt /\ new.staged = s.staged
      /\ new.published = s.published /\ new.next = 1 /\ new.total = n
  BY <1>2, <1>5, <1>6 DEF Session
<1>8. Coherent(new)
  BY <1>1, <1>7 DEF Coherent, SegmentsCoherent, ReceiptCoherent, DocumentsCoherent,
     UncertainPhases, PublishedPhases
<1> QED BY <1>1, <1>7, <1>8 DEF new

-----------------------------------------------------------------------------
(* The inductive invariant.  None of the three parts is inductive alone: the  *)
(* type of a successor needs coherence (next stays within total + 1), and     *)
(* uniqueness of a transaction needs its claim to be on file.                 *)
StoreInv == StoreTypeOK /\ SessionsCoherent /\ OneSessionPerTransaction

(* Session s comes to hold v: what every write of the store has in common.    *)
TxnIn(v) == IF v = NoSession THEN NoTxn ELSE v.txn

Write(s, v) ==
    /\ state' = [state EXCEPT ![s] = v]
    /\ lock[s] \in Workers /\ lock[s] \notin expired
    /\ v \in Session \cup {NoSession}
    /\ v # NoSession => Coherent(v)
    /\ TxnIn(v) \in {NoTxn, TxnOf(s)} \/ TxnIn(v) \in claims' \ claims
    /\ state[s] # NoSession /\ v # NoSession =>
          /\ v.request = state[s].request
          /\ state[s].phase \notin TerminalPhases
          /\ state[s].receipt # "none" => v.receipt = state[s].receipt

(* A step changes no session, or writes one under its lease; claims only grow. *)
Effect == /\ claims \subseteq claims' /\ claims' \subseteq Txns
          /\ lock' \in [Sessions -> Workers \cup {NoWorker}] /\ expired' \subseteq Workers
          /\ state' = state \/ \E s \in Sessions, v \in Session \cup {NoSession} : Write(s, v)

(* compare_and_swap: a first state, or an exact successor of the stored one.  *)
LEMMA CasEffect ==
    ASSUME StoreInv, NEW w \in Workers, NEW s \in Sessions, NEW new \in Proposals(s),
           compare_and_swap(w, s, state[s], new)
    PROVE  Effect
<1> USE StoreAssumption
<1>1. /\ HoldsLease(w, s) /\ state' = [state EXCEPT ![s] = new]
      /\ UNCHANGED <<claims, lock, expired>>
  BY DEF compare_and_swap, CasAccepts, StateSetTo
<1>2. lock[s] \in Workers /\ lock[s] \notin expired
  BY <1>1 DEF HoldsLease
<1>3. CASE state[s] = NoSession
  <2>1. PICK r \in Requests : new = start(r)
    BY <1>3 DEF Proposals
  <2>2. new \in Session /\ Coherent(new) /\ new.txn = NoTxn
    BY <2>1, StartCoherent
  <2>3. Write(s, new)
    BY <1>1, <1>2, <1>3, <2>2 DEF Write, TxnIn
  <2> QED BY <1>1, <2>2, <2>3 DEF Effect, StoreInv, StoreTypeOK
<1>4. CASE state[s] # NoSession
  <2>1. /\ new.request = state[s].request /\ new.txn = state[s].txn
        /\ is_exact_successor_of(new, state[s])
    BY <1>4 DEF compare_and_swap, CasAccepts
  <2>2. state[s] \in Session /\ Coherent(state[s])
    BY <1>4 DEF StoreInv, StoreTypeOK, SessionsCoherent
  <2>3. /\ new \in Session /\ Coherent(new) /\ state[s].phase \notin TerminalPhases
        /\ state[s].receipt # "none" => new.receipt = state[s].receipt
    BY <2>1, <2>2, SuccessorCoherent, SuccessorCommitted
  <2>4. Write(s, new)
    BY <1>1, <1>2, <1>4, <2>1, <2>3 DEF Write, TxnIn, TxnOf
  <2> QED BY <1>1, <2>3, <2>4 DEF Effect, StoreInv, StoreTypeOK
<1> QED BY <1>3, <1>4

(* initialize_transaction: the session takes a transaction nobody claimed.    *)
LEMMA InitializeEffect ==
    ASSUME StoreInv, NEW w \in Workers, NEW s \in Sessions, NEW t \in Txns,
           NEW n \in 1..MaxSegments, initialize_transaction(w, s, t, n)
    PROVE  Effect
<1> USE StoreAssumption
<1> DEFINE new == initialize(state[s], t, n)
<1>1. /\ HoldsLease(w, s) /\ state[s] # NoSession /\ state[s].phase = "new"
      /\ state' = [state EXCEPT ![s] = new] /\ t \notin claims /\ claims' = claims \cup {t}
      /\ UNCHANGED <<lock, expired>>
  BY DEF initialize_transaction, InitializeAccepts, CanInitialize, CanClaim, StateSetTo
<1>2. lock[s] \in Workers /\ lock[s] \notin expired
  BY <1>1 DEF HoldsLease
<1>3. state[s] \in Session /\ Coherent(state[s])
  BY <1>1 DEF StoreInv, StoreTypeOK, SessionsCoherent
<1>4. /\ new \in Session /\ Coherent(new) /\ new.txn = t
      /\ new.request = state[s].request /\ state[s].receipt = "none"
  BY <1>1, <1>3, InitializeCoherent
<1> HIDE DEF new
<1>5. state[s].phase \notin TerminalPhases
  BY <1>1 DEF TerminalPhases
<1>6. Write(s, new)
  BY <1>1, <1>2, <1>4, <1>5 DEF Write, TxnIn
<1> QED BY <1>1, <1>4, <1>6 DEF Effect, StoreInv, StoreTypeOK

(* Every step of the store has the Effect: the one place that looks at the    *)
(* actions one by one; the theorems below follow from it.                     *)
LEMMA StepEffect ==
    ASSUME StoreInv, StoreNext
    PROVE  Effect
<1> USE StoreAssumption
<1> DEFINE Types == /\ claims \subseteq Txns /\ expired \subseteq Workers
                    /\ lock \in [Sessions -> Workers \cup {NoWorker}]
                    /\ state \in [Sessions -> Session \cup {NoSession}]
<1>0. Types
  BY DEF StoreInv, StoreTypeOK
<1>1. ASSUME NEW w \in Workers, NewDeadline(w) \/ DeadlinePasses(w) \/ ProcessExits(w)
      PROVE  Effect
  BY <1>0, <1>1 DEF NewDeadline, DeadlinePasses, ProcessExits, LocksFreedBy, Effect
<1>2. ASSUME NEW w \in Workers, NEW s \in Sessions, acquire_lease(w, s) \/ release_lease(w, s)
      PROVE  Effect
  BY <1>0, <1>2 DEF acquire_lease, release_lease, Effect
<1>3. ASSUME NEW w \in Workers, NEW s \in Sessions, NEW t \in Txns, NEW n \in 1..MaxSegments,
             InitializeInterrupted(w, s, t, n)
      PROVE  Effect
  BY <1>0, <1>3 DEF InitializeInterrupted, LocksFreedBy, Effect
<1>4. ASSUME NEW t \in Txns, claim_transaction_id(t)
      PROVE  Effect
  BY <1>0, <1>4 DEF claim_transaction_id, Effect
<1>5. ASSUME NEW w \in Workers, NEW s \in Sessions, delete(w, s)
      PROVE  Effect
  <2>1. Write(s, NoSession)
    BY <1>5 DEF delete, DeleteAccepts, HoldsLease, StateSetTo, Write, TxnIn
  <2> QED BY <1>0, <1>5, <2>1 DEF delete, Effect
<1> QED
  BY <1>1, <1>2, <1>3, <1>4, <1>5, CasEffect, InitializeEffect DEF StoreNext, WorkerStep

(* The invariant is kept by every step.                                       *)
LEMMA EffectKeepsInv ==
    ASSUME StoreInv, Effect
    PROVE  StoreInv'
<1> USE SessionAssumption
<1>1. CASE state' = state
  BY <1>1 DEF StoreInv, StoreTypeOK, SessionsCoherent, OneSessionPerTransaction, TxnOf, Effect
<1>2. ASSUME NEW s \in Sessions, NEW v \in Session \cup {NoSession}, Write(s, v)
      PROVE  StoreInv'
  <2>1. /\ state \in [Sessions -> Session \cup {NoSession}]
        /\ state' = [state EXCEPT ![s] = v] /\ claims \subseteq claims' /\ claims' \subseteq Txns
    BY <1>2 DEF StoreInv, StoreTypeOK, Write, Effect
  <2>2. StoreTypeOK'
    BY <2>1 DEF StoreTypeOK, Effect
  <2>3. SessionsCoherent'
    BY <1>2, <2>1 DEF StoreInv, SessionsCoherent, Write
  <2>4. TxnOf(s)' = TxnIn(v) /\ \A x \in Sessions \ {s} : TxnOf(x)' = TxnOf(x)
    BY <2>1 DEF TxnOf, TxnIn
  <2>5. /\ \A x \in Sessions : TxnOf(x) # NoTxn => TxnOf(x) \in claims
        /\ \A x, y \in Sessions : x # y /\ TxnOf(x) = TxnOf(y) => TxnOf(x) = NoTxn
        /\ TxnIn(v) \in {NoTxn, TxnOf(s)} \/ TxnIn(v) \in claims' \ claims
    BY <1>2 DEF StoreInv, OneSessionPerTransaction, Write
  <2> DEFINE T(x) == TxnOf(x)
             U(x) == TxnOf(x)'
  <2>6. \A x \in Sessions : U(x) # NoTxn => U(x) \in claims'
    BY <2>1, <2>4, <2>5
  <2>7. \A x, y \in Sessions : x # y /\ U(x) = U(y) => U(x) = NoTxn
    BY <2>1, <2>4, <2>5
  <2> QED BY <2>2, <2>3, <2>6, <2>7 DEF StoreInv, OneSessionPerTransaction
<1> QED BY <1>1, <1>2 DEF Effect

(* No caller, crash or deadline brings the store out of StoreInv.             *)
THEOREM StoreInvariant == StoreSpec => []StoreInv
<1>1. StoreInit => StoreInv
  BY DEF StoreInit, StoreInv, StoreTypeOK, SessionsCoherent, OneSessionPerTransaction, TxnOf
<1>2. StoreInv /\ [StoreNext]_storeVars => StoreInv'
  <2>1. CASE StoreNext
    BY <2>1, StepEffect, EffectKeepsInv
  <2>2. CASE UNCHANGED storeVars
    BY <2>2 DEF storeVars, StoreInv, StoreTypeOK, SessionsCoherent,
                OneSessionPerTransaction, TxnOf
  <2> QED BY <2>1, <2>2
<1> QED BY <1>1, <1>2, PTL DEF StoreSpec

(* The variables of the store keep their types; every value it holds is a     *)
(* DownloadSession within the protocol limits.                                *)
THEOREM StoreTypesHold == StoreSpec => []StoreTypeOK
<1>1. StoreInv => StoreTypeOK
  BY DEF StoreInv
<1> QED BY <1>1, StoreInvariant, PTL

(* Every stored session passes _validate_coherence.                           *)
THEOREM StoreKeepsCoherence == StoreSpec => []SessionsCoherent
<1>1. StoreInv => SessionsCoherent
  BY DEF StoreInv
<1> QED BY <1>1, StoreInvariant, PTL

(* A bank transaction belongs to one session ID at most and has its claim.    *)
THEOREM StoreSeparatesTransactions == StoreSpec => []OneSessionPerTransaction
<1>1. StoreInv => OneSessionPerTransaction
  BY DEF StoreInv
<1> QED BY <1>1, StoreInvariant, PTL

(* A claimed transaction without a session is never taken up again.           *)
THEOREM StoreNeverRevives == StoreSpec => NeverTakenUpAgain
<1> DEFINE Step == \A t \in claims : (\A s \in Sessions : TxnOf(s) # t)
                                        => (\A s \in Sessions : TxnOf(s)' # t)
<1>1. StoreInv /\ [StoreNext]_storeVars => [Step]_storeVars
  <2> SUFFICES ASSUME StoreInv, StoreNext PROVE Step
    OBVIOUS
  <2>1. Effect /\ claims \subseteq Txns /\ state \in [Sessions -> Session \cup {NoSession}]
    BY StepEffect DEF StoreInv, StoreTypeOK
  <2>2. CASE state' = state
    BY <2>2 DEF TxnOf
  <2>3. ASSUME NEW s \in Sessions, NEW v \in Session \cup {NoSession}, Write(s, v)
        PROVE  Step
    <3>1. TxnOf(s)' = TxnIn(v) /\ \A x \in Sessions \ {s} : TxnOf(x)' = TxnOf(x)
      BY <2>1, <2>3 DEF TxnOf, TxnIn, Write
    <3>2. TxnIn(v) \in {NoTxn, TxnOf(s)} \/ TxnIn(v) \in claims' \ claims
      BY <2>3 DEF Write
    <3> QED BY <2>1, <3>1, <3>2, SessionAssumption
  <2> QED BY <2>1, <2>2, <2>3 DEF Effect
<1> QED BY <1>1, StoreInvariant, PTL DEF StoreSpec, NeverTakenUpAgain

(* A stored session keeps its request and receipt kind and leaves no          *)
(* terminal phase.                                                            *)
THEOREM StoreKeepsCommitments == StoreSpec => CommitmentsStand
<1> DEFINE Step == \A s \in Sessions : state[s] # NoSession /\ state'[s] # NoSession =>
          /\ state'[s].request = state[s].request
          /\ state[s].phase \in TerminalPhases => state'[s] = state[s]
          /\ state[s].receipt # "none" => state'[s].receipt = state[s].receipt
<1>1. StoreInv /\ [StoreNext]_storeVars => [Step]_storeVars
  <2> SUFFICES ASSUME StoreInv, StoreNext PROVE Step
    OBVIOUS
  <2>1. Effect /\ state \in [Sessions -> Session \cup {NoSession}]
    BY StepEffect DEF StoreInv, StoreTypeOK
  <2>2. ASSUME NEW s \in Sessions, NEW v \in Session \cup {NoSession}, Write(s, v)
        PROVE  Step
    BY <2>1, <2>2 DEF Write
  <2> QED BY <2>1, <2>2 DEF Effect
<1> QED BY <1>1, StoreInvariant, PTL DEF StoreSpec, CommitmentsStand

(* Only the worker that holds the lease, inside its deadline, writes.         *)
THEOREM StoreWritesNeedLease == StoreSpec => OnlyLeaseHolderWrites
<1> DEFINE Step == \A s \in Sessions : state'[s] # state[s] =>
                        lock[s] \in Workers /\ lock[s] \notin expired
<1>1. StoreInv /\ [StoreNext]_storeVars => [Step]_storeVars
  <2> SUFFICES ASSUME StoreInv, StoreNext PROVE Step
    OBVIOUS
  <2>1. Effect /\ state \in [Sessions -> Session \cup {NoSession}]
    BY StepEffect DEF StoreInv, StoreTypeOK
  <2>2. ASSUME NEW s \in Sessions, NEW v \in Session \cup {NoSession}, Write(s, v)
        PROVE  Step
    BY <2>1, <2>2 DEF Write
  <2> QED BY <2>1, <2>2 DEF Effect
<1> QED BY <1>1, StoreInvariant, PTL DEF StoreSpec, OnlyLeaseHolderWrites

-----------------------------------------------------------------------------
(* The state file: what the store writes, it can read.  The store keeps       *)
(* sessions typed and coherent (StoreInvariant); such a session passes        *)
(* through its JSON form unchanged.                                           *)

(* The lists of documents have the length the session says.                   *)
LEMMA ListsMeasured ==
    ASSUME NEW s \in Session, NEW n \in Nat
    PROVE  /\ Len(DocumentList(s, n)) = n
           /\ \A k \in 1..n : DocumentList(s, n)[k] = Document(s, k)
BY DEF DocumentList

(* null and the values it stands for are told apart: reading inverts writing. *)
LEMMA ReadInverts ==
    ASSUME NEW s \in Session
    PROVE  FromFields(to_mapping(s)) = s
<1> USE SessionAssumption, NullAssumption
<1> DEFINE m == to_mapping(s)
<1>1. s.staged \in Nat /\ s.published \in Nat /\ s.total \in Nat
  BY DEF Session
<1>2. Len(m.staged_documents) = s.staged /\ Len(m.published_documents) = s.published
  BY <1>1, ListsMeasured DEF to_mapping
<1>3. (IF m.transaction_id = Null THEN NoTxn ELSE m.transaction_id) = s.txn
  BY DEF to_mapping, Session
<1>4. (IF m.total_segments = Null THEN 0 ELSE m.total_segments) = s.total
  BY <1>1 DEF to_mapping
<1>5. (IF m.receipt_kind = Null THEN "none" ELSE m.receipt_kind) = s.receipt
  BY DEF to_mapping, Session, ReceiptKinds
<1>6. /\ m.request_identity = s.request /\ m.phase = s.phase
      /\ m.next_segment = s.next /\ m.revision = s.revision
  BY DEF to_mapping
<1>7. FromFields(m) =
        [request |-> s.request, phase |-> s.phase, txn |-> s.txn, next |-> s.next,
         total |-> s.total, revision |-> s.revision, receipt |-> s.receipt,
         staged |-> s.staged, published |-> s.published]
  <2> HIDE DEF m
  <2> QED BY <1>2, <1>3, <1>4, <1>5, <1>6 DEF FromFields
<1> QED BY <1>7 DEF Session

(* The segment numbers of a coherent session are in the constructor's range.  *)
LEMMA CoherentInRange ==
    ASSUME NEW s \in Session, Coherent(s)
    PROVE  s.total # 0 => s.total \in 1..MaxSegments /\ s.next <= s.total + 1
<1>1. s.total \in Nat /\ s.next \in Nat
  BY SessionAssumption DEF Session
<1>2. s.total # 0 => s.total \in 1..MaxSegments
  BY SessionAssumption DEF Session
<1>3. s.total # 0 => s.next <= s.total + 1
  BY <1>1, <1>2 DEF Coherent, CoherentBeforeTransaction, SegmentsCoherent
<1> QED BY <1>2, <1>3

(* The written fields pass the checks of the constructor.                     *)
LEMMA WrittenFieldsValid ==
    ASSUME NEW s \in Session, Coherent(s)
    PROVE  FieldsValid(to_mapping(s))
<1> USE SessionAssumption, NullAssumption
<1> DEFINE m == to_mapping(s)
<1>1. m.phase \in Phases /\ m.receipt_kind \in (ReceiptKinds \ {"none"}) \cup {Null}
  BY DEF to_mapping, Session
<1>2. m.next_segment \in Nat \ {0} /\ m.max_segments \in Nat \ {0} /\ m.revision \in Nat
  BY DEF to_mapping, Session
<1>3. SegmentsInRange(m)
  <2>1. /\ m.total_segments = (IF s.total = 0 THEN Null ELSE s.total)
        /\ m.next_segment = s.next /\ m.max_segments = MaxSegments
    BY DEF to_mapping
  <2> QED BY <2>1, CoherentInRange DEF SegmentsInRange
<1> QED BY <1>1, <1>2, <1>3 DEF FieldsValid

(* The documents are the derived ones, and the published are the staged ones. *)
LEMMA WrittenDocumentsValid ==
    ASSUME NEW s \in Session, Coherent(s)
    PROVE  DocumentsValid(to_mapping(s))
<1> DEFINE m == to_mapping(s)
<1>1. s.staged \in Nat /\ s.published \in Nat
  BY SessionAssumption DEF Session
<1>2. s.published # 0 => s.published = s.staged
  BY DEF Coherent, CoherentBeforeTransaction, DocumentsCoherent
<1>3. /\ m.staged_documents = DocumentList(s, s.staged)
      /\ m.published_documents = DocumentList(s, s.published)
  BY DEF to_mapping
<1>4. FromFields(m) = s
  BY ReadInverts
<1>5. \A k \in 1..Len(m.staged_documents) : m.staged_documents[k] = Document(s, k)
  BY <1>1, <1>3, ListsMeasured
<1>6. \A k \in 1..Len(m.published_documents) :
          m.published_documents[k] = m.staged_documents[k]
  BY <1>1, <1>2, <1>3, ListsMeasured
<1> QED BY <1>4, <1>5, <1>6 DEF DocumentsValid

(* Whatever its callers do, a process that is restarted at any point loads    *)
(* from every state file the session that was stored.                         *)
THEOREM StoreSurvivesRestart == StoreSpec => []SurvivesRestart
<1>1. StoreInv => SurvivesRestart
  <2> SUFFICES ASSUME StoreInv, NEW s \in Sessions, state[s] # NoSession
               PROVE  /\ Loads(to_mapping(state[s]))
                      /\ FromFields(to_mapping(state[s])) = state[s]
    BY DEF SurvivesRestart
  <2>1. state[s] \in Session /\ Coherent(state[s])
    BY DEF StoreInv, StoreTypeOK, SessionsCoherent
  <2>2. FromFields(to_mapping(state[s])) = state[s]
    BY <2>1, ReadInverts
  <2> QED BY <2>1, <2>2, WrittenFieldsValid, WrittenDocumentsValid DEF Loads
<1> QED BY <1>1, StoreInvariant, PTL
=============================================================================
