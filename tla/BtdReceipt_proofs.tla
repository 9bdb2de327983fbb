------------------------- MODULE BtdReceipt_proofs -------------------------
(***************************************************************************)
(* Proofs about BtdDownload, part two: control flow and receipts. FlowInv  *)
(* says which phases a session may have at which label of the code,        *)
(* ReceiptInv what the bank has been told when it has them. From these:    *)
(* the type invariant, the binding of a session to its request, and the    *)
(* two properties of receipts.                                             *)
(***************************************************************************)
EXTENDS BtdDownload_proofs

(* Phases from which the documents are (again) loaded and staged.             *)
LoadPhases == {"signatures_and_digests_verified"} \cup ProcessPhases

(* Session m does not know whether its receipt of this kind arrived.          *)
Ambiguous(m, kind) == m.phase = "receipt_ambiguous" /\ m.receipt = kind

(* Session m has the bank's answer to its receipt of this kind.               *)
Answered(m, kind) == m.phase = "receipt_response_verified" /\ m.receipt = kind

(* The operator resolves an ambiguous positive receipt as not accepted.       *)
Denied(w) == call[w].op = "resolve" /\ ~call[w].accepted /\ Ambiguous(mem[w], "positive")

(* The phases a worker's session may have at each label of the code.          *)
LabelFits(w) ==
    /\ pc[w] \in {"receive", "fail"} => mem[w].phase \in ReceivePhases
    /\ pc[w] = "put" => /\ mem[w].phase \in {"new", "receiving_segments"}
                        /\ mem[w].phase # "new" => got[w] = mem[w].txn
    /\ pc[w] = "initialize" => mem[w].phase = "new"
    /\ pc[w] \in {"unpack", "negative"} => mem[w].phase \in LoadPhases
    /\ pc[w] = "write" => mem[w].phase = "container_verified"
    /\ pc[w] \in {"post", "await"} => mem[w].phase = "receipt_pending"
    /\ pc[w] = "reload" => Ambiguous(mem[w], "negative")
    /\ pc[w] = "accept" => /\ Ambiguous(mem[w], "positive")
                           /\ call[w].op = "resolve" /\ call[w].accepted
    /\ pc[w] = "discard_stages" => \/ Ambiguous(mem[w], "negative")
                                   \/ Answered(mem[w], "negative") \/ Denied(w)
    /\ pc[w] = "finish_negative" => Answered(mem[w], "negative")
    /\ pc[w] = "discard_spool" => \/ mem[w].phase \in TerminalPhases
                                  \/ Ambiguous(mem[w], "negative") \/ Denied(w)
    /\ pc[w] = "delete" => Denied(w)

(* A resolution visits only these labels, and the operator's answer it was    *)
(* called with stays true until it releases the lease.                        *)
ResolveFits(w) ==
    call[w].op = "resolve" =>
       /\ call[w].about \in Txns
       /\ pc[w] \in {"lock", "load", "accept", "process", "discard_stages", "discard_spool",
                     "delete", "release"}
       /\ pc[w] \notin {"lock", "release"} => AnswerStands(w)
       /\ pc[w] = "process" => /\ mem[w].receipt = "positive"
                               /\ mem[w].phase \in {"receipt_response_verified"} \cup PublishedPhases
       /\ pc[w] \in {"discard_stages", "discard_spool"} =>
              Denied(w) \/ mem[w].phase = "complete"

(* The position in the documents is in range where it is used, and zero at    *)
(* the start of each loop over them.                                          *)
PosFits(w) ==
    /\ pos[w] # 0 /\ pc[w] # "release" =>
        \/ pc[w] \in {"unpack", "write"} /\ mem[w].phase = "container_verified"
        \/ pc[w] = "process" /\ Answered(mem[w], "positive")
    /\ pc[w] = "unpack" => pos[w] <= Documents[mem[w].txn]
    /\ pc[w] = "write" => pos[w] < Documents[mem[w].txn]
    /\ pc[w] = "process" => pos[w] <= mem[w].staged
    /\ pos[w] <= MaxDocuments

(* A worker works on a session of the request it was called with, except that *)
(* it may drop the spool of a failed one.                                     *)
BoundTo(w) ==
    pc[w] \in Working => \/ mem[w].request = call[w].request
                         \/ pc[w] = "discard_spool" /\ mem[w].phase = "failed"

(* What holds of one worker's control state.                                  *)
Flow(w) == LabelFits(w) /\ ResolveFits(w) /\ PosFits(w) /\ BoundTo(w)

(* The second inductive invariant: phases fit labels. LeaseInv is needed      *)
(* because phases are changed in the store and read from memory.              *)
FlowInv == LeaseInv /\ DataTypes /\ \A w \in Workers : Flow(w)

(* What the transitions of models.py make of phase, transaction, receipt and  *)
(* document count.                                                            *)
LEMMA TransitionFields ==
    ASSUME NEW s \in Session
    PROVE  /\ record_segment(s).phase \in {"segments_received", "receiving_segments"}
           /\ record_segment(s).staged = s.staged /\ record_segment(s).receipt = s.receipt
           /\ mark_signatures_and_digests_verified(s).phase = "signatures_and_digests_verified"
           /\ mark_signatures_and_digests_verified(s).staged = s.staged
           /\ mark_decrypted(s).phase = "decrypted" /\ mark_decrypted(s).staged = s.staged
           /\ mark_container_verified(s).phase = "container_verified"
           /\ mark_container_verified(s).staged = s.staged
           /\ \A n : /\ mark_documents_staged(s, n).phase = "documents_staged"
                     /\ mark_documents_staged(s, n).staged = n
                     /\ mark_documents_published(s, n).phase = "documents_published"
                     /\ mark_documents_published(s, n).receipt = s.receipt
                     /\ mark_documents_published(s, n).staged = s.staged
           /\ mark_positive_receipt_pending(s).phase = "receipt_pending"
           /\ mark_positive_receipt_pending(s).receipt = "positive"
           /\ mark_positive_receipt_pending(s).staged = s.staged
           /\ mark_negative_receipt_pending(s).phase = "receipt_pending"
           /\ mark_negative_receipt_pending(s).receipt = "negative"
           /\ mark_receipt_ambiguous(s).phase = "receipt_ambiguous"
           /\ mark_receipt_ambiguous(s).receipt = s.receipt
           /\ mark_receipt_ambiguous(s).staged = s.staged
           /\ mark_receipt_response_verified(s).phase = "receipt_response_verified"
           /\ mark_receipt_response_verified(s).receipt = s.receipt
           /\ mark_receipt_response_verified(s).staged = s.staged
           /\ finish(s).phase = IF s.receipt = "positive" THEN "complete" ELSE "negative_complete"
           /\ finish(s).receipt = s.receipt /\ finish(s).staged = s.staged
           /\ fail(s).phase = "failed"
BY DEF Session, Advance, record_segment, mark_signatures_and_digests_verified, mark_decrypted,
   mark_container_verified, mark_documents_staged, mark_positive_receipt_pending,
   mark_negative_receipt_pending, mark_receipt_ambiguous, mark_receipt_response_verified,
   mark_documents_published, finish, fail

(* A coherent session past its start has a transaction, which holds           *)
(* documents.                                                                 *)
LEMMA HasTransaction ==
    ASSUME NEW m \in Session, Coherent(m), m.phase # "new", m.phase # "failed"
    PROVE  m.txn \in Txns /\ Documents[m.txn] \in 1..MaxDocuments
BY BtdAssumption DEF Coherent, Session

(* After _persist_btd_successor a worker has the successor in memory, or has  *)
(* given up and is about to release.                                          *)
LEMMA OwnPersist ==
    ASSUME LeaseInv, NEW w \in Workers, NEW new, NEW l, pc[w] \in Working,
           Persist(w, new, l), call' = call
    PROVE  /\ mem[w] \in Session /\ Coherent(mem[w])
           /\ TxnOf(Sid(w))' = TxnOf(Sid(w))
           /\ \/ pc'[w] = "release" /\ mem'[w] = mem[w]
              \/ /\ pc'[w] = l /\ mem'[w] = new /\ new \in Session /\ Coherent(new)
                 /\ is_exact_successor_of(new, mem[w])
                 /\ new.request = mem[w].request /\ new.txn = mem[w].txn
<1>1. /\ Sid(w) \in Sessions /\ mem[w] = state[Sid(w)] /\ mem[w] # NoSession
      /\ mem[w] \in Session /\ Coherent(mem[w])
  BY WorkingSession
<1>2. /\ pc \in [Workers -> Labels] /\ mem \in [Workers -> Session \cup {NoSession}]
      /\ state \in [Sessions -> Session \cup {NoSession}]
  BY DEF LeaseInv, WorkerTypes, StoreInv, StoreTypeOK
<1> QED BY <1>1, <1>2, PersistEffect, StoreAssumption DEF TxnOf, Sid

(* An operator's answer stands as long as transaction and receipt do.         *)
LEMMA AnswerKept ==
    ASSUME NEW w \in Workers, call'[w] = call[w],
           call[w].op = "resolve" => /\ bank'[call[w].about] = bank[call[w].about]
                                     /\ TxnOf(Sid(w))' = TxnOf(Sid(w))
    PROVE  AnswerStands(w)' <=> AnswerStands(w)
BY DEF AnswerStands, Sid

(* Each step of a worker leads to a label that fits its phase.                *)
LEMMA OwnFlow ==
    ASSUME FlowInv, NEW w \in Workers, WorkerNext(w)
    PROVE  Flow(w)'
<1> USE DEF Goto, At
<1>t. /\ pc \in [Workers -> Labels] /\ call \in [Workers -> Call \cup {NoCall}]
      /\ mem \in [Workers -> Session \cup {NoSession}]
      /\ got \in [Workers -> Txns \cup {NoTxn}] /\ pos \in [Workers -> Nat]
      /\ MaxDocuments \in Nat
      /\ LeaseInv /\ Lease(w) /\ LabelFits(w) /\ ResolveFits(w) /\ PosFits(w) /\ BoundTo(w)
  BY SessionAssumption DEF FlowInv, LeaseInv, WorkerTypes, Flow
<1>w. pc[w] \in Working =>
        /\ mem[w] \in Session /\ Coherent(mem[w])
        /\ mem[w].phase \notin {"new", "failed"} =>
              mem[w].txn \in Txns /\ Documents[mem[w].txn] \in 1..MaxDocuments
  BY <1>t, WorkingSession, HasTransaction
<1>p. pos[w] \in Nat
  BY <1>t
<1>1. CASE Calls(w)
  <2>1. PICK s \in Sessions, r \in Requests : StartDownload(w, s, r) \/ StartResolve(w, s, r)
    BY <1>1 DEF Calls
  <2>2. /\ pc[w] = "idle" /\ pos' = pos
        /\ pc'[w] \in {"recv_lock", "lock"}
        /\ call'[w].op = "resolve" => pc'[w] = "lock" /\ call'[w].about \in Txns
    <3>1. TxnOf(s) # NoTxn => TxnOf(s) \in Txns
      BY <1>t DEF TxnOf, LeaseInv, StoreInv, StoreTypeOK, Session
    <3> QED BY <1>t, <2>1, <3>1 DEF StartDownload, StartResolve
  <2> QED BY <1>t, <2>2 DEF Flow, LabelFits, ResolveFits, PosFits, BoundTo, Working, Unlocked
<1>2. CASE AcquireLease(w)
  <2>1. /\ pc[w] \in {"recv_lock", "lock"} /\ pos' = pos /\ UNCHANGED <<bank, state>>
        /\ \/ /\ call' = call /\ pc'[w] = IF pc[w] = "lock" THEN "load" ELSE "recv_load"
              /\ AnswerStands(w)
           \/ /\ call'[w] = NoCall /\ pc'[w] = "idle"
    BY <1>t, <1>2 DEF AcquireLease, bankVars
  <2>2. call' = call => AnswerStands(w)' = AnswerStands(w)
    BY <2>1 DEF AnswerStands, Sid, TxnOf
  <2> QED BY <1>t, <2>1, <2>2 DEF Flow, LabelFits, ResolveFits, PosFits, BoundTo, Working,
             Unlocked, Loading, NoCall
<1>3. CASE ReleaseLease(w)
  <2>1. /\ pc[w] \in {"recv_release", "release"} /\ pos'[w] = 0
        /\ \/ call' = call /\ pc'[w] = "lock"
           \/ call'[w] = NoCall /\ pc'[w] = "idle"
    BY <1>t, <1>3 DEF ReleaseLease
  <2> QED BY <1>t, <2>1 DEF Flow, LabelFits, ResolveFits, PosFits, BoundTo, Working,
             Unlocked, NoCall
<1>4. CASE Expire(w)
  <2>1. UNCHANGED <<state, pc, call, mem, got, pos, bank>>
    BY <1>4 DEF Expire, workerVars, bankVars
  <2> QED BY <1>t, <2>1 DEF Flow, LabelFits, ResolveFits, PosFits, BoundTo, AnswerStands, TxnOf,
      Sid, Denied
<1>5. CASE Crashing(w) \/ CrashInitializing(w)
  <2>1. /\ pc'[w] = "idle" /\ call'[w] = NoCall /\ pos'[w] = 0
    BY <1>t, <1>5 DEF Crashing, Crash, CrashDiscarding, CrashPutting, CrashInitializing,
       ProcessLost
  <2> QED BY <1>t, <2>1 DEF Flow, LabelFits, ResolveFits, PosFits, BoundTo, Working, Unlocked,
      NoCall
<1>6. CASE Local(w)
  <2>0. UNCHANGED <<state, lock, call>> /\ Sid(w)' = Sid(w)
    BY <1>6, LocalUsesNoStore DEF storeVars, Sid
  <2>1. CASE ResumeSession(w)
    <3>1. /\ pc[w] = "recv_load" /\ pos' = pos /\ mem'[w] = state[Sid(w)]
          /\ \/ pc'[w] = "release"
             \/ pc'[w] = "discard_spool" /\ mem'[w].phase = "failed"
             \/ /\ mem'[w].request = call[w].request
                /\ \/ pc'[w] = "recv_release"
                   \/ pc'[w] \in {"fail", "receive"} /\ mem'[w].phase \notin PostReceivePhases \cup {"failed"}
      BY <1>t, <2>1 DEF ResumeSession
    <3>2. pc'[w] \in {"fail", "receive"} => mem'[w].phase \in ReceivePhases
      <4>1. state[Sid(w)] \in Session
        BY <2>1, CallNamesSession, <1>t DEF ResumeSession, LeaseInv, StoreInv, StoreTypeOK
      <4> QED BY <3>1, <4>1 DEF PostReceivePhases, Session
    <3> QED BY <1>t, <2>0, <3>1, <3>2 DEF Flow, LabelFits, ResolveFits, PosFits, BoundTo,
        TerminalPhases, Working, Loading
  <2>2. CASE LoadSession(w)
    <3>1. UNCHANGED <<pos, bank>> /\ pc[w] = "load" /\ mem'[w] = state[Sid(w)]
          /\ \/ pc'[w] = "release"
             \/ /\ mem'[w].request = call[w].request
                /\ \/ pc'[w] = "process" /\ call[w].op = "download"
                   \/ pc'[w] = "discard_spool" /\ mem'[w].phase = "complete"
                   \/ pc'[w] = "accept" /\ call[w].op # "download" /\ Ambiguous(mem'[w], "positive")
                        /\ call[w].accepted
                   \/ pc'[w] = "discard_stages" /\ call[w].op # "download"
                        /\ Ambiguous(mem'[w], "positive") /\ ~call[w].accepted
      BY <1>t, <2>2 DEF LoadSession, Usable, Resolution, bankVars, Ambiguous
    <3>2. call[w].op \in {"download", "resolve"}
      BY <1>t, <3>1, CallNamesSession DEF Call
    <3>3. AnswerStands(w)' <=> AnswerStands(w)
      BY <2>0, <3>1 DEF AnswerStands, TxnOf
    <3>4. pc'[w] = "process" => mem'[w] \in Session
      <4>1. pc'[w] = "process" => state[Sid(w)] # NoSession
        BY <1>t, <2>2 DEF LoadSession, Usable
      <4> QED BY <3>1, <4>1, CallNamesSession, <1>t DEF LeaseInv, StoreInv, StoreTypeOK
    <3> QED BY <1>t, <2>0, <3>1, <3>2, <3>3, <3>4 DEF Flow, LabelFits, ResolveFits, PosFits,
        BoundTo, Denied, TerminalPhases, Working, Loading, Session
  <2>3. CASE \/ RequestInitialization(w) \/ RequestSegment(w) \/ RecoverBootstrap(w)
             \/ ResponseRefused(w) \/ VerificationFails(w)
    <3>1. /\ pc[w] = "receive" /\ mem' = mem /\ pos' = pos
          /\ \/ pc'[w] = "put" /\ mem[w].phase = "new"
             \/ pc'[w] = "put" /\ mem[w].phase = "receiving_segments" /\ got'[w] = mem[w].txn
             \/ pc'[w] = "initialize" /\ mem[w].phase = "new"
             \/ pc'[w] = "fail"
      BY <1>t, <2>3 DEF RequestInitialization, RequestSegment, RecoverBootstrap, ResponseDue,
         ResponseRefused, VerificationFails
    <3> QED BY <1>t, <2>0, <3>1 DEF Flow, LabelFits, ResolveFits, PosFits, BoundTo, Working,
        Labels, Unlocked, Loading
  <2>4. CASE PutSegment(w)
    <3>1. /\ pc[w] = "put" /\ mem' = mem /\ pos' = pos
          /\ \/ pc'[w] = "release"
             \/ pc'[w] = "initialize" /\ mem[w].phase = "new"
             \/ pc'[w] = "receive"
      BY <1>t, <2>4 DEF PutSegment
    <3> QED BY <1>t, <2>0, <3>1 DEF Flow, LabelFits, ResolveFits, PosFits, BoundTo, Working,
        Labels, Unlocked, Loading, ReceivePhases
  <2>5. CASE CloseTerminal(w) \/ RefusePhase(w) \/ AmbiguityFound(w) \/ NegativeFound(w)
             \/ LoadDocuments(w)
    <3>1. /\ pc[w] = "process" /\ mem' = mem /\ UNCHANGED <<pos, bank>>
          /\ \/ pc'[w] = "release"
             \/ pc'[w] = "discard_spool" /\ mem[w].phase \in TerminalPhases
             \/ pc'[w] = "discard_stages" /\ (Ambiguous(mem[w], "negative") \/ Answered(mem[w], "negative"))
             \/ pc'[w] \in {"unpack", "negative"} /\ mem[w].phase \in LoadPhases
      BY <1>t, <2>5 DEF CloseTerminal, RefusePhase, AmbiguityFound, NegativeFound, LoadDocuments,
         AfterAmbiguity, LoadPhases, Ambiguous, Answered, bankVars
    <3>2. AnswerStands(w)' <=> AnswerStands(w)
      BY <2>0, <3>1 DEF AnswerStands, TxnOf
    <3>3. pc[w] \in Working
      BY <3>1 DEF Working, Labels, Unlocked, Loading
    <3>4. mem[w].phase \in LoadPhases => Documents[mem[w].txn] \in 1..MaxDocuments /\ pos[w] = 0
      <4>1. mem[w].phase \in LoadPhases => mem[w].phase \notin {"new", "failed"} /\ pos[w] = 0
        BY <1>t, <1>p, <3>1 DEF LoadPhases, ProcessPhases, PosFits, Answered
      <4> QED BY <1>w, <3>3, <4>1
    <3> QED BY <1>t, <2>0, <3>1, <3>2, <3>3, <3>4 DEF Flow, LabelFits, ResolveFits, PosFits,
        BoundTo, Working, Labels, Unlocked, Loading,
               Ambiguous, Answered, LoadPhases, ProcessPhases, TerminalPhases, PublishedPhases
  <2>6. CASE ReloadAmbiguous(w) \/ PostReceipt(w)
    <3>1. /\ mem' = mem /\ UNCHANGED <<pos>>
          /\ \/ pc[w] = "reload" /\ pc'[w] \in {"discard_stages", "release"}
             \/ pc[w] = "post" /\ pc'[w] = "await"
      BY <1>t, <2>6 DEF ReloadAmbiguous, PostReceipt
    <3> QED BY <1>t, <2>0, <3>1 DEF Flow, LabelFits, ResolveFits, PosFits, BoundTo, Working,
        Labels, Unlocked, Loading
  <2>7. CASE Stop(w) \/ ProcessingFails(w)
    <3>1. /\ mem' = mem /\ bank' = bank
          /\ \/ pos' = pos /\ pc'[w] = "release"
             \/ /\ pos'[w] = 0 /\ pc'[w] = "negative" /\ pc[w] \in {"unpack", "write", "process"}
                /\ pc[w] = "process" => mem[w].phase \in LoadPhases
      BY <1>t, <2>7 DEF Stop, ProcessingFails, bankVars, LoadPhases
    <3> QED BY <1>t, <2>0, <3>1 DEF Flow, LabelFits, ResolveFits, PosFits, BoundTo, Working,
        Labels, Unlocked, Loading, LoadPhases, ProcessPhases, PublishedPhases
  <2>8. CASE BeginDocument(w) \/ StageDocument(w)
    <3>1. /\ mem' = mem
          /\ \/ /\ pc[w] = "unpack" /\ pc'[w] = "write" /\ mem[w].phase = "container_verified"
                /\ pos' = pos /\ pos[w] < Documents[mem[w].txn]
             \/ pc[w] = "write" /\ pc'[w] = "unpack" /\ pos'[w] = pos[w] + 1
      BY <1>t, <2>8 DEF BeginDocument, StageDocument
    <3>2. Documents[mem[w].txn] \in 1..MaxDocuments /\ mem[w].phase = "container_verified" /\ pos[w] \in Nat
      <4>1. pc[w] \in Working
        BY <3>1 DEF Working, Labels, Unlocked, Loading
      <4>2. mem[w].phase = "container_verified"
        BY <1>t, <3>1 DEF LabelFits
      <4> QED BY <1>w, <1>p, <4>1, <4>2
    <3> QED BY <1>t, <2>0, <3>1, <3>2 DEF Flow, LabelFits, ResolveFits, PosFits, BoundTo,
        Working, Labels, Unlocked, Loading, LoadPhases, ProcessPhases
  <2>9. CASE PublishDocument(w)
    <3>1. /\ mem' = mem /\ bank' = bank /\ pc[w] = "process" /\ Answered(mem[w], "positive")
          /\ pos[w] < mem[w].staged
          /\ \/ pc'[w] = "release" /\ pos' = pos
             \/ pc' = pc /\ pos'[w] = pos[w] + 1
      BY <1>t, <2>9 DEF PublishDocument, PublicationDue, Answered, bankVars
    <3>2. mem[w].staged \in 0..MaxDocuments /\ pos[w] \in Nat
      <4>1. pc[w] \in Working
        BY <3>1 DEF Working, Labels, Unlocked, Loading
      <4> QED BY <1>w, <1>p, <4>1 DEF Session
    <3>3. AnswerStands(w)' <=> AnswerStands(w)
      BY <2>0, <3>1 DEF AnswerStands, TxnOf
    <3> QED BY <1>t, <2>0, <3>1, <3>2, <3>3 DEF Flow, LabelFits, ResolveFits, PosFits, BoundTo,
        Working, Labels, Unlocked, Loading
  <2>10. CASE DiscardStages(w) \/ DiscardSpool(w)
    <3>1. /\ mem' = mem /\ UNCHANGED <<pos, bank>>
          /\ \/ /\ pc[w] = "discard_stages" /\ pc'[w] = "finish_negative"
                /\ mem[w].phase = "receipt_response_verified"
             \/ /\ pc[w] = "discard_stages" /\ pc'[w] = "discard_spool"
                /\ mem[w].phase # "receipt_response_verified"
             \/ pc[w] = "discard_spool" /\ pc'[w] = "release"
             \/ /\ pc[w] = "discard_spool" /\ pc'[w] = "delete"
                /\ call[w].op = "resolve" /\ mem[w].phase = "receipt_ambiguous"
      BY <1>t, <2>10 DEF DiscardStages, DiscardSpool, bankVars
    <3>2. AnswerStands(w)' <=> AnswerStands(w)
      BY <2>0, <3>1 DEF AnswerStands, TxnOf
    <3> QED BY <1>t, <2>0, <3>1, <3>2 DEF Flow, LabelFits, ResolveFits, PosFits, BoundTo,
        Working, Labels, Unlocked, Loading, Denied, Ambiguous, Answered
  <2> QED BY <1>6, <2>1, <2>2, <2>3, <2>4, <2>5, <2>6, <2>7, <2>8, <2>9, <2>10 DEF Local
<1>7. CASE Persisting(w)
  <2>0. /\ pc[w] \in Working /\ UNCHANGED <<call, got, bank>>
        /\ pos'[w] \in {0, pos[w]}
        /\ mem[w] \in Session /\ Coherent(mem[w])
    BY <1>t, <1>w, <1>7, PersistingEffect DEF bankVars
  <2> DEFINE Stays == pc'[w] = "release" /\ mem'[w] = mem[w]
             Moves(new, l) == /\ pc'[w] = l /\ mem'[w] = new /\ new \in Session /\ Coherent(new)
                              /\ new.request = mem[w].request /\ new.txn = mem[w].txn
  <2>1. ASSUME NEW new, NEW l, Persist(w, new, l)
        PROVE  Stays \/ (Moves(new, l) /\ (AnswerStands(w)' <=> AnswerStands(w)))
    <3>1. TxnOf(Sid(w))' = TxnOf(Sid(w)) /\ (Stays \/ Moves(new, l))
      BY <1>t, <2>0, <2>1, OwnPersist
    <3> QED BY <2>0, <3>1, AnswerKept
  <2>2. Stays => Flow(w)'
    BY <1>t, <2>0 DEF Flow, LabelFits, ResolveFits, PosFits, BoundTo, Working
  <2> HIDE DEF Stays
  <2>3. CASE RecordSegment(w) \/ VerifySpool(w) \/ FailSession(w)
    <3>1. /\ pc[w] \in {"receive", "fail"} /\ mem[w].phase \in ReceivePhases /\ pos' = pos
          /\ \/ Persist(w, record_segment(mem[w]), "receive")
             \/ mem' = mem /\ pc'[w] = "fail"
             \/ Persist(w, mark_signatures_and_digests_verified(mem[w]), "recv_release")
             \/ mem' = mem /\ pc'[w] = "recv_release"
             \/ Persist(w, fail(mem[w]), "discard_spool")
      BY <1>t, <2>3 DEF RecordSegment, VerifySpool, FailSession, PersistOnly, LabelFits
    <3>2. \/ Stays
          \/ pc'[w] = "receive" /\ mem'[w].phase \in ReceivePhases /\ mem'[w].request = mem[w].request
          \/ pc'[w] \in {"fail", "recv_release"} /\ mem'[w] = mem[w]
          \/ pc'[w] = "recv_release" /\ mem'[w].request = mem[w].request
          \/ pc'[w] = "discard_spool" /\ mem'[w].phase = "failed"
      BY <2>0, <2>1, <3>1, TransitionFields DEF ReceivePhases
    <3> QED BY <1>t, <2>0, <2>2, <3>1, <3>2 DEF Flow, LabelFits, ResolveFits, PosFits, BoundTo,
        Working, Labels, Unlocked, Loading, TerminalPhases
  <2>4. CASE RecordUnpacked(w) \/ RecordStaged(w)
    <3>1. /\ pc[w] = "unpack"
          /\ \/ pos' = pos /\ mem[w].phase # "container_verified" /\ Persist(w, mark_decrypted(mem[w]), "unpack")
             \/ pos' = pos /\ mem[w].phase # "container_verified" /\ Persist(w, mark_container_verified(mem[w]), "unpack")
             \/ pos'[w] = 0 /\ Persist(w, mark_documents_staged(mem[w], Documents[mem[w].txn]), "process")
      BY <1>t, <2>4 DEF RecordUnpacked, RecordStaged, PersistOnly, CanMarkDecrypted,
         CanMarkContainerVerified
    <3>2. Documents[mem[w].txn] \in 1..MaxDocuments
      BY <1>t, <1>w, <2>0, <3>1 DEF LabelFits, LoadPhases, ProcessPhases
    <3>3. \/ Stays
          \/ /\ pc'[w] = "unpack" /\ mem'[w].phase \in LoadPhases /\ pos'[w] = 0
             /\ mem'[w].request = mem[w].request /\ mem'[w].txn = mem[w].txn
          \/ /\ pc'[w] = "process" /\ pos'[w] = 0 /\ mem'[w].request = mem[w].request
             /\ mem'[w].staged = Documents[mem[w].txn]
      BY <1>t, <2>0, <2>1, <3>1, TransitionFields DEF LoadPhases, ProcessPhases, PosFits
    <3> QED BY <1>t, <2>0, <2>2, <3>1, <3>2, <3>3 DEF Flow, LabelFits, ResolveFits, PosFits,
        BoundTo, Working, Labels, Unlocked, Loading
  <2>5. CASE PendingFound(w) \/ IntendReceipt(w) \/ ReceiptAnswered(w) \/ ReceiptUnanswered(w)
    <3>1. /\ pc[w] \in {"process", "negative", "post", "await"} /\ pos' = pos
          /\ pc[w] = "process" => mem[w].phase \in {"receipt_pending", "documents_staged"}
          /\ \/ Persist(w, mark_receipt_ambiguous(mem[w]), AfterAmbiguity(mem[w]))
             \/ Persist(w, mark_positive_receipt_pending(mem[w]), "post")
             \/ Persist(w, mark_negative_receipt_pending(mem[w]), "post")
             \/ Persist(w, mark_receipt_response_verified(mem[w]),
                   IF mem[w].receipt = "negative" THEN "discard_stages" ELSE "process")
             \/ Persist(w, mark_receipt_ambiguous(mem[w]),
                   IF mem[w].receipt = "negative" THEN "reload" ELSE "release")
      BY <1>t, <2>5 DEF PendingFound, IntendReceipt, ReceiptAnswered, ReceiptUnanswered,
         PersistOnly
    <3>2. pos[w] = 0 /\ call[w].op # "resolve"
      BY <1>t, <3>1 DEF PosFits, ResolveFits, Answered, PublishedPhases
    <3>3. \/ Stays
          \/ /\ mem'[w].request = mem[w].request /\ mem'[w] \in Session
             /\ \/ pc'[w] = "release"
                \/ pc'[w] \in {"discard_stages", "reload"} /\ Ambiguous(mem'[w], "negative")
                \/ pc'[w] = "post" /\ mem'[w].phase = "receipt_pending"
                \/ pc'[w] = "discard_stages" /\ Answered(mem'[w], "negative")
                \/ pc'[w] = "process"
      BY <2>0, <2>1, <3>1, TransitionFields DEF AfterAmbiguity, Ambiguous, Answered
    <3>4. pc'[w] = "process" => mem'[w].staged \in Nat \/ Stays
      BY <3>3 DEF Session
    <3> QED BY <1>t, <2>0, <2>2, <3>1, <3>2, <3>3, <3>4 DEF Flow, LabelFits, ResolveFits,
        PosFits, BoundTo, Working, Labels, Unlocked, Loading
  <2>6. CASE AcceptReceipt(w) \/ RecordPublished(w) \/ FinishPublished(w) \/ FinishNegative(w)
    <3>1. \/ /\ pc[w] = "accept" /\ pos' = pos
             /\ Persist(w, mark_receipt_response_verified(mem[w]), "process")
          \/ /\ pc[w] = "process" /\ pos'[w] = 0 /\ mem[w].receipt = "positive"
             /\ Persist(w, mark_documents_published(mem[w], mem[w].staged), "process")
          \/ /\ pc[w] = "process" /\ pos' = pos /\ mem[w].phase = "documents_published"
             /\ Persist(w, finish(mem[w]), "process")
          \/ /\ pc[w] = "finish_negative" /\ pos' = pos
             /\ Persist(w, finish(mem[w]), "discard_spool")
      BY <1>t, <2>6 DEF AcceptReceipt, RecordPublished, FinishPublished, FinishNegative,
         PersistOnly
    <3>2. pos'[w] = 0
      BY <1>t, <3>1 DEF PosFits, Answered
    <3>3. \/ Stays
          \/ /\ mem'[w].request = mem[w].request /\ mem'[w] \in Session
             /\ AnswerStands(w)' <=> AnswerStands(w)
             /\ \/ pc'[w] = "process" /\ pc[w] = "accept" /\ Answered(mem'[w], mem[w].receipt)
                \/ /\ pc'[w] = "process" /\ pc[w] = "process" /\ mem'[w].phase = "documents_published"
                   /\ mem'[w].receipt = "positive"
                \/ /\ pc'[w] = "process" /\ pc[w] = "process"
                   /\ mem'[w].phase = IF mem[w].receipt = "positive" THEN "complete" ELSE "negative_complete"
                   /\ mem'[w].receipt = mem[w].receipt
                \/ /\ pc'[w] = "discard_spool" /\ pc[w] = "finish_negative"
                   /\ mem'[w].phase \in TerminalPhases
      BY <2>0, <2>1, <3>1, TransitionFields DEF Answered, TerminalPhases
    <3>4. pc'[w] = "process" => mem'[w].staged \in Nat \/ Stays
      BY <3>3 DEF Session
    <3> QED BY <1>t, <2>0, <2>2, <3>1, <3>2, <3>3, <3>4 DEF Flow, LabelFits, ResolveFits,
        PosFits, BoundTo, Ambiguous, Answered, PublishedPhases, Working, Labels, Unlocked, Loading
  <2> QED BY <1>7, <2>3, <2>4, <2>5, <2>6 DEF Persisting
<1>8. CASE StartSession(w)
  <2>1. /\ pc[w] = "recv_load" /\ UNCHANGED <<pos, call>> /\ call[w].request \in Requests
        /\ \/ pc'[w] = "release"
           \/ pc'[w] = "receive" /\ mem'[w] = start(call[w].request)
    BY <1>t, <1>8, CallNamesSession DEF StartSession, Persist
  <2>2. start(call[w].request).phase = "new" /\ start(call[w].request).request = call[w].request
    BY DEF start
  <2> QED BY <1>t, <2>1, <2>2 DEF Flow, LabelFits, ResolveFits, PosFits, BoundTo, Working,
      Labels, Unlocked, Loading, ReceivePhases
<1>9. CASE InitializeTransaction(w)
  <2>1. /\ pc[w] = "initialize" /\ UNCHANGED <<pos, call>>
        /\ \/ mem' = mem /\ pc'[w] \in {"fail", "release"}
           \/ pc'[w] = "receive" /\ mem'[w] = initialize(mem[w], got[w], Total[got[w]])
    BY <1>t, <1>9 DEF InitializeTransaction
  <2>2. LET new == initialize(mem[w], got[w], Total[got[w]])
        IN  new.phase = "initialized" /\ new.request = mem[w].request
    BY <1>w, <2>1 DEF initialize, Advance, Session, Working, Labels, Unlocked, Loading
  <2> QED BY <1>t, <2>1, <2>2 DEF Flow, LabelFits, ResolveFits, PosFits, BoundTo, Working,
      Labels, Unlocked, Loading, ReceivePhases
<1>10. CASE DeleteSession(w)
  <2>1. /\ pc[w] = "delete" /\ pc'[w] = "release" /\ UNCHANGED <<pos, call>>
    BY <1>t, <1>10 DEF DeleteSession
  <2> QED BY <1>t, <2>1 DEF Flow, LabelFits, ResolveFits, PosFits, BoundTo, Working, Unlocked
<1> QED
  BY <1>1, <1>2, <1>3, <1>4, <1>5, <1>6, <1>7, <1>8, <1>9, <1>10, StepKinds

(* Sessions other than the worker's own have other transactions.              *)
LEMMA SeparateTransactions ==
    ASSUME LeaseInv, NEW w \in Workers, pc[w] \in Working, NEW s \in Sessions, s # Sid(w)
    PROVE  TxnOf(s) \in Txns => TxnOf(s) # mem[w].txn
<1>1. Sid(w) \in Sessions /\ TxnOf(Sid(w)) = mem[w].txn
  BY WorkingSession DEF TxnOf
<1> QED BY <1>1, SessionAssumption DEF LeaseInv, StoreInv, OneSessionPerTransaction

(* What holds of a worker's control state survives the steps of the others,   *)
(* also what the operator has told it about its receipt.                      *)
LEMMA OthersFlow ==
    ASSUME FlowInv, NEW w \in Workers, NEW v \in Workers \ {w}, OthersAlone(w), TxnsAlone(w)
    PROVE  Flow(v)'
<1>1. /\ pc'[v] = pc[v] /\ call'[v] = call[v] /\ mem'[v] = mem[v]
      /\ got'[v] = got[v] /\ pos'[v] = pos[v] /\ Sid(v)' = Sid(v)
  BY DEF OthersAlone, Sid
<1>2. LeaseInv /\ Lease(v) /\ Flow(v)
  BY DEF FlowInv, LeaseInv
<1>3. ASSUME call[v].op = "resolve", pc[v] \notin {"lock", "release"}
      PROVE  AnswerStands(v)'
  <2>1. /\ AnswerStands(v) /\ call[v].about = TxnOf(Sid(v)) /\ call[v].about \in Txns
        /\ pc[v] \notin Unlocked /\ pc[v] # "idle"
    BY <1>2, <1>3 DEF Flow, ResolveFits, AnswerStands, Unlocked
  <2>2. Sid(v) \in Sessions /\ lock[Sid(v)] = v
    BY <1>2, <2>1, CallNamesSession DEF Lease
  <2>3. state'[Sid(v)] = state[Sid(v)]
    BY <2>2 DEF OthersAlone
  <2>4. pc[w] \notin Working \/ call[v].about # mem[w].txn
    <3>1. CASE pc[w] \in Working
      <4>1. Sid(v) # Sid(w)
        BY <1>2, <2>2, <3>1, WorkingSession
      <4> QED BY <1>2, <2>1, <2>2, <3>1, <4>1, SeparateTransactions
    <3> QED BY <3>1
  <2>5. bank'[call[v].about] = bank[call[v].about]
    BY <2>1, <2>4 DEF TxnsAlone
  <2> QED BY <1>1, <2>1, <2>3, <2>5 DEF AnswerStands, TxnOf, Sid
<1> QED BY <1>1, <1>2, <1>3 DEF Flow, LabelFits, ResolveFits, PosFits, BoundTo, Denied

(* The bank decides on a receipt under way: only its fate changes. *)
LEMMA SettleEffect ==
    ASSUME DataTypes, NEW t \in Txns, BankSettles(t)
    PROVE  /\ UNCHANGED <<storeVars, workerVars, spoolVars, sinkVars, posted>>
           /\ bank[t].fate = "inflight" /\ bank'[t].fate \in {"recorded", "lost"}
           /\ bank'[t].kind = bank[t].kind
           /\ \A x \in Txns \ {t} : bank'[x] = bank[x]
           /\ DataTypes'
<1> DEFINE Receipts == [kind: ReceiptKinds, fate: {"none", "inflight", "recorded", "lost"}]
<1>1. PICK fate \in {"recorded", "lost"} : bank' = [bank EXCEPT ![t] = [bank[t] EXCEPT !.fate = fate]]
  BY DEF BankSettles
<1>2. bank \in [Txns -> Receipts] /\ bank[t] \in Receipts
  BY DEF DataTypes
<1>3. /\ [bank[t] EXCEPT !.fate = fate] \in Receipts
      /\ [bank[t] EXCEPT !.fate = fate].fate = fate
      /\ [bank[t] EXCEPT !.fate = fate].kind = bank[t].kind
  BY <1>2
<1>4. UNCHANGED <<storeVars, workerVars, spoolVars, sinkVars, posted>> /\ bank[t].fate = "inflight"
  BY DEF BankSettles
<1> QED BY <1>1, <1>2, <1>3, <1>4 DEF DataTypes, spoolVars, sinkVars

(* FlowInv is preserved by every step.                                        *)
LEMMA FlowInvKept ==
    ASSUME FlowInv, [Next]_vars
    PROVE  FlowInv'
<1>1. LeaseInv' /\ LeaseInv /\ DataTypes
  BY LeaseInvKept DEF FlowInv
<1>2. CASE UNCHANGED vars
  <2>1. UNCHANGED <<state, pc, call, mem, got, pos, torn, part, published, bank, posted>>
    BY <1>2 DEF vars, storeVars, workerVars, spoolVars, sinkVars, bankVars
  <2>2. DataTypes'
    BY <1>1, <2>1 DEF DataTypes
  <2>3. ASSUME NEW w \in Workers PROVE Flow(w)'
    <3>1. Flow(w)
      BY DEF FlowInv
    <3> QED BY <2>1, <3>1 DEF Flow, LabelFits, ResolveFits, PosFits, BoundTo, Denied,
        AnswerStands, TxnOf, Sid
  <2> QED BY <1>1, <2>2, <2>3 DEF FlowInv
<1>3. ASSUME NEW w \in Workers, WorkerNext(w)
      PROVE  FlowInv'
  BY <1>1, <1>3, StepOthersAlone, StepTxnsAlone, OwnFlow, OthersFlow DEF FlowInv
<1>4. ASSUME NEW t \in Txns, BankSettles(t)
      PROVE  FlowInv'
  <2>1. /\ UNCHANGED <<state, pc, call, mem, got, pos>> /\ bank[t].fate = "inflight"
        /\ \A x \in Txns \ {t} : bank'[x] = bank[x]
        /\ DataTypes'
    BY <1>1, <1>4, SettleEffect DEF storeVars, workerVars
  <2>2. ASSUME NEW w \in Workers PROVE Flow(w)'
    <3>1. Flow(w)
      BY DEF FlowInv
    <3>2. AnswerStands(w) /\ (call[w].op = "resolve" => call[w].about \in Txns) => AnswerStands(w)'
      BY <2>1 DEF AnswerStands, TxnOf, Sid
    <3> QED BY <2>1, <3>1, <3>2 DEF Flow, LabelFits, ResolveFits, PosFits, BoundTo, Denied
  <2> QED BY <1>1, <2>1, <2>2 DEF FlowInv
<1> QED BY <1>2, <1>3, <1>4 DEF Next, Undisturbed, WorkerNext

(* FlowInv holds before the first call.                                       *)
LEMMA FlowInit ==
    ASSUME Init
    PROVE  FlowInv
<1>1. DataTypes
  BY DEF Init, DataTypes, NoStages, ReceiptKinds
<1>2. ASSUME NEW w \in Workers PROVE Flow(w)
  BY SessionAssumption DEF Init, Flow, LabelFits, ResolveFits, PosFits, BoundTo, NoCall,
     Working, Unlocked
<1> QED BY <1>1, <1>2, LeaseInit DEF FlowInv

(* FlowInv is an invariant of the download.                                   *)
THEOREM FlowInvariant == Spec => []FlowInv
BY FlowInit, FlowInvKept, PTL DEF Spec

(* The type invariant: no handler builds an ill-formed session, position,     *)
(* spool or receipt.                                                          *)
THEOREM DownloadTypesHold == Spec => []TypeOK
<1>1. FlowInv => TypeOK
  <2> SUFFICES ASSUME FlowInv PROVE TypeOK
    OBVIOUS
  <2>1. \A w \in Workers : pos[w] \in Nat /\ pos[w] <= MaxDocuments
    BY DEF FlowInv, LeaseInv, WorkerTypes, Flow, PosFits
  <2>2. pos \in [Workers -> 0..MaxDocuments]
    BY <2>1, SessionAssumption DEF FlowInv, LeaseInv, WorkerTypes
  <2> QED BY <2>2 DEF TypeOK, FlowInv, LeaseInv, WorkerTypes, DataTypes, StoreInv
<1> QED BY <1>1, FlowInvariant, PTL

(* Who changes a stored session holds its lock and was called with the        *)
(* request the session was started for.                                       *)
LEMMA WriterBound ==
    ASSUME FlowInv, NEW w \in Workers, WorkerNext(w), NEW s \in Sessions,
           state[s] # NoSession, state'[s] # state[s]
    PROVE  lock[s] = w /\ pc[w] # "idle" /\ Sid(w) = s /\ call[w].request = state[s].request
<1>1. LeaseInv /\ Lease(w) /\ BoundTo(w)
  BY DEF FlowInv, LeaseInv, Flow
<1>2. lock[s] = w
  BY <1>1, StepOthersAlone DEF OthersAlone
<1>3. pc[w] \notin Unlocked /\ s = Sid(w)
  BY <1>1, <1>2 DEF Lease
<1>4. pc[w] \in Working /\ pc[w] # "discard_spool"
  <2>1. CASE Calls(w) \/ AcquireLease(w) \/ ReleaseLease(w) \/ Expire(w) \/ Crashing(w) \/ CrashInitializing(w)
    <3>1. state' = state
      BY <2>1 DEF Calls, StartDownload, StartResolve, AcquireLease, ReleaseLease, Expire,
         Crashing, Crash, CrashDiscarding, CrashPutting, CrashInitializing, ProcessLost
    <3> QED BY <3>1
  <2>2. CASE Local(w)
    BY <2>2, LocalUsesNoStore DEF storeVars
  <2>3. CASE Persisting(w)
    BY <1>1, <2>3, PersistingEffect
  <2>4. CASE StartSession(w) \/ InitializeTransaction(w) \/ DeleteSession(w)
    BY <1>3, <2>4 DEF StartSession, InitializeTransaction, DeleteSession, Working, Labels,
       Unlocked, Loading
  <2> QED BY <2>1, <2>2, <2>3, <2>4, StepKinds
<1> QED BY <1>1, <1>2, <1>3, <1>4, WorkingSession DEF BoundTo, Unlocked

(* A session is only ever advanced by a call for the request it belongs to    *)
(* (request_identity), also after a crash or under a reused session ID.       *)
THEOREM SessionsBound == Spec => SessionBoundToRequest
<1> DEFINE Bound == \A s \in Sessions : state[s] # NoSession /\ state'[s] # state[s] =>
          \E w \in Workers : /\ lock[s] = w /\ pc[w] # "idle" /\ Sid(w) = s
                             /\ call[w].request = state[s].request
<1>1. FlowInv /\ [Next]_vars => [Bound]_vars
  <2> SUFFICES ASSUME FlowInv, Next PROVE Bound
    OBVIOUS
  <2>1. ASSUME NEW w \in Workers, WorkerNext(w) PROVE Bound
    BY <2>1, WriterBound
  <2>2. ASSUME NEW t \in Txns, BankSettles(t) PROVE Bound
    BY <2>2 DEF BankSettles, storeVars
  <2> QED BY <2>1, <2>2 DEF Next, Undisturbed, WorkerNext
<1> QED BY <1>1, FlowInvariant, PTL DEF Spec, SessionBoundToRequest

-----------------------------------------------------------------------------
(* What the phase of a session says of the receipt of its transaction. *)
Known(m, b) ==
    /\ m.receipt = "none" => b.fate = "none"
    /\ m.phase \in {"receipt_pending", "receipt_ambiguous"} =>
          b.fate = "none" \/ b.kind = m.receipt
    /\ m.phase \in {"receipt_response_verified", "negative_complete"} \cup PublishedPhases =>
          b = [kind |-> m.receipt, fate |-> "recorded"]

(* Known, for session s and its transaction.                                  *)
ReceiptKnown(s) == TxnOf(s) # NoTxn => Known(state[s], bank[TxnOf(s)])

(* What was posted for transaction t is what the bank got, and only claimed   *)
(* transactions are acknowledged.                                             *)
BankFits(t) ==
    /\ posted[t] = IF bank[t].fate = "none" THEN 0 ELSE 1
    /\ bank[t].fate = "none" <=> bank[t].kind = "none"
    /\ t \notin claims => bank[t].fate = "none"

(* A worker about to post knows that nothing was posted before.               *)
PostFits(w) ==
    /\ pc[w] = "post" => bank[mem[w].txn].fate = "none"
    /\ pc[w] = "await" => bank[mem[w].txn].fate # "none"

(* The third inductive invariant. A receipt is posted after its intent is on  *)
(* file, and only then; so the phase on file bounds what the bank may have    *)
(* been told, also across crashes.                                            *)
ReceiptInv ==
    /\ FlowInv
    /\ \A s \in Sessions : ReceiptKnown(s)
    /\ \A t \in Txns : BankFits(t)
    /\ \A w \in Workers : PostFits(w)

(* What a phase says of a receipt survives the steps of workers on other      *)
(* sessions.                                                                  *)
LEMMA KnownAlone ==
    ASSUME ReceiptInv, NEW w \in Workers, OthersAlone(w), TxnsAlone(w),
           NEW s \in Sessions, lock[s] # w
    PROVE  ReceiptKnown(s)'
<1>1. LeaseInv /\ ReceiptKnown(s) /\ state'[s] = state[s]
  BY DEF ReceiptInv, FlowInv, OthersAlone
<1>2. TxnOf(s)' = TxnOf(s) /\ TxnOf(s) \in Txns \cup {NoTxn}
  BY <1>1 DEF TxnOf, LeaseInv, StoreInv, StoreTypeOK, Session
<1>3. CASE TxnOf(s) # NoTxn
  <2>1. pc[w] \in Working => TxnOf(s) # mem[w].txn
    BY <1>1, <1>2, <1>3, WorkingSession, SeparateTransactions
  <2>2. bank'[TxnOf(s)] = bank[TxnOf(s)]
    BY <1>2, <1>3, <2>1 DEF TxnsAlone
  <2> QED BY <1>1, <1>2, <2>2 DEF ReceiptKnown
<1> QED BY <1>2, <1>3 DEF ReceiptKnown

(* That nothing was posted survives the steps of the other workers.           *)
LEMMA PostAlone ==
    ASSUME ReceiptInv, NEW w \in Workers, OthersAlone(w), TxnsAlone(w), NEW v \in Workers \ {w}
    PROVE  PostFits(v)'
<1>1. LeaseInv /\ PostFits(v) /\ LabelFits(v) /\ pc'[v] = pc[v] /\ mem'[v] = mem[v]
  BY DEF ReceiptInv, FlowInv, Flow, OthersAlone
<1>2. CASE pc[v] \in {"post", "await"}
  <2>0. pc[v] \in Working
    BY <1>2 DEF Working, Labels, Unlocked, Loading
  <2>1. /\ Sid(v) \in Sessions /\ lock[Sid(v)] = v /\ TxnOf(Sid(v)) = mem[v].txn
        /\ mem[v].txn \in Txns
    BY <1>1, <1>2, <2>0, WorkingSession, HasTransaction DEF LabelFits, TxnOf
  <2>2. pc[w] \in Working => mem[v].txn # mem[w].txn
    BY <1>1, <2>1, WorkingSession, SeparateTransactions
  <2>3. bank'[mem[v].txn] = bank[mem[v].txn]
    BY <2>1, <2>2 DEF TxnsAlone
  <2> QED BY <1>1, <2>3 DEF PostFits
<1> QED BY <1>1, <1>2 DEF PostFits

(* What a step of w does to the receipt of its own transaction. *)
LEMMA OwnReceipt ==
    ASSUME ReceiptInv, NEW w \in Workers, WorkerNext(w)
    PROVE  /\ PostFits(w)'
           /\ \A s \in Sessions : lock[s] = w => ReceiptKnown(s)'
           /\ \A t \in Txns : BankFits(t)'
<1> USE DEF Goto, At
<1>t. /\ pc \in [Workers -> Labels] /\ mem \in [Workers -> Session \cup {NoSession}]
      /\ state \in [Sessions -> Session \cup {NoSession}]
      /\ FlowInv /\ LeaseInv /\ DataTypes /\ Lease(w) /\ LabelFits(w) /\ PostFits(w)
  BY DEF ReceiptInv, FlowInv, LeaseInv, WorkerTypes, StoreInv, StoreTypeOK, Flow
<1> DEFINE Goal == /\ PostFits(w)'
                   /\ \A s \in Sessions : lock[s] = w => ReceiptKnown(s)'
                   /\ \A t \in Txns : BankFits(t)'
<1> SUFFICES Goal
  OBVIOUS
<1>1. CASE state' = state /\ bank' = bank /\ posted' = posted /\ claims \subseteq claims'
           /\ pc'[w] \notin {"post", "await"}
  BY <1>1 DEF ReceiptInv, ReceiptKnown, TxnOf, BankFits, PostFits
<1>2. CASE Calls(w) \/ AcquireLease(w) \/ ReleaseLease(w) \/ Expire(w) \/ Crashing(w) \/ CrashInitializing(w)
  <2>1. CASE Expire(w)
    <3>1. UNCHANGED <<state, bank, posted, claims, pc, mem>>
      BY <2>1 DEF Expire, bankVars, workerVars
    <3> QED BY <1>t, <3>1 DEF ReceiptInv, ReceiptKnown, TxnOf, BankFits, PostFits
  <2>2. CASE Calls(w) \/ AcquireLease(w) \/ ReleaseLease(w)
    <3>1. UNCHANGED <<state, bank, posted, claims>>
          /\ pc'[w] \in {"recv_lock", "lock", "recv_load", "load", "idle"}
      BY <1>t, <2>2 DEF Calls, StartDownload, StartResolve, AcquireLease, ReleaseLease, bankVars
    <3> QED BY <1>1, <3>1
  <2>3. CASE Crashing(w) \/ CrashInitializing(w)
    <3>1. UNCHANGED <<state, bank, posted>> /\ claims \subseteq claims' /\ pc'[w] = "idle"
      BY <1>t, <2>3 DEF Crashing, Crash, CrashDiscarding, CrashPutting, CrashInitializing,
         ProcessLost, bankVars
    <3> QED BY <1>1, <3>1
  <2> QED BY <1>2, <2>1, <2>2, <2>3
<1>3. CASE Local(w)
  <2>1. UNCHANGED <<state, claims, call>>
    BY <1>3, LocalUsesNoStore DEF storeVars
  <2>2. CASE PostReceipt(w)
    <3> DEFINE t == mem[w].txn
    <3>1. /\ pc[w] = "post" /\ mem' = mem /\ pc'[w] = "await"
          /\ bank' = [bank EXCEPT ![t] = [kind |-> mem[w].receipt, fate |-> "inflight"]]
          /\ posted' = [posted EXCEPT ![t] = posted[t] + 1]
      BY <1>t, <2>2 DEF PostReceipt
    <3>2. pc[w] \in Working /\ mem[w].phase = "receipt_pending" /\ bank[t].fate = "none"
      BY <1>t, <3>1 DEF LabelFits, PostFits, Working, Labels, Unlocked, Loading
    <3>3. /\ Sid(w) \in Sessions /\ mem[w] = state[Sid(w)] /\ mem[w] \in Session /\ mem[w] # NoSession
          /\ Coherent(mem[w]) /\ t \in Txns
      BY <1>t, <3>2, WorkingSession, HasTransaction
    <3>4. mem[w].receipt # "none"
      BY <3>2, <3>3 DEF Coherent, ReceiptCoherent, UncertainPhases
    <3>5. t \in claims
      BY <1>t, <3>3, SessionAssumption DEF LeaseInv, StoreInv, OneSessionPerTransaction, TxnOf
    <3>6. /\ bank'[t] = [kind |-> mem[w].receipt, fate |-> "inflight"] /\ posted'[t] = posted[t] + 1
          /\ \A x \in Txns \ {t} : bank'[x] = bank[x] /\ posted'[x] = posted[x]
      BY <1>t, <3>1, <3>3 DEF DataTypes
    <3>7. PostFits(w)'
      BY <3>1, <3>6 DEF PostFits
    <3>8. ReceiptKnown(Sid(w))'
      <4>1. Sid(w)' = Sid(w) /\ TxnOf(Sid(w))' = t
        BY <2>1, <3>3 DEF Sid, TxnOf
      <4>2. Known(mem[w], bank'[t])
        BY <3>2, <3>4, <3>6 DEF Known, PublishedPhases
      <4> QED BY <2>1, <3>3, <4>1, <4>2 DEF ReceiptKnown
    <3>9. \A x \in Txns : BankFits(x)'
      BY <2>1, <3>2, <3>3, <3>4, <3>5, <3>6 DEF ReceiptInv, BankFits
    <3>10. \A s \in Sessions : lock[s] = w => s = Sid(w)
      BY <1>t DEF Lease
    <3>11. ASSUME NEW s \in Sessions, lock[s] = w PROVE ReceiptKnown(s)'
      <4>1. s = Sid(w) /\ Sid(w)' = Sid(w)
        BY <2>1, <3>10, <3>11 DEF Sid
      <4> QED BY <3>8, <4>1 DEF ReceiptKnown, TxnOf
    <3> QED BY <3>7, <3>9, <3>11
  <2>3. CASE ~PostReceipt(w)
    <3>1. UNCHANGED <<bank, posted>>
      <4>1. CASE \/ ResumeSession(w) \/ RequestInitialization(w) \/ RequestSegment(w)
                 \/ ResponseRefused(w) \/ RecoverBootstrap(w) \/ VerificationFails(w)
                 \/ LoadSession(w) \/ CloseTerminal(w) \/ RefusePhase(w) \/ AmbiguityFound(w)
        BY <4>1 DEF ResumeSession, RequestInitialization, RequestSegment, ResponseRefused,
           RecoverBootstrap, VerificationFails, LoadSession, CloseTerminal, RefusePhase,
           AmbiguityFound, bankVars
      <4>2. CASE \/ NegativeFound(w) \/ LoadDocuments(w) \/ ReloadAmbiguous(w)
                 \/ PutSegment(w) \/ DiscardSpool(w) \/ Stop(w) \/ ProcessingFails(w)
                 \/ BeginDocument(w) \/ StageDocument(w) \/ PublishDocument(w) \/ DiscardStages(w)
        BY <4>2 DEF NegativeFound, LoadDocuments, ReloadAmbiguous, PutSegment, DiscardSpool,
           Stop, ProcessingFails, BeginDocument, StageDocument, PublishDocument, DiscardStages,
           bankVars
      <4> QED BY <1>3, <2>3, <4>1, <4>2 DEF Local
    <3>2. pc'[w] \notin {"post", "await"}
      <4>1. CASE \/ ResumeSession(w) \/ RequestInitialization(w) \/ RequestSegment(w)
                 \/ ResponseRefused(w) \/ RecoverBootstrap(w) \/ VerificationFails(w)
                 \/ LoadSession(w) \/ CloseTerminal(w) \/ RefusePhase(w) \/ AmbiguityFound(w)
        BY <1>t, <4>1 DEF ResumeSession, RequestInitialization, RequestSegment, ResponseRefused,
           RecoverBootstrap, VerificationFails, LoadSession, Resolution, CloseTerminal,
           RefusePhase,
           AmbiguityFound, AfterAmbiguity
      <4>2. CASE \/ NegativeFound(w) \/ LoadDocuments(w) \/ ReloadAmbiguous(w)
                 \/ PutSegment(w) \/ DiscardSpool(w) \/ Stop(w) \/ ProcessingFails(w)
                 \/ BeginDocument(w) \/ StageDocument(w) \/ PublishDocument(w) \/ DiscardStages(w)
        BY <1>t, <4>2 DEF NegativeFound, LoadDocuments, ReloadAmbiguous, PutSegment, DiscardSpool,
           Stop, ProcessingFails, BeginDocument, StageDocument, PublishDocument, PublicationDue,
           DiscardStages
      <4> QED BY <1>3, <2>3, <4>1, <4>2 DEF Local
    <3> QED BY <1>1, <2>1, <3>1, <3>2
  <2> QED BY <2>2, <2>3
(* The session of w comes to hold v, and the bank knows as much as v needs. *)
<1>4. ASSUME NEW v, state' = [state EXCEPT ![Sid(w)] = v], UNCHANGED <<bank, posted, call>>,
             claims \subseteq claims', Sid(w) \in Sessions,
             v # NoSession => v.txn = NoTxn \/ Known(v, bank[v.txn]),
             pc'[w] = "post" => bank[mem'[w].txn].fate = "none", pc'[w] # "await"
      PROVE  Goal
  <2>1. ASSUME NEW s \in Sessions, lock[s] = w PROVE ReceiptKnown(s)'
    <3>1. s = Sid(w) /\ state'[s] = v
      BY <1>t, <1>4, <2>1 DEF Lease
    <3> QED BY <1>4, <3>1 DEF ReceiptKnown, TxnOf
  <2>2. PostFits(w)' /\ \A t \in Txns : BankFits(t)'
    BY <1>4 DEF ReceiptInv, PostFits, BankFits
  <2> QED BY <2>1, <2>2
<1>5. CASE StartSession(w)
  <2>1. UNCHANGED <<bank, posted, call, claims>> /\ Sid(w) \in Sessions
    BY <1>5, <1>t, CallNamesSession DEF StartSession, bankVars
  <2>2. \/ state' = state /\ pc'[w] = "release"
        \/ state' = [state EXCEPT ![Sid(w)] = start(call[w].request)] /\ pc'[w] = "receive"
    BY <1>t, <1>5 DEF StartSession, Persist, StateSetTo
  <2>3. start(call[w].request).txn = NoTxn
    BY DEF start
  <2> QED BY <1>1, <1>4, <2>1, <2>2, <2>3
<1>6. CASE InitializeTransaction(w)
  <2> DEFINE t == got[w]
             new == initialize(mem[w], t, Total[t])
  <2>1. UNCHANGED <<bank, posted, call>> /\ claims \subseteq claims' /\ pc[w] = "initialize"
    BY <1>6 DEF InitializeTransaction, bankVars
  <2>2. \/ state' = state /\ pc'[w] \in {"fail", "release"}
        \/ /\ state' = [state EXCEPT ![Sid(w)] = new] /\ pc'[w] = "receive" /\ t \notin claims
           /\ state[Sid(w)].phase = "new"
    BY <1>t, <1>6 DEF InitializeTransaction, StateSetTo, CanClaim, InitializeAccepts,
       CanInitialize
  <2>3. /\ Sid(w) \in Sessions /\ mem[w] = state[Sid(w)] /\ mem[w] \in Session /\ Coherent(mem[w])
        /\ t \in Txns /\ Total[t] \in 1..MaxSegments
    BY <1>t, <2>1, WorkingSession, BtdAssumption DEF Lease, Working, Labels, Unlocked, Loading
  <2>4. mem[w].phase = "new" => new.txn = t /\ new.receipt = "none" /\ new.phase = "initialized"
    BY <2>3, InitializeCoherent DEF initialize, Advance, Session
  <2>5. t \notin claims => bank[t].fate = "none"
    BY <2>3 DEF ReceiptInv, BankFits
  <2>6. mem[w].phase = "new" /\ t \notin claims => Known(new, bank[new.txn])
    BY <2>4, <2>5 DEF Known, PublishedPhases
  <2> HIDE DEF new
  <2> QED BY <1>1, <1>4, <2>1, <2>2, <2>3, <2>6
<1>7. CASE DeleteSession(w)
  <2>1. /\ UNCHANGED <<bank, posted, call, claims>> /\ pc[w] = "delete" /\ pc'[w] = "release"
        /\ state' = state \/ state' = [state EXCEPT ![Sid(w)] = NoSession]
    BY <1>t, <1>7 DEF DeleteSession, StateSetTo, bankVars
  <2>2. Sid(w) \in Sessions
    BY <1>t, <2>1, CallNamesSession
  <2> QED BY <1>1, <1>4, <2>1, <2>2
<1>8. CASE Persisting(w)
  <2> DEFINE m == mem[w]
             b == bank[m.txn]
  <2>1. /\ pc[w] \in Working /\ UNCHANGED <<bank, posted, call, claims>>
        /\ Sid(w) \in Sessions /\ m \in Session /\ Coherent(m) /\ m = state[Sid(w)] /\ m # NoSession
    BY <1>t, <1>8, PersistingEffect, WorkingSession DEF bankVars
  <2>2. m.txn # NoTxn => Known(m, b) /\ m.txn \in Txns
    BY <2>1 DEF ReceiptInv, ReceiptKnown, TxnOf, Session
  <2>3. ASSUME NEW new, NEW l, Persist(w, new, l),
               new \in Session /\ Coherent(new) /\ new.txn = m.txn /\ m.txn # NoTxn => Known(new, b),
               l = "post" => b.fate = "none", l # "await"
        PROVE  Goal
    <3>1. CASE UNCHANGED <<state, mem>> /\ pc' = [pc EXCEPT ![w] = "release"]
      BY <1>t, <1>1, <2>1, <3>1
    <3>2. CASE /\ new \in Session /\ Coherent(new) /\ new.txn = m.txn
               /\ state' = [state EXCEPT ![Sid(w)] = new]
               /\ mem' = [mem EXCEPT ![w] = new] /\ pc' = [pc EXCEPT ![w] = l]
      <4>1. mem'[w] = new /\ pc'[w] = l
        BY <1>t, <3>2
      <4> QED BY <1>4, <2>1, <2>3, <3>2, <4>1
    <3> QED BY <1>t, <2>1, <2>3, <3>1, <3>2, PersistEffect
  <2>4. CASE UNCHANGED <<state, mem>> /\ pc'[w] \in {"fail", "recv_release"}
    BY <1>1, <2>1, <2>4
  <2> HIDE DEF Goal
  <2>5. CASE RecordSegment(w) \/ VerifySpool(w) \/ FailSession(w) \/ RecordUnpacked(w) \/ RecordStaged(w)
    <3>1. /\ m.phase \in ReceivePhases \cup ProcessPhases
          /\ \/ UNCHANGED <<state, mem>> /\ pc'[w] \in {"fail", "recv_release"}
             \/ \E new : \E l \in {"receive", "recv_release", "discard_spool", "unpack", "process"} :
                   /\ Persist(w, new, l)
                   /\ new.phase \in ReceivePhases \cup ProcessPhases \cup {"failed", "documents_staged"}
      <4>1. CASE RecordSegment(w)
        BY <1>t, <2>1, <4>1, TransitionFields DEF RecordSegment, LabelFits, ReceivePhases
      <4>2. CASE VerifySpool(w)
        BY <1>t, <2>1, <4>2, TransitionFields DEF VerifySpool, storeVars, PersistOnly,
           LabelFits, ReceivePhases
      <4>3. CASE FailSession(w)
        BY <1>t, <2>1, <4>3, TransitionFields DEF FailSession, PersistOnly, LabelFits,
           ReceivePhases
      <4>4. CASE RecordUnpacked(w)
        BY <1>t, <2>1, <4>4, TransitionFields DEF RecordUnpacked, PersistOnly, LabelFits,
           LoadPhases, ReceivePhases, ProcessPhases
      <4>5. CASE RecordStaged(w)
        BY <1>t, <2>1, <4>5, TransitionFields DEF RecordStaged, LabelFits, LoadPhases,
           ReceivePhases, ProcessPhases
      <4> QED BY <2>5, <4>1, <4>2, <4>3, <4>4, <4>5
    <3>2. m.receipt = "none"
      BY <2>1, <3>1 DEF Coherent, CoherentBeforeTransaction, ReceiptCoherent, ReceivePhases,
         ProcessPhases, UncertainPhases, PublishedPhases, Session, ReceiptKinds
    <3>3. ASSUME NEW new, NEW l \in {"receive", "recv_release", "discard_spool", "unpack", "process"},
                 Persist(w, new, l),
                 new.phase \in ReceivePhases \cup ProcessPhases \cup {"failed", "documents_staged"}
          PROVE  Goal
      <4>1. m.txn # NoTxn => Known(new, b)
        BY <2>2, <3>3, <3>2 DEF Known, ReceivePhases, ProcessPhases, PublishedPhases
      <4> QED BY <2>3, <3>3, <4>1
    <3> QED BY <2>4, <3>1, <3>3
  <2>6. CASE IntendReceipt(w)
    <3>1. PICK new : /\ Persist(w, new, "post") /\ new.phase = "receipt_pending" /\ new.receipt # "none"
                     /\ m.phase \in LoadPhases \cup {"documents_staged"}
      BY <1>t, <2>1, <2>6, TransitionFields DEF IntendReceipt, PersistOnly, LabelFits
    <3>2. m.receipt = "none" /\ m.txn # NoTxn
      BY <2>1, <3>1 DEF Coherent, ReceiptCoherent, LoadPhases, ProcessPhases, UncertainPhases,
         PublishedPhases, Session, ReceiptKinds
    <3>3. b.fate = "none" /\ Known(new, b)
      BY <2>2, <3>1, <3>2 DEF Known, PublishedPhases
    <3> QED BY <2>3, <3>1, <3>3
  <2>7. CASE ReceiptAnswered(w) \/ AcceptReceipt(w)
    <3>1. PICK l : /\ Persist(w, mark_receipt_response_verified(m), l)
                   /\ l \in {"discard_stages", "process"}
                   /\ m.phase \in {"receipt_pending", "receipt_ambiguous"}
      BY <1>t, <2>7 DEF ReceiptAnswered, AcceptReceipt, PersistOnly, LabelFits, Ambiguous
    <3>2. m.txn # NoTxn /\ b \in [kind: ReceiptKinds, fate: {"none", "inflight", "recorded", "lost"}]
      BY <1>t, <2>1, <2>2, <3>1 DEF Coherent, DataTypes
    <3>3. b.fate = "recorded"
      <4>1. CASE ReceiptAnswered(w)
        BY <4>1 DEF ReceiptAnswered
      <4>2. CASE AcceptReceipt(w)
        <5>1. /\ call[w].op = "resolve" /\ call[w].accepted /\ AnswerStands(w)
          BY <1>t, <4>2 DEF AcceptReceipt, LabelFits, FlowInv, Flow, ResolveFits
        <5>2. call[w].about = m.txn
          BY <2>1, <5>1 DEF AnswerStands, TxnOf
        <5> QED BY <5>1, <5>2 DEF AnswerStands
      <4> QED BY <2>7, <4>1, <4>2
    <3>4. b = [kind |-> m.receipt, fate |-> "recorded"]
      BY <2>2, <3>1, <3>2, <3>3 DEF Known
    <3>5. m.receipt # "none"
      BY <2>1, <3>1 DEF Coherent, ReceiptCoherent, UncertainPhases
    <3>6. Known(mark_receipt_response_verified(m), b)
      BY <2>1, <3>4, <3>5, TransitionFields DEF Known
    <3> QED BY <2>3, <3>1, <3>6
  <2>8. CASE PendingFound(w) \/ ReceiptUnanswered(w)
    <3>1. PICK l : /\ Persist(w, mark_receipt_ambiguous(m), l)
                   /\ l \in {"discard_stages", "reload", "release"}
                   /\ m.phase = "receipt_pending"
      BY <1>t, <2>8 DEF PendingFound, ReceiptUnanswered, PersistOnly, LabelFits, AfterAmbiguity
    <3>2. m.txn # NoTxn => Known(mark_receipt_ambiguous(m), b)
      BY <2>1, <2>2, <3>1, TransitionFields DEF Known, PublishedPhases
    <3> QED BY <2>3, <3>1, <3>2
  <2>9. CASE RecordPublished(w) \/ FinishPublished(w) \/ FinishNegative(w)
    <3>1. PICK new, l :
            /\ Persist(w, new, l) /\ l \in {"process", "discard_spool"}
            /\ m.phase \in {"receipt_response_verified", "documents_published"}
            /\ new.phase \in {"negative_complete"} \cup PublishedPhases /\ new.receipt = m.receipt
      <4>1. CASE RecordPublished(w)
        BY <1>t, <2>1, <4>1, TransitionFields DEF RecordPublished, PublishedPhases
      <4>2. CASE FinishPublished(w)
        BY <1>t, <2>1, <4>2, TransitionFields DEF FinishPublished, PersistOnly, PublishedPhases
      <4>3. CASE FinishNegative(w)
        BY <1>t, <2>1, <4>3, TransitionFields DEF FinishNegative, PersistOnly, LabelFits,
           Answered, PublishedPhases
      <4> QED BY <2>9, <4>1, <4>2, <4>3
    <3>2. m.receipt # "none"
      BY <2>1, <3>1 DEF Coherent, ReceiptCoherent, UncertainPhases, PublishedPhases
    <3>3. m.txn # NoTxn => Known(new, b)
      BY <2>2, <3>1, <3>2 DEF Known, PublishedPhases
    <3> QED BY <2>3, <3>1, <3>3
  <2> QED BY <1>8, <2>5, <2>6, <2>7, <2>8, <2>9 DEF Persisting, Goal
<1> QED BY <1>2, <1>3, <1>5, <1>6, <1>7, <1>8, StepKinds

(* ReceiptInv is preserved by every step, the bank's late decision on a       *)
(* receipt under way included.                                                *)
LEMMA ReceiptInvKept ==
    ASSUME ReceiptInv, [Next]_vars
    PROVE  ReceiptInv'
<1>1. FlowInv' /\ FlowInv /\ LeaseInv /\ DataTypes
  BY FlowInvKept DEF ReceiptInv, FlowInv
<1>2. CASE UNCHANGED vars
  <2>1. UNCHANGED <<state, claims, pc, mem, bank, posted>>
    BY <1>2 DEF vars, storeVars, workerVars, bankVars
  <2> QED BY <1>1, <2>1 DEF ReceiptInv, ReceiptKnown, TxnOf, BankFits, PostFits
<1>3. ASSUME NEW w \in Workers, WorkerNext(w)
      PROVE  ReceiptInv'
  <2>1. OthersAlone(w) /\ TxnsAlone(w)
    BY <1>1, <1>3, StepOthersAlone, StepTxnsAlone
  <2>2. \A s \in Sessions : ReceiptKnown(s)'
    BY <1>3, <2>1, KnownAlone, OwnReceipt
  <2>3. \A v \in Workers : PostFits(v)'
    BY <1>3, <2>1, PostAlone, OwnReceipt
  <2>4. \A t \in Txns : BankFits(t)'
    BY <1>3, OwnReceipt
  <2> QED BY <1>1, <2>2, <2>3, <2>4 DEF ReceiptInv
<1>4. ASSUME NEW t \in Txns, BankSettles(t)
      PROVE  ReceiptInv'
  <2>1. /\ UNCHANGED <<state, claims, pc, mem, posted>> /\ bank[t].fate = "inflight"
        /\ bank'[t].fate \in {"recorded", "lost"} /\ bank'[t].kind = bank[t].kind
        /\ \A x \in Txns \ {t} : bank'[x] = bank[x]
    BY <1>1, <1>4, SettleEffect DEF storeVars, workerVars
  <2>2. ASSUME NEW s \in Sessions PROVE ReceiptKnown(s)'
    <3>1. TxnOf(s)' = TxnOf(s) /\ ReceiptKnown(s) /\ TxnOf(s) \in Txns \cup {NoTxn}
      BY <1>1, <2>1 DEF ReceiptInv, TxnOf, LeaseInv, StoreInv, StoreTypeOK, Session
    <3>2. CASE TxnOf(s) = t
      <4>1. Known(state[s], bank[t]) /\ bank[t].fate = "inflight" => Known(state[s], bank'[t])
        BY <2>1 DEF Known
      <4> QED BY <2>1, <3>1, <3>2, <4>1 DEF ReceiptKnown
    <3>3. CASE TxnOf(s) # t
      BY <2>1, <3>1, <3>3 DEF ReceiptKnown
    <3> QED BY <3>2, <3>3
  <2>3. \A x \in Txns : BankFits(x)'
    BY <2>1 DEF ReceiptInv, BankFits
  <2>4. ASSUME NEW w \in Workers PROVE PostFits(w)'
    <3>1. CASE pc[w] \in {"post", "await"}
      <4>0. pc[w] \in Working
        BY <3>1 DEF Working, Labels, Unlocked, Loading
      <4>1. mem[w].txn \in Txns
        BY <1>1, <3>1, <4>0, WorkingSession, HasTransaction DEF FlowInv, Flow, LabelFits
      <4>2. PostFits(w)
        BY DEF ReceiptInv
      <4> QED BY <2>1, <4>1, <4>2 DEF PostFits
    <3> QED BY <2>1, <3>1 DEF PostFits
  <2> QED BY <1>1, <2>2, <2>3, <2>4 DEF ReceiptInv
<1> QED BY <1>2, <1>3, <1>4 DEF Next, Undisturbed, WorkerNext

(* ReceiptInv holds before the first call.                                    *)
LEMMA ReceiptInit ==
    ASSUME Init
    PROVE  ReceiptInv
<1>1. FlowInv
  BY FlowInit
<1> QED BY <1>1 DEF ReceiptInv, Init, StoreInit, ReceiptKnown, TxnOf, BankFits, PostFits

(* ReceiptInv is an invariant of the download.                                *)
THEOREM ReceiptInvariant == Spec => []ReceiptInv
BY ReceiptInit, ReceiptInvKept, PTL DEF Spec

(* At most one receipt is ever posted for a transaction, whatever the         *)
(* crashes, retries, timeouts and resolutions.                                *)
THEOREM OneReceiptAtMost == Spec => []AtMostOneReceipt
<1>1. ReceiptInv => AtMostOneReceipt
  BY DEF ReceiptInv, BankFits, AtMostOneReceipt
<1> QED BY <1>1, ReceiptInvariant, PTL

(* A session that failed has not acknowledged its transaction.                *)
THEOREM FailuresUnacknowledged == Spec => []FailedNeverAcknowledged
<1>1. ReceiptInv => FailedNeverAcknowledged
  <2> SUFFICES ASSUME ReceiptInv, NEW s \in Sessions, state[s] # NoSession,
                      state[s].phase = "failed", state[s].txn # NoTxn
               PROVE  posted[state[s].txn] = 0
    BY DEF FailedNeverAcknowledged
  <2>1. state[s] \in Session /\ Coherent(state[s])
    BY DEF ReceiptInv, FlowInv, LeaseInv, StoreInv, StoreTypeOK, SessionsCoherent
  <2>2. state[s].receipt = "none" /\ state[s].txn \in Txns
    BY <2>1 DEF Coherent, ReceiptCoherent, UncertainPhases, PublishedPhases, Session
  <2>3. bank[state[s].txn].fate = "none"
    BY <2>2 DEF ReceiptInv, ReceiptKnown, Known, TxnOf
  <2> QED BY <2>2, <2>3 DEF ReceiptInv, BankFits
<1> QED BY <1>1, ReceiptInvariant, PTL
=============================================================================
