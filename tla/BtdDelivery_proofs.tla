------------------------- MODULE BtdDelivery_proofs -------------------------
(***************************************************************************)
(* Proofs about BtdDownload, part three: the documents and the spool.      *)
(* DocInv adds to ReceiptInv what the sink holds of a transaction,         *)
(* SpoolInv adds to FlowInv what its spool holds. From DocInv follow the   *)
(* properties of publication and that BtdDownload implements               *)
(* DocumentDelivery.                                                       *)
(***************************************************************************)
EXTENDS BtdReceipt_proofs

(* The bank has recorded the documents as delivered.                          *)
Accepted == [kind |-> "positive", fate |-> "recorded"]

(* Phases in which plaintext may be staged.                                   *)
HomePhases == UncertainPhases \cup {"container_verified", "documents_staged"}

(* Session m of a transaction with n documents and the stages q. *)
Staging(m, q, n) ==
    /\ m.staged # 0 => m.staged = n
    /\ m.phase = "documents_staged" \/ (m.phase = "receipt_pending" /\ m.receipt = "positive") =>
          \A p \in 1..n : q[p] = "staged"
    /\ m.phase # "container_verified" /\ m.receipt # "negative" =>
          \A p \in Positions : q[p] # "partial"
    /\ q # NoStages => m.phase \in HomePhases

(* Stages q, documents d and receipt b of a transaction with n documents. *)
Safe(q, d, b, n) ==
    /\ \A p \in Positions : p > n => q[p] = "none" /\ d[p] = "none"
    /\ \A p \in Positions : d[p] # "none" => d[p] = "complete" /\ b = Accepted
    /\ b.kind = "positive" /\ b.fate # "lost" =>
          \A p \in 1..n : q[p] = "staged" \/ d[p] = "complete"

(* Staging, for session s and the stages of its transaction.                  *)
SessionDocs(s) == TxnOf(s) # NoTxn => Staging(state[s], part[TxnOf(s)], Documents[TxnOf(s)])

(* Safe, for transaction t.                                                   *)
DocFits(t) == Safe(part[t], published[t], bank[t], Documents[t])

(* Stages without a session are empty.                                        *)
NoOrphan(t) == (\A s \in Sessions : TxnOf(s) # t) => part[t] = NoStages

(* What a worker in one of the loops over the documents has done so far:      *)
(* staged the first of them, published the first of them, or discarded all.   *)
WorkerDocs(w) ==
    /\ pc[w] \in {"unpack", "write"} => \A p \in 1..pos[w] : part[mem[w].txn][p] = "staged"
    /\ pc[w] = "process" => \A p \in 1..pos[w] : part[mem[w].txn][p] = "none"
    /\ pc[w] \in {"finish_negative", "delete"} \/ (pc[w] = "discard_spool" /\ Denied(w)) =>
          part[mem[w].txn] = NoStages

(* The fourth inductive invariant. ReceiptInv is needed because publication   *)
(* looks at the session's phase, while the properties speak of the bank;      *)
(* WorkerDocs because the loops take one document per step and may be cut     *)
(* anywhere.                                                                  *)
DocInv ==
    /\ ReceiptInv
    /\ \A s \in Sessions : SessionDocs(s)
    /\ \A t \in Txns : DocFits(t) /\ NoOrphan(t)
    /\ \A w \in Workers : WorkerDocs(w)

(* What the invariant is for.                                                 *)
LEMMA DocInvImplies ==
    ASSUME DocInv
    PROVE  PublishedOnlyIfAccepted /\ AcceptedNeverLost /\ NoOrphanedPlaintext
<1>1. PublishedOnlyIfAccepted
  BY DEF DocInv, DocFits, Safe, Accepted, PublishedOnlyIfAccepted
<1>2. AcceptedNeverLost
  BY DEF DocInv, DocFits, Safe, AcceptedNeverLost
<1>3. NoOrphanedPlaintext
  <2> SUFFICES ASSUME NEW t \in Txns, part[t] # NoStages
               PROVE  \E s \in Sessions : TxnOf(s) = t /\ state[s].phase \in HomePhases
    BY DEF NoOrphanedPlaintext, HomePhases
  <2>1. PICK s \in Sessions : TxnOf(s) = t
    BY DEF DocInv, NoOrphan
  <2>2. SessionDocs(s)
    BY DEF DocInv
  <2> QED BY <2>1, <2>2, SessionAssumption DEF SessionDocs, Staging
<1> QED BY <1>1, <1>2, <1>3

(* A session leaves its transaction only by delete. *)
LEMMA TxnKept ==
    ASSUME FlowInv, NEW w \in Workers, WorkerNext(w), ~DeleteSession(w),
           NEW s \in Sessions, TxnOf(s) # NoTxn
    PROVE  TxnOf(s)' = TxnOf(s)
<1>1. LeaseInv /\ Lease(w) /\ pc \in [Workers -> Labels]
  BY DEF FlowInv, LeaseInv, WorkerTypes
<1>2. CASE lock[s] # w
  BY <1>1, <1>2, StepOthersAlone DEF OthersAlone, TxnOf
<1>3. CASE lock[s] = w
  <2>0. s = Sid(w)
    BY <1>1, <1>3 DEF Lease
  <2>1. CASE Calls(w) \/ AcquireLease(w) \/ ReleaseLease(w) \/ Expire(w) \/ Crashing(w) \/ CrashInitializing(w)
    <3>1. state' = state
      BY <2>1 DEF Calls, StartDownload, StartResolve, AcquireLease, ReleaseLease, Expire,
         Crashing, Crash, CrashDiscarding, CrashPutting, CrashInitializing, ProcessLost
    <3> QED BY <3>1 DEF TxnOf
  <2>2. CASE Local(w)
    BY <2>2, LocalUsesNoStore DEF storeVars, TxnOf
  <2>3. CASE Persisting(w)
    <3>1. pc[w] \in Working /\ call' = call
      BY <1>1, <2>3, PersistingEffect
    <3>2. CASE state' = state
      BY <3>2 DEF TxnOf
    <3>3. ASSUME NEW new, NEW l, Persist(w, new, l) PROVE TxnOf(s)' = TxnOf(s)
      <4>1. TxnOf(Sid(w))' = TxnOf(Sid(w)) /\ Sid(w)' = Sid(w)
        BY <1>1, <3>1, <3>3, OwnPersist DEF Sid
      <4> QED BY <2>0, <4>1 DEF TxnOf
    <3> QED BY <1>1, <2>3, <3>2, <3>3, PersistingEffect
  <2>4. CASE StartSession(w)
    BY <2>0, <2>4 DEF StartSession, TxnOf
  <2>5. CASE InitializeTransaction(w)
    <3>1. pc[w] \in Working
      BY <2>5 DEF InitializeTransaction, Working, Labels, Unlocked, Loading
    <3>2. CASE state' = state
      BY <3>2 DEF TxnOf
    <3>3. CASE state[Sid(w)].phase = "new"
      BY <1>1, <2>0, <3>1, <3>3, WorkingSession DEF TxnOf, Coherent, CoherentBeforeTransaction
    <3> QED BY <2>5, <3>2, <3>3 DEF InitializeTransaction, InitializeAccepts, CanInitialize
  <2> QED BY <2>1, <2>2, <2>3, <2>4, <2>5, StepKinds
<1> QED BY <1>2, <1>3

(* Stages and documents survive the steps of workers on other sessions.       *)
LEMMA DocsAlone ==
    ASSUME DocInv, NEW w \in Workers, OthersAlone(w), TxnsAlone(w)
    PROVE  /\ \A s \in Sessions : lock[s] # w => SessionDocs(s)'
           /\ \A t \in Txns : pc[w] \notin Working \/ t # mem[w].txn => DocFits(t)'
           /\ \A v \in Workers \ {w} : WorkerDocs(v)'
<1>t. ReceiptInv /\ FlowInv /\ LeaseInv
  BY DEF DocInv, ReceiptInv, FlowInv
<1>1. ASSUME NEW s \in Sessions, lock[s] # w PROVE SessionDocs(s)'
  <2>1. TxnOf(s)' = TxnOf(s) /\ TxnOf(s) \in Txns \cup {NoTxn} /\ state'[s] = state[s] /\ SessionDocs(s)
    BY <1>t, <1>1 DEF DocInv, OthersAlone, TxnOf, LeaseInv, StoreInv, StoreTypeOK, Session
  <2>2. CASE TxnOf(s) # NoTxn
    <3>1. pc[w] \in Working => TxnOf(s) # mem[w].txn
      BY <1>t, <1>1, <2>1, <2>2, WorkingSession, SeparateTransactions
    <3>2. part'[TxnOf(s)] = part[TxnOf(s)]
      BY <2>1, <2>2, <3>1 DEF TxnsAlone
    <3> QED BY <2>1, <3>2 DEF SessionDocs
  <2> QED BY <2>1, <2>2 DEF SessionDocs
<1>2. ASSUME NEW t \in Txns, pc[w] \notin Working \/ t # mem[w].txn PROVE DocFits(t)'
  BY <1>2 DEF DocInv, DocFits, TxnsAlone
<1>3. ASSUME NEW v \in Workers \ {w} PROVE WorkerDocs(v)'
  <2>1. /\ pc'[v] = pc[v] /\ mem'[v] = mem[v] /\ pos'[v] = pos[v] /\ call'[v] = call[v]
        /\ WorkerDocs(v) /\ LabelFits(v) /\ PosFits(v) /\ pos[v] \in Nat /\ (Denied(v)' <=> Denied(v))
    BY <1>t DEF OthersAlone, DocInv, FlowInv, Flow, LeaseInv, WorkerTypes, Denied
  <2>2. ASSUME pc[v] \in Working, mem[v].phase \notin {"new", "failed"}
        PROVE  part'[mem[v].txn] = part[mem[v].txn]
    <3>1. /\ Sid(v) \in Sessions /\ lock[Sid(v)] = v /\ TxnOf(Sid(v)) = mem[v].txn
          /\ mem[v].txn \in Txns
      BY <1>t, <2>2, WorkingSession, HasTransaction DEF TxnOf
    <3>2. pc[w] \in Working => mem[v].txn # mem[w].txn
      BY <1>t, <3>1, WorkingSession, SeparateTransactions
    <3> QED BY <3>1, <3>2 DEF TxnsAlone
  <2>3. CASE pc[v] \in {"unpack", "write", "finish_negative", "delete"} \/ (pc[v] = "discard_spool" /\ Denied(v))
    <3>1. pc[v] \in Working
      BY <2>3 DEF Working, Labels, Unlocked, Loading
    <3>2. mem[v].phase \notin {"new", "failed"}
      BY <2>1, <2>3 DEF LabelFits, LoadPhases, ProcessPhases, Denied, Ambiguous, Answered
    <3> QED BY <2>1, <2>2, <2>3, <3>1, <3>2 DEF WorkerDocs
  <2>4. CASE pc[v] = "process"
    <3>1. CASE pos[v] = 0
      BY <2>1, <2>4, <3>1 DEF WorkerDocs
    <3>2. CASE pos[v] # 0
      <4>1. pc[v] \in Working /\ mem[v].phase = "receipt_response_verified"
        BY <2>1, <2>4, <3>2 DEF Working, Labels, Unlocked, Loading, PosFits, Answered
      <4> QED BY <2>1, <2>2, <2>4, <4>1 DEF WorkerDocs
    <3> QED BY <3>1, <3>2
  <2> QED BY <2>1, <2>3, <2>4 DEF WorkerDocs
<1> QED BY <1>1, <1>2, <1>3

(* A session is deleted, or given another transaction, only once its stages   *)
(* are gone.                                                                  *)
LEMMA OrphansKept ==
    ASSUME DocInv, NEW w \in Workers, WorkerNext(w), TxnsAlone(w), NEW t \in Txns
    PROVE  NoOrphan(t)'
<1>t. ReceiptInv /\ FlowInv /\ LeaseInv /\ NoOrphan(t) /\ WorkerDocs(w)
  BY DEF DocInv, ReceiptInv, FlowInv
<1> SUFFICES ASSUME \A s \in Sessions : TxnOf(s)' # t
             PROVE  part'[t] = NoStages
  BY DEF NoOrphan
<1>1. CASE DeleteSession(w)
  <2>1. pc[w] = "delete" /\ part' = part /\ (state' = state \/ state' = [state EXCEPT ![Sid(w)] = NoSession])
    BY <1>1 DEF DeleteSession, StateSetTo, sinkVars
  <2>2. pc[w] \in Working
    BY <2>1 DEF Working, Labels, Unlocked, Loading
  <2>3. part[mem[w].txn] = NoStages /\ Sid(w) \in Sessions /\ TxnOf(Sid(w)) = mem[w].txn
    BY <1>t, <2>1, <2>2, WorkingSession DEF WorkerDocs, TxnOf
  <2>4. \A s \in Sessions \ {Sid(w)} : TxnOf(s)' = TxnOf(s)
    BY <1>t, <2>1 DEF TxnOf, LeaseInv, StoreInv, StoreTypeOK
  <2> QED BY <1>t, <2>1, <2>3, <2>4 DEF NoOrphan
<1>2. CASE ~DeleteSession(w)
  <2>1. \A s \in Sessions : TxnOf(s) # t
    BY <1>t, <1>2, TxnKept, SessionAssumption
  <2>2. pc[w] \in Working => t # mem[w].txn
    BY <1>t, <2>1, WorkingSession DEF TxnOf
  <2> QED BY <1>t, <2>1, <2>2 DEF NoOrphan, TxnsAlone
<1> QED BY <1>1, <1>2

(* Each step of a worker keeps its own stages, documents and receipt          *)
(* together: the loops of staging, publishing and discarding, cut anywhere.   *)
LEMMA OwnDocs ==
    ASSUME DocInv, NEW w \in Workers, WorkerNext(w)
    PROVE  /\ WorkerDocs(w)'
           /\ \A s \in Sessions : lock[s] = w => SessionDocs(s)'
           /\ \A t \in Txns : pc[w] \in Working /\ t = mem[w].txn => DocFits(t)'
<1> USE DEF Goto, At
<1>t. /\ pc \in [Workers -> Labels] /\ mem \in [Workers -> Session \cup {NoSession}]
      /\ pos \in [Workers -> Nat] /\ pos[w] \in Nat
      /\ state \in [Sessions -> Session \cup {NoSession}]
      /\ ReceiptInv /\ FlowInv /\ LeaseInv /\ DataTypes /\ Lease(w)
      /\ LabelFits(w) /\ PosFits(w) /\ ResolveFits(w) /\ PostFits(w) /\ WorkerDocs(w)
  BY DEF DocInv, ReceiptInv, FlowInv, LeaseInv, WorkerTypes, StoreInv, StoreTypeOK, Flow
<1> DEFINE Goal == /\ WorkerDocs(w)'
                   /\ \A s \in Sessions : lock[s] = w => SessionDocs(s)'
                   /\ \A t \in Txns : pc[w] \in Working /\ t = mem[w].txn => DocFits(t)'
<1> SUFFICES Goal
  OBVIOUS
<1>1. CASE UNCHANGED <<state, part, published, bank>> /\ WorkerDocs(w)'
  BY <1>1 DEF DocInv, SessionDocs, TxnOf, DocFits
<1>2. pc'[w] \notin {"unpack", "write", "process", "finish_negative", "delete", "discard_spool"}
        => WorkerDocs(w)'
  BY DEF WorkerDocs
<1>3. CASE Calls(w) \/ AcquireLease(w) \/ ReleaseLease(w) \/ Expire(w)
  <2>1. CASE Expire(w)
    <3>1. UNCHANGED <<state, part, published, bank, pc, mem, pos, call>>
      BY <2>1 DEF Expire, bankVars, sinkVars, workerVars
    <3> QED BY <1>t, <1>1, <3>1 DEF WorkerDocs, Denied
  <2>2. CASE Calls(w) \/ AcquireLease(w) \/ ReleaseLease(w)
    <3>1. UNCHANGED <<state, part, published, bank>>
          /\ pc'[w] \in {"recv_lock", "lock", "recv_load", "load", "idle"}
      BY <1>t, <2>2 DEF Calls, StartDownload, StartResolve, AcquireLease, ReleaseLease,
         bankVars, sinkVars
    <3> QED BY <1>1, <1>2, <3>1
  <2> QED BY <1>3, <2>1, <2>2
<1>4. CASE Crash(w) \/ CrashPutting(w) \/ CrashInitializing(w)
  <2>1. UNCHANGED <<state, part, published, bank>> /\ pc'[w] = "idle"
    BY <1>t, <1>4 DEF Crash, CrashPutting, CrashInitializing, ProcessLost, bankVars, sinkVars
  <2> QED BY <1>1, <1>2, <2>1
(* The session of w comes to hold v. *)
<1>5. ASSUME NEW v, state' = [state EXCEPT ![Sid(w)] = v], UNCHANGED <<part, published, bank>>,
             Sid(w) \in Sessions, WorkerDocs(w)',
             v # NoSession => v.txn = NoTxn \/ Staging(v, part[v.txn], Documents[v.txn])
      PROVE  Goal
  <2>1. ASSUME NEW s \in Sessions, lock[s] = w PROVE SessionDocs(s)'
    <3>1. s = Sid(w) /\ state'[s] = v
      BY <1>t, <1>5, <2>1 DEF Lease
    <3> QED BY <1>5, <3>1 DEF SessionDocs, TxnOf
  <2> QED BY <1>5, <2>1 DEF DocInv, DocFits
(* What w finds of its own transaction. *)
<1> DEFINE m == mem[w]
           t == m.txn
           q == part[t]
           d == published[t]
           b == bank[t]
           n == Documents[t]
<1>6. ASSUME pc[w] \in Working
      PROVE  /\ Sid(w) \in Sessions /\ m = state[Sid(w)] /\ m # NoSession /\ m \in Session /\ Coherent(m)
             /\ t # NoTxn => /\ t \in Txns /\ n \in 1..MaxDocuments /\ Staging(m, q, n)
                             /\ Safe(q, d, b, n) /\ Known(m, b) /\ BankFits(t)
                             /\ q \in [Positions -> {"none", "partial", "staged"}]
                             /\ b \in [kind: ReceiptKinds, fate: {"none", "inflight", "recorded", "lost"}]
             /\ m.phase \notin {"new", "failed"} => t # NoTxn
  <2>1. /\ Sid(w) \in Sessions /\ m = state[Sid(w)] /\ m # NoSession /\ m \in Session /\ Coherent(m)
    BY <1>t, <1>6, WorkingSession
  <2>2. t # NoTxn => t \in Txns
    BY <2>1 DEF Session
  <2>3. t # NoTxn => Staging(m, q, n) /\ Known(m, b)
    BY <1>t, <2>1 DEF DocInv, ReceiptInv, SessionDocs, ReceiptKnown, TxnOf
  <2>4. t \in Txns => /\ Safe(q, d, b, n) /\ BankFits(t) /\ n \in 1..MaxDocuments
                      /\ q \in [Positions -> {"none", "partial", "staged"}]
                      /\ b \in [kind: ReceiptKinds, fate: {"none", "inflight", "recorded", "lost"}]
    BY <1>t, BtdAssumption DEF DocInv, ReceiptInv, DocFits, DataTypes
  <2>5. m.phase \notin {"new", "failed"} => t # NoTxn
    BY <2>1 DEF Coherent
  <2> QED BY <2>1, <2>2, <2>3, <2>4, <2>5
<1>7. ASSUME pc[w] \in Working, t \in Txns, state' = state, WorkerDocs(w)',
             Staging(m, part'[t], n), Safe(part'[t], published'[t], bank'[t], n)
      PROVE  Goal
  <2>1. ASSUME NEW s \in Sessions, lock[s] = w PROVE SessionDocs(s)'
    <3>1. s = Sid(w) /\ state[s] = m /\ m # NoSession
      BY <1>t, <1>6, <1>7, <2>1 DEF Lease
    <3> QED BY <1>7, <3>1 DEF SessionDocs, TxnOf
  <2> QED BY <1>7, <2>1 DEF DocFits
<1>8. CASE StartSession(w)
  <2>1. UNCHANGED <<part, published, bank>> /\ Sid(w) \in Sessions
    BY <1>8, <1>t, CallNamesSession DEF StartSession, bankVars, sinkVars
  <2>2. \/ state' = state /\ pc'[w] = "release"
        \/ state' = [state EXCEPT ![Sid(w)] = start(call[w].request)] /\ pc'[w] = "receive"
    BY <1>t, <1>8 DEF StartSession, Persist, StateSetTo
  <2>3. start(call[w].request).txn = NoTxn
    BY DEF start
  <2> QED BY <1>1, <1>2, <1>5, <2>1, <2>2, <2>3
<1>9. CASE InitializeTransaction(w)
  <2> DEFINE x == got[w]
             new == initialize(mem[w], x, Total[x])
  <2>1. UNCHANGED <<part, published, bank>> /\ pc[w] = "initialize"
    BY <1>9 DEF InitializeTransaction, bankVars, sinkVars
  <2>2. \/ state' = state /\ pc'[w] \in {"fail", "release"}
        \/ /\ state' = [state EXCEPT ![Sid(w)] = new] /\ pc'[w] = "receive" /\ x \notin claims
           /\ state[Sid(w)].phase = "new"
    BY <1>t, <1>9 DEF InitializeTransaction, StateSetTo, CanClaim, InitializeAccepts,
       CanInitialize
  <2>3. pc[w] \in Working
    BY <2>1 DEF Working, Labels, Unlocked, Loading
  <2>4. x \in Txns /\ Total[x] \in 1..MaxSegments
    BY <1>t, <2>1, BtdAssumption DEF Lease
  <2>5. mem[w].phase = "new" => /\ new.txn = x /\ new.receipt = "none" /\ new.phase = "initialized"
                                /\ new.staged = 0
    <3>1. mem[w].phase = "new" => mem[w].receipt = "none" /\ mem[w].staged = 0
      BY <1>6, <2>3 DEF Coherent, CoherentBeforeTransaction
    <3> QED BY <1>6, <2>3, <2>4, <3>1 DEF initialize, Advance, Session
  <2>6. x \notin claims => part[x] = NoStages
    <3>1. \A s \in Sessions : TxnOf(s) # NoTxn => TxnOf(s) \in claims
      BY <1>t DEF LeaseInv, StoreInv, OneSessionPerTransaction
    <3> QED BY <2>4, <3>1, SessionAssumption DEF DocInv, NoOrphan
  <2>7. mem[w].phase = "new" /\ x \notin claims => Staging(new, part[x], Documents[x])
    BY <2>5, <2>6 DEF Staging, NoStages
  <2> HIDE DEF new
  <2> QED BY <1>1, <1>2, <1>5, <1>6, <2>1, <2>2, <2>3, <2>5, <2>7
<1>10. CASE DeleteSession(w)
  <2>1. /\ UNCHANGED <<part, published, bank>> /\ pc[w] = "delete" /\ pc'[w] = "release"
        /\ state' = state \/ state' = [state EXCEPT ![Sid(w)] = NoSession]
    BY <1>t, <1>10 DEF DeleteSession, StateSetTo, bankVars, sinkVars
  <2>2. Sid(w) \in Sessions
    BY <1>t, <2>1, CallNamesSession
  <2> QED BY <1>1, <1>2, <1>5, <2>1, <2>2
<1>11. CASE Persisting(w)
  <2>1. /\ pc[w] \in Working /\ UNCHANGED <<part, published, bank, call>>
        /\ pos'[w] \in {pos[w], 0}
    BY <1>t, <1>11, PersistingEffect DEF bankVars, sinkVars
  <2>2. ASSUME NEW new, NEW l, Persist(w, new, l),
               new \in Session /\ Coherent(new) /\ new.txn = t /\ t # NoTxn => Staging(new, q, n),
               pc'[w] = l /\ mem'[w] = new /\ new.txn = t => WorkerDocs(w)'
        PROVE  Goal
    <3>1. CASE UNCHANGED <<state, mem>> /\ pc' = [pc EXCEPT ![w] = "release"]
      BY <1>t, <1>1, <1>2, <2>1, <3>1
    <3>2. CASE /\ new \in Session /\ Coherent(new) /\ new.txn = t
               /\ state' = [state EXCEPT ![Sid(w)] = new]
               /\ mem' = [mem EXCEPT ![w] = new] /\ pc' = [pc EXCEPT ![w] = l]
      <4>1. mem'[w] = new /\ pc'[w] = l
        BY <1>t, <3>2
      <4> QED BY <1>5, <1>6, <2>1, <2>2, <3>2, <4>1
    <3> QED BY <1>t, <2>1, <2>2, <3>1, <3>2, PersistEffect
  <2>3. CASE UNCHANGED <<state, mem>> /\ pc'[w] \in {"fail", "recv_release"}
    BY <1>1, <1>2, <2>1, <2>3
  <2>4. \A new \in Session : Coherent(new) /\ new.txn # NoTxn /\ new.phase # "new"
                               => DocumentsCoherent(new) /\ ReceiptCoherent(new)
    BY DEF Coherent
  <2> HIDE DEF Goal
  <2>5. CASE RecordSegment(w) \/ VerifySpool(w) \/ FailSession(w) \/ RecordUnpacked(w)
    <3> DEFINE Before == ReceivePhases \cup {"decrypted"}
    <3>1. /\ m.phase \in Before /\ pos' = pos
          /\ \/ UNCHANGED <<state, mem>> /\ pc'[w] \in {"fail", "recv_release"}
             \/ \E new : \E l \in {"receive", "recv_release", "discard_spool", "unpack"} :
                   /\ Persist(w, new, l)
                   /\ new.phase \in Before \cup {"failed", "container_verified"}
      <4>1. CASE RecordSegment(w)
        BY <1>t, <1>6, <2>1, <4>1, TransitionFields DEF RecordSegment, LabelFits, ReceivePhases
      <4>2. CASE VerifySpool(w)
        BY <1>t, <1>6, <2>1, <4>2, TransitionFields DEF VerifySpool, storeVars, PersistOnly,
           LabelFits, ReceivePhases
      <4>3. CASE FailSession(w)
        BY <1>t, <1>6, <2>1, <4>3, TransitionFields DEF FailSession, PersistOnly, LabelFits,
           ReceivePhases
      <4>4. CASE RecordUnpacked(w)
        BY <1>t, <1>6, <2>1, <4>4, TransitionFields DEF RecordUnpacked, PersistOnly,
           CanMarkDecrypted, CanMarkContainerVerified, ReceivePhases
      <4> QED BY <2>5, <4>1, <4>2, <4>3, <4>4
    <3>2. t # NoTxn => q = NoStages
      BY <1>6, <2>1, <3>1 DEF Staging, HomePhases, UncertainPhases, ReceivePhases
    <3>3. pc[w] = "unpack" => pos[w] = 0
      BY <1>t, <3>1 DEF PosFits, ReceivePhases, Answered
    <3>4. ASSUME NEW new, NEW l \in {"receive", "recv_release", "discard_spool", "unpack"},
                 Persist(w, new, l), l = "unpack" => pos[w] = 0,
                 new.phase \in Before \cup {"failed", "container_verified"}
          PROVE  Goal
      <4>1. new \in Session /\ Coherent(new) /\ new.txn = t /\ t # NoTxn => Staging(new, q, n)
        <5> SUFFICES ASSUME new \in Session, Coherent(new), new.txn = t, t # NoTxn
                     PROVE  Staging(new, q, n)
          OBVIOUS
        <5>1. new.staged = 0
          BY <3>4, <2>4 DEF DocumentsCoherent, ReceivePhases, UncertainPhases, PublishedPhases,
             Coherent, CoherentBeforeTransaction
        <5> QED BY <3>2, <3>4, <5>1 DEF Staging, NoStages, ReceivePhases
      <4>2. pc'[w] = l /\ mem'[w] = new => WorkerDocs(w)'
        BY <3>1, <3>4 DEF WorkerDocs, Denied, Ambiguous, ReceivePhases
      <4> QED BY <2>2, <3>4, <4>1, <4>2
    <3>5. (\E new : \E l \in {"receive", "recv_release", "discard_spool", "unpack"} :
                   /\ Persist(w, new, l) /\ (l = "unpack" => pos[w] = 0)
                   /\ new.phase \in Before \cup {"failed", "container_verified"}) => Goal
      BY <3>4
    <3>6. CASE RecordUnpacked(w)
      <4>1. pc[w] = "unpack"
        BY <3>6 DEF RecordUnpacked
      <4> QED BY <2>3, <3>1, <3>3, <3>5, <4>1
    <3>7. CASE RecordSegment(w) \/ VerifySpool(w) \/ FailSession(w)
      <4>1. pc[w] \in {"receive", "fail"}
        BY <3>7 DEF RecordSegment, VerifySpool, FailSession
      <4>2. pos[w] = 0
        BY <1>t, <4>1 DEF PosFits
      <4> QED BY <2>3, <3>1, <3>5, <4>2
    <3> QED BY <2>5, <3>6, <3>7
  <2>6. CASE RecordStaged(w)
    <3>1. /\ pc[w] = "unpack" /\ m.phase = "container_verified" /\ pos[w] = n /\ pos'[w] = 0
          /\ Persist(w, mark_documents_staged(m, n), "process")
      BY <1>t, <2>6 DEF RecordStaged
    <3>2. t \in Txns /\ t # NoTxn /\ \A p \in 1..n : q[p] = "staged"
      BY <1>t, <1>6, <2>1, <3>1 DEF WorkerDocs
    <3>3. \A p \in Positions : q[p] # "partial"
      <4> SUFFICES ASSUME NEW p \in Positions PROVE q[p] # "partial"
        OBVIOUS
      <4>1. p > n \/ p \in 1..n
        BY <1>6, <2>1, <3>2, SessionAssumption DEF Positions
      <4> QED BY <1>6, <2>1, <3>2, <4>1 DEF Safe
    <3>4. Staging(mark_documents_staged(m, n), q, n)
      BY <1>6, <2>1, <3>2, <3>3, TransitionFields DEF Staging, HomePhases
    <3>5. pc'[w] = "process" => WorkerDocs(w)'
      BY <3>1 DEF WorkerDocs
    <3> QED BY <2>2, <3>1, <3>4, <3>5
  <2>7. CASE IntendReceipt(w)
    <3>1. pos' = pos /\ \E new : /\ Persist(w, new, "post") /\ new.phase = "receipt_pending"
                     /\ \/ /\ m.phase = "documents_staged" /\ new.receipt = "positive"
                           /\ new.staged = m.staged
                        \/ m.phase \in LoadPhases /\ new.receipt = "negative"
      BY <1>t, <1>6, <2>1, <2>7, TransitionFields DEF IntendReceipt, PersistOnly, LabelFits
    <3>2. ASSUME NEW new, Persist(w, new, "post"), new.phase = "receipt_pending",
                 \/ /\ m.phase = "documents_staged" /\ new.receipt = "positive"
                    /\ new.staged = m.staged
                 \/ m.phase \in LoadPhases /\ new.receipt = "negative"
          PROVE  Goal
      <4>1. ASSUME new \in Session, Coherent(new), t # NoTxn, new.txn = t
            PROVE  Staging(new, q, n)
        <5>1. new.receipt = "negative" => new.staged = 0
          BY <2>4, <3>2, <4>1 DEF DocumentsCoherent, UncertainPhases
        <5>2. new.receipt = "positive" => \A p \in Positions : q[p] # "partial"
          <6>1. m.phase = "documents_staged" => m.receipt # "negative"
            BY <1>6, <2>1, <4>1, <2>4 DEF ReceiptCoherent, UncertainPhases, PublishedPhases
          <6> QED BY <1>6, <2>1, <3>2, <4>1, <6>1 DEF Staging
        <5> QED BY <1>6, <2>1, <3>2, <4>1, <5>1, <5>2 DEF Staging, HomePhases, UncertainPhases
      <4>2. pc'[w] = "post" => WorkerDocs(w)'
        BY DEF WorkerDocs
      <4> QED BY <2>2, <3>2, <4>1, <4>2
    <3> QED BY <3>1, <3>2
  <2>8. CASE ReceiptAnswered(w) \/ AcceptReceipt(w) \/ PendingFound(w) \/ ReceiptUnanswered(w)
    <3>1. /\ pos' = pos /\ m.phase \in {"receipt_pending", "receipt_ambiguous"}
          /\ pc[w] # "process" => pos[w] = 0
          /\ \E new, l :
                /\ Persist(w, new, l)
                /\ l \in {"discard_stages", "process", "reload", "release"}
                /\ l = "process" => pc[w] # "process"
                /\ new.phase \in {"receipt_ambiguous", "receipt_response_verified"}
                /\ new.receipt = m.receipt /\ new.staged = m.staged
      <4>1. CASE ReceiptAnswered(w) \/ AcceptReceipt(w)
        <5>1. /\ pc[w] \in {"await", "accept"} /\ pos' = pos
              /\ m.phase \in {"receipt_pending", "receipt_ambiguous"}
          BY <1>t, <4>1 DEF ReceiptAnswered, AcceptReceipt, PersistOnly, LabelFits, Ambiguous
        <5>2. \E l \in {"discard_stages", "process"} : Persist(w, mark_receipt_response_verified(m), l)
          BY <4>1 DEF ReceiptAnswered, AcceptReceipt, PersistOnly
        <5> QED BY <1>t, <1>6, <2>1, <5>1, <5>2, TransitionFields DEF PosFits
      <4>2. CASE PendingFound(w) \/ ReceiptUnanswered(w)
        <5>1. /\ pc[w] \in {"process", "post", "await"} /\ pos' = pos
              /\ m.phase = "receipt_pending"
          BY <1>t, <4>2 DEF PendingFound, ReceiptUnanswered, PersistOnly, LabelFits
        <5>2. \E l \in {"discard_stages", "reload", "release"} : Persist(w, mark_receipt_ambiguous(m), l)
          BY <4>2 DEF PendingFound, ReceiptUnanswered, PersistOnly, AfterAmbiguity
        <5> QED BY <1>t, <1>6, <2>1, <5>1, <5>2, TransitionFields DEF PosFits
      <4> QED BY <2>8, <4>1, <4>2
    <3>2. ASSUME NEW new, NEW l, Persist(w, new, l), l = "process" => pos[w] = 0,
                 l \in {"discard_stages", "process", "reload", "release"},
                 new.phase \in {"receipt_ambiguous", "receipt_response_verified"},
                 new.receipt = m.receipt, new.staged = m.staged
          PROVE  Goal
      <4>1. t # NoTxn => Staging(new, q, n)
        BY <1>6, <2>1, <3>1, <3>2 DEF Staging, HomePhases, UncertainPhases
      <4>2. pc'[w] = l => WorkerDocs(w)'
        BY <3>1, <3>2 DEF WorkerDocs
      <4> QED BY <2>2, <3>2, <4>1, <4>2
    <3> QED BY <3>1, <3>2
  <2>9. CASE RecordPublished(w) \/ FinishPublished(w) \/ FinishNegative(w)
    <3>1. /\ m.phase \in {"receipt_response_verified", "documents_published"}
          /\ \E new, l :
            /\ Persist(w, new, l)
            /\ \/ l = "process" /\ pos'[w] = 0
               \/ l = "discard_spool"
            /\ new.phase \in {"negative_complete"} \cup PublishedPhases
            /\ new.staged = m.staged
      <4>1. CASE RecordPublished(w)
        <5>1. /\ Persist(w, mark_documents_published(m, m.staged), "process") /\ pos'[w] = 0
              /\ m.phase = "receipt_response_verified"
          BY <1>t, <4>1 DEF RecordPublished
        <5> QED BY <1>6, <2>1, <5>1, TransitionFields DEF PublishedPhases
      <4>2. CASE FinishPublished(w)
        <5>1. /\ Persist(w, finish(m), "process") /\ pos'[w] = 0 /\ m.phase = "documents_published"
          BY <1>t, <4>2 DEF FinishPublished, PersistOnly, PosFits, Answered
        <5> QED BY <1>6, <2>1, <5>1, TransitionFields DEF PublishedPhases
      <4>3. CASE FinishNegative(w)
        <5>1. /\ Persist(w, finish(m), "discard_spool") /\ m.phase = "receipt_response_verified"
          BY <1>t, <4>3 DEF FinishNegative, PersistOnly, LabelFits, Answered
        <5> QED BY <1>6, <2>1, <5>1, TransitionFields DEF PublishedPhases
      <4> QED BY <2>9, <4>1, <4>2, <4>3
    <3>2. t # NoTxn => q = NoStages
      <4> SUFFICES ASSUME t # NoTxn PROVE q = NoStages
        OBVIOUS
      <4>1. CASE RecordPublished(w)
        <5>1. /\ pc[w] = "process" /\ m.phase = "receipt_response_verified" /\ m.receipt = "positive"
              /\ pos[w] = m.staged
          BY <4>1 DEF RecordPublished
        <5>2. m.staged # 0
          BY <1>6, <2>1, <2>4, <5>1 DEF DocumentsCoherent, UncertainPhases
        <5>3. m.staged = n /\ \A p \in 1..n : q[p] = "none"
          BY <1>t, <1>6, <2>1, <5>1, <5>2 DEF Staging, WorkerDocs
        <5>4. ASSUME NEW p \in Positions PROVE q[p] = "none"
          <6>1. p > n \/ p \in 1..n
            BY <1>6, <2>1, SessionAssumption DEF Positions
          <6> QED BY <1>6, <2>1, <5>3, <6>1 DEF Safe
        <5> QED BY <1>6, <2>1, <5>4 DEF NoStages
      <4>2. CASE FinishPublished(w)
        <5>1. m.phase = "documents_published"
          BY <4>2 DEF FinishPublished
        <5> QED BY <1>6, <2>1, <5>1 DEF Staging, HomePhases, UncertainPhases
      <4>3. CASE FinishNegative(w)
        BY <1>t, <4>3 DEF FinishNegative, WorkerDocs
      <4> QED BY <2>9, <4>1, <4>2, <4>3
    <3>3. ASSUME NEW new, NEW l, Persist(w, new, l),
                 \/ l = "process" /\ pos'[w] = 0
                 \/ l = "discard_spool",
                 new.phase \in {"negative_complete"} \cup PublishedPhases,
                 new.staged = m.staged
          PROVE  Goal
      <4>1. t # NoTxn => Staging(new, q, n)
        BY <1>6, <2>1, <3>2, <3>3 DEF Staging, NoStages, PublishedPhases
      <4>2. pc'[w] = l /\ mem'[w] = new => WorkerDocs(w)'
        BY <3>3 DEF WorkerDocs, Denied, Ambiguous, PublishedPhases
      <4> QED BY <2>2, <3>3, <4>1, <4>2
    <3> QED BY <3>1, <3>3
  <2> QED BY <1>11, <2>5, <2>6, <2>7, <2>8, <2>9 DEF Persisting
<1>12. CASE Local(w) \/ CrashDiscarding(w)
  <2>0. state' = state /\ (Local(w) => call' = call)
    BY <1>12, LocalUsesNoStore DEF storeVars, CrashDiscarding, ProcessLost
  <2>1. CASE \/ RequestInitialization(w) \/ RequestSegment(w) \/ RecoverBootstrap(w)
             \/ ResponseRefused(w) \/ VerificationFails(w) \/ PutSegment(w)
             \/ RefusePhase(w) \/ AmbiguityFound(w) \/ NegativeFound(w) \/ ReloadAmbiguous(w)
    <3>1. /\ UNCHANGED <<part, published, bank>>
          /\ pc'[w] \in {"put", "initialize", "fail", "receive", "release", "discard_stages"}
      BY <1>t, <2>1 DEF RequestInitialization, RequestSegment, RecoverBootstrap, PutSegment,
         ResponseRefused, VerificationFails, RefusePhase, AmbiguityFound, AfterAmbiguity,
         NegativeFound, ReloadAmbiguous, bankVars, sinkVars
    <3> QED BY <1>1, <1>2, <2>0, <3>1
  <2>2. CASE ResumeSession(w) \/ LoadSession(w)
    <3>1. /\ UNCHANGED <<part, published, bank, pos>> /\ pc[w] \in {"recv_load", "load"}
          /\ pc'[w] \notin {"unpack", "write", "finish_negative", "delete"}
          /\ pc'[w] = "discard_spool" => mem'[w].phase \in {"failed", "complete"}
      BY <1>t, <2>2 DEF ResumeSession, LoadSession, Resolution, bankVars, sinkVars
    <3>2. pos[w] = 0
      BY <1>t, <3>1 DEF PosFits
    <3>3. WorkerDocs(w)'
      BY <3>1, <3>2 DEF WorkerDocs, Denied, Ambiguous
    <3> QED BY <1>1, <2>0, <3>1, <3>3
  <2>3. CASE CloseTerminal(w) \/ LoadDocuments(w)
    <3>1. /\ UNCHANGED <<part, published, bank, pos, mem>> /\ pc[w] = "process"
          /\ \/ pc'[w] = "discard_spool" /\ mem[w].phase \in TerminalPhases
             \/ pc'[w] \in {"unpack", "negative"} /\ mem[w].phase \in LoadPhases
      BY <1>t, <2>3 DEF CloseTerminal, LoadDocuments, LoadPhases, bankVars, sinkVars
    <3>2. mem[w].phase \in LoadPhases => pos[w] = 0
      BY <1>t, <3>1 DEF PosFits, LoadPhases, ProcessPhases, Answered
    <3>3. WorkerDocs(w)'
      BY <3>1, <3>2 DEF WorkerDocs, Denied, Ambiguous, TerminalPhases
    <3> QED BY <1>1, <2>0, <3>1, <3>3
  <2>4. CASE DiscardSpool(w)
    <3>1. /\ UNCHANGED <<part, published, bank, mem>> /\ pc[w] = "discard_spool"
          /\ \/ pc'[w] = "release"
             \/ pc'[w] = "delete" /\ call[w].op = "resolve" /\ mem[w].phase = "receipt_ambiguous"
      BY <1>t, <2>4 DEF DiscardSpool, bankVars, sinkVars
    <3>2. pc'[w] = "delete" => Denied(w)
      BY <1>t, <3>1 DEF ResolveFits
    <3>3. WorkerDocs(w)'
      BY <1>t, <3>1, <3>2 DEF WorkerDocs
    <3> QED BY <1>1, <2>0, <3>1, <3>3
  <2>5. CASE Stop(w) \/ ProcessingFails(w) \/ BeginDocument(w) \/ StageDocument(w)
    <3>1. UNCHANGED <<published, bank, mem>> /\ pos'[w] \in Nat
      BY <1>t, <2>5 DEF Stop, ProcessingFails, BeginDocument, StageDocument, bankVars
    <3>2. CASE part' = part /\ pc'[w] \in {"release", "negative"}
      BY <1>1, <1>2, <2>0, <3>1, <3>2
    <3>3. \/ part' = part /\ pc'[w] \in {"release", "negative"}
          \/ /\ pc[w] \in {"unpack", "write"} /\ m.phase = "container_verified" /\ pos[w] < n
             /\ \E x \in {"none", "partial", "staged"} : part' = [part EXCEPT ![t][pos[w] + 1] = x]
             /\ \/ pc'[w] \in {"release", "negative"}
                \/ pc'[w] = "write" /\ pos' = pos
                \/ pc'[w] = "unpack" /\ pos'[w] = pos[w] + 1 /\ part' = [part EXCEPT ![t][pos[w] + 1] = "staged"]
      <4>1. CASE Stop(w)
        BY <1>t, <4>1 DEF Stop, LabelFits, PosFits
      <4>2. CASE ProcessingFails(w)
        BY <1>t, <4>2 DEF ProcessingFails, LabelFits, PosFits
      <4>3. CASE BeginDocument(w) \/ StageDocument(w)
        BY <1>t, <4>3 DEF BeginDocument, StageDocument, LabelFits, PosFits
      <4> QED BY <2>5, <4>1, <4>2, <4>3
    <3>4. ASSUME pc[w] \in {"unpack", "write"}, m.phase = "container_verified", pos[w] < n,
                 NEW x \in {"none", "partial", "staged"}, part' = [part EXCEPT ![t][pos[w] + 1] = x],
                 \/ pc'[w] \in {"release", "negative"}
                 \/ pc'[w] = "write" /\ pos' = pos
                 \/ pc'[w] = "unpack" /\ pos'[w] = pos[w] + 1 /\ part' = [part EXCEPT ![t][pos[w] + 1] = "staged"]
          PROVE  Goal
      <4>1. pc[w] \in Working
        BY <3>4 DEF Working, Labels, Unlocked, Loading
      <4>2. /\ t \in Txns /\ t # NoTxn /\ m \in Session /\ n \in 1..MaxDocuments /\ Staging(m, q, n)
            /\ Safe(q, d, b, n) /\ Known(m, b) /\ BankFits(t) /\ Coherent(m)
            /\ q \in [Positions -> {"none", "partial", "staged"}]
        BY <1>6, <3>4, <4>1
      <4>3. pos[w] + 1 \in 1..n /\ pos[w] + 1 \in Positions
        BY <1>t, <3>4, <4>2, SessionAssumption DEF Positions
      <4>4. part'[t] = [q EXCEPT ![pos[w] + 1] = x]
        BY <1>t, <3>4, <4>2 DEF DataTypes
      <4>5. m.receipt = "none" /\ m.staged = 0
        BY <3>4, <4>2 DEF Coherent, ReceiptCoherent, DocumentsCoherent, UncertainPhases,
           PublishedPhases
      <4>6. b.kind = "none" /\ \A p \in Positions : d[p] = "none"
        <5>1. b.fate = "none" /\ b.kind = "none"
          BY <4>2, <4>5 DEF Known, BankFits
        <5> QED BY <4>2, <5>1 DEF Safe, Accepted
      <4>7. Staging(m, part'[t], n)
        BY <3>4, <4>5 DEF Staging, HomePhases
      <4>8. Safe(part'[t], published'[t], bank'[t], n)
        BY <3>1, <4>2, <4>3, <4>4, <4>6 DEF Safe, Positions
      <4>9. WorkerDocs(w)'
        <5>1. \A p \in 1..pos[w] : q[p] = "staged"
          BY <1>t, <3>4 DEF WorkerDocs
        <5>2. \A p \in 1..pos[w] : p \in Positions /\ p # pos[w] + 1
          BY <1>t, <4>2, <4>3, SessionAssumption DEF Positions
        <5>3. \A p \in 1..pos[w] : part'[t][p] = "staged"
          BY <4>2, <4>4, <5>1, <5>2
        <5>4. pc'[w] = "unpack" => part'[t][pos[w] + 1] = "staged"
          <6>1. pc'[w] = "unpack" => part'[t] = [q EXCEPT ![pos[w] + 1] = "staged"]
            BY <1>t, <3>4, <4>2 DEF DataTypes
          <6> QED BY <4>2, <4>3, <6>1
        <5> QED BY <1>t, <3>1, <3>4, <5>3, <5>4 DEF WorkerDocs
      <4> QED BY <1>7, <2>0, <4>1, <4>2, <4>7, <4>8, <4>9
    <3> QED BY <3>2, <3>3, <3>4
  <2>6. CASE PublishDocument(w)
    <3> DEFINE p == pos[w] + 1
    <3>1. /\ pc[w] = "process" /\ Answered(m, "positive") /\ pos[w] < m.staged /\ UNCHANGED <<bank, mem>>
      BY <2>6 DEF PublishDocument, PublicationDue, Answered, bankVars
    <3>2. pc[w] \in Working
      BY <3>1 DEF Working, Labels, Unlocked, Loading
    <3>3. /\ t \in Txns /\ t # NoTxn /\ m \in Session /\ n \in 1..MaxDocuments /\ Staging(m, q, n)
          /\ Safe(q, d, b, n) /\ Known(m, b)
          /\ q \in [Positions -> {"none", "partial", "staged"}]
      BY <1>6, <3>1, <3>2 DEF Answered
    <3>4. m.staged = n /\ p \in 1..n /\ p \in Positions /\ \A i \in Positions : q[i] # "partial"
      <4>1. m.staged = n /\ \A i \in Positions : q[i] # "partial"
        BY <1>t, <3>1, <3>3 DEF Staging, Answered, Session
      <4> QED BY <1>t, <3>1, <3>3, <4>1, SessionAssumption DEF Positions
    <3>5. b = Accepted
      BY <3>1, <3>3 DEF Known, Answered, Accepted
    <3>6. d \in [Positions -> {"none", "partial", "complete"}]
      BY <1>t, <3>3 DEF DataTypes
    <3>7. \A i \in 1..pos[w] : q[i] = "none" /\ i \in Positions /\ i # p
      BY <1>t, <3>1, <3>3, <3>4, SessionAssumption DEF WorkerDocs, Positions
    <3>8. CASE q[p] # "none"
      <4>1. /\ published'[t] = [d EXCEPT ![p] = "complete"] /\ part'[t] = [q EXCEPT ![p] = "none"]
            /\ pos'[w] = p /\ pc'[w] = "process"
        BY <1>t, <2>6, <3>1, <3>3, <3>4, <3>8 DEF PublishDocument, DataTypes
      <4>2. Staging(m, part'[t], n)
        BY <3>1, <3>3, <3>4, <4>1 DEF Staging, HomePhases, UncertainPhases, Answered
      <4>3. Safe(part'[t], published'[t], bank'[t], n)
        BY <3>1, <3>3, <3>4, <3>5, <3>6, <4>1 DEF Safe, Positions
      <4>4. \A i \in 1..p : part'[t][i] = "none"
        BY <1>t, <3>3, <3>4, <3>7, <4>1
      <4>5. WorkerDocs(w)'
        BY <3>1, <4>1, <4>4 DEF WorkerDocs
      <4> QED BY <1>7, <2>0, <3>2, <3>3, <4>2, <4>3, <4>5
    <3>9. CASE q[p] = "none"
      <4>1. /\ UNCHANGED <<part, published>>
            /\ \/ pos'[w] = p /\ pc'[w] = "process"
               \/ pc'[w] = "release"
        BY <1>t, <2>6, <3>1, <3>3, <3>4, <3>9 DEF PublishDocument
      <4>2. \A i \in 1..p : part'[t][i] = "none"
        BY <1>t, <3>3, <3>4, <3>7, <3>9, <4>1
      <4>3. WorkerDocs(w)'
        BY <3>1, <4>1, <4>2 DEF WorkerDocs
      <4> QED BY <1>1, <2>0, <3>1, <4>1, <4>3
    <3> QED BY <3>8, <3>9
  <2>7. CASE PostReceipt(w)
    <3>1. /\ pc[w] = "post" /\ pc'[w] = "await" /\ UNCHANGED <<part, published>>
          /\ m.phase = "receipt_pending"
          /\ bank' = [bank EXCEPT ![t] = [kind |-> m.receipt, fate |-> "inflight"]]
      BY <1>t, <2>7 DEF PostReceipt, LabelFits, sinkVars
    <3>2. pc[w] \in Working
      BY <3>1 DEF Working, Labels, Unlocked, Loading
    <3>3. t \in Txns /\ Staging(m, q, n) /\ Safe(q, d, b, n)
      BY <1>6, <3>1, <3>2
    <3>4. bank'[t] = [kind |-> m.receipt, fate |-> "inflight"] /\ \A i \in Positions : d[i] = "none"
      BY <1>t, <3>1, <3>3 DEF DataTypes, PostFits, Safe, Accepted
    <3>5. Safe(q, d, bank'[t], n)
      BY <3>1, <3>3, <3>4 DEF Safe, Staging
    <3> QED BY <1>2, <1>7, <2>0, <3>1, <3>2, <3>3, <3>5
  <2>8. CASE DiscardStages(w) \/ CrashDiscarding(w)
    <3>1. CASE part' = part /\ CrashDiscarding(w)
      <4>1. pc'[w] = "idle" /\ UNCHANGED <<published, bank>>
        BY <1>t, <3>1 DEF CrashDiscarding, ProcessLost, bankVars
      <4> QED BY <1>1, <1>2, <2>0, <3>1, <4>1
    <3>2. CASE pc[w] = "discard_stages"
      <4>1. pc[w] \in Working
        BY <3>2 DEF Working, Labels, Unlocked, Loading
      <4>2. m.phase \in {"receipt_ambiguous", "receipt_response_verified"}
        BY <1>t, <3>2 DEF LabelFits, Ambiguous, Answered, Denied
      <4>3. /\ t \in Txns /\ t # NoTxn /\ Staging(m, q, n) /\ Safe(q, d, b, n) /\ Known(m, b) /\ BankFits(t)
            /\ q \in [Positions -> {"none", "partial", "staged"}]
            /\ m = state[Sid(w)] /\ m # NoSession
            /\ b \in [kind: ReceiptKinds, fate: {"none", "inflight", "recorded", "lost"}]
        BY <1>6, <4>1, <4>2
      <4>4. /\ UNCHANGED <<published, bank>>
            /\ \A i \in Positions : part'[t][i] \in {q[i], "none"}
            /\ part'[t] \in [Positions -> {"none", "partial", "staged"}]
        <5>1. CASE DiscardStages(w)
          BY <1>t, <4>3, <5>1 DEF DiscardStages, DataTypes, NoStages, bankVars
        <5>2. CASE CrashDiscarding(w)
          <6>1. PICK kept \in SUBSET Positions :
                    part' = [part EXCEPT ![t] = [i \in Positions |-> IF i \in kept THEN @[i] ELSE "none"]]
            BY <3>2, <5>2 DEF CrashDiscarding
          <6>2. part'[t] = [i \in Positions |-> IF i \in kept THEN q[i] ELSE "none"]
            BY <1>t, <4>3, <6>1 DEF DataTypes
          <6>3. UNCHANGED <<published, bank>>
            BY <5>2 DEF CrashDiscarding, ProcessLost, bankVars
          <6> QED BY <4>3, <6>2, <6>3
        <5> QED BY <2>8, <5>1, <5>2
      <4>5. b.kind # "positive" \/ b.fate = "lost"
        <5>1. CASE Ambiguous(m, "negative") \/ Answered(m, "negative")
          BY <4>3, <5>1 DEF Ambiguous, Answered, Known, BankFits
        <5>2. CASE Denied(w)
          <6>1. AnswerStands(w)
            BY <1>t, <3>2, <5>2 DEF ResolveFits, Denied
          <6>2. b.fate # "inflight" /\ b.fate # "recorded"
            BY <4>3, <5>2, <6>1 DEF AnswerStands, Denied, TxnOf
          <6> QED BY <4>3, <6>2 DEF BankFits
        <5> QED BY <1>t, <3>2, <5>1, <5>2 DEF LabelFits
      <4>6. Staging(m, part'[t], n)
        BY <4>2, <4>3, <4>4 DEF Staging, HomePhases, UncertainPhases
      <4>7. Safe(part'[t], published'[t], bank'[t], n)
        BY <4>3, <4>4, <4>5 DEF Safe
      <4>8. WorkerDocs(w)'
        <5>1. CASE DiscardStages(w)
          <6>1. mem' = mem /\ part'[t] = NoStages /\ pc'[w] \in {"finish_negative", "discard_spool"}
            BY <1>t, <4>3, <5>1 DEF DiscardStages, DataTypes
          <6> QED BY <6>1 DEF WorkerDocs
        <5>2. CASE CrashDiscarding(w)
          BY <1>t, <1>2, <5>2 DEF CrashDiscarding, ProcessLost
        <5> QED BY <2>8, <5>1, <5>2
      <4> QED BY <1>7, <2>0, <4>1, <4>3, <4>6, <4>7, <4>8
    <3> QED BY <2>8, <3>1, <3>2 DEF DiscardStages, CrashDiscarding
  <2> QED BY <1>12, <2>1, <2>2, <2>3, <2>4, <2>5, <2>6, <2>7, <2>8 DEF Local
<1> QED BY <1>3, <1>4, <1>8, <1>9, <1>10, <1>11, <1>12, StepKinds DEF Crashing

(* DocInv is preserved by every step.                                         *)
LEMMA DocInvKept ==
    ASSUME DocInv, [Next]_vars
    PROVE  DocInv'
<1>1. ReceiptInv' /\ ReceiptInv /\ FlowInv /\ LeaseInv /\ DataTypes
  BY ReceiptInvKept DEF DocInv, ReceiptInv, FlowInv
<1>2. CASE UNCHANGED vars
  <2>1. UNCHANGED <<state, pc, call, mem, pos, part, published, bank>>
    BY <1>2 DEF vars, storeVars, workerVars, bankVars, sinkVars
  <2> QED BY <1>1, <2>1 DEF DocInv, SessionDocs, TxnOf, DocFits, NoOrphan, WorkerDocs, Denied
<1>3. ASSUME NEW w \in Workers, WorkerNext(w)
      PROVE  DocInv'
  <2>1. OthersAlone(w) /\ TxnsAlone(w)
    BY <1>1, <1>3, StepOthersAlone, StepTxnsAlone
  <2>2. \A s \in Sessions : SessionDocs(s)'
    BY <1>3, <2>1, DocsAlone, OwnDocs
  <2>3. \A t \in Txns : DocFits(t)'
    BY <1>3, <2>1, DocsAlone, OwnDocs
  <2>4. \A t \in Txns : NoOrphan(t)'
    BY <1>3, <2>1, OrphansKept
  <2>5. \A v \in Workers : WorkerDocs(v)'
    BY <1>3, <2>1, DocsAlone, OwnDocs
  <2> QED BY <1>1, <2>2, <2>3, <2>4, <2>5 DEF DocInv
<1>4. ASSUME NEW t \in Txns, BankSettles(t)
      PROVE  DocInv'
  <2>1. /\ UNCHANGED <<state, pc, call, mem, pos, part, published>> /\ bank[t].fate = "inflight"
        /\ bank'[t].kind = bank[t].kind
        /\ \A x \in Txns \ {t} : bank'[x] = bank[x]
    BY <1>1, <1>4, SettleEffect DEF storeVars, workerVars, BankSettles, sinkVars
  <2>2. \A x \in Txns \ {t} : DocFits(x)'
    BY <2>1 DEF DocInv, DocFits
  <2>3. DocFits(t)'
    BY <2>1 DEF DocInv, DocFits, Safe, Accepted
  <2> QED BY <1>1, <2>1, <2>2, <2>3 DEF DocInv, SessionDocs, TxnOf, NoOrphan, WorkerDocs, Denied
<1> QED BY <1>2, <1>3, <1>4 DEF Next, Undisturbed, WorkerNext

(* DocInv holds before the first call.                                        *)
LEMMA DocInit ==
    ASSUME Init
    PROVE  DocInv
<1>1. ReceiptInv
  BY ReceiptInit
<1>2. \A s \in Sessions : TxnOf(s) = NoTxn
  BY DEF Init, StoreInit, TxnOf
<1>3. ASSUME NEW t \in Txns PROVE DocFits(t) /\ NoOrphan(t)
  BY DEF Init, DocFits, Safe, NoOrphan, NoStages
<1>4. ASSUME NEW w \in Workers PROVE WorkerDocs(w)
  BY DEF Init, WorkerDocs
<1> QED BY <1>1, <1>2, <1>3, <1>4 DEF DocInv, SessionDocs

(* DocInv is an invariant of the download.                                    *)
THEOREM DocInvariant == Spec => []DocInv
BY DocInit, DocInvKept, PTL DEF Spec

(* A document is published only whole, and only when the bank has recorded    *)
(* the positive receipt of its transaction.                                   *)
THEOREM PublicationAccepted == Spec => []PublishedOnlyIfAccepted
BY DocInvariant, DocInvImplies, PTL

(* Once a positive receipt may reach the bank, every document of the          *)
(* transaction is durably staged or published.                                *)
THEOREM AcceptedKept == Spec => []AcceptedNeverLost
BY DocInvariant, DocInvImplies, PTL

(* No plaintext outlives the session that could still publish or discard it.  *)
THEOREM NoPlaintextOrphaned == Spec => []NoOrphanedPlaintext
BY DocInvariant, DocInvImplies, PTL

-----------------------------------------------------------------------------
(* The refinement mapping, as a function of the transaction.                  *)
Copies == [t \in Txns |-> CopyOf(t)]

(* Before the bank has recorded a positive receipt nothing counts as          *)
(* delivered.                                                                 *)
LEMMA CopyOfUntaken ==
    ASSUME DocInv, NEW t \in Txns, bank[t] # Accepted
    PROVE  CopyOf(t) \in {"none", "held"}
<1>1. Documents[t] \in 1..MaxDocuments /\ 1 \in Positions
  BY BtdAssumption, SessionAssumption DEF Positions
<1>2. published[t][1] = "none" /\ 1 \in 1..Documents[t]
  BY <1>1, SessionAssumption DEF DocInv, DocFits, Safe
<1> QED BY <1>2 DEF CopyOf

(* While a positive receipt is on its way or recorded a copy is held.         *)
LEMMA CopyOfSent ==
    ASSUME DocInv, NEW t \in Txns, bank[t].kind = "positive", bank[t].fate # "lost"
    PROVE  CopyOf(t) \in {"held", "delivered"}
BY DEF CopyOf, DocInv, DocFits, Safe

(* Once the bank has recorded a positive receipt, a step keeps every document *)
(* or publishes it.                                                           *)
LEMMA StepKeepsTaken ==
    ASSUME DocInv, NEW w \in Workers, WorkerNext(w)
    PROVE  /\ \A t \in Txns : bank'[t] = Accepted <=> bank[t] = Accepted
           /\ \A t \in Txns, p \in Positions : published'[t][p] = "none" => published[t][p] = "none"
<1> USE DEF Goto, At
<1>t. LeaseInv /\ DataTypes /\ LabelFits(w) /\ PostFits(w)
  BY DEF DocInv, ReceiptInv, FlowInv, Flow
<1>1. CASE Local(w)
  <2>1. CASE PostReceipt(w)
    <3>1. /\ pc[w] = "post" /\ published' = published
          /\ bank' = [bank EXCEPT ![mem[w].txn] = [kind |-> mem[w].receipt, fate |-> "inflight"]]
      BY <2>1 DEF PostReceipt, sinkVars
    <3>2. bank[mem[w].txn].fate = "none"
      BY <1>t, <3>1 DEF PostFits
    <3> QED BY <1>t, <3>1, <3>2 DEF DataTypes, Accepted
  <2>2. CASE PublishDocument(w)
    <3>1. bank' = bank
      BY <2>2 DEF PublishDocument, bankVars
    <3>2. \/ published' = published
          \/ \E x \in {"complete", "partial"} :
                published' = [published EXCEPT ![mem[w].txn][pos[w] + 1] = x]
      BY <2>2 DEF PublishDocument
    <3> QED BY <1>t, <3>1, <3>2 DEF DataTypes
  <2>3. CASE ~PostReceipt(w) /\ ~PublishDocument(w)
    <3>1. CASE \/ ResumeSession(w) \/ RequestInitialization(w) \/ RequestSegment(w)
               \/ ResponseRefused(w) \/ RecoverBootstrap(w) \/ VerificationFails(w)
               \/ LoadSession(w) \/ CloseTerminal(w) \/ RefusePhase(w) \/ AmbiguityFound(w)
      BY <3>1 DEF ResumeSession, RequestInitialization, RequestSegment, ResponseRefused,
         RecoverBootstrap, VerificationFails, LoadSession, CloseTerminal, RefusePhase,
         AmbiguityFound, bankVars, sinkVars
    <3>2. CASE \/ NegativeFound(w) \/ LoadDocuments(w) \/ ReloadAmbiguous(w)
               \/ PutSegment(w) \/ DiscardSpool(w) \/ Stop(w) \/ ProcessingFails(w)
               \/ BeginDocument(w) \/ StageDocument(w) \/ DiscardStages(w)
      BY <3>2 DEF NegativeFound, LoadDocuments, ReloadAmbiguous, PutSegment, DiscardSpool,
         Stop, ProcessingFails, BeginDocument, StageDocument, DiscardStages, bankVars, sinkVars
    <3> QED BY <1>1, <2>3, <3>1, <3>2 DEF Local
  <2> QED BY <2>1, <2>2, <2>3
<1>2. CASE Persisting(w)
  BY <1>t, <1>2, PersistingEffect DEF bankVars, sinkVars
<1>3. CASE Calls(w) \/ AcquireLease(w) \/ ReleaseLease(w) \/ Expire(w)
  BY <1>3 DEF Calls, StartDownload, StartResolve, AcquireLease, ReleaseLease, Expire, bankVars,
     sinkVars
<1>4. CASE StartSession(w) \/ InitializeTransaction(w) \/ DeleteSession(w)
  BY <1>4 DEF StartSession, InitializeTransaction, DeleteSession, bankVars, sinkVars
<1>5. CASE Crashing(w) \/ CrashInitializing(w)
  BY <1>5 DEF Crashing, Crash, CrashDiscarding, CrashPutting, CrashInitializing, ProcessLost,
     bankVars, sinkVars
<1> QED BY <1>1, <1>2, <1>3, <1>4, <1>5, StepKinds

(* Every step of a download is a step of DocumentDelivery or none: no step    *)
(* loses a copy that the bank believes delivered.                             *)
LEMMA StepDelivers ==
    ASSUME DocInv, DocInv', Next
    PROVE  [Delivery!Next]_(Delivery!vars)
<1>t. LeaseInv /\ DataTypes
  BY DEF DocInv, ReceiptInv, FlowInv
<1>1. ASSUME NEW w \in Workers, WorkerNext(w)
      PROVE  [Delivery!Next]_(Delivery!vars)
  <2>1. /\ \A t \in Txns : bank'[t] = Accepted <=> bank[t] = Accepted
        /\ \A t \in Txns, p \in Positions : published'[t][p] = "none" => published[t][p] = "none"
    BY <1>1, StepKeepsTaken
  <2>2. TakenByClient' = TakenByClient
    BY <2>1 DEF TakenByClient, Accepted
  <2>3. ASSUME NEW t \in Txns, pc[w] \notin Working \/ t # mem[w].txn
        PROVE  CopyOf(t)' = CopyOf(t)
    BY <1>t, <1>1, <2>3, StepTxnsAlone DEF TxnsAlone, CopyOf
  <2>4. CASE \A t \in Txns : CopyOf(t)' = CopyOf(t)
    BY <2>2, <2>4 DEF Delivery!vars
  <2>5. ASSUME NEW t \in Txns, CopyOf(t)' # CopyOf(t)
        PROVE  Delivery!Next
    <3>1. \A x \in Txns \ {t} : CopyOf(x)' = CopyOf(x)
      BY <2>3, <2>5
    <3>2. Copies' = [Copies EXCEPT ![t] = CopyOf(t)']
      BY <3>1 DEF Copies
    <3>3. CASE bank[t] # Accepted
      <4>1. CopyOf(t) \in {"none", "held"} /\ CopyOf(t)' \in {"none", "held"}
        <5>1. Documents[t] \in 1..MaxDocuments /\ 1 \in Positions /\ 1 \in 1..Documents[t]
          BY BtdAssumption, SessionAssumption DEF Positions
        <5>2. published'[t][1] = "none"
          BY <2>1, <3>3, <5>1 DEF DocInv, DocFits, Safe
        <5> QED BY <3>3, <5>1, <5>2, CopyOfUntaken DEF CopyOf
      <4>2. t \notin TakenByClient
        BY <3>3 DEF TakenByClient, Accepted
      <4>3. CASE CopyOf(t) = "none"
        <5>1. CopyOf(t)' = "held"
          BY <2>5, <4>1, <4>3
        <5>2. Delivery!Hold(t)
          BY <2>2, <3>2, <4>2, <4>3, <5>1 DEF Delivery!Hold, Copies
        <5> QED BY <5>2 DEF Delivery!Next
      <4>4. CASE CopyOf(t) = "held"
        <5>1. CopyOf(t)' = "none"
          BY <2>5, <4>1, <4>4
        <5>2. Delivery!Drop(t)
          BY <2>2, <3>2, <4>2, <4>4, <5>1 DEF Delivery!Drop, Copies
        <5> QED BY <5>2 DEF Delivery!Next
      <4> QED BY <4>1, <4>3, <4>4
    <3>4. CASE bank[t] = Accepted
      <4>1. CopyOf(t) \in {"held", "delivered"} /\ CopyOf(t)' \in {"held", "delivered"}
        <5>1. bank'[t] = Accepted
          BY <2>1, <3>4
        <5>2. CopyOf(t)' \in {"held", "delivered"}
          BY <5>1 DEF CopyOf, DocInv, DocFits, Safe, Accepted
        <5> QED BY <3>4, <5>2, CopyOfSent DEF Accepted
      <4>2. CopyOf(t) = "delivered" => CopyOf(t)' = "delivered"
        <5>1. Documents[t] \in 1..MaxDocuments
          BY BtdAssumption
        <5>2. \A p \in 1..Documents[t] : p \in Positions
          BY <5>1, SessionAssumption DEF Positions
        <5>3. \A p \in Positions : published'[t][p] # "none" => published'[t][p] = "complete"
          BY DEF DocInv, DocFits, Safe
        <5> QED BY <2>1, <5>2, <5>3 DEF CopyOf
      <4>3. t \in TakenByClient
        BY <3>4 DEF TakenByClient, Accepted
      <4>4. CopyOf(t) = "held" /\ CopyOf(t)' = "delivered"
        BY <2>5, <4>1, <4>2
      <4>5. Delivery!Deliver(t)
        BY <2>2, <3>2, <4>3, <4>4 DEF Delivery!Deliver, Copies
      <4> QED BY <4>5 DEF Delivery!Next
    <3> QED BY <3>3, <3>4
  <2> QED BY <2>4, <2>5
<1>2. ASSUME NEW t \in Txns, BankSettles(t)
      PROVE  [Delivery!Next]_(Delivery!vars)
  <2>1. /\ UNCHANGED <<part, published>> /\ bank[t].fate = "inflight"
        /\ bank'[t].fate \in {"recorded", "lost"} /\ bank'[t].kind = bank[t].kind
        /\ \A x \in Txns \ {t} : bank'[x] = bank[x]
        /\ bank'[t] \in [kind: ReceiptKinds, fate: {"none", "inflight", "recorded", "lost"}]
    <3>1. DataTypes'
      BY DEF DocInv, ReceiptInv, FlowInv
    <3> QED BY <1>t, <1>2, <3>1, SettleEffect DEF BankSettles, sinkVars, DataTypes
  <2>2. \A x \in Txns : CopyOf(x)' = CopyOf(x)
    BY <2>1 DEF CopyOf
  <2>3. Copies' = Copies
    BY <2>2 DEF Copies
  <2>4. CASE bank'[t] = Accepted
    <3>1. bank[t].kind = "positive" /\ bank[t] # Accepted
      BY <2>1, <2>4 DEF Accepted
    <3>2. CopyOf(t) = "held"
      BY <2>1, <3>1, CopyOfUntaken, CopyOfSent
    <3>3. t \notin TakenByClient /\ TakenByClient' = TakenByClient \cup {t}
      BY <2>1, <2>4, <3>1 DEF TakenByClient, Accepted
    <3> QED BY <2>3, <3>2, <3>3 DEF Delivery!Next, Delivery!Take, Copies
  <2>5. CASE bank'[t] # Accepted
    <3>1. TakenByClient' = TakenByClient
      BY <2>1, <2>5 DEF TakenByClient, Accepted
    <3> QED BY <2>3, <3>1 DEF Delivery!vars, Copies
  <2> QED BY <2>4, <2>5
<1> QED BY <1>1, <1>2 DEF Next, Undisturbed, WorkerNext

(* The refinement: BtdDownload implements DocumentDelivery, in which a        *)
(* transaction is fetched, confirmed and delivered, and nothing confirmed is  *)
(* lost.                                                                      *)
THEOREM DownloadDelivers == Spec => ImplementsDelivery
<1>1. Init => Delivery!Init
  <2> SUFFICES ASSUME Init PROVE Delivery!Init
    OBVIOUS
  <2>1. ASSUME NEW t \in Txns PROVE CopyOf(t) = "none"
    <3>1. Documents[t] \in 1..MaxDocuments /\ 1 \in Positions /\ 1 \in 1..Documents[t]
      BY BtdAssumption, SessionAssumption DEF Positions
    <3>2. published[t][1] = "none" /\ part[t][1] = "none"
      BY <3>1 DEF Init, NoStages
    <3> QED BY <3>1, <3>2 DEF CopyOf
  <2>2. TakenByClient = {}
    BY DEF Init, TakenByClient
  <2> QED BY <2>1, <2>2 DEF Delivery!Init
<1>2. DocInv /\ DocInv' /\ [Next]_vars => [Delivery!Next]_(Delivery!vars)
  <2>1. ASSUME UNCHANGED vars PROVE UNCHANGED Delivery!vars
    <3>1. UNCHANGED <<part, published, bank>>
      BY <2>1 DEF vars, sinkVars, bankVars
    <3>2. TakenByClient' = TakenByClient
      BY <3>1 DEF TakenByClient
    <3>3. \A t \in Txns : CopyOf(t)' = CopyOf(t)
      BY <3>1 DEF CopyOf
    <3> QED BY <3>2, <3>3 DEF Delivery!vars
  <2> QED BY <2>1, StepDelivers
<1> QED BY <1>1, <1>2, DocInvariant, PTL DEF Spec, ImplementsDelivery, Delivery!Spec
-----------------------------------------------------------------------------
(* The spool *)

(* The segment numbers in the spool c. *)
Numbers(c) == {k \in Segments : c[k] # NoTxn}

(* The spool c is the one that session m's phase calls for. *)
SpoolFor(m, c) ==
    m.phase \in ReceivePhases \cup ProcessPhases =>
        /\ SpoolIndexFits(m, Numbers(c))
        /\ m.phase # "new" => \A k \in Numbers(c) : c[k] = m.txn

(* SpoolFor, for session s; no session, no spool.                             *)
SpoolMatches(s) == IF state[s] = NoSession THEN Numbers(spool[s]) = {}
                                           ELSE SpoolFor(state[s], spool[s])

(* A worker about to initialize has the first segment of that transaction in  *)
(* the spool; one about to delete has emptied it.                             *)
SpoolFits(w) ==
    /\ pc[w] = "initialize" => spool[Sid(w)][1] = got[w]
    /\ pc[w] = "delete" => Numbers(spool[Sid(w)]) = {}

(* The inductive invariant of the spool, on top of FlowInv.                   *)
SpoolInv ==
    /\ FlowInv
    /\ \A s \in Sessions : SpoolMatches(s)
    /\ \A w \in Workers : SpoolFits(w)

(* Recording a segment that is in the spool moves the session to a phase that *)
(* calls for just this spool.                                                 *)
LEMMA RecordKeepsSpool ==
    ASSUME NEW m \in Session, Coherent(m), CanRecordSegment(m),
           NEW c \in [Segments -> Txns \cup {NoTxn}],
           SpoolFor(m, c), c[m.next] # NoTxn
    PROVE  SpoolFor(record_segment(m), c)
<1> DEFINE new == record_segment(m)
<1>1. /\ m.total \in 1..MaxSegments /\ m.next \in 1..m.total /\ m.phase \in {"initialized", "receiving_segments"}
      /\ m.phase = "initialized" => m.next = 1
  BY SessionAssumption DEF CanRecordSegment, Coherent, SegmentsCoherent, Session
<1>2. /\ new.phase = IF m.next = m.total THEN "segments_received" ELSE "receiving_segments"
      /\ new.next = m.next + 1 /\ new.total = m.total /\ new.txn = m.txn
  BY DEF record_segment, Advance, Session
<1>3. m.next \in Numbers(c)
  BY <1>1, SessionAssumption DEF Numbers, Segments
<1>4. Numbers(c) = 1..m.next /\ \A k \in Numbers(c) : c[k] = m.txn
  <2>1. \A k \in Numbers(c) : c[k] = m.txn
    BY <1>1 DEF SpoolFor, ReceivePhases
  <2>2. CASE m.phase = "initialized"
    <3>1. Numbers(c) = {1}
      BY <2>2 DEF SpoolFor, SpoolIndexFits, ReceivePhases
    <3>2. 1..m.next = {1}
      BY <1>1, <2>2
    <3> QED BY <2>1, <3>1, <3>2
  <2>3. CASE m.phase = "receiving_segments"
    <3>1. Numbers(c) \in {1..(m.next - 1), 1..m.next}
      BY <2>3 DEF SpoolFor, SpoolIndexFits, ReceivePhases
    <3>2. m.next \notin 1..(m.next - 1)
      BY <1>1
    <3> QED BY <1>3, <2>1, <3>1, <3>2
  <2> QED BY <1>1, <2>2, <2>3
<1>5. CASE m.next = m.total
  BY <1>1, <1>2, <1>4, <1>5 DEF SpoolFor, SpoolIndexFits
<1>6. CASE m.next # m.total
  <2>1. new.next - 1 = m.next
    BY <1>1, <1>2
  <2> QED BY <1>1, <1>2, <1>4, <1>6, <2>1 DEF SpoolFor, SpoolIndexFits
<1> QED BY <1>5, <1>6

(* Putting the next segment is within what the phase allows, before and after *)
(* it is recorded.                                                            *)
LEMMA PutKeepsSpool ==
    ASSUME NEW m \in Session, Coherent(m), m.phase \in {"new", "receiving_segments"},
           NEW c \in [Segments -> Txns \cup {NoTxn}], NEW t \in Txns,
           SpoolFor(m, c), c[m.next] = NoTxn, m.phase = "receiving_segments" => t = m.txn
    PROVE  m.next \in Segments /\ SpoolFor(m, [c EXCEPT ![m.next] = t])
<1> DEFINE new == [c EXCEPT ![m.next] = t]
<1>1. m.next \in Segments /\ (m.phase = "new" => m.next = 1)
  BY SessionAssumption DEF Coherent, CoherentBeforeTransaction, SegmentsCoherent, Session,
     Segments
<1>2. Numbers(new) = Numbers(c) \cup {m.next} /\ m.next \notin Numbers(c)
  BY <1>1, SessionAssumption DEF Numbers
<1>3. CASE m.phase = "new"
  BY <1>1, <1>2, <1>3 DEF SpoolFor, SpoolIndexFits, ReceivePhases
<1>4. CASE m.phase = "receiving_segments"
  <2>1. m.next \in Nat /\ m.next >= 1
    BY <1>1, SessionAssumption DEF Segments
  <2>2. Numbers(c) \in {1..(m.next - 1), 1..m.next} /\ \A k \in Numbers(c) : c[k] = m.txn
    BY <1>4 DEF SpoolFor, SpoolIndexFits, ReceivePhases
  <2>3. Numbers(c) = 1..(m.next - 1)
    BY <1>2, <2>1, <2>2
  <2>4. Numbers(new) = 1..m.next
    <3>1. 1..m.next = (1..(m.next - 1)) \cup {m.next}
      BY <2>1
    <3> QED BY <1>2, <2>3, <3>1
  <2>5. \A k \in Numbers(new) : new[k] = m.txn
    BY <1>1, <1>2, <1>4, <2>2 DEF Numbers
  <2>6. SpoolIndexFits(m, Numbers(new))
    BY <1>4, <2>4 DEF SpoolIndexFits
  <2> HIDE DEF new
  <2>7. SpoolFor(m, new)
    BY <2>5, <2>6 DEF SpoolFor
  <2> QED BY <1>1, <2>7 DEF new
<1> QED BY <1>3, <1>4

(* The spool survives the steps of workers on other sessions.                 *)
LEMMA SpoolAlone ==
    ASSUME SpoolInv, NEW w \in Workers, OthersAlone(w)
    PROVE  /\ \A s \in Sessions : lock[s] # w => SpoolMatches(s)'
           /\ \A v \in Workers \ {w} : SpoolFits(v)'
<1>t. LeaseInv
  BY DEF SpoolInv, FlowInv
<1>1. ASSUME NEW s \in Sessions, lock[s] # w PROVE SpoolMatches(s)'
  BY <1>1 DEF SpoolInv, SpoolMatches, OthersAlone
<1>2. ASSUME NEW v \in Workers \ {w} PROVE SpoolFits(v)'
  <2>1. pc'[v] = pc[v] /\ call'[v] = call[v] /\ got'[v] = got[v] /\ SpoolFits(v)
    BY DEF OthersAlone, SpoolInv
  <2>2. pc[v] \in {"initialize", "delete"} => spool'[Sid(v)] = spool[Sid(v)]
    <3>1. pc[v] \in {"initialize", "delete"} => pc[v] \in Working
      BY DEF Working, Labels, Unlocked, Loading
    <3> QED BY <1>t, <3>1, WorkingSession DEF OthersAlone
  <2> QED BY <2>1, <2>2 DEF SpoolFits, Sid
<1> QED BY <1>1, <1>2

(* Each step of a worker keeps its session and its spool together, a crash    *)
(* between put and record included.                                           *)
LEMMA OwnSpool ==
    ASSUME SpoolInv, NEW w \in Workers, WorkerNext(w)
    PROVE  /\ SpoolFits(w)'
           /\ \A s \in Sessions : lock[s] = w => SpoolMatches(s)'
<1> USE DEF Goto, At
<1>t. /\ pc \in [Workers -> Labels] /\ mem \in [Workers -> Session \cup {NoSession}]
      /\ state \in [Sessions -> Session \cup {NoSession}]
      /\ spool \in [Sessions -> [Segments -> Txns \cup {NoTxn}]]
      /\ got \in [Workers -> Txns \cup {NoTxn}]
      /\ FlowInv /\ LeaseInv /\ Lease(w) /\ LabelFits(w) /\ ResolveFits(w) /\ SpoolFits(w)
  BY DEF SpoolInv, FlowInv, LeaseInv, WorkerTypes, StoreInv, StoreTypeOK, Flow
<1> DEFINE Goal == /\ SpoolFits(w)'
                   /\ \A s \in Sessions : lock[s] = w => SpoolMatches(s)'
<1> SUFFICES Goal
  OBVIOUS
<1>1. CASE UNCHANGED <<state, spool>> /\ SpoolFits(w)'
  BY <1>1 DEF SpoolInv, SpoolMatches
<1>2. pc'[w] \notin {"initialize", "delete"} => SpoolFits(w)'
  BY DEF SpoolFits
(* The session of w comes to hold v over the spool c. *)
<1>3. ASSUME Sid(w) \in Sessions, SpoolFits(w)',
             IF state'[Sid(w)] = NoSession THEN Numbers(spool'[Sid(w)]) = {}
                                           ELSE SpoolFor(state'[Sid(w)], spool'[Sid(w)])
      PROVE  Goal
  <2>1. ASSUME NEW s \in Sessions, lock[s] = w PROVE SpoolMatches(s)'
    <3>1. s = Sid(w)
      BY <1>t, <2>1 DEF Lease
    <3> QED BY <1>3, <3>1 DEF SpoolMatches
  <2> QED BY <1>3, <2>1
<1>4. ASSUME pc[w] \in Working
      PROVE  /\ Sid(w) \in Sessions /\ mem[w] = state[Sid(w)] /\ mem[w] # NoSession
             /\ mem[w] \in Session /\ Coherent(mem[w]) /\ SpoolFor(mem[w], spool[Sid(w)])
             /\ spool[Sid(w)] \in [Segments -> Txns \cup {NoTxn}]
  <2>1. /\ Sid(w) \in Sessions /\ mem[w] = state[Sid(w)] /\ mem[w] # NoSession
        /\ mem[w] \in Session /\ Coherent(mem[w])
    BY <1>t, <1>4, WorkingSession
  <2>2. SpoolMatches(Sid(w))
    BY <2>1 DEF SpoolInv
  <2> QED BY <1>t, <2>1, <2>2 DEF SpoolMatches
<1>5. CASE Calls(w) \/ AcquireLease(w) \/ ReleaseLease(w) \/ Expire(w)
  <2>1. CASE Expire(w)
    <3>1. UNCHANGED <<state, spool, pc, got, call>>
      BY <2>1 DEF Expire, workerVars, spoolVars
    <3> QED BY <1>t, <1>1, <3>1 DEF SpoolFits, Sid
  <2>2. CASE Calls(w) \/ AcquireLease(w) \/ ReleaseLease(w)
    <3>1. UNCHANGED <<state, spool>>
          /\ pc'[w] \in {"recv_lock", "lock", "recv_load", "load", "idle"}
      BY <1>t, <2>2 DEF Calls, StartDownload, StartResolve, AcquireLease, ReleaseLease, spoolVars
    <3> QED BY <1>1, <1>2, <3>1
  <2> QED BY <1>5, <2>1, <2>2
<1>6. CASE Crash(w) \/ CrashPutting(w) \/ CrashInitializing(w)
  <2>1. UNCHANGED <<state, spool>> /\ pc'[w] = "idle"
    BY <1>t, <1>6 DEF Crash, CrashPutting, CrashInitializing, ProcessLost, spoolVars
  <2> QED BY <1>1, <1>2, <2>1
<1>7. CASE DiscardSpool(w) \/ CrashDiscarding(w)
  <2>1. state' = state /\ \A s \in Sessions : s # Sid(w) => spool'[s] = spool[s]
    BY <1>t, <1>7 DEF DiscardSpool, CrashDiscarding, ProcessLost, storeVars, spoolVars
  <2>2. CASE pc[w] = "discard_stages"
    <3>1. UNCHANGED <<state, spool>> /\ pc'[w] = "idle"
      BY <1>t, <1>7, <2>2 DEF DiscardSpool, CrashDiscarding, ProcessLost, spoolVars
    <3> QED BY <1>1, <1>2, <3>1
  <2>3. CASE pc[w] = "discard_spool"
    <3>1. pc[w] \in Working
      BY <2>3 DEF Working, Labels, Unlocked, Loading
    <3>2. mem[w].phase \notin ReceivePhases \cup ProcessPhases
      BY <1>t, <2>3 DEF LabelFits, Ambiguous, Denied, TerminalPhases, ReceivePhases, ProcessPhases
    <3>3. SpoolFor(state'[Sid(w)], spool'[Sid(w)]) /\ state'[Sid(w)] # NoSession
      BY <1>4, <2>1, <3>1, <3>2 DEF SpoolFor
    <3>4. SpoolFits(w)'
      <4>1. CASE DiscardSpool(w)
        <5>1. Sid(w)' = Sid(w) /\ spool'[Sid(w)] = EmptySpool /\ pc'[w] # "initialize"
          BY <1>t, <1>4, <3>1, <4>1 DEF DiscardSpool, Sid
        <5> QED BY <5>1 DEF SpoolFits, Numbers, EmptySpool
      <4>2. CASE CrashDiscarding(w)
        BY <1>t, <1>2, <4>2 DEF CrashDiscarding, ProcessLost
      <4> QED BY <1>7, <4>1, <4>2
    <3> QED BY <1>3, <1>4, <3>1, <3>3, <3>4
  <2> QED BY <1>7, <2>2, <2>3 DEF DiscardSpool, CrashDiscarding
<1>8. CASE PutSegment(w)
  <2>1. /\ pc[w] = "put" /\ pc[w] \in Working /\ state' = state /\ call' = call
    BY <1>8 DEF PutSegment, storeVars, Working, Labels, Unlocked, Loading
  <2>2. CASE spool[Sid(w)][mem[w].next] = NoTxn
    <3>1. got[w] \in Txns /\ mem[w].phase \in {"new", "receiving_segments"}
          /\ (mem[w].phase = "receiving_segments" => got[w] = mem[w].txn)
      BY <1>t, <2>1 DEF Lease, LabelFits
    <3>2. mem[w].next \in Segments /\ SpoolFor(mem[w], [spool[Sid(w)] EXCEPT ![mem[w].next] = got[w]])
      BY <1>4, <2>1, <2>2, <3>1, PutKeepsSpool
    <3>3. spool'[Sid(w)] = [spool[Sid(w)] EXCEPT ![mem[w].next] = got[w]]
      BY <1>t, <1>4, <1>8, <2>1, <2>2 DEF PutSegment
    <3>4. SpoolFits(w)'
      <4>1. /\ pc'[w] = "initialize" => mem[w].phase = "new" /\ got'[w] = got[w]
            /\ pc'[w] # "delete"
        BY <1>t, <1>8, <2>2 DEF PutSegment
      <4>2. mem[w].phase = "new" => mem[w].next = 1
        BY <1>4, <2>1 DEF Coherent, CoherentBeforeTransaction
      <4>3. spool'[Sid(w)][mem[w].next] = got[w]
        BY <1>4, <2>1, <3>2, <3>3
      <4> QED BY <2>1, <4>1, <4>2, <4>3 DEF SpoolFits, Sid
    <3> QED BY <1>3, <1>4, <2>1, <3>2, <3>3, <3>4
  <2>3. CASE spool[Sid(w)][mem[w].next] # NoTxn
    BY <1>t, <1>1, <1>2, <1>8, <2>1, <2>3 DEF PutSegment
  <2> QED BY <2>2, <2>3
<1>9. CASE Local(w) /\ ~PutSegment(w) /\ ~DiscardSpool(w)
  <2>0. UNCHANGED <<state, call>>
    BY <1>9, LocalUsesNoStore DEF storeVars
  <2>1. CASE RecoverBootstrap(w)
    <3>1. /\ pc[w] = "receive" /\ pc'[w] = "initialize" /\ UNCHANGED spool
          /\ got'[w] = spool[Sid(w)][1]
      BY <1>t, <2>1 DEF RecoverBootstrap, spoolVars
    <3> QED BY <1>1, <2>0, <3>1 DEF SpoolFits, Sid
  <2>2. CASE \/ ResumeSession(w) \/ RequestInitialization(w) \/ RequestSegment(w)
             \/ ResponseRefused(w) \/ VerificationFails(w)
             \/ LoadSession(w) \/ CloseTerminal(w) \/ RefusePhase(w) \/ AmbiguityFound(w)
    <3>1. UNCHANGED spool /\ pc'[w] \notin {"initialize", "delete"}
      BY <1>t, <2>2 DEF ResumeSession, RequestInitialization, RequestSegment, ResponseRefused,
         VerificationFails, LoadSession, Resolution, CloseTerminal, RefusePhase,
         AmbiguityFound, AfterAmbiguity, spoolVars
    <3> QED BY <1>1, <1>2, <2>0, <3>1
  <2>3. CASE \/ NegativeFound(w) \/ LoadDocuments(w) \/ ReloadAmbiguous(w)
             \/ Stop(w) \/ ProcessingFails(w) \/ PostReceipt(w)
             \/ BeginDocument(w) \/ StageDocument(w) \/ PublishDocument(w) \/ DiscardStages(w)
    <3>1. UNCHANGED spool /\ pc'[w] \notin {"initialize", "delete"}
      BY <1>t, <2>3 DEF NegativeFound, LoadDocuments, ReloadAmbiguous, PostReceipt,
         Stop, ProcessingFails, BeginDocument, StageDocument, PublishDocument, PublicationDue,
         DiscardStages, spoolVars
    <3> QED BY <1>1, <1>2, <2>0, <3>1
  <2> QED BY <1>9, <2>1, <2>2, <2>3 DEF Local
<1>10. CASE StartSession(w)
  <2>1. UNCHANGED spool /\ Sid(w) \in Sessions /\ state[Sid(w)] = NoSession
    BY <1>10, <1>t, CallNamesSession DEF StartSession, spoolVars
  <2>2. \/ state' = state /\ pc'[w] = "release"
        \/ state' = [state EXCEPT ![Sid(w)] = start(call[w].request)] /\ pc'[w] = "receive"
    BY <1>t, <1>10 DEF StartSession, Persist, StateSetTo
  <2>3. Numbers(spool[Sid(w)]) = {}
    BY <2>1 DEF SpoolInv, SpoolMatches
  <2>4. SpoolFor(start(call[w].request), spool[Sid(w)])
    BY <2>3 DEF start, SpoolFor, SpoolIndexFits
  <2>5. CASE state' = [state EXCEPT ![Sid(w)] = start(call[w].request)] /\ pc'[w] = "receive"
    <3>1. state'[Sid(w)] = start(call[w].request)
      BY <1>t, <2>1, <2>5
    <3> QED BY <1>2, <1>3, <2>1, <2>3, <2>4, <2>5, <3>1
  <2> QED BY <1>1, <1>2, <2>1, <2>2, <2>5
<1>11. CASE InitializeTransaction(w)
  <2> DEFINE x == got[w]
             new == initialize(mem[w], x, Total[x])
  <2>1. UNCHANGED spool /\ pc[w] = "initialize" /\ pc[w] \in Working
    BY <1>11 DEF InitializeTransaction, spoolVars, Working, Labels, Unlocked, Loading
  <2>2. \/ state' = state /\ pc'[w] \in {"fail", "release"}
        \/ /\ state' = [state EXCEPT ![Sid(w)] = new] /\ pc'[w] = "receive"
           /\ state[Sid(w)].phase = "new"
    BY <1>t, <1>11 DEF InitializeTransaction, StateSetTo, InitializeAccepts, CanInitialize
  <2>3. x \in Txns /\ x # NoTxn /\ spool[Sid(w)][1] = x /\ 1 \in Segments
    BY <1>t, <2>1, SessionAssumption DEF Lease, SpoolFits, Segments
  <2>4. ASSUME mem[w].phase = "new" PROVE SpoolFor(new, spool[Sid(w)])
    <3>1. new.txn = x /\ new.phase = "initialized"
      BY <1>4, <2>1 DEF initialize, Advance, Session
    <3>2. Numbers(spool[Sid(w)]) = {1}
      BY <1>4, <2>1, <2>3, <2>4 DEF SpoolFor, SpoolIndexFits, ReceivePhases, Numbers
    <3> QED BY <2>3, <3>1, <3>2 DEF SpoolFor, SpoolIndexFits
  <2> HIDE DEF new
  <2>5. CASE state' = [state EXCEPT ![Sid(w)] = new] /\ pc'[w] = "receive" /\ state[Sid(w)].phase = "new"
    <3>1. state'[Sid(w)] = new /\ new # NoSession
      <4>1. new \in Session
        BY <1>4, <2>1, <2>3, <2>5, InitializeCoherent, BtdAssumption DEF new
      <4> QED BY <1>t, <1>4, <2>1, <2>5, <4>1, StoreAssumption
    <3> QED BY <1>2, <1>3, <1>4, <2>1, <2>4, <2>5, <3>1
  <2> QED BY <1>1, <1>2, <2>1, <2>2, <2>5
<1>12. CASE DeleteSession(w)
  <2>1. /\ UNCHANGED spool /\ pc[w] = "delete" /\ pc[w] \in Working /\ pc'[w] = "release"
        /\ state' = state \/ state' = [state EXCEPT ![Sid(w)] = NoSession]
    BY <1>t, <1>12 DEF DeleteSession, StateSetTo, spoolVars, Working, Labels, Unlocked, Loading
  <2>2. Numbers(spool[Sid(w)]) = {}
    BY <1>t, <2>1 DEF SpoolFits
  <2>3. CASE state' = [state EXCEPT ![Sid(w)] = NoSession]
    <3>1. state'[Sid(w)] = NoSession
      BY <1>t, <1>4, <2>1, <2>3
    <3> QED BY <1>2, <1>3, <1>4, <2>1, <2>2, <3>1
  <2> QED BY <1>1, <1>2, <2>1, <2>3
<1>13. CASE Persisting(w)
  <2> DEFINE m == mem[w]
             c == spool[Sid(w)]
  <2>1. /\ pc[w] \in Working /\ UNCHANGED <<spool, call>>
    BY <1>t, <1>13, PersistingEffect DEF spoolVars
  <2>2. ASSUME NEW new, NEW l, Persist(w, new, l), l \notin {"initialize", "delete"},
               new \in Session => SpoolFor(new, c)
        PROVE  Goal
    <3>1. CASE UNCHANGED <<state, mem>> /\ pc' = [pc EXCEPT ![w] = "release"]
      BY <1>t, <1>1, <1>2, <2>1, <3>1
    <3>2. CASE /\ new \in Session /\ state' = [state EXCEPT ![Sid(w)] = new]
               /\ pc' = [pc EXCEPT ![w] = l]
      <4>1. state'[Sid(w)] = new /\ pc'[w] = l /\ new # NoSession
        BY <1>t, <1>4, <2>1, <3>2, StoreAssumption
      <4> QED BY <1>2, <1>3, <1>4, <2>1, <2>2, <3>2, <4>1
    <3> QED BY <1>t, <2>1, <2>2, <3>1, <3>2, PersistEffect
  <2>3. CASE UNCHANGED <<state, mem>> /\ pc'[w] \in {"fail", "recv_release"}
    BY <1>1, <1>2, <2>1, <2>3
  <2>4. CASE RecordSegment(w)
    <3>1. \/ UNCHANGED <<state, mem>> /\ pc'[w] \in {"fail", "recv_release"}
          \/ Persist(w, record_segment(m), "receive") /\ CanRecordSegment(m) /\ c[m.next] # NoTxn
      BY <1>t, <2>4 DEF RecordSegment
    <3> QED BY <1>4, <2>1, <2>2, <2>3, <3>1, RecordKeepsSpool
  <2> HIDE DEF Goal
  <2>5. CASE VerifySpool(w) \/ RecordUnpacked(w)
    <3> DEFINE Whole == {"segments_received", "signatures_and_digests_verified"} \cup ProcessPhases
    <3>1. \/ UNCHANGED <<state, mem>> /\ pc'[w] \in {"fail", "recv_release"}
          \/ \E new : \E l \in {"recv_release", "unpack"} :
                /\ Persist(w, new, l) /\ m.phase \in Whole /\ new.phase \in Whole
                /\ new.txn = m.txn /\ new.total = m.total
      <4>1. CASE VerifySpool(w)
        <5>1. /\ mark_signatures_and_digests_verified(m).phase = "signatures_and_digests_verified"
              /\ mark_signatures_and_digests_verified(m).txn = m.txn
              /\ mark_signatures_and_digests_verified(m).total = m.total
          BY <1>4, <2>1 DEF mark_signatures_and_digests_verified, Advance, Session
        <5> QED BY <1>t, <4>1, <5>1 DEF VerifySpool, PersistOnly, storeVars
      <4>2. CASE RecordUnpacked(w)
        <5>1. /\ mark_decrypted(m).phase = "decrypted" /\ mark_decrypted(m).txn = m.txn
              /\ mark_decrypted(m).total = m.total
              /\ mark_container_verified(m).phase = "container_verified"
              /\ mark_container_verified(m).txn = m.txn /\ mark_container_verified(m).total = m.total
          BY <1>4, <2>1 DEF mark_decrypted, mark_container_verified, Advance, Session
        <5> QED BY <1>t, <4>2, <5>1 DEF RecordUnpacked, PersistOnly, CanMarkDecrypted,
                   CanMarkContainerVerified, ProcessPhases
      <4> QED BY <2>5, <4>1, <4>2
    <3>2. ASSUME NEW new, NEW l \in {"recv_release", "unpack"}, Persist(w, new, l), m.phase \in Whole,
                 new.phase \in Whole, new.txn = m.txn, new.total = m.total
          PROVE  Goal
      <4>1. SpoolFor(new, c)
        BY <1>4, <2>1, <3>2 DEF SpoolFor, SpoolIndexFits, ReceivePhases, ProcessPhases
      <4> QED BY <2>2, <3>2, <4>1
    <3> QED BY <2>3, <3>1, <3>2
  <2>6. CASE \/ FailSession(w) \/ PendingFound(w) \/ RecordStaged(w) \/ IntendReceipt(w)
             \/ ReceiptAnswered(w) \/ ReceiptUnanswered(w) \/ AcceptReceipt(w) \/ RecordPublished(w)
             \/ FinishPublished(w) \/ FinishNegative(w)
    <3>1. \E new, l : /\ Persist(w, new, l) /\ l \notin {"initialize", "delete"}
                      /\ new.phase \notin ReceivePhases \cup ProcessPhases
      <4>1. CASE FailSession(w) \/ PendingFound(w) \/ RecordStaged(w)
        BY <1>4, <2>1, <4>1, TransitionFields DEF FailSession, PendingFound, AfterAmbiguity,
           RecordStaged, PersistOnly, ReceivePhases, ProcessPhases
      <4>2. CASE IntendReceipt(w)
        BY <1>4, <2>1, <4>2, TransitionFields DEF IntendReceipt, PersistOnly, ReceivePhases,
           ProcessPhases
      <4>3. CASE ReceiptAnswered(w) \/ ReceiptUnanswered(w) \/ AcceptReceipt(w)
        BY <1>4, <2>1, <4>3, TransitionFields DEF ReceiptAnswered, ReceiptUnanswered,
           AcceptReceipt, PersistOnly, ReceivePhases, ProcessPhases
      <4>4. CASE RecordPublished(w) \/ FinishPublished(w) \/ FinishNegative(w)
        BY <1>4, <2>1, <4>4, TransitionFields DEF RecordPublished, FinishPublished,
           FinishNegative, PersistOnly, ReceivePhases, ProcessPhases
      <4> QED BY <2>6, <4>1, <4>2, <4>3, <4>4
    <3>2. ASSUME NEW new, NEW l, Persist(w, new, l), l \notin {"initialize", "delete"},
                 new.phase \notin ReceivePhases \cup ProcessPhases
          PROVE  Goal
      <4>1. SpoolFor(new, c)
        BY <3>2 DEF SpoolFor
      <4> QED BY <2>2, <3>2, <4>1
    <3> QED BY <3>1, <3>2
  <2> QED BY <1>13, <2>4, <2>5, <2>6 DEF Persisting
<1> QED BY <1>5, <1>6, <1>7, <1>8, <1>9, <1>10, <1>11, <1>12, <1>13, StepKinds DEF Crashing

(* SpoolInv is preserved by every step.                                       *)
LEMMA SpoolInvKept ==
    ASSUME SpoolInv, [Next]_vars
    PROVE  SpoolInv'
<1>1. FlowInv' /\ LeaseInv
  BY FlowInvKept DEF SpoolInv, FlowInv
<1>2. CASE UNCHANGED <<state, pc, call, got, spool>>
  BY <1>1, <1>2 DEF SpoolInv, SpoolMatches, SpoolFits, Sid
<1>3. ASSUME NEW w \in Workers, WorkerNext(w)
      PROVE  SpoolInv'
  <2>1. OthersAlone(w)
    BY <1>1, <1>3, StepOthersAlone
  <2>2. \A s \in Sessions : SpoolMatches(s)'
    BY <1>3, <2>1, SpoolAlone, OwnSpool
  <2>3. \A v \in Workers : SpoolFits(v)'
    BY <1>3, <2>1, SpoolAlone, OwnSpool
  <2> QED BY <1>1, <2>2, <2>3 DEF SpoolInv
<1>4. UNCHANGED vars => UNCHANGED <<state, pc, call, got, spool>>
  BY DEF vars, storeVars, workerVars, spoolVars
<1>5. (\E t \in Txns : BankSettles(t)) => UNCHANGED <<state, pc, call, got, spool>>
  BY DEF BankSettles, storeVars, workerVars, spoolVars
<1> QED BY <1>2, <1>3, <1>4, <1>5 DEF Next, Undisturbed, WorkerNext

(* SpoolInv is an invariant of the download.                                  *)
THEOREM SpoolInvariant == Spec => []SpoolInv
<1>1. ASSUME Init PROVE SpoolInv
  <2>1. FlowInv
    BY <1>1, FlowInit
  <2> QED BY <1>1, <2>1 DEF SpoolInv, Init, StoreInit, SpoolMatches, SpoolFits, Numbers,
      EmptySpool
<1> QED BY <1>1, SpoolInvKept, PTL DEF Spec

(* What is in the spool of a session under way is what its phase and next     *)
(* segment say, and all of its own transaction: put and record may be cut     *)
(* between, but never mixed.                                                  *)
THEOREM SpoolsMatch == Spec => []SpoolMatchesSession
<1>1. SpoolInv => SpoolMatchesSession
  BY DEF SpoolInv, SpoolMatches, SpoolFor, SpoolMatchesSession, InSpool, Numbers
<1> QED BY <1>1, SpoolInvariant, PTL
=============================================================================
