------------------------ MODULE BtdDownload_proofs ------------------------
(***************************************************************************)
(* Proofs about BtdDownload, part one: the lease. Whatever the number of   *)
(* workers, sessions and transactions, a worker past its load works on     *)
(* exactly the state its session store holds, and the handlers of the      *)
(* backend use the store only through its operations. The later parts      *)
(* (BtdReceipt_proofs, BtdDelivery_proofs) rest on the two facts of        *)
(* interference proved here: a step of one worker leaves the session, the  *)
(* spool and the lease of every other worker alone (StepOthersAlone), and  *)
(* the stages, documents and receipts of every other transaction           *)
(* (StepTxnsAlone).                                                        *)
(***************************************************************************)
EXTENDS BtdDownload, SessionStore_proofs

(* Labels at which a worker holds no kernel lock.                             *)
Unlocked == {"idle", "recv_lock", "lock"}

(* Labels at which it holds the lock and has not loaded the session yet.      *)
Loading == {"recv_load", "load"}

(* Labels at which it works on the session it has loaded.                     *)
Working == Labels \ (Unlocked \cup Loading \cup {"release"})

(* Types of what a worker keeps in memory, and of the spool.                  *)
WorkerTypes ==
    /\ pc \in [Workers -> Labels]
    /\ call \in [Workers -> Call \cup {NoCall}]
    /\ mem \in [Workers -> Session \cup {NoSession}]
    /\ got \in [Workers -> Txns \cup {NoTxn}]
    /\ pos \in [Workers -> Nat]
    /\ spool \in [Sessions -> [Segments -> Txns \cup {NoTxn}]]

(* What a worker knows at each label: it holds the lock of its session and no *)
(* other, and the session in its memory is the one in the state file. After   *)
(* an error it may be behind, but then it can only release.                   *)
Lease(w) ==
    /\ pc[w] = "idle" <=> call[w] = NoCall
    /\ \A s \in Sessions : lock[s] = w <=> pc[w] \notin Unlocked /\ s = Sid(w)
    /\ pc[w] \in Unlocked \cup Loading => mem[w] = NoSession
    /\ pc[w] \in Working => mem[w] # NoSession /\ mem[w] = state[Sid(w)]
    /\ pc[w] \in {"put", "initialize"} => got[w] \in Txns

(* The first inductive invariant. The store's own invariant is needed because *)
(* a write of a worker is judged against the stored session, Lease because    *)
(* only it says that the worker's copy is that session.                       *)
LeaseInv == StoreInv /\ WorkerTypes /\ \A w \in Workers : Lease(w)

(* Everything that can happen to one worker.                                  *)
WorkerNext(w) == Calls(w) \/ Step(w) \/ Interruption(w)

(* Steps that only compute, exchange a message, or touch spool, sink or bank. *)
Local(w) ==
    \/ ResumeSession(w) \/ RequestInitialization(w) \/ RequestSegment(w)
    \/ ResponseRefused(w) \/ RecoverBootstrap(w) \/ VerificationFails(w)
    \/ LoadSession(w) \/ CloseTerminal(w) \/ RefusePhase(w) \/ AmbiguityFound(w)
    \/ NegativeFound(w) \/ LoadDocuments(w) \/ ReloadAmbiguous(w)
    \/ PutSegment(w) \/ DiscardSpool(w)
    \/ Stop(w) \/ ProcessingFails(w) \/ BeginDocument(w) \/ StageDocument(w)
    \/ PublishDocument(w) \/ DiscardStages(w) \/ PostReceipt(w)

(* Steps that end in _persist_btd_successor. *)
Persisting(w) ==
    \/ RecordSegment(w) \/ VerifySpool(w) \/ FailSession(w) \/ PendingFound(w)
    \/ RecordUnpacked(w) \/ RecordStaged(w) \/ IntendReceipt(w) \/ ReceiptAnswered(w)
    \/ ReceiptUnanswered(w) \/ AcceptReceipt(w) \/ RecordPublished(w)
    \/ FinishPublished(w) \/ FinishNegative(w)

(* The loss of a process other than between claim and state file.             *)
Crashing(w) == Crash(w) \/ CrashDiscarding(w) \/ CrashPutting(w)

(* Every step of a worker is of one of these kinds.                           *)
LEMMA StepKinds ==
    ASSUME NEW w, WorkerNext(w)
    PROVE  \/ Calls(w) \/ AcquireLease(w) \/ ReleaseLease(w) \/ Expire(w)
           \/ Local(w) \/ Persisting(w) \/ StartSession(w) \/ InitializeTransaction(w)
           \/ DeleteSession(w) \/ Crashing(w) \/ CrashInitializing(w)
BY DEF WorkerNext, Step, Interruption, Receive, Process, Acknowledge, Conclude, Local,
       Persisting, Crashing

(* What is_exact_successor_of accepts is among the successors a caller of the *)
(* store may propose.                                                         *)
LEMMA SuccessorListed ==
    ASSUME NEW s \in Session, NEW new, is_exact_successor_of(new, s)
    PROVE  new \in Successors(s)
BY DEF is_exact_successor_of, Successors, CanMarkDocumentsStaged, CanMarkPublished

(* A worker inside a call names a session. *)
LEMMA CallNamesSession ==
    ASSUME LeaseInv, NEW w \in Workers, pc[w] # "idle"
    PROVE  call[w] \in Call /\ Sid(w) \in Sessions /\ call[w].request \in Requests
BY DEF LeaseInv, WorkerTypes, Lease, Call, Sid

(* A working worker has a coherent session in memory, which is the stored     *)
(* one, and holds its lock.                                                   *)
LEMMA WorkingSession ==
    ASSUME LeaseInv, NEW w \in Workers, pc[w] \in Working
    PROVE  /\ Sid(w) \in Sessions /\ lock[Sid(w)] = w
           /\ mem[w] = state[Sid(w)] /\ mem[w] # NoSession /\ mem[w] \in Session
           /\ Coherent(mem[w])
<1>1. Sid(w) \in Sessions
  BY CallNamesSession DEF Working, Unlocked
<1> QED BY <1>1 DEF LeaseInv, Lease, WorkerTypes, Working, StoreInv, SessionsCoherent

(* What _persist_btd_successor does from a label where the session is loaded. *)
LEMMA PersistEffect ==
    ASSUME LeaseInv, NEW w \in Workers, NEW new, NEW l, pc[w] \in Working,
           Persist(w, new, l)
    PROVE  \/ /\ HoldsLease(w, Sid(w)) /\ is_exact_successor_of(new, mem[w])
              /\ new \in Session /\ Coherent(new)
              /\ new.request = mem[w].request /\ new.txn = mem[w].txn
              /\ state' = [state EXCEPT ![Sid(w)] = new]
              /\ mem' = [mem EXCEPT ![w] = new] /\ pc' = [pc EXCEPT ![w] = l]
           \/ UNCHANGED <<state, mem>> /\ pc' = [pc EXCEPT ![w] = "release"]
BY WorkingSession, SuccessorCoherent DEF Persist, CasAccepts, StateSetTo, Goto

(* A step that ends in _persist_btd_successor persists one successor, or goes *)
(* on to report a failure with nothing written.                               *)
LEMMA PersistingEffect ==
    ASSUME LeaseInv, NEW w \in Workers, Persisting(w)
    PROVE  /\ pc[w] \in Working /\ pc[w] # "discard_spool"
           /\ UNCHANGED <<claims, lock, expired, call, got, spoolVars, sinkVars, bankVars>>
           /\ pos' = pos \/ pos' = [pos EXCEPT ![w] = 0]
           /\ \/ \E new : \E l \in {"release"} \cup (Working \ {"put", "initialize"}) :
                    Persist(w, new, l)
              \/ \E l \in {"fail", "recv_release"} :
                    UNCHANGED <<state, mem>> /\ pc' = [pc EXCEPT ![w] = l]
<1> USE DEF Working, Labels, Unlocked, Loading, At, Goto, PersistOnly, spoolVars, sinkVars,
bankVars, storeVars
<1>1. CASE RecordSegment(w)
  BY <1>1 DEF RecordSegment
<1>2. CASE VerifySpool(w)
  BY <1>2 DEF VerifySpool
<1>3. CASE FailSession(w) \/ PendingFound(w) \/ RecordUnpacked(w) \/ RecordStaged(w)
  BY <1>3 DEF FailSession, PendingFound, AfterAmbiguity, RecordUnpacked, RecordStaged
<1>4. CASE IntendReceipt(w) \/ ReceiptAnswered(w) \/ ReceiptUnanswered(w) \/ AcceptReceipt(w)
  BY <1>4 DEF IntendReceipt, ReceiptAnswered, ReceiptUnanswered, AcceptReceipt
<1>5. CASE RecordPublished(w) \/ FinishPublished(w) \/ FinishNegative(w)
  BY <1>5 DEF RecordPublished, FinishPublished, FinishNegative
<1> QED BY <1>1, <1>2, <1>3, <1>4, <1>5 DEF Persisting

(* _persist_btd_successor is a compare_and_swap of the store, or changes      *)
(* nothing in it.                                                             *)
LEMMA PersistUsesStore ==
    ASSUME LeaseInv, NEW w \in Workers, NEW new, NEW l, pc[w] \in Working,
           Persist(w, new, l), UNCHANGED <<claims, lock, expired>>
    PROVE  [StoreNext]_storeVars
<1> DEFINE s == Sid(w)
<1>1. s \in Sessions /\ mem[w] = state[s] /\ mem[w] # NoSession /\ mem[w] \in Session
  BY WorkingSession
<1>2. CASE CasAccepts(w, s, mem[w], new)
  <2>1. state' = [state EXCEPT ![s] = new] /\ is_exact_successor_of(new, state[s])
    BY <1>1, <1>2 DEF Persist, CasAccepts, StateSetTo
  <2>2. new \in Proposals(s)
    BY <1>1, <2>1, SuccessorListed DEF Proposals
  <2>3. compare_and_swap(w, s, state[s], new)
    BY <1>1, <1>2, <2>1 DEF compare_and_swap, StateSetTo
  <2> QED BY <1>1, <2>2, <2>3 DEF StoreNext, WorkerStep
<1>3. CASE ~CasAccepts(w, s, mem[w], new)
  BY <1>3 DEF Persist, storeVars
<1> QED BY <1>2, <1>3

(* Local steps leave the store and the call alone.                            *)
LEMMA LocalUsesNoStore ==
    ASSUME NEW w \in Workers, Local(w)
    PROVE  UNCHANGED storeVars /\ UNCHANGED call
<1>1. CASE \/ ResumeSession(w) \/ RequestInitialization(w) \/ RequestSegment(w)
           \/ ResponseRefused(w) \/ RecoverBootstrap(w) \/ VerificationFails(w)
           \/ LoadSession(w) \/ CloseTerminal(w) \/ RefusePhase(w) \/ AmbiguityFound(w)
  BY <1>1 DEF ResumeSession, RequestInitialization, RequestSegment, ResponseRefused,
     RecoverBootstrap, VerificationFails, LoadSession, CloseTerminal, RefusePhase,
     AmbiguityFound
<1>2. CASE \/ NegativeFound(w) \/ LoadDocuments(w) \/ ReloadAmbiguous(w)
           \/ PutSegment(w) \/ DiscardSpool(w) \/ Stop(w) \/ ProcessingFails(w)
           \/ BeginDocument(w) \/ StageDocument(w) \/ PublishDocument(w)
           \/ DiscardStages(w) \/ PostReceipt(w)
  BY <1>2 DEF NegativeFound, LoadDocuments, ReloadAmbiguous, PutSegment, DiscardSpool,
     Stop, ProcessingFails, BeginDocument, StageDocument, PublishDocument,
     DiscardStages, PostReceipt
<1> QED BY <1>1, <1>2 DEF Local

(* Every step of a download is a step of the session store, or none of its    *)
(* steps.                                                                     *)
LEMMA StepUsesStore ==
    ASSUME LeaseInv, Next
    PROVE  [StoreNext]_storeVars
<1> USE StoreAssumption
<1>1. ASSUME NEW w \in Workers, Calls(w)
      PROVE  [StoreNext]_storeVars
  <2>1. /\ pc[w] = "idle" /\ expired' = expired \ {w} /\ UNCHANGED <<state, claims, lock>>
    BY <1>1 DEF Calls, StartDownload, StartResolve
  <2>2. \A s \in Sessions : lock[s] # w
    BY <2>1 DEF LeaseInv, Lease, Unlocked
  <2>3. CASE w \in expired
    BY <2>1, <2>2, <2>3 DEF StoreNext, WorkerStep, NewDeadline
  <2>4. CASE w \notin expired
    BY <2>1, <2>4 DEF storeVars
  <2> QED BY <2>3, <2>4
<1>2. ASSUME NEW w \in Workers, AcquireLease(w)
      PROVE  [StoreNext]_storeVars
  <2>1. pc[w] # "idle" /\ UNCHANGED <<state, claims, expired>>
    BY <1>2 DEF AcquireLease, At
  <2>2. Sid(w) \in Sessions
    BY <2>1, CallNamesSession
  <2>3. UNCHANGED lock \/ (CanAcquire(w, Sid(w)) /\ lock' = [lock EXCEPT ![Sid(w)] = w])
    BY <1>2 DEF AcquireLease
  <2> QED BY <2>1, <2>2, <2>3 DEF StoreNext, WorkerStep, acquire_lease, storeVars
<1>3. ASSUME NEW w \in Workers, ReleaseLease(w)
      PROVE  [StoreNext]_storeVars
  <2>1. /\ pc[w] \in {"recv_release", "release"} /\ UNCHANGED <<state, claims, expired>>
        /\ lock' = [lock EXCEPT ![Sid(w)] = NoWorker]
    BY <1>3 DEF ReleaseLease, At
  <2>2. Sid(w) \in Sessions /\ lock[Sid(w)] = w
    BY <2>1, CallNamesSession DEF LeaseInv, Lease, Unlocked
  <2> QED BY <2>1, <2>2 DEF StoreNext, WorkerStep, release_lease
<1>4. ASSUME NEW w \in Workers, Expire(w)
      PROVE  [StoreNext]_storeVars
  BY <1>4 DEF Expire, StoreNext, WorkerStep, DeadlinePasses
<1>5. ASSUME NEW w \in Workers, Local(w)
      PROVE  [StoreNext]_storeVars
  BY <1>5, LocalUsesNoStore
<1>6. ASSUME NEW w \in Workers, Persisting(w)
      PROVE  [StoreNext]_storeVars
  BY <1>6, PersistingEffect, PersistUsesStore DEF storeVars
<1>7. ASSUME NEW w \in Workers, StartSession(w)
      PROVE  [StoreNext]_storeVars
  <2>1. /\ pc[w] = "recv_load" /\ state[Sid(w)] = NoSession /\ UNCHANGED <<claims, lock, expired>>
        /\ \/ UNCHANGED state
           \/ /\ CasAccepts(w, Sid(w), mem[w], start(call[w].request))
              /\ StateSetTo(Sid(w), start(call[w].request))
    BY <1>7 DEF StartSession, Persist
  <2>2. Sid(w) \in Sessions /\ call[w].request \in Requests /\ mem[w] = NoSession
    BY <2>1, CallNamesSession DEF LeaseInv, Lease, Loading
  <2>3. start(call[w].request) \in Proposals(Sid(w))
    BY <2>1, <2>2 DEF Proposals
  <2> QED BY <2>1, <2>2, <2>3 DEF StoreNext, WorkerStep, compare_and_swap, storeVars
<1>8. ASSUME NEW w \in Workers, InitializeTransaction(w)
      PROVE  [StoreNext]_storeVars
  <2> DEFINE s == Sid(w)
             t == got[w]
  <2>1. /\ pc[w] = "initialize" /\ UNCHANGED <<lock, expired>>
        /\ \/ UNCHANGED <<state, claims>>
           \/ /\ InitializeAccepts(w, s, mem[w], t, Total[t]) /\ CanClaim(t)
              /\ claims' = claims \cup {t} /\ StateSetTo(s, initialize(mem[w], t, Total[t]))
    BY <1>8 DEF InitializeTransaction
  <2>2. s \in Sessions /\ mem[w] = state[s] /\ t \in Txns /\ Total[t] \in 1..MaxSegments
    BY <2>1, WorkingSession, BtdAssumption DEF Working, Labels, Unlocked, Loading, LeaseInv, Lease
  <2> QED BY <2>1, <2>2 DEF StoreNext, WorkerStep, initialize_transaction, storeVars
<1>9. ASSUME NEW w \in Workers, DeleteSession(w)
      PROVE  [StoreNext]_storeVars
  <2>1. /\ pc[w] = "delete" /\ UNCHANGED <<claims, lock, expired>>
        /\ \/ UNCHANGED state
           \/ DeleteAccepts(w, Sid(w), mem[w]) /\ StateSetTo(Sid(w), NoSession)
    BY <1>9 DEF DeleteSession
  <2>2. Sid(w) \in Sessions /\ mem[w] = state[Sid(w)]
    BY <2>1, WorkingSession DEF Working, Labels, Unlocked, Loading
  <2> QED BY <2>1, <2>2 DEF StoreNext, WorkerStep, delete, storeVars
<1>10. ASSUME NEW w \in Workers, Crashing(w)
      PROVE  [StoreNext]_storeVars
  <2>1. UNCHANGED <<state, claims, expired>> /\ lock' = LocksFreedBy(w)
    BY <1>10 DEF Crashing, Crash, CrashDiscarding, CrashPutting, ProcessLost
  <2>2. CASE \E s \in Sessions : lock[s] = w
    BY <2>1, <2>2 DEF StoreNext, WorkerStep, ProcessExits
  <2>3. CASE \A s \in Sessions : lock[s] # w
    <3>1. lock' = lock
      BY <2>1, <2>3 DEF LocksFreedBy, LeaseInv, StoreInv, StoreTypeOK
    <3> QED BY <2>1, <3>1 DEF storeVars
  <2> QED BY <2>2, <2>3
<1>11. ASSUME NEW w \in Workers, CrashInitializing(w)
      PROVE  [StoreNext]_storeVars
  <2> DEFINE s == Sid(w)
             t == got[w]
  <2>1. /\ pc[w] = "initialize" /\ UNCHANGED <<state, expired>> /\ lock' = LocksFreedBy(w)
        /\ InitializeAccepts(w, s, mem[w], t, Total[t]) /\ CanClaim(t)
        /\ claims' = claims \cup {t}
    BY <1>11 DEF CrashInitializing, ProcessLost
  <2>2. s \in Sessions /\ mem[w] = state[s] /\ t \in Txns /\ Total[t] \in 1..MaxSegments
    BY <2>1, WorkingSession, BtdAssumption DEF Working, Labels, Unlocked, Loading, LeaseInv, Lease
  <2> QED BY <2>1, <2>2 DEF StoreNext, WorkerStep, InitializeInterrupted
<1>12. ASSUME NEW t \in Txns, BankSettles(t)
      PROVE  [StoreNext]_storeVars
  BY <1>12 DEF BankSettles
<1>13. (\E w \in Workers : WorkerNext(w)) \/ (\E t \in Txns : BankSettles(t))
  BY DEF Next, Undisturbed, WorkerNext
<1> QED
  BY <1>1, <1>2, <1>3, <1>4, <1>5, <1>6, <1>7, <1>8, <1>9, <1>10, <1>11, <1>12, <1>13, StepKinds

-----------------------------------------------------------------------------
(* A step of w leaves alone what belongs to other workers. *)
OthersAlone(w) ==
    /\ \A v \in Workers \ {w} :
          /\ pc'[v] = pc[v] /\ call'[v] = call[v] /\ mem'[v] = mem[v]
          /\ got'[v] = got[v] /\ pos'[v] = pos[v]
    /\ \A v \in Workers \ {w}, s \in Sessions : lock'[s] = v <=> lock[s] = v
    /\ \A s \in Sessions : lock[s] # w => state'[s] = state[s] /\ spool'[s] = spool[s]

(* No interference between workers: a step of w leaves alone the memory of    *)
(* the others, and the state, lock and spool of every session that w has not  *)
(* locked.                                                                    *)
LEMMA StepOthersAlone ==
    ASSUME LeaseInv, NEW w \in Workers, WorkerNext(w)
    PROVE  OthersAlone(w) /\ WorkerTypes'
<1> USE DEF Goto, At, OthersAlone, WorkerTypes
<1>t. /\ WorkerTypes
      /\ state \in [Sessions -> Session \cup {NoSession}]
      /\ lock \in [Sessions -> Workers \cup {NoWorker}]
  BY DEF LeaseInv, StoreInv, StoreTypeOK
<1>1. CASE Calls(w)
  <2>1. ASSUME NEW s \in Sessions, NEW r \in Requests, StartDownload(w, s, r)
        PROVE  OthersAlone(w) /\ WorkerTypes'
    BY <1>t, <2>1 DEF StartDownload, Labels, Call, spoolVars
  <2>2. ASSUME NEW s \in Sessions, NEW r \in Requests, StartResolve(w, s, r)
        PROVE  OthersAlone(w) /\ WorkerTypes'
    <3>1. TxnOf(s) \in Txns \cup {NoTxn} /\ (bank[TxnOf(s)].fate = "recorded") \in BOOLEAN
      BY <1>t DEF TxnOf, Session
    <3> QED BY <1>t, <2>2, <3>1 DEF StartResolve, Labels, Call, spoolVars
  <2> QED BY <1>1, <2>1, <2>2 DEF Calls
<1>2. CASE AcquireLease(w)
  BY <1>t, <1>2, StoreAssumption DEF AcquireLease, Labels, spoolVars, CanAcquire
<1>3. CASE ReleaseLease(w)
  <2>1. lock[Sid(w)] = w
    BY <1>3, CallNamesSession DEF ReleaseLease, LeaseInv, Lease, Unlocked
  <2> QED BY <1>t, <1>3, <2>1, StoreAssumption, SessionAssumption DEF ReleaseLease, Labels,
      spoolVars
<1>4. CASE Expire(w)
  BY <1>t, <1>4 DEF Expire, workerVars, spoolVars
<1>5. CASE Local(w)
  <2>0. UNCHANGED <<state, lock, call>>
    BY <1>5, LocalUsesNoStore DEF storeVars
  <2>1. CASE \/ ResumeSession(w) \/ LoadSession(w)
    <3>1. state[Sid(w)] \in Session \cup {NoSession}
      BY <1>t, <2>1, CallNamesSession DEF ResumeSession, LoadSession
    <3>2. UNCHANGED <<got, pos, spool>> /\ mem' = [mem EXCEPT ![w] = state[Sid(w)]]
          /\ \E l \in Labels : pc' = [pc EXCEPT ![w] = l]
      BY <2>1 DEF ResumeSession, LoadSession, Resolution, Labels, spoolVars
    <3> QED BY <1>t, <2>0, <3>1, <3>2
  <2>2. CASE \/ RequestInitialization(w) \/ RequestSegment(w) \/ RecoverBootstrap(w)
    <3>1. /\ Sid(w) \in Sessions /\ mem[w].txn \in Txns \cup {NoTxn}
          /\ spool[Sid(w)][1] \in Txns \cup {NoTxn}
      <4>1. pc[w] \in Working
        BY <2>2 DEF RequestInitialization, RequestSegment, RecoverBootstrap,
           ResponseDue, Labels, Working, Unlocked, Loading
      <4>2. 1 \in Segments
        BY SessionAssumption DEF Segments
      <4> QED BY <1>t, <4>1, <4>2, WorkingSession DEF Session
    <3>2. UNCHANGED <<mem, pos, spool>>
          /\ \E x \in Txns \cup {mem[w].txn, spool[Sid(w)][1]} : got' = [got EXCEPT ![w] = x]
          /\ \E l \in Labels : pc' = [pc EXCEPT ![w] = l]
      BY <2>2 DEF RequestInitialization, RequestSegment, RecoverBootstrap, Labels, spoolVars
    <3> QED BY <1>t, <2>0, <3>1, <3>2
  <2>3. CASE \/ ResponseRefused(w) \/ VerificationFails(w)
             \/ CloseTerminal(w) \/ RefusePhase(w) \/ AmbiguityFound(w)
             \/ NegativeFound(w) \/ LoadDocuments(w) \/ ReloadAmbiguous(w)
             \/ Stop(w) \/ BeginDocument(w) \/ DiscardStages(w) \/ PostReceipt(w)
    <3>1. UNCHANGED <<got, pos, mem, spool>> /\ \E l \in Labels : pc' = [pc EXCEPT ![w] = l]
      BY <2>3 DEF ResponseRefused, VerificationFails, CloseTerminal, RefusePhase,
         AmbiguityFound, AfterAmbiguity, NegativeFound, LoadDocuments, ReloadAmbiguous,
         Stop, BeginDocument, DiscardStages, PostReceipt, Labels, spoolVars
    <3> QED BY <1>t, <2>0, <3>1
  <2>4. CASE ProcessingFails(w) \/ StageDocument(w) \/ PublishDocument(w)
    <3>1. /\ UNCHANGED <<got, mem, spool>>
          /\ \E n \in {0, pos[w] + 1} : pos' = pos \/ pos' = [pos EXCEPT ![w] = n]
          /\ pc' = pc \/ \E l \in Labels : pc' = [pc EXCEPT ![w] = l]
      BY <2>4 DEF ProcessingFails, StageDocument, PublishDocument, Labels, spoolVars
    <3> QED BY <1>t, <2>0, <3>1
  <2>5. CASE PutSegment(w)
    <3>1. /\ pc[w] \in Working /\ UNCHANGED <<mem, pos>>
          /\ spool' = spool \/ spool' = [spool EXCEPT ![Sid(w)][mem[w].next] = got[w]]
          /\ \E x \in {got[w], NoTxn} : got' = [got EXCEPT ![w] = x]
          /\ \E l \in Labels : pc' = [pc EXCEPT ![w] = l]
      BY <2>5 DEF PutSegment, Labels, Working, Unlocked, Loading
    <3>2. lock[Sid(w)] = w /\ Sid(w) \in Sessions
      BY <3>1, WorkingSession
    <3>3. spool[Sid(w)] \in [Segments -> Txns \cup {NoTxn}] /\ got[w] \in Txns \cup {NoTxn}
      BY <1>t, <3>2
    <3>4. [spool[Sid(w)] EXCEPT ![mem[w].next] = got[w]] \in [Segments -> Txns \cup {NoTxn}]
      BY <3>3
    <3>5. \E x \in [Segments -> Txns \cup {NoTxn}] :
             spool' = spool \/ spool' = [spool EXCEPT ![Sid(w)] = x]
      BY <3>1, <3>4
    <3> QED BY <1>t, <2>0, <3>1, <3>2, <3>3, <3>5
  <2>6. CASE DiscardSpool(w)
    <3>1. /\ pc[w] \in Working /\ UNCHANGED <<mem, pos, got>>
          /\ spool' = [spool EXCEPT ![Sid(w)] = EmptySpool]
          /\ \E l \in Labels : pc' = [pc EXCEPT ![w] = l]
      BY <2>6 DEF DiscardSpool, Labels, Working, Unlocked, Loading
    <3>2. lock[Sid(w)] = w /\ Sid(w) \in Sessions
      BY <3>1, WorkingSession
    <3> QED BY <1>t, <2>0, <3>1, <3>2 DEF EmptySpool
  <2> QED BY <1>5, <2>1, <2>2, <2>3, <2>4, <2>5, <2>6 DEF Local
<1>6. CASE Persisting(w)
  <2>1. /\ pc[w] \in Working /\ UNCHANGED <<lock, call, got, spool>>
        /\ pos' = pos \/ pos' = [pos EXCEPT ![w] = 0]
        /\ \/ \E new : \E l \in Labels : Persist(w, new, l)
           \/ \E l \in Labels : UNCHANGED <<state, mem>> /\ pc' = [pc EXCEPT ![w] = l]
    BY <1>6, PersistingEffect DEF Labels, Working, spoolVars
  <2>2. CASE UNCHANGED <<state, mem>> /\ \E l \in Labels : pc' = [pc EXCEPT ![w] = l]
    BY <1>t, <2>1, <2>2
  <2>3. ASSUME NEW new, NEW l \in Labels, Persist(w, new, l)
        PROVE  OthersAlone(w) /\ WorkerTypes'
    <3>1. /\ lock[Sid(w)] = w /\ Sid(w) \in Sessions
          /\ state' = state \/ state' = [state EXCEPT ![Sid(w)] = new]
          /\ mem' = mem \/ (new \in Session /\ mem' = [mem EXCEPT ![w] = new])
          /\ \E k \in Labels : pc' = [pc EXCEPT ![w] = k]
      BY <2>1, <2>3, PersistEffect, WorkingSession DEF Labels
    <3> QED BY <1>t, <2>1, <3>1
  <2> QED BY <2>1, <2>2, <2>3
<1>7. CASE StartSession(w)
  <2> DEFINE new == start(call[w].request)
  <2>1. /\ lock[Sid(w)] = w /\ Sid(w) \in Sessions /\ new \in Session
    BY <1>7, CallNamesSession, StartCoherent DEF StartSession, LeaseInv, Lease, Unlocked
  <2>2. /\ UNCHANGED <<lock, call, got, pos, spool>>
        /\ state' = state \/ state' = [state EXCEPT ![Sid(w)] = new]
        /\ mem' = mem \/ mem' = [mem EXCEPT ![w] = new]
        /\ \E k \in Labels : pc' = [pc EXCEPT ![w] = k]
    BY <1>7 DEF StartSession, Persist, StateSetTo, Labels, spoolVars
  <2> HIDE DEF new
  <2> QED BY <1>t, <2>1, <2>2
<1>8. CASE InitializeTransaction(w)
  <2> DEFINE new == initialize(mem[w], got[w], Total[got[w]])
  <2>1. /\ lock[Sid(w)] = w /\ Sid(w) \in Sessions /\ mem[w] \in Session /\ Coherent(mem[w])
        /\ got[w] \in Txns /\ Total[got[w]] \in 1..MaxSegments /\ mem[w] = state[Sid(w)]
    BY <1>8, WorkingSession, BtdAssumption DEF InitializeTransaction, LeaseInv, Lease,
       Labels, Working, Unlocked, Loading
  <2>2. /\ UNCHANGED <<lock, call, pos, spool>> /\ got' = [got EXCEPT ![w] = NoTxn]
        /\ \E k \in Labels : pc' = [pc EXCEPT ![w] = k]
        /\ \/ UNCHANGED <<state, mem>>
           \/ /\ state' = [state EXCEPT ![Sid(w)] = new] /\ mem' = [mem EXCEPT ![w] = new]
              /\ state[Sid(w)].phase = "new"
    BY <1>8 DEF InitializeTransaction, StateSetTo, InitializeAccepts, CanInitialize, Labels,
       spoolVars
  <2>3. mem' = mem \/ new \in Session
    BY <2>1, <2>2, InitializeCoherent
  <2> HIDE DEF new
  <2> QED BY <1>t, <2>1, <2>2, <2>3
<1>9. CASE DeleteSession(w)
  <2>1. /\ lock[Sid(w)] = w /\ Sid(w) \in Sessions
    BY <1>9, WorkingSession DEF DeleteSession, Labels, Working, Unlocked, Loading
  <2>2. /\ UNCHANGED <<lock, call, mem, got, pos, spool>>
        /\ state' = state \/ state' = [state EXCEPT ![Sid(w)] = NoSession]
        /\ \E k \in Labels : pc' = [pc EXCEPT ![w] = k]
    BY <1>9 DEF DeleteSession, StateSetTo, Labels, spoolVars
  <2> QED BY <1>t, <2>1, <2>2
<1>10. CASE Crashing(w) \/ CrashInitializing(w)
  <2>1. /\ ProcessLost(w)
        /\ \/ spool' = spool
           \/ pc[w] \in Working /\ \E x \in [Segments -> Txns \cup {NoTxn}] :
                 spool' = [spool EXCEPT ![Sid(w)] = x]
    <3>1. CASE Crash(w) \/ CrashPutting(w) \/ CrashInitializing(w)
      BY <3>1 DEF Crash, CrashPutting, CrashInitializing, spoolVars
    <3>2. CASE CrashDiscarding(w)
      <4>1. CASE pc[w] = "discard_spool"
        <5>1. PICK kept \in SUBSET InSpool(Sid(w)) :
                spool' = [spool EXCEPT ![Sid(w)] =
                            [k \in Segments |-> IF k \in kept THEN @[k] ELSE NoTxn]]
          BY <3>2, <4>1 DEF CrashDiscarding
        <5>2. pc[w] \in Working
          BY <4>1 DEF Labels, Working, Unlocked, Loading
        <5>3. spool[Sid(w)] \in [Segments -> Txns \cup {NoTxn}]
          BY <1>t, <5>2, WorkingSession
        <5> QED BY <3>2, <5>1, <5>2, <5>3 DEF CrashDiscarding
      <4>2. CASE pc[w] # "discard_spool"
        BY <3>2, <4>2 DEF CrashDiscarding, spoolVars
      <4> QED BY <4>1, <4>2
    <3> QED BY <1>10, <3>1, <3>2 DEF Crashing
  <2>2. pc[w] \in Working => lock[Sid(w)] = w
    BY WorkingSession
  <2> QED BY <1>t, <2>1, <2>2, StoreAssumption DEF ProcessLost, LocksFreedBy, Labels
<1> QED
  BY <1>1, <1>2, <1>3, <1>4, <1>5, <1>6, <1>7, <1>8, <1>9, <1>10, StepKinds

(* What a worker knows of its session survives the steps of the others.       *)
LEMMA OthersKeepLease ==
    ASSUME LeaseInv, NEW w \in Workers, OthersAlone(w), NEW v \in Workers \ {w}
    PROVE  Lease(v)'
<1>1. /\ pc'[v] = pc[v] /\ call'[v] = call[v] /\ mem'[v] = mem[v] /\ got'[v] = got[v]
      /\ Sid(v)' = Sid(v)
      /\ \A s \in Sessions : lock'[s] = v <=> lock[s] = v
  BY DEF OthersAlone, Sid
<1>2. pc[v] \in Working => state'[Sid(v)] = state[Sid(v)]
  BY WorkingSession DEF OthersAlone
<1>3. Lease(v)
  BY DEF LeaseInv
<1> QED BY <1>1, <1>2, <1>3 DEF Lease

(* Each step of a worker itself, crashes and expiry included, leads to a      *)
(* label whose knowledge holds.                                               *)
LEMMA StepKeepsLease ==
    ASSUME LeaseInv, NEW w \in Workers, WorkerNext(w)
    PROVE  Lease(w)'
<1> USE DEF Goto, At
<1>t. /\ WorkerTypes /\ Lease(w)
      /\ state \in [Sessions -> Session \cup {NoSession}]
      /\ lock \in [Sessions -> Workers \cup {NoWorker}]
  BY DEF LeaseInv, StoreInv, StoreTypeOK
<1>1. CASE Calls(w)
  <2>1. PICK s \in Sessions, r \in Requests : StartDownload(w, s, r) \/ StartResolve(w, s, r)
    BY <1>1 DEF Calls
  <2>2. /\ pc[w] = "idle" /\ UNCHANGED <<lock, mem>>
        /\ pc'[w] \in {"recv_lock", "lock"} /\ call'[w].op \in {"download", "resolve"}
    BY <1>t, <2>1 DEF StartDownload, StartResolve, WorkerTypes
  <2>3. call'[w] # NoCall
    BY <2>2 DEF NoCall
  <2> QED BY <1>t, <2>2, <2>3 DEF Lease, Unlocked, Loading, Working, Labels
<1>2. CASE AcquireLease(w)
  <2>1. Sid(w) \in Sessions
    BY <1>2, CallNamesSession DEF AcquireLease
  <2>2. /\ pc[w] \in {"recv_lock", "lock"} /\ mem' = mem
        /\ \/ /\ call' = call /\ lock' = [lock EXCEPT ![Sid(w)] = w] /\ pc'[w] \in Loading
           \/ /\ call'[w] = NoCall /\ lock' = lock /\ pc'[w] = "idle"
    BY <1>t, <1>2 DEF AcquireLease, WorkerTypes, Loading
  <2> QED BY <1>t, <2>1, <2>2 DEF Lease, Unlocked, Loading, Working, Labels, WorkerTypes, Sid
<1>3. CASE ReleaseLease(w)
  <2>1. /\ pc[w] \in {"recv_release", "release"} /\ mem'[w] = NoSession
        /\ lock' = [lock EXCEPT ![Sid(w)] = NoWorker]
        /\ \/ call' = call /\ pc'[w] = "lock"
           \/ call'[w] = NoCall /\ pc'[w] = "idle"
    BY <1>t, <1>3 DEF ReleaseLease, WorkerTypes
  <2> QED BY <1>t, <2>1, StoreAssumption DEF Lease, Unlocked, Loading, Working, Labels,
      WorkerTypes, Sid
<1>4. CASE Expire(w)
  BY <1>t, <1>4 DEF Expire, workerVars, Lease, Sid
<1>5. CASE Crashing(w) \/ CrashInitializing(w)
  <2>1. /\ pc'[w] = "idle" /\ call'[w] = NoCall /\ mem'[w] = NoSession /\ lock' = LocksFreedBy(w)
    BY <1>t, <1>5 DEF Crashing, Crash, CrashDiscarding, CrashPutting, CrashInitializing,
       ProcessLost, WorkerTypes
  <2> QED BY <1>t, <2>1, StoreAssumption DEF LocksFreedBy, Lease, Unlocked, Loading, Working,
      Labels
<1> DEFINE Kept == /\ pc[w] \notin Unlocked /\ pc'[w] \in {"release"} \cup Working
                   /\ UNCHANGED <<lock, call>>
                   /\ pc'[w] \in Working => mem'[w] # NoSession /\ mem'[w] = state'[Sid(w)]
                   /\ pc'[w] \in {"put", "initialize"} => got'[w] \in Txns
<1>a. Kept => Lease(w)'
  BY <1>t DEF Lease, Unlocked, Loading, Working, Labels, Sid
<1> HIDE DEF Kept
<1>6. CASE Local(w)
  <2>0. UNCHANGED <<state, lock, call>>
    BY <1>6, LocalUsesNoStore DEF storeVars
  <2>1. CASE ResumeSession(w) \/ LoadSession(w)
    <3>1. /\ pc[w] \in Loading /\ mem'[w] = state[Sid(w)]
          /\ pc'[w] \in {"release"} \cup (Working \ {"put", "initialize"})
          /\ pc'[w] # "release" => state[Sid(w)] # NoSession
      BY <1>t, <2>1 DEF ResumeSession, LoadSession, Usable, Resolution, Working, Labels,
         Unlocked, Loading, WorkerTypes
    <3> QED BY <1>a, <2>0, <3>1 DEF Kept, Loading, Unlocked, Working
  <2>2. CASE \/ RequestInitialization(w) \/ RequestSegment(w) \/ RecoverBootstrap(w)
    <3>1. /\ pc[w] = "receive" /\ mem' = mem
          /\ \/ mem[w].phase # "receiving_segments" /\ got'[w] \in Txns
             \/ mem[w].phase = "receiving_segments" /\ got'[w] = mem[w].txn
             \/ spool[Sid(w)][1] # NoTxn /\ got'[w] = spool[Sid(w)][1]
          /\ pc'[w] \in Working
      BY <1>t, <2>2 DEF RequestInitialization, RequestSegment, RecoverBootstrap,
         ResponseDue, Working, Labels, Unlocked, Loading, WorkerTypes
    <3>2. /\ pc[w] \in Working /\ mem[w] \in Session /\ Coherent(mem[w])
          /\ mem[w] = state[Sid(w)] /\ mem[w] # NoSession
          /\ spool[Sid(w)][1] \in Txns \cup {NoTxn}
      <4>1. pc[w] \in Working /\ 1 \in Segments
        BY <3>1, SessionAssumption DEF Segments, Labels, Working, Unlocked, Loading
      <4> QED BY <1>t, <4>1, WorkingSession DEF WorkerTypes
    <3>3. mem[w].phase = "receiving_segments" => mem[w].txn \in Txns
      BY <3>2 DEF Coherent, Session
    <3> QED BY <1>a, <2>0, <3>1, <3>2, <3>3 DEF Kept, Unlocked
  <2>3. CASE \/ ResponseRefused(w) \/ VerificationFails(w)
             \/ CloseTerminal(w) \/ RefusePhase(w) \/ AmbiguityFound(w)
             \/ NegativeFound(w) \/ LoadDocuments(w) \/ ReloadAmbiguous(w)
             \/ Stop(w) \/ BeginDocument(w) \/ DiscardStages(w) \/ PostReceipt(w)
    <3>1. /\ pc[w] \in Working /\ mem' = mem
          /\ pc'[w] \in {"release"} \cup (Working \ {"put", "initialize"})
      BY <1>t, <2>3 DEF ResponseRefused, ResponseDue, VerificationFails, CloseTerminal,
         RefusePhase,
         AmbiguityFound, AfterAmbiguity, NegativeFound, LoadDocuments, ReloadAmbiguous,
         Stop, PublicationDue, BeginDocument, DiscardStages, PostReceipt,
         Working, Labels, Unlocked, Loading, WorkerTypes
    <3> QED BY <1>t, <1>a, <2>0, <3>1 DEF Kept, Lease, Unlocked, Working
  <2>4. CASE \/ ProcessingFails(w) \/ StageDocument(w) \/ PublishDocument(w) \/ DiscardSpool(w)
    <3>1. /\ pc[w] \in Working /\ mem' = mem
          /\ pc'[w] \in {"release"} \cup (Working \ {"put", "initialize"})
      BY <1>t, <2>4 DEF ProcessingFails, StageDocument, PublishDocument, PublicationDue,
         DiscardSpool, Working, Labels, Unlocked, Loading, WorkerTypes
    <3> QED BY <1>t, <1>a, <2>0, <3>1 DEF Kept, Lease, Unlocked, Working
  <2>5. CASE PutSegment(w)
    <3>1. /\ pc[w] = "put" /\ mem' = mem
          /\ pc'[w] \in {"release", "receive", "initialize"}
          /\ pc'[w] = "initialize" => got'[w] = got[w]
      BY <1>t, <2>5 DEF PutSegment, WorkerTypes
    <3> QED BY <1>t, <1>a, <2>0, <3>1 DEF Kept, Lease, Unlocked, Loading, Working, Labels
  <2> QED BY <1>6, <2>1, <2>2, <2>3, <2>4, <2>5 DEF Local
<1>7. CASE Persisting(w)
  <2>1. /\ pc[w] \in Working /\ UNCHANGED <<lock, call>>
        /\ \/ \E new : \E l \in {"release"} \cup (Working \ {"put", "initialize"}) : Persist(w, new, l)
           \/ \E l \in {"fail", "recv_release"} : UNCHANGED <<state, mem>> /\ pc' = [pc EXCEPT ![w] = l]
    BY <1>7, PersistingEffect
  <2>2. /\ Sid(w) \in Sessions /\ mem[w] # NoSession /\ mem[w] = state[Sid(w)]
    BY <2>1, WorkingSession
  <2>3. CASE \E l \in {"fail", "recv_release"} : UNCHANGED <<state, mem>> /\ pc' = [pc EXCEPT ![w] = l]
    <3>1. pc'[w] \in {"fail", "recv_release"}
      BY <1>t, <2>3 DEF WorkerTypes
    <3> QED BY <1>a, <2>1, <2>2, <2>3, <3>1 DEF Kept, Unlocked, Loading, Working, Labels
  <2>4. ASSUME NEW new, NEW l \in {"release"} \cup (Working \ {"put", "initialize"}), Persist(w, new, l)
        PROVE  Lease(w)'
    <3>1. CASE UNCHANGED <<state, mem>> /\ pc' = [pc EXCEPT ![w] = "release"]
      <4>1. pc'[w] = "release"
        BY <1>t, <3>1 DEF WorkerTypes
      <4> QED BY <1>a, <2>1, <4>1 DEF Kept, Unlocked, Working
    <3>2. CASE /\ new \in Session /\ state' = [state EXCEPT ![Sid(w)] = new]
               /\ mem' = [mem EXCEPT ![w] = new] /\ pc' = [pc EXCEPT ![w] = l]
      <4>1. pc'[w] = l /\ mem'[w] = new /\ state'[Sid(w)] = new /\ new # NoSession
        BY <1>t, <2>2, <3>2, StoreAssumption DEF WorkerTypes
      <4> QED BY <1>a, <2>1, <4>1 DEF Kept, Unlocked, Working
    <3> QED BY <2>1, <2>4, <3>1, <3>2, PersistEffect
  <2> QED BY <2>1, <2>3, <2>4
<1>8. CASE StartSession(w)
  <2> DEFINE new == start(call[w].request)
  <2>1. /\ Sid(w) \in Sessions /\ new \in Session
    BY <1>8, CallNamesSession, StartCoherent DEF StartSession
  <2>2. /\ pc[w] = "recv_load" /\ UNCHANGED <<lock, call>>
        /\ \/ pc'[w] = "release"
           \/ /\ pc'[w] = "receive" /\ state' = [state EXCEPT ![Sid(w)] = new]
              /\ mem' = [mem EXCEPT ![w] = new]
    BY <1>t, <1>8 DEF StartSession, Persist, StateSetTo, WorkerTypes
  <2> HIDE DEF new
  <2> QED BY <1>t, <1>a, <2>1, <2>2, StoreAssumption DEF Kept, Unlocked, Loading, Working,
      Labels, WorkerTypes
<1>9. CASE InitializeTransaction(w)
  <2> DEFINE new == initialize(mem[w], got[w], Total[got[w]])
  <2>1. /\ Sid(w) \in Sessions /\ mem[w] \in Session /\ Coherent(mem[w]) /\ mem[w] # NoSession
        /\ got[w] \in Txns /\ Total[got[w]] \in 1..MaxSegments /\ mem[w] = state[Sid(w)]
    BY <1>t, <1>9, WorkingSession, BtdAssumption DEF InitializeTransaction, Lease,
       Labels, Working, Unlocked, Loading
  <2>2. /\ pc[w] = "initialize" /\ UNCHANGED <<lock, call>>
        /\ \/ UNCHANGED <<state, mem>> /\ pc'[w] \in {"fail", "release"}
           \/ /\ pc'[w] = "receive" /\ state' = [state EXCEPT ![Sid(w)] = new]
              /\ mem' = [mem EXCEPT ![w] = new] /\ state[Sid(w)].phase = "new"
    BY <1>t, <1>9 DEF InitializeTransaction, StateSetTo, InitializeAccepts, CanInitialize,
       WorkerTypes
  <2>3. mem' = mem \/ new \in Session
    BY <2>1, <2>2, InitializeCoherent
  <2> HIDE DEF new
  <2> QED BY <1>t, <1>a, <2>1, <2>2, <2>3, StoreAssumption DEF Kept, Unlocked, Loading, Working,
      Labels, WorkerTypes
<1>10. CASE DeleteSession(w)
  <2>1. /\ pc[w] = "delete" /\ pc'[w] = "release" /\ UNCHANGED <<lock, call>>
    BY <1>t, <1>10 DEF DeleteSession, WorkerTypes
  <2> QED BY <1>a, <2>1 DEF Kept, Unlocked, Working
<1> QED
  BY <1>1, <1>2, <1>3, <1>4, <1>5, <1>6, <1>7, <1>8, <1>9, <1>10, StepKinds

(* LeaseInv is preserved by every step.                                       *)
LEMMA LeaseInvKept ==
    ASSUME LeaseInv, [Next]_vars
    PROVE  LeaseInv'
<1>1. CASE UNCHANGED vars
  <2>1. UNCHANGED <<storeVars, pc, call, mem, got, pos, spool>>
    BY <1>1 DEF vars, workerVars, spoolVars
  <2>2. StoreInv'
    BY <2>1 DEF LeaseInv, storeVars, StoreInv, StoreTypeOK, SessionsCoherent,
       OneSessionPerTransaction, TxnOf
  <2> QED BY <2>1, <2>2 DEF LeaseInv, WorkerTypes, Lease, Sid, storeVars
<1>2. CASE Next
  <2>1. StoreInv'
    <3>1. CASE StoreNext
      BY <3>1, StepEffect, EffectKeepsInv DEF LeaseInv
    <3>2. CASE UNCHANGED storeVars
      BY <3>2 DEF LeaseInv, storeVars, StoreInv, StoreTypeOK, SessionsCoherent,
         OneSessionPerTransaction, TxnOf
    <3> QED BY <1>2, <3>1, <3>2, StepUsesStore
  <2>2. ASSUME NEW w \in Workers, WorkerNext(w)
        PROVE  LeaseInv'
    BY <2>1, <2>2, StepOthersAlone, OthersKeepLease, StepKeepsLease DEF LeaseInv
  <2>3. ASSUME NEW t \in Txns, BankSettles(t)
        PROVE  LeaseInv'
    <3>1. UNCHANGED <<state, lock, pc, call, mem, got, pos, spool>>
      BY <2>3 DEF BankSettles, storeVars, workerVars, spoolVars
    <3> QED BY <2>1, <3>1 DEF LeaseInv, WorkerTypes, Lease, Sid
  <2> QED BY <1>2, <2>2, <2>3 DEF Next, Undisturbed, WorkerNext
<1> QED BY <1>1, <1>2

(* LeaseInv holds before the first call.                                      *)
LEMMA LeaseInit ==
    ASSUME Init
    PROVE  LeaseInv
<1>1. StoreInv
  BY DEF Init, StoreInit, StoreInv, StoreTypeOK, SessionsCoherent, OneSessionPerTransaction, TxnOf
<1>2. WorkerTypes
  BY DEF Init, WorkerTypes, Labels, EmptySpool
<1>3. \A w \in Workers : Lease(w)
  BY StoreAssumption DEF Init, StoreInit, Lease, Unlocked, Loading, Working, Labels
<1> QED BY <1>1, <1>2, <1>3 DEF LeaseInv

(* LeaseInv is an invariant of the download.                                  *)
THEOREM LeaseInvariant == Spec => []LeaseInv
BY LeaseInit, LeaseInvKept, PTL DEF Spec

(* backend.py uses the store only as SessionStore allows: every download,     *)
(* resolution, crash and retry is a behaviour of the store with arbitrary     *)
(* callers, so that all that is proved of the store holds of it in use.       *)
THEOREM DownloadUsesStore == Spec => UsesStoreCorrectly
<1>1. Init => StoreInit
  BY DEF Init
<1>2. LeaseInv /\ [Next]_vars => [StoreNext]_storeVars
  BY StepUsesStore DEF vars
<1> QED BY <1>1, <1>2, LeaseInvariant, PTL DEF Spec, UsesStoreCorrectly, StoreSpec

(* No worker acts on a session that another has changed since it was loaded.  *)
THEOREM WorkersNeverStale == Spec => []NoStaleWorker
<1>1. LeaseInv => NoStaleWorker
  <2> SUFFICES ASSUME LeaseInv, NEW w \in Workers, mem[w] # NoSession, pc[w] # "release"
               PROVE  lock[Sid(w)] = w /\ mem[w] = state[Sid(w)]
    BY DEF NoStaleWorker
  <2>1. pc[w] \in Working
    BY DEF LeaseInv, Lease, WorkerTypes, Working, Unlocked, Loading
  <2> QED BY <2>1, WorkingSession
<1> QED BY <1>1, LeaseInvariant, PTL

-----------------------------------------------------------------------------
(* Types of the spool marks, the sink and the bank.                           *)
DataTypes ==
    /\ torn \subseteq Sessions
    /\ part \in [Txns -> [Positions -> {"none", "partial", "staged"}]]
    /\ published \in [Txns -> [Positions -> {"none", "partial", "complete"}]]
    /\ bank \in [Txns -> [kind: ReceiptKinds,
                          fate: {"none", "inflight", "recorded", "lost"}]]
    /\ posted \in [Txns -> Nat]

(* A step of w touches stages, documents and receipt of its own transaction only. *)
TxnsAlone(w) ==
    \A t \in Txns : pc[w] \notin Working \/ t # mem[w].txn =>
        part'[t] = part[t] /\ published'[t] = published[t]
            /\ bank'[t] = bank[t] /\ posted'[t] = posted[t]

(* No interference between transactions: a step of w touches stages,          *)
(* documents and receipt of the transaction of its own session only.          *)
LEMMA StepTxnsAlone ==
    ASSUME LeaseInv, DataTypes, NEW w \in Workers, WorkerNext(w)
    PROVE  TxnsAlone(w) /\ DataTypes'
<1> USE DEF Goto, At, spoolVars, sinkVars, bankVars
<1>s. \/ Calls(w) \/ AcquireLease(w) \/ ReleaseLease(w) \/ Expire(w)
      \/ Local(w) \/ Persisting(w) \/ StartSession(w) \/ InitializeTransaction(w)
      \/ DeleteSession(w) \/ Crashing(w) \/ CrashInitializing(w)
  BY StepKinds
<1>1. CASE UNCHANGED <<sinkVars, bankVars>> /\ torn' \subseteq Sessions
  BY <1>1 DEF TxnsAlone, DataTypes
<1>2. CASE Calls(w) \/ AcquireLease(w) \/ ReleaseLease(w) \/ Expire(w) \/ StartSession(w)
           \/ InitializeTransaction(w) \/ DeleteSession(w) \/ CrashInitializing(w)
           \/ Crash(w)
  <2>1. UNCHANGED <<sinkVars, bankVars, torn>>
    BY <1>2 DEF Calls, StartDownload, StartResolve, AcquireLease, ReleaseLease, Expire,
       StartSession, InitializeTransaction, DeleteSession, CrashInitializing, Crash, ProcessLost
  <2> QED BY <1>1, <2>1 DEF DataTypes
<1>3. CASE Persisting(w)
  <2>1. UNCHANGED <<sinkVars, bankVars, torn>>
    BY <1>3, PersistingEffect
  <2> QED BY <1>1, <2>1 DEF DataTypes
<1>4. CASE CrashPutting(w)
  <2>1. Sid(w) \in Sessions
    BY <1>4, CallNamesSession DEF CrashPutting
  <2> QED BY <1>1, <1>4, <2>1 DEF CrashPutting, ProcessLost, DataTypes
<1>5. CASE \/ ResumeSession(w) \/ RequestInitialization(w) \/ RequestSegment(w)
           \/ ResponseRefused(w) \/ RecoverBootstrap(w) \/ VerificationFails(w)
           \/ LoadSession(w) \/ CloseTerminal(w) \/ RefusePhase(w) \/ AmbiguityFound(w)
           \/ NegativeFound(w) \/ LoadDocuments(w) \/ ReloadAmbiguous(w)
           \/ PutSegment(w) \/ DiscardSpool(w)
  <2>1. UNCHANGED <<sinkVars, bankVars>> /\ torn' \subseteq torn
    BY <1>5 DEF ResumeSession, RequestInitialization, RequestSegment, ResponseRefused,
     RecoverBootstrap, VerificationFails, LoadSession, CloseTerminal, RefusePhase,
     AmbiguityFound, NegativeFound, LoadDocuments, ReloadAmbiguous, PutSegment, DiscardSpool
  <2> QED BY <1>1, <2>1 DEF DataTypes
<1>6. CASE CrashDiscarding(w) \/ Stop(w) \/ ProcessingFails(w) \/ BeginDocument(w)
           \/ StageDocument(w) \/ DiscardStages(w) \/ PublishDocument(w)
  <2> DEFINE t == mem[w].txn
             Stages == [Positions -> {"none", "partial", "staged"}]
             Docs == [Positions -> {"none", "partial", "complete"}]
  <2>1. part \in [Txns -> Stages] /\ published \in [Txns -> Docs]
    BY DEF DataTypes
  <2>2. /\ UNCHANGED bankVars /\ torn' \subseteq torn
        /\ part' # part \/ published' # published => pc[w] \in Working
        /\ \/ part' = part
           \/ \E p : \E v \in {"none", "partial", "staged"} : part' = [part EXCEPT ![t][p] = v]
           \/ part' = [part EXCEPT ![t] = NoStages]
           \/ \E kept : part' = [part EXCEPT ![t] =
                            [p \in Positions |-> IF p \in kept THEN part[t][p] ELSE "none"]]
        /\ \/ published' = published
           \/ \E p : \E v \in {"none", "partial", "complete"} : published' = [published EXCEPT ![t][p] = v]
    <3> USE DEF Working, Labels, Unlocked, Loading
    <3>1. CASE CrashDiscarding(w)
      BY <3>1 DEF CrashDiscarding, ProcessLost
    <3>2. CASE Stop(w) \/ ProcessingFails(w)
      BY <3>2 DEF Stop, ProcessingFails
    <3>3. CASE BeginDocument(w) \/ StageDocument(w) \/ DiscardStages(w)
      BY <3>3 DEF BeginDocument, StageDocument, DiscardStages
    <3>4. CASE PublishDocument(w)
      BY <3>4 DEF PublishDocument, PublicationDue
    <3> QED BY <1>6, <3>1, <3>2, <3>3, <3>4
  <2>3. part' \in [Txns -> Stages] /\ \A x \in Txns : x # t => part'[x] = part[x]
    <3>1. CASE part' = part
      BY <2>1, <3>1
    <3>2. ASSUME NEW p, NEW v \in {"none", "partial", "staged"}, part' = [part EXCEPT ![t][p] = v]
          PROVE  part' \in [Txns -> Stages] /\ \A x \in Txns : x # t => part'[x] = part[x]
      <4>1. part' = [part EXCEPT ![t] = [part[t] EXCEPT ![p] = v]]
        BY <3>2
      <4>2. t \in Txns => [part[t] EXCEPT ![p] = v] \in Stages
        BY <2>1
      <4> QED BY <2>1, <4>1, <4>2
    <3>3. CASE part' = [part EXCEPT ![t] = NoStages]
      BY <2>1, <3>3 DEF NoStages
    <3>4. ASSUME NEW kept, part' = [part EXCEPT ![t] =
                            [p \in Positions |-> IF p \in kept THEN part[t][p] ELSE "none"]]
          PROVE  part' \in [Txns -> Stages] /\ \A x \in Txns : x # t => part'[x] = part[x]
      <4>1. t \in Txns => [p \in Positions |-> IF p \in kept THEN part[t][p] ELSE "none"] \in Stages
        BY <2>1
      <4> QED BY <2>1, <3>4, <4>1
    <3> QED BY <2>2, <3>1, <3>2, <3>3, <3>4
  <2>4. published' \in [Txns -> Docs] /\ \A x \in Txns : x # t => published'[x] = published[x]
    <3>1. ASSUME NEW p, NEW v \in {"none", "partial", "complete"}, published' = [published EXCEPT ![t][p] = v]
          PROVE  published' \in [Txns -> Docs] /\ \A x \in Txns : x # t => published'[x] = published[x]
      <4>1. published' = [published EXCEPT ![t] = [published[t] EXCEPT ![p] = v]]
        BY <3>1
      <4>2. t \in Txns => [published[t] EXCEPT ![p] = v] \in Docs
        BY <2>1
      <4> QED BY <2>1, <4>1, <4>2
    <3> QED BY <2>1, <2>2, <3>1
  <2> QED BY <2>2, <2>3, <2>4 DEF TxnsAlone, DataTypes
<1>7. CASE PostReceipt(w)
  <2>1. pc[w] \in Working /\ mem[w] \in Session
    BY <1>7, WorkingSession DEF PostReceipt, Working, Labels, Unlocked, Loading
  <2>2. [kind |-> mem[w].receipt, fate |-> "inflight"] \in [kind: ReceiptKinds,
                          fate: {"none", "inflight", "recorded", "lost"}]
    BY <2>1 DEF Session
  <2>3. bank' \in [Txns -> [kind: ReceiptKinds, fate: {"none", "inflight", "recorded", "lost"}]]
        /\ \A t \in Txns : t # mem[w].txn => bank'[t] = bank[t]
    BY <1>7, <2>2 DEF PostReceipt, DataTypes
  <2>4. posted' \in [Txns -> Nat] /\ \A t \in Txns : t # mem[w].txn => posted'[t] = posted[t]
    <3>1. posted' = [posted EXCEPT ![mem[w].txn] = posted[mem[w].txn] + 1] /\ posted \in [Txns -> Nat]
      BY <1>7 DEF PostReceipt, DataTypes
    <3>2. mem[w].txn \in Txns => posted[mem[w].txn] + 1 \in Nat
      BY <3>1
    <3> QED BY <3>1, <3>2
  <2> QED BY <1>7, <2>1, <2>3, <2>4 DEF PostReceipt, TxnsAlone, DataTypes
<1> QED BY <1>s, <1>2, <1>3, <1>4, <1>5, <1>6, <1>7 DEF Local, Crashing
=============================================================================
