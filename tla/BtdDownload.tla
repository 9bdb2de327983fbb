---------------------------- MODULE BtdDownload ----------------------------
(***************************************************************************)
(* EbicsBackend.download() and resolve_ambiguous_receipt(): workers that   *)
(* receive a bank transaction segment by segment, stage its documents,     *)
(* acknowledge it to the bank and publish the documents, resuming from     *)
(* the durable session after any interruption.                             *)
(*                                                                         *)
(* Durable: the session store (SessionStore), the spool of bank responses, *)
(* the sink's staged and published documents.  Volatile: a worker's label, *)
(* call, in-memory session and counters.  External: the bank, which may    *)
(* record or lose a receipt at any time after it was posted, and the       *)
(* operator who learns from the bank what became of it.                    *)
(*                                                                         *)
(* A worker's label names the next durable or external step of its call.   *)
(* Python code between two such steps touches only the worker's own data   *)
(* and is part of the step before it.                                      *)
(***************************************************************************)
EXTENDS SessionStore

CONSTANTS
    Total,      \* Total[t]: number of segments of the bank's transaction t
    Documents   \* Documents[t]: number of documents in its payload

ASSUME BtdAssumption ==
    /\ Total \in [Txns -> 1..MaxSegments]
    /\ Documents \in [Txns -> 1..MaxDocuments]

VARIABLES
    pc,         \* pc[w]: label of worker w
    call,       \* call[w]: what w was called for
    mem,        \* mem[w]: the DownloadSession in the handler's variable `state`
    got,        \* got[w]: transaction of the response w received last
    pos,        \* pos[w]: documents w has staged or published in this loop
    spool,      \* spool[s][k]: transaction that segment k of session s is from, or NoTxn
    torn,       \* sessions whose spool holds the temporary file of a lost put_segment
    part,       \* part[t][p]: the sink's stage of document p of t
    published,  \* published[t][p]: the sink's published document p of t
    bank,       \* bank[t]: the receipt the bank was sent for t, and its fate
    posted      \* posted[t]: how many receipt requests were ever sent for t

workerVars == <<pc, call, mem, got, pos>>
spoolVars == <<spool, torn>>
sinkVars == <<part, published>>
bankVars == <<bank, posted>>
vars == <<storeVars, workerVars, spoolVars, sinkVars, bankVars>>

Segments == 1..MaxSegments
Positions == 1..MaxDocuments

Labels == {"idle", "recv_lock", "recv_load", "receive", "put", "initialize", "fail",
           "recv_release", "lock", "load", "process", "unpack", "write", "negative",
           "post", "await", "reload", "accept", "discard_stages", "finish_negative",
           "discard_spool", "delete", "release"}

Call == [op: {"download", "resolve"}, sid: Sessions, request: Requests,
         about: Txns \cup {NoTxn}, accepted: BOOLEAN]
NoCall == [op |-> "none"]

TypeOK ==
    /\ StoreTypeOK
    /\ pc \in [Workers -> Labels]
    /\ call \in [Workers -> Call \cup {NoCall}]
    /\ mem \in [Workers -> Session \cup {NoSession}]
    /\ got \in [Workers -> Txns \cup {NoTxn}]
    /\ pos \in [Workers -> 0..MaxDocuments]
    /\ spool \in [Sessions -> [Segments -> Txns \cup {NoTxn}]]
    /\ torn \subseteq Sessions
    /\ part \in [Txns -> [Positions -> {"none", "partial", "staged"}]]
    /\ published \in [Txns -> [Positions -> {"none", "partial", "complete"}]]
    /\ bank \in [Txns -> [kind: ReceiptKinds,
                          fate: {"none", "inflight", "recorded", "lost"}]]
    /\ posted \in [Txns -> Nat]

EmptySpool == [k \in Segments |-> NoTxn]
NoStages == [p \in Positions |-> "none"]

Init ==
    /\ StoreInit
    /\ pc = [w \in Workers |-> "idle"]
    /\ call = [w \in Workers |-> NoCall]
    /\ mem = [w \in Workers |-> NoSession]
    /\ got = [w \in Workers |-> NoTxn]
    /\ pos = [w \in Workers |-> 0]
    /\ spool = [s \in Sessions |-> EmptySpool]
    /\ torn = {}
    /\ part = [t \in Txns |-> NoStages]
    /\ published = [t \in Txns |-> [p \in Positions |-> "none"]]
    /\ bank = [t \in Txns |-> [kind |-> "none", fate |-> "none"]]
    /\ posted = [t \in Txns |-> 0]

-----------------------------------------------------------------------------
(* Vocabulary of the handlers *)

Sid(w) == call[w].sid
Goto(w, l) == pc' = [pc EXCEPT ![w] = l]
At(w, labels) == pc[w] \in labels

(* _raise_if_btd_stopped passes: the deadline is ahead.  Cancellation is the  *)
(* action Stop, possible at every check.                                      *)
InTime(w) == w \notin expired

InSpool(s) == {k \in Segments : spool[s][k] # NoTxn}

(* _BTD_POST_RECEIVE_PHASES *)
PostReceivePhases == Phases \ (ReceivePhases \cup {"failed"})

(* _btd_spool_index: the segment numbers a session in this phase may have *)
SpoolIndexFits(m, numbers) ==
    CASE m.phase = "new"                -> numbers \in {{}, {1}}
      [] m.phase = "initialized"        -> numbers = {1}
      [] m.phase = "receiving_segments" -> numbers \in {1..(m.next - 1), 1..m.next}
      [] OTHER                          -> numbers = 1..m.total

(* _verify_btd_spool: the index fits and every response is of the transaction *)
SpoolVerifies(m, s) ==
    SpoolIndexFits(m, InSpool(s)) /\ \A k \in 1..m.total : spool[s][k] = m.txn

(* _persist_btd_successor: store new and go on at l, or raise               *)
(* SessionConflictError, which every handler lets end the call.             *)
Persist(w, new, l) ==
    IF CasAccepts(w, Sid(w), mem[w], new)
    THEN StateSetTo(Sid(w), new) /\ mem' = [mem EXCEPT ![w] = new] /\ Goto(w, l)
    ELSE UNCHANGED <<state, mem>> /\ Goto(w, "release")

PersistOnly(w, new, l) ==
    Persist(w, new, l)
    /\ UNCHANGED <<claims, lock, expired, call, got, pos, spoolVars, sinkVars, bankVars>>

AfterAmbiguityDiscard(m) == "discard_stages"   \* mutant: the receipt kind is not looked at

(* After an unknown outcome a negative receipt's data is dropped at once. *)
AfterAmbiguity(m) == IF m.receipt = "negative" THEN "discard_stages" ELSE "release"

(* The loop of _publish_btd_stages has another document to publish. *)
PublicationDue(w) ==
    /\ pc[w] = "process"
    /\ mem[w].phase = "receipt_response_verified" /\ mem[w].receipt = "positive"
    /\ pos[w] < mem[w].staged

-----------------------------------------------------------------------------
(* Calls, leases and interruptions *)

StartDownload(w, s, r) ==
    /\ pc[w] = "idle"
    /\ call' = [call EXCEPT ![w] = [op |-> "download", sid |-> s, request |-> r,
                                    about |-> NoTxn, accepted |-> FALSE]]
    /\ expired' = expired \ {w}
    /\ Goto(w, "recv_lock")
    /\ UNCHANGED <<state, claims, lock, mem, got, pos, spoolVars, sinkVars, bankVars>>

(* The operator asks the bank what became of the receipt of the session's     *)
(* transaction and passes its answer on.                                      *)
StartResolve(w, s, r) ==
    /\ pc[w] = "idle"
    /\ TxnOf(s) # NoTxn
    /\ bank[TxnOf(s)].fate # "inflight"
    /\ call' = [call EXCEPT ![w] = [op |-> "resolve", sid |-> s, request |-> r,
                                    about |-> TxnOf(s),
                                    accepted |-> bank[TxnOf(s)].fate = "recorded"]]
    /\ expired' = expired \ {w}
    /\ Goto(w, "lock")
    /\ UNCHANGED <<state, claims, lock, mem, got, pos, spoolVars, sinkVars, bankVars>>

(* Assumed of the operator, not checked by the code: his answer is the truth  *)
(* about the transaction he asked for, and withdrawn when that is not the     *)
(* session's any more.  The call names the session only.                      *)
AnswerStands(w) ==
    call[w].op = "resolve" =>
        /\ bank[call[w].about].fate # "inflight"
        /\ call[w].accepted <=> (bank[call[w].about].fate = "recorded")
        /\ call[w].about = TxnOf(Sid(w))

(* Conflict, expiry or a stop before the lease ends the call.  download()     *)
(* takes a lease twice: to receive, and again to process.                     *)
AcquireLease(w) ==
    /\ At(w, {"recv_lock", "lock"})
    /\ IF CanAcquire(w, Sid(w)) /\ AnswerStands(w)
       THEN /\ lock' = [lock EXCEPT ![Sid(w)] = w]
            /\ Goto(w, IF pc[w] = "lock" THEN "load" ELSE "recv_load")
            /\ UNCHANGED call
       ELSE /\ Goto(w, "idle")
            /\ call' = [call EXCEPT ![w] = NoCall]
            /\ UNCHANGED lock
    /\ UNCHANGED <<state, claims, expired, mem, got, pos, spoolVars, sinkVars, bankVars>>

(* The finally clauses: also past the deadline, the lock is released. *)
ReleaseLease(w) ==
    /\ At(w, {"recv_release", "release"})
    /\ lock' = [lock EXCEPT ![Sid(w)] = NoWorker]
    /\ mem' = [mem EXCEPT ![w] = NoSession]
    /\ got' = [got EXCEPT ![w] = NoTxn]
    /\ pos' = [pos EXCEPT ![w] = 0]
    /\ IF pc[w] = "release" THEN Goto(w, "idle") /\ call' = [call EXCEPT ![w] = NoCall]
                            ELSE Goto(w, "lock") /\ UNCHANGED call
    /\ UNCHANGED <<state, claims, expired, spoolVars, sinkVars, bankVars>>

Expire(w) ==
    /\ pc[w] # "idle" /\ w \notin expired
    /\ expired' = expired \cup {w}
    /\ UNCHANGED <<state, claims, lock, workerVars, spoolVars, sinkVars, bankVars>>

(* Cancellation or the deadline is noticed at a check or inside an exchange   *)
(* that is not a receipt's; the durable state stays as it is.  Between begin  *)
(* and stage of a document the writer is aborted on the way out.              *)
Stop(w) ==
    /\ \/ At(w, {"receive", "write", "negative"})
       \/ /\ pc[w] = "process"
          /\ mem[w].phase \in {"signatures_and_digests_verified", "documents_staged"}
                               \cup ProcessPhases
       \/ /\ pc[w] = "unpack" /\ mem[w].phase = "container_verified"
          /\ pos[w] < Documents[mem[w].txn]
       \/ PublicationDue(w)
    /\ part' = IF pc[w] = "write" THEN [part EXCEPT ![mem[w].txn][pos[w] + 1] = "none"]
                                  ELSE part
    /\ Goto(w, "release")
    /\ UNCHANGED <<storeVars, call, mem, got, pos, spoolVars, published, bankVars>>

(* The worker's memory and locks are gone with its process. *)
ProcessLost(w) ==
    /\ Goto(w, "idle")
    /\ call' = [call EXCEPT ![w] = NoCall]
    /\ mem' = [mem EXCEPT ![w] = NoSession]
    /\ got' = [got EXCEPT ![w] = NoTxn]
    /\ pos' = [pos EXCEPT ![w] = 0]
    /\ lock' = LocksFreedBy(w)
    /\ UNCHANGED <<state, expired, bankVars>>

Crash(w) ==
    /\ pc[w] # "idle"
    /\ ProcessLost(w)
    /\ UNCHANGED <<claims, spoolVars, sinkVars>>

(* Spool and stages are unlinked file by file: a crash leaves some of them. *)
CrashDiscarding(w) ==
    /\ \/ /\ pc[w] = "discard_spool"
          /\ \E kept \in SUBSET InSpool(Sid(w)) :
                spool' = [spool EXCEPT ![Sid(w)] =
                            [k \in Segments |-> IF k \in kept THEN @[k] ELSE NoTxn]]
          /\ torn' \in {torn, torn \ {Sid(w)}}
          /\ UNCHANGED part
       \/ /\ pc[w] = "discard_stages"
          /\ \E kept \in SUBSET Positions :
                part' = [part EXCEPT ![mem[w].txn] =
                            [p \in Positions |-> IF p \in kept THEN @[p] ELSE "none"]]
          /\ UNCHANGED spoolVars
    /\ ProcessLost(w)
    /\ UNCHANGED <<claims, published>>

-----------------------------------------------------------------------------
(* _receive_btd_segments *)

(* No session: start one.  A spool without a session is a conflict. *)
StartSession(w) ==
    /\ pc[w] = "recv_load" /\ state[Sid(w)] = NoSession
    /\ IF InSpool(Sid(w)) = {} /\ Sid(w) \notin torn
       THEN Persist(w, start(call[w].request), "receive")
       ELSE UNCHANGED <<state, mem>> /\ Goto(w, "release")
    /\ UNCHANGED <<claims, lock, expired, call, got, pos, spoolVars, sinkVars, bankVars>>

(* A session exists: refuse it, hand it on to processing, or receive on.      *)
(* list_segments takes every file name for a number: it raises ValueError on  *)
(* the name of a temporary file, and the call ends.                           *)
ResumeSession(w) ==
    /\ pc[w] = "recv_load" /\ state[Sid(w)] # NoSession
    /\ LET st == state[Sid(w)]
       IN  /\ mem' = [mem EXCEPT ![w] = st]
           /\ Goto(w, IF ~HoldsLease(w, Sid(w)) THEN "release"
                      ELSE IF st.phase = "failed" THEN "discard_spool"
                      ELSE IF Sid(w) \in torn THEN "release"
                      ELSE IF st.request # call[w].request THEN "release"
                      ELSE IF st.phase \in PostReceivePhases THEN "recv_release"
                      ELSE IF ~SpoolIndexFits(st, InSpool(Sid(w))) THEN "fail"
                      ELSE "receive")
    /\ UNCHANGED <<storeVars, call, got, pos, spoolVars, sinkVars, bankVars>>

ResponseDueAgain(w) ==   \* mutant: a response in the spool is asked for again
    /\ pc[w] = "receive" /\ InTime(w)
    /\ mem[w].phase \in {"new", "receiving_segments"}

(* The next exchange is due when its response is not spooled yet. *)
ResponseDue(w) ==
    /\ pc[w] = "receive" /\ InTime(w)
    /\ mem[w].phase \in {"new", "receiving_segments"}
    /\ spool[Sid(w)][mem[w].next] = NoTxn

(* The bank opens a transaction; it may also answer with one it used before. *)
RequestInitialization(w) ==
    /\ ResponseDue(w) /\ mem[w].phase = "new"
    /\ \E t \in Txns : got' = [got EXCEPT ![w] = t]
    /\ Goto(w, "put")
    /\ UNCHANGED <<storeVars, call, mem, pos, spoolVars, sinkVars, bankVars>>

(* The answer is accepted only for the requested transaction and segment. *)
RequestSegment(w) ==
    /\ ResponseDue(w) /\ mem[w].phase = "receiving_segments"
    /\ got' = [got EXCEPT ![w] = mem[w].txn]
    /\ Goto(w, "put")
    /\ UNCHANGED <<storeVars, call, mem, pos, spoolVars, sinkVars, bankVars>>

(* TransportError, or a response that fails its checks: a terminal failure. *)
ResponseRefused(w) ==
    /\ ResponseDue(w)
    /\ Goto(w, "fail")
    /\ UNCHANGED <<storeVars, call, mem, got, pos, spoolVars, sinkVars, bankVars>>

(* put_segment refuses to overwrite. *)
PutSegment(w) ==
    /\ pc[w] = "put"
    /\ IF spool[Sid(w)][mem[w].next] = NoTxn
       THEN /\ spool' = [spool EXCEPT ![Sid(w)][mem[w].next] = got[w]]
            /\ Goto(w, IF mem[w].phase = "new" THEN "initialize" ELSE "receive")
       ELSE UNCHANGED spool /\ Goto(w, "release")
    /\ got' = [got EXCEPT ![w] = IF mem[w].phase = "new" THEN @ ELSE NoTxn]
    /\ UNCHANGED <<storeVars, call, mem, pos, torn, sinkVars, bankVars>>

(* The response goes to a temporary file in the spool directory before it is  *)
(* renamed; a process lost in between leaves that file.                       *)
CrashPutting(w) ==
    /\ pc[w] = "put" /\ spool[Sid(w)][mem[w].next] = NoTxn
    /\ torn' = torn \cup {Sid(w)}
    /\ ProcessLost(w)
    /\ UNCHANGED <<claims, spool, sinkVars>>

(* A first response spooled before an interruption is used, not asked again. *)
RecoverBootstrap(w) ==
    /\ pc[w] = "receive" /\ InTime(w) /\ mem[w].phase = "new"
    /\ spool[Sid(w)][1] # NoTxn
    /\ got' = [got EXCEPT ![w] = spool[Sid(w)][1]]
    /\ Goto(w, "initialize")
    /\ UNCHANGED <<storeVars, call, mem, pos, spoolVars, sinkVars, bankVars>>

(* Claim the transaction and store it; a claimed one is a replay and fails. *)
InitializeTransaction(w) ==
    /\ pc[w] = "initialize"
    /\ LET s == Sid(w)
           t == got[w]
           ok == InitializeAccepts(w, s, mem[w], t, Total[t])
       IN  IF ok /\ CanClaim(t)
           THEN /\ claims' = claims \cup {t}
                /\ StateSetTo(s, initialize(mem[w], t, Total[t]))
                /\ mem' = [mem EXCEPT ![w] = initialize(mem[w], t, Total[t])]
                /\ Goto(w, "receive")
           ELSE /\ UNCHANGED <<claims, state, mem>>
                /\ Goto(w, IF ok THEN "fail" ELSE "release")
    /\ got' = [got EXCEPT ![w] = NoTxn]
    /\ UNCHANGED <<lock, expired, call, pos, spoolVars, sinkVars, bankVars>>

(* The store's claim file is written, and the process is lost before the      *)
(* state file is.                                                             *)
CrashInitializing(w) ==
    /\ pc[w] = "initialize"
    /\ InitializeAccepts(w, Sid(w), mem[w], got[w], Total[got[w]]) /\ CanClaim(got[w])
    /\ claims' = claims \cup {got[w]}
    /\ ProcessLost(w)
    /\ UNCHANGED <<spoolVars, sinkVars>>

(* Record the next segment once its response is in the spool, whether this    *)
(* call or an interrupted one put it there.                                   *)
RecordSegment(w) ==
    /\ pc[w] = "receive" /\ InTime(w)
    /\ CanRecordSegment(mem[w])
    /\ spool[Sid(w)][mem[w].next] # NoTxn
    /\ IF SpoolIndexFits(mem[w], InSpool(Sid(w))) /\ spool[Sid(w)][mem[w].next] = mem[w].txn
       THEN Persist(w, record_segment(mem[w]), "receive")
       ELSE UNCHANGED <<state, mem>> /\ Goto(w, "fail")
    /\ UNCHANGED <<claims, lock, expired, call, got, pos, spoolVars, sinkVars, bankVars>>

(* All segments are there: verify them as a whole, again on every resumption. *)
VerifySpool(w) ==
    /\ pc[w] = "receive" /\ InTime(w) /\ SpoolVerifies(mem[w], Sid(w))
    /\ \/ /\ mem[w].phase = "segments_received"
          /\ PersistOnly(w, mark_signatures_and_digests_verified(mem[w]), "recv_release")
       \/ /\ mem[w].phase = "signatures_and_digests_verified"
          /\ Goto(w, "recv_release")
          /\ UNCHANGED <<storeVars, call, mem, got, pos, spoolVars, sinkVars, bankVars>>

(* The spool exceeds a size limit or a response in it fails its checks. *)
VerificationFails(w) ==
    /\ pc[w] = "receive"
    /\ mem[w].phase \in {"segments_received", "signatures_and_digests_verified"}
    /\ Goto(w, "fail")
    /\ UNCHANGED <<storeVars, call, mem, got, pos, spoolVars, sinkVars, bankVars>>

FailSessionAcknowledging(w) ==   \* mutant: a failed session is acknowledged to the bank
    /\ pc[w] = "fail"
    /\ PersistOnly(w, fail(mem[w]), IF mem[w].txn = NoTxn THEN "discard_spool" ELSE "post")

FailSession(w) == pc[w] = "fail" /\ PersistOnly(w, fail(mem[w]), "discard_spool")

-----------------------------------------------------------------------------
(* download() after receiving, and resolve_ambiguous_receipt() *)

UsableByAnyDownload(w, st) ==   \* mutant: download() does not compare the request again
    /\ HoldsLease(w, Sid(w)) /\ st # NoSession
    /\ call[w].op = "resolve" => st.request = call[w].request

Usable(w, st) == HoldsLease(w, Sid(w)) /\ st # NoSession /\ st.request = call[w].request

(* resolve_ambiguous_receipt: only a positive receipt of unknown outcome is   *)
(* open to an answer; on a complete session the call is repeated harmlessly.  *)
Resolution(w, st) ==
    IF st.phase = "complete" THEN "discard_spool"
    ELSE IF st.phase # "receipt_ambiguous" \/ st.receipt # "positive" THEN "release"
    ELSE IF call[w].accepted THEN "accept" ELSE "discard_stages"

(* Another worker may have had the session between the two leases. *)
LoadSession(w) ==
    /\ pc[w] = "load"
    /\ LET st == state[Sid(w)]
       IN  /\ mem' = [mem EXCEPT ![w] = st]
           /\ Goto(w, IF ~Usable(w, st) THEN "release"
                      ELSE IF call[w].op = "download" THEN "process"
                      ELSE Resolution(w, st))
    /\ UNCHANGED <<storeVars, call, got, pos, spoolVars, sinkVars, bankVars>>

CloseTerminalUncleaned(w) ==   \* mutant: a terminal session found is not cleaned up
    /\ pc[w] = "process" /\ mem[w].phase \in TerminalPhases
    /\ Goto(w, "release")
    /\ UNCHANGED <<storeVars, call, mem, got, pos, spoolVars, sinkVars, bankVars>>

CloseTerminal(w) ==
    /\ pc[w] = "process" /\ mem[w].phase \in TerminalPhases
    /\ Goto(w, "discard_spool")
    /\ UNCHANGED <<storeVars, call, mem, got, pos, spoolVars, sinkVars, bankVars>>

(* Another worker started the session over. *)
RefusePhase(w) ==
    /\ pc[w] = "process"
    /\ mem[w].phase \in {"new", "initialized", "receiving_segments", "segments_received"}
    /\ Goto(w, "release")
    /\ UNCHANGED <<storeVars, call, mem, got, pos, spoolVars, sinkVars, bankVars>>

PendingFoundResent(w) ==   \* mutant: the receipt is sent again
    /\ pc[w] = "process" /\ mem[w].phase = "receipt_pending"
    /\ Goto(w, "post")
    /\ UNCHANGED <<storeVars, call, mem, got, pos, spoolVars, sinkVars, bankVars>>

(* An intent without an outcome survived an interruption: never send again. *)
PendingFound(w) ==
    /\ pc[w] = "process" /\ mem[w].phase = "receipt_pending"
    /\ PersistOnly(w, mark_receipt_ambiguous(mem[w]), AfterAmbiguity(mem[w]))

AmbiguityFound(w) ==
    /\ pc[w] = "process" /\ mem[w].phase = "receipt_ambiguous"
    /\ Goto(w, AfterAmbiguity(mem[w]))
    /\ UNCHANGED <<storeVars, call, mem, got, pos, spoolVars, sinkVars, bankVars>>

(* _load_btd_documents: verify the spool again, decrypt, open the container. *)
LoadDocuments(w) ==
    /\ pc[w] = "process" /\ InTime(w)
    /\ mem[w].phase \in {"signatures_and_digests_verified"} \cup ProcessPhases
    /\ Goto(w, IF SpoolVerifies(mem[w], Sid(w)) THEN "unpack" ELSE "negative")
    /\ UNCHANGED <<storeVars, call, mem, got, pos, spoolVars, sinkVars, bankVars>>

(* Any other exception while loading or staging: answer with a negative       *)
(* receipt.  An open writer is aborted first.                                 *)
ProcessingFails(w) ==
    /\ \/ At(w, {"unpack", "write"})
       \/ At(w, {"process"}) /\ mem[w].phase \in
             {"signatures_and_digests_verified"} \cup ProcessPhases
    /\ part' = IF pc[w] = "write" THEN [part EXCEPT ![mem[w].txn][pos[w] + 1] = "none"]
                                  ELSE part
    /\ pos' = [pos EXCEPT ![w] = 0]
    /\ Goto(w, "negative")
    /\ UNCHANGED <<storeVars, call, mem, got, spoolVars, published, bankVars>>

RecordUnpacked(w) ==
    /\ pc[w] = "unpack"
    /\ \/ /\ CanMarkDecrypted(mem[w])
          /\ PersistOnly(w, mark_decrypted(mem[w]), "unpack")
       \/ /\ CanMarkContainerVerified(mem[w])
          /\ PersistOnly(w, mark_container_verified(mem[w]), "unpack")

BeginDocumentTooMany(w) ==   \* mutant: one document more than the payload has
    /\ pc[w] = "unpack" /\ InTime(w)
    /\ mem[w].phase = "container_verified" /\ pos[w] <= Documents[mem[w].txn]
    /\ part' = [part EXCEPT ![mem[w].txn][pos[w] + 1] = "partial"]
    /\ Goto(w, "write")
    /\ UNCHANGED <<storeVars, call, mem, got, pos, spoolVars, published, bankVars>>

(* sink.begin truncates the stage, writer.stage completes it. *)
BeginDocument(w) ==
    /\ pc[w] = "unpack" /\ InTime(w)
    /\ mem[w].phase = "container_verified" /\ pos[w] < Documents[mem[w].txn]
    /\ part' = [part EXCEPT ![mem[w].txn][pos[w] + 1] = "partial"]
    /\ Goto(w, "write")
    /\ UNCHANGED <<storeVars, call, mem, got, pos, spoolVars, published, bankVars>>

StageDocument(w) ==
    /\ pc[w] = "write" /\ InTime(w)
    /\ part' = [part EXCEPT ![mem[w].txn][pos[w] + 1] = "staged"]
    /\ pos' = [pos EXCEPT ![w] = @ + 1]
    /\ Goto(w, "unpack")
    /\ UNCHANGED <<storeVars, call, mem, got, spoolVars, published, bankVars>>

RecordStaged(w) ==
    /\ pc[w] = "unpack"
    /\ mem[w].phase = "container_verified" /\ pos[w] = Documents[mem[w].txn]
    /\ Persist(w, mark_documents_staged(mem[w], Documents[mem[w].txn]), "process")
    /\ pos' = [pos EXCEPT ![w] = 0]
    /\ UNCHANGED <<claims, lock, expired, call, got, spoolVars, sinkVars, bankVars>>

-----------------------------------------------------------------------------
(* _send_btd_receipt: the intent is durable before the request is sent. *)

IntendReceipt(w) ==
    /\ InTime(w)
    /\ \/ /\ pc[w] = "process" /\ mem[w].phase = "documents_staged"
          /\ PersistOnly(w, mark_positive_receipt_pending(mem[w]), "post")
       \/ /\ pc[w] = "negative"
          /\ PersistOnly(w, mark_negative_receipt_pending(mem[w]), "post")

PostReceipt(w) ==
    /\ pc[w] = "post" /\ InTime(w)
    /\ bank' = [bank EXCEPT ![mem[w].txn] = [kind |-> mem[w].receipt, fate |-> "inflight"]]
    /\ posted' = [posted EXCEPT ![mem[w].txn] = @ + 1]
    /\ Goto(w, "await")
    /\ UNCHANGED <<storeVars, call, mem, got, pos, spoolVars, sinkVars>>

ReceiptAnsweredAnyCode(w) ==   \* mutant: the return code of the response is not checked
    /\ pc[w] = "await" /\ bank[mem[w].txn].fate # "inflight"
    /\ PersistOnly(w, mark_receipt_response_verified(mem[w]),
                   IF mem[w].receipt = "negative" THEN "discard_stages" ELSE "process")

(* The authenticated response carries the return code of the receipt kind. *)
ReceiptAnswered(w) ==
    /\ pc[w] = "await" /\ bank[mem[w].txn].fate = "recorded"
    /\ PersistOnly(w, mark_receipt_response_verified(mem[w]),
                   IF mem[w].receipt = "negative" THEN "discard_stages" ELSE "process")

(* Any exception from the exchange: timeout, reset, stop, refused response. *)
ReceiptUnanswered(w) ==
    /\ At(w, {"post", "await"})
    /\ PersistOnly(w, mark_receipt_ambiguous(mem[w]),
                   IF mem[w].receipt = "negative" THEN "reload" ELSE "release")

(* _finish_negative_btd reads the session again before it discards the data. *)
ReloadAmbiguous(w) ==
    /\ pc[w] = "reload"
    /\ Goto(w, IF HoldsLease(w, Sid(w)) THEN "discard_stages" ELSE "release")
    /\ UNCHANGED <<storeVars, call, mem, got, pos, spoolVars, sinkVars, bankVars>>

(* External: the bank records the receipt, perhaps long after the exchange    *)
(* was given up, or never sees or rejects it.                                 *)
BankSettles(t) ==
    /\ bank[t].fate = "inflight"
    /\ \E fate \in {"recorded", "lost"} : bank' = [bank EXCEPT ![t].fate = fate]
    /\ UNCHANGED <<storeVars, workerVars, spoolVars, sinkVars, posted>>

-----------------------------------------------------------------------------
(* Publication and cleaning up *)

(* The operator's confirmation stands in for the missing response. *)
AcceptReceipt(w) ==
    /\ pc[w] = "accept"
    /\ PersistOnly(w, mark_receipt_response_verified(mem[w]), "process")

PublishDocumentOnce(w) ==   \* mutant: a document published before is a conflict
    /\ PublicationDue(w) /\ InTime(w)
    /\ LET t == mem[w].txn
           p == pos[w] + 1
       IN  IF part[t][p] # "none"
           THEN /\ published' = [published EXCEPT ![t][p] = "complete"]
                /\ part' = [part EXCEPT ![t][p] = "none"]
                /\ pos' = [pos EXCEPT ![w] = p]
                /\ UNCHANGED pc
           ELSE UNCHANGED <<published, part, pos>> /\ Goto(w, "release")
    /\ UNCHANGED <<storeVars, call, mem, got, spoolVars, bankVars>>

(* sink.publish renames the stage, or accepts what it has renamed before. *)
PublishDocument(w) ==
    /\ PublicationDue(w) /\ InTime(w)
    /\ LET t == mem[w].txn
           p == pos[w] + 1
       IN  IF part[t][p] # "none"
           THEN /\ published' = [published EXCEPT ![t][p] =
                                    IF part[t][p] = "staged" THEN "complete" ELSE "partial"]
                /\ part' = [part EXCEPT ![t][p] = "none"]
                /\ pos' = [pos EXCEPT ![w] = p]
                /\ UNCHANGED pc
           ELSE IF published[t][p] # "none"
           THEN pos' = [pos EXCEPT ![w] = p] /\ UNCHANGED <<published, part, pc>>
           ELSE UNCHANGED <<published, part, pos>> /\ Goto(w, "release")
    /\ UNCHANGED <<storeVars, call, mem, got, spoolVars, bankVars>>

RecordPublished(w) ==
    /\ pc[w] = "process"
    /\ mem[w].phase = "receipt_response_verified" /\ mem[w].receipt = "positive"
    /\ pos[w] = mem[w].staged
    /\ Persist(w, mark_documents_published(mem[w], mem[w].staged), "process")
    /\ pos' = [pos EXCEPT ![w] = 0]
    /\ UNCHANGED <<claims, lock, expired, call, got, spoolVars, sinkVars, bankVars>>

FinishPublished(w) ==
    /\ pc[w] = "process" /\ mem[w].phase = "documents_published"
    /\ PersistOnly(w, finish(mem[w]), "process")

NegativeFoundUncleaned(w) ==   \* mutant: a resumed negative session keeps its stages
    /\ pc[w] = "process"
    /\ mem[w].phase = "receipt_response_verified" /\ mem[w].receipt = "negative"
    /\ Goto(w, "finish_negative")
    /\ UNCHANGED <<storeVars, call, mem, got, pos, spoolVars, sinkVars, bankVars>>

(* A verified negative receipt: stages first, then the terminal state. *)
NegativeFound(w) ==
    /\ pc[w] = "process"
    /\ mem[w].phase = "receipt_response_verified" /\ mem[w].receipt = "negative"
    /\ Goto(w, "discard_stages")
    /\ UNCHANGED <<storeVars, call, mem, got, pos, spoolVars, sinkVars, bankVars>>

DiscardStagesKeepingSpool(w) ==   \* mutant: a refused session's responses are forgotten
    /\ pc[w] = "discard_stages"
    /\ part' = [part EXCEPT ![mem[w].txn] = NoStages]
    /\ Goto(w, IF mem[w].phase = "receipt_response_verified" THEN "finish_negative"
               ELSE IF call[w].op = "resolve" THEN "delete" ELSE "discard_spool")
    /\ UNCHANGED <<storeVars, call, mem, got, pos, spoolVars, published, bankVars>>

(* _discard_unpersisted_btd_stages: every position the payload might have. *)
DiscardStages(w) ==
    /\ pc[w] = "discard_stages"
    /\ part' = [part EXCEPT ![mem[w].txn] = NoStages]
    /\ Goto(w, IF mem[w].phase = "receipt_response_verified" THEN "finish_negative"
                                                             ELSE "discard_spool")
    /\ UNCHANGED <<storeVars, call, mem, got, pos, spoolVars, published, bankVars>>

FinishNegative(w) ==
    pc[w] = "finish_negative" /\ PersistOnly(w, finish(mem[w]), "discard_spool")

DiscardSpool(w) ==
    /\ pc[w] = "discard_spool"
    /\ spool' = [spool EXCEPT ![Sid(w)] = EmptySpool]
    /\ torn' = torn \ {Sid(w)}
    /\ Goto(w, IF call[w].op = "resolve" /\ mem[w].phase = "receipt_ambiguous"
               THEN "delete" ELSE "release")
    /\ UNCHANGED <<storeVars, call, mem, got, pos, sinkVars, bankVars>>

DeleteSessionAndClaim(w) ==   \* mutant: the claim is deleted with the session
    /\ pc[w] = "delete"
    /\ IF DeleteAccepts(w, Sid(w), mem[w])
       THEN StateSetTo(Sid(w), NoSession) /\ claims' = claims \ {mem[w].txn}
       ELSE UNCHANGED <<state, claims>>
    /\ Goto(w, "release")
    /\ UNCHANGED <<lock, expired, call, mem, got, pos, spoolVars, sinkVars, bankVars>>

(* The refused session is deleted; the claim of its transaction is not. *)
DeleteSession(w) ==
    /\ pc[w] = "delete"
    /\ IF DeleteAccepts(w, Sid(w), mem[w]) THEN StateSetTo(Sid(w), NoSession)
                                           ELSE UNCHANGED state
    /\ Goto(w, "release")
    /\ UNCHANGED <<claims, lock, expired, call, mem, got, pos, spoolVars, sinkVars, bankVars>>

-----------------------------------------------------------------------------
Receive(w) ==
    \/ StartSession(w) \/ ResumeSession(w)
    \/ RequestInitialization(w) \/ RequestSegment(w) \/ ResponseRefused(w)
    \/ PutSegment(w) \/ RecoverBootstrap(w) \/ InitializeTransaction(w)
    \/ RecordSegment(w) \/ VerifySpool(w) \/ VerificationFails(w) \/ FailSession(w)

Process(w) ==
    \/ LoadSession(w) \/ CloseTerminal(w) \/ RefusePhase(w)
    \/ PendingFound(w) \/ AmbiguityFound(w) \/ NegativeFound(w)
    \/ LoadDocuments(w) \/ ProcessingFails(w) \/ RecordUnpacked(w)
    \/ BeginDocument(w) \/ StageDocument(w) \/ RecordStaged(w)

Acknowledge(w) ==
    \/ IntendReceipt(w) \/ PostReceipt(w) \/ ReceiptAnswered(w)
    \/ ReceiptUnanswered(w) \/ ReloadAmbiguous(w) \/ AcceptReceipt(w)

Conclude(w) ==
    \/ PublishDocument(w) \/ RecordPublished(w) \/ FinishPublished(w)
    \/ DiscardStages(w) \/ FinishNegative(w) \/ DiscardSpool(w) \/ DeleteSession(w)

(* Everything a running call does by itself; a stop only if it is late. *)
Step(w) ==
    \/ AcquireLease(w) \/ ReleaseLease(w)
    \/ Receive(w) \/ Process(w) \/ Acknowledge(w) \/ Conclude(w)
    \/ ~InTime(w) /\ Stop(w)

Interruption(w) ==
    \/ Expire(w)
    \/ InTime(w) /\ Stop(w)
    \/ Crash(w) \/ CrashDiscarding(w) \/ CrashInitializing(w) \/ CrashPutting(w)

Calls(w) == \E s \in Sessions, r \in Requests : StartDownload(w, s, r) \/ StartResolve(w, s, r)

Undisturbed == \/ \E w \in Workers : Calls(w) \/ Step(w)
               \/ \E t \in Txns : BankSettles(t)

Next == Undisturbed \/ \E w \in Workers : Interruption(w)

Spec == Init /\ [][Next]_vars

-----------------------------------------------------------------------------
(* Safety *)

(* A document is published only whole, and only when the bank has recorded    *)
(* the positive receipt of its transaction: whatever the interruption, no     *)
(* path publishes data that the bank may still offer again.                   *)
PublishedOnlyIfAccepted ==
    \A t \in Txns, p \in Positions : published[t][p] # "none" =>
        /\ published[t][p] = "complete"
        /\ bank[t] = [kind |-> "positive", fate |-> "recorded"]

(* From the moment a positive receipt is on its way, every document of the    *)
(* transaction is whole on local disk, staged or published, unless the bank   *)
(* turned out not to have the receipt: accepted data is never lost.           *)
AcceptedNeverLost ==
    \A t \in Txns : bank[t].kind = "positive" /\ bank[t].fate # "lost" =>
        \A p \in 1..Documents[t] : part[t][p] = "staged" \/ published[t][p] = "complete"

(* One receipt request at most is ever sent for a bank transaction, over all  *)
(* workers, crashes, resumptions, resolutions and new sessions.               *)
AtMostOneReceipt == \A t \in Txns : posted[t] <= 1

(* Staged plaintext always has a session whose next call finds and either     *)
(* publishes, rewrites or discards it; none is left behind by a finished,     *)
(* failed or deleted session.                                                 *)
NoOrphanedPlaintext ==
    \A t \in Txns : part[t] # NoStages =>
        \E s \in Sessions : /\ TxnOf(s) = t
                            /\ state[s].phase \in UncertainPhases \cup
                                    {"container_verified", "documents_staged"}

(* A session whose data is still needed finds in its spool exactly the        *)
(* responses its phase calls for, all of its own transaction; a session ID    *)
(* without a session has an empty spool, so that it can be used again.        *)
SpoolMatchesSession ==
    \A s \in Sessions :
        IF state[s] = NoSession THEN InSpool(s) = {}
        ELSE state[s].phase \in ReceivePhases \cup ProcessPhases =>
                /\ SpoolIndexFits(state[s], InSpool(s))
                /\ state[s].phase # "new" =>
                        \A k \in InSpool(s) : spool[s][k] = state[s].txn

(* Two workers never act on a session at once, and the one that holds the     *)
(* lock works on the stored revision: no transition is computed from a        *)
(* session that was read under an earlier lease.                              *)
NoStaleWorker ==
    \A w \in Workers : mem[w] # NoSession /\ pc[w] # "release" =>
        lock[Sid(w)] = w /\ mem[w] = state[Sid(w)]

(* A transaction of a failed session was never acknowledged to the bank,      *)
(* neither way: the bank still has its data.                                  *)
FailedNeverAcknowledged ==
    \A s \in Sessions : state[s] # NoSession =>
        (state[s].phase = "failed" /\ state[s].txn # NoTxn => posted[state[s].txn] = 0)

(* A stored session changes only in a call for the request it was started     *)
(* for, also when another request asks under the same session ID between      *)
(* the two leases of a download.                                              *)
SessionBoundToRequest ==
    [][\A s \in Sessions : state[s] # NoSession /\ state'[s] # state[s] =>
          \E w \in Workers : /\ lock[s] = w /\ pc[w] # "idle" /\ Sid(w) = s
                             /\ call[w].request = state[s].request]_vars

(* The handlers use the store only as StoreSpec allows: its step properties   *)
(* hold of the whole system.                                                  *)
UsesStoreCorrectly == StoreSpec

-----------------------------------------------------------------------------
(* The abstract delivery this implements *)

(* A copy is delivered when every document is published, held when every      *)
(* document is whole in the stage or the publication directory.               *)
CopyOf(t) ==
    IF \A p \in 1..Documents[t] : published[t][p] = "complete" THEN "delivered"
    ELSE IF \A p \in 1..Documents[t] : part[t][p] = "staged" \/ published[t][p] = "complete"
    THEN "held" ELSE "none"

TakenByClient == {t \in Txns : bank[t] = [kind |-> "positive", fate |-> "recorded"]}

Delivery == INSTANCE DocumentDelivery
                WITH Transactions <- Txns, copy <- [t \in Txns |-> CopyOf(t)],
                     taken <- TakenByClient

(* Every run of workers, crashes and operator decisions is a run of the       *)
(* abstract delivery: hand-over only of whole copies, visible only after it,  *)
(* given up only before it.                                                   *)
ImplementsDelivery == Delivery!Spec

-----------------------------------------------------------------------------
(* Liveness *)

(* Fairness: a running call goes on, the bank settles what it was sent, the   *)
(* host calls download() again whenever it can, and the operator resolves     *)
(* what he has an answer for.                                                 *)
Fairness ==
    /\ \A w \in Workers : WF_vars(Step(w))
    /\ \A w \in Workers, s \in Sessions, r \in Requests :
            SF_vars(StartDownload(w, s, r)) /\ SF_vars(StartResolve(w, s, r))
    /\ \A t \in Txns : WF_vars(BankSettles(t))

FairSpec == Spec /\ Fairness

(* Interruptions may be many but not without end. *)
EventuallyUndisturbed == <>[][Undisturbed]_vars

Settled(s) ==
    /\ state[s] # NoSession
    /\ \/ state[s].phase \in TerminalPhases
       \/ state[s].phase = "receipt_ambiguous" /\ state[s].receipt = "negative"

(* Retried long enough, every session comes to rest: complete, negatively     *)
(* complete, failed, or with a negative receipt of unknown outcome.  No       *)
(* combination of phase, spool and lock is one that every retry refuses, but  *)
(* for a spool with a temporary file in it.                                   *)
EverySessionSettles ==
    EventuallyUndisturbed => \A s \in Sessions : <>[](Settled(s) \/ s \in torn)

(* What the bank has handed over is eventually published in full.             *)
AcceptedEventuallyDelivered ==
    EventuallyUndisturbed => \A t \in Txns : [](t \in TakenByClient => <>(CopyOf(t) = "delivered"))

(* In the end neither encrypted responses nor staged plaintext are left,      *)
(* also of sessions whose cleaning up was interrupted; torn spools excepted.  *)
NothingLeftBehind ==
    EventuallyUndisturbed =>
        <>[](/\ \A s \in Sessions \ torn : InSpool(s) = {}
             /\ \A t \in Txns : part[t] = NoStages)
=============================================================================
