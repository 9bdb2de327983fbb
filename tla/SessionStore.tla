---------------------------- MODULE SessionStore ----------------------------
(***************************************************************************)
(* The durable session store of examples/local_provider.py                 *)
(* (FileSessionStore): one kernel lock and one state file per session ID,  *)
(* one claim file per bank transaction ID.                                 *)
(*                                                                         *)
(* A lease lasts until the deadline of the call that took it.  Past the    *)
(* deadline its holder can neither load nor write, but it keeps the kernel *)
(* lock until it releases it or its process exits.                         *)
(*                                                                         *)
(* The module is used twice: on its own, with callers that may try any     *)
(* transition at any time, and as the store of BtdDownload, whose handlers *)
(* are built from the operators below.                                     *)
(***************************************************************************)
EXTENDS DownloadSession, FiniteSets

CONSTANTS
    Sessions,   \* session IDs chosen by the callers
    Workers,    \* processes that may hold a lease
    NoWorker    \* nobody holds the lock

ASSUME StoreAssumption ==
    /\ NoWorker \notin Workers
    /\ NoSession \notin Session

VARIABLES
    state,    \* state[s]: the DownloadSession in the state file, or NoSession
    claims,   \* transaction IDs with a claim file
    lock,     \* lock[s]: the worker holding the kernel lock of s, or NoWorker
    expired   \* workers whose current call is past its deadline

storeVars == <<state, claims, lock, expired>>

StoreTypeOK ==
    /\ state \in [Sessions -> Session \cup {NoSession}]
    /\ claims \subseteq Txns
    /\ lock \in [Sessions -> Workers \cup {NoWorker}]
    /\ expired \subseteq Workers

StoreInit ==
    /\ state = [s \in Sessions |-> NoSession]
    /\ claims = {}
    /\ lock = [s \in Sessions |-> NoWorker]
    /\ expired = {}

-----------------------------------------------------------------------------
(* The store's operations, as conditions and effects. *)

TxnOf(s) == IF state[s] = NoSession THEN NoTxn ELSE state[s].txn

HoldsLeaseForever(w, s) == lock[s] = w   \* mutant: the deadline of the lease is ignored

(* _require_lease: current and not past its deadline *)
HoldsLease(w, s) == lock[s] = w /\ w \notin expired

CanAcquireShared(w, s) == w \notin expired   \* mutant: the kernel lock is shared

CanAcquire(w, s) == lock[s] = NoWorker /\ w \notin expired

(* compare_and_swap stores new; it returns False or raises otherwise. *)
CasAccepts(w, s, expected, new) ==
    /\ HoldsLease(w, s)
    /\ IF state[s] = NoSession
       THEN expected = NoSession /\ new.phase = "new" /\ new.revision = 0 /\ new.txn = NoTxn
       ELSE /\ expected # NoSession
            /\ expected.revision = state[s].revision
            /\ new.request = state[s].request /\ new.txn = state[s].txn
            /\ new.revision = state[s].revision + 1
            /\ is_exact_successor_of(new, state[s])

(* initialize_transaction, up to the claim of the transaction ID *)
InitializeAccepts(w, s, expected, t, n) ==
    /\ HoldsLease(w, s)
    /\ state[s] # NoSession
    /\ expected.revision = state[s].revision
    /\ CanInitialize(state[s], t, n)

ClaimCheckedInSessions(t) ==   \* mutant: only live sessions are searched, not the claims
    \A s \in Sessions : TxnOf(s) # t

CanClaim(t) == t \notin claims

DeleteAccepts(w, s, expected) ==
    HoldsLease(w, s) /\ state[s] # NoSession /\ expected.revision = state[s].revision

StateSetTo(s, new) == state' = [state EXCEPT ![s] = new]

LocksFreedBy(w) == [s \in Sessions |-> IF lock[s] = w THEN NoWorker ELSE lock[s]]

-----------------------------------------------------------------------------
(* The store with arbitrary callers. *)

(* A worker starts another call, with a deadline of its own. *)
NewDeadline(w) ==
    /\ w \in expired /\ \A s \in Sessions : lock[s] # w
    /\ expired' = expired \ {w}
    /\ UNCHANGED <<state, claims, lock>>

DeadlinePasses(w) ==
    /\ w \notin expired
    /\ expired' = expired \cup {w}
    /\ UNCHANGED <<state, claims, lock>>

acquire_lease(w, s) ==
    /\ CanAcquire(w, s)
    /\ lock' = [lock EXCEPT ![s] = w]
    /\ UNCHANGED <<state, claims, expired>>

release_lease(w, s) ==
    /\ lock[s] = w
    /\ lock' = [lock EXCEPT ![s] = NoWorker]
    /\ UNCHANGED <<state, claims, expired>>

(* The kernel frees the locks of a process that exits. *)
ProcessExits(w) ==
    /\ \E s \in Sessions : lock[s] = w
    /\ lock' = LocksFreedBy(w)
    /\ UNCHANGED <<state, claims, expired>>

compare_and_swap(w, s, expected, new) ==
    /\ CasAccepts(w, s, expected, new)
    /\ StateSetTo(s, new)
    /\ UNCHANGED <<claims, lock, expired>>

InitializeUnclaimed(w, s, t, n) ==   \* mutant: no claim file is written
    /\ InitializeAccepts(w, s, state[s], t, n)
    /\ CanClaim(t)
    /\ StateSetTo(s, initialize(state[s], t, n))
    /\ UNCHANGED <<claims, lock, expired>>

initialize_transaction(w, s, t, n) ==
    /\ InitializeAccepts(w, s, state[s], t, n)
    /\ CanClaim(t)
    /\ claims' = claims \cup {t}
    /\ StateSetTo(s, initialize(state[s], t, n))
    /\ UNCHANGED <<lock, expired>>

(* The process exits after the claim file is written, before the state is. *)
InitializeInterrupted(w, s, t, n) ==
    /\ InitializeAccepts(w, s, state[s], t, n)
    /\ CanClaim(t)
    /\ claims' = claims \cup {t}
    /\ lock' = LocksFreedBy(w)
    /\ UNCHANGED <<state, expired>>

(* Discovery claims IDs without a session. *)
claim_transaction_id(t) ==
    /\ CanClaim(t)
    /\ claims' = claims \cup {t}
    /\ UNCHANGED <<state, lock, expired>>

delete(w, s) ==
    /\ DeleteAccepts(w, s, state[s])
    /\ StateSetTo(s, NoSession)
    /\ UNCHANGED <<claims, lock, expired>>

(* What callers may ask to store: a first state, or any successor. *)
Proposals(s) == IF state[s] = NoSession THEN {start(r) : r \in Requests}
                                        ELSE Successors(state[s])

WorkerStep(w) ==
    \/ NewDeadline(w)
    \/ DeadlinePasses(w)
    \/ ProcessExits(w)
    \/ \E s \in Sessions :
          \/ acquire_lease(w, s)
          \/ release_lease(w, s)
          \/ \E new \in Proposals(s) : compare_and_swap(w, s, state[s], new)
          \/ \E t \in Txns, n \in 1..MaxSegments :
                initialize_transaction(w, s, t, n) \/ InitializeInterrupted(w, s, t, n)
          \/ delete(w, s)

StoreNext == \/ \E w \in Workers : WorkerStep(w)
             \/ \E t \in Txns : claim_transaction_id(t)

StoreSpec == StoreInit /\ [][StoreNext]_storeVars

-----------------------------------------------------------------------------
(* What the store promises to every caller. *)

(* Whatever transitions the callers chain, deleting and starting over         *)
(* included, every stored session passes _validate_coherence, so that         *)
(* from_mapping can load it again after a restart.                            *)
SessionsCoherent ==
    \A s \in Sessions : state[s] # NoSession => Coherent(state[s])

(* A bank transaction belongs to at most one session ID, and every            *)
(* transaction a session works on has its claim file.                         *)
OneSessionPerTransaction ==
    /\ \A s \in Sessions : TxnOf(s) # NoTxn => TxnOf(s) \in claims
    /\ \A s1, s2 \in Sessions : s1 # s2 /\ TxnOf(s1) = TxnOf(s2) => TxnOf(s1) = NoTxn

(* A claimed transaction that no session holds is never taken up again: the   *)
(* claim outlives delete() and a crash between claim and state file.          *)
NeverTakenUpAgain ==
    [][\A t \in claims : (\A s \in Sessions : TxnOf(s) # t)
                            => (\A s \in Sessions : TxnOf(s)' # t)]_storeVars

(* As long as its state is not deleted, a session keeps its request, leaves   *)
(* no terminal phase, and never exchanges one receipt kind for the other.     *)
CommitmentsStand ==
    [][\A s \in Sessions : state[s] # NoSession /\ state'[s] # NoSession =>
          /\ state'[s].request = state[s].request
          /\ state[s].phase \in TerminalPhases => state'[s] = state[s]
          /\ state[s].receipt # "none" => state'[s].receipt = state[s].receipt]_storeVars

(* Only a worker inside its deadline that holds the kernel lock changes the   *)
(* state of a session; a late worker that woke up after its deadline cannot.  *)
OnlyLeaseHolderWrites ==
    [][\A s \in Sessions : state'[s] # state[s] =>
          lock[s] \in Workers /\ lock[s] \notin expired]_storeVars
=============================================================================
