# EBICS Read: a TLA+ verification project

EBICS Read is a read-only EBICS 3.0 (H005) client library. It sets up a
subscriber's keys at a bank, pins the bank's keys, asks the bank what it offers
and downloads business documents in multi-segment transactions that have to be
acknowledged. This directory models the stateful part of the library and of the
file adapters in `examples/local_provider.py`, and the decoding of responses that
decides what the stateful part does. It model-checks them with TLC on small
instances. TLAPS proves for every instance every safety property the runs check: of the session
store and its state files, of the BTD download, of discovery, of key setup with its transport,
and of the decoding of responses. Only liveness rests on the small instances.

Paths below are relative to `src/`; unqualified file names are in
`src/ebics_read/`.

## 1. The system

### Parts, state and interaction

| Part | State it keeps | Operations | Talks to |
|---|---|---|---|
| Client facade (`client.py`) | none | one method per EBICS operation | trust store first, then HEV, then the backend |
| Backend (`backend.py`) | none of its own; a handler's local variables | `probe_versions`, INI, HIA, HPB, `discover_capabilities`, `download`, `resolve_ambiguous_receipt` | transport, key provider, session store, segment store, sink |
| Download session (`models.py`) | an immutable value: phase, revision, request, transaction, segments, receipt, stages | fourteen transitions and the exact-successor check | stored by the session store |
| Session store (`examples/local_provider.py`) | one state file and one kernel lock per session ID, one claim file per bank transaction | lease, load, compare-and-swap, initialize, claim, delete | used by BTD workers and by discovery at the same time |
| Segment store | one directory of numbered responses per session | put, list, read, discard | BTD workers |
| Document sink | staged and published files | begin, stage, abort, publish, discard | BTD workers |
| Bank key trust store | one file with certificates and the operator's digests | accept, require_trusted | client facade |
| HTTPS transport (`transport.py`) | none between exchanges | `exchange` | the bank |
| XML and envelopes (`xml`, `h005`, `x002`, `haa`) | counters of the scanner during a parse | scan, select the signed nodes, parse the three phases of a download | called by the orders |
| Order data (`haa`, `btd`, `hpb`, `e002`) | the buffers of one decoding | base64, decryption, inflation, ZIP extraction, each under limits | called by the backend |
| Orders (`hev`, `ini`, `hia`, `hpb`, `hpd`, `hkd`, `htd`) | none | build requests, parse versions, keys, customer data | called by the backend |
| Certificates (`certificates`) | none | validate | called by INI, HIA, HPB and the trust store |

Handlers run in the calling thread; there are no callbacks. Concurrency comes
from several processes (or threads) that share the stores, and from the bank,
which acts on a message whether or not its answer arrives. A call has a deadline
and may be cancelled; the lease of a session lasts until that deadline, the
kernel lock until it is released or the process exits.

### What is hard

* *Receipts.* After the positive receipt the bank regards the documents as
  delivered. The request may be lost, the response may be lost, the process may be
  lost before either, and the deadline that ends the exchange also ends the lease
  under which its outcome could be stored.
* *Durability in several places.* Spool, session, claims, stages and publication
  are separate files. A crash between any two writes, and inside a deletion or an
  atomic write, leaves a combination the next call has to recognise.
* *Two leases in one call.* `download` receives under one lease and processes under
  another; anybody may act in between.
* *Replays.* Responses are signed but not bound to a request by anything other than
  the transaction ID, phase and segment number that the parsers compare, and a bank
  may reuse a transaction ID.
* *Partial signatures.* X002 signs the nodes that carry a marker, not the message. Every
  field acted on must be inside one, whatever else the message contains.
* *Limits checked piece by piece.* Sizes chosen by the bank are checked while data is
  decoded in chunks that fall on no natural boundary; a limit computed from another, or
  a request for 0 more bytes, goes wrong only at exact sizes.
* *At-most-once operations.* INI and HIA must not be repeated unless nothing was sent.

`PROJECT.json` lists these as hazards, each at its line with the properties that
cover it.

### What makes each part correct

* Session and store: a stored session always passes its own validation; a bank
  transaction belongs to one session ever; only the holder of a live lease writes;
  terminal phases and the receipt decision are final.
* BTD download: at most one receipt per transaction; nothing is published that the
  bank has not handed over; nothing handed over is lost; no plaintext or spool is
  left behind; retries come to an end.
* Discovery: a positive receipt means every segment was collected; data is
  returned only when the bank has recorded the receipt; concurrent users never share a
  transaction; data the bank has been told was received is never discarded by the
  validation of the result it goes into, of one order or of all four.
* Key setup: a key is submitted at most once, a registered key always has its letter,
  only keys the operator accepted are ever used.
* Transport: a bounded body; an error that allows a retry only if nothing was sent (`KeySubmittedAtMostOnce`).
* Decoding: working in pieces decides what a definition over the whole decides; what is
  used is signed; memory is bounded; documents are the files of the archive, in order; a
  stop is not taken for bad data; every loop ends.
* State files: what was written is read back as the same session.

## 2. Modules

| Module | Models | Extends |
|---|---|---|
| `DownloadSession` | the value, its transitions, `is_exact_successor_of`, `_validate_coherence` | - |
| `SessionStore` | `FileSessionStore` with callers that try every transition | `DownloadSession` |
| `SessionFile` | the JSON form of a session: `to_mapping`, `from_mapping` | `SessionStore` |
| `SessionStore_proofs` | theorems about `SessionStore` and its state files | `SessionFile`, `TLAPS` |
| `BtdDownload` | `download` and `resolve_ambiguous_receipt`, segment store, sink, bank, operator | `SessionStore` |
| `BtdDownload_proofs` | theorems: leases, use of the store, non-interference | `BtdDownload`, `SessionStore_proofs` |
| `BtdReceipt_proofs` | theorems: control flow, binding to the request, receipts | `BtdDownload_proofs` |
| `BtdDelivery_proofs` | theorems: documents, refinement of `DocumentDelivery`, spool | `BtdReceipt_proofs` |
| `DocumentDelivery` | abstract specification: what the download promises about documents | - |
| `BtdDocumented` | statements of the documentation the code does not live up to | `MCBtdDownload` |
| `MetadataDiscovery` | `discover_capabilities` next to BTD workers on one store | `SessionStore` |
| `MetadataDiscovery_proofs` | theorems about `MetadataDiscovery` | `MetadataDiscovery`, `SessionStore_proofs` |
| `HttpsTransport` | one `exchange` | - |
| `KeySetup` | client facade, INI, HIA, HPB, trust store, over `HttpsTransport` | `HttpsTransport` |
| `KeySetup_proofs` | theorems about `KeySetup` and `HttpsTransport` | `KeySetup`, `TLAPS` |
| `ProtocolLimits` | the limits shared by the decoders | - |
| `Lists` | sums and selections over sequences, as recursive functions of the position | - |
| `XmlScanner` | `parse_xml_document` and the callbacks of its scanner | `Lists` |
| `VersionNegotiation` | HEV: `parse_hev_response`, `VersionDiscovery`, `select_h005` | - |
| `H005Envelope` | `parse_h005_response`, the nodes X002 signs, the parsers of the three phases | `ProtocolLimits`, `Lists` |
| `OrderData` | `_decode_btd_payload`, `_decode_metadata_order_data`, `iter_decrypt_e002`, `_decompress_zlib` | `ProtocolLimits`, `Lists` |
| `ZipContainer` | `_extract_btd_documents` | `ProtocolLimits`, `Lists` |
| `OrderData_proofs` | lemmas about sequences and division; theorems about `OrderData`, invariant of `ZipContainer` | `OrderData`, `ZipContainer`, `TLAPS` |
| `CustomerData` | `_parse_customer_information` of HKD and HTD | `Lists` |
| `ResponseDecoding` | the decoding components in the order the code calls them | `XmlScanner`, `VersionNegotiation`, `H005Envelope`, `OrderData`, `ZipContainer`, `CustomerData` |
| `ResponseDecoding_proofs` | invariants of the other components, theorems about the whole call | `ResponseDecoding`, `OrderData_proofs` |
| `MC...` | instances for TLC | the module of that name |

### How state and actions correspond to the code

*DownloadSession.* A session is a record with the fields of the class that the
properties tell apart. `fail(s)`, `finish(s)` and so on are the methods, `CanFail`,
`CanFinish` their checks. Staged and published documents are counted, since the
derived IDs are determined by transaction and position.

*SessionStore.* `state`, `claims` and `lock` are the files and kernel locks,
`expired` the workers past their deadline. The conditions of the operations
(`CasAccepts`, `InitializeAccepts`, `CanClaim`, `DeleteAccepts`, ...) are operators of
their own, which `BtdDownload` and `MetadataDiscovery` use in their handlers.
`InitializeInterrupted` is the crash between claim file and state file.

*BtdDownload.* A worker's label `pc` names its next durable or external step; the
Python code in between touches only local variables and belongs to the step before.
`mem` is the handler's `state` variable, `got` the last response. `spool` records which transaction
each spooled response is from; `part` and `published` what the sink holds. `bank`
is the receipt the bank was sent and its fate, settled by `BankSettles` at any later
time. `Stop` is a cancellation or deadline noticed at one of the code's checks,
`Expire` the deadline itself, `Crash...` the loss of the process between steps, inside
deletions (`CrashDiscarding`), between claim and state (`CrashInitializing`) and inside
the atomic write of a segment (`CrashPutting`). Verification, decryption and unpacking
succeed or fail nondeterministically.

*MetadataDiscovery.* One call walks through HPD, HAA, HKD and HTD. `wire` holds every
message the bank has signed; an exchange may deliver any of them, and the parsers' conditions
(`InitialAccepted`, `TransferAccepted`, `ReceiptAccepted`) decide. Order data is two support
flags (HPD) or a list of at most `MaxListed` services (the others). Results are whole
`CapabilityDiscovery` values: the orders answered and refused, HPD's parameters, the services
with their source, and the customer information of HKD and HTD. `CapabilityDiscoveryAccepts`
is the constructor's validation; the code runs it on the result of each order, after the
receipt was answered, and on their `Union`, and a value it refuses is discarded there
(`Conclude`, `ReturnCapabilities`). Decoding errors are
those the decoders raise as `ProtocolError`, which lead to a negative receipt.

*HttpsTransport and KeySetup.* An exchange is a small state machine: connect, send, response head,
bounded read, final deadline check. `Classify` is the ladder of `except` clauses, of which the
first that matches decides. `reached` says that bytes of
the request may have left the host. The bank registers a key at most once and may give
any answer; `letter` is what the caller gets (`returned`, or `pending` inside
`AmbiguousInitializationError`). `pin` is the trust store's file; its certificates
may be replaced, may expire, and the bank may change its keys.

*SessionFile.* A mapping is a record with the keys of `to_mapping`, `Null` for JSON's null.
A document is its derived staging ID and the provenance `_validate_coherence` compares.
`Loads` is what the constructor checks again, `FromFields` the session it builds.

*XmlScanner.* A document is the sequence of callbacks expat makes for it. `scan` holds the
counters of the scanner class; one step is one callback.

*H005Envelope.* A response is its sequences of children, its markers and the values of its
fields. `Signed(r)` is the list of canonical nodes X002 signs. A delivery is the response that
arrives, the original the bank signed, the key, and the request it is taken to answer.
`DataEncryptionInfo` is the algorithm of its digest, the recipient it names (`OwnDigest` is the
subscriber's own key) and the wrapped key, which unwraps if it is one of `WrappedKeys`.

*OrderData and ZipContainer.* Bytes are reduced to their number. `step` and `extraction` name
the loop the code is in; one step is one turn of it: a fragment, a base64 chunk, a slice for
the inflater, a member, a chunk of a member. `StopDecoding` and `StopExtraction` are the
checkpoints. `Refuse(condition, next)` is a check that raises. A member may hold more than
its entry declares: CPython's zipfile cuts such a member off, but the code checks for itself and the model
does not rely on the library. A damaged member is refused, directories included.

*ResponseDecoding.* `stage` names the component at work; its actions are the steps of that
component and the hand-over of its result to the next. `BtdDownload` and `MetadataDiscovery` take the
verdict as a free choice, which includes what this module computes. Its `Spec` begins with
`Receive`, any response whatever; the instance for TLC begins with the finitely many of `MCInit`,
each of which is a response of `Receive`.

External parts, modelled from how the code uses them: the bank, the operator, the
operating system (loss of a process, kernel locks, replaced files), expat, zlib and zipfile (what
they report of a document, a stream or an archive), RSA, SHA-256 and canonicalization (a
signature is what it was made over, and its key).

## 3. Model checking

| Run | States | Question |
|---|---|---|
| `session_store` | 187 k | Do any callers at all, with crashes and expiry, leave a bad store behind, or a state file that cannot be read? |
| `btd_download` | 530 k | Two workers, one session ID, two requests, two transactions: receipts, publication, plaintext, spool. Does a session stay bound to its request, also between the two leases of a download? Does the system implement `DocumentDelivery`, and use the store as `SessionStore` says? |
| `btd_liveness` | 22 k | With one worker: does every session settle, is accepted data delivered, is everything cleaned up? |
| `btd_sessions` | 845 k | Two session IDs and two requests compete for two transactions: is there ever a second receipt? |
| `discovery` | 223 k | One discovery, four transactions, up to three segments, replays; is a result ever refused after its receipt? |
| `discovery_concurrent` | 1.8 M | Two discoveries and a BTD worker, each repeated at will, on one store and two transactions. |
| `key_setup` | 3.5 M | All outcomes of all exchanges of a host that sets up keys; trust store and rotation. |
| `response_decoding` | 958 k | A response on its way from bytes to versions, documents or customer data: do the piecewise checks decide exactly what they should, is everything acted on signed, is memory bounded, does every call end? |
| `btd_negative_ambiguity`, `btd_late_receipt`, `btd_claim_crash`, `btd_torn_spool` | violation | The four findings below. |

All passing runs have finite state spaces without state constraints, except that
constants are small. Deadlock is checked everywhere but in `response_decoding`, where a call
ends; there `Decided` says that it does.

Three properties are conjunctions of named parts. `SurvivesRestart` says of every stored session
that it is coherent (what `SessionsCoherent` says, which the proofs use by itself) and that its
state file is read back as the same session. `ReturnedExactly` joins the verdicts of the components
(`XmlVerdictExact`, `OrderDataVerdictExact`, `ContainerVerdictExact`, `NegotiatedExactly`) with the verdict
on the whole response. `ResultCoherent` says that what is returned is coherent, and (`AcknowledgedNeverDiscarded`) that
the constructor refuses no result whose data was acknowledged.

### Bounds, and why they are enough

* Two segments and two documents (`MaxSegments`, `MaxDocuments`): the smallest with a first,
  a last and a difference between them. Discovery uses three, so that there is a segment which is
  neither. One transaction has two of each and the other one of each in the BTD runs.
* Two workers: every conflict in the code is between a lease holder and one other. Two
  transactions: one to be given up and one to follow, or one to be replayed.
* Two requests in `btd_download`, so that a call for the other one can come between the two leases
  of a download.
* Two sessions only in `btd_sessions`, with one worker, one segment and one document: that two
  sessions take up one transaction is a matter of calls one after the other, and of identity, not content.
* `discovery_concurrent` drops what cannot matter to ownership: services, and all
  segments but the first (`MaxSegments = 1`). A transaction changes hands only in its claim,
  which follows the first segment; that the others are collected in order is checked by `discovery`.
* `response_decoding`: one component of the response takes every value of a bounded set
  while the others are ordinary, so that the components are checked in composition without the product
  of their inputs. XML: all documents of up to four callbacks in a root. Envelopes: for each phase,
  one value and one part of the form different from what the bank signed, at every request; and
  originals in which the bank left one marker out, with a value or a part of the form changed on
  the way. Order data: up to three fragments, all
  paddings, and all streams of up to `MaxCompressed` bytes. Archives: up to four members.
  HEV: up to three versions out of six.
  The limits are 2 to 16, so that every one of them is met exactly and exceeded by one, and chunk
  sizes divide some of the lengths and not others.
* `MaxListed = 2` and two descriptors: two services are the fewest of which one may repeat the
  other, in one list or across orders, and the fewest with which two lists can differ.
* `MaxResponse = 1`, `ChunkSize = 2`, `MaxLength = 2`: body lengths below, at and above the
  limit, in one read or several, declared or not, and a chunk larger than what is left to read.
* `revision` of a session is unbounded in the specification; every transition is
  towards a terminal phase, so it is bounded by the number of segments and phases.

Symmetry is used only for sets whose members are interchangeable (in `MCBtdDownload` and
`MCMetadataDiscovery` the transaction `t1` differs and is left out) and in no liveness run.

### Fairness

`FairSpec` of `BtdDownload` assumes
* weak fairness of `Step(w)`: a running Python call goes on, and stops when it is late;
* strong fairness of `StartDownload` and `StartResolve`: the host retries each session, the
  operator resolves what he has an answer for. The library leaves retrying to its host, so
  this is an assumption on the host;
* weak fairness of `BankSettles`: a sent receipt is eventually recorded or lost.

`Fairness` of `ResponseDecoding` is weak fairness of every step but the stops: decoding is
one call in one thread, which nothing suspends; that the host stops it is not counted on.

No fairness is assumed of crashes, stops or expiry; the properties hold if these are
finitely many (`EventuallyUndisturbed`). Liveness is checked with one worker: two
retrying workers can keep taking the lease in each other's gap between receiving and
processing, and the code has nothing against that.

### Assumptions on the environment

* `AnswerStands`: the operator's answer in `resolve_ambiguous_receipt` is true of the
  session's present transaction. The call names a session, not a transaction, so the
  code cannot check it.
* The host repeats INI or HIA only after an error that `classify_retry` calls transient, and accepts
  bank keys only by the digests the bank publishes.
* Signatures and digests are sound: a message that passes X002 verification was
  written by the bank.

### Findings

1. `btd_negative_ambiguity`: `download` says of any ambiguous receipt that
   `resolve_ambiguous_receipt` closes the session out; for a negative one it refuses, and
   no other operation ends the session.
2. `btd_late_receipt`: `docs/architecture.md` says an uncertain outcome becomes
   `receipt_ambiguous`; when the deadline ended the exchange the lease is gone too, the write
   is refused, and the session stays `receipt_pending`. The next call classifies it, so
   no safety property suffers.
3. `btd_claim_crash`: claim and initialized state are documented as one atomic operation;
   the file store writes two files, and a crash in between burns the transaction. The
   session then fails, which `EverySessionSettles` covers.
4. `btd_torn_spool`: a process lost inside `put_segment` leaves a temporary file among the
   segments; `list_segments` converts its name with `int()`, and every later call
   for the session raises `ValueError`. The liveness properties except such
   spools by name (`torn`).

## 4. Proofs

All theorems hold for every value of the constants that satisfies the named assumptions
of the modules. None of them assumes fairness.

### Session store

`SessionStore_proofs` proves for all sets of sessions, workers, requests and
transactions and all limits, from `SessionAssumption` and `StoreAssumption` only:

| Theorem | Statement |
|---|---|
| `StoreTypesHold` | `StoreSpec => []StoreTypeOK` |
| `StoreKeepsCoherence` | `StoreSpec => []SessionsCoherent` |
| `StoreSeparatesTransactions` | `StoreSpec => []OneSessionPerTransaction` |
| `StoreNeverRevives` | `StoreSpec => NeverTakenUpAgain` |
| `StoreKeepsCommitments` | `StoreSpec => CommitmentsStand` |
| `StoreWritesNeedLease` | `StoreSpec => OnlyLeaseHolderWrites` |

The inductive invariant is `StoreInv == StoreTypeOK /\ SessionsCoherent /\
OneSessionPerTransaction`. Coherence alone is not inductive: a transition is coherent only
for a coherent argument within the type's bounds (`record_segment` needs `next <= total`
to stay in range). Separation needs that a session's transaction is claimed, since the
claim is what a second initialization is refused for; the claim part is therefore in
`OneSessionPerTransaction`.

The argument has two layers. *Values*: `AdvanceFields` says what `_advance` keeps,
`SuccessorCoherent` that every exact successor of a coherent session is coherent (one case
per transition), `SuccessorCommitted` that it keeps request, receipt kind and terminal
phase; `StartCoherent` and `InitializeCoherent` cover the two ways a session gets in.
*Store*: `CasEffect`, `InitializeEffect` and `StepEffect` reduce every step to one of
four effects on state and claims; `EffectKeepsInv` and the action properties are
proved of the effects, once each.

### State files

`SessionStore_proofs` adds, with `NullAssumption` (JSON's null is no transaction, number or receipt kind):

| Theorem | Statement |
|---|---|
| `StoreSurvivesRestart` | `StoreSpec => []SurvivesRestart` |

It follows from `StoreInv`: `ReadInverts` shows that reading inverts writing for every typed
session, `WrittenFieldsValid` and `WrittenDocumentsValid` that a coherent one passes the
constructor's checks. It is what allows `SessionStore` to keep the session itself as the content of
the state file.

### BTD download

From `SessionAssumption`, `StoreAssumption` and `BtdAssumption` (a transaction has at least one
segment and one document, and no more than the limits allow); any number of workers, sessions,
requests and transactions:

| Theorem | Statement | Rests on |
|---|---|---|
| `DownloadUsesStore` | `Spec => UsesStoreCorrectly` (a refinement of `SessionStore`) | `LeaseInv` |
| `WorkersNeverStale` | `Spec => []NoStaleWorker` | `LeaseInv` |
| `DownloadTypesHold` | `Spec => []TypeOK` | `FlowInv` |
| `SessionsBound` | `Spec => SessionBoundToRequest` | `FlowInv` |
| `OneReceiptAtMost` | `Spec => []AtMostOneReceipt` | `ReceiptInv` |
| `FailuresUnacknowledged` | `Spec => []FailedNeverAcknowledged` | `ReceiptInv` |
| `PublicationAccepted` | `Spec => []PublishedOnlyIfAccepted` | `DocInv` |
| `AcceptedKept` | `Spec => []AcceptedNeverLost` | `DocInv` |
| `NoPlaintextOrphaned` | `Spec => []NoOrphanedPlaintext` | `DocInv` |
| `DownloadDelivers` | `Spec => ImplementsDelivery` (a refinement of `DocumentDelivery`) | `DocInv` |
| `SpoolsMatch` | `Spec => []SpoolMatchesSession` | `SpoolInv` |

None of these properties is inductive by itself: each speaks of files or of the bank, while a
handler decides by what it remembers. The inductive invariants are built in layers, each
proved with the one below as a hypothesis:

1. `LeaseInv`: a worker past its load holds the lock of its session and of no other, and the
   session in its memory is the one on file; `StoreInv` is part of it, since a write is judged
   against the stored session. It fails if a worker could write after its
   lease was taken over, which is what `Expire` and the kernel lock are about.
2. `FlowInv`: the phases a session may have at each label of the code, the positions in the
   document loops, the request a worker may work for, and that an operator's answer stays
   true while a resolution acts on it.
3. `ReceiptInv`: what a phase on file says about the bank (`Known`). The intent is written
   before the receipt is posted and never after, so the phase bounds what the bank may have been
   told, also when the process was lost in between.
4. `DocInv`: what a phase says about stages and documents, and how far each loop over them has
   come. `SpoolInv`, beside it on `FlowInv`, says the same of the spool.

Two facts of non-interference carry the proofs over to many workers: a step of one worker leaves
the memory of the others, and state, lock and spool of every session it has not locked, alone
(`StepOthersAlone`); and it leaves stages, documents and receipt of every transaction but its own
session's alone (`StepTxnsAlone`), which is where `OneSessionPerTransaction` of the store
comes in. With them each layer is one lemma about a worker's own step, one case per action
(`WorkerNext` with the crashes), and one about all others. By `DownloadUsesStore` the store's theorems
hold of the store under these workers.

### Key setup and transport

From `TransportAssumption`, for all limits, chunk sizes and bank keys:

| Theorem | Statement |
|---|---|
| `SetupTypesHold` | `Spec => []TypeOK` |
| `BodiesBounded` | `Spec => []BodyBounded` |
| `SubmittedOnce` | `Spec => []KeySubmittedAtMostOnce` |
| `RegistrationHasLetter` | `Spec => []RegisteredKeyHasLetter` |
| `ReturnedRegistered` | `Spec => []ReturnedLetterIsRegistered` |
| `AcceptedKeysOnly` | `Spec => []OnlyAcceptedKeysUsed` |

`KeyInv` joins what the outcome of an exchange says about the request (`ExchangeFits`: after
"transient" nothing was sent, and INI and HIA never report a stop once something was), which
call the exchange belongs to (`CallFits`), and per key what was submitted, registered and
answered (`SubmissionFits`). The host decides about letter and repetition by the outcome alone; that
this is safe is exactly the link between the first part and the last. `ClassifyFacts` is
the lemma about the `except` clauses. Its first proof failed: `Classify` was a `CASE` with overlapping
guards, which leaves the choice open, whereas Python takes the first clause that matches. It
is now written in that order.

### Discovery

From `SessionAssumption`, `StoreAssumption` and `DiscoveryAssumption` (every transaction has a
segment; the value for "no parameters" is none of the parameters), for any number of discoveries next to BTD
workers that do whatever the store allows:

| Theorem | Statement |
|---|---|
| `DiscoveryTypesHold` | `Spec => []DiscoveryTypeOK` |
| `DiscoveryOwnsTransaction` | `Spec => []TransactionNotShared` |
| `AcknowledgedOnce` | `Spec => []AcknowledgedAtMostOnce` |
| `PositiveWhole` | `Spec => []PositiveOnlyIfWhole` |
| `ReturnedRecorded` | `Spec => []ReturnedOnlyIfRecorded` |
| `ResultsCoherent` | `Spec => []ResultCoherent` |

`DiscoveryInv` contains `StoreInv`. Ownership makes one receipt per transaction inductive: a
transaction that is still worked on, or not claimed, has no receipt yet (`ReceiptsFit`). That a claim
is not handed out twice, and that a claimed transaction without a session gets none, is taken from
the effect lemmas of the store (`StoreKept`). The segments collected are always `1..n` of
one transaction (`StageFits`). `ResultFits` says what the result of an order may contain: that order
alone as answered or refused, services with that order as their source and none twice, and customer
information exactly if it was HKD or HTD and answered, with the same services. `ResultAccepted` shows that the
constructor accepts every such value, `UnionAccepted` that it accepts their union: orders and
services of different results differ (`OrdersJoined`, `JoinDistinct`), and the services of the union
with source HKD and HTD are still exactly those of the customer information.

### Decoding of responses

`OrderData_proofs` and `ResponseDecoding_proofs`, for all responses of the forms in `Receive`, all
limits and all chunk sizes:

| Theorem | Statement | Rests on |
|---|---|---|
| `EncodedLimitAdmits` | data within `MaxCompressed` is within the limits on its encrypted and its encoded form | - |
| `DecodingBounded` | `DecodingSpec => []BuffersBounded` | `BufferInv` |
| `DecodingExact` | `DecodingSpec => []OrderDataVerdictExact` | `ExactInv` |
| `ResponseSigned` | `Spec => []OutcomeIsSigned` | `ResponseInv` |
| `ResponseRights` | `Spec => []CustomerRightsKept` | `ResponseInv` |
| `ResponseDocuments` | `Spec => []DocumentsAreTheFiles` | `ZipInv` in `ResponseInv` |
| `ResponseBounded` | `Spec => [](BuffersBounded /\ ExtractionBounded)` | `BufferInv`, `ZipInv` in `ResponseInv` |
| `ResponseExact` | `Spec => []ReturnedExactly` | `ResponseInv` |

Assumptions: the limits are positive and a member's limit is within the archive's (`LimitsPositive`,
`MemberWithinTotal`, `XmlLimits`, `OrderDataLimits`), a base64 chunk is a multiple of four
characters (`WholeQuantums`), a chunk of a member has at least one byte (`ZipChunkPositive`), the pinned key
is a key (`PinnedAssumption`), and the values for "no service" and "unrestricted" are no service
and no list of services (`CustomerAssumption`).

*Sums and selections.* The code works in pieces; the properties speak of wholes. Both are linked
by running sums and selections, which `Lists` defines as recursive functions of the position.
`UpTo` is induction over positions, with a set in place of a predicate: there is no least position
at which it fails (`LeastNumber`, from the well-foundedness of the naturals). With it
`RunningStep` and `KeepingStep` show that functions with these recursions exist, so that the value at a
position is given by the one before it. What holds of every position then follows by `UpTo`
or by the inductive invariant of the loop itself, one turn at a time.

*Scanner.* `EventGood` says what the limits mean for one callback, and `EventsJudged` that all
callbacks are good exactly if the document is admissible as a whole. `ScanInv` says that the
counters are the running sums of the callbacks made (`Tracked`, with the open text node and the
IDs seen) and that a failure is remembered exactly if one of them was bad. Without the counters'
meaning the verdict is not inductive; without the remembered failure it is not true, since expat may go
on after a callback that failed.

*Order data.* `BuffersBounded` is not inductive: the steps that refuse leave a buffer past its limit.
`BufferInv` adds that buffers are within their limits as long as decoding goes on, and that the
fragments of the second pass were checked by the first. `ExactInv` adds, for the verdict, where
every character taken is: decoded, pending, decrypted or held back (`Fed`), and which slices have
been inflated (`Inflating`). `DivisionUnique` and `RemainderShift` are the arithmetic: blocks and
quantums do not line up with chunks, and `DecryptableWhole` shows that what `iter_decrypt_e002` holds back ends as one
block exactly if the ciphertext is whole blocks. `SliceCounted` shows that the slices cover the
data and that none is empty.

*Archive.* `ZipInv`: the members before the current one were good, their names are distinct and
remembered, the running total is what their files declare, and the documents are the files among
them (`FilesUpTo`). A member is read only up to what its entry declares, so the documents add up to at most
what was checked.

*Envelope.* `SignedNodes` determines the set of nodes a signature is over for any response, whatever
the order and number of its elements, `OneSignature` that equal signatures mean equal marked nodes, and
`SignedFields` that in a response the parser accepts these include every field acted on, the
recipient of the key among them.
The proof found an error in the statement: `OutcomeIsSigned` took the timestamp of the original
as it stands there, but in an original it may be unmarked and then is not signed. The property now compares with
`SignedStamp`, and `MCInit` has such originals.

*Customer data and versions.* `InformationKeepsRights` follows the catalogue, account restrictions
and permissions through the reduction to BTD. `NegotiationExact` shows that
H005 is selected exactly if the advertised pairs, as a relation, are one-to-one and offer it.

*Composition.* `ResponseInv` joins the invariants of the components with what the earlier stages
found: which document the scanner has and which it accepted (`DocumentsScanned`), that the
envelope was read once and leads on only from an initial response (`EnvelopeRead`), that extraction
begins with what the decoders expanded (`OrderExpanded`), and that nothing is returned before the
end (`Returns`). Without them the last component's verdict would not be one about the whole
response.

### Only model-checked

Liveness, which the prover does not reach: `EverySessionSettles` and the others of `btd_liveness`,
and `Decided`. The four findings are counterexamples of TLC. Everything else the runs check is proved.

## 5. Not modelled

* RSA, AES, digests, canonicalization, zlib, expat and zipfile: external, assumed to do what
  they say. Certificates: one conjunction of checks without state or order, whose verdict is a choice.
* The builders of requests: fixed XML from checked values, without state.
* The syntax of single text fields (names, amounts, dates, URLs) and the parsers of HPD and HAA
  beyond the support flags and service lists that `MetadataDiscovery` uses: each is one
  condition, here one flag per element.
* TLS and proxy configuration: checked once, when the transport is made.
* `testing.py`: in-memory doubles of the stores, with the interface of the file adapters.
* Loss of the disk, torn renames, and clocks that run backwards.

## 6. Plan

Done, in this order: `DownloadSession`, `SessionStore` with its proofs, `BtdDownload` with
`DocumentDelivery`, `MetadataDiscovery`, `HttpsTransport` with `KeySetup`; the decoding of
responses (`XmlScanner`, `H005Envelope`, `OrderData` with its proofs, `ZipContainer`, `CustomerData`,
`VersionNegotiation`, composed in `ResponseDecoding`) and `SessionFile` with its proofs; then the
proofs about `KeySetup`, `MetadataDiscovery` and `BtdDownload`, the two refinements included.
Last, the proofs about the decoding of responses as a whole, for which the sums and selections
of the decoders were rewritten as the recursive functions of `Lists`.

Left: that the scanner, decoders and extraction end for all inputs, not only those of the instance
(`Decided`). Each has a measure that every step decreases (callbacks left; fragments, characters
and bytes left; members and bytes left), so what is missing is a prover for liveness, not an argument.
