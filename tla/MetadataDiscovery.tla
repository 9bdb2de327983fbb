-------------------------- MODULE MetadataDiscovery --------------------------
(***************************************************************************)
(* EbicsBackend.discover_capabilities(): the metadata orders HPD, HAA, HKD *)
(* and HTD, each a bank transaction of its own: an initialization, further *)
(* segments, and a receipt.  Nothing of a discovery is durable but the     *)
(* claim of the transaction ID, which it shares with the BTD sessions of   *)
(* SessionStore.                                                           *)
(*                                                                         *)
(* Responses are authentic (their X002 signature was verified) but not     *)
(* fresh: an exchange may deliver any message the bank has ever signed.    *)
(* Which of them is accepted is decided by the parsers of haa.py, which    *)
(* the other orders use as well.                                           *)
(***************************************************************************)
EXTENDS SessionStore, SequencesExt

CONSTANTS
    Calls,        \* discover_capabilities calls in progress
    Descriptors,  \* BTF service descriptors
    BankTotal,    \* BankTotal[t]: number of segments of the bank's transaction t
    MaxListed,    \* bound: services an order's data lists
    NoParams      \* bank_parameters is None

Parameters == [orderData: BOOLEAN, clientData: BOOLEAN]

ASSUME DiscoveryAssumption ==
    /\ BankTotal \in [Txns -> 1..MaxSegments]
    /\ MaxListed \in Nat
    /\ NoParams \notin Parameters

VARIABLES
    dpc,      \* dpc[c]: label of the call
    order,    \* order[c]: position in Orders of the order it is at
    txn,      \* txn[c]: transaction of that order, or NoTxn
    parts,    \* parts[c]: the fragments collected, as <<transaction, number>>
    payload,  \* payload[c]: decoded order data awaiting its receipt
    found,    \* found[c]: results of the orders behind it
    via,      \* via[c]: the transactions those results came from
    wire,     \* every message the bank has signed
    receipts  \* receipts[t]: receipts sent for t, in order

callVars == <<dpc, order, txn, parts, payload, found, via>>
bankVars == <<wire, receipts>>
vars == <<storeVars, callVars, bankVars>>

(* discover_capabilities asks in this order. *)
Orders == <<"HPD", "HAA", "HKD", "HTD">>
OrderSet == ToSet(Orders)

(* What an order's data may hold: support flags, or a list of services in     *)
(* which the bank may name one twice.                                         *)
ServiceLists == UNION {[1..n -> Descriptors] : n \in 0..MaxListed}
Payloads(o) == IF o = "HPD" THEN Parameters ELSE ServiceLists

Message == [phase: {"Initialisation", "Transfer", "Receipt"}, txn: Txns,
            segment: 0..MaxSegments, last: BOOLEAN, code: ReceiptKinds]

(* HKD and HTD also return a CustomerInformation: services of a customer.     *)
CustomerOrders == {"HKD", "HTD"}
CustomerInformation == [source: CustomerOrders, services: Seq(OrderSet \X Descriptors)]

(* The values of CapabilityDiscovery; a service is marked with its order. *)
CapabilityDiscovery ==
    [services: Seq(OrderSet \X Descriptors), completed: Seq(OrderSet), unsupported: Seq(OrderSet),
     params: Parameters \cup {NoParams}, customers: Seq(CustomerInformation)]

(* The defaults of its fields: nothing is known of any order. *)
Unknown == [services |-> <<>>, completed |-> <<>>, unsupported |-> <<>>, params |-> NoParams,
            customers |-> <<>>]

DiscoveryTypeOK ==
    /\ StoreTypeOK
    /\ dpc \in [Calls -> {"idle", "ask", "claim", "collect", "decode", "receipt",
                          "done", "failed"}]
    /\ order \in [Calls -> 1..(Len(Orders) + 1)]
    /\ txn \in [Calls -> Txns \cup {NoTxn}]
    /\ \A c \in Calls : /\ parts[c] \in Seq(Txns \X (1..MaxSegments))
                        /\ Len(parts[c]) <= MaxSegments
    /\ found \in [Calls -> [OrderSet -> CapabilityDiscovery]]
    /\ wire \subseteq Message

Init ==
    /\ StoreInit
    /\ dpc = [c \in Calls |-> "idle"]
    /\ order = [c \in Calls |-> 1]
    /\ txn = [c \in Calls |-> NoTxn]
    /\ parts = [c \in Calls |-> <<>>]
    /\ payload = [c \in Calls |-> [kind |-> "none"]]
    /\ found = [c \in Calls |-> [o \in OrderSet |-> Unknown]]
    /\ via = [c \in Calls |-> [o \in OrderSet |-> NoTxn]]
    /\ wire = {}
    /\ receipts = [t \in Txns |-> <<>>]

-----------------------------------------------------------------------------
(* The bank's messages and what the parsers accept *)

InitialResponse(t) ==
    [phase |-> "Initialisation", txn |-> t, segment |-> 1, last |-> BankTotal[t] = 1,
     code |-> "none"]

TransferResponse(t, k) ==
    [phase |-> "Transfer", txn |-> t, segment |-> k, last |-> BankTotal[t] = k,
     code |-> "none"]

ReceiptResponse(t, kind) ==
    [phase |-> "Receipt", txn |-> t, segment |-> 0, last |-> FALSE, code |-> kind]

(* _parse_haa_initial_response: transaction ID and segment count are taken    *)
(* from the message; only its phase and first segment can be checked.         *)
InitialAccepted(m) ==
    m.phase = "Initialisation" /\ m.segment = 1 /\ m.last = (BankTotal[m.txn] = 1)

TransferAcceptedAnySegment(m, t, k) ==   \* mutant: the segment number is not compared
    m.phase = "Transfer" /\ m.txn = t

TransferAccepted(m, t, k) ==
    /\ m.phase = "Transfer"
    /\ m.txn = t
    /\ m.segment = k /\ m.last = (k = BankTotal[t])   \* total of the first response

ReceiptAcceptedAnyTransaction(m, t, kind) ==   \* mutant: the transaction is not compared
    m.phase = "Receipt" /\ m.code = kind

ReceiptAccepted(m, t, kind) == m.phase = "Receipt" /\ m.code = kind /\ m.txn = t

DecodeAcceptsDuplicates(o, p) == TRUE   \* mutant: a service may be listed twice

(* The decoders refuse a list that names a service twice. *)
DecodeAccepts(o, p) == o # "HPD" => IsInjective(p)

-----------------------------------------------------------------------------
(* Results *)

UnsupportedResult(o) == [Unknown EXCEPT !.unsupported = <<o>>]

HpdResult(p) == [Unknown EXCEPT !.completed = <<"HPD">>, !.params = p]

Sourced(o, p) == [i \in DOMAIN p |-> <<o, p[i]>>]

HaaResult(p) == [Unknown EXCEPT !.completed = <<"HAA">>, !.services = Sourced("HAA", p)]

CustomerResultSourceHkd(o, p) ==   \* mutant: the shared decoder takes every order for HKD
    [Unknown EXCEPT !.completed = <<o>>, !.services = Sourced("HKD", p),
                    !.customers = << [source |-> "HKD", services |-> Sourced("HKD", p)] >>]

(* HKD and HTD: the services twice, in the aggregate and with the customer. *)
CustomerResult(o, p) ==
    [Unknown EXCEPT !.completed = <<o>>, !.services = Sourced(o, p),
                    !.customers = << [source |-> o, services |-> Sourced(o, p)] >>]

Result(o, p) == CASE o = "HPD" -> HpdResult(p)
                  [] o = "HAA" -> HaaResult(p)
                  [] o \in CustomerOrders -> CustomerResult(o, p)

(* The checks of the constructor, which runs on the result of each order and  *)
(* on their union.                                                            *)
Sources(r) == {k.source : k \in ToSet(r.customers)}
CustomerServices(r) == UNION {ToSet(k.services) : k \in ToSet(r.customers)}
CapabilityDiscoveryAccepts(r) ==
    /\ IsInjective(r.services)
    /\ ToSet(r.completed) \cup ToSet(r.unsupported) \subseteq OrderSet
    /\ ToSet(r.completed) \cap ToSet(r.unsupported) = {}
    /\ IsInjective(r.completed) /\ IsInjective(r.unsupported)
    /\ \A s \in ToSet(r.services) : s[1] \in ToSet(r.completed)
    /\ CustomerServices(r) = {s \in ToSet(r.services) : s[1] \in CustomerOrders}
    /\ (r.params # NoParams) <=> ("HPD" \in ToSet(r.completed))
    /\ \A i, j \in DOMAIN r.customers : r.customers[i].source = r.customers[j].source => i = j
    /\ Sources(r) \subseteq ToSet(r.completed)
    /\ ToSet(r.completed) \cap CustomerOrders \subseteq Sources(r)

UnionWithoutUnsupportedHkd(c) ==   \* mutant: unsupported_orders of HKD is left out
    LET f == found[c]
    IN  [services |-> f["HAA"].services \o f["HKD"].services \o f["HTD"].services,
         completed |-> f["HPD"].completed \o f["HAA"].completed
                          \o f["HKD"].completed \o f["HTD"].completed,
         unsupported |-> f["HPD"].unsupported \o f["HAA"].unsupported \o f["HTD"].unsupported,
         params |-> f["HPD"].params,
         customers |-> f["HKD"].customers \o f["HTD"].customers]

(* The arguments of the union, field by field. *)
Union(c) ==
    LET f == found[c]
    IN  [services |-> f["HAA"].services \o f["HKD"].services \o f["HTD"].services,
         completed |-> f["HPD"].completed \o f["HAA"].completed
                          \o f["HKD"].completed \o f["HTD"].completed,
         unsupported |-> f["HPD"].unsupported \o f["HAA"].unsupported
                            \o f["HKD"].unsupported \o f["HTD"].unsupported,
         params |-> f["HPD"].params,
         customers |-> f["HKD"].customers \o f["HTD"].customers]

-----------------------------------------------------------------------------
(* One discovery *)

Goto(c, l) == dpc' = [dpc EXCEPT ![c] = l]

(* Any exception of an exchange, a parser or the claim ends the whole call. *)
Fails(c) == Goto(c, "failed") /\ UNCHANGED <<order, txn, parts, payload, found, via>>

StartDiscovery(c) ==
    /\ dpc[c] \in {"idle", "done", "failed"}
    /\ Goto(c, "ask")
    /\ order' = [order EXCEPT ![c] = 1]
    /\ txn' = [txn EXCEPT ![c] = NoTxn]
    /\ parts' = [parts EXCEPT ![c] = <<>>]
    /\ payload' = [payload EXCEPT ![c] = [kind |-> "none"]]
    /\ found' = [found EXCEPT ![c] = [o \in OrderSet |-> Unknown]]
    /\ via' = [via EXCEPT ![c] = [o \in OrderSet |-> NoTxn]]
    /\ UNCHANGED <<storeVars, bankVars>>

(* HPD, if it was completed, rules out HAA or both HKD and HTD. *)
RuledOut(c, o) ==
    /\ found[c]["HPD"].params # NoParams
    /\ \/ o = "HAA" /\ ~found[c]["HPD"].params.orderData
       \/ o \in {"HKD", "HTD"} /\ ~found[c]["HPD"].params.clientData

(* Construct the result of the order at hand and turn to the next one. *)
Conclude(c, result) ==
    IF ~CapabilityDiscoveryAccepts(result) THEN Fails(c) ELSE
    /\ found' = [found EXCEPT ![c][Orders[order[c]]] = result]
    /\ via' = [via EXCEPT ![c][Orders[order[c]]] = txn[c]]
    /\ order' = [order EXCEPT ![c] = @ + 1]
    /\ txn' = [txn EXCEPT ![c] = NoTxn]
    /\ parts' = [parts EXCEPT ![c] = <<>>]
    /\ payload' = [payload EXCEPT ![c] = [kind |-> "none"]]
    /\ Goto(c, "ask")

Asking(c) == dpc[c] = "ask" /\ order[c] <= Len(Orders)

SkipWithoutResult(c) ==   \* mutant: an order that is ruled out is left out of the result
    /\ Asking(c) /\ RuledOut(c, Orders[order[c]])
    /\ Conclude(c, Unknown)
    /\ UNCHANGED <<storeVars, bankVars>>

SkipOrder(c) ==
    /\ Asking(c) /\ RuledOut(c, Orders[order[c]])
    /\ Conclude(c, UnsupportedResult(Orders[order[c]]))
    /\ UNCHANGED <<storeVars, bankVars>>

(* An authenticated 091006/000000 is the one rejection that is no failure. *)
OrderUnsupported(c) ==
    /\ Asking(c) /\ ~RuledOut(c, Orders[order[c]])
    /\ Conclude(c, UnsupportedResult(Orders[order[c]]))
    /\ UNCHANGED <<storeVars, bankVars>>

(* The bank opens a transaction; the response that arrives may be an older. *)
RequestInitialization(c) ==
    /\ Asking(c) /\ ~RuledOut(c, Orders[order[c]])
    /\ wire' \in {wire} \cup {wire \cup {InitialResponse(t)} : t \in Txns}
    /\ \E m \in wire' :
          IF InitialAccepted(m)
          THEN /\ txn' = [txn EXCEPT ![c] = m.txn]
               /\ Goto(c, "claim")
               /\ UNCHANGED <<order, parts, payload, found, via>>
          ELSE Fails(c)
    /\ UNCHANGED <<storeVars, receipts>>

AfterSegmentOneMore(t, k) ==   \* mutant: range(2, total_segments + 2)
    IF k > BankTotal[t] THEN "decode" ELSE "collect"

(* The transfer loop goes on until the last segment: range(2, total + 1). *)
AfterSegment(t, k) == IF k = BankTotal[t] THEN "decode" ELSE "collect"

(* claim_transaction_id before anything else is done with the transaction *)
ClaimTransaction(c) ==
    /\ dpc[c] = "claim"
    /\ IF CanClaim(txn[c])
       THEN /\ claim_transaction_id(txn[c])
            /\ parts' = [parts EXCEPT ![c] = << <<txn[c], 1>> >>]
            /\ Goto(c, AfterSegment(txn[c], 1))
            /\ UNCHANGED <<order, txn, payload, found, via>>
       ELSE Fails(c) /\ UNCHANGED storeVars
    /\ UNCHANGED bankVars

(* One round of the transfer loop *)
RequestSegment(c) ==
    /\ dpc[c] = "collect"
    /\ LET k == Len(parts[c]) + 1
       IN  /\ wire' \in {wire, wire \cup {TransferResponse(txn[c], k)}}
           /\ \E m \in wire' :
                 IF TransferAccepted(m, txn[c], k)
                 THEN /\ parts' = [parts EXCEPT ![c] = Append(@, <<m.txn, m.segment>>)]
                      /\ Goto(c, AfterSegment(txn[c], k))
                      /\ UNCHANGED <<order, txn, payload, found, via>>
                 ELSE Fails(c)
    /\ UNCHANGED <<storeVars, receipts>>

(* A non-final fragment that is malformed, or with which the data outgrows    *)
(* its limit, ends the call without a receipt; so does a failed exchange.     *)
ExchangeFails(c) ==
    /\ dpc[c] \in {"ask", "collect"} /\ order[c] <= Len(Orders)
    /\ Fails(c)
    /\ UNCHANGED <<storeVars, bankVars>>

(* The final fragment and the decoded data are accepted, or the receipt is    *)
(* going to be negative.                                                      *)
DecodePayload(c) ==
    /\ dpc[c] = "decode"
    /\ \/ \E p \in Payloads(Orders[order[c]]) :
             payload' = [payload EXCEPT ![c] =
                 IF DecodeAccepts(Orders[order[c]], p) THEN [kind |-> "positive", data |-> p]
                                                       ELSE [kind |-> "negative"]]
       \/ payload' = [payload EXCEPT ![c] = [kind |-> "negative"]]
    /\ Goto(c, "receipt")
    /\ UNCHANGED <<storeVars, order, txn, parts, found, via, bankVars>>

AcknowledgeAgain(c) ==   \* mutant: an unconfirmed receipt is sent again
    /\ dpc[c] = "receipt"
    /\ receipts' = [receipts EXCEPT ![txn[c]] = Append(@, payload[c].kind)]
    /\ wire' \in {wire, wire \cup {ReceiptResponse(txn[c], payload[c].kind)}}
    /\ \E m \in wire' :
          IF ReceiptAccepted(m, txn[c], payload[c].kind)
          THEN Fails(c)
          ELSE UNCHANGED callVars
    /\ UNCHANGED storeVars

(* _acknowledge_metadata: the receipt is sent; only the response to it lets   *)
(* the payload out, and after a negative one the decoder's error is raised.   *)
AcknowledgeMetadata(c) ==
    /\ dpc[c] = "receipt"
    /\ receipts' = [receipts EXCEPT ![txn[c]] = Append(@, payload[c].kind)]
    /\ wire' \in {wire, wire \cup {ReceiptResponse(txn[c], payload[c].kind)}}
    /\ \E m \in wire' :
          IF payload[c].kind = "positive" /\ ReceiptAccepted(m, txn[c], "positive")
          THEN Conclude(c, Result(Orders[order[c]], payload[c].data))
          ELSE Fails(c)
    /\ UNCHANGED storeVars

(* All four orders are behind: build the union, which may still raise. *)
ReturnCapabilities(c) ==
    /\ dpc[c] = "ask" /\ order[c] > Len(Orders)
    /\ Goto(c, IF CapabilityDiscoveryAccepts(Union(c)) THEN "done" ELSE "failed")
    /\ UNCHANGED <<storeVars, order, txn, parts, payload, found, via, bankVars>>

CallStep(c) ==
    \/ SkipOrder(c) \/ OrderUnsupported(c) \/ RequestInitialization(c)
    \/ ClaimTransaction(c) \/ RequestSegment(c) \/ ExchangeFails(c)
    \/ DecodePayload(c) \/ AcknowledgeMetadata(c) \/ ReturnCapabilities(c)

(* BTD workers use the same session store at the same time. *)
BtdStep == /\ \E w \in Workers : WorkerStep(w)
           /\ UNCHANGED <<callVars, bankVars>>

Next == \/ \E c \in Calls : StartDiscovery(c) \/ CallStep(c)
        \/ BtdStep

Spec == Init /\ [][Next]_vars

-----------------------------------------------------------------------------
(* Properties *)

(* The transaction a discovery works on belongs to it alone: to no other      *)
(* discovery and no BTD session, whatever old responses are delivered.        *)
Owned(c) == IF dpc[c] \in {"collect", "decode", "receipt"} THEN {txn[c]} ELSE {}
TransactionNotShared ==
    \A c \in Calls, t \in Txns : t \in Owned(c) =>
        /\ t \in claims
        /\ \A s \in Sessions : TxnOf(s) # t
        /\ \A d \in Calls \ {c} : t \notin Owned(d)

(* No transaction is acknowledged twice, neither in two discoveries nor in a  *)
(* discovery after the one that gave it up.                                   *)
AcknowledgedAtMostOnce == \A t \in Txns : Len(receipts[t]) <= 1

(* "acknowledge only coherent complete data": a positive receipt is sent only *)
(* for a transaction whose every segment was collected, in order.             *)
PositiveOnlyIfWhole ==
    \A c \in Calls : dpc[c] = "receipt" /\ payload[c].kind = "positive" =>
        parts[c] = [k \in 1..BankTotal[txn[c]] |-> <<txn[c], k>>]

(* What discover_capabilities returns of an order, the bank has recorded as   *)
(* retrieved: a response lost or taken from another transaction keeps the     *)
(* data from the caller.                                                      *)
ReturnedOnlyIfRecorded ==
    \A c \in Calls, o \in OrderSet : found[c][o].completed # <<>> =>
        ReceiptResponse(via[c][o], "positive") \in wire

(* The constructor of CapabilityDiscovery runs after the receipts, so what it *)
(* refuses is lost: it accepts whatever a positive receipt is about to be     *)
(* sent for, and the union once all orders are settled.                       *)
AcknowledgedNeverDiscarded ==
    \A c \in Calls :
        /\ dpc[c] = "receipt" /\ payload[c].kind = "positive" =>
              CapabilityDiscoveryAccepts(Result(Orders[order[c]], payload[c].data))
        /\ order[c] > Len(Orders) => CapabilityDiscoveryAccepts(Union(c))

(* What was acknowledged is returned, and fits together: no check of the      *)
(* constructor discards it, and a call that succeeds reports each of the four *)
(* orders as completed or unsupported, consistently with the HPD parameters   *)
(* it returns.                                                                *)
ResultCoherent ==
    /\ AcknowledgedNeverDiscarded
    /\ \A c \in Calls : dpc[c] = "done" =>
           /\ ToSet(Union(c).completed) \cup ToSet(Union(c).unsupported) = OrderSet
           /\ \A o \in ToSet(Union(c).completed) : ~RuledOut(c, o)
=============================================================================
