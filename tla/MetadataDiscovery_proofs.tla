---------------------- MODULE MetadataDiscovery_proofs ----------------------
(***************************************************************************)
(* Proofs about MetadataDiscovery, for any sets of calls, transactions,    *)
(* sessions, workers and descriptors and any segment counts. The store's   *)
(* part is taken over from SessionStore_proofs: a discovery claims through *)
(* claim_transaction_id, a step of the store with arbitrary callers.       *)
(***************************************************************************)
EXTENDS MetadataDiscovery, SessionStore_proofs

(* Labels of a call.                                                          *)
Labels == {"idle", "ask", "claim", "collect", "decode", "receipt", "done", "failed"}

(* Labels at which a call has a transaction.                                  *)
Busy == {"claim", "collect", "decode", "receipt"}

(* Types of what a call keeps in memory.                                      *)
CallTypes ==
    /\ dpc \in [Calls -> Labels]
    /\ order \in [Calls -> 1..5]
    /\ txn \in [Calls -> Txns \cup {NoTxn}]
    /\ parts \in [Calls -> Seq(Txns \X (1..MaxSegments))]
    /\ \A c \in Calls : Len(parts[c]) <= MaxSegments
    /\ payload = [c \in Calls |-> payload[c]]
    /\ found \in [Calls -> [OrderSet -> CapabilityDiscovery]]
    /\ via \in [Calls -> [OrderSet -> Txns \cup {NoTxn}]]

(* Segments 1 to n of transaction t, in order. *)
Segments(t, n) == [k \in 1..n |-> <<t, k>>]

(* What a call has done at each label: the segments it has collected so far,  *)
(* in order and without gap, and what it is about to acknowledge. No order    *)
(* that HPD rules out is asked for.                                           *)
StageFits(c) ==
    /\ dpc[c] \in Busy => /\ order[c] <= 4 /\ txn[c] \in Txns
                          /\ ~RuledOut(c, Orders[order[c]])
    /\ dpc[c] = "done" => order[c] = 5
    /\ dpc[c] = "collect" => /\ Len(parts[c]) < BankTotal[txn[c]]
                             /\ parts[c] = Segments(txn[c], Len(parts[c]))
    /\ dpc[c] \in {"decode", "receipt"} => parts[c] = Segments(txn[c], BankTotal[txn[c]])
    /\ dpc[c] = "receipt" =>
          /\ payload[c].kind \in {"positive", "negative"}
          /\ payload[c].kind = "positive" => /\ payload[c].data \in Payloads(Orders[order[c]])
                                             /\ DecodeAccepts(Orders[order[c]], payload[c].data)

(* A result is well formed: the order is not settled, completed, or           *)
(* unsupported; its services come from the order asked, none of them twice,   *)
(* and there are none without completion; parameters come from a completed    *)
(* HPD and from nothing else, customer information from a completed HKD or    *)
(* HTD, with the services of the aggregate.                                   *)
ResultFits(o, r) ==
    /\ r \in CapabilityDiscovery
    /\ \/ r = Unknown
       \/ r.completed = <<o>> /\ r.unsupported = <<>>
       \/ r.completed = <<>> /\ r.unsupported = <<o>>
    /\ IsInjective(r.services)
    /\ \A i \in DOMAIN r.services : r.services[i][1] = o
    /\ r.completed = <<>> \/ o = "HPD" => r.services = <<>>
    /\ r.params # NoParams <=> o = "HPD" /\ r.completed # <<>>
    /\ r.customers = IF o \in CustomerOrders /\ r.completed # <<>>
                     THEN << [source |-> o, services |-> r.services] >> ELSE <<>>

(* Exactly the orders behind the call are settled, and none that HPD rules    *)
(* out is completed.                                                          *)
FoundFits(c) ==
    \A i \in 1..4 :
        /\ ResultFits(Orders[i], found[c][Orders[i]])
        /\ found[c][Orders[i]] = Unknown <=> i >= order[c]
        /\ found[c][Orders[i]].completed # <<>> => ~RuledOut(c, Orders[i])

(* The bank has confirmed the receipt of every completed order.               *)
RecordFits(c) ==
    \A o \in OrderSet : found[c][o].completed # <<>> =>
        ReceiptResponse(via[c][o], "positive") \in wire

(* What holds of one call.                                                    *)
CallFits(c) == StageFits(c) /\ FoundFits(c) /\ RecordFits(c)

(* The bank signs nothing but its messages.                                   *)
WireFits ==
    /\ wire \subseteq Message
    /\ \A m \in wire : m.phase = "Receipt" => m = ReceiptResponse(m.txn, m.code)

(* Nothing was acknowledged for a transaction that is unclaimed or still      *)
(* worked on, and nothing twice.                                              *)
ReceiptsFit ==
    /\ receipts \in [Txns -> Seq(ReceiptKinds)]
    /\ \A t \in Txns : /\ Len(receipts[t]) <= 1
                       /\ t \notin claims => receipts[t] = <<>>
    /\ \A c \in Calls : \A t \in Owned(c) : receipts[t] = <<>>

(* The inductive invariant. Ownership (TransactionNotShared) is what makes    *)
(* one receipt per transaction inductive, and it rests on the store: a claim  *)
(* is never handed out twice.                                                 *)
DiscoveryInv ==
    /\ StoreInv /\ CallTypes /\ WireFits
    /\ TransactionNotShared /\ ReceiptsFit
    /\ \A c \in Calls : CallFits(c)

(* The four orders, by position.                                              *)
LEMMA OrderFacts ==
    /\ Orders[1] = "HPD" /\ Orders[2] = "HAA" /\ Orders[3] = "HKD" /\ Orders[4] = "HTD"
    /\ OrderSet = {"HPD", "HAA", "HKD", "HTD"} /\ Len(Orders) = 4
    /\ \A i \in 1..4 : Orders[i] \in OrderSet
    /\ \A i, j \in 1..4 : Orders[i] = Orders[j] => i = j
BY DEF Orders, OrderSet, ToSet

(* Parameters, services and customer information of an order, typed.          *)
LEMMA ResultTyped ==
    ASSUME NEW o \in OrderSet, NEW v \in Seq(OrderSet \X Descriptors),
           NEW q \in Parameters \cup {NoParams}, NEW k \in Seq(CustomerInformation)
    PROVE  /\ [services |-> v, completed |-> <<o>>, unsupported |-> <<>>, params |-> q,
               customers |-> k] \in CapabilityDiscovery
           /\ [services |-> v, completed |-> <<>>, unsupported |-> <<o>>, params |-> q,
               customers |-> k] \in CapabilityDiscovery
           /\ Unknown \in CapabilityDiscovery
<1>1. /\ <<>> \in Seq(OrderSet) /\ <<o>> \in Seq(OrderSet) /\ NoParams \in Parameters \cup {NoParams}
      /\ <<>> \in Seq(OrderSet \X Descriptors) /\ <<>> \in Seq(CustomerInformation)
  OBVIOUS
<1> QED BY <1>1 DEF CapabilityDiscovery, Unknown

(* An accepted payload gives a well-formed result.                            *)
LEMMA ResultOfPayload ==
    ASSUME NEW o \in OrderSet, NEW p \in Payloads(o), DecodeAccepts(o, p)
    PROVE  ResultFits(o, Result(o, p)) /\ Result(o, p).completed # <<>>
<1>e. <<>> \in Seq(OrderSet \X Descriptors) /\ IsInjective(<<>>) /\ DOMAIN <<>> = {}
      /\ <<>> \in Seq(CustomerInformation) /\ <<o>> # <<>>
  BY DEF IsInjective
<1>1. CASE o = "HPD"
  <2>1. p \in Parameters /\ p # NoParams /\ o \notin CustomerOrders
    BY <1>1, DiscoveryAssumption DEF Payloads, CustomerOrders
  <2>2. PICK r : r = Result(o, p)
    OBVIOUS
  <2>h. r = HpdResult(p)
    BY <1>1, <2>2 DEF Result, CustomerOrders
  <2>3. r = [services |-> <<>>, completed |-> <<o>>, unsupported |-> <<>>, params |-> p,
             customers |-> <<>>]
    BY <1>1, <2>h DEF HpdResult, Unknown
  <2>4. r \in CapabilityDiscovery
    BY <1>e, <2>1, <2>3, ResultTyped
  <2> QED BY <1>e, <1>1, <2>1, <2>2, <2>3, <2>4 DEF ResultFits
<1>2. CASE o # "HPD"
  <2>1. PICK n \in 0..MaxListed : p \in [1..n -> Descriptors]
    BY <1>2 DEF Payloads, ServiceLists
  <2>q. PICK q : q = Sourced(o, p)
    OBVIOUS
  <2>2. q \in Seq(OrderSet \X Descriptors) /\ \A i \in DOMAIN q : q[i][1] = o
    BY <2>1, <2>q, DiscoveryAssumption DEF Sourced
  <2>3. IsInjective(q)
    BY <1>2, <2>1, <2>q DEF DecodeAccepts, IsInjective, Sourced
  <2>k. PICK k : k = IF o \in CustomerOrders THEN << [source |-> o, services |-> q] >> ELSE <<>>
    OBVIOUS
  <2>4. k \in Seq(CustomerInformation)
    <3>1. CASE o \in CustomerOrders
      <4>1. [source |-> o, services |-> q] \in CustomerInformation
        BY <2>2, <3>1 DEF CustomerInformation
      <4> QED BY <2>k, <3>1, <4>1
    <3> QED BY <1>e, <2>k, <3>1
  <2>r. PICK r : r = Result(o, p)
    OBVIOUS
  <2>5. r = [services |-> q, completed |-> <<o>>, unsupported |-> <<>>, params |-> NoParams,
             customers |-> k]
    BY <1>2, <2>q, <2>k, <2>r, OrderFacts
       DEF Result, HaaResult, CustomerResult, CustomerOrders, Unknown
  <2>6. r \in CapabilityDiscovery
    BY <2>2, <2>4, <2>5, ResultTyped
  <2> QED BY <1>e, <1>2, <2>2, <2>3, <2>k, <2>r, <2>5, <2>6 DEF ResultFits
<1> QED BY <1>1, <1>2

(* So do an order that is not supported and one not asked yet.                *)
LEMMA ResultWithout ==
    ASSUME NEW o \in OrderSet
    PROVE  /\ ResultFits(o, Unknown) /\ ResultFits(o, UnsupportedResult(o))
           /\ Unknown.completed = <<>> /\ UnsupportedResult(o).completed = <<>>
           /\ UnsupportedResult(o) # Unknown
<1>e. <<>> \in Seq(OrderSet \X Descriptors) /\ IsInjective(<<>>) /\ DOMAIN <<>> = {}
      /\ <<>> \in Seq(CustomerInformation) /\ <<o>> # <<>>
  BY DEF IsInjective
<1>1. UnsupportedResult(o) = [services |-> <<>>, completed |-> <<>>, unsupported |-> <<o>>,
                              params |-> NoParams, customers |-> <<>>]
  BY DEF UnsupportedResult, Unknown
<1>2. UnsupportedResult(o) \in CapabilityDiscovery /\ Unknown \in CapabilityDiscovery
  BY <1>e, <1>1, ResultTyped
<1>3. ResultFits(o, Unknown)
  BY <1>e, <1>2 DEF ResultFits, Unknown
<1>4. ResultFits(o, UnsupportedResult(o))
  BY <1>e, <1>1, <1>2 DEF ResultFits
<1> QED BY <1>e, <1>1, <1>3, <1>4 DEF Unknown

(* The constructor accepts every well-formed result.                          *)
LEMMA ResultAccepted ==
    ASSUME NEW o \in OrderSet, NEW r, ResultFits(o, r)
    PROVE  CapabilityDiscoveryAccepts(r)
<1>1. /\ r.services \in Seq(OrderSet \X Descriptors) /\ IsInjective(r.services)
      /\ \A i \in DOMAIN r.services : r.services[i][1] = o
      /\ r.completed = <<>> \/ o = "HPD" => r.services = <<>>
      /\ r.params # NoParams <=> o = "HPD" /\ r.completed # <<>>
  BY DEF ResultFits, CapabilityDiscovery
<1>2. /\ r.completed \in {<<>>, <<o>>} /\ r.unsupported \in {<<>>, <<o>>}
      /\ r.completed = <<>> \/ r.unsupported = <<>>
  BY DEF ResultFits, Unknown
<1>3. /\ IsInjective(<<>>) /\ IsInjective(<<o>>) /\ ToSet(<<>>) = {} /\ ToSet(<<o>>) = {o}
      /\ <<o>> # <<>>
  BY DEF IsInjective, ToSet
<1>4. \A s \in ToSet(r.services) : s[1] = o /\ o # "HPD" /\ r.completed = <<o>>
  BY <1>1, <1>2 DEF ToSet
<1>5. CASE o \in CustomerOrders /\ r.completed # <<>>
  <2>1. r.customers = << [source |-> o, services |-> r.services] >>
    BY <1>5 DEF ResultFits
  <2>2. ToSet(r.customers) = {[source |-> o, services |-> r.services]} /\ DOMAIN r.customers = {1}
    BY <2>1 DEF ToSet
  <2>3. Sources(r) = {o} /\ CustomerServices(r) = ToSet(r.services)
    BY <2>2 DEF Sources, CustomerServices
  <2> QED BY <1>1, <1>2, <1>3, <1>4, <1>5, <2>2, <2>3 DEF CapabilityDiscoveryAccepts
<1>6. CASE ~(o \in CustomerOrders /\ r.completed # <<>>)
  <2>1. r.customers = <<>>
    BY <1>6 DEF ResultFits
  <2>2. ToSet(r.customers) = {} /\ DOMAIN r.customers = {} /\ Sources(r) = {}
        /\ CustomerServices(r) = {}
    BY <2>1 DEF ToSet, Sources, CustomerServices
  <2>3. \A s \in ToSet(r.services) : s[1] \notin CustomerOrders
    BY <1>3, <1>4, <1>6
  <2> QED BY <1>1, <1>2, <1>3, <1>4, <1>6, <2>2, <2>3 DEF CapabilityDiscoveryAccepts
<1> QED BY <1>5, <1>6

-----------------------------------------------------------------------------

(* A step leaves the other calls alone.                                       *)
Alone(c) == \A d \in Calls \ {c} :
    /\ dpc'[d] = dpc[d] /\ order'[d] = order[d] /\ txn'[d] = txn[d] /\ parts'[d] = parts[d]
    /\ payload'[d] = payload[d] /\ found'[d] = found[d] /\ via'[d] = via[d]

(* What holds of a call survives the steps of the others; signed messages     *)
(* stay signed.                                                               *)
LEMMA OthersFit ==
    ASSUME NEW c, \A d \in Calls : CallFits(d), Alone(c), wire \subseteq wire'
    PROVE  \A d \in Calls \ {c} : CallFits(d)'
<1> SUFFICES ASSUME NEW d \in Calls \ {c} PROVE CallFits(d)'
  OBVIOUS
<1>1. CallFits(d) /\ dpc'[d] = dpc[d] /\ order'[d] = order[d] /\ txn'[d] = txn[d]
      /\ parts'[d] = parts[d] /\ payload'[d] = payload[d] /\ found'[d] = found[d] /\ via'[d] = via[d]
  BY DEF Alone
<1>2. StageFits(d)'
  BY <1>1 DEF CallFits, StageFits, RuledOut
<1>3. FoundFits(d)'
  BY <1>1 DEF CallFits, FoundFits, RuledOut
<1>4. RecordFits(d)'
  BY <1>1 DEF CallFits, RecordFits
<1> QED BY <1>2, <1>3, <1>4 DEF CallFits

(* Ownership survives steps that neither claim nor acknowledge.               *)
LEMMA OwnershipKept ==
    ASSUME NEW c, TransactionNotShared, ReceiptsFit, Alone(c), UNCHANGED <<storeVars, receipts>>,
           Owned(c)' \subseteq Owned(c)
    PROVE  TransactionNotShared' /\ ReceiptsFit'
<1>1. \A d \in Calls \ {c} : Owned(d)' = Owned(d)
  BY DEF Alone, Owned
<1>2. \A d \in Calls : Owned(d)' \subseteq Owned(d)
  BY <1>1
<1>3. \A s \in Sessions : TxnOf(s)' = TxnOf(s)
  BY DEF TxnOf, storeVars
<1>4. TransactionNotShared'
  BY <1>2, <1>3 DEF TransactionNotShared, storeVars
<1> QED BY <1>2, <1>4 DEF ReceiptsFit, storeVars

(* A call that fails gives its transaction up and keeps its results.          *)
LEMMA FailsFits ==
    ASSUME NEW c \in Calls, CallTypes, \A d \in Calls : CallFits(d), Fails(c), wire \subseteq wire'
    PROVE  CallTypes' /\ Alone(c) /\ Owned(c)' = {} /\ \A d \in Calls : CallFits(d)'
<1>1. /\ dpc' = [dpc EXCEPT ![c] = "failed"] /\ dpc \in [Calls -> Labels]
      /\ UNCHANGED <<order, txn, parts, payload, found, via>>
  BY DEF Fails, Goto, CallTypes
<1>2. CallTypes' /\ Alone(c)
  BY <1>1 DEF CallTypes, Labels, Alone
<1>3. Owned(c)' = {} /\ dpc'[c] = "failed"
  BY <1>1 DEF Owned
<1>4. CallFits(c)'
  BY <1>1, <1>3 DEF CallFits, StageFits, FoundFits, RecordFits, Busy, RuledOut
<1> QED BY <1>2, <1>3, <1>4, OthersFit

(* Concluding an order settles it and no other.                               *)
LEMMA ConcludeFits ==
    ASSUME NEW c \in Calls, CallTypes, \A d \in Calls : CallFits(d), order[c] <= 4, NEW r,
           Conclude(c, r), ResultFits(Orders[order[c]], r), r # Unknown,
           r.completed # <<>> => /\ ~RuledOut(c, Orders[order[c]])
                                     /\ ReceiptResponse(txn[c], "positive") \in wire',
           wire \subseteq wire'
    PROVE  CallTypes' /\ Alone(c) /\ Owned(c)' = {} /\ \A d \in Calls : CallFits(d)'
<1>p. PICK o : o = Orders[order[c]]
  OBVIOUS
<1>o. o \in OrderSet /\ order[c] \in 1..4
  BY <1>p, OrderFacts DEF CallTypes
<1>0. r \in CapabilityDiscovery /\ txn[c] \in Txns \cup {NoTxn}
  BY DEF ResultFits, CallTypes
<1>a. CapabilityDiscoveryAccepts(r)
  BY <1>p, <1>o, ResultAccepted
<1>1. /\ dpc' = [dpc EXCEPT ![c] = "ask"] /\ order' = [order EXCEPT ![c] = @ + 1]
      /\ txn' = [txn EXCEPT ![c] = NoTxn] /\ parts' = [parts EXCEPT ![c] = <<>>]
      /\ payload' = [payload EXCEPT ![c] = [kind |-> "none"]]
      /\ found' = [found EXCEPT ![c] = [found[c] EXCEPT ![o] = r]]
      /\ via' = [via EXCEPT ![c] = [via[c] EXCEPT ![o] = txn[c]]]
  BY <1>p, <1>a DEF Conclude, Goto
<1>2. found' \in [Calls -> [OrderSet -> CapabilityDiscovery]] /\ via' \in [Calls -> [OrderSet -> Txns \cup {NoTxn}]]
  BY <1>o, <1>0, <1>1 DEF CallTypes
<1>3. /\ dpc' \in [Calls -> Labels] /\ order' \in [Calls -> 1..5]
      /\ txn' \in [Calls -> Txns \cup {NoTxn}]
      /\ parts' \in [Calls -> Seq(Txns \X (1..MaxSegments))]
      /\ payload' = [d \in Calls |-> payload'[d]]
  <2>1. order[c] + 1 \in 1..5 /\ "ask" \in Labels /\ <<>> \in Seq(Txns \X (1..MaxSegments))
    BY <1>o DEF Labels
  <2>2. /\ dpc' \in [Calls -> Labels] /\ order' \in [Calls -> 1..5]
        /\ txn' \in [Calls -> Txns \cup {NoTxn}]
    BY <1>1, <2>1 DEF CallTypes
  <2>3. parts' \in [Calls -> Seq(Txns \X (1..MaxSegments))]
    BY <1>1, <2>1 DEF CallTypes
  <2>4. payload' = [d \in Calls |-> payload'[d]]
    BY <1>1 DEF CallTypes
  <2> QED BY <2>2, <2>3, <2>4
<1>4. \A d \in Calls : Len(parts'[d]) <= MaxSegments
  <2>1. Len(<<>>) <= MaxSegments
    BY SessionAssumption
  <2> QED BY <1>1, <2>1 DEF CallTypes
<1>5. CallTypes' /\ Alone(c)
  BY <1>1, <1>2, <1>3, <1>4 DEF CallTypes, Alone
<1>6. /\ dpc'[c] = "ask" /\ order'[c] = order[c] + 1 /\ found'[c] = [found[c] EXCEPT ![o] = r]
      /\ via'[c] = [via[c] EXCEPT ![o] = txn[c]]
  BY <1>1 DEF CallTypes
<1>7. found[c] \in [OrderSet -> CapabilityDiscovery] /\ via[c] \in [OrderSet -> Txns \cup {NoTxn}]
  BY DEF CallTypes
<1>8. found'[c][o] = r /\ via'[c][o] = txn[c]
      /\ \A x \in OrderSet \ {o} : found'[c][x] = found[c][x] /\ via'[c][x] = via[c][x]
  BY <1>o, <1>6, <1>7
<1>9. StageFits(c)' /\ Owned(c)' = {}
  BY <1>6 DEF StageFits, Busy, Owned
<1>10. RecordFits(c)'
  BY <1>p, <1>o, <1>8 DEF RecordFits, CallFits
<1>11. ASSUME NEW i \in 1..4
       PROVE  /\ ResultFits(Orders[i], found'[c][Orders[i]])
              /\ found'[c][Orders[i]] = Unknown <=> i >= order'[c]
              /\ found'[c][Orders[i]].completed # <<>> => ~RuledOut(c, Orders[i])'
  <2>1. /\ ResultFits(Orders[i], found[c][Orders[i]])
        /\ found[c][Orders[i]] = Unknown <=> i >= order[c]
        /\ found[c][Orders[i]].completed # <<>> => ~RuledOut(c, Orders[i])
    BY DEF CallFits, FoundFits
  <2>2. CASE i = order[c]
    <3>1. Orders[i] = o
      BY <1>p, <2>2
    <3>2. r.completed # <<>> => ~RuledOut(c, o)'
      <4>1. CASE o = "HPD"
        BY <4>1 DEF RuledOut
      <4>2. CASE o # "HPD"
        <5>1. found'[c]["HPD"] = found[c]["HPD"]
          BY <1>8, <4>2, OrderFacts
        <5> QED BY <1>p, <5>1 DEF RuledOut
      <4> QED BY <4>1, <4>2
    <3> QED BY <1>o, <1>6, <1>8, <2>2, <3>1, <3>2, <1>p
  <2>3. CASE i # order[c]
    <3>1. Orders[i] # o /\ Orders[i] \in OrderSet
      BY <1>o, <2>3, OrderFacts, <1>p
    <3>2. found'[c][Orders[i]] = found[c][Orders[i]]
      BY <1>8, <3>1
    <3>3. found[c][Orders[i]].completed # <<>> => ~RuledOut(c, Orders[i])'
      <4>1. CASE o = "HPD"
        <5>1. order[c] = 1
          BY <1>o, <4>1, OrderFacts, <1>p
        <5>2. found[c][Orders[i]] = Unknown
          BY <2>1, <2>3, <5>1
        <5> QED BY <5>2 DEF Unknown
      <4>2. CASE o # "HPD"
        <5>1. found'[c]["HPD"] = found[c]["HPD"]
          BY <1>8, <4>2, OrderFacts
        <5> QED BY <2>1, <5>1 DEF RuledOut
      <4> QED BY <4>1, <4>2
    <3> QED BY <1>o, <1>6, <2>1, <2>3, <3>2, <3>3
  <2> QED BY <2>2, <2>3
<1>12. FoundFits(c)'
  BY <1>11 DEF FoundFits
<1> QED BY <1>5, <1>9, <1>10, <1>12, OthersFit DEF CallFits

(* One more message of the bank.                                              *)
LEMMA WireGrows ==
    ASSUME WireFits, NEW m \in Message, wire' \in {wire, wire \cup {m}},
           m.phase = "Receipt" => m = ReceiptResponse(m.txn, m.code)
    PROVE  WireFits' /\ wire \subseteq wire'
BY DEF WireFits, ReceiptResponse

(* What a step of the store means for a discovery: claims stay, and a claimed *)
(* transaction without a session gets none.                                   *)
LEMMA StoreKept ==
    ASSUME StoreInv, StoreNext
    PROVE  /\ StoreInv' /\ claims \subseteq claims'
           /\ \A t \in claims : (\A s \in Sessions : TxnOf(s) # t)
                                  => (\A s \in Sessions : TxnOf(s)' # t)
<1>1. Effect /\ claims \subseteq Txns /\ state \in [Sessions -> Session \cup {NoSession}]
  BY StepEffect DEF StoreInv, StoreTypeOK
<1>2. StoreInv' /\ claims \subseteq claims'
  BY <1>1, EffectKeepsInv DEF Effect
<1>3. CASE state' = state
  BY <1>2, <1>3 DEF TxnOf
<1>4. ASSUME NEW s \in Sessions, NEW v \in Session \cup {NoSession}, Write(s, v)
      PROVE  \A t \in claims : (\A x \in Sessions : TxnOf(x) # t)
                                  => (\A x \in Sessions : TxnOf(x)' # t)
  <2>1. TxnOf(s)' = TxnIn(v) /\ \A x \in Sessions \ {s} : TxnOf(x)' = TxnOf(x)
    BY <1>1, <1>4 DEF TxnOf, TxnIn, Write
  <2>2. TxnIn(v) \in {NoTxn, TxnOf(s)} \/ TxnIn(v) \in claims' \ claims
    BY <1>4 DEF Write
  <2> QED BY <1>1, <2>1, <2>2, SessionAssumption
<1> QED BY <1>1, <1>2, <1>3, <1>4 DEF Effect

(* discover_capabilities starts afresh.                                       *)
LEMMA StartFits ==
    ASSUME DiscoveryInv, NEW c \in Calls, StartDiscovery(c)
    PROVE  DiscoveryInv'
<1>1. /\ dpc' = [dpc EXCEPT ![c] = "ask"] /\ order' = [order EXCEPT ![c] = 1]
      /\ txn' = [txn EXCEPT ![c] = NoTxn] /\ parts' = [parts EXCEPT ![c] = <<>>]
      /\ payload' = [payload EXCEPT ![c] = [kind |-> "none"]]
      /\ found' = [found EXCEPT ![c] = [o \in OrderSet |-> Unknown]]
      /\ via' = [via EXCEPT ![c] = [o \in OrderSet |-> NoTxn]]
      /\ UNCHANGED <<storeVars, bankVars>>
  BY DEF StartDiscovery, Goto
<1>2. /\ StoreInv /\ CallTypes /\ WireFits /\ TransactionNotShared /\ ReceiptsFit
      /\ \A d \in Calls : CallFits(d)
  BY DEF DiscoveryInv
<1>3. Unknown \in CapabilityDiscovery /\ Len(<<>>) <= MaxSegments
      /\ <<>> \in Seq(Txns \X (1..MaxSegments))
  BY SessionAssumption DEF Unknown, CapabilityDiscovery
<1>4. CallTypes'
  <2>1. found' \in [Calls -> [OrderSet -> CapabilityDiscovery]] /\ via' \in [Calls -> [OrderSet -> Txns \cup {NoTxn}]]
    BY <1>1, <1>2, <1>3 DEF CallTypes
  <2>2. dpc' \in [Calls -> Labels] /\ order' \in [Calls -> 1..5] /\ txn' \in [Calls -> Txns \cup {NoTxn}]
    BY <1>1, <1>2 DEF CallTypes, Labels
  <2>3. parts' \in [Calls -> Seq(Txns \X (1..MaxSegments))] /\ \A d \in Calls : Len(parts'[d]) <= MaxSegments
    BY <1>1, <1>2, <1>3 DEF CallTypes
  <2>4. payload' = [d \in Calls |-> payload'[d]]
    BY <1>1, <1>2 DEF CallTypes
  <2> QED BY <2>1, <2>2, <2>3, <2>4 DEF CallTypes
<1>5. Alone(c)
  BY <1>1, <1>2 DEF CallTypes, Alone
<1>6. /\ dpc'[c] = "ask" /\ order'[c] = 1 /\ \A o \in OrderSet : found'[c][o] = Unknown
  BY <1>1, <1>2 DEF CallTypes
<1>7. StageFits(c)' /\ Owned(c)' = {}
  BY <1>6 DEF StageFits, Busy, Owned
<1>8. FoundFits(c)' /\ RecordFits(c)'
  BY <1>6, OrderFacts, ResultWithout DEF FoundFits, RecordFits
<1>9. \A d \in Calls : CallFits(d)'
  BY <1>1, <1>2, <1>5, <1>7, <1>8, OthersFit DEF CallFits, bankVars
<1>10. TransactionNotShared' /\ ReceiptsFit'
  BY <1>1, <1>2, <1>5, <1>7, OwnershipKept DEF bankVars
<1>11. StoreInv'
  BY <1>1, <1>2 DEF StoreInv, StoreTypeOK, SessionsCoherent, OneSessionPerTransaction, TxnOf,
     storeVars
<1>12. WireFits'
  BY <1>1, <1>2 DEF WireFits, bankVars
<1> QED BY <1>4, <1>9, <1>10, <1>11, <1>12 DEF DiscoveryInv

(* A step of a call that leaves the store and the receipts as they are and    *)
(* gives up nothing but what the call owned.                                  *)
LEMMA StepAside ==
    ASSUME DiscoveryInv, NEW c \in Calls, UNCHANGED <<storeVars, receipts>>, WireFits',
           CallTypes', Alone(c), Owned(c)' \subseteq Owned(c), \A d \in Calls : CallFits(d)'
    PROVE  DiscoveryInv'
<1>1. TransactionNotShared' /\ ReceiptsFit'
  BY OwnershipKept DEF DiscoveryInv
<1>2. StoreInv'
  BY DEF DiscoveryInv, StoreInv, StoreTypeOK, SessionsCoherent, OneSessionPerTransaction, TxnOf,
     storeVars
<1> QED BY <1>1, <1>2 DEF DiscoveryInv

(* An order is ruled out by HPD or not supported by the bank.                 *)
LEMMA WithoutResultFits ==
    ASSUME DiscoveryInv, NEW c \in Calls, SkipOrder(c) \/ OrderUnsupported(c)
    PROVE  DiscoveryInv'
<1>1. /\ order[c] <= 4 /\ Conclude(c, UnsupportedResult(Orders[order[c]]))
      /\ UNCHANGED <<storeVars, bankVars>>
  BY OrderFacts DEF SkipOrder, OrderUnsupported, Asking
<1>2. /\ CallTypes /\ WireFits /\ \A d \in Calls : CallFits(d)
  BY DEF DiscoveryInv
<1>3. Orders[order[c]] \in OrderSet
  BY <1>1, <1>2, OrderFacts DEF CallTypes
<1>4. CallTypes' /\ Alone(c) /\ Owned(c)' = {} /\ \A d \in Calls : CallFits(d)'
  BY <1>1, <1>2, <1>3, ConcludeFits, ResultWithout DEF bankVars
<1>5. WireFits'
  BY <1>1, <1>2 DEF WireFits, bankVars
<1> QED BY <1>1, <1>4, <1>5, StepAside DEF bankVars

(* An exception ends the call.                                                *)
LEMMA FailureFits ==
    ASSUME DiscoveryInv, NEW c \in Calls, Fails(c), UNCHANGED <<storeVars, receipts>>,
           WireFits', wire \subseteq wire'
    PROVE  DiscoveryInv'
<1>1. CallTypes' /\ Alone(c) /\ Owned(c)' = {} /\ \A d \in Calls : CallFits(d)'
  BY FailsFits DEF DiscoveryInv
<1> QED BY <1>1, StepAside

(* The first response of an order arrives, old or new.                        *)
LEMMA InitializationFits ==
    ASSUME DiscoveryInv, NEW c \in Calls, RequestInitialization(c)
    PROVE  DiscoveryInv'
<1>0. /\ CallTypes /\ WireFits /\ \A d \in Calls : CallFits(d)
  BY DEF DiscoveryInv
<1>1. /\ order[c] <= 4 /\ ~RuledOut(c, Orders[order[c]]) /\ dpc[c] = "ask"
      /\ UNCHANGED <<storeVars, receipts>>
  BY OrderFacts DEF RequestInitialization, Asking
<1>2. WireFits' /\ wire \subseteq wire'
  <2>1. CASE wire' = wire
    BY <1>0, <2>1 DEF WireFits
  <2>2. ASSUME NEW t \in Txns, wire' = wire \cup {InitialResponse(t)}
        PROVE  WireFits' /\ wire \subseteq wire'
    <3>1. InitialResponse(t) \in Message /\ InitialResponse(t).phase # "Receipt"
      BY SessionAssumption DEF Message, InitialResponse, ReceiptKinds
    <3> QED BY <1>0, <2>2, <3>1, WireGrows
  <2> QED BY <2>1, <2>2 DEF RequestInitialization
<1>3. CASE Fails(c)
  BY <1>1, <1>2, <1>3, FailureFits
<1>4. ASSUME NEW m \in wire', txn' = [txn EXCEPT ![c] = m.txn], Goto(c, "claim"),
             UNCHANGED <<order, parts, payload, found, via>>
      PROVE  DiscoveryInv'
  <2>1. m.txn \in Txns
    BY <1>2 DEF WireFits, Message
  <2>2. dpc' = [dpc EXCEPT ![c] = "claim"]
    BY <1>4 DEF Goto
  <2>3. CallTypes' /\ Alone(c)
    BY <1>0, <1>4, <2>1, <2>2 DEF CallTypes, Labels, Alone
  <2>4. dpc'[c] = "claim" /\ txn'[c] = m.txn
    BY <1>0, <1>4, <2>2 DEF CallTypes
  <2>5. StageFits(c)' /\ Owned(c)' = {}
    BY <1>1, <1>4, <2>1, <2>4 DEF StageFits, Busy, Owned, RuledOut
  <2>6. FoundFits(c)' /\ RecordFits(c)'
    BY <1>0, <1>2, <1>4 DEF CallFits, FoundFits, RecordFits, RuledOut
  <2>7. \A d \in Calls : CallFits(d)'
    BY <1>0, <1>2, <2>3, <2>5, <2>6, OthersFit DEF CallFits
  <2> QED BY <1>1, <1>2, <2>3, <2>5, <2>7, StepAside
<1> QED BY <1>3, <1>4 DEF RequestInitialization

(* claim_transaction_id: an unclaimed transaction has no session, no other    *)
(* owner, and no receipt.                                                     *)
LEMMA ClaimFits ==
    ASSUME DiscoveryInv, NEW c \in Calls, ClaimTransaction(c)
    PROVE  DiscoveryInv'
<1>0. /\ StoreInv /\ CallTypes /\ WireFits /\ TransactionNotShared /\ ReceiptsFit
      /\ \A d \in Calls : CallFits(d)
  BY DEF DiscoveryInv
<1>1. dpc[c] = "claim" /\ UNCHANGED bankVars
  BY DEF ClaimTransaction
<1>2. WireFits' /\ wire' = wire /\ receipts' = receipts
  BY <1>0, <1>1 DEF WireFits, bankVars
<1>3. CASE Fails(c) /\ UNCHANGED storeVars
  BY <1>2, <1>3, FailureFits
<1>4. CASE CanClaim(txn[c])
  <2>p. PICK t : t = txn[c]
    OBVIOUS
  <2>t. /\ t \in Txns /\ order[c] <= 4 /\ ~RuledOut(c, Orders[order[c]])
        /\ BankTotal[t] \in 1..MaxSegments
    BY <1>0, <1>1, <2>p, DiscoveryAssumption DEF CallFits, StageFits, Busy
  <2>p2. PICK l : l = AfterSegment(t, 1)
    OBVIOUS
  <2>1. /\ claim_transaction_id(t) /\ parts' = [parts EXCEPT ![c] = << <<t, 1>> >>]
        /\ dpc' = [dpc EXCEPT ![c] = l] /\ UNCHANGED <<order, txn, payload, found, via>>
    BY <1>4, <2>p, <2>p2 DEF ClaimTransaction, Goto
  <2>2. /\ t \notin claims /\ claims' = claims \cup {t} /\ UNCHANGED <<state, lock, expired>>
    BY <2>1 DEF claim_transaction_id, CanClaim
  <2>3. StoreInv'
    BY <1>0, <2>1, <2>t, StoreKept DEF StoreNext
  <2>4. /\ << <<t, 1>> >> \in Seq(Txns \X (1..MaxSegments)) /\ Len(<< <<t, 1>> >>) = 1
        /\ << <<t, 1>> >> = Segments(t, 1)
    BY <2>t, SessionAssumption DEF Segments
  <2>5. l \in {"collect", "decode"} /\ (l = "decode" <=> BankTotal[t] = 1)
    BY <2>p2 DEF AfterSegment
  <2>6. CallTypes'
    <3>1. parts' \in [Calls -> Seq(Txns \X (1..MaxSegments))]
      BY <1>0, <2>1, <2>4 DEF CallTypes
    <3>2. \A d \in Calls : Len(parts'[d]) <= MaxSegments
      BY <1>0, <2>1, <2>4, SessionAssumption DEF CallTypes
    <3>3. dpc' \in [Calls -> Labels]
      BY <1>0, <2>1, <2>5 DEF CallTypes, Labels
    <3> QED BY <1>0, <2>1, <3>1, <3>2, <3>3 DEF CallTypes
  <2>7. Alone(c)
    BY <1>0, <2>1 DEF CallTypes, Alone
  <2>8. /\ dpc'[c] = l /\ txn'[c] = t
        /\ Len(parts'[c]) = 1 /\ parts'[c] = Segments(t, 1) /\ (l = "collect" => 1 < BankTotal[t])
    BY <1>0, <2>1, <2>p, <2>t, <2>4, <2>5 DEF CallTypes
  <2>9. StageFits(c)'
    BY <2>1, <2>t, <2>5, <2>8 DEF StageFits, RuledOut
  <2>10. FoundFits(c)' /\ RecordFits(c)'
    BY <1>0, <1>2, <2>1 DEF CallFits, FoundFits, RecordFits, RuledOut
  <2>11. \A d \in Calls : CallFits(d)'
    BY <1>0, <1>2, <2>7, <2>9, <2>10, OthersFit DEF CallFits
  <2>12. Owned(c)' = {t} /\ \A d \in Calls \ {c} : Owned(d)' = Owned(d)
    BY <2>5, <2>7, <2>8 DEF Owned, Alone
  <2>13. \A s \in Sessions : TxnOf(s)' = TxnOf(s) /\ TxnOf(s) # t
    BY <1>0, <2>2, <2>t, SessionAssumption DEF TxnOf, StoreInv, OneSessionPerTransaction
  <2>14. \A d \in Calls \ {c} : t \notin Owned(d)
    BY <1>0, <2>2, <2>t DEF TransactionNotShared
  <2>15. Owned(c) = {}
    BY <1>1 DEF Owned
  <2>16. TransactionNotShared'
    BY <1>0, <2>2, <2>12, <2>13, <2>14 DEF TransactionNotShared
  <2>17. ReceiptsFit'
    BY <1>0, <1>2, <2>2, <2>t, <2>12 DEF ReceiptsFit
  <2> QED BY <1>2, <2>3, <2>6, <2>11, <2>16, <2>17 DEF DiscoveryInv
<1> QED BY <1>3, <1>4 DEF ClaimTransaction

(* One round of the transfer loop: the next segment and no other.             *)
LEMMA SegmentFits ==
    ASSUME DiscoveryInv, NEW c \in Calls, RequestSegment(c)
    PROVE  DiscoveryInv'
<1>0. /\ CallTypes /\ WireFits /\ \A d \in Calls : CallFits(d)
  BY DEF DiscoveryInv
<1>p. PICK t, n : t = txn[c] /\ n = Len(parts[c])
  OBVIOUS
<1>1. /\ dpc[c] = "collect" /\ UNCHANGED <<storeVars, receipts>>
      /\ wire' \in {wire, wire \cup {TransferResponse(t, n + 1)}}
  BY <1>p DEF RequestSegment
<1>2. /\ t \in Txns /\ order[c] <= 4 /\ ~RuledOut(c, Orders[order[c]])
      /\ BankTotal[t] \in 1..MaxSegments /\ n \in Nat /\ n < BankTotal[t]
      /\ parts[c] = Segments(t, n) /\ parts[c] \in Seq(Txns \X (1..MaxSegments))
  BY <1>0, <1>1, <1>p, DiscoveryAssumption DEF CallFits, StageFits, Busy, CallTypes
<1>3. n + 1 \in 1..MaxSegments
  BY <1>2, SessionAssumption
<1>4. WireFits' /\ wire \subseteq wire'
  <2>1. TransferResponse(t, n + 1) \in Message /\ TransferResponse(t, n + 1).phase # "Receipt"
    BY <1>2, <1>3 DEF Message, TransferResponse, ReceiptKinds
  <2> QED BY <1>0, <1>1, <2>1, WireGrows
<1>5. CASE Fails(c)
  BY <1>1, <1>4, <1>5, FailureFits
<1>6. ASSUME NEW m \in wire', TransferAccepted(m, t, n + 1),
             parts' = [parts EXCEPT ![c] = Append(@, <<m.txn, m.segment>>)],
             Goto(c, AfterSegment(t, n + 1)), UNCHANGED <<order, txn, payload, found, via>>
      PROVE  DiscoveryInv'
  <2>p. PICK l : l = AfterSegment(t, n + 1)
    OBVIOUS
  <2>1. /\ dpc' = [dpc EXCEPT ![c] = l] /\ parts' = [parts EXCEPT ![c] = Append(parts[c], <<t, n + 1>>)]
    BY <1>6, <2>p DEF Goto, TransferAccepted
  <2>2. /\ Append(parts[c], <<t, n + 1>>) \in Seq(Txns \X (1..MaxSegments))
        /\ Len(Append(parts[c], <<t, n + 1>>)) = n + 1
    BY <1>p, <1>2, <1>3
  <2>3. Append(parts[c], <<t, n + 1>>) = Segments(t, n + 1)
    BY <1>p, <1>2, <1>3 DEF Segments
  <2>4. l \in {"collect", "decode"} /\ (l = "decode" <=> n + 1 = BankTotal[t])
    BY <2>p DEF AfterSegment
  <2>5. CallTypes' /\ Alone(c)
    <3>1. parts' \in [Calls -> Seq(Txns \X (1..MaxSegments))]
      BY <1>0, <2>1, <2>2 DEF CallTypes
    <3>2. \A d \in Calls : Len(parts'[d]) <= MaxSegments
      BY <1>0, <1>3, <2>1, <2>2, SessionAssumption DEF CallTypes
    <3>3. dpc' \in [Calls -> Labels]
      BY <1>0, <2>1, <2>4 DEF CallTypes, Labels
    <3> QED BY <1>0, <1>6, <2>1, <3>1, <3>2, <3>3 DEF CallTypes, Alone
  <2>6. dpc'[c] = l /\ txn'[c] = t /\ parts'[c] = Segments(t, n + 1) /\ Len(parts'[c]) = n + 1
    BY <1>0, <1>p, <1>6, <2>1, <2>2, <2>3 DEF CallTypes
  <2>7. StageFits(c)'
    BY <1>2, <1>6, <2>4, <2>6 DEF StageFits, RuledOut
  <2>8. FoundFits(c)' /\ RecordFits(c)'
    BY <1>0, <1>4, <1>6 DEF CallFits, FoundFits, RecordFits, RuledOut
  <2>9. \A d \in Calls : CallFits(d)'
    BY <1>0, <1>4, <2>5, <2>7, <2>8, OthersFit DEF CallFits
  <2>10. Owned(c)' = Owned(c)
    BY <1>p, <1>1, <2>4, <2>6 DEF Owned
  <2> QED BY <1>1, <1>4, <2>5, <2>9, <2>10, StepAside
<1> QED BY <1>p, <1>5, <1>6 DEF RequestSegment

(* The payload is decoded, once all segments are there.                       *)
LEMMA DecodeFits ==
    ASSUME DiscoveryInv, NEW c \in Calls, DecodePayload(c)
    PROVE  DiscoveryInv'
<1>0. /\ CallTypes /\ WireFits /\ \A d \in Calls : CallFits(d)
  BY DEF DiscoveryInv
<1>1. /\ dpc[c] = "decode" /\ dpc' = [dpc EXCEPT ![c] = "receipt"]
      /\ UNCHANGED <<storeVars, order, txn, parts, found, via, bankVars>>
  BY DEF DecodePayload, Goto
<1>p. PICK o : o = Orders[order[c]]
  OBVIOUS
<1>2. PICK v : /\ payload' = [payload EXCEPT ![c] = v]
               /\ \/ v = [kind |-> "negative"]
                  \/ \E p \in Payloads(o) : DecodeAccepts(o, p) /\ v = [kind |-> "positive", data |-> p]
  <2>1. CASE payload' = [payload EXCEPT ![c] = [kind |-> "negative"]]
    BY <2>1
  <2>2. ASSUME NEW p \in Payloads(o),
               payload' = [payload EXCEPT ![c] = IF DecodeAccepts(o, p)
                   THEN [kind |-> "positive", data |-> p] ELSE [kind |-> "negative"]]
        PROVE  \E v : /\ payload' = [payload EXCEPT ![c] = v]
               /\ \/ v = [kind |-> "negative"]
                  \/ \E q \in Payloads(o) : DecodeAccepts(o, q) /\ v = [kind |-> "positive", data |-> q]
    <3>1. CASE DecodeAccepts(o, p)
      BY <2>2, <3>1
    <3>2. CASE ~DecodeAccepts(o, p)
      BY <2>2, <3>2
    <3> QED BY <3>1, <3>2
  <2> QED BY <1>p, <2>1, <2>2 DEF DecodePayload
<1>3. CallTypes' /\ Alone(c)
  <2>1. dpc' \in [Calls -> Labels] /\ payload' = [d \in Calls |-> payload'[d]]
    BY <1>0, <1>1, <1>2 DEF CallTypes, Labels
  <2> QED BY <1>0, <1>1, <1>2, <2>1 DEF CallTypes, Alone
<1>4. dpc'[c] = "receipt" /\ payload'[c] = v
  BY <1>0, <1>1, <1>2 DEF CallTypes
<1>5. /\ v.kind \in {"positive", "negative"}
      /\ v.kind = "positive" => v.data \in Payloads(o) /\ DecodeAccepts(o, v.data)
  BY <1>2
<1>6. StageFits(c)'
  BY <1>0, <1>1, <1>p, <1>4, <1>5 DEF CallFits, StageFits, Busy, RuledOut
<1>7. FoundFits(c)' /\ RecordFits(c)'
  BY <1>0, <1>1 DEF CallFits, FoundFits, RecordFits, RuledOut, bankVars
<1>8. \A d \in Calls : CallFits(d)'
  BY <1>0, <1>1, <1>3, <1>6, <1>7, OthersFit DEF CallFits, bankVars
<1>9. Owned(c)' = Owned(c) /\ WireFits'
  BY <1>0, <1>1, <1>4 DEF Owned, WireFits, bankVars
<1> QED BY <1>1, <1>3, <1>8, <1>9, StepAside DEF bankVars

(* _acknowledge_metadata: the first and only receipt of the transaction,      *)
(* after which the call no longer owns it.                                    *)
LEMMA AcknowledgeFits ==
    ASSUME DiscoveryInv, NEW c \in Calls, AcknowledgeMetadata(c)
    PROVE  DiscoveryInv'
<1>0. /\ StoreInv /\ CallTypes /\ WireFits /\ TransactionNotShared /\ ReceiptsFit
      /\ \A d \in Calls : CallFits(d)
  BY DEF DiscoveryInv
<1>p. PICK t, v, o : t = txn[c] /\ v = payload[c] /\ o = Orders[order[c]]
  OBVIOUS
<1>1. /\ dpc[c] = "receipt" /\ UNCHANGED storeVars
      /\ receipts' = [receipts EXCEPT ![t] = Append(@, v.kind)]
      /\ wire' \in {wire, wire \cup {ReceiptResponse(t, v.kind)}}
  BY <1>p DEF AcknowledgeMetadata
<1>2. /\ t \in Txns /\ order[c] <= 4 /\ ~RuledOut(c, o) /\ v.kind \in ReceiptKinds
      /\ v.kind = "positive" => v.data \in Payloads(o) /\ DecodeAccepts(o, v.data)
  BY <1>0, <1>1, <1>p DEF CallFits, StageFits, Busy, ReceiptKinds
<1>o. o \in OrderSet
  BY <1>0, <1>2, <1>p, OrderFacts DEF CallTypes
<1>3. WireFits' /\ wire \subseteq wire'
  <2>1. /\ ReceiptResponse(t, v.kind) \in Message /\ ReceiptResponse(t, v.kind).txn = t
        /\ ReceiptResponse(t, v.kind).code = v.kind
    BY <1>2, SessionAssumption DEF Message, ReceiptResponse
  <2> QED BY <1>0, <1>1, <2>1, WireGrows
<1>4. CallTypes' /\ Alone(c) /\ Owned(c)' = {} /\ \A d \in Calls : CallFits(d)'
  <2>1. CASE Fails(c)
    BY <1>0, <1>3, <2>1, FailsFits
  <2>2. ASSUME NEW m \in wire', v.kind = "positive", ReceiptAccepted(m, t, "positive"),
               Conclude(c, Result(o, v.data))
        PROVE  CallTypes' /\ Alone(c) /\ Owned(c)' = {} /\ \A d \in Calls : CallFits(d)'
    <3>1. ReceiptResponse(t, "positive") \in wire'
      BY <1>3, <2>2 DEF WireFits, ReceiptAccepted
    <3>2. PICK r : r = Result(o, v.data)
      OBVIOUS
    <3>3. Conclude(c, r) /\ ResultFits(o, r) /\ r.completed # <<>>
      BY <1>o, <1>2, <2>2, <3>2, ResultOfPayload
    <3>4. r # Unknown
      BY <3>3 DEF Unknown
    <3> QED BY <1>0, <1>2, <1>3, <1>p, <3>1, <3>3, <3>4, ConcludeFits
  <2> QED BY <1>p, <2>1, <2>2 DEF AcknowledgeMetadata
<1>5. Owned(c) = {t} /\ \A d \in Calls \ {c} : Owned(d)' = Owned(d) /\ t \notin Owned(d)
  BY <1>0, <1>1, <1>2, <1>4, <1>p DEF Owned, Alone, TransactionNotShared
<1>6. TransactionNotShared'
  <2>1. \A s \in Sessions : TxnOf(s)' = TxnOf(s)
    BY <1>1 DEF TxnOf, storeVars
  <2>2. \A d \in Calls : Owned(d)' \subseteq Owned(d)
    BY <1>4, <1>5
  <2> QED BY <1>0, <1>1, <2>1, <2>2 DEF TransactionNotShared, storeVars
<1>7. ReceiptsFit'
  <2>1. /\ t \in claims /\ receipts[t] = <<>> /\ receipts \in [Txns -> Seq(ReceiptKinds)]
    BY <1>0, <1>2, <1>5 DEF ReceiptsFit, TransactionNotShared
  <2>2. /\ Append(receipts[t], v.kind) \in Seq(ReceiptKinds) /\ Len(Append(receipts[t], v.kind)) = 1
    BY <1>2, <2>1
  <2>3. /\ receipts' \in [Txns -> Seq(ReceiptKinds)] /\ Len(receipts'[t]) = 1
        /\ \A x \in Txns \ {t} : receipts'[x] = receipts[x]
    BY <1>1, <1>2, <2>1, <2>2
  <2>4. \A x \in Txns : Len(receipts'[x]) <= 1 /\ (x \notin claims' => receipts'[x] = <<>>)
    BY <1>0, <1>1, <2>1, <2>3 DEF ReceiptsFit, storeVars
  <2>5. \A d \in Calls : \A x \in Owned(d)' : receipts'[x] = <<>>
    <3>1. \A d \in Calls : Owned(d) \subseteq Txns
      BY <1>0 DEF Owned, CallFits, StageFits, Busy
    <3> QED BY <1>0, <1>4, <1>5, <2>3, <3>1 DEF ReceiptsFit
  <2> QED BY <2>3, <2>4, <2>5 DEF ReceiptsFit
<1>8. StoreInv'
  BY <1>0, <1>1 DEF StoreInv, StoreTypeOK, SessionsCoherent, OneSessionPerTransaction, TxnOf,
     storeVars
<1> QED BY <1>3, <1>4, <1>6, <1>7, <1>8 DEF DiscoveryInv

(* The four results are put together.                                         *)
LEMMA ReturnFits ==
    ASSUME DiscoveryInv, NEW c \in Calls, ReturnCapabilities(c)
    PROVE  DiscoveryInv'
<1>0. /\ CallTypes /\ WireFits /\ \A d \in Calls : CallFits(d)
  BY DEF DiscoveryInv
<1>1. /\ dpc[c] = "ask" /\ order[c] > 4
      /\ UNCHANGED <<storeVars, order, txn, parts, payload, found, via, bankVars>>
  BY OrderFacts DEF ReturnCapabilities
<1>2. PICK l \in {"done", "failed"} : dpc' = [dpc EXCEPT ![c] = l]
  BY DEF ReturnCapabilities, Goto
<1>3. CallTypes' /\ Alone(c) /\ dpc'[c] = l
  BY <1>0, <1>1, <1>2 DEF CallTypes, Labels, Alone
<1>4. order[c] = 5
  <2>1. order[c] \in 1..5
    BY <1>0 DEF CallTypes
  <2> QED BY <1>1, <2>1
<1>5. StageFits(c)' /\ Owned(c)' = {}
  BY <1>1, <1>3, <1>4 DEF StageFits, Busy, Owned
<1>6. FoundFits(c)' /\ RecordFits(c)'
  BY <1>0, <1>1 DEF CallFits, FoundFits, RecordFits, RuledOut, bankVars
<1>7. \A d \in Calls : CallFits(d)'
  BY <1>0, <1>1, <1>3, <1>5, <1>6, OthersFit DEF CallFits, bankVars
<1>8. WireFits'
  BY <1>0, <1>1 DEF WireFits, bankVars
<1> QED BY <1>1, <1>3, <1>5, <1>7, <1>8, StepAside DEF bankVars

(* BTD workers use the same store at the same time.                           *)
LEMMA BtdFits ==
    ASSUME DiscoveryInv, BtdStep
    PROVE  DiscoveryInv'
<1>0. /\ StoreInv /\ CallTypes /\ WireFits /\ TransactionNotShared /\ ReceiptsFit
      /\ \A d \in Calls : CallFits(d)
  BY DEF DiscoveryInv
<1>1. StoreNext /\ UNCHANGED <<callVars, bankVars>>
  BY DEF BtdStep, StoreNext
<1>2. /\ StoreInv' /\ claims \subseteq claims'
      /\ \A t \in claims : (\A s \in Sessions : TxnOf(s) # t)
                             => (\A s \in Sessions : TxnOf(s)' # t)
  BY <1>0, <1>1, StoreKept
<1>3. /\ CallTypes' /\ WireFits' /\ \A d \in Calls : Owned(d)' = Owned(d)
  BY <1>0, <1>1 DEF CallTypes, WireFits, Owned, callVars, bankVars
<1>4. \A d \in Calls : CallFits(d)'
  BY <1>0, <1>1 DEF CallFits, StageFits, FoundFits, RecordFits, RuledOut, callVars, bankVars
<1>5. TransactionNotShared'
  BY <1>0, <1>2, <1>3 DEF TransactionNotShared
<1>6. ReceiptsFit'
  BY <1>0, <1>1, <1>2, <1>3 DEF ReceiptsFit, bankVars
<1> QED BY <1>2, <1>3, <1>4, <1>5, <1>6 DEF DiscoveryInv

(* DiscoveryInv holds before the first call.                                  *)
LEMMA DiscoveryStart ==
    ASSUME Init
    PROVE  DiscoveryInv
<1>1. StoreInv
  BY DEF Init, StoreInit, StoreInv, StoreTypeOK, SessionsCoherent, OneSessionPerTransaction, TxnOf
<1>2. Unknown \in CapabilityDiscovery /\ Len(<<>>) <= MaxSegments
      /\ <<>> \in Seq(Txns \X (1..MaxSegments)) /\ <<>> \in Seq(ReceiptKinds) /\ Len(<<>>) <= 1
  BY SessionAssumption DEF Unknown, CapabilityDiscovery
<1>3. CallTypes
  BY <1>2 DEF Init, CallTypes, Labels
<1>4. \A c \in Calls : Owned(c) = {}
  BY DEF Init, Owned
<1>5. WireFits /\ TransactionNotShared
  BY <1>4 DEF Init, WireFits, TransactionNotShared
<1>6. ReceiptsFit
  BY <1>2, <1>4 DEF Init, ReceiptsFit
<1>7. ASSUME NEW c \in Calls PROVE CallFits(c)
  <2>1. dpc[c] = "idle" /\ order[c] = 1 /\ \A o \in OrderSet : found[c][o] = Unknown
    BY DEF Init
  <2>2. StageFits(c)
    BY <2>1 DEF StageFits, Busy
  <2>3. FoundFits(c) /\ RecordFits(c)
    BY <2>1, OrderFacts, ResultWithout DEF FoundFits, RecordFits
  <2> QED BY <2>2, <2>3 DEF CallFits
<1> QED BY <1>1, <1>3, <1>5, <1>6, <1>7 DEF DiscoveryInv

(* DiscoveryInv is an invariant of discovery.                                 *)
THEOREM DiscoveryInvariant == Spec => []DiscoveryInv
<1>1. DiscoveryInv /\ [Next]_vars => DiscoveryInv'
  <2> SUFFICES ASSUME DiscoveryInv, [Next]_vars PROVE DiscoveryInv'
    OBVIOUS
  <2>1. ASSUME NEW c \in Calls, ExchangeFails(c) PROVE DiscoveryInv'
    <3>1. Fails(c) /\ UNCHANGED <<storeVars, receipts>> /\ wire' = wire
      BY <2>1 DEF ExchangeFails, bankVars
    <3>2. WireFits'
      BY <3>1 DEF DiscoveryInv, WireFits
    <3> QED BY <3>1, <3>2, FailureFits
  <2>2. ASSUME NEW c \in Calls, StartDiscovery(c) \/ CallStep(c) PROVE DiscoveryInv'
    BY <2>1, <2>2, StartFits, WithoutResultFits, InitializationFits, ClaimFits, SegmentFits,
       DecodeFits, AcknowledgeFits, ReturnFits DEF CallStep
  <2>3. CASE UNCHANGED vars
    BY <2>3 DEF vars, callVars, bankVars, storeVars, DiscoveryInv, StoreInv, StoreTypeOK,
       SessionsCoherent, OneSessionPerTransaction, TxnOf, CallTypes, WireFits,
       TransactionNotShared,
       Owned, ReceiptsFit, CallFits, StageFits, FoundFits, RecordFits, RuledOut
  <2> QED BY <2>2, <2>3, BtdFits DEF Next
<1> QED BY <1>1, DiscoveryStart, PTL DEF Spec

(* The type invariant.                                                        *)
THEOREM DiscoveryTypesHold == Spec => []DiscoveryTypeOK
<1>1. DiscoveryInv => DiscoveryTypeOK
  BY OrderFacts DEF DiscoveryInv, StoreInv, CallTypes, WireFits, DiscoveryTypeOK, Labels
<1> QED BY <1>1, DiscoveryInvariant, PTL

(* The transaction a discovery works on belongs to no other discovery and to  *)
(* no BTD session, whatever old responses are delivered.                      *)
THEOREM DiscoveryOwnsTransaction == Spec => []TransactionNotShared
<1>1. DiscoveryInv => TransactionNotShared
  BY DEF DiscoveryInv
<1> QED BY <1>1, DiscoveryInvariant, PTL

(* No metadata transaction is acknowledged twice.                             *)
THEOREM AcknowledgedOnce == Spec => []AcknowledgedAtMostOnce
<1>1. DiscoveryInv => AcknowledgedAtMostOnce
  BY DEF DiscoveryInv, ReceiptsFit, AcknowledgedAtMostOnce
<1> QED BY <1>1, DiscoveryInvariant, PTL

(* _acknowledge_metadata sends a positive receipt only for data whose every   *)
(* segment was collected, in order.                                           *)
THEOREM PositiveWhole == Spec => []PositiveOnlyIfWhole
<1>1. DiscoveryInv => PositiveOnlyIfWhole
  BY DEF DiscoveryInv, CallFits, StageFits, Segments, PositiveOnlyIfWhole
<1> QED BY <1>1, DiscoveryInvariant, PTL

(* What discover_capabilities returns of an order, the bank has recorded as   *)
(* retrieved.                                                                 *)
THEOREM ReturnedRecorded == Spec => []ReturnedOnlyIfRecorded
<1>1. DiscoveryInv => ReturnedOnlyIfRecorded
  BY DEF DiscoveryInv, CallFits, RecordFits, ReturnedOnlyIfRecorded
<1> QED BY <1>1, DiscoveryInvariant, PTL

-----------------------------------------------------------------------------
(* Two lists without repetition that share nothing, joined.                   *)
LEMMA JoinDistinct ==
    ASSUME NEW D, NEW p \in Seq(D), NEW q \in Seq(D), IsInjective(p), IsInjective(q),
           ToSet(p) \cap ToSet(q) = {}
    PROVE  p \o q \in Seq(D) /\ IsInjective(p \o q) /\ ToSet(p \o q) = ToSet(p) \cup ToSet(q)
<1>1. p \o q \in Seq(D) /\ IsInjective(p \o q)
  <2>1. \A i \in DOMAIN p, j \in DOMAIN q : p[i] # q[j]
    BY DEF ToSet
  <2> QED BY <2>1 DEF IsInjective
<1>2. ToSet(p \o q) \subseteq ToSet(p) \cup ToSet(q)
  BY DEF ToSet
<1>3. ToSet(p) \subseteq ToSet(p \o q)
  <2> SUFFICES ASSUME NEW i \in DOMAIN p PROVE p[i] \in ToSet(p \o q)
    BY DEF ToSet
  <2>1. i \in DOMAIN (p \o q) /\ (p \o q)[i] = p[i]
    OBVIOUS
  <2> QED BY <2>1 DEF ToSet
<1>4. ToSet(q) \subseteq ToSet(p \o q)
  <2> SUFFICES ASSUME NEW i \in DOMAIN q PROVE q[i] \in ToSet(p \o q)
    BY DEF ToSet
  <2>1. Len(p) + i \in DOMAIN (p \o q) /\ (p \o q)[Len(p) + i] = q[i]
    OBVIOUS
  <2> QED BY <2>1 DEF ToSet
<1> QED BY <1>1, <1>2, <1>3, <1>4

(* Four lists of orders, each empty or just the one order, joined.            *)
LEMMA OrdersJoined ==
    ASSUME NEW a \in {<<>>, <<"HPD">>}, NEW b \in {<<>>, <<"HAA">>},
           NEW d \in {<<>>, <<"HKD">>}, NEW e \in {<<>>, <<"HTD">>}
    PROVE  /\ IsInjective(a \o b \o d \o e)
           /\ ToSet(a \o b \o d \o e) = ToSet(a) \cup ToSet(b) \cup ToSet(d) \cup ToSet(e)
<1>1. \A o : IsInjective(<<>>) /\ IsInjective(<<o>>) /\ ToSet(<<>>) = {} /\ ToSet(<<o>>) = {o}
  BY DEF IsInjective, ToSet
<1>2. /\ a \in Seq(OrderSet) /\ IsInjective(a) /\ ToSet(a) \subseteq {"HPD"}
      /\ b \in Seq(OrderSet) /\ IsInjective(b) /\ ToSet(b) \subseteq {"HAA"}
      /\ d \in Seq(OrderSet) /\ IsInjective(d) /\ ToSet(d) \subseteq {"HKD"}
      /\ e \in Seq(OrderSet) /\ IsInjective(e) /\ ToSet(e) \subseteq {"HTD"}
  <2>1. ASSUME NEW o \in OrderSet, NEW s \in {<<>>, <<o>>}
        PROVE  s \in Seq(OrderSet) /\ IsInjective(s) /\ ToSet(s) \subseteq {o}
    <3>1. <<>> \in Seq(OrderSet) /\ <<o>> \in Seq(OrderSet)
      OBVIOUS
    <3> QED BY <1>1, <3>1
  <2> QED BY <2>1, OrderFacts
<1>3. PICK u : u = a \o b
  OBVIOUS
<1>4. u \in Seq(OrderSet) /\ IsInjective(u) /\ ToSet(u) = ToSet(a) \cup ToSet(b)
  <2>1. ToSet(a) \cap ToSet(b) = {}
    BY <1>2
  <2> QED BY <1>2, <1>3, <2>1, JoinDistinct
<1>5. PICK v : v = u \o d
  OBVIOUS
<1>6. v \in Seq(OrderSet) /\ IsInjective(v) /\ ToSet(v) = ToSet(u) \cup ToSet(d)
  <2>1. ToSet(u) \cap ToSet(d) = {}
    BY <1>2, <1>4
  <2> QED BY <1>2, <1>4, <1>5, <2>1, JoinDistinct
<1>7. IsInjective(v \o e) /\ ToSet(v \o e) = ToSet(v) \cup ToSet(e)
  <2>1. ToSet(v) \cap ToSet(e) = {}
    BY <1>2, <1>4, <1>6
  <2> QED BY <1>2, <1>6, <2>1, JoinDistinct
<1> QED BY <1>3, <1>4, <1>5, <1>6, <1>7

(* CapabilityDiscovery accepts the union of four settled orders: orders and   *)
(* services of different results differ, each order's own list names none     *)
(* twice, and the customers carry the services of HKD and HTD.                *)
LEMMA UnionAccepted ==
    ASSUME DiscoveryInv, NEW c \in Calls, order[c] > 4
    PROVE  /\ CapabilityDiscoveryAccepts(Union(c))
           /\ ToSet(Union(c).completed) \cup ToSet(Union(c).unsupported) = OrderSet
           /\ \A o \in ToSet(Union(c).completed) : ~RuledOut(c, o)
<1>1. FoundFits(c) /\ found[c] \in [OrderSet -> CapabilityDiscovery] /\ order[c] \in 1..5
  BY DEF DiscoveryInv, CallFits, CallTypes
<1> DEFINE f == found[c]
           D == OrderSet \X Descriptors
<1>2. ASSUME NEW o \in OrderSet
      PROVE  /\ ResultFits(o, f[o]) /\ f[o] # Unknown /\ f[o].services \in Seq(D)
             /\ f[o].completed # <<>> => ~RuledOut(c, o)
  <2>1. PICK i \in 1..4 : o = Orders[i]
    BY OrderFacts
  <2>2. ResultFits(o, f[o]) /\ f[o] # Unknown /\ (f[o].completed # <<>> => ~RuledOut(c, o))
    BY <1>1, <2>1 DEF FoundFits
  <2> QED BY <2>2 DEF ResultFits, CapabilityDiscovery
<1>s. \A o : ToSet(<<>>) = {} /\ ToSet(<<o>>) = {o} /\ <<o>> # <<>>
  BY DEF ToSet
<1>3. ASSUME NEW o \in OrderSet
      PROVE  \/ f[o].completed = <<o>> /\ f[o].unsupported = <<>>
             \/ f[o].completed = <<>> /\ f[o].unsupported = <<o>>
  BY <1>2 DEF ResultFits
<1>p. PICK a, b, d, e, w, x, y, z :
         /\ a = f["HPD"].completed /\ b = f["HAA"].completed
         /\ d = f["HKD"].completed /\ e = f["HTD"].completed
         /\ w = f["HPD"].unsupported /\ x = f["HAA"].unsupported
         /\ y = f["HKD"].unsupported /\ z = f["HTD"].unsupported
  OBVIOUS
<1>4. /\ (a = <<"HPD">> /\ w = <<>>) \/ (a = <<>> /\ w = <<"HPD">>)
      /\ (b = <<"HAA">> /\ x = <<>>) \/ (b = <<>> /\ x = <<"HAA">>)
      /\ (d = <<"HKD">> /\ y = <<>>) \/ (d = <<>> /\ y = <<"HKD">>)
      /\ (e = <<"HTD">> /\ z = <<>>) \/ (e = <<>> /\ z = <<"HTD">>)
  <2>1. "HPD" \in OrderSet /\ "HAA" \in OrderSet /\ "HKD" \in OrderSet /\ "HTD" \in OrderSet
    BY OrderFacts
  <2>2. (a = <<"HPD">> /\ w = <<>>) \/ (a = <<>> /\ w = <<"HPD">>)
    BY <1>3, <1>p, <2>1
  <2>3. (b = <<"HAA">> /\ x = <<>>) \/ (b = <<>> /\ x = <<"HAA">>)
    BY <1>3, <1>p, <2>1
  <2>4. (d = <<"HKD">> /\ y = <<>>) \/ (d = <<>> /\ y = <<"HKD">>)
    BY <1>3, <1>p, <2>1
  <2>5. (e = <<"HTD">> /\ z = <<>>) \/ (e = <<>> /\ z = <<"HTD">>)
    BY <1>3, <1>p, <2>1
  <2> QED BY <2>2, <2>3, <2>4, <2>5
<1>q. PICK g, h, k : g = f["HAA"].services /\ h = f["HKD"].services /\ k = f["HTD"].services
  OBVIOUS
<1>5. /\ g \in Seq(D) /\ IsInjective(g) /\ (\A i \in DOMAIN g : g[i][1] = "HAA")
      /\ h \in Seq(D) /\ IsInjective(h) /\ (\A i \in DOMAIN h : h[i][1] = "HKD")
      /\ k \in Seq(D) /\ IsInjective(k) /\ (\A i \in DOMAIN k : k[i][1] = "HTD")
      /\ (b = <<>> => g = <<>>) /\ (d = <<>> => h = <<>>) /\ (e = <<>> => k = <<>>)
  BY <1>2, <1>p, <1>q, OrderFacts DEF ResultFits
<1>r. PICK r : r = Union(c)
  OBVIOUS
<1>6. /\ r.services = g \o h \o k /\ r.completed = a \o b \o d \o e
      /\ r.unsupported = w \o x \o y \o z
      /\ r.params = f["HPD"].params /\ r.customers = f["HKD"].customers \o f["HTD"].customers
  BY <1>p, <1>q, <1>r DEF Union
<1>7. /\ IsInjective(r.completed) /\ IsInjective(r.unsupported)
      /\ ToSet(r.completed) = ToSet(a) \cup ToSet(b) \cup ToSet(d) \cup ToSet(e)
      /\ ToSet(r.unsupported) = ToSet(w) \cup ToSet(x) \cup ToSet(y) \cup ToSet(z)
  BY <1>4, <1>6, OrdersJoined
<1>8. ASSUME NEW o \in OrderSet
      PROVE  /\ o \in ToSet(r.completed) <=> f[o].completed # <<>>
             /\ o \in ToSet(r.unsupported) <=> f[o].completed = <<>>
  <2>1. ASSUME NEW n, NEW u, NEW v, (u = <<n>> /\ v = <<>>) \/ (u = <<>> /\ v = <<n>>)
        PROVE  /\ ToSet(u) = IF u = <<>> THEN {} ELSE {n}
               /\ ToSet(v) = IF u = <<>> THEN {n} ELSE {}
    BY <1>s, <2>1
  <2>2. /\ ToSet(a) = (IF a = <<>> THEN {} ELSE {"HPD"}) /\ ToSet(w) = (IF a = <<>> THEN {"HPD"} ELSE {})
        /\ ToSet(b) = (IF b = <<>> THEN {} ELSE {"HAA"}) /\ ToSet(x) = (IF b = <<>> THEN {"HAA"} ELSE {})
        /\ ToSet(d) = (IF d = <<>> THEN {} ELSE {"HKD"}) /\ ToSet(y) = (IF d = <<>> THEN {"HKD"} ELSE {})
        /\ ToSet(e) = (IF e = <<>> THEN {} ELSE {"HTD"}) /\ ToSet(z) = (IF e = <<>> THEN {"HTD"} ELSE {})
    BY <1>4, <2>1
  <2>3. /\ "HPD" \in ToSet(r.completed) <=> a # <<>>
        /\ "HAA" \in ToSet(r.completed) <=> b # <<>>
        /\ "HKD" \in ToSet(r.completed) <=> d # <<>>
        /\ "HTD" \in ToSet(r.completed) <=> e # <<>>
    BY <1>7, <2>2
  <2>4. /\ "HPD" \in ToSet(r.unsupported) <=> a = <<>>
        /\ "HAA" \in ToSet(r.unsupported) <=> b = <<>>
        /\ "HKD" \in ToSet(r.unsupported) <=> d = <<>>
        /\ "HTD" \in ToSet(r.unsupported) <=> e = <<>>
    BY <1>7, <2>2
  <2> QED BY <1>p, <2>3, <2>4, OrderFacts
<1>9. ToSet(r.completed) \cup ToSet(r.unsupported) \subseteq OrderSet
  BY <1>4, <1>7, <1>s, OrderFacts
<1> HIDE DEF D
<1>10. /\ ToSet(g) \cap ToSet(h) = {} /\ (ToSet(g) \cup ToSet(h)) \cap ToSet(k) = {}
       /\ \A s \in ToSet(g) : s[1] = "HAA" /\ b # <<>>
       /\ \A s \in ToSet(h) : s[1] = "HKD" /\ d # <<>>
       /\ \A s \in ToSet(k) : s[1] = "HTD" /\ e # <<>>
  <2>1. /\ \A s \in ToSet(g) : s[1] = "HAA" /\ b # <<>>
        /\ \A s \in ToSet(h) : s[1] = "HKD" /\ d # <<>>
        /\ \A s \in ToSet(k) : s[1] = "HTD" /\ e # <<>>
    BY <1>5 DEF ToSet
  <2> QED BY <2>1
<1>11. IsInjective(r.services) /\ ToSet(r.services) = ToSet(g) \cup ToSet(h) \cup ToSet(k)
  <2>1. PICK u : u = g \o h
    OBVIOUS
  <2>2. u \in Seq(D) /\ IsInjective(u) /\ ToSet(u) = ToSet(g) \cup ToSet(h)
    BY <1>5, <1>10, <2>1, JoinDistinct
  <2>3. IsInjective(u \o k) /\ ToSet(u \o k) = ToSet(u) \cup ToSet(k)
    BY <1>5, <1>10, <2>2, JoinDistinct
  <2> QED BY <1>6, <2>1, <2>2, <2>3
<1>12. \A s \in ToSet(r.services) : s[1] \in ToSet(r.completed)
  BY <1>8, <1>10, <1>11, <1>p, OrderFacts
<1>13. (r.params # NoParams) <=> ("HPD" \in ToSet(r.completed))
  BY <1>2, <1>6, <1>8, OrderFacts DEF ResultFits
<1>14. /\ f["HKD"].customers = IF d # <<>> THEN << [source |-> "HKD", services |-> h] >> ELSE <<>>
       /\ f["HTD"].customers = IF e # <<>> THEN << [source |-> "HTD", services |-> k] >> ELSE <<>>
  BY <1>2, <1>p, <1>q, OrderFacts DEF ResultFits, CustomerOrders
<1>l. PICK l, m : l = [source |-> "HKD", services |-> h] /\ m = [source |-> "HTD", services |-> k]
  OBVIOUS
<1>m. l.source = "HKD" /\ m.source = "HTD" /\ l.services = h /\ m.services = k
  BY <1>l
<1>15. /\ ToSet(r.customers) = (IF d # <<>> THEN {l} ELSE {}) \cup (IF e # <<>> THEN {m} ELSE {})
       /\ \A i, j \in DOMAIN r.customers : r.customers[i].source = r.customers[j].source => i = j
  <2>1. r.customers = (IF d # <<>> THEN <<l>> ELSE <<>>) \o (IF e # <<>> THEN <<m>> ELSE <<>>)
    BY <1>6, <1>14, <1>l
  <2>2. <<l>> \in Seq({l, m}) /\ <<m>> \in Seq({l, m}) /\ <<>> \in Seq({l, m})
    OBVIOUS
  <2>3. CASE d # <<>> /\ e # <<>>
    <3>1. r.customers = <<l>> \o <<m>>
      BY <2>1, <2>3
    <3>2. /\ r.customers \in Seq({l, m}) /\ DOMAIN r.customers = 1..2
          /\ r.customers[1] = l /\ r.customers[2] = m
      BY <2>2, <3>1
    <3>3. ToSet(r.customers) = {l, m}
      BY <3>2 DEF ToSet
    <3> QED BY <1>m, <2>3, <3>2, <3>3
  <2>4. CASE d # <<>> /\ e = <<>>
    <3>1. r.customers = <<l>>
      BY <2>1, <2>2, <2>4
    <3> QED BY <2>4, <3>1 DEF ToSet
  <2>5. CASE d = <<>> /\ e # <<>>
    <3>1. r.customers = <<m>>
      BY <2>1, <2>2, <2>5
    <3> QED BY <2>5, <3>1 DEF ToSet
  <2>6. CASE d = <<>> /\ e = <<>>
    <3>1. r.customers = <<>>
      BY <2>1, <2>2, <2>6
    <3> QED BY <2>6, <3>1 DEF ToSet
  <2> QED BY <2>3, <2>4, <2>5, <2>6
<1>16. Sources(r) = ToSet(r.completed) \cap CustomerOrders
  <2>1. /\ "HKD" \in ToSet(r.completed) <=> d # <<>>
        /\ "HTD" \in ToSet(r.completed) <=> e # <<>>
    BY <1>8, <1>p, OrderFacts
  <2>2. Sources(r) = (IF d # <<>> THEN {"HKD"} ELSE {}) \cup (IF e # <<>> THEN {"HTD"} ELSE {})
    BY <1>m, <1>15 DEF Sources
  <2> QED BY <2>1, <2>2 DEF CustomerOrders
<1>17. CustomerServices(r) = {s \in ToSet(r.services) : s[1] \in CustomerOrders}
  <2>1. CustomerServices(r) = (IF d # <<>> THEN ToSet(h) ELSE {}) \cup (IF e # <<>> THEN ToSet(k) ELSE {})
    BY <1>m, <1>15 DEF CustomerServices
  <2>2. CustomerServices(r) = ToSet(h) \cup ToSet(k)
    BY <1>10, <2>1
  <2> QED BY <1>10, <1>11, <2>2 DEF CustomerOrders
<1>18. CapabilityDiscoveryAccepts(r)
  <2>1. ToSet(r.completed) \cap ToSet(r.unsupported) = {}
    BY <1>8, <1>9
  <2> QED BY <1>7, <1>9, <1>11, <1>12, <1>13, <1>15, <1>16, <1>17, <2>1
          DEF CapabilityDiscoveryAccepts
<1>19. ToSet(r.completed) \cup ToSet(r.unsupported) = OrderSet
  BY <1>8, <1>9
<1>20. \A o \in ToSet(r.completed) : ~RuledOut(c, o)
  BY <1>2, <1>8, <1>9
<1> QED BY <1>r, <1>18, <1>19, <1>20

(* No check of CapabilityDiscovery throws acknowledged metadata away, neither *)
(* on the result of an order nor on the union, and a returned discovery has   *)
(* settled all four orders consistently.                                      *)
THEOREM ResultsCoherent == Spec => []ResultCoherent
<1>1. ASSUME DiscoveryInv PROVE ResultCoherent
  <2>1. ASSUME NEW c \in Calls, dpc[c] = "receipt", payload[c].kind = "positive"
        PROVE  CapabilityDiscoveryAccepts(Result(Orders[order[c]], payload[c].data))
    <3>p. PICK o, p : o = Orders[order[c]] /\ p = payload[c].data
      OBVIOUS
    <3>1. order[c] \in 1..4
      BY <1>1, <2>1 DEF DiscoveryInv, CallTypes, CallFits, StageFits, Busy
    <3>2. o \in OrderSet /\ p \in Payloads(o) /\ DecodeAccepts(o, p)
      BY <1>1, <2>1, <3>p, <3>1, OrderFacts DEF DiscoveryInv, CallFits, StageFits
    <3>3. ResultFits(o, Result(o, p))
      BY <3>2, ResultOfPayload
    <3>4. CapabilityDiscoveryAccepts(Result(o, p))
      BY <3>2, <3>3, ResultAccepted
    <3> QED BY <3>p, <3>4
  <2>2. AcknowledgedNeverDiscarded
    BY <1>1, <2>1, OrderFacts, UnionAccepted DEF AcknowledgedNeverDiscarded
  <2>3. ASSUME NEW c \in Calls, dpc[c] = "done"
        PROVE  /\ ToSet(Union(c).completed) \cup ToSet(Union(c).unsupported) = OrderSet
               /\ \A o \in ToSet(Union(c).completed) : ~RuledOut(c, o)
    <3>1. order[c] = 5
      BY <1>1, <2>3 DEF DiscoveryInv, CallFits, StageFits
    <3>2. order[c] > 4
      BY <3>1
    <3> QED BY <1>1, <3>2, UnionAccepted
  <2> QED BY <2>2, <2>3 DEF ResultCoherent
<1> QED BY <1>1, DiscoveryInvariant, PTL
=============================================================================
