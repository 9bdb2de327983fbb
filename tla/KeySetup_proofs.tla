-------------------------- MODULE KeySetup_proofs --------------------------
(***************************************************************************)
(* Proofs about KeySetup and the HttpsTransport below it, for any limits   *)
(* on a response and any set of bank keys. KeyInv ties the outcome of an   *)
(* exchange to what has left the host, and both to what the bank has       *)
(* registered, which is what makes each classification of transport.py     *)
(* safe to act on.                                                         *)
(***************************************************************************)
EXTENDS KeySetup, TLAPS

(* The body read so far may be returned.                                      *)
WholeBody == received <= MaxResponse /\ declared \in {NoLength, received}

(* The request has left the host and its exchange is not over.                *)
Sent == {"sent", "body", "end"}

(* What the outcome of an exchange says about the request: after "transient"  *)
(* it was never sent, and for INI and HIA neither was one that was stopped or *)
(* failed otherwise.                                                          *)
ExchangeFits ==
    /\ outcome # "none" => net = "off"
    /\ net = "end" \/ outcome = "body" => WholeBody
    /\ net \in Sent => reached
    /\ reached => net \in Sent \/ outcome # "none"
    /\ outcome = "body" => reached
    /\ outcome = "transient" => ~reached
    /\ ord \in InitializationOrders /\ outcome \in {"stopped", "other"} => ~reached

(* The exchange under way is that of the call at hand.                        *)
CallFits ==
    /\ hpc = "idle" <=> call = "none"
    /\ hpc = "idle" => net = "off" /\ outcome = "none"
    /\ call = "HEV" => hpc = "hev"
    /\ net # "off" \/ outcome # "none" => ord = IF hpc = "hev" THEN "HEV" ELSE call

(* The key request of this call may have reached the bank.                    *)
UnderWay(o) == call = o /\ hpc = "op" /\ reached

(* What the host may conclude about a key: it is submitted at most once, an   *)
(* order that may be called again was never sent, and a registered key has    *)
(* its letter.                                                                *)
SubmissionFits(o) ==
    /\ submitted[o] <= 1
    /\ o \in mayCall => submitted[o] = 0 /\ call # o
    /\ call = o => submitted[o] = IF UnderWay(o) THEN 1 ELSE 0
    /\ registered[o] => submitted[o] = 1
    /\ UnderWay(o) /\ reply = "ok" => registered[o]
    /\ UnderWay(o) /\ reply = "rejected" => ~registered[o]
    /\ registered[o] /\ call # o => letter[o] # "none" \/ o \in cut
    /\ letter[o] = "returned" => registered[o]

(* A pin was accepted by the operator, and so were the keys in use.           *)
TrustFits ==
    /\ pin # NoKeys => pin.digests \in accepted
    /\ call \in TrustedOps => using \in accepted

(* Types of the host's state.                                                 *)
HostTypes ==
    /\ hpc \in {"idle", "hev", "op"} /\ call \in Operations \cup {"none"}
    /\ protocol \in BOOLEAN
    /\ letter \in [KeyOrders -> {"none", "returned", "pending"}]
    /\ mayCall \subseteq KeyOrders /\ cut \subseteq KeyOrders

(* Types of the bank's state.                                                 *)
BankTypes ==
    /\ registered \in [KeyOrders -> BOOLEAN] /\ submitted \in [KeyOrders -> Nat]
    /\ reply \in Replies
    /\ bankKeys \in KeyPairs /\ stale \subseteq KeyPairs

(* Types of the trust store and of the keys in use.                           *)
TrustTypes ==
    /\ candidate \in KeyPairs \cup {NoKeys} /\ using \in KeyPairs \cup {NoKeys}
    /\ pin \in [certs: KeyPairs, digests: KeyPairs] \cup {NoKeys}
    /\ accepted \subseteq KeyPairs

(* The inductive invariant. ExchangeFits is what SubmissionFits needs of the  *)
(* transport: that letter and retry are decided by the outcome alone is safe  *)
(* because the outcome tells whether the request was sent.                    *)
KeyInv ==
    /\ NetTypeOK /\ HostTypes /\ BankTypes /\ TrustTypes
    /\ ExchangeFits /\ CallFits /\ TrustFits
    /\ \A o \in KeyOrders : SubmissionFits(o)

(* The except clauses never report a success, report "transient" only for a   *)
(* refused certificate, and report an initialization order as "transient" or  *)
(* "ambiguous" and nothing else.                                              *)
LEMMA ClassifyFacts ==
    ASSUME NEW o, NEW e \in {"certificate", "tls", "url", "os", "http", "transport", "limit",
                             "stopped", "other"}
    PROVE  /\ Classify(o, e) \in Outcomes \ {"none", "body"}
           /\ Classify(o, e) = "transient" => e = "certificate"
           /\ o \in InitializationOrders => Classify(o, e) \in {"transient", "ambiguous"}
BY DEF Classify, Outcomes

(* The steps of an exchange between sending and its end.                      *)
LEMMA NetStepFits ==
    ASSUME NetTypeOK, ExchangeFits, NetStep
    PROVE  /\ NetTypeOK' /\ ExchangeFits' /\ net # "off" /\ outcome = "none"
           /\ UNCHANGED <<ord, late, reached>>
<1> USE TransportAssumption
<1>t. net # "off" => outcome = "none"
  BY DEF ExchangeFits
<1>r. ASSUME NEW e \in {"certificate", "tls", "url", "os", "http", "transport", "limit",
                        "stopped", "other"},
             Raise(e), net # "off", e = "certificate" => ~reached,
             UNCHANGED <<ord, late, reached>>, NetTypeOK, declared' = declared, received' = received
      PROVE  NetTypeOK' /\ ExchangeFits'
  <2>1. /\ net' = "off" /\ outcome' \in Outcomes \ {"none", "body"}
        /\ outcome' = "transient" => ~reached
        /\ ord \in InitializationOrders => outcome' \in {"transient", "ambiguous"}
    BY <1>r, ClassifyFacts DEF Raise
  <2> QED BY <1>r, <2>1 DEF NetTypeOK, ExchangeFits, Sent
<1>1. CASE ConnectionFails
  <2>1. ~reached
    BY <1>t, <1>1 DEF ConnectionFails, ExchangeFits, Sent
  <2> QED BY <1>1, <1>r, <1>t, <2>1 DEF ConnectionFails
<1>2. CASE NoResponse
  BY <1>2, <1>r, <1>t DEF NoResponse
<1>3. CASE ResponseHead
  <2>0. UNCHANGED <<ord, late, reached, received>> /\ net = "sent"
    BY <1>3 DEF ResponseHead
  <2>1. CASE Raise("limit") /\ UNCHANGED declared
    BY <1>r, <1>t, <2>0, <2>1
  <2>2. CASE \E n \in 0..MaxLength \cup {NoLength} : declared' = n /\ net' = "body" /\ UNCHANGED outcome
    BY <1>t, <2>0, <2>2 DEF NetTypeOK, ExchangeFits, Sent
  <2> QED BY <1>3, <1>t, <2>0, <2>1, <2>2 DEF ResponseHead
<1>4. ASSUME NEW n \in 1..ChunkSize, ReadChunk(n)
      PROVE  NetTypeOK' /\ ExchangeFits' /\ net # "off" /\ UNCHANGED <<ord, late, reached>>
  <2>1. /\ net = "body" /\ n <= MaxResponse + 1 - received /\ received' = received + n
        /\ UNCHANGED <<net, ord, declared, late, reached, outcome>>
    BY <1>4 DEF ReadChunk
  <2>2. received' \in 0..(MaxResponse + 1)
    BY <2>1 DEF NetTypeOK
  <2> QED BY <1>t, <2>1, <2>2 DEF NetTypeOK, ExchangeFits
<1>5. CASE ReadFails
  BY <1>5, <1>r, <1>t DEF ReadFails
<1>6. CASE EndOfBody
  <2>0. UNCHANGED <<ord, late, reached, received, declared>> /\ net = "body"
    BY <1>6 DEF EndOfBody
  <2>1. CASE Raise("limit") \/ Raise("transport")
    BY <1>r, <1>t, <2>0, <2>1
  <2>2. CASE net' = "end" /\ UNCHANGED outcome /\ WholeBody
    BY <1>t, <2>0, <2>2 DEF NetTypeOK, ExchangeFits, Sent, WholeBody
  <2> QED BY <1>6, <1>t, <2>0, <2>1, <2>2 DEF EndOfBody, WholeBody, NetTypeOK
<1>7. CASE EndExchange
  <2>0. UNCHANGED <<ord, late, reached, received, declared>> /\ net = "end"
    BY <1>7 DEF EndExchange
  <2>1. CASE Raise("stopped")
    BY <1>r, <1>t, <2>0, <2>1
  <2>2. CASE net' = "off" /\ outcome' = "body"
    BY <1>t, <2>0, <2>2 DEF NetTypeOK, ExchangeFits, Sent, WholeBody, Outcomes
  <2> QED BY <1>7, <1>t, <2>0, <2>1, <2>2 DEF EndExchange
<1> QED BY <1>t, <1>1, <1>2, <1>3, <1>4, <1>5, <1>6, <1>7 DEF NetStep

(* An exchange that was evaluated, or lost with its process, leaves nothing   *)
(* behind.                                                                    *)
LEMMA ExchangeOver ==
    ASSUME late' \in BOOLEAN, net' = "off", outcome' = "none", reached' = FALSE, ord' = "none",
           declared' = NoLength, received' = 0
    PROVE  NetTypeOK' /\ ExchangeFits'
<1>1. received' \in 0..(MaxResponse + 1)
  BY TransportAssumption
<1>2. ord' \in OrderTypes /\ outcome' \in Outcomes
  BY DEF OrderTypes, Outcomes
<1>3. late' \in BOOLEAN /\ reached' \in BOOLEAN
  OBVIOUS
<1>4. NetTypeOK'
  BY <1>1, <1>2, <1>3 DEF NetTypeOK
<1>5. ExchangeFits'
  BY DEF ExchangeFits, Sent
<1> QED BY <1>4, <1>5

(* KeyInv is preserved by every step.                                         *)
LEMMA KeyInvKept ==
    ASSUME KeyInv, [Next]_vars
    PROVE  KeyInv'
<1> USE DEF KeyOrders
<1>t. /\ NetTypeOK /\ HostTypes /\ BankTypes /\ TrustTypes /\ ExchangeFits /\ CallFits /\ TrustFits
      /\ \A o \in KeyOrders : SubmissionFits(o)
  BY DEF KeyInv
<1>1. CASE UNCHANGED vars
  BY <1>1, <1>t DEF KeyInv, vars, netVars, hostVars, bankVars, trustVars, NetTypeOK, HostTypes,
     BankTypes, TrustTypes, ExchangeFits, CallFits, TrustFits, SubmissionFits, UnderWay, WholeBody
<1>2. CASE Network
  <2>1. UNCHANGED <<hostVars, bankVars, trustVars>> /\ NetStep
    BY <1>2 DEF Network
  <2>2. /\ NetTypeOK' /\ ExchangeFits' /\ net # "off" /\ outcome = "none"
        /\ UNCHANGED <<ord, late, reached>>
    BY <1>t, <2>1, NetStepFits
  <2>3. HostTypes' /\ BankTypes' /\ TrustTypes' /\ TrustFits' /\ CallFits'
    BY <1>t, <2>1, <2>2 DEF HostTypes, BankTypes, TrustTypes, TrustFits, CallFits, hostVars,
       bankVars, trustVars
  <2>4. \A o \in KeyOrders : SubmissionFits(o)'
    BY <1>t, <2>1, <2>2 DEF SubmissionFits, UnderWay, hostVars, bankVars
  <2> QED BY <2>2, <2>3, <2>4 DEF KeyInv
<1>3. ASSUME NEW o \in Operations, NEW given \in BOOLEAN, StartCall(o, given)
      PROVE  KeyInv'
  <2>1. /\ hpc = "idle" /\ call = "none" /\ net = "off" /\ outcome = "none" /\ ~reached
        /\ UNCHANGED <<net, ord, declared, received, reached, outcome, protocol, letter, cut,
                       registered, submitted, reply, bankKeys, stale, candidate, pin, accepted>>
        /\ call' = o /\ hpc' \in {"hev", "op"} /\ (o = "HEV" => hpc' = "hev")
        /\ mayCall' = mayCall \ {o} /\ (o \in KeyOrders => o \in mayCall) /\ late' = FALSE
    BY <1>t, <1>3 DEF StartCall, CallFits, ExchangeFits, Sent, bankVars
  <2>2. o \in TrustedOps => pin # NoKeys /\ pin.certs = pin.digests
    BY <1>3 DEF StartCall, RequireTrusted, AcceptsOutOfBand
  <2>3. using' = IF o \in TrustedOps THEN pin.certs ELSE NoKeys
    BY <1>3 DEF StartCall
  <2>4. TrustTypes' /\ TrustFits'
    BY <1>t, <2>1, <2>2, <2>3 DEF TrustTypes, TrustFits
  <2>5. NetTypeOK' /\ HostTypes' /\ BankTypes' /\ ExchangeFits'
    BY <1>t, <2>1 DEF NetTypeOK, HostTypes, BankTypes, ExchangeFits, WholeBody
  <2>6. CallFits'
    BY <2>1 DEF CallFits, Operations, TrustedOps, InitializationOrders
  <2>7. ASSUME NEW x \in KeyOrders PROVE SubmissionFits(x)'
    BY <1>t, <2>1 DEF SubmissionFits, UnderWay, InitializationOrders
  <2> QED BY <2>4, <2>5, <2>6, <2>7 DEF KeyInv
<1>4. CASE Begin
  <2>1. /\ net = "off" /\ outcome = "none" /\ hpc \in {"hev", "op"} /\ ~reached /\ reached' = FALSE
        /\ ord' = IF hpc = "hev" THEN "HEV" ELSE call
        /\ \/ outcome' = "stopped" /\ net' = net
           \/ net' = "connect" /\ outcome' = outcome
        /\ declared' = NoLength /\ received' = 0 /\ late' = late
        /\ UNCHANGED <<hpc, call, protocol, letter, mayCall, cut, registered, submitted, reply,
                       bankKeys, stale, candidate, pin, using, accepted>>
    BY <1>t, <1>4 DEF Begin, BeginExchange, ExchangeFits, Sent, hostVars, bankVars, trustVars
  <2>2. NetTypeOK' /\ ExchangeFits'
    <3>1. received' \in 0..(MaxResponse + 1)
      BY <2>1, TransportAssumption
    <3>2. ord' \in OrderTypes /\ outcome' \in Outcomes
      BY <1>t, <2>1 DEF CallFits, HostTypes, OrderTypes, Operations, KeyOrders, TrustedOps,
         InitializationOrders, Outcomes
    <3>3. late' \in BOOLEAN /\ reached' \in BOOLEAN
      BY <1>t, <2>1 DEF NetTypeOK
    <3>4. NetTypeOK'
      BY <2>1, <3>1, <3>2, <3>3 DEF NetTypeOK
    <3> QED BY <2>1, <3>4 DEF ExchangeFits, Sent
  <2>3. HostTypes' /\ BankTypes' /\ TrustTypes' /\ TrustFits' /\ CallFits'
    BY <1>t, <2>1 DEF HostTypes, BankTypes, TrustTypes, TrustFits, CallFits
  <2>4. \A o \in KeyOrders : SubmissionFits(o)'
    BY <1>t, <2>1 DEF SubmissionFits, UnderWay
  <2> QED BY <2>2, <2>3, <2>4 DEF KeyInv
<1>5. CASE PreparationFails
  <2>1. /\ net = "off" /\ outcome = "none" /\ hpc = "op" /\ ~reached
        /\ hpc' = "idle" /\ call' = "none" /\ mayCall' = mayCall
        /\ UNCHANGED <<net, ord, declared, received, late, reached, outcome, protocol, letter, cut,
                       registered, submitted, reply, bankKeys, stale, candidate, pin, using, accepted>>
    BY <1>t, <1>5 DEF PreparationFails, Return, ExchangeFits, Sent, netVars, bankVars, trustVars
  <2>2. NetTypeOK' /\ ExchangeFits' /\ HostTypes' /\ BankTypes' /\ TrustTypes'
    BY <1>t, <2>1 DEF NetTypeOK, ExchangeFits, WholeBody, HostTypes, BankTypes, TrustTypes
  <2>3. TrustFits' /\ CallFits'
    BY <1>t, <2>1 DEF TrustFits, CallFits, TrustedOps
  <2>4. \A o \in KeyOrders : SubmissionFits(o)'
    BY <1>t, <2>1 DEF SubmissionFits, UnderWay, BankTypes, InitializationOrders
  <2> QED BY <2>2, <2>3, <2>4 DEF KeyInv
<1>6. CASE Send
  <2>1. /\ net = "connect" /\ outcome = "none" /\ ~reached /\ net' = "sent" /\ reached' = TRUE
        /\ UNCHANGED <<ord, declared, received, late, outcome, hpc, call, protocol, letter, mayCall, cut,
                       bankKeys, stale, candidate, pin, using, accepted>>
    BY <1>t, <1>6 DEF Send, SendRequest, ExchangeFits, Sent, hostVars, trustVars
  <2>2. NetTypeOK' /\ ExchangeFits'
    BY <1>t, <2>1 DEF NetTypeOK, ExchangeFits, Sent
  <2>3. HostTypes' /\ TrustTypes' /\ TrustFits' /\ CallFits'
    BY <1>t, <2>1 DEF HostTypes, TrustTypes, TrustFits, CallFits
  <2>4. CASE hpc = "op" /\ call \in KeyOrders
    <3>1. /\ submitted' = [submitted EXCEPT ![call] = @ + 1]
          /\ \/ /\ ~registered[call]
                /\ registered' = [registered EXCEPT ![call] = TRUE]
                /\ reply' \in Replies \ {"none", "rejected"}
             \/ registered' = registered /\ reply' \in Replies \ {"none", "ok"}
      BY <1>6, <2>4 DEF Send
    <3>2. submitted[call] = 0 /\ ~registered[call]
      BY <1>t, <2>1, <2>4 DEF SubmissionFits, UnderWay
    <3>3. BankTypes'
      <4>1. submitted' \in [KeyOrders -> Nat] /\ reply' \in Replies
        BY <1>t, <2>4, <3>1 DEF BankTypes
      <4>2. registered' \in [KeyOrders -> BOOLEAN]
        BY <1>t, <2>4, <3>1 DEF BankTypes
      <4> QED BY <1>t, <2>1, <4>1, <4>2 DEF BankTypes
    <3>4. submitted'[call] = 1 /\ (reply' = "ok" => registered'[call]) /\ (reply' = "rejected" => ~registered'[call])
      BY <1>t, <2>4, <3>1, <3>2 DEF BankTypes
    <3>5. SubmissionFits(call)'
      BY <1>t, <2>1, <2>4, <3>4 DEF SubmissionFits, UnderWay
    <3>6. ASSUME NEW o \in KeyOrders \ {call} PROVE SubmissionFits(o)'
      BY <1>t, <2>1, <2>4, <3>1 DEF SubmissionFits, UnderWay, BankTypes
    <3> QED BY <2>1, <2>2, <2>3, <3>3, <3>5, <3>6 DEF KeyInv
  <2>5. CASE ~(hpc = "op" /\ call \in KeyOrders)
    <3>1. UNCHANGED <<registered, submitted, reply>>
      BY <1>6, <2>5 DEF Send
    <3>2. BankTypes' /\ \A o \in KeyOrders : SubmissionFits(o)'
      BY <1>t, <2>1, <2>5, <3>1 DEF BankTypes, SubmissionFits, UnderWay
    <3> QED BY <2>2, <2>3, <3>2 DEF KeyInv
  <2> QED BY <2>4, <2>5
<1>7. CASE Stop
  <2>1. /\ late' = TRUE
        /\ UNCHANGED <<net, ord, declared, received, reached, outcome, hostVars, bankVars, trustVars>>
    BY <1>7 DEF Stop, ControlStops
  <2> QED BY <1>t, <2>1 DEF KeyInv, hostVars, bankVars, trustVars, NetTypeOK, HostTypes,
     BankTypes, TrustTypes, ExchangeFits, CallFits, TrustFits, SubmissionFits, UnderWay, WholeBody
<1>8. CASE Negotiated
  <2>1. /\ hpc = "hev" /\ outcome = "body" /\ net = "off" /\ protocol' = TRUE
        /\ \/ call = "HEV" /\ hpc' = "idle" /\ call' = "none"
           \/ call # "HEV" /\ hpc' = "op" /\ call' = call
        /\ mayCall' = mayCall
        /\ outcome' = "none" /\ reached' = FALSE /\ ord' = "none" /\ declared' = NoLength /\ received' = 0
        /\ UNCHANGED <<net, late, letter, cut, registered, submitted, reply, bankKeys, stale,
                       candidate, pin, using, accepted>>
    BY <1>t, <1>8 DEF Negotiated, Return, ExchangeDone, ExchangeFits, bankVars, trustVars
  <2>2. NetTypeOK' /\ ExchangeFits'
    BY <1>t, <2>1, ExchangeOver DEF NetTypeOK
  <2>3. HostTypes' /\ BankTypes' /\ TrustTypes' /\ TrustFits' /\ CallFits'
    BY <1>t, <2>1 DEF HostTypes, BankTypes, TrustTypes, TrustFits, CallFits, TrustedOps
  <2>4. \A o \in KeyOrders : SubmissionFits(o)'
    BY <1>t, <2>1 DEF SubmissionFits, UnderWay, InitializationOrders
  <2> QED BY <2>2, <2>3, <2>4 DEF KeyInv
<1>9. CASE NotNegotiated
  <2>1. /\ hpc = "hev" /\ outcome # "none" /\ net = "off" /\ hpc' = "idle" /\ call' = "none"
        /\ mayCall' \in {mayCall, mayCall \cup ({call} \cap KeyOrders)}
        /\ outcome' = "none" /\ reached' = FALSE /\ ord' = "none" /\ declared' = NoLength /\ received' = 0
        /\ UNCHANGED <<net, late, protocol, letter, cut, registered, submitted, reply, bankKeys, stale,
                       candidate, pin, using, accepted>>
    BY <1>t, <1>9 DEF NotNegotiated, Return, ExchangeDone, ExchangeFits, bankVars, trustVars
  <2>2. NetTypeOK' /\ ExchangeFits'
    BY <1>t, <2>1, ExchangeOver DEF NetTypeOK
  <2>3. HostTypes' /\ BankTypes' /\ TrustTypes' /\ TrustFits' /\ CallFits'
    BY <1>t, <2>1 DEF HostTypes, BankTypes, TrustTypes, TrustFits, CallFits, TrustedOps
  <2>4. \A o \in KeyOrders : SubmissionFits(o)'
    BY <1>t, <2>1 DEF SubmissionFits, UnderWay, InitializationOrders
  <2> QED BY <2>2, <2>3, <2>4 DEF KeyInv
<1>10. CASE KeySubmitted
  <2>1. /\ hpc = "op" /\ call \in KeyOrders /\ outcome # "none" /\ net = "off"
        /\ hpc' = "idle" /\ call' = "none"
        /\ mayCall' = IF outcome = "transient" THEN mayCall \cup {call} ELSE mayCall
        /\ outcome' = "none" /\ reached' = FALSE /\ ord' = "none" /\ declared' = NoLength /\ received' = 0
        /\ reply' = "none"
        /\ UNCHANGED <<net, late, protocol, cut, registered, submitted, bankKeys, stale,
                       candidate, pin, using, accepted>>
    BY <1>t, <1>10 DEF KeySubmitted, Return, ExchangeDone, ExchangeFits, trustVars
  <2>2. /\ letter' \in [KeyOrders -> {"none", "returned", "pending"}]
        /\ \A o \in KeyOrders \ {call} : letter'[o] = letter[o]
        /\ letter'[call] = "returned" => outcome = "body" /\ reply = "ok"
        /\ letter'[call] = "none" => \/ outcome = "body" /\ reply = "rejected"
                                     \/ outcome \in {"transient", "stopped", "other"}
    <3> DEFINE new == CASE outcome = "body" -> ParseKeyResponse(reply)
                        [] outcome \in {"ambiguous", "transport", "limit"} -> "pending"
                        [] OTHER -> "none"
    <3>1. letter' = [letter EXCEPT ![call] = new]
      BY <1>10 DEF KeySubmitted
    <3>2. /\ new \in {"none", "returned", "pending"}
          /\ new = "returned" => outcome = "body" /\ reply = "ok"
          /\ new = "none" => \/ outcome = "body" /\ reply = "rejected"
                             \/ outcome \in {"transient", "stopped", "other"}
      BY <1>t, <2>1 DEF ParseKeyResponse, NetTypeOK, Outcomes
    <3> HIDE DEF new
    <3> QED BY <1>t, <2>1, <3>1, <3>2 DEF HostTypes
  <2>3. /\ outcome = "body" => UnderWay(call)
        /\ outcome \in {"transient", "stopped", "other"} => ~UnderWay(call)
    BY <1>t, <2>1 DEF ExchangeFits, CallFits, UnderWay
  <2>4. NetTypeOK' /\ ExchangeFits'
    BY <1>t, <2>1, ExchangeOver DEF NetTypeOK
  <2>5. HostTypes' /\ BankTypes' /\ TrustTypes' /\ TrustFits' /\ CallFits'
    BY <1>t, <2>1, <2>2 DEF HostTypes, BankTypes, TrustTypes, TrustFits, CallFits, TrustedOps,
       Replies
  <2>6. ASSUME NEW o \in KeyOrders \ {call} PROVE SubmissionFits(o)'
    BY <1>t, <2>1, <2>2 DEF SubmissionFits, UnderWay, InitializationOrders
  <2>7. SubmissionFits(call)
    BY <1>t, <2>1
  <2>8. ASSUME NEW o, o = call PROVE SubmissionFits(o)'
    BY <1>t, <2>1, <2>2, <2>3, <2>7, <2>8 DEF SubmissionFits, UnderWay, InitializationOrders
  <2> QED BY <2>4, <2>5, <2>6, <2>8 DEF KeyInv
<1>11. CASE BankKeysFetched \/ TrustedOperation
  <2>1. /\ hpc = "op" /\ call \in TrustedOps \cup {"HPB"} /\ outcome # "none" /\ net = "off"
        /\ hpc' = "idle" /\ call' = "none" /\ mayCall' = mayCall
        /\ outcome' = "none" /\ reached' = FALSE /\ ord' = "none" /\ declared' = NoLength /\ received' = 0
        /\ candidate' \in KeyPairs \cup {NoKeys} /\ using' \in KeyPairs \cup {NoKeys}
        /\ UNCHANGED <<net, late, protocol, letter, cut, registered, submitted, reply, bankKeys, stale,
                       pin, accepted>>
    BY <1>t, <1>11 DEF BankKeysFetched, TrustedOperation, Return, ExchangeDone, ExchangeFits,
       TrustTypes,
       HpbKeys, bankVars
  <2>2. NetTypeOK' /\ ExchangeFits'
    BY <1>t, <2>1, ExchangeOver DEF NetTypeOK
  <2>3. HostTypes' /\ BankTypes' /\ TrustTypes' /\ TrustFits' /\ CallFits'
    BY <1>t, <2>1 DEF HostTypes, BankTypes, TrustTypes, TrustFits, CallFits, TrustedOps
  <2>4. \A o \in KeyOrders : SubmissionFits(o)'
    BY <1>t, <2>1 DEF SubmissionFits, UnderWay, InitializationOrders, TrustedOps
  <2> QED BY <2>2, <2>3, <2>4 DEF KeyInv
<1>12. CASE HostLost
  <2>1. /\ hpc # "idle" /\ hpc' = "idle" /\ call' = "none" /\ protocol' = FALSE
        /\ cut' = cut \cup ({call} \cap KeyOrders) /\ net' = "off" /\ outcome' = "none"
        /\ reached' = FALSE /\ late' = FALSE /\ declared' = NoLength /\ received' = 0 /\ ord' = "none"
        /\ reply' = "none" /\ using' = NoKeys /\ candidate' = NoKeys
        /\ UNCHANGED <<letter, mayCall, registered, submitted, bankKeys, stale, pin, accepted>>
    BY <1>12 DEF HostLost
  <2>2. NetTypeOK' /\ ExchangeFits'
    BY <1>t, <2>1, ExchangeOver DEF NetTypeOK
  <2>3. HostTypes' /\ BankTypes' /\ TrustTypes' /\ TrustFits' /\ CallFits'
    BY <1>t, <2>1 DEF HostTypes, BankTypes, TrustTypes, TrustFits, CallFits, TrustedOps, Replies
  <2>4. \A o \in KeyOrders : SubmissionFits(o)'
    BY <1>t, <2>1 DEF SubmissionFits, UnderWay, InitializationOrders
  <2> QED BY <2>2, <2>3, <2>4 DEF KeyInv
<1>13. CASE AcceptBankKeys \/ CertificatesSwapped \/ BankRotatesKeys
  <2>1. UNCHANGED <<netVars, hostVars, registered, submitted, reply, using>>
    BY <1>13 DEF AcceptBankKeys, CertificatesSwapped, BankRotatesKeys, bankVars, trustVars
  <2>2. /\ bankKeys' \in KeyPairs /\ stale' \subseteq KeyPairs /\ candidate' = candidate
        /\ accepted \subseteq accepted' /\ accepted' \subseteq KeyPairs
        /\ pin' \in [certs: KeyPairs, digests: KeyPairs] \cup {NoKeys}
        /\ pin' # NoKeys => pin'.digests \in accepted'
    <3>1. CASE AcceptBankKeys
      BY <1>t, <3>1 DEF AcceptBankKeys, AcceptsOutOfBand, BankTypes, TrustTypes, bankVars
    <3>2. CASE CertificatesSwapped
      BY <1>t, <3>2 DEF CertificatesSwapped, BankTypes, TrustTypes, TrustFits, bankVars
    <3>3. CASE BankRotatesKeys
      BY <1>t, <3>3 DEF BankRotatesKeys, BankTypes, TrustTypes, TrustFits, trustVars
    <3> QED BY <1>13, <3>1, <3>2, <3>3
  <2>3. NetTypeOK' /\ HostTypes' /\ BankTypes' /\ TrustTypes' /\ ExchangeFits' /\ CallFits' /\ TrustFits'
    BY <1>t, <2>1, <2>2 DEF netVars, hostVars, NetTypeOK, HostTypes, BankTypes, TrustTypes,
       ExchangeFits, CallFits, TrustFits, WholeBody
  <2>4. \A o \in KeyOrders : SubmissionFits(o)'
    BY <1>t, <2>1 DEF netVars, hostVars, SubmissionFits, UnderWay
  <2> QED BY <2>3, <2>4 DEF KeyInv
<1> QED BY <1>1, <1>2, <1>3, <1>4, <1>5, <1>6, <1>7, <1>8, <1>9, <1>10, <1>11, <1>12, <1>13
    DEF Next

(* KeyInv holds before the first call.                                        *)
LEMMA KeyInit ==
    ASSUME Init
    PROVE  KeyInv
<1>1. NetTypeOK
  <2>1. received \in 0..(MaxResponse + 1)
    BY TransportAssumption DEF Init, NetInit
  <2>2. ord \in OrderTypes /\ outcome \in Outcomes
    BY DEF Init, NetInit, OrderTypes, Outcomes
  <2> QED BY <2>1, <2>2 DEF Init, NetInit, NetTypeOK
<1>2. ExchangeFits /\ CallFits /\ TrustFits
  BY DEF Init, NetInit, ExchangeFits, CallFits, TrustFits, Sent, TrustedOps
<1>3. HostTypes /\ BankTypes /\ TrustTypes
  BY DEF Init, HostTypes, BankTypes, TrustTypes, Replies
<1>4. ASSUME NEW o \in KeyOrders PROVE SubmissionFits(o)
  BY DEF Init, NetInit, SubmissionFits, UnderWay, KeyOrders, InitializationOrders
<1> QED BY <1>1, <1>2, <1>3, <1>4 DEF KeyInv

(* KeyInv is an invariant of the key setup.                                   *)
THEOREM KeyInvariant == Spec => []KeyInv
BY KeyInit, KeyInvKept, PTL DEF Spec

(* The type invariant.                                                        *)
THEOREM SetupTypesHold == Spec => []TypeOK
<1>1. KeyInv => TypeOK
  BY DEF KeyInv, HostTypes, BankTypes, TrustTypes, TypeOK
<1> QED BY <1>1, KeyInvariant, PTL

(* _read_bounded: no more than one byte over the limit is held, and a body is *)
(* returned only within the limit and at its declared length.                 *)
THEOREM BodiesBounded == Spec => []BodyBounded
<1>1. KeyInv => BodyBounded
  BY TransportAssumption DEF KeyInv, ExchangeFits, WholeBody, NetTypeOK, BodyBounded
<1> QED BY <1>1, KeyInvariant, PTL

(* A host that repeats INI or HIA only after a transient error submits each   *)
(* key at most once.                                                          *)
THEOREM SubmittedOnce == Spec => []KeySubmittedAtMostOnce
<1>1. KeyInv => KeySubmittedAtMostOnce
  BY DEF KeyInv, SubmissionFits, KeySubmittedAtMostOnce
<1> QED BY <1>1, KeyInvariant, PTL

(* A key the bank has registered has its letter with the host, returned or    *)
(* pending, unless the host process was lost during the call.                 *)
THEOREM RegistrationHasLetter == Spec => []RegisteredKeyHasLetter
<1>1. KeyInv => RegisteredKeyHasLetter
  BY DEF KeyInv, SubmissionFits, RegisteredKeyHasLetter
<1> QED BY <1>1, KeyInvariant, PTL

(* A letter returned as final belongs to a registered key.                    *)
THEOREM ReturnedRegistered == Spec => []ReturnedLetterIsRegistered
<1>1. KeyInv => ReturnedLetterIsRegistered
  BY DEF KeyInv, SubmissionFits, ReturnedLetterIsRegistered
<1> QED BY <1>1, KeyInvariant, PTL

(* No exchange of a discovery or download is made without keys the operator   *)
(* accepted, whatever was fetched, rotated or replaced on file since.         *)
THEOREM AcceptedKeysOnly == Spec => []OnlyAcceptedKeysUsed
<1>1. KeyInv => OnlyAcceptedKeysUsed
  BY DEF KeyInv, TrustFits, OnlyAcceptedKeysUsed
<1> QED BY <1>1, KeyInvariant, PTL
=============================================================================
