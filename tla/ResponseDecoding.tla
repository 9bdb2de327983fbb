-------------------------- MODULE ResponseDecoding --------------------------
(***************************************************************************)
(* From the bytes of an initial response to what the caller gets, through  *)
(* all the components in the order the code calls them:                    *)
(*                                                                         *)
(*   response   parse_xml_document on the response        XmlScanner       *)
(*   versions   HEV: what the bank offers           VersionNegotiation     *)
(*   envelope   H005 shape, X002, the parser of the phase H005Envelope     *)
(*   order      base64, E002, zlib                        OrderData        *)
(*   container  BTD: documents of the payload             ZipContainer     *)
(*   cleartext  HKD/HTD: parse_xml_document again         XmlScanner       *)
(*   customer   HKD/HTD: _parse_customer_information      CustomerData     *)
(*                                                                         *)
(* The further segments of a download repeat response and envelope.  What  *)
(* follows a delivery or a refusal (receipts, session state) is the        *)
(* subject of BtdDownload and MetadataDiscovery; which calls negotiate, of *)
(* KeySetup.                                                               *)
(***************************************************************************)
EXTENDS XmlScanner, VersionNegotiation, H005Envelope, OrderData, ZipContainer,
        CustomerData

VARIABLES
    stage,     \* the component at work, or "done"
    input,     \* the documents, the versions and the customer data in them
    returned   \* what the call ended with

vars == <<scanVars, envelopeVars, orderVars, zipVars, stage, input, returned>>

Nothing == [kind |-> "nothing"]
Failure == [kind |-> "refused"]
Stopped == [kind |-> "stopped"]

(* The response: its XML, what it says as an envelope, the order data in it,  *)
(* and what that expands to, an archive or XML with customer data.            *)
InitWith(doc, delivered, sent, archived, cleartext, info, hev) ==
    /\ input = [response |-> doc, cleartext |-> cleartext, info |-> info, hev |-> hev]
    /\ ScanInit(doc)
    /\ EnvelopeInit(delivered)
    /\ OrderInit(sent)
    /\ ZipInit(archived)
    /\ stage = "response"
    /\ returned = Nothing

Finish(value) == stage' = "done" /\ returned' = value
Goto(next) == stage' = next /\ UNCHANGED returned
Stay == UNCHANGED <<stage, returned>>

ScanResponse ==
    /\ stage \in {"response", "cleartext"} /\ ScanStep
    /\ Stay /\ UNCHANGED <<input, envelopeVars, orderVars, zipVars>>

ResponseScanned ==
    /\ stage = "response" /\ scanned # "scanning"
    /\ IF scanned = "refused" THEN Finish(Failure)
       ELSE Goto(IF delivery.request.purpose = "versions" THEN "versions" ELSE "envelope")
    /\ UNCHANGED <<input, scanVars, envelopeVars, orderVars, zipVars>>

Negotiate ==
    /\ stage = "versions" /\ Finish(ProbeVersions(input.hev))
    /\ UNCHANGED <<input, scanVars, envelopeVars, orderVars, zipVars>>

(* The order data is read only from a successful initial response. *)
Envelope ==
    /\ stage = "envelope" /\ ParseResponse
    /\ IF outcome'.kind = "initial" THEN Goto("order") ELSE Finish(outcome')
    /\ UNCHANGED <<input, scanVars, orderVars, zipVars>>

DecodeOrderData ==
    /\ stage = "order" /\ DecodingStep
    /\ Stay /\ UNCHANGED <<input, scanVars, envelopeVars, zipVars>>

(* The cleartext goes to the container or, as XML, to the scanner again. *)
OrderDataDecoded ==
    /\ stage = "order" /\ step \in {"expanded", "refused", "stopped"}
    /\ CASE step = "refused" -> Finish(Failure) /\ UNCHANGED <<scanVars, archive>>
         [] step = "stopped" -> Finish(Stopped) /\ UNCHANGED <<scanVars, archive>>
         [] step = "expanded" /\ order.kind = "btd" ->
                /\ Goto("container")
                /\ archive' = [archive EXCEPT !.size = result]
                /\ UNCHANGED scanVars
         [] step = "expanded" /\ order.kind = "metadata" ->
                Goto("cleartext") /\ ScanNext(input.cleartext) /\ UNCHANGED archive
    /\ UNCHANGED <<input, envelopeVars, orderVars, member, names, total, content,
                   documents, extraction>>

Extract ==
    /\ stage = "container" /\ ExtractionStep
    /\ Stay /\ UNCHANGED <<input, scanVars, envelopeVars, orderVars>>

Extracted ==
    /\ stage = "container" /\ extraction \in {"extracted", "refused", "stopped"}
    /\ Finish(CASE extraction = "extracted" -> [kind |-> "documents", documents |-> documents]
                [] extraction = "refused" -> Failure
                [] extraction = "stopped" -> Stopped)
    /\ UNCHANGED <<input, scanVars, envelopeVars, orderVars, zipVars>>

CleartextUnchecked ==   \* mutant: the cleartext's own limits are not enforced
    /\ stage = "cleartext" /\ scanned # "scanning"
    /\ Goto("customer")
    /\ UNCHANGED <<input, scanVars, envelopeVars, orderVars, zipVars>>

CleartextScanned ==
    /\ stage = "cleartext" /\ scanned # "scanning"
    /\ IF scanned = "accepted" THEN Goto("customer") ELSE Finish(Failure)
    /\ UNCHANGED <<input, scanVars, envelopeVars, orderVars, zipVars>>

ParseCustomer ==
    /\ stage = "customer"
    /\ LET information == CustomerInformation(input.info)
       IN  Finish(IF information = NoInformation THEN Failure ELSE information)
    /\ UNCHANGED <<input, scanVars, envelopeVars, orderVars, zipVars>>

Next ==
    \/ ScanResponse \/ ResponseScanned \/ Negotiate \/ Envelope
    \/ DecodeOrderData \/ OrderDataDecoded
    \/ Extract \/ Extracted
    \/ CleartextScanned \/ ParseCustomer

(* The decoding of a response runs in one call, which nothing suspends; that  *)
(* the host stops it is not counted on.                                       *)
StoppedNow == (step' = "stopped" /\ step' # step)
              \/ (extraction' = "stopped" /\ extraction' # extraction)
Fairness == WF_vars(Next /\ ~StoppedNow)

(* Any response whatever. *)
Receive ==
    \E doc \in XmlDocuments, delivered \in Deliveries, sent \in OrderForms,
       archived \in ArchiveForms, cleartext \in XmlDocuments, info \in CustomerForms,
       hev \in HevForms :
        InitWith(doc, delivered, sent, archived, cleartext, info, hev)

Spec == Receive /\ [][Next]_vars

-----------------------------------------------------------------------------
(* What is taken from the bank's catalogue: see RightsKept. *)
CustomerRightsKept == RightsKept(input.info, returned)

(* A protocol is used exactly if the bank offers it, see NegotiationIsExact;  *)
(* a part of ReturnedExactly.                                                 *)
NegotiatedExactly ==
    stage = "done" /\ delivery.request.purpose = "versions"
        /\ Harmless(input.response) /\ WithinLimits(input.response)
            => NegotiationIsExact(input.hev, returned)

(* What a caller may be given documents or customer data for. *)
ResponseAdmissible ==
    /\ Harmless(input.response) /\ WithinLimits(input.response)
    /\ delivery.request.purpose = "initial"
    /\ Parse(delivery.response, Signature(delivery), delivery.request).kind = "initial"
    /\ Admissible(order)
    /\ IF order.kind = "btd"
       THEN ContainerAdmissible([archive EXCEPT !.size = TotalExpansion(order)])
       ELSE /\ Harmless(input.cleartext) /\ WithinLimits(input.cleartext)
            /\ CustomerInformation(input.info) # NoInformation

(* What a call returns is decided exactly.  Each component that works piece   *)
(* by piece (the scanner, the decoders, the extraction, the negotiation) ends *)
(* with the verdict a definition over the whole gives; documents or customer  *)
(* data are returned exactly if all components find their parts admissible,   *)
(* and nothing of a response that fails in a later step is returned.          *)
ReturnedExactly ==
    /\ XmlVerdictExact
    /\ OrderDataVerdictExact
    /\ ContainerVerdictExact
    /\ NegotiatedExactly
    /\ returned.kind \in {"documents", "customer"} => ResponseAdmissible
    /\ returned.kind \in {"refused", "rejected", "unsupported"} => ~ResponseAdmissible

(* Every loop ends: a response is decided, whatever it contains. *)
Decided == <>(stage = "done")
=============================================================================
