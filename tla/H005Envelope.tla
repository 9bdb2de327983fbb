---------------------------- MODULE H005Envelope ----------------------------
(***************************************************************************)
(* What the client takes from a standard H005 response: the fixed outer    *)
(* shape of parse_h005_response(), the X002 signature over the nodes       *)
(* marked authenticate="true" (verify_x002_response()), and the parsers of *)
(* haa.py for the three phases of a download, which all orders share.      *)
(*                                                                         *)
(* A response is a record of its child sequences (outer, static, mutable,  *)
(* body, transfer), the authenticate markers, and the values of its        *)
(* fields.  A signature is the content it was made over and its key.       *)
(***************************************************************************)
EXTENDS ProtocolLimits, Lists, SequencesExt

CONSTANTS
    AuthKeys,    \* keys that a signature may have been made with
    PinnedKey,   \* the bank's authentication key in TrustedBankKeys
    OwnDigest,   \* digest of the subscriber's encryption key
    WrappedKeys  \* transaction keys that it unwraps to 128 bits

ASSUME PinnedAssumption == PinnedKey \in AuthKeys

VARIABLES
    delivery,    \* the response received, the original its signature was made for,
                 \* the key that made it, and the request it answers
    outcome      \* what the parser made of it, or Unparsed

envelopeVars == <<delivery, outcome>>

MarkedNodes == {"header", "DataTransfer", "DataEncryptionInfo", "OrderData",
                "ReturnCode", "TimestampBankParameter"}

ResponseForms ==
    [outer: Seq(STRING), static: Seq(STRING), mutable: Seq(STRING),
     body: Seq({"DataTransfer", "ReturnCode", "TimestampBankParameter"}),
     transfer: Seq({"DataEncryptionInfo", "OrderData"}),
     mark: [MarkedNodes -> {"none", "true", "false"}],
     val: [phase: STRING, txn: STRING, total: Nat, segment: Nat, last: BOOLEAN,
           technical: STRING, business: STRING, stamp: STRING,
           algorithm: STRING, recipient: STRING, key: STRING, data: STRING]]

Deliveries ==
    [response: ResponseForms, original: ResponseForms, key: AuthKeys,
     request: [purpose: {"initial", "transfer", "receipt", "versions"}, txn: STRING,
               segment: Nat, total: Nat, receipt: {"positive", "negative"}]]

(* The allowlists of Annex 1, by one representative of each kind; 091002 is   *)
(* in both, with different meanings.                                          *)
TechnicalCodes == {"000000", "011000", "011001", "061001", "091002"}
BusinessCodes == {"000000", "090005", "091002"}

-----------------------------------------------------------------------------
(* parse_h005_response *)

Marked(r, node) == r.mark[node] = "true"
Has(names, name) == name \in ToSet(names)

(* _h005_child_names: extensions only where allowed, and only at the end. *)
ChildNames(names) == SelectSeq(names, LAMBDA n : n # "extension")
ExtensionsLast(names) ==
    \A i, j \in 1..Len(names) : i < j /\ names[i] = "extension" => names[j] = "extension"

ValidStatic == {<<>>, <<"TransactionID">>, <<"NumSegments">>,
                <<"TransactionID", "NumSegments">>}
ValidMutable == {<<"TransactionPhase">> \o middle \o <<"ReturnCode", "ReportText">> :
                     middle \in {<<>>, <<"SegmentNumber">>, <<"OrderID">>,
                                 <<"SegmentNumber", "OrderID">>}}
ValidBody == {<<"ReturnCode">>, <<"ReturnCode", "TimestampBankParameter">>,
              <<"DataTransfer", "ReturnCode">>,
              <<"DataTransfer", "ReturnCode", "TimestampBankParameter">>}

BodyAuthenticatedLeniently(r) == TRUE   \* mutant: no marker is required in the body

(* _require_authentication_marker on what stands outside the signed header.   *)
BodyAuthenticated(r) ==
    /\ Marked(r, "ReturnCode")
    /\ Has(r.body, "TimestampBankParameter") => Marked(r, "TimestampBankParameter")

(* _validate_common_values: numbers start at 1, and the container of the data *)
(* carries no marker.                                                         *)
CommonValues(r) ==
    /\ Has(r.static, "NumSegments") => r.val.total > 0
    /\ r.val.phase \in {"Initialisation", "Transfer", "Receipt"}
    /\ Has(r.mutable, "SegmentNumber") => r.val.segment > 0
    /\ Has(r.body, "DataTransfer") => r.mark["DataTransfer"] = "none"

(* _return_code *)
ReturnCodesKnown(r) ==
    r.val.technical \in TechnicalCodes /\ r.val.business \in BusinessCodes

ParseH005(r) ==
    /\ r.outer = <<"header", "AuthSignature", "body">>
    /\ Marked(r, "header")
    /\ r.static \in ValidStatic
    /\ ExtensionsLast(r.mutable) /\ ChildNames(r.mutable) \in ValidMutable
    /\ r.body \in ValidBody
    /\ CommonValues(r)
    /\ BodyAuthenticated(r)
    /\ ReturnCodesKnown(r)

-----------------------------------------------------------------------------
(* verify_x002_response *)

(* The canonical form of a node: the fields it contains, with their values.   *)
Canonical(r, node) ==
    CASE node = "header" ->
            <<r.static, r.mutable, r.val.phase,
              IF Has(r.static, "TransactionID") THEN r.val.txn ELSE "absent",
              IF Has(r.static, "NumSegments") THEN r.val.total ELSE 0,
              IF Has(r.mutable, "SegmentNumber") THEN <<r.val.segment, r.val.last>>
                                                 ELSE <<0, FALSE>>,
              r.val.technical>>
      [] node = "DataTransfer" ->
            <<r.transfer, r.val.algorithm, r.val.recipient, r.val.key, r.val.data>>
      [] node = "DataEncryptionInfo" -> <<r.val.algorithm, r.val.recipient, r.val.key>>
      [] node = "OrderData" -> <<r.val.data>>
      [] node = "ReturnCode" -> <<r.val.business>>
      [] node = "TimestampBankParameter" -> <<r.val.stamp>>

(* The elements of the response that can carry a marker. *)
Elements(r) == {"header"} \cup ToSet(r.body)
                   \cup (IF Has(r.body, "DataTransfer") THEN ToSet(r.transfer) ELSE {})

(* _canonical_authenticated_nodes: the outermost marked nodes, in document    *)
(* order.  A node that is marked counts as a whole; in one that is not, its   *)
(* children are looked at.                                                    *)
Leaf(r, node) == IF Marked(r, node) THEN <<<<node, Canonical(r, node)>>>> ELSE <<>>
Part(r, node) ==
    IF node # "DataTransfer" \/ Marked(r, node) THEN Leaf(r, node)
    ELSE FlattenSeq([i \in 1..Len(r.transfer) |-> Leaf(r, r.transfer[i])])
Signed(r) ==
    Leaf(r, "header") \o FlattenSeq([i \in 1..Len(r.body) |-> Part(r, r.body[i])])

VerifyX002(r, signature) ==
    /\ \A n \in Elements(r) : r.mark[n] # "false"
    /\ signature.over = Signed(r) /\ Signed(r) # <<>>
    /\ signature.key = PinnedKey

-----------------------------------------------------------------------------
(* The parsers of haa.py *)

Unparsed == [kind |-> "unparsed"]
Refused == [kind |-> "refused"]
Rejected(r) == [kind |-> "rejected", technical |-> r.val.technical,
                business |-> r.val.business]

Successful(r) == r.val.technical = "000000" /\ r.val.business = "000000"

Stamp(r) == IF Has(r.body, "TimestampBankParameter") THEN r.val.stamp ELSE "absent"

(* The bodies of a rejection and of a success. *)
RejectionBody(r, stampAllowed) ==
    r.body \in {<<"ReturnCode">>}
               \cup (IF stampAllowed THEN {<<"ReturnCode", "TimestampBankParameter">>} ELSE {})
DataBody(r, stampAllowed) ==
    r.body \in {<<"DataTransfer", "ReturnCode">>} \cup
        (IF stampAllowed
         THEN {<<"DataTransfer", "ReturnCode", "TimestampBankParameter">>} ELSE {})

WithSegment == <<"TransactionPhase", "SegmentNumber", "ReturnCode", "ReportText">>
WithoutSegment == <<"TransactionPhase", "ReturnCode", "ReportText">>

(* _require_segment *)
SegmentIs(r, number, last) == r.val.segment = number /\ (r.val.last <=> last)

(* _data_encryption_info: the transaction key is read from a marked node,     *)
(* beside a digest of Version E002 and Algorithm SHA-256.                     *)
EncryptionInfo(r) == Marked(r, "DataEncryptionInfo") /\ r.val.algorithm = "E002/SHA-256"

KeyUnwrappedForAnyone(r) == r.val.key \in WrappedKeys   \* mutant: the digest is not compared

(* The digest names the subscriber's key, and that key unwraps the other one. *)
KeyUnwrapped(r) == r.val.recipient = OwnDigest /\ r.val.key \in WrappedKeys

InitialOutcome(r, q) ==
    IF Successful(r)
    THEN IF /\ r.static = <<"TransactionID", "NumSegments">> /\ r.mutable = WithSegment
            /\ r.val.total \in 1..MaxTotal
            /\ r.val.phase = "Initialisation"
            /\ SegmentIs(r, 1, r.val.total = 1)
            /\ DataBody(r, TRUE) /\ r.transfer = <<"DataEncryptionInfo", "OrderData">>
            /\ EncryptionInfo(r) /\ KeyUnwrapped(r)
         THEN [kind |-> "initial", txn |-> r.val.txn, total |-> r.val.total,
               key |-> r.val.key, stamp |-> Stamp(r)]
         ELSE Refused
    ELSE IF /\ IF r.val.technical = "000000" THEN r.static = <<"TransactionID">>
                                             ELSE r.static = <<>>
            /\ r.mutable = WithoutSegment /\ r.val.phase = "Initialisation"
            /\ RejectionBody(r, TRUE)
         THEN Rejected(r)
         ELSE Refused

TransferOutcome(r, q) ==
    IF /\ r.static = <<"TransactionID">> /\ r.mutable = WithSegment
       /\ r.val.txn = q.txn /\ r.val.phase = "Transfer"
       /\ SegmentIs(r, q.segment, q.segment = q.total)
    THEN IF Successful(r)
         THEN IF DataBody(r, FALSE) /\ r.transfer = <<"OrderData">>
              THEN [kind |-> "transfer", txn |-> r.val.txn, segment |-> r.val.segment]
              ELSE Refused
         ELSE IF RejectionBody(r, FALSE) THEN Rejected(r) ELSE Refused
    ELSE Refused

ReceiptCode == [positive |-> "011000", negative |-> "011001"]
ReceiptOutcome(r, q) ==
    IF r.val.technical # ReceiptCode[q.receipt] \/ r.val.business # "000000"
    THEN Rejected(r)
    ELSE IF /\ r.static = <<"TransactionID">> /\ r.mutable = WithoutSegment
            /\ r.val.txn = q.txn /\ r.val.phase = "Receipt"
            /\ r.body = <<"ReturnCode">>
         THEN [kind |-> "receipt", txn |-> r.val.txn, receipt |-> q.receipt]
         ELSE Refused

(* _authenticated, then the parser of the phase. *)
Parse(r, signature, q) ==
    IF ~ParseH005(r) \/ ~VerifyX002(r, signature) THEN Refused
    ELSE CASE q.purpose = "initial" -> InitialOutcome(r, q)
           [] q.purpose = "transfer" -> TransferOutcome(r, q)
           [] q.purpose = "receipt" -> ReceiptOutcome(r, q)

(* External: the signature value is the bank's or somebody else's. *)
Signature(d) == [over |-> Signed(d.original), key |-> d.key]

EnvelopeInit(d) == delivery = d /\ outcome = Unparsed

ParseResponse ==
    /\ outcome = Unparsed
    /\ outcome' = Parse(delivery.response, Signature(delivery), delivery.request)
    /\ UNCHANGED delivery

-----------------------------------------------------------------------------
(* The timestamp the bank signed: unlike in a response that is accepted, it   *)
(* may stand unmarked in what the bank made its signature for.                *)
SignedStamp(r) == IF Marked(r, "TimestampBankParameter") THEN Stamp(r) ELSE "absent"

(* Whatever the response that carries it looks like, a signature of the bank  *)
(* stands for one meaning: all that the client takes from an accepted or a    *)
(* rejected response (transaction, number of segments, transaction key,       *)
(* timestamp, segment, kind of receipt, return codes) is what the bank signed *)
(* in the original, and what it signed answers this request and is encrypted  *)
(* for this subscriber.  Every field acted on is thus under a marked node;    *)
(* only the text of OrderData is not.                                         *)
OutcomeIsSigned ==
    LET original == delivery.original.val
        q == delivery.request
    IN  /\ outcome.kind \notin {"unparsed", "refused"} =>
               delivery.key = PinnedKey
        /\ outcome.kind = "initial" =>
               /\ original.phase = "Initialisation"
               /\ <<outcome.txn, outcome.total>> = <<original.txn, original.total>>
               /\ outcome.key = original.key /\ original.recipient = OwnDigest
               /\ outcome.stamp = SignedStamp(delivery.original)
        /\ outcome.kind = "transfer" =>
               /\ original.phase = "Transfer"
               /\ <<original.txn, original.segment>> = <<q.txn, q.segment>>
               /\ original.last <=> q.segment = q.total
        /\ outcome.kind = "receipt" =>
               /\ original.phase = "Receipt" /\ original.txn = q.txn
               /\ original.technical = ReceiptCode[q.receipt]
        /\ outcome.kind \in {"initial", "transfer"} =>
               original.technical = "000000" /\ original.business = "000000"
        /\ outcome.kind = "rejected" =>
               <<outcome.technical, outcome.business>>
                   = <<original.technical, original.business>>
=============================================================================
