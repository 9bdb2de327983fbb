------------------------- MODULE MCResponseDecoding -------------------------
(* Instance of ResponseDecoding: responses that are ordinary but for one      *)
(* component, which takes every value of a bounded set.                       *)
EXTENDS ResponseDecoding

CONSTANTS d1, d2,          \* BTF services
          OtherKey         \* a key that is not pinned

SeqsUpTo(S, n) == UNION {[1..k -> S] : k \in 0..n}

-----------------------------------------------------------------------------
(* XML documents: a root with up to four callbacks in it. *)

Event(kind, bytes, attributes) ==
    [kind |-> kind, bytes |-> bytes, attributes |-> attributes, xinclude |-> FALSE]
StartTag == Event("start", 0, <<>>)
EndTag == Event("end", 0, <<>>)
Attribute(id, bytes) == [id |-> id, bytes |-> bytes]

Events ==
    {StartTag, EndTag,
     Event("start", 0, <<Attribute("a", 1)>>),
     Event("start", 0, <<Attribute("b", 1), Attribute("a", 1)>>),
     Event("start", 0, <<Attribute("a", 1), Attribute("a", 1)>>),
     Event("start", 0, <<Attribute(NoId, 3), Attribute(NoId, 1)>>),
     Event("start", 0, <<Attribute(NoId, 1), Attribute(NoId, 1), Attribute(NoId, 1)>>),
     [StartTag EXCEPT !.xinclude = TRUE],
     Event("data", 1, <<>>), Event("data", 2, <<>>), Event("data", 3, <<>>),
     Event("start_ns", 1, <<>>), Event("start_ns", 2, <<>>), Event("start_ns", 3, <<>>),
     Event("comment", 0, <<>>), Event("pi", 0, <<>>)}

Nesting(s, n) == Cardinality({i \in 1..n : s[i].kind = "start"})
                     - Cardinality({i \in 1..n : s[i].kind = "end"})
Balanced(s) == Nesting(s, Len(s)) = 0 /\ \A n \in 1..Len(s) : Nesting(s, n) >= 0

Document(raw, wellFormed, events) ==
    [raw |-> raw, wellFormed |-> wellFormed, events |-> <<StartTag>> \o events \o <<EndTag>>]
OrdinaryXml == Document("utf8", TRUE, <<>>)

Documents ==
    {Document("utf8", TRUE, s) : s \in {x \in SeqsUpTo(Events, 4) : Balanced(x)}}
    \cup {Document(raw, wellFormed, <<>>) : raw \in RawForms, wellFormed \in BOOLEAN}

-----------------------------------------------------------------------------
(* Responses: those a bank signs, also with a marker left out, and those that *)
(* arrive with its signature.                                                 *)

OrdinaryMarks == [n \in MarkedNodes |->
                     IF n \in {"DataTransfer", "OrderData"} THEN "none" ELSE "true"]
Response(phase, static, mutable, body, transfer, segments, segment, last, technical) ==
    [outer |-> <<"header", "AuthSignature", "body">>,
     static |-> static, mutable |-> mutable, body |-> body, transfer |-> transfer,
     mark |-> OrdinaryMarks,
     val |-> [phase |-> phase, txn |-> "t1", total |-> segments, segment |-> segment,
              last |-> last, technical |-> technical, business |-> "000000",
              stamp |-> "s1", algorithm |-> "E002/SHA-256", recipient |-> OwnDigest,
              key |-> "k1", data |-> "o1"]]

InitialResponse ==
    Response("Initialisation", <<"TransactionID", "NumSegments">>, WithSegment,
             <<"DataTransfer", "ReturnCode", "TimestampBankParameter">>,
             <<"DataEncryptionInfo", "OrderData">>, 1, 1, TRUE, "000000")
TransferResponse ==
    Response("Transfer", <<"TransactionID">>, WithSegment, <<"DataTransfer", "ReturnCode">>,
             <<"OrderData">>, 2, 2, TRUE, "000000")
ReceiptResponse ==
    Response("Receipt", <<"TransactionID">>, WithoutSegment, <<"ReturnCode">>, <<>>,
             1, 1, TRUE, "011000")
Rejection ==
    Response("Initialisation", <<>>, WithoutSegment, <<"ReturnCode">>, <<>>,
             1, 1, TRUE, "061001")
Bases == {InitialResponse, TransferResponse, ReceiptResponse, Rejection}

(* One value different. *)
Valued(r) ==
    {r} \cup
    {[r EXCEPT !.val.txn = "t2"], [r EXCEPT !.val.stamp = "s2"], [r EXCEPT !.val.key = "k2"],
     [r EXCEPT !.val.key = "damaged"], [r EXCEPT !.val.algorithm = "E001"],
     [r EXCEPT !.val.recipient = "another subscriber"],
     [r EXCEPT !.val.data = "o2"], [r EXCEPT !.val.business = "090005"],
     [r EXCEPT !.val.business = "061001"], [r EXCEPT !.val.last = ~@]}
    \cup {[r EXCEPT !.val.total = n] : n \in 0..(MaxTotal + 1)}
    \cup {[r EXCEPT !.val.segment = n] : n \in 0..2}
    \cup {[r EXCEPT !.val.technical = c] : c \in TechnicalCodes \cup {"090005"}}
    \cup {[r EXCEPT !.val.phase = p] : p \in {"Initialisation", "Transfer", "Receipt", "Upload"}}

(* One part of the form different. *)
Shaped(r) ==
    {[r EXCEPT !.outer = o] : o \in {<<"header", "body">>, <<"header", "body", "AuthSignature">>}}
    \cup {[r EXCEPT !.static = s] : s \in ValidStatic \cup {<<"NumSegments", "TransactionID">>}}
    \cup {[r EXCEPT !.mutable = m] :
              m \in ValidMutable \cup {r.mutable \o <<"extension">>, <<"extension">> \o r.mutable,
                                       r.mutable \o <<"ReturnCode">>}}
    \cup {[r EXCEPT !.body = b] :
              b \in ValidBody \cup {<<"ReturnCode", "DataTransfer">>, <<"DataTransfer">>,
                                    <<"ReturnCode", "ReturnCode">>}}
    \cup {[r EXCEPT !.transfer = t] :
              t \in {<<>>, <<"OrderData">>, <<"OrderData", "DataEncryptionInfo">>,
                     <<"DataEncryptionInfo", "OrderData">>}}
    \cup {[r EXCEPT !.mark[n] = m] : n \in MarkedNodes, m \in {"none", "true", "false"}}

Requests ==
    {[purpose |-> "initial", txn |-> "t1", segment |-> 1, total |-> 1, receipt |-> "positive"],
     [purpose |-> "transfer", txn |-> "t1", segment |-> 2, total |-> 2, receipt |-> "positive"],
     [purpose |-> "receipt", txn |-> "t1", segment |-> 1, total |-> 1, receipt |-> "positive"],
     [purpose |-> "receipt", txn |-> "t1", segment |-> 1, total |-> 1, receipt |-> "negative"]}

Delivery(r, original, key, q) ==
    [response |-> r, original |-> original, key |-> key, request |-> q]
OrdinaryDelivery ==
    Delivery(InitialResponse, InitialResponse, PinnedKey,
             CHOOSE q \in Requests : q.purpose = "initial")

-----------------------------------------------------------------------------
(* Order data *)

Fragment(size, pad, clean) == [size |-> size, pad |-> pad, clean |-> clean]
Order(kind, fragments, aesPad, expands, ends, broken) ==
    [kind |-> kind, fragments |-> fragments, aesPad |-> aesPad, expands |-> expands,
     ends |-> ends, broken |-> broken]

Sized(fragments) == Decoded(TotalSize(fragments), Padding(fragments))

PieceSizes == {3, 4, 8, 12, 16, 20}
FragmentLists ==
    {<<Fragment(s, p, c)>> : s \in PieceSizes, p \in 0..2, c \in BOOLEAN}
    \cup {<<Fragment(s, p, TRUE), Fragment(t, q, TRUE)>> :
              s \in PieceSizes, t \in PieceSizes, p \in {0, 2}, q \in 0..2}
    \cup {<<Fragment(s, 0, TRUE), Fragment(t, 0, TRUE), Fragment(u, q, TRUE)>> :
              s \in {4, 8, 12}, t \in {4, 8}, u \in {4, 8}, q \in 0..2}

(* Any fragments and padding, the stream as it should be. *)
Encodings ==
    {Order(kind, fragments, aesPad, <<1>>, Sized(fragments) - aesPad, 0) :
        kind \in {"btd", "metadata"}, fragments \in FragmentLists, aesPad \in 0..(AesBlock + 1)}

(* The encoding of n compressed bytes, in two fragments if it is long. *)
EncodingOf(n) ==
    LET size == AesBlock * (n \div AesBlock + 1)
        characters == 4 * ((size + 2) \div 3)
        pad == (3 - (size % 3)) % 3
    IN  [fragments |-> IF characters = 16
                       THEN <<Fragment(12, 0, TRUE), Fragment(4, pad, TRUE)>>
                       ELSE <<Fragment(characters, pad, TRUE)>>,
         aesPad |-> size - n]

(* Any stream of n compressed bytes; after its end it expands to nothing. *)
StreamsOf(kind, n) ==
    {o \in {Order(kind, EncodingOf(n).fragments, EncodingOf(n).aesPad, expands, ends, broken) :
                expands \in [1..SliceCount(n) -> {0, 1, 3, 4, 6, 7, 9}],
                ends \in {n - 1, n, n + 1}, broken \in {0, SliceCount(n)}} :
        \A i \in 1..SliceCount(n) : (i - 1) * InflateChunk >= o.ends => o.expands[i] = 0}

OrdinaryOrder(kind) ==
    Order(kind, EncodingOf(3).fragments, EncodingOf(3).aesPad, <<4>>, 3, 0)

-----------------------------------------------------------------------------
(* Archives *)

File(name, declared, packed, actual) ==
    [name |-> name, declared |-> declared, packed |-> packed, actual |-> actual,
     directory |-> FALSE, safe |-> TRUE, intact |-> TRUE, nested |-> FALSE]
Plain(name) == File(name, 3, 2, 3)
Directory(name) == [File(name, 0, 0, 0) EXCEPT !.directory = TRUE]

Members(name) ==
    {Plain(name), Directory(name), File(name, 1, 1, 1), File(name, 2, 1, 2),
     File(name, 4, 2, 4), File(name, 3, 2, 2), File(name, 2, 2, 3)}
AllMembers(name) ==
    {File(name, d, p, a) : d \in 0..5, p \in 0..3, a \in 0..7}
    \cup {[Directory(name) EXCEPT !.declared = d, !.packed = p, !.actual = a] :
              d \in 0..1, p \in 0..1, a \in 0..1}
    \cup {[Plain(name) EXCEPT !.safe = FALSE], [Plain(name) EXCEPT !.intact = FALSE],
          [Plain(name) EXCEPT !.nested = TRUE], [Directory(name) EXCEPT !.safe = FALSE],
          [Directory(name) EXCEPT !.intact = FALSE]}

Archive(container, readable, members) ==
    [container |-> container, readable |-> readable, members |-> members, size |-> 0]
OrdinaryArchive == Archive("NONE", TRUE, <<>>)

Archives ==
    {Archive(c, readable, members) : c \in ContainerTypes, readable \in BOOLEAN,
                                     members \in {<<>>, <<Plain(1)>>}}
    \cup {Archive("ZIP", TRUE, <<m>>) : m \in AllMembers(1)}
    \cup {Archive("ZIP", TRUE, <<m, n>>) : m \in Members(1), n \in Members(1) \cup AllMembers(2)}
    \cup {Archive("ZIP", TRUE, <<k, m, n>>) :
              k \in Members(1), m \in Members(2), n \in Members(3)}
    \cup {Archive("ZIP", TRUE, <<Directory(1), Plain(2), Directory(3), Plain(4)>>)}

-----------------------------------------------------------------------------
(* Customer data *)

OrderInfo == {[order |-> o, service |-> s] : o \in {"BTD", "BTU"}, s \in {d1, d2, NoService}}
Permission(o, s, a) == [order |-> o, service |-> s, account |-> a]
Account(id, restrictions) == [id |-> id, restrictions |-> restrictions, wellFormed |-> TRUE]
User(id, permissions) == [id |-> id, permissions |-> permissions, wellFormed |-> TRUE]

Info(source, orders, accounts, users) ==
    [source |-> source, hostMatches |-> TRUE, orders |-> orders, accounts |-> accounts,
     users |-> users]

OrderLists == SeqsUpTo(OrderInfo, 2)
Restrictions == {Unrestricted, <<>>, <<d1>>, <<d2>>, <<d1, d2>>, <<d1, d1>>}
AccountLists ==
    {<<>>} \cup {<<Account("a1", r)>> : r \in Restrictions}
    \cup {<<Account("a1", r), Account(id, s)>> :
              r \in Restrictions, s \in {Unrestricted, <<d2>>}, id \in {"a1", "a2"}}
Permissions == {Permission("BTD", d1, NoAccount), Permission("BTD", d2, "a1"),
                Permission("BTU", d2, "a2"), Permission("BTD", d1, "a1"),
                Permission("BTD", NoService, NoAccount), Permission("BTU", NoService, NoAccount)}
UserLists ==
    {<<User(id, p)>> : id \in {Requester, "u2"}, p \in SeqsUpTo(Permissions, 2)}
    \cup {<<User(Requester, <<Permission("BTD", d1, "a1")>>),
            User(id, <<Permission(o, d2, NoAccount)>>)>> :
              id \in {Requester, "u2"}, o \in {"BTD", "BTU"}}

OrdinaryInfo ==
    Info("HKD", <<[order |-> "BTD", service |-> d1]>>, <<Account("a1", Unrestricted)>>,
         <<User(Requester, <<Permission("BTD", d1, NoAccount)>>)>>)
Infos ==
    {Info("HKD", orders, accounts, OrdinaryInfo.users) :
        orders \in OrderLists, accounts \in AccountLists}
    \cup {Info(source, orders, OrdinaryInfo.accounts, users) :
              source \in {"HKD", "HTD"}, orders \in OrderLists, users \in UserLists}
    \cup {[OrdinaryInfo EXCEPT !.hostMatches = FALSE],
          [OrdinaryInfo EXCEPT !.accounts[1].wellFormed = FALSE],
          [OrdinaryInfo EXCEPT !.users[1].wellFormed = FALSE]}

-----------------------------------------------------------------------------
(* Answers to HEV *)

Version(protocol, number) == [protocol |-> protocol, version |-> number]
Versions == {Version(p, n) : p \in {"H004", "H005"}, n \in {"02.50", "03.00"}}
                \cup {Version("H003", "02.40"), Version("H006", "03.00")}
Hev(wellFormed, code, versions) ==
    [wellFormed |-> wellFormed, code |-> code, versions |-> versions]
OrdinaryHev == Hev(TRUE, "000000", <<Supported>>)
Hevs ==
    {Hev(TRUE, "000000", versions) : versions \in SeqsUpTo(Versions, 3)}
    \cup {Hev(wellFormed, code, <<Supported>>) :
              wellFormed \in BOOLEAN, code \in {"000000", "091011", "061099"}}

VersionsDelivery == [OrdinaryDelivery EXCEPT !.request.purpose = "versions"]

-----------------------------------------------------------------------------
MCInit ==
    \/ \E doc \in Documents :
           InitWith(doc, OrdinaryDelivery, OrdinaryOrder("btd"), OrdinaryArchive,
                    OrdinaryXml, OrdinaryInfo, OrdinaryHev)
    \/ \E base \in Bases, q \in Requests : \E v \in Valued(base) :
           \E r \in Shaped(v), original \in {base, v}, key \in {PinnedKey, OtherKey} :
               /\ key = OtherKey => r = base
               /\ InitWith(OrdinaryXml, Delivery(r, original, key, q), OrdinaryOrder("btd"),
                           OrdinaryArchive, OrdinaryXml, OrdinaryInfo, OrdinaryHev)
    \/ \E base \in Bases, q \in Requests, n \in MarkedNodes :
           LET original == [base EXCEPT !.mark[n] = "none"]
           IN  \E r \in Valued(original) \cup Shaped(original) :
                   InitWith(OrdinaryXml, Delivery(r, original, PinnedKey, q),
                            OrdinaryOrder("btd"), OrdinaryArchive, OrdinaryXml, OrdinaryInfo,
                            OrdinaryHev)
    \/ \E sent \in Encodings :
           InitWith(OrdinaryXml, OrdinaryDelivery, sent, OrdinaryArchive, OrdinaryXml,
                    OrdinaryInfo, OrdinaryHev)
    \/ \E kind \in {"btd", "metadata"}, n \in 1..MaxCompressed : \E sent \in StreamsOf(kind, n) :
           InitWith(OrdinaryXml, OrdinaryDelivery, sent, OrdinaryArchive, OrdinaryXml,
                    OrdinaryInfo, OrdinaryHev)
    \/ \E archived \in Archives :
           InitWith(OrdinaryXml, OrdinaryDelivery, OrdinaryOrder("btd"), archived,
                    OrdinaryXml, OrdinaryInfo, OrdinaryHev)
    \/ \E info \in Infos :
           InitWith(OrdinaryXml, OrdinaryDelivery, OrdinaryOrder("metadata"),
                    OrdinaryArchive, OrdinaryXml, info, OrdinaryHev)
    \/ \E doc \in Documents :
           InitWith(OrdinaryXml, OrdinaryDelivery, OrdinaryOrder("metadata"),
                    OrdinaryArchive, doc, OrdinaryInfo, OrdinaryHev)
    \/ \E hev \in Hevs :
           InitWith(OrdinaryXml, VersionsDelivery, OrdinaryOrder("btd"), OrdinaryArchive,
                    OrdinaryXml, OrdinaryInfo, hev)

MCSpec == MCInit /\ [][Next]_vars /\ Fairness
=============================================================================
