---------------------- MODULE ResponseDecoding_proofs ----------------------
(***************************************************************************)
(* What a call returns of a response, for every response and all limits:   *)
(* the scanner, the envelope, the negotiation and the customer data, and   *)
(* their composition with the decoders and the extraction of               *)
(* OrderData_proofs.                                                       *)
(***************************************************************************)
EXTENDS ResponseDecoding, OrderData_proofs, FiniteSetTheorems

-----------------------------------------------------------------------------
(* The scanner. *)

(* A callback of the parser. *)
EventForms == [kind: {"start", "end", "data", "start_ns", "comment", "pi"}, bytes: Nat,
               attributes: Seq([id: STRING \cup {NoId}, bytes: Nat]), xinclude: BOOLEAN]

(* The IDs of the elements before callback n. *)
IdsBefore(doc, n) == UNION {IdsOf(doc.events[m].attributes) : m \in Starts(doc) \cap 1..(n - 1)}

(* What the limits say about one callback, given those before it. *)
EventGood(doc, n) ==
    LET e == doc.events[n] IN
    /\ e.kind \notin {"comment", "pi"}
    /\ e.kind = "start" => /\ Running(Count(doc, "start"))[n] <= MaxElements
                           /\ Nested(doc, n) <= MaxDepth
                           /\ Len(e.attributes) <= MaxAttributes
                           /\ ~e.xinclude
                           /\ Running(AttributeSizes(doc))[n] <= MaxAttributeBytes
                           /\ ~DuplicateId(IdsBefore(doc, n), e.attributes)
    /\ e.kind = "data" => /\ \A i \in 1..n : IsTextNode(doc, i, n) =>
                                 TextBytes(doc, i, n) <= MaxText
                          /\ Running(Bytes(doc, "data"))[n] <= MaxTotalText
    /\ e.kind = "start_ns" => /\ Running(Count(doc, "start_ns"))[n] <= MaxNamespaces
                              /\ e.bytes <= MaxNamespaceBytes
                              /\ Running(Bytes(doc, "start_ns"))[n] <= MaxTotalNamespaceBytes

(* The limits are positive numbers. *)
LEMMA ScannerLimits ==
    /\ MaxDepth \in Nat /\ MaxElements \in Nat /\ MaxText \in Nat /\ MaxTotalText \in Nat
    /\ MaxAttributes \in Nat /\ MaxAttributeBytes \in Nat /\ MaxNamespaces \in Nat
    /\ MaxNamespaceBytes \in Nat /\ MaxTotalNamespaceBytes \in Nat
BY XmlLimits

(* The callbacks of a document. *)
LEMMA EventsTyped ==
    ASSUME NEW doc \in XmlDocuments
    PROVE  /\ Len(doc.events) \in Nat
           /\ \A n \in 1..Len(doc.events) : doc.events[n] \in EventForms
           /\ doc.raw \in RawForms /\ doc.wellFormed \in BOOLEAN
<1>1. doc.events \in Seq(EventForms) /\ doc.raw \in RawForms /\ doc.wellFormed \in BOOLEAN
    BY DEF XmlDocuments, EventForms
<1>2. \A n \in 1..Len(doc.events) : doc.events[n] \in EventForms
    BY <1>1, ElementTyped
<1> QED BY <1>1, <1>2

(* The sizes of the attributes of a callback. *)
LEMMA AttributesSized ==
    ASSUME NEW e \in EventForms
    PROVE  AttributeBytes(e.attributes) \in Nat /\ Len(e.attributes) \in Nat
<1> DEFINE at == e.attributes
           Attribute == [id: STRING \cup {NoId}, bytes: Nat]
           s == [i \in 1..Len(at) |-> at[i].bytes]
<1>1. at \in Seq(Attribute)
    BY DEF EventForms
<1>2. Len(at) \in Nat /\ \A i \in 1..Len(at) : at[i] \in Attribute
  <2> HIDE DEF Attribute, at
  <2> QED BY <1>1, ElementTyped
<1>3. s \in [1..Len(at) -> Nat]
    BY <1>2
<1> HIDE DEF s
<1>4. s \in Seq(Nat)
    BY <1>2, <1>3, SequenceOf
<1>5. SumOf(s) \in Nat
    BY <1>4, SumFacts
<1> QED BY <1>2, <1>5 DEF AttributeBytes, s

(* What the counters add up. *)
LEMMA CountsTyped ==
    ASSUME NEW doc \in XmlDocuments
    PROVE  /\ \A k \in {"start", "end", "start_ns"} :
                  Count(doc, k) \in Seq(Nat) /\ Len(Count(doc, k)) = Len(doc.events)
           /\ \A k \in {"data", "start_ns"} :
                  Bytes(doc, k) \in Seq(Nat) /\ Len(Bytes(doc, k)) = Len(doc.events)
           /\ AttributeSizes(doc) \in Seq(Nat) /\ Len(AttributeSizes(doc)) = Len(doc.events)
<1>1. Len(doc.events) \in Nat /\ \A n \in 1..Len(doc.events) : doc.events[n] \in EventForms
    BY EventsTyped
<1>2. ASSUME NEW k \in {"start", "end", "start_ns"}
      PROVE  Count(doc, k) \in Seq(Nat) /\ Len(Count(doc, k)) = Len(doc.events)
  <2>1. Count(doc, k) \in [1..Len(doc.events) -> Nat]
      BY DEF Count
  <2> QED BY <1>1, <2>1, SequenceOf
<1>3. ASSUME NEW k \in {"data", "start_ns"}
      PROVE  Bytes(doc, k) \in Seq(Nat) /\ Len(Bytes(doc, k)) = Len(doc.events)
  <2>1. Bytes(doc, k) \in [1..Len(doc.events) -> Nat]
      BY <1>1 DEF Bytes, EventForms
  <2> QED BY <1>1, <2>1, SequenceOf
<1>4. AttributeSizes(doc) \in Seq(Nat) /\ Len(AttributeSizes(doc)) = Len(doc.events)
  <2>1. \A n \in 1..Len(doc.events) : AttributeBytes(doc.events[n].attributes) \in Nat
      BY <1>1, AttributesSized
  <2>2. AttributeSizes(doc) \in [1..Len(doc.events) -> Nat]
      BY <2>1 DEF AttributeSizes
  <2> QED BY <1>1, <2>2, SequenceOf
<1> QED BY <1>2, <1>3, <1>4

(* One callback more. *)
LEMMA CountsStep ==
    ASSUME NEW doc \in XmlDocuments, NEW n \in 1..Len(doc.events)
    PROVE  /\ n \in 0..Len(doc.events) /\ n - 1 \in 0..Len(doc.events) /\ n \in Nat
           /\ \A k \in {"start", "end", "start_ns"} :
                  /\ Running(Count(doc, k))[n - 1] \in Nat /\ Running(Count(doc, k))[n] \in Nat
                  /\ Running(Count(doc, k))[n] = Running(Count(doc, k))[n - 1]
                         + (IF doc.events[n].kind = k THEN 1 ELSE 0)
           /\ \A k \in {"data", "start_ns"} :
                  /\ Running(Bytes(doc, k))[n - 1] \in Nat /\ Running(Bytes(doc, k))[n] \in Nat
                  /\ Running(Bytes(doc, k))[n] = Running(Bytes(doc, k))[n - 1]
                         + (IF doc.events[n].kind = k THEN doc.events[n].bytes ELSE 0)
           /\ Running(AttributeSizes(doc))[n - 1] \in Nat
           /\ Running(AttributeSizes(doc))[n] \in Nat
           /\ Running(AttributeSizes(doc))[n] = Running(AttributeSizes(doc))[n - 1]
                  + (IF doc.events[n].kind = "start"
                     THEN AttributeBytes(doc.events[n].attributes) ELSE 0)
<1>1. Len(doc.events) \in Nat
    BY EventsTyped
<1>2. n \in 0..Len(doc.events) /\ n - 1 \in 0..Len(doc.events) /\ n \in Nat
    BY <1>1
<1>3. ASSUME NEW k \in {"start", "end", "start_ns"}
      PROVE  /\ Running(Count(doc, k))[n - 1] \in Nat /\ Running(Count(doc, k))[n] \in Nat
             /\ Running(Count(doc, k))[n] = Running(Count(doc, k))[n - 1]
                    + (IF doc.events[n].kind = k THEN 1 ELSE 0)
  <2> DEFINE s == Count(doc, k)
  <2>1. s \in Seq(Nat) /\ Len(s) = Len(doc.events)
      BY CountsTyped
  <2>2. s[n] = IF doc.events[n].kind = k THEN 1 ELSE 0
      BY DEF Count
  <2> HIDE DEF s
  <2>3. /\ Running(s)[n - 1] \in Nat /\ Running(s)[n] \in Nat
        /\ Running(s)[n] = Running(s)[n - 1] + s[n]
      BY <1>2, <2>1, SumFacts
  <2> QED BY <2>2, <2>3 DEF s
<1>4. ASSUME NEW k \in {"data", "start_ns"}
      PROVE  /\ Running(Bytes(doc, k))[n - 1] \in Nat /\ Running(Bytes(doc, k))[n] \in Nat
             /\ Running(Bytes(doc, k))[n] = Running(Bytes(doc, k))[n - 1]
                    + (IF doc.events[n].kind = k THEN doc.events[n].bytes ELSE 0)
  <2> DEFINE s == Bytes(doc, k)
  <2>1. s \in Seq(Nat) /\ Len(s) = Len(doc.events)
      BY CountsTyped
  <2>2. s[n] = IF doc.events[n].kind = k THEN doc.events[n].bytes ELSE 0
      BY DEF Bytes
  <2> HIDE DEF s
  <2>3. /\ Running(s)[n - 1] \in Nat /\ Running(s)[n] \in Nat
        /\ Running(s)[n] = Running(s)[n - 1] + s[n]
      BY <1>2, <2>1, SumFacts
  <2> QED BY <2>2, <2>3 DEF s
<1>5. /\ Running(AttributeSizes(doc))[n - 1] \in Nat
      /\ Running(AttributeSizes(doc))[n] \in Nat
      /\ Running(AttributeSizes(doc))[n] = Running(AttributeSizes(doc))[n - 1]
             + (IF doc.events[n].kind = "start"
                THEN AttributeBytes(doc.events[n].attributes) ELSE 0)
  <2> DEFINE s == AttributeSizes(doc)
  <2>1. s \in Seq(Nat) /\ Len(s) = Len(doc.events)
      BY CountsTyped
  <2>2. s[n] = IF doc.events[n].kind = "start"
               THEN AttributeBytes(doc.events[n].attributes) ELSE 0
      BY DEF AttributeSizes
  <2> HIDE DEF s
  <2>3. /\ Running(s)[n - 1] \in Nat /\ Running(s)[n] \in Nat
        /\ Running(s)[n] = Running(s)[n - 1] + s[n]
      BY <1>2, <2>1, SumFacts
  <2> QED BY <2>2, <2>3 DEF s
<1> QED BY <1>2, <1>3, <1>4, <1>5

-----------------------------------------------------------------------------
(* The bytes of text since the last tag. *)
TextSince(doc, n, text) ==
    \E i \in 0..n :
        /\ i = 0 \/ doc.events[i].kind \in {"start", "end"}
        /\ \A k \in (i + 1)..n : doc.events[k].kind \notin {"start", "end"}
        /\ text = Running(Bytes(doc, "data"))[n] - Running(Bytes(doc, "data"))[i]

(* The IDs the scanner remembers. *)
IdSets == SUBSET (STRING \cup {NoId})

(* The counters of the scanner. *)
ScanTypes == [depth: Int, elements: Int, text: Int, totalText: Int, attributeBytes: Int,
              ids: IdSets, namespaces: Int, namespaceBytes: Int, failure: BOOLEAN]

(* The scanner's counters after n callbacks. *)
Tracked(doc, n, s) ==
    /\ s \in ScanTypes
    /\ s.elements = Running(Count(doc, "start"))[n]
    /\ s.depth = Nested(doc, n)
    /\ s.attributeBytes = Running(AttributeSizes(doc))[n]
    /\ s.ids = IdsBefore(doc, n + 1)
    /\ TextSince(doc, n, s.text)
    /\ s.totalText = Running(Bytes(doc, "data"))[n]
    /\ s.namespaces = Running(Count(doc, "start_ns"))[n]
    /\ s.namespaceBytes = Running(Bytes(doc, "start_ns"))[n]

(* What one callback makes of the scanner. *)
Handled(s, e) ==
    CASE e.kind = "start" -> start(s, e)
      [] e.kind = "data" -> data(s, e)
      [] e.kind = "start_ns" -> start_ns(s, e)
      [] e.kind = "end" -> end(s, e)
      [] OTHER -> forbidden(s, e)

(* The IDs seen grow with the elements. *)
LEMMA IdsStep ==
    ASSUME NEW doc \in XmlDocuments, NEW n \in 1..Len(doc.events)
    PROVE  /\ doc.events[n].kind = "start" =>
                  IdsBefore(doc, n + 1) = IdsBefore(doc, n) \cup IdsOf(doc.events[n].attributes)
           /\ doc.events[n].kind # "start" => IdsBefore(doc, n + 1) = IdsBefore(doc, n)
<1>1. Len(doc.events) \in Nat
    BY EventsTyped
<1>2. 1..((n + 1) - 1) = (1..(n - 1)) \cup {n}
    BY <1>1
<1>3. CASE doc.events[n].kind = "start"
  <2>1. Starts(doc) \cap 1..((n + 1) - 1) = (Starts(doc) \cap 1..(n - 1)) \cup {n}
      BY <1>2, <1>3 DEF Starts
  <2>2. IdsBefore(doc, n + 1)
            = UNION {IdsOf(doc.events[m].attributes) : m \in (Starts(doc) \cap 1..(n - 1)) \cup {n}}
      BY <2>1 DEF IdsBefore
  <2> QED BY <1>3, <2>2 DEF IdsBefore
<1>4. CASE doc.events[n].kind # "start"
  <2>1. Starts(doc) \cap 1..((n + 1) - 1) = Starts(doc) \cap 1..(n - 1)
      BY <1>2, <1>4 DEF Starts
  <2> QED BY <1>4, <2>1 DEF IdsBefore
<1> QED BY <1>3, <1>4

(* IDs are text. *)
LEMMA IdsTyped ==
    ASSUME NEW e \in EventForms
    PROVE  IdsOf(e.attributes) \subseteq STRING \cup {NoId}
<1> DEFINE at == e.attributes
           Attribute == [id: STRING \cup {NoId}, bytes: Nat]
<1>1. at \in Seq(Attribute)
    BY DEF EventForms
<1>2. \A a \in ToSet(at) : a \in Attribute
  <2>1. \A i \in 1..Len(at) : at[i] \in Attribute
    <3> HIDE DEF Attribute, at
    <3> QED BY <1>1, ElementTyped
  <2> HIDE DEF Attribute, at
  <2>2. DOMAIN at = 1..Len(at)
      BY <1>1
  <2> QED BY <2>1, <2>2 DEF ToSet
<1> QED BY <1>2 DEF IdsOf

(* The text since the last tag decides about every text node that ends here. *)
LEMMA TextStep ==
    ASSUME NEW doc \in XmlDocuments, NEW n \in 1..Len(doc.events), NEW text \in Int,
           TextSince(doc, n - 1, text)
    PROVE  LET e == doc.events[n]
               longer == text + (IF e.kind = "data" THEN e.bytes ELSE 0)
           IN  /\ e.kind \in {"start", "end"} => TextSince(doc, n, 0)
               /\ e.kind \notin {"start", "end"} =>
                      /\ TextSince(doc, n, longer)
                      /\ longer > MaxText <=>
                            \E i \in 1..n : IsTextNode(doc, i, n) /\ TextBytes(doc, i, n) > MaxText
<1> DEFINE e == doc.events[n]
           R == Running(Bytes(doc, "data"))
           longer == text + (IF e.kind = "data" THEN e.bytes ELSE 0)
<1>0. Len(doc.events) \in Nat /\ e.bytes \in Nat /\ MaxText \in Nat
    BY EventsTyped, ScannerLimits DEF EventForms
<1>1. /\ \A k \in 0..Len(doc.events) : R[k] \in Nat
      /\ \A k, m \in 0..Len(doc.events) : k <= m => R[k] <= R[m]
  <2> DEFINE s == Bytes(doc, "data")
  <2>1. s \in Seq(Nat) /\ Len(s) = Len(doc.events)
      BY CountsTyped
  <2> HIDE DEF s
  <2>2. /\ \A k \in 0..Len(s) : Running(s)[k] \in Nat
        /\ \A k, m \in 0..Len(s) : k <= m => Running(s)[k] <= Running(s)[m]
      BY <2>1, SumFacts
  <2> QED BY <2>1, <2>2 DEF s
<1>2. R[n] = R[n - 1] + (IF e.kind = "data" THEN e.bytes ELSE 0)
    BY CountsStep
<1>3. PICK i \in 0..(n - 1) :
        /\ i = 0 \/ doc.events[i].kind \in {"start", "end"}
        /\ \A k \in (i + 1)..(n - 1) : doc.events[k].kind \notin {"start", "end"}
        /\ text = R[n - 1] - R[i]
    BY DEF TextSince
<1>4. ASSUME e.kind \in {"start", "end"} PROVE TextSince(doc, n, 0)
  <2>1. n \in 0..n /\ R[n] - R[n] = 0 /\ \A k \in (n + 1)..n : FALSE
      BY <1>0, <1>1
  <2> HIDE DEF R
  <2> QED BY <1>4, <2>1 DEF TextSince, R
<1>5. ASSUME e.kind \notin {"start", "end"}
      PROVE  /\ TextSince(doc, n, longer)
             /\ longer > MaxText <=>
                   \E j \in 1..n : IsTextNode(doc, j, n) /\ TextBytes(doc, j, n) > MaxText
  <2> HIDE DEF R
  <2>1. longer = R[n] - R[i] /\ i \in 0..n /\ R[n] \in Nat /\ R[i] \in Nat /\ R[n - 1] \in Nat
    <3>1. i \in 0..n /\ n \in 0..Len(doc.events) /\ i \in 0..Len(doc.events)
          /\ n - 1 \in 0..Len(doc.events)
        BY <1>0, <1>3
    <3>2. R[n] \in Nat /\ R[i] \in Nat /\ R[n - 1] \in Nat
        BY <1>1, <3>1
    <3> QED BY <1>0, <1>2, <1>3, <3>1, <3>2, SMTT(30)
  <2>2. \A k \in (i + 1)..n : doc.events[k].kind \notin {"start", "end"}
    <3>1. \A k \in (i + 1)..n : k \in (i + 1)..(n - 1) \/ k = n
        OBVIOUS
    <3> QED BY <1>3, <1>5, <3>1
  <2>3. TextSince(doc, n, longer)
      BY <1>3, <2>1, <2>2 DEF TextSince, R
  <2>4. i + 1 \in 1..n /\ IsTextNode(doc, i + 1, n) /\ TextBytes(doc, i + 1, n) = longer
    <3>1. i + 1 \in 1..n /\ (i + 1) - 1 = i
        OBVIOUS
    <3> QED BY <2>1, <2>2, <3>1 DEF IsTextNode, TextBytes, R
  <2>5. ASSUME NEW j \in 1..n, IsTextNode(doc, j, n)
        PROVE  TextBytes(doc, j, n) <= longer
    <3>1. i < j
      <4>1. i \notin j..n
          BY <1>3, <2>5 DEF IsTextNode
      <4> QED BY <1>3, <4>1
    <3>2. R[i] <= R[j - 1] /\ R[j - 1] \in Nat
      <4>1. i \in 0..Len(doc.events) /\ j - 1 \in 0..Len(doc.events) /\ i <= j - 1
          BY <1>0, <1>3, <3>1, SMTT(30)
      <4> QED BY <1>1, <4>1
    <3>3. TextBytes(doc, j, n) = R[n] - R[j - 1]
        BY DEF TextBytes, R
    <3> QED BY <2>1, <3>2, <3>3
  <2>6. \A j \in 1..n : TextBytes(doc, j, n) \in Int
    <3>1. \A j \in 1..n : j - 1 \in 0..Len(doc.events)
        BY <1>0
    <3>2. \A j \in 1..n : R[j - 1] \in Nat
        BY <1>1, <3>1
    <3> QED BY <2>1, <3>2 DEF TextBytes, R
  <2>7. longer \in Int
      BY <1>0
  <2> HIDE DEF longer
  <2> QED BY <1>0, <2>3, <2>4, <2>5, <2>6, <2>7
<1> QED BY <1>4, <1>5

(* The scanner remembers a failure. *)
LEMMA FailureSet ==
    ASSUME NEW u \in ScanTypes, NEW f \in BOOLEAN, NEW t, t = [u EXCEPT !.failure = f]
    PROVE  /\ t \in ScanTypes
           /\ t.elements = u.elements /\ t.depth = u.depth /\ t.text = u.text
           /\ t.totalText = u.totalText /\ t.attributeBytes = u.attributeBytes
           /\ t.ids = u.ids /\ t.namespaces = u.namespaces
           /\ t.namespaceBytes = u.namespaceBytes
           /\ t.failure <=> f
BY DEF ScanTypes

(* A callback keeps the counters right, and notes a failure exactly if it     *)
(* crosses a limit.                                                           *)
LEMMA HandledStep ==
    ASSUME NEW doc \in XmlDocuments, NEW n \in 1..Len(doc.events), NEW s,
           Tracked(doc, n - 1, s)
    PROVE  /\ Tracked(doc, n, Handled(s, doc.events[n]))
           /\ Handled(s, doc.events[n]).failure <=> s.failure \/ ~EventGood(doc, n)
<1> DEFINE e == doc.events[n]
           t == Handled(s, e)
           bytes == AttributeBytes(e.attributes)
<1>0. /\ s \in ScanTypes /\ e \in EventForms /\ n \in Int /\ (n - 1) + 1 = n
      /\ bytes \in Nat /\ Len(e.attributes) \in Nat
      /\ IdsOf(e.attributes) \subseteq STRING \cup {NoId}
  <2>1. e \in EventForms /\ s \in ScanTypes /\ n \in Int
      BY EventsTyped DEF Tracked
  <2> HIDE DEF e
  <2>2. bytes \in Nat /\ Len(e.attributes) \in Nat /\ IdsOf(e.attributes) \subseteq STRING \cup {NoId}
      BY <2>1, AttributesSized, IdsTyped
  <2> QED BY <2>1, <2>2
<1>1. /\ s.elements = Running(Count(doc, "start"))[n - 1]
      /\ s.depth = Nested(doc, n - 1)
      /\ s.attributeBytes = Running(AttributeSizes(doc))[n - 1]
      /\ s.ids = IdsBefore(doc, n)
      /\ TextSince(doc, n - 1, s.text)
      /\ s.totalText = Running(Bytes(doc, "data"))[n - 1]
      /\ s.namespaces = Running(Count(doc, "start_ns"))[n - 1]
      /\ s.namespaceBytes = Running(Bytes(doc, "start_ns"))[n - 1]
    BY <1>0 DEF Tracked
<1>2. /\ Running(Count(doc, "start"))[n] = s.elements + (IF e.kind = "start" THEN 1 ELSE 0)
      /\ Nested(doc, n) = s.depth + (IF e.kind = "start" THEN 1 ELSE 0)
                                  - (IF e.kind = "end" THEN 1 ELSE 0)
      /\ Running(AttributeSizes(doc))[n] = s.attributeBytes + (IF e.kind = "start" THEN bytes ELSE 0)
      /\ Running(Bytes(doc, "data"))[n] = s.totalText + (IF e.kind = "data" THEN e.bytes ELSE 0)
      /\ Running(Count(doc, "start_ns"))[n] = s.namespaces + (IF e.kind = "start_ns" THEN 1 ELSE 0)
      /\ Running(Bytes(doc, "start_ns"))[n]
            = s.namespaceBytes + (IF e.kind = "start_ns" THEN e.bytes ELSE 0)
  <2>1. /\ Running(Count(doc, "start"))[n] = s.elements + (IF e.kind = "start" THEN 1 ELSE 0)
        /\ Running(Count(doc, "start_ns"))[n] = s.namespaces + (IF e.kind = "start_ns" THEN 1 ELSE 0)
      BY <1>1, CountsStep
  <2>2. /\ Running(Bytes(doc, "data"))[n] = s.totalText + (IF e.kind = "data" THEN e.bytes ELSE 0)
        /\ Running(Bytes(doc, "start_ns"))[n]
              = s.namespaceBytes + (IF e.kind = "start_ns" THEN e.bytes ELSE 0)
      BY <1>1, CountsStep
  <2>3. Running(AttributeSizes(doc))[n] = s.attributeBytes + (IF e.kind = "start" THEN bytes ELSE 0)
      BY <1>1, CountsStep
  <2>4. Nested(doc, n) = s.depth + (IF e.kind = "start" THEN 1 ELSE 0)
                                 - (IF e.kind = "end" THEN 1 ELSE 0)
    <3>1. \A k \in {"start", "end"} :
            /\ Running(Count(doc, k))[n - 1] \in Nat
            /\ Running(Count(doc, k))[n] = Running(Count(doc, k))[n - 1] + (IF e.kind = k THEN 1 ELSE 0)
        BY CountsStep
    <3>2. s.depth = Running(Count(doc, "start"))[n - 1] - Running(Count(doc, "end"))[n - 1]
        BY <1>1 DEF Nested
    <3>3. Nested(doc, n) = Running(Count(doc, "start"))[n] - Running(Count(doc, "end"))[n]
        BY DEF Nested
    <3> HIDE DEF e
    <3> QED BY <3>1, <3>2, <3>3
  <2> QED BY <2>1, <2>2, <2>3, <2>4
<1>3. /\ e.kind = "start" => IdsBefore(doc, n + 1) = s.ids \cup IdsOf(e.attributes)
      /\ e.kind # "start" => IdsBefore(doc, n + 1) = s.ids
    BY <1>1, IdsStep
<1> DEFINE longer == s.text + (IF e.kind = "data" THEN e.bytes ELSE 0)
<1>4. /\ e.kind \in {"start", "end"} => TextSince(doc, n, 0)
      /\ e.kind \notin {"start", "end"} =>
             /\ TextSince(doc, n, longer)
             /\ longer > MaxText <=>
                   \E i \in 1..n : IsTextNode(doc, i, n) /\ TextBytes(doc, i, n) > MaxText
  <2>1. s.text \in Int
      BY <1>0 DEF ScanTypes
  <2> QED BY <1>1, <2>1, TextStep
<1>5. /\ e.kind \in {"start", "end", "data", "start_ns", "comment", "pi"}
      /\ e.bytes \in Nat /\ e.xinclude \in BOOLEAN
    BY <1>0 DEF EventForms
<1> DEFINE seen == IdsOf(e.attributes)
           size == Len(e.attributes)
           twice == DuplicateId(s.ids, e.attributes)
<1>6. CASE e.kind = "start"
  <2>1. t = start(s, e)
      BY <1>6 DEF Handled
  <2>2. EventGood(doc, n) <=>
          /\ s.elements + 1 <= MaxElements
          /\ s.depth + 1 <= MaxDepth
          /\ size <= MaxAttributes
          /\ ~e.xinclude
          /\ s.attributeBytes + bytes <= MaxAttributeBytes
          /\ ~twice
    <3>1. s.depth + 1 - 0 = s.depth + 1
        BY <1>0 DEF ScanTypes
    <3> QED BY <1>1, <1>2, <1>6, <3>1 DEF EventGood
  <2>3. twice \in BOOLEAN
      BY DEF DuplicateId
  <2>4. s.depth + 1 - 0 = s.depth + 1
      BY <1>0 DEF ScanTypes
  <2>5. Nested(doc, n) = s.depth + 1
      BY <1>2, <1>6, <2>4
  <2> DEFINE f == \/ s.failure \/ s.elements + 1 > MaxElements \/ s.depth + 1 > MaxDepth
                  \/ size > MaxAttributes \/ e.xinclude
                  \/ s.attributeBytes + bytes > MaxAttributeBytes \/ twice
  <2> HIDE DEF seen, size, twice, bytes
  <2>6. /\ t \in ScanTypes
        /\ t.elements = s.elements + 1 /\ t.depth = s.depth + 1 /\ t.text = 0
        /\ t.totalText = s.totalText /\ t.attributeBytes = s.attributeBytes + bytes
        /\ t.ids = s.ids \cup seen /\ t.namespaces = s.namespaces
        /\ t.namespaceBytes = s.namespaceBytes
        /\ t.failure <=> f
    <3>1. seen \subseteq STRING \cup {NoId} /\ bytes \in Nat
        BY <1>0 DEF seen, bytes
    <3> DEFINE u == [s EXCEPT !.elements = @ + 1, !.depth = @ + 1, !.text = 0,
                              !.attributeBytes = @ + bytes, !.ids = @ \cup seen]
    <3>2. /\ u \in ScanTypes
          /\ u.elements = s.elements + 1 /\ u.depth = s.depth + 1 /\ u.text = 0
          /\ u.totalText = s.totalText /\ u.attributeBytes = s.attributeBytes + bytes
          /\ u.ids = s.ids \cup seen /\ u.namespaces = s.namespaces
          /\ u.namespaceBytes = s.namespaceBytes /\ u.failure = s.failure
      <4>1. s.elements + 1 \in Int /\ s.depth + 1 \in Int /\ s.attributeBytes + bytes \in Int
            /\ s.ids \cup seen \in IdSets
        <5>1. s.elements \in Int /\ s.depth \in Int /\ s.attributeBytes \in Int /\ s.ids \in IdSets
            BY <1>0 DEF ScanTypes
        <5>2. s.ids \cup seen \in IdSets
            BY <5>1, <3>1, Zenon DEF IdSets
        <5> QED BY <3>1, <5>1, <5>2
      <4> DEFINE b == s.elements + 1
                 c == s.depth + 1
                 d == s.attributeBytes + bytes
                 i == s.ids \cup seen
      <4>2. u = [s EXCEPT !.elements = b, !.depth = c, !.text = 0, !.attributeBytes = d, !.ids = i]
            /\ b \in Int /\ c \in Int /\ d \in Int /\ i \in IdSets
          BY <4>1
      <4> HIDE DEF e, t, u, b, c, d, i
      <4>3. DOMAIN s = {"depth", "elements", "text", "totalText", "attributeBytes", "ids",
                        "namespaces", "namespaceBytes", "failure"}
          BY <1>0 DEF ScanTypes
      <4>4. /\ u.elements = b /\ u.depth = c /\ u.text = 0
            /\ u.totalText = s.totalText /\ u.attributeBytes = d
            /\ u.ids = i /\ u.namespaces = s.namespaces
            /\ u.namespaceBytes = s.namespaceBytes /\ u.failure = s.failure
          BY <4>2, <4>3
      <4>5. u = [depth |-> c, elements |-> b, text |-> 0, totalText |-> s.totalText,
                 attributeBytes |-> d, ids |-> i, namespaces |-> s.namespaces,
                 namespaceBytes |-> s.namespaceBytes, failure |-> s.failure]
          BY <1>0, <4>2 DEF ScanTypes
      <4>6. u \in ScanTypes
          BY <1>0, <4>2, <4>5 DEF ScanTypes
      <4> QED BY <4>4, <4>6 DEF b, c, d, i
    <3>3. t = [u EXCEPT !.failure = \/ u.failure
                              \/ u.elements > MaxElements
                              \/ u.depth > MaxDepth
                              \/ size > MaxAttributes
                              \/ e.xinclude
                              \/ u.attributeBytes > MaxAttributeBytes
                              \/ twice]
        BY <2>1, Zenon DEF start, seen, size, twice, bytes
    <3> HIDE DEF u, t
    <3>4. t = [u EXCEPT !.failure = f]
        BY <3>2, <3>3, Zenon DEF f
    <3>5. f \in BOOLEAN
        BY DEF f
    <3> HIDE DEF f, e
    <3>6. /\ t \in ScanTypes
          /\ t.elements = u.elements /\ t.depth = u.depth /\ t.text = u.text
          /\ t.totalText = u.totalText /\ t.attributeBytes = u.attributeBytes
          /\ t.ids = u.ids /\ t.namespaces = u.namespaces
          /\ t.namespaceBytes = u.namespaceBytes
          /\ t.failure <=> f
        BY <3>2, <3>4, <3>5, FailureSet
    <3> QED BY <3>2, <3>6
  <2>7. Tracked(doc, n, t)
    <3>1. s.totalText + 0 = s.totalText /\ s.namespaces + 0 = s.namespaces
          /\ s.namespaceBytes + 0 = s.namespaceBytes
        BY <1>0 DEF ScanTypes
    <3>2. TextSince(doc, n, 0) /\ IdsBefore(doc, n + 1) = s.ids \cup seen
        BY <1>3, <1>4, <1>6 DEF seen
    <3> HIDE DEF t, f
    <3> QED BY <1>2, <1>6, <2>5, <2>6, <3>1, <3>2 DEF Tracked
  <2>8. t.failure <=> s.failure \/ ~EventGood(doc, n)
    <3>1. s.elements \in Int /\ s.depth \in Int /\ s.attributeBytes \in Int /\ bytes \in Nat /\ size \in Nat
        BY <1>0 DEF ScanTypes, bytes, size
    <3>2. f <=> s.failure \/ ~EventGood(doc, n)
      <4> HIDE DEF t, e
      <4> QED BY <2>2, <3>1, ScannerLimits, SMTT(30) DEF f
    <3> QED BY <2>6, <3>2
  <2> QED BY <2>7, <2>8
<1>7. CASE e.kind = "data"
  <2> DEFINE f == s.failure \/ s.text + e.bytes > MaxText \/ s.totalText + e.bytes > MaxTotalText
  <2>1. t = data(s, e)
      BY <1>7 DEF Handled
  <2>2. /\ t \in ScanTypes
        /\ t.elements = s.elements /\ t.depth = s.depth /\ t.text = s.text + e.bytes
        /\ t.totalText = s.totalText + e.bytes /\ t.attributeBytes = s.attributeBytes
        /\ t.ids = s.ids /\ t.namespaces = s.namespaces
        /\ t.namespaceBytes = s.namespaceBytes
        /\ t.failure <=> f
    <3> DEFINE u == [s EXCEPT !.text = @ + e.bytes, !.totalText = @ + e.bytes]
    <3>2. /\ u \in ScanTypes
          /\ u.elements = s.elements /\ u.depth = s.depth /\ u.text = s.text + e.bytes
          /\ u.totalText = s.totalText + e.bytes /\ u.attributeBytes = s.attributeBytes
          /\ u.ids = s.ids /\ u.namespaces = s.namespaces
          /\ u.namespaceBytes = s.namespaceBytes /\ u.failure = s.failure
      <4>1. s.text + e.bytes \in Int /\ s.totalText + e.bytes \in Int
        <5>1. s.text \in Int /\ s.totalText \in Int
            BY <1>0 DEF ScanTypes
        <5> QED BY <1>5, <5>1
      <4> DEFINE x == s.text + e.bytes
                 y == s.totalText + e.bytes
      <4>2. u = [s EXCEPT !.text = x, !.totalText = y] /\ x \in Int /\ y \in Int
          BY <4>1
      <4> HIDE DEF e, t, u, x, y
      <4>3. /\ u \in ScanTypes
            /\ u.elements = s.elements /\ u.depth = s.depth /\ u.text = x
            /\ u.totalText = y /\ u.attributeBytes = s.attributeBytes
            /\ u.ids = s.ids /\ u.namespaces = s.namespaces
            /\ u.namespaceBytes = s.namespaceBytes /\ u.failure = s.failure
          BY <1>0, <4>2 DEF ScanTypes
      <4> QED BY <4>3 DEF x, y
    <3>3. t = [u EXCEPT !.failure = u.failure \/ u.text > MaxText \/ u.totalText > MaxTotalText]
        BY <2>1, Zenon DEF data
    <3> HIDE DEF u, t
    <3>4. t = [u EXCEPT !.failure = f]
        BY <3>2, <3>3, Zenon DEF f
    <3>5. f \in BOOLEAN
        BY DEF f
    <3> HIDE DEF f, e
    <3>6. /\ t \in ScanTypes
          /\ t.elements = u.elements /\ t.depth = u.depth /\ t.text = u.text
          /\ t.totalText = u.totalText /\ t.attributeBytes = u.attributeBytes
          /\ t.ids = u.ids /\ t.namespaces = u.namespaces
          /\ t.namespaceBytes = u.namespaceBytes
          /\ t.failure <=> f
        BY <3>2, <3>4, <3>5, FailureSet
    <3> QED BY <3>2, <3>6
  <2>3. longer = s.text + e.bytes
      BY <1>7
  <2>4. Nested(doc, n) = s.depth
    <3>1. s.depth + 0 - 0 = s.depth
        BY <1>0 DEF ScanTypes
    <3> QED BY <1>2, <1>7, <3>1
  <2>5. Tracked(doc, n, t)
    <3>1. s.elements + 0 = s.elements /\ s.attributeBytes + 0 = s.attributeBytes
          /\ s.namespaces + 0 = s.namespaces /\ s.namespaceBytes + 0 = s.namespaceBytes
        BY <1>0 DEF ScanTypes
    <3> HIDE DEF t, longer
    <3> QED BY <1>2, <1>3, <1>4, <1>7, <2>2, <2>3, <2>4, <3>1 DEF Tracked
  <2>6. EventGood(doc, n) <=> ~(longer > MaxText) /\ s.totalText + e.bytes <= MaxTotalText
    <3>1. \A i \in 1..n : TextBytes(doc, i, n) \in Int
      <4>1. \A i \in 0..Len(doc.events) : Running(Bytes(doc, "data"))[i] \in Nat
        <5> DEFINE b == Bytes(doc, "data")
        <5>1. b \in Seq(Nat) /\ Len(b) = Len(doc.events)
            BY CountsTyped
        <5> HIDE DEF b
        <5>2. \A i \in 0..Len(b) : Running(b)[i] \in Nat
            BY <5>1, SumFacts
        <5> QED BY <5>1, <5>2 DEF b
      <4>2. Len(doc.events) \in Nat
          BY EventsTyped
      <4>3. n \in 0..Len(doc.events) /\ \A i \in 1..n : i - 1 \in 0..Len(doc.events)
          BY <4>2
      <4> QED BY <4>1, <4>3 DEF TextBytes
    <3>2. (\A i \in 1..n : IsTextNode(doc, i, n) => TextBytes(doc, i, n) <= MaxText)
              <=> ~(longer > MaxText)
      <4> HIDE DEF longer
      <4> QED BY <1>4, <1>7, <3>1, ScannerLimits
    <3> QED BY <1>2, <1>7, <3>2 DEF EventGood
  <2>7. t.failure <=> s.failure \/ ~EventGood(doc, n)
    <3>1. s.totalText \in Int /\ s.text \in Int
        BY <1>0 DEF ScanTypes
    <3>2. f <=> s.failure \/ ~EventGood(doc, n)
      <4> HIDE DEF t, longer, e
      <4> QED BY <1>5, <2>3, <2>6, <3>1, ScannerLimits, SMTT(30) DEF f
    <3> QED BY <2>2, <3>2
  <2> QED BY <2>5, <2>7
<1>8. CASE e.kind = "start_ns"
  <2> DEFINE f == \/ s.failure \/ s.namespaces + 1 > MaxNamespaces \/ e.bytes > MaxNamespaceBytes
                  \/ s.namespaceBytes + e.bytes > MaxTotalNamespaceBytes
  <2>1. t = start_ns(s, e)
      BY <1>8 DEF Handled
  <2>2. /\ t \in ScanTypes
        /\ t.elements = s.elements /\ t.depth = s.depth /\ t.text = s.text
        /\ t.totalText = s.totalText /\ t.attributeBytes = s.attributeBytes
        /\ t.ids = s.ids /\ t.namespaces = s.namespaces + 1
        /\ t.namespaceBytes = s.namespaceBytes + e.bytes
        /\ t.failure <=> f
    <3> DEFINE u == [s EXCEPT !.namespaces = @ + 1, !.namespaceBytes = @ + e.bytes]
    <3>2. /\ u \in ScanTypes
          /\ u.elements = s.elements /\ u.depth = s.depth /\ u.text = s.text
          /\ u.totalText = s.totalText /\ u.attributeBytes = s.attributeBytes
          /\ u.ids = s.ids /\ u.namespaces = s.namespaces + 1
          /\ u.namespaceBytes = s.namespaceBytes + e.bytes /\ u.failure = s.failure
      <4>1. s.namespaces + 1 \in Int /\ s.namespaceBytes + e.bytes \in Int
        <5>1. s.namespaces \in Int /\ s.namespaceBytes \in Int
            BY <1>0 DEF ScanTypes
        <5> QED BY <1>5, <5>1
      <4> DEFINE x == s.namespaces + 1
                 y == s.namespaceBytes + e.bytes
      <4>2. u = [s EXCEPT !.namespaces = x, !.namespaceBytes = y] /\ x \in Int /\ y \in Int
          BY <4>1
      <4> HIDE DEF e, t, u, x, y
      <4>3. /\ u \in ScanTypes
            /\ u.elements = s.elements /\ u.depth = s.depth /\ u.text = s.text
            /\ u.totalText = s.totalText /\ u.attributeBytes = s.attributeBytes
            /\ u.ids = s.ids /\ u.namespaces = x
            /\ u.namespaceBytes = y /\ u.failure = s.failure
          BY <1>0, <4>2 DEF ScanTypes
      <4> QED BY <4>3 DEF x, y
    <3>3. t = [u EXCEPT !.failure = \/ u.failure
                              \/ u.namespaces > MaxNamespaces
                              \/ e.bytes > MaxNamespaceBytes
                              \/ u.namespaceBytes > MaxTotalNamespaceBytes]
        BY <2>1, Zenon DEF start_ns
    <3> HIDE DEF u, t
    <3>4. t = [u EXCEPT !.failure = f]
        BY <3>2, <3>3, Zenon DEF f
    <3>5. f \in BOOLEAN
        BY DEF f
    <3> HIDE DEF f, e
    <3>6. /\ t \in ScanTypes
          /\ t.elements = u.elements /\ t.depth = u.depth /\ t.text = u.text
          /\ t.totalText = u.totalText /\ t.attributeBytes = u.attributeBytes
          /\ t.ids = u.ids /\ t.namespaces = u.namespaces
          /\ t.namespaceBytes = u.namespaceBytes
          /\ t.failure <=> f
        BY <3>2, <3>4, <3>5, FailureSet
    <3> QED BY <3>2, <3>6
  <2>3. longer = s.text
      BY <1>0, <1>8 DEF ScanTypes
  <2>4. Nested(doc, n) = s.depth
    <3>1. s.depth + 0 - 0 = s.depth
        BY <1>0 DEF ScanTypes
    <3> QED BY <1>2, <1>8, <3>1
  <2>5. Tracked(doc, n, t)
    <3>1. s.elements + 0 = s.elements /\ s.attributeBytes + 0 = s.attributeBytes
          /\ s.totalText + 0 = s.totalText
        BY <1>0 DEF ScanTypes
    <3> HIDE DEF t, longer
    <3> QED BY <1>2, <1>3, <1>4, <1>8, <2>2, <2>3, <2>4, <3>1 DEF Tracked
  <2>6. EventGood(doc, n) <=>
          /\ s.namespaces + 1 <= MaxNamespaces /\ e.bytes <= MaxNamespaceBytes
          /\ s.namespaceBytes + e.bytes <= MaxTotalNamespaceBytes
      BY <1>2, <1>8 DEF EventGood
  <2>7. t.failure <=> s.failure \/ ~EventGood(doc, n)
    <3>1. s.namespaces \in Int /\ s.namespaceBytes \in Int
        BY <1>0 DEF ScanTypes
    <3>2. f <=> s.failure \/ ~EventGood(doc, n)
      <4> HIDE DEF t, e
      <4> QED BY <1>5, <2>6, <3>1, ScannerLimits DEF f
    <3> QED BY <2>2, <3>2
  <2> QED BY <2>5, <2>7
<1>9. CASE e.kind \in {"end", "comment", "pi"}
  <2>1. /\ t \in ScanTypes
        /\ t.elements = s.elements /\ t.depth = s.depth - (IF e.kind = "end" THEN 1 ELSE 0)
        /\ t.text = (IF e.kind = "end" THEN 0 ELSE s.text)
        /\ t.totalText = s.totalText /\ t.attributeBytes = s.attributeBytes
        /\ t.ids = s.ids /\ t.namespaces = s.namespaces
        /\ t.namespaceBytes = s.namespaceBytes
        /\ t.failure <=> s.failure \/ e.kind # "end"
    <3>1. CASE e.kind = "end"
      <4>1. t = end(s, e)
          BY <3>1 DEF Handled
      <4> DEFINE x == s.depth - 1
                 y == 0
      <4>2. t = [s EXCEPT !.depth = x, !.text = y] /\ x \in Int /\ y \in Int
          BY <1>0, <4>1 DEF end, ScanTypes
      <4> HIDE DEF e, t, x, y
      <4>3. /\ t \in ScanTypes
            /\ t.elements = s.elements /\ t.depth = x /\ t.text = y
            /\ t.totalText = s.totalText /\ t.attributeBytes = s.attributeBytes
            /\ t.ids = s.ids /\ t.namespaces = s.namespaces
            /\ t.namespaceBytes = s.namespaceBytes /\ t.failure = s.failure
          BY <1>0, <4>2 DEF ScanTypes
      <4> QED BY <3>1, <4>3 DEF x, y
    <3>2. CASE e.kind # "end"
      <4>1. t = forbidden(s, e)
          BY <1>9, <3>2 DEF Handled
      <4>2. s.depth - 0 = s.depth
          BY <1>0 DEF ScanTypes
      <4> HIDE DEF e, t
      <4> QED BY <1>0, <3>2, <4>1, <4>2 DEF forbidden, ScanTypes
    <3> QED BY <3>1, <3>2
  <2>2. longer = s.text
      BY <1>0, <1>9 DEF ScanTypes
  <2>3. Nested(doc, n) = s.depth - (IF e.kind = "end" THEN 1 ELSE 0)
    <3>1. s.depth \in Int
        BY <1>0 DEF ScanTypes
    <3>2. CASE e.kind = "end"
      <4>1. Nested(doc, n) = s.depth + 0 - 1
          BY <1>2, <3>2
      <4> QED BY <3>1, <3>2, <4>1
    <3>3. CASE e.kind # "end"
      <4>1. Nested(doc, n) = s.depth + 0 - 0
          BY <1>2, <1>9, <3>3
      <4> QED BY <3>1, <3>3, <4>1
    <3> QED BY <3>2, <3>3
  <2>4. Tracked(doc, n, t)
    <3>1. s.elements + 0 = s.elements /\ s.attributeBytes + 0 = s.attributeBytes
          /\ s.totalText + 0 = s.totalText /\ s.namespaces + 0 = s.namespaces
          /\ s.namespaceBytes + 0 = s.namespaceBytes
        BY <1>0 DEF ScanTypes
    <3>2. TextSince(doc, n, t.text)
      <4> HIDE DEF t, longer
      <4> QED BY <1>4, <1>9, <2>1, <2>2
    <3> HIDE DEF t, longer
    <3> QED BY <1>2, <1>3, <1>9, <2>1, <2>3, <3>1, <3>2 DEF Tracked
  <2>5. EventGood(doc, n) <=> e.kind = "end"
      BY <1>9 DEF EventGood
  <2> QED BY <2>1, <2>4, <2>5
<1> QED BY <1>5, <1>6, <1>7, <1>8, <1>9

-----------------------------------------------------------------------------
(* Judged callback by callback, and as a whole. *)

(* The IDs of the elements before callback n, one by one. *)
LEMMA IdOccurs ==
    ASSUME NEW doc \in XmlDocuments, NEW n \in 1..Len(doc.events), NEW id
    PROVE  id \in IdsBefore(doc, n) <=>
               /\ id # NoId
               /\ \E m \in Starts(doc) : m < n /\
                      \E i \in 1..Len(doc.events[m].attributes) :
                          doc.events[m].attributes[i].id = id
<1>1. Len(doc.events) \in Nat /\ \A m \in 1..Len(doc.events) : doc.events[m] \in EventForms
    BY EventsTyped
<1>2. \A m \in Starts(doc) : m \in 1..Len(doc.events) /\ m \in Nat
    BY <1>1 DEF Starts
<1>3. \A m \in Starts(doc) : m < n <=> m \in 1..(n - 1)
    BY <1>1, <1>2
<1>4. ASSUME NEW m \in Starts(doc)
      PROVE  id \in IdsOf(doc.events[m].attributes) <=>
                 /\ id # NoId
                 /\ \E i \in 1..Len(doc.events[m].attributes) :
                        doc.events[m].attributes[i].id = id
  <2> DEFINE at == doc.events[m].attributes
  <2>1. DOMAIN at = 1..Len(at)
    <3>1. doc.events[m] \in EventForms
        BY <1>1, <1>2
    <3>2. at \in Seq([id: STRING \cup {NoId}, bytes: Nat])
        BY <3>1 DEF EventForms
    <3> HIDE DEF at
    <3> QED BY <3>2
  <2> HIDE DEF at
  <2>2. id \in IdsOf(at) <=> id # NoId /\ \E i \in 1..Len(at) : at[i].id = id
      BY <2>1 DEF IdsOf, ToSet
  <2> QED BY <2>2 DEF at
<1>5. id \in IdsBefore(doc, n) <=>
          \E m \in Starts(doc) : m \in 1..(n - 1) /\ id \in IdsOf(doc.events[m].attributes)
    BY DEF IdsBefore
<1> QED BY <1>3, <1>4, <1>5

(* No element repeats an ID exactly if no two attributes share one. *)
LEMMA IdsJudged ==
    ASSUME NEW doc \in XmlDocuments
    PROVE  UniqueIds(doc) <=>
               \A n \in Starts(doc) : ~DuplicateId(IdsBefore(doc, n), doc.events[n].attributes)
<1> DEFINE at(n) == doc.events[n].attributes
<1>0. /\ Len(doc.events) \in Nat
      /\ \A n \in Starts(doc) : n \in 1..Len(doc.events) /\ n \in Nat /\ Len(at(n)) \in Nat
  <2>1. Len(doc.events) \in Nat /\ \A n \in 1..Len(doc.events) : doc.events[n] \in EventForms
      BY EventsTyped
  <2>2. \A n \in Starts(doc) : n \in 1..Len(doc.events) /\ n \in Nat
      BY <2>1 DEF Starts
  <2>3. \A n \in Starts(doc) : Len(at(n)) \in Nat
      BY <2>1, <2>2, AttributesSized
  <2> QED BY <2>1, <2>2, <2>3
<1>1. \A n \in Starts(doc) : \A id :
        id \in IdsBefore(doc, n) <=>
            id # NoId /\ \E m \in Starts(doc) : m < n /\ \E i \in 1..Len(at(m)) : at(m)[i].id = id
    BY <1>0, IdOccurs
<1>2. ASSUME UniqueIds(doc), NEW n \in Starts(doc), DuplicateId(IdsBefore(doc, n), at(n))
      PROVE  FALSE
  <2>1. PICK i \in 1..Len(at(n)) :
          /\ at(n)[i].id # NoId
          /\ \/ at(n)[i].id \in IdsBefore(doc, n)
             \/ \E j \in 1..(i - 1) : at(n)[j].id = at(n)[i].id
      BY <1>2 DEF DuplicateId
  <2>2. CASE at(n)[i].id \in IdsBefore(doc, n)
    <3>3. PICK m \in Starts(doc) : m < n /\ \E k \in 1..Len(at(m)) : at(m)[k].id = at(n)[i].id
        BY <1>1, <2>2
    <3>1. PICK k \in 1..Len(at(m)) : at(m)[k].id = at(n)[i].id
        BY <3>3
    <3>2. m # n
        BY <1>0, <3>3
    <3> QED BY <1>2, <2>1, <3>1, <3>2 DEF UniqueIds
  <2>3. CASE \E j \in 1..(i - 1) : at(n)[j].id = at(n)[i].id
    <3>1. PICK j \in 1..(i - 1) : at(n)[j].id = at(n)[i].id
        BY <2>3
    <3>2. j \in 1..Len(at(n)) /\ j # i
        BY <1>0
    <3> QED BY <1>2, <2>1, <3>1, <3>2 DEF UniqueIds
  <2> QED BY <2>1, <2>2, <2>3
<1>3. ASSUME \A n \in Starts(doc) : ~DuplicateId(IdsBefore(doc, n), at(n)),
             NEW m \in Starts(doc), NEW n \in Starts(doc),
             NEW i \in 1..Len(at(m)), NEW j \in 1..Len(at(n)),
             at(m)[i].id = at(n)[j].id, at(m)[i].id # NoId, ~(m = n /\ i = j)
      PROVE  FALSE
  <2>1. \A k \in Starts(doc) : \A p \in 1..Len(at(k)) : at(k)[p].id # NoId =>
            /\ at(k)[p].id \notin IdsBefore(doc, k)
            /\ \A q \in 1..(p - 1) : at(k)[q].id # at(k)[p].id
      BY <1>3 DEF DuplicateId
  <2>2. CASE m < n
      BY <1>1, <1>3, <2>1, <2>2
  <2>3. CASE n < m
      BY <1>1, <1>3, <2>1, <2>3
  <2>4. CASE m = n
    <3>1. i # j /\ i \in Nat /\ j \in Nat
        BY <1>0, <1>3, <2>4
    <3>2. CASE i < j
      <4>1. i \in 1..(j - 1)
          BY <3>1, <3>2
      <4> QED BY <1>3, <2>1, <2>4, <4>1
    <3>3. CASE j < i
      <4>1. j \in 1..(i - 1)
          BY <3>1, <3>3
      <4> QED BY <1>3, <2>1, <2>4, <4>1
    <3> QED BY <3>1, <3>2, <3>3
  <2> QED BY <1>0, <2>2, <2>3, <2>4
<1>4. ASSUME \A n \in Starts(doc) : ~DuplicateId(IdsBefore(doc, n), at(n))
      PROVE  UniqueIds(doc)
    BY <1>3, <1>4 DEF UniqueIds
<1> QED BY <1>2, <1>4

(* A sum of sizes stays within a limit exactly if it does at each size. *)
LEMMA SumJudged ==
    ASSUME NEW s \in Seq(Nat), NEW M \in Nat
    PROVE  SumOf(s) <= M <=> \A n \in 1..Len(s) : s[n] # 0 => Running(s)[n] <= M
<1>1. /\ Len(s) \in Nat /\ SumOf(s) \in Nat
      /\ \A n \in 0..Len(s) : Running(s)[n] \in Nat /\ Running(s)[n] <= SumOf(s)
    BY SumFacts
<1>2. ASSUME SumOf(s) <= M, NEW n \in 1..Len(s)
      PROVE  Running(s)[n] <= M
  <2>1. n \in 0..Len(s)
      BY <1>1
  <2>2. Running(s)[n] \in Nat /\ Running(s)[n] <= SumOf(s)
      BY <1>1, <2>1
  <2> QED BY <1>1, <1>2, <2>2
<1>3. ASSUME \A n \in 1..Len(s) : s[n] # 0 => Running(s)[n] <= M
      PROVE  SumOf(s) <= M
  <2>1. \A n \in 0..Len(s) : Running(s)[n] <= M
      BY <1>3, RunningBounded
  <2> QED BY <1>1, <2>1 DEF SumOf
<1> QED BY <1>2, <1>3

(* The sums of a document, judged at the callbacks that add to them. *)
LEMMA CountJudged ==
    ASSUME NEW doc \in XmlDocuments, NEW k \in {"start", "start_ns"}, NEW M \in Nat
    PROVE  SumOf(Count(doc, k)) <= M <=>
               \A n \in 1..Len(doc.events) :
                   doc.events[n].kind = k => Running(Count(doc, k))[n] <= M
<1> DEFINE s == Count(doc, k)
<1>1. s \in Seq(Nat) /\ Len(s) = Len(doc.events)
    BY CountsTyped
<1>2. \A n \in 1..Len(doc.events) : s[n] # 0 <=> doc.events[n].kind = k
    BY DEF Count
<1> HIDE DEF s
<1>3. SumOf(s) <= M <=> \A n \in 1..Len(s) : s[n] # 0 => Running(s)[n] <= M
    BY <1>1, SumJudged
<1> QED BY <1>1, <1>2, <1>3 DEF s

(* The sum of the sizes of one kind of callback is judged at these callbacks. *)
LEMMA BytesJudged ==
    ASSUME NEW doc \in XmlDocuments, NEW k \in {"data", "start_ns"}, NEW M \in Nat
    PROVE  SumOf(Bytes(doc, k)) <= M <=>
               \A n \in 1..Len(doc.events) :
                   doc.events[n].kind = k => Running(Bytes(doc, k))[n] <= M
<1> DEFINE s == Bytes(doc, k)
<1>1. s \in Seq(Nat) /\ Len(s) = Len(doc.events)
    BY CountsTyped
<1>2. \A n \in 1..Len(doc.events) : s[n] # 0 => doc.events[n].kind = k
    BY DEF Bytes
<1> HIDE DEF s
<1>3. SumOf(s) <= M <=> \A n \in 1..Len(s) : s[n] # 0 => Running(s)[n] <= M
    BY <1>1, SumJudged
<1>4. SumOf(s) \in Nat /\ \A n \in 1..Len(s) : Running(s)[n] \in Nat /\ Running(s)[n] <= SumOf(s)
  <2>1. SumOf(s) \in Nat /\ \A n \in 0..Len(s) : Running(s)[n] \in Nat /\ Running(s)[n] <= SumOf(s)
      BY <1>1, SumFacts
  <2>2. \A n \in 1..Len(s) : n \in 0..Len(s)
      OBVIOUS
  <2> QED BY <2>1, <2>2
<1>5. SumOf(s) <= M => \A n \in 1..Len(s) : Running(s)[n] <= M
    BY <1>4
<1> QED BY <1>1, <1>2, <1>3, <1>5 DEF s

(* The sum of the sizes of the attributes is judged at the start tags. *)
LEMMA AttributesJudged ==
    ASSUME NEW doc \in XmlDocuments, NEW M \in Nat
    PROVE  SumOf(AttributeSizes(doc)) <= M <=>
               \A n \in 1..Len(doc.events) :
                   doc.events[n].kind = "start" => Running(AttributeSizes(doc))[n] <= M
<1> DEFINE s == AttributeSizes(doc)
<1>1. s \in Seq(Nat) /\ Len(s) = Len(doc.events)
    BY CountsTyped
<1>2. \A n \in 1..Len(doc.events) : s[n] # 0 => doc.events[n].kind = "start"
    BY DEF AttributeSizes
<1> HIDE DEF s
<1>3. SumOf(s) <= M <=> \A n \in 1..Len(s) : s[n] # 0 => Running(s)[n] <= M
    BY <1>1, SumJudged
<1>4. SumOf(s) \in Nat /\ \A n \in 1..Len(s) : Running(s)[n] \in Nat /\ Running(s)[n] <= SumOf(s)
  <2>1. SumOf(s) \in Nat /\ \A n \in 0..Len(s) : Running(s)[n] \in Nat /\ Running(s)[n] <= SumOf(s)
      BY <1>1, SumFacts
  <2>2. \A n \in 1..Len(s) : n \in 0..Len(s)
      OBVIOUS
  <2> QED BY <2>1, <2>2
<1>5. SumOf(s) <= M => \A n \in 1..Len(s) : Running(s)[n] <= M
    BY <1>4
<1> QED BY <1>1, <1>2, <1>3, <1>5 DEF s

(* Nesting is deepest at a start tag. *)
LEMMA DepthJudged ==
    ASSUME NEW doc \in XmlDocuments
    PROVE  (\A n \in 1..Len(doc.events) : Nested(doc, n) <= MaxDepth) <=>
               \A n \in Starts(doc) : Nested(doc, n) <= MaxDepth
<1>0. Len(doc.events) \in Nat /\ MaxDepth \in Nat
    BY EventsTyped, ScannerLimits
<1>1. ASSUME \A n \in Starts(doc) : Nested(doc, n) <= MaxDepth
      PROVE  \A n \in 0..Len(doc.events) : Nested(doc, n) <= MaxDepth
  <2> DEFINE T == {n \in Nat : Nested(doc, n) <= MaxDepth}
  <2>1. 0 \in T
    <3>1. Running(Count(doc, "start"))[0] = 0 /\ Running(Count(doc, "end"))[0] = 0
      <4>1. /\ Count(doc, "start") \in Seq(Nat) /\ Count(doc, "end") \in Seq(Nat)
          BY CountsTyped
      <4> QED BY <4>1, SumFacts
    <3> QED BY <1>0, <3>1 DEF Nested
  <2>2. ASSUME NEW n \in 1..Len(doc.events), n - 1 \in T PROVE n \in T
    <3>1. CASE doc.events[n].kind = "start"
        BY <1>1, <3>1 DEF Starts
    <3>2. CASE doc.events[n].kind # "start"
      <4>1. \A k \in {"start", "end"} :
              /\ Running(Count(doc, k))[n - 1] \in Nat
              /\ Running(Count(doc, k))[n] = Running(Count(doc, k))[n - 1]
                     + (IF doc.events[n].kind = k THEN 1 ELSE 0)
          BY CountsStep
      <4> DEFINE a == Running(Count(doc, "start"))[n - 1]
                 b == Running(Count(doc, "end"))[n - 1]
                 x == IF doc.events[n].kind = "end" THEN 1 ELSE 0
      <4>2. /\ a \in Nat /\ b \in Nat /\ x \in {0, 1}
            /\ Running(Count(doc, "start"))[n] = a + 0
            /\ Running(Count(doc, "end"))[n] = b + x
          BY <3>2, <4>1
      <4>3. a - b <= MaxDepth
          BY <2>2 DEF Nested
      <4> HIDE DEF a, b, x
      <4>4. (a + 0) - (b + x) <= MaxDepth
          BY <1>0, <4>2, <4>3
      <4> QED BY <4>2, <4>4 DEF Nested
    <3> QED BY <3>1, <3>2
  <2> HIDE DEF T
  <2>3. \A n \in 0..Len(doc.events) : n \in T
      BY <1>0, <2>1, <2>2, UpTo
  <2> QED BY <2>3 DEF T
<1>2. \A n \in 1..Len(doc.events) : n \in 0..Len(doc.events)
    BY <1>0
<1>3. \A n \in Starts(doc) : n \in 1..Len(doc.events)
    BY DEF Starts
<1> QED BY <1>1, <1>2, <1>3

(* A text node is longest at its last text. *)
LEMMA TextJudged ==
    ASSUME NEW doc \in XmlDocuments
    PROVE  (\A i, j \in 1..Len(doc.events) :
                i <= j /\ IsTextNode(doc, i, j) => TextBytes(doc, i, j) <= MaxText) <=>
           (\A n \in 1..Len(doc.events) : doc.events[n].kind = "data" =>
                \A i \in 1..n : IsTextNode(doc, i, n) => TextBytes(doc, i, n) <= MaxText)
<1>0. Len(doc.events) \in Nat /\ MaxText \in Nat
    BY EventsTyped, ScannerLimits
<1>1. ASSUME \A n \in 1..Len(doc.events) : doc.events[n].kind = "data" =>
                 \A i \in 1..n : IsTextNode(doc, i, n) => TextBytes(doc, i, n) <= MaxText,
             NEW i \in 1..Len(doc.events), NEW j \in 1..Len(doc.events),
             i <= j, IsTextNode(doc, i, j)
      PROVE  TextBytes(doc, i, j) <= MaxText
  <2> DEFINE T == {n \in Nat : i <= n /\ n <= j => TextBytes(doc, i, n) <= MaxText}
  <2>1. 0 \in T
      OBVIOUS
  <2>2. ASSUME NEW n \in 1..Len(doc.events), n - 1 \in T PROVE n \in T
    <3> SUFFICES ASSUME i <= n, n <= j PROVE TextBytes(doc, i, n) <= MaxText
        BY <1>0
    <3>1. CASE doc.events[n].kind = "data"
      <4>1. IsTextNode(doc, i, n) /\ i \in 1..n
        <5>1. \A k \in i..n : k \in i..j
            BY <1>0
        <5> QED BY <1>1, <5>1 DEF IsTextNode
      <4> QED BY <1>1, <3>1, <4>1
    <3>2. CASE doc.events[n].kind # "data"
      <4> DEFINE R == Running(Bytes(doc, "data"))
      <4>1. R[n - 1] \in Nat /\ R[n] = R[n - 1] + 0
          BY <3>2, CountsStep
      <4>2. R[i - 1] \in Nat
          BY CountsStep
      <4>3. TextBytes(doc, i, n) = R[n] - R[i - 1] /\ TextBytes(doc, i, n - 1) = R[n - 1] - R[i - 1]
          BY DEF TextBytes
      <4> HIDE DEF R
      <4>4. CASE i = n
          BY <1>0, <4>1, <4>2, <4>3, <4>4
      <4>5. CASE i # n
        <5>1. i <= n - 1 /\ n - 1 <= j
            BY <1>0, <4>5
        <5>2. TextBytes(doc, i, n - 1) <= MaxText
            BY <2>2, <5>1
        <5> QED BY <1>0, <4>1, <4>2, <4>3, <5>2
      <4> QED BY <4>4, <4>5
    <3> QED BY <3>1, <3>2
  <2> HIDE DEF T
  <2>3. \A n \in 0..Len(doc.events) : n \in T
      BY <1>0, <2>1, <2>2, UpTo
  <2>4. j \in T
      BY <1>0, <2>3
  <2> QED BY <1>0, <1>1, <2>4 DEF T
<1>2. ASSUME \A i, j \in 1..Len(doc.events) :
                 i <= j /\ IsTextNode(doc, i, j) => TextBytes(doc, i, j) <= MaxText,
             NEW n \in 1..Len(doc.events), NEW i \in 1..n, IsTextNode(doc, i, n)
      PROVE  TextBytes(doc, i, n) <= MaxText
  <2>1. i \in 1..Len(doc.events) /\ i <= n
      BY <1>0
  <2> QED BY <1>2, <2>1
<1> QED BY <1>1, <1>2

(* Every callback is good exactly if the document is as a whole. *)
LEMMA EventsJudged ==
    ASSUME NEW doc \in XmlDocuments
    PROVE  (\A n \in 1..Len(doc.events) : EventGood(doc, n)) <=>
               /\ \A n \in 1..Len(doc.events) : doc.events[n].kind \notin {"comment", "pi"}
               /\ \A n \in Starts(doc) : ~doc.events[n].xinclude
               /\ UniqueIds(doc)
               /\ WithinLimits(doc)
<1> DEFINE N == 1..Len(doc.events)
           Kind(n) == doc.events[n].kind
<1>1. \A n : n \in Starts(doc) <=> n \in N /\ Kind(n) = "start"
    BY DEF Starts
<1>2. WithinLimits(doc) <=>
        /\ \A n \in N : Kind(n) = "start" => Running(Count(doc, "start"))[n] <= MaxElements
        /\ \A n \in N : Kind(n) = "start" => Nested(doc, n) <= MaxDepth
        /\ \A n \in N : Kind(n) = "start" => Len(doc.events[n].attributes) <= MaxAttributes
        /\ \A n \in N : Kind(n) = "start" => Running(AttributeSizes(doc))[n] <= MaxAttributeBytes
        /\ \A n \in N : Kind(n) = "data" =>
               \A i \in 1..n : IsTextNode(doc, i, n) => TextBytes(doc, i, n) <= MaxText
        /\ \A n \in N : Kind(n) = "data" => Running(Bytes(doc, "data"))[n] <= MaxTotalText
        /\ \A n \in N : Kind(n) = "start_ns" => Running(Count(doc, "start_ns"))[n] <= MaxNamespaces
        /\ \A n \in N : Kind(n) = "start_ns" => doc.events[n].bytes <= MaxNamespaceBytes
        /\ \A n \in N : Kind(n) = "start_ns" =>
               Running(Bytes(doc, "start_ns"))[n] <= MaxTotalNamespaceBytes
  <2>1. SumOf(Count(doc, "start")) <= MaxElements <=>
            \A n \in N : Kind(n) = "start" => Running(Count(doc, "start"))[n] <= MaxElements
      BY CountJudged, ScannerLimits
  <2>2. SumOf(Count(doc, "start_ns")) <= MaxNamespaces <=>
            \A n \in N : Kind(n) = "start_ns" => Running(Count(doc, "start_ns"))[n] <= MaxNamespaces
      BY CountJudged, ScannerLimits
  <2>3. SumOf(Bytes(doc, "data")) <= MaxTotalText <=>
            \A n \in N : Kind(n) = "data" => Running(Bytes(doc, "data"))[n] <= MaxTotalText
      BY BytesJudged, ScannerLimits
  <2>4. SumOf(Bytes(doc, "start_ns")) <= MaxTotalNamespaceBytes <=>
            \A n \in N : Kind(n) = "start_ns" =>
                Running(Bytes(doc, "start_ns"))[n] <= MaxTotalNamespaceBytes
      BY BytesJudged, ScannerLimits
  <2>5. SumOf(AttributeSizes(doc)) <= MaxAttributeBytes <=>
            \A n \in N : Kind(n) = "start" => Running(AttributeSizes(doc))[n] <= MaxAttributeBytes
      BY AttributesJudged, ScannerLimits
  <2>6. (\A n \in N : Nested(doc, n) <= MaxDepth) <=>
            \A n \in N : Kind(n) = "start" => Nested(doc, n) <= MaxDepth
      BY <1>1, DepthJudged
  <2>7. (\A i, j \in N : i <= j /\ IsTextNode(doc, i, j) => TextBytes(doc, i, j) <= MaxText) <=>
            \A n \in N : Kind(n) = "data" =>
                \A i \in 1..n : IsTextNode(doc, i, n) => TextBytes(doc, i, n) <= MaxText
      BY TextJudged
  <2>8. (\A n \in Starts(doc) : Len(doc.events[n].attributes) <= MaxAttributes) <=>
            \A n \in N : Kind(n) = "start" => Len(doc.events[n].attributes) <= MaxAttributes
      BY <1>1
  <2> QED BY <2>1, <2>2, <2>3, <2>4, <2>5, <2>6, <2>7, <2>8, Zenon DEF WithinLimits
<1>3. UniqueIds(doc) <=>
        \A n \in N : Kind(n) = "start" => ~DuplicateId(IdsBefore(doc, n), doc.events[n].attributes)
    BY <1>1, IdsJudged
<1>4. (\A n \in Starts(doc) : ~doc.events[n].xinclude)
          <=> \A n \in N : Kind(n) = "start" => ~doc.events[n].xinclude
    BY <1>1
<1> QED BY <1>2, <1>3, <1>4, ZenonT(60) DEF EventGood

-----------------------------------------------------------------------------
(* The counters are right, the remembered failure is the failure of a         *)
(* callback made, and the verdict rests on them.                              *)
ScanInv ==
    /\ xml \in XmlDocuments /\ pos \in 0..Len(xml.events)
    /\ Tracked(xml, pos, scan)
    /\ scan.failure <=> \E m \in 1..pos : ~EventGood(xml, m)
    /\ scanned \in {"scanning", "accepted", "refused"}
    /\ scanned = "accepted" =>
           xml.raw = "utf8" /\ xml.wellFormed /\ pos = Len(xml.events) /\ ~scan.failure
    /\ scanned = "refused" =>
           xml.raw # "utf8" \/ scan.failure \/ ~xml.wellFormed

(* A new scanner has seen nothing. *)
LEMMA NewTracked ==
    ASSUME NEW doc \in XmlDocuments
    PROVE  Tracked(doc, 0, NewScanner) /\ ~NewScanner.failure /\ 0 \in 0..Len(doc.events)
<1>1. Len(doc.events) \in Nat
    BY EventsTyped
<1>2. /\ \A k \in {"start", "end", "start_ns"} : Running(Count(doc, k))[0] = 0
      /\ \A k \in {"data", "start_ns"} : Running(Bytes(doc, k))[0] = 0
      /\ Running(AttributeSizes(doc))[0] = 0
  <2>1. \A k \in {"start", "end", "start_ns"} : Count(doc, k) \in Seq(Nat)
      BY CountsTyped
  <2>2. \A k \in {"data", "start_ns"} : Bytes(doc, k) \in Seq(Nat)
      BY CountsTyped
  <2>3. AttributeSizes(doc) \in Seq(Nat)
      BY CountsTyped
  <2> QED BY <2>1, <2>2, <2>3, SumFacts
<1>3. NewScanner \in ScanTypes
  <2>1. {} \in IdSets
      BY DEF IdSets
  <2> QED BY <2>1 DEF NewScanner, ScanTypes
<1>4. IdsBefore(doc, 0 + 1) = {}
  <2>1. 1..((0 + 1) - 1) = {}
      OBVIOUS
  <2> QED BY <2>1 DEF IdsBefore
<1>5. TextSince(doc, 0, 0)
  <2>1. 0 \in 0..0 /\ (0 + 1)..0 = {} /\ 0 - 0 = 0
      OBVIOUS
  <2> QED BY <1>2, <2>1 DEF TextSince
<1>6. Nested(doc, 0) = 0
    BY <1>2 DEF Nested
<1> QED BY <1>1, <1>2, <1>3, <1>4, <1>5, <1>6 DEF Tracked, NewScanner

(* The invariant holds for a document that is yet to be scanned, the first or *)
(* a later one.                                                               *)
LEMMA ScanStart ==
    ASSUME NEW doc \in XmlDocuments
    PROVE  /\ ScanInit(doc) => ScanInv
           /\ ScanNext(doc) => ScanInv'
<1>1. Tracked(doc, 0, NewScanner) /\ ~NewScanner.failure /\ 0 \in 0..Len(doc.events)
    BY NewTracked
<1>2. \A m \in 1..0 : FALSE
    OBVIOUS
<1>3. ASSUME ScanInit(doc) PROVE ScanInv
  <2>1. xml = doc /\ pos = 0 /\ scan = NewScanner /\ scanned = "scanning"
      BY <1>3 DEF ScanInit
  <2> QED BY <1>1, <1>2, <2>1 DEF ScanInv
<1>4. ASSUME ScanNext(doc) PROVE ScanInv'
  <2>1. xml' = doc /\ pos' = 0 /\ scan' = NewScanner /\ scanned' = "scanning"
      BY <1>4 DEF ScanNext
  <2> QED BY <1>1, <1>2, <2>1 DEF ScanInv
<1> QED BY <1>3, <1>4

(* Every step of the scanner keeps the invariant. *)
LEMMA ScanKept ==
    ScanInv /\ [ScanStep]_scanVars => ScanInv'
<1> SUFFICES ASSUME ScanInv, [ScanStep]_scanVars PROVE ScanInv'
    OBVIOUS
<1>0. Len(xml.events) \in Nat /\ scan.failure \in BOOLEAN /\ xml.wellFormed \in BOOLEAN
    BY EventsTyped DEF ScanInv, Tracked, ScanTypes
<1>1. CASE RefuseRaw
    BY <1>1 DEF RefuseRaw, ScanInv
<1>2. CASE Propagate
    BY <1>2 DEF Propagate, ScanInv
<1>3. CASE Close
    BY <1>0, <1>3 DEF Close, ScanInv
<1>4. CASE Callback
  <2> DEFINE n == pos + 1
  <2>1. n \in 1..Len(xml.events) /\ n - 1 = pos /\ xml \in XmlDocuments /\ pos \in Nat
      BY <1>0, <1>4 DEF ScanInv, Callback
  <2>2. scan' = Handled(scan, xml.events[n]) /\ pos' = n /\ xml' = xml /\ scanned' = "scanning"
        /\ scanned = "scanning"
      BY <1>4 DEF Callback, Handled
  <2>3. Tracked(xml, n - 1, scan)
      BY <2>1 DEF ScanInv
  <2> HIDE DEF n
  <2>4. Tracked(xml, n, scan') /\ (scan'.failure <=> scan.failure \/ ~EventGood(xml, n))
      BY <2>1, <2>2, <2>3, HandledStep
  <2>5. scan.failure <=> \E m \in 1..(n - 1) : ~EventGood(xml, m)
      BY <2>1 DEF ScanInv
  <2>6. n \in 1..n /\ \A m \in 1..n : m \in 1..(n - 1) \/ m = n
      BY <2>1
  <2>7. \A m \in 1..(n - 1) : m \in 1..n
      BY <2>1
  <2>8. scan'.failure <=> \E m \in 1..n : ~EventGood(xml, m)
      BY <2>4, <2>5, <2>6, <2>7
  <2>9. n \in 0..Len(xml.events)
      BY <2>1
  <2> QED BY <2>1, <2>2, <2>4, <2>8, <2>9 DEF ScanInv
<1>5. CASE UNCHANGED scanVars
    BY <1>5 DEF scanVars, ScanInv
<1> QED BY <1>1, <1>2, <1>3, <1>4, <1>5 DEF ScanStep

(* The scan's verdict is the one about the whole document. *)
LEMMA ScanJudges ==
    ScanInv => XmlVerdictExact
<1> SUFFICES ASSUME ScanInv, scanned # "scanning"
             PROVE  scanned = "accepted" <=> Harmless(xml) /\ WithinLimits(xml)
    BY DEF XmlVerdictExact
<1> DEFINE good == \A n \in 1..Len(xml.events) : EventGood(xml, n)
<1>1. Harmless(xml) /\ WithinLimits(xml) <=> xml.raw = "utf8" /\ xml.wellFormed /\ good
  <2>1. good <=>
            /\ \A n \in 1..Len(xml.events) : xml.events[n].kind \notin {"comment", "pi"}
            /\ \A n \in Starts(xml) : ~xml.events[n].xinclude
            /\ UniqueIds(xml)
            /\ WithinLimits(xml)
      BY EventsJudged DEF ScanInv
  <2> HIDE DEF good
  <2> QED BY <2>1, Zenon DEF Harmless
<1>2. CASE scanned = "accepted"
    BY <1>1, <1>2 DEF ScanInv
<1>3. CASE scanned = "refused"
  <2>1. Len(xml.events) \in Nat /\ pos \in 0..Len(xml.events)
      BY EventsTyped DEF ScanInv
  <2>2. \A m \in 1..pos : m \in 1..Len(xml.events)
      BY <2>1
  <2>3. scan.failure => ~good
      BY <2>2 DEF ScanInv
  <2> QED BY <1>1, <1>3, <2>3 DEF ScanInv
<1> QED BY <1>2, <1>3 DEF ScanInv

-----------------------------------------------------------------------------
(* The envelope. *)

(* The outermost marked nodes of a response. *)
OutermostMarked(r) ==
    {n \in Elements(r) : Marked(r, n) /\ (n \in {"DataEncryptionInfo", "OrderData"} =>
                                              ~Marked(r, "DataTransfer"))}

(* A signature is over these nodes with their contents, whatever their order. *)
LEMMA SignedNodes ==
    ASSUME NEW r \in ResponseForms
    PROVE  ToSet(Signed(r)) = {<<n, Canonical(r, n)>> : n \in OutermostMarked(r)}
<1> DEFINE A == {<<n, Canonical(r, n)>> : n \in MarkedNodes}
           parts == [i \in 1..Len(r.body) |-> Part(r, r.body[i])]
           leaves == [i \in 1..Len(r.transfer) |-> Leaf(r, r.transfer[i])]
<1>1. /\ r.body \in Seq({"DataTransfer", "ReturnCode", "TimestampBankParameter"})
      /\ r.transfer \in Seq({"DataEncryptionInfo", "OrderData"})
    BY DEF ResponseForms
<1>2. /\ Len(r.body) \in Nat /\ Len(r.transfer) \in Nat
      /\ \A i \in 1..Len(r.body) :
             r.body[i] \in {"DataTransfer", "ReturnCode", "TimestampBankParameter"}
      /\ \A i \in 1..Len(r.transfer) : r.transfer[i] \in {"DataEncryptionInfo", "OrderData"}
      /\ ToSet(r.body) = {r.body[i] : i \in 1..Len(r.body)}
      /\ ToSet(r.transfer) = {r.transfer[i] : i \in 1..Len(r.transfer)}
    BY <1>1 DEF ToSet
<1>3. ASSUME NEW n \in MarkedNodes
      PROVE  /\ Leaf(r, n) \in Seq(A)
             /\ ToSet(Leaf(r, n)) = IF Marked(r, n) THEN {<<n, Canonical(r, n)>>} ELSE {}
  <2> DEFINE pair == <<n, Canonical(r, n)>>
  <2>1. pair \in A
      OBVIOUS
  <2>2. Leaf(r, n) = IF Marked(r, n) THEN <<pair>> ELSE <<>>
      BY DEF Leaf
  <2> HIDE DEF pair, A
  <2>3. <<pair>> \in Seq(A) /\ ToSet(<<pair>>) = {pair}
      BY <2>1 DEF ToSet
  <2>4. <<>> \in Seq(A) /\ ToSet(<<>>) = {}
      BY DEF ToSet
  <2> QED BY <2>2, <2>3, <2>4 DEF pair
<1> HIDE DEF A
<1>4. /\ FlattenSeq(leaves) \in Seq(A)
      /\ ToSet(FlattenSeq(leaves)) =
             {<<n, Canonical(r, n)>> : n \in {m \in ToSet(r.transfer) : Marked(r, m)}}
  <2>1. \A i \in 1..Len(r.transfer) : /\ leaves[i] = Leaf(r, r.transfer[i])
                                      /\ r.transfer[i] \in MarkedNodes
      BY <1>2 DEF MarkedNodes
  <2>2. leaves \in [1..Len(r.transfer) -> Seq(A)]
      BY <1>3, <2>1
  <2>3. DOMAIN leaves = 1..Len(r.transfer)
      OBVIOUS
  <2> HIDE DEF leaves
  <2>4. leaves \in Seq(Seq(A)) /\ Len(leaves) = Len(r.transfer)
      BY <1>2, <2>2, SequenceOf
  <2>5. /\ FlattenSeq(leaves) \in Seq(A)
        /\ ToSet(FlattenSeq(leaves)) = UNION {ToSet(leaves[i]) : i \in 1..Len(r.transfer)}
      BY <2>4, FlattenElements
  <2>6. \A i \in 1..Len(r.transfer) :
            ToSet(leaves[i]) = IF Marked(r, r.transfer[i])
                               THEN {<<r.transfer[i], Canonical(r, r.transfer[i])>>} ELSE {}
      BY <1>3, <2>1
  <2>7. UNION {ToSet(leaves[i]) : i \in 1..Len(r.transfer)}
            = {<<n, Canonical(r, n)>> : n \in {m \in ToSet(r.transfer) : Marked(r, m)}}
    <3>1. ASSUME NEW x \in UNION {ToSet(leaves[i]) : i \in 1..Len(r.transfer)}
          PROVE  x \in {<<n, Canonical(r, n)>> : n \in {m \in ToSet(r.transfer) : Marked(r, m)}}
      <4>1. PICK i \in 1..Len(r.transfer) : x \in ToSet(leaves[i])
          OBVIOUS
      <4>2. Marked(r, r.transfer[i]) /\ x = <<r.transfer[i], Canonical(r, r.transfer[i])>>
          BY <2>6, <4>1
      <4>3. r.transfer[i] \in ToSet(r.transfer)
          BY <1>2
      <4> QED BY <4>2, <4>3
    <3>2. ASSUME NEW n \in ToSet(r.transfer), Marked(r, n)
          PROVE  <<n, Canonical(r, n)>> \in UNION {ToSet(leaves[i]) : i \in 1..Len(r.transfer)}
      <4>1. PICK i \in 1..Len(r.transfer) : n = r.transfer[i]
          BY <1>2
      <4>2. <<n, Canonical(r, n)>> \in ToSet(leaves[i])
          BY <2>6, <3>2, <4>1
      <4> QED BY <4>2
    <3> QED BY <3>1, <3>2
  <2> QED BY <2>5, <2>7
<1> DEFINE Pairs(S) == {<<n, Canonical(r, n)>> : n \in S}
           In(n) == IF n # "DataTransfer" \/ Marked(r, n)
                    THEN IF Marked(r, n) THEN {n} ELSE {}
                    ELSE {m \in ToSet(r.transfer) : Marked(r, m)}
<1>5. ASSUME NEW n \in {"DataTransfer", "ReturnCode", "TimestampBankParameter"}
      PROVE  Part(r, n) \in Seq(A) /\ ToSet(Part(r, n)) = Pairs(In(n))
  <2>1. n \in MarkedNodes
      BY DEF MarkedNodes
  <2>2. CASE n # "DataTransfer" \/ Marked(r, n)
    <3>1. Part(r, n) = Leaf(r, n)
        BY <2>2 DEF Part
    <3>2. Pairs(In(n)) = IF Marked(r, n) THEN {<<n, Canonical(r, n)>>} ELSE {}
        BY <2>2
    <3> QED BY <1>3, <2>1, <3>1, <3>2
  <2>3. CASE ~(n # "DataTransfer" \/ Marked(r, n))
    <3>1. Part(r, n) = FlattenSeq(leaves)
        BY <2>3 DEF Part
    <3> QED BY <1>4, <2>3, <3>1
  <2> QED BY <2>2, <2>3
<1>6. /\ FlattenSeq(parts) \in Seq(A)
      /\ ToSet(FlattenSeq(parts)) = UNION {Pairs(In(n)) : n \in ToSet(r.body)}
  <2>1. \A i \in 1..Len(r.body) : parts[i] = Part(r, r.body[i])
      OBVIOUS
  <2>2. parts \in [1..Len(r.body) -> Seq(A)]
      BY <1>2, <1>5, <2>1
  <2>3. \A i \in 1..Len(r.body) : ToSet(parts[i]) = Pairs(In(r.body[i]))
      BY <1>2, <1>5, <2>1
  <2> HIDE DEF parts, Pairs, In
  <2>4. parts \in Seq(Seq(A)) /\ Len(parts) = Len(r.body)
      BY <1>2, <2>2, SequenceOf
  <2>5. /\ FlattenSeq(parts) \in Seq(A)
        /\ ToSet(FlattenSeq(parts)) = UNION {ToSet(parts[i]) : i \in 1..Len(r.body)}
      BY <2>4, FlattenElements
  <2>6. {ToSet(parts[i]) : i \in 1..Len(r.body)} = {Pairs(In(n)) : n \in ToSet(r.body)}
      BY <1>2, <2>3
  <2> QED BY <2>5, <2>6
<1>7. ToSet(Signed(r)) = ToSet(Leaf(r, "header")) \cup ToSet(FlattenSeq(parts))
  <2>1. Leaf(r, "header") \in Seq(A)
      BY <1>3 DEF MarkedNodes
  <2> DEFINE h == Leaf(r, "header")
             f == FlattenSeq(parts)
  <2>2. Signed(r) = h \o f
      BY DEF Signed
  <2>3. h \in Seq(A) /\ f \in Seq(A)
      BY <1>6, <2>1
  <2> HIDE DEF h, f
  <2>4. ToSet(h \o f) = ToSet(h) \cup ToSet(f)
      BY <2>3, ConcatElements
  <2> QED BY <2>2, <2>4 DEF h, f
<1>8. ToSet(Leaf(r, "header")) = Pairs(IF Marked(r, "header") THEN {"header"} ELSE {})
    BY <1>3 DEF MarkedNodes
<1>9. OutermostMarked(r) = (IF Marked(r, "header") THEN {"header"} ELSE {})
                               \cup UNION {In(n) : n \in ToSet(r.body)}
  <2>1. ToSet(r.body) \subseteq {"DataTransfer", "ReturnCode", "TimestampBankParameter"}
        /\ ToSet(r.transfer) \subseteq {"DataEncryptionInfo", "OrderData"}
      BY <1>2
  <2> QED BY <2>1 DEF OutermostMarked, Elements, Has
<1>10. UNION {Pairs(In(n)) : n \in ToSet(r.body)} = Pairs(UNION {In(n) : n \in ToSet(r.body)})
  <2> HIDE DEF In
  <2> QED OBVIOUS
<1>11. \A S, T : Pairs(S \cup T) = Pairs(S) \cup Pairs(T)
    OBVIOUS
<1>12. Pairs(OutermostMarked(r)) =
           Pairs(IF Marked(r, "header") THEN {"header"} ELSE {})
               \cup Pairs(UNION {In(n) : n \in ToSet(r.body)})
  <2> HIDE DEF Pairs, In
  <2> QED BY <1>9, <1>11
<1> HIDE DEF In
<1> QED BY <1>6, <1>7, <1>8, <1>10, <1>12

(* Two responses under one signature have the same outermost marked nodes     *)
(* with the same contents.                                                    *)
LEMMA OneSignature ==
    ASSUME NEW r \in ResponseForms, NEW o \in ResponseForms, Signed(o) = Signed(r)
    PROVE  /\ OutermostMarked(o) = OutermostMarked(r)
           /\ \A n \in OutermostMarked(r) : Canonical(o, n) = Canonical(r, n)
<1>1. {<<n, Canonical(r, n)>> : n \in OutermostMarked(r)}
          = {<<n, Canonical(o, n)>> : n \in OutermostMarked(o)}
    BY SignedNodes
<1>2. ASSUME NEW n \in OutermostMarked(r)
      PROVE  n \in OutermostMarked(o) /\ Canonical(o, n) = Canonical(r, n)
  <2>1. PICK m \in OutermostMarked(o) : <<n, Canonical(r, n)>> = <<m, Canonical(o, m)>>
      BY <1>1
  <2> QED BY <2>1
<1>3. ASSUME NEW n \in OutermostMarked(o)
      PROVE  n \in OutermostMarked(r)
  <2>1. PICK m \in OutermostMarked(r) : <<n, Canonical(o, n)>> = <<m, Canonical(r, m)>>
      BY <1>1
  <2> QED BY <2>1
<1> QED BY <1>2, <1>3

(* What an accepted signature says of the original it was made for. *)
LEMMA SignedFields ==
    ASSUME NEW d \in Deliveries, ParseH005(d.response),
           VerifyX002(d.response, Signature(d))
    PROVE  /\ d.key = PinnedKey
           /\ Canonical(d.original, "header") = Canonical(d.response, "header")
           /\ d.original.val.business = d.response.val.business
           /\ SignedStamp(d.original) = Stamp(d.response)
           /\ /\ d.response.transfer = <<"DataEncryptionInfo", "OrderData">>
              /\ Has(d.response.body, "DataTransfer")
              /\ Marked(d.response, "DataEncryptionInfo")
              => /\ d.original.val.key = d.response.val.key
                 /\ d.original.val.recipient = d.response.val.recipient
<1> DEFINE r == d.response
           o == d.original
<1>1. r \in ResponseForms /\ o \in ResponseForms
    BY DEF Deliveries
<1>2. d.key = PinnedKey /\ Signed(o) = Signed(r)
    BY DEF VerifyX002, Signature
<1>3. /\ Marked(r, "header") /\ Marked(r, "ReturnCode")
      /\ Has(r.body, "TimestampBankParameter") => Marked(r, "TimestampBankParameter")
      /\ Has(r.body, "DataTransfer") => ~Marked(r, "DataTransfer")
      /\ r.body \in ValidBody
    BY DEF ParseH005, BodyAuthenticated, CommonValues, Marked
<1> HIDE DEF r, o
<1>4. /\ OutermostMarked(o) = OutermostMarked(r)
      /\ \A n \in OutermostMarked(r) : Canonical(o, n) = Canonical(r, n)
    BY <1>1, <1>2, OneSignature
<1>5. "header" \in OutermostMarked(r)
    BY <1>3 DEF OutermostMarked, Elements
<1>6. "ReturnCode" \in OutermostMarked(r)
  <2>1. \A b \in ValidBody : "ReturnCode" \in ToSet(b)
    <3>1. /\ ToSet(<<"ReturnCode">>) = {"ReturnCode"}
          /\ ToSet(<<"ReturnCode", "TimestampBankParameter">>)
                 = {"ReturnCode", "TimestampBankParameter"}
          /\ ToSet(<<"DataTransfer", "ReturnCode">>) = {"DataTransfer", "ReturnCode"}
          /\ ToSet(<<"DataTransfer", "ReturnCode", "TimestampBankParameter">>)
                 = {"DataTransfer", "ReturnCode", "TimestampBankParameter"}
        BY DEF ToSet
    <3> QED BY <3>1 DEF ValidBody
  <2> QED BY <1>3, <2>1 DEF OutermostMarked, Elements
<1>7. /\ Canonical(r, "ReturnCode") = <<r.val.business>>
      /\ Canonical(o, "ReturnCode") = <<o.val.business>>
      /\ Canonical(r, "TimestampBankParameter") = <<r.val.stamp>>
      /\ Canonical(o, "TimestampBankParameter") = <<o.val.stamp>>
      /\ Canonical(r, "DataEncryptionInfo") = <<r.val.algorithm, r.val.recipient, r.val.key>>
      /\ Canonical(o, "DataEncryptionInfo") = <<o.val.algorithm, o.val.recipient, o.val.key>>
    BY DEF Canonical
<1>8. o.val.business = r.val.business
    BY <1>4, <1>6, <1>7
<1>9. SignedStamp(o) = Stamp(r)
  <2>1. ASSUME NEW x \in ResponseForms
        PROVE  "TimestampBankParameter" \in OutermostMarked(x) <=>
                   Has(x.body, "TimestampBankParameter") /\ Marked(x, "TimestampBankParameter")
    <3>1. x.transfer \in Seq({"DataEncryptionInfo", "OrderData"})
        BY DEF ResponseForms
    <3>2. "TimestampBankParameter" \notin ToSet(x.transfer)
        BY <3>1 DEF ToSet
    <3> QED BY <3>2 DEF OutermostMarked, Elements, Has
  <2>2. "TimestampBankParameter" \in OutermostMarked(r) => o.val.stamp = r.val.stamp
      BY <1>4, <1>7
  <2> QED BY <1>1, <1>3, <1>4, <2>1, <2>2 DEF SignedStamp, Stamp
<1>10. ASSUME r.transfer = <<"DataEncryptionInfo", "OrderData">>, Has(r.body, "DataTransfer"),
              Marked(r, "DataEncryptionInfo")
       PROVE  o.val.key = r.val.key /\ o.val.recipient = r.val.recipient
  <2>1. "DataEncryptionInfo" \in ToSet(r.transfer)
      BY <1>10 DEF ToSet
  <2>2. "DataEncryptionInfo" \in OutermostMarked(r)
      BY <1>3, <1>10, <2>1 DEF OutermostMarked, Elements
  <2> QED BY <1>4, <1>7, <2>2
<1> QED BY <1>2, <1>4, <1>5, <1>8, <1>9, <1>10 DEF r, o

(* The fields of the header. *)
LEMMA HeaderFields ==
    ASSUME NEW r, NEW o, Canonical(o, "header") = Canonical(r, "header")
    PROVE  /\ o.static = r.static /\ o.mutable = r.mutable
           /\ o.val.phase = r.val.phase /\ o.val.technical = r.val.technical
           /\ Has(r.static, "TransactionID") => o.val.txn = r.val.txn
           /\ Has(r.static, "NumSegments") => o.val.total = r.val.total
           /\ Has(r.mutable, "SegmentNumber") =>
                  o.val.segment = r.val.segment /\ o.val.last = r.val.last
<1> DEFINE HeaderOf(x) == <<x.static, x.mutable, x.val.phase,
                           IF Has(x.static, "TransactionID") THEN x.val.txn ELSE "absent",
                           IF Has(x.static, "NumSegments") THEN x.val.total ELSE 0,
                           IF Has(x.mutable, "SegmentNumber") THEN <<x.val.segment, x.val.last>>
                                                              ELSE <<0, FALSE>>,
                           x.val.technical>>
<1>1. Canonical(o, "header") = HeaderOf(o) /\ Canonical(r, "header") = HeaderOf(r)
    BY DEF Canonical
<1>2. HeaderOf(o) = HeaderOf(r)
    BY <1>1
<1>3. o.static = r.static /\ o.mutable = r.mutable /\ o.val.phase = r.val.phase
      /\ o.val.technical = r.val.technical
    BY <1>2
<1>4. (IF Has(o.static, "TransactionID") THEN o.val.txn ELSE "absent")
          = (IF Has(r.static, "TransactionID") THEN r.val.txn ELSE "absent")
    BY <1>2
<1>5. (IF Has(o.static, "NumSegments") THEN o.val.total ELSE 0)
          = (IF Has(r.static, "NumSegments") THEN r.val.total ELSE 0)
    BY <1>2
<1>6. (IF Has(o.mutable, "SegmentNumber") THEN <<o.val.segment, o.val.last>> ELSE <<0, FALSE>>)
          = (IF Has(r.mutable, "SegmentNumber") THEN <<r.val.segment, r.val.last>>
                                                ELSE <<0, FALSE>>)
    BY <1>2
<1> HIDE DEF HeaderOf
<1>7. Has(r.static, "TransactionID") => o.val.txn = r.val.txn
    BY <1>3, <1>4
<1>8. Has(r.static, "NumSegments") => o.val.total = r.val.total
    BY <1>3, <1>5
<1>9. Has(r.mutable, "SegmentNumber") =>
          <<o.val.segment, o.val.last>> = <<r.val.segment, r.val.last>>
    BY <1>3, <1>6
<1>10. Has(r.mutable, "SegmentNumber") =>
          o.val.segment = r.val.segment /\ o.val.last = r.val.last
    BY <1>9
<1> QED BY <1>3, <1>7, <1>8, <1>10

(* What the parsers take from a response is signed in its original. *)
LEMMA ParsedIsSigned ==
    ASSUME delivery \in Deliveries, delivery.request.purpose # "versions",
           outcome = Parse(delivery.response, Signature(delivery), delivery.request)
    PROVE  OutcomeIsSigned
<1> DEFINE r == delivery.response
           o == delivery.original
           q == delivery.request
<1>1. CASE ~ParseH005(r) \/ ~VerifyX002(r, Signature(delivery))
  <2>1. outcome = [kind |-> "refused"]
      BY <1>1 DEF Parse, Refused
  <2> QED BY <2>1 DEF OutcomeIsSigned
<1>2. CASE ParseH005(r) /\ VerifyX002(r, Signature(delivery))
  <2>1. /\ delivery.key = PinnedKey
        /\ Canonical(o, "header") = Canonical(r, "header")
        /\ o.val.business = r.val.business
        /\ SignedStamp(o) = Stamp(r)
        /\ /\ r.transfer = <<"DataEncryptionInfo", "OrderData">>
           /\ Has(r.body, "DataTransfer") /\ Marked(r, "DataEncryptionInfo")
           => o.val.key = r.val.key /\ o.val.recipient = r.val.recipient
      BY <1>2, SignedFields
  <2>2. /\ o.val.phase = r.val.phase /\ o.val.technical = r.val.technical
        /\ Has(r.static, "TransactionID") => o.val.txn = r.val.txn
        /\ Has(r.static, "NumSegments") => o.val.total = r.val.total
        /\ Has(r.mutable, "SegmentNumber") =>
               o.val.segment = r.val.segment /\ o.val.last = r.val.last
      BY <2>1, HeaderFields
  <2>3. /\ Has(<<"TransactionID", "NumSegments">>, "TransactionID")
        /\ Has(<<"TransactionID", "NumSegments">>, "NumSegments")
        /\ Has(<<"TransactionID">>, "TransactionID")
        /\ Has(WithSegment, "SegmentNumber")
        /\ Has(<<"DataTransfer", "ReturnCode">>, "DataTransfer")
        /\ Has(<<"DataTransfer", "ReturnCode", "TimestampBankParameter">>, "DataTransfer")
      BY DEF Has, ToSet, WithSegment
  <2>4. q.purpose \in {"initial", "transfer", "receipt"} /\ r.val.last \in BOOLEAN
        /\ q.receipt \in {"positive", "negative"}
      BY DEF Deliveries, ResponseForms
  <2>5. CASE outcome = Refused
      BY <2>5 DEF Refused, OutcomeIsSigned
  <2>6. CASE outcome = Rejected(r)
    <3>1. /\ outcome.kind = "rejected" /\ outcome.technical = r.val.technical
          /\ outcome.business = r.val.business
        BY <2>6 DEF Rejected
    <3> QED BY <2>1, <2>2, <3>1 DEF OutcomeIsSigned
  <2>7. CASE q.purpose = "initial" /\ outcome \notin {Refused, Rejected(r)}
    <3>1. outcome = InitialOutcome(r, q)
        BY <1>2, <2>7 DEF Parse
    <3>2. /\ Successful(r)
          /\ r.static = <<"TransactionID", "NumSegments">> /\ r.mutable = WithSegment
          /\ r.val.phase = "Initialisation"
          /\ DataBody(r, TRUE) /\ r.transfer = <<"DataEncryptionInfo", "OrderData">>
          /\ EncryptionInfo(r) /\ KeyUnwrapped(r)
          /\ outcome = [kind |-> "initial", txn |-> r.val.txn, total |-> r.val.total,
                        key |-> r.val.key, stamp |-> Stamp(r)]
        BY <2>7, <3>1 DEF InitialOutcome
    <3>3. Has(r.body, "DataTransfer") /\ Marked(r, "DataEncryptionInfo")
        BY <2>3, <3>2 DEF DataBody, EncryptionInfo
    <3>4. /\ outcome.kind = "initial" /\ outcome.txn = r.val.txn /\ outcome.total = r.val.total
          /\ outcome.key = r.val.key /\ outcome.stamp = Stamp(r)
        BY <3>2
    <3>5. /\ o.val.phase = "Initialisation" /\ o.val.txn = r.val.txn
          /\ o.val.total = r.val.total /\ o.val.key = r.val.key /\ o.val.recipient = OwnDigest
          /\ o.val.technical = "000000" /\ o.val.business = "000000"
        BY <2>1, <2>2, <2>3, <3>2, <3>3 DEF Successful, KeyUnwrapped
    <3> QED BY <2>1, <3>4, <3>5 DEF OutcomeIsSigned
  <2>8. CASE q.purpose = "transfer" /\ outcome \notin {Refused, Rejected(r)}
    <3>1. outcome = TransferOutcome(r, q)
        BY <1>2, <2>8 DEF Parse
    <3>2. /\ Successful(r)
          /\ r.static = <<"TransactionID">> /\ r.mutable = WithSegment
          /\ r.val.txn = q.txn /\ r.val.phase = "Transfer"
          /\ SegmentIs(r, q.segment, q.segment = q.total)
          /\ outcome = [kind |-> "transfer", txn |-> r.val.txn, segment |-> r.val.segment]
        BY <2>8, <3>1 DEF TransferOutcome
    <3>3. outcome.kind = "transfer"
        BY <3>2
    <3>4. /\ o.val.phase = "Transfer" /\ o.val.txn = q.txn /\ o.val.segment = q.segment
          /\ o.val.last <=> q.segment = q.total
          /\ o.val.technical = "000000" /\ o.val.business = "000000"
        BY <2>1, <2>2, <2>3, <2>4, <3>2 DEF Successful, SegmentIs
    <3> QED BY <2>1, <3>3, <3>4 DEF OutcomeIsSigned
  <2>9. CASE q.purpose = "receipt" /\ outcome \notin {Refused, Rejected(r)}
    <3>1. outcome = ReceiptOutcome(r, q)
        BY <1>2, <2>9 DEF Parse
    <3>2. /\ r.val.technical = ReceiptCode[q.receipt]
          /\ r.static = <<"TransactionID">> /\ r.val.txn = q.txn /\ r.val.phase = "Receipt"
          /\ outcome = [kind |-> "receipt", txn |-> r.val.txn, receipt |-> q.receipt]
        BY <2>9, <3>1 DEF ReceiptOutcome
    <3>3. outcome.kind = "receipt"
        BY <3>2
    <3>4. /\ o.val.phase = "Receipt" /\ o.val.txn = q.txn
          /\ o.val.technical = ReceiptCode[q.receipt]
        BY <2>2, <2>3, <3>2
    <3> QED BY <2>1, <3>3, <3>4 DEF OutcomeIsSigned
  <2> QED BY <2>4, <2>5, <2>6, <2>7, <2>8, <2>9
<1> QED BY <1>1, <1>2

-----------------------------------------------------------------------------
(* Customer data. *)

(* The services of BTD, in the list and in the bank's orders. *)
LEMMA BtdServicesElements ==
    ASSUME NEW info \in CustomerForms
    PROVE  ToSet(BtdServices(info)) =
               {o.service : o \in {x \in ToSet(info.orders) : x.order = "BTD"}}
<1> DEFINE F == [order: STRING, service: Services \cup {NoService}]
           S == {o \in ToSet(info.orders) : o.order = "BTD"}
           btd == Keep(info.orders, S)
<1>1. info.orders \in Seq(F)
    BY DEF CustomerForms
<1> HIDE DEF F
<1>2. btd \in Seq(F) /\ ToSet(btd) = ToSet(info.orders) \cap S
  <2> DEFINE s == info.orders
  <2>1. s \in Seq(F)
      BY <1>1
  <2> HIDE DEF s, S
  <2>2. Keep(s, S) \in Seq(F) /\ ToSet(Keep(s, S)) = ToSet(s) \cap S
      BY <2>1, KeepElements
  <2> QED BY <2>2 DEF s
<1>3. BtdServices(info) = [i \in 1..Len(btd) |-> btd[i].service]
    BY DEF BtdServices
<1> HIDE DEF btd
<1>4. DOMAIN btd = 1..Len(btd) /\ Len(btd) \in Nat
    BY <1>2
<1>5. ToSet(BtdServices(info)) = {btd[i].service : i \in 1..Len(btd)}
    BY <1>3 DEF ToSet
<1>6. {btd[i].service : i \in 1..Len(btd)} = {o.service : o \in ToSet(btd)}
    BY <1>4 DEF ToSet
<1> QED BY <1>2, <1>5, <1>6

(* _parse_customer_information changes no right. *)
LEMMA InformationKeepsRights ==
    ASSUME NEW info \in CustomerForms
    PROVE  RightsKept(info, CustomerInformation(info))
<1> DEFINE accounts == [i \in 1..Len(info.accounts) |-> Projected(info, info.accounts[i])]
           users == [i \in 1..Len(info.users) |->
                        [id |-> info.users[i].id,
                         permissions |-> BtdPermissions(info.users[i])]]
           answer == [kind |-> "customer", accounts |-> accounts,
                      services |-> BtdServices(info), users |-> users]
<1>1. CASE CustomerInformation(info) = NoInformation
    BY <1>1 DEF RightsKept, NoInformation
<1>2. CASE CustomerInformation(info) # NoInformation
  <2>1. /\ CustomerInformation(info) = answer
        /\ Requester \in {u.id : u \in ToSet(info.users)}
        /\ InformationAccepted(info.source, accounts, BtdServices(info), users)
      BY <1>2, Zenon DEF CustomerInformation
  <2>2. answer.accounts = accounts /\ answer.services = BtdServices(info)
        /\ answer.users = users
      OBVIOUS
  <2>3. ASSUME NEW i \in 1..Len(info.accounts)
        PROVE  UsableInResult(answer, answer.accounts[i])
                   = UsableForBtd(info, info.accounts[i])
    <3> DEFINE a == info.accounts[i]
               btd == ToSet(BtdServices(info))
    <3>1. btd = {o.service : o \in {x \in ToSet(info.orders) : x.order = "BTD"}}
        BY BtdServicesElements
    <3>2. a.restrictions \in Seq(Services) \cup {Unrestricted}
      <4>1. info.accounts \in Seq([id: STRING,
                restrictions: Seq(Services) \cup {Unrestricted}, wellFormed: BOOLEAN])
          BY DEF CustomerForms
      <4>2. a \in [id: STRING, restrictions: Seq(Services) \cup {Unrestricted},
                   wellFormed: BOOLEAN]
          BY <4>1, ElementTyped
      <4> QED BY <4>2
    <3>3. answer.accounts[i].restrictions =
              IF a.restrictions = Unrestricted THEN Unrestricted ELSE Keep(a.restrictions, btd)
        BY <2>2 DEF Projected
    <3>4. UsableForBtd(info, a) =
              IF a.restrictions = Unrestricted THEN btd ELSE ToSet(a.restrictions) \cap btd
        BY <3>1, Zenon DEF UsableForBtd
    <3>5. UsableInResult(answer, answer.accounts[i]) =
              IF answer.accounts[i].restrictions = Unrestricted THEN btd
              ELSE ToSet(answer.accounts[i].restrictions)
        BY <2>2 DEF UsableInResult
    <3> HIDE DEF a, btd, answer
    <3>6. CASE a.restrictions = Unrestricted
        BY <3>3, <3>4, <3>5, <3>6 DEF a
    <3>7. CASE a.restrictions # Unrestricted
      <4> DEFINE s == a.restrictions
      <4>1. s \in Seq(Services)
          BY <3>2, <3>7
      <4> HIDE DEF s
      <4>2. Keep(s, btd) \in Seq(Services) /\ ToSet(Keep(s, btd)) = ToSet(s) \cap btd
          BY <4>1, KeepElements
      <4>3. Keep(s, btd) # Unrestricted
          BY <4>2, CustomerAssumption
      <4> QED BY <3>3, <3>4, <3>5, <3>7, <4>2, <4>3, Zenon DEF a, s
    <3> QED BY <3>6, <3>7
  <2>4. ASSUME NEW u \in ToSet(answer.users), NEW p \in ToSet(u.permissions)
        PROVE  /\ p.service \in ToSet(answer.services)
               /\ p.account # NoAccount =>
                      \E a \in ToSet(answer.accounts) : a.id = p.account
    <3>1. /\ p.service \in ToSet(BtdServices(info))
          /\ p.account \in {a.id : a \in ToSet(accounts)} \cup {NoAccount}
      <4>1. u \in ToSet(users)
          BY <2>2, <2>4
      <4> HIDE DEF users, accounts
      <4> QED BY <2>1, <2>4, <4>1, Zenon DEF InformationAccepted
    <3> HIDE DEF accounts, users
    <3> QED BY <2>2, <3>1
  <2>5. \E u \in ToSet(answer.users) : u.id = Requester
    <3>1. info.users \in Seq([id: STRING, wellFormed: BOOLEAN,
              permissions: Seq([order: STRING, service: Services \cup {NoService},
                                account: STRING \cup {NoAccount}])])
        BY DEF CustomerForms
    <3>2. PICK n \in 1..Len(info.users) : info.users[n].id = Requester
        BY <2>1, <3>1 DEF ToSet
    <3>3. users[n].id = Requester /\ n \in DOMAIN users
        BY <3>2
    <3>4. users[n] \in ToSet(users)
        BY <3>3 DEF ToSet
    <3> QED BY <2>2, <3>3, <3>4
  <2> HIDE DEF answer
  <2> QED BY <2>1, <2>3, <2>4, <2>5 DEF RightsKept
<1> QED BY <1>1, <1>2

-----------------------------------------------------------------------------
(* HEV. *)

(* The first entry with a protocol or a number is one with it. *)
LEMMA FirstOf ==
    ASSUME NEW I, I \subseteq Nat, I # {}
    PROVE  Min(I) \in I
<1>1. \E x \in I : \A y \in I : x <= y
    BY LeastNumber
<1> QED BY <1>1 DEF Min

(* As a relation, an advertisement VersionDiscovery accepts is one-to-one and *)
(* has no entry twice.                                                        *)
LEMMA AdvertisementAsRelation ==
    ASSUME NEW versions \in Seq([protocol: STRING, version: STRING])
    PROVE  Advertisement(versions) <=>
               /\ ToSet(versions) # {} /\ OneToOne(ToSet(versions))
               /\ Len(versions) = Cardinality(ToSet(versions))
<1> DEFINE pairs == ToSet(versions)
<1>1. /\ Len(versions) \in Nat /\ DOMAIN versions = 1..Len(versions)
      /\ pairs = {versions[i] : i \in 1..Len(versions)}
    BY DEF ToSet
<1>2. versions # <<>> <=> pairs # {}
  <2>1. versions # <<>> <=> Len(versions) # 0
      OBVIOUS
  <2> QED BY <1>1, <2>1
<1>3. IsInjective(versions) <=> Len(versions) = Cardinality(pairs)
  <2>1. versions \in Surjection(1..Len(versions), pairs)
      BY <1>1 DEF Surjection
  <2>2. IsFiniteSet(1..Len(versions)) /\ Cardinality(1..Len(versions)) = Len(versions)
    <3>1. IF 1 > Len(versions) THEN Len(versions) = 0 ELSE Len(versions) - 1 + 1 = Len(versions)
        BY <1>1
    <3> QED BY <1>1, <3>1, FS_Interval
  <2>3. Cardinality(pairs) = Cardinality(1..Len(versions))
            <=> versions \in Injection(1..Len(versions), pairs)
      BY <2>1, <2>2, FS_Surjection
  <2>4. versions \in [1..Len(versions) -> pairs]
      BY <2>1 DEF Surjection
  <2>5. versions \in Injection(1..Len(versions), pairs) <=> IsInjective(versions)
      BY <2>4 DEF Injection
  <2> QED BY <2>2, <2>3, <2>5
<1>4. ASSUME NEW v \in pairs
      PROVE  /\ \E u \in pairs : u.protocol = v.protocol /\ u.version = VersionFor(versions, v.protocol)
             /\ \E u \in pairs : u.version = v.version /\ u.protocol = ProtocolFor(versions, v.version)
  <2>1. PICK n \in 1..Len(versions) : versions[n] = v
      BY <1>1
  <2>2. \E u \in pairs : u.protocol = v.protocol /\ u.version = VersionFor(versions, v.protocol)
    <3> DEFINE I == {i \in 1..Len(versions) : versions[i].protocol = v.protocol}
    <3>1. I \subseteq Nat /\ I # {}
        BY <2>1
    <3>2. VersionFor(versions, v.protocol) = versions[Min(I)].version
        BY <3>1 DEF VersionFor, SelectInSeq
    <3>3. Min(I) \in I
      <4> HIDE DEF I
      <4> QED BY <3>1, FirstOf
    <3> QED BY <1>1, <3>2, <3>3
  <2>3. \E u \in pairs : u.version = v.version /\ u.protocol = ProtocolFor(versions, v.version)
    <3> DEFINE I == {i \in 1..Len(versions) : versions[i].version = v.version}
    <3>1. I \subseteq Nat /\ I # {}
        BY <2>1
    <3>2. ProtocolFor(versions, v.version) = versions[Min(I)].protocol
        BY <3>1 DEF ProtocolFor, SelectInSeq
    <3>3. Min(I) \in I
      <4> HIDE DEF I
      <4> QED BY <3>1, FirstOf
    <3> QED BY <1>1, <3>2, <3>3
  <2> QED BY <2>2, <2>3
<1> HIDE DEF pairs
<1>5. ASSUME \A v \in pairs : /\ VersionFor(versions, v.protocol) = v.version
                              /\ ProtocolFor(versions, v.version) = v.protocol
      PROVE  OneToOne(pairs)
  <2>1. ASSUME NEW u \in pairs, NEW v \in pairs
        PROVE  (u.protocol = v.protocol) <=> (u.version = v.version)
    <3>1. /\ VersionFor(versions, u.protocol) = u.version
          /\ VersionFor(versions, v.protocol) = v.version
          /\ ProtocolFor(versions, u.version) = u.protocol
          /\ ProtocolFor(versions, v.version) = v.protocol
        BY <1>5
    <3> QED BY <3>1, Zenon
  <2> QED BY <2>1 DEF OneToOne
<1>6. ASSUME OneToOne(pairs), NEW v \in pairs
      PROVE  /\ VersionFor(versions, v.protocol) = v.version
             /\ ProtocolFor(versions, v.version) = v.protocol
    BY <1>4, <1>6 DEF OneToOne
<1> QED BY <1>2, <1>3, <1>5, <1>6 DEF Advertisement, pairs

(* probe_versions decides exactly. *)
LEMMA NegotiationExact ==
    ASSUME NEW hev \in HevForms
    PROVE  NegotiationIsExact(hev, ProbeVersions(hev))
<1>1. hev.versions \in Seq([protocol: STRING, version: STRING])
    BY DEF HevForms
<1>2. ParseHev(hev) <=>
          /\ hev.wellFormed /\ hev.code = "000000" /\ ToSet(hev.versions) # {}
          /\ OneToOne(ToSet(hev.versions))
          /\ Len(hev.versions) = Cardinality(ToSet(hev.versions))
    BY <1>1, AdvertisementAsRelation DEF ParseHev
<1>3. /\ NoVersion.kind = "refused" /\ Unsupported.kind = "unsupported"
      /\ Negotiated.kind = "protocol"
    BY DEF NoVersion, Unsupported, Negotiated
<1> QED BY <1>2, <1>3 DEF NegotiationIsExact, ProbeVersions

-----------------------------------------------------------------------------
(* The composition. *)

(* What the components that have worked so far have found, stage by stage.    *)
Stages == {"response", "versions", "envelope", "order", "container", "cleartext", "customer",
           "done"}

Accepted(doc) == Harmless(doc) /\ WithinLimits(doc)
Parsed == Parse(delivery.response, Signature(delivery), delivery.request)

(* What is received, whatever it is. *)
InputTypes ==
    /\ input.response \in XmlDocuments /\ input.cleartext \in XmlDocuments
    /\ input.info \in CustomerForms /\ input.hev \in HevForms
    /\ delivery \in Deliveries
    /\ stage \in Stages

(* Which document the scanner has, and which documents it has accepted.       *)
DocumentsScanned ==
    /\ stage \in {"response", "versions", "envelope", "order"} => xml = input.response
    /\ stage \in {"cleartext", "customer"} => xml = input.cleartext
    /\ stage \notin {"response", "done"} => Accepted(input.response)
    /\ stage = "customer" => Accepted(input.cleartext)

(* The envelope is read once, of an answer that is no version list, and leads *)
(* on only from a successful initial response.                                *)
EnvelopeRead ==
    /\ stage \in {"response", "versions", "envelope"} => outcome = Unparsed
    /\ stage = "versions" => delivery.request.purpose = "versions"
    /\ stage \in {"envelope", "order", "container", "cleartext", "customer"} =>
           delivery.request.purpose # "versions"
    /\ outcome = Unparsed \/ (outcome = Parsed /\ delivery.request.purpose # "versions")
    /\ stage \in {"order", "container", "cleartext", "customer"} => Parsed.kind = "initial"

(* What has been expanded where; the extraction begins with what the decoders *)
(* expanded.                                                                  *)
OrderExpanded ==
    /\ stage \in {"container", "cleartext", "customer"} => step = "expanded"
    /\ stage = "container" => order.kind = "btd" /\ archive.size = TotalExpansion(order)
    /\ stage \in {"cleartext", "customer"} => order.kind = "metadata"
    /\ stage \in {"response", "versions", "envelope", "order"} => ZipInit(archive)

(* The result is judged when there is one.                                    *)
Returns ==
    /\ stage # "done" => returned = Nothing
    /\ NegotiatedExactly
    /\ CustomerRightsKept
    /\ returned.kind \in {"documents", "customer"} => ResponseAdmissible
    /\ returned.kind \in {"refused", "rejected", "unsupported"} => ~ResponseAdmissible

(* The inductive invariant of the composition: those of the components, and   *)
(* what the earlier stages have found.                                        *)
ResponseInv ==
    /\ InputTypes
    /\ ScanInv /\ ExactInv /\ BufferInv /\ ZipInv
    /\ DocumentsScanned /\ EnvelopeRead /\ OrderExpanded /\ Returns

(* ZipStart, for the state after a step. *)
LEMMA ZipReady == archive \in ArchiveForms /\ ZipInit(archive) => ZipInv
BY ZipStart

(* The same after a step. *)
LEMMA ZipReadyNext == archive' \in ArchiveForms /\ ZipInit(archive)' => ZipInv'
<1>1. (archive \in ArchiveForms /\ ZipInit(archive) => ZipInv)'
    BY ZipReady, PTL
<1> QED BY <1>1

(* The verdict of the scanner, for the state after a step. *)
LEMMA ScanJudgesNext == ScanInv' => XmlVerdictExact'
<1>1. (ScanInv => XmlVerdictExact)'
    BY ScanJudges, PTL
<1> QED BY <1>1

(* What the parsers of the phases return. *)
LEMMA ParsedKinds ==
    ASSUME NEW d \in Deliveries, NEW o,
           o = Parse(d.response, Signature(d), d.request), d.request.purpose # "versions"
    PROVE  /\ o.kind \in {"refused", "rejected", "initial", "transfer", "receipt"}
           /\ o.kind = "initial" => d.request.purpose = "initial"
<1> DEFINE r == d.response
           q == d.request
<1>1. q.purpose \in {"initial", "transfer", "receipt"}
    BY DEF Deliveries
<1>2. \A x : Rejected(x).kind = "rejected"
    BY DEF Rejected
<1>3. Refused.kind = "refused"
    BY DEF Refused
<1>4. InitialOutcome(r, q).kind \in {"refused", "rejected", "initial"}
    BY <1>2, <1>3 DEF InitialOutcome
<1>5. TransferOutcome(r, q).kind \in {"refused", "rejected", "transfer"}
    BY <1>2, <1>3 DEF TransferOutcome
<1>6. ReceiptOutcome(r, q).kind \in {"refused", "rejected", "receipt"}
    BY <1>2, <1>3 DEF ReceiptOutcome
<1>7. CASE ~ParseH005(r) \/ ~VerifyX002(r, Signature(d))
  <2>1. o = Refused
      BY <1>7, Zenon DEF Parse
  <2> QED BY <1>3, <2>1
<1>8. CASE ~(~ParseH005(r) \/ ~VerifyX002(r, Signature(d)))
  <2>1. o = CASE q.purpose = "initial" -> InitialOutcome(r, q)
              [] q.purpose = "transfer" -> TransferOutcome(r, q)
              [] q.purpose = "receipt" -> ReceiptOutcome(r, q)
      BY <1>8 DEF Parse
  <2>2. CASE q.purpose = "initial"
      BY <1>4, <2>1, <2>2
  <2>3. CASE q.purpose = "transfer"
      BY <1>5, <2>1, <2>3
  <2>4. CASE q.purpose = "receipt"
      BY <1>6, <2>1, <2>4
  <2> QED BY <1>1, <2>2, <2>3, <2>4
<1> QED BY <1>7, <1>8

(* What the negotiation and the customer data end with. *)
LEMMA AnswerKinds ==
    /\ \A hev : ProbeVersions(hev).kind \in {"refused", "protocol", "unsupported"}
    /\ \A info : \/ CustomerInformation(info) = NoInformation
                 \/ CustomerInformation(info).kind = "customer"
BY DEF ProbeVersions, NoVersion, Negotiated, Unsupported, CustomerInformation, NoInformation

(* While nothing is returned, there is nothing to judge. *)
LEMMA NothingYet == stage # "done" /\ returned = Nothing => Returns
BY DEF Returns, NegotiatedExactly, CustomerRightsKept, RightsKept, Nothing

(* The same after a step. *)
LEMMA NothingYetNext == stage' # "done" /\ returned' = Nothing => Returns'
<1>1. (stage # "done" /\ returned = Nothing => Returns)'
    BY NothingYet, PTL
<1> QED BY <1>1, Zenon

(* A call that ends. *)
LEMMA Finishes ==
    ASSUME NEW value, Finish(value), UNCHANGED <<input, delivery, order, archive>>,
           value.kind \in {"documents", "customer"} => ResponseAdmissible,
           value.kind \in {"refused", "rejected", "unsupported"} => ~ResponseAdmissible,
           RightsKept(input.info, value),
           delivery.request.purpose = "versions" /\ Accepted(input.response)
               => NegotiationIsExact(input.hev, value)
    PROVE  Returns'
<1>1. stage' = "done" /\ returned' = value
    BY DEF Finish
<1>2. ResponseAdmissible' <=> ResponseAdmissible
    BY DEF ResponseAdmissible
<1>3. NegotiatedExactly'
    BY <1>1 DEF NegotiatedExactly, Accepted
<1>4. CustomerRightsKept'
    BY <1>1 DEF CustomerRightsKept
<1> QED BY <1>1, <1>2, <1>3, <1>4 DEF Returns

(* How the decoding of the order data is followed up. *)
LEMMA OrderEnds ==
    ASSUME ResponseInv, OrderDataDecoded
    PROVE  /\ stage = "order"
           /\ \/ /\ step \in {"refused", "stopped"} /\ UNCHANGED <<scanVars, archive>>
                 /\ Finish(IF step = "refused" THEN Failure ELSE Stopped)
              \/ /\ step = "expanded" /\ order.kind = "btd" /\ UNCHANGED scanVars
                 /\ stage' = "container" /\ UNCHANGED returned
                 /\ archive' = [archive EXCEPT !.size = result]
              \/ /\ step = "expanded" /\ order.kind = "metadata" /\ UNCHANGED archive
                 /\ stage' = "cleartext" /\ UNCHANGED returned
                 /\ ScanNext(input.cleartext)
<1>1. order.kind \in {"btd", "metadata"}
    BY DEF ResponseInv, ExactInv, BufferTypes, OrderForms
<1>2. CASE step = "refused"
    BY <1>2 DEF OrderDataDecoded
<1>3. CASE step = "stopped"
    BY <1>3 DEF OrderDataDecoded
<1>4. CASE step = "expanded" /\ order.kind = "btd"
    BY <1>4 DEF OrderDataDecoded, Goto
<1>5. CASE step = "expanded" /\ order.kind = "metadata"
    BY <1>5 DEF OrderDataDecoded, Goto
<1> QED BY <1>1, <1>2, <1>3, <1>4, <1>5 DEF OrderDataDecoded

(* An archive is one with any size. *)
LEMMA Resized ==
    ASSUME NEW a \in ArchiveForms, NEW n \in Nat
    PROVE  [a EXCEPT !.size = n] \in ArchiveForms
<1> DEFINE M == Seq([name: Nat, declared: Nat, packed: Nat, actual: Nat, directory: BOOLEAN,
                     safe: BOOLEAN, intact: BOOLEAN, nested: BOOLEAN])
<1>1. ArchiveForms = [container: ContainerTypes, readable: BOOLEAN, size: Nat, members: M]
    BY DEF ArchiveForms
<1> HIDE DEF M
<1> QED BY <1>1

(* The components keep their own invariants, also while others work. *)
LEMMA ComponentsKept ==
    ASSUME ResponseInv, [Next]_vars
    PROVE  InputTypes' /\ ScanInv' /\ ExactInv' /\ BufferInv' /\ ZipInv'
<1>1. [ScanStep]_scanVars \/ ScanNext(input.cleartext)
  <2>1. CASE OrderDataDecoded
      BY <2>1, OrderEnds
  <2>2. CASE ~OrderDataDecoded
      BY <2>2 DEF Next, vars, ScanResponse, ResponseScanned, Negotiate, Envelope,
         DecodeOrderData, Extract, Extracted, CleartextScanned, ParseCustomer
  <2> QED BY <2>1, <2>2
<1>2. ScanInv'
    BY <1>1, ScanKept, ScanStart DEF ResponseInv, InputTypes
<1>3. [DecodingStep]_orderVars
    BY DEF Next, vars, ScanResponse, ResponseScanned, Negotiate, Envelope, DecodeOrderData,
           OrderDataDecoded, Extract, Extracted, CleartextScanned, ParseCustomer
<1>4. ExactInv' /\ BufferInv'
    BY <1>3, ExactNext, BufferNext DEF ResponseInv
<1>5. input' = input /\ delivery' = delivery
    BY DEF Next, vars, envelopeVars, ScanResponse, ResponseScanned, Negotiate, Envelope, ParseResponse,
           DecodeOrderData, OrderDataDecoded, Extract, Extracted, CleartextScanned, ParseCustomer
<1>6. stage' \in Stages
  <2>1. CASE OrderDataDecoded
      BY <2>1, OrderEnds DEF Stages, Finish
  <2>2. CASE ~OrderDataDecoded
    <3>1. UNCHANGED stage \/ stage' \in {"done", "versions", "envelope", "order", "customer"}
        BY <2>2 DEF Next, vars, ScanResponse, ResponseScanned, Negotiate, Envelope,
           DecodeOrderData, Extract, Extracted, CleartextScanned, ParseCustomer,
           Finish, Goto, Stay
    <3> QED BY <3>1 DEF ResponseInv, InputTypes, Stages
  <2> QED BY <2>1, <2>2
<1>7. InputTypes'
    BY <1>5, <1>6 DEF ResponseInv, InputTypes
<1>8. CASE OrderDataDecoded
  <2>1. UNCHANGED <<member, names, total, content, documents, extraction>>
      BY <1>8 DEF OrderDataDecoded
  <2>2. stage = "order" /\ ZipInit(archive)
      BY <1>8 DEF OrderDataDecoded, ResponseInv, OrderExpanded
  <2>3. archive \in ArchiveForms
      BY DEF ResponseInv, ZipInv, ZipTypes
  <2>4. archive' \in ArchiveForms
    <3>1. CASE archive' = archive
        BY <2>3, <3>1
    <3>2. CASE step = "expanded" /\ order.kind = "btd" /\ archive' = [archive EXCEPT !.size = result]
      <4>1. result \in Nat
        <5>1. result \in Int /\ result > 0
            BY <3>2, Zenon DEF ResponseInv, ExactInv, OrderDataVerdictExact, Admissible, BufferTypes
        <5> QED BY <5>1
      <4> QED BY <2>3, <3>2, <4>1, Resized
    <3> QED BY <1>8, <3>1, <3>2, OrderEnds
  <2>5. ZipInit(archive)'
      BY <2>1, <2>2 DEF ZipInit
  <2> QED BY <1>2, <1>4, <1>7, <2>4, <2>5, ZipReadyNext
<1>9. CASE ~OrderDataDecoded
  <2>1. [ExtractionStep]_zipVars
    BY <1>9 DEF Next, vars, ScanResponse, ResponseScanned, Negotiate, Envelope, DecodeOrderData,
           Extract, Extracted, CleartextScanned, ParseCustomer
  <2> QED BY <1>2, <1>4, <1>7, <2>1, ZipNext DEF ResponseInv
<1> QED BY <1>8, <1>9

(* The parts of the invariant that relate the components. *)
Where == DocumentsScanned /\ EnvelopeRead /\ OrderExpanded /\ Returns

(* The steps of the scanner leave the rest alone. *)
LEMMA KeptScan == ASSUME ResponseInv, ScanResponse PROVE Where'
<1>1. /\ UNCHANGED <<stage, returned, input, delivery, outcome, archive, member, names, total,
                     content, documents, extraction>>
      /\ UNCHANGED orderVars /\ xml' = xml /\ stage # "done"
    BY DEF ScanResponse, Stay, envelopeVars, zipVars, ScanStep, RefuseRaw, Callback, Propagate, Close
<1>2. UNCHANGED <<order, step>>
    BY <1>1 DEF orderVars
<1>3. DocumentsScanned'
    BY <1>1 DEF ResponseInv, DocumentsScanned, Accepted
<1>4. EnvelopeRead'
    BY <1>1 DEF ResponseInv, EnvelopeRead, Parsed
<1>5. OrderExpanded'
    BY <1>1, <1>2 DEF ResponseInv, OrderExpanded, ZipInit
<1>6. Returns'
    BY <1>1, NothingYetNext DEF ResponseInv, Returns
<1> QED BY <1>3, <1>4, <1>5, <1>6 DEF Where

(* Once a call has ended, only what it returns is left to judge. *)
LEMMA AtDone ==
    ASSUME ResponseInv, stage' = "done", UNCHANGED <<delivery, outcome>>, Returns'
    PROVE  Where'
BY DEF ResponseInv, Where, DocumentsScanned, EnvelopeRead, OrderExpanded, Parsed

(* The response is through the scanner, or refused. *)
LEMMA KeptScanned == ASSUME ResponseInv, ResponseScanned PROVE Where'
<1>1. /\ UNCHANGED <<input, delivery, outcome, archive, member, names, total,
                     content, documents, extraction, xml>>
      /\ UNCHANGED orderVars /\ stage = "response" /\ scanned # "scanning"
    BY DEF ResponseScanned, envelopeVars, zipVars, scanVars
<1>2. UNCHANGED <<order, step>>
    BY <1>1 DEF orderVars
<1>3. xml = input.response /\ XmlVerdictExact /\ outcome = Unparsed /\ returned = Nothing
      /\ ZipInit(archive) /\ scanned \in {"scanning", "accepted", "refused"}
    BY <1>1, ScanJudges DEF ResponseInv, DocumentsScanned, EnvelopeRead, Returns, OrderExpanded,
                            ScanInv
<1>4. ZipInit(archive)'
    BY <1>1, <1>3 DEF ZipInit
<1>5. CASE scanned = "refused"
  <2>1. ~Accepted(input.response)
      BY <1>3, <1>5 DEF XmlVerdictExact, Accepted
  <2>2. Finish(Failure) /\ stage' = "done"
      BY <1>5 DEF ResponseScanned, Finish
  <2>3. Returns'
    <3>1. ~ResponseAdmissible
        BY <2>1 DEF ResponseAdmissible, Accepted
    <3>2. Failure.kind = "refused" /\ RightsKept(input.info, Failure)
        BY DEF Failure, RightsKept
    <3> QED BY <1>1, <1>2, <2>1, <2>2, <3>1, <3>2, Finishes
  <2> QED BY <1>1, <2>2, <2>3, AtDone
<1>6. CASE scanned = "accepted"
  <2>1. Accepted(input.response)
      BY <1>3, <1>6 DEF XmlVerdictExact, Accepted
  <2>2. /\ stage' = IF delivery.request.purpose = "versions" THEN "versions" ELSE "envelope"
        /\ returned' = returned
      BY <1>6 DEF ResponseScanned, Goto
  <2>3. Returns'
      BY <1>3, <2>2, NothingYetNext
  <2>4. DocumentsScanned'
      BY <1>1, <1>3, <2>1, <2>2 DEF DocumentsScanned, Accepted
  <2>5. EnvelopeRead'
      BY <1>1, <1>3, <2>2 DEF EnvelopeRead
  <2>6. OrderExpanded'
      BY <1>1, <1>4, <2>2 DEF OrderExpanded
  <2> QED BY <2>3, <2>4, <2>5, <2>6 DEF Where
<1> QED BY <1>1, <1>3, <1>5, <1>6

(* The negotiation ends the call. *)
LEMMA KeptNegotiate == ASSUME ResponseInv, Negotiate PROVE Where'
<1> DEFINE answer == ProbeVersions(input.hev)
<1>1. /\ UNCHANGED <<input, delivery, outcome, archive>> /\ UNCHANGED orderVars
      /\ stage = "versions" /\ Finish(answer) /\ stage' = "done"
    BY DEF Negotiate, envelopeVars, zipVars, Finish
<1>2. order' = order
    BY <1>1 DEF orderVars
<1>3. delivery.request.purpose = "versions" /\ input.hev \in HevForms
    BY <1>1 DEF ResponseInv, EnvelopeRead, InputTypes
<1>4. ~ResponseAdmissible
    BY <1>3 DEF ResponseAdmissible
<1>5. answer.kind \in {"refused", "protocol", "unsupported"}
    BY AnswerKinds
<1>6. NegotiationIsExact(input.hev, answer)
    BY <1>3, NegotiationExact
<1> HIDE DEF answer
<1>7. RightsKept(input.info, answer)
    BY <1>5 DEF RightsKept
<1>8. Returns'
    BY <1>1, <1>2, <1>4, <1>5, <1>6, <1>7, Finishes
<1> QED BY <1>1, <1>8, AtDone

(* The envelope leads on to the order data, or ends the call. *)
LEMMA KeptEnvelope == ASSUME ResponseInv, Envelope PROVE Where'
<1>1. /\ UNCHANGED <<input, delivery, archive, member, names, total,
                     content, documents, extraction, xml>>
      /\ UNCHANGED orderVars /\ stage = "envelope" /\ outcome' = Parsed
    BY DEF Envelope, ParseResponse, zipVars, scanVars, Parsed
<1>2. UNCHANGED <<order, step>>
    BY <1>1 DEF orderVars
<1>3. /\ delivery \in Deliveries /\ delivery.request.purpose # "versions"
      /\ xml = input.response /\ Accepted(input.response) /\ returned = Nothing
      /\ ZipInit(archive)
    BY <1>1 DEF ResponseInv, InputTypes, EnvelopeRead, DocumentsScanned, Returns, OrderExpanded
<1>4. /\ Parsed.kind \in {"refused", "rejected", "initial", "transfer", "receipt"}
      /\ Parsed.kind = "initial" => delivery.request.purpose = "initial"
    BY <1>3, ParsedKinds DEF Parsed
<1>5. Parsed' = Parsed
    BY <1>1 DEF Parsed
<1>6. CASE Parsed.kind = "initial"
  <2>1. stage' = "order" /\ returned' = returned
      BY <1>1, <1>6 DEF Envelope, Goto
  <2>2. DocumentsScanned'
      BY <1>1, <1>3, <2>1 DEF DocumentsScanned, Accepted
  <2>3. EnvelopeRead'
      BY <1>1, <1>3, <1>5, <1>6, <2>1 DEF EnvelopeRead
  <2>4. ZipInit(archive)'
      BY <1>1, <1>3 DEF ZipInit
  <2>5. OrderExpanded'
      BY <2>1, <2>4 DEF OrderExpanded
  <2> QED BY <1>3, <2>1, <2>2, <2>3, <2>5, NothingYetNext DEF Where
<1>7. CASE Parsed.kind # "initial"
  <2>1. Finish(Parsed) /\ stage' = "done"
      BY <1>1, <1>7 DEF Envelope, Finish
  <2>2. ~ResponseAdmissible
      BY <1>7 DEF ResponseAdmissible, Parsed
  <2>3. RightsKept(input.info, Parsed)
      BY <1>4 DEF RightsKept
  <2>4. Returns'
      BY <1>1, <1>2, <1>3, <1>4, <2>1, <2>2, <2>3, Finishes
  <2>5. DocumentsScanned' /\ OrderExpanded'
      BY <2>1 DEF DocumentsScanned, OrderExpanded
  <2>6. EnvelopeRead'
      BY <1>1, <1>3, <1>5, <2>1 DEF EnvelopeRead
  <2> QED BY <2>4, <2>5, <2>6 DEF Where
<1> QED BY <1>6, <1>7

(* The steps of the decoders leave the rest alone. *)
LEMMA KeptDecode == ASSUME ResponseInv, DecodeOrderData PROVE Where'
<1>1. /\ UNCHANGED <<stage, returned, input, delivery, outcome, archive, member, names, total,
                     content, documents, extraction, xml>>
      /\ stage = "order"
    BY DEF DecodeOrderData, Stay, envelopeVars, zipVars, scanVars
<1>3. DocumentsScanned'
    BY <1>1 DEF ResponseInv, DocumentsScanned, Accepted
<1>4. EnvelopeRead'
    BY <1>1 DEF ResponseInv, EnvelopeRead, Parsed
<1>5. OrderExpanded'
    BY <1>1 DEF ResponseInv, OrderExpanded, ZipInit
<1>6. Returns'
    BY <1>1, NothingYetNext DEF ResponseInv, Returns
<1> QED BY <1>3, <1>4, <1>5, <1>6 DEF Where

(* The order data is expanded, to an archive or to a document, or the call    *)
(* ends.                                                                      *)
LEMMA KeptDecoded == ASSUME ResponseInv, OrderDataDecoded PROVE Where'
<1>1. /\ UNCHANGED <<input, delivery, outcome>> /\ UNCHANGED orderVars /\ stage = "order"
    BY DEF OrderDataDecoded, envelopeVars
<1>2. UNCHANGED <<order, step>>
    BY <1>1 DEF orderVars
<1>3. /\ delivery.request.purpose # "versions" /\ Parsed.kind = "initial"
      /\ Accepted(input.response) /\ returned = Nothing /\ OrderDataVerdictExact
      /\ outcome = Unparsed \/ outcome = Parsed
      /\ archive \in ArchiveForms
    BY <1>1 DEF ResponseInv, EnvelopeRead, DocumentsScanned, Returns, ExactInv, ZipInv, ZipTypes
<1>4. CASE step \in {"refused", "stopped"}
  <2> DEFINE value == IF step = "refused" THEN Failure ELSE Stopped
  <2>1. Finish(value) /\ stage' = "done" /\ UNCHANGED archive
      BY <1>4, OrderEnds DEF Finish
  <2>2. /\ value.kind = step
      BY <1>4 DEF Failure, Stopped
  <2>3. step = "refused" => ~ResponseAdmissible
      BY <1>3 DEF ResponseAdmissible, OrderDataVerdictExact
  <2> HIDE DEF value
  <2>4. RightsKept(input.info, value)
      BY <1>4, <2>2 DEF RightsKept
  <2>5. Returns'
      BY <1>1, <1>2, <1>3, <1>4, <2>1, <2>2, <2>3, <2>4, Finishes
  <2> QED BY <1>1, <2>1, <2>5, AtDone
<1>5. CASE step = "expanded" /\ order.kind = "btd"
  <2>1. /\ UNCHANGED scanVars /\ stage' = "container" /\ returned' = returned
        /\ archive' = [archive EXCEPT !.size = result]
      BY <1>5, OrderEnds
  <2>2. result = TotalExpansion(order)
      BY <1>3, <1>5 DEF OrderDataVerdictExact
  <2>3. archive'.size = result
      BY <1>3, <2>1 DEF ArchiveForms
  <2>4. OrderExpanded'
      BY <1>2, <1>5, <2>1, <2>2, <2>3 DEF OrderExpanded
  <2>5. DocumentsScanned'
      BY <1>1, <1>3, <2>1 DEF DocumentsScanned, Accepted
  <2>6. EnvelopeRead'
      BY <1>1, <1>3, <2>1 DEF EnvelopeRead, Parsed
  <2> QED BY <1>3, <2>1, <2>4, <2>5, <2>6, NothingYetNext DEF Where
<1>6. CASE step = "expanded" /\ order.kind = "metadata"
  <2>1. stage' = "cleartext" /\ returned' = returned /\ ScanNext(input.cleartext)
      BY <1>6, OrderEnds
  <2>2. OrderExpanded'
      BY <1>2, <1>6, <2>1 DEF OrderExpanded
  <2>3. DocumentsScanned'
      BY <1>1, <1>3, <2>1 DEF DocumentsScanned, Accepted, ScanNext
  <2>4. EnvelopeRead'
      BY <1>1, <1>3, <2>1 DEF EnvelopeRead, Parsed
  <2> QED BY <1>3, <2>1, <2>2, <2>3, <2>4, NothingYetNext DEF Where
<1> QED BY <1>4, <1>5, <1>6, OrderEnds

(* The steps of the extraction leave the archive and the rest alone. *)
LEMMA KeptExtract == ASSUME ResponseInv, Extract PROVE Where'
<1>1. /\ UNCHANGED <<stage, returned, input, delivery, outcome, xml, archive>>
      /\ UNCHANGED orderVars /\ stage = "container"
    BY DEF Extract, Stay, envelopeVars, scanVars, ExtractionStep, OpenContainer, EnterMember,
           RefuseMember, ReadMember, FinishMember, FinishArchive, StopExtraction
<1>2. UNCHANGED <<order, step>>
    BY <1>1 DEF orderVars
<1>3. DocumentsScanned'
    BY <1>1 DEF ResponseInv, DocumentsScanned, Accepted
<1>4. EnvelopeRead'
    BY <1>1 DEF ResponseInv, EnvelopeRead, Parsed
<1>5. OrderExpanded'
    BY <1>1, <1>2 DEF ResponseInv, OrderExpanded
<1>6. Returns'
    BY <1>1, NothingYetNext DEF ResponseInv, Returns
<1> QED BY <1>3, <1>4, <1>5, <1>6 DEF Where

(* The extraction ends the call. *)
LEMMA KeptExtracted == ASSUME ResponseInv, Extracted PROVE Where'
<1> DEFINE value == CASE extraction = "extracted" -> [kind |-> "documents", documents |-> documents]
                      [] extraction = "refused" -> Failure
                      [] extraction = "stopped" -> Stopped
<1>1. /\ UNCHANGED <<input, delivery, outcome, archive>> /\ UNCHANGED orderVars
      /\ stage = "container" /\ Finish(value) /\ stage' = "done"
      /\ extraction \in {"extracted", "refused", "stopped"}
    BY DEF Extracted, envelopeVars, zipVars, Finish
<1>2. order' = order
    BY <1>1 DEF orderVars
<1>3. /\ delivery \in Deliveries /\ delivery.request.purpose # "versions" /\ Parsed.kind = "initial"
      /\ Accepted(input.response) /\ OrderDataVerdictExact /\ ContainerVerdictExact
      /\ step = "expanded" /\ order.kind = "btd" /\ archive.size = TotalExpansion(order)
      /\ archive \in ArchiveForms
    BY <1>1 DEF ResponseInv, InputTypes, EnvelopeRead, DocumentsScanned, OrderExpanded, ExactInv, ZipInv,
                ZipTypes
<1>4. [archive EXCEPT !.size = TotalExpansion(order)] = archive
    BY <1>3 DEF ArchiveForms
<1>5. delivery.request.purpose = "initial" /\ Admissible(order)
    BY <1>3, ParsedKinds DEF Parsed, OrderDataVerdictExact
<1>6. ResponseAdmissible <=> ContainerAdmissible(archive)
    BY <1>3, <1>4, <1>5 DEF ResponseAdmissible, Accepted, Parsed
<1>7. /\ value.kind = "documents" => extraction = "extracted"
      /\ value.kind = "refused" => extraction = "refused"
      /\ value.kind \in {"documents", "refused", "stopped"}
    BY <1>1 DEF Failure, Stopped
<1> HIDE DEF value
<1>8. /\ value.kind \in {"documents", "customer"} => ResponseAdmissible
      /\ value.kind \in {"refused", "rejected", "unsupported"} => ~ResponseAdmissible
    BY <1>3, <1>6, <1>7 DEF ContainerVerdictExact
<1>9. RightsKept(input.info, value)
    BY <1>7 DEF RightsKept
<1>10. Returns'
    BY <1>1, <1>2, <1>3, <1>8, <1>9, Finishes
<1> QED BY <1>1, <1>10, AtDone

(* The cleartext is through the scanner, or refused. *)
LEMMA KeptCleartext == ASSUME ResponseInv, CleartextScanned PROVE Where'
<1>1. /\ UNCHANGED <<input, delivery, outcome, archive, xml>> /\ UNCHANGED orderVars
      /\ stage = "cleartext" /\ scanned # "scanning"
    BY DEF CleartextScanned, envelopeVars, zipVars, scanVars
<1>2. UNCHANGED <<order, step>>
    BY <1>1 DEF orderVars
<1>3. /\ delivery.request.purpose # "versions" /\ Parsed.kind = "initial"
      /\ Accepted(input.response) /\ XmlVerdictExact /\ xml = input.cleartext
      /\ step = "expanded" /\ order.kind = "metadata" /\ returned = Nothing
    BY <1>1, ScanJudges DEF ResponseInv, EnvelopeRead, DocumentsScanned, OrderExpanded, Returns
<1>4. CASE scanned = "accepted"
  <2>1. stage' = "customer" /\ returned' = returned
      BY <1>4 DEF CleartextScanned, Goto
  <2>2. Accepted(input.cleartext)
      BY <1>3, <1>4 DEF XmlVerdictExact, Accepted
  <2>3. OrderExpanded'
      BY <1>2, <1>3, <2>1 DEF OrderExpanded
  <2>4. DocumentsScanned'
      BY <1>1, <1>3, <2>1, <2>2 DEF DocumentsScanned, Accepted
  <2>5. EnvelopeRead'
      BY <1>1, <1>3, <2>1 DEF ResponseInv, EnvelopeRead, Parsed
  <2> QED BY <1>3, <2>1, <2>3, <2>4, <2>5, NothingYetNext DEF Where
<1>5. CASE scanned # "accepted"
  <2>1. Finish(Failure) /\ stage' = "done"
      BY <1>5 DEF CleartextScanned, Finish
  <2>2. ~Accepted(input.cleartext)
      BY <1>1, <1>3, <1>5 DEF XmlVerdictExact, Accepted
  <2>3. ~ResponseAdmissible
      BY <1>3, <2>2 DEF ResponseAdmissible, Accepted
  <2>4. Failure.kind = "refused" /\ RightsKept(input.info, Failure)
      BY DEF Failure, RightsKept
  <2>5. Returns'
      BY <1>1, <1>2, <1>3, <2>1, <2>3, <2>4, Finishes
  <2> QED BY <1>1, <2>1, <2>5, AtDone
<1> QED BY <1>4, <1>5

(* The customer data ends the call. *)
LEMMA KeptCustomer == ASSUME ResponseInv, ParseCustomer PROVE Where'
<1> DEFINE information == CustomerInformation(input.info)
           value == IF information = NoInformation THEN Failure ELSE information
<1>1. /\ UNCHANGED <<input, delivery, outcome, archive>> /\ UNCHANGED orderVars
      /\ stage = "customer" /\ Finish(value) /\ stage' = "done"
    BY DEF ParseCustomer, envelopeVars, zipVars, Finish
<1>2. order' = order
    BY <1>1 DEF orderVars
<1>3. /\ delivery \in Deliveries /\ delivery.request.purpose # "versions" /\ Parsed.kind = "initial"
      /\ Accepted(input.response) /\ Accepted(input.cleartext) /\ OrderDataVerdictExact
      /\ step = "expanded" /\ order.kind = "metadata" /\ input.info \in CustomerForms
    BY <1>1 DEF ResponseInv, InputTypes, EnvelopeRead, DocumentsScanned, OrderExpanded, ExactInv
<1>4. delivery.request.purpose = "initial" /\ Admissible(order)
    BY <1>3, ParsedKinds DEF Parsed, OrderDataVerdictExact
<1>5. ResponseAdmissible <=> information # NoInformation
    BY <1>3, <1>4 DEF ResponseAdmissible, Accepted, Parsed
<1>6. information # NoInformation => information.kind = "customer"
    BY AnswerKinds
<1>7. RightsKept(input.info, information)
    BY <1>3, InformationKeepsRights
<1> HIDE DEF information
<1>8. /\ information = NoInformation => value.kind = "refused"
      /\ information # NoInformation => value = information /\ value.kind = "customer"
    BY <1>6 DEF Failure
<1> HIDE DEF value
<1>9. RightsKept(input.info, value)
    BY <1>7, <1>8 DEF RightsKept
<1>10. Returns'
    BY <1>1, <1>2, <1>3, <1>5, <1>8, <1>9, Finishes
<1> QED BY <1>1, <1>10, AtDone

(* Every step, and any response. *)
LEMMA ResponseNext == ResponseInv /\ [Next]_vars => ResponseInv'
<1> SUFFICES ASSUME ResponseInv, [Next]_vars PROVE ResponseInv'
    OBVIOUS
<1>1. InputTypes' /\ ScanInv' /\ ExactInv' /\ BufferInv' /\ ZipInv'
    BY ComponentsKept
<1>2. CASE Next
    BY <1>1, <1>2, KeptScan, KeptScanned, KeptNegotiate, KeptEnvelope, KeptDecode, KeptDecoded,
       KeptExtract, KeptExtracted, KeptCleartext, KeptCustomer DEF Next, Where, ResponseInv
<1>3. CASE UNCHANGED vars
  <2>1. /\ UNCHANGED <<xml, delivery, outcome, archive, member, names, total, content, documents,
                       extraction, stage, input, returned>>
        /\ UNCHANGED orderVars
      BY <1>3 DEF vars, scanVars, envelopeVars, zipVars
  <2>2. UNCHANGED <<order, step>>
      BY <2>1 DEF orderVars
  <2>3. DocumentsScanned' /\ EnvelopeRead'
      BY <2>1 DEF ResponseInv, DocumentsScanned, Accepted, EnvelopeRead, Parsed
  <2>4. OrderExpanded'
      BY <2>1, <2>2 DEF ResponseInv, OrderExpanded, ZipInit
  <2>5. (ResponseAdmissible' <=> ResponseAdmissible) /\ (NegotiatedExactly' <=> NegotiatedExactly)
      BY <2>1, <2>2 DEF ResponseAdmissible, NegotiatedExactly
  <2>6. Returns'
      BY <2>1, <2>5 DEF ResponseInv, Returns, CustomerRightsKept
  <2> QED BY <1>1, <2>3, <2>4, <2>6 DEF ResponseInv
<1> QED BY <1>2, <1>3

(* Any response, before anything is read of it. *)
LEMMA ResponseInit == Receive => ResponseInv
<1> SUFFICES ASSUME NEW doc \in XmlDocuments, NEW delivered \in Deliveries,
                    NEW sent \in OrderForms, NEW archived \in ArchiveForms,
                    NEW cleartext \in XmlDocuments, NEW info \in CustomerForms,
                    NEW hev \in HevForms,
                    InitWith(doc, delivered, sent, archived, cleartext, info, hev)
             PROVE  ResponseInv
    BY DEF Receive
<1>1. /\ input = [response |-> doc, cleartext |-> cleartext, info |-> info, hev |-> hev]
      /\ ScanInit(doc) /\ EnvelopeInit(delivered) /\ OrderInit(sent) /\ ZipInit(archived)
      /\ stage = "response" /\ returned = Nothing
    BY DEF InitWith
<1>2. InputTypes
    BY <1>1 DEF InputTypes, EnvelopeInit, Stages
<1>3. ScanInv /\ ExactInv /\ BufferInv /\ ZipInv
    BY <1>1, ScanStart, ExactInit, BufferInit, ZipStart
<1>4. DocumentsScanned
    BY <1>1 DEF DocumentsScanned, ScanInit
<1>5. EnvelopeRead
    BY <1>1 DEF EnvelopeRead, EnvelopeInit
<1>6. archive = archived /\ ZipInit(archive)
    BY <1>1 DEF ZipInit
<1>7. OrderExpanded
    BY <1>1, <1>6 DEF OrderExpanded
<1> QED BY <1>1, <1>2, <1>3, <1>4, <1>5, <1>7, NothingYet DEF ResponseInv

(* The invariant holds throughout. *)
LEMMA ResponseAlways == Spec => []ResponseInv
BY ResponseInit, ResponseNext, PTL DEF Spec

(* Of a response that is not parsed, nothing is taken. *)
LEMMA UnparsedSigned == outcome = Unparsed => OutcomeIsSigned
BY DEF Unparsed, OutcomeIsSigned

(* Whatever the bank's signature is attached to, for all responses.           *)
THEOREM ResponseSigned == Spec => []OutcomeIsSigned
<1>1. ResponseInv => OutcomeIsSigned
    BY ParsedIsSigned, UnparsedSigned DEF ResponseInv, EnvelopeRead, InputTypes, Parsed
<1> QED BY <1>1, ResponseAlways, PTL

(* Whatever the bank lists as orders, accounts, restrictions and permissions, *)
(* reducing it to BTD changes no right.                                       *)
THEOREM ResponseRights == Spec => []CustomerRightsKept
<1>1. ResponseInv => CustomerRightsKept
    BY DEF ResponseInv, Returns
<1> QED BY <1>1, ResponseAlways, PTL

(* Whatever an archive contains, the documents returned are all its files,    *)
(* once, in order, under the indexes of their entries and with all their      *)
(* bytes.                                                                     *)
THEOREM ResponseDocuments == Spec => []DocumentsAreTheFiles
<1>1. ResponseInv => DocumentsAreTheFiles
    BY DEF ResponseInv, ZipInv
<1> QED BY <1>1, ResponseAlways, PTL

(* Whatever the response declares about itself, no buffer of the decoders or  *)
(* of the extraction exceeds its limit by more than one piece.                *)
THEOREM ResponseBounded == Spec => [](BuffersBounded /\ ExtractionBounded)
<1>1. ResponseInv => BuffersBounded /\ ExtractionBounded
    BY DEF ResponseInv, ZipInv, BufferInv
<1> QED BY <1>1, ResponseAlways, PTL

(* For all responses, limits and chunk sizes: documents or customer data are  *)
(* returned exactly of the responses whose parts are all admissible as        *)
(* wholes; the pieces the scanner, the decoders and the extraction work in    *)
(* decide nothing, and no stop is taken for a refusal.                        *)
THEOREM ResponseExact == Spec => []ReturnedExactly
<1>1. ResponseInv => ReturnedExactly
    BY ScanJudges DEF ResponseInv, Returns, ReturnedExactly, ExactInv, ZipInv
<1> QED BY <1>1, ResponseAlways, PTL
=============================================================================
