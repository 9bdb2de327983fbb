----------------------------- MODULE XmlScanner -----------------------------
(***************************************************************************)
(* parse_xml_document() of xml.py: checks on the raw bytes, then a pass of *)
(* the parser over a _BoundedXmlScanner that only counts, then the parse   *)
(* that builds the tree.  A document is the sequence of callbacks the      *)
(* parser makes for it; names and text are reduced to their sizes.         *)
(***************************************************************************)
EXTENDS Lists, SequencesExt

CONSTANTS
    MaxDepth, MaxElements, MaxText, MaxTotalText, MaxAttributes,
    MaxAttributeBytes, MaxNamespaces, MaxNamespaceBytes, MaxTotalNamespaceBytes,
    NoId          \* the attribute is not an ID

(* XmlLimits refuses a limit that is not positive. *)
ASSUME XmlLimits ==
    {MaxDepth, MaxElements, MaxText, MaxTotalText, MaxAttributes, MaxAttributeBytes,
     MaxNamespaces, MaxNamespaceBytes, MaxTotalNamespaceBytes} \subseteq Nat \ {0}

VARIABLES
    xml,      \* the document: raw form, whether it is well formed, its callbacks
    pos,      \* callbacks made so far
    scan,     \* the scanner's counters, and its _failure
    scanned   \* "scanning", "accepted" or "refused"

scanVars == <<xml, pos, scan, scanned>>

(* What the checks on the raw bytes tell apart. *)
RawForms == {"utf8", "too_large", "nul", "not_utf8", "other_encoding", "doctype"}

XmlDocuments ==
    [raw: RawForms, wellFormed: BOOLEAN,
     events: Seq([kind: {"start", "end", "data", "start_ns", "comment", "pi"}, bytes: Nat,
                  attributes: Seq([id: STRING \cup {NoId}, bytes: Nat]), xinclude: BOOLEAN])]

NewScanner == [depth |-> 0, elements |-> 0, text |-> 0, totalText |-> 0,
               attributeBytes |-> 0, ids |-> {}, namespaces |-> 0,
               namespaceBytes |-> 0, failure |-> FALSE]

ScanInit(doc) ==
    /\ xml = doc
    /\ pos = 0
    /\ scan = NewScanner
    /\ scanned = "scanning"

(* The same for a later document, when a response carries one. *)
ScanNext(doc) ==
    /\ xml' = doc
    /\ pos' = 0
    /\ scan' = NewScanner
    /\ scanned' = "scanning"

AttributeBytes(attributes) == SumOf([i \in 1..Len(attributes) |-> attributes[i].bytes])
IdsOf(attributes) == {a.id : a \in ToSet(attributes)} \ {NoId}

(* An ID that occurred before, in this element or in another. *)
DuplicateId(seen, attributes) ==
    \E i \in 1..Len(attributes) :
        /\ attributes[i].id # NoId
        /\ \/ attributes[i].id \in seen
           \/ \E j \in 1..(i - 1) : attributes[j].id = attributes[i].id

start(s, e) ==
    LET t == [s EXCEPT !.elements = @ + 1, !.depth = @ + 1, !.text = 0,
                       !.attributeBytes = @ + AttributeBytes(e.attributes),
                       !.ids = @ \cup IdsOf(e.attributes)]
    IN  [t EXCEPT !.failure = \/ @
                              \/ t.elements > MaxElements
                              \/ t.depth > MaxDepth
                              \/ Len(e.attributes) > MaxAttributes
                              \/ e.xinclude
                              \/ t.attributeBytes > MaxAttributeBytes
                              \/ DuplicateId(s.ids, e.attributes)]

data(s, e) ==
    LET t == [s EXCEPT !.text = @ + e.bytes, !.totalText = @ + e.bytes]
    IN  [t EXCEPT !.failure = @ \/ t.text > MaxText \/ t.totalText > MaxTotalText]

start_ns(s, e) ==
    LET t == [s EXCEPT !.namespaces = @ + 1, !.namespaceBytes = @ + e.bytes]
    IN  [t EXCEPT !.failure = \/ @
                              \/ t.namespaces > MaxNamespaces
                              \/ e.bytes > MaxNamespaceBytes
                              \/ t.namespaceBytes > MaxTotalNamespaceBytes]

end(s, e) == [s EXCEPT !.depth = @ - 1, !.text = 0]

(* comment() and pi(). *)
forbidden(s, e) == [s EXCEPT !.failure = TRUE]

(* The checks before the first callback. *)
RefuseRaw ==
    /\ scanned = "scanning" /\ pos = 0 /\ xml.raw # "utf8"
    /\ scanned' = "refused"
    /\ UNCHANGED <<xml, pos, scan>>

(* The parser makes the next callback.  It may go on doing so after one has   *)
(* raised, which is why the scanner remembers its failure.                    *)
Callback ==
    /\ scanned = "scanning" /\ xml.raw = "utf8" /\ pos < Len(xml.events)
    /\ LET e == xml.events[pos + 1]
       IN  scan' = CASE e.kind = "start" -> start(scan, e)
                     [] e.kind = "data" -> data(scan, e)
                     [] e.kind = "start_ns" -> start_ns(scan, e)
                     [] e.kind = "end" -> end(scan, e)
                     [] OTHER -> forbidden(scan, e)
    /\ pos' = pos + 1
    /\ UNCHANGED <<xml, scanned>>

(* A raised failure leaves the parser at once. *)
Propagate ==
    /\ scanned = "scanning" /\ scan.failure
    /\ scanned' = "refused"
    /\ UNCHANGED <<xml, pos, scan>>

CloseForgetting ==   \* mutant: close() does not raise the remembered failure
    /\ scanned = "scanning" /\ xml.raw = "utf8" /\ pos = Len(xml.events)
    /\ scanned' = IF xml.wellFormed THEN "accepted" ELSE "refused"
    /\ UNCHANGED <<xml, pos, scan>>

(* The end of the input: a syntax error, or close(), which raises what was    *)
(* remembered; then the tree is built from the same bytes.                    *)
Close ==
    /\ scanned = "scanning" /\ xml.raw = "utf8" /\ pos = Len(xml.events)
    /\ scanned' = IF xml.wellFormed /\ ~scan.failure THEN "accepted" ELSE "refused"
    /\ UNCHANGED <<xml, pos, scan>>

ScanStep == RefuseRaw \/ Callback \/ Propagate \/ Close

-----------------------------------------------------------------------------
(* What the limits mean for a whole document. *)

(* The callbacks of one kind, and what they carry, position by position. *)
Count(doc, kind) ==
    [n \in 1..Len(doc.events) |-> IF doc.events[n].kind = kind THEN 1 ELSE 0]
Bytes(doc, kind) ==
    [n \in 1..Len(doc.events) |-> IF doc.events[n].kind = kind THEN doc.events[n].bytes ELSE 0]
AttributeSizes(doc) ==
    [n \in 1..Len(doc.events) |->
        IF doc.events[n].kind = "start" THEN AttributeBytes(doc.events[n].attributes) ELSE 0]

Starts(doc) == {n \in 1..Len(doc.events) : doc.events[n].kind = "start"}

(* Elements open after n callbacks. *)
Nested(doc, n) == Running(Count(doc, "start"))[n] - Running(Count(doc, "end"))[n]

(* A text node: callbacks i to j with no tag between them, and its bytes. *)
IsTextNode(doc, i, j) ==
    \A k \in i..j : doc.events[k].kind \notin {"start", "end"}
TextBytes(doc, i, j) == Running(Bytes(doc, "data"))[j] - Running(Bytes(doc, "data"))[i - 1]

(* No two attributes of the document have the same ID. *)
UniqueIds(doc) ==
    \A m, n \in Starts(doc) :
        \A i \in 1..Len(doc.events[m].attributes), j \in 1..Len(doc.events[n].attributes) :
            doc.events[m].attributes[i].id = doc.events[n].attributes[j].id
                => (m = n /\ i = j) \/ doc.events[m].attributes[i].id = NoId

Harmless(doc) ==
    /\ doc.raw = "utf8" /\ doc.wellFormed
    /\ \A n \in 1..Len(doc.events) : doc.events[n].kind \notin {"comment", "pi"}
    /\ \A n \in Starts(doc) : ~doc.events[n].xinclude
    /\ UniqueIds(doc)

WithinLimits(doc) ==
    LET size == Len(doc.events) IN
    /\ SumOf(Count(doc, "start")) <= MaxElements
    /\ \A n \in 1..size : Nested(doc, n) <= MaxDepth
    /\ \A n \in Starts(doc) : Len(doc.events[n].attributes) <= MaxAttributes
    /\ SumOf(AttributeSizes(doc)) <= MaxAttributeBytes
    /\ \A i, j \in 1..size : i <= j /\ IsTextNode(doc, i, j) => TextBytes(doc, i, j) <= MaxText
    /\ SumOf(Bytes(doc, "data")) <= MaxTotalText
    /\ SumOf(Count(doc, "start_ns")) <= MaxNamespaces
    /\ \A n \in 1..size : doc.events[n].kind = "start_ns" =>
           doc.events[n].bytes <= MaxNamespaceBytes
    /\ SumOf(Bytes(doc, "start_ns")) <= MaxTotalNamespaceBytes

(* The counters of the scan accept exactly the documents that are within the  *)
(* limits as a whole: a text node, the nesting and the IDs are judged right   *)
(* wherever the callbacks split them, one byte over is over, and a failure    *)
(* the parser did not pass on is not forgotten.                               *)
XmlVerdictExact ==
    scanned # "scanning" =>
        (scanned = "accepted" <=> Harmless(xml) /\ WithinLimits(xml))
=============================================================================
