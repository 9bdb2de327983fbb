---------------------------- MODULE ZipContainer ----------------------------
(***************************************************************************)
(* _extract_btd_documents() of btd.py: from an expanded BTD payload to its *)
(* documents.  A ZIP archive is the list of its members: what their        *)
(* entries declare and what reading them yields.  "refused" stands for any *)
(* exception but a stop: download() answers all of them with a negative    *)
(* receipt, also those of zipfile or zlib that pass through unconverted.   *)
(***************************************************************************)
EXTENDS ProtocolLimits, Lists, SequencesExt

CONSTANT ZipChunk   \* _ZIP_CHUNK_BYTES

ASSUME ZipChunkPositive == ZipChunk \in Nat \ {0}

VARIABLES
    archive,    \* the payload: container type, size, and the members of a ZIP
    member,     \* index of the member being read, from 1
    names,      \* names seen
    total,      \* total_size: declared bytes of the members so far
    content,    \* bytes of the current member in memory
    documents,  \* the documents so far: <<ZipMemberIdentity index, size>>
    extraction  \* "open", "member", "read", "last", "extracted", "refused" or "stopped"

zipVars == <<archive, member, names, total, content, documents, extraction>>

(* XML and SVC: download() refuses their descriptors before any request. *)
ContainerTypes == {"NONE", "ZIP", "XML", "SVC"}

(* A name is the number of its path; size is that of the whole payload. *)
ArchiveForms ==
    [container: ContainerTypes, readable: BOOLEAN, size: Nat,
     members: Seq([name: Nat, declared: Nat, packed: Nat, actual: Nat, directory: BOOLEAN,
                   safe: BOOLEAN, intact: BOOLEAN, nested: BOOLEAN])]

ZipInit(a) ==
    /\ archive = a
    /\ member = 0 /\ names = {} /\ total = 0 /\ content = 0
    /\ documents = <<>>
    /\ extraction = "open"

(* The index of a document that is not from a ZIP. *)
NoIndex == -1

OpenContainer ==
    /\ extraction = "open"
    /\ \/ /\ archive.size \in 1..MaxDecompressed /\ archive.container = "NONE"
          /\ documents' = <<[index |-> NoIndex, size |-> archive.size]>>
          /\ extraction' = "extracted"
          /\ UNCHANGED member
       \/ /\ archive.size \in 1..MaxDecompressed /\ archive.container = "ZIP"
          /\ archive.readable /\ Len(archive.members) \in 1..MaxMembers
          /\ member' = 1
          /\ extraction' = "member"
          /\ UNCHANGED documents
       \/ /\ \/ archive.size \notin 1..MaxDecompressed
             \/ archive.container \in {"XML", "SVC"}
             \/ /\ archive.container = "ZIP"
                /\ ~archive.readable \/ Len(archive.members) \notin 1..MaxMembers
          /\ extraction' = "refused"
          /\ UNCHANGED <<member, documents>>
    /\ UNCHANGED <<archive, names, total, content>>

Current == archive.members[member]

EntryAcceptedTwice(m, seen) == m.safe   \* mutant: names may repeat

(* A path that is safe and new, no encryption, no symbolic link. *)
EntryAccepted(m, seen) == m.safe /\ m.name \notin seen

(* A directory is opened and read as well: zipfile may find it damaged. *)
DirectoryEmpty(m) == m.declared = 0 /\ m.packed = 0 /\ m.actual = 0 /\ m.intact

SizeAccepted(m) ==
    /\ m.declared > 0
    /\ m.declared <= MaxMemberBytes
    /\ m.declared <= (IF m.packed > 1 THEN m.packed ELSE 1) * MaxRatio
    /\ total + m.declared <= MaxDecompressed

NextMember == IF member = Len(archive.members) THEN "last" ELSE "member"

(* The entry of the next member is checked and its reading begins. *)
EnterMember ==
    /\ extraction = "member"
    /\ EntryAccepted(Current, names)
    /\ names' = names \cup {Current.name}
    /\ \/ /\ Current.directory /\ DirectoryEmpty(Current)
          /\ member' = member + 1
          /\ extraction' = NextMember
          /\ UNCHANGED total
       \/ /\ ~Current.directory /\ SizeAccepted(Current)
          /\ total' = total + Current.declared
          /\ extraction' = "read"
          /\ UNCHANGED member
    /\ content' = 0
    /\ UNCHANGED <<archive, documents>>

RefuseMember ==
    /\ extraction = "member"
    /\ \/ ~EntryAccepted(Current, names)
       \/ Current.directory /\ ~DirectoryEmpty(Current)
       \/ ~Current.directory /\ ~SizeAccepted(Current)
    /\ extraction' = "refused"
    /\ UNCHANGED <<archive, member, names, total, content, documents>>

TooLongNever(m, bytes) == FALSE   \* mutant: the entry's declaration is trusted

(* One turn of the read loop: more bytes than the entry declares are refused  *)
(* as soon as they show.                                                      *)
TooLong(m, bytes) == bytes > m.declared \/ bytes > MaxMemberBytes

ReadMember ==
    /\ extraction = "read" /\ content < Current.actual
    /\ content' = IF content + ZipChunk <= Current.actual THEN content + ZipChunk
                  ELSE Current.actual
    /\ extraction' = IF TooLong(Current, content') THEN "refused" ELSE "read"
    /\ UNCHANGED <<archive, member, names, total, documents>>

FinishMemberByPosition ==   \* mutant: the index counts documents, not members
    /\ extraction = "read" /\ content = Current.actual
    /\ IF content = Current.declared /\ Current.intact /\ ~Current.nested
       THEN /\ documents' = Append(documents, [index |-> Len(documents), size |-> content])
            /\ member' = member + 1
            /\ content' = 0
            /\ extraction' = NextMember
       ELSE /\ extraction' = "refused"
            /\ UNCHANGED <<documents, member, content>>
    /\ UNCHANGED <<archive, names, total>>

(* All read: the size must be the declared one, the archive must not report   *)
(* an error, and the content must not be an archive itself.                   *)
FinishMember ==
    /\ extraction = "read" /\ content = Current.actual
    /\ IF content = Current.declared /\ Current.intact /\ ~Current.nested
       THEN /\ documents' = Append(documents, [index |-> member - 1, size |-> content])
            /\ member' = member + 1
            /\ content' = 0
            /\ extraction' = NextMember
       ELSE /\ extraction' = "refused"
            /\ UNCHANGED <<documents, member, content>>
    /\ UNCHANGED <<archive, names, total>>

(* The members are through; an archive of directories only has no documents.  *)
FinishArchive ==
    /\ extraction = "last"
    /\ extraction' = IF documents = <<>> THEN "refused" ELSE "extracted"
    /\ UNCHANGED <<archive, member, names, total, content, documents>>

(* checkpoint(): at the start, for each member, for each chunk. *)
StopExtraction ==
    /\ \/ extraction \in {"open", "member"}
       \/ extraction = "read" /\ content < Current.actual
    /\ extraction' = "stopped"
    /\ UNCHANGED <<archive, member, names, total, content, documents>>

ExtractionStep ==
    \/ OpenContainer \/ EnterMember \/ RefuseMember \/ ReadMember \/ FinishMember
    \/ FinishArchive \/ StopExtraction

-----------------------------------------------------------------------------
Sizes(items) == [i \in 1..Len(items) |-> items[i].size]

(* The archive as a whole. *)
Files(a) == {i \in 1..Len(a.members) : ~a.members[i].directory}
FileSizes(a) == [i \in 1..Len(a.members) |-> IF i \in Files(a) THEN a.members[i].actual ELSE 0]
ArchiveAdmissible(a) ==
    LET members == ToSet(a.members)
        files == {m \in members : ~m.directory}
    IN  /\ a.readable /\ Len(a.members) <= MaxMembers /\ files # {}
        /\ \A i, j \in 1..Len(a.members) :
               a.members[i].name = a.members[j].name => i = j
        /\ \A m \in members : m.safe
        /\ \A m \in members \ files : DirectoryEmpty(m)
        /\ \A m \in files : /\ m.intact /\ ~m.nested /\ m.actual = m.declared
                            /\ m.actual \in 1..MaxMemberBytes
                            /\ m.packed > 1 => m.actual <= m.packed * MaxRatio
                            /\ m.packed <= 1 => m.actual <= MaxRatio
        /\ SumOf(FileSizes(a)) <= MaxDecompressed

ContainerAdmissible(a) ==
    /\ a.size \in 1..MaxDecompressed
    /\ \/ a.container = "NONE"
       \/ a.container = "ZIP" /\ ArchiveAdmissible(a)

(* An archive is extracted exactly if it is admissible as a whole, and a stop *)
(* is never taken for a refusal.                                              *)
ContainerVerdictExact ==
    /\ extraction = "extracted" => ContainerAdmissible(archive)
    /\ extraction = "refused" => ~ContainerAdmissible(archive)

(* What is returned is every file of the archive, once, in its order, under   *)
(* the index of its entry (which the staging of a document and the identity   *)
(* in its result rely on), with all its bytes.                                *)
DocumentsAreTheFiles ==
    extraction = "extracted" /\ archive.container = "ZIP" =>
        /\ {documents[n].index : n \in 1..Len(documents)} = {i - 1 : i \in Files(archive)}
        /\ \A m, n \in 1..Len(documents) : m < n => documents[m].index < documents[n].index
        /\ \A n \in 1..Len(documents) :
               documents[n].size = archive.members[documents[n].index + 1].actual

(* What the extraction holds in memory exceeds the limit on the decompressed  *)
(* data by one chunk at most, whatever the entries declare.                   *)
ExtractionBounded ==
    /\ archive.container = "ZIP" =>
           SumOf(Sizes(documents)) + content <= MaxDecompressed + ZipChunk
    /\ content <= MaxMemberBytes + ZipChunk
=============================================================================
