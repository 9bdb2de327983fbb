------------------------------ MODULE OrderData ------------------------------
(***************************************************************************)
(* From the order-data fragments of a transaction to the cleartext: the    *)
(* checks on each fragment, base64, E002 (AES-CBC with X9.23 padding) and  *)
(* zlib, under the limits of ProtocolLimits.  _decode_btd_payload works in *)
(* bounded pieces with a checkpoint before each, so that a deadline or a   *)
(* cancellation gets through; _decode_metadata_order_data decodes and      *)
(* decrypts the whole at once.  Both inflate with _decompress_zlib.        *)
(*                                                                         *)
(* Bytes are reduced to their number.                                      *)
(***************************************************************************)
EXTENDS ProtocolLimits, Lists

CONSTANTS
    MaxXmlInput,      \* XmlLimits.max_input_bytes
    MaxSegment,       \* _MAX_SEGMENT_CHARACTERS
    Base64Chunk,      \* _BASE64_CHUNK_BYTES
    InflateChunk,     \* the slices of _decompress_zlib
    AesBlock          \* _AES_BLOCK_BYTES

ASSUME OrderDataLimits ==
    {MaxXmlInput, MaxSegment, Base64Chunk, InflateChunk, AesBlock} \subseteq Nat \ {0}
ASSUME WholeQuantums == Base64Chunk % 4 = 0

VARIABLES
    order,       \* the order data the bank sent
    step,        \* "collect", "decode", "feed", "inflate", "expanded" or an end
    frag,        \* fragments taken so far
    encoded,     \* running size of the fragments collected
    pending,     \* _iter_strict_base64: characters not yet decoded
    ciphertext,  \* ciphertext_size
    block,       \* iter_decrypt_e002: ciphertext held back
    compressed,  \* size of the buffer of decrypted bytes
    offset,      \* compressed bytes given to the inflater
    result       \* size of the buffer of inflated bytes

orderVars == <<order, step, frag, encoded, pending, ciphertext, block, compressed,
               offset, result>>

Least(a, b) == IF a <= b THEN a ELSE b
Most(a, b) == IF a >= b THEN a ELSE b

(* The encoded data: one entry per fragment with its number of characters and *)
(* of "=" at its end, and whether it is otherwise compact base64 of the right *)
(* shape; the value of the last padding byte after decryption; and what zlib  *)
(* makes of it: how much each slice expands to, where the stream ends, and    *)
(* whether it is broken.                                                      *)
Fragments == order.fragments

Padding(fragments) == fragments[Len(fragments)].pad

Decoded(characters, pad) == (characters \div 4) * 3 - pad

encoded_order_data_limit == ((MaxCompressed + AesBlock + 2) \div 3) * 4

(* _validate_order_data_fragment *)
FragmentValid(f, last) ==
    /\ f.clean
    /\ f.size \in 1..MaxSegment
    /\ f.size % 4 = 0
    /\ last \/ f.pad = 0

OutputLimit == IF order.kind = "btd" THEN MaxDecompressed
               ELSE Least(MaxDecompressed, MaxXmlInput)

OrderForms ==
    [kind: {"btd", "metadata"},
     fragments: Seq([size: Nat, pad: 0..2, clean: BOOLEAN]) \ {<<>>},
     aesPad: Nat, expands: Seq(Nat), ends: Int, broken: Nat]

OrderInit(o) ==
    /\ order = o
    /\ step = "collect"
    /\ frag = 0 /\ encoded = 0 /\ pending = 0 /\ ciphertext = 0
    /\ block = 0 /\ compressed = 0 /\ offset = 0 /\ result = 0

Refuse(condition, next) == step' = IF condition THEN "refused" ELSE next

(* Metadata leaves the last fragment to the check in                          *)
(* _decode_metadata_order_data.                                               *)
LimitCollected(last) == order.kind = "btd" \/ ~last

(* The caller collects the fragments one by one. *)
Collect ==
    /\ step = "collect" /\ frag < Len(Fragments)
    /\ LET f == Fragments[frag + 1]
           last == frag + 1 = Len(Fragments)
           size == encoded + f.size
       IN  /\ encoded' = IF FragmentValid(f, last) THEN size ELSE encoded
           /\ Refuse(\/ ~FragmentValid(f, last)
                     \/ size > encoded_order_data_limit /\ LimitCollected(last),
                     "collect")
    /\ frag' = frag + 1
    /\ UNCHANGED <<order, pending, ciphertext, block, compressed, offset, result>>

(* The first lines of both decoders, which add up the sizes again. *)
BeginDecoding ==
    /\ step = "collect" /\ frag = Len(Fragments)
    /\ Refuse(encoded > encoded_order_data_limit,
              IF order.kind = "btd" THEN "feed" ELSE "decode")
    /\ frag' = 0
    /\ UNCHANGED <<order, encoded, pending, ciphertext, block, compressed, offset, result>>

(* _decode_metadata_order_data up to the inflater. *)
DecodeWhole ==
    /\ step = "decode"
    /\ LET size == Decoded(encoded, Padding(Fragments))
           refused == \/ size = 0 \/ size > MaxCompressed + AesBlock
                      \/ size % AesBlock # 0
                      \/ order.aesPad \notin 1..AesBlock
       IN  /\ ciphertext' = size
           /\ compressed' = IF refused THEN 0 ELSE size - order.aesPad
           /\ Refuse(refused \/ size - order.aesPad > MaxCompressed, "inflate")
    /\ UNCHANGED <<order, frag, encoded, pending, block, offset, result>>

TakeFragment ==
    /\ step = "feed" /\ frag < Len(Fragments) /\ pending <= Base64Chunk
    /\ frag' = frag + 1
    /\ pending' = pending + Fragments[frag + 1].size
    /\ UNCHANGED <<order, step, encoded, ciphertext, block, compressed, offset, result>>

(* iter_decrypt_e002 decrypts whole blocks and keeps back at least one. *)
Decryptable(held) == IF held >= AesBlock THEN held - AesBlock - (held % AesBlock) ELSE 0

(* bytes more of ciphertext: counted, decrypted, counted again. *)
Feed(bytes) ==
    LET held == block + bytes
    IN  /\ ciphertext' = ciphertext + bytes
        /\ IF ciphertext' > MaxCompressed + AesBlock
           THEN UNCHANGED <<block, compressed>>
           ELSE /\ block' = held - Decryptable(held)
                /\ compressed' = compressed + Decryptable(held)

HasFullChunkOrEqual == pending >= Base64Chunk   \* mutant: the last chunk may be full

(* A full chunk is decoded only when more follows it, so that the padding is  *)
(* left to the last one; "=" in it is refused.                                *)
HasFullChunk == pending > Base64Chunk

ContainsPadding(characters) ==
    /\ frag = Len(Fragments)
    /\ pending - characters < Padding(Fragments)

DecodeChunk ==
    /\ step = "feed" /\ HasFullChunk
    /\ pending' = pending - Base64Chunk
    /\ IF ContainsPadding(Base64Chunk)
       THEN step' = "refused" /\ UNCHANGED <<ciphertext, block, compressed>>
       ELSE /\ Feed(Decoded(Base64Chunk, 0))
            /\ Refuse(\/ ciphertext' > MaxCompressed + AesBlock
                      \/ compressed' > MaxCompressed,
                      "feed")
    /\ UNCHANGED <<order, frag, encoded, offset, result>>

(* The last chunk, and the final block with its padding. *)
DecodeLast ==
    /\ step = "feed" /\ ~HasFullChunk /\ frag = Len(Fragments)
    /\ LET bytes == Decoded(pending, Padding(Fragments))
           held == block + bytes
           final == held - Decryptable(held)
           size == compressed + Decryptable(held) + (AesBlock - order.aesPad)
       IN  /\ ciphertext' = ciphertext + bytes
           /\ block' = final
           /\ LET refused == \/ ciphertext' > MaxCompressed + AesBlock
                             \/ final # AesBlock
                             \/ order.aesPad \notin 1..AesBlock
              IN  /\ compressed' = IF refused THEN compressed ELSE size
                  /\ Refuse(refused \/ size > MaxCompressed \/ size <= 0, "inflate")
    /\ pending' = 0
    /\ UNCHANGED <<order, frag, encoded, offset, result>>

(* External: zlib.  A slice that completes a part of the stream yields it, up *)
(* to max_length bytes, where 0 means without a limit.                        *)
Inflated(available, max_length) ==
    IF max_length = 0 THEN available ELSE Least(available, max_length)

Slice == offset \div InflateChunk + 1
Expansion(o, n) == IF n \in DOMAIN o.expands THEN o.expands[n] ELSE 0

AllowanceExact == OutputLimit - result   \* mutant: no byte to show an overrun

(* The output asked for is one byte more than what is left, so that an        *)
(* overrun shows and the request never becomes 0.                             *)
Allowance == OutputLimit + 1 - result

InflateSlice ==
    /\ step = "inflate" /\ offset < compressed
    /\ offset' = Least(offset + InflateChunk, compressed)
    /\ LET output == Inflated(Expansion(order, Slice), Allowance)
       IN  /\ result' = IF order.broken = Slice THEN result ELSE result + output
           /\ Refuse(\/ order.broken = Slice
                     \/ result' > OutputLimit
                     \/ output < Expansion(order, Slice),     \* unconsumed_tail
                     "inflate")
    /\ UNCHANGED <<order, frag, encoded, pending, ciphertext, block, compressed>>

RatioBase == IF order.kind = "btd" THEN compressed ELSE Most(1, compressed)

FinishWhenEnded ==   \* mutant: waits for the end of the stream
    /\ step = "inflate" /\ offset = compressed /\ order.ends = compressed
    /\ Refuse(\/ compressed = 0
              \/ order.kind = "btd" /\ result = 0
              \/ result > RatioBase * MaxRatio,
              "expanded")
    /\ UNCHANGED <<order, frag, encoded, pending, ciphertext, block, compressed, offset,
                   result>>

(* flush() finds nothing more; the stream must have ended with the data, the  *)
(* BTD payload must not be empty, and neither may exceed the ratio.           *)
FinishInflating ==
    /\ step = "inflate" /\ offset = compressed
    /\ Refuse(\/ order.ends # compressed \/ compressed = 0   \* not eof, or unused_data
              \/ order.kind = "btd" /\ result = 0
              \/ result > RatioBase * MaxRatio,
              "expanded")
    /\ UNCHANGED <<order, frag, encoded, pending, ciphertext, block, compressed, offset,
                   result>>

(* checkpoint(), and before that each reading of a spooled response: the      *)
(* deadline has passed or the host has cancelled.                             *)
StopDecoding ==
    /\ order.kind = "btd"
    /\ \/ step \in {"feed", "inflate"}
       \/ step = "collect" /\ frag < Len(Fragments)
    /\ step' = "stopped"
    /\ UNCHANGED <<order, frag, encoded, pending, ciphertext, block, compressed, offset,
                   result>>

DecodingStep ==
    \/ Collect \/ BeginDecoding \/ DecodeWhole
    \/ TakeFragment \/ DecodeChunk \/ DecodeLast
    \/ InflateSlice \/ FinishInflating \/ StopDecoding

(* The decoding of some order data by itself. *)
DecodingSpec == (\E o \in OrderForms : OrderInit(o)) /\ [][DecodingStep]_orderVars

-----------------------------------------------------------------------------
(* The order data a bank may send under the limits, said without the chunks,  *)
(* the running totals and the limits on the encoded and the encrypted form.   *)
FragmentSizes(fragments) == [n \in 1..Len(fragments) |-> fragments[n].size]
TotalSize(fragments) == SumOf(FragmentSizes(fragments))

EncryptedSize(o) == Decoded(TotalSize(o.fragments), Padding(o.fragments))
DataSize(o) == EncryptedSize(o) - o.aesPad

(* What the slices of the compressed data expand to, one by one. *)
SliceCount(size) == (size + InflateChunk - 1) \div InflateChunk
Expansions(o) == [n \in 1..SliceCount(DataSize(o)) |-> Expansion(o, n)]
TotalExpansion(o) == SumOf(Expansions(o))

Admissible(o) ==
    LET size == EncryptedSize(o)
        data == DataSize(o)
        cleartext == TotalExpansion(o)
    IN  /\ \A n \in 1..Len(o.fragments) :
               FragmentValid(o.fragments[n], n = Len(o.fragments))
        /\ size > 0 /\ size % AesBlock = 0
        /\ o.aesPad \in 1..AesBlock
        /\ data \in 1..MaxCompressed
        /\ o.broken \notin 1..SliceCount(data) /\ o.ends = data
        /\ cleartext <= MaxDecompressed
        /\ cleartext <= data * MaxRatio
        /\ IF o.kind = "btd" THEN cleartext > 0 ELSE cleartext <= MaxXmlInput

(* Working in pieces decides nothing: order data is expanded exactly if it is *)
(* admissible as a whole, in both decoders.  In particular the limits on the  *)
(* encoded and the encrypted size refuse nothing the others admit, wherever   *)
(* chunks and fragments meet, and a stop is never taken for a refusal (which  *)
(* would send the bank a negative receipt).                                   *)
OrderDataVerdictExact ==
    /\ step = "expanded" => Admissible(order) /\ result = TotalExpansion(order)
    /\ step = "refused" => ~Admissible(order)

(* No buffer ever holds more than its limit and one piece, and the inflated   *)
(* data never more than one byte too many, also in the step that refuses.     *)
BuffersBounded ==
    /\ encoded <= encoded_order_data_limit + MaxSegment
    /\ pending <= Base64Chunk + MaxSegment
    /\ block < 2 * AesBlock
    /\ compressed <= MaxCompressed + Base64Chunk + 2 * AesBlock
    /\ result <= OutputLimit + 1
=============================================================================
