------------------------------ MODULE DataArrays ------------------------------
(***************************************************************************)
(* vtkXml.ts: how the DataArrays of a VTK XML file are decoded. A file is  *)
(* written by VTK, array after array; the parsers read them in any order.  *)
(*                                                                         *)
(* A byte is known by what it belongs to: <<"int", v, n>> is the n-th byte *)
(* of the header integer v, <<"zip", block, n>> of a compressed block, and *)
(* <<"data", array, n>> of the values of an array. A base64 character is   *)
(* the group of bytes that it and its three neighbours encode.             *)
(***************************************************************************)
EXTENDS Integers, Sequences, SequencesExt

CONSTANTS
    Documents,      \* the VTKFile attributes that a file may have
    BlockSize,      \* of the compressor, in bytes
    Formats, Types, Tuples,
    Failed,         \* what cannot be decoded
    MaxArrays       \* bound: the arrays of a file

VARIABLES
    document,       \* the attributes of VTKFile
    appended,       \* the bytes after the underscore of AppendedData
    arrays,         \* the DataArray elements: [format, type, tuples, text, offset]
    decoded         \* the array that was read last, and its values

arrayVars == <<document, appended, arrays, decoded>>

TypeBytes ==
    [type \in {"Int8", "UInt8", "Int16", "UInt16", "Int32", "UInt32", "Int64", "UInt64",
               "Float32", "Float64"} |->
        CASE type \in {"Int8", "UInt8"} -> 1
          [] type \in {"Int16", "UInt16"} -> 2
          [] type \in {"Int32", "UInt32", "Float32"} -> 4
          [] OTHER -> 8]

HeaderBytes == TypeBytes[document.headerType]
Compressed == document.compressor # ""

\* parseVtkXmlDocument: a file that it does not know how to read is refused.
Accepted ==
    /\ document.appendedData \in {"none", "raw"}
    /\ document.byteOrder = "LittleEndian"
    /\ document.compressor \in {"", "vtkZLibDataCompressor"}
    /\ document.headerType \in {"UInt32", "UInt64"}

Sum(numbers) == FoldSeq(LAMBDA a, b : a + b, 0, numbers)
Prefix(seq, count) == SubSeq(seq, 1, IF count < Len(seq) THEN count ELSE Len(seq))
Rest(seq, count) == SubSeq(seq, count + 1, Len(seq))
CeilDiv(n, d) == (n + d - 1) \div d

-----------------------------------------------------------------------------
(* The writer, which is not part of the program *)

BytesOf(n, type, tuples) == [k \in 1..tuples * TypeBytes[type] |-> <<"data", n, k>>]
Ints(values) ==
    FlattenSeq([i \in DOMAIN values |-> [b \in 1..HeaderBytes |-> <<"int", values[i], b>>]])
Deflated(block) == [k \in 1..Len(block) + 1 |-> <<"zip", block, k>>]
Blocks(bytes) ==
    [b \in 1..CeilDiv(Len(bytes), BlockSize) |-> Prefix(Rest(bytes, (b - 1) * BlockSize), BlockSize)]
Header(bytes) ==
    IF ~Compressed THEN Ints(<<Len(bytes)>>)
    ELSE Ints(<<Len(Blocks(bytes)), BlockSize, Len(bytes) % BlockSize>>
              \o [b \in DOMAIN Blocks(bytes) |-> Len(Deflated(Blocks(bytes)[b]))])
Body(bytes) ==
    IF ~Compressed THEN bytes
    ELSE FlattenSeq([b \in DOMAIN Blocks(bytes) |-> Deflated(Blocks(bytes)[b])])
Base64(bytes) ==
    [c \in 1..4 * CeilDiv(Len(bytes), 3) |-> Prefix(Rest(bytes, 3 * ((c - 1) \div 4)), 3)]
Text(bytes) ==
    IF Compressed THEN Base64(Header(bytes)) \o Base64(Body(bytes))
    ELSE Base64(Header(bytes) \o Body(bytes))

Tupled(bytes, width) == [k \in 1..Len(bytes) \div width |-> SubSeq(bytes, (k - 1) * width + 1, k * width)]
Written(n) == Tupled(BytesOf(n, arrays[n].type, arrays[n].tuples), TypeBytes[arrays[n].type])

-----------------------------------------------------------------------------
(* The reader *)

\* Padding in the middle of a text, where two streams meet, is refused.
FromBase64(text) ==
    IF \E c \in 1..Len(text) - 4 : Len(text[c]) < 3 THEN Failed
    ELSE FlattenSeq([g \in 1..Len(text) \div 4 |-> text[4 * g]])

ReadInts(bytes, count) ==
    [i \in 1..count |-> LET byte == bytes[(i - 1) * HeaderBytes + 1]
                        IN IF byte[1] = "int" /\ byte[3] = 1 THEN byte[2] ELSE 0]

Inflated(bytes) ==
    IF bytes # <<>> /\ bytes = Deflated(bytes[1][2]) THEN bytes[1][2] ELSE Failed

DecodePlain(bytes) ==
    LET count == ReadInts(bytes, 1)[1] IN
    IF Len(bytes) < HeaderBytes \/ Len(bytes) < HeaderBytes + count THEN Failed
    ELSE Prefix(Rest(bytes, HeaderBytes), count)

DecodeBlocks(bytes, blockCount) ==
    LET header == ReadInts(bytes, 3 + blockCount)
        sizes == Rest(header, 3)
        room == header[2] * (blockCount - 1) + (IF header[3] = 0 THEN header[2] ELSE header[3])
        From(b) == HeaderBytes * (3 + blockCount) + Sum(Prefix(sizes, b - 1))
        chunks == [b \in 1..blockCount |-> Inflated(Prefix(Rest(bytes, From(b)), sizes[b]))]
    IN IF (\E b \in 1..blockCount : chunks[b] = Failed)
          \/ Sum([b \in 1..blockCount |-> Len(chunks[b])]) > room
       THEN Failed
       ELSE FlattenSeq(chunks)

DecodeBlock(bytes) ==
    IF ~Compressed THEN DecodePlain(bytes)
    ELSE IF Len(bytes) < HeaderBytes THEN Failed
    ELSE LET blockCount == ReadInts(bytes, 1)[1] IN
         IF blockCount < 1 \/ Len(bytes) < HeaderBytes * (3 + blockCount) THEN Failed
         ELSE DecodeBlocks(bytes, blockCount)

\* With a compressor, header and payload are two base64 streams.
DecodeOneStream(text) ==
    IF FromBase64(text) = Failed THEN Failed ELSE DecodeBlock(FromBase64(text))
DecodeInline(text) ==
    IF text = <<>> THEN Failed
    ELSE IF ~Compressed THEN DecodeBlock(FromBase64(text))
    ELSE LET blockCount == ReadInts(FromBase64(Prefix(text, 4 * CeilDiv(HeaderBytes, 3))), 1)[1]
             headerChars == 4 * CeilDiv(HeaderBytes * (3 + blockCount), 3)
         IN DecodeBlock(FromBase64(Prefix(text, headerChars)) \o FromBase64(Rest(text, headerChars)))

BytesToTyped(bytes, type) ==
    IF bytes = Failed \/ Len(bytes) % TypeBytes[type] # 0 THEN Failed
    ELSE Tupled(bytes, TypeBytes[type])

Decode(array) ==
    CASE array.format = "ascii" -> array.text
      [] array.format = "binary" -> BytesToTyped(DecodeInline(array.text), array.type)
      [] array.format = "appended" ->
            IF array.offset >= Len(appended) THEN Failed
            ELSE BytesToTyped(DecodeBlock(Rest(appended, array.offset)), array.type)

-----------------------------------------------------------------------------
NothingDecoded == [array |-> 0, values |-> <<>>]

ArraysInit ==
    /\ document \in Documents
    /\ appended = <<>> /\ arrays = <<>> /\ decoded = NothingDecoded

WriteArray(format, type, tuples) ==
    LET n == Len(arrays) + 1
        bytes == BytesOf(n, type, tuples)
    IN /\ n <= MaxArrays
       /\ format = "appended" => document.appendedData # "none"
       /\ arrays' = Append(arrays,
            [format |-> format, type |-> type, tuples |-> tuples, offset |-> Len(appended),
             text |-> CASE format = "ascii" -> Tupled(bytes, TypeBytes[type])
                        [] format = "binary" -> Text(bytes)
                        [] OTHER -> <<>>])
       /\ appended' = IF format = "appended" THEN appended \o Header(bytes) \o Body(bytes) ELSE appended
       /\ decoded' = NothingDecoded /\ UNCHANGED document

ReadArray(n) ==
    /\ decoded' = [array |-> n, values |-> IF Accepted THEN Decode(arrays[n]) ELSE Failed]
    /\ UNCHANGED <<document, appended, arrays>>

ArraysNext ==
    \/ \E format \in Formats, type \in Types, tuples \in Tuples : WriteArray(format, type, tuples)
    \/ \E n \in DOMAIN arrays : ReadArray(n)

-----------------------------------------------------------------------------
(* Properties *)

(* Every array of a file that is accepted is read as it was written: with  *)
(* 4- and 8-byte headers, inline or appended at any offset, compressed or  *)
(* not, whether the last block is full or short and wherever the padding   *)
(* of the header's base64 stream falls (decodeBlock, decodeInline). Empty  *)
(* arrays of compressed files have no blocks, and are refused.             *)
ReadAsWritten ==
    LET n == decoded.array IN
    n # 0 /\ Accepted =>
        decoded.values = IF Compressed /\ arrays[n].format # "ascii" /\ arrays[n].tuples = 0
                         THEN Failed ELSE Written(n)
=============================================================================
