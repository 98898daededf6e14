----------------------------- MODULE WireBuffer -----------------------------
(***************************************************************************)
(* Buffer (ChatServer/Buffer.cpp, and its copy in ChatClient): a vector of *)
(* bytes to which a frame is written field by field and from which it is   *)
(* read back in the same order.  The writers are called BE and the readers *)
(* LE; both put the lowest byte first.                                     *)
(*                                                                         *)
(* A buffer is a record of its three members and of whether every access   *)
(* so far was inside the vector.  The vector is a sequence: the byte at    *)
(* index k of the code is m_Data[k + 1].                                   *)
(***************************************************************************)
EXTENDS Integers, Sequences

Byte == 0 .. 255

Zeros(n) == [k \in 1 .. n |-> 0]

NewBuffer(size) ==
    [m_Data |-> Zeros(size), m_ReadIndex |-> 0, m_WriteIndex |-> 0, inBounds |-> TRUE]

\* Mutant of Reset: the next frame is read from behind the last one.
ResetWriteOnly(buffer) == [buffer EXCEPT !.m_WriteIndex = 0]

\* The bytes stay until the next frame is written over them.
Reset(buffer) == [buffer EXCEPT !.m_ReadIndex = 0, !.m_WriteIndex = 0]
-----------------------------------------------------------------------------
(* Writing.                                                                *)

\* Mutant of GrowVector: the vector grows by half its size.
GrowVectorByHalf(data) == data \o Zeros(Len(data) \div 2)

GrowVector(data) == data \o Zeros(Len(data))

\* The vector before size bytes are written to it: doubled once, however
\* many bytes they are.
CheckBufferCapacity(buffer, size) ==
    IF buffer.m_WriteIndex + size >= Len(buffer.m_Data)
    THEN GrowVector(buffer.m_Data)
    ELSE buffer.m_Data

\* The data with the given bytes at index, as far as they lie in it.
Overwritten(data, index, bytes) ==
    [k \in DOMAIN data |->
        IF k - index \in DOMAIN bytes THEN bytes[k - index] ELSE data[k]]

\* WriteString; the other writers do the same with the bytes of a number.
Write(buffer, bytes) ==
    LET data == CheckBufferCapacity(buffer, Len(bytes))
        next == buffer.m_WriteIndex + Len(bytes)
    IN  [buffer EXCEPT
            !.m_Data = Overwritten(data, buffer.m_WriteIndex, bytes),
            !.m_WriteIndex = next,
            !.inBounds = @ /\ next <= Len(data)]

\* WriteUInt32BE and WriteUInt16BE: data, data >> 8 and so on, cut to bytes.
BytesOf32(number) ==
    << number % 256, (number \div 256) % 256,
       (number \div 65536) % 256, (number \div 16777216) % 256 >>

BytesOf16(number) == << number % 256, (number \div 256) % 256 >>
-----------------------------------------------------------------------------
(* Reading.                                                                *)

\* The next size bytes lie in the vector.
Readable(buffer, size) == buffer.m_ReadIndex + size <= Len(buffer.m_Data)

Advance(buffer, size) == [buffer EXCEPT !.m_ReadIndex = @ + size]

\* What the readers return; the caller advances the index as they do.
ReadUInt32LE(buffer) ==
    LET byte(k) == buffer.m_Data[buffer.m_ReadIndex + k + 1]
    IN  byte(0) + 256 * byte(1) + 65536 * byte(2) + 16777216 * byte(3)

ReadUInt16LE(buffer) ==
    LET byte(k) == buffer.m_Data[buffer.m_ReadIndex + k + 1]
    IN  byte(0) + 256 * byte(1)

ReadString(buffer, length) ==
    SubSeq(buffer.m_Data, buffer.m_ReadIndex + 1, buffer.m_ReadIndex + length)
=============================================================================
