------------------------------- MODULE CircBuf -------------------------------
(***************************************************************************)
(* The circular buffer of circbuffer.c, in which every event, every        *)
(* transmit request and every asynchronous frame crosses from one side of  *)
(* the stack to the other.                                                 *)
(*                                                                         *)
(* The buffer is a ring of bytes in shared memory.  A block is a UINT32    *)
(* holding its data size, then the data, padded to a multiple of four; it  *)
(* wraps around the end of the ring wherever it has to.  The body of every *)
(* function runs between circbuf_lock and circbuf_unlock on one semaphore  *)
(* shared by all processes, so that each call is one step here.            *)
(*                                                                         *)
(* The size word is one cell, at the offset of its first byte.  queue and  *)
(* starts are history: the blocks in the ring and the offsets they begin   *)
(* at.  No code reads them.                                                *)
(***************************************************************************)
EXTENDS Integers, Sequences

CONSTANTS
    Block,          \* the blocks written: [msg, size], size in bytes
    ReadSize,       \* the sizes of the buffers that blocks are read into
    RequestedSize   \* the size passed to circbuf_alloc

ASSUME SizesAssumption ==
    /\ \A b \in Block : b.size \in Nat \ {0}
    /\ ReadSize \subseteq Nat \ {0}
    /\ RequestedSize \in Nat \ {0}

Alignment == 4      \* CIRCBUF_BLOCK_ALIGNMENT
HeaderSize == 4     \* sizeof(UINT32)

(* (n + 3) & ~3                                                            *)
AlignUp(n) == ((n + Alignment - 1) \div Alignment) * Alignment
FullSize(n) == AlignUp(n) + HeaderSize

BufferSize == AlignUp(RequestedSize)
Offset == 0 .. BufferSize - 1

DataOf(b) == [k \in 1 .. b.size |-> <<b.msg, k>>]
SizeCell(n) == <<"size", n>>

VARIABLES
    readOffset, writeOffset, freeSize, dataCount,   \* tCircBufHeader
    mem,                                            \* the ring
    ret, out,                                       \* what calls return
    queue, starts                                   \* history

headerVars == <<readOffset, writeOffset, freeSize, dataCount>>
vars == <<headerVars, mem, ret, out, queue, starts>>

Init ==
    /\ readOffset = 0 /\ writeOffset = 0
    /\ freeSize = BufferSize /\ dataCount = 0
    /\ mem = [a \in Offset |-> SizeCell(0)]
    /\ ret = "Ok" /\ out = <<>>
    /\ queue = <<>> /\ starts = <<>>

-----------------------------------------------------------------------------
(* OPLK_MEMCPY of the bytes s to offset at, and from there.                *)
CopyTo(m, at, s) ==
    [a \in Offset |-> IF at <= a /\ a < at + Len(s) THEN s[a - at + 1] ELSE m[a]]
CopyFrom(m, at, n) == [k \in 1 .. n |-> m[at + k - 1]]
StoreSize(m, at, n) == [m EXCEPT ![at] = SizeCell(n)]

Refused(code) ==
    ret' = code /\ UNCHANGED <<headerVars, mem, out, queue, starts>>

BlockWrittenUncounted(b) ==   \* mutant: dataCount is forgotten
    /\ freeSize' = freeSize - FullSize(b.size)
    /\ ret' = "Ok"
    /\ queue' = Append(queue, b) /\ starts' = Append(starts, writeOffset)
    /\ UNCHANGED <<readOffset, dataCount, out>>

(* The bookkeeping both write functions end with.                          *)
BlockWritten(b) ==
    /\ freeSize' = freeSize - FullSize(b.size)
    /\ dataCount' = dataCount + 1
    /\ ret' = "Ok"
    /\ queue' = Append(queue, b) /\ starts' = Append(starts, writeOffset)
    /\ UNCHANGED <<readOffset, out>>

WriteOffsetAfter(n) ==
    IF writeOffset + FullSize(n) < BufferSize
    THEN writeOffset + FullSize(n)
    ELSE IF writeOffset + FullSize(n) = BufferSize
         THEN 0
         ELSE AlignUp(n) - (BufferSize - writeOffset - HeaderSize)

(* The bytes that fit between the size word and the end of the ring.       *)
ChunkAt(offset) == BufferSize - offset - HeaderSize

StoreBlock(b) ==
    LET data == DataOf(b)
        m == StoreSize(mem, writeOffset, b.size)
        chunk == ChunkAt(writeOffset)
    IN  IF writeOffset + FullSize(b.size) <= BufferSize
        THEN CopyTo(m, writeOffset + HeaderSize, data)
        ELSE CopyTo(CopyTo(m, writeOffset + HeaderSize, SubSeq(data, 1, chunk)),
                    0, SubSeq(data, chunk + 1, b.size))

WriteData(b) ==
    IF FullSize(b.size) > freeSize
    THEN Refused("OutOfMem")
    ELSE /\ mem' = StoreBlock(b)
         /\ writeOffset' = WriteOffsetAfter(b.size)
         /\ BlockWritten(b)

(* The same block given in two parts, the first of n bytes: an event and   *)
(* its argument.                                                           *)
StoreTwoParts(b, n) ==
    LET data1 == SubSeq(DataOf(b), 1, n)
        data2 == SubSeq(DataOf(b), n + 1, b.size)
        m == StoreSize(mem, writeOffset, b.size)
        at == writeOffset + HeaderSize
        chunk == ChunkAt(writeOffset)
        part == IF n <= chunk THEN chunk - n ELSE n - chunk
    IN  CASE writeOffset + FullSize(b.size) <= BufferSize ->
               CopyTo(CopyTo(m, at, data1), at + n, data2)
          [] writeOffset + FullSize(b.size) > BufferSize /\ n <= chunk ->
               CopyTo(CopyTo(CopyTo(m, at, data1),
                             at + n, SubSeq(data2, 1, part)),
                      0, SubSeq(data2, part + 1, b.size - n))
          [] writeOffset + FullSize(b.size) > BufferSize /\ n > chunk ->
               CopyTo(CopyTo(CopyTo(m, at, SubSeq(data1, 1, chunk)),
                             0, SubSeq(data1, chunk + 1, n)),
                      part, data2)

WriteMultipleData(b, n) ==
    IF FullSize(b.size) > freeSize
    THEN Refused("OutOfMem")
    ELSE /\ mem' = StoreTwoParts(b, n)
         /\ writeOffset' = WriteOffsetAfter(b.size)
         /\ BlockWritten(b)

LoadBlockPastHeader(size) ==   \* mutant: skips a size word after the wrap
    LET at == readOffset + HeaderSize
        chunk == ChunkAt(readOffset)
    IN  IF readOffset + FullSize(size) <= BufferSize
        THEN CopyFrom(mem, at, size)
        ELSE CopyFrom(mem, at, chunk) \o CopyFrom(mem, HeaderSize, size - chunk)

LoadBlock(size) ==
    LET at == readOffset + HeaderSize
        chunk == ChunkAt(readOffset)
    IN  IF readOffset + FullSize(size) <= BufferSize
        THEN CopyFrom(mem, at, size)
        ELSE CopyFrom(mem, at, chunk) \o CopyFrom(mem, 0, size - chunk)

ReadOffsetAfter(n) ==
    IF readOffset + FullSize(n) < BufferSize
    THEN readOffset + FullSize(n)
    ELSE IF readOffset + FullSize(n) = BufferSize
         THEN 0
         ELSE AlignUp(n) - ChunkAt(readOffset)

(* n is the size of the caller's buffer.                                   *)
ReadData(n) ==
    LET dataSize == mem[readOffset][2]
    IN  IF freeSize = BufferSize THEN Refused("NoReadableData")
        ELSE IF dataSize > n THEN Refused("ReadsizeTooSmall")
        ELSE /\ out' = LoadBlock(dataSize)
             /\ readOffset' = ReadOffsetAfter(dataSize)
             /\ freeSize' = freeSize + FullSize(dataSize)
             /\ dataCount' = dataCount - 1
             /\ ret' = "Ok"
             /\ queue' = Tail(queue) /\ starts' = Tail(starts)
             /\ UNCHANGED <<writeOffset, mem>>

ResetForgetsReadOffset ==   \* mutant
    /\ writeOffset' = 0
    /\ freeSize' = BufferSize /\ dataCount' = 0
    /\ queue' = <<>> /\ starts' = <<>>
    /\ UNCHANGED <<readOffset, mem, ret, out>>

Reset ==
    /\ readOffset' = 0 /\ writeOffset' = 0
    /\ freeSize' = BufferSize /\ dataCount' = 0
    /\ queue' = <<>> /\ starts' = <<>>
    /\ UNCHANGED <<mem, ret, out>>

Next ==
    \/ \E b \in Block : WriteData(b)
    \/ \E b \in Block : \E n \in 1 .. b.size - 1 : WriteMultipleData(b, n)
    \/ \E n \in ReadSize : ReadData(n)
    \/ Reset

Spec == Init /\ [][Next]_vars

-----------------------------------------------------------------------------
(* Types: tCircBufHeader, the codes of tCircBufError and the history.      *)
TypeOK ==
    /\ readOffset \in Offset /\ writeOffset \in Offset
    /\ freeSize \in 0 .. BufferSize /\ dataCount \in Nat
    /\ ret \in {"Ok", "OutOfMem", "NoReadableData", "ReadsizeTooSmall"}
    /\ queue \in Seq(Block) /\ starts \in Seq(Offset)

(* "We assume that there is at least size to store the size header"        *)
(* (circbuffer.c:420): a size word is never split by the end of the ring,  *)
(* and never written past it.                                              *)
HeaderFits == writeOffset + HeaderSize <= BufferSize

(* The count the event threads and the DLL CAL poll without taking the     *)
(* lock is the number of blocks there are to read.                         *)
CountIsExact == dataCount = Len(queue)

(* The free size and the two offsets agree: what lies between them is what *)
(* is not free.                                                            *)
OffsetsAgree ==
    \/ writeOffset = readOffset /\ freeSize \in {0, BufferSize}
    \/ writeOffset > readOffset /\ freeSize = BufferSize - (writeOffset - readOffset)
    \/ writeOffset < readOffset /\ freeSize = readOffset - writeOffset

(* The header in shared memory describes the ring after every call: where  *)
(* the next block goes, how many there are and how much room is left.      *)
HeaderConsistent == TypeOK /\ HeaderFits /\ CountIsExact /\ OffsetsAgree

(* The ring is a first-in first-out queue of blocks: whatever is written,  *)
(* in one part or in two, wrapped or not, is read back whole, unchanged,   *)
(* once and in order.                                                      *)
SizeOf(b) == b.size
Fits(b) == FullSize(b.size) <= BufferSize
Queue == INSTANCE Fifo
ImplementsFifo == Queue!Spec
=============================================================================
