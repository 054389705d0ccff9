---------------------------- MODULE CircBufProofs ----------------------------
(***************************************************************************)
(* The circular buffer, proved for every ring size and every set of        *)
(* blocks: the header describes the ring after every call, and the ring is *)
(* a first-in first-out queue of whole blocks.                             *)
(***************************************************************************)
EXTENDS CircBuf, SequenceTheorems, TLAPS

-----------------------------------------------------------------------------
(* Going round the ring *)

(* How far a is behind o, and the offset n bytes behind o.                 *)
Distance(o, a) == IF a >= o THEN a - o ELSE a - o + BufferSize
Behind(o, n) == IF o + n < BufferSize THEN o + n ELSE o + n - BufferSize

(* Sizes are positive, and padded ones multiples of four.                  *)
LEMMA AlignFacts ==
    ASSUME NEW n \in Nat \ {0}
    PROVE  /\ AlignUp(n) \in Nat /\ AlignUp(n) % 4 = 0
           /\ n <= AlignUp(n) /\ AlignUp(n) < n + 4
BY SMT DEF AlignUp, Alignment

LEMMA BufferFacts ==
    /\ BufferSize \in Nat \ {0} /\ BufferSize % 4 = 0
    /\ Offset = 0 .. BufferSize - 1
<1>1. BufferSize \in Nat /\ BufferSize % 4 = 0 /\ RequestedSize <= BufferSize
  BY AlignFacts, SizesAssumption DEF BufferSize
<1>. QED BY <1>1, SizesAssumption DEF Offset

LEMMA BlockFacts ==
    ASSUME NEW b \in Block
    PROVE  /\ b.size \in Nat \ {0}
           /\ FullSize(b.size) \in Nat \ {0} /\ FullSize(b.size) % 4 = 0
           /\ FullSize(b.size) = AlignUp(b.size) + 4
           /\ AlignUp(b.size) \in Nat
           /\ b.size + 4 <= FullSize(b.size) /\ FullSize(b.size) < b.size + 8
<1>1. b.size \in Nat \ {0}
  BY SizesAssumption
<1>. QED BY <1>1, AlignFacts, SMT DEF FullSize, HeaderSize

(* All places a block reaches, from where it begins.                       *)
LEMMA BehindOffset ==
    ASSUME NEW o \in Offset, NEW n \in 0 .. BufferSize
    PROVE  Behind(o, n) \in Offset
BY BufferFacts, SMT DEF Behind

LEMMA DistanceBehind ==
    ASSUME NEW o \in Offset, NEW n \in Nat, n < BufferSize
    PROVE  Distance(o, Behind(o, n)) = n
BY BufferFacts, SMT DEF Behind, Distance

LEMMA BehindDistance ==
    ASSUME NEW o \in Offset, NEW a \in Offset
    PROVE  Distance(o, a) \in 0 .. BufferSize - 1 /\ Behind(o, Distance(o, a)) = a
BY BufferFacts, SMT DEF Behind, Distance

(* A byte of a block that lies within the u bytes behind r is none of the  *)
(* n bytes that follow them, if there is room for those.                   *)
LEMMA Apart ==
    ASSUME NEW r \in Offset, NEW s \in Offset, NEW u \in Nat, NEW d \in Nat, NEW n \in Nat,
           u + n <= BufferSize, n > 0, Distance(r, s) + d < u
    PROVE  /\ Behind(s, d) \in Offset
           /\ Distance(Behind(r, u), Behind(s, d)) >= n
           /\ Behind(s, d) # Behind(r, u)
BY BufferFacts, SMT DEF Behind, Distance

(* Distances after r has moved on by n bytes.                              *)
LEMMA Shifted ==
    ASSUME NEW r \in Offset, NEW s \in Offset, NEW n \in Nat, n <= Distance(r, s)
    PROVE  Distance(Behind(r, n), s) = Distance(r, s) - n
BY BufferFacts, SMT DEF Behind, Distance

-----------------------------------------------------------------------------
(* What a write leaves in the ring *)

Bytes(b) == {<<b.msg, k>> : k \in 1 .. b.size}

(* s is bytes lo + 1 to hi of the data of block b.                         *)
IsPart(b, s, lo, hi) ==
    /\ s \in Seq(Bytes(b)) /\ Len(s) = hi - lo
    /\ \A k \in 1 .. hi - lo : s[k] = <<b.msg, lo + k>>

(* The ring after block b is written: its size word at writeOffset, its    *)
(* bytes from four places on, going round.                                 *)
Stored(b) ==
    [a \in Offset |->
        IF a = writeOffset THEN SizeCell(b.size)
        ELSE IF Distance(writeOffset, a) \in 4 .. b.size + 3
             THEN <<b.msg, Distance(writeOffset, a) - 3>>
             ELSE mem[a]]

(* The whole data of a block is a part of it, ...                          *)
LEMMA WholeBlock ==
    ASSUME NEW b \in Block
    PROVE  IsPart(b, DataOf(b), 0, b.size)
<1>1. b.size \in Nat /\ b.size - 0 = b.size
  BY BlockFacts
<1>2. DataOf(b) \in [1 .. b.size -> Bytes(b)]
  BY DEF DataOf, Bytes
<1>3. DataOf(b) \in Seq(Bytes(b))
  BY <1>1, <1>2, SeqDef
<1>4. Len(DataOf(b)) = b.size
  BY <1>1, <1>2, <1>3, LenProperties
<1>5. \A k \in 1 .. b.size : DataOf(b)[k] = <<b.msg, 0 + k>>
  BY <1>1 DEF DataOf
<1>. QED BY <1>1, <1>3, <1>4, <1>5 DEF IsPart

(* ... and so is every slice of a part.                                    *)
LEMMA PartOfPart ==
    ASSUME NEW b \in Block, NEW s, NEW lo \in Nat, NEW hi \in Nat, IsPart(b, s, lo, hi),
           NEW i \in Nat, NEW j \in Nat, NEW lo2 \in Nat, NEW hi2 \in Nat,
           i = lo2 - lo + 1, j = hi2 - lo, lo <= lo2, lo2 <= hi2, hi2 <= hi
    PROVE  IsPart(b, SubSeq(s, i, j), lo2, hi2)
<1>1. \A k \in i .. j : k \in 1 .. hi - lo
  OBVIOUS
<1>2. \A k \in i .. j : s[k] \in Bytes(b)
  BY <1>1, ElementOfSeq DEF IsPart
<1>3. /\ SubSeq(s, i, j) \in Seq(Bytes(b))
      /\ Len(SubSeq(s, i, j)) = IF i <= j THEN j - i + 1 ELSE 0
      /\ \A k \in 1 .. j - i + 1 : SubSeq(s, i, j)[k] = s[i + k - 1]
  BY <1>2, SubSeqProperties
<1>4. Len(SubSeq(s, i, j)) = hi2 - lo2
  BY <1>3
<1>5. ASSUME NEW k \in 1 .. hi2 - lo2
      PROVE  SubSeq(s, i, j)[k] = <<b.msg, lo2 + k>>
  <2>1. /\ k \in 1 .. j - i + 1 /\ i + k - 1 \in i .. j
        /\ lo + (i + k - 1) = lo2 + k
    OBVIOUS
  <2>2. SubSeq(s, i, j)[k] = s[i + k - 1]
    BY <1>3, <2>1
  <2>3. s[i + k - 1] = <<b.msg, lo + (i + k - 1)>>
    BY <1>1, <2>1 DEF IsPart
  <2>. QED BY <2>1, <2>2, <2>3
<1>. QED BY <1>3, <1>4, <1>5 DEF IsPart

(* A part cut in two after its first c bytes.                              *)
LEMMA PartCut ==
    ASSUME NEW b \in Block, NEW s, NEW lo \in Nat, NEW hi \in Nat, IsPart(b, s, lo, hi),
           NEW mid \in Nat, lo <= mid, mid <= hi,
           NEW c \in Nat, NEW n \in Nat, c = mid - lo, n = hi - lo
    PROVE  IsPart(b, SubSeq(s, 1, c), lo, mid) /\ IsPart(b, SubSeq(s, c + 1, n), mid, hi)
<1>1. /\ 1 \in Nat /\ c + 1 \in Nat /\ lo <= lo /\ hi <= hi
      /\ 1 = lo - lo + 1 /\ c + 1 = mid - lo + 1
  OBVIOUS
<1>2. IsPart(b, SubSeq(s, 1, c), lo, mid)
  BY <1>1, PartOfPart, Zenon
<1>3. IsPart(b, SubSeq(s, c + 1, n), mid, hi)
  BY <1>1, PartOfPart, Zenon
<1>. QED BY <1>2, <1>3

(* m with bytes lo + 1 to hi of block b from offset at on.                 *)
Filled(b, m, at, lo, hi) ==
    [a \in Offset |-> IF at <= a /\ a < at + (hi - lo) THEN <<b.msg, lo + (a - at + 1)>> ELSE m[a]]

(* Copying a part fills exactly the offsets it is copied to.               *)
LEMMA CopyPart ==
    ASSUME NEW b \in Block, NEW s, NEW lo \in Nat, NEW hi \in Nat, IsPart(b, s, lo, hi),
           NEW m, NEW at \in Nat
    PROVE  CopyTo(m, at, s) = Filled(b, m, at, lo, hi)
<1>1. ASSUME NEW a \in Offset
      PROVE  CopyTo(m, at, s)[a] = Filled(b, m, at, lo, hi)[a]
  <2>1. a \in Nat
    BY BufferFacts
  <2>2. CopyTo(m, at, s)[a] = IF at <= a /\ a < at + (hi - lo) THEN s[a - at + 1] ELSE m[a]
    BY DEF CopyTo, IsPart
  <2>3. at <= a /\ a < at + (hi - lo) => a - at + 1 \in 1 .. hi - lo
    BY <2>1
  <2>. QED BY <2>2, <2>3 DEF IsPart, Filled
<1>. QED BY <1>1 DEF CopyTo, Filled

(* What must hold of the header for a block to be written at writeOffset.  *)
Room(b) ==
    /\ writeOffset \in Offset /\ writeOffset % 4 = 0
    /\ mem = [a \in Offset |-> mem[a]]
    /\ FullSize(b.size) <= BufferSize

(* Arithmetic of a write: where the data wraps, and the places it takes.   *)
LEMMA WriteFacts ==
    ASSUME NEW b \in Block, Room(b)
    PROVE  /\ writeOffset \in Nat /\ writeOffset + HeaderSize <= BufferSize
           /\ ChunkAt(writeOffset) \in Nat
           /\ writeOffset + FullSize(b.size) > BufferSize =>
                 ChunkAt(writeOffset) < b.size
<1>1. /\ writeOffset \in Nat /\ writeOffset % 4 = 0 /\ writeOffset < BufferSize
      /\ BufferSize \in Nat /\ BufferSize % 4 = 0
  BY BufferFacts DEF Room
<1>2. writeOffset + 4 <= BufferSize
  BY <1>1, SMT
<1>3. ASSUME writeOffset + FullSize(b.size) > BufferSize
      PROVE  BufferSize - writeOffset - 4 < b.size
  <2>1. /\ FullSize(b.size) \in Nat /\ FullSize(b.size) % 4 = 0
        /\ FullSize(b.size) < b.size + 8 /\ b.size \in Nat
    BY BlockFacts
  <2>2. writeOffset + FullSize(b.size) >= BufferSize + 4
    BY <1>1, <1>3, <2>1, SMT
  <2>. QED BY <1>1, <2>1, <2>2, SMT
<1>. QED BY <1>1, <1>2, <1>3, SMT DEF ChunkAt, HeaderSize

(* Filling on where filling ended.                                         *)
LEMMA FilledOn ==
    ASSUME NEW b \in Block, NEW m, NEW at \in Nat, NEW lo \in Nat, NEW mid \in Nat, NEW hi \in Nat,
           lo <= mid, mid <= hi, NEW at2 \in Nat, at2 = at + (mid - lo)
    PROVE  Filled(b, Filled(b, m, at, lo, mid), at2, mid, hi) = Filled(b, m, at, lo, hi)
<1>1. ASSUME NEW a \in Offset
      PROVE  Filled(b, Filled(b, m, at, lo, mid), at2, mid, hi)[a] = Filled(b, m, at, lo, hi)[a]
  <2>1. a \in Nat
    BY BufferFacts
  <2>2. mid + (a - at2 + 1) = lo + (a - at + 1)
    BY <2>1
  <2>3. at <= a /\ a < at + (hi - lo) <=>
          (at2 <= a /\ a < at2 + (hi - mid)) \/ (at <= a /\ a < at + (mid - lo))
    BY <2>1
  <2>. QED BY <2>2, <2>3 DEF Filled
<1>. QED BY <1>1 DEF Filled

(* The bytes of a block go into one stretch of the ring, or into two.      *)
LEMMA StoredFills ==
    ASSUME NEW b \in Block, Room(b),
           NEW m, m = StoreSize(mem, writeOffset, b.size),
           NEW at, at = writeOffset + HeaderSize,
           NEW chunk, chunk = ChunkAt(writeOffset)
    PROVE  /\ writeOffset + FullSize(b.size) <= BufferSize =>
                Stored(b) = Filled(b, m, at, 0, b.size)
           /\ writeOffset + FullSize(b.size) > BufferSize =>
                Stored(b) = Filled(b, Filled(b, m, at, 0, chunk), 0, chunk, b.size)
<1>. DEFINE size == b.size
            wo == writeOffset
            d(a) == Distance(writeOffset, a)
            m1 == Filled(b, m, at, 0, chunk)
<1>1. /\ wo \in Nat /\ wo + 4 <= BufferSize /\ at = wo + 4 /\ HeaderSize = 4
      /\ chunk = BufferSize - wo - 4 /\ chunk \in Nat
      /\ wo + FullSize(size) > BufferSize => chunk < size
  BY WriteFacts DEF ChunkAt, HeaderSize
<1>2. /\ BufferSize \in Nat /\ Offset = 0 .. BufferSize - 1
      /\ FullSize(size) <= BufferSize /\ FullSize(size) \in Nat
      /\ size \in Nat \ {0} /\ size + 4 <= FullSize(size)
  BY BufferFacts, BlockFacts DEF Room
<1>3. \A a \in Offset : m[a] = IF a = wo THEN SizeCell(size) ELSE mem[a]
  BY DEF StoreSize, Room
<1>4. \A a \in Offset :
        Stored(b)[a] = IF a = wo THEN SizeCell(size)
                       ELSE IF d(a) \in 4 .. size + 3 THEN <<b.msg, d(a) - 3>> ELSE mem[a]
  BY DEF Stored
<1>5. ASSUME wo + FullSize(size) <= BufferSize, NEW a \in Offset
      PROVE  Stored(b)[a] = Filled(b, m, at, 0, size)[a]
  <2>1. /\ at <= a /\ a < at + (size - 0) <=> d(a) \in 4 .. size + 3
        /\ d(a) \in 4 .. size + 3 => 0 + (a - at + 1) = d(a) - 3 /\ a # wo
    BY <1>1, <1>2, <1>5, SMTT(30) DEF Distance
  <2>2. Filled(b, m, at, 0, size)[a] =
          IF at <= a /\ a < at + (size - 0) THEN <<b.msg, 0 + (a - at + 1)>> ELSE m[a]
    BY DEF Filled
  <2>. HIDE DEF d, size
  <2>. QED BY <1>3, <1>4, <2>1, <2>2
<1>6. ASSUME wo + FullSize(size) > BufferSize, NEW a \in Offset
      PROVE  Stored(b)[a] = Filled(b, m1, 0, chunk, size)[a]
  <2>1. /\ 0 <= a /\ a < 0 + (size - chunk) =>
             d(a) \in 4 .. size + 3 /\ a # wo /\ chunk + (a - 0 + 1) = d(a) - 3
        /\ at <= a /\ a < at + (chunk - 0) =>
             d(a) \in 4 .. size + 3 /\ a # wo /\ 0 + (a - at + 1) = d(a) - 3
        /\ d(a) \in 4 .. size + 3 =>
             \/ 0 <= a /\ a < 0 + (size - chunk)
             \/ at <= a /\ a < at + (chunk - 0)
    BY <1>1, <1>2, <1>6, SMTT(30) DEF Distance
  <2>2. /\ m1[a] = IF at <= a /\ a < at + (chunk - 0) THEN <<b.msg, 0 + (a - at + 1)>> ELSE m[a]
        /\ Filled(b, m1, 0, chunk, size)[a] =
             IF 0 <= a /\ a < 0 + (size - chunk) THEN <<b.msg, chunk + (a - 0 + 1)>> ELSE m1[a]
    BY DEF Filled
  <2>. HIDE DEF m1, d, size
  <2>. QED BY <1>3, <1>4, <2>1, <2>2
<1>. QED BY <1>5, <1>6 DEF Stored, Filled

(* Writing a block in one part ...                                         *)
LEMMA StoreBlockStores ==
    ASSUME NEW b \in Block, Room(b)
    PROVE  StoreBlock(b) = Stored(b)
<1>. DEFINE size == b.size
            wo == writeOffset
            data == DataOf(b)
            m == StoreSize(mem, writeOffset, b.size)
            chunk == ChunkAt(writeOffset)
            at == writeOffset + HeaderSize
<1>1. /\ at \in Nat /\ 0 \in Nat /\ chunk \in Nat /\ wo \in Nat
      /\ size \in Nat /\ FullSize(size) \in Nat /\ BufferSize \in Nat
      /\ wo + FullSize(size) > BufferSize => chunk < size
  BY WriteFacts, BufferFacts, BlockFacts DEF HeaderSize
<1>2. IsPart(b, data, 0, size)
  BY WholeBlock
<1>3. CASE wo + FullSize(size) <= BufferSize
  <2>1. StoreBlock(b) = CopyTo(m, at, data)
    BY <1>3 DEF StoreBlock
  <2>2. Stored(b) = Filled(b, m, at, 0, size)
    BY <1>3, StoredFills
  <2>. HIDE DEF m, size, at, data
  <2>. QED BY <1>1, <1>2, <2>1, <2>2, CopyPart
<1>4. CASE wo + FullSize(size) > BufferSize
  <2>. DEFINE first == SubSeq(data, 1, chunk)
              second == SubSeq(data, chunk + 1, size)
              m1 == Filled(b, m, at, 0, chunk)
  <2>1. StoreBlock(b) = CopyTo(CopyTo(m, at, first), 0, second)
    <3>1. ~(wo + FullSize(size) <= BufferSize)
      BY <1>1, <1>4
    <3>. QED BY <3>1 DEF StoreBlock
  <2>2. Stored(b) = Filled(b, m1, 0, chunk, size)
    BY <1>4, StoredFills
  <2>. HIDE DEF data, chunk, size, m, at
  <2>3. /\ chunk = chunk - 0 /\ size = size - 0 /\ 0 <= chunk /\ chunk <= size
    BY <1>1, <1>4
  <2>4. IsPart(b, first, 0, chunk) /\ IsPart(b, second, chunk, size)
    BY <1>1, <1>2, <2>3, PartCut
  <2>. HIDE DEF first, second
  <2>5. CopyTo(m, at, first) = m1
    BY <1>1, <2>4, CopyPart
  <2>. HIDE DEF m1
  <2>6. CopyTo(m1, 0, second) = Filled(b, m1, 0, chunk, size)
    BY <1>1, <2>4, CopyPart
  <2>. QED BY <2>1, <2>2, <2>5, <2>6
<1>. QED BY <1>1, <1>3, <1>4

(* ... and in two leave the same bytes in the ring, wherever the parts     *)
(* meet the end of it.                                                     *)
LEMMA StoreTwoPartsStores ==
    ASSUME NEW b \in Block, Room(b), NEW n \in 1 .. b.size - 1
    PROVE  StoreTwoParts(b, n) = Stored(b)
<1>. DEFINE size == b.size
            wo == writeOffset
            data1 == SubSeq(DataOf(b), 1, n)
            data2 == SubSeq(DataOf(b), n + 1, b.size)
            m == StoreSize(mem, writeOffset, b.size)
            chunk == ChunkAt(writeOffset)
            at == writeOffset + HeaderSize
            next == writeOffset + HeaderSize + n
            wrapped == wo + FullSize(size) > BufferSize
            m1 == Filled(b, m, at, 0, chunk)
<1>1. /\ at \in Nat /\ 0 \in Nat /\ chunk \in Nat /\ wo \in Nat /\ next = at + n
      /\ size \in Nat /\ FullSize(size) \in Nat /\ BufferSize \in Nat
      /\ wrapped => chunk < size
  BY WriteFacts, BufferFacts, BlockFacts DEF HeaderSize
<1>2. n \in Nat /\ n < size
  <2>. HIDE DEF size
  <2>1. n \in 1 .. size - 1
    BY DEF size
  <2>. QED BY <1>1, <2>1
<1>3. IsPart(b, DataOf(b), 0, size)
  BY WholeBlock
<1>. HIDE DEF size
<1>4. IsPart(b, data1, 0, n) /\ IsPart(b, data2, n, size)
  <2>1. 0 <= n /\ n <= size /\ n = n - 0 /\ size = size - 0
    BY <1>1, <1>2
  <2>. QED BY <1>1, <1>2, <1>3, <2>1, PartCut DEF size
<1>5. CASE ~wrapped
  <2>1. StoreTwoParts(b, n) = CopyTo(CopyTo(m, at, data1), next, data2)
    BY <1>1, <1>5 DEF StoreTwoParts, size
  <2>2. Stored(b) = Filled(b, m, at, 0, size)
    BY <1>1, <1>5, StoredFills DEF size
  <2>. HIDE DEF m, at, next, data1, data2
  <2>3. CopyTo(m, at, data1) = Filled(b, m, at, 0, n)
    BY <1>1, <1>2, <1>4, CopyPart
  <2>4. next \in Nat /\ next = at + (n - 0) /\ 0 <= n /\ n <= size
    BY <1>1, <1>2
  <2>5. CopyTo(Filled(b, m, at, 0, n), next, data2)
          = Filled(b, Filled(b, m, at, 0, n), next, n, size)
    BY <1>1, <1>2, <1>4, <2>4, CopyPart
  <2>6. Filled(b, Filled(b, m, at, 0, n), next, n, size) = Filled(b, m, at, 0, size)
    <3>1. at \in Nat /\ 0 \in Nat /\ size \in Nat
      BY <1>1
    <3>. QED BY ONLY b \in Block, <1>2, <2>4, <3>1, FilledOn, SMT
  <2>. QED BY <2>1, <2>2, <2>3, <2>5, <2>6
<1>6. CASE wrapped /\ n <= chunk
  <2>. DEFINE part == chunk - n
              rest == size - n
              left == SubSeq(data2, 1, part)
              right == SubSeq(data2, part + 1, rest)
  <2>1. StoreTwoParts(b, n)
          = CopyTo(CopyTo(CopyTo(m, at, data1), next, left), 0, right)
    BY <1>1, <1>2, <1>6 DEF StoreTwoParts, size
  <2>2. Stored(b) = Filled(b, m1, 0, chunk, size)
    BY <1>6, StoredFills DEF size
  <2>3. /\ part \in Nat /\ rest \in Nat /\ chunk <= size
        /\ next \in Nat /\ next = at + (n - 0) /\ 0 <= n
    BY <1>1, <1>2, <1>6
  <2>. HIDE DEF m, at, next, data1, data2, chunk
  <2>4. IsPart(b, left, n, chunk) /\ IsPart(b, right, chunk, size)
    BY <1>1, <1>2, <1>4, <1>6, <2>3, PartCut
  <2>. HIDE DEF left, right, part, rest
  <2>5. CopyTo(m, at, data1) = Filled(b, m, at, 0, n)
    BY <1>1, <1>2, <1>4, CopyPart
  <2>6. CopyTo(Filled(b, m, at, 0, n), next, left)
          = Filled(b, Filled(b, m, at, 0, n), next, n, chunk)
    BY <1>1, <1>2, <2>3, <2>4, CopyPart
  <2>7. Filled(b, Filled(b, m, at, 0, n), next, n, chunk) = m1
    BY <1>1, <1>2, <1>6, <2>3, FilledOn
  <2>. HIDE DEF m1
  <2>8. CopyTo(m1, 0, right) = Filled(b, m1, 0, chunk, size)
    BY <1>1, <2>4, CopyPart
  <2>. QED BY <2>1, <2>2, <2>5, <2>6, <2>7, <2>8
<1>7. CASE wrapped /\ n > chunk
  <2>. DEFINE part == n - chunk
              left == SubSeq(data1, 1, chunk)
              right == SubSeq(data1, chunk + 1, n)
  <2>1. StoreTwoParts(b, n) = CopyTo(CopyTo(CopyTo(m, at, left), 0, right), part, data2)
    BY <1>1, <1>2, <1>7 DEF StoreTwoParts, size
  <2>2. Stored(b) = Filled(b, m1, 0, chunk, size)
    BY <1>7, StoredFills DEF size
  <2>3. /\ part \in Nat /\ part = 0 + (n - chunk) /\ 0 <= chunk /\ chunk <= n /\ n <= size
        /\ chunk = chunk - 0 /\ n = n - 0
    BY <1>1, <1>2, <1>7
  <2>. HIDE DEF m, at, next, data1, data2, chunk
  <2>4. IsPart(b, left, 0, chunk) /\ IsPart(b, right, chunk, n)
    BY <1>1, <1>2, <1>4, <2>3, PartCut
  <2>. HIDE DEF left, right, part
  <2>5. CopyTo(m, at, left) = m1
    BY <1>1, <2>4, CopyPart
  <2>. HIDE DEF m1
  <2>6. CopyTo(m1, 0, right) = Filled(b, m1, 0, chunk, n)
    BY <1>1, <1>2, <2>4, CopyPart
  <2>7. CopyTo(Filled(b, m1, 0, chunk, n), part, data2)
          = Filled(b, Filled(b, m1, 0, chunk, n), part, n, size)
    BY <1>1, <1>2, <1>4, <2>3, CopyPart
  <2>8. Filled(b, Filled(b, m1, 0, chunk, n), part, n, size) = Filled(b, m1, 0, chunk, size)
    BY <1>1, <1>2, <2>3, FilledOn
  <2>. QED BY <2>1, <2>2, <2>5, <2>6, <2>7, <2>8
<1>. QED BY <1>1, <1>2, <1>5, <1>6, <1>7

(* The offsets move on by the room a block takes, going round.             *)
LEMMA OffsetsMove ==
    ASSUME NEW b \in Block, FullSize(b.size) <= BufferSize
    PROVE  /\ writeOffset \in Offset =>
                WriteOffsetAfter(b.size) = Behind(writeOffset, FullSize(b.size))
           /\ readOffset \in Offset =>
                ReadOffsetAfter(b.size) = Behind(readOffset, FullSize(b.size))
<1>1. /\ BufferSize \in Nat /\ Offset = 0 .. BufferSize - 1
      /\ FullSize(b.size) \in Nat /\ FullSize(b.size) = AlignUp(b.size) + 4
      /\ AlignUp(b.size) \in Nat
  BY BufferFacts, BlockFacts
<1>2. writeOffset \in Offset => WriteOffsetAfter(b.size) = Behind(writeOffset, FullSize(b.size))
  BY <1>1, SMT DEF WriteOffsetAfter, Behind, HeaderSize
<1>3. readOffset \in Offset => ReadOffsetAfter(b.size) = Behind(readOffset, FullSize(b.size))
  BY <1>1, SMT DEF ReadOffsetAfter, Behind, ChunkAt, HeaderSize
<1>. QED BY <1>2, <1>3

-----------------------------------------------------------------------------
(* Where the blocks lie *)

(* Two moves round the ring are one.                                       *)
LEMMA BehindBehind ==
    ASSUME NEW o \in Offset, NEW m \in Nat, NEW n \in Nat, m + n <= BufferSize
    PROVE  Behind(Behind(o, m), n) = Behind(o, m + n)
BY BufferFacts, SMT DEF Behind

(* The blocks q, beginning at st, fill the u bytes behind r without a gap, *)
(* the oldest first.                                                       *)
Packed(r, u, q, st) ==
    /\ q = <<>> => u = 0
    /\ q # <<>> => /\ st[1] = r
                   /\ Distance(r, st[Len(q)]) + FullSize(q[Len(q)].size) = u
    /\ \A i \in 1 .. Len(q) : Distance(r, st[i]) + FullSize(q[i].size) <= u
    /\ \A i, j \in 1 .. Len(q) :
          i < j => Distance(r, st[i]) + FullSize(q[i].size) <= Distance(r, st[j])
    /\ \A i \in 1 .. Len(q) : i + 1 \in 1 .. Len(q) =>
          Distance(r, st[i + 1]) = Distance(r, st[i]) + FullSize(q[i].size)

LEMMA PlaceFacts ==
    ASSUME NEW r \in Offset, NEW q \in Seq(Block), NEW st \in Seq(Offset), Len(st) = Len(q),
           NEW i \in 1 .. Len(q)
    PROVE  /\ q[i] \in Block /\ FullSize(q[i].size) \in Nat \ {0}
           /\ st[i] \in Offset /\ Distance(r, st[i]) \in Nat
           /\ Distance(r, st[i]) \in 0 .. BufferSize - 1
           /\ Behind(r, Distance(r, st[i])) = st[i]
<1>1. q[i] \in Block /\ st[i] \in Offset
  BY ElementOfSeq
<1>2. FullSize(q[i].size) \in Nat \ {0}
  BY <1>1, BlockFacts
<1>3. /\ Distance(r, st[i]) \in 0 .. BufferSize - 1
      /\ Behind(r, Distance(r, st[i])) = st[i]
  BY <1>1, BehindDistance
<1>4. Distance(r, st[i]) \in Nat
  BY <1>3, BufferFacts
<1>. QED BY <1>1, <1>2, <1>3, <1>4

LEMMA PackedAppend ==
    ASSUME NEW r \in Offset, NEW u \in Nat, NEW q \in Seq(Block), NEW st \in Seq(Offset),
           Len(st) = Len(q), Packed(r, u, q, st),
           NEW b \in Block, u + FullSize(b.size) <= BufferSize
    PROVE  Packed(r, u + FullSize(b.size), Append(q, b), Append(st, Behind(r, u)))
<1>. DEFINE n == FullSize(b.size)
            q2 == Append(q, b)
            st2 == Append(st, Behind(r, u))
            L == Len(q)
<1>1. /\ BufferSize \in Nat /\ n \in Nat \ {0} /\ L \in Nat
      /\ u < BufferSize /\ u \in 0 .. BufferSize
  <2>1. BufferSize \in Nat /\ n \in Nat \ {0} /\ L \in Nat
    BY BufferFacts, BlockFacts, LenProperties
  <2>2. u + n <= BufferSize
    OBVIOUS
  <2>. HIDE DEF n, L
  <2>. QED BY <2>1, <2>2
<1>2. Behind(r, u) \in Offset /\ Distance(r, Behind(r, u)) = u
  BY <1>1, BehindOffset, DistanceBehind
<1>3. /\ q2 # <<>> /\ Len(q2) = L + 1
      /\ \A i \in 1 .. L : q2[i] = q[i] /\ st2[i] = st[i]
      /\ q2[L + 1] = b /\ st2[L + 1] = Behind(r, u)
  BY <1>2, AppendProperties
<1>4. \A i \in 1 .. L : FullSize(q[i].size) \in Nat /\ Distance(r, st[i]) \in Nat
  BY PlaceFacts
<1>. HIDE DEF n, q2, st2, L
<1>5. st2[1] = r
  <2>1. CASE q = <<>>
    <3>1. L = 0 /\ u = 0
      BY <2>1, EmptySeq DEF Packed, L
    <3>2. Behind(r, 0) = r
      BY BufferFacts DEF Behind
    <3>. QED BY <1>3, <3>1, <3>2
  <2>2. CASE q # <<>>
    <3>1. L \in Nat \ {0}
      BY <2>2, EmptySeq DEF L
    <3>. QED BY <1>3, <2>2, <3>1 DEF Packed
  <2>. QED BY <2>1, <2>2
<1>6. Distance(r, st2[L + 1]) + FullSize(q2[L + 1].size) = u + n
  BY <1>2, <1>3 DEF n
<1>7. ASSUME NEW i \in 1 .. L + 1
      PROVE  Distance(r, st2[i]) + FullSize(q2[i].size) <= u + n
  <2>1. CASE i = L + 1
    BY <1>1, <1>6, <2>1
  <2>2. CASE i \in 1 .. L
    <3>1. Distance(r, st[i]) + FullSize(q[i].size) <= u
      BY <2>2 DEF Packed, L
    <3>. QED BY <1>1, <1>3, <1>4, <2>2, <3>1
  <2>. QED BY <1>1, <2>1, <2>2
<1>8. ASSUME NEW i \in 1 .. L + 1, NEW j \in 1 .. L + 1, i < j
      PROVE  Distance(r, st2[i]) + FullSize(q2[i].size) <= Distance(r, st2[j])
  <2>1. i \in 1 .. L
    BY <1>1, <1>8
  <2>2. CASE j = L + 1
    <3>1. Distance(r, st[i]) + FullSize(q[i].size) <= u
      BY <2>1 DEF Packed, L
    <3>. QED BY <1>2, <1>3, <2>1, <2>2, <3>1
  <2>3. CASE j \in 1 .. L
    <3>1. Distance(r, st[i]) + FullSize(q[i].size) <= Distance(r, st[j])
      BY <1>8, <2>1, <2>3 DEF Packed, L
    <3>. QED BY <1>3, <2>1, <2>3, <3>1
  <2>. QED BY <1>1, <2>2, <2>3
<1>9. ASSUME NEW i \in 1 .. L + 1, i + 1 \in 1 .. L + 1
      PROVE  Distance(r, st2[i + 1]) = Distance(r, st2[i]) + FullSize(q2[i].size)
  <2>1. i \in 1 .. L
    BY <1>1, <1>9
  <2>2. CASE i = L
    <3>1. q # <<>>
      BY <2>1, <2>2, EmptySeq DEF L
    <3>2. Distance(r, st[L]) + FullSize(q[L].size) = u
      BY <3>1 DEF Packed, L
    <3>. QED BY <1>2, <1>3, <2>1, <2>2, <3>2
  <2>3. CASE i + 1 \in 1 .. L
    <3>1. Distance(r, st[i + 1]) = Distance(r, st[i]) + FullSize(q[i].size)
      BY <2>1, <2>3 DEF Packed, L
    <3>. QED BY <1>3, <2>1, <2>3, <3>1
  <2>. QED BY <1>1, <2>1, <2>2, <2>3
<1>10. Packed(r, u + n, q2, st2)
  BY <1>3, <1>5, <1>6, <1>7, <1>8, <1>9 DEF Packed
<1>. QED BY <1>10 DEF n, q2, st2

LEMMA PackedTail ==
    ASSUME NEW r \in Offset, NEW u \in 0 .. BufferSize,
           NEW q \in Seq(Block), NEW st \in Seq(Offset),
           Len(st) = Len(q), Packed(r, u, q, st), q # <<>>,
           NEW n, n = FullSize(q[1].size)
    PROVE  n \in 1 .. u /\ Packed(Behind(r, n), u - n, Tail(q), Tail(st))
<1>. DEFINE q2 == Tail(q)
            st2 == Tail(st)
            L == Len(q)
            r2 == Behind(r, n)
<1>1. /\ L \in Nat \ {0} /\ BufferSize \in Nat /\ u \in Nat
      /\ st # <<>>
  BY BufferFacts, EmptySeq
<1>2. /\ q2 \in Seq(Block) /\ Len(q2) = L - 1
      /\ \A i \in 1 .. L - 1 : q2[i] = q[i + 1]
      /\ \A i \in 1 .. L - 1 : st2[i] = st[i + 1]
  BY <1>1, HeadTailProperties
<1>3. /\ \A i \in 1 .. L : FullSize(q[i].size) \in Nat \ {0}
      /\ \A i \in 1 .. L : st[i] \in Offset
      /\ \A i \in 1 .. L : Distance(r, st[i]) \in Nat
      /\ \A i \in 1 .. L : Behind(r, Distance(r, st[i])) = st[i]
  <2>1. ASSUME NEW i \in 1 .. L
        PROVE  /\ FullSize(q[i].size) \in Nat \ {0} /\ st[i] \in Offset
               /\ Distance(r, st[i]) \in Nat /\ Behind(r, Distance(r, st[i])) = st[i]
    BY PlaceFacts
  <2>. QED BY <2>1
<1>4. st[1] = r /\ Distance(r, r) = 0
  BY BufferFacts DEF Packed, Distance
<1>. HIDE DEF q2, st2, L
<1>5. n \in 1 .. u
  <2>1. Distance(r, st[1]) + FullSize(q[1].size) <= u
    BY <1>1 DEF Packed, L
  <2>. QED BY <1>1, <1>3, <1>4, <2>1
<1>6. ASSUME NEW i \in 2 .. L
      PROVE  Distance(r2, st[i]) = Distance(r, st[i]) - n
  <2>1. Distance(r, st[1]) + FullSize(q[1].size) <= Distance(r, st[i])
    BY <1>1 DEF Packed, L
  <2>2. n <= Distance(r, st[i]) /\ n \in Nat /\ st[i] \in Offset
    BY <1>1, <1>3, <1>4, <1>5, <2>1
  <2>. QED BY <2>2, Shifted
<1>. HIDE DEF r2
<1>7. q2 = <<>> => u - n = 0
  <2>. SUFFICES ASSUME q2 = <<>>
                PROVE  u - n = 0
    OBVIOUS
  <2>1. L = 1
    BY <1>1, <1>2, EmptySeq
  <2>2. Distance(r, st[L]) + FullSize(q[L].size) = u
    BY DEF Packed, L
  <2>. QED BY <1>1, <1>3, <1>4, <1>5, <2>1, <2>2
<1>8. ASSUME q2 # <<>>
      PROVE  /\ st2[1] = r2
             /\ Distance(r2, st2[L - 1]) + FullSize(q2[L - 1].size) = u - n
  <2>1. L - 1 \in Nat \ {0}
    BY <1>2, <1>8, EmptySeq
  <2>2. st2[1] = st[2] /\ st2[L - 1] = st[L] /\ q2[L - 1] = q[L]
    BY <1>1, <1>2, <2>1
  <2>3. Distance(r, st[2]) = Distance(r, st[1]) + FullSize(q[1].size)
    <3>1. 1 \in 1 .. L /\ 1 + 1 \in 1 .. L /\ 1 + 1 = 2
      BY <1>1, <2>1
    <3>2. Distance(r, st[1 + 1]) = Distance(r, st[1]) + FullSize(q[1].size)
      BY <3>1 DEF Packed, L
    <3>. QED BY <3>1, <3>2
  <2>4. Distance(r, st[2]) = n
    BY <1>4, <1>5, <2>3
  <2>5. Distance(r, st[L]) + FullSize(q[L].size) = u
    BY DEF Packed, L
  <2>6. st[2] = r2
    BY <1>1, <1>3, <2>1, <2>4 DEF r2
  <2>7. Distance(r2, st[L]) = Distance(r, st[L]) - n
    BY <1>1, <1>6, <2>1
  <2>. QED BY <1>1, <1>3, <1>5, <2>2, <2>5, <2>6, <2>7
<1>9. ASSUME NEW i \in 1 .. L - 1
      PROVE  Distance(r2, st2[i]) + FullSize(q2[i].size) <= u - n
  <2>1. i + 1 \in 1 .. L /\ i + 1 \in 2 .. L
    BY <1>1
  <2>2. Distance(r, st[i + 1]) + FullSize(q[i + 1].size) <= u
    BY <2>1 DEF Packed, L
  <2>3. Distance(r2, st[i + 1]) = Distance(r, st[i + 1]) - n
    BY <1>6, <2>1
  <2>4. /\ st2[i] = st[i + 1] /\ q2[i] = q[i + 1]
        /\ FullSize(q[i + 1].size) \in Nat /\ Distance(r, st[i + 1]) \in Nat
    BY <1>2, <1>3, <2>1
  <2>. QED BY <1>1, <1>5, <2>2, <2>3, <2>4
<1>10. ASSUME NEW i \in 1 .. L - 1, NEW j \in 1 .. L - 1, i < j
       PROVE  Distance(r2, st2[i]) + FullSize(q2[i].size) <= Distance(r2, st2[j])
  <2>1. /\ i + 1 \in 1 .. L /\ i + 1 \in 2 .. L /\ j + 1 \in 1 .. L /\ j + 1 \in 2 .. L
        /\ i + 1 < j + 1
    BY <1>1, <1>10
  <2>2. Distance(r, st[i + 1]) + FullSize(q[i + 1].size) <= Distance(r, st[j + 1])
    BY <2>1 DEF Packed, L
  <2>3. /\ Distance(r2, st[i + 1]) = Distance(r, st[i + 1]) - n
        /\ Distance(r2, st[j + 1]) = Distance(r, st[j + 1]) - n
    BY <1>6, <2>1
  <2>4. /\ st2[i] = st[i + 1] /\ q2[i] = q[i + 1] /\ st2[j] = st[j + 1]
        /\ FullSize(q[i + 1].size) \in Nat
        /\ Distance(r, st[i + 1]) \in Nat /\ Distance(r, st[j + 1]) \in Nat
    BY <1>2, <1>3, <2>1
  <2>. QED BY <1>5, <2>2, <2>3, <2>4
<1>11. ASSUME NEW i \in 1 .. L - 1, i + 1 \in 1 .. L - 1
       PROVE  Distance(r2, st2[i + 1]) = Distance(r2, st2[i]) + FullSize(q2[i].size)
  <2>1. /\ i + 1 \in 1 .. L /\ i + 1 \in 2 .. L
        /\ (i + 1) + 1 \in 1 .. L /\ (i + 1) + 1 \in 2 .. L
    BY <1>1, <1>11
  <2>2. Distance(r, st[(i + 1) + 1]) = Distance(r, st[i + 1]) + FullSize(q[i + 1].size)
    BY <2>1 DEF Packed, L
  <2>3. /\ Distance(r2, st[i + 1]) = Distance(r, st[i + 1]) - n
        /\ Distance(r2, st[(i + 1) + 1]) = Distance(r, st[(i + 1) + 1]) - n
    BY <1>6, <2>1
  <2>4. st2[i] = st[i + 1] /\ q2[i] = q[i + 1] /\ st2[i + 1] = st[(i + 1) + 1]
    BY <1>2, <1>11
  <2>5. FullSize(q[i + 1].size) \in Nat /\ Distance(r, st[i + 1]) \in Nat
    BY <1>3, <2>1
  <2>. QED BY <1>5, <2>2, <2>3, <2>4, <2>5
<1>12. Packed(r2, u - n, q2, st2)
  BY <1>2, <1>7, <1>8, <1>9, <1>10, <1>11 DEF Packed
<1>. QED BY <1>5, <1>12 DEF q2, st2, r2

-----------------------------------------------------------------------------
(* What the blocks hold *)

(* Block b, with its size word at offset a.                                *)
Holds(m, a, b) ==
    /\ m[a] = SizeCell(b.size)
    /\ \A k \in 1 .. b.size : m[Behind(a, k + 3)] = <<b.msg, k>>

(* A block just written is in the ring, and the others stay as they were.  *)
LEMMA StoredHolds ==
    ASSUME NEW b \in Block, writeOffset \in Offset, FullSize(b.size) <= BufferSize
    PROVE  Holds(Stored(b), writeOffset, b)
<1>1. /\ b.size \in Nat /\ BufferSize \in Nat /\ b.size + 4 <= BufferSize
  BY BlockFacts, BufferFacts
<1>2. ASSUME NEW k \in 1 .. b.size
      PROVE  Stored(b)[Behind(writeOffset, k + 3)] = <<b.msg, k>>
  <2>. DEFINE a == Behind(writeOffset, k + 3)
  <2>1. k + 3 \in Nat /\ k + 3 < BufferSize /\ k + 3 \in 0 .. BufferSize
    BY <1>1
  <2>2. a \in Offset /\ Distance(writeOffset, a) = k + 3
    BY <2>1, BehindOffset, DistanceBehind
  <2>3. Distance(writeOffset, writeOffset) = 0
    BY BufferFacts DEF Distance
  <2>. HIDE DEF a
  <2>4. a # writeOffset
    BY <2>2, <2>3
  <2>5. k + 3 \in 4 .. b.size + 3 /\ (k + 3) - 3 = k
    BY <1>1
  <2>6. Stored(b)[a] = <<b.msg, k>>
    BY <2>2, <2>4, <2>5 DEF Stored
  <2>. QED BY <2>6 DEF a
<1>. QED BY <1>2 DEF Holds, Stored

LEMMA StoredKeeps ==
    ASSUME NEW b \in Block, NEW r \in Offset, NEW u \in Nat, writeOffset = Behind(r, u),
           u + FullSize(b.size) <= BufferSize,
           NEW c \in Block, NEW s \in Offset, Distance(r, s) + FullSize(c.size) <= u,
           Holds(mem, s, c)
    PROVE  Holds(Stored(b), s, c)
<1>. DEFINE n == FullSize(b.size)
<1>1. /\ n \in Nat \ {0} /\ b.size \in Nat /\ b.size + 4 <= n
      /\ c.size \in Nat /\ c.size + 4 <= FullSize(c.size) /\ FullSize(c.size) \in Nat
  BY BlockFacts
<1>2. Distance(r, s) \in Nat /\ Behind(s, 0) = s
  BY BehindDistance, BufferFacts DEF Behind
<1>. HIDE DEF n
<1>3. ASSUME NEW d \in Nat, d < FullSize(c.size)
      PROVE  Stored(b)[Behind(s, d)] = mem[Behind(s, d)]
  <2>. DEFINE a == Behind(s, d)
  <2>1. Distance(r, s) + d < u /\ u + n <= BufferSize /\ n > 0
    BY <1>1, <1>2, <1>3 DEF n
  <2>2. a \in Offset /\ Distance(writeOffset, a) >= n /\ a # writeOffset
    BY <1>1, <2>1, Apart
  <2>. HIDE DEF a
  <2>3. Distance(writeOffset, a) \notin 4 .. b.size + 3
    BY <1>1, <2>2
  <2>4. Stored(b)[a] = mem[a]
    BY <2>2, <2>3 DEF Stored
  <2>. QED BY <2>4 DEF a
<1>4. Stored(b)[s] = mem[s]
  <2>1. 0 \in Nat /\ 0 < FullSize(c.size)
    BY <1>1
  <2>. QED BY <1>2, <1>3, <2>1
<1>5. ASSUME NEW k \in 1 .. c.size
      PROVE  Stored(b)[Behind(s, k + 3)] = mem[Behind(s, k + 3)]
  <2>1. k + 3 \in Nat /\ k + 3 < FullSize(c.size)
    BY <1>1
  <2>. QED BY <1>3, <2>1
<1>. QED BY <1>4, <1>5 DEF Holds

(* What is read is the data of the block that begins at readOffset.        *)
LEMMA LoadBlockLoads ==
    ASSUME NEW b \in Block, readOffset \in Offset, readOffset % 4 = 0,
           FullSize(b.size) <= BufferSize, Holds(mem, readOffset, b)
    PROVE  LoadBlock(b.size) = DataOf(b)
<1>. DEFINE size == b.size
            at == readOffset + HeaderSize
            chunk == ChunkAt(readOffset)
<1>1. /\ readOffset \in Nat /\ readOffset < BufferSize /\ BufferSize \in Nat
      /\ BufferSize % 4 = 0 /\ HeaderSize = 4
      /\ size \in Nat /\ FullSize(size) \in Nat /\ FullSize(size) % 4 = 0
      /\ size + 4 <= FullSize(size) /\ FullSize(size) < size + 8
  BY BufferFacts, BlockFacts DEF HeaderSize
<1>2. readOffset + 4 <= BufferSize
  BY <1>1, SMT
<1>3. chunk = BufferSize - readOffset - 4 /\ chunk \in Nat /\ at = readOffset + 4
  BY <1>1, <1>2, SMT DEF ChunkAt
<1>4. \A k \in 1 .. size : mem[Behind(readOffset, k + 3)] = <<b.msg, k>>
  BY DEF Holds
<1>5. /\ DataOf(b) \in Seq(Bytes(b)) /\ Len(DataOf(b)) = size
      /\ \A k \in 1 .. size : DataOf(b)[k] = <<b.msg, k>>
  <2>1. \A k \in 1 .. size : DataOf(b)[k] = <<b.msg, k>>
    BY DEF DataOf
  <2>2. IsPart(b, DataOf(b), 0, size) /\ size - 0 = size
    BY <1>1, WholeBlock
  <2>. QED BY <2>1, <2>2 DEF IsPart
<1>6. CASE readOffset + FullSize(size) <= BufferSize
  <2>1. LoadBlock(size) = [k \in 1 .. size |-> mem[at + k - 1]]
    BY <1>6 DEF LoadBlock, CopyFrom
  <2>2. ASSUME NEW k \in 1 .. size
        PROVE  mem[at + k - 1] = <<b.msg, k>>
    <3>1. at + k - 1 = Behind(readOffset, k + 3)
      <4>. HIDE DEF at, chunk, size
      <4>1. k \in Nat /\ k <= size
        BY <1>1
      <4>2. readOffset + (k + 3) < BufferSize /\ at + k - 1 = readOffset + (k + 3)
        BY <1>1, <1>3, <1>6, <4>1
      <4>. QED BY <4>2 DEF Behind
    <3>. QED BY <1>4, <3>1
  <2>. QED BY <2>1, <2>2 DEF DataOf
<1>7. CASE readOffset + FullSize(size) > BufferSize
  <2>. DEFINE first == CopyFrom(mem, at, chunk)
              second == CopyFrom(mem, 0, size - chunk)
  <2>1. LoadBlock(size) = first \o second
    <3>1. ~(readOffset + FullSize(size) <= BufferSize)
      BY <1>1, <1>7
    <3>. QED BY <3>1 DEF LoadBlock
  <2>2. chunk < size /\ size - chunk \in Nat
    <3>1. readOffset + FullSize(size) >= BufferSize + 4
      BY <1>1, <1>7, SMT
    <3>. QED BY <1>1, <1>3, <3>1, SMT
  <2>3. ASSUME NEW k \in 1 .. chunk
        PROVE  first[k] = <<b.msg, k>> /\ k \in 1 .. size
    <3>1. at + k - 1 = Behind(readOffset, k + 3) /\ k \in 1 .. size
      BY <1>1, <1>3, <2>2, SMT DEF Behind
    <3>2. first[k] = mem[at + k - 1]
      BY DEF CopyFrom
    <3>. QED BY <1>4, <3>1, <3>2
  <2>4. ASSUME NEW k \in 1 .. size - chunk
        PROVE  second[k] = <<b.msg, chunk + k>> /\ chunk + k \in 1 .. size
    <3>1. 0 + k - 1 = Behind(readOffset, (chunk + k) + 3) /\ chunk + k \in 1 .. size
      BY <1>1, <1>3, <2>2, SMT DEF Behind
    <3>2. second[k] = mem[0 + k - 1]
      BY DEF CopyFrom
    <3>. QED BY <1>4, <3>1, <3>2
  <2>5. first \in [1 .. chunk -> Bytes(b)] /\ second \in [1 .. size - chunk -> Bytes(b)]
    <3>1. \A k \in 1 .. chunk : first[k] \in Bytes(b)
      BY <2>3 DEF Bytes
    <3>2. \A k \in 1 .. size - chunk : second[k] \in Bytes(b)
      BY <2>4 DEF Bytes
    <3>. QED BY <3>1, <3>2 DEF CopyFrom
  <2>. HIDE DEF first, second, chunk, size
  <2>6. /\ first \in Seq(Bytes(b)) /\ Len(first) = chunk
        /\ second \in Seq(Bytes(b)) /\ Len(second) = size - chunk
    <3>1. first \in Seq(Bytes(b)) /\ second \in Seq(Bytes(b))
      BY <1>3, <2>2, <2>5, SeqDef
    <3>. QED BY <1>3, <2>2, <2>5, <3>1, LenProperties
  <2>7. /\ first \o second \in Seq(Bytes(b)) /\ Len(first \o second) = size
        /\ \A k \in 1 .. size :
              (first \o second)[k] = IF k <= chunk THEN first[k] ELSE second[k - chunk]
    <3>1. /\ first \o second \in Seq(Bytes(b))
          /\ Len(first \o second) = Len(first) + Len(second)
          /\ \A k \in 1 .. Len(first) + Len(second) :
                (first \o second)[k] = IF k <= Len(first) THEN first[k] ELSE second[k - Len(first)]
      BY <2>6, ConcatProperties
    <3>2. Len(first) = chunk /\ Len(first) + Len(second) = size
      BY <1>1, <1>3, <2>6
    <3>. QED BY <3>1, <3>2
  <2>8. ASSUME NEW k \in 1 .. size
        PROVE  (first \o second)[k] = <<b.msg, k>>
    <3>1. CASE k <= chunk
      <4>1. k \in 1 .. chunk
        BY <1>1, <1>3, <3>1
      <4>. QED BY <2>3, <2>7, <3>1, <4>1
    <3>2. CASE ~(k <= chunk)
      <4>1. k - chunk \in 1 .. size - chunk /\ chunk + (k - chunk) = k
        BY <1>1, <1>3, <3>2
      <4>2. second[k - chunk] = <<b.msg, chunk + (k - chunk)>>
        BY <2>4, <4>1
      <4>. QED BY <2>7, <3>2, <4>1, <4>2
    <3>. QED BY <3>1, <3>2
  <2>9. first \o second = DataOf(b)
    BY <1>5, <2>7, <2>8, SeqEqual
  <2>. QED BY <2>1, <2>9 DEF size
<1>. QED BY <1>1, <1>6, <1>7

-----------------------------------------------------------------------------
(* The inductive invariant *)

Used == BufferSize - freeSize

(* The offsets stay aligned, so that a size word never meets the end of    *)
(* the ring, and the used bytes are those from readOffset to writeOffset.  *)
Offsets ==
    /\ readOffset % 4 = 0 /\ writeOffset % 4 = 0
    /\ writeOffset = Behind(readOffset, Used)

(* Every block of queue is in the ring, whole.                             *)
Contents ==
    /\ mem = [a \in Offset |-> mem[a]]
    /\ \A i \in 1 .. Len(queue) : Holds(mem, starts[i], queue[i])

IInv ==
    /\ TypeOK /\ CountIsExact /\ Len(starts) = Len(queue)
    /\ Offsets
    /\ Packed(readOffset, Used, queue, starts)
    /\ Contents

LEMMA UsedFacts ==
    ASSUME TypeOK
    PROVE  Used \in 0 .. BufferSize /\ freeSize = BufferSize - Used /\ Used \in Nat
BY BufferFacts, SMT DEF TypeOK, Used

LEMMA EmptyPacked ==
    ASSUME NEW r, NEW st
    PROVE  Packed(r, 0, <<>>, st)
<1>1. Len(<<>>) = 0
  BY EmptySeq
<1>. QED BY <1>1 DEF Packed

LEMMA InitIInv == Init => IInv
<1>. SUFFICES ASSUME Init PROVE IInv
  OBVIOUS
<1>1. BufferSize \in Nat \ {0} /\ Offset = 0 .. BufferSize - 1 /\ 0 \in Offset
  BY BufferFacts
<1>2. /\ queue = <<>> /\ starts = <<>> /\ Len(queue) = 0 /\ Len(starts) = 0
      /\ queue \in Seq(Block) /\ starts \in Seq(Offset)
  BY EmptySeq DEF Init
<1>3. TypeOK /\ CountIsExact
  BY <1>1, <1>2 DEF Init, TypeOK, CountIsExact
<1>4. Used = 0
  BY <1>1 DEF Init, Used
<1>5. Offsets
  BY <1>1, <1>4, SMT DEF Init, Offsets, Behind
<1>6. Packed(readOffset, Used, queue, starts)
  BY <1>2, <1>4, EmptyPacked
<1>7. Contents
  BY <1>2 DEF Init, Contents
<1>. QED BY <1>2, <1>3, <1>5, <1>6, <1>7 DEF IInv

(* Offsets that go on by a multiple of four stay aligned.                  *)
LEMMA AlignedMove ==
    ASSUME NEW o \in Offset, o % 4 = 0, NEW n \in 0 .. BufferSize, n % 4 = 0
    PROVE  Behind(o, n) % 4 = 0 /\ Behind(o, n) \in Offset
<1>1. /\ BufferSize \in Nat /\ BufferSize % 4 = 0 /\ o \in Nat /\ o < BufferSize
      /\ n \in Nat /\ n <= BufferSize
  BY BufferFacts
<1>2. CASE o + n < BufferSize
  BY <1>1, <1>2, BufferFacts, SMT DEF Behind
<1>3. CASE ~(o + n < BufferSize)
  <2>1. Behind(o, n) = o + n - BufferSize
    BY <1>3 DEF Behind
  <2>2. (o + n - BufferSize) % 4 = 0
    BY <1>1, SMT
  <2>3. o + n - BufferSize \in Offset
    BY <1>1, <1>3, BufferFacts, SMT
  <2>. QED BY <2>1, <2>2, <2>3
<1>. QED BY <1>2, <1>3

(* What both write functions do when there is room.                        *)
LEMMA WriteIInv ==
    ASSUME IInv, NEW b \in Block, FullSize(b.size) <= freeSize,
           mem' = Stored(b), writeOffset' = WriteOffsetAfter(b.size), BlockWritten(b)
    PROVE  IInv'
<1>. DEFINE n == FullSize(b.size)
            L == Len(queue)
<1>1. /\ BufferSize \in Nat /\ n \in Nat \ {0} /\ n % 4 = 0
      /\ Used \in 0 .. BufferSize /\ Used \in Nat /\ freeSize = BufferSize - Used
  BY BufferFacts, BlockFacts, UsedFacts DEF IInv
<1>2. /\ freeSize' = freeSize - n /\ dataCount' = dataCount + 1 /\ ret' = "Ok"
      /\ queue' = Append(queue, b) /\ starts' = Append(starts, writeOffset)
      /\ readOffset' = readOffset
  BY DEF BlockWritten
<1>3. /\ readOffset \in Offset /\ writeOffset \in Offset /\ writeOffset % 4 = 0
      /\ queue \in Seq(Block) /\ starts \in Seq(Offset) /\ Len(starts) = L /\ L \in Nat
      /\ dataCount = L
      /\ writeOffset = Behind(readOffset, Used)
  BY LenProperties DEF IInv, TypeOK, Offsets, CountIsExact
<1>4. Used + n <= BufferSize /\ n \in 0 .. BufferSize /\ FullSize(b.size) <= BufferSize
  <2>1. n <= freeSize
    OBVIOUS
  <2>. HIDE DEF n
  <2>2. Used + n <= BufferSize /\ n \in 0 .. BufferSize /\ n <= BufferSize
    BY <1>1, <2>1
  <2>. QED BY <2>2 DEF n
<1>5. Used' = Used + n
  <2>. HIDE DEF n
  <2>1. Used' = BufferSize - freeSize'
    BY DEF Used, BufferSize, AlignUp
  <2>. QED BY <1>1, <1>2, <2>1
<1>6. writeOffset' = Behind(writeOffset, n) /\ Behind(writeOffset, n) = Behind(readOffset, Used + n)
  <2>1. writeOffset' = Behind(writeOffset, n)
    BY <1>3, <1>4, OffsetsMove
  <2>. HIDE DEF n
  <2>2. Behind(Behind(readOffset, Used), n) = Behind(readOffset, Used + n)
    BY <1>1, <1>3, <1>4, BehindBehind
  <2>. QED BY <1>3, <2>1, <2>2
<1>7. writeOffset' % 4 = 0 /\ writeOffset' \in Offset
  BY <1>1, <1>3, <1>4, <1>6, AlignedMove
<1>8. /\ queue' \in Seq(Block) /\ Len(queue') = L + 1
      /\ starts' \in Seq(Offset) /\ Len(starts') = L + 1
      /\ \A i \in 1 .. L : queue'[i] = queue[i] /\ starts'[i] = starts[i]
      /\ queue'[L + 1] = b /\ starts'[L + 1] = writeOffset
  BY <1>2, <1>3, AppendProperties
<1>9. TypeOK' /\ CountIsExact' /\ Len(starts') = Len(queue')
  <2>. HIDE DEF n, L
  <2>1. freeSize' \in 0 .. BufferSize /\ dataCount' \in Nat /\ dataCount' = Len(queue')
    BY <1>1, <1>2, <1>3, <1>4, <1>8
  <2>. QED BY <1>2, <1>3, <1>7, <1>8, <2>1 DEF TypeOK, CountIsExact
<1>10. Offsets'
  <2>1. readOffset' % 4 = 0
    BY <1>2 DEF IInv, Offsets
  <2>2. writeOffset' = Behind(readOffset', Used')
    BY <1>2, <1>5, <1>6
  <2>. QED BY <1>7, <2>1, <2>2 DEF Offsets
<1>11. Packed(readOffset, Used + n, Append(queue, b), Append(starts, Behind(readOffset, Used)))
  BY <1>1, <1>3, <1>4, PackedAppend DEF IInv
<1>12. Packed(readOffset', Used', queue', starts')
  BY <1>2, <1>3, <1>5, <1>11
<1>13. Contents'
  <2>1. mem' = [a \in Offset |-> mem'[a]]
    BY DEF Stored
  <2>2. ASSUME NEW i \in 1 .. L + 1
        PROVE  Holds(Stored(b), starts'[i], queue'[i])
    <3>1. CASE i = L + 1
      BY <1>3, <1>4, <1>8, <3>1, StoredHolds
    <3>2. CASE i \in 1 .. L
      <4>1. queue[i] \in Block /\ starts[i] \in Offset
        BY <1>3, <3>2, PlaceFacts
      <4>2. Distance(readOffset, starts[i]) + FullSize(queue[i].size) <= Used
        BY <3>2 DEF IInv, Packed
      <4>3. Holds(mem, starts[i], queue[i])
        BY <3>2 DEF IInv, Contents
      <4>4. Holds(Stored(b), starts[i], queue[i])
        BY <1>1, <1>3, <1>4, <4>1, <4>2, <4>3, StoredKeeps
      <4>. QED BY <1>8, <3>2, <4>4
    <3>. QED BY <1>3, <3>1, <3>2
  <2>3. \A i \in 1 .. Len(queue') : Holds(mem', starts'[i], queue'[i])
    BY <1>8, <2>2
  <2>. QED BY <2>1, <2>3 DEF Contents
<1>. QED BY <1>9, <1>10, <1>12, <1>13 DEF IInv

(* The block to be read, and what a reader finds of it.                    *)
LEMMA ReadFacts ==
    ASSUME IInv
    PROVE  /\ freeSize = BufferSize <=> queue = <<>>
           /\ queue # <<>> =>
                 /\ Head(queue) = queue[1] /\ queue[1] \in Block
                 /\ Holds(mem, readOffset, queue[1])
                 /\ mem[readOffset][2] = queue[1].size
                 /\ FullSize(queue[1].size) \in 1 .. Used
                 /\ FullSize(queue[1].size) <= BufferSize
<1>1. /\ BufferSize \in Nat \ {0} /\ Used \in 0 .. BufferSize /\ freeSize = BufferSize - Used
      /\ readOffset \in Offset /\ queue \in Seq(Block) /\ starts \in Seq(Offset)
      /\ Len(starts) = Len(queue)
  BY BufferFacts, UsedFacts DEF IInv, TypeOK
<1>2. queue = <<>> => Used = 0
  BY DEF IInv, Packed
<1>3. ASSUME queue # <<>>
      PROVE  /\ Head(queue) = queue[1] /\ queue[1] \in Block
             /\ Holds(mem, readOffset, queue[1])
             /\ mem[readOffset][2] = queue[1].size
             /\ FullSize(queue[1].size) \in 1 .. Used
             /\ FullSize(queue[1].size) <= BufferSize
  <2>1. 1 \in 1 .. Len(queue)
    BY <1>1, <1>3, EmptySeq
  <2>2. queue[1] \in Block
    BY <1>1, <2>1, ElementOfSeq
  <2>3. starts[1] = readOffset
    BY <1>3 DEF IInv, Packed
  <2>4. Holds(mem, readOffset, queue[1])
    BY <2>1, <2>3 DEF IInv, Contents
  <2>5. mem[readOffset][2] = queue[1].size
    BY <2>4 DEF Holds, SizeCell
  <2>6. FullSize(queue[1].size) \in 1 .. Used
    BY <1>1, <1>3, PackedTail DEF IInv
  <2>7. FullSize(queue[1].size) <= BufferSize
    BY <1>1, <2>6
  <2>. QED BY <2>2, <2>4, <2>5, <2>6, <2>7
<1>4. ASSUME queue # <<>>
      PROVE  freeSize # BufferSize
  <2>1. FullSize(queue[1].size) \in 1 .. Used
    BY <1>3, <1>4
  <2>. QED BY <1>1, <2>1
<1>. QED BY <1>1, <1>2, <1>3, <1>4

LEMMA ReadIInv ==
    ASSUME IInv, queue # <<>>, NEW b, b = queue[1],
           readOffset' = ReadOffsetAfter(b.size),
           freeSize' = freeSize + FullSize(b.size), dataCount' = dataCount - 1,
           ret' = "Ok", queue' = Tail(queue), starts' = Tail(starts),
           UNCHANGED <<writeOffset, mem>>
    PROVE  IInv'
<1>. DEFINE n == FullSize(b.size)
            L == Len(queue)
<1>1. /\ BufferSize \in Nat /\ b \in Block /\ n \in 1 .. Used /\ n <= BufferSize /\ n % 4 = 0
      /\ Used \in 0 .. BufferSize /\ Used \in Nat /\ freeSize = BufferSize - Used
  BY BufferFacts, BlockFacts, UsedFacts, ReadFacts DEF IInv
<1>2. /\ readOffset \in Offset /\ readOffset % 4 = 0 /\ writeOffset \in Offset
      /\ writeOffset % 4 = 0 /\ writeOffset = Behind(readOffset, Used)
      /\ queue \in Seq(Block) /\ starts \in Seq(Offset) /\ Len(starts) = L
      /\ L \in Nat \ {0} /\ dataCount = L /\ starts # <<>>
  BY EmptySeq DEF IInv, TypeOK, Offsets, CountIsExact
<1>3. Used' = Used - n /\ n \in 0 .. BufferSize /\ n \in Nat /\ Used - n \in Nat
  <2>1. freeSize' = freeSize + n
    OBVIOUS
  <2>. HIDE DEF n
  <2>2. Used' = BufferSize - freeSize'
    BY DEF Used, BufferSize, AlignUp
  <2>. QED BY <1>1, <2>1, <2>2
<1>4. readOffset' = Behind(readOffset, n)
  BY <1>1, <1>2, OffsetsMove
<1>5. readOffset' % 4 = 0 /\ readOffset' \in Offset
  BY <1>1, <1>2, <1>3, <1>4, AlignedMove
<1>6. /\ queue' \in Seq(Block) /\ Len(queue') = L - 1
      /\ starts' \in Seq(Offset) /\ Len(starts') = L - 1
      /\ \A i \in 1 .. L - 1 : queue'[i] = queue[i + 1] /\ starts'[i] = starts[i + 1]
  BY <1>2, HeadTailProperties
<1>7. TypeOK' /\ CountIsExact' /\ Len(starts') = Len(queue')
  <2>1. freeSize' = freeSize + n /\ dataCount' = dataCount - 1
    OBVIOUS
  <2>. HIDE DEF n, L
  <2>2. freeSize' \in 0 .. BufferSize /\ dataCount' \in Nat /\ dataCount' = Len(queue')
    BY <1>1, <1>2, <1>6, <2>1
  <2>. QED BY <1>2, <1>5, <1>6, <2>2 DEF TypeOK, CountIsExact
<1>8. Offsets'
  <2>. HIDE DEF n
  <2>1. n + (Used - n) = Used
    BY <1>1, <1>3
  <2>2. Behind(Behind(readOffset, n), Used - n) = Behind(readOffset, n + (Used - n))
    BY <1>1, <1>2, <1>3, <2>1, BehindBehind
  <2>3. writeOffset' = Behind(readOffset', Used')
    BY <1>2, <1>3, <1>4, <2>1, <2>2
  <2>. QED BY <1>2, <1>5, <2>3 DEF Offsets
<1>9. Packed(Behind(readOffset, n), Used - n, Tail(queue), Tail(starts))
  BY <1>1, <1>2, PackedTail DEF IInv
<1>10. Packed(readOffset', Used', queue', starts')
  BY <1>3, <1>4, <1>9
<1>11. Contents'
  <2>1. ASSUME NEW i \in 1 .. L - 1
        PROVE  Holds(mem, starts'[i], queue'[i])
    <3>1. i + 1 \in 1 .. L
      BY <1>2
    <3>2. Holds(mem, starts[i + 1], queue[i + 1])
      BY <3>1 DEF IInv, Contents
    <3>. QED BY <1>6, <3>2
  <2>2. \A i \in 1 .. Len(queue') : Holds(mem', starts'[i], queue'[i])
    BY <1>6, <2>1
  <2>3. mem' = [a \in Offset |-> mem'[a]]
    BY DEF IInv, Contents
  <2>. QED BY <2>2, <2>3 DEF Contents
<1>. QED BY <1>7, <1>8, <1>10, <1>11 DEF IInv

LEMMA RefusedIInv ==
    ASSUME IInv, NEW code \in {"OutOfMem", "NoReadableData", "ReadsizeTooSmall"}, Refused(code)
    PROVE  IInv'
BY DEF IInv, Refused, headerVars, TypeOK, CountIsExact, Offsets, Used, Contents, BufferSize,
       AlignUp

LEMMA ResetIInv ==
    ASSUME IInv, Reset
    PROVE  IInv'
<1>1. /\ BufferSize \in Nat \ {0} /\ Offset = 0 .. BufferSize - 1 /\ 0 \in Offset
  BY BufferFacts
<1>2. /\ queue' = <<>> /\ starts' = <<>> /\ Len(queue') = 0 /\ Len(starts') = 0
      /\ queue' \in Seq(Block) /\ starts' \in Seq(Offset)
  BY EmptySeq DEF Reset
<1>3. TypeOK' /\ CountIsExact'
  BY <1>1, <1>2 DEF Reset, TypeOK, CountIsExact, IInv
<1>4. Used' = 0
  <2>1. Used' = BufferSize - freeSize'
    BY DEF Used, BufferSize, AlignUp
  <2>. QED BY <1>1, <2>1 DEF Reset
<1>5. Offsets'
  <2>1. Behind(0, 0) = 0 /\ 0 % 4 = 0
    BY <1>1, SMT DEF Behind
  <2>. QED BY <1>4, <2>1 DEF Reset, Offsets
<1>6. Packed(readOffset', Used', queue', starts')
  BY <1>2, <1>4, EmptyPacked
<1>7. Contents'
  BY <1>2 DEF Reset, Contents, IInv
<1>. QED BY <1>2, <1>3, <1>5, <1>6, <1>7 DEF IInv

(* Room for a block that is not refused.                                   *)
LEMMA RoomFacts ==
    ASSUME IInv, NEW b \in Block, FullSize(b.size) <= freeSize
    PROVE  Room(b)
<1>1. freeSize \in 0 .. BufferSize /\ BufferSize \in Nat /\ FullSize(b.size) \in Nat
  BY BufferFacts, BlockFacts DEF IInv, TypeOK
<1>2. FullSize(b.size) <= BufferSize
  BY <1>1
<1>. QED BY <1>2 DEF Room, IInv, TypeOK, Offsets, Contents

(* Not more than free is at most free.                                     *)
LEMMA RoomOrRefused ==
    ASSUME IInv, NEW b \in Block, ~(FullSize(b.size) > freeSize)
    PROVE  FullSize(b.size) <= freeSize
<1>1. freeSize \in Int /\ FullSize(b.size) \in Int
  BY BufferFacts, BlockFacts DEF IInv, TypeOK
<1>. QED BY <1>1

LEMMA NextIInv == IInv /\ [Next]_vars => IInv'
<1>. SUFFICES ASSUME IInv, [Next]_vars PROVE IInv'
  OBVIOUS
<1>1. ASSUME NEW b \in Block, WriteData(b)
      PROVE  IInv'
  <2>1. CASE FullSize(b.size) > freeSize
    BY <1>1, <2>1, RefusedIInv DEF WriteData
  <2>2. CASE ~(FullSize(b.size) > freeSize)
    <3>1. /\ mem' = StoreBlock(b) /\ writeOffset' = WriteOffsetAfter(b.size) /\ BlockWritten(b)
          /\ FullSize(b.size) <= freeSize
      BY <1>1, <2>2, RoomOrRefused DEF WriteData
    <3>2. mem' = Stored(b)
      BY <3>1, RoomFacts, StoreBlockStores
    <3>. QED BY <3>1, <3>2, WriteIInv
  <2>. QED BY <2>1, <2>2
<1>2. ASSUME NEW b \in Block, NEW n \in 1 .. b.size - 1, WriteMultipleData(b, n)
      PROVE  IInv'
  <2>1. CASE FullSize(b.size) > freeSize
    BY <1>2, <2>1, RefusedIInv DEF WriteMultipleData
  <2>2. CASE ~(FullSize(b.size) > freeSize)
    <3>1. /\ mem' = StoreTwoParts(b, n) /\ writeOffset' = WriteOffsetAfter(b.size)
          /\ BlockWritten(b) /\ FullSize(b.size) <= freeSize
      BY <1>2, <2>2, RoomOrRefused DEF WriteMultipleData
    <3>2. mem' = Stored(b)
      BY <3>1, RoomFacts, StoreTwoPartsStores
    <3>. QED BY <3>1, <3>2, WriteIInv
  <2>. QED BY <2>1, <2>2
<1>3. ASSUME NEW n \in ReadSize, ReadData(n)
      PROVE  IInv'
  <2>. DEFINE dataSize == mem[readOffset][2]
  <2>1. CASE freeSize = BufferSize
    BY <1>3, <2>1, RefusedIInv DEF ReadData
  <2>2. CASE freeSize # BufferSize /\ dataSize > n
    BY <1>3, <2>2, RefusedIInv DEF ReadData
  <2>3. CASE freeSize # BufferSize /\ ~(dataSize > n)
    <3>1. queue # <<>> /\ dataSize = queue[1].size
      BY <2>3, ReadFacts
    <3>2. /\ readOffset' = ReadOffsetAfter(dataSize)
          /\ freeSize' = freeSize + FullSize(dataSize) /\ dataCount' = dataCount - 1
          /\ ret' = "Ok" /\ queue' = Tail(queue) /\ starts' = Tail(starts)
          /\ UNCHANGED <<writeOffset, mem>>
      BY <1>3, <2>3 DEF ReadData
    <3>. HIDE DEF dataSize
    <3>. QED BY <3>1, <3>2, ReadIInv
  <2>. QED BY <2>1, <2>2, <2>3
<1>4. ASSUME UNCHANGED vars
      PROVE  IInv'
  BY <1>4 DEF vars, headerVars, IInv, TypeOK, CountIsExact, Offsets, Used, Contents, BufferSize,
              AlignUp
<1>. QED BY <1>1, <1>2, <1>3, <1>4, ResetIInv DEF Next

LEMMA SpecIInv == Spec => []IInv
BY InitIInv, NextIInv, PTL DEF Spec

(* Whatever the size of the ring and of the blocks, the header in shared   *)
(* memory describes the ring after every call of circbuffer.c: where the   *)
(* next block goes, how many blocks there are and how much room is left.   *)
THEOREM HeaderConsistentCorrect == Spec => []HeaderConsistent
<1>1. IInv => HeaderConsistent
  <2>. SUFFICES ASSUME IInv PROVE HeaderConsistent
    OBVIOUS
  <2>1. /\ BufferSize \in Nat \ {0} /\ BufferSize % 4 = 0
        /\ readOffset \in Nat /\ readOffset < BufferSize
        /\ writeOffset \in Nat /\ writeOffset < BufferSize /\ writeOffset % 4 = 0
        /\ Used \in Nat /\ Used <= BufferSize /\ freeSize = BufferSize - Used
        /\ writeOffset = Behind(readOffset, Used)
    BY BufferFacts, UsedFacts DEF IInv, TypeOK, Offsets
  <2>2. HeaderFits
    BY <2>1, SMT DEF HeaderFits, HeaderSize
  <2>3. OffsetsAgree
    BY <2>1, SMT DEF OffsetsAgree, Behind
  <2>. QED BY <2>2, <2>3 DEF HeaderConsistent, IInv
<1>. QED BY <1>1, SpecIInv, PTL

-----------------------------------------------------------------------------
(* Refinement *)

(* A write is a write of the queue, or is refused when the queue holds     *)
(* something or the block is larger than the ring.                         *)
LEMMA WriteRefines ==
    ASSUME IInv, NEW b \in Block,
           \/ FullSize(b.size) > freeSize /\ Refused("OutOfMem")
           \/ ~(FullSize(b.size) > freeSize) /\ BlockWritten(b)
    PROVE  Queue!Put(b) \/ Queue!PutRefused(b)
<1>1. /\ BufferSize \in Nat /\ freeSize \in 0 .. BufferSize /\ FullSize(b.size) \in Nat
  BY BufferFacts, BlockFacts DEF IInv, TypeOK
<1>2. CASE FullSize(b.size) > freeSize /\ Refused("OutOfMem")
  <2>1. queue # <<>> \/ ~Fits(b)
    <3>1. CASE queue = <<>>
      <4>1. freeSize = BufferSize
        BY <3>1, ReadFacts
      <4>. QED BY <1>1, <1>2, <4>1 DEF Fits
    <3>. QED BY <3>1
  <2>. QED BY <1>2, <2>1 DEF Refused, Queue!PutRefused
<1>3. CASE ~(FullSize(b.size) > freeSize) /\ BlockWritten(b)
  <2>1. Fits(b)
    BY <1>1, <1>3 DEF Fits
  <2>. QED BY <1>3, <2>1 DEF BlockWritten, Queue!Put
<1>. QED BY <1>2, <1>3

(* A read takes the oldest block whole, or says why it takes none.         *)
LEMMA ReadRefines ==
    ASSUME IInv, NEW n \in ReadSize, ReadData(n)
    PROVE  Queue!Get(n) \/ Queue!GetTooSmall(n) \/ Queue!GetEmpty
<1>. DEFINE dataSize == mem[readOffset][2]
<1>1. CASE freeSize = BufferSize
  <2>1. queue = <<>>
    BY <1>1, ReadFacts
  <2>. QED BY <1>1, <2>1 DEF ReadData, Refused, Queue!GetEmpty
<1>2. CASE freeSize # BufferSize
  <2>1. /\ queue # <<>> /\ dataSize = queue[1].size /\ Head(queue) = queue[1]
        /\ queue[1] \in Block /\ Holds(mem, readOffset, queue[1])
        /\ FullSize(queue[1].size) <= BufferSize
    BY <1>2, ReadFacts
  <2>2. dataSize = SizeOf(Head(queue))
    BY <2>1 DEF SizeOf
  <2>3. CASE dataSize > n
    <3>1. Refused("ReadsizeTooSmall")
      BY <1>2, <2>3 DEF ReadData
    <3>. HIDE DEF dataSize
    <3>. QED BY <2>1, <2>2, <2>3, <3>1 DEF Refused, Queue!GetTooSmall
  <2>4. CASE ~(dataSize > n)
    <3>1. out' = LoadBlock(dataSize) /\ ret' = "Ok" /\ queue' = Tail(queue)
      BY <1>2, <2>4 DEF ReadData
    <3>2. LoadBlock(queue[1].size) = DataOf(queue[1])
      BY <2>1, LoadBlockLoads DEF IInv, TypeOK, Offsets
    <3>3. SizeOf(Head(queue)) <= n
      <4>1. queue[1].size \in Nat /\ n \in Nat
        BY <2>1, SizesAssumption
      <4>2. ~(queue[1].size > n)
        BY <2>1, <2>4
      <4>. QED BY <2>1, <4>1, <4>2 DEF SizeOf
    <3>. HIDE DEF dataSize
    <3>. QED BY <2>1, <3>1, <3>2, <3>3 DEF Queue!Get
  <2>. QED BY <2>3, <2>4
<1>. QED BY <1>1, <1>2

(* Whatever the size of the ring and of the blocks, the buffer is a        *)
(* first-in first-out queue: circbuf_writeData and circbuf_writeMultipleData *)
(* put a whole block at its end, circbuf_readData takes the oldest one     *)
(* whole and unchanged, wherever it meets the end of the ring.             *)
THEOREM ImplementsFifoCorrect == Spec => ImplementsFifo
<1>1. Init => Queue!Init
  BY DEF Init, Queue!Init
<1>2. IInv /\ [Next]_vars => [Queue!Next]_(Queue!vars)
  <2>. SUFFICES ASSUME IInv, [Next]_vars
                PROVE  Queue!Next \/ UNCHANGED Queue!vars
    BY DEF Queue!vars
  <2>1. ASSUME NEW b \in Block, WriteData(b)
        PROVE  Queue!Next
    <3>1. Queue!Put(b) \/ Queue!PutRefused(b)
      BY <2>1, WriteRefines DEF WriteData
    <3>. QED BY <3>1 DEF Queue!Next
  <2>2. ASSUME NEW b \in Block, NEW n \in 1 .. b.size - 1, WriteMultipleData(b, n)
        PROVE  Queue!Next
    <3>1. Queue!Put(b) \/ Queue!PutRefused(b)
      BY <2>2, WriteRefines DEF WriteMultipleData
    <3>. QED BY <3>1 DEF Queue!Next
  <2>3. ASSUME NEW n \in ReadSize, ReadData(n)
        PROVE  Queue!Next
    <3>1. Queue!Get(n) \/ Queue!GetTooSmall(n) \/ Queue!GetEmpty
      BY <2>3, ReadRefines
    <3>. QED BY <3>1 DEF Queue!Next
  <2>4. CASE Reset
    BY <2>4 DEF Reset, Queue!Reset, Queue!Next
  <2>5. CASE UNCHANGED vars
    BY <2>5 DEF vars, Queue!vars
  <2>. QED BY <2>1, <2>2, <2>3, <2>4, <2>5 DEF Next
<1>. QED BY <1>1, <1>2, SpecIInv, PTL DEF Spec, ImplementsFifo, Queue!Spec

=============================================================================
