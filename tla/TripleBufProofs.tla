--------------------------- MODULE TripleBufProofs ---------------------------
(* The safety of the PDO triple buffer, for every payload size and any     *)
(* number of productions.                                                  *)
EXTENDS TripleBuf, TLAPS

(* The three buffer numbers are always a permutation of 0 .. 2.            *)
BuffersDistinct ==
    /\ readBuf # writeBuf /\ readBuf # cleanBuf /\ writeBuf # cleanBuf

(* The two buffers the producer does not own hold one production each.     *)
BuffersWhole ==
    /\ \E v \in Version : Holds(readBuf, v)
    /\ \E v \in Version : Holds(cleanBuf, v)

(* What each side has copied so far comes from, or went to, its buffer.    *)
CopiesAgree ==
    /\ wpc = "copy" => \A w \in Words \ wleft : mem[writeBuf][w] = version
    /\ rpc = "read" => \A w \in Words \ rleft : rdata[w] = mem[readBuf][w]
    /\ rpc \in {"exchange", "clear"} => rleft = Words

IInv == TypeOK /\ BuffersDistinct /\ BuffersWhole /\ CopiesAgree /\ NewestIsKept

(* The inductive invariant holds initially.                                *)
LEMMA InitIInv == Init => IInv
<1> SUFFICES ASSUME Init PROVE IInv
  OBVIOUS
<1>1. 0 \in Version
  BY MaxVersionAssumption, SMT DEF Version
<1>2. TypeOK /\ BuffersDistinct
  BY <1>1, SMT DEF Init, TypeOK, BuffersDistinct, Buf
<1>3. Holds(readBuf, 0) /\ Holds(cleanBuf, 0)
  BY DEF Init, Holds, Buf
<1>4. BuffersWhole /\ NewestIsKept
  <2>1. published = 0
    BY DEF Init
  <2> QED BY <1>1, <1>3, <2>1 DEF BuffersWhole, NewestIsKept
<1>5. CopiesAgree
  BY DEF Init, CopiesAgree
<1> QED BY <1>2, <1>4, <1>5 DEF IInv

(* The producer's copy touches only the buffer it owns.                    *)
LEMMA CopyKeepsOthers ==
  ASSUME IInv, WriterCopy, NEW b \in {readBuf, cleanBuf}
  PROVE  mem'[b] = mem[b]
  BY SMT DEF IInv, TypeOK, BuffersDistinct, WriterCopy, Buf

(* Each step of the two sides preserves the inductive invariant.           *)
LEMMA NextIInv == IInv /\ [Next]_vars => IInv'
<1> SUFFICES ASSUME IInv, [Next]_vars PROVE IInv'
  OBVIOUS
<1> USE MaxVersionAssumption
<1>1. CASE WriterStart
  BY <1>1, SMT DEF WriterStart, IInv, TypeOK, BuffersDistinct, BuffersWhole,
     CopiesAgree, NewestIsKept, Holds, Version, infoVars, readerVars
<1>2. CASE WriterCopy
  <2>1. TypeOK'
    BY <1>2, SMT DEF WriterCopy, IInv, TypeOK, infoVars, readerVars
  <2>2. BuffersDistinct' /\ UNCHANGED <<readBuf, cleanBuf, writeBuf>>
    BY <1>2 DEF WriterCopy, IInv, BuffersDistinct, infoVars
  <2>3. mem'[readBuf] = mem[readBuf] /\ mem'[cleanBuf] = mem[cleanBuf]
    BY <1>2, CopyKeepsOthers
  <2>4. BuffersWhole' /\ NewestIsKept'
    BY <1>2, <2>2, <2>3 DEF WriterCopy, IInv, BuffersWhole, NewestIsKept, Holds
  <2>5. CopiesAgree'
    BY <1>2, <2>2, <2>3, SMT
    DEF WriterCopy, IInv, TypeOK, CopiesAgree, readerVars
  <2> QED BY <2>1, <2>2, <2>4, <2>5 DEF IInv
<1>3. CASE WriterExchange
  <2>1. TypeOK' /\ BuffersDistinct' /\ CopiesAgree'
    BY <1>3, SMT DEF WriterExchange, IInv, TypeOK, BuffersDistinct,
       CopiesAgree, readerVars
  <2>2. Holds(writeBuf, version)
    BY <1>3 DEF WriterExchange, IInv, CopiesAgree, Holds
  <2>3. BuffersWhole' /\ NewestIsKept'
    BY <1>3, <2>2 DEF WriterExchange, IInv, TypeOK, BuffersWhole,
       NewestIsKept, Holds
  <2> QED BY <2>1, <2>3 DEF IInv
<1>4. CASE WriterSetFlag
  BY <1>4, SMT DEF WriterSetFlag, IInv, TypeOK, BuffersDistinct, BuffersWhole,
     CopiesAgree, NewestIsKept, Holds, infoVars, readerVars
<1>5. CASE ReaderCheck
  BY <1>5, SMT DEF ReaderCheck, IInv, TypeOK, BuffersDistinct, BuffersWhole,
     CopiesAgree, NewestIsKept, Holds, infoVars, writerVars
<1>6. CASE ReaderExchange
  BY <1>6, SMT DEF ReaderExchange, IInv, TypeOK, BuffersDistinct, BuffersWhole,
     CopiesAgree, NewestIsKept, Holds, writerVars
<1>7. CASE ReaderClearFlag
  <2>1. TypeOK' /\ BuffersDistinct'
    BY <1>7, SMT DEF ReaderClearFlag, IInv, TypeOK, BuffersDistinct, infoVars,
       writerVars
  <2>2. BuffersWhole' /\ NewestIsKept'
    BY <1>7 DEF ReaderClearFlag, IInv, BuffersWhole, NewestIsKept, Holds,
       infoVars, writerVars
  <2>3. CopiesAgree'
    BY <1>7, SMT DEF ReaderClearFlag, IInv, CopiesAgree, infoVars, writerVars
  <2> QED BY <2>1, <2>2, <2>3 DEF IInv
<1>8. CASE ReaderCopy
  BY <1>8, SMT DEF ReaderCopy, IInv, TypeOK, BuffersDistinct, BuffersWhole,
     CopiesAgree, NewestIsKept, Holds, infoVars, writerVars
<1>9. CASE ReaderDone
  <2>1. taken' \in Version
    <3>1. (CHOOSE w \in Words : TRUE) \in Words
      BY WordsAssumption
    <3> QED BY <1>9, <3>1 DEF ReaderDone, IInv, TypeOK
  <2> QED
  BY <1>9, <2>1, SMT DEF ReaderDone, IInv, TypeOK, BuffersDistinct,
     BuffersWhole, CopiesAgree, NewestIsKept, Holds, infoVars, writerVars
<1>10. CASE UNCHANGED vars
  BY <1>10 DEF vars, IInv, TypeOK, BuffersDistinct, BuffersWhole, CopiesAgree,
     NewestIsKept, Holds, infoVars, writerVars, readerVars
<1> QED
  BY <1>1, <1>2, <1>3, <1>4, <1>5, <1>6, <1>7, <1>8, <1>9, <1>10
  DEF Next, Writer, Reader

(* The inductive invariant holds throughout.                               *)
THEOREM Inductive == Spec => []IInv
<1>1. Init => IInv
  BY InitIInv
<1>2. IInv /\ [Next]_vars => IInv'
  BY NextIInv
<1> QED BY <1>1, <1>2, PTL DEF Spec

(* Type correctness of the channel: no buffer number leaves 0 .. 2.        *)
THEOREM TypeCorrect == Spec => []TypeOK
<1>1. IInv => TypeOK
  BY DEF IInv
<1> QED BY <1>1, Inductive, PTL

(* No PDO handed to either side mixes two cycles, whatever its size and    *)
(* however kernel stack and application interleave.                        *)
THEOREM NeverTorn == Spec => []NoTornRead
<1>1. IInv => NoTornRead
  BY DEF IInv, NoTornRead, CopiesAgree, BuffersWhole, Holds
<1> QED BY <1>1, Inductive, PTL

(* The newest exchanged payload is never the one being overwritten.        *)
THEOREM NewestSafe == Spec => []NewestIsKept
<1>1. IInv => NewestIsKept
  BY DEF IInv
<1> QED BY <1>1, Inductive, PTL

-----------------------------------------------------------------------------
(* newData, as long as the swaps of the two sides have not overlapped.  It *)
(* is 1, or about to be set, exactly while the newest production is in the *)
(* clean buffer and an older one in the consumer's.                        *)
FlagInv == overlapped = 0 =>
    /\ published <= version /\ (wpc = "copy" => published < version)
    /\ rpc = "exchange" => newData = 1
    /\ rpc \in {"exchange", "clear"} => wpc # "flag"
    /\ \A w \in Words : taken <= mem[readBuf][w] /\ mem[readBuf][w] <= published
    /\ wpc = "flag" \/ (newData = 1 /\ rpc # "clear") =>
          Holds(cleanBuf, published) /\ \A w \in Words : mem[readBuf][w] < published
    /\ rpc = "clear" \/ (newData = 0 /\ wpc # "flag") => Holds(readBuf, published)

LEMMA InitFlagInv == Init => FlagInv
BY DEF Init, FlagInv, Holds, Buf

(* What the consumer hands out is the version it has read.                 *)
LEMMA DoneTakes ==
  ASSUME IInv, ReaderDone
  PROVE  \E w \in Words : taken' = mem[readBuf][w]
<1>1. (CHOOSE w \in Words : TRUE) \in Words
  BY WordsAssumption
<1> QED BY <1>1 DEF ReaderDone, IInv, CopiesAgree

LEMMA NextFlagInv == IInv /\ FlagInv /\ [Next]_vars => FlagInv'
<1> SUFFICES ASSUME IInv, FlagInv, [Next]_vars, overlapped' = 0 PROVE FlagInv'
  BY DEF FlagInv
<1>0. /\ published \in Nat /\ version \in Nat /\ taken \in Nat
      /\ readBuf \in Buf /\ writeBuf \in Buf /\ cleanBuf \in Buf
      /\ \A b \in Buf, w \in Words : mem[b][w] \in Nat
      /\ newData \in {0, 1} /\ overlapped \in {0, 1}
      /\ wpc \in {"idle", "copy", "flag"}
      /\ rpc \in {"idle", "exchange", "clear", "read"}
  BY MaxVersionAssumption DEF IInv, TypeOK, Version
<1>1. CASE WriterStart
  BY <1>0, <1>1 DEF WriterStart, FlagInv, Holds, infoVars, readerVars
<1>2. CASE WriterCopy
  <2>1. mem'[readBuf] = mem[readBuf] /\ mem'[cleanBuf] = mem[cleanBuf]
    BY <1>2, CopyKeepsOthers
  <2> QED BY <1>0, <1>2, <2>1 DEF WriterCopy, FlagInv, Holds, infoVars, readerVars
<1>3. CASE WriterExchange
  <2>1. overlapped = 0 /\ rpc \in {"idle", "read"}
    BY <1>0, <1>3 DEF WriterExchange
  <2>2. Holds(writeBuf, version)
    BY <1>3 DEF WriterExchange, IInv, CopiesAgree, Holds
  <2> QED BY <1>0, <1>3, <2>1, <2>2 DEF WriterExchange, FlagInv, Holds, readerVars
<1>4. CASE WriterSetFlag
  BY <1>0, <1>4 DEF WriterSetFlag, FlagInv, Holds, infoVars, readerVars
<1>5. CASE ReaderCheck
  BY <1>0, <1>5 DEF ReaderCheck, FlagInv, Holds, infoVars, writerVars
<1>6. CASE ReaderExchange
  BY <1>0, <1>6 DEF ReaderExchange, FlagInv, Holds, writerVars
<1>7. CASE ReaderClearFlag
  BY <1>0, <1>7 DEF ReaderClearFlag, FlagInv, Holds, infoVars, writerVars
<1>8. CASE ReaderCopy
  BY <1>0, <1>8 DEF ReaderCopy, FlagInv, Holds, infoVars, writerVars
<1>9. CASE ReaderDone
  <2>1. \E w \in Words : taken' = mem[readBuf][w]
    BY <1>9, DoneTakes
  <2>2. \A v, w \in Words : mem[readBuf][v] = mem[readBuf][w]
    BY DEF IInv, BuffersWhole, Holds
  <2> QED BY <1>0, <1>9, <2>1, <2>2
          DEF ReaderDone, FlagInv, Holds, infoVars, writerVars
<1>10. CASE UNCHANGED vars
  BY <1>10 DEF vars, FlagInv, Holds, infoVars, writerVars, readerVars
<1> QED
  BY <1>1, <1>2, <1>3, <1>4, <1>5, <1>6, <1>7, <1>8, <1>9, <1>10
  DEF Next, Writer, Reader

THEOREM FlagInductive == Spec => [](IInv /\ FlagInv)
BY InitFlagInv, NextFlagInv, Inductive, PTL DEF Spec

(* newData tells new from old, for every payload and every number of       *)
(* productions, until an exchange and its write of newData are cut in two  *)
(* by those of the other side.                                             *)
THEOREM FlagExact == Spec => []FlagExactUntilOverlap
<1>1. IInv /\ FlagInv => FlagExactUntilOverlap
  <2> SUFFICES ASSUME IInv, FlagInv, overlapped = 0, wpc = "idle", rpc = "idle"
               PROVE  newData = 1 <=> ~Holds(readBuf, published)
    BY DEF FlagExactUntilOverlap, NewDataSaysSo
  <2>1. /\ published \in Nat /\ newData \in {0, 1} /\ readBuf \in Buf
        /\ \A b \in Buf, w \in Words : mem[b][w] \in Nat
    BY MaxVersionAssumption DEF IInv, TypeOK, Version
  <2>2. CASE newData = 1
    BY <2>1, <2>2, WordsAssumption DEF FlagInv, Holds
  <2>3. CASE newData = 0
    BY <2>3 DEF FlagInv
  <2> QED BY <2>1, <2>2, <2>3
<1> QED BY <1>1, FlagInductive, PTL

(* Until then the consumer's view of a PDO never goes back.                *)
THEOREM ReadsAdvance == Spec => ReadsAdvanceUntilOverlap
<1>1. IInv /\ FlagInv /\ [Next]_vars => [overlapped' = 0 => taken' >= taken]_vars
  <2> SUFFICES ASSUME IInv, FlagInv, [Next]_vars, overlapped' = 0
               PROVE  taken' >= taken \/ UNCHANGED vars
    OBVIOUS
  <2>0. /\ taken \in Nat /\ readBuf \in Buf
        /\ \A b \in Buf, w \in Words : mem[b][w] \in Nat
    BY MaxVersionAssumption DEF IInv, TypeOK, Version
  <2>1. CASE ReaderDone
    <3>1. \E w \in Words : taken' = mem[readBuf][w]
      BY <2>1, DoneTakes
    <3>2. overlapped = 0
      BY <2>1 DEF ReaderDone
    <3> QED BY <2>0, <3>1, <3>2 DEF FlagInv
  <2>2. CASE Writer \/ ReaderCheck \/ ReaderExchange \/ ReaderClearFlag \/ ReaderCopy
    <3>1. taken' = taken
      BY <2>2 DEF Writer, WriterStart, WriterCopy, WriterExchange, WriterSetFlag,
         ReaderCheck, ReaderExchange, ReaderClearFlag, ReaderCopy, readerVars
    <3> QED BY <2>0, <3>1
  <2> QED BY <2>1, <2>2 DEF Next, Reader
<1> QED BY <1>1, FlagInductive, PTL DEF Spec, ReadsAdvanceUntilOverlap
=============================================================================
