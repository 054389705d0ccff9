------------------------------ MODULE TripleBuf ------------------------------
(***************************************************************************)
(* One PDO channel of the shared memory triple buffer                      *)
(* (pdokcal-triplebufshm.c, pdoucal-triplebufshm.c).                       *)
(*                                                                         *)
(* Three buffers; tPdoBufferInfo says which one the consumer reads, which  *)
(* one the producer fills and which one is clean.  Producer and consumer   *)
(* run on two sides of the shared memory (kernel stack and application)    *)
(* with no lock: each swaps its own buffer with the clean one by an atomic *)
(* exchange, and a plain byte, newData, tells the consumer to swap.  The   *)
(* exchange and the write of newData are two separate steps on both sides. *)
(*                                                                         *)
(* A payload is abstracted to the number of the production it belongs to,  *)
(* copied word by word, so that a torn read mixes two numbers.             *)
(***************************************************************************)
EXTENDS Naturals

CONSTANTS
    Words,       \* the words of the channel's PDO payload
    MaxVersion   \* bound: productions of the producer

ASSUME WordsAssumption == Words # {}
ASSUME MaxVersionAssumption == MaxVersion \in Nat

VARIABLES
    readBuf, writeBuf, cleanBuf,  \* the buffer numbers of tPdoBufferInfo
    newData,     \* its flag "whether new data has been produced"
    mem,         \* mem[b][w]: the production word w of buffer b belongs to
    wpc, wleft,  \* producer: program counter, words not yet copied
    version,     \* the production being written, or written last
    published,   \* the last production exchanged into the clean buffer
    rpc, rleft,  \* consumer: program counter, words not yet copied
    rdata,       \* the payload copied out by the consumer
    taken,       \* the production the consumer had completely read last
    overlapped   \* history: the swaps of the two sides have overlapped, 0 or 1

infoVars   == <<readBuf, writeBuf, cleanBuf>>
writerVars == <<wpc, wleft, version, published>>
readerVars == <<rpc, rleft, rdata, taken>>
vars == <<infoVars, newData, mem, writerVars, readerVars, overlapped>>

Buf == 0 .. 2
Version == 0 .. MaxVersion

(* pdokcal_initPdoMem clears the buffers; setupPdoMemInfo deals them out.  *)
InitOneBased ==  \* mutant: the buffers numbered from one
    /\ readBuf = 1 /\ writeBuf = 2 /\ cleanBuf = 3
    /\ newData = 0
    /\ mem = [b \in Buf |-> [w \in Words |-> 0]]
    /\ wpc = "idle" /\ wleft = {} /\ version = 0 /\ published = 0
    /\ rpc = "idle" /\ rleft = {} /\ rdata = [w \in Words |-> 0] /\ taken = 0
    /\ overlapped = 0

Init ==
    /\ readBuf = 0 /\ writeBuf = 1 /\ cleanBuf = 2
    /\ newData = 0
    /\ mem = [b \in Buf |-> [w \in Words |-> 0]]
    /\ wpc = "idle" /\ wleft = {} /\ version = 0 /\ published = 0
    /\ rpc = "idle" /\ rleft = {} /\ rdata = [w \in Words |-> 0] /\ taken = 0
    /\ overlapped = 0

-----------------------------------------------------------------------------
(* Producer: pdokcal_writeRxPdo, or the application and pdoucal_setTxPdo.  *)

WriterStart ==
    /\ wpc = "idle" /\ version < MaxVersion
    /\ wpc' = "copy" /\ wleft' = Words /\ version' = version + 1
    /\ UNCHANGED <<infoVars, newData, mem, published, readerVars, overlapped>>

WriterCopy ==
    /\ wpc = "copy"
    /\ \E w \in wleft :
          /\ mem' = [mem EXCEPT ![writeBuf][w] = version]
          /\ wleft' = wleft \ {w}
    /\ UNCHANGED <<infoVars, newData, wpc, version, published, readerVars, overlapped>>

(* OPLK_ATOMIC_EXCHANGE(&cleanBuf, writeBuf, writeBuf)                     *)
WriterExchangeLosesOld ==  \* mutant: the old clean buffer is not taken over
    /\ wpc = "copy" /\ wleft = {}
    /\ wpc' = "flag"
    /\ cleanBuf' = writeBuf
    /\ published' = version
    /\ overlapped' = IF rpc \in {"exchange", "clear"} THEN 1 ELSE overlapped
    /\ UNCHANGED <<readBuf, writeBuf, newData, mem, wleft, version, readerVars>>

WriterExchange ==
    /\ wpc = "copy" /\ wleft = {}
    /\ wpc' = "flag"
    /\ cleanBuf' = writeBuf /\ writeBuf' = cleanBuf
    /\ published' = version
    /\ overlapped' = IF rpc \in {"exchange", "clear"} THEN 1 ELSE overlapped
    /\ UNCHANGED <<readBuf, newData, mem, wleft, version, readerVars>>

WriterForgetsFlag ==  \* mutant
    /\ wpc = "flag"
    /\ wpc' = "idle"
    /\ UNCHANGED <<infoVars, newData, mem, wleft, version, published, readerVars, overlapped>>

WriterSetFlag ==
    /\ wpc = "flag"
    /\ wpc' = "idle"
    /\ newData' = 1
    /\ UNCHANGED <<infoVars, mem, wleft, version, published, readerVars, overlapped>>

-----------------------------------------------------------------------------
(* Consumer: pdoucal_getRxPdo and the application, or pdokcal_readTxPdo.   *)

ReaderCheck ==
    /\ rpc = "idle"
    /\ rpc' = IF newData = 1 THEN "exchange" ELSE "read"
    /\ rleft' = Words
    /\ overlapped' = IF newData = 1 /\ wpc = "flag" THEN 1 ELSE overlapped
    /\ UNCHANGED <<infoVars, newData, mem, writerVars, rdata, taken>>

ReaderExchange ==
    /\ rpc = "exchange"
    /\ rpc' = "clear"
    /\ cleanBuf' = readBuf /\ readBuf' = cleanBuf
    /\ UNCHANGED <<writeBuf, newData, mem, writerVars, rleft, rdata, taken, overlapped>>

ReaderForgetsFlag ==  \* mutant
    /\ rpc = "clear"
    /\ rpc' = "read"
    /\ UNCHANGED <<infoVars, newData, mem, writerVars, rleft, rdata, taken, overlapped>>

ReaderClearFlag ==
    /\ rpc = "clear"
    /\ rpc' = "read"
    /\ newData' = 0
    /\ UNCHANGED <<infoVars, mem, writerVars, rleft, rdata, taken, overlapped>>

ReaderCopy ==
    /\ rpc = "read"
    /\ \E w \in rleft :
          /\ rdata' = [rdata EXCEPT ![w] = mem[readBuf][w]]
          /\ rleft' = rleft \ {w}
    /\ UNCHANGED <<infoVars, newData, mem, writerVars, rpc, taken, overlapped>>

ReaderDone ==
    /\ rpc = "read" /\ rleft = {}
    /\ rpc' = "idle"
    /\ taken' = rdata[CHOOSE w \in Words : TRUE]
    /\ UNCHANGED <<infoVars, newData, mem, writerVars, rleft, rdata, overlapped>>

-----------------------------------------------------------------------------
Writer == WriterStart \/ WriterCopy \/ WriterExchange \/ WriterSetFlag
Reader == \/ ReaderCheck \/ ReaderExchange \/ ReaderClearFlag
          \/ ReaderCopy \/ ReaderDone

Next == Writer \/ Reader

Spec == Init /\ [][Next]_vars

-----------------------------------------------------------------------------
(* Types: tPdoBufferInfo, the three buffers and what each side has copied. *)
TypeOK ==
    /\ readBuf \in Buf /\ writeBuf \in Buf /\ cleanBuf \in Buf
    /\ newData \in {0, 1}
    /\ mem \in [Buf -> [Words -> Version]]
    /\ wpc \in {"idle", "copy", "flag"} /\ wleft \in SUBSET Words
    /\ version \in Version /\ published \in Version
    /\ rpc \in {"idle", "exchange", "clear", "read"}
    /\ rleft \in SUBSET Words
    /\ rdata \in [Words -> Version] /\ taken \in Version
    /\ overlapped \in {0, 1}

(* Buffer b holds production v in all its words.                           *)
Holds(b, v) == \A w \in Words : mem[b][w] = v

(* A payload the consumer has copied completely belongs to one production: *)
(* however the copies of the two sides interleave, getRxPdo and readTxPdo  *)
(* never hand out a PDO that mixes two cycles.                             *)
NoTornRead ==
    rpc = "read" /\ rleft = {} => \A v, w \in Words : rdata[v] = rdata[w]

(* The newest complete production is in the consumer's buffer or in the    *)
(* clean one, never in the one writeRxPdo is about to overwrite: the data  *)
(* of the latest cycle cannot be destroyed by a producer that runs ahead.  *)
NewestIsKept == Holds(cleanBuf, published) \/ Holds(readBuf, published)

(* tPdoBufferInfo calls newData the "flag indicating whether new data has  *)
(* been produced" (pdo.h:132): between the calls of the two sides it would *)
(* be set exactly when the newest production is not the one being read.    *)
NewDataSaysSo ==
    wpc = "idle" /\ rpc = "idle" => (newData = 1 <=> ~Holds(readBuf, published))

(* It does say so as long as no exchange with its write of newData has     *)
(* been cut in two by that of the other side (setTxPdo, writeRxPdo against *)
(* getRxPdo, readTxPdo): the steps of the copies may interleave at will.   *)
FlagExactUntilOverlap == overlapped = 0 => NewDataSaysSo

(* Until then the consumer's view of a PDO never goes back to an earlier   *)
(* cycle either: it swaps only towards newer data.                         *)
ReadsAdvanceUntilOverlap == [][overlapped' = 0 => taken' >= taken]_vars
=============================================================================
