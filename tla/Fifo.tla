-------------------------------- MODULE Fifo --------------------------------
(***************************************************************************)
(* What the circular buffer library promises: a bounded first-in           *)
(* first-out queue of data blocks.  Every call answers at once with a      *)
(* tCircBufError; a call that does not succeed changes nothing.  A write   *)
(* may be refused only when the queue holds something (or when the block   *)
(* would not fit even into an empty buffer).                               *)
(***************************************************************************)
EXTENDS Naturals, Sequences

CONSTANTS
    Block,        \* the blocks that can be written
    SizeOf(_),    \* the data size of a block
    DataOf(_),    \* its bytes
    Fits(_),      \* the block fits into an empty buffer
    ReadSize      \* the sizes of the buffers data is read into

VARIABLES
    queue,   \* the blocks written and not yet read
    ret,     \* the code returned by the last call
    out      \* the data handed out by the last successful read

vars == <<queue, ret, out>>

Init == queue = <<>> /\ ret = "Ok" /\ out = <<>>

Put(b) ==
    /\ Fits(b)
    /\ queue' = Append(queue, b) /\ ret' = "Ok" /\ UNCHANGED out

PutRefused(b) ==
    /\ queue # <<>> \/ ~Fits(b)
    /\ ret' = "OutOfMem" /\ UNCHANGED <<queue, out>>

Get(n) ==
    /\ queue # <<>> /\ SizeOf(Head(queue)) <= n
    /\ queue' = Tail(queue) /\ ret' = "Ok" /\ out' = DataOf(Head(queue))

GetTooSmall(n) ==
    /\ queue # <<>> /\ SizeOf(Head(queue)) > n
    /\ ret' = "ReadsizeTooSmall" /\ UNCHANGED <<queue, out>>

GetEmpty ==
    /\ queue = <<>>
    /\ ret' = "NoReadableData" /\ UNCHANGED <<queue, out>>

Reset == queue' = <<>> /\ UNCHANGED <<ret, out>>

Next ==
    \/ \E b \in Block : Put(b) \/ PutRefused(b)
    \/ \E n \in ReadSize : Get(n) \/ GetTooSmall(n)
    \/ GetEmpty
    \/ Reset

Spec == Init /\ [][Next]_vars
=============================================================================
