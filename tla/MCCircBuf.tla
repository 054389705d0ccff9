------------------------------ MODULE MCCircBuf ------------------------------
(* Model checking of CircBuf: a ring of 16 bytes holds one or two blocks.  *)
(* Blocks of one byte (padded to four) and of six (padded to eight) meet   *)
(* the end of the ring exactly, wrap around it after four bytes of data,   *)
(* and, with the size word in the last four bytes, before the first one.   *)
EXTENDS CircBuf

MCBlock == {[msg |-> "a", size |-> 1], [msg |-> "b", size |-> 6],
            [msg |-> "c", size |-> 6]}
MCReadSize == {4, 6}
=============================================================================
