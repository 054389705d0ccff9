----------------------------- MODULE MCTripleBuf -----------------------------
(* Model checking of TripleBuf: two words are enough to tear a payload,    *)
(* four productions to go once through the three buffers and on.           *)
EXTENDS TripleBuf

MCWords == {"lo", "hi"}
=============================================================================
