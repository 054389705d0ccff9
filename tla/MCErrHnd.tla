------------------------------- MODULE MCErrHnd -------------------------------
(* Instances of ErrHnd for TLC: a CN, and an MN with two CNs.  Thresholds    *)
(* that are and are not a multiple of 8, reached at once or in some steps.   *)
EXTENDS ErrHnd

Thresholds == [o \in Object |-> CASE o = "CnLossSoc" -> 15
                                  [] o \in {"CnLossPreq", "n1"} -> 16
                                  [] o = "n2" -> 8
                                  [] OTHER -> 17]
TwoNodes   == {"n1", "n2"}
(* The errors the DLL reports; nothing reports CRC errors.                   *)
AllCnErrors == {"CnLossSoc", "CnLossPreq", "RecvdPreq", "InvalidFormat"}
AllMnErrors == {"MnCycTimeExceed", "InvalidFormat"} \cup Node
NoErrors    == {}
OnlyCycle   == {"MnCycTimeExceed"}
===============================================================================
