------------------------------- MODULE MCDllMs -------------------------------
(* Instances of DllMs for TLC: an MN that sends a PRes itself and two CNs,  *)
(* all of them or none in the isochronous phase.                            *)
EXTENDS DllMs

MCCN       == {1, 2}
MCNodeSets == {{1, 2, MN}}
===============================================================================
