-------------------------------- MODULE MCDllCs -------------------------------
(* An instance of DllCs for TLC.                                             *)
EXTENDS DllCs

(* The second timeout of a cycle is the first that both flags together      *)
(* decide about; two more repeat it.                                         *)
MCMaxLost == 4
===============================================================================
