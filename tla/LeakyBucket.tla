----------------------------- MODULE LeakyBucket -----------------------------
(***************************************************************************)
(* What one threshold counter of the error handler promises.  An error     *)
(* adds 8 and is reported as persistent when the level is at the threshold *)
(* or above it; a cycle without an error takes 1 off.  A threshold of 0    *)
(* switches the counter off.                                               *)
(***************************************************************************)
EXTENDS Naturals

CONSTANT Threshold

VARIABLES
    level,      \* the threshold counter
    lost,       \* an error was counted in this cycle
    alarm       \* the last step reported a persistent error

vars == <<level, lost, alarm>>

Init == level = 0 /\ lost = FALSE /\ alarm = FALSE

Error ==
    /\ Threshold > 0
    /\ level' = level + 8 /\ lost' = TRUE
    /\ alarm' = (level + 8 >= Threshold)

CycleEnd ==
    /\ level' = IF lost \/ level = 0 THEN level ELSE level - 1
    /\ lost' = FALSE /\ alarm' = FALSE

(* Something happened that is none of this counter's business.             *)
Other == alarm' = FALSE /\ UNCHANGED <<level, lost>>

Next == Error \/ CycleEnd \/ Other

Spec == Init /\ [][Next]_vars
=============================================================================
