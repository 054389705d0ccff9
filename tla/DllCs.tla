-------------------------------- MODULE DllCs --------------------------------
(***************************************************************************)
(* The cycle state machine of a controlled node (dllkstatemachine.c): which *)
(* frame the DLL waits for, and which loss it reports to the error handler. *)
(*                                                                         *)
(* The bus is the environment: the MN sends SoC, PReq, the PRes of others, *)
(* SoA and ASnd in this order, cycle by cycle, and every one of them may   *)
(* be lost.  The cycle timer (cbCnTimer()) expires    *)
(* when a SoC fails to come and restarts itself.  The NMT state changes in *)
(* the kernel event thread, between any two frames.  The poll response     *)
(* chaining frames (CONFIG_INCLUDE_MASND) are not part of the build, and   *)
(* the node is not multiplexed (cycleCount stays 0).                       *)
(***************************************************************************)
EXTENDS Naturals

CONSTANT
    MaxLost         \* bound: SoCs lost in a row

DllState == {"GsInit", "WaitPreq", "WaitSoc", "WaitSoa"}
FullCycle == {"CsPreOperational2", "CsReadyToOperate", "CsOperational"}
CsState == FullCycle \cup
    {"GsResetConfiguration", "CsNotActive", "CsPreOperational1", "CsStopped",
     "CsBasicEthernet"}
Frame == {"Soc", "Preq", "Pres", "Soa", "Asnd"}

ASSUME DllCsAssumption == MaxLost \in Nat

VARIABLES
    nmtState,        \* dllkInstance_g.nmtState
    dllState,        \* dllkInstance_g.dllState
    fLossReported,   \* dllkInstance_g.lossSocStatus, as 0 and 1
    fTimeoutOccurred,
    posted,          \* dllErrorEvents of the last step
    slot,            \* bus: the frame that comes next
    due,             \* bus: a SoC was lost and its timeout is outstanding
    socPosted,       \* a SoC event was posted to nmtk since the last reset
    reports,         \* history: LOSS_SOC reports since the last SoC
    timeouts,        \* history: timeouts that counted since the last SoC
    settled,         \* history: in the full cycle since a SoC it waited for
    disturbed        \* history: since the last reset a frame was lost or the
                     \* node was stopped

dllVars == <<dllState, fLossReported, fTimeoutOccurred>>
vars == <<nmtState, dllVars, posted, slot, due, socPosted, reports, timeouts,
          settled, disturbed>>

NmtNext ==
    [GsResetConfiguration |-> {"CsNotActive"},
     CsNotActive          |-> {"CsPreOperational1", "CsBasicEthernet"},
     CsPreOperational1    |-> {"CsPreOperational2"},
     CsPreOperational2    |-> {"CsReadyToOperate", "CsStopped",
                               "CsPreOperational1"},
     CsReadyToOperate     |-> {"CsOperational", "CsStopped",
                               "CsPreOperational1"},
     CsOperational        |-> {"CsPreOperational2", "CsStopped",
                               "CsPreOperational1"},
     CsStopped            |-> {"CsPreOperational2", "CsPreOperational1"},
     CsBasicEthernet      |-> {"CsPreOperational1"}]

-----------------------------------------------------------------------------
(* The state functions.  Those of the full cycle ignore a timeout in       *)
(* PreOp2, where the configured cycle length may be wrong.                 *)
Ignored(e) == e = "FrameTimeout" /\ nmtState = "CsPreOperational2"

(* Mutant: a PReq without a SoC before it is not waited out.               *)
PreqKeepsWaitSoa(e) ==
    CASE dllState = "GsInit" -> "WaitPreq"
      [] dllState = "WaitPreq" /\ e = "Preq" -> "WaitSoa"
      [] dllState \in {"WaitPreq", "WaitSoa"} /\ e \in {"Soa", "FrameTimeout"}
            /\ ~Ignored(e) -> "WaitSoc"
      [] dllState \in {"WaitSoc", "WaitSoa"} /\ e = "Soc" -> "WaitPreq"
      [] OTHER -> dllState

processCsFullCycle(e) ==
    CASE dllState = "GsInit" -> "WaitPreq"
      [] dllState = "WaitPreq" /\ e = "Preq" -> "WaitSoa"
      [] dllState = "WaitPreq" /\ e \in {"Soa", "FrameTimeout"} /\ ~Ignored(e)
            -> "WaitSoc"
      [] dllState = "WaitSoc" /\ e = "Soc" -> "WaitPreq"
      [] dllState = "WaitSoa" /\ e = "Soc" -> "WaitPreq"
      [] dllState = "WaitSoa" /\ e \in {"Preq", "Soa", "FrameTimeout"}
            /\ ~Ignored(e) -> "WaitSoc"
      [] OTHER -> dllState

processCsStopped(e) ==
    CASE dllState = "GsInit" -> "WaitSoa"
      [] dllState = "WaitPreq" /\ e = "Preq" -> "WaitSoa"
      [] dllState = "WaitSoc" /\ e = "Soc" -> "WaitSoa"
      [] dllState \in {"WaitPreq", "WaitSoa"} /\ e \in {"Soa", "FrameTimeout"}
            -> "WaitSoc"
      [] OTHER -> dllState

(* dllkstatemachine_changeState() for the states of a CN.                  *)
NextDllState(e) ==
    CASE nmtState \in FullCycle -> processCsFullCycle(e)
      [] nmtState = "CsStopped" -> processCsStopped(e)
      [] nmtState \in {"CsNotActive", "CsPreOperational1"} /\ e = "Soc"
            -> "WaitPreq"
      [] OTHER -> "GsInit"

(* Mutant: an SoA after the PReq is taken for a sign of a lost SoC.        *)
SoaShowsLossOfSoc(e) ==
    \/ /\ nmtState \in FullCycle
       /\ \/ dllState = "WaitSoc" /\ e \in {"Pres", "Preq", "Soa"}
          \/ dllState = "WaitSoa" /\ e \in {"Preq", "Soa"}
    \/ nmtState = "CsStopped" /\ dllState = "WaitSoc" /\ e \in {"Preq", "Soa"}

(* A frame that shows the SoC before it was lost.                          *)
ShowsLossOfSoc(e) ==
    \/ /\ nmtState \in FullCycle
       /\ \/ dllState = "WaitSoc" /\ e \in {"Pres", "Preq", "Soa"}
          \/ dllState = "WaitSoa" /\ e = "Preq"
    \/ nmtState = "CsStopped" /\ dllState = "WaitSoc" /\ e \in {"Preq", "Soa"}

(* A timeout of the cycle timer that counts.                               *)
CountsAsTimeout(e) ==
    /\ e = "FrameTimeout" /\ dllState # "GsInit"
    /\ nmtState \in FullCycle \cup {"CsStopped"} /\ ~Ignored(e)

(* Mutant: the frames do not look at the flag.                             *)
ReportsEveryFrame(e) ==
    ShowsLossOfSoc(e) \/ (CountsAsTimeout(e) /\ fLossReported = 0)

(* Mutant: a second timeout in a row is not reported.                      *)
ReportsFirstTimeoutOnly(e) ==
    (ShowsLossOfSoc(e) \/ CountsAsTimeout(e)) /\ fLossReported = 0

(* triggerLossOfSocEvent(), triggerLossOfSocEventOnFrameTimeout().         *)
ReportsLossOfSoc(e) ==
    \/ ShowsLossOfSoc(e) /\ fLossReported = 0
    \/ CountsAsTimeout(e) /\ (fLossReported = 0 \/ fTimeoutOccurred = 1)

(* "Valid Soc arrived -> Reset report flags!"                              *)
ResetsReportFlags(e) ==
    nmtState \in FullCycle /\ dllState = "WaitSoc" /\ e = "Soc"

LossOfPreq(e) ==
    /\ nmtState \in {"CsReadyToOperate", "CsOperational"}
    /\ dllState = "WaitPreq" /\ e = "Soa"

LossOfSoa(e) ==
    /\ nmtState \in FullCycle \cup {"CsStopped"}
    /\ \/ dllState \in {"WaitPreq", "WaitSoa"} /\ e \in {"Soc", "Asnd"}
       \/ dllState \in {"WaitPreq", "WaitSoa"} /\ CountsAsTimeout(e)
       \/ nmtState \in FullCycle /\ dllState = "WaitSoa" /\ e = "Preq"

Posted(e) ==
    {x \in {"LossSoc", "LossPreq", "LossSoa", "RecvdPreq"} :
        \/ x = "LossSoc"   /\ ReportsLossOfSoc(e)
        \/ x = "LossPreq"  /\ LossOfPreq(e)
        \/ x = "LossSoa"   /\ LossOfSoa(e)
        \/ x = "RecvdPreq" /\ nmtState \in FullCycle /\ dllState = "WaitPreq"
                           /\ e = "Preq"}

(* In the reset states frames and timeouts are dropped before.             *)
changeState(e) ==
  IF nmtState = "GsResetConfiguration"
  THEN posted' = {} /\ UNCHANGED <<dllVars, reports, timeouts, settled>>
  ELSE
    /\ dllState' = NextDllState(e)
    /\ posted' = Posted(e)
    /\ IF ResetsReportFlags(e)
       THEN fLossReported' = 0 /\ fTimeoutOccurred' = 0
       ELSE /\ fLossReported' = IF ShowsLossOfSoc(e) \/ CountsAsTimeout(e)
                                THEN 1 ELSE fLossReported
            /\ fTimeoutOccurred' = IF CountsAsTimeout(e)
                                   THEN 1 ELSE fTimeoutOccurred
    /\ reports' = (IF e = "Soc" THEN 0 ELSE reports)
                  + (IF "LossSoc" \in posted' THEN 1 ELSE 0)
    /\ timeouts' = (IF e = "Soc" THEN 0 ELSE timeouts)
                   + (IF CountsAsTimeout(e) THEN 1 ELSE 0)
    /\ settled' = IF ResetsReportFlags(e) THEN 1 ELSE settled

-----------------------------------------------------------------------------
Following == [Soc |-> "Preq", Preq |-> "Pres", Pres |-> "Soa",
              Soa |-> "Asnd", Asnd |-> "Soc"]

(* dllkframe_processFrameReceived(): a frame of the bus arrives.  A SoC    *)
(* restarts the cycle timer and is posted to the NMT state machine.        *)
FrameReceived ==
    /\ ~ (slot = "Soc" /\ due)
    /\ changeState(slot)
    /\ due' = IF slot = "Soc" THEN FALSE ELSE due
    /\ socPosted' = \/ socPosted
                    \/ slot = "Soc" /\ nmtState # "GsResetConfiguration"
    /\ slot' = Following[slot]
    /\ UNCHANGED <<nmtState, disturbed>>

(* The MN polls no node it does not have in the cycle, other nodes need    *)
(* not answer and the asynchronous phase may be empty ...                  *)
FrameNotSent ==
    /\ slot \in {"Preq", "Pres", "Asnd"}
    /\ slot' = Following[slot] /\ posted' = {}
    /\ UNCHANGED <<nmtState, dllVars, due, socPosted, reports, timeouts, settled,
                   disturbed>>

(* ... and a frame may be lost on the way.                                 *)
FrameLost ==
    /\ slot = "Soc" => ~due /\ timeouts < MaxLost
    /\ due' = (slot = "Soc" \/ due)
    /\ slot' = Following[slot] /\ posted' = {}
    /\ disturbed' = TRUE
    /\ UNCHANGED <<nmtState, dllVars, socPosted, reports, timeouts, settled>>

(* cbCnTimer(), cbCnLossOfSync().                                          *)
FrameTimeout ==
    /\ due /\ due' = FALSE
    /\ changeState("FrameTimeout")
    /\ UNCHANGED <<nmtState, slot, socPosted, disturbed>>

(* processNmtStateChange(): the cycle timer is deleted in PreOp1 and when  *)
(* the local node is cleaned up.  The NMT state machine enters PreOp2 from *)
(* PreOp1 on a SoC event; it drops every event it has left in a reset.     *)
NmtStateChange ==
    /\ \E s \in NmtNext[nmtState] \cup {"GsResetConfiguration"} :
          /\ nmtState' = s
          /\ nmtState = "CsPreOperational1" /\ s = "CsPreOperational2"
                => socPosted
          /\ socPosted' = (socPosted /\ s # "GsResetConfiguration")
          /\ due' = (due /\ s \notin {"CsPreOperational1", "GsResetConfiguration"})
          /\ settled' = IF s \in FullCycle THEN settled ELSE 0
          /\ disturbed' = IF s = "GsResetConfiguration" THEN FALSE
                          ELSE disturbed \/ s = "CsStopped"
    /\ posted' = {}
    /\ UNCHANGED <<dllVars, slot, reports, timeouts>>

-----------------------------------------------------------------------------
(* dllk_addInstance(): the instance is zeroed.                             *)
Init ==
    /\ nmtState = "GsResetConfiguration" /\ dllState = "GsInit"
    /\ fLossReported = 0 /\ fTimeoutOccurred = 0
    /\ posted = {} /\ reports = 0 /\ timeouts = 0
    /\ slot = "Soc" /\ due = FALSE /\ socPosted = FALSE
    /\ settled = 0 /\ disturbed = FALSE

Next == FrameReceived \/ FrameNotSent \/ FrameLost \/ FrameTimeout
        \/ NmtStateChange

Spec == Init /\ [][Next]_vars

-----------------------------------------------------------------------------
(* Types: the DLL instance and the two flags of tDllLossSocStatus.         *)
TypeOK ==
    /\ nmtState \in CsState /\ dllState \in DllState
    /\ fLossReported \in {0, 1} /\ fTimeoutOccurred \in {0, 1}
    /\ posted \subseteq {"LossSoc", "LossPreq", "LossSoa", "RecvdPreq"}
    /\ slot \in Frame /\ due \in BOOLEAN /\ socPosted \in BOOLEAN
    /\ reports \in Nat /\ timeouts \in Nat
    /\ settled \in {0, 1} /\ disturbed \in BOOLEAN

(* "The loss of SoC event shall only be reported once per cycle":          *)
(* however many frames and timeouts show it, there are never more reports  *)
(* than cycles without a SoC (triggerLossOfSocEvent(),                     *)
(* triggerLossOfSocEventOnFrameTimeout()).                                 *)
ReportedOncePerCycle == reports <= 1 \/ reports <= timeouts

(* The flag says what its declaration says: "A loss of SoC was already     *)
(* reported in this cycle" (dllk-internal.h) ...                           *)
FlagOfThisCycle == fLossReported = 1 => reports > 0

(* ... once the node is in the full cycle and has seen a SoC it waited     *)
(* for: from then on no flag of an earlier cycle suppresses a report.      *)
FlagOfThisCycleOnceSettled == settled = 1 => FlagOfThisCycle

(* From then on every timeout of the cycle timer that counts is matched by *)
(* a report: no lost SoC is swallowed because an earlier one was reported. *)
EveryLossReported == settled = 1 => timeouts <= reports

(* As long as the bus loses nothing no loss of SoC is reported, whenever   *)
(* the NMT state changes (Stopped excepted).                               *)
NoFalseLossOfSoc == ~disturbed => "LossSoc" \notin posted
=============================================================================
