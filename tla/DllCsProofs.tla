----------------------------- MODULE DllCsProofs -----------------------------
(***************************************************************************)
(* What the CN reports of lost SoCs, proved for every number of lost SoCs  *)
(* and any number of cycles and NMT state changes.                         *)
(***************************************************************************)
EXTENDS DllCs, TLAPS

(* The two flags against the counts of the present cycle: a timeout marks  *)
(* both flags, and a report without a timeout was the first of its cycle   *)
(* and left the flag that says so.                                         *)
Counters ==
    /\ fLossReported \in {0, 1} /\ fTimeoutOccurred \in {0, 1}
    /\ reports \in Nat /\ timeouts \in Nat
    /\ fTimeoutOccurred = 1 => fLossReported = 1
    /\ timeouts > 0 => fTimeoutOccurred = 1
    /\ reports > timeouts => /\ reports = 1 /\ timeouts = 0
                             /\ fLossReported = 1 /\ fTimeoutOccurred = 0

-----------------------------------------------------------------------------
(* A LOSS_SOC is among the posted errors exactly when it is reported.      *)
LEMMA PostedLossSoc ==
    ASSUME NEW e
    PROVE  "LossSoc" \in Posted(e) <=> ReportsLossOfSoc(e)
BY SMT DEF Posted

(* The three kinds of events exclude each other.                           *)
LEMMA EventKinds ==
    ASSUME NEW e
    PROVE  /\ ResetsReportFlags(e) => e = "Soc"
           /\ ShowsLossOfSoc(e) => e # "Soc" /\ ~CountsAsTimeout(e)
           /\ CountsAsTimeout(e) => e # "Soc"
BY SMT DEF ResetsReportFlags, ShowsLossOfSoc, CountsAsTimeout

(* A call of changeState() keeps the flags and the counts in step.         *)
LEMMA CountersKept ==
    ASSUME NEW e, Counters, changeState(e)
    PROVE  Counters'
<1>1. CASE nmtState = "GsResetConfiguration"
  BY <1>1, SMT DEF changeState, Counters, dllVars
<1>2. CASE nmtState # "GsResetConfiguration"
  <2>. DEFINE lost == "LossSoc" \in posted'
  <2>1. lost <=> ReportsLossOfSoc(e)
    BY <1>2, PostedLossSoc DEF changeState
  <2>2. /\ reports' = (IF e = "Soc" THEN 0 ELSE reports)
                      + (IF lost THEN 1 ELSE 0)
        /\ timeouts' = (IF e = "Soc" THEN 0 ELSE timeouts)
                       + (IF CountsAsTimeout(e) THEN 1 ELSE 0)
    BY <1>2 DEF changeState
  <2>3. CASE ShowsLossOfSoc(e)
    <3>1. e # "Soc" /\ ~CountsAsTimeout(e) /\ ~ResetsReportFlags(e)
      BY <2>3, EventKinds
    <3>2. fLossReported' = 1 /\ fTimeoutOccurred' = fTimeoutOccurred
      BY <1>2, <2>3, <3>1 DEF changeState
    <3>3. lost <=> fLossReported = 0
      BY <2>1, <2>3, <3>1 DEF ReportsLossOfSoc
    <3>. QED BY <2>2, <3>1, <3>2, <3>3, SMT DEF Counters
  <2>4. CASE CountsAsTimeout(e)
    <3>1. e # "Soc" /\ ~ShowsLossOfSoc(e) /\ ~ResetsReportFlags(e)
      BY <2>4, EventKinds
    <3>2. fLossReported' = 1 /\ fTimeoutOccurred' = 1
      BY <1>2, <2>4, <3>1 DEF changeState
    <3>3. lost <=> fLossReported = 0 \/ fTimeoutOccurred = 1
      BY <2>1, <2>4, <3>1 DEF ReportsLossOfSoc
    <3>. QED BY <2>2, <2>4, <3>1, <3>2, <3>3, SMT DEF Counters
  <2>5. CASE ~ShowsLossOfSoc(e) /\ ~CountsAsTimeout(e)
    <3>1. ~lost
      BY <2>1, <2>5 DEF ReportsLossOfSoc
    <3>2. /\ ResetsReportFlags(e) => e = "Soc"
          /\ IF ResetsReportFlags(e)
             THEN fLossReported' = 0 /\ fTimeoutOccurred' = 0
             ELSE UNCHANGED <<fLossReported, fTimeoutOccurred>>
      BY <1>2, <2>5, EventKinds DEF changeState
    <3>. QED BY <2>2, <2>5, <3>1, <3>2, SMT DEF Counters
  <2>. QED BY <2>3, <2>4, <2>5
<1>. QED BY <1>1, <1>2

(* The states an event leads to.                                           *)
LEMMA NextDllStateType ==
    ASSUME NEW e, dllState \in DllState
    PROVE  NextDllState(e) \in DllState
<1>1. processCsFullCycle(e) \in DllState
  BY SMT DEF processCsFullCycle, DllState
<1>2. processCsStopped(e) \in DllState
  BY SMT DEF processCsStopped, DllState
<1>. QED BY <1>1, <1>2, SMT DEF NextDllState, DllState

LEMMA changeStateType ==
    ASSUME NEW e, TypeOK, changeState(e)
    PROVE  /\ dllState' \in DllState
           /\ fLossReported' \in {0, 1} /\ fTimeoutOccurred' \in {0, 1}
           /\ posted' \subseteq {"LossSoc", "LossPreq", "LossSoa", "RecvdPreq"}
           /\ reports' \in Nat /\ timeouts' \in Nat /\ settled' \in {0, 1}
<1>1. CASE nmtState = "GsResetConfiguration"
  BY <1>1 DEF changeState, TypeOK, dllVars
<1>2. CASE nmtState # "GsResetConfiguration"
  <2>1. dllState' \in DllState
    BY <1>2, NextDllStateType DEF changeState, TypeOK
  <2>2. posted' \subseteq {"LossSoc", "LossPreq", "LossSoa", "RecvdPreq"}
    BY <1>2 DEF changeState, Posted
  <2>3. fLossReported' \in {0, 1} /\ fTimeoutOccurred' \in {0, 1}
    BY <1>2 DEF changeState, TypeOK
  <2>4. settled' \in {0, 1}
    BY <1>2 DEF changeState, TypeOK
  <2>5. reports' \in Nat /\ timeouts' \in Nat
    <3>. DEFINE lost == "LossSoc" \in posted'
    <3>1. /\ reports' = (IF e = "Soc" THEN 0 ELSE reports)
                        + (IF lost THEN 1 ELSE 0)
          /\ timeouts' = (IF e = "Soc" THEN 0 ELSE timeouts)
                         + (IF CountsAsTimeout(e) THEN 1 ELSE 0)
      BY <1>2 DEF changeState
    <3>2. reports \in Nat /\ timeouts \in Nat
      BY DEF TypeOK
    <3>. HIDE DEF lost
    <3>. QED BY <3>1, <3>2, SMT
  <2>. QED BY <2>1, <2>2, <2>3, <2>4, <2>5
<1>. QED BY <1>1, <1>2

(* Each step of the bus, the timer and the NMT state machine keeps the     *)
(* types.                                                                  *)
LEMMA TypeKept == TypeOK /\ [Next]_vars => TypeOK'
<1>. SUFFICES ASSUME TypeOK, [Next]_vars PROVE TypeOK'
  OBVIOUS
<1>1. \A f \in Frame : Following[f] \in Frame
  BY SMT DEF Following, Frame
<1>2. CASE FrameReceived
  <2>1. UNCHANGED <<nmtState, disturbed>> /\ slot' = Following[slot]
        /\ due' \in BOOLEAN /\ socPosted' \in BOOLEAN
    BY <1>2 DEF FrameReceived, TypeOK
  <2>2. changeState(slot)
    BY <1>2 DEF FrameReceived
  <2>. QED BY <1>1, <2>1, <2>2, changeStateType DEF TypeOK
<1>3. CASE FrameTimeout
  <2>1. changeState("FrameTimeout") /\ due' \in BOOLEAN
    BY <1>3 DEF FrameTimeout
  <2>. QED BY <1>3, <2>1, changeStateType DEF FrameTimeout, TypeOK
<1>4. CASE FrameNotSent
  BY <1>1, <1>4 DEF FrameNotSent, TypeOK, dllVars
<1>5. CASE FrameLost
  BY <1>1, <1>5 DEF FrameLost, TypeOK, dllVars
<1>6. CASE NmtStateChange
  <2>1. nmtState' \in CsState
    <3>1. \A s \in CsState : NmtNext[s] \subseteq CsState
      BY SMT DEF NmtNext, CsState, FullCycle
    <3>2. "GsResetConfiguration" \in CsState
      BY DEF CsState
    <3>. QED BY <1>6, <3>1, <3>2 DEF NmtStateChange, TypeOK
  <2>2. due' \in BOOLEAN /\ socPosted' \in BOOLEAN /\ disturbed' \in BOOLEAN
    BY <1>6 DEF NmtStateChange, TypeOK
  <2>3. settled' \in {0, 1}
    BY <1>6 DEF NmtStateChange, TypeOK
  <2>. QED BY <1>6, <2>1, <2>2, <2>3 DEF NmtStateChange, TypeOK, dllVars
<1>7. CASE UNCHANGED vars
  BY <1>7 DEF vars, TypeOK, dllVars
<1>. QED BY <1>2, <1>3, <1>4, <1>5, <1>6, <1>7 DEF Next

LEMMA InitType == Init => TypeOK
<1>1. 0 \in Nat
  BY SMT
<1>. QED BY <1>1, Zenon DEF Init, TypeOK, CsState, FullCycle, DllState, Frame

LEMMA CountersInductive ==
    /\ Init => Counters
    /\ Counters /\ [Next]_vars => Counters'
<1>1. Init => Counters
  BY SMT DEF Init, Counters
<1>2. ASSUME Counters, [Next]_vars
      PROVE  Counters'
  <2>1. CASE FrameReceived
    BY <1>2, <2>1, CountersKept DEF FrameReceived
  <2>2. CASE FrameTimeout
    BY <1>2, <2>2, CountersKept DEF FrameTimeout
  <2>3. CASE FrameNotSent
    BY <1>2, <2>3 DEF FrameNotSent, Counters, dllVars
  <2>4. CASE FrameLost
    BY <1>2, <2>4 DEF FrameLost, Counters, dllVars
  <2>5. CASE NmtStateChange
    BY <1>2, <2>5 DEF NmtStateChange, Counters, dllVars
  <2>6. CASE UNCHANGED vars
    BY <1>2, <2>6 DEF vars, Counters, dllVars
  <2>. QED BY <1>2, <2>1, <2>2, <2>3, <2>4, <2>5, <2>6 DEF Next
<1>. QED BY <1>1, <1>2

(* The types of the DLL's state, of its two flags and of what it posts.    *)
THEOREM TypeCorrect == Spec => []TypeOK
<1>. QED BY InitType, TypeKept, PTL DEF Spec

(* However many frames and timeouts show a lost SoC, the error handler     *)
(* gets at most one report per cycle without a SoC (triggerLossOfSocEvent  *)
(* and its variant for the timeout).                                       *)
THEOREM OnceAtMost == Spec => []ReportedOncePerCycle
<1>1. Counters => ReportedOncePerCycle
  BY SMT DEF Counters, ReportedOncePerCycle
<1>. QED BY <1>1, CountersInductive, PTL DEF Spec

-----------------------------------------------------------------------------
(* In the full cycle the flag is set in WaitSoc only, and only WaitSoc     *)
(* clears it: the flag is always one of the present cycle.                 *)
FlagInWaitSoc ==
    /\ nmtState \in FullCycle
    /\ dllState \in {"WaitPreq", "WaitSoc", "WaitSoa"}
    /\ fLossReported = 1 => dllState = "WaitSoc"

FlagCounted ==
    /\ Counters /\ settled \in {0, 1}
    /\ settled = 1 => FlagInWaitSoc /\ FlagOfThisCycle /\ timeouts <= reports

(* The state an event leads to in the full cycle.                          *)
LEMMA FullCycleState ==
    ASSUME NEW e, FlagInWaitSoc, changeState(e)
    PROVE  /\ dllState' \in {"WaitPreq", "WaitSoc", "WaitSoa"}
           /\ ShowsLossOfSoc(e) \/ CountsAsTimeout(e) => dllState' = "WaitSoc"
           /\ dllState = "WaitSoc" /\ ~ResetsReportFlags(e)
                => dllState' = "WaitSoc" /\ e # "Soc"
<1>1. dllState' = processCsFullCycle(e)
  BY SMT DEF changeState, NextDllState, FlagInWaitSoc, FullCycle
<1>2. CASE dllState = "WaitPreq"
  BY <1>1, <1>2, SMT DEF processCsFullCycle, Ignored, ShowsLossOfSoc,
     CountsAsTimeout, FlagInWaitSoc, FullCycle
<1>3. CASE dllState = "WaitSoc"
  BY <1>1, <1>3, SMT DEF processCsFullCycle, Ignored, ShowsLossOfSoc,
     CountsAsTimeout, ResetsReportFlags, FlagInWaitSoc, FullCycle
<1>4. CASE dllState = "WaitSoa"
  BY <1>1, <1>4, SMT DEF processCsFullCycle, Ignored, ShowsLossOfSoc,
     CountsAsTimeout, FlagInWaitSoc, FullCycle
<1>. QED BY <1>2, <1>3, <1>4 DEF FlagInWaitSoc

(* A SoC the node waited for settles it, whatever happened before.         *)
LEMMA ResetSettles ==
    ASSUME NEW e, FlagCounted, changeState(e), nmtState' = nmtState,
           ResetsReportFlags(e)
    PROVE  FlagCounted'
<1>1. nmtState \in FullCycle /\ dllState = "WaitSoc" /\ e = "Soc"
  BY DEF ResetsReportFlags
<1>2. nmtState # "GsResetConfiguration"
  BY <1>1, SMT DEF FullCycle
<1>3. dllState' = "WaitPreq"
  <2>1. dllState' = processCsFullCycle(e)
    BY <1>1, <1>2, SMT DEF changeState, NextDllState, FullCycle
  <2>. QED BY <1>1, <2>1, SMT DEF processCsFullCycle
<1>4. fLossReported' = 0 /\ settled' = 1
  BY <1>2 DEF changeState
<1>5. timeouts' = 0
  <2>1. ~CountsAsTimeout(e)
    BY <1>1, EventKinds
  <2>. QED BY <1>1, <1>2, <2>1, SMT DEF changeState
<1>6. Counters'
  BY CountersKept DEF FlagCounted
<1>. QED BY <1>1, <1>3, <1>4, <1>5, <1>6, SMT
         DEF FlagCounted, FlagInWaitSoc, FlagOfThisCycle, Counters

(* A settled node stays settled in every call of changeState().            *)
LEMMA SettledKept ==
    ASSUME NEW e, FlagCounted, changeState(e), nmtState' = nmtState,
           settled = 1, ~ResetsReportFlags(e)
    PROVE  FlagCounted'
<1>1. FlagInWaitSoc /\ FlagOfThisCycle /\ timeouts <= reports /\ Counters
  BY DEF FlagCounted
<1>2. nmtState # "GsResetConfiguration"
  BY <1>1, SMT DEF FlagInWaitSoc, FullCycle
<1>. DEFINE lost == "LossSoc" \in posted'
<1>3. lost <=> ReportsLossOfSoc(e)
  BY <1>2, PostedLossSoc DEF changeState
<1>4. /\ reports' = (IF e = "Soc" THEN 0 ELSE reports)
                    + (IF lost THEN 1 ELSE 0)
      /\ timeouts' = (IF e = "Soc" THEN 0 ELSE timeouts)
                     + (IF CountsAsTimeout(e) THEN 1 ELSE 0)
      /\ settled' = settled
  BY <1>2 DEF changeState
<1>5. Counters'
  BY <1>1, CountersKept
<1>6. /\ dllState' \in {"WaitPreq", "WaitSoc", "WaitSoa"}
      /\ ShowsLossOfSoc(e) \/ CountsAsTimeout(e) => dllState' = "WaitSoc"
      /\ dllState = "WaitSoc" => dllState' = "WaitSoc" /\ e # "Soc"
  BY <1>1, FullCycleState
<1>7. CASE ShowsLossOfSoc(e) \/ CountsAsTimeout(e)
  <2>1. fLossReported' = 1 /\ e # "Soc"
    BY <1>2, <1>7, EventKinds DEF changeState
  <2>2. /\ fLossReported = 0 => lost
        /\ CountsAsTimeout(e) /\ fTimeoutOccurred = 1 => lost
    BY <1>3, <1>7 DEF ReportsLossOfSoc
  <2>. QED BY <1>1, <1>4, <1>5, <1>6, <1>7, <2>1, <2>2, SMT
           DEF FlagCounted, FlagInWaitSoc, FlagOfThisCycle, Counters
<1>8. CASE ~ShowsLossOfSoc(e) /\ ~CountsAsTimeout(e)
  <2>1. fLossReported' = fLossReported /\ ~lost
    BY <1>2, <1>3, <1>8 DEF changeState, ReportsLossOfSoc
  <2>. QED BY <1>1, <1>4, <1>5, <1>6, <1>8, <2>1, SMT
           DEF FlagCounted, FlagInWaitSoc, FlagOfThisCycle, Counters
<1>. QED BY <1>7, <1>8

LEMMA FlagCountedKept ==
    ASSUME NEW e, FlagCounted, changeState(e), nmtState' = nmtState
    PROVE  FlagCounted'
<1>1. CASE ResetsReportFlags(e)
  BY <1>1, ResetSettles
<1>2. CASE ~ResetsReportFlags(e) /\ settled = 1
  BY <1>2, SettledKept
<1>3. CASE ~ResetsReportFlags(e) /\ settled # 1
  <2>1. settled' = settled
    BY <1>3 DEF changeState
  <2>2. Counters'
    BY CountersKept DEF FlagCounted
  <2>. QED BY <1>3, <2>1, <2>2 DEF FlagCounted
<1>. QED BY <1>1, <1>2, <1>3

LEMMA FlagCountedInductive ==
    /\ Init => FlagCounted
    /\ FlagCounted /\ [Next]_vars => FlagCounted'
<1>1. Init => FlagCounted
  <2>. SUFFICES ASSUME Init PROVE FlagCounted
    OBVIOUS
  <2>1. settled = 0
    BY DEF Init
  <2>. QED BY <2>1, CountersInductive, SMT DEF FlagCounted
<1>2. ASSUME FlagCounted, [Next]_vars
      PROVE  FlagCounted'
  <2>. USE DEF FlagCounted, FlagInWaitSoc, FlagOfThisCycle, Counters, dllVars
  <2>1. CASE FrameReceived
    BY <1>2, <2>1, FlagCountedKept DEF FrameReceived
  <2>2. CASE FrameTimeout
    BY <1>2, <2>2, FlagCountedKept DEF FrameTimeout
  <2>3. CASE FrameNotSent
    BY <1>2, <2>3 DEF FrameNotSent
  <2>4. CASE FrameLost
    BY <1>2, <2>4 DEF FrameLost
  <2>5. CASE NmtStateChange
    <3>1. /\ UNCHANGED <<dllVars, reports, timeouts>>
          /\ \/ nmtState' \in FullCycle /\ settled' = settled
             \/ settled' = 0
      BY <2>5 DEF NmtStateChange
    <3>. QED BY <1>2, <3>1, SMT
  <2>6. CASE UNCHANGED vars
    BY <1>2, <2>6 DEF vars
  <2>. QED BY <1>2, <2>1, <2>2, <2>3, <2>4, <2>5, <2>6 DEF Next
<1>. QED BY <1>1, <1>2

(* Once the node is settled in the full cycle the flag says what its       *)
(* declaration says: a loss of SoC was already reported in this cycle.     *)
THEOREM FlagIsOfThisCycle == Spec => []FlagOfThisCycleOnceSettled
<1>1. FlagCounted => FlagOfThisCycleOnceSettled
  BY DEF FlagCounted, FlagOfThisCycleOnceSettled
<1>. QED BY <1>1, FlagCountedInductive, PTL DEF Spec

(* ... and every timeout of the cycle timer is matched by a report.        *)
THEOREM NoLossSwallowed == Spec => []EveryLossReported
<1>1. FlagCounted => EveryLossReported
  BY DEF FlagCounted, EveryLossReported
<1>. QED BY <1>1, FlagCountedInductive, PTL DEF Spec

-----------------------------------------------------------------------------
(* As long as nothing is lost the DLL keeps step with the bus: after the   *)
(* PReq it waits for the SoA before that is over, and after the SoA for    *)
(* the SoC before that comes.  What it waited for in an earlier life does  *)
(* not matter: a node reaches the full cycle only after a SoC.             *)
InStep ==
    /\ dllState = "WaitSoa" => slot \in {"Pres", "Soa"}
    /\ dllState = "WaitSoc" => slot \in {"Asnd", "Soc"}

Calm ==
    /\ ~due /\ "LossSoc" \notin posted /\ nmtState # "CsStopped"
    /\ nmtState = "GsResetConfiguration" => ~socPosted
    /\ nmtState \in FullCycle => socPosted
    /\ socPosted => InStep

CalmUnlessDisturbed == TypeOK /\ (~disturbed => Calm)

(* In step with the bus no frame shows a loss of SoC.                      *)
LEMMA NothingShown ==
    ASSUME NEW e \in Frame, e = slot, Calm
    PROVE  ~ReportsLossOfSoc(e)
<1>1. ~CountsAsTimeout(e)
  BY SMT DEF CountsAsTimeout, Frame
<1>2. ~ShowsLossOfSoc(e)
  BY SMT DEF ShowsLossOfSoc, Calm, InStep
<1>. QED BY <1>1, <1>2 DEF ReportsLossOfSoc

(* A frame of the bus leaves a node in step that was, and brings one into  *)
(* step that hears its first SoC.                                          *)
LEMMA FrameKeepsStep ==
    ASSUME TypeOK, Calm, nmtState # "GsResetConfiguration",
           changeState(slot), slot' = Following[slot],
           socPosted \/ slot = "Soc"
    PROVE  InStep'
<1>1. dllState' = NextDllState(slot)
  BY DEF changeState
<1>2. slot \in Frame /\ nmtState \in CsState /\ dllState \in DllState
  BY DEF TypeOK
<1>3. CASE nmtState \in FullCycle
  <2>1. dllState' = processCsFullCycle(slot) /\ InStep
    BY <1>1, <1>3, SMT DEF NextDllState, Calm, FullCycle
  <2>2. slot' = "Pres" <=> slot = "Preq"
    BY <1>2, SMT DEF Following, Frame
  <2>3. slot = "Soc" => slot' = "Preq"
    BY SMT DEF Following
  <2>4. slot = "Pres" => slot' = "Soa"
    BY SMT DEF Following
  <2>5. slot = "Soa" => slot' = "Asnd"
    BY SMT DEF Following
  <2>6. slot = "Asnd" => slot' = "Soc"
    BY SMT DEF Following
  <2>7. ~Ignored(slot)
    BY <1>2, SMT DEF Ignored, Frame
  <2>. QED BY <1>2, <2>1, <2>2, <2>3, <2>4, <2>5, <2>6, <2>7, SMT
           DEF processCsFullCycle, InStep, Frame, DllState
<1>4. CASE nmtState \notin FullCycle
  <2>1. dllState' \in {"GsInit", "WaitPreq"}
    BY <1>1, <1>4 DEF NextDllState, Calm
  <2>. QED BY <2>1 DEF InStep
<1>. QED BY <1>3, <1>4

(* Only PreOp1 leads into the full cycle, Stopped excepted.                *)
LEMMA EntersFullCycle ==
    ASSUME NEW x \in CsState \ {"CsStopped"}, NEW s \in NmtNext[x], s \in FullCycle
    PROVE  x \in FullCycle \/ (x = "CsPreOperational1" /\ s = "CsPreOperational2")
<1>1. CASE x = "CsNotActive" \/ x = "CsBasicEthernet" \/ x = "GsResetConfiguration"
  BY <1>1, SMT DEF NmtNext, FullCycle
<1>2. CASE x = "CsPreOperational1"
  BY <1>2, SMT DEF NmtNext, FullCycle
<1>. QED BY <1>1, <1>2 DEF CsState

LEMMA CalmInductive ==
    /\ Init => CalmUnlessDisturbed
    /\ CalmUnlessDisturbed /\ [Next]_vars => CalmUnlessDisturbed'
<1>1. Init => CalmUnlessDisturbed
  <2>. SUFFICES ASSUME Init PROVE CalmUnlessDisturbed
    OBVIOUS
  <2>1. TypeOK
    BY InitType
  <2>2. Calm
    BY SMT DEF Init, Calm, InStep, FullCycle
  <2>. QED BY <2>1, <2>2 DEF CalmUnlessDisturbed
<1>2. ASSUME CalmUnlessDisturbed, [Next]_vars
      PROVE  CalmUnlessDisturbed'
  <2>. SUFFICES ASSUME ~disturbed' PROVE Calm'
    BY <1>2, TypeKept DEF CalmUnlessDisturbed
  <2>1. TypeOK
    BY <1>2 DEF CalmUnlessDisturbed
  <2>2. CASE FrameReceived
    <3>1. /\ ~disturbed /\ changeState(slot) /\ slot' = Following[slot]
          /\ due' = IF slot = "Soc" THEN FALSE ELSE due
          /\ socPosted' = (socPosted \/ (slot = "Soc" /\ nmtState # "GsResetConfiguration"))
          /\ nmtState' = nmtState
      BY <2>2 DEF FrameReceived
    <3>2. Calm
      BY <1>2, <3>1 DEF CalmUnlessDisturbed
    <3>3. "LossSoc" \notin posted'
      <4>1. CASE nmtState = "GsResetConfiguration"
        BY <3>1, <4>1 DEF changeState
      <4>2. CASE nmtState # "GsResetConfiguration"
        BY <2>1, <3>1, <3>2, <4>2, NothingShown, PostedLossSoc DEF changeState, TypeOK
      <4>. QED BY <4>1, <4>2
    <3>4. /\ ~due' /\ nmtState' # "CsStopped"
          /\ nmtState' = "GsResetConfiguration" => ~socPosted'
          /\ nmtState' \in FullCycle => socPosted'
      BY <3>1, <3>2 DEF Calm
    <3>5. ASSUME socPosted' PROVE InStep'
      <4>1. nmtState # "GsResetConfiguration"
        BY <3>1, <3>2, <3>5 DEF Calm
      <4>. QED BY <2>1, <3>1, <3>2, <3>5, <4>1, FrameKeepsStep
    <3>. QED BY <3>3, <3>4, <3>5 DEF Calm
  <2>3. CASE FrameNotSent
    <3>1. Calm
      BY <1>2, <2>3 DEF CalmUnlessDisturbed, FrameNotSent
    <3>2. /\ slot = "Preq" => slot' = "Pres"
          /\ slot = "Pres" => slot' = "Soa"
          /\ slot = "Asnd" => slot' = "Soc"
      BY <2>3, SMT DEF FrameNotSent, Following
    <3>. QED BY <2>3, <3>1, <3>2, SMT DEF FrameNotSent, Calm, InStep, dllVars
  <2>4. CASE FrameLost
    BY <2>4 DEF FrameLost
  <2>5. CASE FrameTimeout
    BY <1>2, <2>5 DEF FrameTimeout, CalmUnlessDisturbed, Calm
  <2>6. CASE NmtStateChange
    <3>0. PICK s \in NmtNext[nmtState] \cup {"GsResetConfiguration"} :
             /\ nmtState' = s
             /\ nmtState = "CsPreOperational1" /\ s = "CsPreOperational2" => socPosted
             /\ socPosted' <=> (socPosted /\ s # "GsResetConfiguration")
             /\ due' => (due /\ s # "GsResetConfiguration")
             /\ s # "GsResetConfiguration" => ~disturbed /\ s # "CsStopped"
      BY <2>6 DEF NmtStateChange
    <3>1. posted' = {} /\ dllState' = dllState /\ slot' = slot
      BY <2>6 DEF NmtStateChange, dllVars
    <3>2. CASE s = "GsResetConfiguration"
      BY <3>0, <3>1, <3>2, SMT DEF Calm, FullCycle
    <3>3. CASE s # "GsResetConfiguration"
      <4>1. ~disturbed /\ s # "CsStopped" /\ (socPosted' <=> socPosted)
        BY <3>0, <3>3
      <4>2. Calm
        BY <1>2, <4>1 DEF CalmUnlessDisturbed
      <4>3. ASSUME s \in FullCycle
            PROVE  \/ nmtState \in FullCycle
                   \/ nmtState = "CsPreOperational1" /\ s = "CsPreOperational2"
        <5>1. nmtState \in CsState \ {"CsStopped"} /\ s \in NmtNext[nmtState]
          BY <2>1, <3>0, <3>3, <4>2 DEF TypeOK, Calm
        <5>. QED BY <4>3, <5>1, EntersFullCycle
      <4>4. ~due' /\ "LossSoc" \notin posted' /\ nmtState' # "CsStopped"
            /\ nmtState' # "GsResetConfiguration"
        BY <3>0, <3>1, <3>3, <4>1, <4>2 DEF Calm
      <4>5. nmtState' \in FullCycle => socPosted'
        BY <3>0, <4>1, <4>2, <4>3 DEF Calm
      <4>6. socPosted' => InStep'
        BY <3>1, <4>1, <4>2 DEF Calm, InStep
      <4>. QED BY <4>4, <4>5, <4>6 DEF Calm
    <3>. QED BY <3>2, <3>3
  <2>7. CASE UNCHANGED vars
    BY <1>2, <2>7 DEF CalmUnlessDisturbed, Calm, InStep, vars, dllVars
  <2>. QED BY <1>2, <2>2, <2>3, <2>4, <2>5, <2>6, <2>7 DEF Next
<1>. QED BY <1>1, <1>2

(* As long as the bus loses nothing and the node is not stopped no loss of *)
(* SoC is reported, whenever the NMT state changes and however long the    *)
(* node runs (dllkstatemachine.c, processCsFullCycleDllState()).           *)
THEOREM NoFalseLoss == Spec => []NoFalseLossOfSoc
<1>1. CalmUnlessDisturbed => NoFalseLossOfSoc
  BY DEF CalmUnlessDisturbed, Calm, NoFalseLossOfSoc
<1>. QED BY <1>1, CalmInductive, PTL DEF Spec
=============================================================================
