------------------------------- MODULE NmtProofs -------------------------------
(***************************************************************************)
(* What the NMT state machine of a node promises, proved for every number  *)
(* of commands, frames and errors, every set of commands, and both roles.  *)
(***************************************************************************)
EXTENDS Nmt, TLAPS

States == {"GsOff", "GsInitialising", "GsResetApplication",
           "GsResetCommunication", "GsResetConfiguration", "CsNotActive",
           "CsPreOperational1", "CsPreOperational2", "CsReadyToOperate",
           "CsOperational", "CsStopped", "CsBasicEthernet", "MsNotActive",
           "MsPreOperational1", "MsPreOperational2", "MsReadyToOperate",
           "MsOperational", "MsBasicEthernet"}

(* The rows of the transition table are those of the eighteen states.      *)
LEMMA StatesListed == State = States
BY SMT DEF State, States, Table

(* Where a reset event takes a running node.                               *)
LEMMA ResetRow ==
    ASSUME NEW e \in DOMAIN ResetTarget
    PROVE  ResetTarget[e] \in ResetState \cup {"GsOff"}
BY SMT DEF ResetTarget, ResetState

(* No running state has a row of its own for a reset event.                *)
LEMMA RowsDisjoint ==
    ASSUME NEW s \in RunningState, NEW e \in DOMAIN ResetTarget
    PROVE  /\ e \notin DOMAIN Table[s] \cup DOMAIN CnFlagOf \cup DOMAIN MnFlagOf
           /\ e \notin {"TimerBasicEthernet", "TimerMsPreOp1"}
<1>. USE DEF ResetTarget
<1>1. e \in {"CriticalError", "SwitchOff", "SwReset", "ResetNode", "ResetCom",
             "InternComError", "ResetConfig"}
  BY SMT
<1>2. e \notin DOMAIN Table[s]
  BY <1>1, StatesListed, SMT DEF RunningState, ResetState, States, Table, doStateCsNotActive,
     doStateCsPreOperational1, doStateCsPreOperational2,
     doStateCsReadyToOperate, doStateCsOperational, doStateCsStopped,
     doStateCsBasicEthernet, OtherMn, doStateMsPreOperational2,
     doStateMsReadyToOperate, doStateMsOperational, doStateMsBasicEthernet
<1>. QED BY <1>1, <1>2, SMT DEF CnFlagOf, MnFlagOf

LEMMA AfterReset ==
    ASSUME NEW e \in DOMAIN ResetTarget, nmt \in RunningState
    PROVE  StateAfter(e) = ResetTarget[e]
BY RowsDisjoint, SMT DEF StateAfter

-----------------------------------------------------------------------------
(* The states of a running CN in which its two flags are clear.            *)
ClearState == {"CsNotActive", "CsPreOperational1", "CsReadyToOperate",
               "CsOperational", "CsStopped", "CsBasicEthernet"}
CyclicMs == {"MsPreOperational2", "MsReadyToOperate", "MsOperational"}
OtherMnEvent == {"DllCeSoc", "DllCeSoa"}

(* What a step of the state machine from s to another state n says of s    *)
(* and of the event: where a CN enters its states, ...                     *)
CnStep(s, e, n) ==
    /\ n = "CsPreOperational2" =>
          s \in {"CsPreOperational1", "CsOperational", "CsStopped"}
    /\ n \in ClearState =>
          s \in ClearState \cup {"CsPreOperational2", "GsResetConfiguration"}
    /\ s = "CsPreOperational2" =>
          n \notin {"CsNotActive", "CsBasicEthernet", "CsOperational"}
    /\ n = "CsReadyToOperate" => s = "CsPreOperational2"

(* ... where an MN enters the states in which it is not silent, ...        *)
MsStep(s, e, n) ==
    /\ n = "MsPreOperational1" =>
          \/ s \in CyclicMs /\ e = "NmtCycleError"
          \/ s = "MsNotActive" /\ e = "TimerMsPreOp1" /\ "Frozen" \notin flags
    /\ n = "MsBasicEthernet" =>
          s = "MsNotActive" /\ e = "TimerBasicEthernet" /\ "Frozen" \notin flags

LEMMA StepsBetweenStates ==
    ASSUME NEW e, nmt \in State, StateAfter(e) # nmt
    PROVE  /\ StateAfter(e) \in State
           /\ CnStep(nmt, e, StateAfter(e))
           /\ MsStep(nmt, e, StateAfter(e))
<1>. USE StatesListed DEF CnStep, MsStep, ClearState, CyclicMs, States
<1>1. CASE nmt \in RunningState /\ e \in DOMAIN ResetTarget
  BY <1>1, ResetRow, AfterReset, SMT DEF ResetState
<1>2. CASE nmt \in {"GsOff", "GsInitialising", "GsResetApplication",
                    "GsResetCommunication", "GsResetConfiguration"}
  BY <1>2, SMT DEF StateAfter, RunningState, ResetState, Table, doStateGsOff,
     doStateGsInitialising, doStateGsResetApplication,
     doStateGsResetCommunication, doStateGsResetConfiguration
<1>3. CASE nmt \in ClearState \cup {"CsPreOperational2"} /\ e \notin DOMAIN ResetTarget
  BY <1>3, SMT DEF StateAfter, Table, doStateCsNotActive,
     doStateCsPreOperational1, doStateCsPreOperational2,
     doStateCsReadyToOperate, doStateCsOperational, doStateCsStopped,
     doStateCsBasicEthernet
<1>4. CASE nmt \in CyclicMs \cup {"MsNotActive", "MsPreOperational1", "MsBasicEthernet"}
           /\ e \notin DOMAIN ResetTarget
  BY <1>4, SMT DEF StateAfter, Table, OtherMn, doStateMsPreOperational2,
     doStateMsReadyToOperate, doStateMsOperational, doStateMsBasicEthernet
<1>. QED BY <1>1, <1>2, <1>3, <1>4, SMT DEF RunningState, ResetState

(* The kinds of flags a step sets in each state.                           *)
LEMMA FlagsTyped ==
    ASSUME NEW e, flags \subseteq Flag
    PROVE  FlagsAfter(e) \subseteq Flag
BY SMT DEF FlagsAfter, Flag, CnFlagOf, MnFlagOf

-----------------------------------------------------------------------------
(* The events the user part posts are NMT events.                          *)
LEMMA AnswersTyped ==
    /\ \A s \in DOMAIN Answer : Answer[s] \in Event
    /\ \A s \in DOMAIN TimerEvent : TimerEvent[s] \in Event
    /\ \A s \in DOMAIN BootStep : BootStep[s] \in Event
<1>1. \A s \in DOMAIN Answer : Answer[s] \in Event
  BY SMT DEF Answer, Event
<1>2. \A s \in DOMAIN TimerEvent : TimerEvent[s] \in Event
  BY SMT DEF TimerEvent, Event
<1>3. \A s \in DOMAIN BootStep : BootStep[s] \in Event
  BY SMT DEF BootStep, Event
<1>. QED BY <1>1, <1>2, <1>3

(* One NMT event keeps the kernel part's variables and the queue of state  *)
(* changes in their types.                                                 *)
LEMMA ProcessTyped ==
    ASSUME NEW e \in Event, TypeOK, nmtk_process(e)
    PROVE  /\ nmt' \in State /\ flags' \subseteq Flag
           /\ seen' \subseteq Event /\ left' \subseteq Event
           /\ wasOff' \in {0, 1} /\ k2u' \in Seq(State)
<1>1. nmt' \in State /\ flags' \subseteq Flag
  BY StepsBetweenStates, FlagsTyped DEF TypeOK, nmtk_process
<1>2. seen \cup {e} \subseteq Event /\ {} \subseteq Event
  BY SMT DEF TypeOK
<1>3. CASE nmt' = nmt
  BY <1>1, <1>2, <1>3 DEF TypeOK, nmtk_process
<1>4. CASE nmt' # nmt
  <2>1. Append(k2u, nmt') \in Seq(State)
    BY <1>1, SMT DEF TypeOK
  <2>2. wasOff' \in {0, 1}
    BY <1>4, SMT DEF TypeOK, nmtk_process
  <2>3. seen' = {} /\ left' = seen \cup {e}
        /\ (k2u' = Append(k2u, nmt') \/ k2u' = k2u)
    BY <1>4, Zenon DEF nmtk_process
  <2>. QED BY <1>1, <1>2, <2>1, <2>2, <2>3, Zenon DEF TypeOK
<1>. QED BY <1>3, <1>4

(* Every step keeps every variable in its type.                            *)
LEMMA TypeKept == TypeOK /\ [Next]_vars => TypeOK'
<1>. SUFFICES ASSUME TypeOK, [Next]_vars PROVE TypeOK'
  OBVIOUS
<1>. USE NmtAssumption, AnswersTyped
<1>1. CASE KernelEvent
  <2>1. CASE kint # <<>> /\ nmtk_process(Head(kint)) /\ kint' = Tail(kint) /\ UNCHANGED u2k
    <3>1. Head(kint) \in Event /\ Tail(kint) \in Seq(Event)
      BY <2>1, SMT DEF TypeOK
    <3>. QED BY <2>1, <3>1, ProcessTyped DEF TypeOK, nmtk_process, userVars, timerVars
  <2>2. CASE u2k # <<>> /\ nmtk_process(Head(u2k)) /\ u2k' = Tail(u2k) /\ UNCHANGED kint
    <3>1. Head(u2k) \in Event /\ Tail(u2k) \in Seq(Event)
      BY <2>2, SMT DEF TypeOK
    <3>. QED BY <2>2, <3>1, ProcessTyped DEF TypeOK, nmtk_process, userVars, timerVars
  <2>. QED BY <1>1, <2>1, <2>2 DEF KernelEvent
<1>2. CASE UserTakes
  BY <1>2, SMT DEF TypeOK, UserTakes, kernelVars, NoneOr
<1>3. CASE UserAnswers
  BY <1>3, SMT DEF TypeOK, UserAnswers, AnswersAtOnce, ArmsTimer, kernelVars, NoneOr
<1>4. CASE TimerExpires
  BY <1>4, SMT DEF TypeOK, TimerExpires, kernelVars, userVars, NoneOr
<1>5. CASE TimerPosts
  BY <1>5, SMT DEF TypeOK, TimerPosts, kernelVars, userVars, NoneOr
<1>6. CASE ExecNmtCommand
  BY <1>6, SMT DEF TypeOK, ExecNmtCommand, Outside, kernelVars, userVars, timerVars, Event
<1>7. CASE BootStepFinished
  BY <1>7, SMT DEF TypeOK, BootStepFinished, Outside, kernelVars, userVars, timerVars
<1>8. CASE FrameReceived
  BY <1>8, SMT DEF TypeOK, FrameReceived, Outside, kernelVars, userVars, timerVars, Event
<1>9. CASE ErrorDetected
  BY <1>9, SMT DEF TypeOK, ErrorDetected, Outside, kernelVars, userVars, timerVars, Event, ResetTarget
<1>10. CASE UNCHANGED vars
  BY <1>10 DEF TypeOK, vars, kernelVars, userVars, timerVars
<1>. QED BY <1>1, <1>2, <1>3, <1>4, <1>5, <1>6, <1>7, <1>8, <1>9, <1>10 DEF Next

(* Type correctness: every variable of the kernel part, the user part and  *)
(* the queues between them always holds values of its kind.                *)
THEOREM TypeCorrect == Spec => []TypeOK
<1>1. Init => TypeOK
  BY NmtAssumption, StatesListed, SMT DEF Init, TypeOK, NoneOr, States
<1>. QED BY <1>1, TypeKept, PTL DEF Spec

-----------------------------------------------------------------------------
(* In CsPreOperational2 each of the two flags stands for an event of this  *)
(* stay; in the other states of a running CN both are clear.               *)
CnFlagsAreOfThisStay ==
    /\ nmt = "CsPreOperational2" =>
          \A c \in DOMAIN CnFlagOf : CnFlagOf[c] \in flags => c \in seen
    /\ nmt \in ClearState => flags \cap CnFlags = {}

(* An MN that has heard another MN in this stay has left its cyclic states *)
(* or, in NotActive, has the flag that keeps it there.                     *)
OtherMnIsRemembered ==
    /\ nmt \in CyclicMs => seen \cap OtherMnEvent = {}
    /\ nmt = "MsNotActive" /\ "Frozen" \notin flags =>
          seen \cap OtherMnEvent = {}

KernelInv ==
    /\ CnFlagsAreOfThisStay /\ ReadyWhenBothAgree
    /\ OtherMnIsRemembered /\ SilentNextToOtherMn

(* The way from PreOp2 to ReadyToOperate is one of the two events, with    *)
(* the flag of the other.                                                  *)
LEMMA ReadyNeedsBoth ==
    ASSUME NEW e, nmt = "CsPreOperational2", StateAfter(e) = "CsReadyToOperate"
    PROVE  /\ e \in DOMAIN CnFlagOf
           /\ \A c \in DOMAIN CnFlagOf : c # e => CnFlagOf[c] \in flags
<1>1. e \notin DOMAIN ResetTarget
  BY ResetRow, AfterReset, StatesListed, SMT DEF ResetState, RunningState, States
<1>. QED BY <1>1, SMT DEF StateAfter, Table, doStateCsPreOperational2, CnFlagOf, CnFlags

(* A cyclic MN leaves its state when it hears another MN.                  *)
LEMMA LeavesToOtherMn ==
    ASSUME NEW e \in OtherMnEvent, nmt \in CyclicMs
    PROVE  StateAfter(e) # nmt
BY SMT DEF StateAfter, CyclicMs, OtherMnEvent, ResetTarget, Table,
   doStateMsPreOperational2, doStateMsReadyToOperate, doStateMsOperational

(* What one event does to the flags of a CN, and to the one of an MN.      *)
LEMMA FlagsOfStep ==
    ASSUME NEW e
    PROVE  /\ nmt \in ClearState => FlagsAfter(e) = flags
           /\ nmt = "GsResetConfiguration" => FlagsAfter(e) \cap CnFlags = {}
           /\ nmt = "CsPreOperational2" /\ StateAfter(e) \in ClearState =>
                 FlagsAfter(e) \cap CnFlags = {}
           /\ nmt = "CsPreOperational2" /\ StateAfter(e) = nmt =>
                 \A c \in DOMAIN CnFlagOf :
                    CnFlagOf[c] \in FlagsAfter(e) => CnFlagOf[c] \in flags \/ c = e
           /\ nmt = "MsNotActive" /\ StateAfter(e) = nmt =>
                 FlagsAfter(e) = IF e \in OtherMnEvent THEN flags \cup {"Frozen"}
                                                       ELSE flags
<1>1. nmt \in ClearState => FlagsAfter(e) = flags
  BY SMT DEF FlagsAfter, ClearState
<1>2. nmt = "GsResetConfiguration" => FlagsAfter(e) \cap CnFlags = {}
  BY SMT DEF FlagsAfter
<1>3. nmt = "CsPreOperational2" /\ StateAfter(e) \in ClearState => FlagsAfter(e) \cap CnFlags = {}
  BY StepsBetweenStates, StatesListed, SMT DEF FlagsAfter, ClearState, CnStep, States
<1>4. nmt = "CsPreOperational2" /\ StateAfter(e) = nmt =>
                 \A c \in DOMAIN CnFlagOf :
                    CnFlagOf[c] \in FlagsAfter(e) => CnFlagOf[c] \in flags \/ c = e
  BY SMT DEF FlagsAfter, CnFlagOf
<1>5. nmt = "MsNotActive" /\ StateAfter(e) = nmt =>
                 FlagsAfter(e) = IF e \in OtherMnEvent THEN flags \cup {"Frozen"}
                                                       ELSE flags
  BY SMT DEF FlagsAfter, OtherMnEvent
<1>. QED BY <1>1, <1>2, <1>3, <1>4, <1>5

(* One event keeps the invariant of the kernel part.                       *)
LEMMA KernelInvKept ==
    ASSUME NEW e, nmt \in State, KernelInv, nmtk_process(e)
    PROVE  KernelInv'
<1>. DEFINE n == StateAfter(e)
<1>1. nmt' = n /\ flags' = FlagsAfter(e)
  BY DEF nmtk_process
<1>2. CASE n = nmt
  <2>1. seen' = seen \cup {e} /\ left' = left
    BY <1>1, <1>2 DEF nmtk_process
  <2>2. CnFlagsAreOfThisStay'
    BY <1>1, <1>2, <2>1, FlagsOfStep, SMT DEF KernelInv, CnFlagsAreOfThisStay
  <2>3. OtherMnIsRemembered'
    BY <1>1, <1>2, <2>1, FlagsOfStep, LeavesToOtherMn, SMT
    DEF KernelInv, OtherMnIsRemembered, CyclicMs
  <2>. QED BY <1>1, <1>2, <2>1, <2>2, <2>3
       DEF KernelInv, ReadyWhenBothAgree, SilentNextToOtherMn
<1>3. CASE n # nmt
  <2>1. seen' = {} /\ left' = seen \cup {e}
    BY <1>1, <1>3, Zenon DEF nmtk_process
  <2>2. CnStep(nmt, e, n) /\ MsStep(nmt, e, n)
    BY <1>3, StepsBetweenStates
  <2>3. CnFlagsAreOfThisStay'
    <3>1. CASE n = "CsPreOperational2"
      BY <1>1, <2>2, <3>1, FlagsOfStep, SMT
      DEF KernelInv, CnFlagsAreOfThisStay, CnStep, ClearState, CnFlags, CnFlagOf
    <3>2. CASE n \in ClearState
      BY <1>1, <2>2, <3>2, FlagsOfStep, SMT
      DEF KernelInv, CnFlagsAreOfThisStay, CnStep, ClearState
    <3>. QED BY <1>1, <3>1, <3>2 DEF CnFlagsAreOfThisStay
  <2>4. ReadyWhenBothAgree'
    <3>. SUFFICES ASSUME n = "CsReadyToOperate"
                  PROVE  {"EnableReadyToOperate", "EnterReadyToOperate"} \subseteq left'
      BY <1>1 DEF ReadyWhenBothAgree
    <3>1. nmt = "CsPreOperational2"
      BY <2>2 DEF CnStep
    <3>2. /\ e \in DOMAIN CnFlagOf
          /\ \A c \in DOMAIN CnFlagOf : c # e => CnFlagOf[c] \in flags
      BY <3>1, ReadyNeedsBoth
    <3>3. \A c \in DOMAIN CnFlagOf : c \in seen \cup {e}
      BY <3>1, <3>2 DEF KernelInv, CnFlagsAreOfThisStay
    <3>. QED BY <2>1, <3>3, SMT DEF CnFlagOf
  <2>5. OtherMnIsRemembered'
    BY <2>1, SMT DEF OtherMnIsRemembered
  <2>6. SilentNextToOtherMn'
    BY <1>1, <2>1, <2>2, SMT
    DEF KernelInv, OtherMnIsRemembered, MsStep, SilentNextToOtherMn, OtherMnEvent
  <2>. QED BY <2>3, <2>4, <2>5, <2>6 DEF KernelInv
<1>. QED BY <1>2, <1>3

(* Only the kernel event thread touches the kernel part's variables.       *)
LEMMA KernelOrNot ==
    ASSUME [Next]_vars
    PROVE  (\E e : nmtk_process(e)) \/ UNCHANGED kernelVars
BY DEF Next, KernelEvent, UserTakes, UserAnswers, TimerExpires, TimerPosts,
   ExecNmtCommand, BootStepFinished, FrameReceived, ErrorDetected, vars

LEMMA KernelInvAlways == Spec => []KernelInv
<1>1. Init => KernelInv
  BY SMT DEF Init, KernelInv, CnFlagsAreOfThisStay, ReadyWhenBothAgree,
     OtherMnIsRemembered, SilentNextToOtherMn, ClearState, CyclicMs
<1>2. TypeOK /\ KernelInv /\ [Next]_vars => KernelInv'
  <2>. SUFFICES ASSUME TypeOK, KernelInv, [Next]_vars PROVE KernelInv'
    OBVIOUS
  <2>1. CASE \E e : nmtk_process(e)
    BY <2>1, KernelInvKept DEF TypeOK
  <2>2. CASE UNCHANGED kernelVars
    BY <2>2 DEF kernelVars, KernelInv, CnFlagsAreOfThisStay,
       ReadyWhenBothAgree, OtherMnIsRemembered, SilentNextToOtherMn
  <2>. QED BY <2>1, <2>2, KernelOrNot
<1>. QED BY <1>1, <1>2, TypeCorrect, PTL DEF Spec

(* A CN says it is ready to operate only when in this very stay in PreOp2  *)
(* the MN has enabled it and its own user part has said so.                *)
THEOREM ReadyTogether == Spec => []ReadyWhenBothAgree
<1>1. KernelInv => ReadyWhenBothAgree
  BY DEF KernelInv
<1>. QED BY <1>1, KernelInvAlways, PTL

(* An MN that has heard another MN neither starts a cycle nor goes to      *)
(* BasicEthernet.                                                          *)
THEOREM SilentMn == Spec => []SilentNextToOtherMn
<1>1. KernelInv => SilentNextToOtherMn
  BY DEF KernelInv
<1>. QED BY <1>1, KernelInvAlways, PTL

-----------------------------------------------------------------------------
(* If informing the user part does not fail, no reset is abandoned.        *)

(* The answer to a reset state leads out of it.                            *)
LEMMA AnswerLeadsOn ==
    ASSUME nmt \in ResetState, role \in {"CN", "MN"}
    PROVE  StateAfter(Answer[nmt]) # nmt
BY SMT DEF StateAfter, Answer, ResetState, RunningState, Table,
   doStateGsInitialising, doStateGsResetApplication,
   doStateGsResetCommunication, doStateGsResetConfiguration

(* What NotStuckInReset says of a reset state.                             *)
Answered(q) == \E i \in 1..Len(q) : q[i] = Answer[nmt]
UserFollows ==
    IF k2u # <<>> THEN k2u[Len(k2u)] = nmt
    ELSE localState = nmt /\ (answering = nmt \/ Answered(u2k))

(* An answer in the queue stays there when another event is posted, and    *)
(* when one that is not it is taken.                                       *)
LEMMA AnsweredKept ==
    ASSUME NEW q \in Seq(Event), NEW e
    PROVE  /\ Answered(q) => Answered(Append(q, e))
           /\ Answered(Append(q, Answer[nmt]))
           /\ q # <<>> /\ Answered(q) /\ Head(q) # Answer[nmt] => Answered(Tail(q))
BY SMTT(30) DEF Answered

LEMMA LastOfAppend ==
    ASSUME NEW q \in Seq(State), NEW s \in State
    PROVE  Append(q, s) # <<>> /\ Append(q, s)[Len(Append(q, s))] = s
BY SMT

LEMMA LastOfTail ==
    ASSUME NEW q \in Seq(State), q # <<>>
    PROVE  IF Tail(q) = <<>> THEN Head(q) = q[Len(q)]
           ELSE Tail(q)[Len(Tail(q))] = q[Len(q)]
<1>1. Len(q) \in Nat /\ Len(q) > 0 /\ Head(q) = q[1]
  OBVIOUS
<1>2. Len(Tail(q)) = Len(q) - 1
  OBVIOUS
<1>3. CASE Tail(q) = <<>>
  <2>1. Len(<<>>) = 0
    OBVIOUS
  <2>2. Len(Tail(q)) = 0
    BY <1>3, <2>1, Zenon
  <2>3. Len(q) - 1 = 0
    BY <1>2, <2>2, Zenon
  <2>4. Len(q) = 1
    BY <1>1, <2>3
  <2>. QED BY <1>1, <1>3, <2>4, Zenon
<1>4. CASE Tail(q) # <<>>
  <2>1. Len(q) - 1 \in Nat /\ Len(q) - 1 # 0
    BY <1>2, <1>4
  <2>2. Tail(q)[Len(q) - 1] = q[(Len(q) - 1) + 1]
    BY <1>1, <1>2, <2>1
  <2>3. (Len(q) - 1) + 1 = Len(q)
    BY <1>1
  <2>. QED BY <1>2, <1>4, <2>2, <2>3, Zenon
<1>. QED BY <1>3, <1>4

(* One event of the kernel part: a change is announced, and an event that  *)
(* changes nothing was not the answer.                                     *)
LEMMA ProcessFollowed ==
    ASSUME InformMayFail = FALSE, TypeOK, nmt \in ResetState => UserFollows,
           NEW e, nmtk_process(e), nmt' \in ResetState,
           \/ u2k' = u2k
           \/ u2k # <<>> /\ e = Head(u2k) /\ u2k' = Tail(u2k)
    PROVE  UserFollows'
<1>1. CASE nmt' # nmt
  <2>1. k2u' = Append(k2u, nmt')
    BY <1>1, Zenon DEF nmtk_process
  <2>2. nmt' \in State
    BY StatesListed, SMT DEF ResetState, States
  <2>. QED BY <2>1, <2>2, LastOfAppend DEF UserFollows, TypeOK
<1>2. CASE nmt' = nmt
  <2>1. UNCHANGED <<k2u, localState, answering, role>>
    BY <1>2 DEF nmtk_process, userVars
  <2>2. Answered(u2k)' <=> Answered(u2k')
    BY <1>2, <2>1 DEF Answered, Answer
  <2>3. e # Answer[nmt]
    BY <1>2, AnswerLeadsOn DEF nmtk_process, TypeOK
  <2>4. Answered(u2k) => Answered(u2k')
    BY <2>3, AnsweredKept DEF TypeOK
  <2>. QED BY <1>2, <2>1, <2>2, <2>4 DEF UserFollows
<1>. QED BY <1>1, <1>2

(* An event posted to the U2K queue, and any step that leaves the queues   *)
(* and the user part alone.                                                *)
LEMMA PostFollowed ==
    ASSUME TypeOK, UserFollows, UNCHANGED <<nmt, k2u, localState, role>>,
           answering' = answering,
           u2k' = u2k \/ \E e : u2k' = Append(u2k, e)
    PROVE  UserFollows'
<1>1. Answered(u2k)' <=> Answered(u2k')
  BY DEF Answered, Answer
<1>2. Answered(u2k) => Answered(u2k')
  BY AnsweredKept DEF TypeOK
<1>. QED BY <1>1, <1>2 DEF UserFollows

LEMMA NotStuckKept ==
    ASSUME InformMayFail = FALSE, TypeOK, NotStuckInReset, [Next]_vars
    PROVE  NotStuckInReset'
<1>1. nmt \in ResetState => UserFollows
  BY DEF NotStuckInReset, UserFollows, Answered
<1>. SUFFICES ASSUME nmt' \in ResetState PROVE UserFollows'
  BY DEF NotStuckInReset, UserFollows, Answered
<1>2. CASE KernelEvent
  BY <1>1, <1>2, ProcessFollowed DEF KernelEvent
<1>3. CASE UserTakes
  <2>1. UserFollows /\ nmt' = nmt
    BY <1>1, <1>3 DEF UserTakes, kernelVars
  <2>2. k2u # <<>> /\ k2u[Len(k2u)] = nmt
    BY <1>3, <2>1 DEF UserTakes, UserFollows
  <2>. QED BY <1>3, <2>1, <2>2, LastOfTail DEF UserTakes, UserFollows, TypeOK
<1>4. CASE UserAnswers
  <2>1. UserFollows /\ nmt' = nmt /\ role' = role
    BY <1>1, <1>4 DEF UserAnswers, kernelVars
  <2>2. Answered(u2k)' <=> Answered(u2k')
    BY <2>1 DEF Answered, Answer
  <2>3. answering = nmt \/ Answered(u2k) => Answered(u2k')
    <3>1. CASE answering = nmt
      <4>1. AnswersAtOnce(answering)
        BY <2>1, <3>1, SMT DEF AnswersAtOnce, Answer, ResetState
      <4>. QED BY <1>4, <3>1, <4>1, AnsweredKept DEF UserAnswers, TypeOK
    <3>2. CASE Answered(u2k)
      BY <1>4, <3>2, AnsweredKept DEF UserAnswers, TypeOK
    <3>. QED BY <3>1, <3>2
  <2>. QED BY <1>4, <2>1, <2>2, <2>3 DEF UserAnswers, UserFollows
<1>5. CASE TimerExpires \/ TimerPosts
  BY <1>1, <1>5, PostFollowed DEF TimerExpires, TimerPosts, kernelVars, userVars
<1>6. CASE ExecNmtCommand \/ BootStepFinished
  BY <1>1, <1>6, PostFollowed DEF ExecNmtCommand, BootStepFinished, Outside, kernelVars, userVars
<1>7. CASE FrameReceived \/ ErrorDetected
  BY <1>1, <1>7, PostFollowed DEF FrameReceived, ErrorDetected, Outside, kernelVars, userVars
<1>8. CASE UNCHANGED vars
  BY <1>1, <1>8, PostFollowed DEF vars, kernelVars, userVars
<1>. QED BY <1>2, <1>3, <1>4, <1>5, <1>6, <1>7, <1>8 DEF Next

(* If informing the user part does not fail, no reset is abandoned: the    *)
(* user part has yet to hear of it, is answering it, or has answered it.   *)
THEOREM NeverAbandoned ==
    ASSUME InformMayFail = FALSE
    PROVE  Spec => []NotStuckInReset
<1>1. Init => NotStuckInReset
  BY DEF Init, NotStuckInReset, ResetState
<1>2. TypeOK /\ NotStuckInReset /\ [Next]_vars => NotStuckInReset'
  BY NotStuckKept
<1>. QED BY <1>1, <1>2, TypeCorrect, PTL DEF Spec

-----------------------------------------------------------------------------
(* If in addition the node is never switched off, no answer to an earlier  *)
(* visit leads out of GsResetConfiguration.  The reset states have ranks;  *)
(* without the answer of the user part a node goes to a lower one only.    *)
Rank(s) == CASE s = "GsInitialising"       -> 1
             [] s = "GsResetApplication"   -> 2
             [] s = "GsResetCommunication" -> 3
             [] s = "GsResetConfiguration" -> 4
             [] OTHER -> 0

(* The rank of the state an event is the answer to.                        *)
Answers(e) == CASE e = "EnterResetApp"    -> 1
                [] e = "EnterResetCom"    -> 2
                [] e = "EnterResetConfig" -> 3
                [] e \in {"EnterCsNotActive", "EnterMsNotActive"} -> 4
                [] OTHER -> 0

(* Only the user part posts answers, and it answers the state it shows.    *)
OnlyUserAnswers ==
    /\ \A i \in 1..Len(kint) : Answers(kint[i]) = 0
    /\ Answers(timer) = 0 /\ Answers(expired) = 0
    /\ answering # "none" => answering = localState

(* a may come before b: if both belong to reset states, a has more rank.   *)
Before(a, b) == a = 0 \/ b = 0 \/ a > b

(* What is on its way from the kernel part to the user part and back, the  *)
(* oldest first: the answers in the U2K queue q, the state s being         *)
(* answered, and the changes in the K2U queue k.  Their ranks fall ...     *)
RanksFall(q, s, k) ==
    /\ \A i, j \in 1..Len(q) : i < j => Before(Answers(q[i]), Answers(q[j]))
    /\ \A i \in 1..Len(q) : Before(Answers(q[i]), Rank(s))
    /\ \A i \in 1..Len(q), j \in 1..Len(k) : Before(Answers(q[i]), Rank(k[j]))
    /\ \A j \in 1..Len(k) : Before(Rank(s), Rank(k[j]))
    /\ \A i, j \in 1..Len(k) : i < j => Before(Rank(k[i]), Rank(k[j]))

(* ... and none that is not 0 is less than f.                              *)
RanksAbove(f, q, s, k) ==
    /\ \A i \in 1..Len(q) : Answers(q[i]) = 0 \/ Answers(q[i]) >= f
    /\ Rank(s) = 0 \/ Rank(s) >= f
    /\ \A j \in 1..Len(k) : Rank(k[j]) = 0 \/ Rank(k[j]) >= f

(* They fall down to the state the kernel part is in; outside of the reset *)
(* states nothing is on its way.                                           *)
Floor == IF nmt \in ResetState THEN Rank(nmt) ELSE 5

OrderInv ==
    /\ OnlyUserAnswers
    /\ wasOff = 0 => /\ RanksFall(u2k, answering, k2u)
                     /\ RanksAbove(Floor, u2k, answering, k2u)

LEMMA RankTyped ==
    /\ \A s : Rank(s) \in 0..4 /\ (s \in ResetState <=> Rank(s) # 0)
    /\ \A e : Answers(e) \in 0..4
BY SMT DEF Rank, Answers, ResetState

(* Between reset states a step goes to a lower one, or the event was the   *)
(* answer to the first and takes the node one further.                     *)
LEMMA ResetSteps ==
    ASSUME NEW e, nmt \in ResetState, StateAfter(e) # nmt, StateAfter(e) # "GsOff"
    PROVE  \/ StateAfter(e) \in ResetState /\ Rank(StateAfter(e)) < Rank(nmt)
           \/ /\ Answers(e) = Rank(nmt)
              /\ StateAfter(e) \in ResetState => Rank(StateAfter(e)) = Rank(nmt) + 1
<1>1. CASE nmt = "GsInitialising"
  BY <1>1, SMTT(30) DEF StateAfter, ResetState, RunningState, Table, Rank, Answers,
     doStateGsInitialising
<1>2. CASE nmt = "GsResetApplication"
  BY <1>2, SMTT(30) DEF StateAfter, ResetState, RunningState, Table, Rank, Answers,
     doStateGsResetApplication
<1>3. CASE nmt = "GsResetCommunication"
  BY <1>3, SMTT(30) DEF StateAfter, ResetState, RunningState, Table, Rank, Answers,
     doStateGsResetCommunication
<1>4. CASE nmt = "GsResetConfiguration"
  BY <1>4, SMTT(30) DEF StateAfter, ResetState, RunningState, Table, Rank, Answers,
     doStateGsResetConfiguration
<1>. QED BY <1>1, <1>2, <1>3, <1>4 DEF ResetState

(* The events that are not answers of the user part.                       *)
LEMMA OthersAnswerNothing ==
    /\ \A r \in {"CN", "MN"} : \A c \in Commands[r] : Answers(c) = 0
    /\ \A f \in Frames \cup {"NmtCycleError", "InternComError", "none"} : Answers(f) = 0
    /\ \A s \in DOMAIN BootStep : Answers(BootStep[s]) = 0
    /\ \A s \in DOMAIN TimerEvent : Answers(TimerEvent[s]) = 0
<1>1. \A c \in Command \cup DllEvent \cup {"NmtCycleError", "InternComError", "none"} :
         Answers(c) = 0
  BY SMT DEF Command, DllEvent, Answers
<1>2. \A r \in {"CN", "MN"} : Commands[r] \subseteq Command
  BY NmtAssumption
<1>3. \A s \in DOMAIN BootStep : Answers(BootStep[s]) = 0
  BY SMT DEF BootStep, Answers
<1>4. \A s \in DOMAIN TimerEvent : Answers(TimerEvent[s]) = 0
  BY SMT DEF TimerEvent, Answers
<1>. QED BY <1>1, <1>2, <1>3, <1>4, NmtAssumption

(* The answer to a state has the rank of the state.                        *)
LEMMA AnswerHasRank ==
    ASSUME NEW s \in DOMAIN Answer
    PROVE  Answers(Answer[s]) = Rank(s)
BY SMT DEF Answer, Answers, Rank

-----------------------------------------------------------------------------
(* The kernel part takes the oldest answer.  If it is the answer to a      *)
(* reset state, all others are lower.                                      *)
LEMMA RanksTake ==
    ASSUME NEW q \in Seq(Event), q # <<>>, NEW s, NEW k \in Seq(State), NEW f \in 0..5,
           RanksFall(q, s, k), RanksAbove(f, q, s, k)
    PROVE  /\ RanksFall(Tail(q), s, k) /\ RanksAbove(f, Tail(q), s, k)
           /\ Answers(Head(q)) = f /\ f > 0 => RanksAbove(5, Tail(q), s, k)
<1>. USE RankTyped
<1>1. /\ Head(q) = q[1] /\ Len(Tail(q)) = Len(q) - 1
      /\ \A i \in 1..Len(Tail(q)) : Tail(q)[i] = q[i+1] /\ i + 1 \in 2..Len(q)
      /\ Len(q) \in Nat \ {0} /\ Len(k) \in Nat
  BY SMT
<1>2. RanksFall(Tail(q), s, k)
  BY <1>1, SMTT(30) DEF RanksFall
<1>3. RanksAbove(f, Tail(q), s, k)
  BY <1>1, SMTT(30) DEF RanksAbove
<1>4. ASSUME Answers(Head(q)) = f, f > 0 PROVE RanksAbove(5, Tail(q), s, k)
  BY <1>1, <1>3, <1>4, SMTT(30) DEF RanksFall, RanksAbove, Before
<1>. QED BY <1>2, <1>3, <1>4

(* What is above f is above anything less.                                 *)
LEMMA RanksAboveLess ==
    ASSUME NEW q, NEW s, NEW k, NEW f \in 0..5, NEW g \in 0..5, g <= f,
           RanksAbove(f, q, s, k)
    PROVE  RanksAbove(g, q, s, k)
BY RankTyped, SMT DEF RanksAbove

(* The kernel part announces a state n whose rank is below all others.     *)
LEMMA RanksAnnounce ==
    ASSUME NEW q \in Seq(Event), NEW s, NEW k \in Seq(State), NEW n \in State,
           NEW f \in 0..5, RanksFall(q, s, k), RanksAbove(f, q, s, k), Rank(n) < f
    PROVE  /\ RanksFall(q, s, Append(k, n))
           /\ RanksAbove(IF Rank(n) = 0 THEN f ELSE Rank(n), q, s, Append(k, n))
<1>. USE RankTyped
<1>1. /\ Len(Append(k, n)) = Len(k) + 1 /\ Len(k) \in Nat /\ Len(q) \in Nat
      /\ \A j \in 1..Len(k) : Append(k, n)[j] = k[j]
      /\ Append(k, n)[Len(k) + 1] = n
  BY SMT
<1>2. \A j \in 1..(Len(k) + 1) : j \in 1..Len(k) \/ j = Len(k) + 1
  BY <1>1, SMT
<1>3. RanksFall(q, s, Append(k, n))
  <2>1. /\ \A i \in 1..Len(q) : Before(Answers(q[i]), Rank(n))
        /\ Before(Rank(s), Rank(n))
        /\ \A j \in 1..Len(k) : Before(Rank(k[j]), Rank(n))
    <3>1. Rank(n) \in 0..4 /\ Rank(s) \in 0..4
          /\ \A i : Answers(q[i]) \in 0..4 /\ Rank(k[i]) \in 0..4
      OBVIOUS
    <3>2. \A r \in 0..4 : r = 0 \/ r >= f => Before(r, Rank(n))
      BY <3>1, SMT DEF Before
    <3>. QED BY <3>1, <3>2, Zenon DEF RanksAbove
  <2>2. \A i, j \in 1..(Len(k) + 1) : i < j =>
           Before(Rank(Append(k, n)[i]), Rank(Append(k, n)[j]))
    <3>1. \A i, j \in 1..Len(k) : i < j => Before(Rank(k[i]), Rank(k[j]))
      BY DEF RanksFall
    <3>2. \A i, j \in 1..(Len(k) + 1) : i < j => i \in 1..Len(k)
      BY <1>1, SMT
    <3>. QED BY <1>1, <1>2, <2>1, <3>1, <3>2
  <2>3. \A j \in 1..(Len(k) + 1) :
           /\ \A i \in 1..Len(q) : Before(Answers(q[i]), Rank(Append(k, n)[j]))
           /\ Before(Rank(s), Rank(Append(k, n)[j]))
    BY <1>1, <1>2, <2>1 DEF RanksFall
  <2>. QED BY <1>1, <2>2, <2>3 DEF RanksFall
<1>4. RanksAbove(IF Rank(n) = 0 THEN f ELSE Rank(n), q, s, Append(k, n))
  <2>. DEFINE g == IF Rank(n) = 0 THEN f ELSE Rank(n)
  <2>1. g \in 0..5 /\ g <= f /\ (Rank(n) = 0 \/ Rank(n) >= g)
    BY SMT
  <2>2. RanksAbove(g, q, s, k)
    BY <2>1, RanksAboveLess
  <2>. QED BY <1>1, <1>2, <2>1, <2>2 DEF RanksAbove
<1>. QED BY <1>3, <1>4

(* The user part takes the oldest change.                                  *)
LEMMA RanksHear ==
    ASSUME NEW q \in Seq(Event), NEW k \in Seq(State), k # <<>>, NEW s, NEW f \in 0..5,
           RanksFall(q, s, k), RanksAbove(f, q, s, k)
    PROVE  RanksFall(q, Head(k), Tail(k)) /\ RanksAbove(f, q, Head(k), Tail(k))
<1>1. /\ Head(k) = k[1] /\ Len(Tail(k)) = Len(k) - 1
      /\ \A i \in 1..Len(Tail(k)) : Tail(k)[i] = k[i+1] /\ i + 1 \in 2..Len(k)
      /\ Len(k) \in Nat \ {0} /\ Len(q) \in Nat
  BY SMT
<1>. QED BY <1>1, SMTT(30) DEF RanksFall, RanksAbove

(* An event is posted: the answer to s, with nothing left to answer, or    *)
(* one that answers nothing.                                               *)
LEMMA RanksPost ==
    ASSUME NEW q \in Seq(Event), NEW e, NEW k \in Seq(State), NEW s, NEW t, NEW f \in 0..5,
           RanksFall(q, s, k), RanksAbove(f, q, s, k),
           \/ Answers(e) = 0 /\ t = s
           \/ Answers(e) = Rank(s) /\ Rank(t) = 0
    PROVE  RanksFall(Append(q, e), t, k) /\ RanksAbove(f, Append(q, e), t, k)
<1>. USE RankTyped
<1>1. /\ Len(Append(q, e)) = Len(q) + 1 /\ Len(k) \in Nat /\ Len(q) \in Nat
      /\ \A j \in 1..Len(q) : Append(q, e)[j] = q[j]
      /\ Append(q, e)[Len(q) + 1] = e
  BY SMT
<1>2. \A j \in 1..(Len(q) + 1) : j \in 1..Len(q) \/ j = Len(q) + 1
  BY <1>1, SMT
<1>3. RanksFall(Append(q, e), t, k)
  BY <1>1, <1>2, SMTT(30) DEF RanksFall, Before
<1>4. RanksAbove(f, Append(q, e), t, k)
  BY <1>1, <1>2, SMTT(30) DEF RanksAbove
<1>. QED BY <1>3, <1>4

(* One event of the kernel part keeps the order: it is no answer, or the   *)
(* oldest one on its way.                                                  *)
LEMMA OrderOfProcess ==
    ASSUME TypeOK, OrderInv, NEW e, nmtk_process(e), wasOff' = 0,
           \/ u2k' = u2k /\ Answers(e) = 0
           \/ u2k # <<>> /\ e = Head(u2k) /\ u2k' = Tail(u2k)
    PROVE  /\ RanksFall(u2k', answering', k2u')
           /\ RanksAbove(Floor', u2k', answering', k2u')
<1>. DEFINE n == StateAfter(e)
            f == Floor
            g == IF Answers(e) = f THEN 5 ELSE f
<1>1. nmt' = n /\ answering' = answering /\ nmt \in State /\ n \in State
  BY StepsBetweenStates DEF nmtk_process, userVars, TypeOK
<1>2. /\ f \in 1..5 /\ (nmt \in ResetState => f = Rank(nmt))
      /\ nmt \notin ResetState => f = 5
  BY RankTyped, SMT DEF Floor
<1>3. wasOff = 0 /\ (n # nmt => n # "GsOff")
  BY <1>1, SMT DEF nmtk_process, TypeOK
<1>4. /\ RanksFall(u2k', answering, k2u) /\ RanksAbove(f, u2k', answering, k2u)
      /\ RanksAbove(g, u2k', answering, k2u) /\ u2k' \in Seq(Event)
  <2>1. RanksFall(u2k, answering, k2u) /\ RanksAbove(f, u2k, answering, k2u)
    BY <1>3 DEF OrderInv
  <2>2. CASE u2k' = u2k /\ Answers(e) = 0
    BY <1>2, <2>1, <2>2, SMT DEF TypeOK
  <2>3. CASE u2k # <<>> /\ e = Head(u2k) /\ u2k' = Tail(u2k)
    <3>1. u2k \in Seq(Event) /\ k2u \in Seq(State) /\ Tail(u2k) \in Seq(Event)
      BY <2>3, SMT DEF TypeOK
    <3>2. f \in 0..5 /\ f > 0
      BY <1>2, SMT
    <3>. QED BY <2>1, <2>3, <3>1, <3>2, RanksTake
  <2>. QED BY <2>2, <2>3
<1>5. CASE n = nmt
  <2>1. k2u' = k2u /\ Floor' = f
    BY <1>1, <1>5 DEF nmtk_process, Floor
  <2>. QED BY <1>1, <1>4, <2>1
<1>6. CASE n # nmt
  <2>1. /\ g \in 1..5 /\ Rank(n) < g
        /\ Rank(n) = 0 => g = 5
    <3>1. CASE nmt \notin ResetState
      BY <1>2, <3>1, RankTyped, SMT
    <3>2. CASE nmt \in ResetState
      BY <1>2, <1>3, <1>6, <3>2, ResetSteps, RankTyped, SMT
    <3>. QED BY <3>1, <3>2
  <2>2. Floor' = IF Rank(n) = 0 THEN g ELSE Rank(n)
    BY <1>1, <2>1, RankTyped DEF Floor
  <2>3. Floor' \in 0..5 /\ g \in 0..5 /\ Floor' <= g
    BY <2>1, <2>2, RankTyped, SMT
  <2>4. k2u' = Append(k2u, n) \/ k2u' = k2u
    BY <1>1, <1>6, Zenon DEF nmtk_process
  <2>5. CASE k2u' = Append(k2u, n)
    BY <1>1, <1>4, <2>1, <2>2, <2>3, <2>5, RanksAnnounce DEF TypeOK
  <2>6. CASE k2u' = k2u
    BY <1>1, <1>4, <2>3, <2>6, RanksAboveLess
  <2>. QED BY <2>4, <2>5, <2>6
<1>. QED BY <1>5, <1>6

(* Only the user part posts answers.                                       *)
LEMMA OnlyUserAnswersKept ==
    ASSUME TypeOK, OnlyUserAnswers, [Next]_vars
    PROVE  OnlyUserAnswers'
<1>. USE OthersAnswerNothing
<1>1. CASE KernelEvent
  <2>1. UNCHANGED <<timer, expired, answering, localState>>
    BY <1>1 DEF KernelEvent, nmtk_process, timerVars, userVars
  <2>2. kint' = kint \/ (kint # <<>> /\ kint' = Tail(kint))
    BY <1>1 DEF KernelEvent
  <2>3. \A i \in 1..Len(kint') : Answers(kint'[i]) = 0
    <3>1. CASE kint' = kint
      BY <3>1 DEF OnlyUserAnswers
    <3>2. CASE kint # <<>> /\ kint' = Tail(kint)
      <4>1. \A i \in 1..Len(Tail(kint)) : i + 1 \in 1..Len(kint) /\ Tail(kint)[i] = kint[i+1]
        BY <3>2, SMT DEF TypeOK
      <4>. QED BY <3>2, <4>1 DEF OnlyUserAnswers
    <3>. QED BY <2>2, <3>1, <3>2
  <2>. QED BY <2>1, <2>3 DEF OnlyUserAnswers
<1>2. CASE UserTakes
  BY <1>2 DEF UserTakes, OnlyUserAnswers
<1>3. CASE UserAnswers
  BY <1>3 DEF UserAnswers, ArmsTimer, OnlyUserAnswers
<1>4. CASE TimerExpires \/ TimerPosts
  BY <1>4 DEF TimerExpires, TimerPosts, OnlyUserAnswers, userVars
<1>5. CASE ExecNmtCommand \/ BootStepFinished
  BY <1>5 DEF ExecNmtCommand, BootStepFinished, OnlyUserAnswers, timerVars, userVars
<1>6. CASE FrameReceived \/ ErrorDetected
  <2>1. UNCHANGED <<timer, expired, answering, localState>>
    BY <1>6 DEF FrameReceived, ErrorDetected, timerVars, userVars
  <2>2. PICK f \in Frames \cup {"NmtCycleError", "InternComError"} :
           kint' = Append(kint, f)
    BY <1>6 DEF FrameReceived, ErrorDetected
  <2>3. \A i \in 1..Len(kint') : Answers(kint'[i]) = 0
    <3>1. Answers(f) = 0
      OBVIOUS
    <3>. QED BY <2>2, <3>1, SMT DEF TypeOK, OnlyUserAnswers
  <2>. QED BY <2>1, <2>3 DEF OnlyUserAnswers
<1>7. CASE UNCHANGED vars
  BY <1>7 DEF vars, timerVars, userVars, OnlyUserAnswers
<1>. QED BY <1>1, <1>2, <1>3, <1>4, <1>5, <1>6, <1>7 DEF Next

(* Every step keeps the order.                                             *)
LEMMA OrderKept ==
    ASSUME TypeOK, OrderInv, [Next]_vars
    PROVE  OrderInv'
<1>. SUFFICES ASSUME wasOff' = 0
              PROVE  /\ RanksFall(u2k', answering', k2u')
                     /\ RanksAbove(Floor', u2k', answering', k2u')
  BY OnlyUserAnswersKept DEF OrderInv
<1>. DEFINE Kept == /\ RanksFall(u2k', answering', k2u')
                    /\ RanksAbove(Floor', u2k', answering', k2u')
<1>1. CASE KernelEvent
  <2>1. CASE kint # <<>> /\ nmtk_process(Head(kint)) /\ UNCHANGED u2k
    <3>1. Answers(Head(kint)) = 0
      BY <2>1, SMT DEF TypeOK, OrderInv, OnlyUserAnswers
    <3>. QED BY <2>1, <3>1, OrderOfProcess
  <2>2. CASE u2k # <<>> /\ nmtk_process(Head(u2k)) /\ u2k' = Tail(u2k)
    BY <2>2, OrderOfProcess
  <2>. QED BY <1>1, <2>1, <2>2 DEF KernelEvent
<1>2. Floor \in 0..5
  BY RankTyped, SMT DEF Floor
<1>3. ASSUME UNCHANGED kernelVars
      PROVE  /\ Floor' = Floor
             /\ RanksFall(u2k, answering, k2u)
             /\ RanksAbove(Floor, u2k, answering, k2u)
  BY <1>3 DEF kernelVars, Floor, OrderInv
<1>4. CASE UserTakes
  BY <1>2, <1>3, <1>4, RanksHear DEF UserTakes, TypeOK
<1>5. CASE UserAnswers
  <2>1. UNCHANGED kernelVars /\ k2u' = k2u /\ answering' = "none"
    BY <1>5 DEF UserAnswers
  <2>2. Rank("none") = 0
    BY SMT DEF Rank
  <2>3. CASE AnswersAtOnce(answering)
    <3>1. u2k' = Append(u2k, Answer[answering])
      BY <1>5, <2>3 DEF UserAnswers
    <3>2. Answers(Answer[answering]) = Rank(answering)
      BY <2>3, AnswerHasRank DEF AnswersAtOnce
    <3>. QED BY <1>2, <1>3, <2>1, <2>2, <3>1, <3>2, RanksPost DEF TypeOK
  <2>4. CASE ~AnswersAtOnce(answering)
    <3>1. u2k' = u2k
      BY <1>5, <2>4 DEF UserAnswers
    <3>. QED BY <1>2, <1>3, <2>1, <2>2, <3>1, SMT DEF RanksFall, RanksAbove, Before
  <2>. QED BY <2>3, <2>4
<1>6. ASSUME UNCHANGED <<kernelVars, k2u, answering>>,
             NEW e, Answers(e) = 0, u2k' = Append(u2k, e)
      PROVE  Kept
  BY <1>2, <1>3, <1>6, RanksPost DEF TypeOK
<1>7. CASE TimerPosts
  BY <1>6, <1>7 DEF TimerPosts, userVars, OrderInv, OnlyUserAnswers
<1>8. CASE ExecNmtCommand \/ BootStepFinished
  BY <1>6, <1>8, OthersAnswerNothing
  DEF ExecNmtCommand, BootStepFinished, userVars, TypeOK
<1>9. ASSUME UNCHANGED <<kernelVars, u2k, k2u, answering>>
      PROVE  Kept
  BY <1>3, <1>9
<1>10. CASE TimerExpires \/ FrameReceived \/ ErrorDetected \/ UNCHANGED vars
  BY <1>9, <1>10 DEF TimerExpires, FrameReceived, ErrorDetected, vars, userVars
<1>. QED BY <1>1, <1>4, <1>5, <1>7, <1>8, <1>10 DEF Next

LEMMA OrderAlways == Spec => []OrderInv
<1>1. Init => OrderInv
  BY SMT DEF Init, OrderInv, OnlyUserAnswers, Answers, Rank, RanksFall, RanksAbove
<1>. QED BY <1>1, OrderKept, TypeCorrect, PTL DEF Spec

(* The event that leads out is the oldest answer: nothing else is on its   *)
(* way, so the user part has heard of this visit and is through with it.   *)
LEMMA ToldWhenLeaving ==
    ASSUME TypeOK, NotStuckInReset, OrderInv, [Next]_vars,
           LeavesResetConfiguration, wasOff = 0
    PROVE  ToldByUser
<1>. USE RankTyped
<1>1. nmt \in ResetState /\ Floor = 4 /\ Rank(nmt) = 4 /\ nmt' # nmt
      /\ nmt' \notin ResetState \cup {"GsOff"}
  BY SMT DEF LeavesResetConfiguration, ResetState, Floor, Rank
<1>2. PICK e : /\ nmtk_process(e)
               /\ \/ kint # <<>> /\ e = Head(kint)
                  \/ u2k # <<>> /\ e = Head(u2k)
  BY <1>1 DEF Next, KernelEvent, UserTakes, UserAnswers, TimerExpires,
     TimerPosts, ExecNmtCommand, BootStepFinished, FrameReceived,
     ErrorDetected, vars, kernelVars
<1>3. Answers(e) = 4
  BY <1>1, <1>2, ResetSteps DEF nmtk_process
<1>4. u2k # <<>> /\ e = Head(u2k)
  BY <1>2, <1>3, SMT DEF TypeOK, OrderInv, OnlyUserAnswers
<1>5. RanksAbove(5, Tail(u2k), answering, k2u)
  <2>1. RanksFall(u2k, answering, k2u) /\ RanksAbove(4, u2k, answering, k2u)
    BY <1>1 DEF OrderInv
  <2>2. 4 \in 0..5 /\ 4 > 0
    BY SMT
  <2>. QED BY <1>3, <1>4, <2>1, <2>2, RanksTake DEF TypeOK
<1>6. Rank(answering) = 0 /\ \A j \in 1..Len(k2u) : Rank(k2u[j]) = 0
  BY <1>5, SMT DEF RanksAbove
<1>7. k2u = <<>>
  <2>1. k2u # <<>> => Len(k2u) \in 1..Len(k2u)
    BY SMT DEF TypeOK
  <2>. QED BY <1>1, <1>6, <2>1, SMT DEF NotStuckInReset
<1>8. localState = nmt
  BY <1>1, <1>7 DEF NotStuckInReset
<1>9. answering = "none"
  BY <1>1, <1>6, <1>8, SMT DEF OrderInv, OnlyUserAnswers
<1>. QED BY <1>7, <1>8, <1>9 DEF ToldByUser

(* If informing the user part does not fail, a node that was never         *)
(* switched off leaves GsResetConfiguration only after the user part has   *)
(* processed this very visit.                                              *)
THEOREM LeavesWhenTold ==
    ASSUME InformMayFail = FALSE
    PROVE  Spec => LeavesResetWhenTold
<1>1. TypeOK /\ NotStuckInReset /\ OrderInv /\ [Next]_vars
        => [(LeavesResetConfiguration /\ wasOff = 0) => ToldByUser]_vars
  BY ToldWhenLeaving
<1>. QED BY <1>1, TypeCorrect, NeverAbandoned, OrderAlways, PTL
     DEF Spec, LeavesResetWhenTold
===============================================================================
