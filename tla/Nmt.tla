--------------------------------- MODULE Nmt ---------------------------------
(***************************************************************************)
(* The NMT state machine of one node: the kernel part (nmtk.c), which owns *)
(* the state, the user part (nmtu.c), which answers every state change     *)
(* with the event that leads on, and the event queues between the two.     *)
(*                                                                         *)
(* The kernel event thread takes its internal queue (frames seen by the    *)
(* DLL, errors) before the user-to-kernel queue (answers of the user part, *)
(* commands of the application or of the MN, expired timers).  A state     *)
(* change goes to the DLL in the same step and to the user part through    *)
(* the kernel-to-user queue.                                               *)
(***************************************************************************)
EXTENDS Naturals, Sequences

CONSTANTS
    BasicEthernet,   \* 0x1F99 is not 0 (CN), bit 13 of 0x1F80 is set (MN)
    WaitPreOp1,      \* MNWaitPreOp1 (0x1F89/3) is not 0
    InformMayFail,   \* dllk_process() or the K2U queue may fail
    Commands,        \* per role: NMT commands of the application and of the
                     \* network
    Frames,          \* DLL events of the received frames
    MaxEvents        \* bound: commands, frames and errors, together

VARIABLES
    role,         \* "MN" if the node ID is C_ADR_MN_DEF_NODE_ID, else "CN"
    nmt,          \* nmtkInstance_g.stateIndex
    flags,        \* its five flags, as the set of those that are TRUE
    kint,         \* kernel internal queue: NMT events
    u2k,          \* user to kernel queue: NMT events
    k2u,          \* kernel to user queue: the new state of each change
    localState,   \* nmtuInstance_g.localNmtState
    answering,    \* the change the user part is answering, or "none"
    timer,        \* nmtuInstance_g.timerHdl: its event, "none" if not running
    expired,      \* the event the timer thread is about to post, or "none"
    events,       \* bound counter: events from outside so far
    seen,         \* history: events the kernel took in the present state
    left,         \* history: events it took in the state before
    wasOff        \* history: 1 once a node that had started went to GsOff

kernelVars == <<nmt, flags, seen, left, wasOff>>
userVars   == <<localState, answering>>
timerVars  == <<timer, expired>>
vars == <<kernelVars, kint, u2k, k2u, userVars, timerVars, events, role>>

Flag == {"EnableReadyToOperate", "AppReadyToOperate", "TimerMsPreOp2",
         "AllMandatoryCNIdent", "Frozen"}

-----------------------------------------------------------------------------
(* The switch statements of nmtk.c: in each state, the events that lead to *)
(* another state whatever the flags are.  First those all states of a      *)
(* running CN or MN have in common (NMT_GT3 to NMT_GT8).                   *)
ResetTarget ==
    [CriticalError  |-> "GsOff",
     SwitchOff      |-> "GsOff",
     SwReset        |-> "GsInitialising",
     ResetNode      |-> "GsResetApplication",
     ResetCom       |-> "GsResetCommunication",
     InternComError |-> "GsResetCommunication",
     ResetConfig    |-> "GsResetConfiguration"]

doStateGsOff == [SwReset |-> "GsInitialising"]

doStateGsInitialising ==
    [CriticalError |-> "GsOff", SwitchOff |-> "GsOff",
     EnterResetApp |-> "GsResetApplication"]

doStateGsResetApplication ==
    [CriticalError |-> "GsOff", SwitchOff |-> "GsOff",
     SwReset       |-> "GsInitialising",
     EnterResetCom |-> "GsResetCommunication"]

(* Mutant: this state reacts on ResetConfig as the running states do.      *)
ResetCommunicationTakesResetConfig ==
    [CriticalError |-> "GsOff", SwitchOff |-> "GsOff",
     SwReset       |-> "GsInitialising",
     ResetNode     |-> "GsResetApplication",
     ResetConfig   |-> "GsResetConfiguration",
     EnterResetConfig |-> "GsResetConfiguration"]

doStateGsResetCommunication ==
    [CriticalError |-> "GsOff", SwitchOff |-> "GsOff",
     SwReset       |-> "GsInitialising",
     ResetNode     |-> "GsResetApplication",
     EnterResetConfig |-> "GsResetConfiguration"]

doStateGsResetConfiguration ==
    [CriticalError |-> "GsOff", SwitchOff |-> "GsOff",
     SwReset       |-> "GsInitialising",
     ResetNode     |-> "GsResetApplication",
     ResetCom      |-> "GsResetCommunication",
     EnterCsNotActive |-> "CsNotActive",
     EnterMsNotActive |-> "MsNotActive"]

doStateCsNotActive ==
    [DllCeSoc |-> "CsPreOperational1", DllCeSoa |-> "CsPreOperational1",
     TimerBasicEthernet |-> "CsBasicEthernet"]

doStateCsPreOperational1 == [DllCeSoc |-> "CsPreOperational2"]

doStateCsPreOperational2 ==
    [StopNode |-> "CsStopped", NmtCycleError |-> "CsPreOperational1"]

doStateCsReadyToOperate ==
    [StopNode  |-> "CsStopped", NmtCycleError |-> "CsPreOperational1",
     StartNode |-> "CsOperational"]

doStateCsOperational ==
    [StopNode |-> "CsStopped", NmtCycleError |-> "CsPreOperational1",
     EnterPreOperational2 |-> "CsPreOperational2"]

doStateCsStopped ==
    [EnterPreOperational2 |-> "CsPreOperational2",
     NmtCycleError        |-> "CsPreOperational1"]

doStateCsBasicEthernet ==
    [DllCeSoc  |-> "CsPreOperational1", DllCePreq |-> "CsPreOperational1",
     DllCePres |-> "CsPreOperational1", DllCeSoa  |-> "CsPreOperational1"]

(* An MN that hears another MN resets itself.                              *)
OtherMn == [DllCeSoc |-> "GsResetCommunication", DllCeSoa |-> "GsResetCommunication"]

doStateMsPreOperational2 ==
    [DllCeSoc      |-> "GsResetCommunication",
     DllCeSoa      |-> "GsResetCommunication",
     NmtCycleError |-> "MsPreOperational1",
     EnterReadyToOperate |-> "MsReadyToOperate"]

doStateMsReadyToOperate ==
    [DllCeSoc      |-> "GsResetCommunication",
     DllCeSoa      |-> "GsResetCommunication",
     NmtCycleError |-> "MsPreOperational1",
     EnterMsOperational |-> "MsOperational"]

doStateMsOperational ==
    [DllCeSoc      |-> "GsResetCommunication",
     DllCeSoa      |-> "GsResetCommunication",
     NmtCycleError |-> "MsPreOperational1"]

doStateMsBasicEthernet == OtherMn

Table ==
    [GsOff                |-> doStateGsOff,
     GsInitialising       |-> doStateGsInitialising,
     GsResetApplication   |-> doStateGsResetApplication,
     GsResetCommunication |-> doStateGsResetCommunication,
     GsResetConfiguration |-> doStateGsResetConfiguration,
     CsNotActive          |-> doStateCsNotActive,
     CsPreOperational1    |-> doStateCsPreOperational1,
     CsPreOperational2    |-> doStateCsPreOperational2,
     CsReadyToOperate     |-> doStateCsReadyToOperate,
     CsOperational        |-> doStateCsOperational,
     CsStopped            |-> doStateCsStopped,
     CsBasicEthernet      |-> doStateCsBasicEthernet,
     MsNotActive          |-> <<>>,   \* all its transitions need a flag
     MsPreOperational1    |-> OtherMn,
     MsPreOperational2    |-> doStateMsPreOperational2,
     MsReadyToOperate     |-> doStateMsReadyToOperate,
     MsOperational        |-> doStateMsOperational,
     MsBasicEthernet      |-> doStateMsBasicEthernet]

State == DOMAIN Table
ResetState == {"GsInitialising", "GsResetApplication",
               "GsResetCommunication", "GsResetConfiguration"}
RunningState == State \ (ResetState \cup {"GsOff"})

Command == {"SwReset", "SwitchOff", "ResetNode", "ResetCom", "ResetConfig",
            "StartNode", "StopNode", "EnterPreOperational2",
            "EnableReadyToOperate"}
DllEvent == {"DllCeSoc", "DllCePreq", "DllCePres", "DllCeSoa"}

ASSUME NmtAssumption ==
    /\ {BasicEthernet, WaitPreOp1, InformMayFail} \subseteq BOOLEAN
    /\ Commands \in [{"CN", "MN"} -> SUBSET Command] /\ Frames \subseteq DllEvent
    /\ MaxEvents \in Nat

(* The two events that take a CN from PreOp2 to ReadyToOperate, each with  *)
(* the flag that remembers it, and the two that take an MN from PreOp1 to  *)
(* PreOp2.                                                                 *)
CnFlagOf == [EnableReadyToOperate |-> "EnableReadyToOperate",
             EnterReadyToOperate  |-> "AppReadyToOperate"]
MnFlagOf == [TimerMsPreOp2        |-> "TimerMsPreOp2",
             AllMandatoryCNIdent  |-> "AllMandatoryCNIdent"]
CnFlags == {"EnableReadyToOperate", "AppReadyToOperate"}
MnFlags == {"TimerMsPreOp2", "AllMandatoryCNIdent"}

-----------------------------------------------------------------------------
(* nmtkStates_g[nmt].pfnState(e): the next state and the next flags.       *)
StateAfter(e) ==
    CASE nmt \in RunningState /\ e \in DOMAIN ResetTarget -> ResetTarget[e]
      [] e \in DOMAIN Table[nmt] -> Table[nmt][e]
      [] nmt = "CsPreOperational2" /\ e \in DOMAIN CnFlagOf
            /\ CnFlags \ {CnFlagOf[e]} \subseteq flags -> "CsReadyToOperate"
      [] nmt = "MsPreOperational1" /\ e \in DOMAIN MnFlagOf
            /\ MnFlags \ {MnFlagOf[e]} \subseteq flags -> "MsPreOperational2"
      [] nmt = "MsNotActive" /\ e = "TimerBasicEthernet"
            /\ "Frozen" \notin flags -> "MsBasicEthernet"
      [] nmt = "MsNotActive" /\ e = "TimerMsPreOp1"
            /\ "Frozen" \notin flags -> "MsPreOperational1"
      [] OTHER -> nmt

(* Mutant: the flags of a CN survive a cycle error and a StopNode.         *)
FlagsSurviveFallback(e) ==
    CASE nmt = "GsResetConfiguration" -> flags \ (CnFlags \cup {"Frozen"})
      [] nmt = "CsPreOperational2" /\ StateAfter(e) = "CsReadyToOperate" ->
            flags \ CnFlags
      [] nmt = "CsPreOperational2" /\ StateAfter(e) = nmt
            /\ e \in DOMAIN CnFlagOf -> flags \cup {CnFlagOf[e]}
      [] OTHER -> flags

(* Mutant: an MN in NotActive does not remember the other MN.              *)
FlagsNeverFrozen(e) ==
    CASE nmt = "MsNotActive" /\ StateAfter(e) = "MsPreOperational1" ->
            flags \ MnFlags
      [] nmt = "MsPreOperational1" /\ StateAfter(e) = nmt
            /\ e \in DOMAIN MnFlagOf -> flags \cup {MnFlagOf[e]}
      [] OTHER -> flags

FlagsAfter(e) ==
    CASE nmt = "GsResetConfiguration" -> flags \ (CnFlags \cup {"Frozen"})
      [] nmt = "CsPreOperational2"
            /\ StateAfter(e) \in {"CsReadyToOperate", "CsStopped",
                                  "CsPreOperational1"} -> flags \ CnFlags
      [] nmt = "CsPreOperational2" /\ StateAfter(e) = nmt
            /\ e \in DOMAIN CnFlagOf -> flags \cup {CnFlagOf[e]}
      [] nmt = "MsNotActive" /\ e \in {"DllCeSoc", "DllCeSoa"} ->
            flags \cup {"Frozen"}
      [] nmt = "MsNotActive" /\ StateAfter(e) = "MsPreOperational1" ->
            flags \ MnFlags
      [] nmt = "MsPreOperational1" /\ StateAfter(e) = nmt
            /\ e \in DOMAIN MnFlagOf -> flags \cup {MnFlagOf[e]}
      [] OTHER -> flags

(* Mutant: the state announced to the user part is the old one.            *)
AnnouncesOldState(e) ==
    /\ nmt' = StateAfter(e)
    /\ flags' = FlagsAfter(e)
    /\ IF nmt' = nmt
       THEN seen' = seen \cup {e} /\ UNCHANGED <<k2u, left, wasOff>>
       ELSE /\ seen' = {} /\ left' = seen \cup {e}
            /\ wasOff' = IF nmt' = "GsOff" THEN 1 ELSE wasOff
            /\ k2u' = Append(k2u, nmt)
    /\ UNCHANGED <<userVars, timerVars, events, role>>

(* nmtk_process(): a changed state goes to the DLL and then, if the DLL    *)
(* took it, to the user part.                                              *)
nmtk_process(e) ==
    /\ nmt' = StateAfter(e)
    /\ flags' = FlagsAfter(e)
    /\ IF nmt' = nmt
       THEN seen' = seen \cup {e} /\ UNCHANGED <<k2u, left, wasOff>>
       ELSE /\ seen' = {} /\ left' = seen \cup {e}
            /\ wasOff' = IF nmt' = "GsOff" THEN 1 ELSE wasOff
            /\ \/ k2u' = Append(k2u, nmt')
               \/ InformMayFail /\ UNCHANGED k2u
    /\ UNCHANGED <<userVars, timerVars, events, role>>

(* The kernel event thread: internal events come first.                    *)
KernelEvent ==
    \/ kint # <<>> /\ nmtk_process(Head(kint))
                    /\ kint' = Tail(kint) /\ UNCHANGED u2k
    \/ kint = <<>> /\ u2k # <<>> /\ nmtk_process(Head(u2k))
                    /\ u2k' = Tail(u2k) /\ UNCHANGED kint

-----------------------------------------------------------------------------
(* nmtu_processEvent(): the timer of the last state is deleted and the new *)
(* state becomes visible; its callbacks run; then comes the answer.        *)
UserTakes ==
    /\ k2u # <<>> /\ answering = "none"
    /\ localState' = Head(k2u) /\ answering' = Head(k2u)
    /\ k2u' = Tail(k2u)
    /\ timer' = "none"
    /\ UNCHANGED <<kernelVars, kint, u2k, expired, events, role>>

(* Mutant: no answer leads out of GsResetApplication.                      *)
NoAnswerToResetApplication ==
    [GsInitialising       |-> "EnterResetApp",
     GsResetCommunication |-> "EnterResetConfig",
     GsResetConfiguration |-> IF role = "MN" THEN "EnterMsNotActive"
                                             ELSE "EnterCsNotActive",
     CsPreOperational2    |-> "EnterReadyToOperate",
     MsPreOperational1    |-> "TimerMsPreOp2"]

(* The event processGeneralStateChange(), processCnStateChange() and       *)
(* processMnStateChange() post at once ...                                 *)
Answer ==
    [GsInitialising       |-> "EnterResetApp",
     GsResetApplication   |-> "EnterResetCom",
     GsResetCommunication |-> "EnterResetConfig",
     GsResetConfiguration |-> IF role = "MN" THEN "EnterMsNotActive"
                                             ELSE "EnterCsNotActive",
     CsPreOperational2    |-> "EnterReadyToOperate",
     MsPreOperational1    |-> "TimerMsPreOp2"]

AnswersAtOnce(s) ==
    s \in DOMAIN Answer /\ (s = "MsPreOperational1" => ~WaitPreOp1)

(* ... and the one they arm the timer with (setupNmtTimerEvent()).         *)
TimerEvent ==
    [MsNotActive       |-> IF BasicEthernet THEN "TimerBasicEthernet"
                                            ELSE "TimerMsPreOp1",
     CsNotActive       |-> "TimerBasicEthernet",
     MsPreOperational1 |-> "TimerMsPreOp2"]

ArmsTimer(s) ==
    /\ s \in DOMAIN TimerEvent
    /\ s = "CsNotActive" => BasicEthernet
    /\ s = "MsPreOperational1" => WaitPreOp1

UserAnswers ==
    /\ answering # "none"
    /\ answering' = "none"
    /\ u2k' = IF AnswersAtOnce(answering)
              THEN Append(u2k, Answer[answering]) ELSE u2k
    /\ timer' = IF ArmsTimer(answering) THEN TimerEvent[answering] ELSE timer
    /\ UNCHANGED <<kernelVars, kint, k2u, localState, expired, events, role>>

(* The timer thread takes an expiration and posts its event.               *)
TimerExpires ==
    /\ timer # "none" /\ expired = "none"
    /\ expired' = timer /\ timer' = "none"
    /\ UNCHANGED <<kernelVars, kint, u2k, k2u, userVars, events, role>>

(* Mutant: the timer thread posts without an expiration.                   *)
TimerPostsAnyway ==
    /\ u2k' = Append(u2k, expired) /\ expired' = "none"
    /\ Len(u2k) < 4
    /\ UNCHANGED <<kernelVars, kint, k2u, userVars, timer, events, role>>

TimerPosts ==
    /\ expired # "none"
    /\ u2k' = Append(u2k, expired) /\ expired' = "none"
    /\ UNCHANGED <<kernelVars, kint, k2u, userVars, timer, events, role>>

-----------------------------------------------------------------------------
Outside == events < MaxEvents /\ events' = events + 1 /\ UNCHANGED role

(* oplk_execNmtCommand() and commandCb(): an NMT command of the            *)
(* application or of a command frame.                                      *)
ExecNmtCommand ==
    /\ Outside
    /\ \E c \in Commands[role] : u2k' = Append(u2k, c)
    /\ UNCHANGED <<kernelVars, kint, k2u, userVars, timerVars>>

(* processInternalEvent() of nmtmnu.c: the boot steps of the other nodes   *)
(* are finished; it looks at the local state of the user part.             *)
BootStep == [MsPreOperational1 |-> "AllMandatoryCNIdent",
             MsPreOperational2 |-> "EnterReadyToOperate",
             MsReadyToOperate  |-> "EnterMsOperational"]

BootStepFinished ==
    /\ localState \in DOMAIN BootStep /\ answering = "none"
    /\ Outside
    /\ u2k' = Append(u2k, BootStep[localState])
    /\ UNCHANGED <<kernelVars, kint, k2u, userVars, timerVars>>

(* dllkframe_processFrameReceived(): frames are seen in running states     *)
(* only; of a PRes the NMT state machine hears up to CsPreOp1.             *)
FrameReceived ==
    /\ nmt \in RunningState
    /\ Outside
    /\ \E f \in Frames :
          /\ f = "DllCePres" => nmt \in {"CsNotActive", "CsPreOperational1"}
          /\ kint' = Append(kint, f)
    /\ UNCHANGED <<kernelVars, u2k, k2u, userVars, timerVars>>

(* postNmtEvent() of errhndk.c: an error counter has reached its           *)
(* threshold, or a CN has received a frame of an invalid format.           *)
ErrorDetected ==
    /\ nmt \in RunningState
    /\ Outside
    /\ \E e \in {"NmtCycleError", "InternComError"} :
          /\ e = "InternComError" => role = "CN"
          /\ kint' = Append(kint, e)
    /\ UNCHANGED <<kernelVars, u2k, k2u, userVars, timerVars>>

-----------------------------------------------------------------------------
(* nmtk_init(), nmtu_init(): the queues are empty.  The node ID is fixed.  *)
Init ==
    /\ role \in {"CN", "MN"}
    /\ nmt = "GsOff" /\ flags = {} /\ seen = {} /\ left = {} /\ wasOff = 0
    /\ kint = <<>> /\ u2k = <<>> /\ k2u = <<>>
    /\ localState = "GsOff" /\ answering = "none"
    /\ timer = "none" /\ expired = "none"
    /\ events = 0

User  == UserTakes \/ UserAnswers
Timer == TimerExpires \/ TimerPosts

Next ==
    \/ KernelEvent \/ UserTakes \/ UserAnswers \/ TimerExpires \/ TimerPosts
    \/ ExecNmtCommand \/ BootStepFinished \/ FrameReceived \/ ErrorDetected

Spec == Init /\ [][Next]_vars

(* Each of the two event threads and the timer thread goes on running.     *)
FairSpec == Spec /\ WF_vars(KernelEvent) /\ WF_vars(User) /\ WF_vars(Timer)

-----------------------------------------------------------------------------
Event == Command \cup DllEvent \cup DOMAIN ResetTarget
         \cup {"EnterResetApp", "EnterResetCom", "EnterResetConfig",
               "EnterCsNotActive", "EnterMsNotActive", "EnterReadyToOperate",
               "EnterMsOperational", "AllMandatoryCNIdent", "NmtCycleError",
               "TimerBasicEthernet", "TimerMsPreOp1", "TimerMsPreOp2"}
NoneOr(S) == S \cup {"none"}

(* Types: every variable of the kernel part, the user part and the queues  *)
(* of nmtk.c and nmtu.c holds values of its kind.                          *)
TypeOK ==
    /\ role \in {"CN", "MN"}
    /\ nmt \in State /\ localState \in State /\ answering \in NoneOr(State)
    /\ flags \subseteq Flag
    /\ kint \in Seq(Event) /\ u2k \in Seq(Event) /\ k2u \in Seq(State)
    /\ timer \in NoneOr(Event) /\ expired \in NoneOr(Event)
    /\ seen \subseteq Event /\ left \subseteq Event
    /\ wasOff \in {0, 1}
    /\ events \in 0..MaxEvents

(* A CN says it is ready to operate (doStateCsPreOperational2(), NMT_CT6)  *)
(* only when, in the stay in PreOp2 it just ended, both the MN enabled it  *)
(* and its own user part said so: no flag survives from an earlier stay.   *)
ReadyWhenBothAgree ==
    nmt = "CsReadyToOperate" =>
        {"EnableReadyToOperate", "EnterReadyToOperate"} \subseteq left

(* An MN that heard another MN while it listened in NotActive does not     *)
(* start a cycle or go to BasicEthernet (fFrozen, doStateMsNotActive()).   *)
SilentNextToOtherMn ==
    nmt \in {"MsPreOperational1", "MsBasicEthernet"} =>
        {"DllCeSoc", "DllCeSoa"} \cap left = {}

(* A node in a reset state is never abandoned: the user part has yet to    *)
(* hear of it, is answering it, or has posted the event that leads on.     *)
NotStuckInReset ==
    nmt \in ResetState =>
        IF k2u # <<>> THEN k2u[Len(k2u)] = nmt
        ELSE /\ localState = nmt
             /\ \/ answering = nmt
                \/ \E i \in 1..Len(u2k) : u2k[i] = Answer[nmt]

(* The user part has processed the present visit to GsResetConfiguration:  *)
(* it has taken every state change, is through with the last one, and that *)
(* one was the present state.                                              *)
ToldByUser == k2u = <<>> /\ localState = nmt /\ answering = "none"

LeavesResetConfiguration ==
    nmt = "GsResetConfiguration" /\ nmt' \in {"CsNotActive", "MsNotActive"}

(* A node that was never switched off leaves GsResetConfiguration for      *)
(* NotActive only after the user part has processed this very visit: an    *)
(* answer to an earlier visit leads nowhere, however many resets overtook  *)
(* each other (doStateGs...() of nmtk.c).                                  *)
LeavesResetWhenTold ==
    [][(LeavesResetConfiguration /\ wasOff = 0) => ToldByUser]_vars

(* Every reset comes to an end (nmtk_process(), nmtu_processEvent()).      *)
ResetLeadsOn ==
    nmt \in ResetState ~> nmt \notin ResetState

(* The user part, which answers the application, ends up with the state    *)
(* of the kernel part.                                                     *)
UserCatchesUp == <>[](localState = nmt)
=============================================================================
