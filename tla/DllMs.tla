-------------------------------- MODULE DllMs --------------------------------
(***************************************************************************)
(* The cycle of a managing node: the cyclic Ethernet driver                *)
(* (edrvcyclic.c), the DLL functions it calls back (dllknode.c,            *)
(* dllkframe.c) and the preparation of the next cycle (dllkevent.c).       *)
(*                                                                         *)
(* Three threads work on the same data:                                   *)
(*   - the timer thread starts a cycle on every tick of the cycle timer,   *)
(*     sends the frames of the current TX list, the later ones from the    *)
(*     slot timer, and tells the DLL that a cycle has begun;               *)
(*   - the receive thread takes the frames that were sent and received in  *)
(*     the order of the wire, and finds the CN a PRes belongs to;          *)
(*   - the event thread prepares the TX list of the next cycle.            *)
(* Two toggles have to keep in step: curTxBufferList of the driver, which  *)
(* every tick changes, and curTxBufferOffsetCycle of the DLL, which the    *)
(* sync callback changes.                                                  *)
(*                                                                         *)
(* A callback of a frame may begin between any two steps of the timer      *)
(* thread.  What excludes them is the critical section of the DLL          *)
(* (dllktgt.h:53), which each function of the DLL that is called back is   *)
(* in: a spinlock in the Linux kernel, nothing on the other targets.       *)
(* There the sync callback is in two steps that others may come between;   *)
(* a callback of a frame is one step on every target.  The driver and the  *)
(* event thread take no lock on any of them.                               *)
(*                                                                         *)
(* External: the CNs and the wire, and the boot process that starts the    *)
(* reduced cycle and adds and deletes nodes.  Poll response chaining and   *)
(* soft deletion are left out.                                             *)
(***************************************************************************)
EXTENDS Naturals, Sequences, FiniteSets, FiniteSetsExt

CONSTANTS
    CN,             \* node ids of the controlled nodes
    MN,             \* node id of the MN, which may send a PRes itself
    SyncNodes,      \* the values of syncNodeId to consider
    Locked,         \* TGT_DLLK_ENTER_CRITICAL_SECTION() takes a lock
    Threshold,      \* errhndk: MNCycTimeExceed threshold
    NodeSets,       \* the sets of nodes in the isochronous phase to consider
    MaxStarts,      \* bound: starts of the cycle
    MaxChanges,     \* bound: changes of the set of nodes
    MaxRefused,     \* bound: frames the driver refuses
    MaxRx,          \* bound: frames the receive thread is behind when more come
    MaxEv           \* bound: events the event thread is behind at a tick

C_ADR_INVALID     == 0
C_ADR_SYNC_ON_SOC == 0
C_ADR_BROADCAST   == 255            \* also the mark behind the PRC slot

ASSUME DllMsAssumption ==
    /\ CN \subseteq 1..239 /\ MN = 240
    /\ NodeSets \subseteq SUBSET (CN \cup {MN})
    /\ SyncNodes \subseteq Nat
    /\ Threshold \in Nat \ {0} /\ Locked \in BOOLEAN
    /\ {MaxStarts, MaxChanges, MaxRefused, MaxRx, MaxEv} \subseteq Nat

None == [kind |-> "none"]

VARIABLES
    (* configuration, fixed from the start                                 *)
    syncNodeId,     \* dllConfigParam.syncNodeId
    waits,          \* dllConfigParam.waitSocPreq # 0
    (* edrvcyclic.c                                                        *)
    list,           \* ppTxBufferList, its two halves up to the first NULL
    curList,        \* curTxBufferList, as 0 and 1
    entry,          \* curTxBufferEntry, from 1 in its half
    running,        \* the cycle timer is armed
    slotArmed,      \* the slot timer is armed
    timer,          \* where the timer thread is
    (* dllk                                                                *)
    nmt,            \* nmtState: "PreOp1" or "Full" (PreOp2 .. Operational)
    dllState,
    offset,         \* curTxBufferOffsetCycle
    aCnNodeIdList,
    curNodeIndex,
    fSyncProcessed, fPrcSlotFinished,
    nodes,          \* the list that begins at pFirstNodeInfo, as a set
    (* the receive thread, the event thread and the error handler          *)
    rx,             \* frames captured from the wire, in their order
    ev,             \* eventk: the events of the kernel queue
    prep,           \* a TX list under preparation
    thresholdCnt,   \* errhndk: MNCycTimeExceed counter
    (* the CNs, and what the properties compare with                       *)
    wire,           \* PReqs that are not answered yet, as <<cn, buffer>>
    asked, answered,  \* history: of the cycle of a buffer
    reported,       \* history: CNs reported as lost since the last sync
    disturbed,      \* history: sync callbacks for which a PRes that crossed
                    \* a tick, or a new start, may still matter
    starts, refused, changes

config   == <<syncNodeId, waits>>
edrvVars == <<list, curList, entry>>
timers   == <<running, slotArmed, timer>>
nodeVars == <<aCnNodeIdList, curNodeIndex>>
syncVars == <<fSyncProcessed, fPrcSlotFinished>>
histVars == <<asked, answered, reported, disturbed>>
counts   == <<starts, refused, changes>>
vars == <<config, edrvVars, timers, nmt, dllState, offset, nodeVars,
          syncVars, nodes, rx, ev, prep, thresholdCnt,
          wire, histVars, counts>>

-----------------------------------------------------------------------------
(* edrvcyclic.c: the frame the current list is at, if any.                 *)
FrameAt == IF entry <= Len(list[curList]) THEN list[curList][entry] ELSE None

PostEvent(e) == ev' = Append(ev, e)

(* edrv_sendTxBuffer() takes the frame: it is on the wire.  A PReq asks a   *)
(* CN for its PRes; the confirmation of a SoA, which has a handler, is     *)
(* captured like a received frame (that of a SoC only moves the ring of    *)
(* SoA requests on, which is left out).                                    *)
Transmitted(f) ==
    /\ entry' = entry + 1
    /\ rx' = IF f.kind = "SoA" THEN Append(rx, f) ELSE rx
    /\ LET preq == IF f.kind = "PReq" THEN {<<f.cn, f.off>>} ELSE {}
       IN wire' = wire \cup preq /\ asked' = asked \cup preq

(* dllk_cbCyclicError(): an error of the cycle goes to the error handler.  *)
dllk_cbCyclicError == PostEvent("CycTimeExceed")

\* Mutant: the tick does not wait for the frames of the last cycle.
ListFinishedOrNot == TRUE
ListFinished == FrameAt = None

(* timerHdlCycleCb() up to processTxBufferList(): the list of the last     *)
(* cycle must be finished and the one of the next cycle must be there.     *)
timerHdlCycleCb ==
    /\ running /\ timer = "idle"
    /\ Len(rx) <= MaxRx /\ Len(ev) <= MaxEv
    /\ IF ~ListFinished
       THEN /\ dllk_cbCyclicError
            /\ UNCHANGED <<edrvVars, timer, wire>>
       ELSE /\ curList' = 1 - curList /\ entry' = 1
            /\ list' = [list EXCEPT ![curList] = <<>>]
            /\ wire' = {}
            /\ IF list[1 - curList] = <<>>
               THEN dllk_cbCyclicError /\ UNCHANGED timer
               ELSE timer' = "tick" /\ UNCHANGED ev
    /\ UNCHANGED <<config, running, slotArmed, nmt, dllState, offset, nodeVars,
                   syncVars, nodes, rx, prep, thresholdCnt,
                   histVars, counts>>

(* The driver refuses a frame: the list is not carried on, and the error   *)
(* is one the error handler counts or one only the application hears of.   *)
Refuse ==
    /\ refused < MaxRefused /\ refused' = refused + 1
    /\ dllk_cbCyclicError \/ UNCHANGED ev
    /\ UNCHANGED <<entry, rx, wire, asked, slotArmed>>

(* processTxBufferList(): frames with no time offset are sent at once, for *)
(* the first other one the slot timer is armed.  After a tick the sync     *)
(* callback follows, whether or not all frames could be sent.              *)
processTxBufferList ==
    /\ timer \in {"tick", "slot"}
    /\ LET f    == FrameAt
           back == IF timer = "tick" THEN "sync" ELSE "idle"
       IN \/ /\ f = None
             /\ timer' = back
             /\ UNCHANGED <<entry, rx, wire, asked, slotArmed, ev, refused>>
          \/ /\ f # None /\ f.waits
             /\ slotArmed' = TRUE /\ timer' = back
             /\ UNCHANGED <<entry, rx, wire, asked, ev, refused>>
          \/ /\ f # None /\ ~f.waits
             /\ Transmitted(f)
             /\ UNCHANGED <<slotArmed, timer, ev, refused>>
          \/ /\ f # None /\ ~f.waits
             /\ Refuse /\ timer' = back
    /\ UNCHANGED <<config, list, curList, running, nmt, dllState, offset,
                   nodeVars, syncVars, nodes, prep,
                   thresholdCnt, answered, reported, disturbed, starts, changes>>

(* timerHdlSlotCb(): the frame it was armed for is sent, then the rest of  *)
(* the list is processed.                                                  *)
timerHdlSlotCb ==
    /\ slotArmed /\ timer = "idle" /\ FrameAt # None /\ Len(rx) <= MaxRx
    /\ \/ /\ Transmitted(FrameAt) /\ timer' = "slot" /\ slotArmed' = FALSE
          /\ UNCHANGED <<ev, refused>>
       \/ /\ refused < MaxRefused /\ refused' = refused + 1
          /\ dllk_cbCyclicError \/ UNCHANGED ev
          /\ slotArmed' = FALSE
          /\ UNCHANGED <<entry, rx, wire, asked, timer>>
    /\ UNCHANGED <<config, list, curList, running, nmt, dllState, offset,
                   nodeVars, syncVars, nodes, prep,
                   thresholdCnt, answered, reported, disturbed, starts, changes>>

(* The CNs of a node id list from an index up to its end mark.             *)
Rest(ids, from) ==
    {ids[i] : i \in {j \in DOMAIN ids :
                        /\ j >= from
                        /\ \A k \in from..j : ids[k] # C_ADR_INVALID}} \cap CN

Crossing == \E i \in 1..Len(rx) : rx[i].kind = "PRes"

(* cbMnSyncHandler(): every CN of the list that was not processed is       *)
(* reported as lost, ...                                                   *)
ReportLosses ==
    /\ timer = "sync" /\ timer' = "switch"
    /\ fSyncProcessed' = FALSE /\ fPrcSlotFinished' = FALSE
    /\ UNCHANGED <<config, edrvVars, running, slotArmed, nmt, dllState, offset,
                   nodeVars, nodes, rx, ev, prep, thresholdCnt,
                   wire, histVars, counts>>

(* ... and the DLL goes on to the cycle that has begun.                    *)
SwitchCycle ==
    /\ timer = "switch" /\ timer' = "idle"
    /\ offset' = 1 - offset /\ curNodeIndex' = 0
    /\ PostEvent("CycleFinish")
    /\ reported' = {}
    /\ asked' = {a \in asked : a[2] # offset}
    /\ answered' = {a \in answered : a[2] # offset}
    /\ disturbed' = IF Crossing THEN 2
                    ELSE IF disturbed > 0 THEN disturbed - 1 ELSE 0
    /\ UNCHANGED <<config, edrvVars, running, slotArmed, nmt, dllState,
                   aCnNodeIdList, syncVars, nodes, rx, prep, thresholdCnt,
                   wire, counts>>

cbMnSyncHandler == ReportLosses \/ SwitchCycle

-----------------------------------------------------------------------------
(* The CNs.  One answers its PReq, soon, late or, as it is lost or the CN  *)
(* is gone, never.                                                         *)
CnAnswers ==
    \E w \in wire :
        /\ Len(rx) <= MaxRx
        /\ wire' = wire \ {w}
        /\ rx' = Append(rx, [kind |-> "PRes", cn |-> w[1], off |-> w[2],
                             waits |-> FALSE])
        /\ UNCHANGED <<config, edrvVars, timers, nmt, dllState, offset,
                       nodeVars, syncVars, nodes, ev, prep,
                       thresholdCnt, histVars, counts>>

\* Mutant: the functions of the DLL that are called back take no lock, as on
\* the targets other than the Linux kernel.
CalledBackUnlocked(kind) ==
    /\ rx # <<>> /\ Head(rx).kind = kind
    /\ rx' = Tail(rx)

(* The receive thread takes a frame, and waits where the sync callback     *)
(* holds the lock.                                                         *)
CalledBack(kind) ==
    /\ Locked => timer # "switch"
    /\ rx # <<>> /\ Head(rx).kind = kind
    /\ rx' = Tail(rx)

(* processTransmittedSoa() in a cyclic state: the latest point for the     *)
(* preparation of the next cycle, unless it is synchronised to the SoC.    *)
RxSoa ==
    /\ CalledBack("SoA")
    /\ IF /\ dllState = "WaitSocTrig"
          /\ syncNodeId # C_ADR_SYNC_ON_SOC /\ ~fSyncProcessed
       THEN PostEvent("Sync") /\ fSyncProcessed' = TRUE
       ELSE UNCHANGED <<ev, fSyncProcessed>>
    /\ UNCHANGED <<config, edrvVars, timers, nmt, dllState, offset, nodeVars,
                   fPrcSlotFinished, nodes, prep,
                   thresholdCnt, wire, histVars, counts>>

(* searchNodeInfo(): the CN is looked for from curNodeIndex on.            *)
Found(ids, cn) ==
    {i \in DOMAIN ids : /\ i >= curNodeIndex /\ ids[i] = cn
                        /\ \A j \in curNodeIndex..i-1 :
                               ids[j] \notin {C_ADR_INVALID, cn}}

\* Mutant: the CN that answered is not passed over.
SameIndex(k) == k
NextIndex(k) == k + 1

(* processReceivedPres(): the CNs passed over are reported as lost, the    *)
(* index moves on, and the sync event is posted when the PRes is the one   *)
(* it is configured for, or one behind it (checkAndSetSyncEvent()), in     *)
(* both cases only behind the mark of the PRC slot.                        *)
RxPres ==
    /\ CalledBack("PRes")
    /\ LET f    == Head(rx)
           ids  == aCnNodeIdList[offset]
           hits == IF dllState = "WaitSocTrig" THEN Found(ids, f.cn) ELSE {}
           k    == CHOOSE i \in hits : TRUE
           mark == \E i \in curNodeIndex..k : ids[i] = C_ADR_BROADCAST
           prc  == fPrcSlotFinished \/ mark
           sync == /\ syncNodeId # C_ADR_SYNC_ON_SOC
                   /\ ~fSyncProcessed /\ prc
                   /\ f.cn = syncNodeId \/ (~mark /\ f.cn > syncNodeId)
       IN /\ IF hits = {}
             THEN UNCHANGED <<curNodeIndex, syncVars, ev, reported, answered>>
             ELSE /\ curNodeIndex' = NextIndex(k)
                  /\ reported' = reported \cup
                         ({ids[i] : i \in curNodeIndex..k-1} \cap CN)
                  /\ fPrcSlotFinished' = prc
                  /\ fSyncProcessed' = (fSyncProcessed \/ sync)
                  /\ IF sync THEN PostEvent("Sync") ELSE UNCHANGED ev
                  /\ answered' = answered \cup {<<f.cn, f.off>>}
          /\ disturbed' = IF f.off # offset THEN 2 ELSE disturbed
    /\ UNCHANGED <<config, edrvVars, timers, nmt, dllState, offset,
                   aCnNodeIdList, nodes, prep, thresholdCnt, wire, asked,
                   counts>>

-----------------------------------------------------------------------------
(* The event thread.  processCycleFinish() prepares the next cycle when it *)
(* is synchronised to the SoC.                                             *)
CycleFinish ==
    /\ prep' = IF dllState = "WaitSocTrig" /\ syncNodeId = C_ADR_SYNC_ON_SOC
               THEN [None EXCEPT !.kind = "fill"] ELSE prep
    /\ ev' = Tail(ev)
    /\ UNCHANGED <<nmt, running, slotArmed, thresholdCnt>>

(* processSync() prepares the next cycle, whatever the state of the DLL.   *)
ProcessSync ==
    /\ prep' = [None EXCEPT !.kind = "fill"]
    /\ ev' = Tail(ev)
    /\ UNCHANGED <<nmt, running, slotArmed, thresholdCnt>>

(* handleMnCycTimeExceed(): every error counts eight, and at the threshold *)
(* the NMT is told.  Nothing decrements the counter: decrementMnCounters() *)
(* writes what it takes from it to another one.                            *)
handleMnCycTimeExceed ==
    LET cnt == Min({thresholdCnt + 8, Threshold})
    IN /\ thresholdCnt' = cnt
       /\ ev' = IF cnt >= Threshold THEN Append(Tail(ev), "CycleError")
                ELSE Tail(ev)
       /\ UNCHANGED <<nmt, running, slotArmed, prep>>

\* Mutant: edrvcyclic_stopCycle() is not called.
CycleErrorOnly ==
    /\ ev' = Tail(ev)
    /\ nmt' = "PreOp1"
    /\ UNCHANGED <<running, slotArmed, prep, thresholdCnt>>

(* A cycle error takes the MN from a full cycle to PreOperational1, where  *)
(* processNmtStateChange() stops the cycle and deletes both timers.        *)
CycleError ==
    /\ ev' = Tail(ev)
    /\ IF nmt = "Full"
       THEN nmt' = "PreOp1" /\ running' = FALSE /\ slotArmed' = FALSE
       ELSE UNCHANGED <<nmt, running, slotArmed>>
    /\ UNCHANGED <<prep, thresholdCnt>>

HandleEvent ==
    /\ prep = None /\ ev # <<>>
    /\ \/ Head(ev) = "CycleFinish"   /\ CycleFinish
       \/ Head(ev) = "Sync"          /\ ProcessSync
       \/ Head(ev) = "CycTimeExceed" /\ handleMnCycTimeExceed
       \/ Head(ev) = "CycleError"    /\ CycleError
    /\ UNCHANGED <<config, edrvVars, timer, dllState, offset, nodeVars,
                   syncVars, nodes, rx, wire, histVars, counts>>

(* The nodes in the order of their list: the MN, then the CNs by node id.  *)
Place(S, n) == Cardinality({m \in S : m = MN \/ (n # MN /\ m <= n)})
Order(S) == [i \in 1..Cardinality(S) |-> CHOOSE n \in S : Place(S, n) = i]

nextTxBufferOffset == 1 - offset

(* processSyncMn() up to the driver: the frames of the other buffer are    *)
(* filled.  The first frame behind the SoC waits for waitSocPreq, the next *)
(* ones for the presTimeoutNs of their predecessor, which the MN has not.  *)
Frames ==
    LET order == Order(nodes)
        Late(i) == IF i = 1 THEN waits ELSE order[i-1] # MN
        Frame(kind, cn, w) ==
            [kind |-> kind, cn |-> cn, off |-> nextTxBufferOffset, waits |-> w]
    IN <<Frame("SoC", 0, FALSE)>>
       \o [i \in DOMAIN order |->
             Frame(IF order[i] = MN THEN "PResMn" ELSE "PReq",
                   order[i], Late(i))]
       \o <<Frame("SoA", 0, Late(Len(order) + 1))>>

(* dllknode_setupSyncPhase(): the node id list of that cycle, with the     *)
(* mark of the PRC slot for the MN; what was behind its end stays.         *)
NodeIds(ids) ==
    LET new == [i \in DOMAIN Order(nodes) |->
                   IF Order(nodes)[i] = MN THEN C_ADR_BROADCAST
                   ELSE Order(nodes)[i]] \o <<C_ADR_INVALID>>
    IN [i \in DOMAIN ids |-> IF i < Len(new) THEN new[i + 1] ELSE ids[i]]

Fill ==
    /\ prep.kind = "fill"
    /\ prep' = [kind |-> "check", frames |-> Frames]
    /\ aCnNodeIdList' = [aCnNodeIdList EXCEPT ![nextTxBufferOffset] = NodeIds(@)]
    /\ UNCHANGED <<config, edrvVars, timers, nmt, dllState, offset,
                   curNodeIndex, syncVars, nodes, rx,
                   ev, thresholdCnt, wire, histVars, counts>>

(* edrvcyclic_setNextTxBufferList(): the half that is next now is computed *)
(* and has to be free; ...                                                 *)
CheckNextTxBufferList ==
    /\ prep.kind = "check"
    /\ prep' = IF list[1 - curList] = <<>>
               THEN [kind |-> "copy", frames |-> prep.frames, half |-> 1 - curList]
               ELSE None
    /\ UNCHANGED <<config, edrvVars, timers, nmt, dllState, offset, nodeVars,
                   syncVars, nodes, rx, ev, thresholdCnt,
                   wire, histVars, counts>>

(* ... it is written then, whatever the timer thread did in between.       *)
CopyNextTxBufferList ==
    /\ prep.kind = "copy" /\ prep' = None
    /\ list' = [list EXCEPT ![prep.half] = prep.frames]
    /\ UNCHANGED <<config, curList, entry, timers, nmt, dllState, offset,
                   nodeVars, syncVars, nodes, rx, ev,
                   thresholdCnt, wire, histVars, counts>>

-----------------------------------------------------------------------------
(* processStartReducedCycle(), which the boot process asks for in          *)
(* PreOperational1: no node is in the isochronous phase any more.  That    *)
(* takes it longer than a callback of the timer thread.                    *)
processStartReducedCycle ==
    /\ nmt = "PreOp1" /\ dllState = "WaitSocTrig"
    /\ ev = <<>> /\ prep = None /\ timer = "idle"
    /\ nodes' = {} /\ dllState' = "NonCyclic"
    /\ offset' = 0
    /\ UNCHANGED <<config, edrvVars, timers, nmt, nodeVars, syncVars,
                   rx, ev, prep, thresholdCnt, wire,
                   histVars, counts>>

(* The MN goes on to PreOperational2.                                      *)
EnterFullCycle ==
    /\ nmt = "PreOp1" /\ dllState = "NonCyclic" /\ ev = <<>> /\ prep = None
    /\ nmt' = "Full"
    /\ UNCHANGED <<config, edrvVars, timers, dllState, offset, nodeVars,
                   syncVars, nodes, rx, ev, prep,
                   thresholdCnt, wire, histVars, counts>>

(* dllknode_addNodeIsochronous() and dllknode_deleteNodeIsochronous(), for *)
(* the nodes the boot process asks for between two preparations.           *)
ChangeNodes ==
    /\ nmt = "Full" /\ prep = None
    /\ changes < MaxChanges /\ changes' = changes + 1
    /\ nodes' \in NodeSets \ {nodes}
    /\ UNCHANGED <<config, edrvVars, timers, nmt, dllState, offset, nodeVars,
                   syncVars, rx, ev, prep, thresholdCnt,
                   wire, histVars, starts, refused>>

(* The first SocTrig of a full cycle: edrvcyclic_startCycle() clears the   *)
(* lists and arms the cycle timer, and the first cycle is prepared.  It is *)
(* milliseconds since the last cycle ended, so nothing of it is pending;   *)
(* but the node id lists and curNodeIndex are as it left them.             *)
SocTrig ==
    /\ nmt = "Full" /\ dllState = "NonCyclic"
    /\ timer = "idle" /\ ~slotArmed /\ rx = <<>>
    /\ starts < MaxStarts /\ starts' = starts + 1
    /\ running' = TRUE
    /\ list' = [h \in 0..1 |-> <<>>] /\ curList' = 0 /\ entry' = 1
    /\ dllState' = "WaitSocTrig"
    /\ PostEvent("Sync")
    /\ wire' = {} /\ asked' = {} /\ answered' = {} /\ reported' = {}
    /\ disturbed' = 1
    /\ UNCHANGED <<config, slotArmed, timer, nmt, offset, nodeVars, syncVars,
                   nodes, rx, prep, thresholdCnt,
                   refused, changes>>

-----------------------------------------------------------------------------
Init ==
    /\ syncNodeId \in SyncNodes /\ waits \in BOOLEAN
    /\ list = [h \in 0..1 |-> <<>>] /\ curList = 0 /\ entry = 1
    /\ running = FALSE /\ slotArmed = FALSE /\ timer = "idle"
    /\ nmt = "PreOp1" /\ dllState = "NonCyclic" /\ offset = 0
    /\ aCnNodeIdList = [b \in 0..1 |->
                          [i \in 0..Cardinality(CN) + 1 |-> C_ADR_INVALID]]
    /\ curNodeIndex = 0 /\ fSyncProcessed = FALSE /\ fPrcSlotFinished = FALSE
    /\ nodes = {}
    /\ rx = <<>> /\ ev = <<>> /\ prep = None
    /\ thresholdCnt = 0 /\ wire = {} /\ asked = {} /\ answered = {}
    /\ reported = {} /\ disturbed = 0 /\ starts = 0 /\ refused = 0 /\ changes = 0

TimerThread == timerHdlCycleCb \/ processTxBufferList \/ timerHdlSlotCb
                   \/ cbMnSyncHandler \/ SocTrig
RxThread    == RxSoa \/ RxPres
EventThread == HandleEvent \/ Fill \/ CheckNextTxBufferList
                   \/ CopyNextTxBufferList \/ processStartReducedCycle
                   \/ EnterFullCycle \/ ChangeNodes

Next == TimerThread \/ RxThread \/ EventThread \/ CnAnswers

Spec == Init /\ [][Next]_vars

(* The timers expire, and the threads run.                                 *)
Fairness == /\ WF_vars(timerHdlCycleCb) /\ WF_vars(timerHdlSlotCb)
            /\ WF_vars(processTxBufferList) /\ WF_vars(cbMnSyncHandler)
            /\ WF_vars(RxThread) /\ WF_vars(HandleEvent) /\ WF_vars(Fill)
            /\ WF_vars(CheckNextTxBufferList) /\ WF_vars(CopyNextTxBufferList)

FairSpec == Spec /\ Fairness

-----------------------------------------------------------------------------
(* Nothing that asks for the next cycle reaches the DLL before its sync    *)
(* callback: the driver waits behind the SoC (0x1F8A.1, by default 1000),  *)
(* or the preparation begins at the SoC.  Without either the frames of the *)
(* first cycle can be on the wire and be confirmed before the callback.    *)
Separated == waits \/ syncNodeId = C_ADR_SYNC_ON_SOC

(* Preparing the next cycle never writes a frame that the running cycle    *)
(* has still to send, however late the event thread is, and whenever a     *)
(* frame is confirmed or received (dllkevent.c:864, edrvcyclic.c:252).     *)
(* Without the lock it does: dllktgt.h:70 says that targets other than the *)
(* Linux kernel do not need one.                                           *)
SendingIsUntouched ==
    [][(Fill /\ Separated) =>
          \A i \in entry..Len(list[curList]) :
              list[curList][i].off = offset]_vars

(* When the slot timer expires there is a frame to send: timerHdlSlotCb()  *)
(* gives what it finds to the driver unchecked (edrvcyclic.c:618).         *)
SlotTimerHasAFrame == (slotArmed /\ timer = "idle") => FrameAt # None

(* edrvcyclic_setNextTxBufferList() checks its half and writes it later,   *)
(* without a lock (edrvcyclic.c:252, 271); it never writes over a list.    *)
NoListIsOverwritten == [][CopyNextTxBufferList => list[prep.half] = <<>>]_vars

(* The frame the slot timer sends is one of the cycle the DLL is in, and   *)
(* if it is a PReq the receive thread awaits the PRes (dllknode.c:1211),   *)
(* although the driver and the DLL go on to a cycle at different times.    *)
(* The last needs a cycle without a PRes that was still on its way when an *)
(* earlier one ended.                                                      *)
SlotTimerIsSound ==
    (slotArmed /\ timer = "idle") =>
        /\ FrameAt # None
        /\ (running /\ Separated) => FrameAt.off = offset
        /\ (running /\ Separated /\ FrameAt.kind = "PReq" /\ disturbed = 0) =>
               FrameAt.cn \in Rest(aCnNodeIdList[offset], curNodeIndex)

(* At the end of a cycle exactly the CNs that were asked and whose PRes    *)
(* was not taken have been reported as lost (dllkframe.c:2739,             *)
(* dllknode.c:1213), unless a PRes was still on its way when a cycle       *)
(* before it ended; in the first cycle after a start it may be otherwise.  *)
LossesAreExact ==
    [][(ReportLosses /\ Separated /\ disturbed = 0)
         => reported \cup Rest(aCnNodeIdList[offset], curNodeIndex)
                = {n \in CN : <<n, offset>> \in asked \ answered}]_vars

(* New cycles begin as long as the cycle timer runs: a list that was not   *)
(* finished, is missing or was written too late ends in a cycle error,     *)
(* which stops the timer (edrvcyclic.c:468, errhndk.c:721).                *)
CycleGoesOn == []<>(timer = "sync" \/ ~running)
===============================================================================
