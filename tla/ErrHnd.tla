-------------------------------- MODULE ErrHnd --------------------------------
(***************************************************************************)
(* The kernel error handler (errhndk.c): one object per kind of error with *)
(* a cumulative counter, a threshold counter and a threshold, which the    *)
(* DLL's error events drive up and the end of every cycle drives down.     *)
(*                                                                         *)
(* Both operations run in the kernel event thread and are atomic.  The     *)
(* objects are in shared memory (errhndkcal-posixshm.c); the application   *)
(* writes only thresholds and cumulative counters, the threshold counters  *)
(* are the error handler's own.                                            *)
(***************************************************************************)
EXTENDS Naturals, FiniteSets

CONSTANTS
    Node,            \* the CNs whose PRes the MN watches
    CnErrors,        \* the errors the DLL of a CN reports
    MnErrors,        \* the errors the DLL of an MN reports
    Threshold,       \* the threshold of every object, 0 switches it off
    HistoryMayFail,  \* a history entry may find the K2U queue full
    MaxErrors        \* bound: error events

CnObject  == {"CnLossSoc", "CnLossPreq", "CnCrc"}
MnObject  == {"MnCrc", "MnCycTimeExceed"}
Object    == CnObject \cup MnObject \cup Node

(* The bits of tEventDllError.dllErrorEvents; a loss of PRes carries the   *)
(* node it is about and stands here for that node.                         *)
ErrorBit == Object \cup {"RecvdPreq", "InvalidFormat"}

ASSUME ErrHndAssumption ==
    /\ CnErrors \cup MnErrors \subseteq ErrorBit
    /\ Threshold \in [Object -> Nat]
    /\ HistoryMayFail \in BOOLEAN /\ MaxErrors \in Nat

(* Node ids are told apart from the other objects, and the DLL of an MN    *)
(* reports none of the errors of a CN.                                     *)
ASSUME NameAssumption ==
    /\ Node \cap (CnObject \cup MnObject \cup {"RecvdPreq", "InvalidFormat", "none"}) = {}
    /\ MnErrors \cap CnObject = {}

VARIABLES
    role,                 \* "CN" or "MN", by the node ID
    thresholdCnt,         \* [Object -> Nat]
    cumulativeCnt,        \* [Object -> Nat]
    dllErrorEvents,       \* instance_l.dllErrorEvents: counted this cycle
    aMnCnLossPresEvent,   \* [Node -> {"none", "occurred", "threshold"}]
    isochronous,          \* external: the CNs in the isochronous phase (dllk)
    posted,               \* what the last step posted: <<event, about>>
    unheard,              \* history: tripped CNs whose entry found no room
    errors                \* bound counter: error events so far

counterVars == <<thresholdCnt, cumulativeCnt, dllErrorEvents,
                 aMnCnLossPresEvent>>
vars == <<role, counterVars, isochronous, posted, unheard, errors>>

(* The handlers run one after the other on the same instance, until one of *)
(* them fails.                                                             *)
Instance == [thr |-> thresholdCnt, cum |-> cumulativeCnt,
             events |-> dllErrorEvents, loss |-> aMnCnLossPresEvent,
             iso |-> isochronous, posted |-> {}, unheard |-> unheard,
             ok |-> TRUE]

SetCounters(s, o, cum, thr) ==
    [s EXCEPT !.cum[o] = cum, !.thr[o] = thr]

-----------------------------------------------------------------------------
(* The handlers count an error of object o alike: 8 up, and NmtCycleError  *)
(* at the threshold, after the history entry.  "into" is the object whose  *)
(* counters the handler writes, "entry" whether this error makes a history *)
(* entry, "full" whether that finds no room.                               *)
CountInto(s, o, into, entry, full) ==
    LET up   == s.thr[o] + 8
        trip == up >= Threshold[o]
        set  == SetCounters(s, into, s.cum[o] + 1,
                            IF Threshold[o] > 0 THEN up ELSE s.thr[o])
    IN IF Threshold[o] = 0 THEN set
       ELSE IF (trip \/ entry) /\ full THEN [set EXCEPT !.ok = FALSE]
       ELSE [set EXCEPT
               !.posted = IF trip THEN @ \cup {<<"NmtCycleError", o>>} ELSE @,
               !.events = @ \cup {o}]

(* handleCnLossSoc() does not look at the result of the history entry.     *)
handleCnLossSoc(s, err, full) ==
    IF "CnLossSoc" \in err
    THEN CountInto(s, "CnLossSoc", "CnLossSoc", FALSE, FALSE) ELSE s

(* A loss of PReq is not remembered for the end of the cycle: it is a good *)
(* PReq that takes the counter down.                                       *)
handleCnLossPreq(s, err, full) ==
    IF "CnLossPreq" \in err
    THEN [CountInto(s, "CnLossPreq", "CnLossPreq", FALSE, full)
            EXCEPT !.events = s.events]
    ELSE s

handleCorrectPreq(s, err) ==
    IF s.ok /\ "RecvdPreq" \in err /\ s.thr["CnLossPreq"] > 0
    THEN [s EXCEPT !.thr["CnLossPreq"] = @ - 1] ELSE s

(* The counters a CRC error is written to are those of the loss of PReq.   *)
(* No code of this repository reports CRC errors.                          *)
handleCnCrc(s, err, full) ==
    IF s.ok /\ "CnCrc" \in err
    THEN CountInto(s, "CnCrc", "CnLossPreq", FALSE, full) ELSE s

(* Mutant: the MN is told of the removal, the node stays.                  *)
OnlyAnnounce(s, n) ==
    [s EXCEPT !.posted = @ \cup {<<"Heartbeat", n>>}]

(* Mutant: the whole isochronous list is dropped.                          *)
RemoveAll(s, n) ==
    [s EXCEPT !.iso = {}, !.posted = @ \cup {<<"Heartbeat", n>>}]

RemoveNode(s, n) ==
    [s EXCEPT !.iso = @ \ {n}, !.posted = @ \cup {<<"Heartbeat", n>>}]

(* A frame of an invalid format makes a history entry, resets a CN and     *)
(* removes the sender from the isochronous phase of an MN.                 *)
handleInvalidFormat(s, err, node, full) ==
    LET entry == [s EXCEPT !.posted = @ \cup {<<"InvalidFormat", node>>}]
    IN IF ~ (s.ok /\ "InvalidFormat" \in err) THEN s
       ELSE IF full THEN [s EXCEPT !.ok = FALSE]
       ELSE IF role = "CN"
            THEN [entry EXCEPT !.posted = @ \cup {<<"InternComError", "none">>}]
       ELSE IF node \in Node THEN RemoveNode(entry, node) ELSE entry

handleMnCrc(s, err, full) ==
    IF s.ok /\ "MnCrc" \in err
    THEN CountInto(s, "MnCrc", "MnCrc", FALSE, full) ELSE s

(* Every exceeded cycle makes a history entry; if that one fails at the    *)
(* threshold, the two counters are stored in each other's place.           *)
handleMnCycTimeExceed(s, err, full) ==
    LET o == "MnCycTimeExceed"
        t == CountInto(s, o, o, TRUE, full)
    IN IF ~ (s.ok /\ o \in err) THEN s
       ELSE IF ~t.ok /\ t.thr[o] >= Threshold[o]
            THEN SetCounters(t, o, t.thr[o], t.cum[o])
       ELSE t

(* A lost PRes counts once per cycle and CN; at the threshold the CN is    *)
(* removed from the isochronous phase.                                     *)
handleMnCnLossPres(s, err, node, full) ==
    LET up  == s.thr[node] + 8
        set == SetCounters(s, node, s.cum[node] + 1,
                           IF Threshold[node] > 0 THEN up ELSE s.thr[node])
    IN IF ~ (s.ok /\ node \in Node /\ node \in err /\ s.loss[node] = "none") THEN s
       ELSE IF Threshold[node] = 0 THEN set
       ELSE IF up < Threshold[node]
            THEN [set EXCEPT !.loss[node] = "occurred"]
       ELSE IF full
            THEN [set EXCEPT !.loss[node] = "threshold", !.ok = FALSE,
                        !.unheard = @ \cup {node}]
       ELSE RemoveNode([set EXCEPT !.loss[node] = "threshold"], node)

handleDllErrors(err, node, full) ==
    LET s1 == handleCnLossSoc(Instance, err, full)
        s2 == handleCnLossPreq(s1, err, full)
        s3 == handleCorrectPreq(s2, err)
        s4 == handleCnCrc(s3, err, full)
        s5 == handleInvalidFormat(s4, err, node, full)
        s6 == handleMnCrc(s5, err, full)
        s7 == handleMnCycTimeExceed(s6, err, full)
    IN handleMnCnLossPres(s7, err, node, full)

-----------------------------------------------------------------------------
(* errhndk_process(): an error event may carry several errors, all about   *)
(* the same node.                                                          *)
errhndk_process ==
    LET Errors == IF role = "MN" THEN MnErrors ELSE CnErrors
        Nodes  == IF role = "MN" THEN Node \cup {"none"} ELSE {"none"} IN
    /\ errors < MaxErrors /\ errors' = errors + 1
    /\ \E err \in SUBSET Errors, node \in Nodes,
          full \in IF HistoryMayFail THEN BOOLEAN ELSE {FALSE} :
         /\ err # {} /\ err \cap Node \subseteq {node}
         /\ LET s == handleDllErrors(err, node, full)
            IN /\ thresholdCnt' = s.thr /\ cumulativeCnt' = s.cum
               /\ dllErrorEvents' = s.events
               /\ aMnCnLossPresEvent' = s.loss
               /\ isochronous' = s.iso
               /\ posted' = s.posted /\ unheard' = s.unheard
    /\ UNCHANGED role

(* Mutant: the check for 0 is missing.                                     *)
OneLessUnchecked(n) == n - 1

OneLess(n) == IF n > 0 THEN n - 1 ELSE 0

(* Mutant: a cycle with a loss of SoC takes the counter down as well.      *)
DecrementsRegardless ==
    LET soc == [thresholdCnt EXCEPT !["CnLossSoc"] = OneLess(@)]
    IN thresholdCnt' =
         IF "CnCrc" \notin dllErrorEvents /\ soc["CnCrc"] > 0
         THEN [soc EXCEPT !["CnLossSoc"] = soc["CnCrc"] - 1] ELSE soc

(* Two of the four branches store the count in another object: that of a   *)
(* CRC error in the loss of SoC, that of an exceeded cycle in the MN's CRC *)
(* error.  Each happens only when there is something to take off.          *)
decrementCnCounters ==
    LET soc == IF "CnLossSoc" \in dllErrorEvents THEN thresholdCnt
               ELSE [thresholdCnt EXCEPT !["CnLossSoc"] = OneLess(@)]
    IN thresholdCnt' =
         IF "CnCrc" \notin dllErrorEvents /\ soc["CnCrc"] > 0
         THEN [soc EXCEPT !["CnLossSoc"] = soc["CnCrc"] - 1] ELSE soc

decrementMnCounters ==
    LET crc == IF "MnCrc" \in dllErrorEvents THEN thresholdCnt
               ELSE [thresholdCnt EXCEPT !["MnCrc"] = OneLess(@)]
        cyc == IF "MnCycTimeExceed" \notin dllErrorEvents
                    /\ crc["MnCycTimeExceed"] > 0
               THEN [crc EXCEPT !["MnCrc"] = crc["MnCycTimeExceed"] - 1]
               ELSE crc
    IN /\ thresholdCnt' =
            [o \in Object |->
               IF o \in isochronous /\ aMnCnLossPresEvent[o] = "none"
               THEN OneLess(cyc[o]) ELSE cyc[o]]
       /\ aMnCnLossPresEvent' =
            [n \in Node |->
               IF n \in isochronous /\ aMnCnLossPresEvent[n] = "occurred"
               THEN "none" ELSE aMnCnLossPresEvent[n]]

(* errhndk_decrementCounters(), at the end of every cycle.                 *)
errhndk_decrementCounters ==
    /\ \/ role = "MN" /\ decrementMnCounters
       \/ role = "CN" /\ decrementCnCounters /\ UNCHANGED aMnCnLossPresEvent
    /\ dllErrorEvents' = {} /\ posted' = {}
    /\ UNCHANGED <<role, cumulativeCnt, isochronous, unheard, errors>>

(* dllknode_addNodeIsochronous() with errhndk_resetCnError(): the MN takes *)
(* a CN into the isochronous phase (again).                                *)
errhndk_resetCnError ==
    /\ role = "MN"
    /\ \E n \in Node \ isochronous :
         /\ isochronous' = isochronous \cup {n}
         /\ aMnCnLossPresEvent' = [aMnCnLossPresEvent EXCEPT ![n] = "none"]
         /\ unheard' = unheard \ {n}
    /\ posted' = {}
    /\ UNCHANGED <<role, thresholdCnt, cumulativeCnt, dllErrorEvents, errors>>

(* errhndu_cbObdAccess(): the application clears a cumulative counter.     *)
ClearCumulativeCnt ==
    /\ \E o \in Object :
          /\ cumulativeCnt[o] > 0
          /\ cumulativeCnt' = [cumulativeCnt EXCEPT ![o] = 0]
    /\ posted' = {}
    /\ UNCHANGED <<role, thresholdCnt, dllErrorEvents, aMnCnLossPresEvent,
                   isochronous, unheard, errors>>

-----------------------------------------------------------------------------
(* errhndk_init(), errhndkcal_init(): the shared memory is zeroed.         *)
Init ==
    /\ role \in {"CN", "MN"}
    /\ thresholdCnt = [o \in Object |-> 0]
    /\ cumulativeCnt = [o \in Object |-> 0]
    /\ dllErrorEvents = {}
    /\ aMnCnLossPresEvent = [n \in Node |-> "none"]
    /\ isochronous = IF role = "MN" THEN Node ELSE {}
    /\ posted = {} /\ unheard = {} /\ errors = 0

Next == \/ errhndk_process \/ errhndk_decrementCounters
        \/ errhndk_resetCnError \/ ClearCumulativeCnt

Spec == Init /\ [][Next]_vars

-----------------------------------------------------------------------------
(* Types: the objects of errhnd.h and the instance of errhndk.c.           *)
TypeOK ==
    /\ thresholdCnt \in [Object -> Nat] /\ cumulativeCnt \in [Object -> Nat]
    /\ dllErrorEvents \subseteq Object
    /\ aMnCnLossPresEvent \in [Node -> {"none", "occurred", "threshold"}]
    /\ role \in {"CN", "MN"}
    /\ isochronous \subseteq Node /\ unheard \subseteq Node
    /\ posted \subseteq {"NmtCycleError", "Heartbeat", "InternComError",
                         "InvalidFormat"} \X (Object \cup {"none"})
    /\ errors \in 0..MaxErrors

(* The loss of SoC of a CN is a leaky bucket: whatever the other errors    *)
(* do, the NMT state machine hears of it exactly when it is persistent     *)
(* (handleCnLossSoc(), decrementCnCounters()).                             *)
SocBucket == INSTANCE LeakyBucket WITH
    Threshold <- Threshold["CnLossSoc"],
    level <- thresholdCnt["CnLossSoc"],
    lost  <- "CnLossSoc" \in dllErrorEvents,
    alarm <- <<"NmtCycleError", "CnLossSoc">> \in posted

SocIsABucket == SocBucket!Spec

(* A CN that reached the threshold of lost PRes is out of the isochronous  *)
(* phase until it is added again (handleMnCnLossPres(): "If the threshold  *)
(* count is reached, the CN will be removed from the isochronous phase"),  *)
(* unless its history entry found no room.                                 *)
TrippedNodeIsRemoved ==
    \A n \in Node : aMnCnLossPresEvent[n] = "threshold" =>
                        n \notin isochronous \/ n \in unheard

(* The MN gives up a CN for lost PRes only at its threshold, or for a      *)
(* frame of its own with an invalid format (handleMnCnLossPres(),          *)
(* handleInvalidFormat()): the removal of one CN, or an error of another,  *)
(* never takes a second one along.                                         *)
RemovedForCause ==
    [][\A n \in isochronous \ isochronous' :
          \/ <<"InvalidFormat", n>> \in posted'
          \/ /\ aMnCnLossPresEvent[n] = "none"
             /\ thresholdCnt'[n] >= Threshold[n]]_vars

(* The end of a cycle takes threshold counters down, never up (errhndk.c:  *)
(* "The function decrements the error counters used by a MN node").        *)
CycleEndNeverRaises ==
    [][errors' = errors =>
         \A o \in Object : thresholdCnt'[o] <= thresholdCnt[o]]_vars
=============================================================================
