------------------------------- MODULE NmtMnu -------------------------------
(***************************************************************************)
(* The managing node boots its network: user/nmt/nmtmnu.c with the request *)
(* bookkeeping of identu.c and statusu.c, composed with what it drives,    *)
(* the request and command queues of the DLL, the isochronous phase, the   *)
(* MN's own NMT state machine and the CNs.                                 *)
(*                                                                         *)
(* All handlers of nmtmnu.c run in the thread of the user event queue, one *)
(* at a time; what they read and write is the record u.  A handler is an   *)
(* operator from u to u, composed as its calls are.  Timers, the DLL, the  *)
(* MN's state machine, the CNs and the application run beside it, and      *)
(* speak to it through the event queue, oldest event first.                *)
(*                                                                         *)
(* Left out: PRes chaining, the diagnostic node, commands asked for by the *)
(* user (requestNmtCommand), NMT command Stop, StartNode as a broadcast,   *)
(* wrong device types, the timeout of PreOp1, an application that stops    *)
(* the MN at a boot event, and full queues.                                *)
(***************************************************************************)
EXTENDS Integers, Sequences, FiniteSets, SequencesExt

CONSTANTS
    CN,        \* node ids
    Configs,   \* what the object dictionary may hold, and the application and
               \* the network be like; fields as below
    MaxFault,  \* bound: disturbances
    UIntMax    \* greatest UINT: above the number of nodes

\* cn, mandatory, asyncOnly: the bits of object 0x1F81; ready: whether
\* timeoutReadyToOp is not 0 (object 0x1F89); slow: CNs the application takes
\* its time to configure; kinds: what may disturb the boot.
Kinds == {"conf", "cycle", "cn cycle", "reset", "ident", "status", "command", "late", "slow"}
ASSUME ConfigAssumption ==
    /\ IsFiniteSet(CN)
    /\ Configs \subseteq [cn : SUBSET CN, mandatory : SUBSET CN, asyncOnly : SUBSET CN,
                          ready : BOOLEAN, slow : SUBSET CN, kinds : SUBSET Kinds]
    /\ \A c \in Configs : c.mandatory \subseteq c.cn
ASSUME BoundAssumption ==
    MaxFault \in Nat /\ UIntMax \in Nat /\ Cardinality(CN) < UIntMax

VARIABLES
    od,      \* the configuration
    u,       \* state of the user part, and the queues it fills and empties
    mnk,     \* NMT state of the MN
    cn,      \* cn[n]: NMT state of CN n; "Enabled": EnableReadyToOperate came
    fell,    \* nodes that were configured, or further, and lost or identified
             \* anew since the MN entered PreOp1
    faults   \* disturbances so far

vars == <<od, u, mnk, cn, fell, faults>>

NodeStates == {"Unknown", "Identified", "ResetConf", "ConfRestored", "Configured",
               "ReadyToOp", "ComChecked", "Operational"}
NmtStates  == {"NotActive", "PreOp1", "PreOp2", "ReadyToOp", "Operational"}
Timers     == {"IdentReq", "StatReq", "StateMon"}
Commands   == {"ResetNode", "ResetConfiguration", "EnableReadyToOperate", "StartNode"}
Started    == {"Configured", "ReadyToOp", "ComChecked", "Operational"}

FullCycle(s) == s \in {"PreOp2", "ReadyToOp", "Operational"}

\* tNmtMnuNodeInfo with objects 0x1F8F (exp) and 0x1F8E (cur), the latter only
\* for async-only nodes, where it is read back.  sr and longer are the two
\* timers; their expirations wait in the sequence expired of u.
NodeInfo == [st |-> "Unknown", exp |-> "NotActive", cur |-> "NotActive",
             isochron |-> FALSE, notScanned |-> FALSE, cmdIssued |-> FALSE, preOp2 |-> FALSE,
             sr |-> "none", longer |-> FALSE,
             identCb |-> FALSE, statusCb |-> FALSE, asked |-> "none"]

UserInit == [mn |-> "NotActive", mandatory |-> 0, signal |-> 0, informed |-> FALSE,
             node |-> [n \in CN |-> NodeInfo],
             identReq |-> <<>>, statusReq |-> <<>>, cmds |-> <<>>, turn |-> "cmd",
             iso |-> {}, pres |-> [n \in CN |-> "NotActive"],
             queue |-> <<>>, expired |-> <<>>, nmtEv |-> <<>>]

-----------------------------------------------------------------------------
(* What the handlers are built from *)

Decrement(c) == IF c = 0 THEN UIntMax ELSE c - 1

ScannedKeepsFlag(w, n) ==
    IF w.node[n].notScanned THEN [w EXCEPT !.signal = Decrement(@)] ELSE w
Scanned(w, n) ==
    IF w.node[n].notScanned
    THEN [w EXCEPT !.node[n].notScanned = FALSE, !.signal = Decrement(@)]
    ELSE w

OneMandatoryLess(w, n) ==
    IF n \in od.mandatory THEN [w EXCEPT !.mandatory = Decrement(@)] ELSE w

\* A timer that is started anew counts up, so that an expiration still in the
\* queue is known to be old.  Two bits: a fourth restart before that one is
\* handled is left out.
Outdated(q, nodes, kinds) ==
    [i \in DOMAIN q |-> IF q[i].n \in nodes /\ q[i].kind \in kinds
                        THEN [q[i] EXCEPT !.old = TRUE] ELSE q[i]]
Start(w, nodes, kind) ==
    [w EXCEPT !.node    = [n \in CN |-> [w.node[n] EXCEPT !.sr = IF n \in nodes THEN kind ELSE @]],
              !.expired = Outdated(@, nodes, Timers)]
StartTimer(w, n, kind) == Start(w, {n}, kind)
StartLonger(w, nodes) ==
    [w EXCEPT !.node    = [n \in CN |-> [w.node[n] EXCEPT !.longer = @ \/ n \in nodes]],
              !.expired = Outdated(@, nodes, {"Longer"})]

requestIdentResponse(w, n) ==
    IF w.node[n].identCb THEN w
    ELSE [w EXCEPT !.node[n].identCb = TRUE, !.identReq = Append(@, n)]
requestStatusResponse(w, n) ==
    IF w.node[n].statusCb THEN w
    ELSE [w EXCEPT !.node[n].statusCb = TRUE, !.statusReq = Append(@, n)]

\* A reset takes its nodes out of the isochronous phase before it is sent.
sendNmtCommand(w, to, cmd) ==
    [w EXCEPT !.cmds = Append(@, [cmd |-> cmd, to |-> to]),
              !.iso  = IF cmd \in {"ResetNode", "ResetConfiguration"} THEN @ \ to ELSE @]

\* The kernel answers with an event unless the node is in the phase already.
addNodeIsochronous(w, n) ==
    IF n \in w.iso THEN w
    ELSE [w EXCEPT !.iso = @ \union {n}, !.pres[n] = "NotActive",
                   !.queue = Append(@, [t |-> "added", n |-> n])]

nodeBootStep2(w, n) ==
    LET go == IF n \in od.asyncOnly THEN w.node[n].cur = "PreOp2" ELSE w.node[n].isochron
        sent == sendNmtCommand(w, {n}, "EnableReadyToOperate")
    IN  IF ~go THEN w
        ELSE IF od.ready THEN StartLonger(sent, {n}) ELSE sent

MustWait(n) == n \notin od.asyncOnly
nodeCheckCom(w, nodes) ==
    LET wait == {n \in nodes : MustWait(n)}
        Sure(n) == IF n \in nodes \ wait THEN [w.node[n] EXCEPT !.st = "ComChecked"] ELSE w.node[n]
    IN  StartLonger([w EXCEPT !.node = [n \in CN |-> Sure(n)]], wait)

\* The CN is in PreOp2 for the first time since it was identified.
PreOp2Reached(w, n) ==
    LET x == [w EXCEPT !.node[n].preOp2 = TRUE]
    IN  IF n \notin od.asyncOnly THEN addNodeIsochronous(x, n)
        ELSE IF x.node[n].st = "Configured" /\ FullCycle(x.mn) THEN nodeBootStep2(x, n)
        ELSE x

\* The CN is ready.  Its timer is deleted, an expiration in the queue is not.
ReadyReached(w, n) ==
    LET ready   == OneMandatoryLess([w EXCEPT !.node[n].longer = FALSE,
                                              !.node[n].st     = "ReadyToOp",
                                              !.node[n].exp    = "ReadyToOp"], n)
        checked == nodeCheckCom(ready, {n})
    IN  IF w.mn \notin {"ReadyToOp", "Operational"} THEN ready
        ELSE IF w.mn = "Operational" /\ checked.node[n].st = "ComChecked"
        THEN sendNmtCommand(checked, {n}, "StartNode")
        ELSE checked

LostNode(w, n) ==
    LET x == Scanned(w, n)
    IN  sendNmtCommand([x EXCEPT !.node[n].st = "Unknown"], {n}, "ResetNode")

Tolerated(nd, err) == err = "none" /\ nd.cmdIssued

\* Compares the state s of CN n with the expected one.  ok is FALSE if the
\* caller shall not go on (kErrorReject).
Updated(w, n, s, ok) ==
    [w |-> IF n \in od.asyncOnly THEN [w EXCEPT !.node[n].cur = s] ELSE w, ok |-> ok]
checkNmtState(w, n, s, err) ==
    LET nd == w.node[n] IN
    IF nd.st = "Unknown" \/ nd.exp = "NotActive" THEN Updated(w, n, s, FALSE)
    ELSE CASE nd.exp = "PreOp2" /\ s = "PreOp2" ->
                Updated(IF nd.preOp2 THEN w ELSE PreOp2Reached(w, n), n, s, TRUE)
           [] nd.exp = "PreOp2" /\ s = "ReadyToOp" ->
                Updated(ReadyReached(w, n), n, s,
                        w.mn \notin {"ReadyToOp", "Operational"} \/ ~MustWait(n))
           [] nd.st = "ComChecked" /\ s = "Operational" ->
                Updated(OneMandatoryLess([w EXCEPT !.node[n].st = "Operational"], n), n, s, TRUE)
           [] OTHER ->
                IF nd.exp = s THEN Updated(w, n, s, TRUE)
                ELSE IF Tolerated(nd, err) THEN [w |-> w, ok |-> TRUE]
                ELSE Updated(LostNode(w, n), n, s, FALSE)

\* Step by step up: what processInternalEvent() does after a handler.
BootEvent == [PreOp1 |-> <<"AllMandatoryCNIdent">>, PreOp2 |-> <<"EnterReadyToOperate">>,
              ReadyToOp |-> <<"EnterMsOperational">>, Operational |-> <<>>]
InformRegardless(w) ==
    IF w.informed \/ w.signal # 0 THEN w
    ELSE [w EXCEPT !.informed = TRUE, !.nmtEv = @ \o BootEvent[w.mn]]
InformApplication(w) ==
    IF w.informed \/ w.signal # 0 \/ w.mandatory # 0 THEN w
    ELSE [w EXCEPT !.informed = TRUE, !.nmtEv = @ \o BootEvent[w.mn]]

-----------------------------------------------------------------------------
(* The handlers of node events.  stop is where the application interrupts  *)
(* the boot of the node: "found", "conf" or nowhere.                       *)

EventConfigured(w, n) ==
    LET x == [w EXCEPT !.node[n].st = "Configured"]
    IN  IF w.node[n].st \notin {"Identified", "ConfRestored", "ResetConf"} THEN w
        ELSE IF w.mn = "PreOp1" THEN OneMandatoryLess(x, n)
        ELSE nodeBootStep2(x, n)

EventBoot(w, n, stop) ==
    IF w.node[n].st \in {"Identified", "ConfRestored"} /\ stop = "conf"
    THEN [w EXCEPT !.node[n].asked = "conf"]
    ELSE EventConfigured(w, n)

\* An IdentResponse: what is expected of the CN, and how its boot goes on after
\* the result c of checkNmtState().
ResetDone(w, n) == w.node[n].st \in {"ResetConf", "ConfRestored"}
Identified(w, n) ==
    [w EXCEPT !.node[n].st = IF ResetDone(w, n) THEN @ ELSE "Identified",
              !.node[n].isochron = FALSE, !.node[n].cmdIssued = FALSE, !.node[n].preOp2 = FALSE,
              !.node[n].exp = IF w.mn = "PreOp1" THEN "PreOp1" ELSE "PreOp2"]
Expected(w, n, s) ==
    LET x == Identified(w, n)
    IN  IF w.mn = "PreOp1" THEN Scanned(x, n)
        ELSE IF s = "PreOp1" THEN StartTimer([x EXCEPT !.node[n].cmdIssued = TRUE], n, "StateMon")
        ELSE x
IdentChecked(c, n, again, stop) ==
    LET next == IF c.w.node[n].cmdIssued THEN c.w ELSE requestStatusResponse(c.w, n)
    IN  IF ~c.ok THEN c.w
        ELSE IF ~again /\ stop = "found" THEN [next EXCEPT !.node[n].asked = "boot"]
        ELSE EventBoot(next, n, stop)
EventIdentResponse(w, n, s, stop) ==
    IdentChecked(checkNmtState(Expected(w, n, s), n, s, "none"), n, ResetDone(w, n), stop)

NoIdentResponseGivesUp(w, n) ==
    IF w.mn = "PreOp1" THEN requestIdentResponse(Scanned(w, n), n) ELSE w
EventNoIdentResponse(w, n) ==
    LET scn == IF w.mn = "PreOp1" THEN Scanned(w, n) ELSE w
        unk == IF ResetDone(w, n) THEN scn
               ELSE [scn EXCEPT !.node[n].st = "Unknown"]
        c   == checkNmtState(unk, n, "NotActive", "no ident")
    IN  IF w.mn = "PreOp1" THEN requestIdentResponse(c.w, n)
        ELSE StartTimer(c.w, n, "IdentReq")

EventStatusResponse(w, n, s) ==
    LET c == checkNmtState(IF FullCycle(w.mn) THEN Scanned(w, n) ELSE w, n, s, "none")
    IN  IF ~c.ok THEN c.w
        ELSE IF w.mn = "PreOp1" THEN requestStatusResponse(c.w, n)
        ELSE IF c.w.node[n].isochron THEN c.w
        ELSE StartTimer(c.w, n, "StatReq")

EventHeartbeat(w, n, s, err) == checkNmtState(w, n, s, err).w
EventNoStatusResponse(w, n) == checkNmtState(w, n, "NotActive", "no status").w

EventError(w, n) ==
    IF w.node[n].st \notin {"Identified", "ConfRestored"} THEN w
    ELSE checkNmtState(w, n, "NotActive", "conf").w

EventExecResetNode(w, n) ==
    IF w.node[n].st # "Identified" THEN w
    ELSE sendNmtCommand([w EXCEPT !.node[n].st = "ConfRestored"], {n}, "ResetNode")

EventExecResetConf(w, n) ==
    IF w.node[n].st \notin {"Identified", "ConfRestored"} THEN w
    ELSE sendNmtCommand([w EXCEPT !.node[n].st = "ResetConf"], {n}, "ResetConfiguration")

EventTimer(w, n, kind) ==
    CASE kind = "IdentReq" -> requestIdentResponse(w, n)
      [] kind = "StatReq"  -> requestStatusResponse(w, n)
      [] kind = "StateMon" -> requestStatusResponse([w EXCEPT !.node[n].cmdIssued = FALSE], n)

CheckedMeansStart(w, n) ==
    IF w.node[n].st # "ReadyToOp" THEN w
    ELSE sendNmtCommand(OneMandatoryLess(Scanned([w EXCEPT !.node[n].st = "ComChecked"], n), n),
                        {n}, "StartNode")
EventTimerLonger(w, n) ==
    LET checked == OneMandatoryLess(Scanned([w EXCEPT !.node[n].st = "ComChecked"], n), n)
    IN  CASE w.node[n].st = "Configured" -> checkNmtState(w, n, "NotActive", "BPO2").w
          [] w.node[n].st = "ReadyToOp" ->
               IF w.mn = "ReadyToOp" THEN checked ELSE sendNmtCommand(checked, {n}, "StartNode")
          [] OTHER -> w

\* The command was sent: from now on the CN is expected to follow it.
AfterCommand(nd, cmd) ==
    CASE cmd \in {"ResetNode", "ResetConfiguration"} -> [nd EXCEPT !.exp = "NotActive"]
      [] cmd = "StartNode" -> [nd EXCEPT !.exp = "Operational", !.cmdIssued = TRUE]
      [] cmd = "EnableReadyToOperate" -> [nd EXCEPT !.exp = "PreOp2", !.cmdIssued = TRUE]
EventNmtCmdSent(w, to, cmd) ==
    LET x == [w EXCEPT !.node = [n \in CN |-> IF n \in to THEN AfterCommand(w.node[n], cmd) ELSE w.node[n]]]
    IN  CASE cmd \in {"ResetNode", "ResetConfiguration"} -> Start(x, to, "IdentReq")
          [] cmd = "StartNode" -> Start(x, to, "StateMon")
          [] cmd = "EnableReadyToOperate" ->
               Start(x, {n \in to : w.node[n].exp # "PreOp2"}, "StateMon")

cbNodeAdded(w, n) ==
    LET x == [w EXCEPT !.node[n].isochron = TRUE]
    IN  IF x.node[n].st = "Configured" /\ FullCycle(w.mn) THEN nodeBootStep2(x, n) ELSE x

-----------------------------------------------------------------------------
(* The MN enters a state *)

Count(w, nodes) == [w EXCEPT !.signal = Cardinality(nodes),
                             !.mandatory = Cardinality(nodes \intersect od.mandatory)]
Mark(w, nodes) ==
    [w EXCEPT !.node = [n \in CN |-> [w.node[n] EXCEPT !.notScanned = @ \/ n \in nodes]]]
NotInformed(w) == [w EXCEPT !.informed = FALSE]
NodesIn(w, st) == {n \in od.cn : w.node[n].st = st}

\* identu_reset(), statusu_reset() and reset() forget what is under way except
\* for expirations in the queue; the DLL forgets requests, not commands.
startBootStep1(nd) ==
    [nd EXCEPT !.st = "Unknown", !.isochron = FALSE, !.identCb = FALSE, !.statusCb = FALSE,
               !.sr = "none", !.longer = FALSE]
doPreop1(w) ==
    LET Cleared(n) == IF n \in od.cn THEN startBootStep1(w.node[n]) ELSE w.node[n]
        x == [w EXCEPT !.identReq = <<>>, !.statusReq = <<>>, !.turn = "cmd", !.iso = {},
                       !.node = [n \in CN |-> Cleared(n)]]
        reset == sendNmtCommand(x, od.cn, "ResetNode")
    IN  NotInformed(Count(Mark(reset, od.cn), od.cn))

startBootStep2(w) ==
    LET known == {n \in CN : w.node[n].exp = "PreOp1"}
        ready == NodesIn(w, "Configured") \intersect known
        To2(nd) == [nd EXCEPT !.exp = "PreOp2", !.cmdIssued = TRUE]
        x == [w EXCEPT !.node = [n \in CN |-> IF n \in known THEN To2(w.node[n]) ELSE w.node[n]]]
    IN  NotInformed(Count(Mark(Start(x, known, "StateMon"), ready), ready))

startCheckCom(w) ==
    LET ready == NodesIn(w, "ReadyToOp")
        wait  == {n \in ready : MustWait(n)}
        counted == Count(Mark(nodeCheckCom(w, ready), ready), ready)
    IN  NotInformed([counted EXCEPT !.mandatory = Cardinality(wait \intersect od.mandatory)])

startNodes(w) ==
    LET ready == NodesIn(w, "ComChecked")
        order == SetToSeq(ready)
        orders == [i \in DOMAIN order |-> [cmd |-> "StartNode", to |-> {order[i]}]]
    IN  NotInformed(Count(Mark([w EXCEPT !.cmds = @ \o orders], ready), ready))

cbNmtStateChange(w, s) ==
    LET x == [w EXCEPT !.mn = s]
    IN  CASE s = "PreOp1" -> doPreop1(x)
          [] s = "PreOp2" -> startBootStep2(x)
          [] s = "ReadyToOp" -> startCheckCom(x)
          [] s = "Operational" -> startNodes(x)

\* An answer nobody waits for is dropped; the callback is cleared first.
cbIdentResponse(w, n, s, stop) ==
    LET x == [w EXCEPT !.node[n].identCb = FALSE]
    IN  IF ~w.node[n].identCb THEN w
        ELSE InformApplication(IF s = "NotActive" THEN EventNoIdentResponse(x, n)
                               ELSE EventIdentResponse(x, n, s, stop))
StatusStaysRequested(w, n, s) ==
    IF ~w.node[n].statusCb THEN w
    ELSE InformApplication(IF s = "NotActive" THEN EventNoStatusResponse(w, n)
                           ELSE EventStatusResponse(w, n, s))
cbStatusResponse(w, n, s) ==
    LET x == [w EXCEPT !.node[n].statusCb = FALSE]
    IN  IF ~w.node[n].statusCb THEN w
        ELSE InformApplication(IF s = "NotActive" THEN EventNoStatusResponse(x, n)
                               ELSE EventStatusResponse(x, n, s))

processEvent(w, e, stop) ==
    CASE e.t = "mn"     -> cbNmtStateChange(w, e.s)
      [] e.t = "ident"  -> cbIdentResponse(w, e.n, e.s, stop)
      [] e.t = "status" -> cbStatusResponse(w, e.n, e.s)
      [] e.t = "hb"     -> InformApplication(EventHeartbeat(w, e.n, e.s, e.err))
      [] e.t = "sent"   -> EventNmtCmdSent(w, e.to, e.cmd)
      [] e.t = "added"  -> cbNodeAdded(w, e.n)

NodeCommand(w, n, c) ==
    CASE c = "Boot"         -> EventBoot(w, n, "none")
      [] c = "ConfOk"       -> EventConfigured(w, n)
      [] c = "ConfErr"      -> EventError(w, n)
      [] c = "ConfRestored" -> EventExecResetNode(w, n)
      [] c = "ConfReset"    -> EventExecResetConf(w, n)

-----------------------------------------------------------------------------
(* Steps of the user thread *)

Demoted == {n \in od.cn : /\ u.node[n].st \in Started
                       /\ \/ u'.node[n].st \notin Started
                          \/ u.node[n].identCb /\ ~u'.node[n].identCb}
Keeps == /\ fell' = IF u'.mn = "PreOp1" /\ u.mn # "PreOp1" THEN {} ELSE fell \union Demoted
         /\ UNCHANGED <<od, mnk, cn>>

Disturbed(kind) ==
    kind \in od.kinds /\ Len(faults) < MaxFault /\ faults' = Append(faults, kind)
Undisturbed == UNCHANGED faults

Stops(e) == IF e.t = "ident" /\ e.n \in od.slow THEN {"none", "found", "conf"} ELSE {"none"}

HandleEvent ==
    /\ u.queue # <<>>
    /\ \E stop \in Stops(Head(u.queue)) :
         u' = processEvent([u EXCEPT !.queue = Tail(@)], Head(u.queue), stop)
    /\ Keeps /\ Undisturbed

\* Expirations come by a queue of their own, which has to wait for the other.
HandleTimer ==
    /\ u.queue = <<>> /\ u.expired # <<>>
    /\ LET e == Head(u.expired)
           w == [u EXCEPT !.expired = Tail(@)]
       IN  u' = CASE e.old -> w
                  [] ~e.old /\ e.kind = "Longer" -> InformApplication(EventTimerLonger(w, e.n))
                  [] OTHER -> InformApplication(EventTimer(w, e.n, e.kind))
    /\ Keeps /\ Undisturbed

\* The application answers by the queue of the expirations.
Answered(n, c) ==
    /\ u.queue = <<>>
    /\ u' = InformApplication(NodeCommand([u EXCEPT !.node[n].asked = "none"], n, c))
    /\ Keeps
AppGoesOn(n) == \/ u.node[n].asked = "boot" /\ Answered(n, "Boot") /\ Undisturbed
                \/ u.node[n].asked = "conf" /\ Answered(n, "ConfOk") /\ Undisturbed
AppRefuses(n) == /\ u.node[n].asked = "conf"
                 /\ \E c \in {"ConfErr", "ConfRestored", "ConfReset"} : Answered(n, c)
                 /\ Disturbed("conf")

-----------------------------------------------------------------------------
(* Timers, DLL, the MN's state machine, the CNs *)

Reported(n) == CASE cn[n] = "Off" -> "NotActive"
                 [] cn[n] = "Enabled" -> "PreOp2"
                 [] OTHER -> cn[n]

\* The timer takes some cycles (statusRequestDelay), in which waiting commands
\* are sent and a CN follows the MN; that it does not is a disturbance.
Concerns(e, n) == CASE e.t = "mn" -> TRUE
                    [] e.t = "sent" -> n \in e.to
                    [] e.t = "ident" -> e.n = n /\ e.s # "NotActive"
                    [] OTHER -> e.n = n
Pending(n) == \/ \E c \in ToSet(u.cmds) : n \in c.to
              \/ \E e \in ToSet(u.queue) : Concerns(e, n)
Follows(n) == IF FullCycle(mnk) THEN cn[n] # "PreOp1" ELSE ~FullCycle(Reported(n))
Settled(n) == ~Pending(n) /\ Follows(n)
Expired(n, kinds) == \E e \in ToSet(u.expired) : e.n = n /\ e.kind \in kinds
Expiration(n, kind) == Append(u.expired, [n |-> n, kind |-> kind, old |-> FALSE])
TimerExpires(n) ==
    /\ u.node[n].sr # "none" /\ ~Expired(n, Timers)
    /\ u' = [u EXCEPT !.node[n].sr = "none", !.expired = Expiration(n, u.node[n].sr)]
    /\ UNCHANGED <<od, mnk, cn, fell>>
InTime(n) == Settled(n) /\ TimerExpires(n) /\ Undisturbed

\* The timeout of a node that has been told to get ready and is late.
LateNode(n) == /\ u.node[n].st # "ReadyToOp"
               /\ \/ Pending(n)
                  \/ cn[n] = "Enabled"
                  \/ n \in u.iso /\ Reported(n) # u.pres[n]
                  \/ n \in od.asyncOnly /\ cn[n] = "ReadyToOp"
TimerLongerExpires(n) ==
    /\ u.node[n].longer /\ ~Expired(n, {"Longer"})
    /\ u' = [u EXCEPT !.node[n].longer = FALSE, !.expired = Expiration(n, "Longer")]
    /\ UNCHANGED <<od, mnk, cn, fell>>

OnTime(n) == ~LateNode(n) /\ TimerLongerExpires(n) /\ Undisturbed

\* Commands, ident and status requests take turns in the asynchronous phase.
Following == [cmd |-> "ident", ident |-> "status", status |-> "cmd"]
Waiting(k) == CASE k = "cmd" -> u.cmds [] k = "ident" -> u.identReq [] k = "status" -> u.statusReq
getSoaRequest(k) ==
    /\ Waiting(k) # <<>>
    /\ \/ k = u.turn
       \/ Waiting(u.turn) = <<>> /\ k = Following[u.turn]
       \/ Waiting(u.turn) = <<>> /\ Waiting(Following[u.turn]) = <<>>

Answer(k, n, heard) ==
    Append(u.queue, [t |-> k, n |-> n, s |-> IF heard THEN Reported(n) ELSE "NotActive"])
IdentAnswer(heard) ==
    /\ getSoaRequest("ident")
    /\ u' = [u EXCEPT !.identReq = Tail(@), !.turn = Following["ident"],
                      !.queue = Answer("ident", Head(u.identReq), heard)]
    /\ UNCHANGED <<od, mnk, cn, fell>>
StatusAnswer(heard) ==
    /\ getSoaRequest("status")
    /\ u' = [u EXCEPT !.statusReq = Tail(@), !.turn = Following["status"],
                      !.queue = Answer("status", Head(u.statusReq), heard)]
    /\ UNCHANGED <<od, mnk, cn, fell>>

\* What a CN does with a command.
Obeys(s, cmd) ==
    CASE cmd \in {"ResetNode", "ResetConfiguration"} -> "Off"
      [] cmd = "EnableReadyToOperate" /\ s = "PreOp2" -> "Enabled"
      [] cmd = "StartNode" /\ s = "ReadyToOp" -> "Operational"
      [] OTHER -> s
CommandSent(missed) ==
    /\ getSoaRequest("cmd")
    /\ LET c == Head(u.cmds) IN
         /\ cn' = [n \in CN |-> IF n \in c.to \ missed THEN Obeys(cn[n], c.cmd) ELSE cn[n]]
         /\ u' = [u EXCEPT !.cmds = Tail(@), !.turn = Following["cmd"],
                           !.queue = Append(@, [t |-> "sent", to |-> c.to, cmd |-> c.cmd])]
    /\ UNCHANGED <<od, mnk, fell>>

AsyncPhase == (IdentAnswer(TRUE) \/ StatusAnswer(TRUE) \/ CommandSent({})) /\ Undisturbed

Heartbeat(n, s, err) == Append(u.queue, [t |-> "hb", n |-> n, s |-> s, err |-> err])
\* A CN in the isochronous phase is heard when its state changes and missed
\* when it is silent for too long, which ends its stay there.
PRes(n) ==
    /\ n \in u.iso /\ FullCycle(mnk) /\ FullCycle(Reported(n)) /\ Reported(n) # u.pres[n]
    /\ u' = [u EXCEPT !.pres[n] = Reported(n),
                      !.queue = Heartbeat(n, Reported(n), "none")]
    /\ UNCHANGED <<od, mnk, cn, fell, faults>>
Missed(n) == n \in u.iso /\ FullCycle(mnk) /\ ~FullCycle(Reported(n))
LossOfPRes(n) ==
    /\ Missed(n)
    /\ u' = [u EXCEPT !.iso = @ \ {n},
                      !.queue = Heartbeat(n, "NotActive", "loss of PRes")]
    /\ UNCHANGED <<od, mnk, cn, fell, faults>>

MnEnters(w, s) == /\ mnk' = s
                  /\ u' = [w EXCEPT !.queue = Append(@, [t |-> "mn", s |-> s])]
                  /\ UNCHANGED <<od, cn, fell>>
MnStarts == mnk = "NotActive" /\ MnEnters(u, "PreOp1") /\ Undisturbed
MnCycleError == FullCycle(mnk) /\ MnEnters(u, "PreOp1") /\ Disturbed("cycle")

MnGoesOn ==
    /\ u.nmtEv # <<>>
    /\ LET w == [u EXCEPT !.nmtEv = Tail(@)]
           e == Head(u.nmtEv)
       IN  CASE mnk = "PreOp1" /\ e = "AllMandatoryCNIdent" -> MnEnters(w, "PreOp2")
             [] mnk = "PreOp2" /\ e = "EnterReadyToOperate" -> MnEnters(w, "ReadyToOp")
             [] mnk = "ReadyToOp" /\ e = "EnterMsOperational" -> MnEnters(w, "Operational")
             [] OTHER -> u' = w /\ UNCHANGED <<od, mnk, cn, fell>>
    /\ Undisturbed

\* It stays in a state for a cycle at least, and a reset takes it so long that
\* its silence is noticed and what it said before is dealt with.
Heard(n) == n \in u.iso /\ FullCycle(mnk) /\ FullCycle(Reported(n)) => u.pres[n] = Reported(n)
CnEnters(n, s) == Heard(n) /\ cn' = [cn EXCEPT ![n] = s] /\ UNCHANGED <<od, u, mnk, fell>>
Boots(n) == cn[n] = "Off" /\ mnk # "NotActive" /\ CnEnters(n, "PreOp1")
LongReset(n) == ~Missed(n) /\ ~Pending(n)
CnGoesOn(n) ==
    /\ \/ LongReset(n) /\ Boots(n)
       \/ cn[n] = "PreOp1" /\ FullCycle(mnk) /\ CnEnters(n, "PreOp2")
       \/ cn[n] = "Enabled" /\ CnEnters(n, "ReadyToOp")
       \/ FullCycle(Reported(n)) /\ ~FullCycle(mnk) /\ CnEnters(n, "PreOp1")
    /\ Undisturbed
CnFails(n) == /\ cn[n] # "Off"
              /\ \/ CnEnters(n, "Off") /\ Disturbed("reset")
                 \/ FullCycle(Reported(n)) /\ CnEnters(n, "PreOp1") /\ Disturbed("cn cycle")

-----------------------------------------------------------------------------
Init ==
    /\ od \in Configs
    /\ u = UserInit /\ mnk = "NotActive" /\ cn = [n \in CN |-> "Off"]
    /\ fell = {} /\ faults = <<>>

Node(n) ==
    \/ AppGoesOn(n) \/ AppRefuses(n)
    \/ InTime(n)
    \/ ~Settled(n) /\ TimerExpires(n) /\ Disturbed("slow")
    \/ OnTime(n)
    \/ ~LongReset(n) /\ Boots(n) /\ Disturbed("slow")
    \/ LateNode(n) /\ TimerLongerExpires(n) /\ Disturbed("late")
    \/ PRes(n) \/ LossOfPRes(n) \/ CnGoesOn(n) \/ CnFails(n)

Next ==
    \/ HandleEvent \/ HandleTimer
    \/ AsyncPhase
    \/ IdentAnswer(FALSE) /\ Disturbed("ident")
    \/ StatusAnswer(FALSE) /\ Disturbed("status")
    \/ \E n \in od.cn : CommandSent({n}) /\ Disturbed("command")
    \/ MnStarts \/ MnCycleError \/ MnGoesOn
    \/ \E n \in od.cn : Node(n)

Spec == Init /\ [][Next]_vars

-----------------------------------------------------------------------------
(* Fairness: the event threads run, timers expire, and so on *)
FairSpec ==
    /\ Spec
    /\ WF_vars(HandleEvent) /\ SF_vars(HandleTimer)
    /\ WF_vars(AsyncPhase) /\ WF_vars(MnStarts) /\ WF_vars(MnGoesOn)
    /\ \A n \in CN :
         /\ WF_vars(n \in od.cn /\ AppGoesOn(n))
         /\ WF_vars(n \in od.cn /\ InTime(n)) /\ WF_vars(n \in od.cn /\ OnTime(n))
         /\ WF_vars(n \in od.cn /\ PRes(n)) /\ WF_vars(n \in od.cn /\ LossOfPRes(n))
         /\ WF_vars(n \in od.cn /\ CnGoesOn(n))

-----------------------------------------------------------------------------
(* Properties *)

Events == [t : {"mn"}, s : NmtStates \ {"NotActive"}]
     \union [t : {"ident", "status"}, n : CN, s : NmtStates]
     \union [t : {"hb"}, n : CN, s : NmtStates, err : {"none", "loss of PRes"}]
     \union [t : {"sent"}, to : SUBSET CN, cmd : Commands]
     \union [t : {"added"}, n : CN]

Nodes == [st : NodeStates, exp : NmtStates, cur : NmtStates, isochron : BOOLEAN,
          notScanned : BOOLEAN, cmdIssued : BOOLEAN, preOp2 : BOOLEAN,
          sr : Timers \union {"none"}, longer : BOOLEAN,
          identCb : BOOLEAN, statusCb : BOOLEAN, asked : {"none", "boot", "conf"}]
Orders == [cmd : Commands, to : SUBSET CN]
Expirations == [n : CN, kind : Timers \union {"Longer"}, old : BOOLEAN]
BootEvents == {"AllMandatoryCNIdent", "EnterReadyToOperate", "EnterMsOperational"}
User == [mn : NmtStates, mandatory : 0..UIntMax, signal : 0..UIntMax, informed : BOOLEAN,
         node : [CN -> Nodes], identReq : Seq(CN), statusReq : Seq(CN), cmds : Seq(Orders),
         turn : DOMAIN Following, iso : SUBSET CN, pres : [CN -> NmtStates],
         queue : Seq(Events), expired : Seq(Expirations), nmtEv : Seq(BootEvents)]

\* The types of the variables.  That signal does not exceed the number of CNs
\* says that it is not decremented below zero (nmtmnu.c, tNmtMnuInstance).
TypeOK ==
    /\ od \in Configs /\ mnk \in NmtStates
    /\ cn \in [CN -> NmtStates \union {"Off", "Enabled"}]
    /\ fell \subseteq CN /\ faults \in Seq(Kinds) /\ Len(faults) <= MaxFault
    /\ u \in User /\ u.signal <= Cardinality(CN)

\* signalSlaveCount is the number of nodes whose flag NOT_SCANNED is set,
\* whatever handler comes first: each node is counted down once and only once
\* (and the types hold).
ScanCountIsExact == TypeOK /\ u.signal = Cardinality({n \in CN : u.node[n].notScanned})

\* Once the MN boots its network there is always something that will make it
\* look at a node again: a request under way, a timer or its expiration in the
\* queue, a command to be sent, an event about the node, an answer of the
\* application, or its PRes, whose loss is reported.  That much is so after one
\* disturbance, whichever and whenever it is.  After two it is not: a command of
\* the boot before a cycle error waits in the DLL and is sent in the next one,
\* and its event sets the state expected of the node and its timer anew
\* (nmtmnu.c:2938-3002); and a CN that missed a command and is identified anew
\* can be taken for one that has made it, and is asked no more.
Due(n, kinds) == \E e \in ToSet(u.expired) : e.n = n /\ ~e.old /\ e.kind \in kinds
Coming(n) == \E e \in ToSet(u.queue) :
    \/ e.t = "sent" /\ n \in e.to
    \/ e.t \in {"added", "hb"} /\ e.n = n
    \/ e.t = "mn" /\ e.s = "PreOp1"
Watched(n) ==
    LET nd == u.node[n] IN
    \/ nd.identCb \/ nd.statusCb
    \/ nd.sr # "none" \/ Due(n, Timers)
    \/ \E c \in ToSet(u.cmds) : n \in c.to
    \/ Coming(n)
    \/ nd.asked # "none"
    \/ n \in u.iso /\ nd.st # "Unknown" /\ nd.exp # "NotActive"
OneDisturbance == Len(faults) <= 1
NobodyIsForgotten == u.mn # "NotActive" /\ OneDisturbance => \A n \in od.cn : Watched(n)

\* No CN is told to start before the MN is Operational, unless a ready timeout
\* came so late that the CN had made it in the meantime; nor does that take a
\* late one when two disturbances put the CN back in PreOp2 while the timeout,
\* in time, is in the queue.
Starts == Len(u'.cmds) > Len(u.cmds) /\ Last(u'.cmds).cmd = "StartNode"
StartedTogether ==
    [][Starts /\ OneDisturbance /\ "late" \notin ToSet(faults)
         => u'.mn = "Operational"]_vars

\* When the application is informed that a boot step is finished, every
\* mandatory CN has come as far as the step asks for, provided that no CN which
\* was configured has been lost or identified anew since PreOp1: one lost before
\* startBootStep2() is not counted any more (nmtmnu.c:1898).
Required == [PreOp1 |-> Started, PreOp2 |-> Started \ {"Configured"},
             ReadyToOp |-> {"ComChecked", "Operational"}, Operational |-> {"Operational"}]
StepDone == u'.informed /\ ~u.informed
Missing == {n \in od.mandatory : u'.node[n].st \notin Required[u'.mn]}
NoMandatoryMissing == [][StepDone /\ fell' = {} => Missing = {}]_vars

\* The whole network gets Operational and stays so once disturbances have
\* ceased: lost requests and answers, refused configurations, CNs that fall
\* back or restart.  Mandatory CNs are excepted from disturbances, as one that is
\* lost may be missed for ever (NoMandatoryMissing).  The timeout for ReadyToOperate
\* (object 0x1F89/4) is set: without it processNodeEventNmtCmdSent() returns before
\* it starts a timer (nmtmnu.c:2973), and when EnableReadyToOperate is lost nothing
\* repeats it, so that a CN stays in PreOp2.
Timely == ToSet(faults) \intersect {"late", "slow", "cycle"} = {}
AllOperational ==
    (od.ready /\ (IF od.mandatory = {} THEN []Timely ELSE [](faults = <<>>))) =>
    <>[](/\ mnk = "Operational"
         /\ \A n \in od.cn : u.node[n].st = "Operational" /\ cn[n] = "Operational")
=============================================================================
