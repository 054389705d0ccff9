------------------------------- MODULE SdoCom -------------------------------
(***************************************************************************)
(* The SDO command layer, user/sdo/sdocom-std.c: a client reads and writes *)
(* objects of a server, in one frame or in segments, over a connection of  *)
(* the sequence layer.  Both nodes run the same code on a table of         *)
(* connection records.                                                     *)
(*                                                                         *)
(* Of the sequence layer, user/sdo/sdoseq.c, there is what the command     *)
(* layer can tell: numbered frames, copies of those that are not           *)
(* acknowledged, the wait for an acknowledgement when Window of them are   *)
(* kept, repetition.  Data taken in that wait is delivered without its     *)
(* number, so that the peer sends it a second time.  Module SdoSeq has the *)
(* rest, which is left out here: the codes of the handshake, numbers that  *)
(* wrap, and what a missing number does to the ring.  Single frames are    *)
(* not lost; a longer loss cuts the connection: nothing arrives any more,  *)
(* and each node notices by its own timer or when it is initialised anew.  *)
(* The callbacks come back into the command layer while a handler is still *)
(* running (kAsySdoConStateFrameSent inside sdoseq_sendData()), hence the  *)
(* recursion.                                                              *)
(*                                                                         *)
(* Sizes count segments of SDO_MAX_SEGMENT_SIZE bytes, a shorter one is    *)
(* one.  A unit of data is [t, i]: segment i of what transfer t wrote.     *)
(***************************************************************************)
EXTENDS Naturals, Sequences, FiniteSets, Functions

CONSTANTS
    Size,         \* Size[o]: segments of object o of the server
    ReadOnly,     \* objects that may not be written
    Transfers,    \* transfers an application may ask for: [cmd, o, n]
    Follow,       \* those it may ask for in the callback that ends another
    MaxCon,       \* CONFIG_SDO_MAX_CONNECTION_COM
    Window,       \* SDO_HISTORY_SIZE
    RetryCount,   \* SDO_SEQ_RETRY_COUNT
    TidMod,       \* values of the transaction id: 256
    MaxAway,      \* bound: with so many frames on its way to a node nothing is
                  \* sent or asked for again, the lower layer has no room
    MaxTransfer,  \* bound: transfers started
    MaxFault      \* bound: connections cut, servers restarted, first frames
                  \* of a connection refused, and calls of the application
                  \* that end a transfer

ASSUME SizeAssumption ==
    /\ \A o \in DOMAIN Size : Size[o] \in Nat \ {0}
    /\ ReadOnly \subseteq DOMAIN Size
    /\ \A t \in Transfers : t.cmd \in {"read", "write"} /\ t.n \in Nat \ {0}
    /\ Follow \subseteq Transfers
ASSUME BoundAssumption ==
    /\ {MaxCon, Window, TidMod} \subseteq Nat \ {0}
    /\ {RetryCount, MaxAway, MaxTransfer, MaxFault} \subseteq Nat

VARIABLES
    node,     \* node[q]: the records, the link and the objects of node q
    chan,     \* chan[q]: what is on its way to q, oldest first
    cut,      \* TRUE while nothing arrives
    asked,    \* asked[x]: the transfer with number x
    told,     \* told[x]: what the application was told of it, "none" before
    wrong,    \* transfers reported finished that were not done
    misled,   \* transfers ended by the answer to another one
    unheard,  \* transfers reported finished without an answer
    slips,    \* "stale": a connection was initialised anew while the server
              \* was in the middle of a transfer; "skipped": the server went
              \* on to the next segment though one had been refused;
              \* "unkept": a frame was sent without a copy
    fault     \* fault[k]: disturbances of kind k so far

vars == <<node, chan, cut, asked, told, wrong, misled, unheard, slips, fault>>

Nodes == {"client", "server"}
Peer(q) == IF q = "client" THEN "server" ELSE "client"
Faults == {"cut", "restart", "refused", "abort", "idle abort", "undefine"}

Cons == 1..MaxCon
NoUnit == [t |-> 0, i |-> 0]

\* tSdoComCon.  x is the transfer the record works for, cb its callback.
Unused == [st |-> "Idle", hdl |-> "none", own |-> FALSE, tid |-> 0, cmd |-> "none",
           tt |-> "auto", size |-> 0, done |-> 0, o |-> "none", at |-> 0,
           abort |-> FALSE, cb |-> 0, x |-> 0, buf |-> <<>>]

\* tSdoSeqCon: n numbers the own data frames, seen is the last number of the
\* peer that was saved, hist the copies of what is not acknowledged.
Unlinked == [st |-> "Idle", n |-> 0, seen |-> 0, hist |-> <<>>, retry |-> 0]

NoFrame == [kind |-> "none", abort |-> FALSE, tid |-> 0, cmd |-> "none", seg |-> "exp",
            size |-> 0, o |-> "none", d |-> NoUnit, x |-> 0]
Frame(r, kind) == [NoFrame EXCEPT !.kind = kind, !.tid = r.tid, !.cmd = r.cmd, !.x = r.x]

\* The state a handler passes on: a node, what it sent (out), what it told the
\* application (rep), the return value, and two choices of the environment:
\* whether the lower layer takes the first frame of a connection (ok), and the
\* transfer the application asks for in its callback (next).  room is how many
\* frames of a repetition, or requests for one, the lower layer takes.
Room(q) == IF Len(chan[Peer(q)]) < MaxAway THEN MaxAway - Len(chan[Peer(q)]) ELSE 0
Start(q, ok, next) ==
    [rec |-> node[q].rec, l |-> node[q].l, obj |-> node[q].obj, out |-> <<>>,
     rep |-> <<>>, ret |-> "Ok", ok |-> ok, no |-> FALSE, room |-> Room(q),
     next |-> next, new |-> <<>>, slips |-> {}]
Put(s, i, r) == [s EXCEPT !.rec[i] = r]

\* What one node sends the other; req asks for an acknowledgement, again for
\* everything that is not acknowledged.
Item(kind) == [kind |-> kind, n |-> 0, ack |-> 0, req |-> FALSE, again |-> FALSE, f |-> NoFrame]
Emit(s, kind) == [s EXCEPT !.out = Append(@, Item(kind))]
Ack(s, again) == [Item("ack") EXCEPT !.n = s.l.n, !.ack = s.l.seen, !.again = again]
EmitAck(s) == [s EXCEPT !.out = Append(@, Ack(s, FALSE))]

(***************************************************************************)
(* The sequence layer as the command layer sees it.                        *)
(***************************************************************************)
RECURSIVE Dispatch(_, _, _), Process(_, _, _, _)

\* A frame that takes the last room asks for an acknowledgement; one without
\* room goes out without a copy.
HasRoom(l) == Len(l.hist) < Window
Fills(l) == Len(l.hist) + 1 >= Window
sendFrame(s, f) ==
    LET item == [Item("data") EXCEPT !.n = s.l.n + 1, !.ack = s.l.seen,
                                     !.req = Fills(s.l), !.f = f]
        sent == [s EXCEPT !.out = Append(@, item), !.l.n = @ + 1]
    IN  IF HasRoom(s.l) THEN [sent EXCEPT !.l.hist = Append(@, item)]
        ELSE [sent EXCEPT !.slips = @ \cup {"unkept"}]

\* sdoseq_sendData(): only in state Connected.  A frame that leaves room for
\* others is followed by the callback FrameSent.
sendAck(s) == IF s.l.st = "Open" THEN [EmitAck(s) EXCEPT !.ret = "Ok"]
              ELSE [s EXCEPT !.ret = "Busy"]
sendData(s, f) ==
    IF s.l.st # "Open" THEN [s EXCEPT !.ret = "Busy"]
    ELSE IF Fills(s.l) THEN [sendFrame(s, f) EXCEPT !.l.st = "Full", !.ret = "Ok"]
    ELSE [Dispatch(sendFrame(s, f), "FrameSent", NoFrame) EXCEPT !.ret = "Ok"]

\* sdoseq_deleteCon(): only an established connection tells its peer.
deleteCon(s) ==
    [(IF s.l.st = "Open" THEN Emit(s, "close") ELSE s) EXCEPT !.l = Unlinked, !.ret = "Ok"]

\* sdoseq_initCon(): a refused first frame leaves a handle without a connection.
initCon(s, i) ==
    LET s1 == [s EXCEPT !.rec[i].hdl = "valid", !.ret = "Ok"]
    IN  IF s.l.st # "Idle" THEN s1
        ELSE IF s.ok THEN [Emit(s1, "init") EXCEPT !.l = [Unlinked EXCEPT !.st = "Opening"]]
        ELSE [s1 EXCEPT !.ret = "Refused", !.no = TRUE]

\* searchConnection(): every record of the connection gets the event.  When the
\* last of them is not responsible, or there is none, a free record gets it.
RECURSIVE Scan(_, _, _, _, _)
Scan(s, ev, f, i, free) ==
    IF i \in Cons
    THEN IF s.rec[i].hdl = "valid" THEN Scan(Process(s, i, ev, f), ev, f, i + 1, free)
         ELSE Scan(s, ev, f, i + 1, IF s.rec[i].hdl = "none" /\ free = 0 THEN i ELSE free)
    ELSE IF s.ret # "NotResponsible" THEN s
    ELSE IF free = 0 THEN [s EXCEPT !.ret = "NoFreeHandle"]
    ELSE Process([s EXCEPT !.rec[free].hdl = "valid"], free, ev, f)
Dispatch(s, ev, f) == Scan([s EXCEPT !.ret = "NotResponsible"], ev, f, 1, 0)

Lost == {"InitError", "Timeout", "ConClosed"}
Forget(s, i) == Put(deleteCon(s), i, Unused)

(***************************************************************************)
(* The server.                                                             *)
(***************************************************************************)
\* serverSendFrame() for each kind of answer.
serverSendAbort(s, i) ==
    LET r == [s.rec[i] EXCEPT !.done = 1, !.size = 0]
    IN  sendData(Put(s, i, r), [Frame(r, "res") EXCEPT !.abort = TRUE])

Noted(s) == IF s.ret = "Busy" THEN [s EXCEPT !.slips = @ \cup {"skipped"}] ELSE s
Segment(s, r) == IF r.size = 0 THEN NoUnit ELSE s.obj[r.o][r.at + 1]
serverSendRes(s, i) ==
    LET r == s.rec[i]
        seg == IF r.done = 0 THEN "init" ELSE IF r.size > 1 THEN "seg" ELSE "compl"
        n == IF r.size = 0 THEN 0 ELSE 1
        r1 == [r EXCEPT !.size = @ - n, !.done = @ + n, !.at = @ + n]
        f == [Frame(r, "res") EXCEPT !.d = Segment(s, r)]
    IN  IF r.tt = "exp" THEN sendData(Put(s, i, r1), [f EXCEPT !.size = 1])
        ELSE IF seg = "compl" /\ n = 0 /\ r.cmd # "write" THEN [s EXCEPT !.ret = "Ok"]
        ELSE Noted(sendData(Put(s, i, r1), [f EXCEPT !.seg = seg, !.size = r.size]))

AbortUnlessSent(s, i) == IF s.ret = "Ok" THEN s ELSE serverSendAbort(s, i)

serverInitReadByIndex(s, i, f) ==
    LET r == [s.rec[i] EXCEPT !.cmd = "read", !.tt = IF Size[f.o] > 1 THEN "seg" ELSE "exp",
                              !.size = Size[f.o], !.done = 0, !.o = f.o, !.at = 0]
    IN  IF f.o \notin DOMAIN Size THEN serverSendAbort(s, i)
        ELSE AbortUnlessSent(serverSendRes(Put(s, i, r), i), i)

serverInitWriteByIndex(s, i, f) ==
    LET s1 == [s EXCEPT !.rec[i].tt = IF f.seg = "init" THEN "seg" ELSE "exp",
                        !.rec[i].size = f.size]
        bad == \/ f.o \notin DOMAIN Size \ ReadOnly
               \/ IF f.seg = "init" THEN Size[f.o] < f.size ELSE Size[f.o] # f.size
        r == [s1.rec[i] EXCEPT !.cmd = "write", !.done = 0]
        stored == [Put(s1, i, r) EXCEPT !.obj[f.o][1] = f.d]
    IN  IF f.seg \notin {"init", "exp"} THEN [s EXCEPT !.ret = "Ok"]
        ELSE IF bad THEN serverSendAbort(s1, i)
        ELSE IF f.seg = "exp"
        THEN [sendData(stored, Frame(r, "res")) EXCEPT !.rec[i].size = 0]
        ELSE sendAck([stored EXCEPT !.rec[i].done = 1, !.rec[i].size = f.size - 1,
                                    !.rec[i].o = f.o, !.rec[i].at = 1])

BackToIdle(r) == [r EXCEPT !.st = "Idle", !.abort = FALSE]
IdleIfSent(s, i) == [s EXCEPT !.rec[i] = IF @.size = 0 THEN BackToIdle(@) ELSE @]

\* A request ends where it began, or in the transfer of segments.
Begun(s, i) == IdleIfSent([s EXCEPT !.rec[i].st = "ServerSegm", !.ret = "Ok"], i)

Idle(s, i, ev, f) ==
    LET s1 == [s EXCEPT !.rec[i].tid = f.tid, !.rec[i].x = f.x]
    IN  CASE ev = "InitCon" -> [s EXCEPT !.rec[i].st = "WaitInit", !.ret = "Ok"]
          [] ev = "Rec" /\ f.kind = "res" -> [s EXCEPT !.ret = "NotResponsible"]
          [] ev = "Rec" /\ f.kind = "req" /\ ~f.abort ->
               Begun(IF f.cmd = "read" THEN serverInitReadByIndex(s1, i, f)
                     ELSE serverInitWriteByIndex(s1, i, f), i)
          [] ev \in Lost -> Forget(s, i)
          [] OTHER -> [s EXCEPT !.ret = "Ok"]

ServerSegmentTooEarly(s, i, f) ==
    LET r == s.rec[i]
        r1 == [r EXCEPT !.size = 0, !.done = @ + 1, !.at = @ + 1]
    IN  IdleIfSent(serverSendRes([Put(s, i, r1) EXCEPT !.obj[r.o][r.at + 1] = f.d], i), i)

\* A segment of a write.  Size and abort code are checked, nothing else.
ServerSegment(s, i, f) ==
    LET r == s.rec[i]
        r1 == [r EXCEPT !.size = @ - 1, !.done = @ + 1, !.at = IF r.abort THEN @ ELSE @ + 1]
        s1 == IF r.abort THEN Put(s, i, r1)
              ELSE [Put(s, i, r1) EXCEPT !.obj[r.o][r.at + 1] = f.d]
        s2 == [s1 EXCEPT !.rec[i].size = 0]
    IN  IF r.size = 0 THEN serverSendAbort([s EXCEPT !.rec[i].abort = TRUE], i)
        ELSE IF f.seg # "compl" THEN sendAck(s1)
        ELSE IF ~r.abort THEN IdleIfSent(serverSendRes(s2, i), i)
        ELSE [serverSendAbort(s2, i) EXCEPT !.rec[i].abort = FALSE]

ServerSegm(s, i, ev, f) ==
    LET r == s.rec[i]
    IN  CASE ev \in {"AckReceived", "FrameSent"} /\ r.cmd = "read" ->
               [IdleIfSent(serverSendRes(s, i), i) EXCEPT !.ret = "Ok"]
          [] ev = "Rec" /\ f.kind = "req" /\ f.tid = r.tid /\ f.abort ->
               [s EXCEPT !.rec[i] = [BackToIdle(@) EXCEPT !.size = 0, !.done = 0], !.ret = "Ok"]
          [] ev = "Rec" /\ f.kind = "req" /\ f.tid = r.tid /\ ~f.abort ->
               IF r.cmd = "write" THEN ServerSegment(s, i, f) ELSE [s EXCEPT !.ret = "Ok"]
          [] ev = "Rec" /\ ~(f.kind = "req" /\ f.tid = r.tid) ->
               [s EXCEPT !.ret = "NotResponsible"]
          [] ev \in Lost -> Forget(s, i)
          [] OTHER -> [s EXCEPT !.ret = "Ok"]

(***************************************************************************)
(* The client.                                                             *)
(***************************************************************************)
\* sdoInitTransferByIndex(): nothing happens while the handle is busy.
initTransferByIndex(s, i, t) ==
    LET x == Len(asked) + Len(s.new) + 1
        r == [s.rec[i] EXCEPT !.cmd = t.cmd, !.size = t.n, !.done = 0, !.abort = FALSE,
                              !.tt = "auto", !.o = t.o, !.at = 0, !.cb = x, !.x = x,
                              !.buf = <<>>]
    IN  IF s.rec[i].done + s.rec[i].size > 0 THEN [s EXCEPT !.ret = "HandleBusy"]
        ELSE Process([Put(s, i, r) EXCEPT !.new = Append(@, t)], i, "SendFirst", NoFrame)

transferFinishedStaysBusy(s, i, outcome, by) ==
    LET r == s.rec[i]
        end == [x |-> r.cb, out |-> outcome, buf |-> r.buf, by |-> by]
    IN  IF r.cb = 0 THEN [s EXCEPT !.ret = "Ok"]
        ELSE [s EXCEPT !.rec[i].cb = 0, !.rep = Append(@, end), !.ret = "Ok"]

\* The application is told once, and may ask for its next transfer at once.
transferFinished(s, i, outcome, by) ==
    LET r == s.rec[i]
        s1 == [s EXCEPT !.rec[i].done = 0, !.rec[i].size = 0, !.rec[i].cb = 0, !.next = {},
                        !.rep = Append(@, [x |-> r.cb, out |-> outcome, buf |-> r.buf,
                                           by |-> by]),
                        !.ret = "Ok"]
    IN  IF r.cb = 0 THEN [s EXCEPT !.ret = "Ok"]
        ELSE IF s.next = {} THEN s1
        ELSE [initTransferByIndex(s1, i, CHOOSE t \in s.next : TRUE) EXCEPT !.ret = "Ok"]

clientSend(s, i) ==
    LET r == s.rec[i]
        f == [Frame(r, "req") EXCEPT !.o = r.o, !.size = r.size,
                                     !.d = IF r.cmd = "write" THEN [t |-> r.x, i |-> r.at + 1]
                                           ELSE NoUnit]
        tt == IF r.done = 0 THEN IF r.cmd = "write" /\ r.size > 1 THEN "seg" ELSE "exp" ELSE r.tt
        seg == IF tt = "exp" THEN "exp" ELSE IF r.done = 0 THEN "init"
               ELSE IF r.size > 1 THEN "seg" ELSE "compl"
        r1 == [r EXCEPT !.tt = tt, !.done = @ + 1,
                        !.size = IF r.cmd = "write" THEN @ - 1 ELSE @,
                        !.at = IF r.cmd = "write" THEN @ + 1 ELSE @]
    IN  IF r.size = 0 \/ (r.done > 0 /\ ~(r.cmd = "write" /\ r.tt = "seg"))
        THEN [s EXCEPT !.ret = "Ok"]
        ELSE sendData(Put(s, i, r1), [f EXCEPT !.seg = seg])

clientSendAbort(s, i) ==
    LET r == [s.rec[i] EXCEPT !.done = 1, !.size = 0, !.abort = TRUE]
    IN  sendData(Put(s, i, r), [Frame(r, "req") EXCEPT !.abort = TRUE])

NextTidKept(s, i) == s
NextTid(s, i) == [s EXCEPT !.rec[i].tid = (@ + 1) % TidMod]

Refused(r, f) ==
    IF r.cmd # f.cmd THEN r.done # 0 /\ r.size # 0
    ELSE r.cmd = "read" /\ (\/ f.seg = "init" /\ f.size > r.size
                            \/ f.seg \in {"seg", "compl"} /\ r.size = 0)

\* clientProcessFrame(): the data of an answer.  A buffer that is too small is
\* filled by an answer in one frame and refused for one in segments.
clientProcessFrame(s, i, f) ==
    LET r == s.rec[i]
        taken == [s EXCEPT !.rec[i].buf = Append(@, f.d)]
    IN  IF Refused(r, f) THEN transferFinished(clientSendAbort(s, i), i, "TxAborted", 0)
        ELSE CASE r.cmd # f.cmd \/ r.cmd = "write" -> s
               [] f.seg = "exp" -> [taken EXCEPT !.rec[i].size = 0, !.rec[i].done = 1]
               [] f.seg = "init" -> [taken EXCEPT !.rec[i].size = f.size - 1, !.rec[i].done = 1]
               [] f.seg = "seg" -> [taken EXCEPT !.rec[i].size = @ - 1, !.rec[i].done = @ + 1]
               [] f.seg = "compl" -> [taken EXCEPT !.rec[i].size = 0]

\* An answer with the right transaction id, in Connected and in SegmTransfer.
EndTransfer(s, i, outcome, f) ==
    transferFinished([NextTid(sendAck(s), i) EXCEPT !.rec[i].abort = f.abort,
                                                    !.rec[i].st = "Connected"],
                     i, outcome, f.x)
EndIfComplete(s, i, f) == IF s.rec[i].size = 0 THEN EndTransfer(s, i, "Finished", f) ELSE s
Answered(s, i, f) ==
    IF f.abort THEN EndTransfer(s, i, "RxAborted", f)
    ELSE EndIfComplete(clientProcessFrame(s, i, f), i, f)

DroppedUnheard(s, i, outcome) ==
    [deleteCon(s) EXCEPT !.rec[i].hdl = "invalid", !.rec[i].st = "WaitInit",
                         !.rec[i].size = 0, !.rec[i].done = 0]

\* The connection is gone: the record keeps an invalid handle and waits for
\* the next transfer to open it again.
Dropped(s, i, outcome) ==
    transferFinished([deleteCon(s) EXCEPT !.rec[i].hdl = "invalid", !.rec[i].st = "WaitInit"],
                     i, outcome, 0)

ClientWaitInit(s0, i, ev, f) ==
    LET s == IF s0.rec[i].hdl = "invalid" THEN initCon(s0, i) ELSE [s0 EXCEPT !.ret = "Ok"]
        s1 == [s EXCEPT !.rec[i].st = IF s.rec[i].size > 0 /\ s.rec[i].tt = "seg"
                                      THEN "ClientSegm" ELSE "Connected"]
    IN  CASE s.ret # "Ok" -> s
          [] s.ret = "Ok" /\ ev = "ConEstablished" ->
               IF s.rec[i].size > 0 THEN clientSend(s1, i) ELSE s1
          [] s.ret = "Ok" /\ ev = "Abort" ->
               transferFinished([s EXCEPT !.rec[i].abort = TRUE], i, "TxAborted", 0)
          [] s.ret = "Ok" /\ ev \in Lost \cup {"TransferAbort"} -> Dropped(s, i, "LowerLayer")
          [] OTHER -> s

AfterSend(s, i, st) ==
    LET r == s.rec[i]
    IN  IF s.ret # "Ok" THEN s
        ELSE IF r.size = 0 /\ r.cmd = "read" /\ (st = "ClientSegm" \/ r.done # 0)
        THEN transferFinished([NextTid(s, i) EXCEPT !.rec[i].st = "Connected",
                                                    !.rec[i].abort = FALSE],
                              i, "Finished", 0)
        ELSE IF r.tt = "seg" THEN [s EXCEPT !.rec[i].st = "ClientSegm"] ELSE s
SentOn(s, i, st) == AfterSend(clientSend(s, i), i, st)

\* ClientConnected and ClientSegmTransfer differ in what a foreign answer
\* returns and in how they report a connection the peer has closed.
ClientActive(s, i, ev, f) ==
    LET r == s.rec[i]
        own == f.kind = "res" /\ f.tid = r.tid
    IN  CASE ev \in {"SendFirst", "AckReceived", "FrameSent"} -> SentOn(s, i, r.st)
          [] ev = "Rec" /\ own -> Answered(s, i, f)
          [] ev = "Rec" /\ ~own ->
               [s EXCEPT !.ret = IF r.st = "Connected" THEN "NotResponsible" ELSE "Ok"]
          [] ev = "Abort" ->
               transferFinished([NextTid(clientSendAbort(s, i), i) EXCEPT !.rec[i].st = "Connected"],
                                i, "TxAborted", 0)
          [] ev = "ConClosed" ->
               IF r.st = "Connected" THEN Dropped(s, i, "LowerLayer")
               ELSE Dropped(NextTid(s, i), i, "Finished")
          [] ev \in {"InitError", "Timeout"} -> Dropped(s, i, "LowerLayer")
          [] ev = "TransferAbort" ->
               transferFinished([s EXCEPT !.rec[i].st = "WaitInit"], i, "LowerLayer", 0)
          [] OTHER -> s

HandleEvent(s, i, ev, f) ==
    CASE s.rec[i].st = "Idle"       -> Idle(s, i, ev, f)
      [] s.rec[i].st = "ServerSegm" -> ServerSegm(s, i, ev, f)
      [] s.rec[i].st = "WaitInit"   -> ClientWaitInit(s, i, ev, f)
      [] OTHER                      -> ClientActive(s, i, ev, f)
Process(s, i, ev, f) == HandleEvent([s EXCEPT !.ret = "Ok"], i, ev, f)

(***************************************************************************)
(* What a frame or a timer does to a node, by the state of its link.       *)
(***************************************************************************)
Inits(s) ==
    Dispatch(Emit([s EXCEPT !.l = [Unlinked EXCEPT !.st = "Open", !.retry = s.l.retry]], "ready"),
             "ConEstablished", NoFrame)
Closed(s, ev) == Dispatch([s EXCEPT !.l = [Unlinked EXCEPT !.retry = s.l.retry]], ev, NoFrame)

\* processStateConnected(): the next frame is delivered, or only counted when it
\* is an acknowledgement; one that leaves a gap asks for what is missing; one
\* that was heard before is answered when it asks.
AllFit(s) == Len(s.l.hist) <= s.room
SendAgain(s) ==
    [s EXCEPT !.out = @ \o IF AllFit(s) THEN s.l.hist ELSE SubSeq(s.l.hist, 1, s.room)]
AnswerRequest(s, m) == IF m.req /\ s.l.st # "Idle" THEN EmitAck(s) ELSE s
AskAgain(s) ==
    IF Len(s.out) < s.room THEN [s EXCEPT !.out = Append(@, Ack(s, TRUE))] ELSE s
NextFrame(s, m) ==
    LET s1 == [s EXCEPT !.l.seen = m.n]
    IN  IF m.kind = "data" THEN Dispatch(Dispatch(s1, "Rec", m.f), "FrameSent", NoFrame)
        ELSE Dispatch(s1, "AckReceived", NoFrame)
Numbered(s, m) ==
    CASE m.n = s.l.seen + 1 -> AnswerRequest(NextFrame(s, m), m)
      [] m.n > s.l.seen + 1 -> AskAgain(s)
      [] m.n < s.l.seen + 1 -> AnswerRequest(s, m)

\* processStateWaitAck(): whatever comes ends the wait, and data is delivered
\* without its number; only a peer that asks again is answered from the copies.
\* A frame that opens a connection anew is taken for one that closes it.
RecIfData(s, m) == IF m.kind = "data" THEN Dispatch(s, "Rec", m.f) ELSE s
Awaited(s, m) ==
    IF m.again THEN SendAgain(s)
    ELSE RecIfData(Dispatch([s EXCEPT !.l.st = "Open"], "AckReceived", NoFrame), m)

Opened(l) == l.st \in {"Open", "Full"}
Arrives(s, m) ==
    LET s1 == [s EXCEPT !.l.hist = SelectSeq(@, LAMBDA h : h.n > m.ack)]
        inMid == \E i \in Cons : s.rec[i].st = "ServerSegm"
        s2 == [s EXCEPT !.slips = IF inMid THEN @ \cup {"stale"} ELSE @]
    IN  CASE m.kind = "init" /\ s.l.st = "Open" -> Inits(Closed(s2, "TransferAbort"))
          [] m.kind = "init" /\ s.l.st = "Full" -> Closed(s, "ConClosed")
          [] m.kind = "init" /\ ~Opened(s.l) -> Inits(s2)
          [] m.kind = "ready" /\ s.l.st = "Opening" ->
               Dispatch([s EXCEPT !.l.st = "Open"], "ConEstablished", NoFrame)
          [] m.kind = "close" /\ Opened(s.l) -> Closed(s, "ConClosed")
          [] m.kind \in {"data", "ack"} /\ s.l.st = "Full" -> Awaited(s1, m)
          [] m.kind \in {"data", "ack"} /\ s.l.st = "Open" ->
               IF ~m.again THEN Numbered(s1, m)
               ELSE IF AllFit(s1) THEN Numbered(SendAgain(s1), m)
               ELSE SendAgain(s1)
          [] OTHER -> Closed(IF m.kind = "close" THEN s ELSE Emit(s, "close"), "InitError")

\* An expired timer repeats the oldest frame and asks for an acknowledgement;
\* without one to repeat, or after RetryCount times, the connection ends.
Expires(s) ==
    IF s.l.st = "Open" /\ s.l.hist # <<>> /\ s.l.retry < RetryCount
    THEN LET s1 == [s EXCEPT !.l.retry = @ + 1, !.l.hist[1].req = TRUE]
         IN  [s1 EXCEPT !.out = Append(@, s1.l.hist[1])]
    ELSE Closed(Emit(s, "close"), IF s.l.st = "Opening" THEN "InitError" ELSE "Timeout")

(***************************************************************************)
(* The actions.                                                            *)
(***************************************************************************)
Done(x, rep, obj) ==
    LET t == asked'[x] IN
    IF t.cmd = "write" THEN \A k \in 1..t.n : obj[t.o][k] = [t |-> x, i |-> k]
    ELSE rep.buf = IF Size[t.o] = 1 THEN <<obj[t.o][1]>> ELSE obj[t.o]

\* Node q is left in s, ends of transfers are noted, and what it sent leaves
\* unless the connection is cut.  A new connection finds the cable repaired and
\* nothing on its way that was sent for an earlier one.
Finish(q, s, arrivals) ==
    LET inits == {k \in DOMAIN s.out : s.out[k].kind = "init"}
        first == CHOOSE k \in inits : \A j \in inits : k <= j
        leaves == IF inits # {} THEN SubSeq(s.out, first, Len(s.out))
                  ELSE IF cut THEN <<>> ELSE chan[Peer(q)] \o s.out
        ended(x) == {k \in DOMAIN s.rep : s.rep[k].x = x}
    IN  /\ node' = [node EXCEPT ![q] = [rec |-> s.rec, l |-> s.l, obj |-> s.obj]]
        /\ chan' = [chan EXCEPT ![q] = IF inits = {} THEN arrivals ELSE <<>>,
                                  ![Peer(q)] = leaves]
        /\ cut' = (cut /\ inits = {})
        /\ slips' = slips \cup s.slips
        /\ asked' = asked \o s.new
        /\ told' = [x \in DOMAIN asked' |->
                      IF ended(x) # {} THEN s.rep[CHOOSE k \in ended(x) : TRUE].out
                      ELSE IF x \in DOMAIN told THEN told[x] ELSE "none"]
        /\ wrong' = wrong \cup
             {s.rep[k].x : k \in {j \in DOMAIN s.rep : /\ s.rep[j].out = "Finished"
                                  /\ ~Done(s.rep[j].x, s.rep[j], node'["server"].obj)}}
        /\ misled' = misled \cup
             {s.rep[k].x : k \in {j \in DOMAIN s.rep : s.rep[j].by \notin {0, s.rep[j].x}}}
        /\ unheard' = unheard \cup
             {s.rep[k].x : k \in {j \in DOMAIN s.rep : s.rep[j].by = 0 /\ s.rep[j].out = "Finished"}}

Disturb(k) == FoldFunction(+, 0, fault) < MaxFault /\ fault' = [fault EXCEPT ![k] = @ + 1]

\* The choices of the environment a handler may need; the server needs none.
Afterwards(q) ==
    {{}} \cup (IF q = "client" /\ Len(asked) < MaxTransfer THEN {{t} : t \in Follow} ELSE {})
MayRefuse(q) == q = "client" /\ FoldFunction(+, 0, fault) < MaxFault
Takes(q) == IF MayRefuse(q) THEN BOOLEAN ELSE {TRUE}
More(s) == Len(asked) + Len(s.new) <= MaxTransfer
Accepted(s) == IF s.ok THEN UNCHANGED fault ELSE s.no /\ Disturb("refused")

Receive(q) ==
    /\ chan[q] # <<>>
    /\ \E ok \in Takes(q), next \in Afterwards(q) :
       \E s \in {Arrives(Start(q, ok, next), Head(chan[q]))} :
         /\ More(s) /\ Accepted(s)
         /\ Finish(q, s, Tail(chan[q]))

Silent == cut \/ \A p \in Nodes : chan[p] = <<>>

\* A timer of the sequence layer ends a connection that is cut or silent.
Timeout(q) ==
    /\ node[q].l.st # "Idle"
    /\ Silent
    /\ \E ok \in Takes(q), next \in Afterwards(q) :
       \E s \in {Expires(Start(q, ok, next))} :
         /\ More(s) /\ Accepted(s)
         /\ Finish(q, s, chan[q])

Records == node["client"].rec
Owned(i) == Records[i].own

\* The record with the highest number that is free.
LastFree == {i \in Cons : /\ Records[i].hdl = "none"
                          /\ \A j \in Cons : Records[j].hdl = "none" => j <= i}

\* sdoDefineConnection(): an existing record is used again.
defineConnection == \E ok \in Takes("client"), i \in LastFree :
    /\ \A j \in Cons : ~Owned(j)
    /\ \E s1 \in {initCon([Start("client", ok, {}) EXCEPT !.rec[i].own = TRUE], i)} :
         Accepted(s1) /\ Finish("client", IF s1.ret = "Ok" THEN Process(s1, i, "InitCon", NoFrame) ELSE s1,
                chan["client"])

\* sdoInitTransferByIndex(), called by the application.
startTransfer == \E ok \in Takes("client"), i \in Cons, t \in Transfers :
    /\ Owned(i) /\ Records[i].done + Records[i].size = 0
    /\ \E s \in {initTransferByIndex(Start("client", ok, {}), i, t)} :
         More(s) /\ Accepted(s) /\ Finish("client", s, chan["client"])

\* sdoAbortTransfer().
abortTransfer == \E i \in Cons :
    /\ Owned(i) /\ Disturb(IF Records[i].cb = 0 THEN "idle abort" ELSE "abort")
    /\ \E s \in {Process(Start("client", TRUE, {}), i, "Abort", NoFrame)} :
         Finish("client", s, chan["client"])

\* sdoUndefineConnection(): the application hears nothing of its transfer.
undefineConnection == \E i \in Cons :
    /\ Owned(i) /\ Disturb("undefine")
    /\ LET s == Start("client", TRUE, {})
           s1 == Put(IF Records[i].hdl = "valid" THEN deleteCon(s) ELSE s, i, Unused)
           end == [x |-> Records[i].cb, out |-> "dropped", buf |-> <<>>, by |-> 0]
       IN  Finish("client", IF Records[i].cb = 0 THEN s1 ELSE [s1 EXCEPT !.rep = <<end>>],
                  chan["client"])

\* Nothing arrives any more.
Cut ==
    /\ ~cut /\ Disturb("cut") /\ cut' = TRUE /\ chan' = [q \in Nodes |-> <<>>]
    /\ UNCHANGED <<node, asked, told, wrong, misled, unheard, slips>>

\* sdoDelInstance() and sdoAddInstance(): the server starts again.
Fresh(obj) == [rec |-> [i \in Cons |-> Unused], l |-> Unlinked, obj |-> obj]
Restart ==
    /\ Disturb("restart")
    /\ node' = [node EXCEPT !["server"] = Fresh(@.obj)]
    /\ chan' = [chan EXCEPT !["server"] = <<>>]
    /\ UNCHANGED <<cut, asked, told, wrong, misled, unheard, slips>>

Init ==
    /\ node = [q \in Nodes |-> Fresh([o \in DOMAIN Size |->
                                        [k \in 1..Size[o] |-> [t |-> 0, i |-> k]]])]
    /\ chan = [q \in Nodes |-> <<>>]
    /\ cut = FALSE
    /\ asked = <<>> /\ told = <<>> /\ wrong = {} /\ misled = {} /\ unheard = {}
    /\ slips = {} /\ fault = [k \in Faults |-> 0]

Next ==
    \/ \E q \in Nodes : Receive(q) \/ Timeout(q)
    \/ defineConnection \/ startTransfer \/ abortTransfer \/ undefineConnection
    \/ Cut \/ Restart

Spec == Init /\ [][Next]_vars

\* Frames that were not lost arrive and timers expire; the application does
\* what it likes.  This is WF_vars(Handle) with its ENABLED spelled out.
Ready == \E q \in Nodes : chan[q] # <<>> \/ (node[q].l.st # "Idle" /\ Silent)
Handle == \E q \in Nodes : Receive(q) \/ Timeout(q)
FairSpec == Spec /\ ([]<>~Ready \/ []<><<Handle>>_vars)

-----------------------------------------------------------------------------
Unit == [t : 0..MaxTransfer, i : Nat]
Outcomes == {"none", "Finished", "RxAborted", "TxAborted", "LowerLayer", "dropped"}
ClientStates == {"WaitInit", "Connected", "ClientSegm"}

\* The state variables have their types, and only the record the application
\* holds is ever a client's.
TypeOK ==
    /\ \A q \in Nodes, i \in Cons :
         LET r == node[q].rec[i] IN
         /\ r.st \in ClientStates \cup {"Idle", "ServerSegm"}
         /\ r.st \in ClientStates => q = "client" /\ r.own
         /\ r.hdl \in {"none", "valid", "invalid"} /\ r.tid \in 0..TidMod-1
         /\ {r.size, r.done, r.at} \subseteq Nat /\ r.cb \in 0..MaxTransfer
    /\ \A q \in Nodes : /\ {node[q].l.n, node[q].l.seen} \subseteq Nat
                        /\ Len(node[q].l.hist) <= Window /\ node[q].l.retry <= RetryCount
    /\ \A o \in DOMAIN Size : node["server"].obj[o] \in [1..Size[o] -> Unit]
    /\ DOMAIN told = DOMAIN asked /\ \A x \in DOMAIN told : told[x] \in Outcomes
    /\ cut \in BOOLEAN /\ slips \subseteq {"stale", "skipped", "unkept"}

\* A transfer that an answer of the server has ended and that is reported
\* finished has been done: the object holds what was written, the buffer what
\* was read (sdo.h on kSdoComTransferFinished), as long as the server neither
\* was left in the middle of an earlier transfer by a new connection nor
\* dropped a segment its sequence layer had no room for.  One that no answer
\* has ended may be reported so too: processStateClientSegTransfer() does when
\* the peer closes the connection.
AnsweredMeansDone == {"stale", "skipped"} \cap slips = {} => wrong \subseteq unheard

\* The answer that ends a transfer is the answer to it: the transaction id
\* tells late answers to an aborted transfer apart from those to the next.
NoForeignAnswer == "stale" \notin slips => misled = {}

\* A handle that refuses transfers because it is busy has one running whose
\* end the application will hear of, unless a transfer was aborted that had
\* already ended.  The types hold always.
BusyMeansPending ==
    /\ TypeOK
    /\ fault["idle abort"] = 0 =>
          \A i \in Cons :
              Owned(i) /\ Records[i].done + Records[i].size > 0 => Records[i].cb # 0

Told(x) == x \in DOMAIN told /\ told[x] # "none"

\* Every transfer that was accepted ends, and the application is told, unless
\* the lower layer refused the first frame of a connection, or a frame was sent
\* without a copy (sdoseq.c:1572): a peer that misses it then asks again, and is
\* answered with what is kept, for ever, and no timer expires.
TransferEnds ==
    \A x \in 1..MaxTransfer :
        x \in DOMAIN told ~> Told(x) \/ fault["refused"] > 0 \/ "unkept" \in slips
=============================================================================
