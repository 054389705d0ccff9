------------------------------- MODULE SdoSeq -------------------------------
(***************************************************************************)
(* The SDO sequence layer, user/sdo/sdoseq.c: two nodes open a connection  *)
(* with a four-step handshake, number their data frames, keep a copy of    *)
(* every frame until it is acknowledged (a ring of HistorySize frames),    *)
(* ask for missing frames again and close the connection when the other    *)
(* node stays silent.                                                      *)
(*                                                                         *)
(* One connection record per node stands for its tSdoSeqCon; the link      *)
(* keeps the order of the frames but may lose them, as POWERLINK's         *)
(* asynchronous phase does.  A sequence number byte is [n, c]: n its upper *)
(* six bits (one frame adds 4, i.e. one to n), c the connection code in    *)
(* its lower two bits.  In the code, and here, recvSeqNum is the node's    *)
(* OWN number (sent as scon) and sendSeqNum the last number of the peer    *)
(* (sent as rcon).                                                         *)
(***************************************************************************)
EXTENDS Naturals, Sequences, FiniteSets, Functions

CONSTANTS
    Node,         \* the two nodes
    Initiator,    \* the nodes whose command layer opens connections (clients)
    HistorySize,  \* SDO_HISTORY_SIZE
    SeqMod,       \* numbers the six upper bits can hold: 64
    Threshold,    \* SDO_SEQ_NUM_THRESHOLD / 4: 25
    RetryCount,   \* SDO_SEQ_RETRY_COUNT
    MaxSend,      \* bound: data frames per node
    MaxOpen,      \* bound: connections opened
    MaxFault      \* bound: disturbances (frames lost, frames the lower layer
                  \* refuses, timers faster than the frames in flight,
                  \* connections closed by an application)

ASSUME NodeAssumption ==
    IsFiniteSet(Node) /\ Cardinality(Node) = 2 /\ Initiator \subseteq Node
ASSUME WindowAssumption ==
    /\ HistorySize \in Nat \ {0, 1} /\ SeqMod \in Nat /\ Threshold \in Nat
    /\ HistorySize <= Threshold /\ Threshold + HistorySize <= SeqMod
ASSUME BoundAssumption ==
    /\ {RetryCount, MaxOpen, MaxFault} \subseteq Nat
    /\ MaxSend \in [Node -> Nat]

VARIABLES
    con,      \* con[p]: the tSdoSeqCon of node p
    chan,     \* chan[p]: frames on the way to p, oldest first
    heard,    \* heard[p]: 1 when p got data in this connection
    due,      \* due[p]: 1 when p's command layer owes the peer a reaction
    sent,     \* sent[p]: data frames p's command layer has handed over
    got,      \* got[p]: data p delivered in state Connected, in that order
    loose,    \* loose[p]: data p delivered in state WaitAck
    ackd,     \* ackd[p]: data of p removed from its history as acknowledged
    unkept,   \* unkept[p]: data p sent without a copy in its history
    opened,   \* connections opened so far
    fault     \* fault[x]: disturbances of kind x so far

vars == <<con, chan, heard, due, sent, got, loose, ackd, unkept,
          opened, fault>>

Faults == {"lost", "refused", "late", "closed"}

Peer(p) == CHOOSE q \in Node : q # p

States == {"Idle", "Init1", "Init2", "Init3", "Connected", "WaitAck"}
Con == [n: 0..SeqMod-1, c: 0..3]
None == 0       \* a frame without data
Frame == [scon: Con, rcon: Con, data: Nat]

(***************************************************************************)
(* Sequence number bytes.                                                  *)
(***************************************************************************)
Masked(b) == [b EXCEPT !.c = 0]
Bumped(b) == [b EXCEPT !.c = @ + 1]
Ahead(m, n) == (m + SeqMod - n) % SeqMod    \* how far number m is after n

Ring == 0..HistorySize-1
NoFrame == [scon |-> [n |-> 0, c |-> 0], rcon |-> [n |-> 0, c |-> 0], data |-> None]
History0 == [free |-> 0, w |-> 0, a |-> 0, fr |-> [i \in Ring |-> NoFrame]]
initHistory(h) == [h EXCEPT !.free = HistorySize, !.w = 0, !.a = 0]

\* A record that was never used or was wiped by sdoseq_deleteCon().
Cleared(free) ==
    [st |-> "Idle", recv |-> NoFrame.scon, send |-> NoFrame.scon,
     hist |-> [History0 EXCEPT !.free = free], timer |-> 0, retry |-> 0, used |-> 0]

(***************************************************************************)
(* The history ring.                                                       *)
(***************************************************************************)
addFrameToHistory(h, f) ==
    IF h.free = 0 THEN h
    ELSE [h EXCEPT !.fr[h.w] = f, !.free = @ - 1, !.w = (@ + 1) % HistorySize]

Entry(h, i) == h.fr[(h.a + i) % HistorySize]

\* How many frames the loop of deleteAckedFrameFromHistory() releases for the
\* acknowledge number rn, and whether it leaves through its early return,
\* which keeps the old ackIndex.
AckedOneMore(h, rn, i) == Ahead(rn + 1, Entry(h, i).scon.n) < Threshold
Acked(h, rn, i) == Ahead(rn, Entry(h, i).scon.n) < Threshold
LoopEnds(h, rn, i) ==
    \/ ~Acked(h, rn, i)
    \/ ~(Ahead(rn + SeqMod - 1, Entry(h, i).scon.n) < Threshold)
    \/ (h.a + i + 1) % HistorySize = h.w
LastTurn(h, rn) ==
    CHOOSE i \in 0..HistorySize : /\ LoopEnds(h, rn, i)
                                  /\ \A j \in 0..i-1 : ~LoopEnds(h, rn, j)
Released(h, rn) ==
    IF h.free < HistorySize
    THEN LET i == LastTurn(h, rn) IN IF Acked(h, rn, i) THEN i + 1 ELSE i
    ELSE 0
deleteAckedKeepsIndex(h, rn) == [h EXCEPT !.free = @ + Released(h, rn)]
deleteAckedFrameFromHistory(h, rn) ==
    LET k == Released(h, rn)
        freed == {(h.a + i) % HistorySize : i \in 0..k-1}
    IN  [h EXCEPT
          !.free = @ + k,
          !.a = IF k > 0 /\ Acked(h, rn, LastTurn(h, rn)) THEN (@ + k) % HistorySize ELSE @,
          !.fr = [i \in Ring |-> IF i \in freed THEN [@[i] EXCEPT !.data = None] ELSE @[i]]]

\* The frames a loop over readFromHistory() returns: from ackIndex up to the
\* write index, or to a frame that is already released, whose size is zero.
\* Nothing when both indices are equal.
Unread(h) == (h.w + HistorySize - h.a) % HistorySize
ReadTo(h) ==
    CHOOSE m \in 0..Unread(h) : /\ m = Unread(h) \/ Entry(h, m).data = None
                                /\ \A i \in 0..m-1 : Entry(h, i).data # None
Kept(h) == IF h.free >= HistorySize THEN <<>> ELSE [i \in 1..ReadTo(h) |-> Entry(h, i - 1)]

(***************************************************************************)
(* The result of a handler: the record it leaves, the frames it sent, the  *)
(* data it delivered and whether the higher layer then deletes the         *)
(* connection.  The callbacks InitError, ConClosed and Timeout make the    *)
(* command layer call sdoseq_deleteCon() at once (sdocom-std.c:952, 1084,  *)
(* 1188, 1300, 1317); the other callbacks change nothing here.             *)
(***************************************************************************)
Done(k, out) == [con |-> k, out |-> out, data |-> None, again |-> FALSE]
Wiped(out) == Done(Cleared(HistorySize), out)

Opened(k) == k.st \in {"Connected", "WaitAck"}
Header(k, d) == [scon |-> k.recv, rcon |-> k.send, data |-> d]
Closing(k) == [k EXCEPT !.recv = Masked(@), !.send = Masked(@)]
CloseFrame(k) == <<Header(Closing(k), None)>>
Sends(f, ok) == IF ok THEN <<f>> ELSE <<>>

(***************************************************************************)
(* The handshake: the states Idle, Init1, Init2 and Init3.                 *)
(***************************************************************************)
\* The state a frame leads to, "Error" if it is not the one waited for.
InitNext(st, f) ==
    LET code == <<f.scon.c, f.rcon.c>>
    IN  CASE st = "Idle"  /\ code = <<1, 0>> -> "Init2"
          [] st = "Init1" /\ code = <<1, 1>> -> "Init3"
          [] st = "Init1" /\ code = <<1, 0>> -> "Init2"
          [] st = "Init2" /\ code = <<2, 1>> -> "Connected"
          [] st = "Init2" /\ code = <<1, 1>> -> "Init3"
          [] st = "Init3" /\ code = <<2, 2>> -> "Connected"
          [] st = "Init3" /\ code = <<2, 1>> -> "Connected"
          [] OTHER -> "Error"

InitFrame(k, f, ok) ==
    LET next == InitNext(k.st, f)
        final == k.st = "Init3" /\ f.rcon.c = 2     \* nothing to answer
        nums == [k EXCEPT !.recv = IF final THEN f.rcon ELSE Bumped(f.rcon),
                          !.send = f.scon]
        isClose == f.scon.c = 0 /\ f.rcon.c = 0
    IN  CASE next = "Error" ->
               Wiped(IF ~isClose /\ ok
                     THEN <<[scon |-> Masked(f.rcon), rcon |-> Masked(f.scon), data |-> None]>>
                     ELSE <<>>)
          [] next # "Error" /\ ~final /\ ~ok -> Done(nums, <<>>)
          [] OTHER ->
               Done([nums EXCEPT !.st = next, !.timer = 1,
                                 !.hist = IF next = "Connected" THEN initHistory(@) ELSE @],
                    IF final THEN <<>> ELSE <<Header(nums, None)>>)

(***************************************************************************)
(* State Connected.                                                        *)
(***************************************************************************)
IsNextOrRepeated(k, f) == Ahead(f.scon.n, k.send.n) \in {0, 1}
IsNext(k, f) == Ahead(f.scon.n, k.send.n) = 1
\* A frame in between was lost: the number is ahead by less than half the values.
IsLate(k, f) == ~IsNext(k, f) /\ Ahead(f.scon.n, k.send.n + 1) < Threshold

\* An error response or an acknowledge request of the peer is answered after
\* the frame itself has been dealt with.
ConnectedFrame(k, f, ok) ==
    LET resent == IF f.rcon.c = 3 THEN Kept(k.hist) ELSE <<>>
        k1 == [k EXCEPT !.timer = 1,
                        !.send = IF IsNext(k, f) THEN [n |-> f.scon.n, c |-> 2]
                                 ELSE IF IsLate(k, f) THEN [@ EXCEPT !.c = 2] ELSE @]
        errorAck == [Header(k, None) EXCEPT !.rcon.c = 3]
        answer == IF IsLate(k, f) THEN <<errorAck>>
                  ELSE IF f.scon.c = 3 THEN <<Header(k1, None)>> ELSE <<>>
    IN  CASE f.scon.c = 0 -> Wiped(<<>>)
          [] f.scon.c = 1 -> [Done([k EXCEPT !.st = "Idle", !.timer = 0], <<>>)
                                EXCEPT !.again = TRUE]
          [] f.scon.c > 1 /\ resent # <<>> /\ ~ok -> Done([k EXCEPT !.timer = 1], <<>>)
          [] OTHER -> [Done(k1, resent \o IF resent = <<>> /\ ~ok THEN <<>> ELSE answer)
                         EXCEPT !.data = IF IsNext(k, f) THEN f.data ELSE None]

ConnectedTimeout(k, ok) ==
    IF k.hist.free < HistorySize /\ k.retry < RetryCount
    THEN LET oldest == k.hist.a
             k1 == [k EXCEPT !.retry = @ + 1, !.timer = 1]
         IN  IF Kept(k.hist) = <<>> THEN Done(k1, <<>>)
             ELSE LET k2 == [k1 EXCEPT !.hist.fr[oldest].scon.c = 3]
                  IN  Done(k2, Sends(k2.hist.fr[oldest], ok))
    ELSE Wiped(IF ok THEN CloseFrame(k) ELSE <<>>)

\* sendFrame() for a data frame.  The last free entry makes it ask for an
\* acknowledge; without a free entry the frame goes out all the same.
ConnectedSend(k, d, ok) ==
    LET last == k.hist.free <= 1
        k1 == [k EXCEPT !.timer = 1, !.recv.n = (@ + 1) % SeqMod,
                        !.recv.c = IF last THEN 3 ELSE @]
        f == Header(k1, d)
    IN  IF ~ok THEN Done(k1, <<>>)
        ELSE Done([k1 EXCEPT !.recv.c = IF @ = 3 THEN 2 ELSE @,
                             !.hist = addFrameToHistory(@, f),
                             !.st = IF last THEN "WaitAck" ELSE @],
                  <<f>>)

(***************************************************************************)
(* State WaitAck: the history is full.                                     *)
(***************************************************************************)
WaitAckFrame(k, f, ok) ==
    LET k1 == [k EXCEPT !.timer = 1]
        answered == [k1 EXCEPT !.st = "Connected", !.send = f.scon,
                               !.recv = [f.rcon EXCEPT !.c = 2]]
    IN  CASE f.rcon.c = 0 -> Wiped(<<>>)
          [] f.rcon.c = 1 -> [Done([k EXCEPT !.st = "Idle", !.timer = 0], <<>>)
                                EXCEPT !.again = TRUE]
          [] f.rcon.c = 2 -> [Done([k1 EXCEPT !.st = "Connected"], <<>>)
                                EXCEPT !.data = f.data]
          [] f.rcon.c = 3 /\ f.rcon = k.recv ->
               [Done(answered, IF f.data = None THEN Sends(Header(answered, None), ok)
                               ELSE <<>>)
                  EXCEPT !.data = f.data]
          [] OTHER -> Done(k1, IF ok THEN Kept(k.hist) ELSE <<>>)

(***************************************************************************)
(* processState() for a received frame and for an expired timer.           *)
(***************************************************************************)
FrameRec(k, f, ok) ==
    CASE k.st = "Connected" -> ConnectedFrame(k, f, ok)
      [] k.st = "WaitAck"   -> WaitAckFrame(k, f, ok)
      [] OTHER              -> InitFrame(k, f, ok)

TimeoutNeverCloses(k, ok) ==
    IF Opened(k) /\ (k.st = "WaitAck" \/ k.hist.free = HistorySize \/ k.retry = RetryCount)
    THEN Done([k EXCEPT !.timer = 0], <<>>)
    ELSE CASE k.st = "Idle"      -> Done([k EXCEPT !.timer = 0], <<>>)
           [] k.st = "Connected" -> ConnectedTimeout([k EXCEPT !.timer = 0], ok)
           [] OTHER              -> Wiped(IF ok THEN CloseFrame(k) ELSE <<>>)
Timeout(k, ok) ==
    CASE k.st = "Idle"      -> Done([k EXCEPT !.timer = 0], <<>>)
      [] k.st = "Connected" -> ConnectedTimeout([k EXCEPT !.timer = 0], ok)
      [] OTHER              -> Wiped(IF ok THEN CloseFrame(k) ELSE <<>>)

(***************************************************************************)
(* The actions.  ok says whether the lower layer accepts the handler's     *)
(* first frame; a later one refused is the same as one lost.               *)
(***************************************************************************)
Disturbed == fault.lost + fault.refused + fault.late + fault.closed
Disturb(x) == Disturbed < MaxFault /\ fault' = [fault EXCEPT ![x] = @ + 1]
Refusable(ok) == IF ok THEN UNCHANGED fault ELSE Disturb("refused")

\* Node p's record becomes k, and out leaves for the peer.
Install(p, k, out) ==
    /\ con' = [con EXCEPT ![p] = k]
    /\ chan' = [chan EXCEPT ![Peer(p)] = @ \o out]

OpenOnly(k, val) == IF Opened(k) THEN val ELSE 0

\* What the command layer of p receives; d may be None.
Deliver(p, d) ==
    LET inOrder == con[p].st # "WaitAck"
    IN  /\ got' = IF d # None /\ inOrder THEN [got EXCEPT ![p] = Append(@, d)] ELSE got
        /\ loose' = IF d # None /\ ~inOrder THEN [loose EXCEPT ![p] = @ \cup {d}] ELSE loose
Delivered(p) == Range(got[p]) \cup loose[p]

\* sdoseq_initCon(): a client's command layer opens the connection.
initCon(p) == \E ok \in BOOLEAN :
    /\ p \in Initiator /\ con[p].st = "Idle" /\ opened < MaxOpen
    /\ Refusable(ok)
    /\ LET k == [con[p] EXCEPT !.used = 1, !.recv = [n |-> 0, c |-> 1],
                               !.send = [n |-> 0, c |-> 0]]
       IN  Install(p, IF ok THEN [k EXCEPT !.st = "Init1", !.timer = 1] ELSE k,
                   Sends(Header(k, None), ok))
    /\ opened' = opened + 1
    /\ UNCHANGED <<heard, due, sent, got, loose, ackd, unkept>>

\* receiveCb() with processState(): a frame arrives.  The acknowledgement it
\* carries is applied first; kErrorRetry makes the loop handle it once more.
Acknowledge(k, f) ==
    [k EXCEPT !.used = 1, !.hist = deleteAckedFrameFromHistory(@, f.rcon.n)]
HistoryData(k) == {k.hist.fr[i].data : i \in Ring} \ {None}
Result(k, f, ok) ==
    LET r == FrameRec(k, f, ok)
    IN  IF r.again THEN FrameRec(Acknowledge(r.con, f), f, ok) ELSE r

receiveCb(p) ==
    /\ chan[p] # <<>>
    /\ \E ok \in BOOLEAN, f \in {Head(chan[p])} :
       \E k \in {Acknowledge(con[p], f)} :
       \E r \in {Result(k, f, ok)} :
         /\ Refusable(ok)
         /\ con' = [con EXCEPT ![p] = r.con]
         /\ chan' = [chan EXCEPT ![p] = Tail(@), ![Peer(p)] = @ \o r.out]
         /\ ackd' = IF Opened(r.con)
                    THEN [ackd EXCEPT ![p] = @ \cup (HistoryData(con[p]) \ HistoryData(k))]
                    ELSE ackd
         /\ Deliver(p, r.data)
         /\ LET opens == Opened(r.con) /\ ~Opened(con[p])
                flag(v) == OpenOnly(r.con, IF r.data # None THEN 1 ELSE IF opens THEN 0 ELSE v)
            IN  heard' = [heard EXCEPT ![p] = flag(@)] /\ due' = [due EXCEPT ![p] = flag(@)]
    /\ UNCHANGED <<sent, opened, unkept>>

\* sdoseq_processEvent() with processState(): the timer of p expires.
processEvent(p) == \E ok \in BOOLEAN :
    /\ con[p].timer = 1
    /\ IF \A q \in Node : chan[q] = <<>> /\ due[q] = 0 THEN Refusable(ok)
       ELSE ok /\ Disturb("late")
    /\ \E r \in {Timeout(con[p], ok)} :
         /\ Install(p, r.con, r.out)
         /\ heard' = [heard EXCEPT ![p] = OpenOnly(r.con, @)]
         /\ due' = [due EXCEPT ![p] = OpenOnly(r.con, @)]
    /\ UNCHANGED <<sent, opened, got, loose, ackd, unkept>>

\* sdoseq_sendData() with a frame.  A server only sends when it was asked.
sendData(p) == \E ok \in BOOLEAN :
    /\ con[p].st = "Connected" /\ sent[p] < MaxSend[p]
    /\ p \in Initiator \/ heard[p] = 1
    /\ Refusable(ok)
    /\ \E r \in {ConnectedSend(con[p], sent[p] + 1, ok)} : Install(p, r.con, r.out)
    /\ sent' = [sent EXCEPT ![p] = @ + 1]
    /\ unkept' = IF ok /\ con[p].hist.free = 0
                 THEN [unkept EXCEPT ![p] = @ \cup {sent[p] + 1}] ELSE unkept
    /\ due' = [due EXCEPT ![p] = 0]
    /\ UNCHANGED <<heard, got, loose, ackd, opened>>

\* sdoseq_sendData() without a frame: the command layer acknowledges what it
\* got.  In WaitAck the call is refused with kErrorSdoSeqConnectionBusy.
sendAck(p) == \E ok \in BOOLEAN :
    /\ due[p] = 1 /\ due' = [due EXCEPT ![p] = 0]
    /\ Refusable(ok)
    /\ IF con[p].st = "Connected"
       THEN Install(p, [con[p] EXCEPT !.timer = 1], Sends(Header(con[p], None), ok))
       ELSE UNCHANGED <<con, chan>>
    /\ UNCHANGED <<sent, opened, heard, got, loose, ackd, unkept>>

\* sdoseq_deleteCon(): an application closes the connection.  The peer is told
\* only in state Connected.
deleteCon(p) ==
    /\ con[p].used = 1 /\ Disturb("closed")
    /\ Install(p, Cleared(HistorySize),
               IF con[p].st = "Connected" THEN CloseFrame(con[p]) ELSE <<>>)
    /\ heard' = [heard EXCEPT ![p] = 0] /\ due' = [due EXCEPT ![p] = 0]
    /\ UNCHANGED <<sent, got, loose, ackd, unkept, opened>>

\* The link loses the oldest frame on the way to p.
Lose(p) ==
    /\ chan[p] # <<>> /\ Disturb("lost")
    /\ chan' = [chan EXCEPT ![p] = Tail(@)]
    /\ UNCHANGED <<con, heard, due, sent, got, loose, ackd, unkept, opened>>

Init ==
    /\ con = [p \in Node |-> Cleared(0)]
    /\ chan = [p \in Node |-> <<>>]
    /\ heard = [p \in Node |-> 0] /\ due = [p \in Node |-> 0]
    /\ sent = [p \in Node |-> 0]
    /\ got = [p \in Node |-> <<>>] /\ loose = [p \in Node |-> {}]
    /\ ackd = [p \in Node |-> {}] /\ unkept = [p \in Node |-> {}]
    /\ opened = 0 /\ fault = [x \in Faults |-> 0]

Next == \E p \in Node :
    initCon(p) \/ receiveCb(p) \/ processEvent(p) \/ sendData(p) \/ sendAck(p)
    \/ deleteCon(p) \/ Lose(p)

Spec == Init /\ [][Next]_vars

\* The handlers run as long as there is something to handle: frames that were
\* not lost arrive, the command layer reacts, and timers expire when nothing
\* else happens.  A client opens, sends and closes only when it likes.
Handle == \E p \in Node : receiveCb(p) \/ sendAck(p) \/ processEvent(p)
FairSpec == Spec /\ WF_vars(Handle)

-----------------------------------------------------------------------------
\* The types, and that nothing is delivered or acknowledged that was not sent.
\* freeEntries may exceed the size of the ring: see HistoryIsWindow.
TypeOK ==
    /\ con \in [Node -> [st : States, recv : Con, send : Con, timer : {0, 1},
                         retry : 0..RetryCount, used : {0, 1},
                         hist : [free : 0..2*HistorySize-1, w : Ring, a : Ring, fr : [Ring -> Frame]]]]
    /\ chan \in [Node -> Seq(Frame)]
    /\ heard \in [Node -> {0, 1}] /\ due \in [Node -> {0, 1}]
    /\ sent \in [Node -> Nat]
    /\ \A p \in Node : /\ Delivered(p) \subseteq 1..sent[Peer(p)]
                       /\ ackd[p] \cup unkept[p] \subseteq 1..sent[p]
    /\ opened \in 0..MaxOpen /\ fault \in [Faults -> 0..MaxFault]

\* The ring of an open connection holds the frames in the order they were sent:
\* as many as are not free, none of them released, with rising numbers.
\* sdoseq.c:1733-1838 keeps freeEntries, ackIndex and writeIndex apart.  It does
\* not hold after a refused frame, whose number is used up, nor after one sent
\* without a copy: an acknowledgement of a number that is missing in the ring
\* leaves deleteAckedFrameFromHistory() through the early return with
\* freeEntries counted up and ackIndex not moved, and the next one counts the
\* same frames once more.  The types hold always.
IsWindow(h) ==
    LET used == HistorySize - h.free
    IN  /\ (h.w + HistorySize - h.a) % HistorySize = used % HistorySize
        /\ \A i \in 0..used-1 : Entry(h, i).data # None
        /\ \A i \in 0..used-2 : Entry(h, i).data < Entry(h, i+1).data
HistoryIsWindow ==
    /\ TypeOK
    /\ \A p \in Node : Opened(con[p]) /\ fault.refused = 0 /\ unkept[p] = {}
                        => IsWindow(con[p].hist)

\* A frame struck from the history of a connection that stays open has been
\* given to the peer's command layer: an acknowledgement never swallows data.
AcknowledgedWasDelivered(p) == ackd[p] \subseteq Delivered(Peer(p))

\* What that takes of the link: no frame is lost or refused, and the numbers do
\* not come round, as a repeated frame carries the acknowledgement it was first
\* sent with.  And it holds within one connection only: a frame on the way when
\* the connection is opened anew acknowledges, with the numbers of the old one,
\* frames of the new one, which also begins with number 0.
NumbersAreFresh == \A p \in Node : sent[p] + Threshold <= SeqMod
Lossless == fault.lost = 0 /\ fault.refused = 0 /\ opened <= 1 /\ NumbersAreFresh

\* Early timers do no harm as long as the peer takes no data in state WaitAck,
\* where sdoseq.c:1352 delivers it without taking over its number.
LosslessMeansDelivered ==
    Lossless => \A p \in Node : loose[Peer(p)] = {} => AcknowledgedWasDelivered(p)

\* Nor does data taken in WaitAck as long as no timer is early: the frames
\* behind it are refused as late ones and asked for again, all of them.  Both
\* together do: the timer repeats the oldest frame alone (sdoseq.c:1263), and
\* an empty frame with the next number, which sdoseq.c:1198 takes for already
\* processed, makes the peer skip the data of that number.
PunctualMeansDelivered ==
    Lossless /\ fault.late = 0 => \A p \in Node : AcknowledgedWasDelivered(p)

\* In state Connected data reaches the command layer at most once and in the
\* order it was sent, whatever is lost, late or sent again
\* (sdoseq.c:1190-1213: next, lost and repeated frames).  Two things break it.
\* A peer without a copy of every frame in its history runs ahead of a missing
\* frame until the numbers come round.  And a frame that is refused uses up its
\* number: the next acknowledge frames carry it, the receiver takes them for the
\* missing frame, and after SeqMod - HistorySize such numbers an old frame that
\* is sent again looks like the next one.
Increasing(s) == \A i, j \in DOMAIN s : i < j => s[i] < s[j]
DeliveredInOrder == \A p \in Node :
    unkept[Peer(p)] = {} /\ fault.refused + HistorySize < SeqMod => Increasing(got[p])

\* A frame waiting in the history is acknowledged or the connection is closed
\* ("max. Timeout 30 sec", sdoseq.c:69), unless a frame was refused or one sent
\* without a copy in the history did not arrive: then the two nodes keep
\* asking for and repeating frames and no timer ever expires.
Waiting(p) == Opened(con[p]) /\ con[p].hist.free < HistorySize
NothingMissing ==
    /\ fault.refused = 0
    /\ \A q \in Node : unkept[q] \subseteq Delivered(Peer(q))
WaitingEnds == \A p \in Node : []<>~(Waiting(p) /\ NothingMissing)
=============================================================================
