----------------------------- MODULE DllMsProofs -----------------------------
(***************************************************************************)
(* The cycle of a managing node, for every number of CNs and however late  *)
(* a thread is.  First the two halves of the TX list: the slot timer       *)
(* always finds a frame, and a list is never written over, with the lock   *)
(* of the DLL or without.  Then, with the lock, the three threads          *)
(* together: a cycle is prepared once, so that the toggle of the driver    *)
(* and the one of the DLL stay in step, the frames that are sent and the   *)
(* node ids they are looked up in are of one cycle, and exactly the CNs    *)
(* that did not answer are reported as lost.                               *)
(***************************************************************************)
EXTENDS DllMs, TLAPS, FiniteSetTheorems, SequenceTheorems

(* The two halves and where the timer thread is in one of them.            *)
Halves == /\ DOMAIN list = 0..1 /\ curList \in 0..1
          /\ entry \in Nat \ {0}

(* The slot timer is armed for a frame, and not while the timer thread     *)
(* goes through the list.                                                  *)
ArmedForAFrame == /\ slotArmed => FrameAt # None
                  /\ timer \in {"tick", "slot"} => ~slotArmed

(* A half that was found free stays so until it is written: a tick clears  *)
(* one half, and never fills any.                                          *)
FoundFree == prep.kind = "copy" => prep.half \in 0..1 /\ list[prep.half] = <<>>

IInv == Halves /\ ArmedForAFrame /\ FoundFree

(* The driver's lists are written by the tick, by edrvcyclic_startCycle()  *)
(* and by edrvcyclic_setNextTxBufferList() only.                           *)
LEMMA InitIInv == Init => IInv
BY DEF Init, IInv, Halves, ArmedForAFrame, FoundFree, None

(* With the lists, the place in them and the timers as they were, and no   *)
(* half found free in the step, the invariant stays.                       *)
LEMMA ListsUntouched ==
    ASSUME IInv, UNCHANGED <<list, curList, entry>>,
           slotArmed' => slotArmed,
           timer' \in {"tick", "slot"} => timer' = timer,
           prep'.kind = "copy" => prep' = prep
    PROVE  IInv'
BY DEF IInv, Halves, ArmedForAFrame, FoundFree, FrameAt

LEMMA TickKeeps ==
    ASSUME IInv, timerHdlCycleCb
    PROVE  IInv'
<1>1. CASE ~ListFinished
  BY <1>1, ListsUntouched DEF timerHdlCycleCb, edrvVars
<1>2. CASE ListFinished
  <2>1. /\ curList' = 1 - curList /\ entry' = 1
        /\ list' = [list EXCEPT ![curList] = <<>>]
        /\ slotArmed' = slotArmed /\ prep' = prep
    BY <1>2 DEF timerHdlCycleCb
  <2>2. ~slotArmed
    BY <1>2 DEF IInv, ArmedForAFrame, ListFinished
  <2>3. Halves'
    BY <2>1 DEF IInv, Halves
  <2>4. FoundFree'
    BY <2>1 DEF IInv, Halves, FoundFree
  <2> QED
    BY <2>1, <2>2, <2>3, <2>4 DEF IInv, ArmedForAFrame
<1> QED
  BY <1>1, <1>2

LEMMA ListGoesOn ==
    ASSUME IInv, processTxBufferList
    PROVE  IInv'
<1>1. ~slotArmed /\ list' = list /\ curList' = curList /\ prep' = prep
  BY DEF processTxBufferList, IInv, ArmedForAFrame
<1>2. CASE FrameAt # None /\ slotArmed' /\ entry' = entry
  <2>1. timer' \in {"sync", "idle"}
    BY <1>2, <1>1 DEF processTxBufferList, Refuse
  <2> QED
    BY <1>1, <1>2, <2>1 DEF IInv, Halves, ArmedForAFrame, FoundFree, FrameAt
<1>3. CASE ~slotArmed' /\ entry' \in {entry, entry + 1}
  BY <1>1, <1>3 DEF IInv, Halves, ArmedForAFrame, FoundFree
<1>4. \/ FrameAt # None /\ slotArmed' /\ entry' = entry
      \/ ~slotArmed' /\ entry' \in {entry, entry + 1}
  BY <1>1 DEF processTxBufferList, Transmitted, Refuse
<1> QED
  BY <1>2, <1>3, <1>4

LEMMA SlotKeeps ==
    ASSUME IInv, timerHdlSlotCb
    PROVE  IInv'
<1>1. /\ list' = list /\ curList' = curList /\ prep' = prep
      /\ slotArmed' = FALSE /\ entry' \in {entry, entry + 1}
  BY DEF timerHdlSlotCb, Transmitted
<1> QED
  BY <1>1 DEF IInv, Halves, ArmedForAFrame, FoundFree

LEMMA CheckKeeps ==
    ASSUME IInv, CheckNextTxBufferList
    PROVE  IInv'
<1>1. /\ list' = list /\ curList' = curList /\ entry' = entry
      /\ slotArmed' = slotArmed /\ timer' = timer
  BY DEF CheckNextTxBufferList, edrvVars, timers
<1>2. FoundFree'
  <2>1. CASE list[1 - curList] = <<>>
    BY <1>1, <2>1 DEF CheckNextTxBufferList, FoundFree, IInv, Halves
  <2>2. CASE list[1 - curList] # <<>>
    BY <2>2 DEF CheckNextTxBufferList, FoundFree, None
  <2> QED
    BY <2>1, <2>2
<1> QED
  BY <1>1, <1>2 DEF IInv, Halves, ArmedForAFrame, FrameAt

(* Written is the half the timer thread is not in, or the empty one it is  *)
(* in since a tick; no slot timer is armed for an empty half.              *)
LEMMA CopyKeeps ==
    ASSUME IInv, CopyNextTxBufferList
    PROVE  IInv'
<1>1. /\ prep' = None /\ list' = [list EXCEPT ![prep.half] = prep.frames]
      /\ curList' = curList /\ entry' = entry
      /\ slotArmed' = slotArmed /\ timer' = timer
  BY DEF CopyNextTxBufferList, timers
<1>2. prep.half \in 0..1 /\ list[prep.half] = <<>>
  BY DEF CopyNextTxBufferList, IInv, FoundFree
<1>3. Halves' /\ FoundFree'
  BY <1>1 DEF IInv, Halves, FoundFree, None
<1>4. slotArmed' => FrameAt' # None
  <2>1. CASE prep.half = curList
    <3>1. FrameAt = None
      BY <1>2, <2>1 DEF IInv, Halves, FrameAt
    <3> QED
      BY <1>1, <3>1 DEF IInv, ArmedForAFrame
  <2>2. CASE prep.half # curList
    <3>1. list'[curList] = list[curList]
      BY <1>1, <1>2, <2>2 DEF IInv, Halves
    <3> QED
      BY <1>1, <3>1 DEF IInv, ArmedForAFrame, FrameAt
  <2> QED
    BY <2>1, <2>2
<1> QED
  BY <1>1, <1>3, <1>4 DEF IInv, ArmedForAFrame

LEMMA StartKeeps ==
    ASSUME IInv, SocTrig
    PROVE  IInv'
<1>1. /\ list' = [h \in 0..1 |-> <<>>] /\ curList' = 0 /\ entry' = 1
      /\ ~slotArmed' /\ prep' = prep
  BY DEF SocTrig
<1> QED
  BY <1>1 DEF IInv, Halves, ArmedForAFrame, FoundFree

LEMMA EventsKeep ==
    ASSUME IInv, HandleEvent
    PROVE  IInv'
<1>1. UNCHANGED <<list, curList, entry, timer>>
  BY DEF HandleEvent, edrvVars
<1>2. (slotArmed' => slotArmed) /\ (prep'.kind = "copy" => prep' = prep)
  BY DEF HandleEvent, CycleFinish, ProcessSync, handleMnCycTimeExceed,
         CycleError, None
<1> QED
  BY <1>1, <1>2, ListsUntouched

LEMMA NextKeeps ==
    ASSUME IInv, [Next]_vars
    PROVE  IInv'
<1>1. CASE cbMnSyncHandler
  BY <1>1, ListsUntouched DEF cbMnSyncHandler, ReportLosses, SwitchCycle, edrvVars
<1>2. CASE RxThread
  BY <1>2, ListsUntouched DEF RxThread, RxSoa, RxPres, edrvVars, timers
<1>3. CASE Fill
  <2>1. prep'.kind = "check"
    BY <1>3 DEF Fill
  <2> QED
    BY <1>3, <2>1, ListsUntouched DEF Fill, edrvVars, timers
<1>4. CASE processStartReducedCycle \/ EnterFullCycle \/ ChangeNodes
  BY <1>4, ListsUntouched
     DEF processStartReducedCycle, EnterFullCycle, ChangeNodes, edrvVars, timers
<1>5. CASE CnAnswers
  BY <1>5, ListsUntouched DEF CnAnswers, edrvVars, timers
<1>6. CASE UNCHANGED vars
  BY <1>6, ListsUntouched DEF vars, edrvVars, timers
<1> QED
  BY <1>1, <1>2, <1>3, <1>4, <1>5, <1>6, TickKeeps, ListGoesOn, SlotKeeps,
     CheckKeeps, CopyKeeps, StartKeeps, EventsKeep
     DEF Next, TimerThread, EventThread

(* The lists, the slot timer and the preparation are always as described.  *)
THEOREM Invariant == Spec => []IInv
<1>1. IInv /\ [Next]_vars => IInv'
  BY NextKeeps
<1> QED
  BY <1>1, InitIInv, PTL DEF Spec

(* The slot timer never expires without a frame to send.                   *)
THEOREM SlotTimerHasItsFrame == Spec => []SlotTimerHasAFrame
<1>1. IInv => SlotTimerHasAFrame
  BY DEF IInv, ArmedForAFrame, SlotTimerHasAFrame
<1> QED
  BY <1>1, Invariant, PTL

(* A TX list is never written over, although the half it goes to is        *)
(* checked earlier and without a lock.                                     *)
THEOREM ListsAreKept == Spec => NoListIsOverwritten
<1>1. IInv => (CopyNextTxBufferList => list[prep.half] = <<>>)
  BY DEF IInv, FoundFree, CopyNextTxBufferList
<1> QED
  BY <1>1, Invariant, PTL DEF NoListIsOverwritten

-----------------------------------------------------------------------------
(* The order of the nodes: each of them has a place of its own, so that a  *)
(* list holds each of them once.                                           *)
Nodes == CN \cup {MN}

LEMMA NodesFinite ==
    ASSUME NEW S \in SUBSET Nodes
    PROVE  IsFiniteSet(S) /\ Cardinality(S) \in Nat /\ Cardinality(S) <= Cardinality(CN) + 1
<1>1. IsFiniteSet(CN)
  <2>1. 1 \in Int /\ 239 \in Int
    OBVIOUS
  <2>2. IsFiniteSet(1..239)
    BY <2>1, FS_Interval, Zenon
  <2>3. CN \in SUBSET (1..239)
    BY DllMsAssumption
  <2> QED
    BY <2>2, <2>3, FS_Subset, Zenon
<1>2. MN \notin CN
  BY DllMsAssumption
<1>3. IsFiniteSet(Nodes) /\ Cardinality(Nodes) = Cardinality(CN) + 1
  BY <1>1, <1>2, FS_AddElement DEF Nodes
<1> QED
  BY <1>1, <1>3, FS_Subset, FS_CardinalityType

Upto(S, n) == {m \in S : m = MN \/ (n # MN /\ m <= n)}

LEMMA PlaceIsInjective ==
    ASSUME NEW S \in SUBSET Nodes
    PROVE  /\ \A n \in S : Place(S, n) \in 1..Cardinality(S)
           /\ \A m, n \in S : Place(S, m) = Place(S, n) => m = n
<1>0. /\ MN \in Nat /\ \A n \in S : n \in Nat /\ (n # MN => n < MN)
      /\ \A n \in S : Place(S, n) = Cardinality(Upto(S, n))
  BY DllMsAssumption DEF Nodes, Place, Upto
<1>1. ASSUME NEW n \in S
      PROVE  Place(S, n) \in 1..Cardinality(S)
  <2>1. n \in Upto(S, n) /\ Upto(S, n) \subseteq S
    BY <1>0 DEF Upto
  <2>2. IsFiniteSet(S) /\ IsFiniteSet(Upto(S, n))
    BY <2>1, NodesFinite, FS_Subset
  <2>3. Cardinality(Upto(S, n)) <= Cardinality(S) /\ Cardinality(Upto(S, n)) # 0
    BY <2>1, <2>2, FS_Subset, FS_EmptySet
  <2>4. Cardinality(Upto(S, n)) \in Nat /\ Cardinality(S) \in Nat
    BY <2>2, FS_CardinalityType
  <2> QED
    BY <1>0, <2>3, <2>4
<1>2. ASSUME NEW m \in S, NEW n \in S, m # n, n # MN, m = MN \/ m < n
      PROVE  Place(S, m) # Place(S, n)
  <2>1. Upto(S, m) \subseteq Upto(S, n) /\ n \in Upto(S, n) /\ n \notin Upto(S, m)
    BY <1>0, <1>2 DEF Upto
  <2>2. IsFiniteSet(Upto(S, n))
    BY NodesFinite, FS_Subset DEF Upto
  <2>3. Upto(S, m) # Upto(S, n)
    BY <2>1
  <2>4. Cardinality(Upto(S, m)) # Cardinality(Upto(S, n))
    BY <2>1, <2>2, <2>3, FS_Subset
  <2> QED
    BY <1>0, <2>4
<1>3. ASSUME NEW m \in S, NEW n \in S, m # n
      PROVE  \/ n # MN /\ (m = MN \/ m < n)
             \/ m # MN /\ (n = MN \/ n < m)
  BY <1>0, <1>3
<1> QED
  BY <1>1, <1>2, <1>3

LEMMA OrderHoldsAll ==
    ASSUME NEW S \in SUBSET Nodes
    PROVE  /\ Order(S) \in [1..Cardinality(S) -> S]
           /\ \A i, j \in 1..Cardinality(S) : Order(S)[i] = Order(S)[j] => i = j
<1>. DEFINE f == [n \in S |-> Place(S, n)]
            T == 1..Cardinality(S)
<1>1. IsFiniteSet(S) /\ Cardinality(S) \in Nat
  BY NodesFinite
<1>2. IsFiniteSet(T) /\ Cardinality(T) = Cardinality(S)
  <2>1. Cardinality(S) \in Int /\ 1 \in Int
    BY <1>1
  <2>2. Cardinality(T) = IF 1 > Cardinality(S) THEN 0 ELSE Cardinality(S) - 1 + 1
    BY <2>1, FS_Interval, Zenon
  <2> QED
    BY <1>1, <2>1, <2>2, FS_Interval, SMT
<1>3. f \in Injection(S, T)
  BY PlaceIsInjective DEF Injection, IsInjective
<1>4. f \in Surjection(S, T)
  <2> HIDE DEF f, T
  <2> QED BY <1>1, <1>2, <1>3, FS_Injection
<1>5. \A i \in T : \E n \in S : Place(S, n) = i
  BY <1>4 DEF Surjection
<1>6. \A i \in T : Order(S)[i] \in S /\ Place(S, Order(S)[i]) = i
  BY <1>5 DEF Order
<1> QED
  BY <1>6 DEF Order

-----------------------------------------------------------------------------
(* The types of the variables.                                             *)
TxFrame == {f \in [kind : {"SoC", "PResMn", "PReq", "SoA"}, cn : Nat, off : 0..1, waits : BOOLEAN] :
               f.kind = "PReq" => f.cn \in CN}
Captured == {f \in [kind : {"SoA", "PRes"}, cn : Nat, off : 0..1, waits : BOOLEAN] :
               f.kind = "PRes" => f.cn \in CN}
Events == {"CycleFinish", "Sync", "CycTimeExceed", "CycleError"}
Index == 0..Cardinality(CN) + 1

EdrvTyped == /\ list \in [0..1 -> Seq(TxFrame)] /\ curList \in 0..1 /\ entry \in Nat \ {0}
             /\ timer \in {"idle", "tick", "slot", "sync", "switch"}
PrepTyped == /\ prep.kind \in {"none", "fill", "check", "copy"}
             /\ prep.kind = "none" => prep = None
             /\ prep.kind \in {"check", "copy"} => prep.frames \in Seq(TxFrame)
DllTyped == /\ offset \in 0..1 /\ syncNodeId \in Nat /\ waits \in BOOLEAN /\ nodes \subseteq Nodes
            /\ curNodeIndex \in Nat /\ aCnNodeIdList \in [0..1 -> [Index -> Nat]]
QueuesTyped == rx \in Seq(Captured) /\ ev \in Seq(Events)
HistTyped == /\ wire \subseteq CN \X (0..1) /\ asked \subseteq CN \X (0..1)
             /\ answered \subseteq CN \X (0..1) /\ reported \subseteq CN
             /\ disturbed \in 0..2
Typed == EdrvTyped /\ PrepTyped /\ DllTyped /\ QueuesTyped /\ HistTyped

(* The list of a cycle and its node ids: the PReqs are for the CNs of the  *)
(* node ids, in their order, and each CN is in them once.                  *)
AllOf(fs, o) == \A j \in 1..Len(fs) : fs[j].off = o
Well(ids, n) ==
    /\ n \in Index /\ ids[n] = C_ADR_INVALID
    /\ \A k \in 0..n-1 : ids[k] # C_ADR_INVALID
    /\ \A k, l \in 0..n-1 : ids[k] \in CN /\ ids[k] = ids[l] => k = l
Fits(fs, ids) ==
    /\ Len(fs) >= 2 /\ Well(ids, Len(fs) - 2)
    /\ fs[1].kind = "SoC" /\ fs[Len(fs)].kind = "SoA"
    /\ \A k \in 0..Len(fs)-3 :
         /\ ids[k] \in CN <=> fs[k + 2].kind = "PReq"
         /\ fs[k + 2].kind = "PReq" => fs[k + 2].cn = ids[k]

LEMMA FramesPrepared ==
    ASSUME DllTyped
    PROVE  LET n == Cardinality(nodes)
               order == Order(nodes)
           IN  /\ Frames \in Seq(TxFrame) /\ Len(Frames) = n + 2 /\ AllOf(Frames, 1 - offset)
               /\ Frames[1].kind = "SoC" /\ Frames[n + 2].kind = "SoA"
               /\ waits => Frames[2].waits
               /\ \A k \in 0..n-1 :
                    /\ Frames[k + 2].kind = IF order[k + 1] = MN THEN "PResMn" ELSE "PReq"
                    /\ Frames[k + 2].cn = order[k + 1]
<1>. DEFINE n == Cardinality(nodes)
            order == Order(nodes)
            late(i) == IF i = 1 THEN waits ELSE order[i-1] # MN
            frame(kind, cn, w) ==
              [kind |-> kind, cn |-> cn, off |-> nextTxBufferOffset, waits |-> w]
            mid == [i \in DOMAIN order |->
                     frame(IF order[i] = MN THEN "PResMn" ELSE "PReq", order[i], late(i))]
            soc == frame("SoC", 0, FALSE)
            soa == frame("SoA", 0, late(Len(order) + 1))
<1>1. /\ order \in [1..n -> nodes] /\ n \in Nat /\ nodes \subseteq Nodes
      /\ \A m \in nodes : m \in Nat /\ (m # MN => m \in CN)
  <2>1. nodes \in SUBSET Nodes
    BY DEF DllTyped
  <2>2. order \in [1..n -> nodes] /\ n \in Nat
    BY <2>1, OrderHoldsAll, NodesFinite
  <2> QED
    BY <2>1, <2>2, DllMsAssumption DEF Nodes
<1>. HIDE DEF order, n
<1>2. DOMAIN order = 1..n
  BY <1>1
<1>3. nextTxBufferOffset \in 0..1 /\ nextTxBufferOffset = 1 - offset
  BY DEF DllTyped, nextTxBufferOffset
<1>4. nextTxBufferOffset \in 0..1 /\ (\A i : late(i) \in BOOLEAN) /\ late(1) = waits
  <2>1. /\ \A i : late(i) = waits \/ late(i) = FALSE \/ late(i) = TRUE
        /\ late(1) = waits
    OBVIOUS
  <2> HIDE DEF late
  <2> QED
    BY <1>3, <2>1 DEF DllTyped
<1>. HIDE DEF late
<1>5. soc \in TxFrame /\ soa \in TxFrame
  BY <1>4 DEF TxFrame
<1>6. \A i \in 1..n : mid[i] \in TxFrame
  BY <1>1, <1>2, <1>4 DEF TxFrame
<1>7. mid \in Seq(TxFrame) /\ Len(mid) = n
  <2>1. mid \in [1..n -> TxFrame]
    BY <1>2, <1>6
  <2> HIDE DEF mid
  <2> QED BY <1>1, <2>1
<1>8. Frames = <<soc>> \o mid \o <<soa>>
  BY DEF Frames, order, late
<1>9. /\ soc.kind = "SoC" /\ soc.off = 1 - offset /\ soa.kind = "SoA" /\ soa.off = 1 - offset
      /\ \A i \in 1..n : /\ mid[i].kind = IF order[i] = MN THEN "PResMn" ELSE "PReq"
                         /\ mid[i].cn = order[i] /\ mid[i].off = 1 - offset
  BY <1>2, <1>3
<1>16. (n = 0 => soa.waits = waits) /\ (n # 0 => mid[1].waits = waits)
  <2>1. Len(order) = n
    BY <1>1, <1>2
  <2> QED BY <1>1, <1>2, <1>4, <2>1
<1>. HIDE DEF soc, soa, mid, frame
<1>. DEFINE a == <<soc>> \o mid
            b == a \o <<soa>>
<1>10. /\ <<soc>> \in Seq(TxFrame) /\ Len(<<soc>>) = 1 /\ <<soc>>[1] = soc
       /\ <<soa>> \in Seq(TxFrame) /\ Len(<<soa>>) = 1 /\ <<soa>>[1] = soa
  BY <1>5
<1>11. /\ a \in Seq(TxFrame) /\ Len(a) = n + 1
       /\ a[1] = soc /\ \A i \in 1..n : a[i + 1] = mid[i]
  <2>1. /\ a \in Seq(TxFrame) /\ Len(a) = 1 + n
        /\ \A i \in 1..1+n : a[i] = IF i <= 1 THEN <<soc>>[i] ELSE mid[i - 1]
    BY <1>7, <1>10, ConcatProperties
  <2> HIDE DEF a
  <2> QED BY <1>1, <1>10, <2>1
<1>. HIDE DEF a
<1>12. /\ b \in Seq(TxFrame) /\ Len(b) = n + 2
       /\ b[1] = soc /\ b[n + 2] = soa /\ \A i \in 1..n : b[i + 1] = mid[i]
  <2>1. /\ b \in Seq(TxFrame) /\ Len(b) = n + 1 + 1
        /\ \A i \in 1..n+1+1 : b[i] = IF i <= n + 1 THEN a[i] ELSE <<soa>>[i - (n + 1)]
    BY <1>10, <1>11, ConcatProperties
  <2> HIDE DEF b
  <2> QED BY <1>1, <1>10, <1>11, <2>1
<1>13. Frames = b
  BY <1>8 DEF a
<1>. HIDE DEF b
<1>14. AllOf(b, 1 - offset)
  <2> SUFFICES ASSUME NEW j \in 1..n+2 PROVE b[j].off = 1 - offset
    BY <1>12 DEF AllOf
  <2>1. CASE j = 1 \/ j = n + 2
    BY <1>9, <1>12, <2>1
  <2>2. CASE j # 1 /\ j # n + 2
    <3>1. j - 1 \in 1..n /\ (j - 1) + 1 = j
      BY <1>1, <2>2
    <3> QED BY <1>9, <1>12, <3>1
  <2> QED BY <2>1, <2>2
<1>15. ASSUME NEW k \in 0..n-1
       PROVE  /\ b[k + 2].kind = IF order[k + 1] = MN THEN "PResMn" ELSE "PReq"
              /\ b[k + 2].cn = order[k + 1]
  <2>1. k + 1 \in 1..n /\ (k + 1) + 1 = k + 2
    BY <1>1
  <2> QED BY <1>9, <1>12, <2>1
<1>17. waits => b[2].waits
  <2>1. CASE n = 0
    <3>1. b[2] = soa
      BY <1>12, <2>1
    <3> QED BY <1>16, <2>1, <3>1
  <2>2. CASE n # 0
    <3>1. b[1 + 1] = mid[1] /\ 1 + 1 = 2
      BY <1>1, <1>12, <2>2
    <3> QED BY <1>16, <2>2, <3>1
  <2> QED BY <2>1, <2>2
<1>. QED BY <1>9, <1>12, <1>13, <1>14, <1>15, <1>17 DEF n, order

LEMMA NodeIdsPrepared ==
    ASSUME DllTyped, NEW ids \in [Index -> Nat]
    PROVE  LET n == Cardinality(nodes)
               order == Order(nodes)
           IN  /\ NodeIds(ids) \in [Index -> Nat]
               /\ NodeIds(ids)[n] = C_ADR_INVALID
               /\ \A k \in 0..n-1 :
                    NodeIds(ids)[k] = IF order[k + 1] = MN THEN C_ADR_BROADCAST ELSE order[k + 1]
<1>. DEFINE n == Cardinality(nodes)
            order == Order(nodes)
            m == [i \in DOMAIN order |-> IF order[i] = MN THEN C_ADR_BROADCAST ELSE order[i]]
            new == m \o <<C_ADR_INVALID>>
<1>1. /\ order \in [1..n -> nodes] /\ n \in Nat /\ n <= Cardinality(CN) + 1
      /\ \A x \in nodes : x \in Nat
  BY OrderHoldsAll, NodesFinite, DllMsAssumption DEF DllTyped, Nodes
<1>2. NodeIds(ids) = [i \in Index |-> IF i < Len(new) THEN new[i + 1] ELSE ids[i]]
  BY DEF NodeIds
<1>. HIDE DEF order, n
<1>3. m \in Seq(Nat) /\ Len(m) = n
      /\ \A i \in 1..n : m[i] = IF order[i] = MN THEN C_ADR_BROADCAST ELSE order[i]
  <2>1. m \in [1..n -> Nat]
    BY <1>1 DEF C_ADR_BROADCAST
  <2>2. \A i \in 1..n : m[i] = IF order[i] = MN THEN C_ADR_BROADCAST ELSE order[i]
    BY <1>1
  <2> HIDE DEF m
  <2> QED BY <1>1, <2>1, <2>2
<1>. HIDE DEF m
<1>4. <<C_ADR_INVALID>> \in Seq(Nat) /\ Len(<<C_ADR_INVALID>>) = 1 /\ <<C_ADR_INVALID>>[1] = C_ADR_INVALID
  BY DEF C_ADR_INVALID
<1>5. /\ new \in Seq(Nat) /\ Len(new) = n + 1
      /\ \A i \in 1..n : new[i] = m[i]
      /\ new[n + 1] = C_ADR_INVALID
  <2>1. /\ new \in Seq(Nat) /\ Len(new) = n + 1
        /\ \A i \in 1..n+1 : new[i] = IF i <= n THEN m[i] ELSE <<C_ADR_INVALID>>[i - n]
    BY <1>3, <1>4, ConcatProperties
  <2> HIDE DEF new
  <2> QED BY <1>1, <1>4, <2>1
<1>. HIDE DEF new
<1>6. \A i \in 1..n+1 : new[i] \in Nat
  BY <1>5
<1>7. NodeIds(ids) \in [Index -> Nat]
  <2>1. ASSUME NEW i \in Index PROVE (IF i < Len(new) THEN new[i + 1] ELSE ids[i]) \in Nat
    <3>1. i \in Nat
      BY DEF Index
    <3>2. i < Len(new) => i + 1 \in 1..n+1
      BY <1>1, <1>5, <3>1
    <3> QED BY <1>6, <3>2
  <2> QED BY <1>2, <2>1
<1>8. NodeIds(ids)[n] = C_ADR_INVALID
  <2>1. n \in Index
    BY <1>1 DEF Index
  <2> QED BY <1>1, <1>2, <1>5, <2>1
<1>9. ASSUME NEW k \in 0..n-1
      PROVE  NodeIds(ids)[k] = IF order[k + 1] = MN THEN C_ADR_BROADCAST ELSE order[k + 1]
  <2>0. Cardinality(CN) \in Nat
    BY NodesFinite DEF Nodes
  <2>1. k \in Index /\ k < Len(new) /\ k + 1 \in 1..n
    BY <1>1, <1>5, <2>0 DEF Index
  <2> QED BY <1>2, <1>3, <1>5, <2>1
<1>. QED BY <1>7, <1>8, <1>9 DEF n, order

(* What is prepared fits.                                                  *)
LEMMA PreparedFits ==
    ASSUME DllTyped, NEW ids \in [Index -> Nat]
    PROVE  Fits(Frames, NodeIds(ids))
<1>. DEFINE n == Cardinality(nodes)
            order == Order(nodes)
            fs == Frames
            new == NodeIds(ids)
<1>1. /\ order \in [1..n -> nodes] /\ n \in Nat /\ n <= Cardinality(CN) + 1
      /\ \A i, j \in 1..n : order[i] = order[j] => i = j
      /\ \A x \in nodes : x \in Nat /\ (x = MN \/ x \in CN)
      /\ MN \notin CN /\ \A x \in CN : x # 0 /\ x # 255 /\ x \in Nat
  <2>1. nodes \in SUBSET Nodes
    BY DEF DllTyped
  <2>2. /\ order \in [1..n -> nodes] /\ n \in Nat /\ n <= Cardinality(CN) + 1
        /\ \A i, j \in 1..n : order[i] = order[j] => i = j
    BY <2>1, OrderHoldsAll, NodesFinite
  <2>3. /\ \A x \in nodes : x \in Nat /\ (x = MN \/ x \in CN)
        /\ MN \notin CN /\ \A x \in CN : x # 0 /\ x # 255 /\ x \in Nat
    BY <2>1, DllMsAssumption DEF Nodes
  <2> QED
    BY <2>2, <2>3
<1>2. /\ Len(fs) = n + 2 /\ fs[1].kind = "SoC" /\ fs[n + 2].kind = "SoA"
      /\ \A k \in 0..n-1 :
           /\ fs[k + 2].kind = IF order[k + 1] = MN THEN "PResMn" ELSE "PReq"
           /\ fs[k + 2].cn = order[k + 1]
  BY FramesPrepared
<1>3. /\ new[n] = 0
      /\ \A k \in 0..n-1 : new[k] = IF order[k + 1] = MN THEN 255 ELSE order[k + 1]
  BY NodeIdsPrepared DEF C_ADR_INVALID, C_ADR_BROADCAST
<1>. HIDE DEF n, order, fs, new
<1>4. \A k \in 0..n-1 : /\ k + 1 \in 1..n /\ order[k + 1] \in nodes
  BY <1>1
<1>5. \A k \in 0..n-1 : new[k] # 0 /\ (new[k] \in CN <=> order[k + 1] # MN)
                        /\ (new[k] \in CN => new[k] = order[k + 1])
  <2> SUFFICES ASSUME NEW k \in 0..n-1
      PROVE new[k] # 0 /\ (new[k] \in CN <=> order[k + 1] # MN)
            /\ (new[k] \in CN => new[k] = order[k + 1])
    OBVIOUS
  <2>1. order[k + 1] \in nodes /\ new[k] = IF order[k + 1] = MN THEN 255 ELSE order[k + 1]
    BY <1>3, <1>4
  <2> DEFINE x == order[k + 1]
  <2> HIDE DEF x
  <2> QED BY <1>1, <2>1 DEF x
<1>6. Well(new, n)
  <2>1. n \in Index
    BY <1>1 DEF Index
  <2>2. ASSUME NEW k \in 0..n-1, NEW l \in 0..n-1, new[k] \in CN, new[k] = new[l]
        PROVE  k = l
    <3>1. order[k + 1] = order[l + 1]
      BY <1>5, <2>2
    <3>2. k + 1 = l + 1
      BY <1>1, <1>4, <3>1
    <3> QED BY <1>1, <3>2
  <2> QED BY <1>3, <1>5, <2>1, <2>2 DEF Well, C_ADR_INVALID
<1>7. Len(fs) >= 2 /\ Len(fs) - 2 = n /\ Len(fs) - 3 = n - 1
  BY <1>1, <1>2
<1>8. \A k \in 0..n-1 : /\ new[k] \in CN <=> fs[k + 2].kind = "PReq"
                        /\ fs[k + 2].kind = "PReq" => fs[k + 2].cn = new[k]
  BY <1>2, <1>5
<1>9. Fits(fs, new)
  BY <1>2, <1>6, <1>7, <1>8 DEF Fits
<1>. QED BY <1>9 DEF fs, new

LEMMA NodeIdIsNumber == \A n \in CN : n \in Nat /\ n # C_ADR_INVALID
BY DllMsAssumption DEF C_ADR_INVALID

LEMMA InitTyped == Init => Typed
<1> SUFFICES ASSUME Init PROVE Typed
  OBVIOUS
<1>1. EdrvTyped
  BY DEF Init, EdrvTyped
<1>2. PrepTyped
  BY DEF Init, PrepTyped, None
<1>3. DllTyped
  <2>1. Cardinality(CN) \in Nat
    BY NodesFinite DEF Nodes
  <2>2. aCnNodeIdList \in [0..1 -> [Index -> Nat]]
    BY <2>1 DEF Init, Index, C_ADR_INVALID
  <2> QED
    BY <2>2, DllMsAssumption DEF Init, DllTyped
<1>4. QueuesTyped /\ HistTyped
  BY DEF Init, QueuesTyped, HistTyped
<1> QED
  BY <1>1, <1>2, <1>3, <1>4 DEF Typed

(* The frame the list is at is one of it.                                  *)
LEMMA FrameAtTyped ==
    ASSUME Typed, FrameAt # None
    PROVE  /\ FrameAt \in TxFrame /\ entry \in 1..Len(list[curList])
           /\ FrameAt = list[curList][entry]
<1>1. list[curList] \in Seq(TxFrame) /\ entry \in Nat \ {0}
  BY DEF Typed, EdrvTyped
<1>2. entry <= Len(list[curList])
  BY DEF FrameAt
<1>3. Len(list[curList]) \in Nat
  BY <1>1, LenProperties
<1>4. entry \in 1..Len(list[curList])
  BY <1>1, <1>2, <1>3
<1> QED
  BY <1>1, <1>2, <1>4, ElementOfSeq DEF FrameAt

LEMMA TransmittedTyped ==
    ASSUME Typed, FrameAt # None, Transmitted(FrameAt)
    PROVE  /\ entry' \in Nat \ {0} /\ rx' \in Seq(Captured)
           /\ wire' \subseteq CN \X (0..1) /\ asked' \subseteq CN \X (0..1)
<1>. DEFINE f == FrameAt
<1>1. f \in TxFrame
  BY FrameAtTyped
<1>2. Transmitted(f)
  OBVIOUS
<1>. HIDE DEF f
<1>3. f.kind = "SoA" => f \in Captured
  BY <1>1 DEF TxFrame, Captured
<1>4. f.kind = "PReq" => <<f.cn, f.off>> \in CN \X (0..1)
  BY <1>1 DEF TxFrame
<1> QED
  BY <1>2, <1>3, <1>4 DEF Transmitted, Typed, EdrvTyped, QueuesTyped, HistTyped

LEMMA PostTyped ==
    ASSUME Typed, NEW e \in Events
    PROVE  Append(ev, e) \in Seq(Events)
BY DEF Typed, QueuesTyped

LEMMA TimerTyped ==
    ASSUME Typed, timerHdlCycleCb \/ processTxBufferList \/ timerHdlSlotCb
    PROVE  Typed'
<1>1. PrepTyped' /\ DllTyped' /\ answered' = answered /\ reported' = reported
      /\ disturbed' = disturbed
  BY DEF Typed, PrepTyped, DllTyped, timerHdlCycleCb, processTxBufferList, timerHdlSlotCb,
         config, nodeVars, histVars
<1>2. ev' \in Seq(Events)
  <2>1. ev' = ev \/ ev' = Append(ev, "CycTimeExceed")
    BY DEF timerHdlCycleCb, processTxBufferList, timerHdlSlotCb, Refuse,
           dllk_cbCyclicError, PostEvent
  <2> QED
    BY <2>1, PostTyped DEF Events, Typed, QueuesTyped
<1>3. CASE timerHdlCycleCb
  <2>1. EdrvTyped'
    <3>1. \/ UNCHANGED <<list, curList, entry, timer>>
          \/ /\ curList' = 1 - curList /\ entry' = 1 /\ timer' \in {timer, "tick"}
             /\ list' = [list EXCEPT ![curList] = <<>>]
      BY <1>3 DEF timerHdlCycleCb, edrvVars
    <3>2. <<>> \in Seq(TxFrame)
      BY EmptySeq
    <3>3. EdrvTyped
      BY DEF Typed
    <3>4. curList' \in 0..1 /\ entry' \in Nat \ {0} /\ timer' \in {"idle", "tick", "slot", "sync", "switch"}
      BY <3>1, <3>3 DEF EdrvTyped
    <3>5. list' \in [0..1 -> Seq(TxFrame)]
      BY <3>1, <3>2, <3>3 DEF EdrvTyped
    <3> QED
      BY <3>4, <3>5 DEF EdrvTyped
  <2>2. rx' = rx /\ asked' = asked /\ wire' \subseteq wire
    BY <1>3 DEF timerHdlCycleCb, histVars
  <2> QED
    BY <1>1, <1>2, <2>1, <2>2 DEF Typed, QueuesTyped, HistTyped
<1>4. CASE processTxBufferList
  <2>1. list' = list /\ curList' = curList /\ timer' \in {timer, "sync", "idle"}
    BY <1>4 DEF processTxBufferList
  <2>2. \/ FrameAt # None /\ Transmitted(FrameAt)
        \/ UNCHANGED <<entry, rx, wire, asked>>
    BY <1>4 DEF processTxBufferList, Refuse
  <2> QED
    BY <1>1, <1>2, <2>1, <2>2, TransmittedTyped DEF Typed, EdrvTyped, QueuesTyped, HistTyped
<1>5. CASE timerHdlSlotCb
  <2>1. list' = list /\ curList' = curList /\ timer' \in {timer, "slot"}
    BY <1>5 DEF timerHdlSlotCb
  <2>2. \/ FrameAt # None /\ Transmitted(FrameAt)
        \/ UNCHANGED <<entry, rx, wire, asked>>
    BY <1>5 DEF timerHdlSlotCb
  <2> QED
    BY <1>1, <1>2, <2>1, <2>2, TransmittedTyped DEF Typed, EdrvTyped, QueuesTyped, HistTyped
<1> QED
  BY <1>3, <1>4, <1>5

LEMMA SyncTyped ==
    ASSUME Typed, cbMnSyncHandler
    PROVE  Typed'
<1>1. CASE ReportLosses
  BY <1>1 DEF ReportLosses, Typed, EdrvTyped, PrepTyped, DllTyped, QueuesTyped, HistTyped,
     config, edrvVars, nodeVars, histVars
<1>2. CASE SwitchCycle
  <2>1. EdrvTyped' /\ PrepTyped'
    BY <1>2 DEF Typed, EdrvTyped, PrepTyped, SwitchCycle, edrvVars
  <2>2. DllTyped'
    BY <1>2 DEF Typed, DllTyped, SwitchCycle, config
  <2>3. QueuesTyped'
    BY <1>2, PostTyped DEF Typed, QueuesTyped, SwitchCycle, PostEvent, Events
  <2>4. HistTyped'
    <3>1. wire' = wire /\ reported' = {} /\ asked' \subseteq asked /\ answered' \subseteq answered
      BY <1>2 DEF SwitchCycle
    <3>2. disturbed' \in 0..2
      BY <1>2 DEF SwitchCycle, Typed, HistTyped
    <3> QED
      BY <3>1, <3>2 DEF Typed, HistTyped
  <2> QED
    BY <2>1, <2>2, <2>3, <2>4 DEF Typed
<1> QED
  BY <1>1, <1>2 DEF cbMnSyncHandler

LEMMA StartTyped ==
    ASSUME Typed, SocTrig
    PROVE  Typed'
<1>1. EdrvTyped' /\ PrepTyped'
  BY EmptySeq DEF Typed, EdrvTyped, PrepTyped, SocTrig
<1>2. DllTyped'
  BY DEF Typed, DllTyped, SocTrig, config, nodeVars
<1>3. QueuesTyped' /\ HistTyped'
  BY PostTyped DEF Typed, QueuesTyped, HistTyped, SocTrig, PostEvent, Events
<1> QED
  BY <1>1, <1>2, <1>3 DEF Typed

(* The PRes the receive thread takes, and the node it is found at.         *)
LEMMA HeadTyped ==
    ASSUME Typed, rx # <<>>
    PROVE  /\ Head(rx) \in Captured /\ Tail(rx) \in Seq(Captured)
           /\ Head(rx) = rx[1] /\ Len(rx) \in Nat \ {0} /\ Len(Tail(rx)) = Len(rx) - 1
           /\ \A i \in 1..Len(Tail(rx)) : Tail(rx)[i] = rx[i + 1]
<1>1. rx \in Seq(Captured)
  BY DEF Typed, QueuesTyped
<1> QED
  BY <1>1, HeadTailProperties, EmptySeq

Hits == IF dllState = "WaitSocTrig" THEN Found(aCnNodeIdList[offset], Head(rx).cn) ELSE {}
Hit == CHOOSE i \in Hits : TRUE

LEMMA RxPresSteps ==
    ASSUME RxPres
    PROVE  /\ rx # <<>> /\ Head(rx).kind = "PRes" /\ rx' = Tail(rx)
           /\ Locked => timer # "switch"
           /\ disturbed' = IF Head(rx).off # offset THEN 2 ELSE disturbed
           /\ \/ /\ Hits = {}
                 /\ UNCHANGED <<curNodeIndex, syncVars, ev, reported, answered>>
              \/ /\ Hits # {} /\ dllState = "WaitSocTrig"
                 /\ curNodeIndex' = Hit + 1
                 /\ reported' = reported \cup
                      ({aCnNodeIdList[offset][i] : i \in curNodeIndex..Hit-1} \cap CN)
                 /\ answered' = answered \cup {<<Head(rx).cn, Head(rx).off>>}
                 /\ \/ ev' = ev /\ (fSyncProcessed' <=> fSyncProcessed)
                    \/ /\ ev' = Append(ev, "Sync") /\ fSyncProcessed'
                       /\ ~fSyncProcessed /\ syncNodeId # C_ADR_SYNC_ON_SOC
           /\ UNCHANGED <<config, edrvVars, timers, nmt, dllState, offset,
                          aCnNodeIdList, nodes, prep, thresholdCnt, wire, asked>>
<1> DEFINE f == Head(rx)
           ids == aCnNodeIdList[offset]
           mark == \E i \in curNodeIndex..Hit : ids[i] = C_ADR_BROADCAST
           prc == fPrcSlotFinished \/ mark
           sync == /\ syncNodeId # C_ADR_SYNC_ON_SOC
                   /\ ~fSyncProcessed /\ prc
                   /\ f.cn = syncNodeId \/ (~mark /\ f.cn > syncNodeId)
<1>1. /\ CalledBack("PRes")
      /\ IF Hits = {}
         THEN UNCHANGED <<curNodeIndex, syncVars, ev, reported, answered>>
         ELSE /\ curNodeIndex' = NextIndex(Hit)
              /\ reported' = reported \cup ({ids[i] : i \in curNodeIndex..Hit-1} \cap CN)
              /\ fPrcSlotFinished' = prc
              /\ fSyncProcessed' = (fSyncProcessed \/ sync)
              /\ IF sync THEN PostEvent("Sync") ELSE UNCHANGED ev
              /\ answered' = answered \cup {<<f.cn, f.off>>}
      /\ disturbed' = IF f.off # offset THEN 2 ELSE disturbed
      /\ UNCHANGED <<config, edrvVars, timers, nmt, dllState, offset,
                     aCnNodeIdList, nodes, prep, thresholdCnt, wire, asked>>
  BY DEF RxPres, Hits, Hit
<1>2. Hits # {} => dllState = "WaitSocTrig"
  BY DEF Hits
<1>3. CASE Hits = {}
  BY <1>1, <1>3 DEF CalledBack
<1>4. CASE Hits # {}
  <2>1. sync => syncNodeId # C_ADR_SYNC_ON_SOC /\ ~fSyncProcessed
    OBVIOUS
  <2> HIDE DEF sync, prc, mark
  <2>2. CASE sync
    <3>1. ev' = Append(ev, "Sync") /\ fSyncProcessed'
      BY <1>1, <1>4, <2>2 DEF PostEvent
    <3> QED
      BY <1>1, <1>2, <1>4, <2>1, <2>2, <3>1 DEF CalledBack, NextIndex
  <2>3. CASE ~sync
    <3>1. (fSyncProcessed' <=> fSyncProcessed) /\ ev' = ev
      BY <1>1, <1>4, <2>3
    <3> QED
      BY <1>1, <1>2, <1>4, <2>3, <3>1 DEF CalledBack, NextIndex
  <2> QED BY <2>2, <2>3
<1> QED BY <1>3, <1>4

LEMMA HitIn ==
    ASSUME Typed, Hits # {}
    PROVE  /\ Hit \in Index /\ Hit \in Nat /\ Hit >= curNodeIndex
           /\ aCnNodeIdList[offset][Hit] = Head(rx).cn
           /\ \A j \in curNodeIndex..Hit-1 :
                aCnNodeIdList[offset][j] \notin {C_ADR_INVALID, Head(rx).cn}
<1>1. Hit \in Hits
  BY DEF Hit
<1>2. Hit \in Found(aCnNodeIdList[offset], Head(rx).cn)
  BY <1>1 DEF Hits
<1>3. DOMAIN aCnNodeIdList[offset] = Index
  BY DEF Typed, DllTyped
<1> QED
  BY <1>2, <1>3 DEF Found, Index

LEMMA RxTyped ==
    ASSUME Typed, RxSoa \/ RxPres
    PROVE  Typed'
<1>1. CASE RxSoa
  <2>1. rx' \in Seq(Captured)
    BY <1>1, HeadTyped DEF RxSoa, CalledBack
  <2>2. ev' \in Seq(Events)
    BY <1>1, PostTyped DEF RxSoa, PostEvent, Typed, QueuesTyped, Events
  <2> QED
    BY <1>1, <2>1, <2>2 DEF RxSoa, Typed, EdrvTyped, PrepTyped, DllTyped, QueuesTyped, HistTyped,
       config, edrvVars, timers, nodeVars, histVars
<1>2. CASE RxPres
  <2>0. Typed /\ rx # <<>>
    BY <1>2, RxPresSteps
  <2>1. rx' \in Seq(Captured) /\ Head(rx).cn \in CN /\ Head(rx).off \in 0..1
    BY <1>2, <2>0, HeadTyped, RxPresSteps DEF Captured
  <2>2. ev' \in Seq(Events)
    BY <1>2, PostTyped, RxPresSteps DEF Typed, QueuesTyped, Events
  <2>3. EdrvTyped' /\ PrepTyped'
    BY <1>2, RxPresSteps DEF Typed, EdrvTyped, PrepTyped, edrvVars, timers
  <2>4. DllTyped'
    BY <1>2, RxPresSteps, HitIn DEF Typed, DllTyped, config
  <2>5. disturbed' \in 0..2
    <3>1. disturbed' = 2 \/ disturbed' = disturbed
      BY <1>2, RxPresSteps
    <3> QED BY <3>1 DEF Typed, HistTyped
  <2>6. wire' = wire /\ asked' = asked /\ reported' \subseteq CN
    BY <1>2, RxPresSteps DEF Typed, HistTyped
  <2>7. answered' \subseteq CN \X (0..1)
    <3>1. answered' \subseteq answered \cup {<<Head(rx).cn, Head(rx).off>>}
      BY <1>2, RxPresSteps
    <3> QED BY <2>1, <3>1 DEF Typed, HistTyped
  <2> QED
    BY <2>1, <2>2, <2>3, <2>4, <2>5, <2>6, <2>7 DEF Typed, QueuesTyped, HistTyped
<1> QED BY <1>1, <1>2

LEMMA EventsTyped ==
    ASSUME Typed, HandleEvent
    PROVE  Typed'
<1>1. Tail(ev) \in Seq(Events)
  BY HeadTailProperties DEF HandleEvent, Typed, QueuesTyped
<1>2. ev' \in Seq(Events)
  <2>1. ev' = Tail(ev) \/ ev' = Append(Tail(ev), "CycleError")
    BY DEF HandleEvent, CycleFinish, ProcessSync, handleMnCycTimeExceed, CycleError
  <2> QED BY <1>1, <2>1, AppendProperties DEF Events
<1>3. PrepTyped'
  <2>1. prep' = prep \/ prep' = [None EXCEPT !.kind = "fill"]
    BY DEF HandleEvent, CycleFinish, ProcessSync, handleMnCycTimeExceed, CycleError
  <2>2. CASE prep' = prep
    BY <2>2 DEF Typed, PrepTyped
  <2>3. CASE prep' = [None EXCEPT !.kind = "fill"]
    BY <2>3 DEF PrepTyped, None
  <2> QED BY <2>1, <2>2, <2>3
<1>4. EdrvTyped' /\ DllTyped' /\ HistTyped' /\ rx' = rx
  BY DEF HandleEvent, Typed, EdrvTyped, DllTyped, HistTyped, config, edrvVars, nodeVars, histVars
<1> QED BY <1>2, <1>3, <1>4 DEF Typed, QueuesTyped

LEMMA PrepareTyped ==
    ASSUME Typed, Fill \/ CheckNextTxBufferList \/ CopyNextTxBufferList
    PROVE  Typed'
<1>1. CASE Fill
  <2>1. PrepTyped'
    <3>1. prep' = [kind |-> "check", frames |-> Frames] /\ Frames \in Seq(TxFrame)
      BY <1>1, FramesPrepared DEF Fill, Typed
    <3> HIDE DEF Frames
    <3> QED BY <3>1 DEF PrepTyped
  <2>2. DllTyped'
    <3>1. DllTyped
      BY DEF Typed
    <3>2. aCnNodeIdList[1 - offset] \in [Index -> Nat] /\ nextTxBufferOffset = 1 - offset
      BY DEF Typed, DllTyped, nextTxBufferOffset
    <3>3. NodeIds(aCnNodeIdList[1 - offset]) \in [Index -> Nat]
      BY <3>1, <3>2, NodeIdsPrepared
    <3>4. aCnNodeIdList' = [aCnNodeIdList EXCEPT ![1 - offset] = NodeIds(aCnNodeIdList[1 - offset])]
      BY <1>1, <3>2 DEF Fill
    <3>5. UNCHANGED <<offset, syncNodeId, waits, nodes, curNodeIndex>>
      BY <1>1 DEF Fill, config
    <3> QED BY <3>3, <3>4, <3>5 DEF Typed, DllTyped
  <2> QED
    BY <1>1, <2>1, <2>2 DEF Fill, Typed, EdrvTyped, QueuesTyped, HistTyped, edrvVars, timers, histVars
<1>2. CASE CheckNextTxBufferList
  <2>1. PrepTyped'
    <3>1. prep' = None \/ prep' = [kind |-> "copy", frames |-> prep.frames, half |-> 1 - curList]
      BY <1>2 DEF CheckNextTxBufferList
    <3>2. prep.frames \in Seq(TxFrame)
      BY <1>2 DEF CheckNextTxBufferList, Typed, PrepTyped
    <3> QED BY <3>1, <3>2 DEF PrepTyped, None
  <2> QED
    BY <1>2, <2>1 DEF CheckNextTxBufferList, Typed, EdrvTyped, DllTyped, QueuesTyped, HistTyped,
       config, edrvVars, timers, nodeVars, histVars
<1>3. CASE CopyNextTxBufferList
  <2>1. EdrvTyped' /\ PrepTyped'
    <3>1. prep.frames \in Seq(TxFrame)
      BY <1>3 DEF CopyNextTxBufferList, Typed, PrepTyped
    <3> QED
      BY <1>3, <3>1 DEF CopyNextTxBufferList, Typed, EdrvTyped, PrepTyped, timers, None
  <2> QED
    BY <1>3, <2>1 DEF CopyNextTxBufferList, Typed, DllTyped, QueuesTyped, HistTyped,
       config, nodeVars, histVars
<1> QED BY <1>1, <1>2, <1>3

LEMMA AnswerTyped ==
    ASSUME Typed, CnAnswers
    PROVE  Typed'
<1>1. PICK w \in wire : /\ wire' = wire \ {w}
                        /\ rx' = Append(rx, [kind |-> "PRes", cn |-> w[1], off |-> w[2], waits |-> FALSE])
  BY DEF CnAnswers
<1>2. w[1] \in CN /\ w[2] \in 0..1
  BY DEF Typed, HistTyped
<1>3. rx' \in Seq(Captured)
  <2>1. w[1] \in Nat
    BY <1>2, NodeIdIsNumber
  <2>2. [kind |-> "PRes", cn |-> w[1], off |-> w[2], waits |-> FALSE] \in Captured
    BY <1>2, <2>1 DEF Captured
  <2> QED BY <1>1, <2>2, AppendProperties DEF Typed, QueuesTyped
<1>4. UNCHANGED <<config, edrvVars, timers, nmt, dllState, offset,
                  nodeVars, syncVars, nodes, ev, prep, thresholdCnt, histVars, counts>>
  BY DEF CnAnswers
<1> QED
  BY <1>1, <1>3, <1>4 DEF Typed, EdrvTyped, PrepTyped, DllTyped, QueuesTyped, HistTyped,
     config, edrvVars, timers, nodeVars, histVars

LEMMA TypedKept ==
    ASSUME Typed, [Next]_vars
    PROVE  Typed'
<1>1. CASE processStartReducedCycle
  <2>1. /\ UNCHANGED <<list, curList, entry, timer, prep, syncNodeId, waits, curNodeIndex,
                      aCnNodeIdList, rx, ev, wire, histVars>>
        /\ nodes' = {} /\ offset' = 0
    BY <1>1 DEF processStartReducedCycle, config, edrvVars, timers, nodeVars
  <2> QED
    BY <2>1 DEF Typed, EdrvTyped, PrepTyped, DllTyped, QueuesTyped, HistTyped, histVars
<1>2. CASE EnterFullCycle \/ ChangeNodes \/ UNCHANGED vars
  <2>1. UNCHANGED <<list, curList, entry, timer, prep, syncNodeId, waits, curNodeIndex,
                    offset, aCnNodeIdList, rx, ev, wire, histVars>>
    BY <1>2 DEF EnterFullCycle, ChangeNodes, vars, config, edrvVars, timers, nodeVars
  <2>2. nodes' \subseteq Nodes
    <3>1. NodeSets \subseteq SUBSET Nodes
      BY DllMsAssumption DEF Nodes
    <3>2. nodes' = nodes \/ nodes' \in NodeSets
      BY <1>2 DEF EnterFullCycle, ChangeNodes, vars
    <3> QED BY <3>1, <3>2 DEF Typed, DllTyped
  <2> QED
    BY <2>1, <2>2
       DEF Typed, EdrvTyped, PrepTyped, DllTyped, QueuesTyped, HistTyped, histVars
<1> QED
  BY <1>1, <1>2, TimerTyped, SyncTyped, StartTyped, RxTyped, EventsTyped, PrepareTyped,
     AnswerTyped
     DEF Next, TimerThread, RxThread, EventThread

-----------------------------------------------------------------------------
(* A cycle is prepared once: of an event that asks for it, a preparation   *)
(* under way and a list waiting for the next tick there is at most one,    *)
(* and none that another event could join.                                 *)
OnSoc == syncNodeId = C_ADR_SYNC_ON_SOC
AsksIn(q, on) == {i \in 1..Len(q) : q[i] = "Sync" \/ (on /\ q[i] = "CycleFinish")}
Asks == AsksIn(ev, OnSoc)
Once(S) == \A i, j \in S : i = j
Busy == Asks # {} \/ prep # None \/ list[1 - curList] # <<>>

(* A frame of the cycle may still lead to a Sync event.                    *)
MayAsk == /\ ~OnSoc /\ ~fSyncProcessed
          /\ rx # <<>> \/ wire # {} \/ slotArmed \/ timer # "idle"

(* Between a tick and the end of its sync callback the driver is a cycle   *)
(* ahead of the DLL.                                                       *)
Inside == timer \in {"idle", "slot"}

PrepOnce == /\ Once(Asks)
            /\ Asks # {} => prep = None
            /\ Asks # {} \/ prep # None => list[1 - curList] = <<>>
            /\ Busy => Inside /\ ~MayAsk

(* A list that was written into the half of the running cycle: it is never *)
(* sent, and no cycle is prepared any more.                                *)
Late == timer = "idle" /\ ~slotArmed /\ ~Busy /\ ~MayAsk

CycleList == /\ Inside /\ list[curList] # <<>> => AllOf(list[curList], offset) \/ Late
             /\ ~Inside => list[curList] # <<>> /\ AllOf(list[curList], 1 - offset)
             /\ timer = "slot" => list[curList] # <<>>
NextList == /\ AllOf(list[1 - curList], 1 - offset)
            /\ prep.kind \in {"check", "copy"} => AllOf(prep.frames, 1 - offset)

Control == /\ nmt = "PreOp1" => ~running
           /\ dllState = "WaitSocTrig" => PrepOnce /\ CycleList /\ NextList
           /\ dllState # "WaitSocTrig" => ~running /\ Inside /\ Asks = {} /\ prep = None

(* Where the driver waits behind the SoC, nothing else of a cycle is sent  *)
(* before its sync callback, so that no frame of it asks for the next one. *)
Paced(fs) == waits => fs[1].kind = "SoC" /\ fs[2].waits
Quiet == timer \in {"tick", "sync"} /\ ~OnSoc =>
            fSyncProcessed \/ (rx = <<>> /\ wire = {})

Pace == /\ \A h \in 0..1 : list[h] # <<>> => Paced(list[h])
        /\ prep.kind \in {"check", "copy"} => Paced(prep.frames)
        /\ timer = "tick" /\ waits => entry <= 2
        /\ Quiet

LEMMA AsksAppended ==
    ASSUME NEW q \in Seq(Events), NEW e \in Events, NEW on
    PROVE  AsksIn(Append(q, e), on) =
             AsksIn(q, on) \cup IF e = "Sync" \/ (on /\ e = "CycleFinish") THEN {Len(q) + 1} ELSE {}
<1>. DEFINE r == Append(q, e)
<1>1. /\ Len(q) \in Nat /\ Len(r) = Len(q) + 1
      /\ \A i \in 1..Len(q) : r[i] = q[i]
      /\ r[Len(q) + 1] = e
  BY AppendProperties, LenProperties
<1>. HIDE DEF r
<1>2. \A i : i \in 1..Len(r) <=> i \in 1..Len(q) \/ i = Len(q) + 1
  BY <1>1
<1>3. AsksIn(r, on) = AsksIn(q, on) \cup IF e = "Sync" \/ (on /\ e = "CycleFinish") THEN {Len(q) + 1} ELSE {}
  BY <1>1, <1>2 DEF AsksIn
<1>. QED BY <1>3 DEF r

LEMMA NothingAsked ==
    ASSUME NEW q \in Seq(Events), NEW on
    PROVE  /\ AsksIn(Append(q, "CycTimeExceed"), on) = AsksIn(q, on)
           /\ AsksIn(Append(q, "CycleError"), on) = AsksIn(q, on)
BY AsksAppended DEF Events

LEMMA AsksLeft ==
    ASSUME NEW q \in Seq(Events), q # <<>>, NEW on, Once(AsksIn(q, on))
    PROVE  /\ Once(AsksIn(Tail(q), on))
           /\ AsksIn(Tail(q), on) # {} => AsksIn(q, on) # {}
           /\ Head(q) = "Sync" \/ (on /\ Head(q) = "CycleFinish") =>
                AsksIn(q, on) # {} /\ AsksIn(Tail(q), on) = {}
<1>. DEFINE r == Tail(q)
<1>1. /\ Len(q) \in Nat \ {0} /\ Len(r) = Len(q) - 1 /\ Head(q) = q[1]
      /\ \A i \in 1..Len(r) : r[i] = q[i + 1]
  BY HeadTailProperties, EmptySeq
<1>. HIDE DEF r
<1>2. \A i \in AsksIn(r, on) : i \in Nat \ {0} /\ i + 1 \in AsksIn(q, on)
  BY <1>1 DEF AsksIn
<1>3. Once(AsksIn(r, on))
  BY <1>2 DEF Once
<1>4. q[1] = "Sync" \/ (on /\ q[1] = "CycleFinish") => 1 \in AsksIn(q, on)
  BY <1>1 DEF AsksIn
<1>5. 1 \in AsksIn(q, on) => AsksIn(r, on) = {}
  BY <1>2 DEF Once
<1>. QED BY <1>1, <1>2, <1>3, <1>4, <1>5 DEF r

(* A step that leaves the lists, the preparation and the place of the      *)
(* timer thread alone, and asks for nothing.                               *)
LEMMA ControlSame ==
    ASSUME Control,
           UNCHANGED <<syncNodeId, prep, list, curList, offset, timer, dllState>>,
           Asks' = Asks, MayAsk' => MayAsk, slotArmed' => slotArmed, running' => running,
           nmt' = "PreOp1" => ~running'
    PROVE  Control'
<1>1. Busy' <=> Busy
  BY DEF Busy
<1>2. Inside' <=> Inside
  BY DEF Inside
<1>3. CASE dllState = "WaitSocTrig"
  <2>1. PrepOnce /\ CycleList /\ NextList
    BY <1>3 DEF Control
  <2>2. PrepOnce'
    BY <1>1, <1>2, <2>1 DEF PrepOnce
  <2>3. Late => Late'
    BY <1>1 DEF Late
  <2>4. CycleList'
    BY <1>2, <2>1, <2>3 DEF CycleList, AllOf
  <2>5. NextList'
    BY <2>1 DEF NextList, AllOf
  <2> QED
    BY <1>3, <2>2, <2>4, <2>5 DEF Control
<1>4. CASE dllState # "WaitSocTrig"
  BY <1>2, <1>4 DEF Control
<1> QED
  BY <1>3, <1>4

LEMMA SameAsks ==
    ASSUME Typed, syncNodeId' = syncNodeId,
           \/ ev' = ev \/ ev' = Append(ev, "CycTimeExceed")
    PROVE  Asks' = Asks
<1>1. ev \in Seq(Events)
  BY DEF Typed, QueuesTyped
<1>2. OnSoc' <=> OnSoc
  BY DEF OnSoc
<1>3. AsksIn(ev', OnSoc) = AsksIn(ev, OnSoc)
  BY <1>1, NothingAsked
<1>4. Asks' = AsksIn(ev', OnSoc)
  BY <1>2 DEF Asks, AsksIn
<1> QED BY <1>3, <1>4 DEF Asks

LEMMA TickControl ==
    ASSUME Typed, Control, timerHdlCycleCb
    PROVE  Control'
<1>1. /\ running /\ timer = "idle" /\ dllState = "WaitSocTrig" /\ Inside
      /\ PrepOnce /\ CycleList /\ NextList /\ nmt # "PreOp1"
  BY DEF timerHdlCycleCb, Control, Inside
<1>2. UNCHANGED <<syncNodeId, slotArmed, running, nmt, dllState, offset, fSyncProcessed, rx, prep>>
  BY DEF timerHdlCycleCb, config, syncVars
<1>3. Asks' = Asks
  BY <1>2, SameAsks DEF timerHdlCycleCb, dllk_cbCyclicError, PostEvent
<1>4. CASE ~ListFinished
  <2>1. UNCHANGED <<list, curList, timer, wire>>
    BY <1>4 DEF timerHdlCycleCb, edrvVars
  <2>2. MayAsk' => MayAsk
    BY <1>2, <2>1 DEF MayAsk, OnSoc
  <2> QED
    BY <1>1, <1>2, <1>3, <2>1, <2>2, ControlSame
<1>5. CASE ListFinished
  <2>1. /\ curList' = 1 - curList /\ list' = [list EXCEPT ![curList] = <<>>]
        /\ wire' = {}
        /\ \/ list[1 - curList] = <<>> /\ timer' = timer
           \/ list[1 - curList] # <<>> /\ timer' = "tick"
    BY <1>5 DEF timerHdlCycleCb
  <2>2. /\ list'[curList'] = list[1 - curList]
        /\ 1 - curList' = curList /\ list'[1 - curList'] = <<>>
    BY <2>1 DEF Typed, EdrvTyped
  <2>3. NextList'
    <3>1. AllOf(list'[1 - curList'], 1 - offset)
      BY <2>2, EmptySeq DEF AllOf
    <3> QED BY <1>1, <1>2, <3>1 DEF NextList, AllOf
  <2>4. CASE list[1 - curList] = <<>> /\ timer' = timer
    <3>1. MayAsk' => MayAsk
      BY <1>2, <2>1, <2>4 DEF MayAsk, OnSoc
    <3>2. Busy' => Busy
      BY <1>2, <1>3, <2>2 DEF Busy
    <3>3. PrepOnce'
      BY <1>1, <1>2, <1>3, <2>2, <2>4, <3>1, <3>2 DEF PrepOnce, Inside
    <3>4. CycleList'
      BY <1>1, <2>2, <2>4 DEF CycleList, Inside
    <3> QED BY <1>1, <1>2, <2>3, <3>3, <3>4 DEF Control
  <2>5. CASE list[1 - curList] # <<>> /\ timer' = "tick"
    <3>1. Asks = {} /\ prep = None
      BY <1>1, <2>5 DEF PrepOnce
    <3>2. ~Busy'
      BY <1>2, <1>3, <2>2, <3>1 DEF Busy
    <3>3. PrepOnce'
      BY <1>2, <1>3, <3>1, <3>2 DEF PrepOnce, Once
    <3>4. CycleList'
      <4>1. ~Inside' /\ timer' # "slot"
        BY <2>5 DEF Inside
      <4>2. AllOf(list'[curList'], 1 - offset)
        BY <1>1, <2>2 DEF NextList
      <4> QED BY <1>2, <2>2, <2>5, <4>1, <4>2 DEF CycleList, AllOf
    <3> QED BY <1>1, <1>2, <2>3, <3>3, <3>4 DEF Control
  <2> QED BY <2>1, <2>4, <2>5
<1> QED BY <1>4, <1>5

LEMMA FrameInList ==
    ASSUME Typed, FrameAt # None
    PROVE  list[curList] # <<>>
BY FrameAtTyped, EmptySeq DEF Typed, EdrvTyped

(* processTxBufferList() and timerHdlSlotCb() go on in the same list.      *)
LEMMA SendingControl ==
    ASSUME Typed, Control, processTxBufferList \/ timerHdlSlotCb
    PROVE  Control'
<1>1. UNCHANGED <<syncNodeId, list, curList, running, nmt, dllState, offset, fSyncProcessed, prep>>
  BY DEF processTxBufferList, timerHdlSlotCb, config, syncVars
<1>2. Asks' = Asks
  BY <1>1, SameAsks
     DEF processTxBufferList, timerHdlSlotCb, Refuse, dllk_cbCyclicError, PostEvent
<1>3. Busy' <=> Busy
  BY <1>1, <1>2 DEF Busy
<1>4. \/ timer = "tick" /\ timer' \in {"tick", "sync"}
      \/ timer = "slot" /\ timer' \in {"slot", "idle"}
      \/ timer = "idle" /\ slotArmed /\ FrameAt # None /\ timer' \in {"slot", "idle"}
  BY DEF processTxBufferList, timerHdlSlotCb
<1>5. (MayAsk' => MayAsk) /\ ~Late
  BY <1>1, <1>4 DEF MayAsk, OnSoc, Late
<1>6. (Inside' <=> Inside) /\ (timer' = "slot" => timer = "slot" \/ FrameAt # None)
  BY <1>4 DEF Inside
<1>7. CASE dllState = "WaitSocTrig"
  <2>1. PrepOnce /\ CycleList /\ NextList
    BY <1>7 DEF Control
  <2>2. PrepOnce'
    BY <1>1, <1>2, <1>3, <1>5, <1>6, <2>1 DEF PrepOnce
  <2>3. CycleList'
    BY <1>1, <1>5, <1>6, <2>1, FrameInList DEF CycleList, AllOf
  <2>4. NextList'
    BY <1>1, <2>1 DEF NextList, AllOf
  <2> QED BY <1>1, <1>7, <2>2, <2>3, <2>4 DEF Control
<1>8. CASE dllState # "WaitSocTrig"
  BY <1>1, <1>2, <1>6, <1>8 DEF Control
<1> QED BY <1>7, <1>8

LEMMA ReportControl ==
    ASSUME Typed, Control, ReportLosses
    PROVE  Control'
<1>1. /\ timer = "sync" /\ ~Inside /\ dllState = "WaitSocTrig"
      /\ PrepOnce /\ CycleList /\ NextList /\ ~Busy
  BY DEF ReportLosses, Control, Inside, PrepOnce
<1>2. /\ timer' = "switch" /\ ~Inside'
      /\ UNCHANGED <<syncNodeId, list, curList, offset, running, nmt, dllState, ev, prep>>
  BY DEF ReportLosses, config, edrvVars, Inside
<1>3. Asks' = Asks /\ ~Busy'
  BY <1>1, <1>2, SameAsks DEF Busy
<1>4. PrepOnce'
  BY <1>1, <1>2, <1>3 DEF PrepOnce, Busy
<1>5. CycleList'
  BY <1>1, <1>2 DEF CycleList, AllOf
<1>6. NextList'
  BY <1>1, <1>2 DEF NextList, AllOf
<1> QED BY <1>1, <1>2, <1>4, <1>5, <1>6 DEF Control

LEMMA SwitchControl ==
    ASSUME Typed, Control, SwitchCycle
    PROVE  Control'
<1>1. /\ timer = "switch" /\ ~Inside /\ dllState = "WaitSocTrig"
      /\ PrepOnce /\ CycleList /\ NextList /\ ~Busy
  BY DEF SwitchCycle, Control, Inside, PrepOnce
<1>2. /\ timer' = "idle" /\ Inside' /\ offset' = 1 - offset
      /\ UNCHANGED <<syncNodeId, list, curList, running, nmt, dllState, prep>>
  BY DEF SwitchCycle, config, edrvVars, Inside
<1>3. Once(Asks') /\ (Asks' # {} => OnSoc)
  <2>1. ev \in Seq(Events) /\ ev' = Append(ev, "CycleFinish") /\ AsksIn(ev, OnSoc) = {}
    BY <1>1 DEF Typed, QueuesTyped, SwitchCycle, PostEvent, Busy, Asks
  <2>2. Asks' = AsksIn(ev', OnSoc)
    BY <1>2 DEF Asks, AsksIn, OnSoc
  <2>3. AsksIn(Append(ev, "CycleFinish"), OnSoc) = IF OnSoc THEN {Len(ev) + 1} ELSE {}
    BY <2>1, AsksAppended DEF Events
  <2> QED BY <2>1, <2>2, <2>3 DEF Once
<1>4. list[1 - curList] = <<>> /\ prep = None
  BY <1>1 DEF Busy
<1>5. Busy' => ~MayAsk'
  BY <1>2, <1>3, <1>4 DEF Busy, MayAsk, OnSoc
<1>6. PrepOnce'
  BY <1>2, <1>3, <1>4, <1>5 DEF PrepOnce
<1>7. CycleList'
  <2>1. AllOf(list[curList], 1 - offset)
    BY <1>1 DEF CycleList
  <2> QED BY <1>2, <2>1 DEF CycleList, AllOf
<1>8. NextList'
  BY <1>2, <1>4, EmptySeq DEF NextList, AllOf, None
<1> QED BY <1>1, <1>2, <1>6, <1>7, <1>8 DEF Control

LEMMA StartControl ==
    ASSUME Typed, Control, SocTrig
    PROVE  Control'
<1>1. Asks = {} /\ prep = None
  BY DEF SocTrig, Control
<1>2. /\ list' = [h \in 0..1 |-> <<>>] /\ curList' = 0 /\ prep' = prep
      /\ timer' = "idle" /\ ~slotArmed' /\ rx' = <<>> /\ wire' = {}
      /\ dllState' = "WaitSocTrig" /\ nmt' = "Full" /\ syncNodeId' = syncNodeId
  BY DEF SocTrig, config
<1>3. list'[curList'] = <<>> /\ list'[1 - curList'] = <<>>
  BY <1>2
<1>4. Once(Asks')
  <2>1. ev \in Seq(Events) /\ ev' = Append(ev, "Sync") /\ AsksIn(ev, OnSoc) = {}
    BY <1>1 DEF Typed, QueuesTyped, SocTrig, PostEvent, Asks
  <2>2. Asks' = AsksIn(ev', OnSoc)
    BY <1>2 DEF Asks, AsksIn, OnSoc
  <2>3. AsksIn(Append(ev, "Sync"), OnSoc) = {Len(ev) + 1}
    BY <2>1, AsksAppended DEF Events
  <2> QED BY <2>1, <2>2, <2>3 DEF Once
<1>5. Inside' /\ ~MayAsk'
  BY <1>2 DEF Inside, MayAsk
<1>6. PrepOnce'
  BY <1>1, <1>2, <1>3, <1>4, <1>5 DEF PrepOnce
<1>7. CycleList'
  BY <1>2, <1>3, <1>5 DEF CycleList
<1>8. NextList'
  BY <1>1, <1>2, <1>3, EmptySeq DEF NextList, AllOf, None
<1> QED BY <1>2, <1>6, <1>7, <1>8 DEF Control

(* A frame leads to a Sync event: nothing was being prepared.              *)
LEMMA AskedControl ==
    ASSUME Typed, Control, dllState = "WaitSocTrig", Inside,
           rx # <<>>, ~OnSoc, ~fSyncProcessed, fSyncProcessed',
           ev' = Append(ev, "Sync"),
           UNCHANGED <<syncNodeId, prep, list, curList, offset, timer, dllState, slotArmed, running, nmt>>
    PROVE  Control'
<1>1. MayAsk /\ Inside /\ PrepOnce /\ CycleList /\ NextList
  BY DEF MayAsk, Inside, Control
<1>2. ~Busy /\ ~Late
  BY <1>1 DEF PrepOnce, Late
<1>3. Once(Asks')
  <2>1. ev \in Seq(Events) /\ AsksIn(ev, OnSoc) = {}
    BY <1>2 DEF Typed, QueuesTyped, Busy, Asks
  <2>2. Asks' = AsksIn(ev', OnSoc)
    BY DEF Asks, AsksIn, OnSoc
  <2>3. AsksIn(Append(ev, "Sync"), OnSoc) = {Len(ev) + 1}
    BY <2>1, AsksAppended DEF Events
  <2> QED BY <2>1, <2>2, <2>3 DEF Once
<1>4. prep = None /\ list[1 - curList] = <<>>
  BY <1>2 DEF Busy
<1>5. Inside' /\ ~MayAsk'
  BY <1>1 DEF Inside, MayAsk
<1>6. PrepOnce'
  BY <1>3, <1>4, <1>5 DEF PrepOnce
<1>7. CycleList'
  BY <1>1, <1>2, <1>5 DEF CycleList, AllOf
<1>8. NextList'
  BY <1>1 DEF NextList, AllOf
<1> QED BY <1>6, <1>7, <1>8 DEF Control

LEMMA RxControl ==
    ASSUME Locked, Separated, Typed, Control, Pace, RxSoa \/ RxPres
    PROVE  Control'
<1>1. /\ rx # <<>> /\ timer # "switch"
      /\ UNCHANGED <<syncNodeId, prep, list, curList, offset, timer, dllState, slotArmed,
                     running, nmt, wire>>
  <2>1. CASE RxSoa
    BY <2>1 DEF RxSoa, CalledBack, config, edrvVars, timers
  <2>2. CASE RxPres
    BY <2>2, RxPresSteps DEF config, edrvVars, timers
  <2> QED BY <2>1, <2>2
<1>2. \/ ev' = ev /\ (fSyncProcessed' <=> fSyncProcessed)
      \/ /\ ev' = Append(ev, "Sync") /\ fSyncProcessed' /\ ~fSyncProcessed /\ ~OnSoc
         /\ dllState = "WaitSocTrig"
  <2>1. CASE RxSoa
    BY <2>1 DEF RxSoa, PostEvent, OnSoc
  <2>2. CASE RxPres
    BY <2>2, RxPresSteps DEF OnSoc, syncVars
  <2> QED BY <2>1, <2>2
<1>3. CASE ev' = ev /\ (fSyncProcessed' <=> fSyncProcessed)
  <2>1. MayAsk' => MayAsk
    BY <1>1, <1>3 DEF MayAsk, OnSoc
  <2> QED BY <1>1, <1>3, <2>1, SameAsks, ControlSame DEF Control
<1>4. ~OnSoc /\ ~fSyncProcessed => Inside
  <2>1. timer \in {"idle", "slot", "tick", "sync"}
    BY <1>1 DEF Typed, EdrvTyped
  <2> QED BY <1>1, <2>1 DEF Pace, Quiet, Inside
<1> QED BY <1>1, <1>2, <1>3, <1>4, AskedControl

LEMMA EventsControl ==
    ASSUME Typed, Control, HandleEvent
    PROVE  Control'
<1>1. /\ prep = None /\ ev # <<>> /\ ev \in Seq(Events) /\ Tail(ev) \in Seq(Events)
      /\ UNCHANGED <<syncNodeId, list, curList, timer, dllState, offset, fSyncProcessed, rx, wire>>
  BY HeadTailProperties DEF HandleEvent, Typed, QueuesTyped, config, edrvVars, syncVars
<1>2. (OnSoc' <=> OnSoc) /\ \A q : Asks' = AsksIn(ev', OnSoc)
  BY <1>1 DEF OnSoc, Asks, AsksIn
<1>3. Once(Asks)
  BY DEF Control, PrepOnce, Once
<1>4. /\ Once(AsksIn(Tail(ev), OnSoc))
      /\ AsksIn(Tail(ev), OnSoc) # {} => Asks # {}
      /\ Head(ev) = "Sync" \/ (OnSoc /\ Head(ev) = "CycleFinish") =>
                Asks # {} /\ AsksIn(Tail(ev), OnSoc) = {}
  BY <1>1, <1>3, AsksLeft DEF Asks
<1>5. Asks' = AsksIn(Tail(ev), OnSoc)
  <2>1. ev' = Tail(ev) \/ ev' = Append(Tail(ev), "CycleError")
    BY DEF HandleEvent, CycleFinish, ProcessSync, handleMnCycTimeExceed, CycleError
  <2> QED BY <1>1, <1>2, <2>1, NothingAsked
<1>6. /\ running' => running
      /\ slotArmed' => slotArmed
      /\ nmt' = "PreOp1" => ~running'
  BY DEF HandleEvent, CycleFinish, ProcessSync, handleMnCycTimeExceed, CycleError, Control
<1>7. MayAsk' => MayAsk
  BY <1>1, <1>2, <1>6 DEF MayAsk
<1>8. \/ prep' = None
      \/ /\ prep' = [None EXCEPT !.kind = "fill"] /\ Asks # {} /\ Asks' = {}
         /\ dllState = "WaitSocTrig"
  <2>1. \/ prep' = None
        \/ /\ prep' = [None EXCEPT !.kind = "fill"]
           /\ \/ Head(ev) = "Sync"
              \/ Head(ev) = "CycleFinish" /\ OnSoc /\ dllState = "WaitSocTrig"
    BY <1>1 DEF HandleEvent, CycleFinish, ProcessSync, handleMnCycTimeExceed, CycleError, OnSoc
  <2>2. Asks # {} => dllState = "WaitSocTrig"
    BY DEF Control
  <2> QED BY <1>4, <1>5, <2>1, <2>2
<1>9. CASE dllState = "WaitSocTrig"
  <2>1. PrepOnce /\ CycleList /\ NextList
    BY <1>9 DEF Control
  <2>2. Busy' => Busy
    BY <1>1, <1>4, <1>5, <1>8 DEF Busy
  <2>3. (Inside' <=> Inside) /\ (Late => Late')
    BY <1>1, <1>6, <1>7, <2>2 DEF Inside, Late
  <2>4. PrepOnce'
    BY <1>1, <1>4, <1>5, <1>7, <1>8, <2>1, <2>2, <2>3 DEF PrepOnce
  <2>5. CycleList'
    BY <1>1, <2>1, <2>3 DEF CycleList, AllOf
  <2>6. NextList'
    <3>1. prep'.kind \notin {"check", "copy"}
      BY <1>8 DEF None
    <3> QED BY <1>1, <2>1, <3>1 DEF NextList, AllOf
  <2> QED BY <1>1, <1>6, <1>9, <2>4, <2>5, <2>6 DEF Control
<1>10. CASE dllState # "WaitSocTrig"
  BY <1>1, <1>4, <1>5, <1>6, <1>8, <1>10 DEF Control, Inside
<1> QED BY <1>9, <1>10

LEMMA PrepareControl ==
    ASSUME Typed, IInv, Control, Fill \/ CheckNextTxBufferList \/ CopyNextTxBufferList
    PROVE  Control'
<1>1. /\ prep # None /\ prep.kind \in {"fill", "check", "copy"}
      /\ UNCHANGED <<syncNodeId, curList, timer, slotArmed, running, nmt, dllState, offset,
                     fSyncProcessed, rx, ev, wire>>
  BY DEF Fill, CheckNextTxBufferList, CopyNextTxBufferList, None, config, edrvVars, timers, syncVars
<1>2. dllState = "WaitSocTrig" /\ PrepOnce /\ CycleList /\ NextList
  BY <1>1 DEF Control
<1>3. Busy /\ Asks = {} /\ list[1 - curList] = <<>> /\ Inside /\ ~MayAsk
  BY <1>1, <1>2 DEF Busy, PrepOnce
<1>4. Asks' = {} /\ Inside' /\ ~MayAsk'
  BY <1>1, <1>3, SameAsks DEF Inside, MayAsk, OnSoc
<1>5. ~Late
  BY <1>3 DEF Late
<1>6. CASE Fill \/ CheckNextTxBufferList
  <2>1. list' = list
    BY <1>6 DEF Fill, CheckNextTxBufferList, edrvVars
  <2>2. PrepOnce'
    BY <1>1, <1>3, <1>4, <2>1 DEF PrepOnce, Once
  <2>3. CycleList'
    BY <1>1, <1>2, <1>4, <1>5, <2>1 DEF CycleList, AllOf, Inside
  <2>4. AllOf(prep'.frames, 1 - offset) \/ prep' = None
    <3>1. CASE Fill
      BY <3>1, FramesPrepared DEF Fill, Typed
    <3>2. CASE CheckNextTxBufferList
      BY <1>2, <3>2 DEF CheckNextTxBufferList, NextList
    <3> QED BY <1>6, <3>1, <3>2
  <2>5. NextList'
    BY <1>1, <1>2, <2>1, <2>4 DEF NextList, AllOf, None
  <2> QED BY <1>1, <1>2, <2>2, <2>3, <2>5 DEF Control
<1>7. CASE CopyNextTxBufferList
  <2>1. /\ prep' = None /\ list' = [list EXCEPT ![prep.half] = prep.frames]
        /\ prep.half \in 0..1 /\ list[prep.half] = <<>> /\ prep.kind = "copy"
    BY <1>7 DEF CopyNextTxBufferList, IInv, FoundFree
  <2>2. AllOf(prep.frames, 1 - offset)
    BY <1>2, <2>1 DEF NextList
  <2>3. PrepOnce'
    BY <1>4, <2>1 DEF PrepOnce, Once
  <2>4. CASE prep.half = curList
    <3>1. list[curList] = <<>> /\ timer = "idle"
      BY <1>2, <1>3, <2>1, <2>4 DEF CycleList, Inside
    <3>2. ~slotArmed
      BY <3>1, FrameInList DEF IInv, ArmedForAFrame
    <3>3. list'[1 - curList] = <<>>
      BY <1>3, <2>1, <2>4 DEF Typed, EdrvTyped
    <3>4. ~Busy'
      BY <1>1, <1>4, <2>1, <3>3 DEF Busy
    <3>5. Late'
      BY <1>1, <1>4, <3>1, <3>2, <3>4 DEF Late
    <3>6. CycleList'
      <4>1. timer' # "slot" /\ Inside' /\ Late'
        BY <1>1, <1>4, <3>1, <3>5
      <4> QED BY <4>1 DEF CycleList
    <3>7. NextList'
      BY <1>1, <2>1, <3>3, EmptySeq DEF NextList, AllOf, None
    <3> QED BY <1>1, <1>2, <2>3, <3>6, <3>7 DEF Control
  <2>5. CASE prep.half # curList
    <3>1. /\ prep.half = 1 - curList /\ list'[curList] = list[curList]
          /\ list'[1 - curList] = prep.frames
      BY <2>1, <2>5 DEF Typed, EdrvTyped
    <3>2. CycleList'
      <4>1. /\ Inside /\ Inside' /\ timer' = timer /\ offset' = offset
            /\ list'[curList'] = list[curList]
        BY <1>1, <1>3, <1>4, <3>1
      <4>2. /\ list[curList] # <<>> => AllOf(list[curList], offset)
            /\ timer = "slot" => list[curList] # <<>>
        BY <1>2, <1>5, <4>1 DEF CycleList
      <4>3. list'[curList'] # <<>> => AllOf(list[curList], offset)'
        BY <4>1, <4>2 DEF AllOf
      <4> QED BY <4>1, <4>2, <4>3 DEF CycleList
    <3>3. NextList'
      BY <1>1, <2>1, <2>2, <3>1 DEF NextList, AllOf, None
    <3> QED BY <1>1, <1>2, <2>3, <3>2, <3>3 DEF Control
  <2> QED BY <2>4, <2>5
<1> QED BY <1>6, <1>7

LEMMA OthersControl ==
    ASSUME Typed, Control,
           processStartReducedCycle \/ EnterFullCycle \/ ChangeNodes \/ CnAnswers \/ UNCHANGED vars
    PROVE  Control'
<1>1. CASE processStartReducedCycle
  <2>1. /\ dllState' # "WaitSocTrig" /\ ~running' /\ Inside' /\ prep' = None /\ ev' = <<>>
    BY <1>1 DEF processStartReducedCycle, Control, Inside, timers
  <2>2. Asks' = {}
    BY <2>1, EmptySeq DEF Asks, AsksIn
  <2> QED BY <2>1, <2>2 DEF Control
<1>2. CASE EnterFullCycle \/ ChangeNodes \/ UNCHANGED vars
  <2>1. /\ UNCHANGED <<syncNodeId, prep, list, curList, offset, timer, dllState, slotArmed,
                       running, rx, wire, fSyncProcessed, ev>>
        /\ nmt' = "PreOp1" => nmt = "PreOp1"
    BY <1>2 DEF EnterFullCycle, ChangeNodes, vars, config, edrvVars, timers, syncVars
  <2>2. MayAsk' => MayAsk
    BY <2>1 DEF MayAsk, OnSoc
  <2> QED BY <2>1, <2>2, SameAsks, ControlSame DEF Control
<1>3. CASE CnAnswers
  <2>1. /\ UNCHANGED <<syncNodeId, prep, list, curList, offset, timer, dllState, slotArmed,
                       running, nmt, fSyncProcessed, ev>>
        /\ wire # {}
    BY <1>3 DEF CnAnswers, config, edrvVars, timers, syncVars
  <2>2. MayAsk' => MayAsk
    BY <2>1 DEF MayAsk, OnSoc
  <2> QED BY <2>1, <2>2, SameAsks, ControlSame DEF Control
<1> QED BY <1>1, <1>2, <1>3

LEMMA InitControl == Init => Control
<1> SUFFICES ASSUME Init PROVE Control
  OBVIOUS
<1>1. Asks = {}
  BY EmptySeq DEF Init, Asks, AsksIn
<1> QED
  BY <1>1 DEF Init, Control, Inside

(* A step that leaves the lists and the timer thread alone, and after      *)
(* which no more has been captured or is awaited than before it.           *)
LEMMA PaceSame ==
    ASSUME Pace, UNCHANGED <<syncNodeId, waits, list, entry>>,
           timer' \in {"tick", "sync"} => timer' = timer,
           fSyncProcessed => fSyncProcessed',
           (rx' = rx /\ wire' = wire) \/ rx # <<>> \/ wire # {},
           prep' = prep \/ prep'.kind \notin {"check", "copy"}
    PROVE  Pace'
<1>1. \A h \in 0..1 : list'[h] # <<>> => Paced(list[h])'
  BY DEF Pace, Paced
<1>2. prep'.kind \in {"check", "copy"} => Paced(prep.frames)'
  BY DEF Pace, Paced
<1>3. Quiet'
  BY DEF Pace, Quiet, OnSoc
<1> QED BY <1>1, <1>2, <1>3 DEF Pace

LEMMA TickPace ==
    ASSUME Typed, Control, Pace, timerHdlCycleCb
    PROVE  Pace'
<1>1. /\ timer = "idle" /\ dllState = "WaitSocTrig" /\ PrepOnce /\ curList \in 0..1
      /\ list \in [0..1 -> Seq(TxFrame)]
      /\ UNCHANGED <<syncNodeId, waits, prep, fSyncProcessed, rx>>
  BY DEF timerHdlCycleCb, Control, config, syncVars, Typed, EdrvTyped
<1>2. CASE ~ListFinished
  BY <1>1, <1>2, PaceSame DEF timerHdlCycleCb, edrvVars
<1>3. CASE ListFinished
  <2>1. /\ entry' = 1 /\ wire' = {} /\ list' = [list EXCEPT ![curList] = <<>>]
        /\ \/ timer' = timer
           \/ list[1 - curList] # <<>> /\ timer' = "tick"
    BY <1>3 DEF timerHdlCycleCb
  <2>2. \A h \in 0..1 : list'[h] # <<>> => Paced(list[h])'
    BY <1>1, <2>1 DEF Pace, Paced
  <2>3. Quiet'
    <3>1. list[1 - curList] # <<>> => ~MayAsk
      BY <1>1 DEF PrepOnce, Busy
    <3> QED BY <1>1, <2>1, <3>1 DEF Quiet, MayAsk, OnSoc
  <2>4. prep'.kind \in {"check", "copy"} => Paced(prep.frames)'
    BY <1>1 DEF Pace, Paced
  <2> QED BY <2>1, <2>2, <2>3, <2>4 DEF Pace
<1> QED BY <1>2, <1>3

LEMMA SendingPace ==
    ASSUME Separated, Typed, Control, Pace, processTxBufferList \/ timerHdlSlotCb
    PROVE  Pace'
<1>1. UNCHANGED <<syncNodeId, waits, list, curList, prep, fSyncProcessed>>
  BY DEF processTxBufferList, timerHdlSlotCb, config, syncVars
<1>2. CASE timer' \notin {"tick", "sync"}
  <2>1. Quiet' /\ timer' # "tick"
    BY <1>2 DEF Quiet
  <2> QED BY <1>1, <2>1 DEF Pace, Paced
<1>3. CASE timer' \in {"tick", "sync"}
  <2>1. timer = "tick" /\ ~Inside
    BY <1>3 DEF processTxBufferList, timerHdlSlotCb, Inside
  <2>2. CASE UNCHANGED <<entry, rx, wire>>
    <3>1. Quiet'
      BY <1>1, <2>1, <2>2 DEF Pace, Quiet, OnSoc
    <3>2. timer' = "tick" /\ waits' => entry' <= 2
      BY <1>1, <2>1, <2>2 DEF Pace
    <3> QED BY <1>1, <3>1, <3>2 DEF Pace, Paced
  <2>3. CASE FrameAt # None /\ ~FrameAt.waits /\ Transmitted(FrameAt)
    <3>1. /\ entry \in 1..Len(list[curList]) /\ FrameAt = list[curList][entry] /\ entry' = entry + 1
          /\ list[curList] # <<>> /\ curList \in 0..1 /\ entry \in Nat \ {0}
      BY <2>3, FrameAtTyped, FrameInList DEF Typed, EdrvTyped, Transmitted
    <3>2. waits => entry = 1 /\ FrameAt.kind = "SoC"
      <4>1. waits => list[curList][1].kind = "SoC" /\ list[curList][2].waits /\ entry <= 2
        BY <2>1, <3>1 DEF Pace, Paced
      <4>2. waits => entry # 2
        BY <2>3, <3>1, <4>1
      <4>3. waits => entry = 1
        BY <3>1, <4>1, <4>2
      <4> QED BY <3>1, <4>1, <4>3
    <3>3. waits => rx' = rx /\ wire' = wire
      BY <2>3, <3>2 DEF Transmitted
    <3>4. waits \/ OnSoc
      BY DEF Separated, OnSoc
    <3>5. Quiet'
      BY <1>1, <2>1, <3>3, <3>4 DEF Pace, Quiet, OnSoc
    <3>6. timer' = "tick" /\ waits' => entry' <= 2
      BY <1>1, <3>1, <3>2
    <3> QED BY <1>1, <3>5, <3>6 DEF Pace, Paced
  <2>4. \/ UNCHANGED <<entry, rx, wire>>
        \/ FrameAt # None /\ ~FrameAt.waits /\ Transmitted(FrameAt)
    BY <2>1 DEF processTxBufferList, timerHdlSlotCb, Refuse
  <2> QED BY <2>2, <2>3, <2>4
<1> QED BY <1>2, <1>3

LEMMA PreparePace ==
    ASSUME Typed, IInv, Pace, Fill \/ CheckNextTxBufferList \/ CopyNextTxBufferList
    PROVE  Pace'
<1>1. UNCHANGED <<syncNodeId, waits, entry, timer, fSyncProcessed, rx, wire>>
  BY DEF Fill, CheckNextTxBufferList, CopyNextTxBufferList, config, edrvVars, timers, syncVars
<1>2. Quiet' /\ (timer' = "tick" /\ waits' => entry' <= 2)
  BY <1>1 DEF Pace, Quiet, OnSoc
<1>3. CASE Fill
  <2>1. list' = list /\ prep'.frames = Frames
    BY <1>3 DEF Fill, edrvVars
  <2>2. Paced(Frames)
    BY FramesPrepared DEF Paced, Typed
  <2>3. Paced(prep.frames)'
    BY <1>1, <2>1, <2>2 DEF Paced
  <2>4. \A h \in 0..1 : list'[h] # <<>> => Paced(list[h])'
    BY <1>1, <2>1 DEF Pace, Paced
  <2> QED BY <1>2, <2>3, <2>4 DEF Pace
<1>4. CASE CheckNextTxBufferList
  <2>1. /\ list' = list /\ prep.kind = "check"
        /\ prep' = None \/ prep'.frames = prep.frames
    BY <1>4 DEF CheckNextTxBufferList, edrvVars
  <2>2. prep'.kind \in {"check", "copy"} => Paced(prep.frames)'
    BY <1>1, <2>1 DEF Pace, Paced, None
  <2>3. \A h \in 0..1 : list'[h] # <<>> => Paced(list[h])'
    BY <1>1, <2>1 DEF Pace, Paced
  <2> QED BY <1>2, <2>2, <2>3 DEF Pace
<1>5. CASE CopyNextTxBufferList
  <2>1. /\ list' = [list EXCEPT ![prep.half] = prep.frames] /\ prep.half \in 0..1
        /\ prep' = None /\ prep.kind = "copy" /\ list \in [0..1 -> Seq(TxFrame)]
    BY <1>5 DEF CopyNextTxBufferList, IInv, FoundFree, Typed, EdrvTyped
  <2>2. \A h \in 0..1 : list'[h] # <<>> => Paced(list[h])'
    BY <1>1, <2>1 DEF Pace, Paced
  <2> QED BY <1>2, <2>1, <2>2 DEF Pace, None
<1> QED BY <1>3, <1>4, <1>5

LEMMA PaceKept ==
    ASSUME Separated, Typed, IInv, Control, Pace, [Next]_vars
    PROVE  Pace'
<1>1. CASE ReportLosses \/ SwitchCycle
  <2>1. /\ UNCHANGED <<syncNodeId, waits, list, entry, prep>>
        /\ timer' \notin {"tick", "sync"}
    BY <1>1 DEF ReportLosses, SwitchCycle, config, edrvVars
  <2>2. Quiet' /\ timer' # "tick"
    BY <2>1 DEF Quiet
  <2> QED BY <2>1, <2>2 DEF Pace, Paced
<1>2. CASE SocTrig
  <2>1. /\ UNCHANGED <<waits, prep>> /\ list' = [h \in 0..1 |-> <<>>] /\ timer' = "idle"
    BY <1>2 DEF SocTrig, config
  <2> QED BY <2>1 DEF Pace, Paced, Quiet
<1>3. CASE RxSoa \/ RxPres
  <2>1. CASE RxSoa
    BY <2>1, PaceSame DEF RxSoa, CalledBack, config, edrvVars, timers
  <2>2. CASE RxPres
    <3>1. fSyncProcessed => fSyncProcessed'
      BY <2>2, RxPresSteps DEF syncVars
    <3> QED BY <2>2, <3>1, RxPresSteps, PaceSame DEF config, edrvVars, timers
  <2> QED BY <1>3, <2>1, <2>2
<1>4. CASE HandleEvent
  <2>1. prep' = prep \/ prep'.kind = "fill"
    BY <1>4 DEF HandleEvent, CycleFinish, ProcessSync, handleMnCycTimeExceed, CycleError, None
  <2> QED BY <1>4, <2>1, PaceSame DEF HandleEvent, config, edrvVars, syncVars
<1>5. CASE CnAnswers
  BY <1>5, PaceSame DEF CnAnswers, config, edrvVars, timers, syncVars
<1>6. CASE processStartReducedCycle \/ EnterFullCycle \/ ChangeNodes \/ UNCHANGED vars
  BY <1>6, PaceSame DEF processStartReducedCycle, EnterFullCycle, ChangeNodes, vars,
     config, edrvVars, timers, syncVars
<1> QED
  BY <1>1, <1>2, <1>3, <1>4, <1>5, <1>6, TickPace, SendingPace, PreparePace
     DEF Next, TimerThread, cbMnSyncHandler, RxThread, EventThread

LEMMA InitPace == Init => Pace
BY DEF Init, Pace, Quiet, None

LEMMA ControlKept ==
    ASSUME Locked, Separated, Typed, IInv, Control, Pace, [Next]_vars
    PROVE  Control'
BY TickControl, SendingControl, ReportControl, SwitchControl, StartControl, RxControl, EventsControl,
   PrepareControl, OthersControl DEF Next, TimerThread, cbMnSyncHandler, RxThread, EventThread

-----------------------------------------------------------------------------
(* The CNs of a part of a node id list, the CNs a list has asked before    *)
(* one of its entries, and the CNs of one of the buffers in a history.     *)
Cns(ids, a, b) == {ids[i] : i \in a..b-1} \cap CN
Sent(fs, e) == {fs[j].cn : j \in {i \in 1..e-1 : fs[i].kind = "PReq"}}
Of(S, o) == {n \in CN : <<n, o>> \in S}

LEMMA RestIs ==
    ASSUME NEW ids \in [Index -> Nat], NEW n, Well(ids, n), NEW from \in 0..n
    PROVE  Rest(ids, from) = Cns(ids, from, n)
<1>1. /\ n \in Nat /\ from \in Nat /\ DOMAIN ids = Index /\ Index = 0..Cardinality(CN) + 1
      /\ Cardinality(CN) \in Nat /\ n \in Index
  BY NodesFinite DEF Well, Index, Nodes
<1>. DEFINE J == {j \in DOMAIN ids : /\ j >= from
                                     /\ \A k \in from..j : ids[k] # C_ADR_INVALID}
<1>2. J = from..n-1
  <2>1. ASSUME NEW j \in J PROVE j \in from..n-1
    <3>1. j \in Nat /\ j >= from
      BY <1>1
    <3>2. j >= n => n \in from..j
      BY <1>1, <3>1
    <3>3. ~(j >= n)
      BY <3>2 DEF Well
    <3> QED BY <1>1, <3>1, <3>3
  <2>2. ASSUME NEW j \in from..n-1 PROVE j \in J
    BY <1>1 DEF Well
  <2> QED BY <2>1, <2>2
<1>3. Rest(ids, from) = {ids[i] : i \in J} \cap CN
  BY DEF Rest
<1>. HIDE DEF J
<1> QED BY <1>2, <1>3 DEF Cns

LEMMA CnsSplit ==
    ASSUME NEW ids, NEW n, Well(ids, n), NEW k \in 0..n
    PROVE  /\ Cns(ids, 0, k) \cap Cns(ids, k, n) = {}
           /\ Cns(ids, 0, k) \cup Cns(ids, k, n) = Cns(ids, 0, n)
<1>1. n \in Nat /\ k \in Nat /\ k <= n
  <2>1. Cardinality(CN) \in Nat
    BY NodesFinite DEF Nodes
  <2> QED BY <2>1 DEF Well, Index
<1>2. ASSUME NEW i \in 0..k-1, NEW j \in k..n-1, ids[i] \in CN, ids[i] = ids[j] PROVE FALSE
  <2>1. i \in 0..n-1 /\ j \in 0..n-1 /\ i # j
    BY <1>1
  <2> QED BY <1>2, <2>1 DEF Well
<1>3. 0..n-1 = (0..k-1) \cup (k..n-1)
  BY <1>1
<1> QED
  BY <1>2, <1>3 DEF Cns

LEMMA CnsNext ==
    ASSUME NEW ids, NEW n, Well(ids, n), NEW c \in 0..n, NEW k \in c..n-1, ids[k] \in CN
    PROVE  Cns(ids, 0, c) \cup Cns(ids, c, k) \cup {ids[k]} = Cns(ids, 0, k + 1)
<1>1. n \in Nat /\ c \in Nat /\ k \in Nat /\ c <= k
  <2>1. Cardinality(CN) \in Nat
    BY NodesFinite DEF Nodes
  <2> QED BY <2>1 DEF Well, Index
<1>2. 0..(k+1)-1 = (0..c-1) \cup (c..k-1) \cup {k}
  BY <1>1
<1> QED
  BY <1>2 DEF Cns

LEMMA FittingPReq ==
    ASSUME NEW fs \in Seq(TxFrame), NEW ids, Fits(fs, ids),
           NEW j \in 1..Len(fs), fs[j].kind = "PReq"
    PROVE  /\ j - 2 \in 0..Len(fs)-3 /\ fs[j].cn = ids[j - 2] /\ fs[j].cn \in CN
<1>1. j # 1 /\ j # Len(fs) /\ Len(fs) \in Nat
  BY DEF Fits
<1>2. j - 2 \in 0..Len(fs)-3 /\ (j - 2) + 2 = j
  BY <1>1
<1> QED BY <1>2 DEF Fits

LEMMA SentAll ==
    ASSUME NEW fs \in Seq(TxFrame), NEW ids, Fits(fs, ids)
    PROVE  Sent(fs, Len(fs) + 1) = Cns(ids, 0, Len(fs) - 2)
<1>1. Len(fs) \in Nat /\ Len(fs) >= 2
  BY DEF Fits
<1>2. ASSUME NEW n \in Sent(fs, Len(fs) + 1) PROVE n \in Cns(ids, 0, Len(fs) - 2)
  <2>1. PICK j \in 1..Len(fs) : fs[j].kind = "PReq" /\ n = fs[j].cn
    BY <1>1 DEF Sent
  <2>2. j - 2 \in 0..Len(fs)-3 /\ n = ids[j - 2] /\ n \in CN
    BY <2>1, FittingPReq
  <2>3. (Len(fs) - 2) - 1 = Len(fs) - 3
    BY <1>1
  <2> QED BY <2>2, <2>3 DEF Cns
<1>3. ASSUME NEW n \in Cns(ids, 0, Len(fs) - 2) PROVE n \in Sent(fs, Len(fs) + 1)
  <2>1. (Len(fs) - 2) - 1 = Len(fs) - 3
    BY <1>1
  <2>2. PICK k \in 0..Len(fs)-3 : n = ids[k] /\ n \in CN
    BY <2>1 DEF Cns
  <2>3. k + 2 \in 1..(Len(fs)+1)-1 /\ fs[k + 2].kind = "PReq" /\ fs[k + 2].cn = n
    BY <1>1, <2>2 DEF Fits
  <2> QED BY <2>3 DEF Sent
<1> QED BY <1>2, <1>3

LEMMA SentNext ==
    ASSUME NEW fs, NEW e \in Nat \ {0}
    PROVE  /\ Sent(fs, e + 1) = Sent(fs, e) \cup IF fs[e].kind = "PReq" THEN {fs[e].cn} ELSE {}
           /\ Sent(fs, 1) = {}
<1>1. 1..(e+1)-1 = (1..e-1) \cup {e} /\ 1..1-1 = {}
  OBVIOUS
<1> QED BY <1>1 DEF Sent

(* The PRes among captured frames.                                         *)
Carried(q) == {<<q[i].cn, q[i].off>> : i \in {j \in 1..Len(q) : q[j].kind = "PRes"}}

(* The cycle of the running list is the one of the DLL, between the sync   *)
(* callback and the next tick, and its node ids are those the receive      *)
(* thread looks a PRes up in.                                              *)
This == aCnNodeIdList[offset]
Other == aCnNodeIdList[1 - offset]
Running == list[curList]
Sending == Inside /\ Running # <<>> /\ AllOf(Running, offset)

EntryIn == entry <= Len(Running) + 1

SendData == Sending =>
              /\ Fits(Running, This)
              /\ Of(asked, offset) = Sent(Running, entry)
              /\ disturbed = 0 => curNodeIndex = 0 \/ curNodeIndex + 1 < entry
TickData == ~Inside =>
              /\ Fits(Running, Other)
              /\ Of(asked, 1 - offset) = Sent(Running, entry)
              /\ \A w \in wire : w[2] = 1 - offset
Complete == disturbed = 0 => Of(asked, offset) = Rest(This, 0)
PastData == ~Sending => Complete
NextData == /\ list[1 - curList] # <<>> => Fits(list[1 - curList], Other)
            /\ prep.kind \in {"check", "copy"} => Fits(prep.frames, Other)
AskData == /\ Inside => Of(asked, 1 - offset) = {}
           /\ wire \subseteq asked
           /\ disturbed = 0 /\ Inside => Carried(rx) \subseteq asked
Counted == \E n \in Index :
             /\ Well(This, n) /\ curNodeIndex <= n
             /\ reported \cup Of(answered, offset) = Cns(This, 0, curNodeIndex)
             /\ reported \cap Of(answered, offset) = {}
AnswerData == /\ disturbed <= 1 => Of(answered, 1 - offset) = {}
              /\ disturbed = 0 => Counted

Data == /\ EntryIn
        /\ dllState = "WaitSocTrig" =>
             SendData /\ TickData /\ PastData /\ NextData /\ AskData /\ AnswerData

LEMMA CarriedBy ==
    ASSUME NEW q \in Seq(Captured)
    PROVE  /\ q # <<>> => Carried(Tail(q)) \subseteq Carried(q)
           /\ q # <<>> /\ Head(q).kind = "PRes" => <<Head(q).cn, Head(q).off>> \in Carried(q)
           /\ \A f \in Captured :
                Carried(Append(q, f)) =
                  Carried(q) \cup IF f.kind = "PRes" THEN {<<f.cn, f.off>>} ELSE {}
<1>1. Len(q) \in Nat
  BY LenProperties
<1>2. ASSUME q # <<>>
      PROVE  /\ Carried(Tail(q)) \subseteq Carried(q)
             /\ Head(q).kind = "PRes" => <<Head(q).cn, Head(q).off>> \in Carried(q)
  <2>. DEFINE r == Tail(q)
  <2>1. /\ Len(q) \in Nat \ {0} /\ Len(r) = Len(q) - 1 /\ Head(q) = q[1]
        /\ \A i \in 1..Len(r) : r[i] = q[i + 1]
    BY <1>2, HeadTailProperties, EmptySeq
  <2>. HIDE DEF r
  <2>2. \A i \in 1..Len(r) : i + 1 \in 1..Len(q)
    BY <2>1
  <2>3. Carried(r) \subseteq Carried(q)
    BY <2>1, <2>2 DEF Carried
  <2>4. Head(q).kind = "PRes" => <<Head(q).cn, Head(q).off>> \in Carried(q)
    <3>1. 1 \in 1..Len(q)
      BY <2>1
    <3> QED BY <2>1, <3>1 DEF Carried
  <2>. QED BY <2>3, <2>4 DEF r
<1>3. ASSUME NEW f \in Captured
      PROVE  Carried(Append(q, f)) =
               Carried(q) \cup IF f.kind = "PRes" THEN {<<f.cn, f.off>>} ELSE {}
  <2>. DEFINE r == Append(q, f)
  <2>1. /\ Len(r) = Len(q) + 1 /\ r[Len(q) + 1] = f
        /\ \A i \in 1..Len(q) : r[i] = q[i]
    BY AppendProperties
  <2>. HIDE DEF r
  <2>2. 1..Len(r) = (1..Len(q)) \cup {Len(q) + 1}
    BY <1>1, <2>1
  <2>3. Carried(r) = Carried(q) \cup IF f.kind = "PRes" THEN {<<f.cn, f.off>>} ELSE {}
    BY <2>1, <2>2 DEF Carried
  <2>. QED BY <2>3 DEF r
<1> QED BY <1>2, <1>3

(* A step that leaves the list and the histories alone.                    *)
LEMMA DataSame ==
    ASSUME Data,
           UNCHANGED <<list, curList, entry, offset, aCnNodeIdList, curNodeIndex, histVars>>,
           dllState' = "WaitSocTrig" => dllState = "WaitSocTrig",
           Inside' <=> Inside, wire' \subseteq wire, Carried(rx') \subseteq Carried(rx) \cup wire,
           prep' = prep \/ prep'.kind \notin {"check", "copy"}
    PROVE  Data'
<1>1. EntryIn'
  BY DEF Data, EntryIn, Running
<1>2. CASE dllState = "WaitSocTrig"
  <2>1. SendData /\ TickData /\ PastData /\ NextData /\ AskData /\ AnswerData
    BY <1>2 DEF Data
  <2>2. /\ This' = This /\ Other' = Other /\ Running' = Running
        /\ UNCHANGED <<asked, answered, reported, disturbed>>
    BY DEF This, Other, Running, histVars
  <2>3. Sending' <=> Sending
    BY <2>2 DEF Sending, AllOf
  <2>4. SendData' /\ TickData' /\ PastData'
    <3>1. SendData'
      BY <2>1, <2>2, <2>3 DEF SendData
    <3>2. TickData'
      BY <2>1, <2>2 DEF TickData
    <3>3. PastData'
      BY <2>1, <2>2, <2>3 DEF PastData, Complete, Rest
    <3> QED BY <3>1, <3>2, <3>3
  <2>5. NextData'
    BY <2>1, <2>2 DEF NextData
  <2>6. AskData'
    BY <2>1, <2>2 DEF AskData, Of
  <2>7. AnswerData'
    BY <2>1, <2>2 DEF AnswerData, Counted
  <2> QED BY <1>1, <2>4, <2>5, <2>6, <2>7 DEF Data
<1> QED BY <1>1, <1>2 DEF Data

(* A list that is finished has asked every CN of its node ids.             *)
LEMMA FinishedIsComplete ==
    ASSUME Typed, Data, dllState = "WaitSocTrig", Inside, ListFinished
    PROVE  Complete
<1>1. SendData /\ PastData /\ EntryIn
  BY DEF Data
<1>2. CASE Sending
  <2>1. Fits(Running, This) /\ Of(asked, offset) = Sent(Running, entry)
    BY <1>1, <1>2 DEF SendData
  <2>2. Running \in Seq(TxFrame) /\ entry \in Nat \ {0} /\ This \in [Index -> Nat]
    BY DEF Typed, EdrvTyped, DllTyped, Running, This
  <2>3. Len(Running) \in Nat /\ Len(Running) >= 2
    BY <2>1, <2>2, LenProperties DEF Fits
  <2>4. ASSUME entry <= Len(Running) PROVE FALSE
    <3>1. entry \in 1..Len(Running)
      BY <2>2, <2>3, <2>4
    <3>2. Running[entry] \in TxFrame
      BY <2>2, <3>1, ElementOfSeq
    <3> QED BY <2>4, <3>2 DEF ListFinished, FrameAt, Running, TxFrame, None
  <2>5. entry = Len(Running) + 1
    BY <1>1, <2>2, <2>3, <2>4 DEF EntryIn
  <2>6. Sent(Running, entry) = Cns(This, 0, Len(Running) - 2)
    BY <2>1, <2>2, <2>5, SentAll
  <2>7. Well(This, Len(Running) - 2) /\ 0 \in 0..Len(Running) - 2
    BY <2>1, <2>3 DEF Fits
  <2> QED BY <2>1, <2>2, <2>6, <2>7, RestIs DEF Complete
<1>3. CASE ~Sending
  BY <1>1, <1>3 DEF PastData, Complete
<1> QED BY <1>2, <1>3

LEMMA TickDataKept ==
    ASSUME Typed, Control, Data, timerHdlCycleCb
    PROVE  Data'
<1>1. /\ running /\ timer = "idle" /\ dllState = "WaitSocTrig" /\ Inside
      /\ PrepOnce /\ NextList /\ curList \in 0..1
  BY DEF timerHdlCycleCb, Control, Inside, Typed, EdrvTyped
<1>2. /\ UNCHANGED <<dllState, offset, nodeVars, rx, prep, histVars>>
      /\ UNCHANGED <<aCnNodeIdList, curNodeIndex, asked, answered, reported, disturbed>>
  BY DEF timerHdlCycleCb, histVars, nodeVars
<1>3. CASE ~ListFinished
  <2>1. UNCHANGED <<list, curList, entry, timer, wire>>
    BY <1>3 DEF timerHdlCycleCb, edrvVars
  <2> QED BY <1>2, <2>1, DataSame DEF Inside
<1>4. CASE ListFinished
  <2>1. /\ curList' = 1 - curList /\ list' = [list EXCEPT ![curList] = <<>>]
        /\ wire' = {} /\ entry' = 1
        /\ \/ list[1 - curList] = <<>> /\ timer' = timer
           \/ list[1 - curList] # <<>> /\ timer' = "tick"
    BY <1>4 DEF timerHdlCycleCb
  <2>2. /\ Running' = list[1 - curList] /\ list'[1 - curList'] = <<>>
    BY <1>1, <2>1 DEF Running, Typed, EdrvTyped
  <2>3. EntryIn'
    <3>1. list[1 - curList] \in Seq(TxFrame)
      BY <1>1 DEF Typed, EdrvTyped
    <3> QED BY <2>1, <2>2, <3>1, LenProperties DEF EntryIn
  <2>4. This' = This /\ Other' = Other
    BY <1>2 DEF This, Other
  <2>5. Complete'
    BY <1>1, <1>2, <1>4, <2>4, FinishedIsComplete DEF Complete, Rest, Of
  <2>6. SendData /\ TickData /\ PastData /\ NextData /\ AskData /\ AnswerData
    BY <1>1 DEF Data
  <2>7. ~Sending'
    BY <1>2, <2>1, <2>2 DEF Sending, Inside
  <2>8. SendData' /\ PastData'
    BY <2>5, <2>7 DEF SendData, PastData, Complete
  <2>9. TickData'
    <3>1. CASE timer' = timer
      BY <1>1, <3>1 DEF TickData, Inside
    <3>2. CASE list[1 - curList] # <<>> /\ timer' = "tick"
      <4>1. Fits(list[1 - curList], Other)
        BY <2>6, <3>2 DEF NextData
      <4>2. Of(asked, 1 - offset) = {}
        BY <1>1, <2>6 DEF AskData
      <4>3. Sent(Running', 1) = {}
        BY SentNext
      <4> QED BY <1>2, <2>1, <2>2, <2>4, <4>1, <4>2, <4>3 DEF TickData
    <3> QED BY <2>1, <3>1, <3>2
  <2>10. NextData'
    BY <1>2, <2>2, <2>4, <2>6 DEF NextData
  <2>11. AskData'
    BY <1>1, <1>2, <2>1, <2>6 DEF AskData, Of
  <2>12. AnswerData'
    BY <1>2, <2>4, <2>6 DEF AnswerData, Counted
  <2> QED BY <2>3, <2>8, <2>9, <2>10, <2>11, <2>12 DEF Data
<1> QED BY <1>3, <1>4

(* A frame that is sent moves the list and what it has asked on together.  *)
LEMMA SentData ==
    ASSUME Typed, Control, Data, FrameAt # None, Transmitted(FrameAt),
           timer # "idle" \/ slotArmed, Inside' <=> Inside,
           UNCHANGED <<list, curList, dllState, offset, aCnNodeIdList, curNodeIndex, prep,
                       answered, reported, disturbed>>
    PROVE  Data'
<1>. DEFINE f == FrameAt
            preq == IF f.kind = "PReq" THEN {<<f.cn, f.off>>} ELSE {}
<1>1. /\ f \in TxFrame /\ entry \in 1..Len(Running) /\ f = Running[entry]
      /\ Running # <<>> /\ Running \in Seq(TxFrame) /\ entry \in Nat \ {0}
  BY FrameAtTyped, FrameInList DEF Running, Typed, EdrvTyped
<1>2. /\ entry' = entry + 1 /\ wire' = wire \cup preq /\ asked' = asked \cup preq
      /\ Running' = Running /\ This' = This /\ Other' = Other
      /\ rx' = IF f.kind = "SoA" THEN Append(rx, f) ELSE rx
  BY DEF Transmitted, Running, This, Other
<1>3. /\ f.kind = "PReq" => f.cn \in CN
      /\ f.kind = "SoA" => f \in Captured
  BY <1>1 DEF TxFrame, Captured
<1>. HIDE DEF f
<1>4. Carried(rx') = Carried(rx)
  <2>1. rx \in Seq(Captured)
    BY DEF Typed, QueuesTyped
  <2> QED BY <1>2, <1>3, <2>1, CarriedBy
<1>5. EntryIn'
  BY <1>1, <1>2, LenProperties DEF EntryIn
<1>6. CASE dllState = "WaitSocTrig"
  <2>1. /\ SendData /\ TickData /\ PastData /\ NextData /\ AskData /\ AnswerData
        /\ CycleList /\ offset \in 0..1
    BY <1>6 DEF Data, Control, Typed, DllTyped
  <2>2. ~Late
    BY DEF Late
  <2>3. Inside => Sending /\ f.off = offset
    BY <1>1, <2>1, <2>2 DEF CycleList, Sending, AllOf, Running
  <2>4. ~Inside => f.off = 1 - offset
    BY <1>1, <2>1 DEF CycleList, AllOf, Running
  <2>5. Sending' <=> Sending
    BY <1>2 DEF Sending, AllOf
  <2>6. \A p : Of(asked', p) = Of(asked, p) \cup IF f.kind = "PReq" /\ f.off = p THEN {f.cn} ELSE {}
    <3>1. CASE f.kind = "PReq"
      <4>1. asked' = asked \cup {<<f.cn, f.off>>} /\ f.cn \in CN
        BY <1>2, <1>3, <3>1
      <4>2. \A p : Of(asked \cup {<<f.cn, f.off>>}, p) = Of(asked, p) \cup IF f.off = p THEN {f.cn} ELSE {}
        BY <4>1 DEF Of
      <4> QED BY <3>1, <4>1, <4>2
    <3>2. CASE f.kind # "PReq"
      <4>1. asked' = asked
        BY <1>2, <3>2
      <4> QED BY <3>2, <4>1
    <3> QED BY <3>1, <3>2
  <2>7. Sent(Running, entry') = Sent(Running, entry) \cup IF f.kind = "PReq" THEN {f.cn} ELSE {}
    BY <1>1, <1>2, SentNext
  <2>8. SendData'
    <3>1. CASE Inside
      <4>1. Of(asked', offset) = Of(asked, offset) \cup IF f.kind = "PReq" THEN {f.cn} ELSE {}
        BY <2>3, <2>6, <3>1
      <4>2. disturbed = 0 => curNodeIndex = 0 \/ curNodeIndex + 1 < entry + 1
        <5>1. curNodeIndex \in Nat
          BY DEF Typed, DllTyped
        <5> QED BY <1>1, <2>1, <2>3, <3>1, <5>1 DEF SendData
      <4> QED BY <1>2, <2>1, <2>3, <2>7, <3>1, <4>1, <4>2 DEF SendData
    <3>2. CASE ~Inside
      BY <2>5, <3>2 DEF SendData, Sending
    <3> QED BY <3>1, <3>2
  <2>9. TickData'
    <3>1. CASE ~Inside
      <4>1. Of(asked', 1 - offset) = Of(asked, 1 - offset) \cup IF f.kind = "PReq" THEN {f.cn} ELSE {}
        BY <2>4, <2>6, <3>1
      <4>2. \A w \in wire' : w[2] = 1 - offset
        BY <1>2, <2>1, <2>4, <3>1 DEF TickData
      <4> QED BY <1>2, <2>1, <2>7, <3>1, <4>1, <4>2 DEF TickData
    <3>2. CASE Inside
      BY <3>2 DEF TickData
    <3> QED BY <3>1, <3>2
  <2>10. PastData'
    <3>1. ASSUME ~Sending PROVE Of(asked', offset) = Of(asked, offset)
      <4>1. f.off # offset
        BY <2>1, <2>3, <2>4, <3>1
      <4> QED BY <2>6, <4>1
    <3> QED BY <1>2, <2>1, <2>5, <3>1 DEF PastData, Complete, Rest
  <2>11. AskData'
    <3>1. Inside => Of(asked', 1 - offset) = Of(asked, 1 - offset)
      <4>1. Inside => f.off # 1 - offset
        BY <2>1, <2>3
      <4>2. f.off # 1 - offset => Of(asked', 1 - offset) = Of(asked, 1 - offset) \cup {}
        BY <2>6
      <4> QED BY <4>1, <4>2
    <3> QED BY <1>2, <1>4, <2>1, <3>1 DEF AskData
  <2>12. NextData' /\ AnswerData'
    BY <1>2, <2>1 DEF NextData, AnswerData, Counted
  <2> QED BY <1>5, <2>8, <2>9, <2>10, <2>11, <2>12 DEF Data
<1> QED BY <1>5, <1>6 DEF Data

LEMMA SendingDataKept ==
    ASSUME Typed, Control, Data, processTxBufferList \/ timerHdlSlotCb
    PROVE  Data'
<1>1. UNCHANGED <<list, curList, dllState, offset, aCnNodeIdList, curNodeIndex, prep,
                  answered, reported, disturbed>>
  BY DEF processTxBufferList, timerHdlSlotCb, nodeVars
<1>2. /\ timer # "idle" \/ slotArmed
      /\ Inside' <=> Inside
  BY DEF processTxBufferList, timerHdlSlotCb, Inside
<1>3. \/ FrameAt # None /\ Transmitted(FrameAt)
      \/ UNCHANGED <<entry, rx, wire, asked>>
  BY DEF processTxBufferList, timerHdlSlotCb, Refuse
<1>4. CASE UNCHANGED <<entry, rx, wire, asked>>
  BY <1>1, <1>2, <1>4, DataSame DEF histVars
<1> QED BY <1>1, <1>2, <1>3, <1>4, SentData

(* The sync callback: what was asked since the tick is now the DLL's.      *)
LEMMA SyncData ==
    ASSUME Typed, Control, Data, SwitchCycle
    PROVE  Data'
<1>1. /\ ~Inside /\ dllState = "WaitSocTrig" /\ PrepOnce /\ CycleList /\ offset \in 0..1
      /\ SendData /\ TickData /\ PastData /\ NextData /\ AskData /\ AnswerData /\ EntryIn
      /\ curNodeIndex' = 0 /\ disturbed \in 0..2
  BY DEF SwitchCycle, Control, Inside, Data, Typed, DllTyped, HistTyped
<1>2. /\ Inside' /\ offset' = 1 - offset /\ 1 - offset' = offset
      /\ UNCHANGED <<list, curList, entry, dllState, prep, rx, wire, aCnNodeIdList>>
      /\ reported' = {}
      /\ asked' = {a \in asked : a[2] # offset}
      /\ answered' = {a \in answered : a[2] # offset}
      /\ disturbed' = IF Crossing THEN 2 ELSE IF disturbed > 0 THEN disturbed - 1 ELSE 0
  BY <1>1 DEF SwitchCycle, edrvVars, Inside
<1>3. /\ Running' = Running /\ This' = Other /\ Other' = This /\ EntryIn'
  BY <1>1, <1>2 DEF Running, This, Other, EntryIn
<1>4. /\ Of(asked', 1 - offset) = Of(asked, 1 - offset) /\ Of(asked', offset) = {}
      /\ Of(answered', 1 - offset) = Of(answered, 1 - offset) /\ Of(answered', offset) = {}
  BY <1>1, <1>2 DEF Of
<1>5. list[1 - curList] = <<>> /\ prep = None
  BY <1>1 DEF PrepOnce, Busy
<1>6. Sending'
  BY <1>1, <1>2, <1>3 DEF CycleList, Sending, Running, AllOf
<1>7. SendData'
  BY <1>1, <1>2, <1>3, <1>4 DEF TickData, SendData
<1>8. TickData' /\ PastData'
  BY <1>2, <1>6 DEF TickData, PastData, Complete
<1>9. NextData'
  BY <1>2, <1>5 DEF NextData, None
<1>10. disturbed' = 0 => Carried(rx) = {} /\ disturbed <= 1
  BY <1>1, <1>2 DEF Carried, Crossing
<1>11. AskData'
  <2>1. wire' \subseteq asked'
    <3>1. \A w \in wire : w \in asked /\ w[2] = 1 - offset
      BY <1>1 DEF AskData, TickData
    <3> QED BY <1>1, <1>2, <3>1
  <2>2. disturbed' = 0 => Carried(rx') \subseteq asked'
    BY <1>2, <1>10
  <2> QED BY <1>2, <1>4, <2>1, <2>2 DEF AskData
<1>12. AnswerData'
  <2>1. disturbed' = 0 => Counted'
    <3>1. SUFFICES ASSUME disturbed' = 0 PROVE Counted'
      OBVIOUS
    <3>2. Of(answered', offset') = {}
      BY <1>1, <1>2, <1>4, <1>10, <3>1 DEF AnswerData
    <3>. DEFINE n == Len(Running) - 2
    <3>3. Well(This', n) /\ n \in Index /\ n \in Nat
      <4>1. Fits(Running, Other) /\ Running \in Seq(TxFrame)
        BY <1>1 DEF TickData, Running, Typed, EdrvTyped
      <4> QED BY <1>3, <4>1, LenProperties DEF Fits, Well
    <3>4. Cns(This', 0, 0) = {}
      BY DEF Cns
    <3> HIDE DEF n
    <3>5. curNodeIndex' <= n
      BY <1>1, <3>3
    <3> QED BY <1>1, <1>2, <3>2, <3>3, <3>4, <3>5 DEF Counted
  <2> QED BY <1>2, <1>4, <2>1 DEF AnswerData
<1> QED BY <1>3, <1>7, <1>8, <1>9, <1>11, <1>12 DEF Data

LEMMA StartData ==
    ASSUME Typed, Control, SocTrig
    PROVE  Data'
<1>1. /\ list' = [h \in 0..1 |-> <<>>] /\ curList' = 0 /\ entry' = 1 /\ timer' = "idle"
      /\ rx' = <<>> /\ wire' = {} /\ asked' = {} /\ answered' = {} /\ disturbed' = 1
      /\ prep' = None
  BY DEF SocTrig, Control
<1>2. Running' = <<>> /\ list'[1 - curList'] = <<>>
  BY <1>1 DEF Running
<1>3. EntryIn'
  BY <1>1, <1>2 DEF EntryIn
<1>4. Inside' /\ ~Sending'
  BY <1>1, <1>2 DEF Inside, Sending
<1>5. SendData' /\ TickData' /\ PastData'
  BY <1>1, <1>4 DEF SendData, TickData, PastData, Complete
<1>6. NextData'
  BY <1>1, <1>2 DEF NextData, None
<1>7. AskData' /\ AnswerData'
  BY <1>1 DEF AskData, AnswerData, Of
<1> QED BY <1>3, <1>5, <1>6, <1>7 DEF Data

LEMMA AnswersData ==
    ASSUME Typed, Data, CnAnswers
    PROVE  Data'
<1>1. PICK w \in wire : /\ wire' = wire \ {w}
                        /\ rx' = Append(rx, [kind |-> "PRes", cn |-> w[1], off |-> w[2], waits |-> FALSE])
  BY DEF CnAnswers
<1>2. w[1] \in CN /\ w[2] \in 0..1 /\ w = <<w[1], w[2]>>
  BY DEF Typed, HistTyped
<1>. DEFINE f == [kind |-> "PRes", cn |-> w[1], off |-> w[2], waits |-> FALSE]
<1>3. f \in Captured /\ rx \in Seq(Captured) /\ f.kind = "PRes" /\ <<f.cn, f.off>> = w
  BY <1>2, NodeIdIsNumber DEF Captured, Typed, QueuesTyped
<1>4. rx' = Append(rx, f)
  BY <1>1
<1>. HIDE DEF f
<1>5. Carried(rx') = Carried(rx) \cup {w}
  BY <1>3, <1>4, CarriedBy
<1>6. UNCHANGED <<list, curList, entry, offset, aCnNodeIdList, curNodeIndex, histVars,
                  dllState, timer, prep>>
  BY DEF CnAnswers, edrvVars, timers, nodeVars
<1>7. wire' \subseteq wire /\ Carried(rx') \subseteq Carried(rx) \cup wire
  BY <1>1, <1>5
<1> QED BY <1>6, <1>7, DataSame DEF Inside

(* A PRes is found where its node was asked, which is behind the index, so *)
(* that the nodes it passes over did not answer.                           *)
LEMMA HitData ==
    ASSUME Typed, Control, Data, rx # <<>>, Head(rx).kind = "PRes", Hits # {},
           dllState = "WaitSocTrig",
           Head(rx).off = offset, rx' = Tail(rx),
           curNodeIndex' = Hit + 1,
           reported' = reported \cup Cns(This, curNodeIndex, Hit),
           answered' = answered \cup {<<Head(rx).cn, offset>>},
           UNCHANGED <<list, curList, entry, timer, dllState, offset, aCnNodeIdList, prep,
                       wire, asked, disturbed>>
    PROVE  Data'
<1>. DEFINE cn == Head(rx).cn
            k == Hit
<1>1. /\ k \in Nat /\ k \in Index /\ k >= curNodeIndex /\ This[k] = cn
      /\ \A j \in curNodeIndex..k-1 : This[j] # C_ADR_INVALID
      /\ curNodeIndex \in Nat /\ offset \in 0..1
  BY HitIn DEF This, Typed, DllTyped
<1>2. cn \in CN
  BY HeadTyped DEF Captured
<1>3. EntryIn /\ SendData /\ TickData /\ PastData /\ NextData /\ AskData /\ AnswerData
  BY DEF Data
<1>4. rx \in Seq(Captured)
  BY DEF Typed, QueuesTyped
<1>5. Carried(rx') \subseteq Carried(rx) /\ <<cn, offset>> \in Carried(rx)
  BY <1>4, CarriedBy
<1>6. /\ This' = This /\ Other' = Other /\ Running' = Running /\ (Inside' <=> Inside)
      /\ Sending' <=> Sending
  BY DEF This, Other, Running, Inside, Sending, AllOf
<1>. HIDE DEF cn, k
<1>7. ASSUME NEW n \in Index, Well(This, n), curNodeIndex <= n
      PROVE  n \in Nat /\ k \in curNodeIndex..n-1
  <2>1. n \in Nat /\ This[n] = C_ADR_INVALID
    BY <1>7, NodesFinite DEF Well, Index, Nodes
  <2>2. k # n
    BY <1>1, <1>2, <2>1, NodeIdIsNumber
  <2>3. ~(k > n)
    BY <1>1, <1>7, <2>1
  <2> QED BY <1>1, <2>1, <2>2, <2>3
<1>8. SendData'
  <2>1. SUFFICES ASSUME Sending, disturbed = 0 PROVE k + 1 + 1 < entry
    BY <1>3, <1>6 DEF SendData, k
  <2>2. Fits(Running, This) /\ Of(asked, offset) = Sent(Running, entry)
    BY <1>3, <2>1 DEF SendData
  <2>3. cn \in Sent(Running, entry)
    BY <1>2, <1>3, <1>5, <2>1, <2>2 DEF AskData, Of, Sending
  <2>4. PICK j \in 1..entry-1 : Running[j].kind = "PReq" /\ Running[j].cn = cn
    BY <2>3 DEF Sent
  <2>. DEFINE n == Len(Running) - 2
  <2>5. Running \in Seq(TxFrame) /\ entry \in Nat \ {0} /\ Len(Running) \in Nat /\ Len(Running) >= 2
    BY <2>2, LenProperties DEF Typed, EdrvTyped, Running, Fits
  <2>6. j \in 1..Len(Running)
    BY <1>3, <2>5 DEF EntryIn
  <2>7. j - 2 \in 0..Len(Running)-3 /\ This[j - 2] = cn
    BY <2>2, <2>4, <2>5, <2>6, FittingPReq
  <2>8. Well(This, n) /\ n \in Index /\ n \in Nat /\ n - 1 = Len(Running) - 3
    BY <2>2, <2>5 DEF Fits, Well
  <2>9. PICK m \in Index : Well(This, m) /\ curNodeIndex <= m
    BY <1>3, <2>1 DEF AnswerData, Counted
  <2>10. m \in Nat /\ k \in curNodeIndex..m-1
    BY <1>7, <2>9
  <2>11. m = n
    <3>1. \A i \in 0..n-1 : This[i] # C_ADR_INVALID
      BY <2>8 DEF Well
    <3>2. \A i \in 0..m-1 : This[i] # C_ADR_INVALID
      BY <2>9 DEF Well
    <3>3. This[n] = C_ADR_INVALID /\ This[m] = C_ADR_INVALID
      BY <2>8, <2>9 DEF Well
    <3> HIDE DEF n
    <3> QED BY <2>8, <2>10, <3>1, <3>2, <3>3
  <2>12. k \in 0..n-1 /\ j - 2 \in 0..n-1 /\ This[k] = This[j - 2] /\ This[k] \in CN
    BY <1>1, <1>2, <2>7, <2>8, <2>10, <2>11
  <2>13. k = j - 2
    BY <2>8, <2>12 DEF Well
  <2> QED BY <1>1, <2>5, <2>6, <2>13
<1>9. TickData' /\ PastData'
  BY <1>3, <1>6 DEF TickData, PastData, Complete, Rest
<1>10. NextData' /\ EntryIn'
  BY <1>3, <1>6 DEF NextData, EntryIn
<1>11. AskData'
  BY <1>3, <1>5, <1>6 DEF AskData
<1>12. AnswerData'
  <2>1. offset # 1 - offset
    BY <1>1
  <2>2. Of(answered', 1 - offset) = Of(answered, 1 - offset)
    BY <2>1 DEF Of
  <2>3. Of(answered', offset) = Of(answered, offset) \cup {cn}
    BY <1>2 DEF Of, cn
  <2>4. ASSUME disturbed = 0 PROVE Counted'
    <3>1. PICK n \in Index :
             /\ Well(This, n) /\ curNodeIndex <= n
             /\ reported \cup Of(answered, offset) = Cns(This, 0, curNodeIndex)
             /\ reported \cap Of(answered, offset) = {}
      BY <1>3, <2>4 DEF AnswerData, Counted
    <3>2. n \in Nat /\ k \in curNodeIndex..n-1 /\ curNodeIndex \in 0..n
      BY <1>1, <1>7, <3>1
    <3>3. Cns(This, 0, curNodeIndex) \cup Cns(This, curNodeIndex, k) \cup {cn} = Cns(This, 0, k + 1)
      BY <1>1, <1>2, <3>1, <3>2, CnsNext
    <3>4. Cns(This, curNodeIndex, k) \subseteq Cns(This, curNodeIndex, n) /\ cn \in Cns(This, curNodeIndex, n)
      <4>1. k \in curNodeIndex..n-1 /\ curNodeIndex..k-1 \subseteq curNodeIndex..n-1
        BY <1>1, <3>2
      <4> QED BY <1>1, <1>2, <4>1 DEF Cns
    <3>5. cn \notin Cns(This, curNodeIndex, k)
      <4>1. ASSUME NEW i \in curNodeIndex..k-1, This[i] = cn PROVE FALSE
        <5>1. i \in 0..n-1 /\ k \in 0..n-1 /\ i # k
          BY <1>1, <3>2
        <5> QED BY <1>1, <1>2, <3>1, <4>1, <5>1 DEF Well
      <4> QED BY <4>1 DEF Cns
    <3>6. Cns(This, 0, curNodeIndex) \cap Cns(This, curNodeIndex, n) = {}
      BY <3>1, <3>2, CnsSplit
    <3>7. reported' = reported \cup Cns(This, curNodeIndex, k)
      BY DEF k
    <3>8. reported' \cup Of(answered', offset) = Cns(This, 0, k + 1)
      BY <2>3, <3>1, <3>3, <3>7
    <3>9. reported' \cap Of(answered', offset) = {}
      <4>1. /\ Of(answered, offset) \subseteq Cns(This, 0, curNodeIndex)
            /\ reported \subseteq Cns(This, 0, curNodeIndex)
        BY <3>1
      <4>2. Of(answered, offset) \cap Cns(This, curNodeIndex, k) = {}
        BY <3>4, <3>6, <4>1
      <4>3. cn \notin reported
        BY <3>4, <3>6, <4>1
      <4> QED BY <2>3, <3>1, <3>5, <3>7, <4>2, <4>3
    <3>10. curNodeIndex' = k + 1 /\ k + 1 <= n
      BY <1>1, <3>2 DEF k
    <3> QED BY <1>6, <3>1, <3>8, <3>9, <3>10 DEF Counted
  <2> QED BY <1>3, <2>2, <2>4 DEF AnswerData
<1> QED BY <1>8, <1>9, <1>10, <1>11, <1>12 DEF Data

(* A PRes that crossed a tick: nothing is expected of this cycle.          *)
LEMMA CrossedData ==
    ASSUME Typed, Data, rx # <<>>, rx' = Tail(rx), disturbed' = 2,
           UNCHANGED <<list, curList, entry, timer, dllState, offset, aCnNodeIdList, prep,
                       wire, asked>>
    PROVE  Data'
<1>1. /\ This' = This /\ Other' = Other /\ Running' = Running
      /\ Inside' <=> Inside
  BY DEF This, Other, Running, Inside
<1>2. Sending' <=> Sending
  BY <1>1 DEF Sending, AllOf
<1>3. CASE dllState = "WaitSocTrig"
  <2>1. EntryIn /\ SendData /\ TickData /\ PastData /\ NextData /\ AskData /\ AnswerData
    BY <1>3 DEF Data
  <2>2. SendData' /\ TickData' /\ PastData'
    BY <1>1, <1>2, <2>1 DEF SendData, TickData, PastData, Complete
  <2>3. NextData' /\ AskData' /\ AnswerData' /\ EntryIn'
    BY <1>1, <2>1 DEF NextData, AskData, AnswerData, EntryIn
  <2> QED BY <2>2, <2>3 DEF Data
<1>4. CASE dllState # "WaitSocTrig"
  BY <1>1, <1>4 DEF Data, EntryIn
<1> QED BY <1>3, <1>4

LEMMA RxData ==
    ASSUME Typed, Control, Data, RxSoa \/ RxPres
    PROVE  Data'
<1>1. CASE RxSoa
  <2>1. rx # <<>> /\ rx' = Tail(rx) /\ rx \in Seq(Captured)
    BY <1>1 DEF RxSoa, CalledBack, Typed, QueuesTyped
  <2>2. Carried(rx') \subseteq Carried(rx)
    BY <2>1, CarriedBy
  <2>3. UNCHANGED <<list, curList, entry, offset, aCnNodeIdList, curNodeIndex, histVars,
                    dllState, timer, wire, prep>>
    BY <1>1 DEF RxSoa, edrvVars, timers, nodeVars
  <2> QED BY <2>2, <2>3, DataSame DEF Inside
<1>2. CASE RxPres
  <2>1. /\ rx # <<>> /\ Head(rx).kind = "PRes" /\ rx' = Tail(rx)
        /\ disturbed' = IF Head(rx).off # offset THEN 2 ELSE disturbed
        /\ UNCHANGED <<list, curList, entry, timer, dllState, offset, aCnNodeIdList, prep,
                       wire, asked>>
    BY <1>2, RxPresSteps DEF edrvVars, timers
  <2>2. \/ Hits = {} /\ UNCHANGED <<curNodeIndex, reported, answered>>
        \/ /\ Hits # {} /\ dllState = "WaitSocTrig"
           /\ curNodeIndex' = Hit + 1
           /\ reported' = reported \cup Cns(This, curNodeIndex, Hit)
           /\ answered' = answered \cup {<<Head(rx).cn, Head(rx).off>>}
    BY <1>2, RxPresSteps DEF Cns, This
  <2>3. Carried(rx') \subseteq Carried(rx)
    BY <2>1, CarriedBy DEF Typed, QueuesTyped
  <2>4. CASE Head(rx).off # offset
    BY <2>1, <2>4, CrossedData
  <2>5. CASE Head(rx).off = offset /\ Hits = {}
    BY <2>1, <2>2, <2>3, <2>5, DataSame DEF Inside, histVars
  <2>6. CASE Head(rx).off = offset /\ Hits # {}
    BY <2>1, <2>2, <2>6, HitData
  <2> QED BY <2>4, <2>5, <2>6
<1> QED BY <1>1, <1>2

(* The node ids that are written are not those of this cycle, and what is  *)
(* prepared fits them.                                                     *)
LEMMA FillData ==
    ASSUME Typed, Control, Data, Fill
    PROVE  Data'
<1>1. /\ prep # None /\ dllState = "WaitSocTrig" /\ PrepOnce /\ offset \in 0..1
      /\ aCnNodeIdList \in [0..1 -> [Index -> Nat]]
  BY DEF Fill, None, Control, Typed, DllTyped
<1>2. Inside /\ list[1 - curList] = <<>>
  BY <1>1 DEF PrepOnce, Busy
<1>3. /\ prep' = [kind |-> "check", frames |-> Frames]
      /\ aCnNodeIdList' = [aCnNodeIdList EXCEPT ![1 - offset] = NodeIds(Other)]
      /\ UNCHANGED <<list, curList, entry, timer, dllState, offset, curNodeIndex, rx, wire,
                     asked, answered, reported, disturbed>>
  BY DEF Fill, Other, nextTxBufferOffset, edrvVars, timers, histVars
<1>4. /\ This' = This /\ Other' = NodeIds(Other) /\ Running' = Running /\ Inside'
  BY <1>1, <1>2, <1>3 DEF This, Other, Running, Inside
<1>5. Sending' <=> Sending
  BY <1>2, <1>3, <1>4 DEF Sending, AllOf
<1>6. EntryIn /\ SendData /\ TickData /\ PastData /\ NextData /\ AskData /\ AnswerData
  BY <1>1 DEF Data
<1>7. SendData' /\ TickData' /\ PastData'
  BY <1>3, <1>4, <1>5, <1>6 DEF SendData, TickData, PastData, Complete, Rest
<1>8. NextData'
  <2>1. Other \in [Index -> Nat] /\ DllTyped
    BY <1>1 DEF Other, Typed
  <2>2. Fits(Frames, NodeIds(Other))
    BY <2>1, PreparedFits
  <2>3. Fits(prep'.frames, Other')
    BY <1>3, <1>4, <2>2
  <2> QED BY <1>2, <1>3, <2>3 DEF NextData
<1>9. AskData' /\ AnswerData' /\ EntryIn'
  BY <1>2, <1>3, <1>4, <1>6 DEF AskData, AnswerData, Counted, EntryIn
<1> QED BY <1>7, <1>8, <1>9 DEF Data

LEMMA CopyData ==
    ASSUME Typed, IInv, Control, Data, CopyNextTxBufferList
    PROVE  Data'
<1>1. /\ prep # None /\ prep.kind = "copy" /\ dllState = "WaitSocTrig"
      /\ PrepOnce /\ NextList /\ offset \in 0..1
      /\ prep.half \in 0..1 /\ list[prep.half] = <<>> /\ prep.frames \in Seq(TxFrame)
  BY DEF CopyNextTxBufferList, None, Control, Typed, DllTyped, PrepTyped, IInv, FoundFree
<1>2. Inside /\ list[1 - curList] = <<>>
  BY <1>1 DEF PrepOnce, Busy
<1>3. /\ prep' = None /\ list' = [list EXCEPT ![prep.half] = prep.frames]
      /\ UNCHANGED <<curList, entry, timer, dllState, offset, aCnNodeIdList, curNodeIndex, rx, wire,
                     asked, answered, reported, disturbed>>
  BY DEF CopyNextTxBufferList, timers, nodeVars, histVars
<1>4. This' = This /\ Other' = Other /\ Inside'
  BY <1>2, <1>3 DEF This, Other, Inside
<1>5. EntryIn /\ SendData /\ TickData /\ PastData /\ NextData /\ AskData /\ AnswerData
  BY <1>1 DEF Data
<1>6. TickData' /\ AskData' /\ AnswerData'
  BY <1>2, <1>3, <1>4, <1>5 DEF TickData, AskData, AnswerData, Counted
<1>7. Fits(prep.frames, Other) /\ AllOf(prep.frames, 1 - offset)
  BY <1>1, <1>5 DEF NextData, NextList
<1>8. CASE prep.half = curList
  <2>1. Running = <<>> /\ Running' = prep.frames /\ list'[1 - curList'] = <<>>
    BY <1>1, <1>2, <1>3, <1>8 DEF Running, Typed, EdrvTyped
  <2>2. ~Sending /\ ~Sending'
    <3>1. Len(prep.frames) >= 2 /\ Len(prep.frames) \in Nat
      BY <1>1, <1>7, LenProperties DEF Fits
    <3>2. prep.frames[1].off # offset /\ 1 \in 1..Len(prep.frames)
      BY <1>1, <1>7, <3>1 DEF AllOf
    <3> QED BY <1>3, <2>1, <3>2 DEF Sending, AllOf
  <2>3. SendData' /\ PastData'
    BY <1>3, <1>4, <1>5, <2>2 DEF SendData, PastData, Complete, Rest
  <2>4. EntryIn'
    <3>1. Len(prep.frames) \in Nat /\ entry \in Nat /\ entry <= 1
      BY <1>1, <1>5, <2>1, LenProperties, EmptySeq DEF EntryIn, Typed, EdrvTyped
    <3> QED BY <1>3, <2>1, <3>1 DEF EntryIn
  <2>5. NextData'
    BY <1>3, <2>1 DEF NextData, None
  <2> QED BY <1>6, <2>3, <2>4, <2>5 DEF Data
<1>9. CASE prep.half # curList
  <2>1. Running' = Running /\ list'[1 - curList'] = prep.frames
    BY <1>1, <1>3, <1>9 DEF Running, Typed, EdrvTyped
  <2>2. Sending' <=> Sending
    BY <1>2, <1>3, <1>4, <2>1 DEF Sending, AllOf
  <2>3. SendData' /\ PastData' /\ EntryIn'
    BY <1>3, <1>4, <1>5, <2>1, <2>2 DEF SendData, PastData, Complete, Rest, EntryIn
  <2>4. NextData'
    BY <1>3, <1>4, <1>7, <2>1 DEF NextData, None
  <2> QED BY <1>6, <2>3, <2>4 DEF Data
<1> QED BY <1>8, <1>9

LEMMA CheckData ==
    ASSUME Typed, Control, Data, CheckNextTxBufferList
    PROVE  Data'
<1>1. prep # None /\ prep.kind = "check" /\ dllState = "WaitSocTrig"
  BY DEF CheckNextTxBufferList, None, Control
<1>2. /\ prep' = None \/ (prep'.kind = "copy" /\ prep'.frames = prep.frames)
      /\ UNCHANGED <<list, curList, entry, timer, dllState, offset, aCnNodeIdList, curNodeIndex, rx,
                     wire, asked, answered, reported, disturbed>>
  BY DEF CheckNextTxBufferList, edrvVars, timers, nodeVars, histVars
<1>3. This' = This /\ Other' = Other /\ Running' = Running /\ (Inside' <=> Inside)
  BY <1>2 DEF This, Other, Running, Inside
<1>4. Sending' <=> Sending
  BY <1>2, <1>3 DEF Sending, AllOf
<1>5. EntryIn /\ SendData /\ TickData /\ PastData /\ NextData /\ AskData /\ AnswerData
  BY <1>1 DEF Data
<1>6. SendData' /\ TickData' /\ PastData' /\ EntryIn'
  BY <1>2, <1>3, <1>4, <1>5 DEF SendData, TickData, PastData, Complete, Rest, EntryIn
<1>7. NextData'
  BY <1>1, <1>2, <1>3, <1>5 DEF NextData, None
<1>8. AskData' /\ AnswerData'
  BY <1>2, <1>3, <1>5 DEF AskData, AnswerData, Counted
<1> QED BY <1>6, <1>7, <1>8 DEF Data

LEMMA InitData == Init => Data
BY DEF Init, Data, EntryIn, Running

LEMMA DataKept ==
    ASSUME Typed, IInv, Control, Data, [Next]_vars
    PROVE  Data'
<1>1. CASE HandleEvent
  <2>1. UNCHANGED <<list, curList, entry, offset, aCnNodeIdList, curNodeIndex, histVars,
                    dllState, timer, wire, rx>>
    BY <1>1 DEF HandleEvent, edrvVars, nodeVars
  <2>2. prep' = prep \/ prep'.kind = "fill"
    BY <1>1 DEF HandleEvent, CycleFinish, ProcessSync, handleMnCycTimeExceed, CycleError, None
  <2> QED BY <2>1, <2>2, DataSame DEF Inside
<1>2. CASE processStartReducedCycle
  BY <1>2 DEF processStartReducedCycle, Data, EntryIn, Running, edrvVars
<1>3. CASE EnterFullCycle \/ ChangeNodes \/ UNCHANGED vars
  <2>1. UNCHANGED <<list, curList, entry, offset, aCnNodeIdList, curNodeIndex, histVars,
                    dllState, timer, wire, rx, prep>>
    BY <1>3 DEF EnterFullCycle, ChangeNodes, vars, edrvVars, timers, nodeVars
  <2> QED BY <2>1, DataSame DEF Inside
<1>4. CASE ReportLosses
  <2>1. UNCHANGED <<list, curList, entry, offset, aCnNodeIdList, curNodeIndex, histVars,
                    dllState, wire, rx, prep>>
    BY <1>4 DEF ReportLosses, edrvVars, nodeVars
  <2>2. Inside' <=> Inside
    BY <1>4 DEF ReportLosses, Inside
  <2> QED BY <2>1, <2>2, DataSame
<1> QED
  BY <1>1, <1>2, <1>3, <1>4, TickDataKept, SendingDataKept, SyncData, StartData, RxData, FillData,
     CheckData, CopyData, AnswersData
     DEF Next, TimerThread, cbMnSyncHandler, RxThread, EventThread

(* All of it holds together from the start, where the configuration keeps  *)
(* the frames of a cycle apart from the preparation of the next.           *)
Kept == IInv /\ Typed /\ (Separated => Control /\ Pace /\ Data)

LEMMA KeptByAll ==
    ASSUME Locked, Kept, [Next]_vars
    PROVE  Kept'
<1>1. UNCHANGED config
  <2>1. CASE TimerThread
    BY <2>1 DEF TimerThread, timerHdlCycleCb, processTxBufferList, timerHdlSlotCb,
       cbMnSyncHandler, ReportLosses, SwitchCycle, SocTrig
  <2>2. CASE RxThread
    BY <2>2, RxPresSteps DEF RxThread, RxSoa
  <2>3. CASE EventThread
    BY <2>3 DEF EventThread, HandleEvent, Fill, CheckNextTxBufferList, CopyNextTxBufferList,
       processStartReducedCycle, EnterFullCycle, ChangeNodes
  <2>4. CASE CnAnswers \/ UNCHANGED vars
    BY <2>4 DEF CnAnswers, vars
  <2> QED BY <2>1, <2>2, <2>3, <2>4 DEF Next
<1>2. Separated' <=> Separated
  BY <1>1 DEF Separated, config
<1> QED
  BY <1>2, NextKeeps, TypedKept, ControlKept, PaceKept, DataKept DEF Kept

LEMMA CycleIsKept ==
    ASSUME Locked
    PROVE  Spec => []Kept
<1>1. Init => Kept
  BY InitIInv, InitTyped, InitControl, InitPace, InitData DEF Kept
<1>2. Kept /\ [Next]_vars => Kept'
  BY KeptByAll
<1> QED
  BY <1>1, <1>2, PTL DEF Spec

(* The frames of the running cycle are not written while they are sent:    *)
(* the event thread fills the buffers of the other cycle.                  *)
THEOREM FramesAreKept ==
    ASSUME Locked
    PROVE  Spec => SendingIsUntouched
<1>1. ASSUME Kept, Fill, Separated, NEW i \in entry..Len(list[curList])
      PROVE  list[curList][i].off = offset
  <2>1. prep # None /\ Busy
    BY <1>1 DEF Fill, None, Busy
  <2>2. PrepOnce /\ CycleList
    BY <1>1, <2>1 DEF Kept, Control
  <2>3. Inside /\ ~Late
    BY <2>1, <2>2 DEF PrepOnce, Late
  <2>4. i \in 1..Len(list[curList])
    BY <1>1 DEF Kept, IInv, Halves, Typed, EdrvTyped
  <2>5. list[curList] # <<>>
    BY <2>4, EmptySeq
  <2> QED
    BY <2>2, <2>3, <2>4, <2>5 DEF CycleList, AllOf
<1>2. Kept => (Fill /\ Separated => \A i \in entry..Len(list[curList]) : list[curList][i].off = offset)
  BY <1>1
<1> QED
  BY <1>2, CycleIsKept, PTL DEF SendingIsUntouched

(* What the slot timer sends belongs to the running cycle, and the PRes of *)
(* a PReq it sends is awaited.                                             *)
THEOREM SlotTimerSends ==
    ASSUME Locked
    PROVE  Spec => []SlotTimerIsSound
<1>1. ASSUME Kept, slotArmed, timer = "idle"
      PROVE  FrameAt # None
  BY <1>1 DEF Kept, IInv, ArmedForAFrame
<1>2. ASSUME Kept, slotArmed, timer = "idle", running, Separated
      PROVE  /\ FrameAt.off = offset
             /\ FrameAt.kind = "PReq" /\ disturbed = 0 =>
                  FrameAt.cn \in Rest(aCnNodeIdList[offset], curNodeIndex)
  <2>1. Typed /\ Data /\ FrameAt # None /\ dllState = "WaitSocTrig"
    BY <1>1, <1>2 DEF Kept, Control
  <2>2. /\ entry \in 1..Len(Running) /\ FrameAt = Running[entry]
        /\ Running # <<>> /\ Running \in Seq(TxFrame) /\ entry \in Nat
    BY <2>1, FrameAtTyped, FrameInList DEF Running, Typed, EdrvTyped
  <2>3. Sending
    <3>1. CycleList /\ ~Late /\ Inside
      BY <1>2, <2>1 DEF Kept, Control, Late, Inside
    <3> QED BY <2>2, <3>1 DEF CycleList, Sending, Running
  <2>4. FrameAt.off = offset
    BY <2>2, <2>3 DEF Sending, AllOf
  <2>5. ASSUME FrameAt.kind = "PReq", disturbed = 0
        PROVE  FrameAt.cn \in Rest(This, curNodeIndex)
    <3>1. Fits(Running, This) /\ (curNodeIndex = 0 \/ curNodeIndex + 1 < entry)
      BY <2>1, <2>3, <2>5 DEF Data, SendData
    <3>2. entry - 2 \in 0..Len(Running)-3 /\ FrameAt.cn = This[entry - 2] /\ FrameAt.cn \in CN
      BY <2>2, <2>5, <3>1, FittingPReq
    <3>. DEFINE n == Len(Running) - 2
    <3>3. Well(This, n) /\ n \in Nat /\ n - 1 = Len(Running) - 3
      BY <2>2, <3>1, LenProperties DEF Fits
    <3>4. curNodeIndex \in Nat /\ This \in [Index -> Nat]
      BY <2>1 DEF Typed, DllTyped, This
    <3>. HIDE DEF n
    <3>5. curNodeIndex \in 0..n /\ entry - 2 \in curNodeIndex..n-1
      BY <2>2, <3>1, <3>2, <3>3, <3>4
    <3>6. Rest(This, curNodeIndex) = Cns(This, curNodeIndex, n)
      BY <3>3, <3>4, <3>5, RestIs
    <3> QED BY <3>2, <3>5, <3>6 DEF Cns
  <2> QED BY <2>4, <2>5 DEF This
<1>3. Kept => SlotTimerIsSound
  BY <1>1, <1>2 DEF SlotTimerIsSound
<1> QED
  BY <1>3, CycleIsKept, PTL

(* The CNs reported as lost in a cycle are exactly those that were asked   *)
(* and did not answer.                                                     *)
THEOREM LostAreTheSilent ==
    ASSUME Locked
    PROVE  Spec => LossesAreExact
<1>1. ASSUME Kept, ReportLosses, Separated, disturbed = 0
      PROVE  reported \cup Rest(aCnNodeIdList[offset], curNodeIndex)
                = {n \in CN : <<n, offset>> \in asked \ answered}
  <2>1. Typed /\ Data /\ ~Inside /\ dllState = "WaitSocTrig"
    BY <1>1 DEF Kept, Control, ReportLosses, Inside
  <2>2. Of(asked, offset) = Rest(This, 0)
    BY <1>1, <2>1 DEF Data, PastData, Complete, Sending
  <2>3. PICK n \in Index :
             /\ Well(This, n) /\ curNodeIndex <= n
             /\ reported \cup Of(answered, offset) = Cns(This, 0, curNodeIndex)
             /\ reported \cap Of(answered, offset) = {}
    BY <1>1, <2>1 DEF Data, AnswerData, Counted
  <2>4. curNodeIndex \in 0..n /\ 0 \in 0..n /\ This \in [Index -> Nat]
    <3>1. n \in Nat
      BY NodesFinite DEF Index, Nodes
    <3> QED BY <2>1, <2>3, <3>1 DEF Typed, DllTyped, This
  <2>5. /\ Rest(This, 0) = Cns(This, 0, n)
        /\ Rest(This, curNodeIndex) = Cns(This, curNodeIndex, n)
    BY <2>3, <2>4, RestIs
  <2>6. /\ Cns(This, 0, curNodeIndex) \cap Cns(This, curNodeIndex, n) = {}
        /\ Cns(This, 0, curNodeIndex) \cup Cns(This, curNodeIndex, n) = Cns(This, 0, n)
    BY <2>3, <2>4, CnsSplit
  <2>7. {x \in CN : <<x, offset>> \in asked \ answered} = Of(asked, offset) \ Of(answered, offset)
    BY DEF Of
  <2> QED BY <2>2, <2>3, <2>5, <2>6, <2>7 DEF This
<1>2. Kept => ((ReportLosses /\ Separated /\ disturbed = 0)
               => reported \cup Rest(aCnNodeIdList[offset], curNodeIndex)
                    = {n \in CN : <<n, offset>> \in asked \ answered})
  BY <1>1
<1> QED
  BY <1>2, CycleIsKept, PTL DEF LossesAreExact
===============================================================================
