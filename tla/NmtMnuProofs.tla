----------------------------- MODULE NmtMnuProofs -----------------------------
(***************************************************************************)
(* Proofs about NmtMnu: the count of the nodes that are to be scanned is   *)
(* exact.  Every handler counts down the nodes whose flag it clears and    *)
(* leaves the boot step of the MN alone (Handled); a state change of the   *)
(* MN marks and counts anew (Entered).  It overwrites the count, so that   *)
(* the flags of the step before must be gone: they are as the MN goes on   *)
(* only after the application was informed, and it is still in the same    *)
(* state then (InStep).                                                    *)
(***************************************************************************)
EXTENDS NmtMnu, TLAPS, FiniteSetTheorems, SequenceTheorems

-----------------------------------------------------------------------------
(* What every handler of a node event keeps                                *)

Marked(w) == {n \in CN : w.node[n].notScanned}
Exact(w) == w \in User /\ w.signal = Cardinality(Marked(w))

\* r is q with, perhaps, other events than state changes of the MN behind it.
Grows(q, r) ==
    /\ Len(q) <= Len(r)
    /\ \A i \in 1..Len(q) : r[i] = q[i]
    /\ \A i \in Len(q)+1..Len(r) : r[i].t # "mn"

\* A handler that makes x of w counts down the nodes it scans, and leaves the
\* boot step of the MN alone.
Handled(w, x) ==
    /\ Exact(x) /\ Marked(x) \subseteq Marked(w)
    /\ x.mn = w.mn /\ x.informed = w.informed /\ x.nmtEv = w.nmtEv
    /\ Grows(w.queue, x.queue)

\* The fields of a well-formed record.
LEMMA UserFields ==
  ASSUME NEW w \in User
  PROVE  /\ w.mn \in NmtStates /\ w.mandatory \in 0..UIntMax /\ w.signal \in 0..UIntMax
         /\ w.node \in [CN -> Nodes] /\ w.identReq \in Seq(CN) /\ w.statusReq \in Seq(CN)
         /\ w.cmds \in Seq(Orders) /\ w.iso \in SUBSET CN /\ w.pres \in [CN -> NmtStates]
         /\ w.queue \in Seq(Events) /\ w.expired \in Seq(Expirations)
         /\ w.nmtEv \in Seq(BootEvents)
BY DEF User

LEMMA NodeFields ==
  ASSUME NEW nd \in Nodes
  PROVE  /\ nd.st \in NodeStates /\ nd.exp \in NmtStates /\ nd.cur \in NmtStates
         /\ nd.sr \in Timers \union {"none"}
BY DEF Nodes

\* A new value for a field of a node's record keeps the type and the flag.
Kin(nd, md) == md \in Nodes /\ md.notScanned = nd.notScanned

LEMMA KinFields ==
  ASSUME NEW nd \in Nodes
  PROVE  /\ \A v \in NodeStates : Kin(nd, [nd EXCEPT !.st = v])
         /\ \A v \in NmtStates : Kin(nd, [nd EXCEPT !.exp = v])
         /\ \A v \in NmtStates : Kin(nd, [nd EXCEPT !.cur = v])
         /\ \A v \in BOOLEAN : Kin(nd, [nd EXCEPT !.isochron = v])
         /\ \A v \in BOOLEAN : Kin(nd, [nd EXCEPT !.cmdIssued = v])
         /\ \A v \in BOOLEAN : Kin(nd, [nd EXCEPT !.preOp2 = v])
         /\ \A v \in Timers \union {"none"} : Kin(nd, [nd EXCEPT !.sr = v])
         /\ \A v \in BOOLEAN : Kin(nd, [nd EXCEPT !.longer = v])
         /\ \A v \in BOOLEAN : Kin(nd, [nd EXCEPT !.identCb = v])
         /\ \A v \in BOOLEAN : Kin(nd, [nd EXCEPT !.statusCb = v])
         /\ \A v \in {"none", "boot", "conf"} : Kin(nd, [nd EXCEPT !.asked = v])
<1>1. \A v \in NodeStates : Kin(nd, [nd EXCEPT !.st = v]) BY DEF Nodes, Kin
<1>2. \A v \in NmtStates : Kin(nd, [nd EXCEPT !.exp = v]) BY DEF Nodes, Kin
<1>3. \A v \in NmtStates : Kin(nd, [nd EXCEPT !.cur = v]) BY DEF Nodes, Kin
<1>4. \A v \in BOOLEAN : Kin(nd, [nd EXCEPT !.isochron = v]) BY DEF Nodes, Kin
<1>5. \A v \in BOOLEAN : Kin(nd, [nd EXCEPT !.cmdIssued = v]) BY DEF Nodes, Kin
<1>6. \A v \in BOOLEAN : Kin(nd, [nd EXCEPT !.preOp2 = v]) BY DEF Nodes, Kin
<1>7. \A v \in Timers \union {"none"} : Kin(nd, [nd EXCEPT !.sr = v]) BY DEF Nodes, Kin
<1>8. \A v \in BOOLEAN : Kin(nd, [nd EXCEPT !.longer = v]) BY DEF Nodes, Kin
<1>9. \A v \in BOOLEAN : Kin(nd, [nd EXCEPT !.identCb = v]) BY DEF Nodes, Kin
<1>10. \A v \in BOOLEAN : Kin(nd, [nd EXCEPT !.statusCb = v]) BY DEF Nodes, Kin
<1>11. \A v \in {"none", "boot", "conf"} : Kin(nd, [nd EXCEPT !.asked = v]) BY DEF Nodes, Kin
<1> QED BY <1>1, <1>2, <1>3, <1>4, <1>5, <1>6, <1>7, <1>8, <1>9, <1>10, <1>11

LEMMA KinTransitive ==
  ASSUME NEW a, NEW b, NEW c, Kin(a, b), Kin(b, c)
  PROVE  Kin(a, c)
BY DEF Kin

LEMMA HandledItself ==
  ASSUME NEW w, Exact(w) PROVE Handled(w, w)
<1>1. w.queue \in Seq(Events) BY UserFields DEF Exact
<1>2. Grows(w.queue, w.queue) BY <1>1 DEF Grows
<1> QED BY <1>2 DEF Handled

LEMMA HandledIsExact ==
  ASSUME NEW w, NEW x, Handled(w, x) PROVE Exact(x)
BY DEF Handled

LEMMA HandledTwice ==
  ASSUME NEW w, NEW x, NEW y, Exact(w), Handled(w, x), Handled(x, y)
  PROVE  Handled(w, y)
<1>1. w \in User /\ x \in User /\ y \in User BY DEF Handled, Exact
<1>2. w.queue \in Seq(Events) /\ x.queue \in Seq(Events) /\ y.queue \in Seq(Events)
  BY <1>1, UserFields
<1>3. Grows(w.queue, x.queue) /\ Grows(x.queue, y.queue) BY DEF Handled
<1>4. Grows(w.queue, y.queue)
  <2>1. Len(w.queue) \in Nat /\ Len(x.queue) \in Nat /\ Len(y.queue) \in Nat
    BY <1>2, LenProperties
  <2> DEFINE p == w.queue
             q == x.queue
             r == y.queue
  <2>2. Grows(p, q) /\ Grows(q, r) /\ Len(p) \in Nat /\ Len(q) \in Nat /\ Len(r) \in Nat
    BY <1>3, <2>1
  <2> HIDE DEF p, q, r
  <2>3. Grows(p, r) BY <2>2 DEF Grows
  <2> QED BY <2>3 DEF p, r
<1>5. Marked(y) \subseteq Marked(w) BY DEF Handled
<1> QED BY <1>4, <1>5 DEF Handled

\* The records of the nodes change, but no flag.
LEMMA NodesHandled ==
  ASSUME NEW w, Exact(w), NEW F \in [CN -> Nodes],
         \A n \in CN : F[n].notScanned = w.node[n].notScanned
  PROVE  Handled(w, [w EXCEPT !.node = F])
<1> DEFINE x == [w EXCEPT !.node = F]
<1>1. w \in User BY DEF Exact
<1>2. x \in User BY <1>1 DEF User
<1>3. /\ x.node = F /\ x.signal = w.signal /\ x.queue = w.queue
      /\ x.mn = w.mn /\ x.informed = w.informed /\ x.nmtEv = w.nmtEv
  BY <1>1 DEF User
<1>4. Marked(x) = Marked(w) BY <1>3 DEF Marked
<1>5. Grows(w.queue, x.queue) BY <1>3, HandledItself DEF Handled
<1> HIDE DEF x
<1>6. Handled(w, x) BY <1>2, <1>3, <1>4, <1>5 DEF Handled, Exact
<1> QED BY <1>6 DEF x

LEMMA NodeHandled ==
  ASSUME NEW w, Exact(w), NEW n \in CN, NEW nd, Kin(w.node[n], nd)
  PROVE  Handled(w, [w EXCEPT !.node[n] = nd])
<1> DEFINE F == [w.node EXCEPT ![n] = nd]
<1>1. w.node \in [CN -> Nodes] BY UserFields DEF Exact
<1>2. F \in [CN -> Nodes] BY <1>1 DEF Kin
<1>3. \A m \in CN : F[m].notScanned = w.node[m].notScanned BY <1>1 DEF Kin
<1>4. [w EXCEPT !.node[n] = nd] = [w EXCEPT !.node = F] OBVIOUS
<1> HIDE DEF F
<1> QED BY <1>2, <1>3, <1>4, NodesHandled

\* One field of one node's record.
LEMMA FieldHandled ==
  ASSUME NEW w, Exact(w), NEW n \in CN
  PROVE  /\ \A v \in NodeStates : Handled(w, [w EXCEPT !.node[n].st = v])
         /\ \A v \in NmtStates : Handled(w, [w EXCEPT !.node[n].exp = v])
         /\ \A v \in NmtStates : Handled(w, [w EXCEPT !.node[n].cur = v])
         /\ \A v \in BOOLEAN : Handled(w, [w EXCEPT !.node[n].isochron = v])
         /\ \A v \in BOOLEAN : Handled(w, [w EXCEPT !.node[n].cmdIssued = v])
         /\ \A v \in BOOLEAN : Handled(w, [w EXCEPT !.node[n].preOp2 = v])
         /\ \A v \in Timers \union {"none"} : Handled(w, [w EXCEPT !.node[n].sr = v])
         /\ \A v \in BOOLEAN : Handled(w, [w EXCEPT !.node[n].longer = v])
         /\ \A v \in BOOLEAN : Handled(w, [w EXCEPT !.node[n].identCb = v])
         /\ \A v \in BOOLEAN : Handled(w, [w EXCEPT !.node[n].statusCb = v])
         /\ \A v \in {"none", "boot", "conf"} : Handled(w, [w EXCEPT !.node[n].asked = v])
<1> DEFINE nd == w.node[n]
<1>1. nd \in Nodes BY UserFields DEF Exact
<1>2. \A v \in NodeStates : Handled(w, [w EXCEPT !.node[n].st = v])
  BY <1>1, KinFields, NodeHandled
<1>3. \A v \in NmtStates : Handled(w, [w EXCEPT !.node[n].exp = v])
  BY <1>1, KinFields, NodeHandled
<1>4. \A v \in NmtStates : Handled(w, [w EXCEPT !.node[n].cur = v])
  BY <1>1, KinFields, NodeHandled
<1>5. \A v \in BOOLEAN : Handled(w, [w EXCEPT !.node[n].isochron = v])
  BY <1>1, KinFields, NodeHandled
<1>6. \A v \in BOOLEAN : Handled(w, [w EXCEPT !.node[n].cmdIssued = v])
  BY <1>1, KinFields, NodeHandled
<1>7. \A v \in BOOLEAN : Handled(w, [w EXCEPT !.node[n].preOp2 = v])
  BY <1>1, KinFields, NodeHandled
<1>8. \A v \in Timers \union {"none"} : Handled(w, [w EXCEPT !.node[n].sr = v])
  BY <1>1, KinFields, NodeHandled
<1>9. \A v \in BOOLEAN : Handled(w, [w EXCEPT !.node[n].longer = v])
  BY <1>1, KinFields, NodeHandled
<1>10. \A v \in BOOLEAN : Handled(w, [w EXCEPT !.node[n].identCb = v])
  BY <1>1, KinFields, NodeHandled
<1>11. \A v \in BOOLEAN : Handled(w, [w EXCEPT !.node[n].statusCb = v])
  BY <1>1, KinFields, NodeHandled
<1>12. \A v \in {"none", "boot", "conf"} : Handled(w, [w EXCEPT !.node[n].asked = v])
  BY <1>1, KinFields, NodeHandled
<1> QED
  BY <1>2, <1>3, <1>4, <1>5, <1>6, <1>7, <1>8, <1>9, <1>10, <1>11, <1>12

\* A field beside the nodes, the event queue and the boot step.
LEMMA OthersHandled ==
  ASSUME NEW w, Exact(w)
  PROVE  /\ \A v \in 0..UIntMax : Handled(w, [w EXCEPT !.mandatory = v])
         /\ \A v \in Seq(CN) : Handled(w, [w EXCEPT !.identReq = v])
         /\ \A v \in Seq(CN) : Handled(w, [w EXCEPT !.statusReq = v])
         /\ \A v \in Seq(Orders) : Handled(w, [w EXCEPT !.cmds = v])
         /\ \A v \in SUBSET CN : Handled(w, [w EXCEPT !.iso = v])
         /\ \A v \in [CN -> NmtStates] : Handled(w, [w EXCEPT !.pres = v])
         /\ \A v \in Seq(Expirations) : Handled(w, [w EXCEPT !.expired = v])
         /\ \A v \in DOMAIN Following : Handled(w, [w EXCEPT !.turn = v])
<1> DEFINE Keeps1(x) == /\ x \in User
                        /\ x.node = w.node /\ x.signal = w.signal /\ x.queue = w.queue
                        /\ x.mn = w.mn /\ x.informed = w.informed /\ x.nmtEv = w.nmtEv
<1>1. w \in User BY DEF Exact
<1>2. ASSUME NEW x, Keeps1(x) PROVE Handled(w, x)
  <2>1. Marked(x) = Marked(w) BY <1>2 DEF Marked
  <2>2. Grows(w.queue, x.queue) BY <1>2, HandledItself DEF Handled
  <2> QED BY <1>2, <2>1, <2>2 DEF Handled, Exact
<1>3. \A v \in 0..UIntMax : Keeps1([w EXCEPT !.mandatory = v]) BY <1>1 DEF User
<1>4. \A v \in Seq(CN) : Keeps1([w EXCEPT !.identReq = v]) BY <1>1 DEF User
<1>5. \A v \in Seq(CN) : Keeps1([w EXCEPT !.statusReq = v]) BY <1>1 DEF User
<1>6. \A v \in Seq(Orders) : Keeps1([w EXCEPT !.cmds = v]) BY <1>1 DEF User
<1>7. \A v \in SUBSET CN : Keeps1([w EXCEPT !.iso = v]) BY <1>1 DEF User
<1>8. \A v \in [CN -> NmtStates] : Keeps1([w EXCEPT !.pres = v]) BY <1>1 DEF User
<1>9. \A v \in Seq(Expirations) : Keeps1([w EXCEPT !.expired = v]) BY <1>1 DEF User
<1>10. \A v \in DOMAIN Following : Keeps1([w EXCEPT !.turn = v]) BY <1>1 DEF User
<1> HIDE DEF Keeps1
<1> QED BY <1>2, <1>3, <1>4, <1>5, <1>6, <1>7, <1>8, <1>9, <1>10

-----------------------------------------------------------------------------
(* What the handlers are built from *)

LEMMA MarkedFinite ==
  ASSUME NEW w
  PROVE  IsFiniteSet(Marked(w)) /\ Cardinality(Marked(w)) \in Nat
         /\ Cardinality(Marked(w)) <= Cardinality(CN)
<1>1. Marked(w) \subseteq CN BY DEF Marked
<1> QED BY <1>1, ConfigAssumption, FS_Subset, FS_CardinalityType

LEMMA DecrementType ==
  ASSUME NEW c \in 0..UIntMax PROVE Decrement(c) \in 0..UIntMax
BY BoundAssumption DEF Decrement

LEMMA ScannedHandles ==
  ASSUME NEW w, Exact(w), NEW n \in CN PROVE Handled(w, Scanned(w, n))
<1>0. w \in User /\ w.node \in [CN -> Nodes] /\ w.queue \in Seq(Events)
  BY UserFields DEF Exact
<1>1. CASE ~w.node[n].notScanned BY <1>1, HandledItself DEF Scanned
<1>2. CASE w.node[n].notScanned
  <2> DEFINE F == [w.node EXCEPT ![n].notScanned = FALSE]
             c == Decrement(w.signal)
             x == [w EXCEPT !.node = F, !.signal = c]
  <2>1. Scanned(w, n) = x BY <1>0, <1>2 DEF Scanned
  <2>2. n \in Marked(w) BY <1>2 DEF Marked
  <2>3. F \in [CN -> Nodes]
    <3> DEFINE nd == w.node[n]
    <3>0. nd \in Nodes BY <1>0
    <3> HIDE DEF nd
    <3>2. [nd EXCEPT !.notScanned = FALSE] \in Nodes BY <3>0 DEF Nodes
    <3>1. [w.node[n] EXCEPT !.notScanned = FALSE] \in Nodes BY <3>2 DEF nd
    <3> QED BY <1>0, <3>1
  <2>4. \A m \in CN : F[m].notScanned = (IF m = n THEN FALSE ELSE w.node[m].notScanned)
    BY <1>0 DEF Nodes
  <2>5. w.signal \in 0..UIntMax /\ c \in 0..UIntMax BY <1>0, UserFields, DecrementType
  <2> HIDE DEF F
  <2>6. x \in User BY <1>0, <2>3, <2>5 DEF User
  <2>7. /\ x.node = F /\ x.signal = c /\ x.queue = w.queue
        /\ x.mn = w.mn /\ x.informed = w.informed /\ x.nmtEv = w.nmtEv
    BY <1>0 DEF User
  <2> HIDE DEF x, c
  <2>8. Marked(x) = Marked(w) \ {n} BY <2>4, <2>7 DEF Marked
  <2>9. c = Cardinality(Marked(x))
    <3>1. Cardinality(Marked(w) \ {n}) = Cardinality(Marked(w)) - 1
      BY <2>2, MarkedFinite, FS_RemoveElement
    <3>2. Cardinality(Marked(w)) # 0 BY <2>2, MarkedFinite, FS_EmptySet
    <3> QED BY <3>1, <3>2, <2>8, MarkedFinite DEF Exact, c, Decrement
  <2>10. Grows(w.queue, x.queue) BY <2>7, HandledItself DEF Handled
  <2>11. Handled(w, x) BY <2>6, <2>7, <2>8, <2>9, <2>10 DEF Handled, Exact
  <2> QED BY <2>1, <2>11
<1> QED BY <1>1, <1>2

LEMMA OneMandatoryLessHandles ==
  ASSUME NEW w, Exact(w), NEW n \in CN PROVE Handled(w, OneMandatoryLess(w, n))
<1>1. w.mandatory \in 0..UIntMax BY UserFields DEF Exact
<1>2. Decrement(w.mandatory) \in 0..UIntMax BY <1>1, DecrementType
<1>3. Handled(w, [w EXCEPT !.mandatory = Decrement(w.mandatory)]) BY <1>2, OthersHandled
<1> QED BY <1>3, HandledItself DEF OneMandatoryLess

LEMMA OutdatedType ==
  ASSUME NEW q \in Seq(Expirations), NEW nodes, NEW kinds
  PROVE  Outdated(q, nodes, kinds) \in Seq(Expirations)
<1>0. \A e \in Expirations : [e EXCEPT !.old = TRUE] \in Expirations BY DEF Expirations
<1>1. \A i \in DOMAIN q : [q[i] EXCEPT !.old = TRUE] \in Expirations BY <1>0
<1>2. \A i \in 1..Len(q) : Outdated(q, nodes, kinds)[i] \in Expirations BY <1>1 DEF Outdated
<1>3. Outdated(q, nodes, kinds) = [i \in 1..Len(q) |-> Outdated(q, nodes, kinds)[i]] BY DEF Outdated
<1> QED BY <1>2, <1>3

LEMMA StartHandles ==
  ASSUME NEW w, Exact(w), NEW nodes, NEW kind \in Timers
  PROVE  Handled(w, Start(w, nodes, kind))
<1> DEFINE F == [n \in CN |-> [w.node[n] EXCEPT !.sr = IF n \in nodes THEN kind ELSE @]]
           x == [w EXCEPT !.node = F]
<1>1. w.node \in [CN -> Nodes] BY UserFields DEF Exact
<1>2. \A n \in CN : Kin(w.node[n], F[n]) BY <1>1, KinFields, NodeFields
<1>3. Handled(w, x) BY <1>2, NodesHandled DEF Kin
<1>4. x.expired \in Seq(Expirations) /\ x.expired = w.expired
  BY <1>3, UserFields DEF Handled, Exact, User
<1>5. Handled(x, [x EXCEPT !.expired = Outdated(w.expired, nodes, Timers)])
  BY <1>3, <1>4, OutdatedType, OthersHandled DEF Handled
<1>6. Start(w, nodes, kind) = [w EXCEPT !.node = F, !.expired = Outdated(@, nodes, Timers)]
  BY DEF Start
<1> HIDE DEF F
<1>7. Start(w, nodes, kind) = [x EXCEPT !.expired = Outdated(w.expired, nodes, Timers)]
  BY <1>6
<1> HIDE DEF x
<1> QED BY <1>3, <1>5, <1>7, HandledTwice

LEMMA StartLongerHandles ==
  ASSUME NEW w, Exact(w), NEW nodes
  PROVE  Handled(w, StartLonger(w, nodes))
<1> DEFINE F == [n \in CN |-> [w.node[n] EXCEPT !.longer = @ \/ n \in nodes]]
           x == [w EXCEPT !.node = F]
           q == Outdated(w.expired, nodes, {"Longer"})
<1>1. w.node \in [CN -> Nodes] BY UserFields DEF Exact
<1>2. \A n \in CN : Kin(w.node[n], F[n])
  <2>1. ASSUME NEW n \in CN PROVE (w.node[n].longer \/ n \in nodes) \in BOOLEAN OBVIOUS
  <2> QED BY <1>1, <2>1, KinFields
<1>3. Handled(w, x) BY <1>2, NodesHandled DEF Kin
<1>4. w.expired \in Seq(Expirations) BY UserFields DEF Exact
<1>5. q \in Seq(Expirations) BY <1>4, OutdatedType
<1>6. Handled(x, [x EXCEPT !.expired = q]) BY <1>3, <1>5, OthersHandled, HandledIsExact
<1>7. StartLonger(w, nodes) = [w EXCEPT !.node = F, !.expired = q] BY DEF StartLonger
<1> HIDE DEF F, q
<1>8. StartLonger(w, nodes) = [x EXCEPT !.expired = q] BY <1>7
<1> HIDE DEF x
<1> QED BY <1>3, <1>6, <1>8, HandledTwice

LEMMA RequestIdentHandles ==
  ASSUME NEW w, Exact(w), NEW n \in CN PROVE Handled(w, requestIdentResponse(w, n))
<1> DEFINE x == [w EXCEPT !.node[n].identCb = TRUE]
           q == Append(w.identReq, n)
<1>1. Handled(w, x) BY FieldHandled
<1>2. q \in Seq(CN) BY UserFields DEF Exact
<1>3. Handled(x, [x EXCEPT !.identReq = q]) BY <1>1, <1>2, OthersHandled, HandledIsExact
<1>4. [w EXCEPT !.node[n].identCb = TRUE, !.identReq = Append(@, n)] = [x EXCEPT !.identReq = q]
  OBVIOUS
<1> HIDE DEF x, q
<1>5. Handled(w, [x EXCEPT !.identReq = q]) BY <1>1, <1>3, HandledTwice
<1> QED BY <1>4, <1>5, HandledItself DEF requestIdentResponse

LEMMA RequestStatusHandles ==
  ASSUME NEW w, Exact(w), NEW n \in CN PROVE Handled(w, requestStatusResponse(w, n))
<1> DEFINE x == [w EXCEPT !.node[n].statusCb = TRUE]
           q == Append(w.statusReq, n)
<1>1. Handled(w, x) BY FieldHandled
<1>2. q \in Seq(CN) BY UserFields DEF Exact
<1>3. Handled(x, [x EXCEPT !.statusReq = q]) BY <1>1, <1>2, OthersHandled, HandledIsExact
<1>4. [w EXCEPT !.node[n].statusCb = TRUE, !.statusReq = Append(@, n)]
        = [x EXCEPT !.statusReq = q]
  OBVIOUS
<1> HIDE DEF x, q
<1>5. Handled(w, [x EXCEPT !.statusReq = q]) BY <1>1, <1>3, HandledTwice
<1> QED BY <1>4, <1>5, HandledItself DEF requestStatusResponse

LEMMA CommandHandles ==
  ASSUME NEW w, Exact(w), NEW to \in SUBSET CN, NEW cmd \in Commands
  PROVE  Handled(w, sendNmtCommand(w, to, cmd))
<1> DEFINE q == Append(w.cmds, [cmd |-> cmd, to |-> to])
           x == [w EXCEPT !.cmds = q]
           i == IF cmd \in {"ResetNode", "ResetConfiguration"} THEN w.iso \ to ELSE w.iso
<1>1. w.cmds \in Seq(Orders) /\ w.iso \in SUBSET CN BY UserFields DEF Exact
<1>2. [cmd |-> cmd, to |-> to] \in Orders BY DEF Orders
<1>3. q \in Seq(Orders) BY <1>1, <1>2
<1>4. Handled(w, x) BY <1>3, OthersHandled
<1>5. i \in SUBSET CN BY <1>1
<1>6. Handled(x, [x EXCEPT !.iso = i]) BY <1>4, <1>5, OthersHandled, HandledIsExact
<1>7. sendNmtCommand(w, to, cmd) = [x EXCEPT !.iso = i] BY DEF sendNmtCommand
<1> HIDE DEF x, q, i
<1> QED BY <1>4, <1>6, <1>7, HandledTwice

LEMMA AddHandles ==
  ASSUME NEW w, Exact(w), NEW n \in CN PROVE Handled(w, addNodeIsochronous(w, n))
<1> DEFINE i == w.iso \union {n}
           p == [w.pres EXCEPT ![n] = "NotActive"]
           e == [t |-> "added", n |-> n]
           q == Append(w.queue, e)
           x == [w EXCEPT !.iso = i]
           y == [x EXCEPT !.pres = p]
           z == [y EXCEPT !.queue = q]
<1>1. /\ w.queue \in Seq(Events) /\ w.pres \in [CN -> NmtStates] /\ w.iso \in SUBSET CN
      /\ w \in User
  BY UserFields DEF Exact
<1>2. i \in SUBSET CN /\ p \in [CN -> NmtStates] BY <1>1 DEF NmtStates
<1>3. Handled(w, x) BY <1>2, OthersHandled
<1>4. Handled(x, y) BY <1>2, <1>3, OthersHandled, HandledIsExact
<1>5. Handled(w, y) BY <1>3, <1>4, HandledTwice
<1>6. e \in Events BY DEF Events
<1>7. q \in Seq(Events) BY <1>1, <1>6
<1>8. Grows(w.queue, q) BY <1>1 DEF Grows
<1>9. [w EXCEPT !.iso = @ \union {n}, !.pres[n] = "NotActive", !.queue = Append(@, e)] = z
  OBVIOUS
<1> HIDE DEF x, i, p, e, q, y
<1>10. y \in User BY <1>5 DEF Handled, Exact
<1>11. z \in User BY <1>10, <1>7 DEF User
<1>12. /\ z.node = y.node /\ z.signal = y.signal /\ z.queue = q
       /\ z.mn = y.mn /\ z.informed = y.informed /\ z.nmtEv = y.nmtEv
  BY <1>10 DEF User
<1> HIDE DEF z
<1>13. Marked(z) = Marked(y) BY <1>12 DEF Marked
<1>14. Handled(w, z) BY <1>5, <1>8, <1>11, <1>12, <1>13 DEF Handled, Exact
<1> QED BY <1>9, <1>14, HandledItself DEF addNodeIsochronous, e

LEMMA BootStep2Handles ==
  ASSUME NEW w, Exact(w), NEW n \in CN PROVE Handled(w, nodeBootStep2(w, n))
<1> DEFINE x == sendNmtCommand(w, {n}, "EnableReadyToOperate")
<1>1. Handled(w, x) BY CommandHandles DEF Commands
<1>2. Handled(x, StartLonger(x, {n})) BY <1>1, StartLongerHandles DEF Handled
<1>3. Handled(w, StartLonger(x, {n})) BY <1>1, <1>2, HandledTwice
<1> QED BY <1>1, <1>3, HandledItself DEF nodeBootStep2

LEMMA CheckComHandles ==
  ASSUME NEW w, Exact(w), NEW nodes PROVE Handled(w, nodeCheckCom(w, nodes))
<1> DEFINE wait == {n \in nodes : MustWait(n)}
           Sure(n) == IF n \in nodes \ wait THEN [w.node[n] EXCEPT !.st = "ComChecked"]
                      ELSE w.node[n]
           F == [n \in CN |-> Sure(n)]
           x == [w EXCEPT !.node = F]
<1>1. w.node \in [CN -> Nodes] BY UserFields DEF Exact
<1>2. \A n \in CN : Kin(w.node[n], Sure(n))
  BY <1>1, KinFields DEF Kin, NodeStates
<1>3. F \in [CN -> Nodes] /\ \A n \in CN : F[n].notScanned = w.node[n].notScanned
  BY <1>2 DEF Kin
<1>4. Handled(w, x) BY <1>3, NodesHandled
<1>5. nodeCheckCom(w, nodes) = StartLonger(x, wait) BY DEF nodeCheckCom
<1> HIDE DEF x, wait, F
<1>6. Handled(x, StartLonger(x, wait)) BY <1>4, StartLongerHandles DEF Handled
<1> QED BY <1>4, <1>5, <1>6, HandledTwice

LEMMA PreOp2Handles ==
  ASSUME NEW w, Exact(w), NEW n \in CN PROVE Handled(w, PreOp2Reached(w, n))
<1> DEFINE x == [w EXCEPT !.node[n].preOp2 = TRUE]
<1>1. Handled(w, x) BY FieldHandled
<1> HIDE DEF x
<1>2. Exact(x) BY <1>1 DEF Handled
<1>3. Handled(w, addNodeIsochronous(x, n)) /\ Handled(w, nodeBootStep2(x, n))
  BY <1>1, <1>2, AddHandles, BootStep2Handles, HandledTwice
<1> QED BY <1>1, <1>3 DEF PreOp2Reached, x

LEMMA ReadyHandles ==
  ASSUME NEW w, Exact(w), NEW n \in CN PROVE Handled(w, ReadyReached(w, n))
<1> DEFINE a == [w EXCEPT !.node[n].longer = FALSE]
           b == [a EXCEPT !.node[n].st = "ReadyToOp"]
           c == [b EXCEPT !.node[n].exp = "ReadyToOp"]
           ready == OneMandatoryLess(c, n)
           checked == nodeCheckCom(ready, {n})
           told == sendNmtCommand(checked, {n}, "StartNode")
<1>0. c = [w EXCEPT !.node[n].longer = FALSE, !.node[n].st = "ReadyToOp",
                    !.node[n].exp = "ReadyToOp"] OBVIOUS
<1>1. Handled(w, a) BY FieldHandled
<1> HIDE DEF a
<1>2. Handled(a, b) BY <1>1, FieldHandled, HandledIsExact DEF NodeStates
<1>3. Handled(w, b) BY <1>1, <1>2, HandledTwice
<1> HIDE DEF b
<1>4. Handled(b, c) BY <1>3, FieldHandled, HandledIsExact DEF NmtStates
<1>5. Handled(w, c) BY <1>3, <1>4, HandledTwice
<1> HIDE DEF c
<1>6. Handled(c, ready) BY <1>5, OneMandatoryLessHandles DEF Handled
<1>7. Handled(w, ready) BY <1>5, <1>6, HandledTwice
<1> HIDE DEF ready
<1>8. Handled(ready, checked) BY <1>7, CheckComHandles DEF Handled
<1>9. Handled(w, checked) BY <1>7, <1>8, HandledTwice
<1> HIDE DEF checked
<1>10. Handled(checked, told) BY <1>9, CommandHandles DEF Handled, Commands
<1>11. Handled(w, told) BY <1>9, <1>10, HandledTwice
<1> HIDE DEF told
<1>12. ReadyReached(w, n) \in {ready, checked, told}
  BY <1>0 DEF ReadyReached, ready, checked, told
<1> QED BY <1>7, <1>9, <1>11, <1>12

LEMMA LostHandles ==
  ASSUME NEW w, Exact(w), NEW n \in CN PROVE Handled(w, LostNode(w, n))
<1> DEFINE x == Scanned(w, n)
           y == [x EXCEPT !.node[n].st = "Unknown"]
<1>1. Handled(w, x) BY ScannedHandles
<1> HIDE DEF x
<1>2. Handled(x, y) BY <1>1, FieldHandled, HandledIsExact DEF NodeStates
<1>3. Handled(w, y) BY <1>1, <1>2, HandledTwice
<1> HIDE DEF y
<1>4. Handled(y, sendNmtCommand(y, {n}, "ResetNode"))
  BY <1>3, CommandHandles DEF Handled, Commands
<1> QED BY <1>3, <1>4, HandledTwice DEF LostNode, x, y

\* What becomes of the record when the state of a node is compared.
LEMMA StateCompared ==
  ASSUME NEW w, NEW n, NEW s, NEW err
  PROVE  checkNmtState(w, n, s, err) \in {[w |-> w, ok |-> TRUE]} \union
           UNION {{Updated(w, n, s, ok), Updated(PreOp2Reached(w, n), n, s, ok),
                   Updated(ReadyReached(w, n), n, s, ok),
                   Updated(OneMandatoryLess([w EXCEPT !.node[n].st = "Operational"], n),
                           n, s, ok),
                   Updated(LostNode(w, n), n, s, ok)} : ok \in BOOLEAN}
BY DEF checkNmtState

LEMMA CheckStateHandles ==
  ASSUME NEW w, Exact(w), NEW n \in CN, NEW s \in NmtStates, NEW err
  PROVE  Handled(w, checkNmtState(w, n, s, err).w)
<1> DEFINE active == [w EXCEPT !.node[n].st = "Operational"]
           Results == {w, PreOp2Reached(w, n), ReadyReached(w, n),
                       OneMandatoryLess(active, n), LostNode(w, n)}
           c == checkNmtState(w, n, s, err)
<1>1. \/ \E x \in Results, ok \in BOOLEAN : c = Updated(x, n, s, ok)
      \/ c = [w |-> w, ok |-> TRUE]
  <2>1. c \in {[w |-> w, ok |-> TRUE]} \union
             UNION {{Updated(w, n, s, ok), Updated(PreOp2Reached(w, n), n, s, ok),
                     Updated(ReadyReached(w, n), n, s, ok),
                     Updated(OneMandatoryLess(active, n), n, s, ok),
                     Updated(LostNode(w, n), n, s, ok)} : ok \in BOOLEAN}
    BY StateCompared
  <2> HIDE DEF c, active
  <2> QED BY <2>1
<1>2. Handled(w, active) BY FieldHandled DEF NodeStates
<1> HIDE DEF active, c
<1>3. Handled(active, OneMandatoryLess(active, n))
  BY <1>2, OneMandatoryLessHandles DEF Handled
<1>4. Handled(w, OneMandatoryLess(active, n)) BY <1>2, <1>3, HandledTwice
<1>5. \A x \in Results : Handled(w, x)
  BY <1>4, HandledItself, PreOp2Handles, ReadyHandles, LostHandles
<1> HIDE DEF Results
<1>6. ASSUME NEW x \in Results, NEW ok \in BOOLEAN, c = Updated(x, n, s, ok)
      PROVE  Handled(w, c.w)
  <2>1. Handled(w, x) /\ Exact(x) BY <1>5 DEF Handled
  <2>2. Handled(x, [x EXCEPT !.node[n].cur = s]) BY <2>1, FieldHandled
  <2>3. Handled(w, [x EXCEPT !.node[n].cur = s]) BY <2>1, <2>2, HandledTwice
  <2> QED BY <1>6, <2>1, <2>3 DEF Updated
<1>7. ASSUME c = [w |-> w, ok |-> TRUE] PROVE Handled(w, c.w) BY <1>7, HandledItself
<1>8. Handled(w, c.w) BY <1>1, <1>6, <1>7
<1> QED BY <1>8 DEF c

-----------------------------------------------------------------------------
(* The handlers of node events                                             *)

LEMMA ConfiguredHandles ==
  ASSUME NEW w, Exact(w), NEW n \in CN PROVE Handled(w, EventConfigured(w, n))
<1> DEFINE x == [w EXCEPT !.node[n].st = "Configured"]
<1>1. Handled(w, x) BY FieldHandled DEF NodeStates
<1> HIDE DEF x
<1>2. Exact(x) BY <1>1 DEF Handled
<1>3. Handled(w, OneMandatoryLess(x, n)) BY <1>1, <1>2, OneMandatoryLessHandles, HandledTwice
<1>4. Handled(w, nodeBootStep2(x, n)) BY <1>1, <1>2, BootStep2Handles, HandledTwice
<1> QED BY <1>3, <1>4, HandledItself DEF EventConfigured, x

LEMMA BootHandles ==
  ASSUME NEW w, Exact(w), NEW n \in CN, NEW stop PROVE Handled(w, EventBoot(w, n, stop))
<1>1. Handled(w, [w EXCEPT !.node[n].asked = "conf"]) BY FieldHandled
<1> QED BY <1>1, ConfiguredHandles DEF EventBoot

LEMMA IdentifiedHandles ==
  ASSUME NEW w, Exact(w), NEW n \in CN PROVE Handled(w, Identified(w, n))
<1> DEFINE st == IF ResetDone(w, n) THEN w.node[n].st ELSE "Identified"
           exp == IF w.mn = "PreOp1" THEN "PreOp1" ELSE "PreOp2"
           a == [w EXCEPT !.node[n].st = st]
           b == [a EXCEPT !.node[n].isochron = FALSE]
           c == [b EXCEPT !.node[n].cmdIssued = FALSE]
           d == [c EXCEPT !.node[n].preOp2 = FALSE]
           e == [d EXCEPT !.node[n].exp = exp]
<1>1. Identified(w, n) = e BY DEF Identified
<1>2. w.node[n] \in Nodes BY UserFields DEF Exact
<1>3. st \in NodeStates /\ exp \in NmtStates BY <1>2, NodeFields DEF NodeStates, NmtStates
<1> HIDE DEF st, exp
<1>4. Handled(w, a) BY <1>3, FieldHandled
<1> HIDE DEF a
<1>5. Handled(a, b) BY <1>4, FieldHandled, HandledIsExact
<1>6. Handled(w, b) BY <1>4, <1>5, HandledTwice
<1> HIDE DEF b
<1>7. Handled(b, c) BY <1>6, FieldHandled, HandledIsExact
<1>8. Handled(w, c) BY <1>6, <1>7, HandledTwice
<1> HIDE DEF c
<1>9. Handled(c, d) BY <1>8, FieldHandled, HandledIsExact
<1>10. Handled(w, d) BY <1>8, <1>9, HandledTwice
<1> HIDE DEF d
<1>11. Handled(d, e) BY <1>3, <1>10, FieldHandled, HandledIsExact
<1> HIDE DEF e
<1> QED BY <1>1, <1>10, <1>11, HandledTwice

LEMMA ExpectedHandles ==
  ASSUME NEW w, Exact(w), NEW n \in CN, NEW s PROVE Handled(w, Expected(w, n, s))
<1> DEFINE x == Identified(w, n)
           y == [x EXCEPT !.node[n].cmdIssued = TRUE]
<1>1. Handled(w, x) /\ Exact(x) BY IdentifiedHandles, HandledIsExact
<1> HIDE DEF x
<1>2. Handled(w, Scanned(x, n)) BY <1>1, ScannedHandles, HandledTwice
<1>3. Handled(x, y) BY <1>1, FieldHandled
<1>4. Handled(w, y) /\ Exact(y) BY <1>1, <1>3, HandledTwice, HandledIsExact
<1> HIDE DEF y
<1>5. Handled(y, StartTimer(y, n, "StateMon")) BY <1>4, StartHandles DEF StartTimer, Timers
<1>6. Handled(w, StartTimer(y, n, "StateMon")) BY <1>4, <1>5, HandledTwice
<1> QED BY <1>1, <1>2, <1>6 DEF Expected, x, y

LEMMA IdentResponseHandles ==
  ASSUME NEW w, Exact(w), NEW n \in CN, NEW s \in NmtStates, NEW stop
  PROVE  Handled(w, EventIdentResponse(w, n, s, stop))
<1> DEFINE x == Expected(w, n, s)
           c == checkNmtState(x, n, s, "none")
           next == IF c.w.node[n].cmdIssued THEN c.w ELSE requestStatusResponse(c.w, n)
<1>1. Handled(w, x) BY ExpectedHandles
<1> HIDE DEF x
<1>2. Handled(x, c.w) BY <1>1, CheckStateHandles DEF Handled
<1>3. Handled(w, c.w) /\ Exact(c.w) BY <1>1, <1>2, HandledTwice, HandledIsExact
<1> HIDE DEF c
<1>4. Handled(c.w, next) BY <1>3, RequestStatusHandles, HandledItself
<1>5. Handled(w, next) /\ Exact(next) BY <1>3, <1>4, HandledTwice, HandledIsExact
<1>6. IdentChecked(c, n, ResetDone(w, n), stop) \in
        {c.w, [next EXCEPT !.node[n].asked = "boot"], EventBoot(next, n, stop)}
  BY DEF IdentChecked
<1> HIDE DEF next
<1>7. Handled(next, [next EXCEPT !.node[n].asked = "boot"]) BY <1>5, FieldHandled
<1>8. Handled(w, [next EXCEPT !.node[n].asked = "boot"]) BY <1>5, <1>7, HandledTwice
<1>9. Handled(w, EventBoot(next, n, stop)) BY <1>5, BootHandles, HandledTwice
<1>10. EventIdentResponse(w, n, s, stop) = IdentChecked(c, n, ResetDone(w, n), stop)
  BY DEF EventIdentResponse, c, x
<1> QED BY <1>3, <1>6, <1>8, <1>9, <1>10

LEMMA NoIdentResponseHandles ==
  ASSUME NEW w, Exact(w), NEW n \in CN PROVE Handled(w, EventNoIdentResponse(w, n))
<1> DEFINE scn == IF w.mn = "PreOp1" THEN Scanned(w, n) ELSE w
           lost == [scn EXCEPT !.node[n].st = "Unknown"]
           unk == IF ResetDone(w, n) THEN scn ELSE lost
           x == checkNmtState(unk, n, "NotActive", "no ident").w
<1>1. Handled(w, scn) /\ Exact(scn) BY ScannedHandles, HandledItself, HandledIsExact
<1> HIDE DEF scn
<1>2. Handled(scn, lost) BY <1>1, FieldHandled DEF NodeStates
<1>3. Handled(w, lost) BY <1>1, <1>2, HandledTwice
<1> HIDE DEF lost
<1>4. Handled(w, unk) /\ Exact(unk) BY <1>1, <1>3, HandledIsExact
<1> HIDE DEF unk
<1>5. Handled(unk, x) BY <1>4, CheckStateHandles DEF NmtStates
<1>6. Handled(w, x) /\ Exact(x) BY <1>4, <1>5, HandledTwice, HandledIsExact
<1> HIDE DEF x
<1>7. Handled(w, requestIdentResponse(x, n)) BY <1>6, RequestIdentHandles, HandledTwice
<1>8. Handled(x, StartTimer(x, n, "IdentReq")) BY <1>6, StartHandles DEF StartTimer, Timers
<1>9. Handled(w, StartTimer(x, n, "IdentReq")) BY <1>6, <1>8, HandledTwice
<1> QED BY <1>7, <1>9 DEF EventNoIdentResponse, x, unk, lost, scn

LEMMA StatusResponseHandles ==
  ASSUME NEW w, Exact(w), NEW n \in CN, NEW s \in NmtStates
  PROVE  Handled(w, EventStatusResponse(w, n, s))
<1> DEFINE x == IF FullCycle(w.mn) THEN Scanned(w, n) ELSE w
           c == checkNmtState(x, n, s, "none")
<1>1. Handled(w, x) /\ Exact(x) BY ScannedHandles, HandledItself, HandledIsExact
<1>2. EventStatusResponse(w, n, s) \in
        {c.w, requestStatusResponse(c.w, n), StartTimer(c.w, n, "StatReq")}
  BY DEF EventStatusResponse
<1> HIDE DEF x
<1>3. Handled(x, c.w) BY <1>1, CheckStateHandles
<1>4. Handled(w, c.w) /\ Exact(c.w) BY <1>1, <1>3, HandledTwice, HandledIsExact
<1> HIDE DEF c
<1>5. Handled(w, requestStatusResponse(c.w, n)) BY <1>4, RequestStatusHandles, HandledTwice
<1>6. Handled(c.w, StartTimer(c.w, n, "StatReq")) BY <1>4, StartHandles DEF StartTimer, Timers
<1>7. Handled(w, StartTimer(c.w, n, "StatReq")) BY <1>4, <1>6, HandledTwice
<1> QED BY <1>2, <1>4, <1>5, <1>7

LEMMA ExecHandles ==
  ASSUME NEW w, Exact(w), NEW n \in CN
  PROVE  Handled(w, EventExecResetNode(w, n)) /\ Handled(w, EventExecResetConf(w, n))
<1> DEFINE x == [w EXCEPT !.node[n].st = "ConfRestored"]
           y == [w EXCEPT !.node[n].st = "ResetConf"]
<1>1. Handled(w, x) /\ Handled(w, y) BY FieldHandled DEF NodeStates
<1> HIDE DEF x, y
<1>2. Handled(x, sendNmtCommand(x, {n}, "ResetNode"))
  BY <1>1, CommandHandles DEF Handled, Commands
<1>3. Handled(y, sendNmtCommand(y, {n}, "ResetConfiguration"))
  BY <1>1, CommandHandles DEF Handled, Commands
<1>4. Handled(w, sendNmtCommand(x, {n}, "ResetNode"))
  BY <1>1, <1>2, HandledTwice
<1>5. Handled(w, sendNmtCommand(y, {n}, "ResetConfiguration"))
  BY <1>1, <1>3, HandledTwice
<1> QED BY <1>4, <1>5, HandledItself DEF EventExecResetNode, EventExecResetConf, x, y

LEMMA TimerHandles ==
  ASSUME NEW w, Exact(w), NEW n \in CN, NEW kind \in Timers
  PROVE  Handled(w, EventTimer(w, n, kind))
<1> DEFINE x == [w EXCEPT !.node[n].cmdIssued = FALSE]
<1>1. Handled(w, x) /\ Exact(x) BY FieldHandled, HandledIsExact
<1> HIDE DEF x
<1>2. Handled(w, requestStatusResponse(x, n)) BY <1>1, RequestStatusHandles, HandledTwice
<1> QED BY <1>2, RequestStatusHandles, RequestIdentHandles DEF EventTimer, x, Timers

LEMMA TimerLongerHandles ==
  ASSUME NEW w, Exact(w), NEW n \in CN PROVE Handled(w, EventTimerLonger(w, n))
<1> DEFINE a == [w EXCEPT !.node[n].st = "ComChecked"]
           b == Scanned(a, n)
           checked == OneMandatoryLess(b, n)
           told == sendNmtCommand(checked, {n}, "StartNode")
<1>1. Handled(w, a) /\ Exact(a) BY FieldHandled, HandledIsExact DEF NodeStates
<1> HIDE DEF a
<1>2. Handled(w, b) /\ Exact(b) BY <1>1, ScannedHandles, HandledTwice, HandledIsExact
<1> HIDE DEF b
<1>3. Handled(w, checked) /\ Exact(checked)
  BY <1>2, OneMandatoryLessHandles, HandledTwice DEF Handled
<1> HIDE DEF checked
<1>4. Handled(checked, told) BY <1>3, CommandHandles DEF Commands
<1>5. Handled(w, told) BY <1>3, <1>4, HandledTwice
<1> HIDE DEF told
<1>6. Handled(w, checkNmtState(w, n, "NotActive", "BPO2").w)
  BY CheckStateHandles DEF NmtStates
<1>7. EventTimerLonger(w, n) \in
        {checkNmtState(w, n, "NotActive", "BPO2").w, checked, told, w}
  BY DEF EventTimerLonger, told, checked, b, a
<1> QED BY <1>3, <1>5, <1>6, <1>7, HandledItself

LEMMA CmdSentHandles ==
  ASSUME NEW w, Exact(w), NEW to, NEW cmd \in Commands
  PROVE  Handled(w, EventNmtCmdSent(w, to, cmd))
<1> DEFINE F == [n \in CN |-> IF n \in to THEN AfterCommand(w.node[n], cmd) ELSE w.node[n]]
           x == [w EXCEPT !.node = F]
           late == {n \in to : w.node[n].exp # "PreOp2"}
<1>1. w.node \in [CN -> Nodes] BY UserFields DEF Exact
<1>2. ASSUME NEW nd \in Nodes PROVE Kin(nd, AfterCommand(nd, cmd))
  <2>1. ASSUME NEW e \in NmtStates
        PROVE  Kin(nd, [nd EXCEPT !.exp = e, !.cmdIssued = TRUE])
    <3> DEFINE m == [nd EXCEPT !.exp = e]
    <3>1. Kin(nd, m) BY KinFields
    <3>2. Kin(m, [m EXCEPT !.cmdIssued = TRUE]) BY <3>1, KinFields DEF Kin
    <3> QED BY <3>1, <3>2, KinTransitive
  <2>2. Kin(nd, [nd EXCEPT !.exp = "NotActive"]) BY KinFields DEF NmtStates
  <2> QED BY <2>1, <2>2 DEF AfterCommand, Commands, NmtStates
<1>3. \A n \in CN : Kin(w.node[n], F[n]) BY <1>1, <1>2 DEF Kin
<1>4. Handled(w, x) /\ Exact(x) BY <1>3, NodesHandled, HandledIsExact DEF Kin
<1>5. EventNmtCmdSent(w, to, cmd) \in
        {Start(x, to, "IdentReq"), Start(x, to, "StateMon"), Start(x, late, "StateMon")}
  BY DEF EventNmtCmdSent, Commands
<1> HIDE DEF x, late
<1>6. Handled(x, EventNmtCmdSent(w, to, cmd)) BY <1>4, <1>5, StartHandles DEF Timers
<1> QED BY <1>4, <1>6, HandledTwice

LEMMA NodeAddedHandles ==
  ASSUME NEW w, Exact(w), NEW n \in CN PROVE Handled(w, cbNodeAdded(w, n))
<1> DEFINE x == [w EXCEPT !.node[n].isochron = TRUE]
<1>1. Handled(w, x) /\ Exact(x) BY FieldHandled, HandledIsExact
<1> HIDE DEF x
<1>2. Handled(w, nodeBootStep2(x, n)) BY <1>1, BootStep2Handles, HandledTwice
<1> QED BY <1>1, <1>2 DEF cbNodeAdded, x

\* What the application answers.
LEMMA NodeCommandHandles ==
  ASSUME NEW w, Exact(w), NEW n \in CN,
         NEW c \in {"Boot", "ConfOk", "ConfErr", "ConfRestored", "ConfReset"}
  PROVE  Handled(w, NodeCommand(w, n, c))
<1>1. Handled(w, EventError(w, n))
  BY CheckStateHandles, HandledItself DEF EventError, NmtStates
<1> QED BY <1>1, BootHandles, ConfiguredHandles, ExecHandles DEF NodeCommand

-----------------------------------------------------------------------------
(* Informing the application, and the state changes of the MN              *)

\* As Handled, but the application may have been informed.
Stepped(w, x) ==
    /\ Exact(x) /\ Marked(x) \subseteq Marked(w)
    /\ x.mn = w.mn /\ Grows(w.queue, x.queue)
    /\ \/ x.informed = w.informed /\ x.nmtEv = w.nmtEv
       \/ ~w.informed /\ x.informed /\ Marked(x) = {} /\ x.nmtEv = w.nmtEv \o BootEvent[w.mn]

LEMMA HandledIsStepped ==
  ASSUME NEW w, NEW x, Handled(w, x) PROVE Stepped(w, x)
BY DEF Handled, Stepped

LEMMA BootEventType ==
  ASSUME NEW s \in NmtStates \ {"NotActive"}
  PROVE  /\ BootEvent[s] \in Seq(BootEvents)
         /\ \/ BootEvent[s] = <<>>
            \/ \E e \in BootEvents : /\ BootEvent[s] = <<e>>
                                     /\ e = "AllMandatoryCNIdent" => s = "PreOp1"
<1>1. CASE s = "PreOp1"
  <2>1. BootEvent[s] = <<"AllMandatoryCNIdent">> BY <1>1 DEF BootEvent
  <2> QED BY <1>1, <2>1 DEF BootEvents
<1>2. CASE s = "PreOp2"
  <2>1. BootEvent[s] = <<"EnterReadyToOperate">> BY <1>2 DEF BootEvent
  <2> QED BY <2>1 DEF BootEvents
<1>3. CASE s = "ReadyToOp"
  <2>1. BootEvent[s] = <<"EnterMsOperational">> BY <1>3 DEF BootEvent
  <2> QED BY <2>1 DEF BootEvents
<1>4. CASE s = "Operational"
  <2>1. BootEvent[s] = <<>> BY <1>4 DEF BootEvent
  <2> QED BY <2>1
<1> QED BY <1>1, <1>2, <1>3, <1>4 DEF NmtStates

LEMMA NothingMarked ==
  ASSUME NEW w, Exact(w) PROVE w.signal = 0 <=> Marked(w) = {}
BY MarkedFinite, FS_EmptySet DEF Exact

LEMMA InformSteps ==
  ASSUME NEW w, NEW x, Exact(w), Handled(w, x), w.mn # "NotActive"
  PROVE  Stepped(w, InformApplication(x))
<1> DEFINE ev == x.nmtEv \o BootEvent[x.mn]
           y == [x EXCEPT !.informed = TRUE]
           z == [y EXCEPT !.nmtEv = ev]
<1>1. CASE x.informed \/ x.signal # 0 \/ x.mandatory # 0
  BY <1>1, HandledIsStepped DEF InformApplication
<1>2. CASE ~(x.informed \/ x.signal # 0 \/ x.mandatory # 0)
  <2>1. InformApplication(x) = z BY <1>2 DEF InformApplication
  <2>2. Exact(x) /\ x \in User /\ x.mn = w.mn BY DEF Handled, Exact
  <2>3. x.mn \in NmtStates \ {"NotActive"} /\ x.nmtEv \in Seq(BootEvents) BY <2>2, UserFields
  <2>4. ev \in Seq(BootEvents) BY <2>3, BootEventType
  <2> HIDE DEF ev
  <2>5. y \in User /\ y.node = x.node /\ y.signal = x.signal /\ y.queue = x.queue
        /\ y.mn = x.mn /\ y.informed = TRUE /\ y.nmtEv = x.nmtEv
    BY <2>2 DEF User
  <2> HIDE DEF y
  <2>6. z \in User /\ z.node = x.node /\ z.signal = x.signal /\ z.queue = x.queue
        /\ z.mn = x.mn /\ z.informed = TRUE /\ z.nmtEv = ev
    BY <2>4, <2>5 DEF User
  <2> HIDE DEF z
  <2>7. Marked(z) = Marked(x) BY <2>6 DEF Marked
  <2>8. Exact(z) BY <2>2, <2>6, <2>7 DEF Exact
  <2>9. Marked(x) = {} BY <1>2, <2>2, NothingMarked
  <2>10. Stepped(w, z) BY <1>2, <2>2, <2>6, <2>7, <2>8, <2>9 DEF Stepped, Handled, ev
  <2> QED BY <2>1, <2>10
<1> QED BY <1>1, <1>2

LEMMA ProcessEventSteps ==
  ASSUME NEW w, Exact(w), w.mn # "NotActive", NEW e \in Events, e.t # "mn", NEW stop
  PROVE  Stepped(w, processEvent(w, e, stop))
<1>1. CASE e.t = "ident"
  <2>1. e.n \in CN /\ e.s \in NmtStates BY <1>1 DEF Events
  <2> DEFINE x == [w EXCEPT !.node[e.n].identCb = FALSE]
             y == IF e.s = "NotActive" THEN EventNoIdentResponse(x, e.n)
                  ELSE EventIdentResponse(x, e.n, e.s, stop)
  <2>2. Handled(w, x) /\ Exact(x) BY <2>1, FieldHandled, HandledIsExact
  <2> HIDE DEF x
  <2>3. Handled(x, y) BY <2>1, <2>2, NoIdentResponseHandles, IdentResponseHandles
  <2>4. Handled(w, y) BY <2>2, <2>3, HandledTwice
  <2>5. processEvent(w, e, stop) \in {w, InformApplication(y)}
    BY <1>1 DEF processEvent, cbIdentResponse, x
  <2> HIDE DEF y
  <2> QED BY <2>4, <2>5, InformSteps, HandledItself, HandledIsStepped
<1>2. CASE e.t = "status"
  <2>1. e.n \in CN /\ e.s \in NmtStates BY <1>2 DEF Events
  <2> DEFINE x == [w EXCEPT !.node[e.n].statusCb = FALSE]
             y == IF e.s = "NotActive" THEN EventNoStatusResponse(x, e.n)
                  ELSE EventStatusResponse(x, e.n, e.s)
  <2>2. Handled(w, x) /\ Exact(x) BY <2>1, FieldHandled, HandledIsExact
  <2> HIDE DEF x
  <2>3. Handled(x, EventNoStatusResponse(x, e.n))
    BY <2>1, <2>2, CheckStateHandles DEF EventNoStatusResponse, NmtStates
  <2>4. Handled(x, y) BY <2>1, <2>2, <2>3, StatusResponseHandles
  <2>5. Handled(w, y) BY <2>2, <2>4, HandledTwice
  <2>6. processEvent(w, e, stop) \in {w, InformApplication(y)}
    BY <1>2 DEF processEvent, cbStatusResponse, x
  <2> HIDE DEF y
  <2> QED BY <2>5, <2>6, InformSteps, HandledItself, HandledIsStepped
<1>3. CASE e.t = "hb"
  <2>1. e.n \in CN /\ e.s \in NmtStates BY <1>3 DEF Events
  <2>2. Handled(w, EventHeartbeat(w, e.n, e.s, e.err))
    BY <2>1, CheckStateHandles DEF EventHeartbeat
  <2>3. processEvent(w, e, stop) = InformApplication(EventHeartbeat(w, e.n, e.s, e.err))
    BY <1>3 DEF processEvent
  <2> QED BY <2>2, <2>3, InformSteps
<1>4. CASE e.t = "sent"
  <2>1. e.cmd \in Commands BY <1>4 DEF Events
  <2>2. processEvent(w, e, stop) = EventNmtCmdSent(w, e.to, e.cmd) BY <1>4 DEF processEvent
  <2> QED BY <2>1, <2>2, CmdSentHandles, HandledIsStepped
<1>5. CASE e.t = "added"
  <2>1. e.n \in CN BY <1>5 DEF Events
  <2>2. processEvent(w, e, stop) = cbNodeAdded(w, e.n) BY <1>5 DEF processEvent
  <2> QED BY <2>1, <2>2, NodeAddedHandles, HandledIsStepped
<1> QED BY <1>1, <1>2, <1>3, <1>4, <1>5 DEF Events

\* The MN has entered state s: the nodes to be scanned are marked and counted.
Entered(w, x, s) ==
    /\ Exact(x) /\ Marked(x) \subseteq od.cn
    /\ x.mn = s /\ ~x.informed /\ x.nmtEv = w.nmtEv /\ Grows(w.queue, x.queue)

LEMMA CountedHandles ==
  ASSUME NEW w, Exact(w), NEW nodes \in SUBSET CN, Marked(w) \subseteq nodes
  PROVE  LET x == Count(Mark(w, nodes), nodes)
         IN  /\ Exact(x) /\ Marked(x) = nodes /\ x.mn = w.mn
             /\ x.nmtEv = w.nmtEv /\ x.queue = w.queue
<1> DEFINE F == [n \in CN |-> [w.node[n] EXCEPT !.notScanned = @ \/ n \in nodes]]
           c == Cardinality(nodes)
           m == Cardinality(nodes \intersect od.mandatory)
           a == [w EXCEPT !.node = F]
           b == [a EXCEPT !.signal = c]
           d == [b EXCEPT !.mandatory = m]
<1>1. w \in User /\ w.node \in [CN -> Nodes] BY UserFields DEF Exact
<1>2. \A n \in CN : F[n] \in Nodes /\ (F[n].notScanned <=> w.node[n].notScanned \/ n \in nodes)
  <2>1. ASSUME NEW nd \in Nodes, NEW v \in BOOLEAN
        PROVE  [nd EXCEPT !.notScanned = v] \in Nodes /\ [nd EXCEPT !.notScanned = v].notScanned = v
    BY DEF Nodes
  <2>2. ASSUME NEW n \in CN PROVE (w.node[n].notScanned \/ n \in nodes) \in BOOLEAN OBVIOUS
  <2> QED BY <1>1, <2>1, <2>2
<1>3. F \in [CN -> Nodes] BY <1>2
<1>4. c \in 0..UIntMax /\ m \in 0..UIntMax
  <2>1. IsFiniteSet(nodes) /\ c <= Cardinality(CN) BY ConfigAssumption, FS_Subset
  <2>2. IsFiniteSet(nodes \intersect od.mandatory) /\ m <= Cardinality(CN)
    BY ConfigAssumption, FS_Subset
  <2> QED BY <2>1, <2>2, FS_CardinalityType, ConfigAssumption, BoundAssumption
<1>5. Count(Mark(w, nodes), nodes) = d BY DEF Count, Mark
<1> HIDE DEF c, m
<1>6. \A n \in CN : F[n].notScanned <=> n \in nodes BY <1>2 DEF Marked
<1> HIDE DEF F
<1>7. a \in User /\ a.node = F /\ a.mn = w.mn /\ a.nmtEv = w.nmtEv /\ a.queue = w.queue
  BY <1>1, <1>3 DEF User
<1> HIDE DEF a
<1>8. b \in User /\ b.node = F /\ b.mn = w.mn /\ b.nmtEv = w.nmtEv /\ b.queue = w.queue
      /\ b.signal = c
  BY <1>4, <1>7 DEF User
<1> HIDE DEF b
<1>9. d \in User /\ d.node = F /\ d.mn = w.mn /\ d.nmtEv = w.nmtEv /\ d.queue = w.queue
      /\ d.signal = c
  BY <1>4, <1>8 DEF User
<1> HIDE DEF d
<1>10. Marked(d) = nodes BY <1>6, <1>9 DEF Marked
<1> QED BY <1>5, <1>9, <1>10 DEF Exact, c

\* Setting the state aside, a boot step is a handler followed by a count.
LEMMA StateSet ==
  ASSUME NEW w, Exact(w), NEW s \in NmtStates
  PROVE  LET x == [w EXCEPT !.mn = s]
         IN  /\ Exact(x) /\ Marked(x) = Marked(w) /\ x.mn = s /\ x.node = w.node
             /\ x.nmtEv = w.nmtEv /\ x.queue = w.queue
<1> DEFINE x == [w EXCEPT !.mn = s]
<1>1. x \in User /\ x.node = w.node /\ x.signal = w.signal /\ x.queue = w.queue
      /\ x.nmtEv = w.nmtEv /\ x.mn = s
  BY DEF User, Exact
<1> HIDE DEF x
<1>2. Marked(x) = Marked(w) BY <1>1 DEF Marked
<1>3. Exact(x) BY <1>1, <1>2 DEF Exact
<1> QED BY <1>1, <1>2, <1>3 DEF x

LEMMA CountedEnters ==
  ASSUME NEW w, Exact(w), NEW x, Handled(w, x), NEW nodes \in SUBSET CN,
         nodes \subseteq od.cn, Marked(x) \subseteq nodes,
         NEW v \in 0..UIntMax
  PROVE  /\ Entered(w, NotInformed(Count(Mark(x, nodes), nodes)), w.mn)
         /\ Entered(w, NotInformed([Count(Mark(x, nodes), nodes) EXCEPT !.mandatory = v]), w.mn)
<1> DEFINE y == Count(Mark(x, nodes), nodes)
           z == [y EXCEPT !.mandatory = v]
<1>1. Exact(x) BY DEF Handled
<1>2. /\ Exact(y) /\ Marked(y) = nodes /\ y.mn = x.mn
      /\ y.nmtEv = x.nmtEv /\ y.queue = x.queue
  BY <1>1, CountedHandles
<1> HIDE DEF y
<1>3. Handled(y, z) BY <1>2, OthersHandled
<1>4. y \in User /\ z \in User /\ z.node = y.node
  <2>1. y \in User BY <1>2 DEF Exact
  <2> QED BY <2>1, <1>3 DEF Handled, Exact, User
<1>5. Marked(z) = nodes BY <1>2, <1>4 DEF Marked
<1> HIDE DEF z
<1>6. ASSUME NEW c \in {y, z} PROVE Entered(w, NotInformed(c), w.mn)
  <2> DEFINE d == [c EXCEPT !.informed = FALSE]
  <2>1. c \in User BY <1>4
  <2>2. d \in User /\ d.node = c.node /\ d.signal = c.signal /\ d.queue = c.queue
        /\ d.mn = c.mn /\ ~d.informed /\ d.nmtEv = c.nmtEv
    BY <2>1 DEF User
  <2> HIDE DEF d
  <2>3. Marked(d) = Marked(c) BY <2>2 DEF Marked
  <2>4. Exact(c) BY <1>2, <1>3 DEF Handled
  <2>5. Exact(d) BY <2>2, <2>3, <2>4 DEF Exact
  <2>6. c.mn = w.mn /\ c.nmtEv = w.nmtEv BY <1>2, <1>3 DEF Handled
  <2>7. c.queue = x.queue
    <3>1. z.queue = y.queue BY <1>4 DEF z
    <3> QED BY <1>2, <3>1
  <2>8. Grows(w.queue, d.queue) BY <2>2, <2>7 DEF Handled
  <2>9. Marked(d) = nodes BY <1>2, <1>5, <2>3
  <2>10. Entered(w, d, w.mn) BY <2>2, <2>5, <2>6, <2>8, <2>9 DEF Entered
  <2> QED BY <2>10 DEF NotInformed, d
<1> QED BY <1>6 DEF y, z

LEMMA OrderedNodes ==
  ASSUME NEW nodes \in SUBSET CN
  PROVE  SetToSeq(nodes) \in Seq(nodes)
<1> DEFINE k == Cardinality(nodes)
<1>1. IsFiniteSet(nodes) BY ConfigAssumption, FS_Subset
<1>2. k \in Nat /\ ExistsBijection(1..k, nodes) BY <1>1, FS_CardinalityType
<1>3. PICK f \in [1..k -> nodes] : IsInjective(f)
  BY <1>2 DEF ExistsBijection, Bijection, Injection, IsInjective
<1>4. SetToSeq(nodes) \in [1..k -> nodes] BY <1>3 DEF SetToSeq
<1> QED BY <1>2, <1>4

LEMMA PreOp1Enters ==
  ASSUME NEW w, Exact(w), w.mn = "PreOp1", Marked(w) \subseteq od.cn, od.cn \subseteq CN
  PROVE  Entered(w, doPreop1(w), "PreOp1")
<1> DEFINE Cleared(n) == IF n \in od.cn THEN startBootStep1(w.node[n]) ELSE w.node[n]
           F == [n \in CN |-> Cleared(n)]
           a == [w EXCEPT !.identReq = <<>>]
           b == [a EXCEPT !.statusReq = <<>>]
           c == [b EXCEPT !.turn = "cmd"]
           d == [c EXCEPT !.iso = {}]
           e == [d EXCEPT !.node = F]
           r == sendNmtCommand(e, od.cn, "ResetNode")
<1>1. w.node \in [CN -> Nodes] BY UserFields DEF Exact
<1>2. ASSUME NEW nd \in Nodes PROVE Kin(nd, startBootStep1(nd))
  BY DEF Kin, startBootStep1, Nodes, NodeStates
<1>3. \A n \in CN : Kin(w.node[n], F[n]) BY <1>1, <1>2 DEF Kin
<1>0. <<>> \in Seq(CN) OBVIOUS
<1>4. Handled(w, a) /\ Exact(a) /\ a.node = w.node
  <2>1. Handled(w, a) BY <1>0, OthersHandled
  <2> QED BY <2>1 DEF Handled, Exact, User
<1>5. Handled(a, b) /\ Exact(b) /\ b.node = w.node
  <2> HIDE DEF a
  <2>1. Handled(a, b) BY <1>0, <1>4, OthersHandled
  <2> QED BY <2>1, <1>4 DEF Handled, Exact, User
<1>6. Handled(b, c) /\ Exact(c) /\ c.node = w.node
  <2> HIDE DEF b
  <2>1. Handled(b, c) BY <1>5, OthersHandled DEF Following
  <2> QED BY <2>1, <1>5 DEF Handled, Exact, User
<1>7. Handled(c, d) /\ Exact(d) /\ d.node = w.node
  <2> HIDE DEF c
  <2>1. Handled(c, d) BY <1>6, OthersHandled
  <2> QED BY <2>1, <1>6 DEF Handled, Exact, User
<1>8. F \in [CN -> Nodes] /\ \A n \in CN : F[n].notScanned = d.node[n].notScanned
  BY <1>3, <1>7 DEF Kin
<1>9. doPreop1(w) = NotInformed(Count(Mark(r, od.cn), od.cn)) BY DEF doPreop1
<1> HIDE DEF a, b, c, F
<1>10. Handled(d, e) BY <1>7, <1>8, NodesHandled
<1> HIDE DEF d, e
<1>11. Handled(e, r) BY <1>10, CommandHandles DEF Handled, Commands
<1>12. Handled(w, r)
  BY <1>4, <1>5, <1>6, <1>7, <1>10, <1>11, HandledTwice
<1> HIDE DEF r
<1>13. Marked(r) \subseteq od.cn BY <1>12 DEF Handled
<1>14. 0 \in 0..UIntMax BY BoundAssumption
<1>15. Entered(w, NotInformed(Count(Mark(r, od.cn), od.cn)), w.mn)
  BY <1>12, <1>13, <1>14, CountedEnters
<1> QED BY <1>9, <1>15

LEMMA PreOp2Enters ==
  ASSUME NEW w, Exact(w), w.mn = "PreOp2", Marked(w) = {}, od.cn \subseteq CN
  PROVE  Entered(w, startBootStep2(w), "PreOp2")
<1> DEFINE known == {n \in CN : w.node[n].exp = "PreOp1"}
           ready == NodesIn(w, "Configured") \intersect known
           To2(nd) == [nd EXCEPT !.exp = "PreOp2", !.cmdIssued = TRUE]
           F == [n \in CN |-> IF n \in known THEN To2(w.node[n]) ELSE w.node[n]]
           x == [w EXCEPT !.node = F]
           y == Start(x, known, "StateMon")
<1>1. w.node \in [CN -> Nodes] BY UserFields DEF Exact
<1>2. ASSUME NEW nd \in Nodes PROVE Kin(nd, To2(nd))
  BY DEF Kin, Nodes, NmtStates
<1>3. \A n \in CN : F[n] \in Nodes /\ F[n].notScanned = w.node[n].notScanned
  BY <1>1, <1>2 DEF Kin
<1>4. Handled(w, x) BY <1>3, NodesHandled
<1>5. startBootStep2(w) = NotInformed(Count(Mark(y, ready), ready)) BY DEF startBootStep2
<1>6. ready \subseteq od.cn BY DEF NodesIn
<1> HIDE DEF F, x, known, ready
<1>7. Handled(x, y) BY <1>4, StartHandles DEF Handled, Timers
<1>8. Handled(w, y) BY <1>4, <1>7, HandledTwice
<1> HIDE DEF y
<1>9. Marked(y) \subseteq ready BY <1>8 DEF Handled
<1>10. 0 \in 0..UIntMax BY BoundAssumption
<1>11. Entered(w, NotInformed(Count(Mark(y, ready), ready)), w.mn)
  BY <1>6, <1>8, <1>9, <1>10, CountedEnters
<1> QED BY <1>5, <1>11

LEMMA ReadyToOpEnters ==
  ASSUME NEW w, Exact(w), w.mn = "ReadyToOp", Marked(w) = {}, od.cn \subseteq CN
  PROVE  Entered(w, startCheckCom(w), "ReadyToOp")
<1> DEFINE ready == NodesIn(w, "ReadyToOp")
           wait  == {n \in ready : MustWait(n)}
           y == nodeCheckCom(w, ready)
           v == Cardinality(wait \intersect od.mandatory)
<1>1. startCheckCom(w)
        = NotInformed([Count(Mark(y, ready), ready) EXCEPT !.mandatory = v])
  BY DEF startCheckCom
<1>2. ready \subseteq od.cn BY DEF NodesIn
<1>3. v \in 0..UIntMax
  <2>1. wait \intersect od.mandatory \subseteq CN BY <1>2
  <2> HIDE DEF wait
  <2>2. IsFiniteSet(wait \intersect od.mandatory) /\ v <= Cardinality(CN)
    BY <2>1, ConfigAssumption, FS_Subset
  <2> QED BY <2>2, FS_CardinalityType, ConfigAssumption, BoundAssumption
<1> HIDE DEF ready, v
<1>4. Handled(w, y) BY CheckComHandles
<1> HIDE DEF y
<1>5. Marked(y) \subseteq ready BY <1>4 DEF Handled
<1> QED BY <1>1, <1>2, <1>3, <1>4, <1>5, CountedEnters

LEMMA OperationalEnters ==
  ASSUME NEW w, Exact(w), w.mn = "Operational", Marked(w) = {}, od.cn \subseteq CN
  PROVE  Entered(w, startNodes(w), "Operational")
<1> DEFINE ready == NodesIn(w, "ComChecked")
           order == SetToSeq(ready)
           orders == [i \in DOMAIN order |-> [cmd |-> "StartNode", to |-> {order[i]}]]
           c == w.cmds \o orders
           y == [w EXCEPT !.cmds = c]
<1>1. startNodes(w) = NotInformed(Count(Mark(y, ready), ready)) BY DEF startNodes
<1>2. ready \subseteq od.cn BY DEF NodesIn
<1>3. order \in Seq(ready)
  <2> HIDE DEF ready
  <2> QED BY <1>2, OrderedNodes
<1>4. orders \in Seq(Orders)
  <2> HIDE DEF ready, order
  <2>1. \A i \in DOMAIN order : order[i] \in CN BY <1>2, <1>3
  <2>2. \A i \in DOMAIN order : [cmd |-> "StartNode", to |-> {order[i]}] \in Orders
    BY <2>1 DEF Orders, Commands
  <2>3. DOMAIN order = 1..Len(order) /\ Len(order) \in Nat BY <1>3
  <2> QED BY <2>2, <2>3
<1> HIDE DEF ready, orders
<1>5. c \in Seq(Orders) BY <1>4, UserFields DEF Exact
<1> HIDE DEF c
<1>6. Handled(w, y) BY <1>5, OthersHandled
<1> HIDE DEF y
<1>7. Marked(y) \subseteq ready BY <1>6 DEF Handled
<1>8. 0 \in 0..UIntMax BY BoundAssumption
<1>9. Entered(w, NotInformed(Count(Mark(y, ready), ready)), w.mn)
  BY <1>2, <1>6, <1>7, <1>8, CountedEnters
<1> QED BY <1>1, <1>9

LEMMA StateEnters ==
  ASSUME NEW w, Exact(w), Marked(w) \subseteq od.cn, od.cn \subseteq CN,
         NEW s \in NmtStates \ {"NotActive"}, s # "PreOp1" => Marked(w) = {}
  PROVE  Entered(w, cbNmtStateChange(w, s), s)
<1> DEFINE x == [w EXCEPT !.mn = s]
<1>1. /\ Exact(x) /\ Marked(x) = Marked(w) /\ x.mn = s
      /\ x.nmtEv = w.nmtEv /\ x.queue = w.queue
  BY StateSet
<1>2. cbNmtStateChange(w, s) = CASE s = "PreOp1" -> doPreop1(x)
                                 [] s = "PreOp2" -> startBootStep2(x)
                                 [] s = "ReadyToOp" -> startCheckCom(x)
                                 [] s = "Operational" -> startNodes(x)
  BY DEF cbNmtStateChange
<1> HIDE DEF x
<1>3. Entered(x, cbNmtStateChange(w, s), s)
  <2>1. CASE s = "PreOp1" BY <2>1, <1>1, <1>2, PreOp1Enters
  <2>2. CASE s = "PreOp2" BY <2>2, <1>1, <1>2, PreOp2Enters
  <2>3. CASE s = "ReadyToOp" BY <2>3, <1>1, <1>2, ReadyToOpEnters
  <2>4. CASE s = "Operational" BY <2>4, <1>1, <1>2, OperationalEnters
  <2> QED BY <2>1, <2>2, <2>3, <2>4 DEF NmtStates
<1> QED BY <1>1, <1>3 DEF Entered

-----------------------------------------------------------------------------
(* The inductive invariant: the state changes of the MN under way          *)

Mns(w) == {i \in 1..Len(w.queue) : w.queue[i].t = "mn"}

\* The state changes of the MN in the event queue, where k is its state: one
\* upwards is preceded by none, and the application was informed that the boot
\* step is finished; behind it there may be one to PreOp1.
StatesQueued(w, k) ==
    \A i \in Mns(w) :
        /\ w.queue[i].s # "PreOp1" =>
             /\ w.informed /\ Marked(w) = {} /\ w.mn # "NotActive"
             /\ \A j \in Mns(w) : i <= j
        /\ w.queue[i].s = "PreOp1" =>
             /\ \A j \in Mns(w) : j < i => w.queue[j].s # "PreOp1"
             /\ w.mn = "PreOp1" => \E j \in Mns(w) : j < i
        /\ (\A j \in Mns(w) : j <= i) => w.queue[i].s = k
InState(w, k) == Mns(w) = {} => w.mn = k

\* The MN is still in the state whose boot step the last event is about.
Fresh(w) ==
    /\ Mns(w) = {} /\ w.informed /\ Marked(w) = {} /\ w.mn # "NotActive"
    /\ BootEvent[w.mn] = <<w.nmtEv[Len(w.nmtEv)]>>
EventsFresh(w, k) ==
    IF k = "PreOp1"
    THEN \A i \in 1..Len(w.nmtEv) :
            w.nmtEv[i] = "AllMandatoryCNIdent" => i = Len(w.nmtEv) /\ Fresh(w)
    ELSE w.nmtEv # <<>> => Len(w.nmtEv) = 1 /\ Fresh(w)

\* Before the MN has entered PreOp1 nothing is under way.
Quiet(w) ==
    /\ w.identReq = <<>> /\ w.statusReq = <<>> /\ w.cmds = <<>>
    /\ w.iso = {} /\ w.expired = <<>> /\ w.nmtEv = <<>>
    /\ \A n \in CN : w.node[n].sr = "none" /\ ~w.node[n].longer /\ w.node[n].asked = "none"
    /\ \A i \in 1..Len(w.queue) : w.queue[i].t = "mn"

InStep(w, k) ==
    /\ StatesQueued(w, k) /\ InState(w, k) /\ EventsFresh(w, k)
    /\ w.mn = "NotActive" => Quiet(w)

\* The types of the variables but u.
Typed ==
    /\ od \in Configs /\ mnk \in NmtStates
    /\ cn \in [CN -> NmtStates \union {"Off", "Enabled"}]
    /\ fell \subseteq CN /\ faults \in Seq(Kinds) /\ Len(faults) <= MaxFault
IInv == Typed /\ Exact(u) /\ Marked(u) \subseteq od.cn /\ InStep(u, mnk)

LEMMA GrowsMns ==
  ASSUME NEW w, NEW x, w.queue \in Seq(Events), x.queue \in Seq(Events),
         Grows(w.queue, x.queue)
  PROVE  Mns(x) = Mns(w) /\ \A i \in Mns(w) : x.queue[i] = w.queue[i]
<1>1. Len(w.queue) \in Nat /\ Len(x.queue) \in Nat OBVIOUS
<1> QED BY <1>1 DEF Mns, Grows

\* A state change at the end is the state of the MN.
LEMMA LastState ==
  ASSUME NEW w, w.queue \in Seq(Events), NEW k, StatesQueued(w, k), Mns(w) # {}
  PROVE  \E i \in Mns(w) : w.queue[i].s = k /\ \A j \in Mns(w) : j <= i
<1>1. Mns(w) \subseteq 1..Len(w.queue) /\ Len(w.queue) \in Nat BY DEF Mns
<1>2. PICK i \in Mns(w) : TRUE OBVIOUS
<1>3. CASE \A j \in Mns(w) : j <= i BY <1>2, <1>3 DEF StatesQueued
<1>4. CASE \E j \in Mns(w) : ~(j <= i)
  <2>1. PICK j \in Mns(w) : ~(j <= i) BY <1>4
  <2>2. i < j BY <1>1, <2>1
  <2>3. w.queue[j].s = "PreOp1"
    <3>1. ~(j <= i) BY <2>1
    <3> QED BY <3>1 DEF StatesQueued
  <2>4. \A l \in Mns(w) : l < j => w.queue[l].s # "PreOp1" BY <2>3 DEF StatesQueued
  <2>5. ASSUME NEW l \in Mns(w) PROVE l <= j
    <3>1. SUFFICES ASSUME ~(l <= j) PROVE FALSE OBVIOUS
    <3>2. j < l BY <1>1, <3>1
    <3>3. w.queue[l].s = "PreOp1" BY <3>1 DEF StatesQueued
    <3>4. w.queue[j].s # "PreOp1" BY <3>2, <3>3 DEF StatesQueued
    <3> QED BY <2>3, <3>4
  <2> QED BY <2>5 DEF StatesQueued
<1> QED BY <1>3, <1>4

LEMMA StepKeeps ==
  ASSUME NEW w, NEW x, NEW k \in NmtStates \ {"NotActive"}, Exact(w), Stepped(w, x),
         w.mn # "NotActive", InStep(w, k)
  PROVE  InStep(x, k)
<1>1. /\ w.queue \in Seq(Events) /\ x.queue \in Seq(Events)
      /\ w.mn \in NmtStates /\ w.nmtEv \in Seq(BootEvents)
  BY UserFields DEF Exact, Stepped
<1>2. Mns(x) = Mns(w) /\ \A i \in Mns(w) : x.queue[i] = w.queue[i]
  BY <1>1, GrowsMns DEF Stepped
<1>3. /\ Marked(w) = {} => Marked(x) = {}
      /\ w.informed => x.informed
      /\ x.mn = w.mn
  BY DEF Stepped
<1>4. StatesQueued(x, k) BY <1>2, <1>3 DEF StatesQueued, InStep
<1>5. InState(x, k) BY <1>2, <1>3 DEF InState, InStep
<1>6. EventsFresh(x, k)
  <2>1. CASE x.informed = w.informed /\ x.nmtEv = w.nmtEv
    <3>1. Fresh(w) => Fresh(x) BY <1>2, <1>3, <2>1 DEF Fresh
    <3> QED BY <2>1, <3>1 DEF EventsFresh, InStep
  <2>2. CASE /\ ~w.informed /\ x.informed /\ Marked(x) = {}
             /\ x.nmtEv = w.nmtEv \o BootEvent[w.mn]
    <3>1. /\ w.mn \in NmtStates \ {"NotActive"}
          /\ \/ BootEvent[w.mn] = <<>>
             \/ \E e \in BootEvents : /\ BootEvent[w.mn] = <<e>>
                                      /\ e = "AllMandatoryCNIdent" => w.mn = "PreOp1"
      BY <1>1, BootEventType
    <3>2. ~Fresh(w) BY <2>2 DEF Fresh
    <3>3. ASSUME k = w.mn PROVE Mns(w) = {}
      <4>1. SUFFICES ASSUME Mns(w) # {} PROVE FALSE OBVIOUS
      <4>2. PICK i \in Mns(w) : w.queue[i].s = k BY <1>1, <4>1, LastState DEF InStep
      <4>3. w.queue[i].s = "PreOp1" BY <2>2 DEF StatesQueued, InStep
      <4>4. PICK j \in Mns(w) : j < i BY <1>1, <3>3, <4>2, <4>3 DEF StatesQueued, InStep
      <4>5. w.queue[j].s # "PreOp1" BY <4>3, <4>4 DEF StatesQueued, InStep
      <4> QED BY <2>2, <4>5 DEF StatesQueued, InStep
    <3>4. CASE BootEvent[w.mn] = <<>>
      <4>1. x.nmtEv = w.nmtEv BY <1>1, <2>2, <3>4
      <4> QED BY <3>2, <4>1 DEF EventsFresh, InStep
    <3>5. CASE BootEvent[w.mn] # <<>>
      <4>1. PICK e \in BootEvents : /\ BootEvent[w.mn] = <<e>>
                                    /\ e = "AllMandatoryCNIdent" => w.mn = "PreOp1"
        BY <3>1, <3>5
      <4>2. /\ Len(x.nmtEv) = Len(w.nmtEv) + 1 /\ Len(w.nmtEv) \in Nat
            /\ x.nmtEv[Len(x.nmtEv)] = e
            /\ \A i \in 1..Len(w.nmtEv) : x.nmtEv[i] = w.nmtEv[i]
        <5>1. x.nmtEv = w.nmtEv \o <<e>> BY <2>2, <4>1
        <5>2. w.nmtEv \in Seq(BootEvents) BY <1>1
        <5> QED BY <5>1, <5>2
      <4>3. Mns(w) = {} => Fresh(x) BY <1>2, <1>3, <2>2, <4>1, <4>2 DEF Fresh
      <4>4. CASE k = "PreOp1"
        <5>1. \A i \in 1..Len(w.nmtEv) : x.nmtEv[i] # "AllMandatoryCNIdent"
          BY <3>2, <4>2, <4>4 DEF EventsFresh, InStep
        <5>2. x.nmtEv[Len(x.nmtEv)] = "AllMandatoryCNIdent" => w.mn = "PreOp1"
          BY <4>1, <4>2
        <5>3. x.nmtEv[Len(x.nmtEv)] = "AllMandatoryCNIdent" => Fresh(x)
          BY <3>3, <4>3, <4>4, <5>2
        <5>4. ASSUME NEW i \in 1..Len(x.nmtEv), x.nmtEv[i] = "AllMandatoryCNIdent"
              PROVE  i = Len(x.nmtEv)
          BY <4>2, <5>1, <5>4
        <5> QED BY <4>4, <5>3, <5>4 DEF EventsFresh
      <4>5. CASE k # "PreOp1"
        <5>1. w.nmtEv = <<>> BY <3>2, <4>5 DEF EventsFresh, InStep
        <5>2. Len(x.nmtEv) = 1 BY <4>2, <5>1
        <5>3. Mns(w) = {}
          <6>1. SUFFICES ASSUME Mns(w) # {} PROVE FALSE OBVIOUS
          <6>2. PICK i \in Mns(w) : w.queue[i].s = k BY <1>1, <6>1, LastState DEF InStep
          <6> QED BY <2>2, <4>5, <6>2 DEF StatesQueued, InStep
        <5> QED BY <4>3, <4>5, <5>2, <5>3 DEF EventsFresh
      <4> QED BY <4>4, <4>5
    <3> QED BY <3>4, <3>5
  <2> QED BY <2>1, <2>2 DEF Stepped
<1> QED BY <1>3, <1>4, <1>5, <1>6 DEF InStep

\* The oldest event is taken from the queue.
LEMMA TailMns ==
  ASSUME NEW w, NEW x, w.queue \in Seq(Events), w.queue # <<>>, x.queue = Tail(w.queue)
  PROVE  /\ \A i : i \in Mns(x) <=> i \in Nat \ {0} /\ i + 1 \in Mns(w)
         /\ \A i \in Mns(x) : x.queue[i] = w.queue[i + 1]
         /\ 1 \in Mns(w) <=> Head(w.queue).t = "mn"
<1>1. /\ Len(w.queue) \in Nat /\ Len(w.queue) # 0 /\ Len(x.queue) = Len(w.queue) - 1
      /\ \A i \in 1..Len(x.queue) : x.queue[i] = w.queue[i + 1]
      /\ Head(w.queue) = w.queue[1]
  OBVIOUS
<1> QED BY <1>1 DEF Mns

LEMMA TailKeeps ==
  ASSUME NEW w, NEW k, Exact(w), w.queue # <<>>, Head(w.queue).t # "mn", InStep(w, k)
  PROVE  LET x == [w EXCEPT !.queue = Tail(@)]
         IN  Exact(x) /\ Marked(x) = Marked(w) /\ x.mn = w.mn /\ w.mn # "NotActive" /\ InStep(x, k)
<1> DEFINE q == Tail(w.queue)
           x == [w EXCEPT !.queue = q]
<1>1. w \in User /\ w.queue \in Seq(Events) BY UserFields DEF Exact
<1>2. q \in Seq(Events) BY <1>1
<1>3. /\ x \in User /\ x.queue = Tail(w.queue) /\ x.node = w.node /\ x.signal = w.signal
      /\ x.mn = w.mn /\ x.informed = w.informed /\ x.nmtEv = w.nmtEv
  BY <1>1, <1>2 DEF User
<1> HIDE DEF x, q
<1>4. Marked(x) = Marked(w) BY <1>3 DEF Marked
<1>5. Exact(x) BY <1>3, <1>4 DEF Exact
<1>6. /\ \A i : i \in Mns(x) <=> i \in Nat \ {0} /\ i + 1 \in Mns(w)
      /\ \A i \in Mns(x) : x.queue[i] = w.queue[i + 1]
      /\ 1 \notin Mns(w)
  BY <1>1, <1>3, TailMns
<1>7. Mns(w) \subseteq Nat \ {0} BY <1>1 DEF Mns
<1>8. \A j \in Mns(w) : j - 1 \in Mns(x) /\ j \in Nat BY <1>6, <1>7
<1>9. StatesQueued(x, k)
  <2> SUFFICES ASSUME NEW i \in Mns(x)
               PROVE  /\ x.queue[i].s # "PreOp1" =>
                           /\ x.informed /\ Marked(x) = {} /\ x.mn # "NotActive"
                           /\ \A j \in Mns(x) : i <= j
                      /\ x.queue[i].s = "PreOp1" =>
                           /\ \A j \in Mns(x) : j < i => x.queue[j].s # "PreOp1"
                           /\ x.mn = "PreOp1" => \E j \in Mns(x) : j < i
                      /\ (\A j \in Mns(x) : j <= i) => x.queue[i].s = k
    BY DEF StatesQueued
  <2>1. i \in Nat /\ i + 1 \in Mns(w) /\ x.queue[i] = w.queue[i + 1] BY <1>6
  <2>2. \A j \in Mns(x) : j \in Nat /\ j + 1 \in Mns(w) /\ x.queue[j] = w.queue[j + 1] BY <1>6
  <2>3. ASSUME x.queue[i].s # "PreOp1"
        PROVE  /\ x.informed /\ Marked(x) = {} /\ x.mn # "NotActive"
               /\ \A j \in Mns(x) : i <= j
    <3>1. /\ w.informed /\ Marked(w) = {} /\ w.mn # "NotActive"
          /\ \A j \in Mns(w) : i + 1 <= j
      BY <2>1, <2>3 DEF StatesQueued, InStep
    <3>2. \A j \in Mns(x) : i + 1 <= j + 1 BY <2>2, <3>1
    <3>3. \A j \in Mns(x) : i <= j BY <2>1, <2>2, <3>2
    <3> QED BY <1>3, <1>4, <3>1, <3>3
  <2>4. ASSUME x.queue[i].s = "PreOp1", NEW j \in Mns(x), j < i PROVE x.queue[j].s # "PreOp1"
    <3>1. j + 1 < i + 1 BY <2>1, <2>2, <2>4
    <3> QED BY <2>1, <2>2, <2>4, <3>1 DEF StatesQueued, InStep
  <2>5. ASSUME x.queue[i].s = "PreOp1", x.mn = "PreOp1" PROVE \E j \in Mns(x) : j < i
    <3>1. PICK j \in Mns(w) : j < i + 1 BY <1>3, <2>1, <2>5 DEF StatesQueued, InStep
    <3>2. j - 1 \in Mns(x) /\ j - 1 < i BY <1>8, <2>1, <3>1
    <3> QED BY <3>2
  <2>6. ASSUME \A j \in Mns(x) : j <= i PROVE x.queue[i].s = k
    <3>1. \A j \in Mns(w) : j <= i + 1
      <4>1. \A j \in Mns(w) : j - 1 <= i BY <1>8, <2>6
      <4> QED BY <1>8, <2>1, <4>1
    <3> QED BY <2>1, <3>1 DEF StatesQueued, InStep
  <2> QED BY <2>3, <2>4, <2>5, <2>6
<1>10. Mns(x) = {} <=> Mns(w) = {} BY <1>6, <1>8
<1>11. InState(x, k) BY <1>3, <1>10 DEF InState, InStep
<1>12. Fresh(w) => Fresh(x) BY <1>3, <1>4, <1>10 DEF Fresh
<1>13. EventsFresh(x, k) BY <1>3, <1>12 DEF EventsFresh, InStep
<1>14. w.mn # "NotActive"
  <2>1. 1 \in 1..Len(w.queue) /\ Head(w.queue) = w.queue[1] BY <1>1
  <2> QED BY <2>1 DEF InStep, Quiet
<1> QED BY <1>3, <1>4, <1>5, <1>9, <1>11, <1>13, <1>14 DEF InStep, x, q

\* The MN's state change that the oldest event tells is dealt with.
LEMMA EnterKeeps ==
  ASSUME NEW w, NEW k, Exact(w), w.queue # <<>>, Head(w.queue).t = "mn", InStep(w, k),
         Marked(w) \subseteq od.cn, od.cn \subseteq CN
  PROVE  LET x == [w EXCEPT !.queue = Tail(@)]
             y == cbNmtStateChange(x, Head(w.queue).s)
         IN  Exact(y) /\ Marked(y) \subseteq od.cn /\ InStep(y, k)
<1> DEFINE q == Tail(w.queue)
           x == [w EXCEPT !.queue = q]
           s == Head(w.queue).s
           y == cbNmtStateChange(x, s)
<1>1. w \in User /\ w.queue \in Seq(Events) BY UserFields DEF Exact
<1>2. q \in Seq(Events) BY <1>1
<1>3. /\ x \in User /\ x.queue = Tail(w.queue) /\ x.node = w.node /\ x.signal = w.signal
      /\ x.nmtEv = w.nmtEv
  BY <1>1, <1>2 DEF User
<1>4. s \in NmtStates \ {"NotActive"}
  <2>1. Head(w.queue) \in Events BY <1>1
  <2> QED BY <2>1 DEF Events
<1> HIDE DEF x, q
<1>5. Marked(x) = Marked(w) BY <1>3 DEF Marked
<1>6. Exact(x) BY <1>3, <1>5 DEF Exact
<1>7. /\ \A i : i \in Mns(x) <=> i \in Nat \ {0} /\ i + 1 \in Mns(w)
      /\ \A i \in Mns(x) : x.queue[i] = w.queue[i + 1]
      /\ 1 \in Mns(w)
  BY <1>1, <1>3, TailMns
<1>8. Head(w.queue) = w.queue[1] BY <1>1
<1>9. s # "PreOp1" => Marked(x) = {}
  BY <1>5, <1>7, <1>8 DEF StatesQueued, InStep
<1>10. Entered(x, y, s) BY <1>4, <1>5, <1>6, <1>9, StateEnters
<1> HIDE DEF y
<1>11. y.queue \in Seq(Events) /\ x.queue \in Seq(Events)
  BY <1>3, <1>10, UserFields DEF Entered, Exact
<1>12. Mns(y) = Mns(x) /\ \A i \in Mns(x) : y.queue[i] = x.queue[i]
  BY <1>10, <1>11, GrowsMns DEF Entered
<1>13. \A i \in Mns(y) : i \in Nat \ {0} /\ i + 1 \in Mns(w) /\ y.queue[i] = w.queue[i + 1]
  BY <1>7, <1>12
\* What is left are changes to PreOp1, and at most one.
<1>14. ASSUME NEW i \in Mns(y) PROVE y.queue[i].s = "PreOp1" /\ s # "PreOp1"
  <2>1. i + 1 \in Mns(w) /\ 1 < i + 1 /\ ~(i + 1 <= 1) BY <1>13
  <2>2. w.queue[i + 1].s = "PreOp1" BY <1>7, <2>1 DEF StatesQueued, InStep
  <2>3. w.queue[1].s # "PreOp1" BY <1>7, <2>1, <2>2 DEF StatesQueued, InStep
  <2> QED BY <1>8, <1>13, <2>2, <2>3
<1>15. ASSUME NEW i \in Mns(y), NEW j \in Mns(y), j < i PROVE FALSE
  <2>1. i + 1 \in Mns(w) /\ j + 1 \in Mns(w) /\ j + 1 < i + 1 BY <1>13, <1>15
  <2>2. w.queue[i + 1].s = "PreOp1" /\ w.queue[j + 1].s = "PreOp1" BY <1>13, <1>14
  <2> QED BY <2>1, <2>2 DEF StatesQueued, InStep
<1>16. ASSUME NEW i \in Mns(y) PROVE y.queue[i].s = k
  <2>1. ASSUME NEW j \in Mns(w) PROVE j <= i + 1
    <3>1. SUFFICES ASSUME ~(j <= i + 1) PROVE FALSE OBVIOUS
    <3>2. j \in Nat /\ i \in Nat BY <1>1, <1>13 DEF Mns
    <3>3. j - 1 \in Nat \ {0} /\ (j - 1) + 1 = j /\ i < j - 1 BY <3>1, <3>2
    <3>4. j - 1 \in Mns(y) BY <1>7, <1>12, <3>3
    <3> QED BY <1>15, <3>3, <3>4
  <2> QED BY <1>13, <2>1 DEF StatesQueued, InStep
<1>17. StatesQueued(y, k) BY <1>10, <1>14, <1>15, <1>16 DEF StatesQueued, Entered
<1>18. InState(y, k)
  <2> SUFFICES ASSUME Mns(y) = {} PROVE s = k BY <1>10 DEF InState, Entered
  <2>1. ASSUME NEW j \in Mns(w) PROVE j <= 1
    <3>1. SUFFICES ASSUME ~(j <= 1) PROVE FALSE OBVIOUS
    <3>2. j \in Nat BY <1>1 DEF Mns
    <3>3. j - 1 \in Nat \ {0} /\ (j - 1) + 1 = j BY <3>1, <3>2
    <3>4. j - 1 \in Mns(y) BY <1>7, <1>12, <3>3
    <3> QED BY <3>4
  <2> QED BY <1>7, <1>8, <2>1 DEF StatesQueued, InStep
<1>19. EventsFresh(y, k)
  <2>1. ~Fresh(w) BY <1>7 DEF Fresh
  <2>2. y.nmtEv = w.nmtEv BY <1>3, <1>10 DEF Entered
  <2> QED BY <2>1, <2>2 DEF EventsFresh, InStep
<1>20. y.mn # "NotActive" BY <1>4, <1>10 DEF Entered
<1> QED BY <1>10, <1>17, <1>18, <1>19, <1>20 DEF InStep, Entered, y, x, q

-----------------------------------------------------------------------------
(* The steps of the user thread                                            *)

\* What a step may do to the disturbances.
Faulted == Undisturbed \/ \E kind \in Kinds : Disturbed(kind)

LEMMA ConfigType ==
  ASSUME Typed
  PROVE  /\ od.cn \in SUBSET CN /\ od.mandatory \in SUBSET CN
         /\ od.asyncOnly \in SUBSET CN /\ od.kinds \in SUBSET Kinds
BY ConfigAssumption DEF Typed

LEMMA FaultsTyped ==
  ASSUME Typed, Faulted
  PROVE  faults' \in Seq(Kinds) /\ Len(faults') <= MaxFault
<1>1. faults \in Seq(Kinds) /\ Len(faults) \in Nat /\ Len(faults) <= MaxFault BY DEF Typed
<1>2. CASE Undisturbed BY <1>1, <1>2 DEF Undisturbed
<1>3. CASE \E kind \in Kinds : Disturbed(kind)
  <2>1. PICK kind \in Kinds : Disturbed(kind) BY <1>3
  <2>2. Len(faults) < MaxFault /\ faults' = Append(faults, kind) BY <2>1 DEF Disturbed
  <2>3. Len(faults') = Len(faults) + 1 BY <1>1, <2>2
  <2> QED BY <1>1, <2>2, <2>3, BoundAssumption
<1> QED BY <1>2, <1>3 DEF Faulted

LEMMA DisturbedIsFault ==
  ASSUME Typed, NEW kind, Disturbed(kind) PROVE Faulted
BY ConfigType DEF Disturbed, Faulted

LEMMA KeepsTyped ==
  ASSUME Typed, Keeps, Faulted
  PROVE  Typed' /\ mnk' = mnk /\ od' = od
<1>1. faults' \in Seq(Kinds) /\ Len(faults') <= MaxFault BY FaultsTyped
<1>2. Demoted \subseteq CN BY ConfigType DEF Demoted
<1>3. fell' \subseteq CN BY <1>2 DEF Keeps, Typed
<1> QED BY <1>1, <1>3 DEF Keeps, Typed

\* A user part that is active knows that the MN has left NotActive.
LEMMA ActiveMn ==
  ASSUME IInv, u.mn # "NotActive" PROVE mnk \in NmtStates \ {"NotActive"}
<1>1. u.queue \in Seq(Events) BY UserFields DEF IInv, Exact
<1>2. CASE Mns(u) = {} BY <1>2 DEF IInv, Typed, InStep, InState
<1>3. CASE Mns(u) # {}
  <2>1. PICK i \in Mns(u) : u.queue[i].s = mnk BY <1>1, <1>3, LastState DEF IInv, InStep
  <2>2. u.queue[i] \in Events /\ u.queue[i].t = "mn" BY <1>1, <2>1 DEF Mns
  <2> QED BY <2>1, <2>2 DEF Events
<1> QED BY <1>2, <1>3

LEMMA SteppedKeeps ==
  ASSUME IInv, u.mn # "NotActive", Stepped(u, u'), Typed', mnk' = mnk, od' = od
  PROVE  IInv'
<1>1. mnk \in NmtStates \ {"NotActive"} BY ActiveMn
<1>2. InStep(u', mnk) BY <1>1, StepKeeps DEF IInv
<1>3. Exact(u') /\ Marked(u') \subseteq od.cn BY DEF Stepped, IInv
<1> QED BY <1>2, <1>3 DEF IInv

LEMMA HandledKeeps ==
  ASSUME IInv, u.mn # "NotActive", Handled(u, u'), Typed', mnk' = mnk, od' = od
  PROVE  IInv'
BY SteppedKeeps, HandledIsStepped

LEMMA HandleEventKeeps ==
  ASSUME IInv, HandleEvent PROVE IInv'
<1> DEFINE w == [u EXCEPT !.queue = Tail(@)]
           e == Head(u.queue)
<1>1. PICK stop \in Stops(e) : u' = processEvent(w, e, stop) BY DEF HandleEvent
<1>2. Typed' /\ mnk' = mnk /\ od' = od
  BY KeepsTyped DEF HandleEvent, IInv, Faulted
<1>3. u.queue # <<>> /\ Exact(u) /\ InStep(u, mnk) /\ Marked(u) \subseteq od.cn /\ od.cn \subseteq CN
  BY ConfigType DEF HandleEvent, IInv
<1>4. e \in Events
  <2>1. u.queue \in Seq(Events) BY <1>3, UserFields DEF Exact
  <2> QED BY <1>3, <2>1
<1>5. CASE e.t = "mn"
  <2>1. u' = cbNmtStateChange(w, e.s) BY <1>1, <1>5 DEF processEvent
  <2>2. Exact(u') /\ Marked(u') \subseteq od.cn /\ InStep(u', mnk)
    BY <1>3, <1>5, <2>1, EnterKeeps
  <2> QED BY <1>2, <2>2 DEF IInv
<1>6. CASE e.t # "mn"
  <2>1. /\ Exact(w) /\ Marked(w) = Marked(u) /\ w.mn = u.mn /\ u.mn # "NotActive"
        /\ InStep(w, mnk)
    BY <1>3, <1>6, TailKeeps
  <2>2. mnk \in NmtStates \ {"NotActive"} BY <2>1, ActiveMn
  <2> HIDE DEF w, e
  <2>3. Stepped(w, u') BY <1>1, <1>4, <1>6, <2>1, ProcessEventSteps
  <2>4. InStep(u', mnk) BY <2>1, <2>2, <2>3, StepKeeps
  <2>5. Exact(u') /\ Marked(u') \subseteq od.cn BY <1>3, <2>1, <2>3 DEF Stepped
  <2> QED BY <1>2, <2>4, <2>5 DEF IInv
<1> QED BY <1>5, <1>6

LEMMA HandleTimerKeeps ==
  ASSUME IInv, HandleTimer PROVE IInv'
<1> DEFINE e == Head(u.expired)
           q == Tail(u.expired)
           w == [u EXCEPT !.expired = q]
<1>1. Typed' /\ mnk' = mnk /\ od' = od
  BY KeepsTyped DEF HandleTimer, IInv, Faulted
<1>2. Exact(u) /\ u.expired \in Seq(Expirations) /\ u.expired # <<>>
  BY UserFields DEF IInv, Exact, HandleTimer
<1>3. e \in Expirations /\ q \in Seq(Expirations) BY <1>2
<1>4. u.mn # "NotActive" BY <1>2 DEF IInv, InStep, Quiet
<1>5. u' \in {w, InformApplication(EventTimerLonger(w, e.n))}
      \/ (e.kind # "Longer" /\ u' = InformApplication(EventTimer(w, e.n, e.kind)))
  BY DEF HandleTimer
<1>6. e.n \in CN /\ e.kind \in Timers \union {"Longer"} BY <1>3 DEF Expirations
<1>7. Handled(u, w) /\ Exact(w)
  <2>1. Handled(u, w) BY <1>2, <1>3, OthersHandled
  <2> QED BY <2>1 DEF Handled
<1> HIDE DEF w, e, q
<1>8. Stepped(u, w) BY <1>7, HandledIsStepped
<1>9. Stepped(u, InformApplication(EventTimerLonger(w, e.n)))
  <2>1. Handled(u, EventTimerLonger(w, e.n))
    BY <1>2, <1>6, <1>7, TimerLongerHandles, HandledTwice
  <2> QED BY <1>2, <1>4, <2>1, InformSteps
<1>10. ASSUME e.kind # "Longer" PROVE Stepped(u, InformApplication(EventTimer(w, e.n, e.kind)))
  <2>1. Handled(u, EventTimer(w, e.n, e.kind))
    BY <1>2, <1>6, <1>7, <1>10, TimerHandles, HandledTwice
  <2> QED BY <1>2, <1>4, <2>1, InformSteps
<1>11. Stepped(u, u') BY <1>5, <1>8, <1>9, <1>10
<1> QED BY <1>1, <1>4, <1>11, SteppedKeeps

LEMMA AnsweredKeeps ==
  ASSUME IInv, NEW n \in CN, u.node[n].asked # "none",
         NEW c \in {"Boot", "ConfOk", "ConfErr", "ConfRestored", "ConfReset"},
         Answered(n, c), Faulted
  PROVE  IInv'
<1> DEFINE w == [u EXCEPT !.node[n].asked = "none"]
<1>1. Typed' /\ mnk' = mnk /\ od' = od BY KeepsTyped DEF Answered, IInv
<1>2. Exact(u) /\ u.mn # "NotActive" BY DEF IInv, InStep, Quiet
<1>3. u' = InformApplication(NodeCommand(w, n, c)) BY DEF Answered
<1>4. Handled(u, w) /\ Exact(w) BY <1>2, FieldHandled, HandledIsExact
<1> HIDE DEF w
<1>5. Handled(u, NodeCommand(w, n, c)) BY <1>2, <1>4, NodeCommandHandles, HandledTwice
<1>6. Stepped(u, u') BY <1>2, <1>3, <1>5, InformSteps
<1> QED BY <1>1, <1>2, <1>6, SteppedKeeps

-----------------------------------------------------------------------------
(* The steps beside it                                                     *)

LEMMA TimerExpiresKeeps ==
  ASSUME IInv, NEW n \in CN, TimerExpires(n), Faulted PROVE IInv'
<1> DEFINE x == [u EXCEPT !.node[n].sr = "none"]
           q == Expiration(n, u.node[n].sr)
<1>1. Typed' /\ mnk' = mnk /\ od' = od
  BY FaultsTyped DEF TimerExpires, IInv, Typed
<1>2. Exact(u) /\ u.mn # "NotActive" BY DEF IInv, InStep, Quiet, TimerExpires
<1>3. q \in Seq(Expirations)
  <2>1. u.expired \in Seq(Expirations) /\ u.node[n] \in Nodes BY <1>2, UserFields DEF Exact
  <2>2. u.node[n].sr \in Timers BY <2>1, NodeFields DEF TimerExpires
  <2>3. [n |-> n, kind |-> u.node[n].sr, old |-> FALSE] \in Expirations
    BY <2>2 DEF Expirations
  <2> QED BY <2>1, <2>3 DEF Expiration
<1>4. u' = [x EXCEPT !.expired = q] BY DEF TimerExpires
<1> HIDE DEF q
<1>5. Handled(u, x) /\ Exact(x)
  <2>1. \A v \in Timers \union {"none"} : Handled(u, [u EXCEPT !.node[n].sr = v])
    BY <1>2, FieldHandled
  <2>2. Handled(u, x) BY <2>1
  <2> QED BY <2>2 DEF Handled
<1> HIDE DEF x
<1>6. Handled(x, u') BY <1>3, <1>4, <1>5, OthersHandled
<1>7. Handled(u, u') BY <1>2, <1>5, <1>6, HandledTwice
<1> QED BY <1>1, <1>2, <1>7, HandledKeeps

LEMMA TimerLongerExpiresKeeps ==
  ASSUME IInv, NEW n \in CN, TimerLongerExpires(n), Faulted PROVE IInv'
<1> DEFINE x == [u EXCEPT !.node[n].longer = FALSE]
           q == Expiration(n, "Longer")
<1>1. Typed' /\ mnk' = mnk /\ od' = od
  BY FaultsTyped DEF TimerLongerExpires, IInv, Typed
<1>2. Exact(u) /\ u.mn # "NotActive" BY DEF IInv, InStep, Quiet, TimerLongerExpires
<1>3. q \in Seq(Expirations)
  <2>1. u.expired \in Seq(Expirations) BY <1>2, UserFields DEF Exact
  <2>2. [n |-> n, kind |-> "Longer", old |-> FALSE] \in Expirations BY DEF Expirations
  <2> QED BY <2>1, <2>2 DEF Expiration
<1>4. u' = [x EXCEPT !.expired = q] BY DEF TimerLongerExpires
<1> HIDE DEF q
<1>5. Handled(u, x) /\ Exact(x) BY <1>2, FieldHandled, HandledIsExact
<1> HIDE DEF x
<1>6. Handled(x, u') BY <1>3, <1>4, <1>5, OthersHandled
<1>7. Handled(u, u') BY <1>2, <1>5, <1>6, HandledTwice
<1> QED BY <1>1, <1>2, <1>7, HandledKeeps

\* Another event behind those in the queue.
LEMMA QueueHandled ==
  ASSUME NEW w, NEW x, Exact(w), Handled(w, x), x.queue = w.queue,
         NEW e \in Events, e.t # "mn"
  PROVE  Handled(w, [x EXCEPT !.queue = Append(w.queue, e)])
<1> DEFINE q == Append(w.queue, e)
           y == [x EXCEPT !.queue = q]
<1>1. w.queue \in Seq(Events) BY UserFields DEF Exact
<1>2. q \in Seq(Events) /\ Grows(w.queue, q)
  <2>1. /\ Len(q) = Len(w.queue) + 1 /\ Len(w.queue) \in Nat /\ q \in Seq(Events)
        /\ q[Len(w.queue) + 1] = e /\ \A i \in 1..Len(w.queue) : q[i] = w.queue[i]
    BY <1>1
  <2> HIDE DEF q
  <2> QED BY <2>1 DEF Grows
<1> HIDE DEF q
<1>3. x \in User /\ Exact(x) BY DEF Handled, Exact
<1>4. /\ y \in User /\ y.queue = q /\ y.node = x.node /\ y.signal = x.signal
      /\ y.mn = x.mn /\ y.informed = x.informed /\ y.nmtEv = x.nmtEv
  BY <1>2, <1>3 DEF User
<1> HIDE DEF y
<1>5. Marked(y) = Marked(x) BY <1>4 DEF Marked
<1>6. Handled(w, y) BY <1>2, <1>3, <1>4, <1>5 DEF Handled, Exact
<1> QED BY <1>6 DEF y, q

LEMMA ReportedType ==
  ASSUME Typed, NEW n \in CN PROVE Reported(n) \in NmtStates
BY DEF Typed, Reported, NmtStates

LEMMA IdentAnswerKeeps ==
  ASSUME IInv, NEW heard, IdentAnswer(heard), Faulted PROVE IInv'
<1> DEFINE n == Head(u.identReq)
           r == Tail(u.identReq)
           t == Following["ident"]
           e == [t |-> "ident", n |-> n, s |-> IF heard THEN Reported(n) ELSE "NotActive"]
           a == [u EXCEPT !.identReq = r]
           b == [a EXCEPT !.turn = t]
<1>1. Typed' /\ mnk' = mnk /\ od' = od BY FaultsTyped DEF IdentAnswer, IInv, Typed
<1>2. u.identReq # <<>> BY DEF IdentAnswer, getSoaRequest, Waiting
<1>3. Exact(u) /\ u \in User /\ u.mn # "NotActive" BY <1>2 DEF IInv, InStep, Quiet, Exact
<1>4. n \in CN /\ r \in Seq(CN)
  <2>1. u.identReq \in Seq(CN) BY <1>3, UserFields
  <2> QED BY <1>2, <2>1
<1>5. e \in Events /\ e.t # "mn"
  <2>1. Reported(n) \in NmtStates BY <1>4, ReportedType DEF IInv
  <2> HIDE DEF n
  <2> QED BY <1>4, <2>1 DEF Events, NmtStates
<1>6. t \in DOMAIN Following BY DEF Following
<1>7. u' = [b EXCEPT !.queue = Append(u.queue, e)] BY DEF IdentAnswer, Answer
<1>8. b.queue = u.queue BY <1>3 DEF User
<1> HIDE DEF n, r, t, e
<1>9. Handled(u, a) /\ Exact(a) BY <1>3, <1>4, OthersHandled, HandledIsExact
<1> HIDE DEF a
<1>10. Handled(a, b) BY <1>6, <1>9, OthersHandled
<1>11. Handled(u, b) BY <1>3, <1>9, <1>10, HandledTwice
<1> HIDE DEF b
<1>12. Handled(u, u') BY <1>3, <1>5, <1>7, <1>8, <1>11, QueueHandled
<1> QED BY <1>1, <1>3, <1>12, HandledKeeps

LEMMA StatusAnswerKeeps ==
  ASSUME IInv, NEW heard, StatusAnswer(heard), Faulted PROVE IInv'
<1> DEFINE n == Head(u.statusReq)
           r == Tail(u.statusReq)
           t == Following["status"]
           e == [t |-> "status", n |-> n, s |-> IF heard THEN Reported(n) ELSE "NotActive"]
           a == [u EXCEPT !.statusReq = r]
           b == [a EXCEPT !.turn = t]
<1>1. Typed' /\ mnk' = mnk /\ od' = od BY FaultsTyped DEF StatusAnswer, IInv, Typed
<1>2. u.statusReq # <<>> BY DEF StatusAnswer, getSoaRequest, Waiting
<1>3. Exact(u) /\ u \in User /\ u.mn # "NotActive" BY <1>2 DEF IInv, InStep, Quiet, Exact
<1>4. n \in CN /\ r \in Seq(CN)
  <2>1. u.statusReq \in Seq(CN) BY <1>3, UserFields
  <2> QED BY <1>2, <2>1
<1>5. e \in Events /\ e.t # "mn"
  <2>1. Reported(n) \in NmtStates BY <1>4, ReportedType DEF IInv
  <2> HIDE DEF n
  <2> QED BY <1>4, <2>1 DEF Events, NmtStates
<1>6. t \in DOMAIN Following BY DEF Following
<1>7. u' = [b EXCEPT !.queue = Append(u.queue, e)] BY DEF StatusAnswer, Answer
<1>8. b.queue = u.queue BY <1>3 DEF User
<1> HIDE DEF n, r, t, e
<1>9. Handled(u, a) /\ Exact(a) BY <1>3, <1>4, OthersHandled, HandledIsExact
<1> HIDE DEF a
<1>10. Handled(a, b) BY <1>6, <1>9, OthersHandled
<1>11. Handled(u, b) BY <1>3, <1>9, <1>10, HandledTwice
<1> HIDE DEF b
<1>12. Handled(u, u') BY <1>3, <1>5, <1>7, <1>8, <1>11, QueueHandled
<1> QED BY <1>1, <1>3, <1>12, HandledKeeps

LEMMA CommandSentKeeps ==
  ASSUME IInv, NEW missed, CommandSent(missed), Faulted PROVE IInv'
<1> DEFINE c == Head(u.cmds)
           r == Tail(u.cmds)
           t == Following["cmd"]
           e == [t |-> "sent", to |-> c.to, cmd |-> c.cmd]
           a == [u EXCEPT !.cmds = r]
           b == [a EXCEPT !.turn = t]
<1>2. u.cmds # <<>> BY DEF CommandSent, getSoaRequest, Waiting
<1>3. Exact(u) /\ u \in User /\ u.mn # "NotActive" BY <1>2 DEF IInv, InStep, Quiet, Exact
<1>4. c \in Orders /\ r \in Seq(Orders)
  <2>1. u.cmds \in Seq(Orders) BY <1>3, UserFields
  <2> QED BY <1>2, <2>1
<1>5. e \in Events /\ e.t # "mn"
  <2> HIDE DEF c
  <2> QED BY <1>4 DEF Events, Orders
<1>6. t \in DOMAIN Following BY DEF Following
<1>7. u' = [b EXCEPT !.queue = Append(u.queue, e)]
  <2>1. u' = [u EXCEPT !.cmds = r, !.turn = t, !.queue = Append(u.queue, e)]
    BY DEF CommandSent
  <2> QED BY <2>1
<1>8. b.queue = u.queue BY <1>3 DEF User
<1>1. Typed' /\ mnk' = mnk /\ od' = od
  <2>1. cn' = [n \in CN |-> IF n \in c.to \ missed THEN Obeys(cn[n], c.cmd) ELSE cn[n]]
    BY DEF CommandSent
  <2>2. c.cmd \in Commands BY <1>4 DEF Orders
  <2>3. \A s \in NmtStates \union {"Off", "Enabled"} :
          Obeys(s, c.cmd) \in NmtStates \union {"Off", "Enabled"}
    BY <2>2 DEF Obeys, NmtStates, Commands
  <2>4. cn' \in [CN -> NmtStates \union {"Off", "Enabled"}]
    BY <2>1, <2>3 DEF IInv, Typed
  <2>5. UNCHANGED <<od, mnk, fell>> BY DEF CommandSent
  <2> QED BY <2>4, <2>5, FaultsTyped DEF IInv, Typed
<1> HIDE DEF c, r, t, e
<1>9. Handled(u, a) /\ Exact(a) BY <1>3, <1>4, OthersHandled, HandledIsExact
<1> HIDE DEF a
<1>10. Handled(a, b) BY <1>6, <1>9, OthersHandled
<1>11. Handled(u, b) BY <1>3, <1>9, <1>10, HandledTwice
<1> HIDE DEF b
<1>12. Handled(u, u') BY <1>3, <1>5, <1>7, <1>8, <1>11, QueueHandled
<1> QED BY <1>1, <1>3, <1>12, HandledKeeps

LEMMA PResKeeps ==
  ASSUME IInv, NEW n \in CN, PRes(n) PROVE IInv'
<1> DEFINE p == [u.pres EXCEPT ![n] = Reported(n)]
           x == [u EXCEPT !.pres = p]
           e == [t |-> "hb", n |-> n, s |-> Reported(n), err |-> "none"]
<1>1. Typed' /\ mnk' = mnk /\ od' = od BY DEF PRes, IInv, Typed
<1>2. Exact(u) /\ u \in User /\ u.mn # "NotActive" BY DEF IInv, InStep, Quiet, Exact, PRes
<1>3. Reported(n) \in NmtStates BY ReportedType DEF IInv
<1>4. p \in [CN -> NmtStates] BY <1>2, <1>3, UserFields
<1>5. e \in Events /\ e.t # "mn" BY <1>3 DEF Events
<1>6. u' = [x EXCEPT !.queue = Append(u.queue, e)] BY DEF PRes, Heartbeat
<1>7. x.queue = u.queue BY <1>2 DEF User
<1> HIDE DEF p, e
<1>8. Handled(u, x) BY <1>2, <1>4, OthersHandled
<1> HIDE DEF x
<1>9. Handled(u, u') BY <1>2, <1>5, <1>6, <1>7, <1>8, QueueHandled
<1> QED BY <1>1, <1>2, <1>9, HandledKeeps

LEMMA LossOfPResKeeps ==
  ASSUME IInv, NEW n \in CN, LossOfPRes(n) PROVE IInv'
<1> DEFINE i == u.iso \ {n}
           x == [u EXCEPT !.iso = i]
           e == [t |-> "hb", n |-> n, s |-> "NotActive", err |-> "loss of PRes"]
<1>1. Typed' /\ mnk' = mnk /\ od' = od BY DEF LossOfPRes, IInv, Typed
<1>2. Exact(u) /\ u \in User /\ u.mn # "NotActive"
  BY DEF IInv, InStep, Quiet, Exact, LossOfPRes, Missed
<1>3. i \in SUBSET CN BY <1>2, UserFields
<1>4. e \in Events /\ e.t # "mn" BY DEF Events, NmtStates
<1>5. u' = [x EXCEPT !.queue = Append(u.queue, e)] BY DEF LossOfPRes, Heartbeat
<1>6. x.queue = u.queue BY <1>2 DEF User
<1> HIDE DEF i, e
<1>7. Handled(u, x) BY <1>2, <1>3, OthersHandled
<1> HIDE DEF x
<1>8. Handled(u, u') BY <1>2, <1>4, <1>5, <1>6, <1>7, QueueHandled
<1> QED BY <1>1, <1>2, <1>8, HandledKeeps

LEMMA CnEntersKeeps ==
  ASSUME IInv, NEW n, NEW s \in NmtStates \union {"Off", "Enabled"}, CnEnters(n, s), Faulted
  PROVE  IInv'
<1>1. Typed' BY FaultsTyped DEF IInv, Typed, CnEnters
<1>2. u' = u /\ od' = od /\ mnk' = mnk BY DEF CnEnters
<1> QED BY <1>1, <1>2 DEF IInv

-----------------------------------------------------------------------------
(* The MN changes its state                                                *)

\* A state change of the MN behind the events in the queue.
LEMMA MnAppended ==
  ASSUME NEW w, Exact(w), NEW s \in NmtStates \ {"NotActive"},
         NEW x, x = [w EXCEPT !.queue = Append(@, [t |-> "mn", s |-> s])],
         NEW l, l = Len(w.queue) + 1
  PROVE  /\ Exact(x) /\ Marked(x) = Marked(w)
         /\ Mns(x) = Mns(w) \union {l} /\ x.queue[l].s = s
         /\ l \in Nat /\ Len(x.queue) = l
         /\ \A i \in 1..Len(w.queue) : x.queue[i] = w.queue[i]
         /\ x.queue[l].t = "mn"
         /\ x.mn = w.mn /\ x.informed = w.informed /\ x.nmtEv = w.nmtEv
         /\ x.identReq = w.identReq /\ x.statusReq = w.statusReq /\ x.cmds = w.cmds
         /\ x.iso = w.iso /\ x.expired = w.expired /\ x.node = w.node
<1> DEFINE e == [t |-> "mn", s |-> s]
           q == Append(w.queue, e)
           y == [w EXCEPT !.queue = q]
<1>1. w \in User /\ w.queue \in Seq(Events) BY UserFields DEF Exact
<1>2. e \in Events BY DEF Events
<1>3. /\ q \in Seq(Events) /\ Len(q) = l /\ l \in Nat /\ q[l] = e
      /\ \A i \in 1..Len(w.queue) : q[i] = w.queue[i]
  BY <1>1, <1>2
<1>4. e.t = "mn" /\ e.s = s OBVIOUS
<1>9. x = y OBVIOUS
<1> HIDE DEF q, e
<1>5. /\ x \in User /\ x.queue = q /\ x.signal = w.signal
      /\ x.mn = w.mn /\ x.informed = w.informed /\ x.nmtEv = w.nmtEv
      /\ x.identReq = w.identReq /\ x.statusReq = w.statusReq /\ x.cmds = w.cmds
      /\ x.iso = w.iso /\ x.expired = w.expired /\ x.node = w.node
  BY <1>1, <1>3, <1>9 DEF User
<1>6. Marked(x) = Marked(w) BY <1>5 DEF Marked
<1>7. Exact(x) BY <1>5, <1>6 DEF Exact
<1>8. Mns(x) = Mns(w) \union {l}
  <2>1. Len(w.queue) \in Nat BY <1>1
  <2> QED BY <2>1, <1>3, <1>4, <1>5 DEF Mns
<1> QED BY <1>3, <1>4, <1>5, <1>6, <1>7, <1>8 DEF q, e

\* No event of the MN tells NotActive.
LEMMA ToldState ==
  ASSUME IInv, NEW i \in Mns(u)
  PROVE  u.queue[i].s \in NmtStates \ {"NotActive"} /\ i \in Nat
<1>1. u.queue \in Seq(Events) BY UserFields DEF IInv, Exact
<1>2. u.queue[i] \in Events /\ u.queue[i].t = "mn" /\ i \in Nat BY <1>1 DEF Mns
<1> QED BY <1>2 DEF Events

LEMMA MnStartsKeeps ==
  ASSUME IInv, MnStarts PROVE IInv'
<1> DEFINE l == Len(u.queue) + 1
<1>1. Exact(u) /\ u.queue \in Seq(Events) BY UserFields DEF IInv, Exact
<1>2. Mns(u) = {}
  <2>1. SUFFICES ASSUME Mns(u) # {} PROVE FALSE OBVIOUS
  <2>2. PICK i \in Mns(u) : u.queue[i].s = mnk BY <1>1, <2>1, LastState DEF IInv, InStep
  <2> QED BY <2>2, ToldState DEF MnStarts
<1>3. u.mn = "NotActive" /\ Quiet(u)
  BY <1>2 DEF IInv, InStep, InState, MnStarts
<1>4. Len(u.queue) = 0
  <2>1. Len(u.queue) \in Nat BY <1>1
  <2> QED BY <1>2, <1>3, <2>1 DEF Quiet, Mns
<1>5. mnk' = "PreOp1" /\ od' = od /\ Typed'
      /\ u' = [u EXCEPT !.queue = Append(@, [t |-> "mn", s |-> "PreOp1"])]
  BY DEF MnStarts, MnEnters, Undisturbed, IInv, Typed, NmtStates
<1>6. "PreOp1" \in NmtStates \ {"NotActive"} BY DEF NmtStates
<1>7. /\ Exact(u') /\ Marked(u') = Marked(u)
      /\ Mns(u') = Mns(u) \union {l} /\ u'.queue[l].s = "PreOp1"
      /\ l \in Nat /\ Len(u'.queue) = l
      /\ \A i \in 1..Len(u.queue) : u'.queue[i] = u.queue[i]
      /\ u'.queue[l].t = "mn"
      /\ u'.mn = u.mn /\ u'.informed = u.informed /\ u'.nmtEv = u.nmtEv
      /\ u'.identReq = u.identReq /\ u'.statusReq = u.statusReq /\ u'.cmds = u.cmds
      /\ u'.iso = u.iso /\ u'.expired = u.expired /\ u'.node = u.node
  <2> DEFINE x == [u EXCEPT !.queue = Append(@, [t |-> "mn", s |-> "PreOp1"])]
  <2>1. /\ Exact(x) /\ Marked(x) = Marked(u)
        /\ Mns(x) = Mns(u) \union {l} /\ x.queue[l].s = "PreOp1"
        /\ l \in Nat /\ Len(x.queue) = l
        /\ \A i \in 1..Len(u.queue) : x.queue[i] = u.queue[i]
        /\ x.queue[l].t = "mn"
        /\ x.mn = u.mn /\ x.informed = u.informed /\ x.nmtEv = u.nmtEv
        /\ x.identReq = u.identReq /\ x.statusReq = u.statusReq /\ x.cmds = u.cmds
        /\ x.iso = u.iso /\ x.expired = u.expired /\ x.node = u.node
    BY <1>1, <1>5, <1>6, MnAppended
  <2>2. u' = x BY <1>5
  <2> QED BY <2>1, <2>2
<1>8. Mns(u') = {1} /\ l = 1 BY <1>2, <1>4, <1>7
<1>9. StatesQueued(u', "PreOp1")
  BY <1>3, <1>7, <1>8 DEF StatesQueued
<1>10. InState(u', "PreOp1") BY <1>8 DEF InState
<1>11. EventsFresh(u', "PreOp1")
  <2>1. u'.nmtEv = <<>> BY <1>3, <1>7 DEF Quiet
  <2> QED BY <2>1 DEF EventsFresh
<1>12. Quiet(u') BY <1>3, <1>4, <1>7, <1>8 DEF Quiet
<1> QED BY <1>5, <1>7, <1>9, <1>10, <1>11, <1>12 DEF IInv, InStep

LEMMA MnCycleErrorKeeps ==
  ASSUME IInv, MnCycleError PROVE IInv'
<1> DEFINE l == Len(u.queue) + 1
<1>1. Exact(u) /\ u.queue \in Seq(Events) /\ u.nmtEv \in Seq(BootEvents) /\ u.mn \in NmtStates
  BY UserFields DEF IInv, Exact
<1>2. mnk \notin {"NotActive", "PreOp1"} BY DEF MnCycleError, FullCycle
<1>3. \A i \in Mns(u) : u.queue[i].s # "PreOp1"
  <2>1. SUFFICES ASSUME NEW i \in Mns(u), u.queue[i].s = "PreOp1" PROVE FALSE OBVIOUS
  <2>2. PICK j \in Mns(u) : u.queue[j].s = mnk /\ \A m \in Mns(u) : m <= j
    BY <1>1, <2>1, LastState DEF IInv, InStep
  <2>3. j <= i BY <1>2, <2>2 DEF StatesQueued, IInv, InStep
  <2>4. i = j BY <2>2, <2>3, ToldState
  <2> QED BY <1>2, <2>1, <2>2, <2>4
<1>4. Mns(u) = {} => u.mn = mnk BY DEF IInv, InStep, InState
<1>5. u.mn # "NotActive"
  BY <1>2, <1>3, <1>4 DEF StatesQueued, IInv, InStep
<1>6. mnk' = "PreOp1" /\ od' = od /\ Typed'
      /\ u' = [u EXCEPT !.queue = Append(@, [t |-> "mn", s |-> "PreOp1"])]
  <2>1. Faulted BY DisturbedIsFault DEF IInv, MnCycleError
  <2>2. UNCHANGED <<od, cn, fell>> /\ mnk' = "PreOp1" BY DEF MnCycleError, MnEnters
  <2> QED BY <2>1, <2>2, FaultsTyped DEF MnCycleError, MnEnters, IInv, Typed, NmtStates
<1>7. "PreOp1" \in NmtStates \ {"NotActive"} BY DEF NmtStates
<1>8. /\ Exact(u') /\ Marked(u') = Marked(u)
      /\ Mns(u') = Mns(u) \union {l} /\ u'.queue[l].s = "PreOp1"
      /\ \A i \in Mns(u) : i < l /\ i \in Nat /\ u'.queue[i] = u.queue[i]
      /\ l \in Nat
      /\ u'.mn = u.mn /\ u'.informed = u.informed /\ u'.nmtEv = u.nmtEv
  <2> DEFINE x == [u EXCEPT !.queue = Append(@, [t |-> "mn", s |-> "PreOp1"])]
  <2>1. /\ Exact(x) /\ Marked(x) = Marked(u)
        /\ Mns(x) = Mns(u) \union {l} /\ x.queue[l].s = "PreOp1"
        /\ \A i \in Mns(u) : i < l /\ i \in Nat /\ x.queue[i] = u.queue[i]
        /\ l \in Nat
        /\ x.mn = u.mn /\ x.informed = u.informed /\ x.nmtEv = u.nmtEv
    <3>1. x = [u EXCEPT !.queue = Append(@, [t |-> "mn", s |-> "PreOp1"])]
          /\ l = Len(u.queue) + 1
      OBVIOUS
    <3> HIDE DEF x, l
    <3>2. Exact(u) BY <1>1
    <3>3. /\ Exact(x) /\ Marked(x) = Marked(u)
          /\ Mns(x) = Mns(u) \union {l} /\ x.queue[l].s = "PreOp1"
          /\ l \in Nat
          /\ x.mn = u.mn /\ x.informed = u.informed /\ x.nmtEv = u.nmtEv
      BY <1>7, <3>1, <3>2, MnAppended
    <3>4. \A i \in 1..Len(u.queue) : x.queue[i] = u.queue[i]
      BY <1>7, <3>1, <3>2, MnAppended
    <3>5. Mns(u) \subseteq 1..Len(u.queue) /\ Len(u.queue) \in Nat BY <1>1 DEF Mns
    <3>6. \A i \in Mns(u) : i < l /\ i \in Nat /\ x.queue[i] = u.queue[i]
      BY <3>1, <3>4, <3>5
    <3> QED BY <3>3, <3>6
  <2>2. u' = x BY <1>6
  <2> QED BY <2>1, <2>2
<1> HIDE DEF l
<1>9. StatesQueued(u', "PreOp1")
  <2>1. ASSUME NEW i \in Mns(u)
        PROVE  /\ u'.queue[i].s # "PreOp1"
               /\ u'.informed /\ Marked(u') = {} /\ u'.mn # "NotActive"
               /\ \A j \in Mns(u') : i <= j
               /\ ~(\A j \in Mns(u') : j <= i)
    <3>1. /\ u.informed /\ Marked(u) = {} /\ u.mn # "NotActive"
          /\ \A j \in Mns(u) : i <= j
      BY <1>3, <2>1 DEF StatesQueued, IInv, InStep
    <3>2. i < l /\ i <= l /\ ~(l <= i) BY <1>8
    <3> QED BY <1>3, <1>8, <3>1, <3>2
  <2>2. \A j \in Mns(u') : j < l => u'.queue[j].s # "PreOp1" BY <1>8, <2>1
  <2>3. u'.mn = "PreOp1" => \E j \in Mns(u') : j < l BY <1>2, <1>4, <1>8
  <2>4. ~(l < l) BY <1>8
  <2> QED BY <1>8, <2>1, <2>2, <2>3 DEF StatesQueued
<1>10. InState(u', "PreOp1") BY <1>8 DEF InState
<1>11. EventsFresh(u', "PreOp1")
  <2>1. u.nmtEv # <<>> => Len(u.nmtEv) = 1 /\ Fresh(u)
    BY <1>2 DEF EventsFresh, IInv, InStep
  <2> SUFFICES ASSUME NEW i \in 1..Len(u.nmtEv), u.nmtEv[i] = "AllMandatoryCNIdent" PROVE FALSE
    BY <1>8 DEF EventsFresh
  <2>2. Len(u.nmtEv) = 1 /\ Fresh(u) /\ i = 1 BY <1>1, <2>1
  <2>3. BootEvent[u.mn] = <<"AllMandatoryCNIdent">> BY <2>2 DEF Fresh
  <2>4. u.mn = "PreOp1"
    <3>1. u.mn \in NmtStates \ {"NotActive"} BY <1>1, <1>5
    <3>2. PICK e \in BootEvents : /\ BootEvent[u.mn] = <<e>>
                                  /\ e = "AllMandatoryCNIdent" => u.mn = "PreOp1"
      BY <2>3, <3>1, BootEventType
    <3>3. e = "AllMandatoryCNIdent" BY <2>3, <3>2
    <3> QED BY <3>2, <3>3
  <2> QED BY <1>2, <1>4, <2>2, <2>4 DEF Fresh
<1> QED BY <1>5, <1>6, <1>8, <1>9, <1>10, <1>11 DEF IInv, InStep

\* The MN goes on to the state s after a fresh event, the only one.
LEMMA MnEntersKeeps ==
  ASSUME IInv, Fresh(u), Len(u.nmtEv) = 1, NEW s \in NmtStates \ {"NotActive", "PreOp1"},
         MnEnters([u EXCEPT !.nmtEv = Tail(@)], s), Undisturbed
  PROVE  IInv'
<1> DEFINE q == Tail(u.nmtEv)
           w == [u EXCEPT !.nmtEv = q]
           l == Len(w.queue) + 1
<1>1. u \in User /\ u.nmtEv \in Seq(BootEvents) BY UserFields DEF IInv, Exact
<1>2. q = <<>> /\ q \in Seq(BootEvents)
  <2>1. u.nmtEv # <<>>
    <3>1. Len(<<>>) = 0 OBVIOUS
    <3>2. Len(u.nmtEv) = 1 OBVIOUS
    <3> QED BY <3>1, <3>2
  <2>2. q \in Seq(BootEvents) /\ Len(q) = 0 BY <1>1, <2>1
  <2> HIDE DEF q
  <2> QED BY <2>2
<1>3. mnk' = s /\ od' = od /\ Typed'
      /\ u' = [w EXCEPT !.queue = Append(@, [t |-> "mn", s |-> s])]
  BY DEF MnEnters, Undisturbed, IInv, Typed
<1> HIDE DEF q
<1>4. /\ w \in User /\ w.mn = u.mn /\ w.informed = u.informed /\ w.node = u.node
      /\ w.signal = u.signal /\ w.queue = u.queue /\ w.nmtEv = q
  BY <1>1, <1>2 DEF User
<1> HIDE DEF w
<1>5. Marked(w) = Marked(u) /\ Mns(w) = Mns(u) BY <1>4 DEF Marked, Mns
<1>6. Exact(w) BY <1>4, <1>5 DEF IInv, Exact
<1>7. /\ Exact(u') /\ Marked(u') = Marked(w)
      /\ Mns(u') = Mns(w) \union {l} /\ u'.queue[l].s = s
      /\ l \in Nat
      /\ u'.mn = w.mn /\ u'.informed = w.informed /\ u'.nmtEv = w.nmtEv
  <2> DEFINE x == [w EXCEPT !.queue = Append(@, [t |-> "mn", s |-> s])]
  <2>1. /\ Exact(x) /\ Marked(x) = Marked(w)
        /\ Mns(x) = Mns(w) \union {l} /\ x.queue[l].s = s
        /\ l \in Nat
        /\ x.mn = w.mn /\ x.informed = w.informed /\ x.nmtEv = w.nmtEv
    BY <1>3, <1>6, MnAppended
  <2>2. u' = x BY <1>3
  <2> QED BY <2>1, <2>2
<1>8. Mns(u') = {l} BY <1>5, <1>7 DEF Fresh
<1>9. StatesQueued(u', s)
  BY <1>4, <1>5, <1>7, <1>8 DEF StatesQueued, Fresh
<1>10. InState(u', s) BY <1>8 DEF InState
<1>11. EventsFresh(u', s) BY <1>2, <1>4, <1>7 DEF EventsFresh
<1>12. u'.mn # "NotActive" BY <1>4, <1>7 DEF Fresh
<1>13. Marked(u') \subseteq od.cn BY <1>5, <1>7 DEF IInv
<1> QED BY <1>3, <1>7, <1>9, <1>10, <1>11, <1>12, <1>13 DEF IInv, InStep

LEMMA MnGoesOnKeeps ==
  ASSUME IInv, MnGoesOn PROVE IInv'
<1> DEFINE q == Tail(u.nmtEv)
           w == [u EXCEPT !.nmtEv = q]
           e == Head(u.nmtEv)
<1>1. u \in User /\ u.nmtEv \in Seq(BootEvents) /\ u.nmtEv # <<>>
  BY UserFields DEF IInv, Exact, MnGoesOn
<1>2. /\ Len(u.nmtEv) \in Nat /\ 1 \in 1..Len(u.nmtEv) /\ e = u.nmtEv[1]
      /\ q \in Seq(BootEvents) /\ Len(q) = Len(u.nmtEv) - 1
      /\ \A i \in 1..Len(q) : q[i] = u.nmtEv[i + 1]
  BY <1>1
<1>3. CASE mnk = "PreOp1" /\ e = "AllMandatoryCNIdent"
  <2>1. MnEnters(w, "PreOp2") /\ Undisturbed BY <1>3 DEF MnGoesOn
  <2>2. 1 = Len(u.nmtEv) /\ Fresh(u) BY <1>2, <1>3 DEF EventsFresh, IInv, InStep
  <2> QED BY <2>1, <2>2, MnEntersKeeps DEF NmtStates
<1>4. CASE mnk # "PreOp1"
  <2>1. Len(u.nmtEv) = 1 /\ Fresh(u) BY <1>1, <1>4 DEF EventsFresh, IInv, InStep
  <2>2. CASE \E s \in NmtStates \ {"NotActive", "PreOp1"} : MnEnters(w, s) /\ Undisturbed
    BY <2>1, <2>2, MnEntersKeeps
  <2>3. CASE u' = w /\ UNCHANGED <<od, mnk, cn, fell, faults>>
    <3>1. q = <<>> BY <1>2, <2>1
    <3> HIDE DEF q
    <3>2. /\ w \in User /\ w.mn = u.mn /\ w.informed = u.informed /\ w.node = u.node
          /\ w.signal = u.signal /\ w.queue = u.queue /\ w.nmtEv = q
      BY <1>1, <1>2 DEF User
    <3> HIDE DEF w
    <3>3. Marked(w) = Marked(u) /\ Mns(w) = Mns(u) BY <3>2 DEF Marked, Mns
    <3>4. Exact(w) BY <3>2, <3>3 DEF IInv, Exact
    <3>5. StatesQueued(w, mnk) /\ InState(w, mnk)
      BY <3>2, <3>3 DEF StatesQueued, InState, IInv, InStep
    <3>6. EventsFresh(w, mnk) BY <1>4, <3>1, <3>2 DEF EventsFresh
    <3>7. w.mn # "NotActive" BY <2>1, <3>2 DEF Fresh
    <3> QED BY <2>3, <3>3, <3>4, <3>5, <3>6, <3>7 DEF IInv, InStep, Typed
  <2>4. \/ \E s \in {"PreOp2", "ReadyToOp", "Operational"} : MnEnters(w, s)
        \/ u' = w /\ UNCHANGED <<od, mnk, cn, fell>>
    BY DEF MnGoesOn
  <2>5. Undisturbed BY DEF MnGoesOn
  <2> QED BY <2>2, <2>3, <2>4, <2>5 DEF Undisturbed, NmtStates
<1>5. CASE mnk = "PreOp1" /\ e # "AllMandatoryCNIdent"
  <2>1. u' = w /\ UNCHANGED <<od, mnk, cn, fell, faults>>
    BY <1>5 DEF MnGoesOn, Undisturbed
  <2>2. u.mn # "NotActive" BY <1>1 DEF IInv, InStep, Quiet
  <2> HIDE DEF q
  <2>3. /\ w \in User /\ w.mn = u.mn /\ w.informed = u.informed /\ w.node = u.node
        /\ w.signal = u.signal /\ w.queue = u.queue /\ w.nmtEv = q
    BY <1>1, <1>2 DEF User
  <2> HIDE DEF w
  <2>4. Marked(w) = Marked(u) /\ Mns(w) = Mns(u) BY <2>3 DEF Marked, Mns
  <2>5. Exact(w) BY <2>3, <2>4 DEF IInv, Exact
  <2>6. StatesQueued(w, mnk) /\ InState(w, mnk)
    BY <2>3, <2>4 DEF StatesQueued, InState, IInv, InStep
  <2>7. ASSUME NEW i \in 1..Len(q), q[i] = "AllMandatoryCNIdent"
        PROVE  i = Len(q) /\ Fresh(w)
    <3>1. i + 1 \in 1..Len(u.nmtEv) /\ u.nmtEv[i + 1] = "AllMandatoryCNIdent"
      BY <1>2, <2>7
    <3>2. i + 1 = Len(u.nmtEv) /\ Fresh(u)
      BY <1>5, <3>1 DEF EventsFresh, IInv, InStep
    <3>3. i = Len(q) /\ q[Len(q)] = u.nmtEv[Len(u.nmtEv)] BY <1>2, <3>2
    <3> QED BY <2>3, <2>4, <3>2, <3>3 DEF Fresh
  <2>8. EventsFresh(w, mnk) BY <1>5, <2>3, <2>7 DEF EventsFresh
  <2> QED BY <2>1, <2>2, <2>3, <2>4, <2>5, <2>6, <2>8 DEF IInv, InStep, Typed
<1> QED BY <1>3, <1>4, <1>5

-----------------------------------------------------------------------------
(* The theorem                                                             *)

LEMMA InitIInv == ASSUME Init PROVE IInv
<1>1. Typed BY BoundAssumption DEF Init, Typed, NmtStates
<1>2. NodeInfo \in Nodes /\ ~NodeInfo.notScanned
      /\ NodeInfo.sr = "none" /\ ~NodeInfo.longer /\ NodeInfo.asked = "none"
  BY DEF NodeInfo, Nodes, NodeStates, NmtStates, Timers
<1>3. /\ u.mn = "NotActive" /\ u.signal = 0 /\ u.node = [n \in CN |-> NodeInfo]
      /\ u.queue = <<>> /\ u.expired = <<>> /\ u.nmtEv = <<>> /\ u.cmds = <<>>
      /\ u.identReq = <<>> /\ u.statusReq = <<>> /\ u.iso = {}
  BY DEF Init, UserInit
<1>4. u \in User
  <2>1. 0 \in 0..UIntMax BY BoundAssumption
  <2>2. [n \in CN |-> NodeInfo] \in [CN -> Nodes] BY <1>2
  <2> HIDE DEF NodeInfo
  <2>3. "NotActive" \in NmtStates BY DEF NmtStates
  <2>4. "cmd" \in DOMAIN Following BY DEF Following
  <2> QED BY <2>1, <2>2, <2>3, <2>4 DEF Init, UserInit, User
<1>5. Marked(u) = {} BY <1>2, <1>3 DEF Marked
<1>6. Exact(u) BY <1>3, <1>4, <1>5, FS_EmptySet DEF Exact
<1>7. Mns(u) = {} BY <1>3 DEF Mns
<1>8. mnk = "NotActive" BY DEF Init
<1>9. StatesQueued(u, mnk) /\ InState(u, mnk) BY <1>3, <1>7, <1>8 DEF StatesQueued, InState
<1>10. EventsFresh(u, mnk) BY <1>3 DEF EventsFresh
<1>11. Quiet(u) BY <1>2, <1>3 DEF Quiet
<1> QED BY <1>1, <1>5, <1>6, <1>9, <1>10, <1>11 DEF IInv, InStep

LEMMA NodeKeeps ==
  ASSUME IInv, NEW n \in CN, Node(n) PROVE IInv'
<1>1. Typed BY DEF IInv
<1>2. CASE AppGoesOn(n)
  <2>1. Faulted BY <1>2 DEF AppGoesOn, Faulted
  <2> QED BY <1>2, <2>1, AnsweredKeeps DEF AppGoesOn
<1>3. CASE AppRefuses(n)
  <2>1. Faulted BY <1>1, <1>3, DisturbedIsFault DEF AppRefuses
  <2>2. u.node[n].asked # "none" BY <1>3 DEF AppRefuses
  <2>3. PICK c \in {"ConfErr", "ConfRestored", "ConfReset"} : Answered(n, c)
    BY <1>3 DEF AppRefuses
  <2> QED BY <2>1, <2>2, <2>3, AnsweredKeeps
<1>4. CASE InTime(n) BY <1>4, TimerExpiresKeeps DEF InTime, Faulted
<1>5. CASE TimerExpires(n) /\ Disturbed("slow")
  BY <1>1, <1>5, DisturbedIsFault, TimerExpiresKeeps
<1>6. CASE OnTime(n) BY <1>6, TimerLongerExpiresKeeps DEF OnTime, Faulted
<1>7. CASE Boots(n) /\ Disturbed("slow")
  BY <1>1, <1>7, DisturbedIsFault, CnEntersKeeps DEF Boots, NmtStates
<1>8. CASE TimerLongerExpires(n) /\ Disturbed("late")
  BY <1>1, <1>8, DisturbedIsFault, TimerLongerExpiresKeeps
<1>9. CASE PRes(n) BY <1>9, PResKeeps
<1>10. CASE LossOfPRes(n) BY <1>10, LossOfPResKeeps
<1>11. CASE CnGoesOn(n)
  <2>1. Faulted BY <1>11 DEF CnGoesOn, Faulted
  <2>2. \E s \in {"PreOp1", "PreOp2", "ReadyToOp"} : CnEnters(n, s)
    BY <1>11 DEF CnGoesOn, Boots
  <2> QED BY <2>1, <2>2, CnEntersKeeps DEF NmtStates
<1>12. CASE CnFails(n)
  <2>1. Faulted BY <1>1, <1>12, DisturbedIsFault DEF CnFails
  <2>2. \E s \in {"Off", "PreOp1"} : CnEnters(n, s) BY <1>12 DEF CnFails
  <2> QED BY <2>1, <2>2, CnEntersKeeps DEF NmtStates
<1> QED
  BY <1>2, <1>3, <1>4, <1>5, <1>6, <1>7, <1>8, <1>9, <1>10, <1>11, <1>12 DEF Node

LEMMA NextIInv == ASSUME IInv, [Next]_vars PROVE IInv'
<1>1. Typed BY DEF IInv
<1>2. CASE HandleEvent BY <1>2, HandleEventKeeps
<1>3. CASE HandleTimer BY <1>3, HandleTimerKeeps
<1>4. CASE AsyncPhase
  BY <1>4, IdentAnswerKeeps, StatusAnswerKeeps, CommandSentKeeps DEF AsyncPhase, Faulted
<1>5. CASE IdentAnswer(FALSE) /\ Disturbed("ident")
  BY <1>1, <1>5, DisturbedIsFault, IdentAnswerKeeps
<1>6. CASE StatusAnswer(FALSE) /\ Disturbed("status")
  BY <1>1, <1>6, DisturbedIsFault, StatusAnswerKeeps
<1>7. CASE \E n \in od.cn : CommandSent({n}) /\ Disturbed("command")
  BY <1>1, <1>7, DisturbedIsFault, CommandSentKeeps
<1>8. CASE MnStarts BY <1>8, MnStartsKeeps
<1>9. CASE MnCycleError BY <1>9, MnCycleErrorKeeps
<1>10. CASE MnGoesOn BY <1>10, MnGoesOnKeeps
<1>11. CASE \E n \in od.cn : Node(n) BY <1>1, <1>11, ConfigType, NodeKeeps
<1>12. CASE UNCHANGED vars
  BY <1>12 DEF vars, IInv, Typed, Exact, Marked
<1> QED
  BY <1>2, <1>3, <1>4, <1>5, <1>6, <1>7, <1>8, <1>9, <1>10, <1>11, <1>12 DEF Next

LEMMA IInvImplies == ASSUME IInv PROVE ScanCountIsExact
<1>1. u.signal = Cardinality(Marked(u)) /\ u \in User BY DEF IInv, Exact
<1>2. u.signal <= Cardinality(CN) BY <1>1, MarkedFinite
<1>3. TypeOK BY <1>1, <1>2 DEF IInv, Typed, TypeOK
<1> QED BY <1>1, <1>3 DEF ScanCountIsExact, Marked

\* signalSlaveCount of tNmtMnuInstance is the number of nodes whose flag
\* NOT_SCANNED is set, so it never wraps and the application is informed when
\* the last one was scanned, however many CNs there are, whatever they are
\* configured to be, and in whatever order answers, expirations, heartbeats,
\* command confirmations and the state changes of the MN are handled.
THEOREM ScanIsExact == Spec => []ScanCountIsExact
<1>1. Init => IInv BY InitIInv
<1>2. IInv /\ [Next]_vars => IInv' BY NextIInv
<1>3. IInv => ScanCountIsExact BY IInvImplies
<1> QED BY <1>1, <1>2, <1>3, PTL DEF Spec
=============================================================================
