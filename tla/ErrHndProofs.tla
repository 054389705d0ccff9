---------------------------- MODULE ErrHndProofs ----------------------------
(***************************************************************************)
(* The error handler, proved for every set of CNs and errors, all          *)
(* thresholds and any number of errors: its types, the removal of CNs, and *)
(* that the loss of SoC is a leaky bucket.                                 *)
(***************************************************************************)
EXTENDS ErrHnd, TLAPS

Message == {"NmtCycleError", "Heartbeat", "InternComError", "InvalidFormat"}
             \X (Object \cup {"none"})

(* What the handlers of one error event pass on.                           *)
States == [thr : [Object -> Nat], cum : [Object -> Nat], events : SUBSET Object,
           loss : [Node -> {"none", "occurred", "threshold"}], iso : SUBSET Node,
           posted : SUBSET Message, unheard : SUBSET Node, ok : BOOLEAN]

SocAlarm == <<"NmtCycleError", "CnLossSoc">>

(* The loss of SoC is the same in s and t.                                 *)
SparesSoc(s, t) ==
    /\ t.thr["CnLossSoc"] = s.thr["CnLossSoc"] /\ t.thr["CnCrc"] = s.thr["CnCrc"]
    /\ "CnLossSoc" \in t.events <=> "CnLossSoc" \in s.events
    /\ SocAlarm \in t.posted <=> SocAlarm \in s.posted

(* So are the losses of PRes, and a CN is removed only for its format.     *)
SparesNodes(s, t) ==
    /\ \A n \in Node : t.thr[n] = s.thr[n]
    /\ t.loss = s.loss /\ t.unheard = s.unheard
    /\ t.iso \subseteq s.iso /\ s.posted \subseteq t.posted
    /\ \A n \in s.iso \ t.iso : <<"InvalidFormat", n>> \in t.posted

Spares(s, t) == t \in States /\ SparesSoc(s, t) /\ SparesNodes(s, t)

(* What an error counted for object o changes, and what it does not.       *)
Counted(s, t, o, into, entry, full) ==
    /\ t \in States
    /\ t.thr = [s.thr EXCEPT ![into] = IF Threshold[o] > 0 THEN s.thr[o] + 8
                                       ELSE s.thr[o]]
    /\ t.loss = s.loss /\ t.iso = s.iso /\ t.unheard = s.unheard
    /\ \/ /\ Threshold[o] = 0 \/ entry \/ full
          /\ t.events = s.events /\ t.posted = s.posted
       \/ /\ Threshold[o] > 0
          /\ t.events = s.events \cup {o}
          /\ t.posted = IF s.thr[o] + 8 >= Threshold[o]
                        THEN s.posted \cup {<<"NmtCycleError", o>>} ELSE s.posted

(* A loss of SoC is counted on the way from s to t.                        *)
CountsSoc(s, t) ==
    /\ Threshold["CnLossSoc"] > 0
    /\ t.thr["CnLossSoc"] = s.thr["CnLossSoc"] + 8
    /\ t.thr["CnCrc"] = s.thr["CnCrc"]
    /\ "CnLossSoc" \in t.events
    /\ SocAlarm \in t.posted <=> s.thr["CnLossSoc"] + 8 >= Threshold["CnLossSoc"]

(* A loss of PRes is counted on the way from s to t, or nothing happened.  *)
CountsPres(s, t) ==
    /\ t \in States /\ SparesSoc(s, t)
    /\ s.posted \subseteq t.posted
    /\ t.iso \subseteq s.iso /\ s.unheard \subseteq t.unheard
    /\ \A n \in s.iso \ t.iso : s.loss[n] = "none" /\ t.thr[n] >= Threshold[n]
    /\ \A n \in Node : t.loss[n] = "threshold" =>
          s.loss[n] = "threshold" \/ n \notin t.iso \/ n \in t.unheard

-----------------------------------------------------------------------------
(* The handlers *)

(* An object of another error is no CN's and not that of the loss of SoC.  *)
LEMMA OtherObjects ==
    /\ \A n \in Node : n \in Object /\ n \notin CnObject \cup MnObject \cup {"none"}
    /\ CnObject \cup MnObject \subseteq Object
BY NameAssumption DEF Object

LEMMA SparesItself ==
    ASSUME NEW s \in States PROVE Spares(s, s)
BY DEF Spares, SparesSoc, SparesNodes

LEMMA SparesOn ==
    ASSUME NEW s, NEW t, NEW w, Spares(s, t), Spares(t, w) PROVE Spares(s, w)
BY DEF Spares, SparesSoc, SparesNodes

(* Writing the counters of an object changes those of no other.            *)
LEMMA SetCountersFields ==
    ASSUME NEW s \in States, NEW o \in Object, NEW c \in Nat, NEW k \in Nat
    PROVE  LET t == SetCounters(s, o, c, k) IN
           /\ t \in States
           /\ t.thr = [s.thr EXCEPT ![o] = k]
           /\ t.events = s.events /\ t.loss = s.loss /\ t.iso = s.iso
           /\ t.posted = s.posted /\ t.unheard = s.unheard /\ t.ok = s.ok
BY DEF SetCounters, States

LEMMA FailsFields ==
    ASSUME NEW s \in States
    PROVE  LET t == [s EXCEPT !.ok = FALSE] IN
           /\ t \in States
           /\ t.thr = s.thr
           /\ t.events = s.events /\ t.loss = s.loss /\ t.iso = s.iso
           /\ t.posted = s.posted /\ t.unheard = s.unheard
BY DEF States

LEMMA CountIntoFields ==
    ASSUME NEW s \in States, NEW o \in Object, NEW into \in Object,
           NEW entry \in BOOLEAN, NEW full \in BOOLEAN
    PROVE  Counted(s, CountInto(s, o, into, entry, full), o, into, entry, full)
<1>. DEFINE k == IF Threshold[o] > 0 THEN s.thr[o] + 8 ELSE s.thr[o]
            p == IF s.thr[o] + 8 >= Threshold[o]
                 THEN s.posted \cup {<<"NmtCycleError", o>>} ELSE s.posted
            set == SetCounters(s, into, s.cum[o] + 1, k)
            failed == [set EXCEPT !.ok = FALSE]
            counted == [set EXCEPT !.posted = p, !.events = s.events \cup {o}]
            t == CountInto(s, o, into, entry, full)
<1>1. s.thr[o] \in Nat /\ s.cum[o] + 1 \in Nat /\ Threshold[o] \in Nat
  BY ErrHndAssumption DEF States
<1>2. k \in Nat
  BY <1>1
<1>3. p \in SUBSET Message
  BY DEF States, Message
<1>4. /\ set \in States
      /\ set.thr = [s.thr EXCEPT ![into] = k]
      /\ set.events = s.events /\ set.loss = s.loss /\ set.iso = s.iso
      /\ set.posted = s.posted /\ set.unheard = s.unheard
  <2>. HIDE DEF k
  <2>. QED BY <1>1, <1>2, SetCountersFields
<1>5. t = IF Threshold[o] = 0 THEN set
          ELSE IF (s.thr[o] + 8 >= Threshold[o] \/ entry) /\ full THEN failed ELSE counted
  BY <1>4 DEF CountInto
<1>6. /\ failed \in States
      /\ failed.thr = set.thr /\ failed.events = set.events /\ failed.loss = set.loss
      /\ failed.iso = set.iso /\ failed.posted = set.posted
      /\ failed.unheard = set.unheard
  <2>. HIDE DEF set
  <2>. QED BY <1>4, FailsFields
<1>7. /\ counted \in States
      /\ counted.thr = set.thr /\ counted.events = s.events \cup {o}
      /\ counted.loss = set.loss /\ counted.iso = set.iso /\ counted.posted = p
      /\ counted.unheard = set.unheard
  <2>1. s.events \cup {o} \in SUBSET Object
    BY DEF States
  <2>. HIDE DEF set, p
  <2>. QED BY <1>3, <1>4, <2>1 DEF States
<1>. HIDE DEF set, failed, counted, t
<1>8. /\ t \in States
      /\ t.thr = [s.thr EXCEPT ![into] = k]
      /\ t.loss = s.loss /\ t.iso = s.iso /\ t.unheard = s.unheard
  BY <1>4, <1>5, <1>6, <1>7
<1>9. \/ /\ Threshold[o] = 0 \/ entry \/ full
         /\ t.events = s.events /\ t.posted = s.posted
      \/ Threshold[o] > 0 /\ t.events = s.events \cup {o} /\ t.posted = p
  BY <1>1, <1>4, <1>5, <1>6, <1>7
<1>10. Counted(s, t, o, into, entry, full)
  BY <1>8, <1>9 DEF Counted
<1>. QED BY <1>10 DEF t

(* An error counted into an object other than that of the loss of SoC.     *)
LEMMA CountIntoSpares ==
    ASSUME NEW s \in States, NEW o \in CnObject \cup MnObject, o # "CnLossSoc",
           NEW into \in {"CnLossPreq"} \cup MnObject,
           NEW entry \in BOOLEAN, NEW full \in BOOLEAN
    PROVE  Spares(s, CountInto(s, o, into, entry, full))
<1>. DEFINE t == CountInto(s, o, into, entry, full)
<1>1. o \in Object /\ into \in Object /\ into \notin {"CnLossSoc", "CnCrc"} \cup Node
  BY OtherObjects DEF CnObject, MnObject
<1>2. Counted(s, t, o, into, entry, full)
  BY <1>1, CountIntoFields
<1>3. <<"NmtCycleError", o>> # SocAlarm
  BY DEF SocAlarm
<1>. HIDE DEF t
<1>4. \A e \in Object \ {into} : t.thr[e] = s.thr[e]
  BY <1>2 DEF Counted, States
<1>5. SparesSoc(s, t)
  BY <1>1, <1>2, <1>3, <1>4 DEF Counted, SparesSoc, Object, CnObject
<1>6. SparesNodes(s, t)
  BY <1>1, <1>2, <1>4, OtherObjects DEF Counted, SparesNodes
<1>7. Spares(s, t)
  BY <1>2, <1>5, <1>6 DEF Counted, Spares
<1>. QED BY <1>7 DEF t

LEMMA handleCnLossSocCounts ==
    ASSUME NEW s \in States, NEW err, NEW full, SocAlarm \notin s.posted
    PROVE  LET t == handleCnLossSoc(s, err, full) IN
           /\ t \in States /\ SparesNodes(s, t)
           /\ SparesSoc(s, t) \/ ("CnLossSoc" \in err /\ CountsSoc(s, t))
<1>. DEFINE o == "CnLossSoc"
            t == CountInto(s, o, o, FALSE, FALSE)
<1>1. CASE o \notin err
  <2>1. handleCnLossSoc(s, err, full) = s
    BY <1>1 DEF handleCnLossSoc
  <2>. QED BY <2>1, SparesItself DEF Spares
<1>2. CASE o \in err
  <2>1. handleCnLossSoc(s, err, full) = t
    BY <1>2 DEF handleCnLossSoc
  <2>2. o \in Object /\ o \notin Node /\ o # "CnCrc" /\ "CnCrc" \in Object
    BY OtherObjects DEF CnObject
  <2>3. Counted(s, t, o, o, FALSE, FALSE)
    BY <2>2, CountIntoFields
  <2>. HIDE DEF t
  <2>4. Threshold[o] \in Nat /\ s.thr[o] \in Nat
    BY <2>2, ErrHndAssumption DEF States
  <2>5. \A e \in Object \ {o} : t.thr[e] = s.thr[e]
    BY <2>3 DEF Counted, States
  <2>6. SparesNodes(s, t)
    BY <2>2, <2>3, <2>5, OtherObjects DEF Counted, SparesNodes
  <2>7. CASE Threshold[o] = 0
    <3>1. t.thr[o] = s.thr[o]
      BY <2>2, <2>3, <2>7 DEF Counted, States
    <3>2. SparesSoc(s, t)
      BY <2>2, <2>3, <2>5, <2>7, <3>1 DEF Counted, SparesSoc
    <3>3. t \in States
      BY <2>3 DEF Counted
    <3>. QED BY <1>2, <2>1, <2>6, <3>2, <3>3
  <2>8. CASE Threshold[o] > 0
    <3>1. t.thr[o] = s.thr[o] + 8
      BY <2>2, <2>3, <2>8 DEF Counted, States
    <3>2. CountsSoc(s, t)
      BY <2>2, <2>3, <2>4, <2>5, <2>8, <3>1 DEF Counted, CountsSoc, SocAlarm
    <3>3. t \in States
      BY <2>3 DEF Counted
    <3>. QED BY <1>2, <2>1, <2>6, <3>2, <3>3
  <2>. QED BY <2>4, <2>7, <2>8
<1>. QED BY <1>1, <1>2

LEMMA handleCnLossPreqSpares ==
    ASSUME NEW s \in States, NEW err, NEW full \in BOOLEAN
    PROVE  Spares(s, handleCnLossPreq(s, err, full))
<1>. DEFINE o == "CnLossPreq"
            t == CountInto(s, o, o, FALSE, full)
            w == [t EXCEPT !.events = s.events]
<1>1. CASE o \notin err
  BY <1>1, SparesItself DEF handleCnLossPreq
<1>2. CASE o \in err
  <2>1. handleCnLossPreq(s, err, full) = w
    BY <1>2 DEF handleCnLossPreq
  <2>2. Spares(s, t)
    BY CountIntoSpares DEF CnObject
  <2>. HIDE DEF t
  <2>3. /\ w \in States
        /\ w.thr = t.thr /\ w.events = s.events /\ w.loss = t.loss
        /\ w.iso = t.iso /\ w.posted = t.posted /\ w.unheard = t.unheard
    BY <2>2 DEF Spares, States
  <2>. HIDE DEF w
  <2>. QED BY <2>1, <2>2, <2>3 DEF Spares, SparesSoc, SparesNodes
<1>. QED BY <1>1, <1>2

LEMMA handleCorrectPreqSpares ==
    ASSUME NEW s \in States, NEW err
    PROVE  Spares(s, handleCorrectPreq(s, err))
<1>. DEFINE o == "CnLossPreq"
            less == [s.thr EXCEPT ![o] = @ - 1]
            w == [s EXCEPT !.thr = less]
<1>1. CASE ~ (s.ok /\ "RecvdPreq" \in err /\ s.thr[o] > 0)
  BY <1>1, SparesItself DEF handleCorrectPreq
<1>2. CASE s.ok /\ "RecvdPreq" \in err /\ s.thr[o] > 0
  <2>1. handleCorrectPreq(s, err) = w
    BY <1>2 DEF handleCorrectPreq
  <2>2. o \in Object \ Node /\ {"CnLossSoc", "CnCrc"} \subseteq Object
    BY OtherObjects DEF CnObject
  <2>3. less \in [Object -> Nat] /\ \A e \in Object \ {o} : less[e] = s.thr[e]
    BY <1>2, <2>2 DEF States
  <2>. HIDE DEF less
  <2>4. /\ w \in States
        /\ w.thr = less /\ w.events = s.events /\ w.loss = s.loss
        /\ w.iso = s.iso /\ w.posted = s.posted /\ w.unheard = s.unheard
    BY <2>3 DEF States
  <2>. HIDE DEF w
  <2>. QED BY <2>1, <2>2, <2>3, <2>4, OtherObjects DEF Spares, SparesSoc, SparesNodes
<1>. QED BY <1>1, <1>2

LEMMA handleCnCrcSpares ==
    ASSUME NEW s \in States, NEW err, NEW full \in BOOLEAN
    PROVE  Spares(s, handleCnCrc(s, err, full))
BY CountIntoSpares, SparesItself DEF handleCnCrc, CnObject

LEMMA handleMnCrcSpares ==
    ASSUME NEW s \in States, NEW err, NEW full \in BOOLEAN
    PROVE  Spares(s, handleMnCrc(s, err, full))
BY CountIntoSpares, SparesItself DEF handleMnCrc, MnObject

LEMMA RemoveNodeFields ==
    ASSUME NEW s \in States, NEW n \in Node
    PROVE  LET t == RemoveNode(s, n) IN
           /\ t \in States
           /\ t.thr = s.thr /\ t.events = s.events /\ t.loss = s.loss
           /\ t.iso = s.iso \ {n} /\ t.unheard = s.unheard
           /\ t.posted = s.posted \cup {<<"Heartbeat", n>>}
<1>. DEFINE p == s.posted \cup {<<"Heartbeat", n>>}
            i == s.iso \ {n}
<1>1. p \in SUBSET Message /\ i \in SUBSET Node
  BY OtherObjects DEF States, Message
<1>2. RemoveNode(s, n) = [s EXCEPT !.iso = i, !.posted = p]
  BY DEF RemoveNode
<1>. HIDE DEF p, i
<1>3. LET t == [s EXCEPT !.iso = i, !.posted = p] IN
      /\ t \in States
      /\ t.thr = s.thr /\ t.events = s.events /\ t.loss = s.loss
      /\ t.iso = i /\ t.unheard = s.unheard /\ t.posted = p
  BY <1>1 DEF States
<1>. QED BY <1>2, <1>3 DEF p, i

(* Only messages are added.                                                *)
LEMMA PostsFields ==
    ASSUME NEW s \in States, NEW m \in Message
    PROVE  LET t == [s EXCEPT !.posted = @ \cup {m}] IN
           /\ t \in States
           /\ t.thr = s.thr /\ t.events = s.events /\ t.loss = s.loss
           /\ t.iso = s.iso /\ t.unheard = s.unheard /\ t.posted = s.posted \cup {m}
BY DEF States

LEMMA handleInvalidFormatSpares ==
    ASSUME NEW s \in States, NEW err, NEW node \in Node \cup {"none"},
           NEW full \in BOOLEAN
    PROVE  Spares(s, handleInvalidFormat(s, err, node, full))
<1>. DEFINE m == <<"InvalidFormat", node>>
            c == <<"InternComError", "none">>
            entry == [s EXCEPT !.posted = @ \cup {m}]
            reset == [entry EXCEPT !.posted = @ \cup {c}]
            removed == RemoveNode(entry, node)
            failed == [s EXCEPT !.ok = FALSE]
            t == handleInvalidFormat(s, err, node, full)
<1>1. m \in Message /\ c \in Message /\ m # SocAlarm /\ c # SocAlarm
  BY OtherObjects DEF Message, SocAlarm
<1>2. \/ t = s \/ t = failed \/ t = entry \/ t = reset
      \/ node \in Node /\ t = removed
  BY DEF handleInvalidFormat
<1>3. /\ entry \in States
      /\ entry.thr = s.thr /\ entry.events = s.events /\ entry.loss = s.loss
      /\ entry.iso = s.iso /\ entry.unheard = s.unheard
      /\ entry.posted = s.posted \cup {m}
  <2>. HIDE DEF m
  <2>. QED BY <1>1, PostsFields
<1>4. Spares(s, failed)
  <2>1. /\ failed \in States
        /\ failed.thr = s.thr /\ failed.events = s.events /\ failed.loss = s.loss
        /\ failed.iso = s.iso /\ failed.posted = s.posted
        /\ failed.unheard = s.unheard
    BY FailsFields
  <2>. HIDE DEF failed
  <2>. QED BY <2>1 DEF Spares, SparesSoc, SparesNodes
<1>5. Spares(s, entry)
  <2>. HIDE DEF entry, m
  <2>. QED BY <1>1, <1>3 DEF Spares, SparesSoc, SparesNodes
<1>6. Spares(s, reset)
  <2>1. /\ reset \in States
        /\ reset.thr = entry.thr /\ reset.events = entry.events
        /\ reset.loss = entry.loss /\ reset.iso = entry.iso
        /\ reset.unheard = entry.unheard
        /\ reset.posted = entry.posted \cup {c}
    <3>. HIDE DEF entry, c
    <3>. QED BY <1>1, <1>3, PostsFields
  <2>. HIDE DEF reset, entry, c
  <2>2. Spares(entry, reset)
    BY <1>1, <2>1 DEF Spares, SparesSoc, SparesNodes
  <2>. QED BY <1>5, <2>2, SparesOn
<1>7. ASSUME node \in Node PROVE Spares(s, removed)
  <2>1. /\ removed \in States
        /\ removed.thr = entry.thr /\ removed.events = entry.events
        /\ removed.loss = entry.loss /\ removed.iso = entry.iso \ {node}
        /\ removed.unheard = entry.unheard
        /\ removed.posted = entry.posted \cup {<<"Heartbeat", node>>}
    <3>. HIDE DEF entry
    <3>. QED BY <1>3, <1>7, RemoveNodeFields
  <2>2. <<"Heartbeat", node>> # SocAlarm
    BY DEF SocAlarm
  <2>. HIDE DEF removed, entry
  <2>3. SparesSoc(s, removed)
    BY <1>1, <1>3, <2>1, <2>2 DEF SparesSoc
  <2>4. SparesNodes(s, removed)
    BY <1>3, <2>1 DEF SparesNodes
  <2>. QED BY <2>1, <2>3, <2>4 DEF Spares
<1>. HIDE DEF entry, failed, reset, removed, t
<1>8. Spares(s, t)
  BY <1>2, <1>4, <1>5, <1>6, <1>7, SparesItself
<1>. QED BY <1>8 DEF t

LEMMA handleMnCycTimeExceedSpares ==
    ASSUME NEW s \in States, NEW err, NEW full \in BOOLEAN
    PROVE  Spares(s, handleMnCycTimeExceed(s, err, full))
<1>. DEFINE o == "MnCycTimeExceed"
            t == CountInto(s, o, o, TRUE, full)
            w == SetCounters(t, o, t.thr[o], t.cum[o])
<1>1. handleMnCycTimeExceed(s, err, full) \in {s, t, w}
  BY DEF handleMnCycTimeExceed
<1>2. Spares(s, t)
  BY CountIntoSpares DEF MnObject
<1>3. o \in Object \ Node /\ {"CnLossSoc", "CnCrc"} \subseteq Object
  BY OtherObjects DEF MnObject, CnObject
<1>. HIDE DEF t
<1>4. t \in States /\ t.thr[o] \in Nat /\ t.cum[o] \in Nat
  BY <1>2, <1>3 DEF Spares, States
<1>5. /\ w \in States
      /\ w.thr = [t.thr EXCEPT ![o] = t.cum[o]]
      /\ w.events = t.events /\ w.loss = t.loss /\ w.iso = t.iso
      /\ w.posted = t.posted /\ w.unheard = t.unheard
  BY <1>3, <1>4, SetCountersFields
<1>. HIDE DEF w
<1>6. Spares(t, w)
  <2>1. \A e \in Object \ {o} : w.thr[e] = t.thr[e]
    BY <1>4, <1>5 DEF States
  <2>. QED BY <1>3, <1>5, <2>1, OtherObjects DEF Spares, SparesSoc, SparesNodes
<1>. QED BY <1>1, <1>2, <1>6, SparesItself, SparesOn

LEMMA handleMnCnLossPresCounts ==
    ASSUME NEW s \in States, NEW err, NEW node, NEW full \in BOOLEAN
    PROVE  CountsPres(s, handleMnCnLossPres(s, err, node, full))
<1>. DEFINE t == handleMnCnLossPres(s, err, node, full)
            k == IF Threshold[node] > 0 THEN s.thr[node] + 8 ELSE s.thr[node]
            set == SetCounters(s, node, s.cum[node] + 1, k)
            occurred == [set EXCEPT !.loss[node] = "occurred"]
            noRoom == [set EXCEPT !.loss[node] = "threshold", !.ok = FALSE,
                                  !.unheard = @ \cup {node}]
            tripped == [set EXCEPT !.loss[node] = "threshold"]
            removed == RemoveNode(tripped, node)
<1>1. CASE ~ (s.ok /\ node \in Node /\ node \in err /\ s.loss[node] = "none")
  <2>1. t = s
    BY <1>1 DEF handleMnCnLossPres
  <2>. HIDE DEF t
  <2>2. CountsPres(s, s)
    BY DEF CountsPres, SparesSoc
  <2>. QED BY <2>1, <2>2 DEF t
<1>2. CASE node \in Node /\ s.loss[node] = "none" /\ s.ok /\ node \in err
  <2>1. node \in Object /\ node \notin {"CnLossSoc", "CnCrc"}
        /\ {"CnLossSoc", "CnCrc"} \subseteq Object
    BY <1>2, OtherObjects DEF CnObject
  <2>2. Threshold[node] \in Nat /\ s.thr[node] \in Nat /\ s.cum[node] + 1 \in Nat
    BY <2>1, ErrHndAssumption DEF States
  <2>3. k \in Nat
    BY <2>2
  <2>4. /\ set \in States
        /\ set.thr = [s.thr EXCEPT ![node] = k]
        /\ set.events = s.events /\ set.loss = s.loss /\ set.iso = s.iso
        /\ set.posted = s.posted /\ set.unheard = s.unheard
    <3>. HIDE DEF k
    <3>. QED BY <2>1, <2>2, <2>3, SetCountersFields, SMTT(30)
  <2>5. /\ \A e \in Object \ {node} : set.thr[e] = s.thr[e]
        /\ set.thr[node] = k
    <3>. HIDE DEF k, set
    <3>. QED BY <2>1, <2>4 DEF States
  <2>6. \/ t = set \/ t = occurred \/ t = noRoom
        \/ s.thr[node] + 8 >= Threshold[node] /\ Threshold[node] > 0 /\ t = removed
    BY <1>2, <2>2, SMTT(40) DEF handleMnCnLossPres
  <2>7. CountsPres(s, set)
    <3>. HIDE DEF set, k
    <3>. QED BY <2>1, <2>4, <2>5 DEF CountsPres, SparesSoc
  <2>8. CountsPres(s, occurred)
    <3>1. /\ occurred \in States
          /\ occurred.thr = set.thr /\ occurred.events = set.events
          /\ occurred.loss = [set.loss EXCEPT ![node] = "occurred"]
          /\ occurred.iso = set.iso /\ occurred.posted = set.posted
          /\ occurred.unheard = set.unheard
      <4>. HIDE DEF set
      <4>. QED BY <2>4 DEF States
    <3>. HIDE DEF occurred, set, k
    <3>2. \A n \in Node : occurred.loss[n] = "threshold" => s.loss[n] = "threshold"
      BY <2>4, <3>1 DEF States
    <3>. QED BY <2>1, <2>4, <2>5, <3>1, <3>2 DEF CountsPres, SparesSoc
  <2>9. CountsPres(s, noRoom)
    <3>. DEFINE l == [set.loss EXCEPT ![node] = "threshold"]
                u == set.unheard \cup {node}
    <3>1. l \in [Node -> {"none", "occurred", "threshold"}] /\ u \in SUBSET Node
      <4>. HIDE DEF set
      <4>. QED BY <1>2, <2>4 DEF States
    <3>2. noRoom = [set EXCEPT !.loss = l, !.ok = FALSE, !.unheard = u]
      OBVIOUS
    <3>. HIDE DEF set, l, u, k
    <3>3. LET w == [set EXCEPT !.loss = l, !.ok = FALSE, !.unheard = u] IN
          /\ w \in States
          /\ w.thr = set.thr /\ w.events = set.events /\ w.loss = l
          /\ w.iso = set.iso /\ w.posted = set.posted /\ w.unheard = u
      BY <2>4, <3>1 DEF States
    <3>4. /\ noRoom \in States
          /\ noRoom.thr = set.thr /\ noRoom.events = set.events /\ noRoom.loss = l
          /\ noRoom.iso = set.iso /\ noRoom.posted = set.posted /\ noRoom.unheard = u
      BY <3>2, <3>3
    <3>. HIDE DEF noRoom
    <3>5. \A n \in Node : l[n] = "threshold" => s.loss[n] = "threshold" \/ n \in u
      BY <2>4 DEF l, u, States
    <3>6. s.unheard \subseteq u
      BY <2>4 DEF u
    <3>. QED BY <2>1, <2>4, <2>5, <3>4, <3>5, <3>6 DEF CountsPres, SparesSoc
  <2>10. ASSUME s.thr[node] + 8 >= Threshold[node], Threshold[node] > 0
         PROVE  CountsPres(s, removed)
    <3>1. /\ tripped \in States
          /\ tripped.thr = set.thr /\ tripped.events = set.events
          /\ tripped.loss = [set.loss EXCEPT ![node] = "threshold"]
          /\ tripped.iso = set.iso /\ tripped.posted = set.posted
          /\ tripped.unheard = set.unheard
      <4>. HIDE DEF set
      <4>. QED BY <2>4 DEF States
    <3>2. /\ removed \in States
          /\ removed.thr = tripped.thr /\ removed.events = tripped.events
          /\ removed.loss = tripped.loss /\ removed.iso = tripped.iso \ {node}
          /\ removed.unheard = tripped.unheard
          /\ removed.posted = tripped.posted \cup {<<"Heartbeat", node>>}
      <4>. HIDE DEF tripped
      <4>. QED BY <1>2, <3>1, RemoveNodeFields, ZenonT(60)
    <3>3. <<"Heartbeat", node>> # SocAlarm
      BY DEF SocAlarm
    <3>4. k >= Threshold[node]
      BY <2>10
    <3>. HIDE DEF removed, tripped, set, k
    <3>5. \A n \in Node : removed.loss[n] = "threshold" =>
                              s.loss[n] = "threshold" \/ n = node
      BY <2>4, <3>1, <3>2 DEF States
    <3>6. SparesSoc(s, removed)
      BY <2>1, <2>4, <2>5, <3>1, <3>2, <3>3 DEF SparesSoc
    <3>. QED BY <1>2, <2>4, <2>5, <3>1, <3>2, <3>4, <3>5, <3>6 DEF CountsPres
  <2>. HIDE DEF t, set, occurred, noRoom, removed
  <2>11. CountsPres(s, t)
    BY <2>6, <2>7, <2>8, <2>9, <2>10
  <2>. QED BY <2>11 DEF t
<1>. QED BY <1>1, <1>2

(* One error event, whatever it carries.                                   *)
Handled(s, t, err) ==
    /\ t \in States
    /\ SparesSoc(s, t) \/ ("CnLossSoc" \in err /\ CountsSoc(s, t))
    /\ t.iso \subseteq s.iso
    /\ \A n \in s.iso \ t.iso :
          \/ <<"InvalidFormat", n>> \in t.posted
          \/ s.loss[n] = "none" /\ t.thr[n] >= Threshold[n]
    /\ s.unheard \subseteq t.unheard
    /\ \A n \in Node : t.loss[n] = "threshold" =>
          s.loss[n] = "threshold" \/ n \notin t.iso \/ n \in t.unheard

LEMMA handleDllErrorsHandles ==
    ASSUME Instance \in States, NEW err, NEW node \in Node \cup {"none"},
           NEW full \in BOOLEAN
    PROVE  Handled(Instance, handleDllErrors(err, node, full), err)
<1>. DEFINE s1 == handleCnLossSoc(Instance, err, full)
            s2 == handleCnLossPreq(s1, err, full)
            s3 == handleCorrectPreq(s2, err)
            s4 == handleCnCrc(s3, err, full)
            s5 == handleInvalidFormat(s4, err, node, full)
            s6 == handleMnCrc(s5, err, full)
            s7 == handleMnCycTimeExceed(s6, err, full)
            s8 == handleMnCnLossPres(s7, err, node, full)
<1>1. SocAlarm \notin Instance.posted
  BY DEF Instance
<1>2. /\ s1 \in States /\ SparesNodes(Instance, s1)
      /\ SparesSoc(Instance, s1) \/ ("CnLossSoc" \in err /\ CountsSoc(Instance, s1))
  BY <1>1, handleCnLossSocCounts
<1>3. Spares(s1, s2)
  <2>. HIDE DEF s1
  <2>. QED BY <1>2, handleCnLossPreqSpares
<1>4. Spares(s2, s3)
  <2>. HIDE DEF s2
  <2>. QED BY <1>3, handleCorrectPreqSpares DEF Spares
<1>5. Spares(s3, s4)
  <2>. HIDE DEF s3
  <2>. QED BY <1>4, handleCnCrcSpares DEF Spares
<1>6. Spares(s4, s5)
  <2>. HIDE DEF s4
  <2>. QED BY <1>5, handleInvalidFormatSpares DEF Spares
<1>7. Spares(s5, s6)
  <2>. HIDE DEF s5
  <2>. QED BY <1>6, handleMnCrcSpares DEF Spares
<1>8. Spares(s6, s7)
  <2>. HIDE DEF s6
  <2>. QED BY <1>7, handleMnCycTimeExceedSpares DEF Spares
<1>9. CountsPres(s7, s8)
  <2>. HIDE DEF s7
  <2>. QED BY <1>8, handleMnCnLossPresCounts DEF Spares
<1>10. s8 = handleDllErrors(err, node, full)
  BY DEF handleDllErrors
<1>. HIDE DEF s1, s2, s3, s4, s5, s6, s7, s8
<1>11. Spares(s1, s7)
  BY <1>3, <1>4, <1>5, <1>6, <1>7, <1>8, SparesOn
<1>12. SparesNodes(Instance, s7)
  BY <1>2, <1>11 DEF Spares, SparesNodes
<1>13. SparesSoc(s1, s8)
  BY <1>9, <1>11 DEF Spares, SparesSoc, CountsPres
<1>14. SparesSoc(Instance, s8) \/ ("CnLossSoc" \in err /\ CountsSoc(Instance, s8))
  BY <1>2, <1>13 DEF SparesSoc, CountsSoc
<1>15. Handled(Instance, s8, err)
  BY <1>9, <1>12, <1>14 DEF CountsPres, SparesNodes, Handled
<1>. QED BY <1>10, <1>15

-----------------------------------------------------------------------------
(* The invariant.  The threshold counter of the CRC errors of a CN is never *)
(* driven up, so that nothing of it ends in that of the loss of SoC at the *)
(* end of a cycle; and an MN counts no loss of SoC.                        *)
SocUntouched ==
    /\ thresholdCnt["CnCrc"] = 0
    /\ role = "MN" => thresholdCnt["CnLossSoc"] = 0 /\ "CnLossSoc" \notin dllErrorEvents

IInv == TypeOK /\ TrippedNodeIsRemoved /\ SocUntouched

LEMMA InstanceIsState ==
    TypeOK => Instance \in States
BY DEF TypeOK, Instance, States, Message

LEMMA InstanceFields ==
    /\ Instance.thr = thresholdCnt /\ Instance.events = dllErrorEvents
    /\ Instance.loss = aMnCnLossPresEvent /\ Instance.iso = isochronous
    /\ Instance.posted = {} /\ Instance.unheard = unheard
BY DEF Instance

LEMMA InitIInv ==
    Init => IInv
BY OtherObjects, ErrHndAssumption
DEF Init, IInv, TypeOK, TrippedNodeIsRemoved, SocUntouched, CnObject

(* What one error event leaves behind.                                     *)
Leaves(t, err) ==
    /\ Handled(Instance, t, err)
    /\ role = "MN" => "CnLossSoc" \notin err
    /\ thresholdCnt' = t.thr /\ cumulativeCnt' = t.cum
    /\ dllErrorEvents' = t.events /\ aMnCnLossPresEvent' = t.loss
    /\ isochronous' = t.iso /\ posted' = t.posted
    /\ unheard' = t.unheard

LEMMA ProcessLeaves ==
    ASSUME TypeOK, errhndk_process
    PROVE  /\ \E t, err : Leaves(t, err)
           /\ role' = role /\ errors' = errors + 1 /\ errors < MaxErrors
<1>1. PICK err \in SUBSET (IF role = "MN" THEN MnErrors ELSE CnErrors),
           node \in Node \cup {"none"}, full \in BOOLEAN :
         /\ thresholdCnt' = handleDllErrors(err, node, full).thr
         /\ cumulativeCnt' = handleDllErrors(err, node, full).cum
         /\ dllErrorEvents' = handleDllErrors(err, node, full).events
         /\ aMnCnLossPresEvent' = handleDllErrors(err, node, full).loss
         /\ isochronous' = handleDllErrors(err, node, full).iso
         /\ posted' = handleDllErrors(err, node, full).posted
         /\ unheard' = handleDllErrors(err, node, full).unheard
  <2>. HIDE DEF handleDllErrors
  <2>. QED BY ZenonT(90) DEF errhndk_process
<1>2. Handled(Instance, handleDllErrors(err, node, full), err)
  BY InstanceIsState, handleDllErrorsHandles
<1>3. role = "MN" => "CnLossSoc" \notin err
  BY NameAssumption DEF CnObject
<1>4. Leaves(handleDllErrors(err, node, full), err)
  <2>. HIDE DEF handleDllErrors
  <2>. QED BY <1>1, <1>2, <1>3 DEF Leaves
<1>. QED BY <1>4 DEF errhndk_process

LEMMA ProcessKeepsIInv ==
    IInv /\ errhndk_process => IInv'
<1>. SUFFICES ASSUME IInv, errhndk_process PROVE IInv'
  OBVIOUS
<1>1. PICK t, err : Leaves(t, err)
  BY ProcessLeaves DEF IInv
<1>2. role' = role /\ errors' = errors + 1 /\ errors < MaxErrors
  BY ProcessLeaves DEF IInv
<1>3. t \in States
  BY <1>1 DEF Handled, Leaves
<1>4. TypeOK'
  BY <1>1, <1>2, <1>3, ErrHndAssumption DEF IInv, TypeOK, States, Message, Leaves
<1>5. TrippedNodeIsRemoved'
  BY <1>1, InstanceFields DEF IInv, TrippedNodeIsRemoved, Handled, Leaves
<1>6. SocUntouched'
  BY <1>1, <1>2, InstanceFields DEF IInv, SocUntouched, Leaves, Handled, SparesSoc, CountsSoc
<1>. QED BY <1>4, <1>5, <1>6 DEF IInv

(* What the end of a cycle does to the counters of a CN ...                *)
LEMMA CnCycleEnd ==
    ASSUME IInv, decrementCnCounters
    PROVE  /\ thresholdCnt' \in [Object -> Nat]
           /\ thresholdCnt'["CnCrc"] = 0
           /\ thresholdCnt'["CnLossSoc"] =
                IF "CnLossSoc" \in dllErrorEvents \/ thresholdCnt["CnLossSoc"] = 0
                THEN thresholdCnt["CnLossSoc"] ELSE thresholdCnt["CnLossSoc"] - 1
           /\ \A n \in Node : thresholdCnt'[n] = thresholdCnt[n]
<1>. DEFINE soc == IF "CnLossSoc" \in dllErrorEvents THEN thresholdCnt
                   ELSE [thresholdCnt EXCEPT !["CnLossSoc"] = OneLess(@)]
<1>1. /\ "CnLossSoc" \in Object \ Node /\ "CnCrc" \in Object
      /\ thresholdCnt \in [Object -> Nat] /\ thresholdCnt["CnCrc"] = 0
      /\ Node \subseteq Object
  BY OtherObjects DEF IInv, TypeOK, SocUntouched, CnObject
<1>2. OneLess(thresholdCnt["CnLossSoc"]) \in Nat
  BY <1>1 DEF OneLess
<1>3. soc \in [Object -> Nat] /\ soc["CnCrc"] = 0
  BY <1>1, <1>2
<1>4. thresholdCnt' = soc
  BY <1>3 DEF decrementCnCounters
<1>5. soc["CnLossSoc"] = IF "CnLossSoc" \in dllErrorEvents THEN thresholdCnt["CnLossSoc"]
                         ELSE OneLess(thresholdCnt["CnLossSoc"])
  BY <1>1
<1>6. \A n \in Node : soc[n] = thresholdCnt[n]
  BY <1>1
<1>7. thresholdCnt["CnLossSoc"] \in Nat
  BY <1>1
<1>. HIDE DEF soc
<1>. QED BY <1>3, <1>4, <1>5, <1>6, <1>7 DEF OneLess

(* ... and to those of an MN.                                              *)
LEMMA MnCycleEnd ==
    ASSUME IInv, decrementMnCounters
    PROVE  /\ thresholdCnt' \in [Object -> Nat]
           /\ thresholdCnt'["CnCrc"] = thresholdCnt["CnCrc"]
           /\ thresholdCnt'["CnLossSoc"] = thresholdCnt["CnLossSoc"]
           /\ aMnCnLossPresEvent' \in [Node -> {"none", "occurred", "threshold"}]
           /\ \A n \in Node : aMnCnLossPresEvent'[n] = "threshold" =>
                                 aMnCnLossPresEvent[n] = "threshold"
<1>. DEFINE crc == IF "MnCrc" \in dllErrorEvents THEN thresholdCnt
                   ELSE [thresholdCnt EXCEPT !["MnCrc"] = OneLess(@)]
            cyc == IF "MnCycTimeExceed" \notin dllErrorEvents
                        /\ crc["MnCycTimeExceed"] > 0
                   THEN [crc EXCEPT !["MnCrc"] = crc["MnCycTimeExceed"] - 1]
                   ELSE crc
<1>1. /\ {"CnLossSoc", "CnCrc"} \subseteq Object \ isochronous
      /\ {"MnCrc", "MnCycTimeExceed"} \subseteq Object
      /\ thresholdCnt \in [Object -> Nat]
      /\ aMnCnLossPresEvent \in [Node -> {"none", "occurred", "threshold"}]
  BY OtherObjects DEF IInv, TypeOK, CnObject, MnObject
<1>2. \A n \in Nat : OneLess(n) \in Nat
  BY DEF OneLess
<1>3. crc \in [Object -> Nat] /\ \A e \in CnObject : crc[e] = thresholdCnt[e]
  <2>1. OneLess(thresholdCnt["MnCrc"]) \in Nat
    BY <1>1, <1>2
  <2>. QED BY <1>1, <2>1 DEF CnObject
<1>4. cyc \in [Object -> Nat] /\ \A e \in CnObject : cyc[e] = crc[e]
  <2>. HIDE DEF crc
  <2>1. crc["MnCycTimeExceed"] > 0 => crc["MnCycTimeExceed"] - 1 \in Nat
    BY <1>1, <1>3
  <2>. QED BY <1>1, <1>3, <2>1 DEF CnObject
<1>5. /\ thresholdCnt' =
            [o \in Object |->
               IF o \in isochronous /\ aMnCnLossPresEvent[o] = "none"
               THEN OneLess(cyc[o]) ELSE cyc[o]]
      /\ aMnCnLossPresEvent' =
            [n \in Node |->
               IF n \in isochronous /\ aMnCnLossPresEvent[n] = "occurred"
               THEN "none" ELSE aMnCnLossPresEvent[n]]
  BY DEF decrementMnCounters
<1>. HIDE DEF cyc, crc
<1>6. \A o \in Object : OneLess(cyc[o]) \in Nat /\ cyc[o] \in Nat
  BY <1>2, <1>4
<1>7. thresholdCnt' \in [Object -> Nat]
  BY <1>5, <1>6
<1>8. \A e \in {"CnLossSoc", "CnCrc"} : thresholdCnt'[e] = cyc[e]
  BY <1>1, <1>5
<1>9. \A e \in {"CnLossSoc", "CnCrc"} : cyc[e] = thresholdCnt[e]
  BY <1>3, <1>4 DEF CnObject
<1>10. aMnCnLossPresEvent' \in [Node -> {"none", "occurred", "threshold"}]
  BY <1>1, <1>5
<1>11. \A n \in Node : aMnCnLossPresEvent'[n] = "threshold" =>
                           aMnCnLossPresEvent[n] = "threshold"
  BY <1>5
<1>. QED BY <1>7, <1>8, <1>9, <1>10, <1>11

LEMMA DecrementKeepsIInv ==
    IInv /\ errhndk_decrementCounters => IInv'
<1>. SUFFICES ASSUME IInv, errhndk_decrementCounters PROVE IInv'
  OBVIOUS
<1>1. /\ dllErrorEvents' = {} /\ posted' = {} /\ role' = role
      /\ cumulativeCnt' = cumulativeCnt /\ isochronous' = isochronous
      /\ unheard' = unheard /\ errors' = errors
  BY DEF errhndk_decrementCounters
<1>2. CASE role = "MN" /\ decrementMnCounters
  BY <1>1, <1>2, MnCycleEnd DEF IInv, TypeOK, TrippedNodeIsRemoved, SocUntouched
<1>3. CASE role = "CN" /\ decrementCnCounters /\ UNCHANGED aMnCnLossPresEvent
  BY <1>1, <1>3, CnCycleEnd DEF IInv, TypeOK, TrippedNodeIsRemoved, SocUntouched
<1>. QED BY <1>2, <1>3 DEF errhndk_decrementCounters

LEMMA ResetKeepsIInv ==
    IInv /\ errhndk_resetCnError => IInv'
<1>. SUFFICES ASSUME IInv, errhndk_resetCnError PROVE IInv'
  OBVIOUS
<1>1. TypeOK'
  BY DEF IInv, TypeOK, errhndk_resetCnError
<1>2. TrippedNodeIsRemoved'
  BY DEF IInv, TypeOK, TrippedNodeIsRemoved, errhndk_resetCnError
<1>3. SocUntouched'
  BY DEF IInv, SocUntouched, errhndk_resetCnError
<1>. QED BY <1>1, <1>2, <1>3 DEF IInv

LEMMA NextIInv ==
    IInv /\ [Next]_vars => IInv'
<1>. SUFFICES ASSUME IInv, [Next]_vars PROVE IInv'
  OBVIOUS
<1>1. CASE ClearCumulativeCnt
  BY <1>1 DEF IInv, TypeOK, TrippedNodeIsRemoved, SocUntouched, ClearCumulativeCnt
<1>2. CASE UNCHANGED vars
  BY <1>2 DEF IInv, TypeOK, TrippedNodeIsRemoved, SocUntouched, vars, counterVars
<1>. QED BY <1>1, <1>2, ProcessKeepsIInv, DecrementKeepsIInv, ResetKeepsIInv DEF Next

(* In every reachable state.                                               *)
THEOREM Invariant ==
    Spec => []IInv
BY InitIInv, NextIInv, PTL DEF Spec

(* Types, for every set of nodes and thresholds: in particular no counter  *)
(* is taken below 0 by the end of a cycle, whichever object it is stored   *)
(* in (decrementCnCounters(), decrementMnCounters()).                      *)
THEOREM TypeCorrect ==
    Spec => []TypeOK
<1>1. IInv => TypeOK
  BY DEF IInv
<1>. QED BY <1>1, Invariant, PTL

(* A CN that reached the threshold of lost PRes is out of the isochronous  *)
(* phase until it is added again, or its history entry found no room       *)
(* (handleMnCnLossPres()).                                                 *)
THEOREM TrippedStaysRemoved ==
    Spec => []TrippedNodeIsRemoved
<1>1. IInv => TrippedNodeIsRemoved
  BY DEF IInv
<1>. QED BY <1>1, Invariant, PTL

-----------------------------------------------------------------------------
(* The removal of a CN *)

RemovalOf(n) ==
    \/ <<"InvalidFormat", n>> \in posted'
    \/ aMnCnLossPresEvent[n] = "none" /\ thresholdCnt'[n] >= Threshold[n]

LEMMA StepRemovesForCause ==
    IInv /\ [Next]_vars => \A n \in isochronous \ isochronous' : RemovalOf(n)
<1>. SUFFICES ASSUME IInv, [Next]_vars
              PROVE  \A n \in isochronous \ isochronous' : RemovalOf(n)
  OBVIOUS
<1>1. CASE errhndk_process
  <2>1. PICK t, err : Leaves(t, err)
    BY <1>1, ProcessLeaves DEF IInv
  <2>. QED BY <2>1, InstanceFields DEF Leaves, Handled, RemovalOf
<1>2. CASE errhndk_decrementCounters \/ errhndk_resetCnError \/ ClearCumulativeCnt
  BY <1>2 DEF errhndk_decrementCounters, errhndk_resetCnError, ClearCumulativeCnt
<1>3. CASE UNCHANGED vars
  BY <1>3 DEF vars
<1>. QED BY <1>1, <1>2, <1>3 DEF Next

(* A CN is given up only at its own threshold of lost PRes or for a frame  *)
(* of its own with an invalid format, never along with another.            *)
THEOREM RemovalHasACause ==
    Spec => RemovedForCause
<1>1. IInv /\ [Next]_vars =>
        [\A n \in isochronous \ isochronous' :
           \/ <<"InvalidFormat", n>> \in posted'
           \/ /\ aMnCnLossPresEvent[n] = "none"
              /\ thresholdCnt'[n] >= Threshold[n]]_vars
  BY StepRemovesForCause DEF RemovalOf
<1>. QED BY <1>1, Invariant, PTL DEF Spec, RemovedForCause

-----------------------------------------------------------------------------
(* The leaky bucket of the loss of SoC *)

LEMMA InitIsBucketInit ==
    Init => SocBucket!Init
BY OtherObjects DEF Init, SocBucket!Init, CnObject

LEMMA StepIsBucketStep ==
    IInv /\ [Next]_vars => [SocBucket!Next]_(SocBucket!vars)
<1>. SUFFICES ASSUME IInv, [Next]_vars PROVE [SocBucket!Next]_(SocBucket!vars)
  OBVIOUS
<1>. USE DEF SocBucket!Next
<1>1. CASE errhndk_process
  <2>1. PICK t, err : Leaves(t, err)
    BY <1>1, ProcessLeaves DEF IInv
  <2>2. CASE SparesSoc(Instance, t)
    <3>1. SocBucket!Other
      BY <2>1, <2>2, InstanceFields DEF Leaves, SparesSoc, SocAlarm, SocBucket!Other
    <3>. QED BY <3>1
  <2>3. CASE CountsSoc(Instance, t)
    <3>1. SocBucket!Error
      BY <2>1, <2>3, InstanceFields DEF Leaves, CountsSoc, SocAlarm, SocBucket!Error
    <3>. QED BY <3>1
  <2>. QED BY <2>1, <2>2, <2>3 DEF Leaves, Handled
<1>2. CASE errhndk_decrementCounters
  <2>1. dllErrorEvents' = {} /\ posted' = {}
    BY <1>2 DEF errhndk_decrementCounters
  <2>2. CASE role = "MN" /\ decrementMnCounters
    <3>1. SocBucket!Other
      BY <2>1, <2>2, MnCycleEnd DEF IInv, SocUntouched, SocBucket!Other
    <3>. QED BY <3>1
  <2>3. CASE role = "CN" /\ decrementCnCounters
    <3>1. SocBucket!CycleEnd
      BY <2>1, <2>3, CnCycleEnd DEF SocBucket!CycleEnd
    <3>. QED BY <3>1
  <2>. QED BY <1>2, <2>2, <2>3 DEF errhndk_decrementCounters
<1>3. CASE errhndk_resetCnError \/ ClearCumulativeCnt
  <2>1. SocBucket!Other
    BY <1>3 DEF errhndk_resetCnError, ClearCumulativeCnt, SocBucket!Other
  <2>. QED BY <2>1
<1>4. CASE UNCHANGED vars
  BY <1>4 DEF vars, counterVars, SocBucket!vars
<1>. QED BY <1>1, <1>2, <1>3, <1>4 DEF Next

(* The error handler implements the leaky bucket for the loss of SoC of a  *)
(* CN: whatever other errors come and whatever objects their counters are  *)
(* stored in, the NMT state machine hears of it exactly when it persists.  *)
THEOREM SocImplementsBucket ==
    Spec => SocIsABucket
<1>. QED BY InitIsBucketInit, StepIsBucketStep, Invariant, PTL
         DEF Spec, SocIsABucket, SocBucket!Spec
=============================================================================
