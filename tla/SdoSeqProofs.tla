---------------------------- MODULE SdoSeqProofs ----------------------------
(***************************************************************************)
(* The sequence layer, proved for every size of the history, every range   *)
(* of numbers and any number of frames, connections and disturbances: the  *)
(* types, that the ring of an open connection is the window of the frames  *)
(* that are not acknowledged, that data arrives in the order in which it   *)
(* was sent, and that an acknowledgement swallows no data.                 *)
(***************************************************************************)
EXTENDS SdoSeq, FiniteSetTheorems, SequenceTheorems, WellFoundedInduction, TLAPS

(* A frame, and a connection record, of a node that has sent m frames.     *)
FrameUpTo(m) == [scon : Con, rcon : Con, data : 0..m]
Hist(m) == [free : 0..2*HistorySize-1, w : Ring, a : Ring, fr : [Ring -> FrameUpTo(m)]]
ConUpTo(m) == [st : States, recv : Con, send : Con, timer : {0, 1},
               retry : 0..RetryCount, used : {0, 1}, hist : Hist(m)]

Used(h) == HistorySize - h.free

(* The ring h holds the last of m frames, numbered up to n: their data and *)
(* their numbers count down from the newest.                               *)
Window(h, n, m) ==
    /\ h.free <= HistorySize /\ Used(h) <= m
    /\ h.w = (h.a + Used(h)) % HistorySize
    /\ \A i \in 0..Used(h)-1 :
         /\ Entry(h, i).data = m - (Used(h) - 1 - i)
         /\ Entry(h, i).scon.n = Ahead(n, Used(h) - 1 - i)
WindowIfOpen(k, m) == Opened(k) => Window(k.hist, k.recv.n, m)

(* What a handler of a node that has sent m frames may answer to a frame   *)
(* of a node that has sent d, and that it keeps the window.                *)
Answer(m, d) == [con : ConUpTo(m), out : Seq(FrameUpTo(m)), data : 0..d, again : BOOLEAN]
Handles(k, r, m, d) ==
    /\ r \in Answer(m, d)
    /\ WindowIfOpen(k, m) => WindowIfOpen(r.con, m)

-----------------------------------------------------------------------------
(* Counting modulo the size of the ring and the range of the numbers.      *)
LEMMA OnceRound ==
    \A m \in Nat \ {0} : \A x \in 0..2*m-1 : x % m = IF x < m THEN x ELSE x - m
BY SMT

LEMMA TwiceRound ==
    \A m \in Nat \ {0} : \A x \in 0..3*m-1 :
        x % m = IF x < m THEN x ELSE IF x < 2*m THEN x - m ELSE x - 2*m
BY SMT

LEMMA Sizes ==
    /\ HistorySize \in Nat \ {0, 1} /\ SeqMod \in Nat \ {0} /\ Threshold \in Nat
    /\ HistorySize <= Threshold /\ Threshold + HistorySize <= SeqMod
BY WindowAssumption, SMT

LEMMA AheadValue ==
    ASSUME NEW m \in 0..SeqMod-1, NEW n \in 0..SeqMod-1
    PROVE  /\ Ahead(m, n) = IF m >= n THEN m - n ELSE m + SeqMod - n
           /\ Ahead(m, n) \in 0..SeqMod-1
<1>1. m + SeqMod - n \in 0..2*SeqMod-1
  BY Sizes, SMT
<1>2. (m + SeqMod - n) % SeqMod = IF m + SeqMod - n < SeqMod THEN m + SeqMod - n
                                                            ELSE (m + SeqMod - n) - SeqMod
  BY <1>1, Sizes, OnceRound, Zenon
<1>. QED BY <1>2, Sizes, SMT DEF Ahead

(* The number before m, as deleteAckedFrameFromHistory() computes it.      *)
LEMMA AheadOfOneLess ==
    ASSUME NEW m \in 0..SeqMod-1, NEW n \in 0..SeqMod-1
    PROVE  Ahead(m + SeqMod - 1, n) = IF m > n THEN m - n - 1 ELSE m + SeqMod - n - 1
<1>. DEFINE x == (m + SeqMod - 1) + SeqMod - n
<1>1. x \in 0..3*SeqMod-1
  BY Sizes, SMT
<1>2. x % SeqMod = IF x < SeqMod THEN x ELSE IF x < 2*SeqMod THEN x - SeqMod ELSE x - 2*SeqMod
  <2>. HIDE DEF x
  <2>. QED BY <1>1, Sizes, TwiceRound, Zenon
<1>. QED BY <1>2, Sizes, SMT DEF Ahead

LEMMA SlotInRing ==
    ASSUME NEW x \in 0..2*HistorySize-1
    PROVE  /\ x % HistorySize \in Ring
           /\ x % HistorySize = IF x < HistorySize THEN x ELSE x - HistorySize
<1>1. x % HistorySize = IF x < HistorySize THEN x ELSE x - HistorySize
  BY Sizes, OnceRound, Zenon
<1>. QED BY <1>1, Sizes, SMT DEF Ring

(* Every set of numbers that is not empty has a smallest element.          *)
LEMMA Smallest ==
    ASSUME NEW S \in SUBSET Nat, S # {}
    PROVE  \E x \in S : \A y \in S : x <= y
<1>1. PICK x \in S : \A y \in S : ~(<<y, x>> \in OpToRel(<, Nat))
  BY NatLessThanWellFounded, WFMin
<1>2. \A y \in S : ~(y < x)
  BY <1>1 DEF OpToRel
<1>. QED BY <1>2, SMT

LEMMA Slots ==
    \A a \in Ring : \A i \in 0..HistorySize :
        /\ (a + i) % HistorySize \in Ring
        /\ a + i < HistorySize => (a + i) % HistorySize = a + i
        /\ ~(a + i < HistorySize) => (a + i) % HistorySize = a + i - HistorySize
BY Sizes, SMT DEF Ring

LEMMA EntryType ==
    ASSUME NEW m \in Nat, NEW h \in Hist(m), NEW i \in 0..HistorySize
    PROVE  Entry(h, i) \in FrameUpTo(m)
<1>1. h.a \in Ring /\ h.fr \in [Ring -> FrameUpTo(m)]
  BY DEF Hist
<1>. QED BY <1>1, Slots DEF Entry

-----------------------------------------------------------------------------
(* The loop over readFromHistory() ends, at the latest at the write index, *)
(* and reads no frame that is already released.                            *)
LEMMA ReadToType ==
    ASSUME NEW m \in Nat, NEW h \in Hist(m)
    PROVE  /\ Unread(h) \in 0..HistorySize-1
           /\ ReadTo(h) \in 0..Unread(h)
           /\ \A i \in 0..ReadTo(h)-1 : Entry(h, i).data # None
           /\ ReadTo(h) = Unread(h) \/ Entry(h, ReadTo(h)).data = None
<1>. DEFINE n == Unread(h)
            S == {i \in 0..n : i = n \/ Entry(h, i).data = None}
            P(i) == (i = n \/ Entry(h, i).data = None) /\ \A j \in 0..i-1 : Entry(h, j).data # None
<1>1. h.w \in Ring /\ h.a \in Ring
  BY DEF Hist
<1>2. h.w + HistorySize - h.a \in 0..2*HistorySize-1
  BY <1>1, Sizes, SMT DEF Ring
<1>3. n \in 0..HistorySize-1
  BY <1>2, SlotInRing DEF Ring, Unread
<1>4. S \in SUBSET Nat /\ n \in S
  <2>. HIDE DEF n
  <2>. QED BY <1>3, Sizes, SMT
<1>5. PICK x \in S : \A y \in S : x <= y
  <2>. HIDE DEF S
  <2>. QED BY <1>4, Smallest
<1>6. x \in 0..n /\ P(x)
  <2>1. ASSUME NEW j \in 0..x-1 PROVE Entry(h, j).data # None
    <3>. HIDE DEF n
    <3>1. j \in 0..n /\ ~(x <= j)
      BY <1>3, <1>5, <2>1, Sizes, SMT
    <3>. QED BY <1>5, <3>1
  <2>. QED BY <1>5, <2>1
<1>7. ReadTo(h) = CHOOSE i \in 0..n : P(i)
  BY DEF ReadTo
<1>8. ReadTo(h) \in 0..n /\ P(ReadTo(h))
  <2>. HIDE DEF P, n
  <2>. QED BY <1>6, <1>7
<1>. QED BY <1>3, <1>8

(* The frames sent again are frames of the history.                        *)
LEMMA KeptType ==
    ASSUME NEW m \in Nat, NEW h \in Hist(m)
    PROVE  Kept(h) \in Seq(FrameUpTo(m))
<1>. DEFINE n == ReadTo(h)
<1>1. n \in 0..HistorySize-1
  BY ReadToType, Sizes, SMT
<1>2. \A i \in 1..n : Entry(h, i - 1) \in FrameUpTo(m)
  <2>. SUFFICES ASSUME NEW i \in 1..n PROVE Entry(h, i - 1) \in FrameUpTo(m)
    OBVIOUS
  <2>1. i - 1 \in 0..HistorySize
    BY <1>1, Sizes, SMT
  <2>. QED BY <2>1, EntryType
<1>3. [i \in 1..n |-> Entry(h, i - 1)] \in Seq(FrameUpTo(m))
  <2>. HIDE DEF n
  <2>1. [i \in 1..n |-> Entry(h, i - 1)] \in [1..n -> FrameUpTo(m)]
    BY <1>2
  <2>. QED BY <1>1, <2>1, SMT
<1>4. <<>> \in Seq(FrameUpTo(m))
  BY EmptySeq
<1>. QED BY <1>3, <1>4 DEF Kept

(* The loop of deleteAckedFrameFromHistory() ends, at the latest when it   *)
(* has come to the write index.                                            *)
LEMMA LoopStops ==
    ASSUME NEW m \in Nat, NEW h \in Hist(m), NEW rn \in 0..SeqMod-1
    PROVE  /\ LastTurn(h, rn) \in 0..HistorySize-1
           /\ LoopEnds(h, rn, LastTurn(h, rn))
           /\ \A i \in 0..HistorySize : LoopEnds(h, rn, i) => LastTurn(h, rn) <= i
           /\ \A j \in 0..LastTurn(h, rn)-1 : ~LoopEnds(h, rn, j)
<1>1. h.w \in Ring /\ h.a \in Ring
  BY DEF Hist
<1>. DEFINE S == {i \in 0..HistorySize : LoopEnds(h, rn, i)}
            d == IF h.w > h.a THEN h.w - h.a - 1 ELSE h.w + HistorySize - h.a - 1
            P(i) == LoopEnds(h, rn, i) /\ \A j \in 0..i-1 : ~LoopEnds(h, rn, j)
<1>2. d \in 0..HistorySize-1 /\ d + 1 \in 0..HistorySize /\ h.a + d + 1 = h.a + (d + 1)
  BY <1>1, Sizes, SMT DEF Ring
<1>3. (h.a + d + 1) % HistorySize = h.w
  <2>1. /\ h.a + (d + 1) < HistorySize => (h.a + (d + 1)) % HistorySize = h.a + (d + 1)
        /\ ~(h.a + (d + 1) < HistorySize) =>
             (h.a + (d + 1)) % HistorySize = h.a + (d + 1) - HistorySize
    <3>. HIDE DEF d
    <3>. QED BY <1>1, <1>2, Slots, Zenon
  <2>2. \/ h.a + (d + 1) < HistorySize /\ h.w = h.a + (d + 1)
        \/ ~(h.a + (d + 1) < HistorySize) /\ h.w = h.a + (d + 1) - HistorySize
    BY <1>1, Sizes, SMT DEF Ring
  <2>. HIDE DEF d
  <2>. QED BY <1>2, <2>1, <2>2, Zenon
<1>4. d \in S
  BY <1>2, <1>3, Sizes, SMT DEF LoopEnds
<1>5. S \in SUBSET Nat /\ S # {}
  BY <1>4, Sizes, SMT
<1>6. PICK x \in S : \A y \in S : x <= y
  <2>. HIDE DEF S
  <2>. QED BY <1>5, Smallest
<1>7. x \in 0..HistorySize /\ P(x)
  <2>1. \A j \in 0..x-1 : ~LoopEnds(h, rn, j)
    BY <1>6, Sizes, SMT
  <2>. QED BY <1>6, <2>1
<1>8. LastTurn(h, rn) \in 0..HistorySize /\ P(LastTurn(h, rn))
  <2>1. LastTurn(h, rn) = CHOOSE i \in 0..HistorySize : P(i)
    BY DEF LastTurn
  <2>. HIDE DEF P
  <2>. QED BY <1>7, <2>1
<1>9. \A i \in 0..HistorySize : LoopEnds(h, rn, i) => LastTurn(h, rn) <= i
  BY <1>8, Sizes, SMT
<1>10. LastTurn(h, rn) <= d
  BY <1>4, <1>9
<1>. QED BY <1>2, <1>8, <1>9, <1>10, Sizes, SMT

LEMMA ReleasedType ==
    ASSUME NEW m \in Nat, NEW h \in Hist(m), NEW rn \in 0..SeqMod-1
    PROVE  /\ Released(h, rn) \in 0..HistorySize
           /\ h.free >= HistorySize => Released(h, rn) = 0
           /\ h.free < HistorySize => Released(h, rn) \in {LastTurn(h, rn), LastTurn(h, rn) + 1}
<1>1. LastTurn(h, rn) \in 0..HistorySize-1
  BY LoopStops
<1>2. h.free \in 0..2*HistorySize-1
  BY DEF Hist
<1>. QED BY <1>1, <1>2, Sizes, SMT DEF Released

LEMMA DeletedType ==
    ASSUME NEW m \in Nat, NEW h \in Hist(m), NEW rn \in 0..SeqMod-1
    PROVE  deleteAckedFrameFromHistory(h, rn) \in Hist(m)
<1>. DEFINE k == Released(h, rn)
            g == deleteAckedFrameFromHistory(h, rn)
            freed == {(h.a + i) % HistorySize : i \in 0..k-1}
            fr == [i \in Ring |-> IF i \in freed THEN [h.fr[i] EXCEPT !.data = None] ELSE h.fr[i]]
            a == IF k > 0 /\ Acked(h, rn, LastTurn(h, rn)) THEN (h.a + k) % HistorySize ELSE h.a
<1>1. h \in [free : 0..2*HistorySize-1, w : Ring, a : Ring, fr : [Ring -> FrameUpTo(m)]]
  BY DEF Hist
<1>2. k \in 0..HistorySize /\ (h.free >= HistorySize => k = 0)
  BY ReleasedType
<1>3. h.free + k \in 0..2*HistorySize-1
  BY <1>1, <1>2, Sizes, SMT
<1>4. a \in Ring
  <2>. HIDE DEF k
  <2>1. (h.a + k) % HistorySize \in Ring
    BY <1>1, <1>2, Slots
  <2>. QED BY <1>1, <2>1
<1>5. fr \in [Ring -> FrameUpTo(m)]
  <2>. HIDE DEF freed
  <2>1. \A f \in FrameUpTo(m) : [f EXCEPT !.data = None] \in FrameUpTo(m)
    BY DEF FrameUpTo, None
  <2>2. \A i \in Ring : fr[i] \in FrameUpTo(m)
    BY <1>1, <2>1
  <2>. QED BY <2>2
<1>6. g = [free |-> h.free + k, w |-> h.w, a |-> a, fr |-> fr]
  <2>1. g = [h EXCEPT !.free = @ + k, !.a = a, !.fr = fr]
    BY DEF deleteAckedFrameFromHistory
  <2>. HIDE DEF k, fr, a, g
  <2>. QED BY <1>1, <2>1
<1>. HIDE DEF k, fr, a, g
<1>. QED BY <1>1, <1>3, <1>4, <1>5, <1>6 DEF Hist, g

(* In a window the loop either ends at the oldest frame, which is not      *)
(* acknowledged, or releases the frame at which it ends: the number of the *)
(* next frame compares with rn as its own compares with rn - 1.            *)
LEMMA WindowReleased ==
    ASSUME NEW m \in Nat, NEW h \in Hist(m), NEW rn \in 0..SeqMod-1, NEW n \in 0..SeqMod-1,
           Window(h, n, m)
    PROVE  /\ Released(h, rn) \in 0..Used(h)
           /\ Released(h, rn) > 0 => Acked(h, rn, LastTurn(h, rn))
<1>. DEFINE u == Used(h)
            l == LastTurn(h, rn)
<1>1. h.free \in 0..HistorySize /\ u \in 0..HistorySize /\ (u = 0 <=> h.free = HistorySize)
  BY Sizes, SMT DEF Hist, Window, Used
<1>2. CASE h.free = HistorySize
  BY <1>1, <1>2, ReleasedType, Sizes, SMT
<1>3. CASE h.free < HistorySize
  <2>. USE <1>3
  <2>1. u \in 1..HistorySize /\ u - 1 \in 0..HistorySize
    BY <1>1, Sizes, SMT
  <2>2. l \in 0..HistorySize-1 /\ LoopEnds(h, rn, l) /\ \A j \in 0..l-1 : ~LoopEnds(h, rn, j)
    BY LoopStops
  <2>3. l <= u - 1
    <3>1. h.a + (u - 1) + 1 = h.a + u
      BY <1>1, Sizes, SMT DEF Hist, Ring
    <3>2. (h.a + (u - 1) + 1) % HistorySize = h.w
      BY <3>1 DEF Window
    <3>3. LoopEnds(h, rn, u - 1)
      BY <3>2 DEF LoopEnds
    <3>. HIDE DEF u, l
    <3>. QED BY <2>1, <3>3, LoopStops DEF l
  <2>4. Released(h, rn) = IF Acked(h, rn, l) THEN l + 1 ELSE l
    BY DEF Released
  <2>5. CASE l = 0
    BY <2>1, <2>3, <2>4, <2>5, Sizes, SMT
  <2>6. CASE l > 0
    <3>. DEFINE x == Ahead(n, u - 1 - (l - 1))
                y == Ahead(n, u - 1 - l)
    <3>1. l - 1 \in 0..u-1 /\ l \in 0..u-1 /\ l - 1 \in 0..l-1
      BY <2>1, <2>2, <2>3, <2>6, Sizes, SMT
    <3>2. Entry(h, l - 1).scon.n = x /\ Entry(h, l).scon.n = y
      <4>. HIDE DEF u, l
      <4>. QED BY <3>1 DEF Window, u
    <3>3. Ahead(rn + SeqMod - 1, x) < Threshold
      BY <2>2, <3>1, <3>2 DEF LoopEnds
    <3>4. Ahead(rn + SeqMod - 1, x) = Ahead(rn, y)
      <4>. DEFINE i == u - 1 - (l - 1)
                  j == u - 1 - l
      <4>1. i \in 0..SeqMod-1 /\ j \in 0..SeqMod-1 /\ i = j + 1
        BY <2>1, <3>1, Sizes, SMT
      <4>. HIDE DEF i, j, u, l
      <4>2. x = IF n >= i THEN n - i ELSE n + SeqMod - i
        BY <4>1, AheadValue DEF i
      <4>3. y = IF n >= j THEN n - j ELSE n + SeqMod - j
        BY <4>1, AheadValue DEF j
      <4>4. x \in 0..SeqMod-1 /\ y \in 0..SeqMod-1
        BY <4>1, AheadValue DEF i, j
      <4>. HIDE DEF x, y
      <4>5. Ahead(rn + SeqMod - 1, x) = IF rn > x THEN rn - x - 1 ELSE rn + SeqMod - x - 1
        BY <4>4, AheadOfOneLess
      <4>6. Ahead(rn, y) = IF rn >= y THEN rn - y ELSE rn + SeqMod - y
        BY <4>4, AheadValue
      <4>. QED BY <4>1, <4>2, <4>3, <4>4, <4>5, <4>6, Sizes, SMT
    <3>5. Acked(h, rn, l)
      BY <3>2, <3>3, <3>4 DEF Acked
    <3>. QED BY <2>1, <2>2, <2>3, <2>4, <3>5, Sizes, SMT
  <2>. QED BY <2>2, <2>5, <2>6, Sizes, SMT
<1>. QED BY <1>1, <1>2, <1>3, Sizes, SMT

(* What is left of the window is a window.                                 *)
LEMMA DeletedWindow ==
    ASSUME NEW m \in Nat, NEW h \in Hist(m), NEW rn \in 0..SeqMod-1, NEW n \in 0..SeqMod-1,
           Window(h, n, m)
    PROVE  Window(deleteAckedFrameFromHistory(h, rn), n, m)
<1>. DEFINE k == Released(h, rn)
            g == deleteAckedFrameFromHistory(h, rn)
            u == Used(h)
            freed == {(h.a + i) % HistorySize : i \in 0..k-1}
<1>1. /\ h.free \in 0..HistorySize /\ u = HistorySize - h.free /\ u \in 0..HistorySize
      /\ h.a \in Ring /\ h.w \in Ring /\ h.fr \in [Ring -> FrameUpTo(m)] /\ u <= m
  BY Sizes, SMT DEF Hist, Window, Used
<1>2. k \in 0..u /\ (k > 0 => Acked(h, rn, LastTurn(h, rn)))
  BY WindowReleased
<1>3. /\ g.free = h.free + k /\ g.w = h.w
      /\ g.a = IF k > 0 THEN (h.a + k) % HistorySize ELSE h.a
      /\ \A i \in Ring : ~(i \in freed) => g.fr[i] = h.fr[i]
  <2>1. g = [h EXCEPT !.free = @ + k,
              !.a = IF k > 0 /\ Acked(h, rn, LastTurn(h, rn)) THEN (@ + k) % HistorySize ELSE @,
              !.fr = [i \in Ring |-> IF i \in freed THEN [@[i] EXCEPT !.data = None] ELSE @[i]]]
    BY DEF deleteAckedFrameFromHistory
  <2>2. h \in [free : 0..2*HistorySize-1, w : Ring, a : Ring, fr : [Ring -> FrameUpTo(m)]]
    BY DEF Hist
  <2>. HIDE DEF k, g, freed
  <2>. QED BY <1>2, <2>1, <2>2
<1>4. g.a = (h.a + k) % HistorySize
  <2>. HIDE DEF k, g
  <2>1. (h.a + 0) % HistorySize = h.a
    <3>1. h.a \in 0..HistorySize-1 /\ h.a + 0 = h.a
      BY <1>1, Sizes, SMT DEF Ring
    <3>2. \A x \in 0..HistorySize-1 : x % HistorySize = x
      BY Sizes, SMT
    <3>. QED BY <3>1, <3>2, Zenon
  <2>. QED BY <1>2, <1>3, <2>1, SMT
<1>5. Used(g) = u - k /\ g.free <= HistorySize /\ Used(g) <= m
  <2>. HIDE DEF k, g, u
  <2>. QED BY <1>1, <1>2, <1>3, Sizes, SMT DEF Used
<1>6. \A i \in 0..(u-k) : (g.a + i) % HistorySize = (h.a + (k + i)) % HistorySize
  <2>. SUFFICES ASSUME NEW i \in 0..(u-k)
       PROVE (g.a + i) % HistorySize = (h.a + (k + i)) % HistorySize
    OBVIOUS
  <2>. HIDE DEF k, g, u
  <2>1. k + i \in 0..HistorySize /\ k \in 0..HistorySize /\ i \in 0..HistorySize
    BY <1>1, <1>2, Sizes, SMT
  <2>. DEFINE b == g.a
              x == (h.a + (k + i)) % HistorySize
              y == (b + i) % HistorySize
  <2>2. /\ b \in Ring
        /\ h.a + k < HistorySize => b = h.a + k
        /\ ~(h.a + k < HistorySize) => b = h.a + k - HistorySize
    BY <1>1, <1>4, <2>1, Slots
  <2>3. /\ h.a + (k + i) < HistorySize => x = h.a + (k + i)
        /\ ~(h.a + (k + i) < HistorySize) => x = h.a + (k + i) - HistorySize
    BY <1>1, <2>1, Slots
  <2>. HIDE DEF b, x
  <2>4. /\ b + i < HistorySize => y = b + i
        /\ ~(b + i < HistorySize) => y = b + i - HistorySize
    BY <2>1, <2>2, Slots
  <2>. HIDE DEF y
  <2>5. h.a \in 0..HistorySize-1
    BY <1>1 DEF Ring
  <2>6. x = y
    BY <2>1, <2>2, <2>3, <2>4, <2>5, Sizes, SMT DEF Ring
  <2>. QED BY <2>6 DEF x, y, b
<1>7. g.w = (g.a + Used(g)) % HistorySize
  <2>1. h.w = (h.a + u) % HistorySize
    BY DEF Window
  <2>. HIDE DEF k, g, u
  <2>2. u - k \in 0..(u-k) /\ k + (u - k) = u
    BY <1>1, <1>2, SMT
  <2>. QED BY <1>3, <1>5, <1>6, <2>1, <2>2
<1>8. \A i \in 0..(u-k)-1 : Entry(g, i) = Entry(h, k + i)
  <2>. SUFFICES ASSUME NEW i \in 0..(u-k)-1 PROVE Entry(g, i) = Entry(h, k + i)
    OBVIOUS
  <2>. DEFINE x == (h.a + (k + i)) % HistorySize
  <2>1. /\ x \in Ring
        /\ h.a + (k + i) < HistorySize => x = h.a + (k + i)
        /\ ~(h.a + (k + i) < HistorySize) => x = h.a + (k + i) - HistorySize
        /\ (g.a + i) % HistorySize = x
    <3>. HIDE DEF k, g, u
    <3>1. k + i \in 0..HistorySize /\ i \in 0..(u-k)
      BY <1>1, <1>2, Sizes, SMT
    <3>. QED BY <1>1, <1>6, <3>1, Slots
  <2>2. ~(x \in freed)
    <3>. SUFFICES ASSUME NEW j \in 0..k-1, x = (h.a + j) % HistorySize PROVE FALSE
      OBVIOUS
    <3>. HIDE DEF k, g, u, x
    <3>1. j \in 0..HistorySize /\ j < k + i /\ k + i < HistorySize
      BY <1>1, <1>2, Sizes, SMT
    <3>2. /\ h.a + j < HistorySize => x = h.a + j
          /\ ~(h.a + j < HistorySize) => x = h.a + j - HistorySize
      BY <1>1, <3>1, Slots
    <3>3. h.a \in 0..HistorySize-1
      BY <1>1 DEF Ring
    <3>. QED BY <1>1, <1>2, <2>1, <3>1, <3>2, <3>3, Sizes, SMT
  <2>. HIDE DEF k, g, u, freed
  <2>. QED BY <1>3, <2>1, <2>2 DEF Entry
<1>9. \A i \in 0..Used(g)-1 :
        /\ Entry(g, i).data = m - (Used(g) - 1 - i)
        /\ Entry(g, i).scon.n = Ahead(n, Used(g) - 1 - i)
  <2>. SUFFICES ASSUME NEW i \in 0..(u-k)-1
       PROVE  /\ Entry(g, i).data = m - (u - k - 1 - i)
              /\ Entry(g, i).scon.n = Ahead(n, u - k - 1 - i)
    BY <1>5
  <2>. HIDE DEF k, g
  <2>1. k + i \in 0..u-1 /\ u - 1 - (k + i) = u - k - 1 - i
    <3>. HIDE DEF u
    <3>. QED BY <1>1, <1>2, SMT
  <2>2. /\ Entry(h, k + i).data = m - (u - 1 - (k + i))
        /\ Entry(h, k + i).scon.n = Ahead(n, u - 1 - (k + i))
    BY <2>1 DEF Window
  <2>. HIDE DEF u
  <2>. QED BY <1>8, <2>1, <2>2
<1>. HIDE DEF g
<1>. QED BY <1>5, <1>7, <1>9 DEF Window, g

LEMMA MoreFrames ==
    ASSUME NEW m \in Nat
    PROVE  /\ FrameUpTo(m) \subseteq FrameUpTo(m + 1)
           /\ Hist(m) \subseteq Hist(m + 1)
           /\ ConUpTo(m) \subseteq ConUpTo(m + 1)
<1>1. FrameUpTo(m) \subseteq FrameUpTo(m + 1)
  BY DEF FrameUpTo
<1>2. [Ring -> FrameUpTo(m)] \subseteq [Ring -> FrameUpTo(m + 1)]
  BY <1>1
<1>3. Hist(m) \subseteq Hist(m + 1)
  BY <1>2 DEF Hist
<1>. QED BY <1>1, <1>3 DEF ConUpTo

(* addFrameToHistory(), for a frame that takes the next number.            *)
LEMMA AddedType ==
    ASSUME NEW m \in Nat, NEW h \in Hist(m), NEW f \in FrameUpTo(m + 1)
    PROVE  addFrameToHistory(h, f) \in Hist(m + 1)
<1>1. h \in Hist(m + 1)
  BY MoreFrames
<1>2. CASE h.free = 0
  BY <1>1, <1>2 DEF addFrameToHistory
<1>3. CASE h.free # 0
  <2>1. h \in [free : 0..2*HistorySize-1, w : Ring, a : Ring, fr : [Ring -> FrameUpTo(m + 1)]]
    BY <1>1 DEF Hist
  <2>2. h.free - 1 \in 0..2*HistorySize-1
    BY <1>3, <2>1, Sizes, SMT
  <2>3. (h.w + 1) % HistorySize \in Ring
    BY <2>1, Sizes, Slots
  <2>4. addFrameToHistory(h, f) = [free |-> h.free - 1, w |-> (h.w + 1) % HistorySize,
                                   a |-> h.a, fr |-> [h.fr EXCEPT ![h.w] = f]]
    <3>. DEFINE w == (h.w + 1) % HistorySize
    <3>1. addFrameToHistory(h, f) = [h EXCEPT !.fr[h.w] = f, !.free = @ - 1, !.w = w]
      BY <1>3, <2>1 DEF addFrameToHistory
    <3>. HIDE DEF w
    <3>2. addFrameToHistory(h, f) = [free |-> h.free - 1, w |-> w, a |-> h.a,
                                     fr |-> [h.fr EXCEPT ![h.w] = f]]
      BY <2>1, <3>1
    <3>. QED BY <3>2 DEF w
  <2>. DEFINE g == addFrameToHistory(h, f)
              w == (h.w + 1) % HistorySize
  <2>. HIDE DEF g, w
  <2>5. g = [free |-> h.free - 1, w |-> w, a |-> h.a, fr |-> [h.fr EXCEPT ![h.w] = f]]
    BY <2>4 DEF g, w
  <2>6. w \in Ring
    BY <2>3 DEF w
  <2>7. g \in Hist(m + 1)
    BY <2>1, <2>2, <2>5, <2>6 DEF Hist
  <2>. QED BY <2>7 DEF g
<1>. QED BY <1>2, <1>3

LEMMA AddedWindow ==
    ASSUME NEW m \in Nat, NEW h \in Hist(m), NEW n \in 0..SeqMod-1, NEW f \in FrameUpTo(m + 1),
           Window(h, n, m), h.free # 0, f.data = m + 1,
           NEW o \in 0..SeqMod-1, f.scon.n = o,
           \/ n + 1 < SeqMod /\ o = n + 1
           \/ n + 1 = SeqMod /\ o = 0
    PROVE  Window(addFrameToHistory(h, f), o, m + 1)
<1>. DEFINE g == addFrameToHistory(h, f)
            u == Used(h)
            w == (h.w + 1) % HistorySize
<1>1. /\ h.free \in 1..HistorySize /\ u = HistorySize - h.free /\ u \in 0..HistorySize-1
      /\ h.a \in 0..HistorySize-1 /\ h.w \in Ring /\ h.fr \in [Ring -> FrameUpTo(m)]
      /\ u <= m
  <2>1. h.free <= HistorySize /\ u <= m
    BY DEF Window
  <2>2. /\ h.free \in 0..2*HistorySize-1 /\ h.a \in Ring /\ h.w \in Ring
        /\ h.fr \in [Ring -> FrameUpTo(m)]
    BY DEF Hist
  <2>3. h.free \in 1..HistorySize /\ HistorySize - h.free \in 0..HistorySize-1
    BY <2>1, <2>2, Sizes, SMT
  <2>4. h.a \in 0..HistorySize-1
    BY <2>2 DEF Ring
  <2>. QED BY <2>1, <2>2, <2>3, <2>4, Sizes, SMT DEF Used
<1>2. g.free = h.free - 1 /\ g.w = w /\ g.a = h.a /\ g.fr = [h.fr EXCEPT ![h.w] = f]
  <2>1. h \in [free : 0..2*HistorySize-1, w : Ring, a : Ring, fr : [Ring -> FrameUpTo(m)]]
    BY DEF Hist
  <2>2. g = [h EXCEPT !.fr[h.w] = f, !.free = @ - 1, !.w = w]
    BY <2>1 DEF addFrameToHistory
  <2>. HIDE DEF g, w
  <2>. QED BY <2>1, <2>2
<1>3. Used(g) = u + 1
  <2>. HIDE DEF g, u
  <2>. QED BY <1>1, <1>2, Sizes, SMT DEF Used
<1>4. /\ h.a + u < HistorySize => h.w = h.a + u
      /\ ~(h.a + u < HistorySize) => h.w = h.a + u - HistorySize
  <2>1. h.w = (h.a + u) % HistorySize
    BY DEF Window
  <2>2. h.a \in Ring /\ u \in 0..HistorySize
    BY <1>1, Sizes, SMT DEF Ring
  <2>. HIDE DEF u
  <2>. QED BY <2>1, <2>2, Slots
<1>5. g.w = (g.a + Used(g)) % HistorySize
  <2>. DEFINE x == (h.a + (u + 1)) % HistorySize
  <2>1. /\ h.a + (u + 1) < HistorySize => x = h.a + (u + 1)
        /\ ~(h.a + (u + 1) < HistorySize) => x = h.a + (u + 1) - HistorySize
    <3>. HIDE DEF u
    <3>1. u \in 0..HistorySize-1 /\ HistorySize \in Nat
      BY <1>1, Sizes
    <3>2. u + 1 \in 0..HistorySize
      BY <3>1, SMT
    <3>3. h.a \in Ring
      BY <1>1 DEF Ring
    <3>. QED BY <3>2, <3>3, Slots, Zenon
  <2>2. /\ h.w + 1 < HistorySize => w = h.w + 1
        /\ ~(h.w + 1 < HistorySize) => w = h.w + 1 - HistorySize
    BY <1>1, Sizes, Slots
  <2>. HIDE DEF g, w, x, u
  <2>3. h.w \in 0..HistorySize-1 /\ h.a \in 0..HistorySize-1 /\ u \in 0..HistorySize-1
    BY <1>1 DEF Ring
  <2>4. w = x
    BY <1>4, <2>1, <2>2, <2>3, Sizes, SMT
  <2>. QED BY <1>2, <1>3, <2>4 DEF x
<1>6. \A i \in 0..u : /\ Entry(g, i).data = (m + 1) - ((u + 1) - 1 - i)
                      /\ Entry(g, i).scon.n = Ahead(o, (u + 1) - 1 - i)
  <2>. SUFFICES ASSUME NEW i \in 0..u
       PROVE  /\ Entry(g, i).data = (m + 1) - ((u + 1) - 1 - i)
              /\ Entry(g, i).scon.n = Ahead(o, (u + 1) - 1 - i)
    OBVIOUS
  <2>. DEFINE x == (h.a + i) % HistorySize
  <2>. HIDE DEF g, u
  <2>1. Entry(g, i) = IF x = h.w THEN f ELSE Entry(h, i)
    <3>1. h.a \in Ring /\ i \in 0..HistorySize
      BY <1>1, Sizes, SMT DEF Ring
    <3>2. x \in Ring
      BY <3>1, Slots
    <3>3. Entry(g, i) = g.fr[x] /\ Entry(h, i) = h.fr[x]
      BY <1>2 DEF Entry
    <3>. HIDE DEF x
    <3>. QED BY <1>1, <1>2, <3>2, <3>3
  <2>2. /\ h.a + i < HistorySize => x = h.a + i
        /\ ~(h.a + i < HistorySize) => x = h.a + i - HistorySize
    <3>1. h.a \in Ring /\ i \in 0..HistorySize
      BY <1>1, Sizes, SMT DEF Ring
    <3>. QED BY <3>1, Slots
  <2>. HIDE DEF x
  <2>3. CASE i = u
    <3>1. x = h.w
      BY <1>1, <1>4, <2>2, <2>3
    <3>2. (u + 1) - 1 - i = 0
      BY <1>1, <2>3, SMT
    <3>3. Ahead(o, 0) = o
      <4>1. 0 \in 0..SeqMod-1
        BY Sizes, SMT
      <4>2. Ahead(o, 0) = IF o >= 0 THEN o - 0 ELSE o + SeqMod - 0
        BY <4>1, AheadValue
      <4>. QED BY <4>2, SMT
    <3>. QED BY <1>1, <2>1, <2>3, <3>1, <3>2, <3>3, SMT
  <2>4. CASE i \in 0..u-1
    <3>1. x # h.w
      <4>1. h.a \in 0..HistorySize-1 /\ u \in 0..HistorySize-1
        BY <1>1
      <4>. QED BY <1>4, <2>2, <2>4, <4>1, Sizes, SMT
    <3>2. Entry(h, i).data = m - (u - 1 - i) /\ Entry(h, i).scon.n = Ahead(n, u - 1 - i)
      BY <2>4 DEF Window, u
    <3>3. m - (u - 1 - i) = (m + 1) - ((u + 1) - 1 - i)
      BY <1>1, <2>4, SMT
    <3>4. Ahead(n, u - 1 - i) = Ahead(o, (u + 1) - 1 - i)
      <4>. DEFINE j == u - 1 - i
                  l == (u + 1) - 1 - i
      <4>1. j \in 0..SeqMod-1 /\ l \in 0..SeqMod-1 /\ l = j + 1
        BY <1>1, <2>4, Sizes, SMT
      <4>. HIDE DEF j, l
      <4>2. Ahead(n, j) = IF n >= j THEN n - j ELSE n + SeqMod - j
        BY <4>1, AheadValue
      <4>3. Ahead(o, l) = IF o >= l THEN o - l ELSE o + SeqMod - l
        BY <4>1, AheadValue
      <4>4. Ahead(n, j) = Ahead(o, l)
        BY <4>1, <4>2, <4>3, Sizes, SMT
      <4>. QED BY <4>4 DEF j, l
    <3>. QED BY <2>1, <3>1, <3>2, <3>3, <3>4
  <2>. QED BY <1>1, <2>3, <2>4, SMT
<1>7. g.free <= HistorySize /\ Used(g) <= m + 1
  <2>. HIDE DEF g, u
  <2>. QED BY <1>1, <1>2, <1>3, Sizes, SMT
<1>8. \A i \in 0..Used(g)-1 :
        /\ Entry(g, i).data = (m + 1) - (Used(g) - 1 - i)
        /\ Entry(g, i).scon.n = Ahead(o, Used(g) - 1 - i)
  <2>1. \A i \in 0..(u+1)-1 : i \in 0..u
    BY <1>1, SMT
  <2>. HIDE DEF g, u
  <2>. QED BY <1>3, <1>6, <2>1, Zenon
<1>9. Window(g, o, m + 1)
  <2>. HIDE DEF g
  <2>. QED BY <1>5, <1>7, <1>8, Zenon DEF Window
<1>. QED BY <1>9

(* A new connection begins with an empty ring.                             *)
LEMMA InitialHistory ==
    ASSUME NEW m \in Nat, NEW h \in Hist(m), NEW n
    PROVE  initHistory(h) \in Hist(m) /\ Window(initHistory(h), n, m)
<1>. DEFINE g == initHistory(h)
<1>1. h \in [free : 0..2*HistorySize-1, w : Ring, a : Ring, fr : [Ring -> FrameUpTo(m)]]
  BY DEF Hist
<1>2. g = [free |-> HistorySize, w |-> 0, a |-> 0, fr |-> h.fr]
  <2>1. g = [h EXCEPT !.free = HistorySize, !.w = 0, !.a = 0]
    BY DEF initHistory
  <2>. HIDE DEF g
  <2>. QED BY <1>1, <2>1
<1>3. HistorySize \in 0..2*HistorySize-1 /\ 0 \in Ring /\ 0 % HistorySize = 0
  BY Sizes, SMT DEF Ring
<1>. HIDE DEF g
<1>4. g \in Hist(m)
  BY <1>1, <1>2, <1>3 DEF Hist
<1>5. Used(g) = 0 /\ 0..Used(g)-1 = {} /\ g.free = HistorySize /\ (g.a + Used(g)) = 0 /\ g.w = 0
  BY <1>2, Sizes, SMT DEF Used
<1>6. Window(g, n, m)
  BY <1>3, <1>5, Sizes DEF Window
<1>. QED BY <1>4, <1>6 DEF g

(* An expired timer makes the oldest frame an acknowledge request.         *)
LEMMA AskingKeeps ==
    ASSUME NEW m \in Nat, NEW h \in Hist(m)
    PROVE  LET g == [h EXCEPT !.fr[h.a].scon.c = 3]
           IN  /\ g \in Hist(m) /\ g.fr[h.a] \in FrameUpTo(m)
               /\ \A n : Window(h, n, m) => Window(g, n, m)
<1>. DEFINE g == [h EXCEPT !.fr[h.a].scon.c = 3]
            e == [h.fr[h.a] EXCEPT !.scon.c = 3]
<1>1. h \in [free : 0..2*HistorySize-1, w : Ring, a : Ring, fr : [Ring -> FrameUpTo(m)]]
  BY DEF Hist
<1>2. h.fr[h.a] \in FrameUpTo(m)
  BY <1>1
<1>3. e \in FrameUpTo(m) /\ e.data = h.fr[h.a].data /\ e.scon.n = h.fr[h.a].scon.n
  BY <1>2 DEF FrameUpTo, Con
<1>4. g = [h EXCEPT !.fr = [h.fr EXCEPT ![h.a] = e]]
  BY <1>1
<1>. HIDE DEF e, g
<1>5. /\ g.free = h.free /\ g.w = h.w /\ g.a = h.a /\ g.fr = [h.fr EXCEPT ![h.a] = e]
      /\ g \in Hist(m)
  BY <1>1, <1>3, <1>4 DEF Hist
<1>6. \A i \in 0..HistorySize : /\ Entry(g, i).data = Entry(h, i).data
                                /\ Entry(g, i).scon.n = Entry(h, i).scon.n
  <2>. SUFFICES ASSUME NEW i \in 0..HistorySize
       PROVE  /\ Entry(g, i).data = Entry(h, i).data
              /\ Entry(g, i).scon.n = Entry(h, i).scon.n
    OBVIOUS
  <2>. DEFINE x == (h.a + i) % HistorySize
  <2>1. x \in Ring
    BY <1>1, Slots
  <2>2. Entry(g, i) = g.fr[x] /\ Entry(h, i) = h.fr[x]
    BY <1>5 DEF Entry
  <2>. HIDE DEF x
  <2>. QED BY <1>1, <1>3, <1>5, <2>1, <2>2
<1>7. ASSUME NEW n, Window(h, n, m) PROVE Window(g, n, m)
  <2>1. Used(g) = Used(h) /\ Used(h) \in 0..HistorySize
    BY <1>1, <1>5, <1>7, Sizes, SMT DEF Used, Window
  <2>2. \A i \in 0..Used(h)-1 : i \in 0..HistorySize
    BY <2>1, Sizes, SMT
  <2>. QED BY <1>5, <1>6, <1>7, <2>1, <2>2 DEF Window
<1>. QED BY <1>1, <1>3, <1>5, <1>7 DEF g

-----------------------------------------------------------------------------
(* The handlers.                                                           *)
LEMMA ClearedType ==
    ASSUME NEW m \in Nat, NEW free \in {0, HistorySize}
    PROVE  Cleared(free) \in ConUpTo(m) /\ ~Opened(Cleared(free))
<1>1. NoFrame \in FrameUpTo(m) /\ NoFrame.scon \in Con
  BY Sizes, SMT DEF NoFrame, FrameUpTo, Con, None
<1>2. 0 \in Ring /\ free \in 0..2*HistorySize-1 /\ 0 \in 0..RetryCount
  BY Sizes, BoundAssumption, SMT DEF Ring
<1>. DEFINE h == [History0 EXCEPT !.free = free]
<1>3. h = [free |-> free, w |-> 0, a |-> 0, fr |-> [i \in Ring |-> NoFrame]]
  BY DEF History0
<1>4. h \in Hist(m)
  <2>. HIDE DEF h
  <2>1. [i \in Ring |-> NoFrame] \in [Ring -> FrameUpTo(m)]
    BY <1>1
  <2>. QED BY <1>2, <1>3, <2>1 DEF Hist
<1>5. Cleared(free) = [st |-> "Idle", recv |-> NoFrame.scon, send |-> NoFrame.scon,
                       hist |-> h, timer |-> 0, retry |-> 0, used |-> 0]
  BY DEF Cleared
<1>. HIDE DEF h
<1>. QED BY <1>1, <1>2, <1>4, <1>5 DEF ConUpTo, States, Opened

LEMMA Sequences ==
    ASSUME NEW S
    PROVE  /\ <<>> \in Seq(S)
           /\ \A f \in S : <<f>> \in Seq(S)
           /\ \A f \in S : \A ok \in BOOLEAN : Sends(f, ok) \in Seq(S)
           /\ \A s, t \in Seq(S) : s \o t \in Seq(S)
BY SMT DEF Sends

LEMMA SequenceRange ==
    ASSUME NEW S, NEW T, NEW s \in Seq(S)
    PROVE  /\ Range(s) \subseteq S
           /\ S \subseteq T => s \in Seq(T)
<1>1. DOMAIN s = 1..Len(s) /\ \A i \in 1..Len(s) : s[i] \in S
  BY SMT
<1>. QED BY <1>1, SMT DEF Range

LEMMA DoneType ==
    ASSUME NEW m \in Nat, NEW d \in Nat, NEW k \in ConUpTo(m), NEW out \in Seq(FrameUpTo(m))
    PROVE  Done(k, out) \in Answer(m, d) /\ Done(k, out).con = k
<1>1. 0 \in 0..d
  BY SMT
<1>. QED BY <1>1 DEF Done, Answer, None

LEMMA WipedHandles ==
    ASSUME NEW m \in Nat, NEW d \in Nat, NEW k, NEW out \in Seq(FrameUpTo(m))
    PROVE  Handles(k, Wiped(out), m, d)
<1>. DEFINE c == Cleared(HistorySize)
<1>1. c \in ConUpTo(m) /\ ~Opened(c)
  BY ClearedType
<1>. HIDE DEF c
<1>2. Wiped(out) = Done(c, out)
  BY DEF Wiped, c
<1>. QED BY <1>1, <1>2, DoneType DEF Handles, WindowIfOpen

LEMMA FramesOfRecord ==
    ASSUME NEW m \in Nat, NEW k \in ConUpTo(m), NEW d \in 0..m
    PROVE  Header(k, d) \in FrameUpTo(m) /\ CloseFrame(k) \in Seq(FrameUpTo(m))
<1>1. k.recv \in Con /\ k.send \in Con
  BY DEF ConUpTo
<1>2. Header(k, d) \in FrameUpTo(m)
  BY <1>1 DEF Header, FrameUpTo
<1>3. Masked(k.recv) \in Con /\ Masked(k.send) \in Con
  BY <1>1 DEF Masked, Con
<1>4. Closing(k).recv = Masked(k.recv) /\ Closing(k).send = Masked(k.send)
  BY DEF Closing, ConUpTo
<1>5. None \in 0..m
  BY SMT DEF None
<1>6. Header(Closing(k), None) \in FrameUpTo(m)
  BY <1>3, <1>4, <1>5 DEF Header, FrameUpTo
<1>. QED BY <1>2, <1>6, Sequences DEF CloseFrame

(* The handshake.  Only a frame with code 1 or less is answered with the   *)
(* next code.                                                              *)
LEMMA InitHandles ==
    ASSUME NEW m \in Nat, NEW d \in Nat, NEW k \in ConUpTo(m), ~Opened(k),
           NEW f \in FrameUpTo(d), NEW ok \in BOOLEAN
    PROVE  Handles(k, InitFrame(k, f, ok), m, d)
<1>. DEFINE next == InitNext(k.st, f)
            final == k.st = "Init3" /\ f.rcon.c = 2
            recv == IF final THEN f.rcon ELSE Bumped(f.rcon)
            nums == [k EXCEPT !.recv = recv, !.send = f.scon]
            bye == [scon |-> Masked(f.rcon), rcon |-> Masked(f.scon), data |-> None]
            isClose == f.scon.c = 0 /\ f.rcon.c = 0
            hist == IF next = "Connected" THEN initHistory(k.hist) ELSE k.hist
            open == [nums EXCEPT !.st = next, !.timer = 1,
                                 !.hist = IF next = "Connected" THEN initHistory(@) ELSE @]
<1>1. f.scon \in Con /\ f.rcon \in Con
  BY DEF FrameUpTo
<1>2. CASE next = "Error"
  <2>. DEFINE out == IF ~isClose /\ ok THEN <<bye>> ELSE <<>>
  <2>1. bye \in FrameUpTo(m)
    BY <1>1 DEF FrameUpTo, Masked, Con, None
  <2>2. out \in Seq(FrameUpTo(m))
    <3>. HIDE DEF bye
    <3>. QED BY <2>1, Sequences
  <2>3. InitFrame(k, f, ok) = Wiped(out)
    BY <1>2 DEF InitFrame
  <2>. HIDE DEF out
  <2>. QED BY <2>2, <2>3, WipedHandles
<1>3. CASE next # "Error"
  <2>1. f.rcon.c \in {0, 1, 2} /\ (~final => f.rcon.c \in {0, 1}) /\ next \in States
    BY <1>3 DEF InitNext, States
  <2>2. recv \in Con
    BY <1>1, <2>1 DEF Bumped, Con
  <2>. HIDE DEF recv, next
  <2>3. /\ nums \in ConUpTo(m) /\ nums.st = k.st /\ nums.hist = k.hist
        /\ nums.recv = recv
    BY <1>1, <2>2 DEF ConUpTo
  <2>. HIDE DEF nums
  <2>4. hist \in Hist(m) /\ (next = "Connected" => \A n : Window(hist, n, m))
    <3>1. k.hist \in Hist(m)
      BY DEF ConUpTo
    <3>. QED BY <3>1, InitialHistory
  <2>. HIDE DEF hist
  <2>5. open = [nums EXCEPT !.st = next, !.timer = 1, !.hist = hist]
    BY <2>3 DEF hist
  <2>. HIDE DEF open
  <2>6. open \in ConUpTo(m) /\ open.st = next /\ open.hist = hist
    BY <2>1, <2>3, <2>4, <2>5 DEF ConUpTo
  <2>7. next # "WaitAck"
    BY DEF InitNext, next
  <2>8. <<Header(nums, None)>> \in Seq(FrameUpTo(m)) /\ <<>> \in Seq(FrameUpTo(m))
    <3>1. None \in 0..m
      BY SMT DEF None
    <3>. QED BY <2>3, <3>1, FramesOfRecord, Sequences
  <2>9. CASE ~final /\ ~ok
    <3>1. InitFrame(k, f, ok) = Done(nums, <<>>)
      BY <1>3, <2>9 DEF InitFrame, nums, next, recv
    <3>2. ~Opened(nums)
      BY <2>3 DEF Opened
    <3>3. Done(nums, <<>>) \in Answer(m, d) /\ Done(nums, <<>>).con = nums
      BY <2>3, <2>8, DoneType
    <3>. QED BY <3>1, <3>2, <3>3 DEF Handles, WindowIfOpen
  <2>10. CASE final \/ ok
    <3>. DEFINE out == IF final THEN <<>> ELSE <<Header(nums, None)>>
    <3>1. InitFrame(k, f, ok) = Done(open, out)
      BY <1>3, <2>10 DEF InitFrame, nums, open, next, recv
    <3>2. out \in Seq(FrameUpTo(m))
      BY <2>8
    <3>. HIDE DEF out, final
    <3>3. WindowIfOpen(open, m)
      BY <2>4, <2>6, <2>7 DEF WindowIfOpen, Opened
    <3>. QED BY <2>6, <3>1, <3>2, <3>3, DoneType DEF Handles
  <2>. QED BY <2>9, <2>10
<1>. QED BY <1>2, <1>3

(* A record that differs from an open one in neither the history nor the   *)
(* number of the last frame has the same window.                           *)
LEMMA SameWindow ==
    ASSUME NEW m \in Nat, NEW d \in Nat, NEW k, Opened(k), NEW j \in ConUpTo(m),
           j.hist = k.hist, j.recv.n = k.recv.n, NEW r \in Answer(m, d), r.con = j
    PROVE  Handles(k, r, m, d)
BY DEF Handles, WindowIfOpen

LEMMA ConnectedHandles ==
    ASSUME NEW m \in Nat, NEW d \in Nat, NEW k \in ConUpTo(m), Opened(k),
           NEW f \in FrameUpTo(d), NEW ok \in BOOLEAN
    PROVE  Handles(k, ConnectedFrame(k, f, ok), m, d)
<1>. DEFINE resent == IF f.rcon.c = 3 THEN Kept(k.hist) ELSE <<>>
            send == IF IsNext(k, f) THEN [n |-> f.scon.n, c |-> 2]
                    ELSE IF IsLate(k, f) THEN [k.send EXCEPT !.c = 2] ELSE k.send
            k1 == [k EXCEPT !.timer = 1, !.send = send]
            errorAck == [Header(k, None) EXCEPT !.rcon.c = 3]
            answer == IF IsLate(k, f) THEN <<errorAck>>
                      ELSE IF f.scon.c = 3 THEN <<Header(k1, None)>> ELSE <<>>
            out == resent \o IF resent = <<>> /\ ~ok THEN <<>> ELSE answer
            closed == [k EXCEPT !.st = "Idle", !.timer = 0]
            heard1 == [k EXCEPT !.timer = 1]
<1>1. f.scon \in Con /\ f.rcon \in Con /\ f.data \in 0..d /\ None \in 0..d /\ None \in 0..m
  BY SMT DEF FrameUpTo, None
<1>2. k.recv \in Con /\ k.send \in Con /\ k.hist \in Hist(m)
  BY DEF ConUpTo
<1>3. k1 \in ConUpTo(m) /\ k1.hist = k.hist /\ k1.recv = k.recv
  <2>1. send \in Con
    BY <1>1, <1>2 DEF Con
  <2>. HIDE DEF send
  <2>. QED BY <2>1 DEF ConUpTo
<1>4. out \in Seq(FrameUpTo(m))
  <2>1. resent \in Seq(FrameUpTo(m))
    BY <1>2, KeptType, Sequences
  <2>2. Header(k, None) \in FrameUpTo(m)
    BY <1>1, FramesOfRecord
  <2>3. errorAck \in FrameUpTo(m)
    BY <2>2 DEF FrameUpTo, Con
  <2>4. Header(k1, None) \in FrameUpTo(m)
    <3>. HIDE DEF k1
    <3>. QED BY <1>1, <1>3, FramesOfRecord
  <2>5. answer \in Seq(FrameUpTo(m))
    <3>. HIDE DEF errorAck, k1
    <3>. QED BY <2>3, <2>4, Sequences
  <2>. HIDE DEF resent, answer
  <2>. QED BY <2>1, <2>5, Sequences
<1>5. <<>> \in Seq(FrameUpTo(m))
  BY Sequences
<1>6. CASE f.scon.c = 0
  <2>1. ConnectedFrame(k, f, ok) = Wiped(<<>>)
    BY <1>6 DEF ConnectedFrame
  <2>. QED BY <1>5, <2>1, WipedHandles
<1>7. CASE f.scon.c = 1
  <2>1. ConnectedFrame(k, f, ok) = [Done(closed, <<>>) EXCEPT !.again = TRUE]
    BY <1>7 DEF ConnectedFrame
  <2>2. closed \in ConUpTo(m) /\ ~Opened(closed)
    BY DEF ConUpTo, States, Opened
  <2>. HIDE DEF closed
  <2>3. Done(closed, <<>>) \in Answer(m, d) /\ Done(closed, <<>>).con = closed
    BY <1>5, <2>2, DoneType
  <2>. QED BY <2>1, <2>2, <2>3 DEF Answer, Handles, WindowIfOpen
<1>8. CASE f.scon.c > 1
  <2>1. CASE resent # <<>> /\ ~ok
    <3>1. ConnectedFrame(k, f, ok) = Done(heard1, <<>>)
      BY <1>1, <1>8, <2>1 DEF ConnectedFrame, Con
    <3>2. heard1 \in ConUpTo(m) /\ heard1.hist = k.hist /\ heard1.recv = k.recv
      BY DEF ConUpTo
    <3>. HIDE DEF heard1
    <3>3. Done(heard1, <<>>) \in Answer(m, d) /\ Done(heard1, <<>>).con = heard1
      BY <1>5, <3>2, DoneType
    <3>. QED BY <3>1, <3>2, <3>3, SameWindow
  <2>2. CASE ~(resent # <<>> /\ ~ok)
    <3>. DEFINE x == IF IsNext(k, f) THEN f.data ELSE None
    <3>1. ConnectedFrame(k, f, ok) = [Done(k1, out) EXCEPT !.data = x]
      BY <1>1, <1>8, <2>2 DEF ConnectedFrame, Con
    <3>2. x \in 0..d
      BY <1>1
    <3>. HIDE DEF k1, out, x
    <3>3. Done(k1, out) \in Answer(m, d) /\ Done(k1, out).con = k1
      BY <1>3, <1>4, DoneType
    <3>4. ConnectedFrame(k, f, ok) \in Answer(m, d) /\ ConnectedFrame(k, f, ok).con = k1
      BY <3>1, <3>2, <3>3 DEF Answer
    <3>. QED BY <1>3, <3>4, SameWindow
  <2>. QED BY <2>1, <2>2
<1>. QED BY <1>1, <1>6, <1>7, <1>8, SMT DEF Con

LEMMA WaitAckHandles ==
    ASSUME NEW m \in Nat, NEW d \in Nat, NEW k \in ConUpTo(m), Opened(k),
           NEW f \in FrameUpTo(d), NEW ok \in BOOLEAN
    PROVE  Handles(k, WaitAckFrame(k, f, ok), m, d)
<1>. DEFINE k1 == [k EXCEPT !.timer = 1]
            recv == [f.rcon EXCEPT !.c = 2]
            answered == [k1 EXCEPT !.st = "Connected", !.send = f.scon, !.recv = recv]
            closed == [k EXCEPT !.st = "Idle", !.timer = 0]
            connected == [k1 EXCEPT !.st = "Connected"]
<1>1. f.scon \in Con /\ f.rcon \in Con /\ f.data \in 0..d /\ None \in 0..m
  BY SMT DEF FrameUpTo, None
<1>2. k.recv \in Con /\ k.send \in Con /\ k.hist \in Hist(m)
  BY DEF ConUpTo
<1>3. k1 \in ConUpTo(m) /\ k1.hist = k.hist /\ k1.recv = k.recv
  BY DEF ConUpTo
<1>4. <<>> \in Seq(FrameUpTo(m)) /\ Kept(k.hist) \in Seq(FrameUpTo(m))
  BY <1>2, Sequences, KeptType
<1>5. CASE f.rcon.c = 0
  <2>1. WaitAckFrame(k, f, ok) = Wiped(<<>>)
    BY <1>5 DEF WaitAckFrame
  <2>. QED BY <1>4, <2>1, WipedHandles
<1>6. CASE f.rcon.c = 1
  <2>1. WaitAckFrame(k, f, ok) = [Done(closed, <<>>) EXCEPT !.again = TRUE]
    BY <1>6 DEF WaitAckFrame
  <2>2. closed \in ConUpTo(m) /\ ~Opened(closed)
    BY DEF ConUpTo, States, Opened
  <2>. HIDE DEF closed
  <2>3. Done(closed, <<>>) \in Answer(m, d) /\ Done(closed, <<>>).con = closed
    BY <1>4, <2>2, DoneType
  <2>. QED BY <2>1, <2>2, <2>3 DEF Answer, Handles, WindowIfOpen
<1>7. CASE f.rcon.c = 2
  <2>1. WaitAckFrame(k, f, ok) = [Done(connected, <<>>) EXCEPT !.data = f.data]
    BY <1>7 DEF WaitAckFrame
  <2>2. connected \in ConUpTo(m) /\ connected.hist = k.hist /\ connected.recv = k.recv
    BY DEF ConUpTo, States
  <2>. HIDE DEF connected
  <2>3. Done(connected, <<>>) \in Answer(m, d) /\ Done(connected, <<>>).con = connected
    BY <1>4, <2>2, DoneType
  <2>4. WaitAckFrame(k, f, ok) \in Answer(m, d) /\ WaitAckFrame(k, f, ok).con = connected
    BY <1>1, <2>1, <2>3 DEF Answer
  <2>. QED BY <2>2, <2>4, SameWindow
<1>8. CASE f.rcon.c = 3 /\ f.rcon = k.recv
  <2>. DEFINE out == IF f.data = None THEN Sends(Header(answered, None), ok) ELSE <<>>
  <2>1. WaitAckFrame(k, f, ok) = [Done(answered, out) EXCEPT !.data = f.data]
    BY <1>8 DEF WaitAckFrame
  <2>2. recv \in Con /\ recv.n = k.recv.n
    BY <1>1, <1>8 DEF Con
  <2>. HIDE DEF recv
  <2>3. answered \in ConUpTo(m) /\ answered.hist = k.hist /\ answered.recv = recv
    BY <1>1, <2>2 DEF ConUpTo, States
  <2>. HIDE DEF answered
  <2>4. out \in Seq(FrameUpTo(m))
    <3>1. Header(answered, None) \in FrameUpTo(m)
      BY <1>1, <2>3, FramesOfRecord
    <3>. QED BY <3>1, Sequences
  <2>. HIDE DEF out
  <2>5. Done(answered, out) \in Answer(m, d) /\ Done(answered, out).con = answered
    BY <2>3, <2>4, DoneType
  <2>6. WaitAckFrame(k, f, ok) \in Answer(m, d) /\ WaitAckFrame(k, f, ok).con = answered
    BY <1>1, <2>1, <2>5, Zenon, SMT DEF Answer
  <2>. QED BY <2>2, <2>3, <2>6, SameWindow
<1>9. CASE f.rcon.c = 3 /\ f.rcon # k.recv
  <2>. DEFINE out == IF ok THEN Kept(k.hist) ELSE <<>>
  <2>1. WaitAckFrame(k, f, ok) = Done(k1, out)
    BY <1>9 DEF WaitAckFrame
  <2>2. out \in Seq(FrameUpTo(m))
    BY <1>4
  <2>. HIDE DEF k1, out
  <2>3. Done(k1, out) \in Answer(m, d) /\ Done(k1, out).con = k1
    BY <1>3, <2>2, DoneType
  <2>. QED BY <1>3, <2>1, <2>3, SameWindow
<1>. QED BY <1>1, <1>5, <1>6, <1>7, <1>8, <1>9, SMT DEF Con

LEMMA FrameHandles ==
    ASSUME NEW m \in Nat, NEW d \in Nat, NEW k \in ConUpTo(m),
           NEW f \in FrameUpTo(d), NEW ok \in BOOLEAN
    PROVE  Handles(k, FrameRec(k, f, ok), m, d)
BY InitHandles, ConnectedHandles, WaitAckHandles DEF FrameRec, Opened

(* receiveCb(): the acknowledgement, then the frame, which a new           *)
(* connection's first frame is handled twice.                              *)
LEMMA AcknowledgeKeeps ==
    ASSUME NEW m \in Nat, NEW d \in Nat, NEW k \in ConUpTo(m), NEW f \in FrameUpTo(d)
    PROVE  /\ Acknowledge(k, f) \in ConUpTo(m)
           /\ WindowIfOpen(k, m) => WindowIfOpen(Acknowledge(k, f), m)
<1>. DEFINE g == deleteAckedFrameFromHistory(k.hist, f.rcon.n)
            j == Acknowledge(k, f)
<1>1. f.rcon.n \in 0..SeqMod-1 /\ k.hist \in Hist(m) /\ k.recv.n \in 0..SeqMod-1
  BY DEF FrameUpTo, Con, ConUpTo
<1>2. g \in Hist(m) /\ (Window(k.hist, k.recv.n, m) => Window(g, k.recv.n, m))
  BY <1>1, DeletedType, DeletedWindow
<1>. HIDE DEF g
<1>3. j = [k EXCEPT !.used = 1, !.hist = g]
  BY DEF Acknowledge, g, ConUpTo
<1>. HIDE DEF j
<1>4. j \in ConUpTo(m) /\ j.hist = g /\ j.recv = k.recv /\ j.st = k.st
  BY <1>2, <1>3 DEF ConUpTo
<1>. QED BY <1>2, <1>4 DEF WindowIfOpen, Opened, j

LEMMA ResultHandles ==
    ASSUME NEW m \in Nat, NEW d \in Nat, NEW k \in ConUpTo(m),
           NEW f \in FrameUpTo(d), NEW ok \in BOOLEAN
    PROVE  Handles(k, Result(k, f, ok), m, d)
<1>. DEFINE r == FrameRec(k, f, ok)
            j == Acknowledge(r.con, f)
            q == FrameRec(j, f, ok)
<1>1. Handles(k, r, m, d)
  BY FrameHandles
<1>2. Result(k, f, ok) = IF r.again THEN q ELSE r
  BY DEF Result
<1>3. r.con \in ConUpTo(m)
  BY <1>1 DEF Handles, Answer
<1>. HIDE DEF r
<1>4. j \in ConUpTo(m) /\ (WindowIfOpen(r.con, m) => WindowIfOpen(j, m))
  BY <1>3, AcknowledgeKeeps
<1>. HIDE DEF j
<1>5. Handles(j, q, m, d)
  BY <1>4, FrameHandles
<1>. HIDE DEF q
<1>. QED BY <1>1, <1>2, <1>4, <1>5 DEF Handles

(* An expired timer.                                                       *)
LEMMA ConnectedTimeoutHandles ==
    ASSUME NEW m \in Nat, NEW k \in ConUpTo(m), Opened(k), NEW ok \in BOOLEAN
    PROVE  Handles(k, ConnectedTimeout(k, ok), m, 0)
<1>. DEFINE k1 == [k EXCEPT !.retry = @ + 1, !.timer = 1]
            g == [k.hist EXCEPT !.fr[k.hist.a].scon.c = 3]
            k2 == [k1 EXCEPT !.hist = g]
            bye == IF ok THEN CloseFrame(k) ELSE <<>>
<1>1. k.hist \in Hist(m) /\ k.retry \in 0..RetryCount
  BY DEF ConUpTo
<1>2. <<>> \in Seq(FrameUpTo(m)) /\ 0 \in 0..m
  BY Sequences, SMT
<1>3. CASE ~(k.hist.free < HistorySize /\ k.retry < RetryCount)
  <2>1. ConnectedTimeout(k, ok) = Wiped(bye)
    BY <1>3 DEF ConnectedTimeout
  <2>2. bye \in Seq(FrameUpTo(m))
    BY <1>2, FramesOfRecord
  <2>. HIDE DEF bye
  <2>. QED BY <2>1, <2>2, WipedHandles
<1>4. CASE k.hist.free < HistorySize /\ k.retry < RetryCount
  <2>1. k.retry + 1 \in 0..RetryCount
    BY <1>1, <1>4, BoundAssumption, SMT
  <2>2. k1 \in ConUpTo(m) /\ k1.hist = k.hist /\ k1.recv = k.recv /\ k1.st = k.st
    BY <2>1 DEF ConUpTo
  <2>3. CASE Kept(k.hist) = <<>>
    <3>1. ConnectedTimeout(k, ok) = Done(k1, <<>>)
      BY <1>4, <2>3 DEF ConnectedTimeout
    <3>. HIDE DEF k1
    <3>2. Done(k1, <<>>) \in Answer(m, 0) /\ Done(k1, <<>>).con = k1
      BY <1>2, <2>2, DoneType
    <3>. QED BY <2>2, <3>1, <3>2, SameWindow
  <2>4. CASE Kept(k.hist) # <<>>
    <3>. DEFINE k3 == [k1 EXCEPT !.hist.fr[k.hist.a].scon.c = 3]
                out == Sends(k3.hist.fr[k.hist.a], ok)
    <3>1. ConnectedTimeout(k, ok) = Done(k3, out)
      BY <1>4, <2>4 DEF ConnectedTimeout
    <3>2. k3 = k2
      BY <2>2 DEF ConUpTo
    <3>3. /\ g \in Hist(m) /\ g.fr[k.hist.a] \in FrameUpTo(m)
          /\ \A n : Window(k.hist, n, m) => Window(g, n, m)
      BY <1>1, AskingKeeps
    <3>. HIDE DEF g, k1, k3
    <3>4. k2 \in ConUpTo(m) /\ k2.hist = g /\ k2.recv = k.recv /\ k2.st = k.st
      BY <2>2, <3>3 DEF ConUpTo
    <3>. HIDE DEF k2
    <3>5. out \in Seq(FrameUpTo(m))
      BY <3>2, <3>3, <3>4, Sequences
    <3>. HIDE DEF out
    <3>6. Done(k2, out) \in Answer(m, 0) /\ Done(k2, out).con = k2
      BY <3>4, <3>5, DoneType
    <3>7. WindowIfOpen(k, m) => WindowIfOpen(k2, m)
      BY <3>3, <3>4 DEF WindowIfOpen, Opened
    <3>. QED BY <3>1, <3>2, <3>6, <3>7 DEF Handles
  <2>. QED BY <2>3, <2>4
<1>. QED BY <1>3, <1>4

LEMMA TimeoutHandles ==
    ASSUME NEW m \in Nat, NEW k \in ConUpTo(m), NEW ok \in BOOLEAN
    PROVE  Handles(k, Timeout(k, ok), m, 0)
<1>. DEFINE j == [k EXCEPT !.timer = 0]
            bye == IF ok THEN CloseFrame(k) ELSE <<>>
<1>1. j \in ConUpTo(m) /\ j.hist = k.hist /\ j.recv = k.recv /\ j.st = k.st
  BY DEF ConUpTo
<1>2. <<>> \in Seq(FrameUpTo(m)) /\ bye \in Seq(FrameUpTo(m))
  <2>1. 0 \in 0..m
    BY SMT
  <2>. QED BY <2>1, Sequences, FramesOfRecord
<1>3. WindowIfOpen(k, m) => WindowIfOpen(j, m)
  <2>. HIDE DEF j
  <2>. QED BY <1>1 DEF WindowIfOpen, Opened
<1>4. CASE k.st = "Idle"
  <2>1. Timeout(k, ok) = Done(j, <<>>)
    BY <1>4 DEF Timeout
  <2>. HIDE DEF j
  <2>2. Done(j, <<>>) \in Answer(m, 0) /\ Done(j, <<>>).con = j
    BY <1>1, <1>2, DoneType
  <2>. QED BY <1>3, <2>1, <2>2 DEF Handles
<1>5. CASE k.st = "Connected"
  <2>1. Timeout(k, ok) = ConnectedTimeout(j, ok)
    BY <1>5 DEF Timeout
  <2>. HIDE DEF j
  <2>2. Handles(j, ConnectedTimeout(j, ok), m, 0)
    BY <1>1, <1>5, ConnectedTimeoutHandles DEF Opened
  <2>. QED BY <1>3, <2>1, <2>2 DEF Handles
<1>6. CASE k.st # "Idle" /\ k.st # "Connected"
  <2>1. Timeout(k, ok) = Wiped(bye)
    BY <1>6 DEF Timeout
  <2>. HIDE DEF bye
  <2>. QED BY <1>2, <2>1, WipedHandles
<1>. QED BY <1>4, <1>5, <1>6

LEMMA NumberFields ==
    ASSUME NEW v \in Con, NEW o \in 0..SeqMod-1, NEW c \in 0..3
    PROVE  /\ [v EXCEPT !.n = o, !.c = c] = [n |-> o, c |-> c]
           /\ [v EXCEPT !.c = c] = [n |-> v.n, c |-> c]
<1>. DEFINE w == [v EXCEPT !.n = o]
<1>1. w \in Con /\ w.n = o
  BY DEF Con
<1>2. [v EXCEPT !.n = o, !.c = c] = [w EXCEPT !.c = c]
  OBVIOUS
<1>. HIDE DEF w
<1>3. [w EXCEPT !.c = c] = [n |-> o, c |-> c]
  BY <1>1 DEF Con
<1>4. [v EXCEPT !.c = c] = [n |-> v.n, c |-> c]
  BY DEF Con
<1>. QED BY <1>2, <1>3, <1>4

(* The number a data frame gets, and the record that sends it.             *)
Given(k) == [n |-> (k.recv.n + 1) % SeqMod, c |-> IF k.hist.free <= 1 THEN 3 ELSE k.recv.c]

LEMMA NextNumber ==
    \A n \in 0..SeqMod-1 : /\ (n + 1) % SeqMod \in 0..SeqMod-1
                           /\ \/ n + 1 < SeqMod /\ (n + 1) % SeqMod = n + 1
                              \/ n + 1 = SeqMod /\ (n + 1) % SeqMod = 0
BY Sizes, SMT

LEMMA SendRecord ==
    ASSUME NEW m \in Nat, NEW k \in ConUpTo(m), NEW ok \in BOOLEAN
    PROVE  LET r == ConnectedSend(k, m + 1, ok)
           IN  \E f \in FrameUpTo(m + 1) :
                 /\ f.scon = Given(k) /\ f.rcon = k.send /\ f.data = m + 1
                 /\ r.con.send = k.send
                 /\ ok => /\ r.out = <<f>> /\ r.con.hist = addFrameToHistory(k.hist, f)
                          /\ r.con.recv = [n |-> Given(k).n,
                                           c |-> IF Given(k).c = 3 THEN 2 ELSE Given(k).c]
                          /\ r.con.st = IF k.hist.free <= 1 THEN "WaitAck" ELSE k.st
                 /\ ~ok => /\ r.out = <<>> /\ r.con.hist = k.hist /\ r.con.recv = Given(k)
                           /\ r.con.st = k.st
                 /\ r.con \in ConUpTo(m + 1)
<1>. DEFINE last == k.hist.free <= 1
            o == (k.recv.n + 1) % SeqMod
            c == IF last THEN 3 ELSE k.recv.c
            k1 == [k EXCEPT !.timer = 1, !.recv.n = (@ + 1) % SeqMod,
                            !.recv.c = IF last THEN 3 ELSE @]
            f == Header(k1, m + 1)
            g == addFrameToHistory(k.hist, f)
            st == IF last THEN "WaitAck" ELSE k.st
            c2 == IF c = 3 THEN 2 ELSE c
            k2 == [k1 EXCEPT !.recv.c = IF @ = 3 THEN 2 ELSE @,
                             !.hist = addFrameToHistory(@, f),
                             !.st = IF last THEN "WaitAck" ELSE @]
            r == ConnectedSend(k, m + 1, ok)
<1>1. k.hist \in Hist(m) /\ k.recv \in Con /\ k.recv.n \in 0..SeqMod-1 /\ m + 1 \in Nat
  BY SMT DEF ConUpTo, Con
<1>2. o \in 0..SeqMod-1
  BY <1>1, NextNumber
<1>3. k \in ConUpTo(m + 1) /\ m + 1 \in 0..(m + 1)
  BY MoreFrames, SMT
<1>4. /\ k1 \in ConUpTo(m + 1) /\ k1.recv = [n |-> o, c |-> c] /\ k1.hist = k.hist
      /\ k1.st = k.st /\ k1.send = k.send
  <2>1. c \in 0..3
    BY <1>1 DEF Con
  <2>2. [n |-> o, c |-> c] \in Con
    BY <1>2, <2>1 DEF Con
  <2>3. k1 = [k EXCEPT !.timer = 1, !.recv = [n |-> o, c |-> c]]
    <3>. DEFINE v == [k.recv EXCEPT !.n = o, !.c = c]
    <3>1. k1 = [k EXCEPT !.timer = 1, !.recv = v]
      <4>1. k1 = [k EXCEPT !.timer = 1, !.recv.n = o, !.recv.c = c]
        BY <1>3 DEF ConUpTo
      <4>. HIDE DEF o, c, k1
      <4>. QED BY <1>3, <4>1 DEF ConUpTo
    <3>2. v = [n |-> o, c |-> c]
      <4>. HIDE DEF o, c
      <4>. QED BY <1>1, <1>2, <2>1, NumberFields
    <3>. HIDE DEF k1, o, c, v
    <3>. QED BY <3>1, <3>2
  <2>. HIDE DEF k1, o, c
  <2>. QED BY <1>3, <2>2, <2>3 DEF ConUpTo
<1>5. /\ f \in FrameUpTo(m + 1) /\ f.data = m + 1 /\ f.scon = [n |-> o, c |-> c]
      /\ f.rcon = k.send
  <2>. HIDE DEF k1, o, c
  <2>1. f \in FrameUpTo(m + 1)
    BY <1>1, <1>3, <1>4, FramesOfRecord
  <2>. QED BY <1>4, <2>1 DEF Header
<1>6. g \in Hist(m + 1)
  <2>. HIDE DEF f
  <2>. QED BY <1>1, <1>5, AddedType
<1>7. /\ k2 \in ConUpTo(m + 1) /\ k2.recv = [n |-> o, c |-> c2] /\ k2.hist = g
      /\ k2.send = k.send /\ k2.st = st
  <2>1. k2 = [k1 EXCEPT !.recv = [n |-> o, c |-> c2], !.hist = g, !.st = st]
    <3>. DEFINE v == [k1.recv EXCEPT !.c = c2]
    <3>1. k2 = [k1 EXCEPT !.recv = v, !.hist = g, !.st = st]
      <4>. HIDE DEF k1, o, f, c
      <4>. QED BY <1>4 DEF ConUpTo
    <3>2. v = [n |-> o, c |-> c2]
      <4>1. k1.recv \in Con /\ c2 \in 0..3
        <5>1. k1.recv \in Con
          <6>. HIDE DEF k1
          <6>. QED BY <1>4 DEF ConUpTo
        <5>2. c2 \in 0..3
          BY <1>1 DEF Con
        <5>. QED BY <5>1, <5>2
      <4>. HIDE DEF k1, o, c, c2
      <4>2. k1.recv.n = o /\ o \in 0..SeqMod-1
        BY <1>2, <1>4
      <4>. QED BY <4>1, <4>2, NumberFields
    <3>. HIDE DEF k1, k2, o, g, st, c, c2, v
    <3>. QED BY <3>1, <3>2
  <2>2. st \in States
    BY DEF ConUpTo, States
  <2>3. [n |-> o, c |-> c2] \in Con
    BY <1>1, <1>2 DEF Con
  <2>. HIDE DEF k1, k2, o, g, st, c2
  <2>. QED BY <1>4, <1>6, <2>1, <2>2, <2>3 DEF ConUpTo
<1>8. Given(k) = [n |-> o, c |-> c]
  BY DEF Given
<1>9. CASE ~ok
  <2>1. r = Done(k1, <<>>)
    BY <1>9 DEF ConnectedSend
  <2>. HIDE DEF r, k1, f, o, c
  <2>2. r.con = k1 /\ r.out = <<>>
    BY <2>1 DEF Done
  <2>. QED BY <1>4, <1>5, <1>8, <1>9, <2>2 DEF r
<1>10. CASE ok
  <2>1. r = Done(k2, <<f>>)
    BY <1>10 DEF ConnectedSend
  <2>. HIDE DEF r, k1, k2, f, o, c
  <2>2. r.con = k2 /\ r.out = <<f>>
    BY <2>1 DEF Done
  <2>3. Given(k).n = o /\ Given(k).c = c
    BY <1>8
  <2>. QED BY <1>5, <1>7, <1>8, <1>10, <2>2, <2>3 DEF r
<1>. QED BY <1>9, <1>10

(* A data frame is sent: the window grows by it, unless the lower layer    *)
(* refuses it or there is no free entry for a copy.                        *)
LEMMA SendHandles ==
    ASSUME NEW m \in Nat, NEW k \in ConUpTo(m), NEW ok \in BOOLEAN
    PROVE  LET r == ConnectedSend(k, m + 1, ok)
           IN  /\ r.con \in ConUpTo(m + 1) /\ r.out \in Seq(FrameUpTo(m + 1))
               /\ ok /\ k.hist.free # 0 /\ Opened(k) /\ WindowIfOpen(k, m)
                    => WindowIfOpen(r.con, m + 1)
<1>. DEFINE r == ConnectedSend(k, m + 1, ok)
            o == Given(k).n
<1>. HIDE DEF o
<1>1. PICK f \in FrameUpTo(m + 1) :
         /\ f.scon = Given(k) /\ f.data = m + 1 /\ r.con.send = k.send
         /\ ok => /\ r.out = <<f>> /\ r.con.hist = addFrameToHistory(k.hist, f)
                  /\ r.con.recv = [n |-> Given(k).n,
                                   c |-> IF Given(k).c = 3 THEN 2 ELSE Given(k).c]
                  /\ r.con.st = IF k.hist.free <= 1 THEN "WaitAck" ELSE k.st
         /\ ~ok => /\ r.out = <<>> /\ r.con.hist = k.hist /\ r.con.recv = Given(k)
                   /\ r.con.st = k.st
         /\ r.con \in ConUpTo(m + 1)
  BY SendRecord, Zenon
<1>. HIDE DEF r
<1>2. r.out \in Seq(FrameUpTo(m + 1))
  BY <1>1, Sequences
<1>3. k.hist \in Hist(m) /\ k.recv.n \in 0..SeqMod-1
  BY DEF ConUpTo, Con
<1>4. /\ o \in 0..SeqMod-1 /\ o = (k.recv.n + 1) % SeqMod
      /\ \/ k.recv.n + 1 < SeqMod /\ o = k.recv.n + 1
         \/ k.recv.n + 1 = SeqMod /\ o = 0
  BY <1>3, NextNumber DEF Given, o
<1>5. ASSUME ok, k.hist.free # 0, Opened(k), WindowIfOpen(k, m)
      PROVE  WindowIfOpen(r.con, m + 1)
  <2>1. Window(k.hist, k.recv.n, m)
    BY <1>5 DEF WindowIfOpen
  <2>2. f.scon.n = o
    BY <1>1 DEF o
  <2>3. Window(addFrameToHistory(k.hist, f), o, m + 1)
    BY <1>1, <1>3, <1>4, <1>5, <2>1, <2>2, AddedWindow
  <2>. QED BY <1>1, <1>5, <2>3 DEF WindowIfOpen, o
<1>. QED BY <1>1, <1>2, <1>5 DEF r

-----------------------------------------------------------------------------
(* The inductive invariant: the types, where a node's record, its frames   *)
(* and what is known of its data go no further than what it has sent, and  *)
(* the window.                                                             *)
Record == [st : States, recv : Con, send : Con, timer : {0, 1},
           retry : 0..RetryCount, used : {0, 1},
           hist : [free : 0..2*HistorySize-1, w : Ring, a : Ring, fr : [Ring -> Frame]]]
RecordsTyped == con \in [Node -> Record] /\ \A p \in Node : con[p] \in ConUpTo(sent[p])
FramesTyped ==
    /\ chan \in [Node -> Seq(Frame)]
    /\ \A p \in Node : chan[p] \in Seq(FrameUpTo(sent[Peer(p)]))
DeliveryTyped ==
    /\ got \in [Node -> Seq(Nat)] /\ loose \in [Node -> SUBSET Nat]
    /\ \A p \in Node : got[p] \in Seq(1..sent[Peer(p)]) /\ loose[p] \subseteq 1..sent[Peer(p)]
OwnTyped ==
    /\ ackd \in [Node -> SUBSET Nat] /\ unkept \in [Node -> SUBSET Nat]
    /\ \A p \in Node : ackd[p] \subseteq 1..sent[p] /\ unkept[p] \subseteq 1..sent[p]
FlagsTyped == heard \in [Node -> {0, 1}] /\ due \in [Node -> {0, 1}]
CountsTyped ==
    sent \in [Node -> Nat] /\ opened \in 0..MaxOpen /\ fault \in [Faults -> 0..MaxFault]
WindowsKept ==
    fault.refused = 0 =>
      \A p \in Node : unkept[p] = {} => WindowIfOpen(con[p], sent[p])
IInv == /\ RecordsTyped /\ FramesTyped /\ DeliveryTyped /\ OwnTyped /\ FlagsTyped
        /\ CountsTyped /\ WindowsKept

LEMMA TwoNodes ==
    /\ \A p \in Node : Peer(p) \in Node /\ Peer(p) # p /\ Peer(Peer(p)) = p
    /\ \A p, q \in Node : q = p \/ q = Peer(p)
<1>1. ASSUME NEW p \in Node
      PROVE  /\ Peer(p) \in Node /\ Peer(p) # p
             /\ \A q \in Node : q = p \/ q = Peer(p)
  <2>1. IsFiniteSet(Node \ {p}) /\ Cardinality(Node \ {p}) = 1
    BY NodeAssumption, FS_RemoveElement, SMT
  <2>2. PICK x : Node \ {p} = {x}
    BY <2>1, FS_Singleton
  <2>3. Peer(p) = x
    BY <2>2 DEF Peer
  <2>. QED BY <2>2, <2>3
<1>. QED BY <1>1

LEMMA RecordOfCon ==
    ASSUME NEW m \in Nat, NEW k \in ConUpTo(m)
    PROVE  k \in Record
<1>1. FrameUpTo(m) \subseteq Frame
  BY SMT DEF FrameUpTo, Frame
<1>2. [Ring -> FrameUpTo(m)] \subseteq [Ring -> Frame]
  BY <1>1
<1>3. Hist(m) \subseteq [free : 0..2*HistorySize-1, w : Ring, a : Ring, fr : [Ring -> Frame]]
  BY <1>2 DEF Hist
<1>. QED BY <1>3 DEF ConUpTo, Record

LEMMA FramesOfNode ==
    ASSUME NEW m \in Nat
    PROVE  /\ FrameUpTo(m) \subseteq Frame
           /\ \A s \in Seq(FrameUpTo(m)) : s \in Seq(Frame)
<1>1. FrameUpTo(m) \subseteq Frame
  BY SMT DEF FrameUpTo, Frame
<1>. QED BY <1>1, SMT

(* The disturbances stay below their bound and are never forgotten.        *)
LEMMA DisturbKeeps ==
    ASSUME fault \in [Faults -> 0..MaxFault], NEW x \in Faults, Disturb(x)
    PROVE  /\ fault' \in [Faults -> 0..MaxFault]
           /\ fault'.refused = 0 => fault.refused = 0 /\ x # "refused"
<1>1. MaxFault \in Nat
  BY BoundAssumption
<1>2. \A y \in Faults : fault[y] \in 0..MaxFault
  OBVIOUS
<1>3. /\ fault.lost \in Nat /\ fault.refused \in Nat /\ fault.late \in Nat
      /\ fault.closed \in Nat
  BY <1>1, <1>2, SMT DEF Faults
<1>4. fault[x] + 1 \in 0..MaxFault
  BY <1>1, <1>3, SMT DEF Disturb, Disturbed, Faults
<1>5. fault' = [fault EXCEPT ![x] = fault[x] + 1]
  BY DEF Disturb
<1>6. fault' \in [Faults -> 0..MaxFault]
  BY <1>4, <1>5
<1>7. fault'.refused = IF x = "refused" THEN fault[x] + 1 ELSE fault.refused
  BY <1>5 DEF Faults
<1>. QED BY <1>1, <1>2, <1>3, <1>6, <1>7, SMT

LEMMA RefusableKeeps ==
    ASSUME fault \in [Faults -> 0..MaxFault], NEW ok \in BOOLEAN, Refusable(ok)
    PROVE  /\ fault' \in [Faults -> 0..MaxFault]
           /\ fault'.refused = 0 => fault.refused = 0 /\ ok
<1>1. "refused" \in Faults
  BY DEF Faults
<1>. QED BY <1>1, DisturbKeeps DEF Refusable

(* What a step does that installs node p's new record and lets frames      *)
(* leave for the peer.                                                     *)
LEMMA InstallTyped ==
    ASSUME IInv, NEW p \in Node, NEW k \in ConUpTo(sent[p]),
           NEW out \in Seq(FrameUpTo(sent[p])), Install(p, k, out), sent' = sent
    PROVE  RecordsTyped' /\ FramesTyped'
<1>1. sent[p] \in Nat /\ \A q \in Node : sent[q] \in Nat
  BY DEF IInv, CountsTyped
<1>2. con' = [con EXCEPT ![p] = k] /\ chan' = [chan EXCEPT ![Peer(p)] = @ \o out]
  BY DEF Install
<1>3. RecordsTyped'
  <2>1. k \in Record
    BY <1>1, RecordOfCon
  <2>. QED BY <1>2, <2>1 DEF IInv, RecordsTyped
<1>4. FramesTyped'
  <2>1. Peer(p) \in Node /\ Peer(Peer(p)) = p
    BY TwoNodes
  <2>2. chan[Peer(p)] \o out \in Seq(FrameUpTo(sent[p]))
    BY <2>1, Sequences DEF IInv, FramesTyped
  <2>3. chan[Peer(p)] \o out \in Seq(Frame)
    BY <1>1, <2>2, FramesOfNode
  <2>. QED BY <1>2, <2>1, <2>2, <2>3 DEF IInv, FramesTyped
<1>. QED BY <1>3, <1>4

LEMMA WindowsAfter ==
    ASSUME IInv, NEW p \in Node, NEW k, con' = [con EXCEPT ![p] = k], UNCHANGED <<sent, unkept>>,
           WindowIfOpen(con[p], sent[p]) => WindowIfOpen(k, sent[p]),
           fault'.refused = 0 => fault.refused = 0
    PROVE  WindowsKept'
<1>1. con'[p] = k /\ \A q \in Node : q # p => con'[q] = con[q]
  BY DEF IInv, RecordsTyped
<1>. SUFFICES ASSUME fault'.refused = 0, NEW q \in Node, unkept[q] = {}
     PROVE  WindowIfOpen(con'[q], sent[q])
  <2>1. WindowsKept' <=>
          (fault'.refused = 0 =>
             \A q \in Node : unkept'[q] = {} => WindowIfOpen(con'[q], sent'[q]))
    BY Zenon DEF WindowsKept, WindowIfOpen, Window, Used, Entry, Opened
  <2>. QED BY <2>1
<1>2. WindowIfOpen(con[q], sent[q])
  BY DEF IInv, WindowsKept
<1>. QED BY <1>1, <1>2

-----------------------------------------------------------------------------
(* Every action keeps the invariant.                                       *)
LEMMA InitHolds == Init => IInv
<1>. SUFFICES ASSUME Init PROVE IInv
  OBVIOUS
<1>1. sent \in [Node -> Nat] /\ \A p \in Node : sent[p] = 0
  BY DEF Init
<1>2. /\ Cleared(0) \in ConUpTo(0) /\ ~Opened(Cleared(0)) /\ Cleared(0) \in Record
  BY ClearedType, RecordOfCon
<1>3. con = [p \in Node |-> Cleared(0)]
  BY DEF Init
<1>4. RecordsTyped
  BY <1>1, <1>2, <1>3 DEF RecordsTyped
<1>5. WindowsKept
  BY <1>1, <1>2, <1>3 DEF WindowsKept, WindowIfOpen
<1>6. FramesTyped /\ DeliveryTyped
  <2>1. \A S : <<>> \in Seq(S)
    BY Sequences
  <2>. QED BY <1>1, <2>1 DEF Init, FramesTyped, DeliveryTyped
<1>7. OwnTyped /\ FlagsTyped
  BY <1>1 DEF Init, OwnTyped, FlagsTyped
<1>8. CountsTyped
  BY <1>1, BoundAssumption, SMT DEF Init, CountsTyped
<1>. QED BY <1>4, <1>5, <1>6, <1>7, <1>8 DEF IInv

LEMMA InitConKeeps == ASSUME IInv, NEW p \in Node, initCon(p) PROVE IInv'
<1>1. PICK ok \in BOOLEAN :
        /\ con[p].st = "Idle" /\ opened < MaxOpen /\ Refusable(ok)
        /\ LET k == [con[p] EXCEPT !.used = 1, !.recv = [n |-> 0, c |-> 1],
                                   !.send = [n |-> 0, c |-> 0]]
           IN  Install(p, IF ok THEN [k EXCEPT !.st = "Init1", !.timer = 1] ELSE k,
                       Sends(Header(k, None), ok))
        /\ opened' = opened + 1
  BY DEF initCon
<1>2. UNCHANGED <<heard, due, sent, got, loose, ackd, unkept>>
  BY DEF initCon
<1>. DEFINE m == sent[p]
            k == [con[p] EXCEPT !.used = 1, !.recv = [n |-> 0, c |-> 1], !.send = [n |-> 0, c |-> 0]]
            j == IF ok THEN [k EXCEPT !.st = "Init1", !.timer = 1] ELSE k
            out == Sends(Header(k, None), ok)
<1>3. m \in Nat /\ con[p] \in ConUpTo(m) /\ None \in 0..m
  BY SMT DEF IInv, CountsTyped, RecordsTyped, None
<1>4. [n |-> 0, c |-> 1] \in Con /\ [n |-> 0, c |-> 0] \in Con
  BY Sizes, SMT DEF Con
<1>5. k \in ConUpTo(m) /\ k.st = "Idle"
  BY <1>1, <1>3, <1>4 DEF ConUpTo
<1>6. j \in ConUpTo(m) /\ ~Opened(j)
  <2>. HIDE DEF k
  <2>. QED BY <1>5 DEF ConUpTo, Opened, States
<1>7. out \in Seq(FrameUpTo(m))
  <2>. HIDE DEF k
  <2>. QED BY <1>3, <1>5, FramesOfRecord, Sequences
<1>8. Install(p, j, out) /\ con' = [con EXCEPT ![p] = j]
  BY <1>1 DEF Install
<1>. HIDE DEF j, out
<1>9. RecordsTyped' /\ FramesTyped'
  BY <1>2, <1>6, <1>7, <1>8, InstallTyped
<1>10. fault' \in [Faults -> 0..MaxFault] /\ (fault'.refused = 0 => fault.refused = 0)
  BY <1>1, RefusableKeeps DEF IInv, CountsTyped
<1>11. WindowsKept'
  BY <1>2, <1>6, <1>8, <1>10, WindowsAfter DEF WindowIfOpen
<1>12. CountsTyped'
  BY <1>1, <1>2, <1>10, BoundAssumption, SMT DEF IInv, CountsTyped
<1>13. DeliveryTyped' /\ OwnTyped' /\ FlagsTyped'
  BY <1>2 DEF IInv, DeliveryTyped, OwnTyped, FlagsTyped
<1>. QED BY <1>9, <1>11, <1>12, <1>13 DEF IInv

LEMMA ReceiveKeeps == ASSUME IInv, NEW p \in Node, receiveCb(p) PROVE IInv'
<1>. DEFINE m == sent[p]
            d == sent[Peer(p)]
            f == Head(chan[p])
            k == Acknowledge(con[p], f)
            Body(ok, g, j, r) ==
              /\ Refusable(ok)
              /\ con' = [con EXCEPT ![p] = r.con]
              /\ chan' = [chan EXCEPT ![p] = Tail(@), ![Peer(p)] = @ \o r.out]
              /\ ackd' = IF Opened(r.con)
                         THEN [ackd EXCEPT ![p] = @ \cup (HistoryData(con[p]) \ HistoryData(j))]
                         ELSE ackd
              /\ Deliver(p, r.data)
              /\ LET opens == Opened(r.con) /\ ~Opened(con[p])
                     flag(v) == OpenOnly(r.con, IF r.data # None THEN 1 ELSE IF opens THEN 0 ELSE v)
                 IN  heard' = [heard EXCEPT ![p] = flag(@)] /\ due' = [due EXCEPT ![p] = flag(@)]
<1>1. PICK ok \in BOOLEAN : Body(ok, f, k, Result(k, f, ok))
  <2>1. \E ok \in BOOLEAN, g \in {Head(chan[p])} :
        \E j \in {Acknowledge(con[p], g)} : \E r \in {Result(j, g, ok)} : Body(ok, g, j, r)
    BY Zenon DEF receiveCb
  <2>. HIDE DEF Body
  <2>. QED BY <2>1
<1>2. chan[p] # <<>> /\ UNCHANGED <<sent, opened, unkept>>
  BY DEF receiveCb
<1>. DEFINE r == Result(k, f, ok)
<1>3. m \in Nat /\ d \in Nat /\ con[p] \in ConUpTo(m) /\ Peer(p) \in Node /\ Peer(p) # p
      /\ Peer(Peer(p)) = p
  BY TwoNodes DEF IInv, CountsTyped, RecordsTyped
<1>4. chan[p] \in Seq(FrameUpTo(d)) /\ f \in FrameUpTo(d) /\ Tail(chan[p]) \in Seq(FrameUpTo(d))
  <2>1. chan[p] \in Seq(FrameUpTo(d))
    BY DEF IInv, FramesTyped
  <2>. HIDE DEF d
  <2>. QED BY <1>2, <2>1, HeadTailProperties
<1>. HIDE DEF f
<1>5. k \in ConUpTo(m) /\ (WindowIfOpen(con[p], m) => WindowIfOpen(k, m))
  BY <1>3, <1>4, AcknowledgeKeeps
<1>6. Handles(k, r, m, d)
  <2>. HIDE DEF k, m, d
  <2>. QED BY <1>3, <1>4, <1>5, ResultHandles
<1>. DEFINE R == r
<1>7. /\ R.con \in ConUpTo(m) /\ R.out \in Seq(FrameUpTo(m)) /\ R.data \in 0..d
      /\ WindowIfOpen(con[p], m) => WindowIfOpen(R.con, m)
  <2>. HIDE DEF k, m, d, R
  <2>. QED BY <1>5, <1>6 DEF Handles, Answer, R
<1>8. /\ Refusable(ok)
      /\ con' = [con EXCEPT ![p] = R.con]
      /\ chan' = [chan EXCEPT ![p] = Tail(@), ![Peer(p)] = @ \o R.out]
      /\ ackd' \in {ackd, [ackd EXCEPT ![p] = @ \cup (HistoryData(con[p]) \ HistoryData(k))]}
      /\ Deliver(p, R.data)
  BY <1>1
<1>9. \E v, w \in {0, 1} : heard' = [heard EXCEPT ![p] = v] /\ due' = [due EXCEPT ![p] = w]
  <2>. DEFINE opens == Opened(R.con) /\ ~Opened(con[p])
              flag(v) == OpenOnly(R.con, IF R.data # None THEN 1 ELSE IF opens THEN 0 ELSE v)
  <2>1. heard' = [heard EXCEPT ![p] = flag(heard[p])] /\ due' = [due EXCEPT ![p] = flag(due[p])]
    BY <1>1
  <2>2. heard[p] \in {0, 1} /\ due[p] \in {0, 1}
    BY DEF IInv, FlagsTyped
  <2>3. \A v \in {0, 1} : flag(v) \in {0, 1}
    BY DEF OpenOnly
  <2>. HIDE DEF flag
  <2>. QED BY <2>1, <2>2, <2>3
<1>. HIDE DEF R, k, m, d
<1>10. fault' \in [Faults -> 0..MaxFault] /\ (fault'.refused = 0 => fault.refused = 0)
  BY <1>8, RefusableKeeps DEF IInv, CountsTyped
<1>11. RecordsTyped'
  <2>1. R.con \in Record
    BY <1>3, <1>7, RecordOfCon
  <2>. QED BY <1>2, <1>7, <1>8, <2>1 DEF IInv, RecordsTyped, m
<1>12. FramesTyped'
  <2>1. chan[Peer(p)] \o R.out \in Seq(FrameUpTo(m))
    BY <1>3, <1>7, Sequences DEF IInv, FramesTyped, m
  <2>2. Tail(chan[p]) \in Seq(Frame) /\ chan[Peer(p)] \o R.out \in Seq(Frame)
    BY <1>3, <1>4, <2>1, FramesOfNode
  <2>3. chan' = [[chan EXCEPT ![p] = Tail(chan[p])] EXCEPT ![Peer(p)] = chan[Peer(p)] \o R.out]
    BY <1>3, <1>8 DEF IInv, FramesTyped
  <2>. QED BY <1>2, <1>3, <1>4, <2>1, <2>2, <2>3 DEF IInv, FramesTyped, m, d
<1>13. WindowsKept'
  BY <1>2, <1>7, <1>8, <1>10, WindowsAfter DEF m
<1>14. CountsTyped'
  BY <1>2, <1>10 DEF IInv, CountsTyped
<1>15. FlagsTyped'
  BY <1>9 DEF IInv, FlagsTyped
<1>16. DeliveryTyped'
  <2>1. R.data # None => R.data \in 1..d /\ R.data \in Nat
    BY <1>3, <1>7, SMT DEF None
  <2>2. got[p] \in Seq(1..d) /\ got[p] \in Seq(Nat) /\ loose[p] \subseteq 1..d
    BY DEF IInv, DeliveryTyped, d
  <2>3. R.data # None => /\ Append(got[p], R.data) \in Seq(1..d)
                         /\ Append(got[p], R.data) \in Seq(Nat)
                         /\ loose[p] \cup {R.data} \subseteq 1..d
                         /\ loose[p] \cup {R.data} \in SUBSET Nat
    BY <1>3, <2>1, <2>2, SMT
  <2>4. got' \in {got, [got EXCEPT ![p] = Append(got[p], R.data)]}
        /\ (R.data = None => got' = got)
    BY <1>8 DEF Deliver
  <2>5. loose' \in {loose, [loose EXCEPT ![p] = loose[p] \cup {R.data}]}
        /\ (R.data = None => loose' = loose)
    BY <1>8 DEF Deliver
  <2>. QED BY <1>2, <2>2, <2>3, <2>4, <2>5 DEF IInv, DeliveryTyped, d
<1>17. OwnTyped'
  <2>1. HistoryData(con[p]) \subseteq 1..m /\ HistoryData(con[p]) \subseteq Nat
    <3>1. \A i \in Ring : con[p].hist.fr[i].data \in 0..m
      BY <1>3 DEF ConUpTo, Hist, FrameUpTo
    <3>. QED BY <1>3, <3>1, SMT DEF HistoryData, None
  <2>. QED BY <1>2, <1>8, <2>1 DEF IInv, OwnTyped, m
<1>. QED BY <1>11, <1>12, <1>13, <1>14, <1>15, <1>16, <1>17 DEF IInv

LEMMA ProcessEventKeeps == ASSUME IInv, NEW p \in Node, processEvent(p) PROVE IInv'
<1>. DEFINE m == sent[p]
            Body(ok, r) ==
              /\ IF \A q \in Node : chan[q] = <<>> /\ due[q] = 0 THEN Refusable(ok)
                 ELSE ok /\ Disturb("late")
              /\ Install(p, r.con, r.out)
              /\ heard' = [heard EXCEPT ![p] = OpenOnly(r.con, @)]
              /\ due' = [due EXCEPT ![p] = OpenOnly(r.con, @)]
<1>1. PICK ok \in BOOLEAN : Body(ok, Timeout(con[p], ok))
  <2>1. \E ok \in BOOLEAN : \E r \in {Timeout(con[p], ok)} : Body(ok, r)
    BY Zenon DEF processEvent
  <2>. HIDE DEF Body
  <2>. QED BY <2>1
<1>. DEFINE r == Timeout(con[p], ok)
<1>2. UNCHANGED <<sent, opened, got, loose, ackd, unkept>>
  BY DEF processEvent
<1>3. m \in Nat /\ con[p] \in ConUpTo(m)
  BY DEF IInv, CountsTyped, RecordsTyped
<1>4. Handles(con[p], r, m, 0)
  <2>. HIDE DEF m
  <2>. QED BY <1>3, TimeoutHandles
<1>5. Install(p, r.con, r.out) /\ con' = [con EXCEPT ![p] = r.con]
  BY <1>1 DEF Install
<1>6. /\ heard' = [heard EXCEPT ![p] = OpenOnly(r.con, heard[p])]
      /\ due' = [due EXCEPT ![p] = OpenOnly(r.con, due[p])]
  BY <1>1
<1>7. fault' \in [Faults -> 0..MaxFault] /\ (fault'.refused = 0 => fault.refused = 0)
  <2>1. "late" \in Faults
    BY DEF Faults
  <2>2. Refusable(ok) \/ Disturb("late")
    BY <1>1
  <2>. QED BY <2>1, <2>2, RefusableKeeps, DisturbKeeps DEF IInv, CountsTyped
<1>. HIDE DEF r
<1>8. r.con \in ConUpTo(m) /\ r.out \in Seq(FrameUpTo(m))
      /\ (WindowIfOpen(con[p], m) => WindowIfOpen(r.con, m))
  BY <1>4 DEF Handles, Answer
<1>9. RecordsTyped' /\ FramesTyped'
  BY <1>2, <1>5, <1>8, InstallTyped
<1>10. WindowsKept'
  BY <1>2, <1>5, <1>7, <1>8, WindowsAfter
<1>11. FlagsTyped'
  <2>1. OpenOnly(r.con, heard[p]) \in {0, 1} /\ OpenOnly(r.con, due[p]) \in {0, 1}
    BY DEF OpenOnly, IInv, FlagsTyped
  <2>. QED BY <1>6, <2>1 DEF IInv, FlagsTyped
<1>12. CountsTyped'
  BY <1>2, <1>7 DEF IInv, CountsTyped
<1>13. DeliveryTyped' /\ OwnTyped'
  BY <1>2 DEF IInv, DeliveryTyped, OwnTyped
<1>. QED BY <1>9, <1>10, <1>11, <1>12, <1>13 DEF IInv

(* A frame refused or sent without a copy leaves no window to keep.        *)
LEMMA SendDataKeeps == ASSUME IInv, NEW p \in Node, sendData(p) PROVE IInv'
<1>. DEFINE m == sent[p]
            Body(ok, r) ==
              /\ Refusable(ok) /\ Install(p, r.con, r.out)
              /\ unkept' = IF ok /\ con[p].hist.free = 0
                           THEN [unkept EXCEPT ![p] = @ \cup {sent[p] + 1}] ELSE unkept
<1>1. PICK ok \in BOOLEAN : Body(ok, ConnectedSend(con[p], m + 1, ok))
  <2>1. \E ok \in BOOLEAN : \E r \in {ConnectedSend(con[p], m + 1, ok)} : Body(ok, r)
    BY Zenon DEF sendData
  <2>. HIDE DEF Body, m
  <2>. QED BY <2>1
<1>. DEFINE r == ConnectedSend(con[p], m + 1, ok)
<1>2. /\ con[p].st = "Connected" /\ sent' = [sent EXCEPT ![p] = sent[p] + 1]
      /\ due' = [due EXCEPT ![p] = 0] /\ UNCHANGED <<heard, got, loose, ackd, opened>>
  BY DEF sendData
<1>3. /\ sent \in [Node -> Nat] /\ m \in Nat /\ con[p] \in ConUpTo(m) /\ Peer(p) \in Node
      /\ Peer(p) # p /\ Peer(Peer(p)) = p /\ \A q \in Node : q = p \/ q = Peer(p)
  BY TwoNodes DEF IInv, CountsTyped, RecordsTyped
<1>4. /\ r.con \in ConUpTo(m + 1) /\ r.out \in Seq(FrameUpTo(m + 1))
      /\ ok /\ con[p].hist.free # 0 /\ Opened(con[p]) /\ WindowIfOpen(con[p], m)
           => WindowIfOpen(r.con, m + 1)
  <2>. HIDE DEF m
  <2>. QED BY <1>3, SendHandles
<1>5. /\ con' = [con EXCEPT ![p] = r.con]
      /\ chan' = [chan EXCEPT ![Peer(p)] = chan[Peer(p)] \o r.out]
      /\ unkept' = IF ok /\ con[p].hist.free = 0
                   THEN [unkept EXCEPT ![p] = unkept[p] \cup {m + 1}] ELSE unkept
  BY <1>1 DEF Install
<1>6. fault' \in [Faults -> 0..MaxFault] /\ (fault'.refused = 0 => fault.refused = 0 /\ ok)
  BY <1>1, RefusableKeeps DEF IInv, CountsTyped
<1>. HIDE DEF r
<1>7. m + 1 \in Nat /\ sent' \in [Node -> Nat] /\ sent'[p] = m + 1
      /\ sent'[Peer(p)] = sent[Peer(p)]
  BY <1>2, <1>3
<1>8. RecordsTyped'
  <2>1. r.con \in Record
    BY <1>4, <1>7, RecordOfCon
  <2>2. con' \in [Node -> Record]
    BY <1>5, <2>1 DEF IInv, RecordsTyped
  <2>3. con'[p] \in ConUpTo(sent'[p]) /\ con'[Peer(p)] \in ConUpTo(sent'[Peer(p)])
    <3>. HIDE DEF m
    <3>. QED BY <1>3, <1>4, <1>5, <1>7 DEF IInv, RecordsTyped
  <2>. QED BY <1>3, <2>2, <2>3 DEF RecordsTyped
<1>9. FramesTyped'
  <2>1. /\ chan[Peer(p)] \in Seq(FrameUpTo(m)) /\ chan[p] \in Seq(FrameUpTo(sent[Peer(p)]))
        /\ chan \in [Node -> Seq(Frame)]
    BY <1>3 DEF IInv, FramesTyped
  <2>2. \A s \in Seq(FrameUpTo(m)) : s \in Seq(FrameUpTo(m + 1))
    <3>1. FrameUpTo(m) \subseteq FrameUpTo(m + 1)
      BY <1>3, MoreFrames
    <3>. HIDE DEF m
    <3>. QED BY <3>1, SMT
  <2>3. chan[Peer(p)] \o r.out \in Seq(FrameUpTo(m + 1))
    BY <1>4, <2>1, <2>2, Sequences
  <2>4. chan[Peer(p)] \o r.out \in Seq(Frame)
    BY <1>7, <2>3, FramesOfNode
  <2>5. chan'[Peer(p)] = chan[Peer(p)] \o r.out /\ chan'[p] = chan[p]
    BY <1>3, <1>5, <2>1
  <2>6. chan' \in [Node -> Seq(Frame)]
    BY <1>5, <2>1, <2>4
  <2>7. /\ chan'[Peer(p)] \in Seq(FrameUpTo(sent'[Peer(Peer(p))]))
        /\ chan'[p] \in Seq(FrameUpTo(sent'[Peer(p)]))
    <3>. HIDE DEF m
    <3>. QED BY <1>3, <1>7, <2>1, <2>3, <2>5
  <2>. QED BY <1>3, <2>6, <2>7 DEF FramesTyped
<1>10. WindowsKept'
  <2>. SUFFICES ASSUME fault'.refused = 0, NEW q \in Node, unkept'[q] = {}
       PROVE  WindowIfOpen(con'[q], sent'[q])
    BY DEF WindowsKept, WindowIfOpen, Window, Used, Entry, Opened
  <2>1. unkept \in [Node -> SUBSET Nat]
    BY DEF IInv, OwnTyped
  <2>2. unkept[q] = {} /\ (q = p => ~(ok /\ con[p].hist.free = 0))
    BY <1>5, <2>1
  <2>3. WindowIfOpen(con[q], sent[q])
    BY <1>6, <2>2 DEF IInv, WindowsKept
  <2>4. CASE q = p
    <3>1. WindowIfOpen(r.con, m + 1)
      BY <1>2, <1>4, <1>6, <2>2, <2>3, <2>4 DEF Opened
    <3>2. con'[p] = r.con
      BY <1>5 DEF IInv, RecordsTyped
    <3>. HIDE DEF m
    <3>. QED BY <1>7, <2>4, <3>1, <3>2
  <2>5. CASE q = Peer(p)
    <3>1. con'[q] = con[q] /\ sent'[q] = sent[q]
      BY <1>3, <1>5, <1>7, <2>5 DEF IInv, RecordsTyped
    <3>. QED BY <2>3, <3>1
  <2>. QED BY <1>3, <2>4, <2>5
<1>11. DeliveryTyped'
  <2>. SUFFICES ASSUME NEW q \in Node
       PROVE  got[q] \in Seq(1..sent'[Peer(q)]) /\ loose[q] \subseteq 1..sent'[Peer(q)]
    BY <1>2 DEF IInv, DeliveryTyped
  <2>1. 1..sent[Peer(q)] \subseteq 1..sent'[Peer(q)]
    BY <1>2, <1>3, TwoNodes, SMT
  <2>2. got[q] \in Seq(1..sent[Peer(q)]) /\ loose[q] \subseteq 1..sent[Peer(q)]
    BY DEF IInv, DeliveryTyped
  <2>. DEFINE S == 1..sent[Peer(q)]
              T == 1..sent'[Peer(q)]
  <2>. HIDE DEF S, T
  <2>3. got[q] \in Seq(T) /\ loose[q] \subseteq T
    <3>1. S \subseteq T /\ got[q] \in Seq(S) /\ loose[q] \subseteq S
      BY <2>1, <2>2 DEF S, T
    <3>. QED BY <3>1, SequenceRange
  <2>. QED BY <2>3 DEF T
<1>12. OwnTyped'
  <2>. SUFFICES ASSUME NEW q \in Node
       PROVE  /\ ackd[q] \subseteq 1..sent'[q] /\ unkept'[q] \subseteq 1..sent'[q]
              /\ unkept' \in [Node -> SUBSET Nat]
    BY <1>2, Zenon DEF IInv, OwnTyped
  <2>1. 1..sent[q] \subseteq 1..sent'[q]
    BY <1>2, <1>3, SMT
  <2>2. m + 1 \in 1..sent'[p] /\ m + 1 \in Nat
    BY <1>3, <1>7, SMT
  <2>3. ackd[q] \subseteq 1..sent[q] /\ unkept[q] \subseteq 1..sent[q]
        /\ unkept \in [Node -> SUBSET Nat]
    BY DEF IInv, OwnTyped
  <2>. HIDE DEF m
  <2>. QED BY <1>5, <2>1, <2>2, <2>3
<1>13. FlagsTyped'
  BY <1>2 DEF IInv, FlagsTyped
<1>14. CountsTyped'
  BY <1>2, <1>6, <1>7 DEF IInv, CountsTyped
<1>. QED BY <1>8, <1>9, <1>10, <1>11, <1>12, <1>13, <1>14 DEF IInv

LEMMA SendAckKeeps == ASSUME IInv, NEW p \in Node, sendAck(p) PROVE IInv'
<1>. DEFINE m == sent[p]
            k == [con[p] EXCEPT !.timer = 1]
<1>1. PICK ok \in BOOLEAN :
        /\ Refusable(ok)
        /\ IF con[p].st = "Connected"
           THEN Install(p, k, Sends(Header(con[p], None), ok))
           ELSE UNCHANGED <<con, chan>>
  BY Zenon DEF sendAck
<1>2. due' = [due EXCEPT ![p] = 0] /\ UNCHANGED <<sent, opened, heard, got, loose, ackd, unkept>>
  BY DEF sendAck
<1>3. m \in Nat /\ con[p] \in ConUpTo(m) /\ None \in 0..m
  BY SMT DEF IInv, CountsTyped, RecordsTyped, None
<1>4. fault' \in [Faults -> 0..MaxFault] /\ (fault'.refused = 0 => fault.refused = 0)
  BY <1>1, RefusableKeeps DEF IInv, CountsTyped
<1>5. RecordsTyped' /\ FramesTyped' /\ WindowsKept'
  <2>1. CASE con[p].st = "Connected"
    <3>. DEFINE out == Sends(Header(con[p], None), ok)
    <3>1. Install(p, k, out) /\ con' = [con EXCEPT ![p] = k]
      BY <1>1, <2>1 DEF Install
    <3>2. k \in ConUpTo(m) /\ k.hist = con[p].hist /\ k.recv = con[p].recv /\ k.st = con[p].st
      BY <1>3 DEF ConUpTo
    <3>3. out \in Seq(FrameUpTo(m))
      BY <1>3, FramesOfRecord, Sequences
    <3>. HIDE DEF k, out
    <3>4. WindowIfOpen(con[p], m) => WindowIfOpen(k, m)
      BY <3>2 DEF WindowIfOpen, Opened
    <3>. QED BY <1>2, <1>4, <3>1, <3>2, <3>3, <3>4, InstallTyped, WindowsAfter
  <2>2. CASE con[p].st # "Connected"
    <3>1. UNCHANGED <<con, chan, sent, unkept>>
      BY <1>1, <1>2, <2>2
    <3>2. RecordsTyped' /\ FramesTyped'
      BY <3>1 DEF IInv, RecordsTyped, FramesTyped
    <3>3. WindowsKept'
      BY <1>4, <3>1 DEF IInv, WindowsKept, WindowIfOpen, Window, Used, Entry, Opened
    <3>. QED BY <3>2, <3>3
  <2>. QED BY <2>1, <2>2
<1>6. FlagsTyped' /\ CountsTyped' /\ DeliveryTyped' /\ OwnTyped'
  BY <1>2, <1>4 DEF IInv, FlagsTyped, CountsTyped, DeliveryTyped, OwnTyped
<1>. QED BY <1>5, <1>6 DEF IInv

LEMMA DeleteConKeeps == ASSUME IInv, NEW p \in Node, deleteCon(p) PROVE IInv'
<1>. DEFINE m == sent[p]
            k == Cleared(HistorySize)
            out == IF con[p].st = "Connected" THEN CloseFrame(con[p]) ELSE <<>>
<1>1. /\ Disturb("closed") /\ Install(p, k, out) /\ con' = [con EXCEPT ![p] = k]
      /\ heard' = [heard EXCEPT ![p] = 0] /\ due' = [due EXCEPT ![p] = 0]
      /\ UNCHANGED <<sent, got, loose, ackd, unkept, opened>>
  BY DEF deleteCon, Install
<1>2. m \in Nat /\ con[p] \in ConUpTo(m) /\ 0 \in 0..m
  BY SMT DEF IInv, CountsTyped, RecordsTyped
<1>3. k \in ConUpTo(m) /\ ~Opened(k)
  BY <1>2, ClearedType
<1>4. out \in Seq(FrameUpTo(m))
  BY <1>2, FramesOfRecord, Sequences
<1>5. fault' \in [Faults -> 0..MaxFault] /\ (fault'.refused = 0 => fault.refused = 0)
  BY <1>1, DisturbKeeps DEF IInv, CountsTyped, Faults
<1>. HIDE DEF k, out
<1>6. RecordsTyped' /\ FramesTyped'
  BY <1>1, <1>3, <1>4, InstallTyped
<1>7. WindowsKept'
  BY <1>1, <1>3, <1>5, WindowsAfter DEF WindowIfOpen
<1>8. FlagsTyped' /\ CountsTyped' /\ DeliveryTyped' /\ OwnTyped'
  BY <1>1, <1>5 DEF IInv, FlagsTyped, CountsTyped, DeliveryTyped, OwnTyped
<1>. QED BY <1>6, <1>7, <1>8 DEF IInv

LEMMA LoseKeeps == ASSUME IInv, NEW p \in Node, Lose(p) PROVE IInv'
<1>1. /\ chan[p] # <<>> /\ Disturb("lost") /\ chan' = [chan EXCEPT ![p] = Tail(chan[p])]
      /\ UNCHANGED <<con, heard, due, sent, got, loose, ackd, unkept, opened>>
  BY DEF Lose
<1>2. fault' \in [Faults -> 0..MaxFault] /\ (fault'.refused = 0 => fault.refused = 0)
  BY <1>1, DisturbKeeps DEF IInv, CountsTyped, Faults
<1>3. FramesTyped'
  <2>1. /\ chan[p] \in Seq(FrameUpTo(sent[Peer(p)])) /\ chan[p] \in Seq(Frame)
        /\ chan \in [Node -> Seq(Frame)]
    BY DEF IInv, FramesTyped
  <2>2. Tail(chan[p]) \in Seq(FrameUpTo(sent[Peer(p)])) /\ Tail(chan[p]) \in Seq(Frame)
    BY <1>1, <2>1, HeadTailProperties
  <2>. QED BY <1>1, <2>1, <2>2 DEF IInv, FramesTyped
<1>4. RecordsTyped' /\ FlagsTyped' /\ CountsTyped' /\ DeliveryTyped' /\ OwnTyped'
  BY <1>1, <1>2 DEF IInv, RecordsTyped, FlagsTyped, CountsTyped, DeliveryTyped, OwnTyped
<1>5. WindowsKept'
  BY <1>1, <1>2 DEF IInv, WindowsKept, WindowIfOpen, Window, Used, Entry, Opened
<1>. QED BY <1>3, <1>4, <1>5 DEF IInv

LEMMA NextKeeps == IInv /\ [Next]_vars => IInv'
<1>. SUFFICES ASSUME IInv, [Next]_vars PROVE IInv'
  OBVIOUS
<1>1. ASSUME NEW p \in Node, initCon(p) PROVE IInv'
  BY <1>1, InitConKeeps
<1>2. ASSUME NEW p \in Node, receiveCb(p) PROVE IInv'
  BY <1>2, ReceiveKeeps
<1>3. ASSUME NEW p \in Node, processEvent(p) PROVE IInv'
  BY <1>3, ProcessEventKeeps
<1>4. ASSUME NEW p \in Node, sendData(p) PROVE IInv'
  BY <1>4, SendDataKeeps
<1>5. ASSUME NEW p \in Node, sendAck(p) PROVE IInv'
  BY <1>5, SendAckKeeps
<1>6. ASSUME NEW p \in Node, deleteCon(p) PROVE IInv'
  BY <1>6, DeleteConKeeps
<1>7. ASSUME NEW p \in Node, Lose(p) PROVE IInv'
  BY <1>7, LoseKeeps
<1>8. CASE UNCHANGED vars
  <2>1. UNCHANGED <<con, chan, heard, due, sent, got, loose, ackd, unkept, opened, fault>>
    BY <1>8 DEF vars
  <2>2. /\ RecordsTyped' /\ FramesTyped' /\ DeliveryTyped' /\ OwnTyped' /\ FlagsTyped'
        /\ CountsTyped'
    BY <2>1 DEF IInv, RecordsTyped, FramesTyped, DeliveryTyped, OwnTyped, FlagsTyped, CountsTyped
  <2>3. WindowsKept'
    BY <2>1 DEF IInv, WindowsKept, WindowIfOpen, Window, Used, Entry, Opened
  <2>. QED BY <2>2, <2>3 DEF IInv
<1>. QED BY <1>1, <1>2, <1>3, <1>4, <1>5, <1>6, <1>7, <1>8 DEF Next

-----------------------------------------------------------------------------
(* What the invariant says of the ring.                                    *)
LEMMA WindowIsWindow ==
    ASSUME NEW m \in Nat, NEW h \in Hist(m), NEW n, Window(h, n, m)
    PROVE  IsWindow(h)
<1>. DEFINE u == HistorySize - h.free
<1>1. /\ h.free \in 0..HistorySize /\ u \in 0..HistorySize /\ u <= m
      /\ h.a \in Ring /\ h.w \in Ring /\ h.w = (h.a + u) % HistorySize
      /\ \A i \in 0..u-1 : Entry(h, i).data = m - (u - 1 - i)
  <2>1. /\ h.free <= HistorySize /\ u <= m /\ h.w = (h.a + u) % HistorySize
        /\ \A i \in 0..u-1 : Entry(h, i).data = m - (u - 1 - i)
    BY Zenon DEF Window, Used
  <2>2. h.free \in 0..2*HistorySize-1 /\ h.a \in Ring /\ h.w \in Ring
    BY DEF Hist
  <2>3. h.free \in 0..HistorySize /\ u \in 0..HistorySize
    BY <2>1, <2>2, Sizes, SMT
  <2>. QED BY <2>1, <2>2, <2>3, Zenon
<1>2. /\ h.a + u < HistorySize => h.w = h.a + u
      /\ ~(h.a + u < HistorySize) => h.w = h.a + u - HistorySize
  <2>. HIDE DEF u
  <2>. QED BY <1>1, Slots
<1>3. (h.w + HistorySize - h.a) % HistorySize = u % HistorySize
  <2>1. h.a \in 0..HistorySize-1 /\ h.w \in 0..HistorySize-1
    BY <1>1 DEF Ring
  <2>. DEFINE x == h.w + HistorySize - h.a
  <2>2. x = u \/ x = u + HistorySize \/ (x = HistorySize /\ u = HistorySize)
    BY <1>1, <1>2, <2>1, Sizes, SMT
  <2>3. \A v \in 0..HistorySize : (v + HistorySize) % HistorySize = v % HistorySize
    BY Sizes, SMT
  <2>. HIDE DEF x, u
  <2>4. x % HistorySize = u % HistorySize
    BY <1>1, <2>2, <2>3, Zenon
  <2>. QED BY <2>4 DEF x
<1>4. \A i \in 0..u-1 : Entry(h, i).data # None
  BY <1>1, SMT DEF None
<1>5. \A i \in 0..u-2 : Entry(h, i).data < Entry(h, i+1).data
  <2>. SUFFICES ASSUME NEW i \in 0..u-2 PROVE Entry(h, i).data < Entry(h, i+1).data
    OBVIOUS
  <2>1. i \in 0..u-1 /\ i + 1 \in 0..u-1
    BY <1>1, SMT
  <2>2. Entry(h, i).data = m - (u - 1 - i) /\ Entry(h, i+1).data = m - (u - 1 - (i + 1))
    BY <1>1, <2>1
  <2>. QED BY <1>1, <2>1, <2>2, SMT
<1>. QED BY <1>3, <1>4, <1>5 DEF IsWindow

LEMMA InvImplies == IInv => HistoryIsWindow
<1>. SUFFICES ASSUME IInv PROVE HistoryIsWindow
  OBVIOUS
<1>1. TypeOK
  <2>1. ASSUME NEW p \in Node PROVE Delivered(p) \subseteq 1..sent[Peer(p)]
    <3>1. got[p] \in Seq(1..sent[Peer(p)]) /\ loose[p] \subseteq 1..sent[Peer(p)]
      BY DEF IInv, DeliveryTyped
    <3>2. Range(got[p]) \subseteq 1..sent[Peer(p)]
      BY <3>1, SequenceRange
    <3>. QED BY <3>1, <3>2 DEF Delivered
  <2>2. \A p \in Node : ackd[p] \cup unkept[p] \subseteq 1..sent[p]
    BY DEF IInv, OwnTyped
  <2>3. con \in [Node -> Record] /\ chan \in [Node -> Seq(Frame)]
    BY DEF IInv, RecordsTyped, FramesTyped
  <2>. QED BY <2>1, <2>2, <2>3, Zenon DEF TypeOK, IInv, FlagsTyped, CountsTyped, Record
<1>2. ASSUME NEW p \in Node, Opened(con[p]) /\ fault.refused = 0 /\ unkept[p] = {}
      PROVE  IsWindow(con[p].hist)
  <2>1. Window(con[p].hist, con[p].recv.n, sent[p])
    BY <1>2 DEF IInv, WindowsKept, WindowIfOpen
  <2>2. con[p].hist \in Hist(sent[p]) /\ sent[p] \in Nat
    BY DEF IInv, RecordsTyped, CountsTyped, ConUpTo
  <2>. QED BY <2>1, <2>2, WindowIsWindow
<1>. QED BY <1>1, <1>2 DEF HistoryIsWindow

(* The types hold, and the ring of an open connection holds the frames in  *)
(* the order they were sent, as many as are not free and none of them      *)
(* released, as long as no frame was refused or sent without a copy.       *)
THEOREM HistoryIsTheWindow == Spec => []HistoryIsWindow
<1>1. Init => IInv
  BY InitHolds
<1>2. IInv /\ [Next]_vars => IInv'
  BY NextKeeps
<1>3. IInv => HistoryIsWindow
  BY InvImplies
<1>. QED BY <1>1, <1>2, <1>3, PTL DEF Spec

-----------------------------------------------------------------------------
(* The order of the data.  Unread(h) frames lie between the acknowledge and  *)
(* the write index; Live(h) of the newest frames are what may still be     *)
(* sent again: all of the ring once more entries are in use than lie       *)
(* between the indices.                                                    *)
Live(h) == IF h.free + Unread(h) >= HistorySize THEN Unread(h) ELSE HistorySize
Age(w, d) == (w + HistorySize - 1 - d) % HistorySize
Newest(h, d) == h.fr[Age(h.w, d)]

(* How many numbers the d-th newest frame lies behind the last one given   *)
(* out: no more than d and the frames that were refused, r.  So its data   *)
(* is known even when its entry was released.                              *)
Back(k, d) == Ahead(k.recv.n, Newest(k.hist, d).scon.n)
Near(k, m, r) ==
    \A d \in 0..Live(k.hist)-1 :
        /\ Back(k, d) <= d + r /\ Back(k, d) < m
        /\ Newest(k.hist, d).data \in {None, m - Back(k, d)}
        /\ Newest(k.hist, d).scon.c # 1
Codes(k) == Opened(k) => k.recv.c \in {2, 3} /\ (k.st = "WaitAck" => k.recv.c = 2)

Pair(m) == [data : 1..m, n : 0..SeqMod-1]
Repeatable(k, m) ==
    IF Opened(k)
    THEN {[data |-> m - Back(k, d), n |-> Newest(k.hist, d).scon.n] : d \in 0..Live(k.hist)-1}
    ELSE {}

(* The data x, sent under the number n, is on the way behind the first     *)
(* frames of c, or may be sent again.  When the receiver's command layer   *)
(* has already gone past x, neither the number it has seen last nor that   *)
(* of any frame which it may take before has n as the next one: less than  *)
(* D numbers lie between, and only SeqMod - 1 would make it the next.      *)
Passed(g, x) == \E i \in 1..Len(g) : x <= g[i]
Below(c, g, i, x) == Passed(g, x) \/ \E j \in 1..i-1 : x <= c[j].data
Behind(c, L, g, D, i, x, n) ==
    /\ c[i].scon.c = 1 => ~Below(c, g, i, x)
    /\ (L[i] # 0 /\ x <= L[i]) \/ (L[i] = 0 /\ Below(c, g, i, x)) => Ahead(c[i].scon.n, n) < D
Greeting(k) == k.st \in {"Init2", "Init3"}
NotNext(k, g, D, x, n) ==
    Passed(g, x) => ~Greeting(k) /\ (Opened(k) => Ahead(k.send.n, n) < D)
Guarded(c, L, g, k, D, j, x, n) ==
    NotNext(k, g, D, x, n) /\ \A i \in 1..j-1 : Behind(c, L, g, D, i, x, n)
InOrder(c, L, g, k, R, D) ==
    /\ Increasing(g)
    /\ \A j \in 1..Len(c) : L[j] # 0 => Guarded(c, L, g, k, D, j, L[j], c[j].scon.n)
    /\ \A s \in R : Guarded(c, L, g, k, D, Len(c) + 1, s.data, s.n)

(* L gives each frame on the way the number of the data it stands for,     *)
(* also when the copy that was sent again had been released; 0 for a frame *)
(* that never had data.                                                    *)
Labels(c, L) == \A i \in 1..Len(c) : c[i].data # None => L[i] = c[i].data
Ordered(c, g, k, R, m, D) ==
    \E L \in [1..Len(c) -> 0..m] : Labels(c, L) /\ InOrder(c, L, g, k, R, D)

(* What the receiver does with a frame f: it leaves record k for j and     *)
(* hands x over.  A frame that is lost changes neither.                    *)
Taken(k, f, j, x) ==
    /\ Greeting(j) => f.scon.c = 1 \/ Greeting(k)
    /\ ~Opened(j) => x = None
    /\ Opened(j) => \/ x = None /\ Opened(k) /\ j.send.n = k.send.n
                    \/ x = None /\ Greeting(k)
                    \/ /\ Opened(k) /\ Ahead(f.scon.n, k.send.n) = 1
                       /\ j.send.n = f.scon.n /\ x = f.data
Heard(g, x) == IF x = None THEN g ELSE Append(g, x)

LEMMA OneBehind ==
    ASSUME NEW o \in 0..SeqMod-1, NEW n \in 0..SeqMod-1, Ahead(n, o) = 1
    PROVE  Ahead(o, n) = SeqMod - 1
<1>1. Ahead(n, o) = IF n >= o THEN n - o ELSE n + SeqMod - o
  BY AheadValue
<1>2. Ahead(o, n) = IF o >= n THEN o - n ELSE o + SeqMod - n
  BY AheadValue
<1>. QED BY <1>1, <1>2, Sizes, SMT

LEMMA TakenKeepsOrder ==
    ASSUME NEW m \in Nat, NEW c \in Seq(FrameUpTo(m)), c # <<>>, NEW g \in Seq(1..m),
           NEW l \in Nat, NEW k \in ConUpTo(l), NEW j, NEW x \in 0..m,
           NEW R \in SUBSET Pair(m), NEW D \in Nat, D < SeqMod,
           Taken(k, Head(c), j, x), Ordered(c, g, k, R, m, D)
    PROVE  Ordered(Tail(c), Heard(g, x), j, R, m, D)
<1>. PICK L \in [1..Len(c) -> 0..m] : Labels(c, L) /\ InOrder(c, L, g, k, R, D)
  BY DEF Ordered
<1>. DEFINE f == c[1]
            t == Tail(c)
            M == [i \in 1..Len(t) |-> L[i + 1]]
            h == Heard(g, x)
<1>1. /\ Len(c) \in Nat \ {0} /\ Len(t) = Len(c) - 1 /\ Len(t) \in Nat
      /\ \A i \in 1..Len(t) : t[i] = c[i + 1]
      /\ Head(c) = f /\ f \in FrameUpTo(m) /\ \A i \in 1..Len(c) : c[i] \in FrameUpTo(m)
  BY SMT
<1>. HIDE DEF t
<1>2. /\ M \in [1..Len(t) -> 0..m] /\ \A i \in 1..Len(t) : M[i] = L[i + 1]
      /\ 1 \in 1..Len(c) /\ \A i \in 1..Len(t) : i + 1 \in 1..Len(c)
  BY <1>1, SMT
<1>. HIDE DEF M
<1>3. /\ f.scon.n \in 0..SeqMod-1 /\ k.send.n \in 0..SeqMod-1 /\ f.data \in 0..m
      /\ L[1] \in 0..m
  BY <1>1, <1>2 DEF FrameUpTo, ConUpTo, Con
<1>4. Labels(t, M)
  BY <1>1, <1>2 DEF Labels
<1>5. /\ Increasing(g)
      /\ \A i \in 1..Len(c) : L[i] # 0 => Guarded(c, L, g, k, D, i, L[i], c[i].scon.n)
      /\ \A s \in R : Guarded(c, L, g, k, D, Len(c) + 1, s.data, s.n)
  BY DEF InOrder
\* A frame that is taken as the next one is ahead of everything delivered.
<1>6. ASSUME Opened(k), Ahead(f.scon.n, k.send.n) = 1, L[1] # 0
      PROVE  ~Passed(g, L[1])
  <2>1. NotNext(k, g, D, L[1], f.scon.n)
    BY <1>2, <1>5, <1>6 DEF Guarded
  <2>2. Ahead(k.send.n, f.scon.n) = SeqMod - 1
    BY <1>3, <1>6, OneBehind
  <2>3. ~(SeqMod - 1 < D)
    BY Sizes, SMT
  <2>. QED BY <1>6, <2>1, <2>2, <2>3 DEF NotNext
<1>7. x # None => Opened(k) /\ Ahead(f.scon.n, k.send.n) = 1 /\ L[1] = x /\ x = f.data
  BY <1>1, <1>2 DEF Taken, Labels
<1>8. \A y \in 1..m : Passed(h, y) => Passed(g, y) \/ (x # None /\ y <= x)
  <2>1. CASE x = None
    BY <2>1 DEF Heard
  <2>2. CASE x # None
    <3>1. h = Append(g, x)
      BY <2>2 DEF Heard
    <3>2. Len(h) = Len(g) + 1 /\ Len(g) \in Nat /\ h[Len(g) + 1] = x
          /\ \A i \in 1..Len(g) : h[i] = g[i]
      BY <3>1, SMT
    <3>. HIDE DEF h
    <3>3. \A i \in 1..Len(h) : i \in 1..Len(g) \/ i = Len(g) + 1
      BY <3>2, SMT
    <3>. QED BY <2>2, <3>2, <3>3 DEF Passed
  <2>. QED BY <2>1, <2>2
<1>9. Increasing(h)
  <2>1. CASE x = None
    BY <1>5, <2>1 DEF Heard
  <2>2. CASE x # None
    <3>1. ~Passed(g, x)
      BY <1>6, <1>7, <2>2 DEF None
    <3>2. \A i \in 1..Len(g) : ~(x <= g[i]) /\ g[i] \in 1..m
      BY <3>1, SMT DEF Passed
    <3>3. \A i \in 1..Len(g) : g[i] < x
      BY <1>3, <3>2, SMT
    <3>. QED BY <1>5, <2>2, <3>3, SMT DEF Heard, Increasing
  <2>. QED BY <2>1, <2>2
<1>. HIDE DEF h
<1>10. ASSUME NEW y \in 1..m, NEW n \in 0..SeqMod-1,
              NotNext(k, g, D, y, n), Behind(c, L, g, D, 1, y, n)
       PROVE  NotNext(j, h, D, y, n)
  <2>. SUFFICES ASSUME Passed(h, y)
       PROVE  ~Greeting(j) /\ (Opened(j) => Ahead(j.send.n, n) < D)
    BY DEF NotNext
  <2>1. CASE Passed(g, y)
    <3>1. ~Greeting(k) /\ (Opened(k) => Ahead(k.send.n, n) < D)
      BY <1>10, <2>1 DEF NotNext
    <3>2. Below(c, g, 1, y)
      BY <2>1 DEF Below
    <3>3. f.scon.c # 1 /\ (L[1] = 0 \/ y <= L[1] => Ahead(f.scon.n, n) < D)
      BY <1>3, <1>10, <3>2, SMT DEF Behind
    <3>4. ~Greeting(j)
      BY <1>1, <3>1, <3>3 DEF Taken
    <3>5. ASSUME Opened(k), Ahead(f.scon.n, k.send.n) = 1
          PROVE  Ahead(f.scon.n, n) < D
      <4>1. CASE L[1] = 0 \/ y <= L[1]
        BY <3>3, <4>1
      <4>2. CASE L[1] # 0 /\ ~(y <= L[1])
        <5>1. PICK i \in 1..Len(g) : y <= g[i]
          BY <2>1 DEF Passed
        <5>2. g[i] \in 1..m
          BY SMT
        <5>3. L[1] <= g[i]
          BY <1>3, <4>2, <5>1, <5>2, SMT
        <5>. QED BY <1>6, <3>5, <4>2, <5>3 DEF Passed
      <4>. QED BY <4>1, <4>2
    <3>. QED BY <1>1, <3>1, <3>4, <3>5 DEF Taken
  <2>2. CASE ~Passed(g, y)
    <3>1. x # None /\ y <= x
      BY <1>8, <2>2 DEF h
    <3>2. Opened(j) /\ j.send.n = f.scon.n /\ L[1] = x /\ x # 0
      BY <1>1, <1>7, <3>1 DEF Taken, None
    <3>3. Ahead(f.scon.n, n) < D
      BY <1>10, <3>1, <3>2 DEF Behind
    <3>4. ~Greeting(j)
      BY <3>2 DEF Opened, Greeting
    <3>. QED BY <3>2, <3>3, <3>4
  <2>. QED BY <2>1, <2>2
<1>11. ASSUME NEW y \in 1..m, NEW n, NEW i \in 1..Len(t), Behind(c, L, g, D, i + 1, y, n)
       PROVE  Behind(t, M, h, D, i, y, n)
  <2>1. t[i] = c[i + 1] /\ M[i] = L[i + 1]
    BY <1>1, <1>2
  <2>2. Below(t, h, i, y) => Below(c, g, i + 1, y)
    <3>1. \A u \in 1..i-1 : u + 1 \in 1..(i+1)-1 /\ t[u] = c[u + 1]
      <4>1. \A u \in 1..i-1 : u + 1 \in 1..(i+1)-1 /\ u \in 1..Len(t)
        BY <1>1, SMT
      <4>. QED BY <1>1, <4>1
    <3>2. 1 \in 1..(i+1)-1
      BY SMT
    <3>3. x # None => x = c[1].data
      BY <1>7
    <3>. QED BY <1>8, <3>1, <3>2, <3>3 DEF Below, h
  <2>. QED BY <1>11, <2>1, <2>2 DEF Behind
<1>12. ASSUME NEW y \in 1..m, NEW n \in 0..SeqMod-1, NEW i \in 1..Len(c),
              Guarded(c, L, g, k, D, i + 1, y, n)
       PROVE  Guarded(t, M, h, j, D, i, y, n)
  <2>1. \A u \in 1..i-1 : u + 1 \in 1..(i+1)-1 /\ u \in 1..Len(t)
    BY <1>1, SMT
  <2>2. 1 \in 1..(i+1)-1
    BY SMT
  <2>. QED BY <1>10, <1>11, <1>12, <2>1, <2>2 DEF Guarded
<1>13. \A i \in 1..Len(t) : M[i] # 0 => Guarded(t, M, h, j, D, i, M[i], t[i].scon.n)
  <2>. SUFFICES ASSUME NEW i \in 1..Len(t), M[i] # 0
       PROVE  Guarded(t, M, h, j, D, i, M[i], t[i].scon.n)
    OBVIOUS
  <2>1. i + 1 \in 1..Len(c) /\ i \in 1..Len(c) /\ t[i] = c[i + 1] /\ M[i] = L[i + 1]
    BY <1>1, <1>2, SMT
  <2>2. M[i] \in 1..m /\ t[i].scon.n \in 0..SeqMod-1
    <3>1. M[i] \in 0..m /\ t[i] \in FrameUpTo(m)
      BY <1>1, <1>2, <2>1
    <3>2. t[i].scon.n \in 0..SeqMod-1
      BY <3>1 DEF FrameUpTo, Con
    <3>. QED BY <3>1, <3>2, SMT
  <2>. QED BY <1>5, <1>12, <2>1, <2>2
<1>14. \A s \in R : Guarded(t, M, h, j, D, Len(t) + 1, s.data, s.n)
  <2>. SUFFICES ASSUME NEW s \in R PROVE Guarded(t, M, h, j, D, Len(t) + 1, s.data, s.n)
    OBVIOUS
  <2>1. s.data \in 1..m /\ s.n \in 0..SeqMod-1
    BY DEF Pair
  <2>2. Len(t) + 1 = Len(c) /\ Len(c) \in 1..Len(c)
    BY <1>1, SMT
  <2>. QED BY <1>5, <1>12, <2>1, <2>2
<1>15. InOrder(t, M, h, j, R, D)
  BY <1>9, <1>13, <1>14 DEF InOrder
<1>. QED BY <1>2, <1>4, <1>15 DEF Ordered, t, h

(* The receiver changes its record without taking a frame.                 *)
Quiet(k, j) ==
    /\ Greeting(j) => Greeting(k)
    /\ Opened(j) => Opened(k) /\ j.send.n = k.send.n

LEMMA QuietKeepsOrder ==
    ASSUME NEW m, NEW c, NEW g, NEW k, NEW j, NEW R, NEW D,
           Quiet(k, j), Ordered(c, g, k, R, m, D)
    PROVE  Ordered(c, g, j, R, m, D)
<1>1. ASSUME NEW y, NEW n, NotNext(k, g, D, y, n) PROVE NotNext(j, g, D, y, n)
  BY <1>1 DEF NotNext, Quiet
<1>2. ASSUME NEW L, NEW i, NEW y, NEW n, Guarded(c, L, g, k, D, i, y, n)
      PROVE  Guarded(c, L, g, j, D, i, y, n)
  BY <1>1, <1>2 DEF Guarded
<1>3. ASSUME NEW L, InOrder(c, L, g, k, R, D) PROVE InOrder(c, L, g, j, R, D)
  BY <1>2, <1>3 DEF InOrder
<1>. QED BY <1>3 DEF Ordered

(* More frames may have been refused.                                      *)
LEMMA MoreRefusedKeepsOrder ==
    ASSUME NEW m \in Nat, NEW c \in Seq(FrameUpTo(m)), NEW g,
           NEW l \in Nat, NEW k \in ConUpTo(l), NEW R \in SUBSET Pair(m),
           NEW D \in Nat, NEW E \in Nat, D <= E, Ordered(c, g, k, R, m, D)
    PROVE  Ordered(c, g, k, R, m, E)
<1>. PICK L \in [1..Len(c) -> 0..m] : Labels(c, L) /\ InOrder(c, L, g, k, R, D)
  BY DEF Ordered
<1>1. Len(c) \in Nat /\ \A i \in 1..Len(c) : c[i] \in FrameUpTo(m)
  BY SMT
<1>2. \A o, n \in 0..SeqMod-1 : Ahead(o, n) < D => Ahead(o, n) < E
  <2>. SUFFICES ASSUME NEW o \in 0..SeqMod-1, NEW n \in 0..SeqMod-1, Ahead(o, n) < D
       PROVE  Ahead(o, n) < E
    OBVIOUS
  <2>1. Ahead(o, n) \in 0..SeqMod-1
    BY AheadValue
  <2>. QED BY <2>1, Sizes, SMT
<1>3. k.send.n \in 0..SeqMod-1 /\ \A i \in 1..Len(c) : c[i].scon.n \in 0..SeqMod-1
  BY <1>1 DEF ConUpTo, FrameUpTo, Con
<1>4. ASSUME NEW y, NEW n \in 0..SeqMod-1, NEW i \in 1..Len(c)+1,
             Guarded(c, L, g, k, D, i, y, n)
      PROVE  Guarded(c, L, g, k, E, i, y, n)
  <2>1. NotNext(k, g, E, y, n)
    BY <1>2, <1>3, <1>4 DEF Guarded, NotNext
  <2>2. \A u \in 1..i-1 : u \in 1..Len(c)
    BY <1>1, SMT
  <2>3. \A u \in 1..i-1 : Behind(c, L, g, E, u, y, n)
    BY <1>2, <1>3, <1>4, <2>2 DEF Guarded, Behind
  <2>. QED BY <2>1, <2>3 DEF Guarded
<1>5. \A i \in 1..Len(c) : i \in 1..Len(c)+1
  BY <1>1, SMT
<1>6. Len(c) + 1 \in 1..Len(c)+1
  BY <1>1, SMT
<1>7. \A s \in R : s.n \in 0..SeqMod-1
  BY DEF Pair
<1>8. InOrder(c, L, g, k, R, E)
  BY <1>3, <1>4, <1>5, <1>6, <1>7 DEF InOrder
<1>. QED BY <1>8 DEF Ordered

(* What a sender of m frames that may send those of R again does: it sends *)
(* the frames s, labelled M, and may then send those of Q again.           *)
Fits(f, v, Q, D) ==
    /\ f.data # None => v = f.data
    /\ v # 0 => \E r \in Q : r.data = v /\ r.n = f.scon.n
    /\ Q # {} => f.scon.c # 1
    /\ \A r \in Q : v = 0 \/ r.data <= v => Ahead(f.scon.n, r.n) < D
Follows(R, Q, s, M, m, D) ==
    /\ \A r \in Q : r \in R \/ m < r.data
    /\ \A i \in 1..Len(s) : Fits(s[i], M[i], Q, D)

LEMMA AppendKeepsOrder ==
    ASSUME NEW m \in Nat, NEW o \in Nat, m <= o,
           NEW c \in Seq(FrameUpTo(m)), NEW g \in Seq(1..m), NEW k,
           NEW R \in SUBSET Pair(m), NEW Q \in SUBSET Pair(o), NEW D,
           NEW s \in Seq(FrameUpTo(o)), NEW M \in [1..Len(s) -> 0..o],
           Follows(R, Q, s, M, m, D), Ordered(c, g, k, R, m, D)
    PROVE  Ordered(c \o s, g, k, Q, o, D)
<1>. PICK L \in [1..Len(c) -> 0..m] : Labels(c, L) /\ InOrder(c, L, g, k, R, D)
  BY DEF Ordered
<1>. DEFINE t == c \o s
            N == [i \in 1..Len(t) |-> IF i <= Len(c) THEN L[i] ELSE M[i - Len(c)]]
<1>1. /\ Len(c) \in Nat /\ Len(s) \in Nat /\ Len(t) = Len(c) + Len(s)
      /\ \A i \in 1..Len(c) : t[i] = c[i] /\ c[i] \in FrameUpTo(m)
      /\ \A i \in 1..Len(s) : t[Len(c) + i] = s[i]
      /\ Len(g) \in Nat /\ \A i \in 1..Len(g) : g[i] \in 1..m
  BY SMT
<1>. HIDE DEF t
<1>2. /\ \A i \in 1..Len(c) : i \in 1..Len(t) /\ i <= Len(c)
      /\ \A i \in 1..Len(s) : /\ Len(c) + i \in 1..Len(t) /\ ~(Len(c) + i <= Len(c))
                              /\ (Len(c) + i) - Len(c) = i
      /\ \A i \in 1..Len(t) : i \in 1..Len(c) \/ \E u \in 1..Len(s) : i = Len(c) + u
  <2>1. Len(c) \in Nat /\ Len(s) \in Nat /\ Len(t) = Len(c) + Len(s)
    BY <1>1
  <2>2. ASSUME NEW i \in 1..Len(t), ~(i \in 1..Len(c))
        PROVE  \E u \in 1..Len(s) : i = Len(c) + u
    <3>1. i - Len(c) \in 1..Len(s) /\ i = Len(c) + (i - Len(c))
      BY <2>1, <2>2, SMT
    <3>. QED BY <3>1, Zenon
  <2>3. \A i \in 1..Len(s) : /\ Len(c) + i \in 1..Len(t) /\ ~(Len(c) + i <= Len(c))
                             /\ (Len(c) + i) - Len(c) = i
    BY <2>1, SMT
  <2>4. \A i \in 1..Len(c) : i \in 1..Len(t) /\ i <= Len(c)
    BY <2>1, SMT
  <2>. QED BY <2>2, <2>3, <2>4
<1>3. /\ \A i \in 1..Len(c) : N[i] = L[i] /\ L[i] \in 0..m
      /\ \A i \in 1..Len(s) : N[Len(c) + i] = M[i] /\ M[i] \in 0..o
  BY <1>2
<1>4. N \in [1..Len(t) -> 0..o]
  <2>1. \A i \in 1..Len(t) : N[i] \in 0..o
    <3>1. \A v \in 0..m : v \in 0..o
      BY SMT
    <3>. HIDE DEF N
    <3>. QED BY <1>2, <1>3, <3>1
  <2>. QED BY <2>1
<1>. HIDE DEF N
<1>5. /\ Increasing(g)
      /\ \A i \in 1..Len(c) : L[i] # 0 => Guarded(c, L, g, k, D, i, L[i], c[i].scon.n)
      /\ \A r \in R : Guarded(c, L, g, k, D, Len(c) + 1, r.data, r.n)
  BY DEF InOrder
<1>6. Labels(t, N)
  <2>. SUFFICES ASSUME NEW i \in 1..Len(t), t[i].data # None PROVE N[i] = t[i].data
    BY DEF Labels
  <2>1. CASE i \in 1..Len(c)
    BY <1>1, <1>3, <2>1 DEF Labels
  <2>2. ASSUME NEW u \in 1..Len(s), i = Len(c) + u PROVE N[i] = t[i].data
    <3>1. t[i] = s[u] /\ N[i] = M[u]
      BY <1>1, <1>3, <2>2
    <3>. QED BY <3>1 DEF Follows, Fits
  <2>. QED BY <1>2, <2>1, <2>2
\* What lies before a frame of c is the same in c and in t.
<1>7. ASSUME NEW y, NEW n, NEW i \in 1..Len(c), Behind(c, L, g, D, i, y, n)
      PROVE  Behind(t, N, g, D, i, y, n)
  <2>1. \A u \in 1..i-1 : u \in 1..Len(c)
    BY <1>1, SMT
  <2>2. Below(t, g, i, y) <=> Below(c, g, i, y)
    BY <1>1, <2>1 DEF Below
  <2>. QED BY <1>1, <1>3, <1>7, <2>2 DEF Behind
<1>8. ASSUME NEW r \in Q
      PROVE  NotNext(k, g, D, r.data, r.n) /\ \A i \in 1..Len(c) : Behind(c, L, g, D, i, r.data, r.n)
  <2>1. CASE r \in R
    <3>1. \A i \in 1..Len(c) : i \in 1..(Len(c)+1)-1
      BY <1>1, SMT
    <3>. QED BY <1>5, <2>1, <3>1 DEF Guarded
  <2>2. CASE m < r.data
    <3>1. r.data \in Nat
      BY SMT DEF Pair
    <3>2. ~Passed(g, r.data)
      BY <1>1, <2>2, <3>1, SMT DEF Passed
    <3>3. ASSUME NEW i \in 1..Len(c) PROVE ~Below(c, g, i, r.data)
      <4>1. \A u \in 1..i-1 : u \in 1..Len(c)
        BY <1>1, SMT
      <4>2. \A u \in 1..Len(c) : c[u].data \in 0..m
        BY <1>1 DEF FrameUpTo
      <4>3. \A v \in 0..m : ~(r.data <= v)
        BY <2>2, <3>1, SMT
      <4>. QED BY <3>2, <4>1, <4>2, <4>3 DEF Below
    <3>4. \A i \in 1..Len(c) : ~(r.data <= L[i])
      BY <1>3, <2>2, <3>1, SMT
    <3>. QED BY <3>2, <3>3, <3>4 DEF NotNext, Behind
  <2>. QED BY <2>1, <2>2 DEF Follows
<1>9. ASSUME NEW r \in Q, NEW i \in 1..Len(t)+1
      PROVE  Guarded(t, N, g, k, D, i, r.data, r.n)
  <2>. SUFFICES ASSUME NEW u \in 1..i-1 PROVE Behind(t, N, g, D, u, r.data, r.n)
    BY <1>8 DEF Guarded
  <2>1. u \in 1..Len(t)
    BY <1>1, SMT
  <2>2. CASE u \in 1..Len(c)
    BY <1>7, <1>8, <2>2
  <2>3. ASSUME NEW v \in 1..Len(s), u = Len(c) + v PROVE Behind(t, N, g, D, u, r.data, r.n)
    <3>1. t[u] = s[v] /\ N[u] = M[v]
      BY <1>1, <1>3, <2>3
    <3>. QED BY <3>1 DEF Follows, Fits, Behind
  <2>. QED BY <1>2, <2>1, <2>2, <2>3
<1>10. \A i \in 1..Len(t) : N[i] # 0 => Guarded(t, N, g, k, D, i, N[i], t[i].scon.n)
  <2>. SUFFICES ASSUME NEW i \in 1..Len(t), N[i] # 0
       PROVE  Guarded(t, N, g, k, D, i, N[i], t[i].scon.n)
    OBVIOUS
  <2>1. CASE i \in 1..Len(c)
    <3>1. Guarded(c, L, g, k, D, i, L[i], c[i].scon.n) /\ N[i] = L[i] /\ t[i] = c[i]
      BY <1>1, <1>3, <1>5, <2>1
    <3>2. \A u \in 1..i-1 : u \in 1..Len(c)
      BY <1>1, <2>1, SMT
    <3>. QED BY <1>7, <3>1, <3>2 DEF Guarded
  <2>2. ASSUME NEW v \in 1..Len(s), i = Len(c) + v
        PROVE  Guarded(t, N, g, k, D, i, N[i], t[i].scon.n)
    <3>1. N[i] = M[v] /\ t[i] = s[v]
      BY <1>1, <1>3, <2>2
    <3>2. PICK r \in Q : r.data = M[v] /\ r.n = s[v].scon.n
      BY <3>1 DEF Follows, Fits
    <3>3. i \in 1..Len(t)+1
      BY <1>1, SMT
    <3>. QED BY <1>9, <3>1, <3>2, <3>3
  <2>. QED BY <1>2, <2>1, <2>2
<1>11. \A r \in Q : Guarded(t, N, g, k, D, Len(t) + 1, r.data, r.n)
  <2>1. Len(t) + 1 \in 1..Len(t)+1
    BY <1>1, SMT
  <2>. QED BY <1>9, <2>1
<1>12. InOrder(t, N, g, k, Q, D)
  BY <1>5, <1>10, <1>11 DEF InOrder
<1>. QED BY <1>4, <1>6, <1>12 DEF Ordered, t

-----------------------------------------------------------------------------
(* The ring, counted from its newest entry.                                *)
LEMMA UnreadValue ==
    ASSUME NEW m \in Nat, NEW h \in Hist(m)
    PROVE  /\ Unread(h) = IF h.w >= h.a THEN h.w - h.a ELSE h.w + HistorySize - h.a
           /\ Unread(h) \in 0..HistorySize-1
           /\ Live(h) \in 0..HistorySize /\ Unread(h) <= Live(h)
<1>1. h.w \in 0..HistorySize-1 /\ h.a \in 0..HistorySize-1 /\ h.free \in 0..2*HistorySize-1
  BY DEF Hist, Ring
<1>. DEFINE x == h.w + HistorySize - h.a
<1>2. x \in 0..2*HistorySize-1
  BY <1>1, Sizes, SMT
<1>3. Unread(h) = x % HistorySize
  BY DEF Unread
<1>4. Unread(h) = IF x < HistorySize THEN x ELSE x - HistorySize
  <2>. HIDE DEF x
  <2>. QED BY <1>2, <1>3, SlotInRing
<1>5. Unread(h) = IF h.w >= h.a THEN h.w - h.a ELSE h.w + HistorySize - h.a
  BY <1>1, <1>4, Sizes, SMT
<1>. QED BY <1>1, <1>5, Sizes, SMT DEF Live

LEMMA AgeValue ==
    ASSUME NEW w \in Ring, NEW d \in 0..HistorySize-1
    PROVE  /\ Age(w, d) \in Ring
           /\ Age(w, d) = IF d < w THEN w - 1 - d ELSE w + HistorySize - 1 - d
<1>1. w \in 0..HistorySize-1
  BY DEF Ring
<1>. DEFINE x == w + HistorySize - 1 - d
<1>2. x \in 0..2*HistorySize-1
  BY <1>1, Sizes, SMT
<1>3. Age(w, d) = x % HistorySize
  BY DEF Age
<1>4. Age(w, d) \in Ring /\ Age(w, d) = IF x < HistorySize THEN x ELSE x - HistorySize
  <2>. HIDE DEF x
  <2>. QED BY <1>2, <1>3, SlotInRing
<1>. QED BY <1>1, <1>4, Sizes, SMT

LEMMA NewestType ==
    ASSUME NEW m \in Nat, NEW h \in Hist(m), NEW d \in 0..HistorySize-1
    PROVE  Newest(h, d) = h.fr[Age(h.w, d)] /\ Newest(h, d) \in FrameUpTo(m)
<1>1. h.w \in Ring /\ h.fr \in [Ring -> FrameUpTo(m)]
  BY DEF Hist
<1>2. Age(h.w, d) \in Ring
  BY <1>1, AgeValue
<1>3. Newest(h, d) = h.fr[Age(h.w, d)]
  BY DEF Newest, Age
<1>. QED BY <1>1, <1>2, <1>3

(* The frames kept for repeating are among those that are live.            *)
LEMMA KeptAreLive ==
    ASSUME NEW m \in Nat, NEW h \in Hist(m)
    PROVE  /\ \A i \in 1..Len(Kept(h)) : \E d \in 0..Live(h)-1 : Kept(h)[i] = Newest(h, d)
           /\ Kept(h) # <<>> => \E d \in 0..Live(h)-1 : h.a = Age(h.w, d)
<1>1. /\ h.w \in Ring /\ h.a \in Ring /\ h.w \in 0..HistorySize-1 /\ h.a \in 0..HistorySize-1
      /\ h.free \in 0..2*HistorySize-1
  BY DEF Hist, Ring
<1>2. /\ Unread(h) = IF h.w >= h.a THEN h.w - h.a ELSE h.w + HistorySize - h.a
      /\ Unread(h) \in 0..HistorySize-1
      /\ Live(h) \in 0..HistorySize /\ Unread(h) <= Live(h)
  BY UnreadValue
<1>3. CASE h.free >= HistorySize
  <2>1. Kept(h) = <<>>
    BY <1>3 DEF Kept
  <2>. QED BY <2>1, SMT
<1>4. CASE ~(h.free >= HistorySize)
  <2>. DEFINE n == ReadTo(h)
              s == Unread(h)
  <2>1. Kept(h) = [i \in 1..n |-> Entry(h, i - 1)]
    BY <1>4 DEF Kept
  <2>2. n \in 0..s
    BY ReadToType
  <2>3. s \in Nat /\ n \in Nat /\ s < HistorySize /\ s <= Live(h)
    BY <1>2, <2>2, Sizes, SMT
  <2>. HIDE DEF n, s
  <2>4. ASSUME NEW i \in 1..n
        PROVE  /\ s - i \in 0..Live(h)-1
               /\ (h.a + (i - 1)) % HistorySize = Age(h.w, s - i)
    <3>. DEFINE x == (h.a + (i - 1)) % HistorySize
                y == Age(h.w, s - i)
    <3>1. s - i \in 0..Live(h)-1 /\ s - i \in 0..HistorySize-1 /\ i - 1 \in 0..HistorySize
      BY <1>2, <2>2, <2>3, Sizes, SMT
    <3>2. /\ h.a + (i - 1) < HistorySize => x = h.a + (i - 1)
          /\ ~(h.a + (i - 1) < HistorySize) => x = h.a + (i - 1) - HistorySize
      BY <1>1, <3>1, Slots
    <3>3. y = IF s - i < h.w THEN h.w - 1 - (s - i) ELSE h.w + HistorySize - 1 - (s - i)
      BY <1>1, <3>1, AgeValue
    <3>. HIDE DEF x, y
    <3>4. x = y
      BY <1>1, <1>2, <2>2, <2>3, <3>2, <3>3, Sizes, SMT DEF s
    <3>. QED BY <3>1, <3>4 DEF x, y
  <2>5. Len(Kept(h)) = n /\ \A i \in 1..n : Kept(h)[i] = Entry(h, i - 1)
    BY <2>1, <2>2, <2>3, SMT
  <2>6. ASSUME NEW i \in 1..n PROVE \E d \in 0..Live(h)-1 : Kept(h)[i] = Newest(h, d)
    <3>1. Entry(h, i - 1) = Newest(h, s - i)
      BY <2>4 DEF Entry, Newest, Age
    <3>. QED BY <2>4, <2>5, <3>1
  <2>7. ASSUME Kept(h) # <<>> PROVE \E d \in 0..Live(h)-1 : h.a = Age(h.w, d)
    <3>1. n # 0
      BY <2>1, <2>2, <2>3, <2>7, SMT
    <3>2. 1 \in 1..n /\ h.a + (1 - 1) = h.a /\ 1 - 1 = 0 /\ 0 \in 0..HistorySize
      BY <1>1, <2>2, <2>3, <3>1, Sizes, SMT
    <3>3. (h.a + (1 - 1)) % HistorySize = h.a
      <4>1. \A v \in 0..HistorySize-1 : v % HistorySize = v
        BY Sizes, SMT
      <4>. QED BY <1>1, <3>2, <4>1
    <3>. QED BY <2>4, <3>2, <3>3
  <2>. QED BY <2>5, <2>6, <2>7
<1>. QED BY <1>3, <1>4

(* An acknowledgement strikes data, but leaves the numbers where they are  *)
(* and makes no more entries live, also where it counts entries as free    *)
(* that it does not pass.                                                  *)
LEMMA DeletedLive ==
    ASSUME NEW m \in Nat, NEW h \in Hist(m), NEW rn \in 0..SeqMod-1
    PROVE  LET g == deleteAckedFrameFromHistory(h, rn)
           IN  /\ g.w = h.w /\ Live(g) <= Live(h)
               /\ \A i \in Ring : g.fr[i].scon = h.fr[i].scon /\ g.fr[i].data \in {None, h.fr[i].data}
<1>. DEFINE k == Released(h, rn)
            g == deleteAckedFrameFromHistory(h, rn)
            freed == {(h.a + i) % HistorySize : i \in 0..k-1}
            moves == k > 0 /\ Acked(h, rn, LastTurn(h, rn))
            a == IF moves THEN (h.a + k) % HistorySize ELSE h.a
            fr == [i \in Ring |-> IF i \in freed THEN [h.fr[i] EXCEPT !.data = None] ELSE h.fr[i]]
<1>1. /\ h \in [free : 0..2*HistorySize-1, w : Ring, a : Ring, fr : [Ring -> FrameUpTo(m)]]
      /\ h.w \in Ring /\ h.a \in Ring /\ h.w \in 0..HistorySize-1 /\ h.a \in 0..HistorySize-1
      /\ h.free \in 0..2*HistorySize-1
  BY DEF Hist, Ring
<1>2. g.free = h.free + k /\ g.w = h.w /\ g.a = a /\ g.fr = fr
  <2>1. g = [h EXCEPT !.free = @ + k, !.a = a, !.fr = fr]
    BY DEF deleteAckedFrameFromHistory
  <2>. HIDE DEF k, fr, a, g
  <2>. QED BY <1>1, <2>1
<1>3. \A i \in Ring : g.fr[i].scon = h.fr[i].scon /\ g.fr[i].data \in {None, h.fr[i].data}
  <2>1. \A f \in FrameUpTo(m) : /\ [f EXCEPT !.data = None].scon = f.scon
                                /\ [f EXCEPT !.data = None].data = None
    BY DEF FrameUpTo
  <2>2. \A i \in Ring : h.fr[i] \in FrameUpTo(m)
    BY <1>1
  <2>. HIDE DEF freed, g
  <2>. QED BY <1>2, <2>1, <2>2
<1>4. g \in Hist(m)
  BY DeletedType
<1>5. /\ k \in 0..HistorySize /\ (h.free >= HistorySize => k = 0)
      /\ LastTurn(h, rn) \in 0..HistorySize-1
      /\ \A i \in 0..HistorySize : LoopEnds(h, rn, i) => LastTurn(h, rn) <= i
      /\ moves => k = LastTurn(h, rn) + 1
  <2>1. /\ LastTurn(h, rn) \in 0..HistorySize-1
        /\ \A i \in 0..HistorySize : LoopEnds(h, rn, i) => LastTurn(h, rn) <= i
    BY LoopStops
  <2>2. k \in 0..HistorySize /\ (h.free >= HistorySize => k = 0)
    BY ReleasedType
  <2>3. moves => k = LastTurn(h, rn) + 1
    BY <2>1, SMT DEF Released
  <2>. QED BY <2>1, <2>2, <2>3
<1>. HIDE DEF k, g, fr
<1>. DEFINE n == Unread(h)
            o == Unread(g)
<1>6. /\ n = IF h.w >= h.a THEN h.w - h.a ELSE h.w + HistorySize - h.a
      /\ n \in 0..HistorySize-1
  BY UnreadValue
<1>7. /\ o = IF g.w >= g.a THEN g.w - g.a ELSE g.w + HistorySize - g.a
      /\ o \in 0..HistorySize-1
  BY <1>4, UnreadValue
<1>8. CASE ~moves
  <2>1. o = n
    <3>. HIDE DEF o, n, moves
    <3>. QED BY <1>2, <1>6, <1>7, <1>8
  <2>. HIDE DEF o, n, moves
  <2>2. Live(g) <= Live(h)
    BY <1>1, <1>2, <1>5, <1>6, <2>1, Sizes, SMT DEF Live, o, n
  <2>. QED BY <1>2, <1>3, <2>2 DEF g
<1>9. CASE moves /\ n = 0
  <2>. HIDE DEF o, n
  <2>1. Live(h) = HistorySize
    BY <1>1, <1>5, <1>9, Sizes, SMT DEF Live, n
  <2>2. Live(g) \in 0..HistorySize
    BY <1>4, UnreadValue
  <2>. QED BY <1>2, <1>3, <2>1, <2>2, Sizes, SMT DEF g
<1>10. CASE moves /\ n # 0
  <2>1. k <= n
    <3>1. n - 1 \in 0..HistorySize /\ h.a + (n - 1) + 1 = h.a + n /\ n \in 0..HistorySize
      BY <1>1, <1>6, <1>10, Sizes, SMT
    <3>2. (h.a + n) % HistorySize = h.w
      <4>. HIDE DEF n
      <4>1. /\ h.a + n < HistorySize => (h.a + n) % HistorySize = h.a + n
            /\ ~(h.a + n < HistorySize) => (h.a + n) % HistorySize = h.a + n - HistorySize
        BY <1>1, <3>1, Slots
      <4>2. \/ h.a + n < HistorySize /\ h.w = h.a + n
            \/ ~(h.a + n < HistorySize) /\ h.w = h.a + n - HistorySize
        BY <1>1, <1>6, Sizes, SMT
      <4>. QED BY <4>1, <4>2, Zenon
    <3>3. LoopEnds(h, rn, n - 1)
      BY <3>1, <3>2 DEF LoopEnds
    <3>4. LastTurn(h, rn) <= n - 1
      <4>. HIDE DEF n
      <4>. QED BY <1>5, <3>1, <3>3
    <3>. QED BY <1>5, <1>6, <1>10, <3>4, Sizes, SMT
  <2>2. g.a = (h.a + k) % HistorySize /\ k > 0
    BY <1>2, <1>10
  <2>3. /\ h.a + k < HistorySize => g.a = h.a + k
        /\ ~(h.a + k < HistorySize) => g.a = h.a + k - HistorySize
    BY <1>1, <1>5, <2>2, Slots
  <2>4. o = n - k
    <3>. HIDE DEF o, n, moves
    <3>1. g.a \in 0..HistorySize-1
      BY <1>4 DEF Hist, Ring
    <3>. QED BY <1>1, <1>2, <1>5, <1>6, <1>7, <2>1, <2>2, <2>3, <3>1, Sizes, SMT
  <2>. HIDE DEF o, n, moves
  <2>5. Live(g) <= Live(h)
    BY <1>1, <1>2, <1>5, <1>6, <2>1, <2>4, Sizes, SMT DEF Live, o, n
  <2>. QED BY <1>2, <1>3, <2>5 DEF g
<1>. QED BY <1>8, <1>9, <1>10

(* A new frame becomes the newest; what was live before is one older.      *)
LEMMA AddedLive ==
    ASSUME NEW m \in Nat, NEW h \in Hist(m), NEW f \in FrameUpTo(m + 1), h.free # 0
    PROVE  LET g == addFrameToHistory(h, f)
           IN  /\ Newest(g, 0) = f
               /\ \A d \in 1..Live(g)-1 : d - 1 \in 0..Live(h)-1 /\ Newest(g, d) = Newest(h, d - 1)
<1>. DEFINE g == addFrameToHistory(h, f)
            w == (h.w + 1) % HistorySize
<1>1. /\ h \in [free : 0..2*HistorySize-1, w : Ring, a : Ring, fr : [Ring -> FrameUpTo(m)]]
      /\ h.w \in Ring /\ h.a \in Ring /\ h.w \in 0..HistorySize-1 /\ h.a \in 0..HistorySize-1
      /\ h.free \in 1..2*HistorySize-1
  <2>1. h.free \in 0..2*HistorySize-1 /\ h.w \in Ring /\ h.a \in Ring
    BY DEF Hist
  <2>2. h.free \in 1..2*HistorySize-1
    BY <2>1, Sizes, SMT
  <2>. QED BY <2>1, <2>2 DEF Hist, Ring
<1>2. g.free = h.free - 1 /\ g.w = w /\ g.a = h.a /\ g.fr = [h.fr EXCEPT ![h.w] = f]
  <2>1. g = [h EXCEPT !.fr[h.w] = f, !.free = @ - 1, !.w = w]
    BY <1>1 DEF addFrameToHistory
  <2>. HIDE DEF g, w
  <2>. QED BY <1>1, <2>1
<1>3. g \in Hist(m + 1) /\ m + 1 \in Nat
  BY AddedType, SMT
<1>4. /\ w \in Ring /\ w \in 0..HistorySize-1
      /\ h.w + 1 < HistorySize => w = h.w + 1
      /\ ~(h.w + 1 < HistorySize) => w = h.w + 1 - HistorySize
  <2>1. 1 \in 0..HistorySize
    BY Sizes, SMT
  <2>2. /\ w \in Ring
        /\ h.w + 1 < HistorySize => w = h.w + 1
        /\ ~(h.w + 1 < HistorySize) => w = h.w + 1 - HistorySize
    BY <1>1, <2>1, Slots
  <2>. HIDE DEF w
  <2>3. w \in 0..HistorySize-1
    BY <2>2 DEF Ring
  <2>. QED BY <2>2, <2>3
<1>. HIDE DEF g, w
<1>5. /\ Unread(h) = IF h.w >= h.a THEN h.w - h.a ELSE h.w + HistorySize - h.a
      /\ Unread(h) \in 0..HistorySize-1
  BY UnreadValue
<1>6. /\ Unread(g) = IF g.w >= g.a THEN g.w - g.a ELSE g.w + HistorySize - g.a
      /\ Unread(g) \in 0..HistorySize-1
      /\ Live(g) \in 0..HistorySize
  BY <1>3, UnreadValue
<1>7. Live(g) <= Live(h) + 1
  <2>1. Unread(g) = Unread(h) + 1 \/ Unread(h) + 1 = HistorySize
    <3>1. h.w \in 0..HistorySize-1 /\ h.a \in 0..HistorySize-1 /\ g.a = h.a /\ g.w = w
      BY <1>1, <1>2
    <3>. QED BY <1>4, <1>5, <1>6, <3>1, Sizes, SMT
  <2>2. Live(h) \in 0..HistorySize /\ Unread(h) <= Live(h)
    BY UnreadValue
  <2>3. Live(g) \in 0..HistorySize /\ Unread(g) \in 0..HistorySize-1 /\ Unread(h) \in 0..HistorySize-1
    BY <1>5, <1>6
  <2>4. CASE Unread(h) + 1 = HistorySize
    BY <2>2, <2>3, <2>4, Sizes, SMT
  <2>5. CASE Unread(g) = Unread(h) + 1
    <3>1. g.free + Unread(g) = h.free + Unread(h)
      BY <1>1, <1>2, <2>3, <2>5, SMT
    <3>. QED BY <2>2, <2>3, <2>5, <3>1, Sizes, SMT DEF Live
  <2>. QED BY <2>1, <2>4, <2>5
<1>8. Newest(g, 0) = f
  <2>1. 0 \in 0..HistorySize-1
    BY Sizes, SMT
  <2>2. Age(w, 0) = IF 0 < w THEN w - 1 - 0 ELSE w + HistorySize - 1 - 0
    BY <1>4, <2>1, AgeValue
  <2>3. Age(w, 0) = h.w
    BY <1>1, <1>4, <2>2, Sizes, SMT
  <2>. QED BY <1>1, <1>2, <2>3 DEF Newest
<1>9. ASSUME NEW d \in 1..Live(g)-1
      PROVE  d - 1 \in 0..Live(h)-1 /\ Newest(g, d) = Newest(h, d - 1)
  <2>1. Live(h) \in 0..HistorySize
    BY UnreadValue
  <2>2. d - 1 \in 0..Live(h)-1 /\ d \in 0..HistorySize-1 /\ d - 1 \in 0..HistorySize-1
    BY <1>6, <1>7, <2>1, Sizes, SMT
  <2>3. Age(w, d) = IF d < w THEN w - 1 - d ELSE w + HistorySize - 1 - d
    BY <1>4, <2>2, AgeValue
  <2>4. /\ Age(h.w, d - 1) = IF d - 1 < h.w THEN h.w - 1 - (d - 1) ELSE h.w + HistorySize - 1 - (d - 1)
        /\ Age(h.w, d - 1) \in Ring
    BY <1>1, <2>2, AgeValue
  <2>5. Age(w, d) = Age(h.w, d - 1) /\ Age(h.w, d - 1) # h.w
    BY <1>1, <1>4, <2>2, <2>3, <2>4, Sizes, SMT
  <2>. QED BY <1>1, <1>2, <2>2, <2>4, <2>5 DEF Newest
<1>. QED BY <1>8, <1>9 DEF g

-----------------------------------------------------------------------------
(* The sender.  Record j still has the history of record k, or less of it. *)
Remains(k, j) ==
    /\ j.recv.n = k.recv.n /\ Live(j.hist) <= Live(k.hist)
    /\ \A d \in 0..Live(j.hist)-1 :
         /\ Newest(j.hist, d).scon.n = Newest(k.hist, d).scon.n
         /\ Newest(j.hist, d).scon.c \in {Newest(k.hist, d).scon.c, 3}
         /\ Newest(j.hist, d).data \in {None, Newest(k.hist, d).data}
Stays(k, j) == Opened(j) => Live(j.hist) = 0 \/ (Opened(k) /\ Remains(k, j))

(* The frames that leave with record j: of an open connection its last     *)
(* number without data, or frames of the ring; otherwise nothing with data.*)
Emits(j, out) ==
    \A i \in 1..Len(out) :
        IF Opened(j)
        THEN \/ out[i].scon = j.recv /\ out[i].data = None
             \/ \E d \in 0..Live(j.hist)-1 : out[i] = Newest(j.hist, d)
        ELSE out[i].data = None

LEMMA StaysNear ==
    ASSUME NEW m \in Nat, NEW k \in ConUpTo(m), NEW j \in ConUpTo(m), NEW r \in Nat,
           Stays(k, j), Opened(k) => Near(k, m, r)
    PROVE  /\ Opened(j) => Near(j, m, r)
           /\ Repeatable(j, m) \subseteq Repeatable(k, m)
<1>1. /\ k.hist \in Hist(m) /\ j.hist \in Hist(m)
      /\ Live(k.hist) \in 0..HistorySize /\ Live(j.hist) \in 0..HistorySize
  <2>1. k.hist \in Hist(m) /\ j.hist \in Hist(m)
    BY DEF ConUpTo
  <2>. QED BY <2>1, UnreadValue
<1>2. CASE ~Opened(j)
  BY <1>2 DEF Repeatable
<1>3. CASE Opened(j) /\ Live(j.hist) = 0
  <2>1. 0..Live(j.hist)-1 = {}
    BY <1>3, SMT
  <2>. QED BY <1>3, <2>1 DEF Repeatable, Near
<1>4. CASE Opened(j) /\ Live(j.hist) # 0
  <2>1. Opened(k) /\ Remains(k, j) /\ Near(k, m, r)
    BY <1>4 DEF Stays
  <2>2. \A d \in 0..Live(j.hist)-1 : d \in 0..Live(k.hist)-1
    BY <1>1, <2>1, Sizes, SMT DEF Remains
  <2>3. \A d \in 0..Live(j.hist)-1 : Back(j, d) = Back(k, d)
    BY <2>1 DEF Remains, Back
  <2>4. Near(j, m, r)
    <3>. SUFFICES ASSUME NEW d \in 0..Live(j.hist)-1
         PROVE  /\ Back(j, d) <= d + r /\ Back(j, d) < m
                /\ Newest(j.hist, d).data \in {None, m - Back(j, d)}
                /\ Newest(j.hist, d).scon.c # 1
      BY DEF Near
    <3>1. /\ Back(k, d) <= d + r /\ Back(k, d) < m
          /\ Newest(k.hist, d).data \in {None, m - Back(k, d)}
          /\ Newest(k.hist, d).scon.c # 1
      BY <2>1, <2>2 DEF Near
    <3>2. /\ Newest(j.hist, d).scon.c \in {Newest(k.hist, d).scon.c, 3}
          /\ Newest(j.hist, d).data \in {None, Newest(k.hist, d).data}
      BY <2>1 DEF Remains
    <3>. QED BY <2>3, <3>1, <3>2
  <2>5. Repeatable(j, m) \subseteq Repeatable(k, m)
    BY <1>4, <2>1, <2>2, <2>3, Zenon DEF Repeatable, Remains
  <2>. QED BY <2>4, <2>5
<1>. QED BY <1>2, <1>3, <1>4

LEMMA RepeatableType ==
    ASSUME NEW m \in Nat, NEW k \in ConUpTo(m), NEW r \in Nat, Opened(k) => Near(k, m, r)
    PROVE  Repeatable(k, m) \in SUBSET Pair(m)
<1>. SUFFICES ASSUME Opened(k), NEW d \in 0..Live(k.hist)-1
     PROVE  [data |-> m - Back(k, d), n |-> Newest(k.hist, d).scon.n] \in Pair(m)
  BY DEF Repeatable
<1>1. k.hist \in Hist(m) /\ k.recv.n \in 0..SeqMod-1
  BY DEF ConUpTo, Con
<1>2. d \in 0..HistorySize-1
  <2>1. Live(k.hist) \in 0..HistorySize
    BY <1>1, UnreadValue
  <2>. QED BY <2>1, Sizes, SMT
<1>3. Newest(k.hist, d).scon.n \in 0..SeqMod-1
  BY <1>1, <1>2, NewestType DEF FrameUpTo, Con
<1>4. Back(k, d) \in 0..SeqMod-1
  BY <1>1, <1>3, AheadValue DEF Back
<1>5. Back(k, d) < m
  BY DEF Near
<1>6. m - Back(k, d) \in 1..m
  BY <1>4, <1>5, Sizes, SMT
<1>. QED BY <1>3, <1>6 DEF Pair

LEMMA AheadBetween ==
    ASSUME NEW o \in 0..SeqMod-1, NEW n \in 0..SeqMod-1, NEW l \in 0..SeqMod-1,
           Ahead(o, n) <= Ahead(o, l)
    PROVE  Ahead(n, l) = Ahead(o, l) - Ahead(o, n)
<1>1. Ahead(o, n) = IF o >= n THEN o - n ELSE o + SeqMod - n
  BY AheadValue
<1>2. Ahead(o, l) = IF o >= l THEN o - l ELSE o + SeqMod - l
  BY AheadValue
<1>3. Ahead(n, l) = IF n >= l THEN n - l ELSE n + SeqMod - l
  BY AheadValue
<1>. QED BY <1>1, <1>2, <1>3, Sizes, SMT

(* Frames of a ring that lies near the last number come out as the order   *)
(* asks for.                                                               *)
LEMMA EmitsFollows ==
    ASSUME NEW m \in Nat, NEW o \in Nat, NEW j \in ConUpTo(o), NEW r \in Nat,
           Opened(j) => Near(j, o, r), Codes(j), NEW out \in Seq(FrameUpTo(o)), Emits(j, out),
           NEW R, \A q \in Repeatable(j, o) : q \in R \/ m < q.data
    PROVE  \E M \in [1..Len(out) -> 0..o] :
              Follows(R, Repeatable(j, o), out, M, m, HistorySize + r)
<1>. DEFINE Q == Repeatable(j, o)
            D == HistorySize + r
            F(i, v) == Fits(out[i], v, Q, D)
<1>1. /\ j.hist \in Hist(o) /\ j.recv \in Con /\ j.recv.n \in 0..SeqMod-1
      /\ Live(j.hist) \in 0..HistorySize
  <2>1. j.hist \in Hist(o) /\ j.recv \in Con
    BY DEF ConUpTo
  <2>. QED BY <2>1, UnreadValue DEF Con
<1>2. ASSUME NEW d \in 0..Live(j.hist)-1
      PROVE  Newest(j.hist, d).scon.n \in 0..SeqMod-1 /\ Back(j, d) \in 0..SeqMod-1
             /\ d \in 0..HistorySize-1
  <2>1. d \in 0..HistorySize-1
    BY <1>1, Sizes, SMT
  <2>2. Newest(j.hist, d).scon.n \in 0..SeqMod-1
    BY <1>1, <2>1, NewestType DEF FrameUpTo, Con
  <2>. QED BY <1>1, <2>1, <2>2, AheadValue DEF Back
<1>3. ASSUME NEW q \in Q
      PROVE  \E d \in 0..Live(j.hist)-1 : q.data = o - Back(j, d) /\ q.n = Newest(j.hist, d).scon.n
  BY <1>3 DEF Repeatable
<1>4. ASSUME NEW i \in 1..Len(out) PROVE \E v \in 0..o : F(i, v)
  <2>1. CASE ~Opened(j)
    <3>1. Q = {} /\ out[i].data = None
      BY <2>1 DEF Repeatable, Emits
    <3>2. F(i, 0) /\ 0 \in 0..o
      BY <3>1, SMT DEF Fits, None
    <3>. QED BY <3>2
  <2>2. CASE Opened(j) /\ out[i].scon = j.recv /\ out[i].data = None
    <3>1. ASSUME NEW q \in Q PROVE Ahead(j.recv.n, q.n) < D
      <4>1. PICK d \in 0..Live(j.hist)-1 : q.n = Newest(j.hist, d).scon.n
        BY <1>3, <3>1
      <4>2. Back(j, d) <= d + r
        BY <2>2 DEF Near
      <4>3. Ahead(j.recv.n, q.n) = Back(j, d)
        BY <4>1 DEF Back
      <4>. QED BY <1>2, <4>2, <4>3, Sizes, SMT
    <3>2. F(i, 0) /\ 0 \in 0..o
      <4>1. j.recv.c # 1
        BY <2>2 DEF Codes
      <4>2. 0 \in 0..o
        BY SMT
      <4>. QED BY <2>2, <3>1, <4>1, <4>2 DEF Fits, None
    <3>. QED BY <3>2
  <2>3. ASSUME Opened(j), NEW d \in 0..Live(j.hist)-1, out[i] = Newest(j.hist, d)
        PROVE  \E v \in 0..o : F(i, v)
    <3>. DEFINE v == o - Back(j, d)
    <3>1. /\ Back(j, d) <= d + r /\ Back(j, d) < o /\ out[i].scon.c # 1
          /\ out[i].data \in {None, v}
      BY <2>3 DEF Near
    <3>2. v \in 0..o /\ v # 0
      BY <1>2, <3>1, Sizes, SMT
    <3>3. \E q \in Q : q.data = v /\ q.n = out[i].scon.n
      <4>1. [data |-> v, n |-> Newest(j.hist, d).scon.n] \in Q
        BY <2>3 DEF Repeatable
      <4>. HIDE DEF v, Q
      <4>. QED BY <2>3, <4>1
    <3>4. ASSUME NEW q \in Q, q.data <= v PROVE Ahead(out[i].scon.n, q.n) < D
      <4>1. PICK e \in 0..Live(j.hist)-1 : q.data = o - Back(j, e) /\ q.n = Newest(j.hist, e).scon.n
        BY <1>3
      <4>2. Back(j, e) <= e + r
        BY <2>3 DEF Near
      <4>3. Back(j, d) <= Back(j, e)
        BY <1>2, <3>4, <4>1, Sizes, SMT
      <4>4. Ahead(out[i].scon.n, q.n) = Back(j, e) - Back(j, d)
        <5>. DEFINE x == Newest(j.hist, d).scon.n
                    y == Newest(j.hist, e).scon.n
        <5>1. x \in 0..SeqMod-1 /\ y \in 0..SeqMod-1
          BY <1>2
        <5>2. Back(j, d) = Ahead(j.recv.n, x) /\ Back(j, e) = Ahead(j.recv.n, y)
          BY DEF Back
        <5>3. out[i].scon.n = x /\ q.n = y
          BY <2>3, <4>1
        <5>. HIDE DEF x, y
        <5>4. Ahead(x, y) = Ahead(j.recv.n, y) - Ahead(j.recv.n, x)
          BY <1>1, <4>3, <5>1, <5>2, AheadBetween
        <5>. QED BY <5>2, <5>3, <5>4
      <4>. QED BY <1>2, <4>2, <4>3, <4>4, Sizes, SMT
    <3>. HIDE DEF v, Q, D
    <3>5. F(i, v)
      BY <3>1, <3>2, <3>3, <3>4, Zenon DEF Fits
    <3>. QED BY <3>2, <3>5
  <2>. QED BY <2>1, <2>2, <2>3 DEF Emits
<1>. DEFINE M == [i \in 1..Len(out) |-> CHOOSE v \in 0..o : F(i, v)]
<1>5. \A i \in 1..Len(out) : M[i] \in 0..o /\ F(i, M[i])
  <2>. HIDE DEF F
  <2>. QED BY <1>4
<1>6. M \in [1..Len(out) -> 0..o]
  <2>. HIDE DEF F
  <2>. QED BY <1>5
<1>. HIDE DEF M
<1>7. Follows(R, Q, out, M, m, D)
  BY <1>5 DEF Follows
<1>. QED BY <1>6, <1>7

-----------------------------------------------------------------------------
(* The handlers, as sender: what becomes of the history of record k.       *)
Sound(k, j, out) == Codes(j) /\ Stays(k, j) /\ Emits(j, out)

LEMMA StaysTrans ==
    ASSUME NEW m \in Nat, NEW k \in ConUpTo(m), NEW i \in ConUpTo(m), NEW j \in ConUpTo(m),
           Stays(k, i), Stays(i, j)
    PROVE  Stays(k, j)
<1>1. Live(k.hist) \in Nat /\ Live(i.hist) \in Nat /\ Live(j.hist) \in Nat
  <2>1. \A x \in ConUpTo(m) : x.hist \in Hist(m)
    BY DEF ConUpTo
  <2>2. Live(k.hist) \in 0..HistorySize /\ Live(i.hist) \in 0..HistorySize
        /\ Live(j.hist) \in 0..HistorySize
    BY <2>1, UnreadValue
  <2>. QED BY <2>2, Sizes, SMT
<1>. SUFFICES ASSUME Opened(j), Live(j.hist) # 0 PROVE Opened(k) /\ Remains(k, j)
  BY DEF Stays
<1>2. Opened(i) /\ Remains(i, j)
  BY DEF Stays
<1>3. Live(i.hist) # 0
  BY <1>1, <1>2, SMT DEF Remains
<1>4. Opened(k) /\ Remains(k, i)
  BY <1>2, <1>3 DEF Stays
<1>5. Live(j.hist) <= Live(k.hist) /\ \A d \in 0..Live(j.hist)-1 : d \in 0..Live(i.hist)-1
  BY <1>1, <1>2, <1>4, SMT DEF Remains
<1>. QED BY <1>2, <1>4, <1>5 DEF Remains

LEMMA SameHistoryStays ==
    ASSUME NEW m \in Nat, NEW k \in ConUpTo(m), NEW j,
           j.hist = k.hist, j.recv.n = k.recv.n, Opened(j) => Opened(k)
    PROVE  Stays(k, j)
<1>1. Live(k.hist) <= Live(k.hist)
  <2>1. Live(k.hist) \in 0..HistorySize
    BY UnreadValue DEF ConUpTo
  <2>. QED BY <2>1, Sizes, SMT
<1>. QED BY <1>1 DEF Stays, Remains

LEMMA RingStays ==
    ASSUME NEW m \in Nat, NEW h \in Hist(m), NEW g \in Hist(m), g.w = h.w, Live(g) <= Live(h),
           \A i \in Ring : /\ g.fr[i].scon.n = h.fr[i].scon.n
                           /\ g.fr[i].scon.c \in {h.fr[i].scon.c, 3}
                           /\ g.fr[i].data \in {None, h.fr[i].data}
    PROVE  \A d \in 0..Live(g)-1 :
             /\ Newest(g, d).scon.n = Newest(h, d).scon.n
             /\ Newest(g, d).scon.c \in {Newest(h, d).scon.c, 3}
             /\ Newest(g, d).data \in {None, Newest(h, d).data}
<1>. SUFFICES ASSUME NEW d \in 0..Live(g)-1 PROVE Age(h.w, d) \in Ring
  BY DEF Newest
<1>1. Live(g) \in 0..HistorySize
  BY UnreadValue
<1>2. d \in 0..HistorySize-1
  BY <1>1, Sizes, SMT
<1>3. h.w \in Ring
  BY DEF Hist
<1>. QED BY <1>2, <1>3, AgeValue

LEMMA AcknowledgeStays ==
    ASSUME NEW m \in Nat, NEW d \in Nat, NEW k \in ConUpTo(m), NEW f \in FrameUpTo(d)
    PROVE  /\ Acknowledge(k, f) \in ConUpTo(m) /\ Stays(k, Acknowledge(k, f))
           /\ Acknowledge(k, f).st = k.st /\ Acknowledge(k, f).send = k.send
           /\ Codes(k) => Codes(Acknowledge(k, f))
<1>. DEFINE g == deleteAckedFrameFromHistory(k.hist, f.rcon.n)
            j == Acknowledge(k, f)
<1>1. f.rcon.n \in 0..SeqMod-1 /\ k.hist \in Hist(m)
  BY DEF FrameUpTo, Con, ConUpTo
<1>2. /\ g.w = k.hist.w /\ Live(g) <= Live(k.hist)
      /\ \A i \in Ring : /\ g.fr[i].scon = k.hist.fr[i].scon
                         /\ g.fr[i].data \in {None, k.hist.fr[i].data}
      /\ g \in Hist(m)
  BY <1>1, DeletedLive, DeletedType
<1>. HIDE DEF g
<1>3. \A d2 \in 0..Live(g)-1 :
         /\ Newest(g, d2).scon.n = Newest(k.hist, d2).scon.n
         /\ Newest(g, d2).scon.c \in {Newest(k.hist, d2).scon.c, 3}
         /\ Newest(g, d2).data \in {None, Newest(k.hist, d2).data}
  BY <1>1, <1>2, RingStays
<1>4. j = [k EXCEPT !.used = 1, !.hist = g]
  BY DEF Acknowledge, g, ConUpTo
<1>. HIDE DEF j
<1>5. /\ j \in ConUpTo(m) /\ j.hist = g /\ j.recv = k.recv /\ j.st = k.st /\ j.send = k.send
  BY <1>2, <1>4 DEF ConUpTo
<1>6. Stays(k, j)
  BY <1>2, <1>3, <1>5 DEF Stays, Remains, Opened
<1>. QED BY <1>5, <1>6 DEF Codes, Opened, j

LEMMA WipedSound ==
    ASSUME NEW k, NEW j, NEW out, ~Opened(j), \A i \in 1..Len(out) : out[i].data = None
    PROVE  Sound(k, j, out)
BY DEF Sound, Codes, Stays, Emits

LEMMA ClearedClosed == ~Opened(Cleared(HistorySize)) /\ ~Greeting(Cleared(HistorySize))
BY DEF Cleared, Opened, Greeting

LEMMA OneFrame ==
    ASSUME NEW f
    PROVE  Len(<<f>>) = 1 /\ \A i \in 1..Len(<<f>>) : <<f>>[i] = f
BY SMT

(* The result of a handler, and that it is taken as the order asks for.    *)
Handled(k, f, r, x) ==
    /\ Sound(k, r.con, r.out) /\ Taken(k, f, r.con, x)
    /\ r.again => r.con.st = "Idle"

LEMMA InitHandled ==
    ASSUME NEW m \in Nat, NEW d \in Nat, NEW k \in ConUpTo(m), ~Opened(k),
           NEW f \in FrameUpTo(d), NEW ok \in BOOLEAN
    PROVE  Handled(k, f, InitFrame(k, f, ok), None) /\ InitFrame(k, f, ok).data = None
           /\ ~InitFrame(k, f, ok).again
<1>. DEFINE next == InitNext(k.st, f)
            final == k.st = "Init3" /\ f.rcon.c = 2
            recv == IF final THEN f.rcon ELSE Bumped(f.rcon)
            nums == [k EXCEPT !.recv = recv, !.send = f.scon]
            bye == [scon |-> Masked(f.rcon), rcon |-> Masked(f.scon), data |-> None]
            isClose == f.scon.c = 0 /\ f.rcon.c = 0
            hist == IF next = "Connected" THEN initHistory(k.hist) ELSE k.hist
            open == [nums EXCEPT !.st = next, !.timer = 1,
                                 !.hist = IF next = "Connected" THEN initHistory(@) ELSE @]
            r == InitFrame(k, f, ok)
<1>1. f.scon \in Con /\ f.rcon \in Con /\ k.hist \in Hist(m)
  BY DEF FrameUpTo, ConUpTo
<1>2. CASE next = "Error"
  <2>. DEFINE out == IF ~isClose /\ ok THEN <<bye>> ELSE <<>>
  <2>1. r = Done(Cleared(HistorySize), out)
    BY <1>2 DEF InitFrame, Wiped
  <2>2. \A i \in 1..Len(out) : out[i].data = None
    <3>1. bye.data = None
      OBVIOUS
    <3>. HIDE DEF bye
    <3>2. \A i \in 1..Len(<<bye>>) : <<bye>>[i].data = None
      BY <3>1, OneFrame
    <3>3. \A i \in 1..Len(<<>>) : <<>>[i].data = None
      BY SMT
    <3>. QED BY <3>2, <3>3
  <2>. HIDE DEF out, r
  <2>3. r.con = Cleared(HistorySize) /\ r.out = out /\ r.data = None /\ r.again = FALSE
    BY <2>1 DEF Done
  <2>4. Taken(k, f, r.con, None)
    BY <2>3, ClearedClosed DEF Taken
  <2>. QED BY <2>2, <2>3, <2>4, ClearedClosed, WipedSound DEF Handled, r
<1>3. CASE next # "Error"
  <2>1. /\ next \in {"Init2", "Init3", "Connected"}
        /\ next \in {"Init2", "Init3"} => f.scon.c = 1
        /\ next = "Connected" => Greeting(k) /\ recv.c = 2
    <3>1. f.rcon.c \in 0..3 /\ f.scon.c \in 0..3
      BY <1>1 DEF Con
    <3>2. Bumped(f.rcon).c = f.rcon.c + 1
      BY <1>1 DEF Bumped, Con
    <3>. QED BY <1>1, <1>3, <3>1, <3>2, SMT DEF InitNext, Greeting
  <2>8. recv \in Con
    <3>1. f.rcon.c \in {0, 1, 2} /\ (~final => f.rcon.c \in {0, 1})
      BY <1>3 DEF InitNext
    <3>. QED BY <1>1, <3>1 DEF Bumped, Con
  <2>. HIDE DEF recv, next
  <2>2. /\ nums \in ConUpTo(m) /\ nums.st = k.st /\ nums.hist = k.hist /\ nums.recv = recv
        /\ nums.send = f.scon
    BY <1>1, <2>8 DEF ConUpTo
  <2>. HIDE DEF nums
  <2>3. open = [nums EXCEPT !.st = next, !.timer = 1, !.hist = hist]
    BY <2>2 DEF ConUpTo
  <2>. HIDE DEF hist, open
  <2>4. open.st = next /\ open.hist = hist /\ open.recv = recv /\ open.send = f.scon
    BY <2>2, <2>3 DEF ConUpTo
  <2>5. next = "Connected" => Live(open.hist) = 0
    <3>1. initHistory(k.hist) = [free |-> HistorySize, w |-> 0, a |-> 0, fr |-> k.hist.fr]
      <4>. DEFINE h == k.hist
                  g == initHistory(h)
      <4>1. h \in [free : 0..2*HistorySize-1, w : Ring, a : Ring, fr : [Ring -> FrameUpTo(m)]]
        BY <1>1 DEF Hist
      <4>2. g = [h EXCEPT !.free = HistorySize, !.w = 0, !.a = 0]
        BY DEF initHistory
      <4>. HIDE DEF g, h
      <4>3. g = [free |-> HistorySize, w |-> 0, a |-> 0, fr |-> h.fr]
        BY <4>1, <4>2
      <4>. QED BY <4>3 DEF g, h
    <3>2. Unread(initHistory(k.hist)) = 0
      <4>1. 0 + HistorySize - 0 = HistorySize /\ HistorySize % HistorySize = 0
        BY Sizes, SMT
      <4>2. Unread(initHistory(k.hist)) = (0 + HistorySize - 0) % HistorySize
        BY <3>1 DEF Unread
      <4>. QED BY <4>1, <4>2
    <3>3. HistorySize + 0 >= HistorySize
      BY Sizes, SMT
    <3>. QED BY <2>4, <3>1, <3>2, <3>3 DEF hist, Live
  <2>6. CASE ~final /\ ~ok
    <3>1. r = Done(nums, <<>>)
      BY <1>3, <2>6 DEF InitFrame, nums, next, recv
    <3>. HIDE DEF r
    <3>2. r.con = nums /\ r.out = <<>> /\ r.data = None /\ r.again = FALSE
      BY <3>1 DEF Done
    <3>3. ~Opened(nums) /\ (Greeting(nums) => Greeting(k))
      BY <2>2 DEF Opened, Greeting
    <3>4. \A i \in 1..Len(<<>>) : <<>>[i].data = None
      BY SMT
    <3>5. Taken(k, f, nums, None)
      BY <3>3 DEF Taken
    <3>. QED BY <3>2, <3>3, <3>4, <3>5, WipedSound DEF Handled, r
  <2>7. CASE final \/ ok
    <3>. DEFINE out == IF final THEN <<>> ELSE <<Header(nums, None)>>
    <3>1. r = Done(open, out)
      BY <1>3, <2>7 DEF InitFrame, nums, open, next, recv
    <3>2. \A i \in 1..Len(out) : out[i].scon = recv /\ out[i].data = None
      <4>1. Header(nums, None).scon = recv /\ Header(nums, None).data = None
        BY <2>2 DEF Header
      <4>2. \A i \in 1..Len(<<Header(nums, None)>>) : <<Header(nums, None)>>[i] = Header(nums, None)
        BY OneFrame
      <4>3. 1..Len(<<>>) = {}
        BY SMT
      <4>. QED BY <4>1, <4>2, <4>3
    <3>. HIDE DEF out, r, final
    <3>3. r.con = open /\ r.out = out /\ r.data = None /\ r.again = FALSE
      BY <3>1 DEF Done
    <3>4. Opened(open) => next = "Connected"
      BY <2>1, <2>4 DEF Opened
    <3>5. Greeting(open) => next \in {"Init2", "Init3"}
      BY <2>4 DEF Greeting
    <3>6. Codes(open)
      BY <2>1, <2>4, <3>4 DEF Codes
    <3>7. Stays(k, open)
      BY <2>5, <3>4 DEF Stays
    <3>8. Emits(open, out)
      BY <2>4, <3>2 DEF Emits
    <3>9. Taken(k, f, open, None)
      BY <2>1, <3>4, <3>5 DEF Taken
    <3>. QED BY <3>3, <3>6, <3>7, <3>8, <3>9 DEF Handled, Sound, r
  <2>. QED BY <2>6, <2>7
<1>. QED BY <1>2, <1>3

LEMMA EmitsOne ==
    ASSUME NEW j, NEW f, f.data = None, Opened(j) => f.scon = j.recv
    PROVE  Emits(j, <<f>>) /\ Emits(j, <<>>) /\ \A ok \in BOOLEAN : Emits(j, Sends(f, ok))
<1>1. Emits(j, <<f>>)
  BY OneFrame DEF Emits
<1>2. Emits(j, <<>>)
  <2>1. 1..Len(<<>>) = {}
    BY SMT
  <2>. QED BY <2>1 DEF Emits
<1>. QED BY <1>1, <1>2 DEF Sends

LEMMA EmitsBoth ==
    ASSUME NEW S, NEW s \in Seq(S), NEW t \in Seq(S), NEW j, Emits(j, s), Emits(j, t)
    PROVE  Emits(j, s \o t)
<1>1. Len(s) \in Nat /\ Len(t) \in Nat /\ Len(s \o t) = Len(s) + Len(t)
  BY SMT
<1>2. \A i \in 1..Len(s) : (s \o t)[i] = s[i]
  BY SMT
<1>3. \A i \in 1..Len(t) : (s \o t)[Len(s) + i] = t[i]
  BY SMT
<1>. DEFINE u == s \o t
<1>. HIDE DEF u
<1>4. ASSUME NEW i \in 1..Len(u)
      PROVE  (\E v \in 1..Len(s) : u[i] = s[v]) \/ (\E v \in 1..Len(t) : u[i] = t[v])
  <2>1. CASE i \in 1..Len(s)
    BY <1>2, <2>1 DEF u
  <2>2. CASE ~(i \in 1..Len(s))
    <3>1. i - Len(s) \in 1..Len(t) /\ Len(s) + (i - Len(s)) = i
      BY <1>1, <2>2, SMT DEF u
    <3>. QED BY <1>3, <3>1 DEF u
  <2>. QED BY <2>1, <2>2
<1>5. Emits(j, u)
  <2>. SUFFICES ASSUME NEW i \in 1..Len(u)
       PROVE  IF Opened(j)
              THEN \/ u[i].scon = j.recv /\ u[i].data = None
                   \/ \E d \in 0..Live(j.hist)-1 : u[i] = Newest(j.hist, d)
              ELSE u[i].data = None
    BY DEF Emits
  <2>1. ASSUME NEW v \in 1..Len(s), u[i] = s[v]
        PROVE  IF Opened(j)
               THEN \/ u[i].scon = j.recv /\ u[i].data = None
                    \/ \E d \in 0..Live(j.hist)-1 : u[i] = Newest(j.hist, d)
               ELSE u[i].data = None
    BY <2>1 DEF Emits
  <2>2. ASSUME NEW v \in 1..Len(t), u[i] = t[v]
        PROVE  IF Opened(j)
               THEN \/ u[i].scon = j.recv /\ u[i].data = None
                    \/ \E d \in 0..Live(j.hist)-1 : u[i] = Newest(j.hist, d)
               ELSE u[i].data = None
    BY <2>2 DEF Emits
  <2>. QED BY <1>4, <2>1, <2>2
<1>. QED BY <1>5 DEF u

LEMMA EmitsKept ==
    ASSUME NEW m \in Nat, NEW j \in ConUpTo(m), Opened(j)
    PROVE  Emits(j, Kept(j.hist))
<1>1. j.hist \in Hist(m)
  BY DEF ConUpTo
<1>. QED BY <1>1, KeptAreLive DEF Emits

LEMMA ConnectedHandled ==
    ASSUME NEW m \in Nat, NEW d \in Nat, NEW k \in ConUpTo(m), k.st = "Connected", Codes(k),
           NEW f \in FrameUpTo(d), NEW ok \in BOOLEAN
    PROVE  Handled(k, f, ConnectedFrame(k, f, ok), ConnectedFrame(k, f, ok).data)
<1>. DEFINE resent == IF f.rcon.c = 3 THEN Kept(k.hist) ELSE <<>>
            send == IF IsNext(k, f) THEN [n |-> f.scon.n, c |-> 2]
                    ELSE IF IsLate(k, f) THEN [k.send EXCEPT !.c = 2] ELSE k.send
            k1 == [k EXCEPT !.timer = 1, !.send = send]
            errorAck == [Header(k, None) EXCEPT !.rcon.c = 3]
            answer == IF IsLate(k, f) THEN <<errorAck>>
                      ELSE IF f.scon.c = 3 THEN <<Header(k1, None)>> ELSE <<>>
            out == resent \o IF resent = <<>> /\ ~ok THEN <<>> ELSE answer
            closed == [k EXCEPT !.st = "Idle", !.timer = 0]
            heard1 == [k EXCEPT !.timer = 1]
            r == ConnectedFrame(k, f, ok)
<1>1. /\ f.scon \in Con /\ f.rcon \in Con /\ f.scon.c \in 0..3 /\ Opened(k)
      /\ k.recv \in Con /\ k.send \in Con /\ k.hist \in Hist(m)
  BY DEF FrameUpTo, Opened, Con, ConUpTo
<1>2. /\ k1 \in ConUpTo(m) /\ k1.hist = k.hist /\ k1.recv = k.recv /\ k1.st = "Connected"
      /\ k1.send = send
  <2>1. send \in Con
    BY <1>1 DEF Con
  <2>. HIDE DEF send
  <2>. QED BY <2>1 DEF ConUpTo
<1>3. send.n = IF IsNext(k, f) THEN f.scon.n ELSE k.send.n
  <2>1. [k.send EXCEPT !.c = 2].n = k.send.n
    BY <1>1 DEF Con
  <2>. QED BY <2>1
<1>. HIDE DEF send, k1
<1>4. Emits(k1, out)
  <2>1. Opened(k1)
    BY <1>2 DEF Opened
  <2>2. /\ Header(k, None).scon = k1.recv /\ Header(k, None).data = None
        /\ errorAck.scon = k1.recv /\ errorAck.data = None
        /\ Header(k1, None).scon = k1.recv /\ Header(k1, None).data = None
    BY <1>2 DEF Header
  <2>3. Emits(k1, <<>>) /\ Emits(k1, <<errorAck>>) /\ Emits(k1, <<Header(k1, None)>>)
    <3>. HIDE DEF errorAck
    <3>. QED BY <2>2, EmitsOne
  <2>4. Emits(k1, resent)
    BY <1>2, <2>1, <2>3, EmitsKept
  <2>5. Emits(k1, IF resent = <<>> /\ ~ok THEN <<>> ELSE answer)
    BY <2>3
  <2>6. resent \in Seq(FrameUpTo(m)) /\ (IF resent = <<>> /\ ~ok THEN <<>> ELSE answer) \in Seq(FrameUpTo(m))
    <3>1. resent \in Seq(FrameUpTo(m))
      BY <1>1, KeptType, Sequences
    <3>2. None \in 0..m
      BY SMT DEF None
    <3>3. Header(k, None) \in FrameUpTo(m) /\ Header(k1, None) \in FrameUpTo(m)
      BY <1>2, <3>2, FramesOfRecord
    <3>4. errorAck \in FrameUpTo(m)
      BY <3>3 DEF FrameUpTo, Con
    <3>. HIDE DEF errorAck, resent
    <3>. QED BY <3>1, <3>3, <3>4, Sequences
  <2>. HIDE DEF resent, answer
  <2>. QED BY <2>4, <2>5, <2>6, EmitsBoth
<1>5. CASE f.scon.c = 0
  <2>1. r = Done(Cleared(HistorySize), <<>>)
    BY <1>5 DEF ConnectedFrame, Wiped
  <2>. HIDE DEF r
  <2>2. r.con = Cleared(HistorySize) /\ r.out = <<>> /\ r.data = None /\ r.again = FALSE
    BY <2>1 DEF Done
  <2>3. \A i \in 1..Len(<<>>) : <<>>[i].data = None
    BY SMT
  <2>. QED BY <2>2, <2>3, ClearedClosed, WipedSound DEF Handled, Taken, r
<1>6. CASE f.scon.c = 1
  <2>1. r = [Done(closed, <<>>) EXCEPT !.again = TRUE]
    BY <1>6 DEF ConnectedFrame
  <2>2. closed.st = "Idle"
    BY DEF ConUpTo
  <2>. HIDE DEF r, closed
  <2>3. r.con = closed /\ r.out = <<>> /\ r.data = None
    BY <2>1 DEF Done
  <2>4. \A i \in 1..Len(<<>>) : <<>>[i].data = None
    BY SMT
  <2>5. ~Opened(closed) /\ ~Greeting(closed)
    BY <2>2 DEF Opened, Greeting
  <2>. QED BY <2>2, <2>3, <2>4, <2>5, WipedSound DEF Handled, Taken, r
<1>7. CASE f.scon.c > 1
  <2>1. CASE resent # <<>> /\ ~ok
    <3>1. r = Done(heard1, <<>>)
      BY <1>1, <1>7, <2>1 DEF ConnectedFrame
    <3>2. heard1.hist = k.hist /\ heard1.recv = k.recv /\ heard1.st = k.st /\ heard1.send = k.send
      BY DEF ConUpTo
    <3>. HIDE DEF heard1, r
    <3>3. r.con = heard1 /\ r.out = <<>> /\ r.data = None /\ r.again = FALSE
      BY <3>1 DEF Done
    <3>4. Codes(heard1) /\ Stays(k, heard1) /\ Emits(heard1, <<>>)
      <4>1. Codes(heard1)
        BY <3>2 DEF Codes, Opened
      <4>2. Stays(k, heard1)
        BY <1>1, <3>2, SameHistoryStays
      <4>3. 1..Len(<<>>) = {}
        BY SMT
      <4>. QED BY <4>1, <4>2, <4>3 DEF Emits
    <3>5. Taken(k, f, heard1, None)
      BY <1>1, <3>2 DEF Taken, Greeting
    <3>. QED BY <3>3, <3>4, <3>5 DEF Handled, Sound, r
  <2>2. CASE ~(resent # <<>> /\ ~ok)
    <3>. DEFINE x == IF IsNext(k, f) THEN f.data ELSE None
    <3>1. r = [Done(k1, out) EXCEPT !.data = x]
      BY <1>1, <1>7, <2>2 DEF ConnectedFrame, k1, send
    <3>. HIDE DEF r, out, x
    <3>2. r.con = k1 /\ r.out = out /\ r.data = x /\ r.again = FALSE
      BY <3>1 DEF Done
    <3>3. Codes(k1) /\ Stays(k, k1)
      <4>1. Codes(k1)
        BY <1>1, <1>2 DEF Codes, Opened
      <4>. QED BY <1>1, <1>2, <4>1, SameHistoryStays
    <3>4. Taken(k, f, k1, x)
      BY <1>1, <1>2, <1>3 DEF Taken, Greeting, Opened, IsNext, x
    <3>. QED BY <1>4, <3>2, <3>3, <3>4 DEF Handled, Sound, r
  <2>. QED BY <2>1, <2>2
<1>. QED BY <1>1, <1>5, <1>6, <1>7, SMT

(* Data taken in state WaitAck is not part of the order.  There the number *)
(* of the record has the code 2, so no frame acknowledges it with code 3.  *)
LEMMA WaitAckHandled ==
    ASSUME NEW m \in Nat, NEW d \in Nat, NEW k \in ConUpTo(m), k.st = "WaitAck", Codes(k),
           NEW f \in FrameUpTo(d), NEW ok \in BOOLEAN
    PROVE  Handled(k, f, WaitAckFrame(k, f, ok), None)
<1>. DEFINE k1 == [k EXCEPT !.timer = 1]
            closed == [k EXCEPT !.st = "Idle", !.timer = 0]
            connected == [k1 EXCEPT !.st = "Connected"]
            r == WaitAckFrame(k, f, ok)
<1>1. f.rcon \in Con /\ f.rcon.c \in 0..3 /\ Opened(k) /\ k.recv.c = 2
  BY DEF FrameUpTo, Con, Opened, Codes
<1>2. \A i \in 1..Len(<<>>) : <<>>[i].data = None
  BY SMT
<1>3. k1 \in ConUpTo(m) /\ k1.hist = k.hist /\ k1.recv = k.recv /\ k1.send = k.send /\ k1.st = k.st
  BY DEF ConUpTo
<1>4. CASE f.rcon.c = 0
  <2>1. r = Done(Cleared(HistorySize), <<>>)
    BY <1>4 DEF WaitAckFrame, Wiped
  <2>. HIDE DEF r
  <2>2. r.con = Cleared(HistorySize) /\ r.out = <<>> /\ r.again = FALSE
    BY <2>1 DEF Done
  <2>. QED BY <1>2, <2>2, ClearedClosed, WipedSound DEF Handled, Taken, r
<1>5. CASE f.rcon.c = 1
  <2>1. r = [Done(closed, <<>>) EXCEPT !.again = TRUE]
    BY <1>5 DEF WaitAckFrame
  <2>2. closed.st = "Idle"
    BY DEF ConUpTo
  <2>. HIDE DEF r, closed
  <2>3. r.con = closed /\ r.out = <<>>
    BY <2>1 DEF Done
  <2>4. ~Opened(closed) /\ ~Greeting(closed)
    BY <2>2 DEF Opened, Greeting
  <2>. QED BY <1>2, <2>2, <2>3, <2>4, WipedSound DEF Handled, Taken, r
<1>6. CASE f.rcon.c = 2
  <2>1. r = [Done(connected, <<>>) EXCEPT !.data = f.data]
    BY <1>6 DEF WaitAckFrame
  <2>2. /\ connected.hist = k.hist /\ connected.recv = k.recv /\ connected.send = k.send
        /\ connected.st = "Connected"
    BY DEF ConUpTo
  <2>. HIDE DEF connected, r
  <2>3. r.con = connected /\ r.out = <<>> /\ r.again = FALSE
    BY <2>1 DEF Done
  <2>4. Codes(connected) /\ Stays(k, connected)
    <3>1. Codes(connected)
      BY <1>1, <2>2 DEF Codes
    <3>. QED BY <1>1, <2>2, <3>1, SameHistoryStays
  <2>5. Emits(connected, <<>>)
    <3>1. 1..Len(<<>>) = {}
      BY SMT
    <3>. QED BY <3>1 DEF Emits
  <2>6. Taken(k, f, connected, None)
    BY <1>1, <2>2 DEF Taken, Greeting
  <2>. QED BY <2>3, <2>4, <2>5, <2>6 DEF Handled, Sound, r
<1>7. CASE f.rcon.c = 3
  <2>. DEFINE out == IF ok THEN Kept(k.hist) ELSE <<>>
  <2>1. r = Done(k1, out)
    BY <1>1, <1>7 DEF WaitAckFrame
  <2>2. Emits(k1, out)
    <3>1. 1..Len(<<>>) = {}
      BY SMT
    <3>2. Emits(k1, Kept(k1.hist))
      <4>1. Opened(k1)
        BY <1>1, <1>3 DEF Opened
      <4>. HIDE DEF k1
      <4>. QED BY <1>3, <4>1, EmitsKept
    <3>. HIDE DEF k1
    <3>. QED BY <1>3, <3>1, <3>2 DEF Emits
  <2>. HIDE DEF k1, r, out
  <2>3. r.con = k1 /\ r.out = out /\ r.again = FALSE
    BY <2>1 DEF Done
  <2>4. Codes(k1) /\ Stays(k, k1)
    <3>1. Codes(k1)
      BY <1>1, <1>3 DEF Codes
    <3>. QED BY <1>1, <1>3, <3>1, SameHistoryStays
  <2>5. Taken(k, f, k1, None)
    BY <1>1, <1>3 DEF Taken, Greeting
  <2>. QED BY <2>2, <2>3, <2>4, <2>5 DEF Handled, Sound, r
<1>. QED BY <1>1, <1>4, <1>5, <1>6, <1>7, SMT

(* What a result hands over in the order: nothing in state WaitAck.        *)
Handed(k, r) == IF k.st = "WaitAck" THEN None ELSE r.data

LEMMA FrameHandled ==
    ASSUME NEW m \in Nat, NEW d \in Nat, NEW k \in ConUpTo(m), Codes(k),
           NEW f \in FrameUpTo(d), NEW ok \in BOOLEAN
    PROVE  /\ Handled(k, f, FrameRec(k, f, ok), Handed(k, FrameRec(k, f, ok)))
           /\ ~Opened(k) => FrameRec(k, f, ok).data = None /\ ~FrameRec(k, f, ok).again
<1>1. CASE k.st = "Connected"
  <2>1. FrameRec(k, f, ok) = ConnectedFrame(k, f, ok)
    BY <1>1 DEF FrameRec
  <2>. QED BY <1>1, <2>1, ConnectedHandled DEF Handed, Opened
<1>2. CASE k.st = "WaitAck"
  <2>1. FrameRec(k, f, ok) = WaitAckFrame(k, f, ok)
    BY <1>2 DEF FrameRec
  <2>. QED BY <1>2, <2>1, WaitAckHandled DEF Handed, Opened
<1>3. CASE k.st # "Connected" /\ k.st # "WaitAck"
  <2>1. FrameRec(k, f, ok) = InitFrame(k, f, ok) /\ ~Opened(k)
    BY <1>3 DEF FrameRec, Opened
  <2>. QED BY <1>3, <2>1, InitHandled DEF Handed
<1>. QED BY <1>1, <1>2, <1>3

LEMMA ResultHandled ==
    ASSUME NEW m \in Nat, NEW d \in Nat, NEW k \in ConUpTo(m), Codes(k),
           NEW f \in FrameUpTo(d), NEW ok \in BOOLEAN
    PROVE  LET r == Result(k, f, ok)
           IN  Sound(k, r.con, r.out) /\ Taken(k, f, r.con, Handed(k, r))
<1>. DEFINE r == FrameRec(k, f, ok)
            j == Acknowledge(r.con, f)
            q == FrameRec(j, f, ok)
            R == Result(k, f, ok)
<1>1. Handled(k, f, r, Handed(k, r))
  BY FrameHandled
<1>2. R = IF r.again THEN q ELSE r
  BY DEF Result
<1>3. r.con \in ConUpTo(m)
  BY FrameHandles DEF Handles, Answer
<1>. HIDE DEF r
<1>4. CASE ~r.again
  BY <1>1, <1>2, <1>4 DEF Handled, r
<1>5. CASE r.again
  <2>1. r.con.st = "Idle"
    BY <1>1, <1>5 DEF Handled
  <2>2. j \in ConUpTo(m) /\ j.st = "Idle"
    BY <1>3, <2>1, AcknowledgeStays
  <2>. HIDE DEF j
  <2>3. ~Opened(j) /\ Codes(j) /\ ~Greeting(j)
    BY <2>2 DEF Opened, Codes, Greeting
  <2>4. Handled(j, f, q, Handed(j, q)) /\ q.data = None
    BY <2>2, <2>3, FrameHandled
  <2>5. Handed(k, q) = None /\ Handed(j, q) = None
    BY <2>2, <2>4 DEF Handed
  <2>. HIDE DEF q
  <2>6. ~Opened(q.con) /\ (Greeting(q.con) => f.scon.c = 1)
    BY <2>3, <2>4, <2>5 DEF Handled, Taken
  <2>7. Sound(k, q.con, q.out)
    BY <2>4, <2>6 DEF Handled, Sound, Stays
  <2>8. Taken(k, f, q.con, None)
    BY <2>6 DEF Taken
  <2>9. R = q
    BY <1>2, <1>5
  <2>. HIDE DEF R
  <2>. QED BY <2>5, <2>7, <2>8, <2>9 DEF R
<1>. QED BY <1>4, <1>5

(* receiveCb() as a whole, with the acknowledgement before.                *)
LEMMA ReceiveHandled ==
    ASSUME NEW m \in Nat, NEW d \in Nat, NEW k \in ConUpTo(m), Codes(k),
           NEW f \in FrameUpTo(d), NEW ok \in BOOLEAN
    PROVE  LET r == Result(Acknowledge(k, f), f, ok)
           IN  /\ Sound(k, r.con, r.out) /\ Taken(k, f, r.con, Handed(k, r))
               /\ r.con \in ConUpTo(m) /\ r.out \in Seq(FrameUpTo(m)) /\ r.data \in 0..d
<1>. DEFINE j == Acknowledge(k, f)
            r == Result(j, f, ok)
<1>1. j \in ConUpTo(m) /\ Stays(k, j) /\ j.st = k.st /\ j.send = k.send /\ Codes(j)
  BY AcknowledgeStays
<1>. HIDE DEF j
<1>2. Sound(j, r.con, r.out) /\ Taken(j, f, r.con, Handed(j, r))
  BY <1>1, ResultHandled
<1>3. r.con \in ConUpTo(m) /\ r.out \in Seq(FrameUpTo(m)) /\ r.data \in 0..d
  BY <1>1, ResultHandles DEF Handles, Answer
<1>. HIDE DEF r
<1>4. Stays(k, r.con)
  BY <1>1, <1>2, <1>3, StaysTrans DEF Sound
<1>5. Taken(k, f, r.con, Handed(k, r))
  BY <1>1, <1>2 DEF Taken, Handed, Opened, Greeting
<1>. QED BY <1>2, <1>3, <1>4, <1>5 DEF Sound, r, j

(* An expired timer.                                                       *)
LEMMA AskingStays ==
    ASSUME NEW m \in Nat, NEW h \in Hist(m), Kept(h) # <<>>
    PROVE  LET g == [h EXCEPT !.fr[h.a].scon.c = 3]
           IN  /\ g \in Hist(m) /\ Live(g) = Live(h)
               /\ \A d \in 0..Live(g)-1 :
                    /\ Newest(g, d).scon.n = Newest(h, d).scon.n
                    /\ Newest(g, d).scon.c \in {Newest(h, d).scon.c, 3}
                    /\ Newest(g, d).data \in {None, Newest(h, d).data}
               /\ \E d \in 0..Live(g)-1 : g.fr[h.a] = Newest(g, d)
<1>. DEFINE g == [h EXCEPT !.fr[h.a].scon.c = 3]
            e == [h.fr[h.a] EXCEPT !.scon.c = 3]
<1>1. /\ h \in [free : 0..2*HistorySize-1, w : Ring, a : Ring, fr : [Ring -> FrameUpTo(m)]]
      /\ h.fr[h.a] \in FrameUpTo(m)
  BY DEF Hist
<1>2. e.data = h.fr[h.a].data /\ e.scon.n = h.fr[h.a].scon.n /\ e.scon.c = 3
  BY <1>1 DEF FrameUpTo, Con
<1>3. g = [h EXCEPT !.fr = [h.fr EXCEPT ![h.a] = e]] /\ g \in Hist(m)
  BY <1>1, AskingKeeps
<1>. HIDE DEF e, g
<1>4. g.free = h.free /\ g.w = h.w /\ g.a = h.a /\ g.fr = [h.fr EXCEPT ![h.a] = e]
  BY <1>1, <1>3
<1>5. Live(g) = Live(h)
  BY <1>4 DEF Live, Unread
<1>6. Live(g) <= Live(h)
  <2>1. Live(h) \in 0..HistorySize
    BY UnreadValue
  <2>. QED BY <1>5, <2>1, Sizes, SMT
<1>7. \A i \in Ring : /\ g.fr[i].scon.n = h.fr[i].scon.n
                      /\ g.fr[i].scon.c \in {h.fr[i].scon.c, 3}
                      /\ g.fr[i].data \in {None, h.fr[i].data}
  BY <1>1, <1>2, <1>4
<1>8. \E d \in 0..Live(g)-1 : g.fr[h.a] = Newest(g, d)
  BY <1>4, <1>5, KeptAreLive DEF Newest
<1>. QED BY <1>3, <1>4, <1>5, <1>6, <1>7, <1>8, RingStays DEF g

LEMMA ConnectedTimeoutSound ==
    ASSUME NEW m \in Nat, NEW k \in ConUpTo(m), k.st = "Connected", Codes(k), NEW ok \in BOOLEAN
    PROVE  LET r == ConnectedTimeout(k, ok) IN Sound(k, r.con, r.out) /\ Quiet(k, r.con)
<1>. DEFINE k1 == [k EXCEPT !.retry = @ + 1, !.timer = 1]
            g == [k.hist EXCEPT !.fr[k.hist.a].scon.c = 3]
            k2 == [k1 EXCEPT !.hist = g]
            r == ConnectedTimeout(k, ok)
<1>1. k.hist \in Hist(m) /\ Opened(k)
  BY DEF ConUpTo, Opened
<1>2. k1.hist = k.hist /\ k1.recv = k.recv /\ k1.st = k.st /\ k1.send = k.send
  BY DEF ConUpTo
<1>3. CASE ~(k.hist.free < HistorySize /\ k.retry < RetryCount)
  <2>. DEFINE bye == IF ok THEN CloseFrame(k) ELSE <<>>
  <2>1. r = Done(Cleared(HistorySize), bye)
    BY <1>3 DEF ConnectedTimeout, Wiped
  <2>2. \A i \in 1..Len(bye) : bye[i].data = None
    <3>1. Header(Closing(k), None).data = None
      BY DEF Header
    <3>2. \A i \in 1..Len(CloseFrame(k)) : CloseFrame(k)[i].data = None
      BY <3>1, OneFrame DEF CloseFrame
    <3>3. 1..Len(<<>>) = {}
      BY SMT
    <3>. QED BY <3>2, <3>3
  <2>. HIDE DEF r, bye
  <2>3. r.con = Cleared(HistorySize) /\ r.out = bye
    BY <2>1 DEF Done
  <2>. QED BY <2>2, <2>3, ClearedClosed, WipedSound DEF Quiet, r
<1>4. CASE k.hist.free < HistorySize /\ k.retry < RetryCount /\ Kept(k.hist) = <<>>
  <2>1. r = Done(k1, <<>>)
    BY <1>4 DEF ConnectedTimeout
  <2>. HIDE DEF r, k1
  <2>2. r.con = k1 /\ r.out = <<>>
    BY <2>1 DEF Done
  <2>3. Codes(k1) /\ Stays(k, k1)
    <3>1. Codes(k1)
      BY <1>1, <1>2 DEF Codes, Opened
    <3>. QED BY <1>1, <1>2, <3>1, SameHistoryStays
  <2>4. Emits(k1, <<>>)
    <3>1. 1..Len(<<>>) = {}
      BY SMT
    <3>. QED BY <3>1 DEF Emits
  <2>. QED BY <1>1, <1>2, <2>2, <2>3, <2>4 DEF Sound, Quiet, Greeting, r
<1>5. CASE k.hist.free < HistorySize /\ k.retry < RetryCount /\ Kept(k.hist) # <<>>
  <2>. DEFINE k3 == [k1 EXCEPT !.hist.fr[k.hist.a].scon.c = 3]
              out == Sends(k3.hist.fr[k.hist.a], ok)
  <2>1. r = Done(k3, out)
    BY <1>5 DEF ConnectedTimeout
  <2>2. k3 = k2 /\ k2.hist = g /\ k2.recv = k.recv /\ k2.st = k.st /\ k2.send = k.send
    BY <1>2 DEF ConUpTo
  <2>3. /\ g \in Hist(m) /\ Live(g) = Live(k.hist)
        /\ \A d \in 0..Live(g)-1 :
             /\ Newest(g, d).scon.n = Newest(k.hist, d).scon.n
             /\ Newest(g, d).scon.c \in {Newest(k.hist, d).scon.c, 3}
             /\ Newest(g, d).data \in {None, Newest(k.hist, d).data}
        /\ \E d \in 0..Live(g)-1 : g.fr[k.hist.a] = Newest(g, d)
    BY <1>1, <1>5, AskingStays
  <2>. HIDE DEF g, k1, k2, k3, r
  <2>4. r.con = k2 /\ r.out = out
    BY <2>1, <2>2 DEF Done
  <2>5. Codes(k2)
    BY <1>1, <2>2 DEF Codes, Opened
  <2>6. Stays(k, k2)
    <3>1. Live(k.hist) \in 0..HistorySize
      BY <1>1, UnreadValue
    <3>2. Live(g) <= Live(k.hist)
      BY <2>3, <3>1, Sizes, SMT
    <3>. QED BY <1>1, <2>2, <2>3, <3>2 DEF Stays, Remains
  <2>7. Emits(k2, out)
    <3>1. out = <<g.fr[k.hist.a]>> \/ out = <<>>
      BY <2>2 DEF Sends
    <3>2. 1..Len(<<>>) = {}
      BY SMT
    <3>3. Emits(k2, <<>>)
      BY <3>2 DEF Emits
    <3>4. Emits(k2, <<g.fr[k.hist.a]>>)
      BY <1>1, <2>2, <2>3, OneFrame DEF Emits, Opened
    <3>. HIDE DEF out
    <3>. QED BY <3>1, <3>3, <3>4
  <2>. QED BY <1>1, <2>2, <2>4, <2>5, <2>6, <2>7 DEF Sound, Quiet, Greeting, r
<1>. QED BY <1>3, <1>4, <1>5

LEMMA TimeoutSound ==
    ASSUME NEW m \in Nat, NEW k \in ConUpTo(m), Codes(k), NEW ok \in BOOLEAN
    PROVE  LET r == Timeout(k, ok) IN Sound(k, r.con, r.out) /\ Quiet(k, r.con)
<1>. DEFINE j == [k EXCEPT !.timer = 0]
            r == Timeout(k, ok)
<1>1. j \in ConUpTo(m) /\ j.hist = k.hist /\ j.recv = k.recv /\ j.st = k.st /\ j.send = k.send
  BY DEF ConUpTo
<1>. HIDE DEF j
<1>2. Codes(j) /\ Stays(k, j)
  <2>1. Codes(j)
    BY <1>1 DEF Codes, Opened
  <2>. QED BY <1>1, <2>1, SameHistoryStays DEF Opened
<1>3. CASE k.st = "Idle"
  <2>1. r = Done(j, <<>>)
    BY <1>3 DEF Timeout, j
  <2>. HIDE DEF r
  <2>2. r.con = j /\ r.out = <<>>
    BY <2>1 DEF Done
  <2>3. \A i \in 1..Len(<<>>) : <<>>[i].data = None
    BY SMT
  <2>4. ~Opened(j) /\ ~Greeting(j)
    BY <1>1, <1>3 DEF Opened, Greeting
  <2>. QED BY <2>2, <2>3, <2>4, WipedSound DEF Quiet, r
<1>4. CASE k.st = "Connected"
  <2>1. r = ConnectedTimeout(j, ok)
    BY <1>4 DEF Timeout, j
  <2>. HIDE DEF r
  <2>2. Sound(j, r.con, r.out) /\ Quiet(j, r.con)
    BY <1>1, <1>2, <1>4, <2>1, ConnectedTimeoutSound
  <2>3. r.con \in ConUpTo(m)
    BY <1>1, <1>4, <2>1, ConnectedTimeoutHandles DEF Handles, Answer, Opened
  <2>4. Stays(k, r.con)
    BY <1>1, <1>2, <2>2, <2>3, StaysTrans DEF Sound
  <2>. QED BY <1>1, <2>2, <2>4 DEF Sound, Quiet, Greeting, Opened, r
<1>5. CASE k.st # "Idle" /\ k.st # "Connected"
  <2>. DEFINE bye == IF ok THEN CloseFrame(k) ELSE <<>>
  <2>1. r = Done(Cleared(HistorySize), bye)
    BY <1>5 DEF Timeout, Wiped
  <2>2. \A i \in 1..Len(bye) : bye[i].data = None
    <3>1. Header(Closing(k), None).data = None
      BY DEF Header
    <3>2. \A i \in 1..Len(CloseFrame(k)) : CloseFrame(k)[i].data = None
      BY <3>1, OneFrame DEF CloseFrame
    <3>3. 1..Len(<<>>) = {}
      BY SMT
    <3>. QED BY <3>2, <3>3
  <2>. HIDE DEF r, bye
  <2>3. r.con = Cleared(HistorySize) /\ r.out = bye
    BY <2>1 DEF Done
  <2>. QED BY <2>2, <2>3, ClearedClosed, WipedSound DEF Quiet, r
<1>. QED BY <1>3, <1>4, <1>5

(* A data frame is sent.  Without a free entry nothing would be known of   *)
(* it; a frame that is refused moves the ring one number further back.     *)
LEMMA AheadOfNext ==
    ASSUME NEW n \in 0..SeqMod-1, NEW o \in 0..SeqMod-1, NEW x \in 0..SeqMod-1,
           o = (n + 1) % SeqMod
    PROVE  /\ Ahead(o, o) = 0
           /\ Ahead(n, x) + 1 < SeqMod => Ahead(o, x) = Ahead(n, x) + 1
<1>1. \/ n + 1 < SeqMod /\ o = n + 1
      \/ n + 1 = SeqMod /\ o = 0
  BY NextNumber
<1>2. Ahead(n, x) = IF n >= x THEN n - x ELSE n + SeqMod - x
  BY AheadValue
<1>3. Ahead(o, x) = IF o >= x THEN o - x ELSE o + SeqMod - x
  BY AheadValue
<1>4. Ahead(o, o) = IF o >= o THEN o - o ELSE o + SeqMod - o
  BY AheadValue
<1>. QED BY <1>1, <1>2, <1>3, <1>4, Sizes, SMT

Refusals(r, ok) == IF ok THEN r ELSE r + 1

LEMMA SendSound ==
    ASSUME NEW m \in Nat, NEW k \in ConUpTo(m), k.st = "Connected", Codes(k),
           NEW r \in Nat, NEW ok \in BOOLEAN
    PROVE  LET s == ConnectedSend(k, m + 1, ok)
           IN  /\ Codes(s.con) /\ s.con.send = k.send /\ Opened(s.con)
               /\ (ok => k.hist.free # 0) /\ Near(k, m, r)
                  /\ HistorySize + Refusals(r, ok) < SeqMod
                    => /\ Near(s.con, m + 1, Refusals(r, ok))
                       /\ \E Q \in SUBSET Pair(m + 1), M \in [1..Len(s.out) -> 0..m+1] :
                            /\ Repeatable(s.con, m + 1) \subseteq Q
                            /\ Follows(Repeatable(k, m), Q, s.out, M, m, HistorySize + Refusals(r, ok))
<1>. DEFINE s == ConnectedSend(k, m + 1, ok)
            j == s.con
            o == Given(k).n
            F(f) ==
              /\ f.scon = Given(k) /\ f.data = m + 1 /\ s.con.send = k.send
              /\ ok => /\ s.out = <<f>> /\ s.con.hist = addFrameToHistory(k.hist, f)
                       /\ s.con.recv = [n |-> Given(k).n,
                                        c |-> IF Given(k).c = 3 THEN 2 ELSE Given(k).c]
                       /\ s.con.st = IF k.hist.free <= 1 THEN "WaitAck" ELSE k.st
              /\ ~ok => /\ s.out = <<>> /\ s.con.hist = k.hist /\ s.con.recv = Given(k)
                        /\ s.con.st = k.st
              /\ s.con \in ConUpTo(m + 1)
<1>1. PICK f \in FrameUpTo(m + 1) : F(f)
  BY SendRecord, Zenon
<1>. HIDE DEF s, o
<1>2. /\ f.scon = Given(k) /\ f.data = m + 1 /\ j.send = k.send /\ j \in ConUpTo(m + 1)
      /\ ok => /\ s.out = <<f>> /\ j.hist = addFrameToHistory(k.hist, f)
               /\ j.recv.c = IF Given(k).c = 3 THEN 2 ELSE Given(k).c
               /\ j.st = IF k.hist.free <= 1 THEN "WaitAck" ELSE k.st
      /\ ~ok => s.out = <<>> /\ j.hist = k.hist /\ j.recv = Given(k) /\ j.st = k.st
      /\ j.recv.n = o
  BY <1>1 DEF o
<1>. HIDE DEF j, F
<1>3. Opened(k) /\ k.recv.c \in {2, 3} /\ k.hist \in Hist(m) /\ k.recv.n \in 0..SeqMod-1
  BY DEF Codes, Opened, ConUpTo, Con
<1>4. o \in 0..SeqMod-1 /\ o = (k.recv.n + 1) % SeqMod
      /\ Given(k).c = IF k.hist.free <= 1 THEN 3 ELSE k.recv.c
  BY <1>3, NextNumber DEF Given, o
<1>5. Codes(j) /\ Opened(j)
  BY <1>2, <1>3, <1>4 DEF Codes, Opened
<1>6. ASSUME NEW d \in 0..Live(k.hist)-1
      PROVE  /\ d \in 0..HistorySize-1
             /\ Newest(k.hist, d).scon.n \in 0..SeqMod-1 /\ Back(k, d) \in 0..SeqMod-1
  <2>1. Live(k.hist) \in 0..HistorySize
    BY <1>3, UnreadValue
  <2>2. d \in 0..HistorySize-1
    BY <2>1, Sizes, SMT
  <2>3. Newest(k.hist, d).scon.n \in 0..SeqMod-1
    BY <1>3, <2>2, NewestType DEF FrameUpTo, Con
  <2>. QED BY <1>3, <2>2, <2>3, AheadValue DEF Back
<1>7. ASSUME ok, k.hist.free # 0, Near(k, m, r), HistorySize + r < SeqMod
      PROVE  /\ Near(j, m + 1, r)
             /\ \E Q \in SUBSET Pair(m + 1), M \in [1..Len(s.out) -> 0..m+1] :
                  /\ Repeatable(j, m + 1) \subseteq Q
                  /\ Follows(Repeatable(k, m), Q, s.out, M, m, HistorySize + r)
  <2>1. /\ Newest(j.hist, 0) = f
        /\ \A d \in 1..Live(j.hist)-1 :
             d - 1 \in 0..Live(k.hist)-1 /\ Newest(j.hist, d) = Newest(k.hist, d - 1)
    BY <1>2, <1>3, <1>7, AddedLive
  <2>2. Live(j.hist) \in 0..HistorySize
    <3>1. j.hist \in Hist(m + 1) /\ m + 1 \in Nat
      BY <1>2, SMT DEF ConUpTo
    <3>. QED BY <3>1, UnreadValue
  <2>3. f.scon.n = o /\ f.scon.c # 1
    BY <1>2, <1>3, <1>4 DEF o
  <2>4. Back(j, 0) = 0
    BY <1>2, <1>3, <1>4, <2>1, <2>3, AheadOfNext DEF Back
  <2>5. ASSUME NEW d \in 1..Live(j.hist)-1
        PROVE  /\ d - 1 \in 0..Live(k.hist)-1 /\ Newest(j.hist, d) = Newest(k.hist, d - 1)
               /\ Back(j, d) = Back(k, d - 1) + 1 /\ Back(k, d - 1) \in 0..SeqMod-1
    <3>1. d - 1 \in 0..Live(k.hist)-1 /\ Newest(j.hist, d) = Newest(k.hist, d - 1)
      BY <2>1
    <3>2. Back(k, d - 1) <= (d - 1) + r
      BY <1>7, <3>1 DEF Near
    <3>3. Back(k, d - 1) + 1 < SeqMod
      BY <1>6, <1>7, <2>2, <3>1, <3>2, Sizes, SMT
    <3>4. Newest(k.hist, d - 1).scon.n \in 0..SeqMod-1 /\ Back(k, d - 1) \in 0..SeqMod-1
      BY <1>6, <3>1
    <3>. DEFINE x == Newest(k.hist, d - 1).scon.n
    <3>5. /\ x \in 0..SeqMod-1 /\ Back(k, d - 1) = Ahead(k.recv.n, x)
          /\ Back(j, d) = Ahead(o, x)
      BY <1>2, <3>1, <3>4 DEF Back
    <3>6. Ahead(k.recv.n, x) + 1 < SeqMod
      BY <3>3, <3>5
    <3>7. Ahead(o, x) = Ahead(k.recv.n, x) + 1
      <4>. HIDE DEF x
      <4>. QED BY <1>3, <1>4, <3>5, <3>6, AheadOfNext
    <3>. QED BY <3>1, <3>4, <3>5, <3>7
  <2>6. \A d \in 0..Live(j.hist)-1 : d = 0 \/ d \in 1..Live(j.hist)-1
    BY <2>2, Sizes, SMT
  <2>7. ASSUME NEW d \in 0..Live(j.hist)-1
        PROVE  /\ Back(j, d) \in Nat /\ Back(j, d) <= d + r /\ Back(j, d) < m + 1
               /\ Newest(j.hist, d).data \in {None, (m + 1) - Back(j, d)}
               /\ Newest(j.hist, d).scon.c # 1
    <3>1. CASE d = 0
      <4>1. (m + 1) - 0 = m + 1 /\ 0 <= 0 + r /\ 0 < m + 1 /\ 0 \in Nat
        BY SMT
      <4>. QED BY <1>2, <2>1, <2>3, <2>4, <3>1, <4>1
    <3>2. CASE d \in 1..Live(j.hist)-1
      <4>1. /\ Back(k, d - 1) <= (d - 1) + r /\ Back(k, d - 1) < m
            /\ Newest(k.hist, d - 1).data \in {None, m - Back(k, d - 1)}
            /\ Newest(k.hist, d - 1).scon.c # 1
        BY <1>7, <2>5, <3>2 DEF Near
      <4>2. /\ Newest(j.hist, d) = Newest(k.hist, d - 1)
            /\ Back(j, d) = Back(k, d - 1) + 1 /\ Back(k, d - 1) \in 0..SeqMod-1
        BY <2>5, <3>2
      <4>. DEFINE a == Back(k, d - 1)
                  b == Back(j, d)
      <4>3. a \in Nat /\ b = a + 1 /\ a <= (d - 1) + r /\ a < m
        BY <4>1, <4>2, SMT
      <4>. HIDE DEF a, b
      <4>4. (m + 1) - b = m - a /\ b \in Nat /\ b <= d + r /\ b < m + 1
        BY <3>2, <4>3, SMT
      <4>. QED BY <4>1, <4>2, <4>4 DEF a, b
    <3>. QED BY <2>6, <3>1, <3>2
  <2>8. Near(j, m + 1, r)
    BY <2>7 DEF Near
  <2>. DEFINE fresh == [data |-> m + 1, n |-> o]
              Q == Repeatable(j, m + 1) \cup {fresh}
              M == [i \in 1..Len(s.out) |-> m + 1]
              D == HistorySize + r
  <2>9. Q \in SUBSET Pair(m + 1)
    <3>1. m + 1 \in Nat /\ m + 1 \in 1..m+1
      BY SMT
    <3>2. fresh \in Pair(m + 1)
      BY <1>4, <3>1 DEF Pair
    <3>3. Repeatable(j, m + 1) \in SUBSET Pair(m + 1)
      BY <1>2, <2>8, <3>1, RepeatableType
    <3>. QED BY <3>2, <3>3
  <2>10. M \in [1..Len(s.out) -> 0..m+1] /\ \A i \in 1..Len(s.out) : M[i] = m + 1
    <3>1. m + 1 \in 0..m+1
      BY SMT
    <3>. QED BY <3>1
  <2>11. ASSUME NEW q \in Q
         PROVE  /\ q \in Repeatable(k, m) \/ m < q.data
                /\ Ahead(o, q.n) < D
    <3>1. CASE q = fresh
      <4>1. m < m + 1 /\ 0 < D
        BY Sizes, SMT
      <4>. QED BY <1>3, <1>4, <3>1, <4>1, AheadOfNext
    <3>2. ASSUME NEW d \in 0..Live(j.hist)-1,
                 q = [data |-> (m + 1) - Back(j, d), n |-> Newest(j.hist, d).scon.n]
          PROVE  /\ q \in Repeatable(k, m) \/ m < q.data
                 /\ Ahead(o, q.n) < D
      <4>1. Ahead(o, q.n) = Back(j, d)
        BY <1>2, <3>2 DEF Back
      <4>2. Ahead(o, q.n) < D
        BY <2>2, <2>7, <4>1, Sizes, SMT
      <4>3. CASE d = 0
        <5>1. m < (m + 1) - 0
          BY SMT
        <5>. QED BY <2>4, <3>2, <4>2, <4>3, <5>1
      <4>4. CASE d \in 1..Live(j.hist)-1
        <5>1. Back(j, d) = Back(k, d - 1) + 1 /\ Back(k, d - 1) \in 0..SeqMod-1
          BY <2>5, <4>4
        <5>2. (m + 1) - Back(j, d) = m - Back(k, d - 1)
          BY <5>1, Sizes, SMT
        <5>3. q = [data |-> m - Back(k, d - 1), n |-> Newest(k.hist, d - 1).scon.n]
          BY <2>5, <3>2, <4>4, <5>2
        <5>. QED BY <1>3, <2>5, <4>2, <4>4, <5>3 DEF Repeatable
      <4>. QED BY <2>6, <4>3, <4>4
    <3>3. \/ q = fresh
          \/ \E d \in 0..Live(j.hist)-1 :
               q = [data |-> (m + 1) - Back(j, d), n |-> Newest(j.hist, d).scon.n]
      BY <1>5, <2>11, Zenon DEF Repeatable
    <3>. QED BY <3>1, <3>2, <3>3
  <2>12. \A i \in 1..Len(s.out) : Fits(s.out[i], M[i], Q, D)
    <3>1. Fits(f, m + 1, Q, D)
      <4>1. fresh \in Q /\ fresh.data = m + 1 /\ fresh.n = o
        OBVIOUS
      <4>. HIDE DEF fresh, Q
      <4>. QED BY <1>2, <2>3, <2>11, <4>1 DEF Fits
    <3>. HIDE DEF M, Q
    <3>. QED BY <1>2, <1>7, <2>10, <3>1, OneFrame
  <2>13. Follows(Repeatable(k, m), Q, s.out, M, m, D)
    <3>. HIDE DEF M, Q, D
    <3>. QED BY <2>11, <2>12 DEF Follows
  <2>14. Repeatable(j, m + 1) \subseteq Q
    OBVIOUS
  <2>. HIDE DEF Q, M
  <2>. QED BY <2>8, <2>9, <2>10, <2>13, <2>14
<1>8. ASSUME ~ok, Near(k, m, r), HistorySize + (r + 1) < SeqMod
      PROVE  /\ Near(j, m + 1, r + 1)
             /\ \E Q \in SUBSET Pair(m + 1), M \in [1..Len(s.out) -> 0..m+1] :
                  /\ Repeatable(j, m + 1) \subseteq Q
                  /\ Follows(Repeatable(k, m), Q, s.out, M, m, HistorySize + (r + 1))
  <2>1. j.hist = k.hist /\ s.out = <<>> /\ m + 1 \in Nat /\ r + 1 \in Nat
    BY <1>2, <1>8, SMT
  <2>2. ASSUME NEW d \in 0..Live(k.hist)-1
        PROVE  /\ Back(j, d) = Back(k, d) + 1 /\ (m + 1) - Back(j, d) = m - Back(k, d)
               /\ Back(j, d) <= d + (r + 1) /\ Back(j, d) < m + 1
    <3>1. Back(k, d) <= d + r /\ Back(k, d) < m
      BY <1>8 DEF Near
    <3>2. Newest(k.hist, d).scon.n \in 0..SeqMod-1 /\ Back(k, d) \in 0..SeqMod-1
          /\ d \in 0..HistorySize-1
      BY <1>6
    <3>3. Back(k, d) + 1 < SeqMod
      BY <1>8, <3>1, <3>2, Sizes, SMT
    <3>4. Back(j, d) = Back(k, d) + 1
      <4>. DEFINE x == Newest(k.hist, d).scon.n
      <4>1. x \in 0..SeqMod-1 /\ Back(k, d) = Ahead(k.recv.n, x) /\ Back(j, d) = Ahead(o, x)
        BY <1>2, <2>1, <3>2 DEF Back
      <4>2. Ahead(k.recv.n, x) + 1 < SeqMod
        BY <3>3, <4>1
      <4>. HIDE DEF x
      <4>3. Ahead(o, x) = Ahead(k.recv.n, x) + 1
        BY <1>3, <1>4, <4>1, <4>2, AheadOfNext
      <4>. QED BY <4>1, <4>3
    <3>. DEFINE a == Back(k, d)
                b == Back(j, d)
    <3>5. a \in Nat /\ d \in Nat /\ a <= d + r /\ a < m /\ b = a + 1
      BY <3>1, <3>2, <3>4, SMT
    <3>. HIDE DEF a, b
    <3>6. (m + 1) - b = m - a /\ b <= d + (r + 1) /\ b < m + 1
      BY <3>5, SMT
    <3>. QED BY <3>4, <3>6 DEF a, b
  <2>3. Near(j, m + 1, r + 1)
    <3>1. \A d \in 0..Live(j.hist)-1 :
             /\ Back(j, d) <= d + (r + 1) /\ Back(j, d) < m + 1
             /\ Newest(j.hist, d).data \in {None, (m + 1) - Back(j, d)}
             /\ Newest(j.hist, d).scon.c # 1
      <4>1. \A d \in 0..Live(k.hist)-1 :
              /\ Newest(k.hist, d).data \in {None, m - Back(k, d)}
              /\ Newest(k.hist, d).scon.c # 1
        BY <1>8 DEF Near
      <4>. QED BY <2>1, <2>2, <4>1
    <3>. QED BY <3>1 DEF Near
  <2>. DEFINE Q == Repeatable(j, m + 1)
              M == [i \in 1..Len(s.out) |-> m + 1]
              D == HistorySize + (r + 1)
  <2>4. Q \subseteq Repeatable(k, m)
    <3>. SUFFICES ASSUME NEW q \in Q PROVE q \in Repeatable(k, m)
      OBVIOUS
    <3>1. PICK d \in 0..Live(k.hist)-1 :
            q = [data |-> (m + 1) - Back(j, d), n |-> Newest(k.hist, d).scon.n]
      <4>1. \E d \in 0..Live(j.hist)-1 :
              q = [data |-> (m + 1) - Back(j, d), n |-> Newest(j.hist, d).scon.n]
        BY <1>5 DEF Repeatable
      <4>. QED BY <2>1, <4>1
    <3>2. q = [data |-> m - Back(k, d), n |-> Newest(k.hist, d).scon.n]
      BY <2>2, <3>1
    <3>. QED BY <1>3, <3>2 DEF Repeatable
  <2>5. Q \in SUBSET Pair(m + 1)
    BY <1>2, <2>1, <2>3, RepeatableType
  <2>6. Len(s.out) = 0 /\ 1..Len(s.out) = {}
    BY <2>1, SMT
  <2>7. M \in [1..Len(s.out) -> 0..m+1]
    BY <2>6
  <2>. HIDE DEF Q, M, D
  <2>8. Follows(Repeatable(k, m), Q, s.out, M, m, D)
    BY <2>4, <2>6 DEF Follows
  <2>. QED BY <2>3, <2>5, <2>7, <2>8 DEF Q, D
<1>. QED BY <1>2, <1>5, <1>7, <1>8 DEF Refusals, s, j

(* Both ends of a line.  Record k of the node that has sent m frames and   *)
(* had r refused, the frames c on the way, and record j of the node that   *)
(* has delivered g.                                                        *)
Line(k, c, g, j, m, r) ==
    HistorySize + r < SeqMod =>
      /\ Opened(k) => Near(k, m, r)
      /\ Ordered(c, g, j, Repeatable(k, m), m, HistorySize + r)

LEMMA LineTaken ==
    ASSUME NEW m \in Nat, NEW k \in ConUpTo(m), NEW c \in Seq(FrameUpTo(m)), c # <<>>,
           NEW g \in Seq(1..m), NEW l \in Nat, NEW j \in ConUpTo(l), NEW i, NEW x \in 0..m,
           NEW r \in Nat, Taken(j, Head(c), i, x), Line(k, c, g, j, m, r)
    PROVE  Line(k, Tail(c), Heard(g, x), i, m, r)
<1>. SUFFICES ASSUME HistorySize + r < SeqMod
     PROVE  /\ Opened(k) => Near(k, m, r)
            /\ Ordered(Tail(c), Heard(g, x), i, Repeatable(k, m), m, HistorySize + r)
  BY DEF Line
<1>1. /\ Opened(k) => Near(k, m, r)
      /\ Ordered(c, g, j, Repeatable(k, m), m, HistorySize + r)
  BY DEF Line
<1>2. Repeatable(k, m) \in SUBSET Pair(m)
  BY <1>1, RepeatableType
<1>3. HistorySize + r \in Nat
  BY Sizes, SMT
<1>. QED BY <1>1, <1>2, <1>3, TakenKeepsOrder

LEMMA LineQuiet ==
    ASSUME NEW m, NEW k, NEW c, NEW g, NEW j, NEW i, NEW r, Quiet(j, i), Line(k, c, g, j, m, r)
    PROVE  Line(k, c, g, i, m, r)
BY QuietKeepsOrder DEF Line

LEMMA LineRefused ==
    ASSUME NEW m \in Nat, NEW k \in ConUpTo(m), NEW c \in Seq(FrameUpTo(m)),
           NEW g \in Seq(1..m), NEW l \in Nat, NEW j \in ConUpTo(l),
           NEW r \in Nat, NEW s \in Nat, r <= s, Line(k, c, g, j, m, r)
    PROVE  Line(k, c, g, j, m, s)
<1>. SUFFICES ASSUME HistorySize + s < SeqMod
     PROVE  /\ Opened(k) => Near(k, m, s)
            /\ Ordered(c, g, j, Repeatable(k, m), m, HistorySize + s)
  BY DEF Line
<1>1. /\ HistorySize + r < SeqMod /\ HistorySize + r \in Nat /\ HistorySize + s \in Nat
      /\ HistorySize + r <= HistorySize + s
  BY Sizes, SMT
<1>2. /\ Opened(k) => Near(k, m, r)
      /\ Ordered(c, g, j, Repeatable(k, m), m, HistorySize + r)
  BY <1>1 DEF Line
<1>3. Repeatable(k, m) \in SUBSET Pair(m)
  BY <1>2, RepeatableType
<1>4. ASSUME Opened(k) PROVE Near(k, m, s)
  <2>. SUFFICES ASSUME NEW d \in 0..Live(k.hist)-1 PROVE Back(k, d) <= d + s
    BY <1>2, <1>4 DEF Near
  <2>1. k.hist \in Hist(m) /\ k.recv.n \in 0..SeqMod-1
    BY DEF ConUpTo, Con
  <2>2. Live(k.hist) \in 0..HistorySize
    BY <2>1, UnreadValue
  <2>3. d \in 0..HistorySize-1
    BY <2>2, Sizes, SMT
  <2>4. Newest(k.hist, d).scon.n \in 0..SeqMod-1
    BY <2>1, <2>3, NewestType DEF FrameUpTo, Con
  <2>5. Back(k, d) \in 0..SeqMod-1
    BY <2>1, <2>4, AheadValue DEF Back
  <2>6. Back(k, d) <= d + r
    BY <1>2, <1>4 DEF Near
  <2>. QED BY <2>3, <2>5, <2>6, Sizes, SMT
<1>. QED BY <1>1, <1>2, <1>3, <1>4, MoreRefusedKeepsOrder

LEMMA LineSent ==
    ASSUME NEW m \in Nat, NEW k \in ConUpTo(m), NEW c \in Seq(FrameUpTo(m)),
           NEW g \in Seq(1..m), NEW j, NEW r \in Nat,
           NEW i \in ConUpTo(m), NEW out \in Seq(FrameUpTo(m)),
           Sound(k, i, out), Line(k, c, g, j, m, r)
    PROVE  Line(i, c \o out, g, j, m, r)
<1>. SUFFICES ASSUME HistorySize + r < SeqMod
     PROVE  /\ Opened(i) => Near(i, m, r)
            /\ Ordered(c \o out, g, j, Repeatable(i, m), m, HistorySize + r)
  BY DEF Line
<1>1. /\ Opened(k) => Near(k, m, r)
      /\ Ordered(c, g, j, Repeatable(k, m), m, HistorySize + r)
  BY DEF Line
<1>2. Codes(i) /\ Stays(k, i) /\ Emits(i, out)
  BY DEF Sound
<1>3. /\ Opened(i) => Near(i, m, r)
      /\ Repeatable(i, m) \subseteq Repeatable(k, m)
  BY <1>1, <1>2, StaysNear
<1>4. Repeatable(k, m) \in SUBSET Pair(m) /\ Repeatable(i, m) \in SUBSET Pair(m)
  BY <1>1, <1>3, RepeatableType
<1>5. PICK M \in [1..Len(out) -> 0..m] :
        Follows(Repeatable(k, m), Repeatable(i, m), out, M, m, HistorySize + r)
  BY <1>2, <1>3, EmitsFollows
<1>6. m <= m
  BY SMT
<1>. QED BY <1>1, <1>3, <1>4, <1>5, <1>6, AppendKeepsOrder

LEMMA LessRepeatable ==
    ASSUME NEW m, NEW c, NEW g, NEW j, NEW R, NEW Q, NEW D, R \subseteq Q,
           Ordered(c, g, j, Q, m, D)
    PROVE  Ordered(c, g, j, R, m, D)
BY Zenon DEF Ordered, InOrder

LEMMA LineData ==
    ASSUME NEW m \in Nat, NEW k \in ConUpTo(m), NEW c \in Seq(FrameUpTo(m)),
           NEW g \in Seq(1..m), NEW l \in Nat, NEW j \in ConUpTo(l), NEW r \in Nat,
           k.st = "Connected", Codes(k), NEW ok \in BOOLEAN, ok => k.hist.free # 0,
           Line(k, c, g, j, m, r)
    PROVE  LET s == ConnectedSend(k, m + 1, ok)
           IN  Line(s.con, c \o s.out, g, j, m + 1, Refusals(r, ok))
<1>. DEFINE s == ConnectedSend(k, m + 1, ok)
            q == Refusals(r, ok)
<1>1. /\ q \in Nat /\ r <= q /\ m + 1 \in Nat /\ m <= m + 1
      /\ HistorySize + q < SeqMod => HistorySize + r < SeqMod
      /\ HistorySize + q \in Nat /\ HistorySize + r \in Nat /\ HistorySize + r <= HistorySize + q
  BY Sizes, SMT DEF Refusals
<1>2. s.con \in ConUpTo(m + 1) /\ s.out \in Seq(FrameUpTo(m + 1))
  BY SendHandles
<1>. HIDE DEF q
<1>. SUFFICES ASSUME HistorySize + q < SeqMod
     PROVE  /\ Near(s.con, m + 1, q)
            /\ Ordered(c \o s.out, g, j, Repeatable(s.con, m + 1), m + 1, HistorySize + q)
  BY DEF Line, q
<1>3. Near(k, m, r) /\ Ordered(c, g, j, Repeatable(k, m), m, HistorySize + r)
  BY <1>1 DEF Line, Opened
<1>4. /\ Near(s.con, m + 1, q)
      /\ \E Q \in SUBSET Pair(m + 1), M \in [1..Len(s.out) -> 0..m+1] :
           /\ Repeatable(s.con, m + 1) \subseteq Q
           /\ Follows(Repeatable(k, m), Q, s.out, M, m, HistorySize + q)
  BY <1>3, SendSound DEF q
<1>. HIDE DEF s
<1>5. PICK Q \in SUBSET Pair(m + 1), M \in [1..Len(s.out) -> 0..m+1] :
        /\ Repeatable(s.con, m + 1) \subseteq Q
        /\ Follows(Repeatable(k, m), Q, s.out, M, m, HistorySize + q)
  BY <1>4
<1>6. Repeatable(k, m) \in SUBSET Pair(m)
  BY <1>3, RepeatableType
<1>7. Ordered(c, g, j, Repeatable(k, m), m, HistorySize + q)
  BY <1>1, <1>3, <1>6, MoreRefusedKeepsOrder
<1>8. Ordered(c \o s.out, g, j, Q, m + 1, HistorySize + q)
  BY <1>1, <1>2, <1>5, <1>6, <1>7, AppendKeepsOrder
<1>. QED BY <1>4, <1>5, <1>8, LessRepeatable

-----------------------------------------------------------------------------
(* The invariant of the order.                                             *)
CodesKept == \A p \in Node : Codes(con[p])
LinesKept ==
    \A p, q \in Node :
        p # q /\ unkept[p] = {}
          => Line(con[p], chan[q], got[q], con[q], sent[p], fault.refused)
OrderInv == CodesKept /\ LinesKept

LEMMA OrderAfter ==
    OrderInv' <=>
      /\ \A p \in Node : Codes(con'[p])
      /\ \A p, q \in Node :
           p # q /\ unkept'[p] = {}
             => Line(con'[p], chan'[q], got'[q], con'[q], sent'[p], fault'.refused)
BY DEF OrderInv, CodesKept, LinesKept, Codes, Line, Opened, Near, Back, Newest, Age, Live, Unread, Ahead,
       Ordered, Labels, InOrder, Guarded, NotNext, Behind, Below, Passed, Greeting, Increasing,
       Repeatable, None

LEMMA RefusedGrows ==
    ASSUME IInv, NEW x \in Faults, Disturb(x)
    PROVE  /\ fault.refused \in Nat /\ fault'.refused \in Nat /\ fault.refused <= fault'.refused
           /\ fault'.refused = IF x = "refused" THEN fault.refused + 1 ELSE fault.refused
<1>1. /\ fault \in [Faults -> 0..MaxFault] /\ MaxFault \in Nat /\ "refused" \in Faults
  BY BoundAssumption DEF IInv, CountsTyped, Faults
<1>2. fault.refused \in Nat
  BY <1>1, SMT
<1>3. fault'.refused = IF x = "refused" THEN fault.refused + 1 ELSE fault.refused
  BY <1>1 DEF Disturb
<1>. QED BY <1>2, <1>3, SMT

LEMMA RefusableGrows ==
    ASSUME IInv, NEW ok \in BOOLEAN, Refusable(ok)
    PROVE  /\ fault.refused \in Nat /\ fault'.refused \in Nat /\ fault.refused <= fault'.refused
           /\ fault'.refused = Refusals(fault.refused, ok)
<1>1. CASE ok
  <2>1. fault' = fault
    BY <1>1 DEF Refusable
  <2>2. fault \in [Faults -> 0..MaxFault] /\ MaxFault \in Nat /\ "refused" \in Faults
    BY BoundAssumption DEF IInv, CountsTyped, Faults
  <2>3. fault.refused \in Nat
    BY <2>2, SMT
  <2>. QED BY <1>1, <2>1, <2>3, SMT DEF Refusals
<1>2. CASE ~ok
  <2>1. Disturb("refused") /\ "refused" \in Faults
    BY <1>2 DEF Refusable, Faults
  <2>. QED BY <1>2, <2>1, RefusedGrows DEF Refusals
<1>. QED BY <1>1, <1>2

LEMMA LineTypes ==
    ASSUME IInv, NEW p \in Node
    PROVE  /\ Peer(p) \in Node /\ Peer(p) # p /\ \A q \in Node : q = p \/ q = Peer(p)
           /\ sent[p] \in Nat /\ sent[Peer(p)] \in Nat
           /\ con[p] \in ConUpTo(sent[p]) /\ con[Peer(p)] \in ConUpTo(sent[Peer(p)])
           /\ chan[p] \in Seq(FrameUpTo(sent[Peer(p)])) /\ chan[Peer(p)] \in Seq(FrameUpTo(sent[p]))
           /\ got[p] \in Seq(1..sent[Peer(p)]) /\ got[Peer(p)] \in Seq(1..sent[p])
<1>1. /\ Peer(p) \in Node /\ Peer(p) # p /\ Peer(Peer(p)) = p
      /\ \A q \in Node : q = p \/ q = Peer(p)
  BY TwoNodes
<1>. QED BY <1>1 DEF IInv, CountsTyped, RecordsTyped, FramesTyped, DeliveryTyped

(* A step of node p: as a sender it is sound, and what it does to the      *)
(* frames on the way to it keeps their line.                               *)
LEMMA StepKeepsOrder ==
    ASSUME IInv, OrderInv, NEW p \in Node, NEW q, q = Peer(p),
           NEW i \in ConUpTo(sent[p]), NEW out \in Seq(FrameUpTo(sent[p])),
           Sound(con[p], i, out), con' = [con EXCEPT ![p] = i],
           chan'[q] = chan[q] \o out, got'[q] = got[q], UNCHANGED <<sent, unkept>>,
           fault.refused \in Nat, fault'.refused \in Nat, fault.refused <= fault'.refused,
           ASSUME NEW r \in Nat, Line(con[q], chan[p], got[p], con[p], sent[q], r)
           PROVE  Line(con[q], chan'[p], got'[p], i, sent[q], r)
    PROVE  OrderInv'
<1>. DEFINE s == fault'.refused
<1>1. /\ q \in Node /\ q # p /\ \A x \in Node : x = p \/ x = q
      /\ sent[p] \in Nat /\ sent[q] \in Nat
      /\ con[p] \in ConUpTo(sent[p]) /\ con[q] \in ConUpTo(sent[q])
      /\ chan[p] \in Seq(FrameUpTo(sent[q])) /\ chan[q] \in Seq(FrameUpTo(sent[p]))
      /\ got[p] \in Seq(1..sent[q]) /\ got[q] \in Seq(1..sent[p])
  BY LineTypes
<1>2. con'[p] = i /\ con'[q] = con[q] /\ sent' = sent /\ unkept' = unkept
  BY <1>1 DEF IInv, RecordsTyped
<1>. HIDE DEF s
<1>3. s \in Nat /\ fault.refused <= s
  BY DEF s
<1>4. Codes(con'[p]) /\ Codes(con'[q])
  BY <1>1, <1>2 DEF OrderInv, CodesKept, Sound
<1>5. ASSUME unkept'[p] = {} PROVE Line(con'[p], chan'[q], got'[q], con'[q], sent'[p], s)
  <2>1. Line(con[p], chan[q], got[q], con[q], sent[p], fault.refused)
    BY <1>1, <1>2, <1>5 DEF OrderInv, LinesKept
  <2>2. Line(con[p], chan[q], got[q], con[q], sent[p], s)
    BY <1>1, <1>3, <2>1, LineRefused
  <2>3. Line(i, chan[q] \o out, got[q], con[q], sent[p], s)
    BY <1>1, <1>3, <2>2, LineSent
  <2>. QED BY <1>2, <2>3
<1>6. ASSUME unkept'[q] = {} PROVE Line(con'[q], chan'[p], got'[p], con'[p], sent'[q], s)
  <2>1. Line(con[q], chan[p], got[p], con[p], sent[q], fault.refused)
    BY <1>1, <1>2, <1>6 DEF OrderInv, LinesKept
  <2>2. Line(con[q], chan[p], got[p], con[p], sent[q], s)
    BY <1>1, <1>3, <2>1, LineRefused
  <2>3. Line(con[q], chan'[p], got'[p], i, sent[q], s)
    BY <1>3, <2>2
  <2>. QED BY <1>2, <2>3
<1>. QED BY <1>1, <1>4, <1>5, <1>6, OrderAfter, Zenon DEF s

(* Node p installs a record without having taken a frame.                  *)
LEMMA InstallKeepsOrder ==
    ASSUME IInv, OrderInv, NEW p \in Node,
           NEW i \in ConUpTo(sent[p]), NEW out \in Seq(FrameUpTo(sent[p])),
           Sound(con[p], i, out), Quiet(con[p], i), Install(p, i, out),
           UNCHANGED <<sent, unkept, got>>,
           fault.refused \in Nat, fault'.refused \in Nat, fault.refused <= fault'.refused
    PROVE  OrderInv'
<1>. DEFINE q == Peer(p)
<1>1. q \in Node /\ q # p
  BY LineTypes
<1>2. /\ con' = [con EXCEPT ![p] = i] /\ chan'[q] = chan[q] \o out /\ chan'[p] = chan[p]
      /\ got' = got
  BY <1>1 DEF Install, IInv, FramesTyped
<1>3. ASSUME NEW r \in Nat, Line(con[q], chan[p], got[p], con[p], sent[q], r)
      PROVE  Line(con[q], chan'[p], got'[p], i, sent[q], r)
  BY <1>2, <1>3, LineQuiet
<1>. HIDE DEF q
<1>. QED BY <1>1, <1>2, <1>3, StepKeepsOrder DEF q

LEMMA InitConKeepsOrder == ASSUME IInv, OrderInv, NEW p \in Node, initCon(p) PROVE OrderInv'
<1>1. PICK ok \in BOOLEAN :
        /\ con[p].st = "Idle" /\ Refusable(ok)
        /\ LET k == [con[p] EXCEPT !.used = 1, !.recv = [n |-> 0, c |-> 1],
                                   !.send = [n |-> 0, c |-> 0]]
           IN  Install(p, IF ok THEN [k EXCEPT !.st = "Init1", !.timer = 1] ELSE k,
                       Sends(Header(k, None), ok))
  BY DEF initCon
<1>2. UNCHANGED <<sent, got, unkept>>
  BY DEF initCon
<1>. DEFINE m == sent[p]
            k == [con[p] EXCEPT !.used = 1, !.recv = [n |-> 0, c |-> 1], !.send = [n |-> 0, c |-> 0]]
            j == IF ok THEN [k EXCEPT !.st = "Init1", !.timer = 1] ELSE k
            out == Sends(Header(k, None), ok)
<1>3. m \in Nat /\ con[p] \in ConUpTo(m) /\ None \in 0..m
  BY SMT DEF IInv, CountsTyped, RecordsTyped, None
<1>4. [n |-> 0, c |-> 1] \in Con /\ [n |-> 0, c |-> 0] \in Con
  BY Sizes, SMT DEF Con
<1>5. k \in ConUpTo(m) /\ k.st = "Idle"
  BY <1>1, <1>3, <1>4 DEF ConUpTo
<1>6. j \in ConUpTo(m) /\ ~Opened(j) /\ ~Greeting(j)
  <2>. HIDE DEF k
  <2>. QED BY <1>5 DEF ConUpTo, Opened, Greeting, States
<1>7. out \in Seq(FrameUpTo(m))
  <2>. HIDE DEF k
  <2>. QED BY <1>3, <1>5, FramesOfRecord, Sequences
<1>8. \A i \in 1..Len(out) : out[i].data = None
  <2>. DEFINE f == Header(k, None)
  <2>1. f.data = None
    BY DEF Header
  <2>2. out \in {<<>>, <<f>>}
    BY DEF Sends
  <2>. HIDE DEF f, out
  <2>3. 1..Len(<<>>) = {}
    BY SMT
  <2>. QED BY <2>1, <2>2, <2>3, OneFrame
<1>9. Install(p, j, out)
  BY <1>1
<1>. HIDE DEF j, out
<1>10. Sound(con[p], j, out) /\ Quiet(con[p], j)
  BY <1>6, <1>8, WipedSound DEF Quiet
<1>11. fault.refused \in Nat /\ fault'.refused \in Nat /\ fault.refused <= fault'.refused
  BY <1>1, RefusableGrows
<1>. QED BY <1>2, <1>6, <1>7, <1>9, <1>10, <1>11, InstallKeepsOrder

LEMMA ReceiveKeepsOrder == ASSUME IInv, OrderInv, NEW p \in Node, receiveCb(p) PROVE OrderInv'
<1>. DEFINE m == sent[p]
            q == Peer(p)
            d == sent[q]
            f == Head(chan[p])
            k == Acknowledge(con[p], f)
            Body(ok, j, r) ==
              /\ Refusable(ok)
              /\ con' = [con EXCEPT ![p] = r.con]
              /\ chan' = [chan EXCEPT ![p] = Tail(@), ![Peer(p)] = @ \o r.out]
              /\ Deliver(p, r.data)
<1>1. PICK ok \in BOOLEAN : Body(ok, k, Result(k, f, ok))
  <2>1. \E ok \in BOOLEAN, g \in {Head(chan[p])} :
        \E j \in {Acknowledge(con[p], g)} : \E r \in {Result(j, g, ok)} : Body(ok, j, r)
    BY Zenon DEF receiveCb
  <2>. HIDE DEF Body
  <2>. QED BY <2>1
<1>2. chan[p] # <<>> /\ UNCHANGED <<sent, unkept>>
  BY DEF receiveCb
<1>. DEFINE r == Result(k, f, ok)
<1>3. /\ q \in Node /\ q # p /\ m \in Nat /\ d \in Nat
      /\ con[p] \in ConUpTo(m) /\ con[q] \in ConUpTo(d)
      /\ chan[p] \in Seq(FrameUpTo(d)) /\ got[p] \in Seq(1..d)
  BY LineTypes
<1>4. f \in FrameUpTo(d)
  <2>. HIDE DEF d
  <2>. QED BY <1>2, <1>3, HeadTailProperties
<1>5. /\ Sound(con[p], r.con, r.out) /\ Taken(con[p], f, r.con, Handed(con[p], r))
      /\ r.con \in ConUpTo(m) /\ r.out \in Seq(FrameUpTo(m)) /\ r.data \in 0..d
  <2>1. Codes(con[p])
    BY DEF OrderInv, CodesKept
  <2>. HIDE DEF m, d, f
  <2>. QED BY <1>3, <1>4, <2>1, ReceiveHandled DEF f
<1>6. /\ Refusable(ok) /\ con' = [con EXCEPT ![p] = r.con]
      /\ chan' = [chan EXCEPT ![p] = Tail(@), ![Peer(p)] = @ \o r.out]
      /\ Deliver(p, r.data)
  BY <1>1
<1>. DEFINE x == Handed(con[p], r)
<1>. HIDE DEF r, k, f, m, d
<1>7. x \in 0..d
  BY <1>3, <1>5, SMT DEF Handed, None
<1>8. got' = [got EXCEPT ![p] = Heard(got[p], x)]
  <2>1. got \in [Node -> Seq(Nat)]
    BY DEF IInv, DeliveryTyped
  <2>2. got = [got EXCEPT ![p] = got[p]]
    BY <2>1
  <2>. QED BY <1>6, <2>2 DEF Deliver, Heard, Handed
<1>9. got'[p] = Heard(got[p], x) /\ got'[q] = got[q]
  BY <1>3, <1>8 DEF IInv, DeliveryTyped
<1>10. chan'[p] = Tail(chan[p]) /\ chan'[q] = chan[q] \o r.out
  <2>1. chan' = [[chan EXCEPT ![p] = Tail(chan[p])] EXCEPT ![q] = chan[q] \o r.out]
    BY <1>3, <1>6 DEF IInv, FramesTyped
  <2>. HIDE DEF q
  <2>. QED BY <1>3, <2>1 DEF IInv, FramesTyped
<1>. HIDE DEF x
<1>11. ASSUME NEW s \in Nat, Line(con[q], chan[p], got[p], con[p], d, s)
       PROVE  Line(con[q], chan'[p], got'[p], r.con, d, s)
  <2>1. Taken(con[p], Head(chan[p]), r.con, x)
    BY <1>5 DEF x, f
  <2>. HIDE DEF q
  <2>. QED BY <1>2, <1>3, <1>7, <1>9, <1>10, <1>11, <2>1, LineTaken
<1>12. fault.refused \in Nat /\ fault'.refused \in Nat /\ fault.refused <= fault'.refused
  BY <1>6, RefusableGrows
<1>. HIDE DEF q
<1>. QED BY <1>2, <1>3, <1>5, <1>6, <1>9, <1>10, <1>11, <1>12, StepKeepsOrder DEF q, m, d

LEMMA ProcessEventKeepsOrder == ASSUME IInv, OrderInv, NEW p \in Node, processEvent(p) PROVE OrderInv'
<1>. DEFINE m == sent[p]
            Body(ok, r) ==
              /\ IF \A q \in Node : chan[q] = <<>> /\ due[q] = 0 THEN Refusable(ok)
                 ELSE ok /\ Disturb("late")
              /\ Install(p, r.con, r.out)
<1>1. PICK ok \in BOOLEAN : Body(ok, Timeout(con[p], ok))
  <2>1. \E ok \in BOOLEAN : \E r \in {Timeout(con[p], ok)} : Body(ok, r)
    BY Zenon DEF processEvent
  <2>. HIDE DEF Body
  <2>. QED BY <2>1
<1>. DEFINE r == Timeout(con[p], ok)
<1>2. UNCHANGED <<sent, got, unkept>>
  BY DEF processEvent
<1>3. m \in Nat /\ con[p] \in ConUpTo(m) /\ Codes(con[p])
  BY DEF IInv, CountsTyped, RecordsTyped, OrderInv, CodesKept
<1>4. r.con \in ConUpTo(m) /\ r.out \in Seq(FrameUpTo(m))
  <2>. HIDE DEF m
  <2>1. Handles(con[p], r, m, 0)
    BY <1>3, TimeoutHandles
  <2>. HIDE DEF r
  <2>. QED BY <2>1 DEF Handles, Answer
<1>5. Sound(con[p], r.con, r.out) /\ Quiet(con[p], r.con)
  <2>. HIDE DEF m
  <2>. QED BY <1>3, TimeoutSound
<1>6. Install(p, r.con, r.out)
  BY <1>1
<1>7. fault.refused \in Nat /\ fault'.refused \in Nat /\ fault.refused <= fault'.refused
  <2>1. "late" \in Faults
    BY DEF Faults
  <2>2. Refusable(ok) \/ Disturb("late")
    BY <1>1
  <2>. QED BY <2>1, <2>2, RefusableGrows, RefusedGrows
<1>. HIDE DEF r
<1>. QED BY <1>2, <1>4, <1>5, <1>6, <1>7, InstallKeepsOrder

LEMMA SendAckKeepsOrder == ASSUME IInv, OrderInv, NEW p \in Node, sendAck(p) PROVE OrderInv'
<1>. DEFINE m == sent[p]
            k == [con[p] EXCEPT !.timer = 1]
            f == Header(con[p], None)
<1>1. PICK ok \in BOOLEAN :
        /\ Refusable(ok)
        /\ IF con[p].st = "Connected" THEN Install(p, k, Sends(f, ok)) ELSE UNCHANGED <<con, chan>>
  BY Zenon DEF sendAck
<1>. DEFINE j == IF con[p].st = "Connected" THEN k ELSE con[p]
            out == IF con[p].st = "Connected" THEN Sends(f, ok) ELSE <<>>
<1>2. UNCHANGED <<sent, got, unkept>>
  BY DEF sendAck
<1>3. m \in Nat /\ con[p] \in ConUpTo(m) /\ None \in 0..m /\ Codes(con[p])
  BY SMT DEF IInv, CountsTyped, RecordsTyped, None, OrderInv, CodesKept
<1>4. /\ j \in ConUpTo(m) /\ j.hist = con[p].hist /\ j.recv = con[p].recv /\ j.st = con[p].st
      /\ j.send = con[p].send
  BY <1>3 DEF ConUpTo
<1>5. out \in Seq(FrameUpTo(m))
  BY <1>3, FramesOfRecord, Sequences
<1>6. Sound(con[p], j, out)
  <2>1. Codes(j) /\ Stays(con[p], j)
    <3>. HIDE DEF j, m
    <3>1. Codes(j)
      BY <1>3, <1>4 DEF Codes, Opened
    <3>. QED BY <1>3, <1>4, <3>1, SameHistoryStays DEF Opened
  <2>2. f.scon = con[p].recv /\ f.data = None
    BY DEF Header
  <2>3. out = <<>> \/ (out = <<f>> /\ Opened(j))
    <3>. HIDE DEF f
    <3>. QED BY <1>4 DEF Sends, Opened
  <2>4. 1..Len(<<>>) = {}
    BY SMT
  <2>. HIDE DEF j, out, f
  <2>5. Emits(j, out)
    BY <1>4, <2>2, <2>3, <2>4, OneFrame DEF Emits
  <2>. QED BY <2>1, <2>5 DEF Sound
<1>7. Quiet(con[p], j)
  <2>. HIDE DEF j
  <2>. QED BY <1>4 DEF Quiet, Opened, Greeting
<1>8. Install(p, j, out)
  <2>1. CASE con[p].st = "Connected"
    BY <1>1, <2>1
  <2>2. CASE con[p].st # "Connected"
    <3>1. con' = con /\ chan' = chan /\ j = con[p] /\ out = <<>>
      BY <1>1, <2>2
    <3>2. \A s \in Seq(FrameUpTo(m)) : s \o <<>> = s
      BY SMT
    <3>3. chan[Peer(p)] \o <<>> = chan[Peer(p)]
      BY <3>2, LineTypes
    <3>4. con = [con EXCEPT ![p] = con[p]]
          /\ chan = [chan EXCEPT ![Peer(p)] = chan[Peer(p)]]
      BY DEF IInv, RecordsTyped, FramesTyped
    <3>. HIDE DEF j, out
    <3>. QED BY <3>1, <3>3, <3>4 DEF Install
  <2>. QED BY <2>1, <2>2
<1>9. fault.refused \in Nat /\ fault'.refused \in Nat /\ fault.refused <= fault'.refused
  BY <1>1, RefusableGrows
<1>. HIDE DEF j, out
<1>. QED BY <1>2, <1>4, <1>5, <1>6, <1>7, <1>8, <1>9, InstallKeepsOrder

LEMMA DeleteConKeepsOrder == ASSUME IInv, OrderInv, NEW p \in Node, deleteCon(p) PROVE OrderInv'
<1>. DEFINE m == sent[p]
            k == Cleared(HistorySize)
            out == IF con[p].st = "Connected" THEN CloseFrame(con[p]) ELSE <<>>
<1>1. Disturb("closed") /\ Install(p, k, out) /\ UNCHANGED <<sent, got, unkept>>
  BY DEF deleteCon
<1>2. m \in Nat /\ con[p] \in ConUpTo(m) /\ 0 \in 0..m
  BY SMT DEF IInv, CountsTyped, RecordsTyped
<1>3. k \in ConUpTo(m) /\ ~Opened(k) /\ ~Greeting(k)
  BY <1>2, ClearedType, ClearedClosed
<1>4. out \in Seq(FrameUpTo(m))
  BY <1>2, FramesOfRecord, Sequences
<1>5. \A i \in 1..Len(out) : out[i].data = None
  <2>. DEFINE f == Header(Closing(con[p]), None)
  <2>1. f.data = None
    BY DEF Header
  <2>2. out \in {<<>>, <<f>>}
    BY DEF CloseFrame
  <2>. HIDE DEF f, out
  <2>3. 1..Len(<<>>) = {}
    BY SMT
  <2>. QED BY <2>1, <2>2, <2>3, OneFrame
<1>6. fault.refused \in Nat /\ fault'.refused \in Nat /\ fault.refused <= fault'.refused
  <2>1. "closed" \in Faults
    BY DEF Faults
  <2>. QED BY <1>1, <2>1, RefusedGrows
<1>. HIDE DEF k, out
<1>7. Sound(con[p], k, out) /\ Quiet(con[p], k)
  BY <1>3, <1>5, WipedSound DEF Quiet
<1>. QED BY <1>1, <1>3, <1>4, <1>6, <1>7, InstallKeepsOrder

LEMMA LoseKeepsOrder == ASSUME IInv, OrderInv, NEW p \in Node, Lose(p) PROVE OrderInv'
<1>. DEFINE q == Peer(p)
<1>1. /\ chan[p] # <<>> /\ Disturb("lost") /\ chan' = [chan EXCEPT ![p] = Tail(chan[p])]
      /\ UNCHANGED <<con, sent, got, unkept>>
  BY DEF Lose
<1>2. /\ q \in Node /\ q # p /\ sent[p] \in Nat /\ sent[q] \in Nat
      /\ con[p] \in ConUpTo(sent[p]) /\ con[q] \in ConUpTo(sent[q])
      /\ chan[p] \in Seq(FrameUpTo(sent[q])) /\ chan[q] \in Seq(FrameUpTo(sent[p]))
      /\ got[p] \in Seq(1..sent[q])
  BY LineTypes
<1>. HIDE DEF q
<1>3. <<>> \in Seq(FrameUpTo(sent[p])) /\ chan[q] \o <<>> = chan[q]
  <2>1. \A s \in Seq(FrameUpTo(sent[p])) : s \o <<>> = s
    BY SMT
  <2>. QED BY <1>2, <2>1, Sequences
<1>4. chan'[p] = Tail(chan[p]) /\ chan'[q] = chan[q] \o <<>> /\ got'[p] = got[p] /\ got'[q] = got[q]
  BY <1>1, <1>2, <1>3 DEF IInv, FramesTyped
<1>5. Sound(con[p], con[p], <<>>)
  <2>1. Codes(con[p])
    BY DEF OrderInv, CodesKept
  <2>2. Stays(con[p], con[p])
    BY <1>2, SameHistoryStays
  <2>3. 1..Len(<<>>) = {}
    BY SMT
  <2>. QED BY <2>1, <2>2, <2>3 DEF Sound, Emits
<1>6. con' = [con EXCEPT ![p] = con[p]]
  BY <1>1 DEF IInv, RecordsTyped
<1>7. ASSUME NEW r \in Nat, Line(con[q], chan[p], got[p], con[p], sent[q], r)
      PROVE  Line(con[q], chan'[p], got'[p], con[p], sent[q], r)
  <2>1. Taken(con[p], Head(chan[p]), con[p], None)
    BY DEF Taken
  <2>2. None \in 0..sent[q]
    BY <1>2, SMT DEF None
  <2>3. Line(con[q], Tail(chan[p]), Heard(got[p], None), con[p], sent[q], r)
    BY <1>1, <1>2, <1>7, <2>1, <2>2, LineTaken
  <2>. QED BY <1>4, <2>3 DEF Heard
<1>8. fault.refused \in Nat /\ fault'.refused \in Nat /\ fault.refused <= fault'.refused
  <2>1. "lost" \in Faults
    BY DEF Faults
  <2>. QED BY <1>1, <2>1, RefusedGrows
<1>. QED BY <1>1, <1>2, <1>3, <1>4, <1>5, <1>6, <1>7, <1>8, StepKeepsOrder DEF q

LEMMA SendDataKeepsOrder == ASSUME IInv, OrderInv, NEW p \in Node, sendData(p) PROVE OrderInv'
<1>. DEFINE m == sent[p]
            q == Peer(p)
            Body(ok, r) ==
              /\ Refusable(ok) /\ Install(p, r.con, r.out)
              /\ unkept' = IF ok /\ con[p].hist.free = 0
                           THEN [unkept EXCEPT ![p] = @ \cup {sent[p] + 1}] ELSE unkept
<1>1. PICK ok \in BOOLEAN : Body(ok, ConnectedSend(con[p], m + 1, ok))
  <2>1. \E ok \in BOOLEAN : \E r \in {ConnectedSend(con[p], m + 1, ok)} : Body(ok, r)
    BY Zenon DEF sendData
  <2>. HIDE DEF Body, m
  <2>. QED BY <2>1
<1>. DEFINE r == ConnectedSend(con[p], m + 1, ok)
            s == fault'.refused
<1>2. con[p].st = "Connected" /\ sent' = [sent EXCEPT ![p] = sent[p] + 1] /\ got' = got
  BY DEF sendData
<1>3. /\ q \in Node /\ q # p /\ \A x \in Node : x = p \/ x = q
      /\ m \in Nat /\ sent[q] \in Nat
      /\ con[p] \in ConUpTo(m) /\ con[q] \in ConUpTo(sent[q])
      /\ chan[p] \in Seq(FrameUpTo(sent[q])) /\ chan[q] \in Seq(FrameUpTo(m))
      /\ got[p] \in Seq(1..sent[q]) /\ got[q] \in Seq(1..m)
      /\ Codes(con[p]) /\ Codes(con[q])
  BY LineTypes DEF OrderInv, CodesKept
<1>4. /\ con' = [con EXCEPT ![p] = r.con]
      /\ chan' = [chan EXCEPT ![q] = chan[q] \o r.out]
      /\ unkept' = IF ok /\ con[p].hist.free = 0
                   THEN [unkept EXCEPT ![p] = unkept[p] \cup {m + 1}] ELSE unkept
  BY <1>1 DEF Install
<1>5. /\ fault.refused \in Nat /\ s \in Nat /\ fault.refused <= s /\ s = Refusals(fault.refused, ok)
  BY <1>1, RefusableGrows
<1>6. /\ Codes(r.con) /\ r.con.send = con[p].send /\ Opened(r.con)
      /\ (ok => con[p].hist.free # 0)
           /\ Line(con[p], chan[q], got[q], con[q], m, fault.refused)
           => Line(r.con, chan[q] \o r.out, got[q], con[q], m + 1, Refusals(fault.refused, ok))
  <2>. HIDE DEF m, q
  <2>. QED BY <1>2, <1>3, <1>5, SendSound, LineData
<1>7. /\ con'[p] = r.con /\ con'[q] = con[q] /\ chan'[p] = chan[p] /\ chan'[q] = chan[q] \o r.out
      /\ sent'[p] = m + 1 /\ sent'[q] = sent[q]
  <2>1. sent \in [Node -> Nat] /\ con \in [Node -> Record] /\ chan \in [Node -> Seq(Frame)]
    BY DEF IInv, RecordsTyped, FramesTyped, CountsTyped
  <2>. HIDE DEF r, q
  <2>. QED BY <1>2, <1>3, <1>4, <2>1
<1>. HIDE DEF r, s, q, m
<1>8. /\ unkept'[p] = {} => unkept[p] = {} /\ (ok => con[p].hist.free # 0)
      /\ unkept'[q] = unkept[q]
  <2>1. unkept \in [Node -> SUBSET Nat]
    BY DEF IInv, OwnTyped
  <2>. QED BY <1>3, <1>4, <2>1
<1>9. ASSUME unkept'[p] = {} PROVE Line(con'[p], chan'[q], got'[q], con'[q], sent'[p], s)
  <2>1. Line(con[p], chan[q], got[q], con[q], m, fault.refused)
    BY <1>3, <1>8, <1>9 DEF OrderInv, LinesKept, m
  <2>. QED BY <1>2, <1>5, <1>6, <1>7, <1>8, <1>9, <2>1
<1>10. ASSUME unkept'[q] = {} PROVE Line(con'[q], chan'[p], got'[p], con'[p], sent'[q], s)
  <2>1. Line(con[q], chan[p], got[p], con[p], sent[q], fault.refused)
    BY <1>3, <1>8, <1>10 DEF OrderInv, LinesKept
  <2>2. Line(con[q], chan[p], got[p], con[p], sent[q], s)
    BY <1>3, <1>5, <2>1, LineRefused
  <2>3. Quiet(con[p], r.con)
    BY <1>2, <1>6 DEF Quiet, Opened, Greeting
  <2>. QED BY <1>2, <1>7, <2>2, <2>3, LineQuiet
<1>11. Codes(con'[p]) /\ Codes(con'[q])
  BY <1>3, <1>6, <1>7
<1>. QED BY <1>3, <1>9, <1>10, <1>11, OrderAfter, Zenon DEF s

LEMMA InitOrdered == Init => OrderInv
<1>. SUFFICES ASSUME Init PROVE OrderInv
  OBVIOUS
<1>. DEFINE k == Cleared(0)
<1>1. /\ \A p \in Node : /\ con[p] = k /\ chan[p] = <<>> /\ got[p] = <<>> /\ sent[p] = 0
      /\ fault.refused = 0
  BY DEF Init, Faults
<1>2. ~Opened(k) /\ k.st = "Idle"
  BY DEF Cleared, Opened
<1>. HIDE DEF k
<1>3. Line(k, <<>>, <<>>, k, 0, 0)
  <2>1. Repeatable(k, 0) = {}
    BY <1>2 DEF Repeatable
  <2>. DEFINE L == [i \in 1..0 |-> 0]
  <2>2. L \in [1..0 -> 0..0] /\ Len(<<>>) = 0 /\ 1..0 = {} /\ DOMAIN <<>> = {}
    BY SMT
  <2>3. \A D : InOrder(<<>>, L, <<>>, k, {}, D) /\ Labels(<<>>, L)
    <3>. HIDE DEF L
    <3>. QED BY <2>2 DEF InOrder, Labels, Increasing
  <2>. HIDE DEF L
  <2>4. \A D : Ordered(<<>>, <<>>, k, {}, 0, D)
    BY <2>2, <2>3 DEF Ordered
  <2>. QED BY <1>2, <2>1, <2>4 DEF Line
<1>4. Codes(k)
  BY <1>2 DEF Codes
<1>. QED BY <1>1, <1>3, <1>4 DEF OrderInv, CodesKept, LinesKept

LEMMA NextKeepsOrder == IInv /\ OrderInv /\ [Next]_vars => OrderInv'
<1>. SUFFICES ASSUME IInv, OrderInv, [Next]_vars PROVE OrderInv'
  OBVIOUS
<1>1. ASSUME NEW p \in Node, initCon(p) PROVE OrderInv'
  BY <1>1, InitConKeepsOrder
<1>2. ASSUME NEW p \in Node, receiveCb(p) PROVE OrderInv'
  BY <1>2, ReceiveKeepsOrder
<1>3. ASSUME NEW p \in Node, processEvent(p) PROVE OrderInv'
  BY <1>3, ProcessEventKeepsOrder
<1>4. ASSUME NEW p \in Node, sendData(p) PROVE OrderInv'
  BY <1>4, SendDataKeepsOrder
<1>5. ASSUME NEW p \in Node, sendAck(p) PROVE OrderInv'
  BY <1>5, SendAckKeepsOrder
<1>6. ASSUME NEW p \in Node, deleteCon(p) PROVE OrderInv'
  BY <1>6, DeleteConKeepsOrder
<1>7. ASSUME NEW p \in Node, Lose(p) PROVE OrderInv'
  BY <1>7, LoseKeepsOrder
<1>8. CASE UNCHANGED vars
  <2>1. con' = con /\ chan' = chan /\ got' = got /\ sent' = sent /\ unkept' = unkept /\ fault' = fault
    BY <1>8 DEF vars
  <2>. QED BY <2>1, OrderAfter, Zenon DEF OrderInv, CodesKept, LinesKept
<1>. QED BY <1>1, <1>2, <1>3, <1>4, <1>5, <1>6, <1>7, <1>8 DEF Next

LEMMA OrderImplies == IInv /\ OrderInv => DeliveredInOrder
<1>. SUFFICES ASSUME IInv, OrderInv, NEW p \in Node, unkept[Peer(p)] = {},
                     fault.refused + HistorySize < SeqMod
     PROVE  Increasing(got[p])
  BY DEF DeliveredInOrder
<1>. DEFINE q == Peer(p)
<1>1. q \in Node /\ q # p
  BY LineTypes
<1>2. HistorySize + fault.refused < SeqMod
  <2>1. fault \in [Faults -> 0..MaxFault] /\ MaxFault \in Nat /\ "refused" \in Faults
    BY BoundAssumption DEF IInv, CountsTyped, Faults
  <2>2. fault.refused \in Nat
    BY <2>1, SMT
  <2>. QED BY <2>2, Sizes, SMT
<1>3. Line(con[q], chan[p], got[p], con[p], sent[q], fault.refused)
  BY <1>1 DEF OrderInv, LinesKept
<1>. QED BY <1>2, <1>3 DEF Line, Ordered, InOrder

(* Data reaches the command layer at most once and in the order it was     *)
(* sent, for every size of the history and range of numbers, whatever is   *)
(* lost, late, repeated, closed or opened again, until a frame was sent    *)
(* without a copy or SeqMod - HistorySize frames have been refused.        *)
THEOREM DataComesInOrder == Spec => []DeliveredInOrder
<1>1. Init => IInv /\ OrderInv
  BY InitHolds, InitOrdered
<1>2. IInv /\ OrderInv /\ [Next]_vars => IInv' /\ OrderInv'
  BY NextKeeps, NextKeepsOrder
<1>3. IInv /\ OrderInv => DeliveredInOrder
  BY OrderImplies
<1>. QED BY <1>1, <1>2, <1>3, PTL DEF Spec

-----------------------------------------------------------------------------
(* Within one connection and without a lost or refused frame: an           *)
(* acknowledgement swallows no data.  Frames are told apart by their       *)
(* connection codes.                                                       *)
Coded(f, s, r) == f.scon.c = s /\ f.rcon.c = r
Bye(f) == Coded(f, 0, 0)
Hello(f) == Coded(f, 1, 0)
Reply(f) == Coded(f, 1, 1)
Finish(f) == Coded(f, 2, 1)
Datum(f) == f.scon.c \in {2, 3} /\ f.rcon.c \in {2, 3}
AtZero(f) == f.scon.n = 0 /\ f.rcon.n = 0
Opening(f) == Coded(f, 2, 2) /\ AtZero(f)

(* What is said of the numbers of a node that has sent m frames: its own   *)
(* are those of its data, and the numbers of the peer it has seen, which   *)
(* its record, its ring and its frames on the way acknowledge, are in H.   *)
Carries(f, m, H) ==
    /\ Datum(f) /\ f.rcon.c = 2 /\ f.data = f.scon.n
    /\ f.scon.n <= m /\ f.rcon.n \in H
Grounded(k, m, H) ==
    /\ Opened(k) => k.recv.n = m /\ k.send.c = 2 /\ k.send.n \in H
    /\ \A i \in Ring : k.hist.fr[i].data # None => Opened(k) /\ Carries(k.hist.fr[i], m, H)
Worded(f, m, H) == f.scon.n <= m /\ f.rcon.n \in H /\ (f.rcon.c = 3 => f.data = None)
Talks(out, m, H) == \A i \in 1..Len(out) : Datum(out[i]) /\ Worded(out[i], m, H)
Says(c, m, H) == \A i \in 1..Len(c) : Datum(c[i]) => Worded(c[i], m, H)

LEMMA GroundedMore ==
    ASSUME NEW k, NEW m, NEW H, NEW G, H \subseteq G, Grounded(k, m, H)
    PROVE  Grounded(k, m, G)
BY DEF Grounded, Carries

LEMMA TalksOne ==
    ASSUME NEW m, NEW H, NEW f, Datum(f), Worded(f, m, H)
    PROVE  Talks(<<>>, m, H) /\ Talks(<<f>>, m, H)
<1>1. 1..Len(<<>>) = {}
  BY SMT
<1>. QED BY <1>1, OneFrame DEF Talks

LEMMA TalksBoth ==
    ASSUME NEW n \in Nat, NEW m, NEW H, NEW s \in Seq(FrameUpTo(n)), NEW t \in Seq(FrameUpTo(n)),
           Talks(s, m, H), Talks(t, m, H)
    PROVE  Talks(s \o t, m, H)
<1>1. /\ Len(s \o t) = Len(s) + Len(t) /\ Len(s) \in Nat /\ Len(t) \in Nat
      /\ \A i \in 1..Len(s) : (s \o t)[i] = s[i]
      /\ \A i \in Len(s)+1..Len(s)+Len(t) : (s \o t)[i] = t[i - Len(s)]
  BY ConcatProperties, LenProperties
<1>2. ASSUME NEW i \in 1..Len(s \o t) PROVE Datum((s \o t)[i]) /\ Worded((s \o t)[i], m, H)
  <2>1. CASE i <= Len(s)
    <3>1. i \in 1..Len(s)
      BY <1>1, <2>1, SMT
    <3>. QED BY <1>1, <3>1 DEF Talks
  <2>2. CASE ~(i <= Len(s))
    <3>1. i \in Len(s)+1..Len(s)+Len(t) /\ i - Len(s) \in 1..Len(t)
      BY <1>1, <2>2, SMT
    <3>. QED BY <1>1, <3>1 DEF Talks
  <2>. QED BY <2>1, <2>2
<1>. QED BY <1>2 DEF Talks

(* The frames of the ring that are sent again hold data.                   *)
LEMMA KeptTalks ==
    ASSUME NEW m \in Nat, NEW H, NEW k \in ConUpTo(m), Grounded(k, m, H)
    PROVE  /\ Talks(Kept(k.hist), m, H)
           /\ Kept(k.hist) # <<>> => Opened(k) /\ Carries(k.hist.fr[k.hist.a], m, H)
<1>. DEFINE h == k.hist
            n == ReadTo(h)
<1>1. h \in Hist(m) /\ h.a \in Ring
  BY DEF ConUpTo, Hist
<1>2. n \in 0..HistorySize-1 /\ \A i \in 0..n-1 : Entry(h, i).data # None
  <2>. HIDE DEF h
  <2>. QED BY <1>1, ReadToType, Sizes, SMT
<1>. HIDE DEF n, h
<1>3. ASSUME NEW i \in 0..n-1
      PROVE  Opened(k) /\ Carries(Entry(h, i), m, H)
  <2>1. i \in 0..HistorySize
    BY <1>2, Sizes, SMT
  <2>2. (h.a + i) % HistorySize \in Ring
    BY <1>1, <2>1, Slots
  <2>3. Entry(h, i) = h.fr[(h.a + i) % HistorySize]
    BY DEF Entry
  <2>4. \A x \in Ring : h.fr[x].data # None => Opened(k) /\ Carries(h.fr[x], m, H)
    BY DEF Grounded, h
  <2>. QED BY <1>2, <2>2, <2>3, <2>4
<1>4. \A f : Carries(f, m, H) => Datum(f) /\ Worded(f, m, H)
  BY DEF Carries, Worded
<1>5. CASE Kept(h) = <<>>
  <2>1. 1..Len(<<>>) = {}
    BY SMT
  <2>. QED BY <1>5, <2>1 DEF Talks, h
<1>6. CASE Kept(h) # <<>>
  <2>1. Kept(h) = [i \in 1..n |-> Entry(h, i - 1)]
    BY <1>6 DEF Kept, n
  <2>2. Len(Kept(h)) = n /\ \A i \in 1..n : Kept(h)[i] = Entry(h, i - 1) /\ i - 1 \in 0..n-1
    BY <1>2, <2>1, Sizes, SMT
  <2>3. Talks(Kept(h), m, H)
    BY <1>3, <1>4, <2>2 DEF Talks
  <2>4. 0 \in 0..n-1 /\ h.a + 0 = h.a
    <3>1. n # 0
      BY <1>6, <2>1, <2>2, <1>2, SMT
    <3>. QED BY <1>1, <1>2, <3>1, Sizes, SMT DEF Ring
  <2>5. Entry(h, 0) = h.fr[h.a]
    <3>1. \A x \in 0..HistorySize-1 : x % HistorySize = x
      BY Sizes, SMT
    <3>. QED BY <1>1, <2>4, <3>1 DEF Entry, Ring
  <2>. QED BY <1>3, <2>3, <2>4, <2>5 DEF h
<1>. QED BY <1>5, <1>6

(* State Connected: the number of the peer moves on by one or not at all.  *)
LEMMA ConnectedTalks ==
    ASSUME NEW m \in Nat, NEW d \in Nat, NEW k \in ConUpTo(m), k.st = "Connected", Codes(k),
           NEW f \in FrameUpTo(d), NEW H, NEW G, H \subseteq G, Grounded(k, m, H), Datum(f),
           IsNext(k, f) => f.scon.n \in G
    PROVE  LET r == ConnectedFrame(k, f, TRUE)
           IN  /\ Opened(r.con) /\ Grounded(r.con, m, G) /\ Talks(r.out, m, G)
               /\ r.data = IF IsNext(k, f) THEN f.data ELSE None
               /\ r.con.send.n = IF IsNext(k, f) THEN f.scon.n ELSE k.send.n
               /\ r.con.hist = k.hist /\ r.again = FALSE
<1>. DEFINE resent == IF f.rcon.c = 3 THEN Kept(k.hist) ELSE <<>>
            send == IF IsNext(k, f) THEN [n |-> f.scon.n, c |-> 2]
                    ELSE IF IsLate(k, f) THEN [k.send EXCEPT !.c = 2] ELSE k.send
            k1 == [k EXCEPT !.timer = 1, !.send = send]
            errorAck == [Header(k, None) EXCEPT !.rcon.c = 3]
            answer == IF IsLate(k, f) THEN <<errorAck>>
                      ELSE IF f.scon.c = 3 THEN <<Header(k1, None)>> ELSE <<>>
            out == resent \o IF resent = <<>> /\ ~TRUE THEN <<>> ELSE answer
            x == IF IsNext(k, f) THEN f.data ELSE None
            r == ConnectedFrame(k, f, TRUE)
<1>1. /\ f.scon \in Con /\ f.rcon \in Con /\ f.scon.c \in {2, 3} /\ Opened(k)
      /\ k.recv \in Con /\ k.send \in Con /\ k.hist \in Hist(m)
      /\ k.recv.c \in {2, 3} /\ k.recv.n = m /\ k.send.c = 2 /\ k.send.n \in H
  BY DEF FrameUpTo, Opened, Con, ConUpTo, Datum, Grounded, Codes
<1>2. send \in Con /\ send.c = 2 /\ send.n = IF IsNext(k, f) THEN f.scon.n ELSE k.send.n
  BY <1>1 DEF Con
<1>3. /\ k1 \in ConUpTo(m) /\ k1.hist = k.hist /\ k1.recv = k.recv /\ k1.st = "Connected"
      /\ k1.send = send
  <2>. HIDE DEF send
  <2>. QED BY <1>2 DEF ConUpTo
<1>4. r = [Done(k1, out) EXCEPT !.data = x]
  BY <1>1, SMT DEF ConnectedFrame
<1>. HIDE DEF send, k1, r, x
<1>5. Grounded(k, m, G)
  BY GroundedMore
<1>6. Opened(k1) /\ Grounded(k1, m, G)
  BY <1>1, <1>2, <1>3, <1>5 DEF Opened, Grounded
<1>7. Talks(resent, m, G) /\ resent \in Seq(FrameUpTo(m))
  <2>1. 1..Len(<<>>) = {}
    BY SMT
  <2>2. Talks(<<>>, m, G)
    BY <2>1 DEF Talks
  <2>. QED BY <1>1, <1>5, <2>2, KeptTalks, KeptType, Sequences
<1>8. Talks(answer, m, G) /\ answer \in Seq(FrameUpTo(m))
  <2>. DEFINE g == Header(k1, None)
  <2>1. None \in 0..m
    BY SMT DEF None
  <2>2. Header(k, None) \in FrameUpTo(m) /\ g \in FrameUpTo(m)
    BY <1>3, <2>1, FramesOfRecord
  <2>3. errorAck \in FrameUpTo(m)
    BY <2>2 DEF FrameUpTo, Con
  <2>4. /\ errorAck.scon = k.recv /\ errorAck.rcon.n = k.send.n /\ errorAck.rcon.c = 3
        /\ errorAck.data = None
    BY <1>1 DEF Header, Con
  <2>5. g.scon = k.recv /\ g.rcon = send /\ g.data = None
    BY <1>3 DEF Header
  <2>. HIDE DEF errorAck, g
  <2>6. Datum(errorAck) /\ Worded(errorAck, m, G)
    BY <1>1, <2>4, SMT DEF Datum, Worded
  <2>7. Datum(g) /\ Worded(g, m, G)
    BY <1>1, <1>2, <2>5, SMT DEF Datum, Worded
  <2>8. Talks(<<>>, m, G) /\ Talks(<<errorAck>>, m, G) /\ Talks(<<g>>, m, G)
    BY <2>6, <2>7, TalksOne
  <2>. QED BY <2>2, <2>3, <2>8, Sequences DEF g
<1>. HIDE DEF resent, answer
<1>9. Talks(out, m, G)
  BY <1>7, <1>8, TalksBoth
<1>. HIDE DEF out
<1>10. r.con = k1 /\ r.out = out /\ r.data = x /\ r.again = FALSE
  BY <1>4 DEF Done
<1>. QED BY <1>2, <1>3, <1>6, <1>9, <1>10 DEF r, x

(* State WaitAck: the numbers stay, and only data taken there is handed    *)
(* over.                                                                   *)
LEMMA WaitAckTalks ==
    ASSUME NEW m \in Nat, NEW d \in Nat, NEW k \in ConUpTo(m), k.st = "WaitAck", Codes(k),
           NEW f \in FrameUpTo(d), NEW H, Grounded(k, m, H), Datum(f)
    PROVE  LET r == WaitAckFrame(k, f, TRUE)
           IN  /\ Opened(r.con) /\ Grounded(r.con, m, H) /\ Talks(r.out, m, H)
               /\ r.data = IF f.rcon.c = 2 THEN f.data ELSE None
               /\ r.con.send = k.send /\ r.con.hist = k.hist /\ r.again = FALSE
<1>. DEFINE k1 == [k EXCEPT !.timer = 1]
            connected == [k1 EXCEPT !.st = "Connected"]
            r == WaitAckFrame(k, f, TRUE)
<1>1. Opened(k) /\ k.recv.c = 2 /\ f.rcon.c \in {2, 3}
  BY DEF Opened, Codes, Datum
<1>2. /\ k1.hist = k.hist /\ k1.recv = k.recv /\ k1.send = k.send /\ k1.st = k.st
      /\ connected.hist = k.hist /\ connected.recv = k.recv /\ connected.send = k.send
      /\ connected.st = "Connected"
  BY DEF ConUpTo
<1>3. r = IF f.rcon.c = 2 THEN [Done(connected, <<>>) EXCEPT !.data = f.data]
          ELSE Done(k1, Kept(k.hist))
  BY <1>1, SMT DEF WaitAckFrame
<1>. HIDE DEF r, k1, connected
<1>4. Opened(k1) /\ Opened(connected) /\ Grounded(k1, m, H) /\ Grounded(connected, m, H)
  BY <1>1, <1>2 DEF Opened, Grounded
<1>5. Talks(<<>>, m, H) /\ Talks(Kept(k.hist), m, H)
  <2>1. 1..Len(<<>>) = {}
    BY SMT
  <2>. QED BY <2>1, KeptTalks DEF Talks
<1>6. /\ r.con = IF f.rcon.c = 2 THEN connected ELSE k1
      /\ r.out = IF f.rcon.c = 2 THEN <<>> ELSE Kept(k.hist)
      /\ r.data = IF f.rcon.c = 2 THEN f.data ELSE None
      /\ r.again = FALSE
  BY <1>3 DEF Done
<1>. QED BY <1>2, <1>4, <1>5, <1>6 DEF r

(* What a node leaves that closes its connection, or has none.             *)
Closes(r) == /\ r.con.st = "Idle" /\ r.again = FALSE /\ r.data = None
             /\ \A i \in Ring : r.con.hist.fr[i].data = None
             /\ \A i \in 1..Len(r.out) : Bye(r.out[i])

LEMMA ClearedHoldsNothing ==
    /\ Cleared(HistorySize).st = "Idle"
    /\ \A i \in Ring : Cleared(HistorySize).hist.fr[i].data = None
BY DEF Cleared, History0, NoFrame

LEMMA ByeCloses ==
    ASSUME NEW f, Bye(f)
    PROVE  Closes(Wiped(<<f>>)) /\ Closes(Wiped(<<>>))
<1>. DEFINE c == Cleared(HistorySize)
<1>1. Wiped(<<f>>) = Done(c, <<f>>) /\ Wiped(<<>>) = Done(c, <<>>)
  BY DEF Wiped
<1>. HIDE DEF c
<1>2. 1..Len(<<>>) = {}
  BY SMT
<1>. QED BY <1>1, <1>2, ClearedHoldsNothing, OneFrame DEF Closes, Done, c

LEMMA WipedCloses == Closes(Wiped(<<>>))
<1>. DEFINE f == NoFrame
<1>1. Bye(f)
  BY DEF Bye, Coded, NoFrame
<1>. HIDE DEF f
<1>. QED BY <1>1, ByeCloses

LEMMA CloseFrameIsBye ==
    ASSUME NEW m \in Nat, NEW k \in ConUpTo(m)
    PROVE  Bye(Header(Closing(k), None))
<1>1. k.recv \in Con /\ k.send \in Con
  BY DEF ConUpTo
<1>2. Masked(k.recv).c = 0 /\ Masked(k.send).c = 0
  BY <1>1 DEF Masked, Con
<1>3. Closing(k).recv = Masked(k.recv) /\ Closing(k).send = Masked(k.send)
  BY DEF Closing, ConUpTo
<1>. QED BY <1>2, <1>3 DEF Header, Bye, Coded

(* A frame of the peer that closes the connection.                         *)
LEMMA ByeIsTaken ==
    ASSUME NEW m \in Nat, NEW k \in ConUpTo(m), NEW f, Bye(f)
    PROVE  Closes(FrameRec(k, f, TRUE))
<1>1. f.scon.c = 0 /\ f.rcon.c = 0
  BY DEF Bye, Coded
<1>2. CASE k.st = "Connected"
  <2>1. FrameRec(k, f, TRUE) = Wiped(<<>>)
    BY <1>1, <1>2, SMT DEF FrameRec, ConnectedFrame
  <2>. QED BY <2>1, WipedCloses
<1>3. CASE k.st = "WaitAck"
  <2>1. FrameRec(k, f, TRUE) = Wiped(<<>>)
    BY <1>1, <1>3 DEF FrameRec, WaitAckFrame
  <2>. QED BY <2>1, WipedCloses
<1>4. CASE k.st # "Connected" /\ k.st # "WaitAck"
  <2>1. InitNext(k.st, f) = "Error"
    BY <1>1, SMT DEF InitNext
  <2>2. FrameRec(k, f, TRUE) = InitFrame(k, f, TRUE)
    BY <1>4 DEF FrameRec
  <2>3. InitFrame(k, f, TRUE) = Wiped(<<>>)
    BY <1>1, <2>1 DEF InitFrame
  <2>. QED BY <2>2, <2>3, WipedCloses
<1>. QED BY <1>2, <1>3, <1>4

(* A frame that state Idle does not wait for.                              *)
LEMMA IdleAnswersBye ==
    ASSUME NEW m \in Nat, NEW d \in Nat, NEW k \in ConUpTo(m), k.st = "Idle",
           NEW f \in FrameUpTo(d), ~Hello(f)
    PROVE  Closes(FrameRec(k, f, TRUE))
<1>. DEFINE bye == [scon |-> Masked(f.rcon), rcon |-> Masked(f.scon), data |-> None]
<1>1. InitNext(k.st, f) = "Error"
  BY SMT DEF InitNext, Hello, Coded
<1>2. FrameRec(k, f, TRUE) = InitFrame(k, f, TRUE)
  BY DEF FrameRec
<1>3. InitFrame(k, f, TRUE) \in {Wiped(<<bye>>), Wiped(<<>>)}
  BY <1>1 DEF InitFrame
<1>4. Bye(bye)
  BY DEF Bye, Coded, Masked, FrameUpTo, Con
<1>. HIDE DEF bye
<1>. QED BY <1>2, <1>3, <1>4, ByeCloses

(* A frame of the handshake that state k.st waits for.                     *)
Greets(st, f, next) ==
    \/ st = "Idle"  /\ Hello(f)  /\ next = "Init2"
    \/ st = "Init1" /\ Reply(f)  /\ next = "Init3"
    \/ st = "Init2" /\ Finish(f) /\ next = "Connected"
Answers(next, g) ==
    \/ next = "Init2" /\ Reply(g)
    \/ next = "Init3" /\ Finish(g)
    \/ next = "Connected" /\ Opening(g)

LEMMA GreetingAnswered ==
    ASSUME NEW m \in Nat, NEW d \in Nat, NEW k \in ConUpTo(m), NEW f \in FrameUpTo(d),
           NEW next, Greets(k.st, f, next), AtZero(f),
           \A i \in Ring : k.hist.fr[i].data = None
    PROVE  LET r == FrameRec(k, f, TRUE)
           IN  /\ r.con.st = next /\ r.data = None /\ r.again = FALSE
               /\ r.con.recv.n = 0 /\ r.con.send.n = 0
               /\ next = "Connected" => r.con.send.c = 2
               /\ \A i \in Ring : r.con.hist.fr[i].data = None
               /\ Len(r.out) = 1 /\ AtZero(r.out[1]) /\ Answers(next, r.out[1])
<1>. DEFINE nums == [k EXCEPT !.recv = Bumped(f.rcon), !.send = f.scon]
            hist == IF next = "Connected" THEN initHistory(k.hist) ELSE k.hist
            open == [nums EXCEPT !.st = next, !.timer = 1, !.hist = hist]
            g == Header(nums, None)
            r == FrameRec(k, f, TRUE)
<1>1. f.scon \in Con /\ f.rcon \in Con /\ k.hist \in Hist(m)
  BY DEF FrameUpTo, ConUpTo
<1>2. /\ nums.recv = Bumped(f.rcon) /\ nums.send = f.scon /\ nums.hist = k.hist
      /\ open.recv = Bumped(f.rcon) /\ open.send = f.scon /\ open.hist = hist /\ open.st = next
  BY DEF ConUpTo
<1>3. /\ Bumped(f.rcon).n = 0 /\ Bumped(f.rcon).c = f.rcon.c + 1
      /\ f.scon.n = 0
  BY <1>1 DEF Bumped, Con, AtZero
<1>4. InitNext(k.st, f) = next /\ ~(k.st = "Init3" /\ f.rcon.c = 2) /\ next # "Error"
  BY SMT DEF Greets, Hello, Reply, Finish, Coded, InitNext
<1>5. r = InitFrame(k, f, TRUE)
  BY DEF FrameRec, Greets
<1>6. r = Done([nums EXCEPT !.st = next, !.timer = 1,
                            !.hist = IF next = "Connected" THEN initHistory(@) ELSE @], <<g>>)
  BY <1>4, <1>5 DEF InitFrame
<1>7. [nums EXCEPT !.st = next, !.timer = 1,
                   !.hist = IF next = "Connected" THEN initHistory(@) ELSE @] = open
  BY <1>2 DEF ConUpTo
<1>8. \A i \in Ring : hist.fr[i].data = None
  <2>1. initHistory(k.hist).fr = k.hist.fr
    BY <1>1 DEF initHistory, Hist
  <2>. QED BY <2>1
<1>9. g.scon = Bumped(f.rcon) /\ g.rcon = f.scon
  BY <1>2 DEF Header
<1>10. AtZero(g) /\ Answers(next, g)
  <2>. HIDE DEF g, nums
  <2>. QED BY <1>3, <1>9, SMT DEF AtZero, Answers, Greets, Hello, Reply, Finish, Opening, Coded
<1>11. next = "Connected" => f.scon.c = 2
  BY DEF Greets, Finish, Coded
<1>. HIDE DEF nums, hist, open, g, r
<1>12. r.con = open /\ r.out = <<g>> /\ r.data = None /\ r.again = FALSE
  BY <1>6, <1>7 DEF Done
<1>13. Len(<<g>>) = 1 /\ <<g>>[1] = g
  BY SMT
<1>. QED BY <1>2, <1>3, <1>8, <1>10, <1>11, <1>12, <1>13 DEF r

(* The last frame of the handshake is not answered.                        *)
LEMMA OpeningTaken ==
    ASSUME NEW m \in Nat, NEW d \in Nat, NEW k \in ConUpTo(m), NEW f \in FrameUpTo(d),
           k.st = "Init3", Opening(f), \A i \in Ring : k.hist.fr[i].data = None
    PROVE  LET r == FrameRec(k, f, TRUE)
           IN  /\ r.con.st = "Connected" /\ r.data = None /\ r.again = FALSE
               /\ r.con.recv.n = 0 /\ r.con.send.n = 0 /\ r.con.send.c = 2
               /\ \A i \in Ring : r.con.hist.fr[i].data = None
               /\ r.out = <<>>
<1>. DEFINE nums == [k EXCEPT !.recv = f.rcon, !.send = f.scon]
            hist == initHistory(k.hist)
            open == [nums EXCEPT !.st = "Connected", !.timer = 1, !.hist = hist]
            r == FrameRec(k, f, TRUE)
<1>1. f.scon.c = 2 /\ f.rcon.c = 2 /\ f.scon.n = 0 /\ f.rcon.n = 0 /\ k.hist \in Hist(m)
  BY DEF Opening, Coded, AtZero, ConUpTo
<1>2. nums.hist = k.hist /\ open.recv = f.rcon /\ open.send = f.scon /\ open.hist = hist /\ open.st = "Connected"
  BY DEF ConUpTo
<1>3. InitNext(k.st, f) = "Connected"
  BY <1>1, SMT DEF InitNext
<1>4. r = InitFrame(k, f, TRUE)
  BY DEF FrameRec
<1>5. r = Done([nums EXCEPT !.st = "Connected", !.timer = 1, !.hist = initHistory(@)], <<>>)
  BY <1>1, <1>3, <1>4 DEF InitFrame
<1>6. [nums EXCEPT !.st = "Connected", !.timer = 1, !.hist = initHistory(@)] = open
  BY <1>2 DEF ConUpTo
<1>7. hist.fr = k.hist.fr
  BY <1>1 DEF initHistory, Hist
<1>. HIDE DEF nums, hist, open, r
<1>8. r.con = open /\ r.out = <<>> /\ r.data = None /\ r.again = FALSE
  BY <1>5, <1>6 DEF Done
<1>. QED BY <1>1, <1>2, <1>7, <1>8 DEF r

(* An expired timer closes the connection or, in state Connected, sends    *)
(* the oldest frame once more.                                             *)
LEMMA ConnectedTimeoutTalks ==
    ASSUME NEW m \in Nat, NEW k \in ConUpTo(m), k.st = "Connected", Codes(k),
           NEW H, Grounded(k, m, H)
    PROVE  LET r == ConnectedTimeout(k, TRUE)
           IN  \/ Closes(r)
               \/ /\ Opened(r.con) /\ Grounded(r.con, m, H) /\ Talks(r.out, m, H)
                  /\ r.con.send = k.send
<1>. DEFINE k1 == [k EXCEPT !.retry = @ + 1, !.timer = 1]
            a == k.hist.a
            e == [k.hist.fr[a] EXCEPT !.scon.c = 3]
            g == [k.hist EXCEPT !.fr[a].scon.c = 3]
            k2 == [k1 EXCEPT !.hist = g]
            r == ConnectedTimeout(k, TRUE)
<1>1. k.hist \in Hist(m) /\ Opened(k) /\ a \in Ring /\ k.hist.fr[a] \in FrameUpTo(m)
  BY DEF ConUpTo, Opened, Hist
<1>2. k1.hist = k.hist /\ k1.recv = k.recv /\ k1.st = k.st /\ k1.send = k.send
  BY DEF ConUpTo
<1>3. Talks(<<>>, m, H)
  <2>1. 1..Len(<<>>) = {}
    BY SMT
  <2>. QED BY <2>1 DEF Talks
<1>4. CASE ~(k.hist.free < HistorySize /\ k.retry < RetryCount)
  <2>1. r = Wiped(CloseFrame(k))
    BY <1>4 DEF ConnectedTimeout
  <2>. QED BY <2>1, CloseFrameIsBye, ByeCloses DEF CloseFrame
<1>5. CASE k.hist.free < HistorySize /\ k.retry < RetryCount /\ Kept(k.hist) = <<>>
  <2>1. r = Done(k1, <<>>)
    BY <1>5 DEF ConnectedTimeout
  <2>. HIDE DEF r, k1
  <2>2. r.con = k1 /\ r.out = <<>>
    BY <2>1 DEF Done
  <2>3. Opened(k1) /\ Grounded(k1, m, H)
    BY <1>1, <1>2 DEF Opened, Grounded
  <2>. QED BY <1>2, <1>3, <2>2, <2>3 DEF r
<1>6. CASE k.hist.free < HistorySize /\ k.retry < RetryCount /\ Kept(k.hist) # <<>>
  <2>. DEFINE k3 == [k1 EXCEPT !.hist.fr[a].scon.c = 3]
  <2>1. r = Done(k3, Sends(k3.hist.fr[a], TRUE))
    BY <1>6 DEF ConnectedTimeout
  <2>2. k3 = k2 /\ k2.hist = g /\ k2.recv = k.recv /\ k2.st = k.st /\ k2.send = k.send
    BY <1>2 DEF ConUpTo
  <2>3. g = [k.hist EXCEPT !.fr = [k.hist.fr EXCEPT ![a] = e]]
    BY <1>1 DEF Hist
  <2>4. /\ e.scon.c = 3 /\ e.scon.n = k.hist.fr[a].scon.n /\ e.rcon = k.hist.fr[a].rcon
        /\ e.data = k.hist.fr[a].data
    BY <1>1 DEF FrameUpTo, Con
  <2>5. Carries(k.hist.fr[a], m, H)
    BY <1>6, KeptTalks
  <2>. HIDE DEF e, g, k1, k2, k3, r
  <2>6. g.fr = [k.hist.fr EXCEPT ![a] = e] /\ k.hist.fr \in [Ring -> FrameUpTo(m)]
    BY <1>1, <2>3 DEF Hist
  <2>7. Carries(e, m, H)
    BY <2>4, <2>5 DEF Carries, Datum
  <2>8. Grounded(k2, m, H) /\ Opened(k2)
    <3>1. \A i \in Ring : g.fr[i] = IF i = a THEN e ELSE k.hist.fr[i]
      BY <2>6
    <3>. QED BY <1>1, <2>2, <2>7, <3>1 DEF Grounded, Opened
  <2>9. r.con = k2 /\ r.out = <<e>>
    <3>1. g.fr[a] = e
      BY <1>1, <2>6
    <3>. QED BY <2>1, <2>2, <3>1 DEF Done, Sends
  <2>10. Talks(<<e>>, m, H)
    BY <2>7, TalksOne DEF Carries, Worded
  <2>. QED BY <2>2, <2>8, <2>9, <2>10 DEF r
<1>. QED BY <1>4, <1>5, <1>6

LEMMA TimeoutTalks ==
    ASSUME NEW m \in Nat, NEW k \in ConUpTo(m), Codes(k), NEW H, Grounded(k, m, H)
    PROVE  LET r == Timeout(k, TRUE)
           IN  \/ Closes(r)
               \/ /\ Opened(k) /\ Opened(r.con) /\ Grounded(r.con, m, H) /\ Talks(r.out, m, H)
                  /\ r.con.send = k.send
<1>. DEFINE j == [k EXCEPT !.timer = 0]
            r == Timeout(k, TRUE)
<1>1. j \in ConUpTo(m) /\ j.hist = k.hist /\ j.recv = k.recv /\ j.st = k.st /\ j.send = k.send
  BY DEF ConUpTo
<1>. HIDE DEF j
<1>2. CASE k.st = "Idle"
  <2>1. r = Done(j, <<>>)
    BY <1>2 DEF Timeout, j
  <2>. HIDE DEF r
  <2>2. r.con = j /\ r.out = <<>> /\ r.data = None /\ r.again = FALSE
    BY <2>1 DEF Done
  <2>3. 1..Len(<<>>) = {} /\ ~Opened(k)
    BY <1>2, SMT DEF Opened
  <2>. QED BY <1>1, <1>2, <2>2, <2>3 DEF Closes, Grounded, r
<1>3. CASE k.st = "Connected"
  <2>1. r = ConnectedTimeout(j, TRUE)
    BY <1>3 DEF Timeout, j
  <2>2. Codes(j) /\ Grounded(j, m, H) /\ Opened(k)
    BY <1>1, <1>3 DEF Codes, Grounded, Opened
  <2>. QED BY <1>1, <1>3, <2>1, <2>2, ConnectedTimeoutTalks
<1>4. CASE k.st # "Idle" /\ k.st # "Connected"
  <2>1. r = Wiped(CloseFrame(k))
    BY <1>4 DEF Timeout
  <2>. QED BY <2>1, CloseFrameIsBye, ByeCloses DEF CloseFrame
<1>. QED BY <1>2, <1>3, <1>4

(* The entries an acknowledgement strikes all have a number it covers, and *)
(* the others stay as they are.                                            *)
LEMMA StruckAreAcked ==
    ASSUME NEW m \in Nat, NEW h \in Hist(m), NEW rn \in 0..SeqMod-1
    PROVE  LET g == deleteAckedFrameFromHistory(h, rn)
           IN  \A x \in Ring : \/ g.fr[x] = h.fr[x]
                               \/ /\ g.fr[x].data = None
                                  /\ Ahead(rn, h.fr[x].scon.n) < Threshold
<1>. DEFINE k == Released(h, rn)
            l == LastTurn(h, rn)
            g == deleteAckedFrameFromHistory(h, rn)
            freed == {(h.a + i) % HistorySize : i \in 0..k-1}
            fr == [i \in Ring |-> IF i \in freed THEN [h.fr[i] EXCEPT !.data = None] ELSE h.fr[i]]
            a == IF k > 0 /\ Acked(h, rn, l) THEN (h.a + k) % HistorySize ELSE h.a
<1>1. /\ h \in [free : 0..2*HistorySize-1, w : Ring, a : Ring, fr : [Ring -> FrameUpTo(m)]]
      /\ h.free \in 0..2*HistorySize-1
  BY DEF Hist
<1>2. g = [h EXCEPT !.free = @ + k, !.a = a, !.fr = fr]
  BY DEF deleteAckedFrameFromHistory
<1>3. g.fr = fr
  <2>. HIDE DEF k, fr, a, g
  <2>. QED BY <1>1, <1>2
<1>4. ASSUME NEW i \in 0..k-1 PROVE Acked(h, rn, i)
  <2>1. /\ l \in 0..HistorySize-1 /\ \A j \in 0..l-1 : ~LoopEnds(h, rn, j)
    BY LoopStops
  <2>2. k = IF h.free < HistorySize THEN (IF Acked(h, rn, l) THEN l + 1 ELSE l) ELSE 0
    BY DEF Released
  <2>. HIDE DEF k, l
  <2>3. \/ i \in 0..l-1
        \/ i = l /\ Acked(h, rn, l)
    BY <2>1, <2>2, Sizes, SMT
  <2>. QED BY <2>1, <2>3 DEF LoopEnds
<1>5. ASSUME NEW x \in Ring, x \in freed PROVE Ahead(rn, h.fr[x].scon.n) < Threshold
  <2>1. PICK i \in 0..k-1 : x = (h.a + i) % HistorySize
    BY <1>5
  <2>. QED BY <1>4, <2>1 DEF Acked, Entry
<1>6. \A f \in FrameUpTo(m) : [f EXCEPT !.data = None].data = None
  BY DEF FrameUpTo
<1>. HIDE DEF freed, g
<1>. QED BY <1>1, <1>3, <1>5, <1>6 DEF g

LEMMA AcknowledgeTalks ==
    ASSUME NEW m \in Nat, NEW d \in Nat, NEW k \in ConUpTo(m), NEW f \in FrameUpTo(d),
           NEW H, Grounded(k, m, H)
    PROVE  LET j == Acknowledge(k, f)
           IN  /\ j \in ConUpTo(m) /\ j.st = k.st /\ j.recv = k.recv /\ j.send = k.send
               /\ Grounded(j, m, H) /\ (Codes(k) => Codes(j))
               /\ \A x \in Ring : \/ j.hist.fr[x] = k.hist.fr[x]
                                  \/ /\ j.hist.fr[x].data = None
                                     /\ Ahead(f.rcon.n, k.hist.fr[x].scon.n) < Threshold
<1>. DEFINE g == deleteAckedFrameFromHistory(k.hist, f.rcon.n)
            j == [k EXCEPT !.used = 1, !.hist = g]
<1>1. Acknowledge(k, f) = j
  BY DEF Acknowledge
<1>2. k.hist \in Hist(m) /\ f.rcon.n \in 0..SeqMod-1
  BY DEF ConUpTo, FrameUpTo, Con
<1>3. /\ g \in Hist(m)
      /\ \A x \in Ring : \/ g.fr[x] = k.hist.fr[x]
                         \/ /\ g.fr[x].data = None
                            /\ Ahead(f.rcon.n, k.hist.fr[x].scon.n) < Threshold
  BY <1>2, DeletedType, StruckAreAcked
<1>. HIDE DEF g
<1>4. j \in ConUpTo(m) /\ j.st = k.st /\ j.recv = k.recv /\ j.send = k.send /\ j.hist = g
  BY <1>3 DEF ConUpTo
<1>. HIDE DEF j
<1>5. Grounded(j, m, H)
  BY <1>3, <1>4 DEF Grounded, Opened
<1>6. Codes(k) => Codes(j)
  BY <1>4 DEF Codes, Opened
<1>. QED BY <1>1, <1>3, <1>4, <1>5, <1>6

(* A frame with data takes the next number, which is that of its data.     *)
LEMMA SendTalks ==
    ASSUME NEW m \in Nat, NEW k \in ConUpTo(m), k.st = "Connected", Codes(k),
           NEW H, Grounded(k, m, H), m + 1 < SeqMod
    PROVE  LET r == ConnectedSend(k, m + 1, TRUE)
           IN  /\ Opened(r.con) /\ Grounded(r.con, m + 1, H) /\ Talks(r.out, m + 1, H)
               /\ Len(r.out) = 1 /\ r.out[1].data = m + 1 /\ r.out[1].scon.n = m + 1
               /\ r.con.send = k.send
<1>. DEFINE r == ConnectedSend(k, m + 1, TRUE)
            hist == r.con.hist
<1>1. /\ k.recv \in Con /\ k.recv.n = m /\ k.recv.c \in {2, 3} /\ k.send.c = 2 /\ k.send.n \in H
      /\ k.hist \in Hist(m) /\ k.hist.w \in Ring /\ Opened(k)
  BY DEF ConUpTo, Opened, Codes, Grounded, Hist
<1>2. (k.recv.n + 1) % SeqMod = m + 1
  <2>1. m + 1 \in 0..SeqMod-1 /\ SeqMod \in Nat
    BY Sizes, SMT
  <2>2. \A x \in 0..SeqMod-1 : x % SeqMod = x
    BY Sizes, SMT
  <2>. QED BY <1>1, <2>1, <2>2
<1>3. PICK f \in FrameUpTo(m + 1) :
        /\ f.scon = Given(k) /\ f.rcon = k.send /\ f.data = m + 1
        /\ r.con.send = k.send
        /\ r.out = <<f>> /\ hist = addFrameToHistory(k.hist, f)
        /\ r.con.recv = [n |-> Given(k).n, c |-> IF Given(k).c = 3 THEN 2 ELSE Given(k).c]
        /\ r.con.st = IF k.hist.free <= 1 THEN "WaitAck" ELSE k.st
  BY SendRecord
<1>. HIDE DEF r, hist
<1>4. f.scon.n = m + 1 /\ f.scon.c \in {2, 3} /\ r.con.recv.n = m + 1
  BY <1>1, <1>2, <1>3 DEF Given
<1>5. Opened(r.con)
  BY <1>3 DEF Opened
<1>6. Carries(f, m + 1, H)
  BY <1>1, <1>3, <1>4, SMT DEF Carries, Datum
<1>7. \A x \in Ring : hist.fr[x] = k.hist.fr[x] \/ hist.fr[x] = f
  <2>1. k.hist \in [free : 0..2*HistorySize-1, w : Ring, a : Ring, fr : [Ring -> FrameUpTo(m)]]
    BY <1>1 DEF Hist
  <2>. QED BY <1>1, <1>3, <2>1 DEF addFrameToHistory
<1>8. \A x \in Ring : k.hist.fr[x].data # None => Carries(k.hist.fr[x], m + 1, H)
  <2>1. \A x \in Ring : k.hist.fr[x].data # None => Carries(k.hist.fr[x], m, H)
    BY DEF Grounded
  <2>2. \A x \in Ring : k.hist.fr[x].scon.n \in Nat
    <3>1. \A x \in Ring : k.hist.fr[x] \in FrameUpTo(m)
      BY <1>1 DEF Hist
    <3>. QED BY <3>1, Sizes, SMT DEF FrameUpTo, Con
  <2>3. \A n \in Nat : n <= m => n <= m + 1
    BY SMT
  <2>. QED BY <2>1, <2>2, <2>3 DEF Carries
<1>9. Grounded(r.con, m + 1, H)
  BY <1>1, <1>3, <1>4, <1>5, <1>6, <1>7, <1>8 DEF Grounded, hist
<1>10. Talks(<<f>>, m + 1, H)
  BY <1>6, TalksOne DEF Carries, Worded
<1>11. Len(<<f>>) = 1 /\ <<f>>[1] = f
  BY SMT
<1>. QED BY <1>3, <1>4, <1>5, <1>9, <1>10, <1>11 DEF r

-----------------------------------------------------------------------------
(* The handshake.  A node in stage s has handed over m frames; b are the   *)
(* frames on the way to it, from a node in stage t, and c its own.         *)
Stage(k) == IF Opened(k) THEN "Open" ELSE k.st
Stages == {"Idle", "Init1", "Init2", "Init3", "Open"}
Fit(s, t) ==
    \/ s = "Idle" \/ t = "Idle"
    \/ s \in {"Init1", "Init3"} /\ t = "Init2"
    \/ s = "Init2" /\ t \in {"Init1", "Init3"}
    \/ s = "Init3" /\ t = "Open"
    \/ s = "Open" /\ t \in {"Init3", "Open"}
Awaited(s, f) ==
    \/ s = "Init1" /\ Reply(f) /\ AtZero(f)
    \/ s = "Init2" /\ Finish(f) /\ AtZero(f)
    \/ s \in {"Init3", "Open"} /\ Datum(f)
Expects(s, b, t) ==
    /\ s # "Idle" => \A i \in 1..Len(b) : Bye(b[i]) \/ Awaited(s, b[i])
    /\ s \in {"Init1", "Init2"} => \A i, j \in 1..Len(b) : i < j /\ ~Bye(b[i]) => Bye(b[j])
    /\ s = "Init3" => (b # <<>> => Bye(b[1]) \/ Opening(b[1])) /\ (t = "Open" => b # <<>>)
Leaves(s, c) ==
    \A i \in 1..Len(c) : /\ Finish(c[i]) => s \in {"Init3", "Open", "Idle"}
                         /\ Datum(c[i]) => s \in {"Open", "Idle"}
Called(s, m, b, t, c) ==
    s = "Idle" => \A i \in 1..Len(b) : Hello(b[i]) =>
        /\ i = 1 /\ AtZero(b[i]) /\ m = 0 /\ c = <<>> /\ t \in {"Idle", "Init1"}
        /\ \A j \in 2..Len(b) : Bye(b[j])
Handshake(s, m, b, t, c) ==
    /\ Fit(s, t) /\ (s \in {"Init1", "Init2", "Init3"} => m = 0)
    /\ Expects(s, b, t) /\ Leaves(s, c) /\ Called(s, m, b, t, c)

LEMMA Kinds ==
    \A f : /\ Bye(f) => ~Hello(f) /\ ~Reply(f) /\ ~Finish(f) /\ ~Datum(f)
           /\ Hello(f) => ~Reply(f) /\ ~Finish(f) /\ ~Datum(f)
           /\ Reply(f) => ~Finish(f) /\ ~Datum(f)
           /\ Finish(f) => ~Datum(f)
           /\ Opening(f) => Datum(f)
BY SMT DEF Bye, Hello, Reply, Finish, Datum, Opening, Coded

(* The frames on the way to a node before and after it has taken e of them.*)
Shifted(b, d, e) == /\ e \in {0, 1} /\ Len(d) = Len(b) - e
                    /\ \A i \in 1..Len(d) : i + e \in 1..Len(b) /\ d[i] = b[i + e]
Longer(c, g, out) ==
    /\ Len(g) = Len(c) + Len(out)
    /\ \A i \in 1..Len(c) : g[i] = c[i]
    /\ \A i \in 1..Len(g) : \/ i \in 1..Len(c) /\ g[i] = c[i]
                            \/ i - Len(c) \in 1..Len(out) /\ g[i] = out[i - Len(c)]

LEMMA Shifts ==
    ASSUME NEW b \in Seq(Frame)
    PROVE  Shifted(b, b, 0) /\ (b # <<>> => Shifted(b, Tail(b), 1) /\ Head(b) = b[1] /\ 1 \in 1..Len(b))
<1>1. Len(b) \in Nat /\ \A i \in 1..Len(b) : i + 0 = i
  BY LenProperties, SMT
<1>2. Shifted(b, b, 0)
  BY <1>1, SMT DEF Shifted
<1>3. ASSUME b # <<>> PROVE Shifted(b, Tail(b), 1) /\ Head(b) = b[1] /\ 1 \in 1..Len(b)
  <2>1. /\ Len(Tail(b)) = Len(b) - 1 /\ Head(b) = b[1]
        /\ \A i \in 1..Len(Tail(b)) : Tail(b)[i] = b[i + 1]
    BY <1>3, HeadTailProperties, SMT
  <2>2. Len(b) # 0
    BY <1>3, EmptySeq, LenProperties, SMT
  <2>. QED BY <1>1, <2>1, <2>2, SMT DEF Shifted
<1>. QED BY <1>2, <1>3

LEMMA Lengthens ==
    ASSUME NEW c \in Seq(Frame), NEW out \in Seq(Frame)
    PROVE  Longer(c, c \o out, out)
<1>1. /\ Len(c \o out) = Len(c) + Len(out) /\ Len(c) \in Nat /\ Len(out) \in Nat
      /\ \A i \in 1..Len(c) : (c \o out)[i] = c[i]
      /\ \A i \in Len(c)+1..Len(c)+Len(out) : (c \o out)[i] = out[i - Len(c)]
  BY ConcatProperties, LenProperties
<1>2. ASSUME NEW i \in 1..Len(c \o out)
      PROVE  \/ i \in 1..Len(c) /\ (c \o out)[i] = c[i]
             \/ i - Len(c) \in 1..Len(out) /\ (c \o out)[i] = out[i - Len(c)]
  <2>1. \/ i \in 1..Len(c)
        \/ i \in Len(c)+1..Len(c)+Len(out) /\ i - Len(c) \in 1..Len(out)
    BY <1>1, SMT
  <2>. QED BY <1>1, <2>1
<1>. QED BY <1>1, <1>2 DEF Longer

LEMMA NotEmpty ==
    ASSUME NEW b \in Seq(Frame)
    PROVE  Len(b) \in Nat /\ (b = <<>> <=> Len(b) = 0)
BY EmptySeq, LenProperties, SMT

(* A node in stage s, with b on the way to it, takes e of these frames,    *)
(* which leaves d, and sends out, so that g is on the way to its peer.     *)
Exchange(s, m, b, d, e, t, n, c, out, g) ==
    /\ b \in Seq(Frame) /\ c \in Seq(Frame) /\ d \in Seq(Frame) /\ out \in Seq(Frame) /\ g \in Seq(Frame)
    /\ s \in Stages /\ t \in Stages /\ Shifted(b, d, e) /\ Longer(c, g, out)
    /\ Handshake(s, m, b, t, c) /\ Handshake(t, n, c, s, b)

(* The node closes its connection.                                         *)
LEMMA HandshakeClosed ==
    ASSUME NEW s, NEW m, NEW b, NEW d, NEW e, NEW t, NEW n, NEW c, NEW out, NEW g,
           Exchange(s, m, b, d, e, t, n, c, out, g), \A i \in 1..Len(out) : Bye(out[i]),
           s = "Idle" => IF e = 0 THEN out = <<>> ELSE ~Hello(b[1])
    PROVE  Handshake("Idle", m, d, t, g) /\ Handshake(t, n, g, "Idle", d)
<1>. /\ b \in Seq(Frame) /\ c \in Seq(Frame) /\ d \in Seq(Frame) /\ out \in Seq(Frame) /\ g \in Seq(Frame)
     /\ s \in Stages /\ t \in Stages /\ Shifted(b, d, e) /\ Longer(c, g, out)
     /\ Handshake(s, m, b, t, c) /\ Handshake(t, n, c, s, b)
  BY DEF Exchange
<1>1. /\ Len(b) \in Nat /\ Len(c) \in Nat /\ Len(d) \in Nat /\ Len(g) \in Nat /\ Len(out) \in Nat
      /\ b = <<>> <=> Len(b) = 0
      /\ c = <<>> <=> Len(c) = 0
      /\ d = <<>> <=> Len(d) = 0
      /\ g = <<>> <=> Len(g) = 0
      /\ out = <<>> <=> Len(out) = 0
  BY NotEmpty
<1>2. ASSUME NEW i \in 1..Len(g)
      PROVE  (i \in 1..Len(c) /\ g[i] = c[i]) \/ Bye(g[i])
  BY DEF Longer
<1>3. Handshake("Idle", m, d, t, g)
  <2>1. Fit("Idle", t)
    BY DEF Fit
  <2>2. Expects("Idle", d, t) /\ Leaves("Idle", g)
    BY DEF Expects, Leaves
  <2>3. Called("Idle", m, d, t, g)
    <3>. SUFFICES ASSUME NEW i \in 1..Len(d), Hello(d[i])
         PROVE  /\ i = 1 /\ AtZero(d[i]) /\ m = 0 /\ g = <<>> /\ t \in {"Idle", "Init1"}
                /\ \A j \in 2..Len(d) : Bye(d[j])
      BY DEF Called
    <3>1. Hello(b[i + e]) /\ i + e \in 1..Len(b) /\ e \in {0, 1}
      BY DEF Shifted
    <3>2. s = "Idle"
      BY <3>1, Kinds DEF Handshake, Expects, Awaited
    <3>3. e = 0
      <4>1. i + e = 1
        BY <3>1, <3>2 DEF Handshake, Called
      <4>. QED BY <1>1, <3>1, <4>1, SMT
    <3>4. Len(d) = Len(b) /\ out = <<>> /\ \A j \in 1..Len(d) : d[j] = b[j]
      BY <1>1, <3>2, <3>3, SMT DEF Shifted
    <3>5. Len(g) = Len(c)
      BY <1>1, <3>4, SMT DEF Longer
    <3>6. \A j \in 2..Len(b) : j \in 1..Len(b)
      BY SMT
    <3>. QED BY <1>1, <3>2, <3>4, <3>5, <3>6 DEF Handshake, Called
  <2>. QED BY <2>1, <2>2, <2>3 DEF Handshake
<1>4. Handshake(t, n, g, "Idle", d)
  <2>1. Fit(t, "Idle") /\ (t \in {"Init1", "Init2", "Init3"} => n = 0)
    BY DEF Fit, Handshake
  <2>2. Expects(t, g, "Idle")
    <3>1. t # "Idle" => \A i \in 1..Len(g) : Bye(g[i]) \/ Awaited(t, g[i])
      BY <1>2 DEF Handshake, Expects
    <3>2. ASSUME t \in {"Init1", "Init2"}, NEW i \in 1..Len(g), NEW j \in 1..Len(g), i < j, ~Bye(g[i])
          PROVE  Bye(g[j])
      BY <1>2, <3>2 DEF Handshake, Expects
    <3>3. ASSUME t = "Init3", g # <<>> PROVE Bye(g[1]) \/ Opening(g[1])
      <4>1. 1 \in 1..Len(g)
        BY <1>1, <3>3, SMT
      <4>2. Bye(g[1]) \/ (1 \in 1..Len(c) /\ g[1] = c[1])
        BY <1>2, <4>1
      <4>3. 1 \in 1..Len(c) => c # <<>>
        BY <1>1, SMT
      <4>. QED BY <3>3, <4>2, <4>3 DEF Handshake, Expects
    <3>. QED BY <3>1, <3>2, <3>3 DEF Expects
  <2>3. Leaves(t, d)
    BY DEF Handshake, Leaves, Shifted
  <2>4. Called(t, n, g, "Idle", d)
    <3>. SUFFICES ASSUME t = "Idle", NEW i \in 1..Len(g), Hello(g[i])
         PROVE  /\ i = 1 /\ AtZero(g[i]) /\ n = 0 /\ d = <<>>
                /\ \A j \in 2..Len(g) : Bye(g[j])
      BY DEF Called
    <3>1. i \in 1..Len(c) /\ g[i] = c[i]
      BY <1>2, Kinds
    <3>2. /\ i = 1 /\ AtZero(g[i]) /\ n = 0 /\ b = <<>>
          /\ \A j \in 2..Len(c) : Bye(c[j])
      BY <3>1 DEF Handshake, Called
    <3>3. d = <<>>
      BY <1>1, <3>2, SMT DEF Shifted
    <3>4. ASSUME NEW j \in 2..Len(g) PROVE Bye(g[j])
      <4>1. j \in 1..Len(g) /\ (j \in 1..Len(c) => j \in 2..Len(c))
        BY <1>1, SMT
      <4>. QED BY <1>2, <3>2, <4>1
    <3>. QED BY <3>2, <3>3, <3>4
  <2>. QED BY <2>1, <2>2, <2>3, <2>4 DEF Handshake
<1>. QED BY <1>3, <1>4

(* The connection stays open.                                              *)
LEMMA HandshakeStays ==
    ASSUME NEW m, NEW b, NEW d, NEW e, NEW t, NEW n, NEW c, NEW out, NEW g, NEW l,
           Exchange("Open", m, b, d, e, t, n, c, out, g), \A i \in 1..Len(out) : Datum(out[i])
    PROVE  Handshake("Open", l, d, t, g) /\ Handshake(t, n, g, "Open", d)
<1>. /\ b \in Seq(Frame) /\ c \in Seq(Frame) /\ d \in Seq(Frame) /\ out \in Seq(Frame) /\ g \in Seq(Frame)
     /\ "Open" \in Stages /\ t \in Stages /\ Shifted(b, d, e) /\ Longer(c, g, out)
     /\ Handshake("Open", m, b, t, c) /\ Handshake(t, n, c, "Open", b)
  BY DEF Exchange
<1>1. /\ Len(b) \in Nat /\ Len(c) \in Nat /\ Len(d) \in Nat /\ Len(g) \in Nat /\ Len(out) \in Nat
      /\ c = <<>> <=> Len(c) = 0
      /\ g = <<>> <=> Len(g) = 0
  BY NotEmpty
<1>2. ASSUME NEW i \in 1..Len(g)
      PROVE  (i \in 1..Len(c) /\ g[i] = c[i]) \/ Datum(g[i])
  BY DEF Longer
<1>3. t \in {"Idle", "Init3", "Open"}
  <2>1. Fit("Open", t)
    BY DEF Handshake
  <2>. QED BY <2>1 DEF Fit, Stages
<1>4. Handshake("Open", l, d, t, g)
  <2>1. Fit("Open", t)
    BY DEF Handshake
  <2>2. Expects("Open", d, t)
    BY DEF Handshake, Expects, Shifted
  <2>. QED BY <2>1, <2>2 DEF Handshake, Leaves, Called
<1>5. Handshake(t, n, g, "Open", d)
  <2>1. Fit(t, "Open") /\ (t \in {"Init1", "Init2", "Init3"} => n = 0)
    BY DEF Handshake
  <2>2. Expects(t, g, "Open")
    <3>1. t # "Idle" => \A i \in 1..Len(g) : Bye(g[i]) \/ Awaited(t, g[i])
      BY <1>2, <1>3 DEF Handshake, Expects, Awaited
    <3>2. ASSUME t = "Init3" PROVE g # <<>> /\ (Bye(g[1]) \/ Opening(g[1]))
      <4>1. c # <<>>
        BY <3>2 DEF Handshake, Expects
      <4>2. g # <<>> /\ 1 \in 1..Len(c)
        BY <1>1, <4>1, SMT DEF Longer
      <4>. QED BY <3>2, <4>1, <4>2 DEF Handshake, Expects, Longer
    <3>. QED BY <1>3, <3>1, <3>2 DEF Expects
  <2>3. Leaves(t, d)
    BY DEF Handshake, Leaves, Shifted
  <2>4. Called(t, n, g, "Open", d)
    <3>. SUFFICES ASSUME t = "Idle", NEW i \in 1..Len(g), Hello(g[i]) PROVE FALSE
      BY DEF Called
    <3>1. i \in 1..Len(c) /\ g[i] = c[i]
      BY <1>2, Kinds
    <3>. QED BY <3>1 DEF Handshake, Called
  <2>. QED BY <2>1, <2>2, <2>3, <2>4 DEF Handshake
<1>. QED BY <1>4, <1>5

(* A frame of the handshake is answered by the next one.                   *)
LEMMA HandshakeGreets ==
    ASSUME NEW s, NEW m, NEW b, NEW d, NEW t, NEW n, NEW c, NEW out, NEW g, b # <<>>,
           Exchange(s, m, b, d, 1, t, n, c, out, g), NEW next,
           Greets(s, b[1], next), Len(out) = 1, AtZero(out[1]), Answers(next, out[1])
    PROVE  LET u == IF next = "Connected" THEN "Open" ELSE next
           IN  /\ AtZero(b[1]) /\ m = 0
               /\ Handshake(u, m, d, t, g) /\ Handshake(t, n, g, u, d)
<1>. /\ b \in Seq(Frame) /\ c \in Seq(Frame) /\ d \in Seq(Frame) /\ out \in Seq(Frame) /\ g \in Seq(Frame)
     /\ s \in Stages /\ t \in Stages /\ Shifted(b, d, 1) /\ Longer(c, g, out)
     /\ Handshake(s, m, b, t, c) /\ Handshake(t, n, c, s, b)
  BY DEF Exchange
<1>1. /\ Len(b) \in Nat /\ Len(c) \in Nat /\ Len(d) \in Nat /\ Len(g) \in Nat
      /\ b # <<>> => Len(b) # 0
      /\ c = <<>> <=> Len(c) = 0
      /\ g = <<>> <=> Len(g) = 0
  BY NotEmpty
<1>2. 1 \in 1..Len(b) /\ Len(g) = Len(c) + 1
  BY <1>1, SMT DEF Longer
<1>3. ASSUME NEW i \in 1..Len(g)
      PROVE  (i \in 1..Len(c) /\ g[i] = c[i]) \/ (i = Len(c) + 1 /\ g[i] = out[1])
  <2>1. \/ i \in 1..Len(c) /\ g[i] = c[i]
        \/ i - Len(c) \in 1..1 /\ g[i] = out[i - Len(c)]
    BY DEF Longer
  <2>2. i - Len(c) \in 1..1 => i - Len(c) = 1 /\ i = Len(c) + 1
    BY <1>1, SMT
  <2>. QED BY <2>1, <2>2
<1>4. (\A j \in 2..Len(b) : Bye(b[j])) => \A j \in 1..Len(d) : Bye(d[j])
  <2>1. \A j \in 1..Len(d) : j + 1 \in 2..Len(b) /\ d[j] = b[j + 1]
    BY <1>1, SMT DEF Shifted
  <2>. QED BY <2>1
<1>5. s \in {"Init1", "Init2"} => \A j \in 2..Len(b) : Bye(b[1]) \/ Bye(b[j])
  <2>1. \A j \in 2..Len(b) : j \in 1..Len(b) /\ 1 < j
    BY SMT
  <2>. QED BY <1>2, <2>1 DEF Handshake, Expects
<1>6. ASSUME t = "Idle", NEW i \in 1..Len(c), Hello(c[i]) PROVE FALSE
  BY <1>6 DEF Handshake, Called
<1>7. CASE s = "Idle" /\ Hello(b[1]) /\ next = "Init2"
  <2>1. /\ AtZero(b[1]) /\ m = 0 /\ c = <<>> /\ t \in {"Idle", "Init1"}
        /\ \A j \in 1..Len(d) : Bye(d[j])
    BY <1>2, <1>4, <1>7 DEF Handshake, Called
  <2>2. \A i \in 1..Len(g) : g[i] = out[1] /\ i = 1
    <3>1. 1..Len(c) = {} /\ Len(c) + 1 = 1
      BY <1>1, <2>1, SMT
    <3>. QED BY <1>3, <3>1
  <2>3. Reply(out[1]) /\ AtZero(out[1])
    BY <1>7 DEF Answers
  <2>4. Handshake("Init2", m, d, t, g)
    <3>1. Fit("Init2", t) \/ t = "Init1"
      BY <2>1 DEF Fit
    <3>2. Fit("Init2", "Init1")
      BY DEF Fit
    <3>3. Expects("Init2", d, t)
      BY <2>1 DEF Expects
    <3>4. Leaves("Init2", g)
      BY <2>2, <2>3, Kinds DEF Leaves
    <3>. QED BY <2>1, <3>1, <3>2, <3>3, <3>4 DEF Handshake, Called
  <2>5. Handshake(t, n, g, "Init2", d)
    <3>1. Fit(t, "Init2")
      BY <2>1 DEF Fit
    <3>2. Expects(t, g, "Init2")
      <4>1. \A i, j \in 1..Len(g) : i < j => FALSE
        <5>1. \A i, j \in 1..Len(g) : i = j
          BY <2>2
        <5>2. \A i \in 1..Len(g) : ~(i < i)
          BY SMT
        <5>. QED BY <5>1, <5>2
      <4>2. t # "Idle" => \A i \in 1..Len(g) : Awaited(t, g[i])
        BY <2>1, <2>2, <2>3 DEF Awaited
      <4>3. t # "Init3"
        BY <2>1
      <4>. QED BY <4>1, <4>2, <4>3 DEF Expects
    <3>3. Leaves(t, d)
      BY <2>1, Kinds DEF Leaves
    <3>4. Called(t, n, g, "Init2", d)
      BY <2>2, <2>3, Kinds DEF Called
    <3>. QED BY <2>1, <3>1, <3>2, <3>3, <3>4 DEF Handshake
  <2>. QED BY <1>7, <2>1, <2>4, <2>5
<1>8. CASE s = "Init1" /\ Reply(b[1]) /\ next = "Init3"
  <2>1. AtZero(b[1]) /\ m = 0 /\ \A j \in 1..Len(d) : Bye(d[j])
    BY <1>2, <1>4, <1>5, <1>8, Kinds DEF Handshake, Expects, Awaited
  <2>2. t \in {"Idle", "Init2"}
    <3>1. Fit("Init1", t)
      BY <1>8 DEF Handshake
    <3>. QED BY <3>1 DEF Fit, Stages
  <2>3. Finish(out[1]) /\ AtZero(out[1]) /\ \A i \in 1..Len(c) : ~Finish(c[i]) /\ ~Datum(c[i])
    BY <1>8 DEF Answers, Handshake, Leaves
  <2>4. Handshake("Init3", m, d, t, g)
    <3>1. Fit("Init3", t)
      BY <2>2 DEF Fit
    <3>2. Expects("Init3", d, t)
      <4>1. d # <<>> => 1 \in 1..Len(d)
        BY NotEmpty, SMT
      <4>. QED BY <2>1, <2>2, <4>1 DEF Expects
    <3>3. Leaves("Init3", g)
      BY <1>3, <2>3, Kinds DEF Leaves
    <3>. QED BY <2>1, <3>1, <3>2, <3>3 DEF Handshake, Called
  <2>5. Handshake(t, n, g, "Init3", d)
    <3>1. Fit(t, "Init3") /\ (t \in {"Init1", "Init2", "Init3"} => n = 0)
      BY <2>2 DEF Fit, Handshake
    <3>2. Expects(t, g, "Init3")
      <4>1. t = "Init2" => \A i \in 1..Len(c) : Bye(c[i])
        BY <2>3 DEF Handshake, Expects, Awaited
      <4>2. \A i, j \in 1..Len(g) : i = Len(c) + 1 /\ j = Len(c) + 1 => ~(i < j)
        BY <1>1, SMT
      <4>3. \A i, j \in 1..Len(g) : i = Len(c) + 1 /\ j \in 1..Len(c) => ~(i < j)
        BY <1>1, SMT
      <4>4. \A i \in 1..Len(g) : t = "Init2" => Bye(g[i]) \/ (i = Len(c) + 1 /\ g[i] = out[1])
        BY <1>3, <4>1
      <4>5. \A i, j \in 1..Len(g) : t = "Init2" /\ i < j /\ ~Bye(g[i]) => Bye(g[j])
        BY <4>2, <4>3, <4>4, <1>3
      <4>6. t # "Idle" => \A i \in 1..Len(g) : Bye(g[i]) \/ Awaited(t, g[i])
        BY <2>2, <2>3, <4>4 DEF Awaited
      <4>7. t # "Init3" /\ t # "Init1"
        BY <2>2
      <4>. QED BY <4>5, <4>6, <4>7, <2>2 DEF Expects
    <3>3. Leaves(t, d)
      BY <2>1, Kinds DEF Leaves
    <3>4. Called(t, n, g, "Init3", d)
      BY <1>3, <1>6, <2>3, Kinds DEF Called
    <3>. QED BY <3>1, <3>2, <3>3, <3>4 DEF Handshake
  <2>. QED BY <1>8, <2>1, <2>4, <2>5
<1>9. CASE s = "Init2" /\ Finish(b[1]) /\ next = "Connected"
  <2>1. AtZero(b[1]) /\ m = 0 /\ \A j \in 1..Len(d) : Bye(d[j])
    BY <1>2, <1>4, <1>5, <1>9, Kinds DEF Handshake, Expects, Awaited
  <2>2. t \in {"Idle", "Init3"}
    <3>1. Fit("Init2", t) /\ t \in {"Init3", "Open", "Idle"}
      BY <1>2, <1>9 DEF Handshake, Leaves
    <3>. QED BY <3>1 DEF Fit
  <2>3. Opening(out[1]) /\ Datum(out[1]) /\ \A i \in 1..Len(c) : ~Finish(c[i]) /\ ~Datum(c[i])
    BY <1>9, Kinds DEF Answers, Handshake, Leaves
  <2>4. Handshake("Open", m, d, t, g)
    <3>1. Fit("Open", t)
      BY <2>2 DEF Fit
    <3>2. Expects("Open", d, t)
      BY <2>1 DEF Expects
    <3>. QED BY <3>1, <3>2 DEF Handshake, Leaves, Called
  <2>5. Handshake(t, n, g, "Open", d)
    <3>1. Fit(t, "Open") /\ (t \in {"Init1", "Init2", "Init3"} => n = 0)
      BY <2>2 DEF Fit, Handshake
    <3>2. Expects(t, g, "Open")
      <4>1. t = "Init3" => \A i \in 1..Len(c) : Bye(c[i])
        BY <2>3 DEF Handshake, Expects, Awaited
      <4>2. \A i \in 1..Len(g) : t = "Init3" => Bye(g[i]) \/ g[i] = out[1]
        BY <1>3, <4>1
      <4>3. g # <<>> /\ 1 \in 1..Len(g)
        BY <1>1, <1>2, SMT
      <4>. QED BY <2>2, <2>3, <4>2, <4>3 DEF Expects, Awaited
    <3>3. Leaves(t, d)
      BY <2>1, Kinds DEF Leaves
    <3>4. Called(t, n, g, "Open", d)
      BY <1>3, <1>6, <2>3, Kinds DEF Called
    <3>. QED BY <3>1, <3>2, <3>3, <3>4 DEF Handshake
  <2>. QED BY <1>9, <2>1, <2>4, <2>5
<1>. QED BY <1>7, <1>8, <1>9 DEF Greets

(* The first data frame of the node that answers opens the connection.     *)
LEMMA HandshakeOpens ==
    ASSUME NEW b \in Seq(Frame), NEW c \in Seq(Frame), NEW d \in Seq(Frame),
           b # <<>>, Shifted(b, d, 1), NEW t \in Stages, NEW m, NEW n,
           Handshake("Init3", m, b, t, c), Handshake(t, n, c, "Init3", b), Opening(b[1])
    PROVE  /\ m = 0 /\ t \in {"Idle", "Open"}
           /\ Handshake("Open", m, d, t, c) /\ Handshake(t, n, c, "Open", d)
<1>1. 1 \in 1..Len(b) /\ Datum(b[1]) /\ m = 0
  <2>1. 1 \in 1..Len(b)
    BY NotEmpty, SMT
  <2>. QED BY <2>1, Kinds DEF Handshake
<1>2. t \in {"Idle", "Open"}
  BY <1>1 DEF Handshake, Leaves
<1>3. \A i \in 1..Len(d) : i + 1 \in 1..Len(b) /\ d[i] = b[i + 1]
  BY DEF Shifted
<1>4. Handshake("Open", m, d, t, c)
  <2>1. Fit("Open", t)
    BY <1>2 DEF Fit
  <2>2. Expects("Open", d, t)
    BY <1>3 DEF Handshake, Expects, Awaited
  <2>. QED BY <2>1, <2>2 DEF Handshake, Leaves, Called
<1>5. Handshake(t, n, c, "Open", d)
  <2>1. Fit(t, "Open")
    BY <1>2 DEF Fit
  <2>2. Expects(t, c, "Open")
    BY <1>2 DEF Handshake, Expects
  <2>3. Leaves(t, d)
    BY <1>3 DEF Handshake, Leaves
  <2>4. Called(t, n, c, "Open", d)
    BY DEF Handshake, Called
  <2>. QED BY <1>2, <2>1, <2>2, <2>3, <2>4 DEF Handshake
<1>. QED BY <1>1, <1>2, <1>4, <1>5

-----------------------------------------------------------------------------
(* The numbers a node has still to hear of are all on the way to it, each  *)
(* on the frame with its data and before any later one; and a node knows a *)
(* number of its peer when it has delivered the data up to it, in order.   *)
Known(g, l) == IF l = {} THEN {n \in Nat : 1..n \subseteq Range(g)} ELSE Nat
Numbered(c, x) ==
    \E k \in 1..Len(c) : /\ c[k].data = x /\ c[k].scon.n = x
                         /\ \A i \in 1..k-1 : Datum(c[i]) => c[i].scon.n < x
Hailed(c) == \E i \in 1..Len(c) : Hello(c[i])
From(k) == IF Opened(k) THEN k.send.n ELSE 0
Arriving(k, n, b) ==
    k.st # "Idle" \/ Hailed(b) => \A x \in From(k)+1..n : Numbered(b, x)

LEMMA NumberedLonger ==
    ASSUME NEW c \in Seq(Frame), NEW g, NEW out, Longer(c, g, out), NEW x, Numbered(c, x),
           Len(g) \in Nat, Len(c) <= Len(g)
    PROVE  Numbered(g, x)
<1>1. PICK k \in 1..Len(c) : /\ c[k].data = x /\ c[k].scon.n = x
                             /\ \A i \in 1..k-1 : Datum(c[i]) => c[i].scon.n < x
  BY DEF Numbered
<1>2. Len(c) \in Nat /\ k \in 1..Len(g) /\ \A i \in 1..k-1 : i \in 1..Len(c)
  BY LenProperties, SMT
<1>3. g[k] = c[k] /\ \A i \in 1..k-1 : g[i] = c[i]
  BY <1>2 DEF Longer
<1>. QED BY <1>1, <1>2, <1>3 DEF Numbered

LEMMA NumberedShifted ==
    ASSUME NEW b \in Seq(Frame), NEW d \in Seq(Frame), NEW e, Shifted(b, d, e), NEW x, Numbered(b, x),
           e = 1 => b[1].data # x \/ b[1].scon.n # x
    PROVE  Numbered(d, x)
<1>1. PICK k \in 1..Len(b) : /\ b[k].data = x /\ b[k].scon.n = x
                             /\ \A i \in 1..k-1 : Datum(b[i]) => b[i].scon.n < x
  BY DEF Numbered
<1>2. e \in {0, 1} /\ Len(b) \in Nat /\ Len(d) = Len(b) - e
  BY LenProperties DEF Shifted
<1>3. e = 1 => k # 1
  BY <1>1
<1>4. /\ k - e \in 1..Len(d) /\ (k - e) + e = k
      /\ \A i \in 1..(k - e) - 1 : i \in 1..Len(d) /\ i + e \in 1..k-1
  BY <1>2, <1>3, SMT
<1>5. \A i \in 1..Len(d) : d[i] = b[i + e]
  BY DEF Shifted
<1>6. d[k - e] = b[k] /\ \A i \in 1..(k - e) - 1 : d[i] = b[i + e]
  <2>1. d[k - e] = b[(k - e) + e]
    BY <1>4, <1>5
  <2>. QED BY <1>4, <1>5, <2>1
<1>7. \A i \in 1..(k - e) - 1 : Datum(d[i]) => d[i].scon.n < x
  BY <1>1, <1>4, <1>6
<1>. DEFINE y == k - e
<1>. HIDE DEF y
<1>8. y \in 1..Len(d) /\ d[y].data = x /\ d[y].scon.n = x /\ \A i \in 1..y-1 : Datum(d[i]) => d[i].scon.n < x
  BY <1>1, <1>4, <1>6, <1>7 DEF y
<1>. QED BY <1>8 DEF Numbered

LEMMA NumberedSent ==
    ASSUME NEW c \in Seq(Frame), NEW g, NEW out, Longer(c, g, out), NEW m \in Nat, NEW H,
           Says(c, m, H), \A i \in 1..Len(c) : c[i].scon.n \in Nat,
           Len(out) = 1, out[1].data = m + 1, out[1].scon.n = m + 1
    PROVE  Numbered(g, m + 1)
<1>. DEFINE k == Len(c) + 1
<1>1. /\ Len(c) \in Nat /\ Len(g) = Len(c) + 1 /\ k \in 1..Len(g) /\ k - 1 = Len(c)
      /\ k \notin 1..Len(c) /\ k - Len(c) = 1
  BY LenProperties, SMT DEF Longer
<1>2. g[k] = out[1]
  BY <1>1 DEF Longer
<1>3. \A i \in 1..Len(c) : g[i] = c[i]
  BY DEF Longer
<1>4. \A n \in Nat : n <= m => n < m + 1
  BY SMT
<1>5. \A i \in 1..k-1 : Datum(g[i]) => g[i].scon.n < m + 1
  BY <1>1, <1>3, <1>4 DEF Says, Worded
<1>. HIDE DEF k
<1>. QED BY <1>1, <1>2, <1>5 DEF Numbered

(* What is on the way to a node that takes a frame, or none.               *)
LEMMA ArrivingTaken ==
    ASSUME NEW b \in Seq(Frame), NEW d \in Seq(Frame), NEW e, Shifted(b, d, e),
           NEW k, NEW i, NEW n, Arriving(k, n, b),
           i.st # "Idle" \/ Hailed(d) => k.st # "Idle" \/ Hailed(b),
           \A x \in From(i)+1..n : /\ x \in From(k)+1..n
                                   /\ e = 1 => b[1].data # x \/ b[1].scon.n # x
    PROVE  Arriving(i, n, d)
BY NumberedShifted DEF Arriving

LEMMA HailedShifted ==
    ASSUME NEW b, NEW d, NEW e, Shifted(b, d, e), Hailed(d)
    PROVE  Hailed(b)
BY DEF Hailed, Shifted

(* And to a node that takes none while its peer sends.                     *)
LEMMA ArrivingLonger ==
    ASSUME NEW c \in Seq(Frame), NEW g, NEW out, Longer(c, g, out),
           Len(g) \in Nat, Len(c) <= Len(g),
           NEW j, NEW m, Arriving(j, m, c), \A i \in 1..Len(out) : ~Hello(out[i])
    PROVE  Arriving(j, m, g)
<1>1. Hailed(g) => Hailed(c)
  BY DEF Hailed, Longer
<1>. QED BY <1>1, NumberedLonger DEF Arriving

LEMMA SaysShifted ==
    ASSUME NEW b, NEW d, NEW e, Shifted(b, d, e), NEW n, NEW H, Says(b, n, H)
    PROVE  Says(d, n, H)
BY DEF Says, Shifted

LEMMA SaysLonger ==
    ASSUME NEW c, NEW g, NEW out, Longer(c, g, out), NEW m, NEW H, Says(c, m, H), Says(out, m, H)
    PROVE  Says(g, m, H)
BY DEF Says, Longer

LEMMA SaysMore ==
    ASSUME NEW c, NEW m \in Nat, NEW l \in Nat, m <= l, NEW H, NEW G, H \subseteq G, Says(c, m, H),
           \A i \in 1..Len(c) : c[i].scon.n \in Nat
    PROVE  Says(c, l, G)
<1>1. \A n \in Nat : n <= m => n <= l
  BY SMT
<1>. QED BY <1>1 DEF Says, Worded

LEMMA TalksSays ==
    ASSUME NEW out, NEW m, NEW H, Talks(out, m, H)
    PROVE  Says(out, m, H) /\ \A i \in 1..Len(out) : Datum(out[i]) /\ ~Hello(out[i])
BY Kinds DEF Talks, Says

LEMMA ByesSay ==
    ASSUME NEW out, NEW m, NEW H, \A i \in 1..Len(out) : Bye(out[i])
    PROVE  Says(out, m, H) /\ \A i \in 1..Len(out) : ~Hello(out[i])
BY Kinds DEF Says

LEMMA KnownGrows ==
    ASSUME NEW n \in Nat, NEW g \in Seq(1..n), NEW l, NEW x
    PROVE  /\ Known(g, l) \subseteq Known(Append(g, x), l)
           /\ Known(g, l) \subseteq Known(g, l \cup {x})
           /\ Range(g) \subseteq Range(Append(g, x)) /\ x \in Range(Append(g, x))
<1>1. Range(g) \subseteq Range(Append(g, x)) /\ x \in Range(Append(g, x))
  <2>1. /\ DOMAIN g = 1..Len(g) /\ DOMAIN Append(g, x) = 1..Len(g)+1 /\ Len(g) \in Nat
        /\ \A i \in 1..Len(g) : Append(g, x)[i] = g[i]
        /\ Append(g, x)[Len(g) + 1] = x
    BY SMT
  <2>2. Len(g) + 1 \in 1..Len(g)+1 /\ 1..Len(g) \subseteq 1..Len(g)+1
    BY <2>1, SMT
  <2>. QED BY <2>1, <2>2 DEF Range
<1>2. l \cup {x} # {}
  OBVIOUS
<1>. QED BY <1>1, <1>2 DEF Known

(* A number known is not beyond what was sent.                             *)
LEMMA KnownWasSent ==
    ASSUME NEW n \in Nat, NEW g \in Seq(1..n), NEW x \in Known(g, {})
    PROVE  x \in 0..n /\ 1..x \subseteq Range(g)
<1>1. x \in Nat /\ 1..x \subseteq Range(g)
  BY DEF Known
<1>2. Range(g) \subseteq 1..n
  BY SMT DEF Range
<1>3. x # 0 => x \in 1..x
  BY <1>1, SMT
<1>. QED BY <1>1, <1>2, <1>3, SMT

-----------------------------------------------------------------------------
(* A node with record k has sent m frames and delivered g and l; b are the *)
(* frames on the way to it, and H what its peer, in stage t, knows; it has *)
(* sent n frames, and c are on the way to it.                              *)
Sane(k, m, b, n, c, t, g, l, H) ==
    /\ Handshake(Stage(k), m, b, t, c) /\ Handshake(t, n, c, Stage(k), b)
    /\ Grounded(k, m, Known(g, l)) /\ Says(b, n, H)
    /\ l = {} => Arriving(k, n, b)
(* The same after a step that leaves record i and sends out.               *)
Held(i, out, m, d, n, c, t, g, l) ==
    /\ Handshake(Stage(i), m, d, t, c \o out) /\ Handshake(t, n, c \o out, Stage(i), d)
    /\ Grounded(i, m, Known(g, l)) /\ Says(out, m, Known(g, l))
    /\ \A x \in 1..Len(out) : ~Hello(out[x])
    /\ l = {} => Arriving(i, n, d)

LEMMA StageOfRecord ==
    ASSUME NEW m \in Nat, NEW k \in ConUpTo(m)
    PROVE  /\ Stage(k) \in Stages /\ (Stage(k) = "Open" <=> Opened(k))
           /\ ~Opened(k) => Stage(k) = k.st
           /\ Stage(k) = "Idle" <=> k.st = "Idle"
<1>1. k.st \in States
  BY DEF ConUpTo
<1>. QED BY <1>1 DEF Stage, Stages, States, Opened

LEMMA ClosesHeld ==
    ASSUME NEW m \in Nat, NEW n \in Nat, NEW k \in ConUpTo(m),
           NEW b \in Seq(Frame), NEW c \in Seq(Frame), NEW d \in Seq(Frame), NEW e, Shifted(b, d, e),
           NEW t \in Stages, NEW g, NEW l, NEW H, Sane(k, m, b, n, c, t, g, l, H),
           NEW r, Closes(r), r.out \in Seq(Frame),
           k.st = "Idle" => IF e = 0 THEN r.out = <<>> ELSE ~Hello(b[1])
    PROVE  Held(r.con, r.out, m, d, n, c, t, g, l)
<1>. DEFINE h == c \o r.out
            s == Stage(k)
<1>1. s \in Stages /\ (s = "Idle" <=> k.st = "Idle")
  BY StageOfRecord
<1>2. Stage(r.con) = "Idle" /\ ~Opened(r.con)
  BY DEF Closes, Stage, Opened
<1>3. Longer(c, h, r.out) /\ h \in Seq(Frame)
  BY Lengthens, SMT
<1>. HIDE DEF h, s
<1>4. Handshake(s, m, b, t, c) /\ Handshake(t, n, c, s, b)
  BY DEF Sane, s
<1>5. Handshake("Idle", m, d, t, h) /\ Handshake(t, n, h, "Idle", d)
  <2>. DEFINE out == r.out
  <2>1. /\ \A i \in 1..Len(out) : Bye(out[i])
        /\ out \in Seq(Frame) /\ Longer(c, h, out)
        /\ s = "Idle" => IF e = 0 THEN out = <<>> ELSE ~Hello(b[1])
    BY <1>1, <1>3 DEF Closes
  <2>. HIDE DEF out
  <2>2. Exchange(s, m, b, d, e, t, n, c, out, h)
    BY <1>1, <1>3, <1>4, <2>1 DEF Exchange
  <2>. QED BY <2>1, <2>2, HandshakeClosed
<1>6. Grounded(r.con, m, Known(g, l))
  BY <1>2 DEF Closes, Grounded
<1>7. Says(r.out, m, Known(g, l)) /\ \A x \in 1..Len(r.out) : ~Hello(r.out[x])
  BY ByesSay DEF Closes
<1>8. ASSUME l = {} PROVE Arriving(r.con, n, d)
  <2>1. Hailed(d) => s = "Idle" /\ e = 0
    <3>. SUFFICES ASSUME NEW i \in 1..Len(d), Hello(d[i]) PROVE s = "Idle" /\ e = 0
      BY DEF Hailed
    <3>1. i + e \in 1..Len(b) /\ Hello(b[i + e]) /\ e \in {0, 1}
      BY DEF Shifted
    <3>2. s = "Idle"
      BY <1>4, <3>1, Kinds DEF Handshake, Expects, Awaited
    <3>3. i + e = 1
      BY <1>4, <3>1, <3>2 DEF Handshake, Called
    <3>4. e = 0
      BY <3>1, <3>3, SMT
    <3>. QED BY <3>2, <3>4
  <2>2. Arriving(k, n, b)
    BY <1>8 DEF Sane
  <2>3. CASE ~Hailed(d)
    BY <2>3 DEF Arriving, Closes
  <2>4. CASE Hailed(d)
    <3>1. From(r.con) = 0 /\ From(k) = 0 /\ Hailed(b) /\ e = 0
      BY <1>1, <1>2, <2>1, <2>4, HailedShifted DEF From, Opened
    <3>2. \A x \in From(r.con)+1..n : /\ x \in From(k)+1..n
                                      /\ e = 1 => b[1].data # x \/ b[1].scon.n # x
      BY <3>1
    <3>. QED BY <2>2, <3>1, <3>2, ArrivingTaken
  <2>. QED BY <2>3, <2>4
<1>. QED BY <1>2, <1>5, <1>6, <1>7, <1>8 DEF Held, h

LEMMA ZeroIsKnown == \A g, l : 0 \in Known(g, l)
<1>1. 0 \in Nat /\ 1..0 = {}
  BY SMT
<1>. QED BY <1>1 DEF Known

(* The first frame of the handshake has the numbers zero.                  *)
LEMMA GreetsAtZero ==
    ASSUME NEW m, NEW n, NEW b, NEW c, NEW t, NEW s, NEW next, 1 \in 1..Len(b),
           Handshake(s, m, b, t, c), Greets(s, b[1], next)
    PROVE  AtZero(b[1])
<1>1. CASE s = "Idle"
  BY <1>1 DEF Greets, Handshake, Called
<1>2. CASE s # "Idle"
  BY <1>2, Kinds DEF Greets, Handshake, Expects, Awaited
<1>. QED BY <1>1, <1>2

(* A node takes the first frame on the way to it.                          *)
Takes(b, f, d) ==
    b \in Seq(Frame) /\ d \in Seq(Frame) /\ b # <<>> /\ Shifted(b, d, 1) /\ f = b[1]

LEMMA GreetsHeld ==
    ASSUME NEW m \in Nat, NEW n \in Nat, NEW k \in ConUpTo(m),
           NEW b, NEW f \in FrameUpTo(n), NEW d, Takes(b, f, d),
           NEW c \in Seq(Frame), NEW t \in Stages, NEW g, NEW l, NEW H,
           Sane(k, m, b, n, c, t, g, l, H),
           NEW next, Greets(k.st, f, next)
    PROVE  LET r == FrameRec(k, f, TRUE)
           IN  Held(r.con, r.out, m, d, n, c, t, g, l) /\ r.data = None /\ r.again = FALSE
<1>. DEFINE r == FrameRec(k, f, TRUE)
            h == c \o r.out
            u == IF next = "Connected" THEN "Open" ELSE next
<1>1. b \in Seq(Frame) /\ d \in Seq(Frame) /\ b # <<>> /\ Shifted(b, d, 1) /\ 1 \in 1..Len(b)
  <2>1. b \in Seq(Frame) /\ b # <<>>
    BY DEF Takes
  <2>2. 1 \in 1..Len(b)
    BY <2>1, NotEmpty, SMT
  <2>. QED BY <2>1, <2>2 DEF Takes
<1>2. f = b[1]
  BY DEF Takes
<1>3. ~Opened(k) /\ Stage(k) = k.st /\ k.st \in Stages /\ next \in {"Init2", "Init3", "Connected"}
  BY DEF Greets, Opened, Stage, Stages
<1>4. Handshake(k.st, m, b, t, c) /\ Handshake(t, n, c, k.st, b) /\ Grounded(k, m, Known(g, l))
  BY <1>3 DEF Sane
<1>5. AtZero(f)
  BY <1>1, <1>2, <1>4, GreetsAtZero
<1>6. \A i \in Ring : k.hist.fr[i].data = None
  BY <1>3, <1>4 DEF Grounded
<1>7. /\ r.con.st = next /\ r.data = None /\ r.again = FALSE
      /\ r.con.recv.n = 0 /\ r.con.send.n = 0
      /\ next = "Connected" => r.con.send.c = 2
      /\ \A i \in Ring : r.con.hist.fr[i].data = None
      /\ Len(r.out) = 1 /\ AtZero(r.out[1]) /\ Answers(next, r.out[1])
  BY <1>5, <1>6, GreetingAnswered
<1>8. Longer(c, h, r.out) /\ h \in Seq(Frame) /\ r.out \in Seq(Frame) /\ d \in Seq(Frame)
  <2>. DEFINE out == r.out
  <2>1. out \in Seq(Frame)
    <3>1. Handles(k, r, m, n)
      BY FrameHandles
    <3>2. out \in Seq(FrameUpTo(m))
      BY <3>1 DEF Handles, Answer
    <3>. HIDE DEF out
    <3>. QED BY <3>2, FramesOfNode
  <2>. HIDE DEF out, r
  <2>2. Longer(c, c \o out, out) /\ c \o out \in Seq(Frame)
    BY <2>1, Lengthens, Sequences
  <2>. QED BY <1>1, <2>1, <2>2 DEF out
<1>. HIDE DEF r, h
<1>9. m = 0 /\ Handshake(u, m, d, t, h) /\ Handshake(t, n, h, u, d)
  <2>. DEFINE out == r.out
              s == k.st
  <2>1. /\ out \in Seq(Frame) /\ Longer(c, h, out) /\ Len(out) = 1 /\ AtZero(out[1])
        /\ Answers(next, out[1]) /\ Greets(s, b[1], next) /\ s \in Stages
        /\ Handshake(s, m, b, t, c) /\ Handshake(t, n, c, s, b)
    BY <1>1, <1>2, <1>3, <1>4, <1>7, <1>8
  <2>. HIDE DEF out, s
  <2>2. Exchange(s, m, b, d, 1, t, n, c, out, h)
    BY <1>1, <1>8, <2>1 DEF Exchange
  <2>3. Greets(s, b[1], next) /\ Len(out) = 1 /\ AtZero(out[1]) /\ Answers(next, out[1])
    BY <2>1
  <2>. QED BY <1>1, <2>2, <2>3, HandshakeGreets
<1>10. Stage(r.con) = u /\ (Opened(r.con) <=> next = "Connected") /\ r.con.st # "Idle"
  BY <1>3, <1>7 DEF Stage, Opened
<1>11. Grounded(r.con, m, Known(g, l))
  BY <1>7, <1>9, <1>10, ZeroIsKnown DEF Grounded
<1>12. /\ \A i \in 1..Len(r.out) : i = 1
       /\ ~Hello(r.out[1])
       /\ Datum(r.out[1]) => r.out[1].rcon.c = 2
  <2>1. \A i \in 1..1 : i = 1
    BY SMT
  <2>2. Opening(r.out[1]) => r.out[1].rcon.c = 2
    BY DEF Opening, Coded
  <2>. QED BY <1>7, <2>1, <2>2, Kinds DEF Answers
<1>13. Says(r.out, m, Known(g, l))
  <2>1. 0 <= 0 /\ 2 # 3
    BY SMT
  <2>. QED BY <1>7, <1>9, <1>12, <2>1, ZeroIsKnown DEF Says, Worded, AtZero
<1>14. ASSUME l = {} PROVE Arriving(r.con, n, d)
  <2>1. Arriving(k, n, b)
    BY <1>14 DEF Sane
  <2>2. k.st # "Idle" \/ Hailed(b)
    BY <1>1, <1>2 DEF Greets, Hailed
  <2>3. From(k) = 0 /\ From(r.con) = 0
    BY <1>3, <1>7 DEF From
  <2>4. \A x \in 0+1..n : x # 0
    BY SMT
  <2>5. b[1].scon.n = 0
    BY <1>2, <1>5 DEF AtZero
  <2>6. \A x \in From(r.con)+1..n : x \in From(k)+1..n /\ b[1].scon.n # x
    BY <2>3, <2>4, <2>5
  <2>. QED BY <1>1, <2>1, <2>2, <2>6, ArrivingTaken
<1>. QED BY <1>7, <1>9, <1>10, <1>11, <1>12, <1>13, <1>14 DEF Held, r, h

LEMMA OpensHeld ==
    ASSUME NEW m \in Nat, NEW n \in Nat, NEW k \in ConUpTo(m),
           NEW b, NEW f \in FrameUpTo(n), NEW d, Takes(b, f, d),
           NEW c \in Seq(Frame), NEW t \in Stages, NEW g, NEW l, NEW H,
           Sane(k, m, b, n, c, t, g, l, H), k.st = "Init3", Opening(f)
    PROVE  LET r == FrameRec(k, f, TRUE)
           IN  Held(r.con, r.out, m, d, n, c, t, g, l) /\ r.data = None /\ r.again = FALSE
<1>. DEFINE r == FrameRec(k, f, TRUE)
<1>1. b \in Seq(Frame) /\ d \in Seq(Frame) /\ b # <<>> /\ Shifted(b, d, 1) /\ 1 \in 1..Len(b)
  <2>1. b \in Seq(Frame) /\ b # <<>>
    BY DEF Takes
  <2>2. 1 \in 1..Len(b)
    BY <2>1, NotEmpty, SMT
  <2>. QED BY <2>1, <2>2 DEF Takes
<1>2. f = b[1]
  BY DEF Takes
<1>3. ~Opened(k) /\ Stage(k) = "Init3"
  BY DEF Opened, Stage
<1>4. Handshake("Init3", m, b, t, c) /\ Handshake(t, n, c, "Init3", b) /\ Grounded(k, m, Known(g, l))
  BY <1>3 DEF Sane
<1>5. \A i \in Ring : k.hist.fr[i].data = None
  BY <1>3, <1>4 DEF Grounded
<1>6. /\ r.con.st = "Connected" /\ r.data = None /\ r.again = FALSE
      /\ r.con.recv.n = 0 /\ r.con.send.n = 0 /\ r.con.send.c = 2
      /\ \A i \in Ring : r.con.hist.fr[i].data = None
      /\ r.out = <<>>
  BY <1>5, OpeningTaken
<1>. HIDE DEF r
<1>7. m = 0 /\ Handshake("Open", m, d, t, c) /\ Handshake(t, n, c, "Open", d)
  <2>1. d \in Seq(Frame) /\ Opening(b[1])
    BY <1>1, <1>2
  <2>. QED BY <1>1, <1>4, <2>1, HandshakeOpens
<1>8. Stage(r.con) = "Open" /\ Opened(r.con)
  BY <1>6 DEF Stage, Opened
<1>9. Grounded(r.con, m, Known(g, l))
  BY <1>6, <1>7, <1>8, ZeroIsKnown DEF Grounded
<1>10. 1..Len(<<>>) = {} /\ c \o <<>> = c
  BY SMT
<1>11. Says(r.out, m, Known(g, l)) /\ \A x \in 1..Len(r.out) : ~Hello(r.out[x])
  BY <1>6, <1>10 DEF Says
<1>12. ASSUME l = {} PROVE Arriving(r.con, n, d)
  <2>1. Arriving(k, n, b)
    BY <1>12 DEF Sane
  <2>2. From(k) = 0 /\ From(r.con) = 0
    BY <1>3, <1>6 DEF From
  <2>3. \A x \in 0+1..n : x # 0
    BY SMT
  <2>4. b[1].scon.n = 0
    BY <1>2 DEF Opening, AtZero
  <2>. QED BY <1>1, <2>1, <2>2, <2>3, <2>4, ArrivingTaken
<1>. QED BY <1>6, <1>7, <1>8, <1>9, <1>10, <1>11, <1>12 DEF Held, r

(* The numbers do not come round: the next one is the one after.           *)
LEMMA NextIsOneMore ==
    ASSUME NEW n \in Nat, n + Threshold <= SeqMod, NEW x \in 0..n, NEW s \in 0..n
    PROVE  Ahead(x, s) = 1 <=> x = s + 1
<1>. DEFINE y == x + SeqMod - s
<1>1. SeqMod \in Nat \ {0} /\ y \in 0..2*SeqMod-1 /\ n + 1 < SeqMod
  BY Sizes, SMT
<1>2. y < SeqMod => x < s /\ 1 < y
  BY <1>1, SMT
<1>3. ~(y < SeqMod) => (y - SeqMod = 1 <=> x = s + 1)
  BY <1>1, SMT
<1>4. y < SeqMod => y # 1 /\ x # s + 1
  BY <1>1, <1>2, SMT
<1>. HIDE DEF y
<1>5. y % SeqMod = IF y < SeqMod THEN y ELSE y - SeqMod
  BY <1>1, OnceRound
<1>6. Ahead(x, s) = y % SeqMod
  BY DEF Ahead, y
<1>. QED BY <1>3, <1>4, <1>5, <1>6

LEMMA HeadOfNumbered ==
    ASSUME NEW b \in Seq(Frame), b # <<>>, Datum(b[1]), NEW y, Numbered(b, y)
    PROVE  b[1].scon.n < y \/ (b[1].scon.n = y /\ b[1].data = y)
<1>1. PICK k \in 1..Len(b) : /\ b[k].data = y /\ b[k].scon.n = y
                             /\ \A i \in 1..k-1 : Datum(b[i]) => b[i].scon.n < y
  BY DEF Numbered
<1>2. k = 1 \/ 1 \in 1..k-1
  BY LenProperties, SMT
<1>. QED BY <1>1, <1>2

(* In state Connected the frame with the next number has the next data.    *)
LEMMA NextIsNumbered ==
    ASSUME NEW n \in Nat, n + Threshold <= SeqMod, NEW s \in 0..n, NEW f \in FrameUpTo(n),
           f.scon.n <= n, Datum(f),
           NEW b, NEW d, Takes(b, f, d), \A x \in s+1..n : Numbered(b, x)
    PROVE  /\ Ahead(f.scon.n, s) = 1 => f.scon.n = s + 1 /\ f.data = s + 1
           /\ \A x \in s+1..n : Ahead(f.scon.n, s) = 1 \/ b[1].data # x \/ b[1].scon.n # x
<1>. DEFINE a == f.scon.n
<1>1. a \in 0..n
  <2>1. f.scon.n \in Nat
    BY Sizes, SMT DEF FrameUpTo, Con
  <2>. QED BY <2>1, SMT
<1>2. Ahead(a, s) = 1 <=> a = s + 1
  BY <1>1, NextIsOneMore
<1>3. b[1] = f /\ \A y \in s+1..n : a < y \/ (a = y /\ f.data = y)
  BY HeadOfNumbered DEF Takes
<1>. HIDE DEF a
<1>4. a = s + 1 => f.data = s + 1
  <2>1. a = s + 1 => s + 1 \in s+1..n /\ ~(a < s + 1)
    BY <1>1, SMT
  <2>. QED BY <1>3, <2>1
<1>5. ASSUME NEW x \in s+1..n, a # s + 1 PROVE a # x
  <2>1. a = x => s + 1 \in s+1..n /\ ~(a < s + 1)
    BY <1>1, <1>5, SMT
  <2>. QED BY <1>3, <1>5, <2>1
<1>. QED BY <1>2, <1>3, <1>4, <1>5 DEF a

LEMMA HeardKnown ==
    ASSUME NEW n \in Nat, NEW g \in Seq(1..n), NEW l, NEW x
    PROVE  Known(g, l) \subseteq Known(Heard(g, x), l) /\ Range(g) \subseteq Range(Heard(g, x))
BY KnownGrows DEF Heard

LEMMA HeardNext ==
    ASSUME NEW n \in Nat, NEW g \in Seq(1..n), NEW s \in Known(g, {})
    PROVE  s + 1 \in Known(Heard(g, s + 1), {})
<1>1. s \in 0..n /\ 1..s \subseteq Range(g)
  BY KnownWasSent
<1>2. Heard(g, s + 1) = Append(g, s + 1)
  BY <1>1, SMT DEF Heard, None
<1>3. Range(g) \subseteq Range(Append(g, s + 1)) /\ s + 1 \in Range(Append(g, s + 1))
  BY KnownGrows
<1>4. s + 1 \in Nat /\ \A x \in 1..s+1 : x \in 1..s \/ x = s + 1
  BY <1>1, SMT
<1>. QED BY <1>1, <1>2, <1>3, <1>4 DEF Known

LEMMA ConnectedHeld ==
    ASSUME NEW m \in Nat, NEW n \in Nat, n + Threshold <= SeqMod, NEW k \in ConUpTo(m), Codes(k),
           k.st = "Connected", NEW b, NEW f \in FrameUpTo(n), NEW d, Takes(b, f, d), Datum(f),
           NEW c \in Seq(Frame), NEW t \in Stages, NEW g \in Seq(1..n), NEW l, NEW H,
           Sane(k, m, b, n, c, t, g, l, H)
    PROVE  LET r == FrameRec(k, f, TRUE)
           IN  Held(r.con, r.out, m, d, n, c, t, Heard(g, r.data), l) /\ r.again = FALSE
<1>. DEFINE r == FrameRec(k, f, TRUE)
            s == k.send.n
            x == IF IsNext(k, f) THEN f.data ELSE None
            G == Known(Heard(g, x), l)
            h == c \o r.out
<1>1. b \in Seq(Frame) /\ d \in Seq(Frame) /\ b # <<>> /\ Shifted(b, d, 1) /\ 1 \in 1..Len(b)
  <2>1. b \in Seq(Frame) /\ b # <<>>
    BY DEF Takes
  <2>2. 1 \in 1..Len(b)
    BY <2>1, NotEmpty, SMT
  <2>. QED BY <2>1, <2>2 DEF Takes
<1>2. Opened(k) /\ Stage(k) = "Open" /\ k.st # "Idle"
  BY DEF Opened, Stage
<1>3. /\ Handshake("Open", m, b, t, c) /\ Handshake(t, n, c, "Open", b)
      /\ Grounded(k, m, Known(g, l)) /\ Says(b, n, H) /\ (l = {} => Arriving(k, n, b))
  BY <1>2 DEF Sane
<1>4. s \in Known(g, l) /\ s \in Nat
  <2>1. k.send \in Con
    BY DEF ConUpTo
  <2>. QED BY <1>2, <1>3, <2>1, Sizes, SMT DEF Grounded, Con
<1>5. f.scon.n <= n /\ f.scon.n \in Nat
  <2>1. f = b[1]
    BY DEF Takes
  <2>2. f.scon.n \in Nat
    BY Sizes, SMT DEF FrameUpTo, Con
  <2>. QED BY <1>1, <1>3, <2>1, <2>2 DEF Says, Worded
<1>6. ASSUME l = {}
      PROVE  /\ s \in 0..n
             /\ IsNext(k, f) => f.scon.n = s + 1 /\ f.data = s + 1
             /\ \A y \in s+1..n : IsNext(k, f) \/ b[1].data # y \/ b[1].scon.n # y
  <2>1. s \in 0..n
    BY <1>4, <1>6, KnownWasSent
  <2>2. \A y \in s+1..n : Numbered(b, y)
    BY <1>2, <1>3, <1>6 DEF Arriving, From
  <2>. HIDE DEF s
  <2>3. /\ Ahead(f.scon.n, s) = 1 => f.scon.n = s + 1 /\ f.data = s + 1
        /\ \A y \in s+1..n : Ahead(f.scon.n, s) = 1 \/ b[1].data # y \/ b[1].scon.n # y
    BY <1>5, <2>1, <2>2, NextIsNumbered
  <2>. QED BY <2>1, <2>3 DEF IsNext, s
<1>7. Known(g, l) \subseteq G
  BY HeardKnown
<1>8. IsNext(k, f) => f.scon.n \in G
  <2>1. CASE l = {}
    BY <1>4, <1>6, <2>1, HeardNext
  <2>2. CASE l # {}
    BY <1>5, <2>2 DEF Known
  <2>. QED BY <2>1, <2>2
<1>9. r = ConnectedFrame(k, f, TRUE)
  BY DEF FrameRec
<1>. HIDE DEF r, s, G, x
<1>10. /\ Opened(r.con) /\ Grounded(r.con, m, G) /\ Talks(r.out, m, G)
       /\ r.data = x /\ r.con.send.n = (IF IsNext(k, f) THEN f.scon.n ELSE k.send.n)
       /\ r.again = FALSE
  BY <1>3, <1>7, <1>8, <1>9, ConnectedTalks DEF x
<1>11. r.out \in Seq(Frame) /\ Longer(c, h, r.out) /\ h \in Seq(Frame)
  <2>. DEFINE out == r.out
  <2>1. out \in Seq(Frame)
    <3>1. Handles(k, r, m, n)
      BY FrameHandles DEF r
    <3>2. out \in Seq(FrameUpTo(m))
      BY <3>1 DEF Handles, Answer
    <3>. HIDE DEF out
    <3>. QED BY <3>2, FramesOfNode
  <2>. HIDE DEF out
  <2>2. Longer(c, c \o out, out) /\ c \o out \in Seq(Frame)
    BY <2>1, Lengthens, Sequences
  <2>. QED BY <2>1, <2>2 DEF out
<1>12. Says(r.out, m, G) /\ \A i \in 1..Len(r.out) : Datum(r.out[i]) /\ ~Hello(r.out[i])
  BY <1>10, TalksSays
<1>. HIDE DEF h
<1>13. Handshake("Open", m, d, t, h) /\ Handshake(t, n, h, "Open", d)
  <2>. DEFINE out == r.out
  <2>1. out \in Seq(Frame) /\ Longer(c, h, out) /\ \A i \in 1..Len(out) : Datum(out[i])
    BY <1>11, <1>12
  <2>. HIDE DEF out
  <2>2. Exchange("Open", m, b, d, 1, t, n, c, out, h)
    BY <1>1, <1>3, <1>11, <2>1 DEF Exchange, Stages
  <2>3. \A i \in 1..Len(out) : Datum(out[i])
    BY <2>1
  <2>. QED BY <2>2, <2>3, HandshakeStays
<1>14. Stage(r.con) = "Open"
  BY <1>10 DEF Stage
<1>15. ASSUME l = {} PROVE Arriving(r.con, n, d)
  <2>1. Arriving(k, n, b)
    BY <1>3, <1>15
  <2>2. From(k) = s /\ From(r.con) = IF IsNext(k, f) THEN f.scon.n ELSE s
    BY <1>2, <1>10 DEF From, s
  <2>3. \A y \in From(r.con)+1..n : y \in From(k)+1..n /\ (b[1].data # y \/ b[1].scon.n # y)
    <3>1. CASE IsNext(k, f)
      <4>1. From(r.con) = s + 1 /\ b[1].scon.n = s + 1
        BY <1>6, <1>15, <2>2, <3>1 DEF Takes
      <4>2. \A y \in (s + 1)+1..n : y \in s+1..n /\ y # s + 1
        BY <1>6, <1>15, SMT
      <4>. QED BY <2>2, <4>1, <4>2
    <3>2. CASE ~IsNext(k, f)
      BY <1>6, <1>15, <2>2, <3>2
    <3>. QED BY <3>1, <3>2
  <2>. QED BY <1>1, <1>2, <2>1, <2>3, ArrivingTaken
<1>16. r.data = x /\ Known(Heard(g, r.data), l) = G
  BY <1>10 DEF G
<1>. QED BY <1>10, <1>12, <1>13, <1>14, <1>15, <1>16 DEF Held, r, h

LEMMA WaitAckHeld ==
    ASSUME NEW m \in Nat, NEW n \in Nat, NEW k \in ConUpTo(m), Codes(k),
           k.st = "WaitAck", NEW b, NEW f \in FrameUpTo(n), NEW d, Takes(b, f, d), Datum(f),
           NEW c \in Seq(Frame), NEW t \in Stages, NEW g \in Seq(1..n), NEW l, NEW H,
           Sane(k, m, b, n, c, t, g, l, H)
    PROVE  LET r == FrameRec(k, f, TRUE)
           IN  /\ Held(r.con, r.out, m, d, n, c, t, g,
                       IF r.data = None THEN l ELSE l \cup {r.data})
               /\ r.again = FALSE
<1>. DEFINE r == FrameRec(k, f, TRUE)
            L == IF r.data = None THEN l ELSE l \cup {r.data}
            G == Known(g, L)
            h == c \o r.out
<1>1. b \in Seq(Frame) /\ d \in Seq(Frame) /\ b # <<>> /\ Shifted(b, d, 1) /\ 1 \in 1..Len(b)
  <2>1. b \in Seq(Frame) /\ b # <<>>
    BY DEF Takes
  <2>2. 1 \in 1..Len(b)
    BY <2>1, NotEmpty, SMT
  <2>. QED BY <2>1, <2>2 DEF Takes
<1>2. Opened(k) /\ Stage(k) = "Open" /\ k.st # "Idle"
  BY DEF Opened, Stage
<1>3. /\ Handshake("Open", m, b, t, c) /\ Handshake(t, n, c, "Open", b)
      /\ Grounded(k, m, Known(g, l)) /\ Says(b, n, H) /\ (l = {} => Arriving(k, n, b))
  BY <1>2 DEF Sane
<1>4. f.rcon.c = 3 => f.data = None
  <2>1. f = b[1]
    BY DEF Takes
  <2>. QED BY <1>1, <1>3, <2>1 DEF Says, Worded
<1>5. r = WaitAckFrame(k, f, TRUE)
  BY DEF FrameRec
<1>6. Grounded(k, m, G)
  <2>1. Known(g, l) \subseteq G
    BY KnownGrows
  <2>. QED BY <1>3, <2>1, GroundedMore
<1>. HIDE DEF r, L, G
<1>7. /\ Opened(r.con) /\ Grounded(r.con, m, G) /\ Talks(r.out, m, G)
      /\ r.data = (IF f.rcon.c = 2 THEN f.data ELSE None) /\ r.con.send = k.send
      /\ r.again = FALSE
  BY <1>5, <1>6, WaitAckTalks
<1>8. r.out \in Seq(Frame) /\ Longer(c, h, r.out) /\ h \in Seq(Frame)
  <2>. DEFINE out == r.out
  <2>1. out \in Seq(Frame)
    <3>1. Handles(k, r, m, n)
      BY FrameHandles DEF r
    <3>2. out \in Seq(FrameUpTo(m))
      BY <3>1 DEF Handles, Answer
    <3>. HIDE DEF out
    <3>. QED BY <3>2, FramesOfNode
  <2>. HIDE DEF out
  <2>2. Longer(c, c \o out, out) /\ c \o out \in Seq(Frame)
    BY <2>1, Lengthens, Sequences
  <2>. QED BY <2>1, <2>2 DEF out
<1>9. Says(r.out, m, G) /\ \A i \in 1..Len(r.out) : Datum(r.out[i]) /\ ~Hello(r.out[i])
  BY <1>7, TalksSays
<1>. HIDE DEF h
<1>10. Handshake("Open", m, d, t, h) /\ Handshake(t, n, h, "Open", d)
  <2>. DEFINE out == r.out
  <2>1. out \in Seq(Frame) /\ Longer(c, h, out) /\ \A i \in 1..Len(out) : Datum(out[i])
    BY <1>8, <1>9
  <2>. HIDE DEF out
  <2>2. Exchange("Open", m, b, d, 1, t, n, c, out, h)
    BY <1>1, <1>3, <1>8, <2>1 DEF Exchange, Stages
  <2>3. \A i \in 1..Len(out) : Datum(out[i])
    BY <2>1
  <2>. QED BY <2>2, <2>3, HandshakeStays
<1>11. Stage(r.con) = "Open"
  BY <1>7 DEF Stage
<1>12. ASSUME L = {} PROVE Arriving(r.con, n, d)
  <2>1. l = {} /\ r.data = None
    BY <1>12 DEF L
  <2>2. Arriving(k, n, b)
    BY <1>3, <2>1
  <2>3. From(r.con) = From(k) /\ From(k) \in Nat
    <3>1. k.send \in Con
      BY DEF ConUpTo
    <3>. QED BY <1>2, <1>7, <3>1, Sizes, SMT DEF From, Con
  <2>4. b[1].data = None
    BY <1>4, <1>7, <2>1 DEF Takes, Datum
  <2>5. \A y \in From(k)+1..n : y # None
    BY <2>3, SMT DEF None
  <2>6. \A y \in From(r.con)+1..n : y \in From(k)+1..n /\ b[1].data # y
    BY <2>3, <2>4, <2>5
  <2>. QED BY <1>1, <1>2, <2>2, <2>6, ArrivingTaken
<1>. QED BY <1>7, <1>9, <1>10, <1>11, <1>12 DEF Held, r, h, G, L

(* A node takes a frame, whatever it is.                                   *)
LEMMA FrameHeld ==
    ASSUME NEW m \in Nat, NEW n \in Nat, n + Threshold <= SeqMod, NEW k \in ConUpTo(m), Codes(k),
           NEW b, NEW f \in FrameUpTo(n), NEW d, Takes(b, f, d),
           NEW c \in Seq(Frame), NEW t \in Stages, NEW g \in Seq(1..n), NEW l, NEW H,
           Sane(k, m, b, n, c, t, g, l, H)
    PROVE  LET r == FrameRec(k, f, TRUE)
               x == IF k.st = "WaitAck" THEN None ELSE r.data
               y == IF k.st = "WaitAck" THEN r.data ELSE None
           IN  /\ Held(r.con, r.out, m, d, n, c, t, Heard(g, x), IF y = None THEN l ELSE l \cup {y})
               /\ r.again = FALSE /\ (Opened(k) /\ Opened(r.con) => Datum(f))
<1>. DEFINE r == FrameRec(k, f, TRUE)
            x == IF k.st = "WaitAck" THEN None ELSE r.data
            y == IF k.st = "WaitAck" THEN r.data ELSE None
            s == Stage(k)
<1>1. b \in Seq(Frame) /\ d \in Seq(Frame) /\ b # <<>> /\ Shifted(b, d, 1) /\ 1 \in 1..Len(b)
  <2>1. b \in Seq(Frame) /\ b # <<>>
    BY DEF Takes
  <2>2. 1 \in 1..Len(b)
    BY <2>1, NotEmpty, SMT
  <2>. QED BY <2>1, <2>2 DEF Takes
<1>2. f = b[1]
  BY DEF Takes
<1>3. /\ s \in Stages /\ (s = "Open" <=> Opened(k)) /\ (~Opened(k) => s = k.st)
      /\ (s = "Idle" <=> k.st = "Idle")
  BY StageOfRecord
<1>4. r.out \in Seq(Frame)
  <2>. DEFINE out == r.out
  <2>1. Handles(k, r, m, n)
    BY FrameHandles
  <2>. HIDE DEF r
  <2>2. out \in Seq(FrameUpTo(m))
    BY <2>1 DEF Handles, Answer
  <2>. HIDE DEF out
  <2>3. out \in Seq(Frame)
    BY <2>2, FramesOfNode
  <2>. QED BY <2>3 DEF out
<1>5. Heard(g, None) = g
  BY DEF Heard
<1>. HIDE DEF r, s
<1>6. ASSUME Closes(r), k.st = "Idle" => ~Hello(f)
      PROVE  /\ Held(r.con, r.out, m, d, n, c, t, Heard(g, x), IF y = None THEN l ELSE l \cup {y})
             /\ r.again = FALSE /\ (Opened(k) /\ Opened(r.con) => Datum(f))
  <2>1. x = None /\ y = None /\ r.again = FALSE /\ ~Opened(r.con)
    BY <1>6 DEF Closes, Opened
  <2>2. Held(r.con, r.out, m, d, n, c, t, g, l)
    <3>1. k.st = "Idle" => IF 1 = 0 THEN r.out = <<>> ELSE ~Hello(b[1])
      BY <1>2, <1>6
    <3>. QED BY <1>1, <1>4, <1>6, <3>1, ClosesHeld
  <2>. QED BY <1>5, <2>1, <2>2
<1>7. CASE Bye(f)
  <2>1. Closes(r)
    BY <1>7, ByeIsTaken DEF r
  <2>. QED BY <1>6, <1>7, <2>1, Kinds DEF r
<1>8. CASE k.st = "Idle" /\ ~Hello(f)
  <2>1. Closes(r)
    BY <1>8, IdleAnswersBye DEF r
  <2>. QED BY <1>6, <1>8, <2>1 DEF r
<1>9. ASSUME NEW next, Greets(k.st, f, next)
      PROVE  /\ Held(r.con, r.out, m, d, n, c, t, Heard(g, x), IF y = None THEN l ELSE l \cup {y})
             /\ r.again = FALSE /\ (Opened(k) /\ Opened(r.con) => Datum(f))
  <2>1. Held(r.con, r.out, m, d, n, c, t, g, l) /\ r.data = None /\ r.again = FALSE
    BY <1>9, GreetsHeld DEF r
  <2>2. ~Opened(k) /\ x = None /\ y = None
    BY <1>9, <2>1 DEF Greets, Opened
  <2>. QED BY <1>5, <2>1, <2>2
<1>10. CASE k.st = "Init3" /\ Opening(f)
  <2>1. Held(r.con, r.out, m, d, n, c, t, g, l) /\ r.data = None /\ r.again = FALSE
    BY <1>10, OpensHeld DEF r
  <2>2. ~Opened(k) /\ x = None /\ y = None
    BY <1>10, <2>1 DEF Opened
  <2>. QED BY <1>5, <2>1, <2>2 DEF r
<1>11. CASE k.st = "Connected" /\ Datum(f)
  <2>1. Held(r.con, r.out, m, d, n, c, t, Heard(g, r.data), l) /\ r.again = FALSE
    BY <1>11, ConnectedHeld DEF r
  <2>2. x = r.data /\ y = None
    BY <1>11
  <2>. QED BY <1>11, <2>1, <2>2 DEF r
<1>12. CASE k.st = "WaitAck" /\ Datum(f)
  <2>1. /\ Held(r.con, r.out, m, d, n, c, t, g, IF r.data = None THEN l ELSE l \cup {r.data})
        /\ r.again = FALSE
    BY <1>12, WaitAckHeld DEF r
  <2>2. y = r.data /\ x = None
    BY <1>12
  <2>. QED BY <1>5, <1>12, <2>1, <2>2 DEF r
<1>13. \/ Bye(f) \/ (k.st = "Idle" /\ ~Hello(f)) \/ (\E next : Greets(k.st, f, next))
       \/ (k.st = "Init3" /\ Opening(f)) \/ (k.st = "Connected" /\ Datum(f))
       \/ (k.st = "WaitAck" /\ Datum(f))
  <2>1. Handshake(s, m, b, t, c)
    BY DEF Sane, s
  <2>2. s # "Idle" => Bye(f) \/ Awaited(s, f)
    BY <1>1, <1>2, <2>1 DEF Handshake, Expects
  <2>3. s = "Init3" => Bye(f) \/ Opening(f)
    BY <1>1, <1>2, <2>1 DEF Handshake, Expects
  <2>4. CASE s = "Idle"
    BY <1>3, <2>4, Zenon DEF Greets
  <2>5. CASE s = "Init1"
    <3>1. k.st = "Init1" /\ (Bye(f) \/ Reply(f))
      BY <1>3, <2>2, <2>5 DEF Awaited
    <3>. QED BY <3>1, Zenon DEF Greets
  <2>6. CASE s = "Init2"
    <3>1. k.st = "Init2" /\ (Bye(f) \/ Finish(f))
      BY <1>3, <2>2, <2>6 DEF Awaited
    <3>. QED BY <3>1, Zenon DEF Greets
  <2>7. CASE s = "Init3"
    BY <1>3, <2>3, <2>7
  <2>8. CASE s = "Open"
    <3>1. Opened(k) /\ (Bye(f) \/ Datum(f))
      BY <1>3, <2>2, <2>8 DEF Awaited
    <3>. QED BY <3>1 DEF Opened
  <2>. QED BY <1>3, <2>4, <2>5, <2>6, <2>7, <2>8 DEF Stages
<1>. QED BY <1>7, <1>8, <1>9, <1>10, <1>11, <1>12, <1>13 DEF r

(* The same with the acknowledgement applied before, as receiveCb() does.  *)
LEMMA ReceivedHeld ==
    ASSUME NEW m \in Nat, NEW n \in Nat, n + Threshold <= SeqMod, NEW k \in ConUpTo(m), Codes(k),
           NEW b, NEW f \in FrameUpTo(n), NEW d, Takes(b, f, d),
           NEW c \in Seq(Frame), NEW t \in Stages, NEW g \in Seq(1..n), NEW l, NEW H,
           Sane(k, m, b, n, c, t, g, l, H)
    PROVE  LET r == Result(Acknowledge(k, f), f, TRUE)
               x == IF k.st = "WaitAck" THEN None ELSE r.data
               y == IF k.st = "WaitAck" THEN r.data ELSE None
           IN  /\ Held(r.con, r.out, m, d, n, c, t, Heard(g, x), IF y = None THEN l ELSE l \cup {y})
               /\ Opened(k) /\ Opened(r.con) => Datum(f)
<1>. DEFINE j == Acknowledge(k, f)
            r == FrameRec(j, f, TRUE)
<1>1. /\ j \in ConUpTo(m) /\ j.st = k.st /\ j.recv = k.recv /\ j.send = k.send
      /\ Codes(j)
      /\ \A K : Grounded(k, m, K) => Grounded(j, m, K)
  <2>1. ASSUME NEW K, Grounded(k, m, K) PROVE Grounded(j, m, K)
    BY <2>1, AcknowledgeTalks
  <2>2. Grounded(k, m, Known(g, l))
    BY DEF Sane
  <2>. QED BY <2>1, <2>2, AcknowledgeTalks
<1>. HIDE DEF j
<1>2. Stage(j) = Stage(k) /\ Opened(j) = Opened(k) /\ From(j) = From(k)
  BY <1>1 DEF Stage, Opened, From
<1>3. Sane(j, m, b, n, c, t, g, l, H)
  BY <1>1, <1>2 DEF Sane, Arriving
<1>4. /\ Held(r.con, r.out, m, d, n, c, t,
              Heard(g, IF j.st = "WaitAck" THEN None ELSE r.data),
              IF (IF j.st = "WaitAck" THEN r.data ELSE None) = None THEN l
              ELSE l \cup {IF j.st = "WaitAck" THEN r.data ELSE None})
      /\ r.again = FALSE /\ (Opened(j) /\ Opened(r.con) => Datum(f))
  BY <1>1, <1>3, FrameHeld
<1>5. Result(j, f, TRUE) = r
  BY <1>4 DEF Result
<1>. HIDE DEF r
<1>. QED BY <1>1, <1>2, <1>4, <1>5 DEF j

(* An acknowledged number is not below the number it strikes.              *)
LEMMA AckedNotBelow ==
    ASSUME NEW m \in Nat, m + Threshold <= SeqMod, NEW x \in 0..m, NEW y \in 0..m,
           Ahead(x, y) < Threshold
    PROVE  y <= x
<1>. DEFINE z == x + SeqMod - y
<1>1. SeqMod \in Nat \ {0} /\ Threshold \in Nat /\ z \in 0..2*SeqMod-1
  BY Sizes, SMT
<1>2. ~(y <= x) => z < SeqMod /\ ~(z < Threshold)
  BY <1>1, SMT
<1>. HIDE DEF z
<1>3. z % SeqMod = IF z < SeqMod THEN z ELSE z - SeqMod
  BY <1>1, OnceRound
<1>4. Ahead(x, y) = z % SeqMod
  BY DEF Ahead, z
<1>. QED BY <1>2, <1>3, <1>4

(* What an acknowledgement strikes has been delivered.                     *)
LEMMA StruckWasHeard ==
    ASSUME NEW m \in Nat, m + Threshold <= SeqMod, NEW n \in Nat, NEW k \in ConUpTo(m),
           NEW f \in FrameUpTo(n), NEW K, Grounded(k, m, K),
           NEW g \in Seq(1..m), f.rcon.n \in Known(g, {})
    PROVE  HistoryData(k) \ HistoryData(Acknowledge(k, f)) \subseteq Range(g)
<1>. DEFINE j == Acknowledge(k, f)
<1>1. \A i \in Ring : \/ j.hist.fr[i] = k.hist.fr[i]
                      \/ /\ j.hist.fr[i].data = None
                         /\ Ahead(f.rcon.n, k.hist.fr[i].scon.n) < Threshold
  BY AcknowledgeTalks
<1>. HIDE DEF j
<1>2. f.rcon.n \in 0..m /\ 1..f.rcon.n \subseteq Range(g)
  BY KnownWasSent
<1>. SUFFICES ASSUME NEW i \in Ring, k.hist.fr[i].data # None,
                     k.hist.fr[i].data \notin HistoryData(j)
     PROVE  k.hist.fr[i].data \in Range(g)
  BY Zenon DEF HistoryData, j
<1>3. j.hist.fr[i] # k.hist.fr[i]
  BY DEF HistoryData
<1>4. Ahead(f.rcon.n, k.hist.fr[i].scon.n) < Threshold
  BY <1>1, <1>3
<1>. DEFINE y == k.hist.fr[i].scon.n
<1>5. k.hist.fr[i].data = y /\ y <= m /\ y \in Nat /\ y # 0
  <2>1. k.hist.fr[i].data = y /\ y <= m
    BY DEF Grounded, Carries
  <2>2. k.hist.fr[i] \in FrameUpTo(m)
    BY DEF ConUpTo, Hist
  <2>3. y \in Nat
    BY <2>2, Sizes, SMT DEF FrameUpTo, Con
  <2>. QED BY <2>1, <2>3 DEF None
<1>. HIDE DEF y
<1>6. y \in 0..m /\ Ahead(f.rcon.n, y) < Threshold
  BY <1>4, <1>5, SMT DEF y
<1>7. y <= f.rcon.n
  BY <1>2, <1>6, AckedNotBelow
<1>8. y \in 1..f.rcon.n
  BY <1>2, <1>5, <1>7, SMT
<1>. QED BY <1>2, <1>5, <1>8

(* What holds between a node with record k, which has sent m frames, of    *)
(* which A are acknowledged, and delivered g and l, and its peer with      *)
(* record j, which has sent n frames and delivered G and L.                *)
Sided(k, m, b, n, c, j, g, l, G, L, A) ==
    /\ Sane(k, m, b, n, c, Stage(j), g, l, Known(G, L))
    /\ L = {} => A \subseteq Range(G)

(* What the frames on the way say stays true when the sender goes on.      *)
LEMMA SaysOn ==
    ASSUME NEW m \in Nat, NEW o \in Nat, m <= o, NEW c \in Seq(Frame), NEW h, NEW out,
           Longer(c, h, out), NEW K, NEW M, K \subseteq M, Says(c, m, K), Says(out, o, M)
    PROVE  Says(h, o, M)
<1>1. \A v \in 1..Len(c) : c[v].scon.n \in Nat
  <2>1. \A v \in 1..Len(c) : c[v] \in Frame
    BY ElementOfSeq
  <2>. QED BY <2>1, Sizes, SMT DEF Frame, Con
<1>2. Says(c, o, M)
  BY <1>1, SaysMore
<1>. QED BY <1>2, SaysLonger

LEMMA OwnAfter ==
    ASSUME NEW m, NEW n, NEW k, NEW i, NEW b, NEW d, NEW e, Shifted(b, d, e),
           NEW c, NEW out, NEW t, NEW g, NEW l, NEW x, NEW y, NEW H,
           Sane(k, m, b, n, c, t, g, l, H), Held(i, out, m, d, n, c, t, x, y)
    PROVE  Sane(i, m, d, n, c \o out, t, x, y, H)
<1>1. Says(b, n, H)
  BY DEF Sane
<1>2. Says(d, n, H)
  BY <1>1, SaysShifted
<1>. QED BY <1>2 DEF Held, Sane

LEMMA PeerAfter ==
    ASSUME NEW m \in Nat, NEW n, NEW i, NEW j, NEW b, NEW d, NEW s,
           NEW c \in Seq(Frame), NEW out \in Seq(Frame),
           NEW g, NEW l, NEW x, NEW y, NEW G, NEW L,
           Sane(j, n, c, m, b, s, G, L, Known(g, l)),
           Held(i, out, m, d, n, c, Stage(j), x, y), Known(g, l) \subseteq Known(x, y)
    PROVE  Sane(j, n, c \o out, m, d, Stage(i), G, L, Known(x, y))
<1>. DEFINE h == c \o out
<1>1. Longer(c, h, out) /\ h \in Seq(Frame)
  BY Lengthens, Sequences
<1>. HIDE DEF h
<1>2. /\ Handshake(Stage(i), m, d, Stage(j), h) /\ Handshake(Stage(j), n, h, Stage(i), d)
      /\ Says(out, m, Known(x, y)) /\ \A v \in 1..Len(out) : ~Hello(out[v])
  BY DEF Held, h
<1>3. L = {} => Arriving(j, m, h)
  <2>1. L = {} => Arriving(j, m, c)
    BY DEF Sane
  <2>2. Len(h) \in Nat /\ Len(c) <= Len(h)
    <3>1. Len(h) = Len(c) + Len(out) /\ Len(c) \in Nat /\ Len(out) \in Nat
      BY <1>1, NotEmpty DEF Longer
    <3>. QED BY <3>1, SMT
  <2>. QED BY <1>1, <1>2, <2>1, <2>2, ArrivingLonger
<1>4. Grounded(j, n, Known(G, L)) /\ Says(c, m, Known(g, l))
  BY DEF Sane
<1>5. Says(h, m, Known(x, y))
  <2>1. m <= m
    BY SMT
  <2>. QED BY <1>1, <1>2, <1>4, <2>1, SaysOn
<1>6. Sane(j, n, h, m, d, Stage(i), G, L, Known(x, y))
  BY <1>2, <1>3, <1>4, <1>5 DEF Sane
<1>. QED BY <1>6 DEF h

(* A step without a frame: the connection is closed, or it stays open and  *)
(* the numbers heard stay the same.                                        *)
Idles(k, m, K, r) ==
    \/ Closes(r) /\ (k.st = "Idle" => r.out = <<>>)
    \/ /\ Opened(k) /\ Opened(r.con) /\ Grounded(r.con, m, K) /\ Talks(r.out, m, K)
       /\ r.con.send = k.send

LEMMA OpenArriving ==
    ASSUME NEW k, NEW i, Opened(k), Opened(i), i.send = k.send, NEW n, NEW b, Arriving(k, n, b)
    PROVE  Arriving(i, n, b)
<1>1. k.st # "Idle" /\ i.st # "Idle" /\ From(i) = From(k)
  BY DEF Opened, From
<1>. QED BY <1>1 DEF Arriving

LEMMA IdlesHeld ==
    ASSUME NEW m \in Nat, NEW n \in Nat, NEW k \in ConUpTo(m), NEW b \in Seq(Frame),
           NEW c \in Seq(Frame), NEW t \in Stages, NEW g, NEW l, NEW H,
           Sane(k, m, b, n, c, t, g, l, H), NEW r, r.out \in Seq(Frame),
           Idles(k, m, Known(g, l), r)
    PROVE  Held(r.con, r.out, m, b, n, c, t, g, l)
<1>1. Shifted(b, b, 0)
  BY Shifts
<1>2. CASE Closes(r) /\ (k.st = "Idle" => r.out = <<>>)
  <2>1. k.st = "Idle" => IF 0 = 0 THEN r.out = <<>> ELSE ~Hello(b[1])
    BY <1>2
  <2>. QED BY <1>1, <1>2, <2>1, ClosesHeld
<1>3. CASE /\ Opened(k) /\ Opened(r.con) /\ Grounded(r.con, m, Known(g, l))
           /\ Talks(r.out, m, Known(g, l)) /\ r.con.send = k.send
  <2>. DEFINE out == r.out
              h == c \o out
  <2>1. out \in Seq(Frame) /\ Says(out, m, Known(g, l))
        /\ \A i \in 1..Len(out) : Datum(out[i]) /\ ~Hello(out[i])
    BY <1>3, TalksSays
  <2>2. Stage(k) = "Open" /\ Stage(r.con) = "Open"
    BY <1>3 DEF Stage
  <2>3. Handshake("Open", m, b, t, c) /\ Handshake(t, n, c, "Open", b) /\ (l = {} => Arriving(k, n, b))
    BY <2>2 DEF Sane
  <2>. HIDE DEF out
  <2>4. Longer(c, h, out) /\ h \in Seq(Frame)
    BY <2>1, Lengthens, Sequences
  <2>. HIDE DEF h
  <2>5. Exchange("Open", m, b, b, 0, t, n, c, out, h)
    BY <1>1, <2>1, <2>3, <2>4 DEF Exchange, Stages
  <2>6. Handshake("Open", m, b, t, h) /\ Handshake(t, n, h, "Open", b)
    BY <2>1, <2>5, HandshakeStays
  <2>7. l = {} => Arriving(r.con, n, b)
    BY <1>3, <2>3, OpenArriving
  <2>. QED BY <1>3, <2>1, <2>2, <2>6, <2>7 DEF Held, out, h
<1>. QED BY <1>2, <1>3 DEF Idles

(* The steps that take no frame: an expired timer, a connection closed by  *)
(* the application, an acknowledgement.                                    *)
LEMMA TimeoutIdles ==
    ASSUME NEW m \in Nat, NEW k \in ConUpTo(m), Codes(k), NEW K, Grounded(k, m, K)
    PROVE  Idles(k, m, K, Timeout(k, TRUE))
<1>. DEFINE r == Timeout(k, TRUE)
<1>1. k.st = "Idle" => r.out = <<>>
  BY DEF Timeout, Done
<1>2. \/ Closes(r)
      \/ /\ Opened(k) /\ Opened(r.con) /\ Grounded(r.con, m, K) /\ Talks(r.out, m, K)
         /\ r.con.send = k.send
  BY TimeoutTalks
<1>. HIDE DEF r
<1>. QED BY <1>1, <1>2 DEF Idles, r

LEMMA DeleteIdles ==
    ASSUME NEW m \in Nat, NEW k \in ConUpTo(m), NEW K
    PROVE  Idles(k, m, K, Wiped(IF k.st = "Connected" THEN CloseFrame(k) ELSE <<>>))
<1>. DEFINE f == Header(Closing(k), None)
<1>1. Bye(f)
  BY CloseFrameIsBye
<1>2. CloseFrame(k) = <<f>>
  BY DEF CloseFrame
<1>. HIDE DEF f
<1>3. Closes(Wiped(<<f>>)) /\ Closes(Wiped(<<>>))
  BY <1>1, ByeCloses
<1>4. Wiped(<<>>).out = <<>>
  BY DEF Wiped, Done
<1>. QED BY <1>2, <1>3, <1>4 DEF Idles

LEMMA AckIdles ==
    ASSUME NEW m \in Nat, NEW k \in ConUpTo(m), k.st = "Connected", Codes(k), NEW K, Grounded(k, m, K)
    PROVE  Idles(k, m, K, Done([k EXCEPT !.timer = 1], <<Header(k, None)>>))
<1>. DEFINE i == [k EXCEPT !.timer = 1]
            f == Header(k, None)
            r == Done(i, <<f>>)
<1>1. i.hist = k.hist /\ i.recv = k.recv /\ i.st = k.st /\ i.send = k.send
  BY DEF ConUpTo
<1>2. Opened(k) /\ k.recv.n = m /\ k.send.c = 2 /\ k.send.n \in K
  BY DEF Opened, Grounded
<1>3. f.scon = k.recv /\ f.rcon = k.send /\ f.data = None
  BY DEF Header
<1>4. Datum(f) /\ Worded(f, m, K)
  <2>1. k.recv.c \in {2, 3} /\ m <= m
    BY <1>2, SMT DEF Codes
  <2>. QED BY <1>2, <1>3, <2>1 DEF Datum, Worded
<1>5. r.con = i /\ r.out = <<f>>
  BY DEF Done
<1>. HIDE DEF i, f, r
<1>6. Opened(i) /\ Grounded(i, m, K)
  BY <1>1, <1>2 DEF Opened, Grounded
<1>7. Talks(<<f>>, m, K)
  BY <1>4, TalksOne
<1>8. Idles(k, m, K, r)
  BY <1>1, <1>2, <1>5, <1>6, <1>7 DEF Idles
<1>. QED BY <1>8 DEF r, f, i

(* The client's first step: it sends the first frame of the handshake.     *)
LEMMA HelloSided ==
    ASSUME NEW k, NEW i, NEW j, NEW f, k.st = "Idle", j.st = "Idle", i.st = "Init1", i.hist = k.hist,
           Hello(f), AtZero(f), NEW g, NEW l, NEW G, NEW L, NEW A, NEW B,
           Sided(k, 0, <<>>, 0, <<>>, j, g, l, G, L, A),
           Sided(j, 0, <<>>, 0, <<>>, k, G, L, g, l, B)
    PROVE  /\ Sided(i, 0, <<>>, 0, <<f>>, j, g, l, G, L, A)
           /\ Sided(j, 0, <<f>>, 0, <<>>, i, G, L, g, l, B)
<1>1. /\ Len(<<f>>) = 1 /\ 1..0 = {} /\ Len(<<>>) = 0 /\ 2..1 = {} /\ \A x \in 1..1 : <<f>>[x] = f /\ x = 1
      /\ 0+1..0 = {}
  BY OneFrame, SMT
<1>. DEFINE c == <<f>>
            e == <<>>
<1>2. /\ Len(c) = 1 /\ \A x \in 1..1 : c[x] = f /\ x = 1
      /\ Len(e) = 0
  BY <1>1
<1>3. ~Opened(k) /\ ~Opened(i) /\ ~Opened(j) /\ Stage(i) = "Init1" /\ Stage(j) = "Idle"
      /\ From(i) = 0 /\ From(j) = 0
  BY DEF Opened, Stage, From
<1>4. /\ Grounded(k, 0, Known(g, l)) /\ Grounded(j, 0, Known(G, L))
      /\ (L = {} => A \subseteq Range(G)) /\ (l = {} => B \subseteq Range(g))
  BY DEF Sided, Sane
<1>5. Grounded(i, 0, Known(g, l))
  BY <1>3, <1>4 DEF Grounded
<1>6. ~Bye(f) /\ ~Reply(f) /\ ~Finish(f) /\ ~Datum(f)
  BY Kinds
<1>. HIDE DEF c, e
<1>7. Handshake("Init1", 0, e, "Idle", c)
  <2>1. Fit("Init1", "Idle") /\ Leaves("Init1", c) /\ Called("Init1", 0, e, "Idle", c)
    BY <1>2, <1>6 DEF Fit, Leaves, Called
  <2>2. Expects("Init1", e, "Idle")
    BY <1>1, <1>2 DEF Expects
  <2>. QED BY <2>1, <2>2 DEF Handshake
<1>8. Handshake("Idle", 0, c, "Init1", e)
  <2>1. Fit("Idle", "Init1") /\ Leaves("Idle", e) /\ Expects("Idle", c, "Init1")
    BY <1>1, <1>2 DEF Fit, Leaves, Expects
  <2>2. e = <<>>
    BY DEF e
  <2>3. Called("Idle", 0, c, "Init1", e)
    BY <1>1, <1>2, <2>2 DEF Called
  <2>. QED BY <2>1, <2>3 DEF Handshake
<1>9. /\ \A H : Says(e, 0, H) /\ Says(c, 0, H)
      /\ Arriving(i, 0, e) /\ Arriving(j, 0, c)
  BY <1>1, <1>2, <1>3, <1>6 DEF Says, Arriving
<1>10. Sided(i, 0, e, 0, c, j, g, l, G, L, A)
  BY <1>3, <1>4, <1>5, <1>7, <1>8, <1>9 DEF Sided, Sane
<1>11. Sided(j, 0, c, 0, e, i, G, L, g, l, B)
  BY <1>3, <1>4, <1>7, <1>8, <1>9 DEF Sided, Sane
<1>. QED BY <1>10, <1>11 DEF c, e

(* Data is sent.                                                           *)
LEMMA DataSided ==
    ASSUME NEW m \in Nat, NEW n \in Nat, NEW k \in ConUpTo(m), k.st = "Connected", Codes(k),
           m + 1 < SeqMod, NEW j \in ConUpTo(n), NEW b \in Seq(Frame), NEW c \in Seq(Frame),
           NEW g, NEW l, NEW G, NEW L, NEW A, NEW B,
           Sided(k, m, b, n, c, j, g, l, G, L, A), Sided(j, n, c, m, b, k, G, L, g, l, B),
           ConnectedSend(k, m + 1, TRUE).out \in Seq(Frame)
    PROVE  LET r == ConnectedSend(k, m + 1, TRUE)
           IN  /\ Sided(r.con, m + 1, b, n, c \o r.out, j, g, l, G, L, A)
               /\ Sided(j, n, c \o r.out, m + 1, b, r.con, G, L, g, l, B)
<1>. DEFINE i == ConnectedSend(k, m + 1, TRUE).con
            out == ConnectedSend(k, m + 1, TRUE).out
            h == c \o out
            o == m + 1
            K == Known(g, l)
<1>1. /\ Handshake(Stage(k), m, b, Stage(j), c) /\ Handshake(Stage(j), n, c, Stage(k), b)
      /\ Grounded(k, m, K) /\ Grounded(j, n, Known(G, L)) /\ Says(b, n, Known(G, L)) /\ Says(c, m, K)
      /\ (L = {} => A \subseteq Range(G)) /\ (l = {} => B \subseteq Range(g))
      /\ (l = {} => Arriving(k, n, b)) /\ (L = {} => Arriving(j, m, c))
  BY DEF Sided, Sane
<1>2. /\ Opened(i) /\ Grounded(i, o, K) /\ Talks(out, o, K)
      /\ Len(out) = 1 /\ out[1].data = o /\ out[1].scon.n = o
      /\ i.send = k.send
  BY <1>1, SendTalks
<1>3. Stage(j) \in Stages /\ Stage(k) = "Open" /\ Stage(i) = "Open" /\ Opened(k)
  BY <1>2, StageOfRecord DEF Stage, Opened
<1>4. o \in Nat /\ m <= o
  BY SMT
<1>. HIDE DEF i, out, h, o, K
<1>5. out \in Seq(Frame)
  BY DEF out
<1>6. Longer(c, h, out) /\ h \in Seq(Frame) /\ Shifted(b, b, 0)
  BY <1>5, Lengthens, Shifts, Sequences DEF h
<1>7. Says(out, o, K) /\ \A x \in 1..Len(out) : Datum(out[x]) /\ ~Hello(out[x])
  BY <1>2, TalksSays
<1>8. Handshake("Open", o, b, Stage(j), h) /\ Handshake(Stage(j), n, h, "Open", b)
  <2>1. Exchange("Open", m, b, b, 0, Stage(j), n, c, out, h)
    BY <1>1, <1>3, <1>5, <1>6 DEF Exchange, Stages
  <2>. QED BY <1>7, <2>1, HandshakeStays
<1>9. Says(h, o, K)
  BY <1>1, <1>4, <1>6, <1>7, SaysOn
<1>10. l = {} => Arriving(i, n, b)
  BY <1>1, <1>2, <1>3, OpenArriving
<1>11. ASSUME L = {} PROVE Arriving(j, o, h)
  <2>1. Arriving(j, m, c)
    BY <1>1, <1>11
  <2>2. Hailed(h) => Hailed(c)
    BY <1>6, <1>7 DEF Hailed, Longer
  <2>3. Len(h) \in Nat /\ Len(c) <= Len(h)
    <3>1. Len(h) = Len(c) + Len(out) /\ Len(c) \in Nat /\ Len(out) \in Nat
      BY <1>5, <1>6, NotEmpty DEF Longer
    <3>. QED BY <3>1, SMT
  <2>4. \A x : Numbered(c, x) => Numbered(h, x)
    BY <1>6, <2>3, NumberedLonger
  <2>5. Numbered(h, o)
    <3>1. \A v \in 1..Len(c) : c[v].scon.n \in Nat
      <4>1. \A v \in 1..Len(c) : c[v] \in Frame
        BY ElementOfSeq
      <4>. QED BY <4>1, Sizes, SMT DEF Frame, Con
    <3>. QED BY <1>1, <1>2, <1>6, <3>1, NumberedSent DEF o
  <2>6. \A x \in From(j)+1..o : x = o \/ x \in From(j)+1..m
    <3>1. From(j) \in Nat
      <4>1. j.send.n \in Nat
        BY Sizes, SMT DEF ConUpTo, Con
      <4>. QED BY <4>1, SMT DEF From
    <3>. QED BY <3>1, SMT DEF o
  <2>. QED BY <2>1, <2>2, <2>4, <2>5, <2>6 DEF Arriving
<1>12. Sided(i, o, b, n, h, j, g, l, G, L, A)
  BY <1>1, <1>2, <1>3, <1>8, <1>10 DEF Sided, Sane, K
<1>13. Sided(j, n, h, o, b, i, G, L, g, l, B)
  BY <1>1, <1>3, <1>8, <1>9, <1>11 DEF Sided, Sane, K
<1>. QED BY <1>12, <1>13 DEF i, out, h, o

-----------------------------------------------------------------------------
(* The invariant: both ends of the connection agree.                       *)
Unopened == opened = 0 => \A p \in Node : con[p].st = "Idle" /\ chan[p] = <<>> /\ sent[p] = 0
Agreed ==
    \A p, q \in Node : p # q =>
      Sided(con[p], sent[p], chan[p], sent[q], chan[q], con[q],
            got[p], loose[p], got[q], loose[q], ackd[p])
SwallowInv == Lossless => Unopened /\ Agreed

LEMMA SwallowAfter ==
    SwallowInv' <=>
      (Lossless' =>
        /\ opened' = 0 => \A p \in Node : con'[p].st = "Idle" /\ chan'[p] = <<>> /\ sent'[p] = 0
        /\ \A p, q \in Node : p # q =>
             Sided(con'[p], sent'[p], chan'[p], sent'[q], chan'[q], con'[q],
                   got'[p], loose'[p], got'[q], loose'[q], ackd'[p]))
BY Zenon DEF SwallowInv, Unopened, Agreed, Sided, Sane, Known, Stage, Opened, Handshake, Fit, Expects,
       Awaited, Leaves, Called, Bye, Hello, Reply, Finish, Datum, AtZero, Opening, Coded,
       Grounded, Carries, Says, Worded, Arriving, Hailed, Numbered, From, Range, None, Ring

(* A step of one node, which leaves both sides in agreement.               *)
LEMMA StepAgrees ==
    ASSUME NEW p \in Node, NEW q, q = Peer(p),
           Lossless' =>
             /\ opened' = 0 => /\ con'[p].st = "Idle" /\ chan'[p] = <<>> /\ sent'[p] = 0
                               /\ con'[q].st = "Idle" /\ chan'[q] = <<>> /\ sent'[q] = 0
             /\ Sided(con'[p], sent'[p], chan'[p], sent'[q], chan'[q], con'[q],
                      got'[p], loose'[p], got'[q], loose'[q], ackd'[p])
             /\ Sided(con'[q], sent'[q], chan'[q], sent'[p], chan'[p], con'[p],
                      got'[q], loose'[q], got'[p], loose'[p], ackd'[q])
    PROVE  SwallowInv'
<1>1. \A x \in Node : x = p \/ x = q
  BY TwoNodes
<1>. QED BY <1>1, SwallowAfter, Zenon

(* What held of the link after a step held before, and no frame was        *)
(* refused.                                                                *)
LEMMA DisturbedLossless ==
    ASSUME IInv, NEW x \in Faults, Disturb(x), opened' \in Nat, opened <= opened',
           \A p \in Node : sent'[p] \in Nat /\ sent[p] <= sent'[p], Lossless'
    PROVE  Lossless /\ x # "lost" /\ x # "refused"
<1>1. /\ fault \in [Faults -> 0..MaxFault] /\ MaxFault \in Nat /\ "refused" \in Faults /\ "lost" \in Faults
      /\ opened \in Nat /\ sent \in [Node -> Nat]
  BY BoundAssumption, SMT DEF IInv, CountsTyped, Faults
<1>2. fault.refused \in Nat /\ fault.lost \in Nat
  BY <1>1, SMT
<1>3. /\ fault'.refused = IF x = "refused" THEN fault.refused + 1 ELSE fault.refused
      /\ fault'.lost = IF x = "lost" THEN fault.lost + 1 ELSE fault.lost
  BY <1>1 DEF Disturb
<1>4. fault'.lost = 0 /\ fault'.refused = 0 /\ opened' <= 1
      /\ \A p \in Node : sent'[p] + Threshold <= SeqMod
  BY DEF Lossless, NumbersAreFresh
<1>5. x # "lost" /\ x # "refused" /\ fault.lost = 0 /\ fault.refused = 0
  BY <1>2, <1>3, <1>4, SMT
<1>6. opened <= 1
  BY <1>1, <1>4, SMT
<1>7. \A p \in Node : sent[p] + Threshold <= SeqMod
  BY <1>1, <1>4, Sizes, SMT
<1>. QED BY <1>5, <1>6, <1>7 DEF Lossless, NumbersAreFresh

LEMMA AcceptedLossless ==
    ASSUME IInv, NEW ok \in BOOLEAN, Refusable(ok), opened' \in Nat, opened <= opened',
           \A p \in Node : sent'[p] \in Nat /\ sent[p] <= sent'[p], Lossless'
    PROVE  Lossless /\ ok
<1>1. CASE ~ok
  <2>1. Disturb("refused") /\ "refused" \in Faults
    BY <1>1 DEF Refusable, Faults
  <2>. QED BY <2>1, DisturbedLossless
<1>2. CASE ok
  <2>1. fault' = fault
    BY <1>2 DEF Refusable
  <2>2. opened \in Nat /\ sent \in [Node -> Nat]
    BY BoundAssumption, SMT DEF IInv, CountsTyped
  <2>3. fault.lost = 0 /\ fault.refused = 0 /\ opened' <= 1
        /\ \A p \in Node : sent'[p] + Threshold <= SeqMod
    BY <2>1 DEF Lossless, NumbersAreFresh
  <2>4. opened <= 1
    BY <2>2, <2>3, SMT
  <2>5. \A p \in Node : sent[p] + Threshold <= SeqMod
    BY <2>2, <2>3, Sizes, SMT
  <2>. QED BY <1>2, <2>3, <2>4, <2>5 DEF Lossless, NumbersAreFresh
<1>. QED BY <1>1, <1>2

LEMMA CountsStay ==
    ASSUME IInv, UNCHANGED <<sent, opened>>
    PROVE  /\ opened' \in Nat /\ opened <= opened'
           /\ \A p \in Node : sent'[p] \in Nat /\ sent[p] <= sent'[p]
<1>1. opened \in Nat /\ sent \in [Node -> Nat]
  BY BoundAssumption, SMT DEF IInv, CountsTyped
<1>2. \A x \in Nat : x <= x
  BY SMT
<1>. QED BY <1>1, <1>2

LEMMA PairTypes ==
    ASSUME IInv, NEW p \in Node
    PROVE  /\ Peer(p) \in Node /\ Peer(p) # p /\ sent[p] \in Nat /\ sent[Peer(p)] \in Nat
           /\ con[p] \in ConUpTo(sent[p]) /\ con[Peer(p)] \in ConUpTo(sent[Peer(p)])
           /\ chan[p] \in Seq(Frame) /\ chan[Peer(p)] \in Seq(Frame)
           /\ Stage(con[Peer(p)]) \in Stages
           /\ con \in [Node -> Record] /\ chan \in [Node -> Seq(Frame)]
           /\ opened \in Nat /\ sent \in [Node -> Nat]
<1>1. /\ Peer(p) \in Node /\ Peer(p) # p /\ sent[p] \in Nat /\ sent[Peer(p)] \in Nat
      /\ con[p] \in ConUpTo(sent[p]) /\ con[Peer(p)] \in ConUpTo(sent[Peer(p)])
  BY LineTypes
<1>2. con \in [Node -> Record] /\ chan \in [Node -> Seq(Frame)]
  BY DEF IInv, RecordsTyped, FramesTyped
<1>3. opened \in Nat /\ sent \in [Node -> Nat]
  BY BoundAssumption, SMT DEF IInv, CountsTyped
<1>. QED BY <1>1, <1>2, <1>3, StageOfRecord

LEMMA BothAgree ==
    ASSUME SwallowInv, Lossless, NEW p \in Node, NEW q \in Node, p # q
    PROVE  /\ Sided(con[p], sent[p], chan[p], sent[q], chan[q], con[q],
                    got[p], loose[p], got[q], loose[q], ackd[p])
           /\ Sided(con[q], sent[q], chan[q], sent[p], chan[p], con[p],
                    got[q], loose[q], got[p], loose[p], ackd[q])
           /\ opened = 0 => /\ con[p].st = "Idle" /\ chan[p] = <<>> /\ sent[p] = 0
                            /\ con[q].st = "Idle" /\ chan[q] = <<>> /\ sent[q] = 0
BY DEF SwallowInv, Agreed, Unopened

(* A step that takes no frame and sends no data.                           *)
LEMMA IdlesAgrees ==
    ASSUME IInv, SwallowInv, NEW p \in Node, NEW r, r.out \in Seq(Frame),
           UNCHANGED <<sent, got, loose, ackd, opened>>,
           Lossless' => /\ Lossless /\ Install(p, r.con, r.out)
                        /\ \A K : Grounded(con[p], sent[p], K) => Idles(con[p], sent[p], K, r)
    PROVE  SwallowInv'
<1>. DEFINE q == Peer(p)
<1>1. SUFFICES ASSUME Lossless'
      PROVE  /\ opened' = 0 => /\ con'[p].st = "Idle" /\ chan'[p] = <<>> /\ sent'[p] = 0
                               /\ con'[q].st = "Idle" /\ chan'[q] = <<>> /\ sent'[q] = 0
             /\ Sided(con'[p], sent'[p], chan'[p], sent'[q], chan'[q], con'[q],
                      got'[p], loose'[p], got'[q], loose'[q], ackd'[p])
             /\ Sided(con'[q], sent'[q], chan'[q], sent'[p], chan'[p], con'[p],
                      got'[q], loose'[q], got'[p], loose'[p], ackd'[q])
  BY StepAgrees
<1>2. /\ q \in Node /\ q # p /\ sent[p] \in Nat /\ sent[q] \in Nat
      /\ con[p] \in ConUpTo(sent[p]) /\ con[q] \in ConUpTo(sent[q])
      /\ chan[p] \in Seq(Frame) /\ chan[q] \in Seq(Frame) /\ Stage(con[q]) \in Stages
      /\ con \in [Node -> Record] /\ chan \in [Node -> Seq(Frame)]
  BY PairTypes
<1>. DEFINE out == r.out
            i == r.con
<1>3. /\ con'[p] = i /\ con'[q] = con[q] /\ chan'[p] = chan[p] /\ chan'[q] = chan[q] \o out
      /\ sent' = sent /\ got' = got /\ loose' = loose /\ ackd' = ackd /\ opened' = opened
  <2>1. con' = [con EXCEPT ![p] = i] /\ chan' = [chan EXCEPT ![q] = chan[q] \o out]
    BY <1>1 DEF Install
  <2>. HIDE DEF q, i, out
  <2>. QED BY <1>2, <2>1
<1>. HIDE DEF q
<1>4. /\ Sided(con[p], sent[p], chan[p], sent[q], chan[q], con[q],
               got[p], loose[p], got[q], loose[q], ackd[p])
      /\ Sided(con[q], sent[q], chan[q], sent[p], chan[p], con[p],
               got[q], loose[q], got[p], loose[p], ackd[q])
      /\ opened = 0 => /\ con[p].st = "Idle" /\ chan[p] = <<>> /\ sent[p] = 0
                       /\ con[q].st = "Idle" /\ chan[q] = <<>> /\ sent[q] = 0
  BY <1>1, <1>2, BothAgree
<1>5. /\ Sane(con[p], sent[p], chan[p], sent[q], chan[q], Stage(con[q]), got[p], loose[p], Known(got[q], loose[q]))
      /\ Grounded(con[p], sent[p], Known(got[p], loose[p]))
      /\ loose[q] = {} => ackd[p] \subseteq Range(got[q])
  BY <1>4 DEF Sided, Sane
<1>6. Idles(con[p], sent[p], Known(got[p], loose[p]), r)
  BY <1>1, <1>5
<1>7. Held(i, out, sent[p], chan[p], sent[q], chan[q], Stage(con[q]), got[p], loose[p])
  BY <1>2, <1>5, <1>6, IdlesHeld
<1>8. opened = 0 => i.st = "Idle" /\ out = <<>>
  BY <1>4, <1>6 DEF Idles, Closes, Opened
<1>9. out \in Seq(Frame) /\ Shifted(chan[p], chan[p], 0)
  BY <1>2, Shifts
<1>. HIDE DEF out, i
<1>10. <<>> \o <<>> = <<>>
  BY SMT
<1>11. /\ Sided(i, sent[p], chan[p], sent[q], chan[q] \o out, con[q],
                got[p], loose[p], got[q], loose[q], ackd[p])
       /\ Sided(con[q], sent[q], chan[q] \o out, sent[p], chan[p], i,
                got[q], loose[q], got[p], loose[p], ackd[q])
  <2>1. Sane(con[q], sent[q], chan[q], sent[p], chan[p], Stage(con[p]), got[q], loose[q], Known(got[p], loose[p]))
        /\ (loose[p] = {} => ackd[q] \subseteq Range(got[p]))
    BY <1>4 DEF Sided
  <2>2. Sane(i, sent[p], chan[p], sent[q], chan[q] \o out, Stage(con[q]), got[p], loose[p], Known(got[q], loose[q]))
    BY <1>5, <1>7, <1>9, OwnAfter
  <2>3. Sane(con[q], sent[q], chan[q] \o out, sent[p], chan[p], Stage(i), got[q], loose[q], Known(got[p], loose[p]))
    BY <1>2, <1>7, <1>9, <2>1, PeerAfter
  <2>. QED BY <1>5, <2>1, <2>2, <2>3 DEF Sided
<1>. QED BY <1>3, <1>4, <1>8, <1>10, <1>11

LEMMA ProcessEventAgrees == ASSUME IInv, OrderInv, SwallowInv, NEW p \in Node, processEvent(p) PROVE SwallowInv'
<1>. DEFINE m == sent[p]
            Body(ok, r) ==
              /\ IF \A q \in Node : chan[q] = <<>> /\ due[q] = 0 THEN Refusable(ok)
                 ELSE ok /\ Disturb("late")
              /\ Install(p, r.con, r.out)
<1>1. PICK ok \in BOOLEAN : Body(ok, Timeout(con[p], ok))
  <2>1. \E ok \in BOOLEAN : \E r \in {Timeout(con[p], ok)} : Body(ok, r)
    BY Zenon DEF processEvent
  <2>. HIDE DEF Body
  <2>. QED BY <2>1
<1>2. UNCHANGED <<sent, got, loose, ackd, opened>>
  BY DEF processEvent
<1>3. m \in Nat /\ con[p] \in ConUpTo(m) /\ Codes(con[p])
  BY DEF IInv, CountsTyped, RecordsTyped, OrderInv, CodesKept
<1>. DEFINE r == Timeout(con[p], TRUE)
<1>4. r.out \in Seq(Frame)
  <2>. HIDE DEF m
  <2>1. Handles(con[p], r, m, 0)
    BY <1>3, TimeoutHandles
  <2>. HIDE DEF r
  <2>2. r.out \in Seq(FrameUpTo(m))
    BY <2>1 DEF Handles, Answer
  <2>. QED BY <1>3, <2>2, FramesOfNode
<1>5. ASSUME Lossless' PROVE Lossless /\ ok = TRUE
  <2>1. "late" \in Faults
    BY DEF Faults
  <2>2. Refusable(ok) \/ (ok /\ Disturb("late"))
    BY <1>1
  <2>. QED BY <1>2, <1>5, <2>1, <2>2, CountsStay, AcceptedLossless, DisturbedLossless
<1>6. ASSUME Lossless' PROVE Install(p, r.con, r.out)
  <2>1. ok = TRUE
    BY <1>5, <1>6
  <2>2. Body(TRUE, r)
    <3>. HIDE DEF Body
    <3>. QED BY <1>1, <2>1
  <2>. QED BY <2>2
<1>7. \A K : Grounded(con[p], m, K) => Idles(con[p], m, K, r)
  <2>. HIDE DEF m
  <2>. QED BY <1>3, TimeoutIdles
<1>. HIDE DEF r
<1>. QED BY <1>2, <1>4, <1>5, <1>6, <1>7, IdlesAgrees

LEMMA DeleteConAgrees == ASSUME IInv, SwallowInv, NEW p \in Node, deleteCon(p) PROVE SwallowInv'
<1>. DEFINE m == sent[p]
            out == IF con[p].st = "Connected" THEN CloseFrame(con[p]) ELSE <<>>
            r == Wiped(out)
<1>1. /\ Disturb("closed") /\ Install(p, Cleared(HistorySize), out)
      /\ UNCHANGED <<sent, got, loose, ackd, opened>>
  BY DEF deleteCon
<1>2. m \in Nat /\ con[p] \in ConUpTo(m) /\ 0 \in 0..m
  BY SMT DEF IInv, CountsTyped, RecordsTyped
<1>3. r.con = Cleared(HistorySize) /\ r.out = out
  BY DEF Wiped, Done
<1>4. out \in Seq(Frame)
  <2>1. out \in Seq(FrameUpTo(m))
    BY <1>2, FramesOfRecord, Sequences
  <2>. QED BY <1>2, <2>1, FramesOfNode
<1>5. \A K : Idles(con[p], m, K, r)
  <2>. HIDE DEF m
  <2>. QED BY <1>2, DeleteIdles
<1>6. Lossless' => Lossless
  <2>1. "closed" \in Faults
    BY DEF Faults
  <2>. QED BY <1>1, <2>1, CountsStay, DisturbedLossless
<1>. HIDE DEF r, out
<1>. QED BY <1>1, <1>3, <1>4, <1>5, <1>6, IdlesAgrees

(* A step that leaves the connection alone.                                *)
LEMMA NothingAgrees ==
    ASSUME SwallowInv, UNCHANGED <<con, chan, sent, got, loose, ackd, opened>>, Lossless' => Lossless
    PROVE  SwallowInv'
BY SwallowAfter, Zenon DEF SwallowInv, Unopened, Agreed

LEMMA SendAckAgrees == ASSUME IInv, OrderInv, SwallowInv, NEW p \in Node, sendAck(p) PROVE SwallowInv'
<1>. DEFINE m == sent[p]
            k == [con[p] EXCEPT !.timer = 1]
            f == Header(con[p], None)
            r == Done(k, <<f>>)
<1>1. PICK ok \in BOOLEAN :
        /\ Refusable(ok)
        /\ IF con[p].st = "Connected" THEN Install(p, k, Sends(f, ok)) ELSE UNCHANGED <<con, chan>>
  BY Zenon DEF sendAck
<1>2. UNCHANGED <<sent, got, loose, ackd, opened>>
  BY DEF sendAck
<1>3. m \in Nat /\ con[p] \in ConUpTo(m) /\ None \in 0..m /\ Codes(con[p])
  BY SMT DEF IInv, CountsTyped, RecordsTyped, None, OrderInv, CodesKept
<1>4. ASSUME Lossless' PROVE Lossless /\ ok
  BY <1>1, <1>2, <1>4, CountsStay, AcceptedLossless
<1>5. CASE con[p].st # "Connected"
  <2>1. con' = con /\ chan' = chan
    BY <1>1, <1>5
  <2>. QED BY <1>2, <1>4, <2>1, NothingAgrees
<1>6. CASE con[p].st = "Connected"
  <2>1. r.con = k /\ r.out = <<f>>
    BY DEF Done
  <2>2. <<f>> \in Seq(Frame)
    <3>1. f \in FrameUpTo(m)
      BY <1>3, FramesOfRecord
    <3>. HIDE DEF f, m
    <3>2. f \in Frame
      BY <1>3, <3>1, FramesOfNode
    <3>. QED BY <3>2, Sequences
  <2>3. \A K : Grounded(con[p], m, K) => Idles(con[p], m, K, r)
    <3>. HIDE DEF m
    <3>. QED BY <1>3, <1>6, AckIdles
  <2>4. Lossless' => Install(p, k, <<f>>)
    <3>. HIDE DEF f, k
    <3>. QED BY <1>1, <1>4, <1>6 DEF Sends
  <2>. HIDE DEF r, k, f
  <2>. QED BY <1>2, <1>4, <2>1, <2>2, <2>3, <2>4, IdlesAgrees
<1>. QED BY <1>5, <1>6

LEMMA LoseAgrees == ASSUME IInv, NEW p \in Node, Lose(p) PROVE SwallowInv'
<1>1. Disturb("lost") /\ UNCHANGED <<sent, opened>> /\ "lost" \in Faults
  BY DEF Lose, Faults
<1>2. ~Lossless'
  BY <1>1, CountsStay, DisturbedLossless
<1>. QED BY <1>2, SwallowAfter

LEMMA InitConAgrees == ASSUME IInv, SwallowInv, NEW p \in Node, initCon(p) PROVE SwallowInv'
<1>. DEFINE q == Peer(p)
            k == [con[p] EXCEPT !.used = 1, !.recv = [n |-> 0, c |-> 1], !.send = [n |-> 0, c |-> 0]]
            i == [k EXCEPT !.st = "Init1", !.timer = 1]
            f == Header(k, None)
<1>1. PICK ok \in BOOLEAN :
        Refusable(ok) /\ Install(p, IF ok THEN i ELSE k, Sends(f, ok))
  BY DEF initCon
<1>2. UNCHANGED <<sent, got, loose, ackd>> /\ opened' = opened + 1
  BY DEF initCon
<1>3. /\ q \in Node /\ q # p /\ con[p] \in ConUpTo(sent[p])
      /\ con \in [Node -> Record] /\ chan \in [Node -> Seq(Frame)]
      /\ opened \in Nat /\ sent \in [Node -> Nat]
  BY PairTypes
<1>4. /\ i.st = "Init1" /\ i.hist = con[p].hist
      /\ f.scon = [n |-> 0, c |-> 1] /\ f.rcon = [n |-> 0, c |-> 0]
  BY <1>3 DEF ConUpTo, Header
<1>5. Hello(f) /\ AtZero(f)
  <2>. HIDE DEF f
  <2>. QED BY <1>4 DEF Hello, Coded, AtZero
<1>. HIDE DEF q
<1>6. SUFFICES ASSUME Lossless'
      PROVE  /\ opened' # 0
             /\ Sided(con'[p], sent'[p], chan'[p], sent'[q], chan'[q], con'[q],
                      got'[p], loose'[p], got'[q], loose'[q], ackd'[p])
             /\ Sided(con'[q], sent'[q], chan'[q], sent'[p], chan'[p], con'[p],
                      got'[q], loose'[q], got'[p], loose'[p], ackd'[q])
  BY StepAgrees DEF q
<1>7. opened' \in Nat /\ opened <= opened' /\ opened' # 0 /\ (opened' <= 1 => opened = 0)
      /\ \A x \in Node : sent'[x] \in Nat /\ sent[x] <= sent'[x]
  <2>1. \A x \in Nat : x <= x
    BY SMT
  <2>2. opened' \in Nat /\ opened <= opened' /\ opened' # 0 /\ (opened' <= 1 => opened = 0)
    BY <1>2, <1>3, SMT
  <2>. QED BY <1>2, <1>3, <2>1, <2>2
<1>8. Lossless /\ ok
  BY <1>1, <1>6, <1>7, AcceptedLossless
<1>9. opened = 0
  BY <1>6, <1>7 DEF Lossless
<1>10. /\ con'[p] = i /\ con'[q] = con[q] /\ chan'[p] = chan[p] /\ chan'[q] = chan[q] \o <<f>>
  <2>1. con' = [con EXCEPT ![p] = i] /\ chan' = [chan EXCEPT ![q] = chan[q] \o <<f>>]
    <3>. HIDE DEF i, k, f
    <3>. QED BY <1>1, <1>8 DEF Install, Sends, q
  <2>. HIDE DEF i, f
  <2>. QED BY <1>3, <2>1
<1>. HIDE DEF i, k, f
<1>11. /\ Sided(con[p], sent[p], chan[p], sent[q], chan[q], con[q],
                got[p], loose[p], got[q], loose[q], ackd[p])
       /\ Sided(con[q], sent[q], chan[q], sent[p], chan[p], con[p],
                got[q], loose[q], got[p], loose[p], ackd[q])
       /\ con[p].st = "Idle" /\ chan[p] = <<>> /\ sent[p] = 0
       /\ con[q].st = "Idle" /\ chan[q] = <<>> /\ sent[q] = 0
  BY <1>3, <1>8, <1>9, BothAgree
<1>12. <<>> \o <<f>> = <<f>>
  BY SMT
<1>13. /\ Sided(i, 0, <<>>, 0, <<f>>, con[q], got[p], loose[p], got[q], loose[q], ackd[p])
       /\ Sided(con[q], 0, <<f>>, 0, <<>>, i, got[q], loose[q], got[p], loose[p], ackd[q])
  <2>1. /\ Sided(con[p], 0, <<>>, 0, <<>>, con[q], got[p], loose[p], got[q], loose[q], ackd[p])
        /\ Sided(con[q], 0, <<>>, 0, <<>>, con[p], got[q], loose[q], got[p], loose[p], ackd[q])
    BY <1>11
  <2>. QED BY <1>4, <1>5, <1>11, <2>1, HelloSided
<1>. QED BY <1>2, <1>7, <1>10, <1>11, <1>12, <1>13

LEMMA SendDataAgrees == ASSUME IInv, OrderInv, SwallowInv, NEW p \in Node, sendData(p) PROVE SwallowInv'
<1>. DEFINE q == Peer(p)
            m == sent[p]
            Body(ok, r) == Refusable(ok) /\ Install(p, r.con, r.out)
            r == ConnectedSend(con[p], m + 1, TRUE)
            i == r.con
            out == r.out
<1>1. PICK ok \in BOOLEAN : Body(ok, ConnectedSend(con[p], m + 1, ok))
  <2>1. \E ok \in BOOLEAN : \E s \in {ConnectedSend(con[p], m + 1, ok)} : Body(ok, s)
    BY Zenon DEF sendData
  <2>. HIDE DEF Body, m
  <2>. QED BY <2>1
<1>2. /\ con[p].st = "Connected" /\ sent' = [sent EXCEPT ![p] = m + 1]
      /\ UNCHANGED <<got, loose, ackd, opened>>
  BY DEF sendData
<1>3. /\ q \in Node /\ q # p /\ m \in Nat /\ sent[q] \in Nat
      /\ con[p] \in ConUpTo(m) /\ con[q] \in ConUpTo(sent[q])
      /\ chan[p] \in Seq(Frame) /\ chan[q] \in Seq(Frame) /\ Codes(con[p])
      /\ con \in [Node -> Record] /\ chan \in [Node -> Seq(Frame)]
      /\ opened \in Nat /\ sent \in [Node -> Nat]
  BY PairTypes DEF OrderInv, CodesKept
<1>4. out \in Seq(Frame)
  <2>. HIDE DEF m
  <2>1. out \in Seq(FrameUpTo(m + 1))
    BY <1>3, SendHandles
  <2>2. m + 1 \in Nat
    BY <1>3, SMT
  <2>. HIDE DEF out
  <2>. QED BY <2>1, <2>2, FramesOfNode
<1>. HIDE DEF q
<1>5. SUFFICES ASSUME Lossless'
      PROVE  /\ opened' # 0
             /\ Sided(con'[p], sent'[p], chan'[p], sent'[q], chan'[q], con'[q],
                      got'[p], loose'[p], got'[q], loose'[q], ackd'[p])
             /\ Sided(con'[q], sent'[q], chan'[q], sent'[p], chan'[p], con'[p],
                      got'[q], loose'[q], got'[p], loose'[p], ackd'[q])
  BY StepAgrees DEF q
<1>6. sent'[p] = m + 1 /\ sent'[q] = sent[q]
  BY <1>2, <1>3
<1>7. Lossless /\ ok = TRUE
  <2>1. opened' \in Nat /\ opened <= opened'
    BY <1>2, <1>3, SMT
  <2>2. \A x \in Node : sent'[x] \in Nat /\ sent[x] <= sent'[x]
    BY <1>2, <1>3, SMT
  <2>. QED BY <1>1, <1>5, <2>1, <2>2, AcceptedLossless
<1>8. Body(TRUE, r)
  <2>. HIDE DEF Body
  <2>. QED BY <1>1, <1>7
<1>9. /\ con'[p] = i /\ con'[q] = con[q] /\ chan'[p] = chan[p] /\ chan'[q] = chan[q] \o out
  <2>1. con' = [con EXCEPT ![p] = i] /\ chan' = [chan EXCEPT ![q] = chan[q] \o out]
    BY <1>8 DEF Install, q
  <2>. HIDE DEF i, out
  <2>. QED BY <1>3, <2>1
<1>10. /\ Sided(con[p], m, chan[p], sent[q], chan[q], con[q],
                got[p], loose[p], got[q], loose[q], ackd[p])
       /\ Sided(con[q], sent[q], chan[q], m, chan[p], con[p],
                got[q], loose[q], got[p], loose[p], ackd[q])
       /\ opened # 0
  BY <1>2, <1>3, <1>7, BothAgree
<1>11. m + 1 < SeqMod
  <2>1. sent'[p] + Threshold <= SeqMod
    BY <1>5 DEF Lossless, NumbersAreFresh
  <2>. QED BY <1>3, <1>6, <2>1, Sizes, SMT
<1>. HIDE DEF m
<1>12. /\ Sided(i, m + 1, chan[p], sent[q], chan[q] \o out, con[q],
                got[p], loose[p], got[q], loose[q], ackd[p])
       /\ Sided(con[q], sent[q], chan[q] \o out, m + 1, chan[p], i,
                got[q], loose[q], got[p], loose[p], ackd[q])
  BY <1>2, <1>3, <1>4, <1>10, <1>11, DataSided
<1>. HIDE DEF i, out
<1>. QED BY <1>2, <1>6, <1>9, <1>10, <1>12

(* What a frame strikes from the history of a connection that stays open.  *)
LEMMA StruckAgrees ==
    ASSUME NEW m \in Nat, m + Threshold <= SeqMod, NEW n \in Nat, NEW k \in ConUpTo(m),
           NEW b, NEW d, NEW f \in FrameUpTo(n), Takes(b, f, d),
           NEW c, NEW t, NEW g, NEW l, NEW G \in Seq(1..m),
           Sane(k, m, b, n, c, t, g, l, Known(G, {})), Opened(k) => Datum(f)
    PROVE  HistoryData(k) \ HistoryData(Acknowledge(k, f)) \subseteq Range(G)
<1>1. Grounded(k, m, Known(g, l)) /\ Says(b, n, Known(G, {}))
  BY DEF Sane
<1>2. CASE ~Opened(k)
  <2>1. HistoryData(k) = {}
    BY <1>1, <1>2 DEF Grounded, HistoryData
  <2>. QED BY <2>1
<1>3. CASE Opened(k)
  <2>1. b \in Seq(Frame) /\ b # <<>> /\ f = b[1]
    BY DEF Takes
  <2>2. 1 \in 1..Len(b)
    BY <2>1, NotEmpty, SMT
  <2>3. f.rcon.n \in Known(G, {})
    BY <1>1, <1>3, <2>1, <2>2 DEF Says, Worded
  <2>. QED BY <1>1, <2>3, StruckWasHeard
<1>. QED BY <1>2, <1>3

LEMMA HeardGrows ==
    ASSUME NEW n \in Nat, NEW g \in Seq(1..n), NEW l, NEW x, NEW y, x = None \/ y = None
    PROVE  LET h == Heard(g, x)
               o == IF y = None THEN l ELSE l \cup {y}
           IN  Known(g, l) \subseteq Known(h, o) /\ (o = {} => l = {} /\ Range(g) \subseteq Range(h))
<1>1. /\ Known(g, l) \subseteq Known(Append(g, x), l)
      /\ Known(g, l) \subseteq Known(g, l \cup {y})
      /\ Range(g) \subseteq Range(Append(g, x))
  BY KnownGrows
<1>2. l \cup {y} # {}
  OBVIOUS
<1>. QED BY <1>1, <1>2 DEF Heard

LEMMA ReceiveAgrees == ASSUME IInv, OrderInv, SwallowInv, NEW p \in Node, receiveCb(p) PROVE SwallowInv'
<1>. DEFINE m == sent[p]
            q == Peer(p)
            n == sent[q]
            f == Head(chan[p])
            k == Acknowledge(con[p], f)
            s == HistoryData(con[p]) \ HistoryData(k)
            Body(ok, j, r) ==
              /\ Refusable(ok)
              /\ con' = [con EXCEPT ![p] = r.con]
              /\ chan' = [chan EXCEPT ![p] = Tail(@), ![Peer(p)] = @ \o r.out]
              /\ ackd' = IF Opened(r.con)
                         THEN [ackd EXCEPT ![p] = @ \cup (HistoryData(con[p]) \ HistoryData(j))]
                         ELSE ackd
              /\ Deliver(p, r.data)
<1>1. PICK ok \in BOOLEAN : Body(ok, k, Result(k, f, ok))
  <2>1. \E ok \in BOOLEAN, g \in {Head(chan[p])} :
        \E j \in {Acknowledge(con[p], g)} : \E r \in {Result(j, g, ok)} : Body(ok, j, r)
    BY Zenon DEF receiveCb
  <2>. HIDE DEF Body
  <2>. QED BY <2>1
<1>2. chan[p] # <<>> /\ UNCHANGED <<sent, opened>>
  BY DEF receiveCb
<1>. DEFINE r == Result(k, f, TRUE)
            i == r.con
            out == r.out
            x == IF con[p].st = "WaitAck" THEN None ELSE r.data
            y == IF con[p].st = "WaitAck" THEN r.data ELSE None
            g == Heard(got[p], x)
            l == IF y = None THEN loose[p] ELSE loose[p] \cup {y}
            t == Stage(con[q])
<1>3. /\ q \in Node /\ q # p /\ m \in Nat /\ n \in Nat
      /\ con[p] \in ConUpTo(m) /\ con[q] \in ConUpTo(n) /\ Codes(con[p])
      /\ chan[p] \in Seq(Frame) /\ chan[q] \in Seq(Frame) /\ t \in Stages
      /\ con \in [Node -> Record] /\ chan \in [Node -> Seq(Frame)]
  BY PairTypes DEF OrderInv, CodesKept
<1>4. /\ chan[p] \in Seq(FrameUpTo(n)) /\ got[p] \in Seq(1..n) /\ got[q] \in Seq(1..m)
      /\ got \in [Node -> Seq(Nat)] /\ loose \in [Node -> SUBSET Nat] /\ ackd \in [Node -> SUBSET Nat]
  BY LineTypes DEF IInv, DeliveryTyped, OwnTyped
<1>5. f \in FrameUpTo(n)
  <2>. HIDE DEF n
  <2>. QED BY <1>2, <1>4, HeadTailProperties
<1>6. Takes(chan[p], f, Tail(chan[p]))
  <2>1. Shifted(chan[p], Tail(chan[p]), 1) /\ f = chan[p][1]
    BY <1>2, <1>3, Shifts
  <2>2. Tail(chan[p]) \in Seq(Frame)
    BY <1>2, <1>3, HeadTailProperties
  <2>. QED BY <1>2, <1>3, <2>1, <2>2 DEF Takes
<1>7. SUFFICES ASSUME Lossless'
      PROVE  /\ opened' # 0
             /\ Sided(con'[p], sent'[p], chan'[p], sent'[q], chan'[q], con'[q],
                      got'[p], loose'[p], got'[q], loose'[q], ackd'[p])
             /\ Sided(con'[q], sent'[q], chan'[q], sent'[p], chan'[p], con'[p],
                      got'[q], loose'[q], got'[p], loose'[p], ackd'[q])
  BY StepAgrees
<1>8. Lossless /\ ok = TRUE
  BY <1>1, <1>2, <1>7, CountsStay, AcceptedLossless
<1>9. Body(TRUE, k, r)
  <2>. HIDE DEF Body, k, f
  <2>. QED BY <1>1, <1>8
<1>10. m + Threshold <= SeqMod /\ n + Threshold <= SeqMod
  BY <1>3, <1>8 DEF Lossless, NumbersAreFresh
<1>. HIDE DEF q
<1>11. /\ Sided(con[p], m, chan[p], n, chan[q], con[q], got[p], loose[p], got[q], loose[q], ackd[p])
       /\ Sided(con[q], n, chan[q], m, chan[p], con[p], got[q], loose[q], got[p], loose[p], ackd[q])
       /\ opened # 0
  BY <1>2, <1>3, <1>8, BothAgree
<1>12. /\ Sane(con[p], m, chan[p], n, chan[q], t, got[p], loose[p], Known(got[q], loose[q]))
       /\ Sane(con[q], n, chan[q], m, chan[p], Stage(con[p]), got[q], loose[q], Known(got[p], loose[p]))
       /\ loose[q] = {} => ackd[p] \subseteq Range(got[q])
       /\ loose[p] = {} => ackd[q] \subseteq Range(got[p])
  BY <1>11 DEF Sided
<1>. HIDE DEF m, n, t, f
<1>13. /\ Held(i, out, m, Tail(chan[p]), n, chan[q], t, g, l)
       /\ Opened(con[p]) /\ Opened(i) => Datum(f)
  BY <1>3, <1>4, <1>5, <1>6, <1>10, <1>12, ReceivedHeld
<1>14. out \in Seq(Frame)
  <2>1. out \in Seq(FrameUpTo(m))
    BY <1>3, <1>5, ReceiveHandled
  <2>. HIDE DEF out
  <2>. QED BY <1>3, <2>1, FramesOfNode
<1>15. /\ con' = [con EXCEPT ![p] = i]
       /\ chan' = [chan EXCEPT ![p] = Tail(@), ![q] = @ \o out]
       /\ ackd' = IF Opened(i) THEN [ackd EXCEPT ![p] = @ \cup s] ELSE ackd
       /\ Deliver(p, r.data)
  BY <1>9 DEF q
<1>. HIDE DEF r, k
<1>16. got'[p] = g /\ got'[q] = got[q] /\ loose'[p] = l /\ loose'[q] = loose[q]
  BY <1>3, <1>4, <1>15 DEF Deliver, Heard
<1>17. Known(got[p], loose[p]) \subseteq Known(g, l) /\ (l = {} => loose[p] = {} /\ Range(got[p]) \subseteq Range(g))
  <2>1. x = None \/ y = None
    OBVIOUS
  <2>. HIDE DEF x, y
  <2>. QED BY <1>3, <1>4, <2>1, HeardGrows
<1>. HIDE DEF i, out, g, l
<1>18. con'[p] = i /\ con'[q] = con[q] /\ chan'[p] = Tail(chan[p]) /\ chan'[q] = chan[q] \o out
  <2>1. chan' = [[chan EXCEPT ![p] = Tail(chan[p])] EXCEPT ![q] = chan[q] \o out]
    BY <1>3, <1>15
  <2>. QED BY <1>3, <1>15, <2>1
<1>19. loose[q] = {} => ackd'[p] \subseteq Range(got[q])
  <2>1. CASE ~Opened(i)
    BY <1>12, <1>15, <2>1
  <2>2. ASSUME Opened(i), loose[q] = {} PROVE s \subseteq Range(got[q])
    <3>1. Sane(con[p], m, chan[p], n, chan[q], t, got[p], loose[p], Known(got[q], {}))
          /\ (Opened(con[p]) => Datum(f))
      BY <1>12, <1>13, <2>2
    <3>. QED BY <1>3, <1>4, <1>5, <1>6, <1>10, <3>1, StruckAgrees DEF k
  <2>. HIDE DEF s
  <2>3. Opened(i) => ackd'[p] = ackd[p] \cup s
    BY <1>4, <1>15
  <2>. QED BY <1>12, <2>1, <2>2, <2>3
<1>20. ackd'[q] = ackd[q]
  <2>. HIDE DEF s
  <2>. QED BY <1>3, <1>4, <1>15
<1>21. Sane(i, m, Tail(chan[p]), n, chan[q] \o out, t, g, l, Known(got[q], loose[q]))
  <2>1. Shifted(chan[p], Tail(chan[p]), 1)
    BY <1>6 DEF Takes
  <2>. QED BY <1>12, <1>13, <2>1, OwnAfter
<1>22. Sane(con[q], n, chan[q] \o out, m, Tail(chan[p]), Stage(i), got[q], loose[q], Known(g, l))
  BY <1>3, <1>12, <1>13, <1>14, <1>17, PeerAfter DEF t
<1>23. Sided(i, m, Tail(chan[p]), n, chan[q] \o out, con[q], g, l, got[q], loose[q], ackd'[p])
  BY <1>19, <1>21 DEF Sided, t
<1>24. Sided(con[q], n, chan[q] \o out, m, Tail(chan[p]), i, got[q], loose[q], g, l, ackd[q])
  BY <1>12, <1>17, <1>22 DEF Sided
<1>25. sent'[p] = m /\ sent'[q] = n /\ opened' # 0
  BY <1>2, <1>11 DEF m, n
<1>. QED BY <1>16, <1>18, <1>20, <1>23, <1>24, <1>25

LEMMA InitAgrees == Init => SwallowInv
<1>. SUFFICES ASSUME Init PROVE SwallowInv
  OBVIOUS
<1>. DEFINE k == Cleared(0)
            e == <<>>
<1>1. \A p \in Node : /\ con[p] = k /\ chan[p] = <<>> /\ sent[p] = 0 /\ got[p] = <<>>
                      /\ loose[p] = {} /\ ackd[p] = {}
  BY DEF Init
<1>2. k.st = "Idle" /\ \A i \in Ring : k.hist.fr[i].data = None
  BY DEF Cleared, History0, NoFrame
<1>3. 1..Len(e) = {} /\ 0+1..0 = {}
  BY SMT
<1>4. ~Opened(k) /\ Stage(k) = "Idle" /\ From(k) = 0
  <2>. HIDE DEF k
  <2>. QED BY <1>2 DEF Opened, Stage, From
<1>. HIDE DEF k, e
<1>5. Handshake("Idle", 0, e, "Idle", e)
  BY <1>3 DEF Handshake, Fit, Expects, Leaves, Called
<1>6. Grounded(k, 0, Known(<<>>, {})) /\ Says(e, 0, Known(<<>>, {})) /\ Arriving(k, 0, e)
  BY <1>2, <1>3, <1>4 DEF Grounded, Says, Arriving
<1>7. Sided(k, 0, e, 0, e, k, <<>>, {}, <<>>, {}, {})
  BY <1>4, <1>5, <1>6 DEF Sided, Sane
<1>. QED BY <1>1, <1>2, <1>7 DEF SwallowInv, Unopened, Agreed, e

LEMMA NextAgrees == IInv /\ OrderInv /\ SwallowInv /\ [Next]_vars => SwallowInv'
<1>. SUFFICES ASSUME IInv, OrderInv, SwallowInv, [Next]_vars PROVE SwallowInv'
  OBVIOUS
<1>1. ASSUME NEW p \in Node, initCon(p) PROVE SwallowInv'
  BY <1>1, InitConAgrees
<1>2. ASSUME NEW p \in Node, receiveCb(p) PROVE SwallowInv'
  BY <1>2, ReceiveAgrees
<1>3. ASSUME NEW p \in Node, processEvent(p) PROVE SwallowInv'
  BY <1>3, ProcessEventAgrees
<1>4. ASSUME NEW p \in Node, sendData(p) PROVE SwallowInv'
  BY <1>4, SendDataAgrees
<1>5. ASSUME NEW p \in Node, sendAck(p) PROVE SwallowInv'
  BY <1>5, SendAckAgrees
<1>6. ASSUME NEW p \in Node, deleteCon(p) PROVE SwallowInv'
  BY <1>6, DeleteConAgrees
<1>7. ASSUME NEW p \in Node, Lose(p) PROVE SwallowInv'
  BY <1>7, LoseAgrees
<1>8. CASE UNCHANGED vars
  <2>1. UNCHANGED <<con, chan, sent, got, loose, ackd, opened, fault>>
    BY <1>8 DEF vars
  <2>2. Lossless' => Lossless
    BY <2>1 DEF Lossless, NumbersAreFresh
  <2>. QED BY <2>1, <2>2, NothingAgrees
<1>. QED BY <1>1, <1>2, <1>3, <1>4, <1>5, <1>6, <1>7, <1>8 DEF Next

LEMMA SwallowImplies == SwallowInv => LosslessMeansDelivered
<1>. SUFFICES ASSUME SwallowInv, Lossless, NEW p \in Node, loose[Peer(p)] = {}
     PROVE  ackd[p] \subseteq Range(got[Peer(p)])
  BY DEF LosslessMeansDelivered, AcknowledgedWasDelivered, Delivered
<1>1. Peer(p) \in Node /\ Peer(p) # p
  BY TwoNodes
<1>. QED BY <1>1, BothAgree DEF Sided

(* An acknowledgement swallows no data, for every size of the history and  *)
(* range of numbers, however many frames are sent again by early timers:   *)
(* as long as no frame was lost or refused, no second connection was       *)
(* opened and the numbers did not come round, what is struck from the      *)
(* history of a connection that stays open has reached the peer's command  *)
(* layer, if that took no data in state WaitAck.                           *)
THEOREM NothingIsSwallowed == Spec => []LosslessMeansDelivered
<1>1. Init => IInv /\ OrderInv /\ SwallowInv
  BY InitHolds, InitOrdered, InitAgrees
<1>2. IInv /\ OrderInv /\ SwallowInv /\ [Next]_vars => IInv' /\ OrderInv' /\ SwallowInv'
  BY NextKeeps, NextKeepsOrder, NextAgrees
<1>3. SwallowInv => LosslessMeansDelivered
  BY SwallowImplies
<1>. QED BY <1>1, <1>2, <1>3, PTL DEF Spec
=============================================================================
