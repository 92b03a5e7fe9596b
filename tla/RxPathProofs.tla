----------------------------- MODULE RxPathProofs -----------------------------
(***************************************************************************)
(* Proofs about the receive path (RxPath): packets reach the host in the   *)
(* order they were received in (the refinement of LossyFifo); no receive   *)
(* buffer leaks or is freed twice; a host that relies on the interrupt     *)
(* hears of every packet; and the limit on receive buffers is kept.        *)
(***************************************************************************)
EXTENDS RxPath, SequenceTheorems, Sums

-----------------------------------------------------------------------------
(* Parts of sequences.                                                       *)

LEMMA Parts ==
    ASSUME NEW S, NEW a \in Seq(S), NEW b \in Seq(S)
    PROVE  /\ SubSeq(a \o b, 1, Len(a)) = a
           /\ SubSeq(a \o b, Len(a) + 1, Len(a) + Len(b)) = b
<1> DEFINE s == a \o b
           m == Len(a)
           n == Len(b)
<1>1. /\ m \in Nat /\ n \in Nat /\ s \in Seq(S) /\ Len(s) = m + n
      /\ \A i \in 1 .. m + n : s[i] = IF i <= m THEN a[i] ELSE b[i - m]
  BY ConcatProperties, LenProperties
<1> HIDE DEF s
<1>2. \A i \in 1 .. m + n : s[i] \in S
  BY <1>1, ElementOfSeq
<1>3. SubSeq(s, 1, m) = a
  <2> DEFINE t == SubSeq(s, 1, m)
  <2>1. 1 \in Int /\ m \in Int /\ \A i \in 1 .. m : s[i] \in S /\ i \in 1 .. m + n
    <3> HIDE DEF m, n
    <3> QED BY <1>1, <1>2
  <2>2. t \in Seq(S) /\ Len(t) = (IF 1 <= m THEN m - 1 + 1 ELSE 0)
        /\ \A i \in 1 .. m - 1 + 1 : t[i] = s[1 + i - 1]
    BY <2>1, SubSeqProperties
  <2> HIDE DEF t
  <2>3. Len(t) = Len(a) /\ \A i \in 1 .. Len(t) : t[i] = a[i]
    <3> HIDE DEF n
    <3> QED BY <1>1, <2>1, <2>2
  <2> QED BY <2>2, <2>3, SeqEqual, Zenon DEF t
<1>4. SubSeq(s, m + 1, m + n) = b
  <2> DEFINE t == SubSeq(s, m + 1, m + n)
             low == m + 1
             high == m + n
  <2>1. low \in Int /\ high \in Int /\ \A i \in low .. high : s[i] \in S
    <3> HIDE DEF m, n
    <3> QED BY <1>1, <1>2
  <2>2. t \in Seq(S) /\ Len(t) = (IF low <= high THEN high - low + 1 ELSE 0)
        /\ \A i \in 1 .. high - low + 1 : t[i] = s[low + i - 1]
    BY <2>1, SubSeqProperties
  <2> HIDE DEF t
  <2>3. Len(t) = Len(b) /\ \A i \in 1 .. Len(t) : t[i] = b[i]
    <3>1. Len(t) = n /\ \A i \in 1 .. n : t[i] = s[m + i]
      <4> HIDE DEF m, n
      <4>1. high - low + 1 = n /\ (low <= high <=> n > 0)
            /\ \A i \in 1 .. n : low + i - 1 = m + i
        BY <1>1
      <4>2. \A l \in Int : \A h \in Int : \A k \in Nat :
               h - l + 1 = k /\ (l <= h <=> k > 0) => (IF l <= h THEN h - l + 1 ELSE 0) = k
        OBVIOUS
      <4>3. low \in Int /\ high \in Int
        BY <1>1
      <4> HIDE DEF low, high
      <4>4. Len(t) = n
        BY <1>1, <2>2, <4>1, <4>2, <4>3, Zenon
      <4>5. \A i \in 1 .. n : t[i] = s[low + i - 1]
        BY <2>2, <4>1, Zenon
      <4> QED BY <4>1, <4>4, <4>5, Zenon
    <3>2. \A i \in 1 .. n : s[m + i] = b[i]
      <4> HIDE DEF m, n
      <4>1. \A i \in 1 .. n : m + i \in 1 .. m + n /\ ~(m + i <= m) /\ (m + i) - m = i
        BY <1>1
      <4> QED BY <1>1, <4>1
    <3> QED BY <3>1, <3>2
  <2> QED BY <2>2, <2>3, SeqEqual, Zenon DEF t
<1> QED BY <1>3, <1>4 DEF s, m, n

\* The first of two sequences gives its head.
LEMMA FirstTaken ==
    ASSUME NEW S, NEW a \in Seq(S), NEW b \in Seq(S), a # <<>>
    PROVE  a \o b # <<>> /\ Head(a \o b) = Head(a) /\ Tail(a \o b) = Tail(a) \o b
<1>1. /\ a \o b \in Seq(S) /\ Len(a) \in Nat \ {0} /\ Len(b) \in Nat
      /\ Len(a \o b) = Len(a) + Len(b)
      /\ \A i \in 1 .. Len(a) + Len(b) : (a \o b)[i] = IF i <= Len(a) THEN a[i] ELSE b[i - Len(a)]
  BY ConcatProperties, LenProperties, EmptySeq
<1>2. a \o b # <<>> /\ Head(a \o b) = Head(a)
  BY <1>1
<1>3. /\ Tail(a) \in Seq(S) /\ Len(Tail(a)) = Len(a) - 1
      /\ \A i \in 1 .. Len(a) - 1 : Tail(a)[i] = a[i + 1]
  BY HeadTailProperties
<1>4. /\ Tail(a \o b) \in Seq(S) /\ Len(Tail(a \o b)) = Len(a) + Len(b) - 1
      /\ \A i \in 1 .. Len(a) + Len(b) - 1 : Tail(a \o b)[i] = (a \o b)[i + 1]
  BY <1>1, <1>2, HeadTailProperties
<1>5. /\ Tail(a) \o b \in Seq(S) /\ Len(Tail(a) \o b) = Len(Tail(a)) + Len(b)
      /\ \A i \in 1 .. Len(Tail(a)) + Len(b) :
            (Tail(a) \o b)[i] = IF i <= Len(Tail(a)) THEN Tail(a)[i] ELSE b[i - Len(Tail(a))]
  BY <1>3, ConcatProperties
<1> DEFINE m == Len(a)
           n == Len(b)
           s == a \o b
           t == Tail(a) \o b
           r == Tail(a \o b)
<1>6. /\ m \in Nat \ {0} /\ n \in Nat
      /\ \A i \in 1 .. m + n - 1 : r[i] = s[i + 1]
      /\ \A i \in 1 .. m + n : s[i] = IF i <= m THEN a[i] ELSE b[i - m]
      /\ Len(r) = m + n - 1
  BY <1>1, <1>4
<1>7. /\ Len(t) = (m - 1) + n
      /\ \A i \in 1 .. (m - 1) + n : t[i] = IF i <= m - 1 THEN a[i + 1] ELSE b[i - (m - 1)]
  <2>1. \A i \in 1 .. (m - 1) + n : i <= m - 1 => i \in 1 .. m - 1
    BY <1>6
  <2> QED BY <1>3, <1>5, <2>1
<1>8. \A i \in 1 .. m + n - 1 : r[i] = t[i]
  <2> HIDE DEF m, n, s, t, r
  <2>1. ASSUME NEW i \in 1 .. m + n - 1
        PROVE  /\ i + 1 \in 1 .. m + n /\ i \in 1 .. (m - 1) + n
               /\ (i + 1 <= m <=> i <= m - 1) /\ (i + 1) - m = i - (m - 1)
    BY <1>6
  <2> QED BY <1>6, <1>7, <2>1
<1>9. Len(r) = Len(t)
  <2> HIDE DEF m, n, s, t, r
  <2> QED BY <1>6, <1>7
<1>10. r = t
  <2>1. r \in Seq(S) /\ t \in Seq(S) /\ \A i \in 1 .. Len(r) : r[i] = t[i]
    <3>1. r \in Seq(S) /\ t \in Seq(S)
      BY <1>4, <1>5
    <3> HIDE DEF m, n, s, t, r
    <3> QED BY <1>6, <1>8, <3>1
  <2> HIDE DEF m, n, s, t, r
  <2> QED BY <1>9, <2>1, SeqEqual, Zenon
<1> QED BY <1>2, <1>10

\* An element is added to the second.
LEMMA LastAdded ==
    ASSUME NEW S, NEW a \in Seq(S), NEW b \in Seq(S), NEW x \in S
    PROVE  a \o Append(b, x) = Append(a \o b, x)
<1>1. <<x>> \in Seq(S) /\ a \o b \in Seq(S) /\ Append(b, x) = b \o <<x>>
  BY ConcatProperties, AppendIsConcat
<1>2. Append(a \o b, x) = (a \o b) \o <<x>>
  BY <1>1, AppendIsConcat
<1> QED BY <1>1, <1>2, ConcatAssociative

LEMMA ThreeParts ==
    ASSUME NEW a \in Seq(Nat), NEW b \in Seq(Nat), NEW c \in Seq(Nat)
    PROVE  (a \o b) \o c = a \o (b \o c)
BY ConcatAssociative, SMTT(60)

\* The packets in a queue, in hand, and behind them, oldest first.
Joined(q, h, b) == (q \o h) \o b

LEMMA JoinedSeq ==
    ASSUME NEW q \in Seq(Nat), NEW h \in Seq(Nat), NEW b \in Seq(Nat)
    PROVE  /\ Joined(q, h, b) \in Seq(Nat)
           /\ Len(Joined(q, h, b)) = Len(q) + Len(h) + Len(b)
           /\ Len(q) \in Nat /\ Len(h) \in Nat /\ Len(b) \in Nat
<1>1. q \o h \in Seq(Nat) /\ Len(q \o h) = Len(q) + Len(h)
  BY ConcatProperties
<1> DEFINE qh == q \o h
<1> HIDE DEF qh
<1>2. qh \in Seq(Nat) /\ Len(qh) = Len(q) + Len(h)
  BY <1>1 DEF qh
<1>3. qh \o b \in Seq(Nat) /\ Len(qh \o b) = Len(qh) + Len(b)
  BY <1>2, ConcatProperties
<1>4. Joined(q, h, b) = qh \o b
  BY DEF Joined, qh
<1> QED BY <1>2, <1>3, <1>4, LenProperties

LEMMA JoinedMore ==
    ASSUME NEW q \in Seq(Nat), NEW h \in Seq(Nat), NEW b \in Seq(Nat), NEW x \in Nat
    PROVE  Joined(q, h, Append(b, x)) = Append(Joined(q, h, b), x)
<1> DEFINE qh == q \o h
<1>1. qh \in Seq(Nat)
  BY ConcatProperties
<1>2. Joined(q, h, b) = qh \o b /\ Joined(q, h, Append(b, x)) = qh \o Append(b, x)
  BY DEF Joined
<1> HIDE DEF qh
<1>3. qh \o Append(b, x) = Append(qh \o b, x)
  BY <1>1, LastAdded, SMTT(30)
<1> QED BY <1>2, <1>3

\* What is behind is lost.
LEMMA JoinedCut ==
    ASSUME NEW q \in Seq(Nat), NEW h \in Seq(Nat), NEW b \in Seq(Nat)
    PROVE  \E n \in 0 .. Len(Joined(q, h, b)) :
              Joined(q, h, <<>>) = SubSeq(Joined(q, h, b), 1, n)
<1> DEFINE qh == q \o h
<1>1. qh \in Seq(Nat) /\ Len(qh) = Len(q) + Len(h)
  BY ConcatProperties
<1>2. Joined(q, h, b) = qh \o b /\ Joined(q, h, <<>>) = qh \o <<>>
  BY DEF Joined
<1> HIDE DEF qh
<1>3. qh \o <<>> = qh /\ SubSeq(qh \o b, 1, Len(qh)) = qh
  BY <1>1, ConcatEmptySeq, Parts
<1>4. Len(qh) \in 0 .. Len(Joined(q, h, b))
  <2>1. Len(Joined(q, h, b)) = Len(q) + Len(h) + Len(b)
        /\ Len(q) \in Nat /\ Len(h) \in Nat /\ Len(b) \in Nat
    BY JoinedSeq
  <2> QED BY <1>1, <2>1
<1> QED BY <1>2, <1>3, <1>4

\* The first one behind is taken in hand.
LEMMA JoinedGrasp ==
    ASSUME NEW q \in Seq(Nat), NEW one \in Seq(Nat), NEW b \in Seq(Nat)
    PROVE  Joined(q, <<>>, one \o b) = Joined(q, one, b)
<1>1. Joined(q, <<>>, one \o b) = q \o (one \o b)
  BY ConcatEmptySeq DEF Joined
<1>2. (q \o one) \o b = q \o (one \o b)
  BY ThreeParts
<1> QED BY <1>1, <1>2, Zenon DEF Joined

\* The one in hand is put in the queue.
LEMMA JoinedQueue ==
    ASSUME NEW q \in Seq(Nat), NEW x \in Nat, NEW b \in Seq(Nat)
    PROVE  Joined(Append(q, x), <<>>, b) = Joined(q, <<x>>, b)
<1>1. Append(q, x) \in Seq(Nat) /\ Append(q, x) = q \o <<x>>
  BY AppendProperties, AppendIsConcat
<1>2. Append(q, x) \o <<>> = Append(q, x)
  BY <1>1, ConcatEmptySeq
<1> QED BY <1>1, <1>2, Zenon DEF Joined

\* The one in hand is dropped.
LEMMA JoinedDrop ==
    ASSUME NEW q \in Seq(Nat), NEW one \in Seq(Nat), Len(one) = 1, NEW b \in Seq(Nat)
    PROVE  \E i \in 1 .. Len(Joined(q, one, b)) :
              Joined(q, <<>>, b) = SubSeq(Joined(q, one, b), 1, i - 1)
                                      \o SubSeq(Joined(q, one, b), i + 1, Len(Joined(q, one, b)))
<1> DEFINE s == Joined(q, one, b)
           both == q \o one
           rest == one \o b
           i == Len(q) + 1
<1>1. both \in Seq(Nat) /\ Len(both) = i /\ rest \in Seq(Nat) /\ Len(q) \in Nat /\ Len(b) \in Nat
  <2>1. both \in Seq(Nat) /\ Len(both) = Len(q) + Len(one) /\ rest \in Seq(Nat)
    BY ConcatProperties
  <2>2. Len(q) \in Nat /\ Len(b) \in Nat
    BY LenProperties
  <2> HIDE DEF both, rest
  <2> QED BY <2>1, <2>2
<1>2. s = both \o b /\ Joined(q, <<>>, b) = q \o b
  BY ConcatEmptySeq DEF Joined
<1>3. s = q \o rest
  <2>1. (q \o one) \o b = q \o (one \o b)
    BY ThreeParts
  <2> QED BY <2>1, Zenon DEF Joined
<1> HIDE DEF s, both, rest
<1>4. SubSeq(s, 1, Len(q)) = q
  BY <1>1, <1>3, Parts, Zenon
<1>5. SubSeq(s, Len(both) + 1, Len(both) + Len(b)) = b /\ Len(s) = Len(both) + Len(b)
  <2>1. SubSeq(s, Len(both) + 1, Len(both) + Len(b)) = b
    BY <1>1, <1>2, Parts, Zenon
  <2> QED BY <1>1, <1>2, <2>1, ConcatProperties
<1>6. i - 1 = Len(q) /\ i \in 1 .. Len(s)
  BY <1>1, <1>5
<1> HIDE DEF i
<1>7. q \o b = SubSeq(s, 1, i - 1) \o SubSeq(s, i + 1, Len(s))
  BY <1>1, <1>4, <1>5, <1>6, Zenon
<1> QED BY <1>2, <1>6, <1>7 DEF s

\* The first one of the queue is taken.
LEMMA JoinedTake ==
    ASSUME NEW q \in Seq(Nat), NEW h \in Seq(Nat), NEW b \in Seq(Nat), q # <<>>
    PROVE  /\ Joined(q, h, b) # <<>> /\ Head(Joined(q, h, b)) = Head(q)
           /\ Tail(Joined(q, h, b)) = Joined(Tail(q), h, b)
<1> DEFINE qh == q \o h
           rest == Tail(q) \o h
<1>1. qh \in Seq(Nat) /\ qh # <<>> /\ Head(qh) = Head(q) /\ Tail(qh) = rest
  BY FirstTaken, ConcatProperties
<1>2. Joined(q, h, b) = qh \o b /\ Joined(Tail(q), h, b) = rest \o b
  BY Zenon DEF Joined
<1> HIDE DEF qh, rest
<1>3. qh \o b # <<>> /\ Head(qh \o b) = Head(qh) /\ Tail(qh \o b) = Tail(qh) \o b
  BY <1>1, FirstTaken
<1> QED BY <1>1, <1>2, <1>3

-----------------------------------------------------------------------------
(* What every implementation of LossyFifo inherits: packets wait in the order *)
(* of their numbers, and none of them is older than the last one delivered.   *)

InOrder ==
    /\ arrived \in Nat /\ gPbuf.id \in 0 .. arrived
    /\ Held \in Seq(Nat)
    /\ \A i \in 1 .. Len(Held) : gPbuf.id < Held[i] /\ Held[i] <= arrived
    /\ \A i, j \in 1 .. Len(Held) : i < j => Held[i] < Held[j]

LEMMA OneRemoved ==
    ASSUME NEW s \in Seq(Nat), NEW i \in 1 .. Len(s)
    PROVE  LET r == SubSeq(s, 1, i - 1) \o SubSeq(s, i + 1, Len(s))
           IN  /\ r \in Seq(Nat) /\ Len(r) = Len(s) - 1
               /\ \A k \in 1 .. Len(s) - 1 : r[k] = IF k < i THEN s[k] ELSE s[k + 1]
<1> DEFINE n == Len(s)
           a == SubSeq(s, 1, i - 1)
           b == SubSeq(s, i + 1, n)
           r == a \o b
           low == i + 1
           high == i - 1
<1>1. n \in Nat /\ i \in 1 .. n /\ \A k \in 1 .. n : s[k] \in Nat
  BY LenProperties, ElementOfSeq
<1>2. low \in Int /\ high \in Int /\ 1 \in Int /\ n \in Int
      /\ (\A k \in 1 .. high : s[k] \in Nat) /\ (\A k \in low .. n : s[k] \in Nat)
  <2> HIDE DEF n
  <2> QED BY <1>1
<1> HIDE DEF n
<1>3. /\ a \in Seq(Nat) /\ Len(a) = (IF 1 <= high THEN high - 1 + 1 ELSE 0)
      /\ \A k \in 1 .. high - 1 + 1 : a[k] = s[1 + k - 1]
  <2> HIDE DEF high
  <2>1. a = SubSeq(s, 1, high)
    BY DEF high
  <2> HIDE DEF a
  <2> QED BY <1>2, <2>1, SubSeqProperties
<1>4. /\ b \in Seq(Nat) /\ Len(b) = (IF low <= n THEN n - low + 1 ELSE 0)
      /\ \A k \in 1 .. n - low + 1 : b[k] = s[low + k - 1]
  <2> HIDE DEF low
  <2>1. b = SubSeq(s, low, n)
    BY DEF low
  <2> HIDE DEF b
  <2> QED BY <1>2, <2>1, SubSeqProperties
<1> HIDE DEF a, b
<1>5. Len(a) = i - 1 /\ Len(b) = n - i
  BY <1>1, <1>3, <1>4
<1>6. /\ r \in Seq(Nat) /\ Len(r) = Len(a) + Len(b)
      /\ \A k \in 1 .. Len(a) + Len(b) : r[k] = IF k <= Len(a) THEN a[k] ELSE b[k - Len(a)]
  BY <1>3, <1>4, ConcatProperties
<1> HIDE DEF r
<1>7. Len(a) + Len(b) = n - 1
  BY <1>1, <1>5
<1>8. \A k \in 1 .. n - 1 : r[k] = IF k < i THEN s[k] ELSE s[k + 1]
  <2> SUFFICES ASSUME NEW k \in 1 .. n - 1 PROVE r[k] = IF k < i THEN s[k] ELSE s[k + 1]
    OBVIOUS
  <2>1. r[k] = IF k <= i - 1 THEN a[k] ELSE b[k - (i - 1)]
    <3>1. k \in 1 .. Len(a) + Len(b)
      BY <1>7
    <3> QED BY <1>5, <1>6, <3>1
  <2>2. CASE k < i
    <3>1. k <= i - 1 /\ k \in 1 .. high - 1 + 1 /\ 1 + k - 1 = k
      BY <1>1, <2>2
    <3> QED BY <1>3, <2>1, <2>2, <3>1
  <2>3. CASE ~(k < i)
    <3>1. ~(k <= i - 1) /\ k - (i - 1) \in 1 .. n - low + 1 /\ low + (k - (i - 1)) - 1 = k + 1
      BY <1>1, <2>3
    <3> QED BY <1>4, <2>1, <2>3, <3>1
  <2> QED BY <2>2, <2>3
<1>9. Len(r) = n - 1
  BY <1>6, <1>7
<1> QED BY <1>6, <1>8, <1>9 DEF r, a, b, n

LEMMA OrderKept == InOrder /\ [Abstract!Next]_(Abstract!vars) => InOrder'
<1> SUFFICES ASSUME InOrder, [Abstract!Next]_(Abstract!vars) PROVE InOrder'
  OBVIOUS
<1> USE DEF InOrder
<1>0. Len(Held) \in Nat /\ \A i \in 1 .. Len(Held) : Held[i] \in Nat
  BY LenProperties, ElementOfSeq
<1>1. CASE Abstract!Receive
  <2>1. arrived' = arrived + 1 /\ Held' = Append(Held, arrived + 1) /\ gPbuf.id' = gPbuf.id
    BY <1>1 DEF Abstract!Receive
  <2>2. /\ Held' \in Seq(Nat) /\ Len(Held') = Len(Held) + 1
        /\ \A i \in 1 .. Len(Held) : Held'[i] = Held[i]
        /\ Held'[Len(Held) + 1] = arrived + 1
    <3>1. arrived + 1 \in Nat
      OBVIOUS
    <3> QED BY <2>1, <3>1, AppendProperties
  <2>3. \A i \in 1 .. Len(Held) + 1 : i \in 1 .. Len(Held) \/ i = Len(Held) + 1
    BY <1>0
  <2> HIDE DEF Held
  <2>4. \A i \in 1 .. Len(Held') : gPbuf.id < Held'[i] /\ Held'[i] <= arrived + 1
    <3> SUFFICES ASSUME NEW i \in 1 .. Len(Held) + 1
                 PROVE  gPbuf.id < Held'[i] /\ Held'[i] <= arrived + 1
      BY <2>2
    <3>1. CASE i \in 1 .. Len(Held)
      <4>1. Held'[i] = Held[i] /\ Held[i] \in Nat /\ gPbuf.id < Held[i] /\ Held[i] <= arrived
        BY <1>0, <2>2, <3>1
      <4> QED BY <4>1
    <3>2. CASE i = Len(Held) + 1
      <4>1. Held'[i] = arrived + 1
        BY <2>2, <3>2
      <4> QED BY <4>1
    <3> QED BY <2>3, <3>1, <3>2
  <2>5. ASSUME NEW i \in 1 .. Len(Held'), NEW j \in 1 .. Len(Held'), i < j
        PROVE  Held'[i] < Held'[j]
    <3>1. i \in 1 .. Len(Held)
      BY <1>0, <2>2, <2>5
    <3>2. CASE j \in 1 .. Len(Held)
      BY <2>2, <2>5, <3>1, <3>2
    <3>3. CASE j = Len(Held) + 1
      <4>1. Held'[i] = Held[i] /\ Held[i] \in Nat /\ Held[i] <= arrived
        BY <1>0, <2>2, <3>1
      <4>2. Held'[j] = arrived + 1
        BY <2>2, <3>3
      <4> QED BY <4>1, <4>2
    <3> QED BY <2>2, <2>3, <3>2, <3>3
  <2> QED BY <2>1, <2>2, <2>4, <2>5
<1>2. ASSUME NEW i \in 1 .. Len(Held), Abstract!Refuse(i)
      PROVE  InOrder'
  <2>1. arrived' = arrived /\ gPbuf.id' = gPbuf.id
        /\ Held' = SubSeq(Held, 1, i - 1) \o SubSeq(Held, i + 1, Len(Held))
    BY <1>2 DEF Abstract!Refuse, Abstract!RemoveAt
  <2>2. /\ Held' \in Seq(Nat) /\ Len(Held') = Len(Held) - 1
        /\ \A k \in 1 .. Len(Held) - 1 : Held'[k] = IF k < i THEN Held[k] ELSE Held[k + 1]
    <3> DEFINE r == SubSeq(Held, 1, i - 1) \o SubSeq(Held, i + 1, Len(Held))
    <3>1. /\ r \in Seq(Nat) /\ Len(r) = Len(Held) - 1
          /\ \A k \in 1 .. Len(Held) - 1 : r[k] = IF k < i THEN Held[k] ELSE Held[k + 1]
      BY OneRemoved, ZenonT(30)
    <3> HIDE DEF r
    <3> QED BY <2>1, <3>1, Zenon DEF r
  <2> HIDE DEF Held
  <2>3. \A k \in 1 .. Len(Held) - 1 : k \in 1 .. Len(Held) /\ k + 1 \in 1 .. Len(Held)
    BY <1>0
  <2>4. \A k \in 1 .. Len(Held') : gPbuf.id < Held'[k] /\ Held'[k] <= arrived
    BY <2>2, <2>3
  <2>5. ASSUME NEW k \in 1 .. Len(Held'), NEW l \in 1 .. Len(Held'), k < l
        PROVE  Held'[k] < Held'[l]
    <3>1. /\ k \in 1 .. Len(Held) /\ k + 1 \in 1 .. Len(Held)
          /\ l \in 1 .. Len(Held) /\ l + 1 \in 1 .. Len(Held)
          /\ k < l + 1 /\ k + 1 < l + 1
      BY <1>0, <2>2, <2>3, <2>5, SMTT(30)
    <3>2. Held[k] < Held[l] /\ Held[k] < Held[l + 1] /\ Held[k + 1] < Held[l + 1]
      BY <2>5, <3>1
    <3>3. Held'[k] = (IF k < i THEN Held[k] ELSE Held[k + 1])
          /\ Held'[l] = (IF l < i THEN Held[l] ELSE Held[l + 1])
      BY <2>2
    <3>4. l < i => k < i
      BY <1>0, <2>5, <3>1
    <3> QED BY <3>2, <3>3, <3>4
  <2> QED BY <2>1, <2>2, <2>4, <2>5
<1>3. ASSUME NEW n \in 0 .. Len(Held), Abstract!Flush(n)
      PROVE  InOrder'
  <2>1. arrived' = arrived /\ gPbuf.id' = gPbuf.id /\ Held' = SubSeq(Held, 1, n)
    BY <1>3 DEF Abstract!Flush
  <2>2. 1 \in Int /\ n \in Int /\ \A i \in 1 .. n : i \in 1 .. Len(Held) /\ Held[i] \in Nat
    BY <1>0
  <2>3. /\ Held' \in Seq(Nat) /\ Len(Held') = (IF 1 <= n THEN n - 1 + 1 ELSE 0)
        /\ \A i \in 1 .. n - 1 + 1 : Held'[i] = Held[1 + i - 1]
    BY <2>1, <2>2, SubSeqProperties
  <2> HIDE DEF Held
  <2>4. Len(Held') = n /\ \A i \in 1 .. n : Held'[i] = Held[i]
    BY <2>2, <2>3
  <2> QED BY <2>1, <2>2, <2>3, <2>4
<1>4. CASE Abstract!Deliver
  <2>1. arrived' = arrived /\ gPbuf.id' = Head(Held) /\ Held' = Tail(Held) /\ Held # <<>>
    BY <1>4 DEF Abstract!Deliver
  <2>2. /\ Held' \in Seq(Nat) /\ Len(Held') = Len(Held) - 1
        /\ \A i \in 1 .. Len(Held) - 1 : Held'[i] = Held[i + 1]
        /\ Len(Held) \in Nat \ {0} /\ Head(Held) = Held[1]
    BY <2>1, HeadTailProperties, EmptySeq
  <2> HIDE DEF Held
  <2>3. 1 \in 1 .. Len(Held) /\ \A i \in 1 .. Len(Held) - 1 : i + 1 \in 1 .. Len(Held) /\ 1 < i + 1
    BY <2>2
  <2>4. gPbuf.id' \in 0 .. arrived
    BY <1>0, <2>1, <2>2, <2>3
  <2>5. \A i \in 1 .. Len(Held') : gPbuf.id' < Held'[i] /\ Held'[i] <= arrived
    BY <2>1, <2>2, <2>3
  <2>6. ASSUME NEW i \in 1 .. Len(Held'), NEW j \in 1 .. Len(Held'), i < j
        PROVE  Held'[i] < Held'[j]
    <3>1. i + 1 \in 1 .. Len(Held) /\ j + 1 \in 1 .. Len(Held) /\ i + 1 < j + 1
      BY <2>2, <2>3, <2>6
    <3> QED BY <2>2, <3>1
  <2> QED BY <2>1, <2>2, <2>4, <2>5, <2>6
<1>5. CASE UNCHANGED Abstract!vars
  <2>1. arrived' = arrived /\ Held' = Held /\ gPbuf.id' = gPbuf.id
    BY <1>5 DEF Abstract!vars
  <2> HIDE DEF Held
  <2> QED BY <2>1
<1> QED BY <1>1, <1>2, <1>3, <1>4, <1>5 DEF Abstract!Next

-----------------------------------------------------------------------------
(* What the radio task knows of its packet.                                  *)

HandleSteps == {"check", "alloc", "count", "store", "copy"}

\* Packets have a size, and so has the one in hand.
Sized ==
    /\ \A i \in 1 .. Len(fifo) : fifo[i].size \in Sizes
    /\ pc \in HandleSteps => cur.size \in Sizes

\* Until it is released, the packet stays the oldest in the receive FIFO.
Oldest ==
    /\ holding => fifo # <<>> /\ cur = Head(fifo)
    /\ pc \in {"idle", "info"} => ~holding

RadioInv == TypeOK /\ Sized /\ Oldest

LEMMA RadioInit == Init => RadioInv
<1> SUFFICES ASSUME Init PROVE RadioInv
  OBVIOUS
<1>1. /\ note \in BOOLEAN /\ holding \in BOOLEAN /\ gRxOverflowFlag \in BOOLEAN /\ rxIrq \in BOOLEAN
      /\ ~holding /\ fifo = <<>> /\ pc = "idle"
  BY Zenon DEF Init
<1>2. NoPacket \in Packet
  BY DEF NoPacket, Packet
<1>3. fifo \in Seq(Packet) /\ gRxQueue \in Seq(Packet)
  BY DEF Init
<1>4. TypeOK
  BY <1>1, <1>2, <1>3 DEF Init, TypeOK, Steps
<1>5. Sized /\ Oldest
  BY <1>1 DEF Sized, Oldest, HandleSteps
<1> QED BY <1>4, <1>5 DEF RadioInv

LEMMA PacketData ==
    ASSUME NEW p \in Packet
    PROVE  p.id \in Nat /\ p.size \in Nat
<1>1. p.id \in Nat /\ p.size \in Sizes \cup {0}
  BY DEF Packet
<1>2. \A n \in Sizes \cup {0} : n \in Nat
  BY SizesAssumption
<1> QED BY <1>1, <1>2, Zenon

LEMMA RadioInvStep == RadioInv /\ [Next]_vars => RadioInv'
<1> SUFFICES ASSUME RadioInv, [Next]_vars PROVE RadioInv'
  OBVIOUS
<1> USE DEF RadioInv, TypeOK, Sized, Oldest, HandleSteps, Steps, radioVars, railVars, handlerVars,
            hostVars
<1>1. ASSUME NEW s \in Sizes, NEW ack \in BOOLEAN, RxPacketReceived(s, ack)
      PROVE  RadioInv'
  <2> DEFINE p == [id |-> arrived + 1, size |-> s, ack |-> ack, intact |-> TRUE]
  <2>1. p \in Packet /\ p.size \in Sizes
    BY SizesAssumption DEF Packet
  <2>2. fifo' = Append(fifo, p) /\ arrived' \in Nat /\ note' \in BOOLEAN
    BY <1>1 DEF RxPacketReceived
  <2> HIDE DEF p
  <2>3. /\ fifo' \in Seq(Packet) /\ fifo' # <<>> /\ Len(fifo') = Len(fifo) + 1
        /\ \A i \in 1 .. Len(fifo) : fifo'[i] = fifo[i]
        /\ fifo'[Len(fifo) + 1] = p
        /\ fifo # <<>> => Head(fifo') = Head(fifo)
    BY <2>1, <2>2, AppendProperties, HeadTailAppend
  <2>4. \A i \in 1 .. Len(fifo') : i \in 1 .. Len(fifo) \/ i = Len(fifo) + 1
    BY <2>3, LenProperties
  <2>5. \A i \in 1 .. Len(fifo') : fifo'[i].size \in Sizes
    BY <2>1, <2>3, <2>4
  <2> QED BY <1>1, <2>2, <2>3, <2>5 DEF RxPacketReceived
<1>2. CASE ResetFifo
  <2>1. fifo' = <<>> /\ Len(fifo') = 0 /\ fifo' \in Seq(Packet) /\ holding' = FALSE
    BY <1>2 DEF ResetFifo
  <2>2. TypeOK'
    BY <1>2, <2>1, ZenonT(30) DEF ResetFifo
  <2>3. Sized' /\ Oldest'
    BY <1>2, <2>1 DEF ResetFifo
  <2> QED BY <2>2, <2>3
<1>3. CASE RadioWake
  BY <1>3 DEF RadioWake
<1>4. CASE RadioGetInfo
  <2>1. fifo # <<>> => Head(fifo) \in Packet /\ Head(fifo) = fifo[1] /\ 1 \in 1 .. Len(fifo)
    BY HeadTailProperties, EmptySeq
  <2>2. TypeOK'
    BY <1>4, <2>1 DEF RadioGetInfo
  <2>3. Sized'
    BY <1>4, <2>1 DEF RadioGetInfo
  <2>4. Oldest'
    BY <1>4 DEF RadioGetInfo
  <2> QED BY <2>2, <2>3, <2>4
<1>5. CASE RadioCheck
  <2>1. gRxOverflowFlag' \in BOOLEAN
    BY <1>5, Zenon DEF RadioCheck
  <2> QED BY <1>5, <2>1 DEF RadioCheck
<1>6. CASE RadioAlloc
  <2>1. Buffer(cur) \in [id : Nat, size : Sizes]
    BY <1>6 DEF RadioAlloc, Buffer, Packet
  <2> QED BY <1>6, <2>1 DEF RadioAlloc
<1>7. CASE RadioCount
  <2>1. cur.size \in Int
    BY PacketData
  <2> QED BY <1>7, <2>1 DEF RadioCount
<1>8. CASE RadioStore
  BY <1>8 DEF RadioStore
<1>9. CASE RadioCopy
  <2>1. \A ack \in BOOLEAN : [cur EXCEPT !.ack = ack, !.intact = FALSE] \in Packet
    BY DEF Packet
  <2>2. \E p \in Packet : gRxQueue' = Append(gRxQueue, p)
    BY <1>9, <2>1 DEF RadioCopy, Queued
  <2>3. gRxQueue' \in Seq(Packet)
    BY <2>2, AppendProperties
  <2> QED BY <1>9, <2>3 DEF RadioCopy
<1>10. CASE RadioUpdate \/ RadioAssert
  <2>1. pc' \in {"release", "assert"} /\ UNCHANGED <<railVars, cur, sum, handlerVars, hostVars, sys>>
    BY <1>10 DEF RadioUpdate, RadioAssert
  <2>2. rxIrq' \in BOOLEAN
    BY <1>10 DEF RadioUpdate, RadioAssert
  <2> QED BY <2>1, <2>2
<1>11. CASE RadioRelease
  <2>1. NoPacket \in Packet
    BY DEF NoPacket, Packet
  <2>2. fifo # <<>> => /\ Tail(fifo) \in Seq(Packet) /\ Len(Tail(fifo)) = Len(fifo) - 1
                       /\ \A i \in 1 .. Len(Tail(fifo)) : Tail(fifo)[i] = fifo[i + 1]
                       /\ Len(fifo) \in Nat
    BY HeadTailProperties, LenProperties
  <2>3. fifo # <<>> => \A i \in 1 .. Len(Tail(fifo)) : Tail(fifo)[i].size \in Sizes
    BY <2>2
  <2> QED BY <1>11, <2>1, <2>2, <2>3 DEF RadioRelease
<1>12. CASE HostIrqStatus \/ HostQueueStatus
  <2>1. UNCHANGED <<railVars, radioVars, handlerVars, gPbuf, lost>>
    BY <1>12 DEF HostIrqStatus, HostQueueStatus
  <2>2. /\ rxIrq' \in BOOLEAN /\ host' \in {"idle", "told", "sized", "response"}
        /\ sys' \in {"run", "peekFault", "ackPanic"}
    BY <1>12 DEF HostIrqStatus, HostQueueStatus
  <2> QED BY <2>1, <2>2
<1>13. CASE HostReadPacket
  <2>1. rxIrq' \in BOOLEAN
    BY <1>13, Zenon DEF HostReadPacket, IrqAfterPop
  <2>2. Head(gRxQueue) \in Packet /\ Tail(gRxQueue) \in Seq(Packet)
    BY <1>13, HeadTailProperties DEF HostReadPacket
  <2> QED BY <1>13, <2>1, <2>2 DEF HostReadPacket
<1>14. CASE HostPostRead
  <2>1. gPbuf.size \in Nat
    BY PacketData
  <2>2. lost' \in Nat /\ gRxAllocBytes' \in Int
    BY <1>14, <2>1 DEF HostPostRead, BytesAfterRead
  <2>3. /\ UNCHANGED <<railVars, radioVars, gRxQueue, gRxOverflowFlag, rxIrq, gPbuf>>
        /\ heap' \subseteq heap /\ host' = "idle" /\ sys' \in {"run", "ackPanic"}
    BY <1>14 DEF HostPostRead, HeapAfterRead, Running
  <2> QED BY <2>2, <2>3
<1>15. CASE UNCHANGED vars
  BY <1>15 DEF vars
<1> QED
  BY <1>1, <1>2, <1>3, <1>4, <1>5, <1>6, <1>7, <1>8, <1>9, <1>10, <1>11, <1>12, <1>13, <1>14,
     <1>15, Zenon
  DEF Next, Rail, RxFifoOverflow, Radio, HostReads, HostSetChannel

\* Every variable keeps to its type.
THEOREM RxTypeCorrect == Spec => []TypeOK
<1>1. RadioInv => TypeOK
  BY DEF RadioInv
<1> QED BY <1>1, RadioInit, RadioInvStep, PTL DEF Spec

-----------------------------------------------------------------------------
(* The refinement.  A packet is in the FIFO, in hand, or in the queue; each   *)
(* step of the firmware moves it on, drops it, or leaves it where it is.      *)

LEMMA IdsProperties ==
    ASSUME NEW s \in Seq(Packet)
    PROVE  /\ Ids(s) \in Seq(Nat) /\ Len(Ids(s)) = Len(s)
           /\ \A i \in 1 .. Len(s) : Ids(s)[i] = s[i].id
<1>1. Len(s) \in Nat /\ \A i \in 1 .. Len(s) : s[i].id \in Nat
  BY LenProperties, ElementOfSeq, PacketData
<1>2. [i \in 1 .. Len(s) |-> s[i].id] \in Seq(Nat)
  BY <1>1
<1> QED BY <1>1, <1>2 DEF Ids

LEMMA IdsOfNone == Ids(<<>>) = <<>>
<1>1. <<>> \in Seq(Packet)
  OBVIOUS
<1>2. Ids(<<>>) \in Seq(Nat) /\ Len(Ids(<<>>)) = 0
  BY <1>1, IdsProperties
<1> QED BY <1>2, EmptySeq

LEMMA IdsOfMore ==
    ASSUME NEW s \in Seq(Packet), NEW p \in Packet
    PROVE  Ids(Append(s, p)) = Append(Ids(s), p.id)
<1> DEFINE t == Append(s, p)
           a == Ids(t)
           b == Append(Ids(s), p.id)
<1>1. /\ t \in Seq(Packet) /\ Len(t) = Len(s) + 1 /\ t[Len(s) + 1] = p
      /\ \A i \in 1 .. Len(s) : t[i] = s[i]
  BY AppendProperties
<1>2. p.id \in Nat
  BY PacketData
<1>3. /\ b \in Seq(Nat) /\ Len(b) = Len(s) + 1 /\ b[Len(s) + 1] = p.id
      /\ \A i \in 1 .. Len(s) : b[i] = s[i].id
  BY <1>2, IdsProperties, AppendProperties
<1>4. /\ a \in Seq(Nat) /\ Len(a) = Len(t) /\ \A i \in 1 .. Len(t) : a[i] = t[i].id
  BY <1>1, IdsProperties
<1> HIDE DEF t, a, b
<1>5. \A i \in 1 .. Len(s) + 1 : i \in 1 .. Len(s) \/ i = Len(s) + 1
  BY LenProperties
<1>6. \A i \in 1 .. Len(a) : a[i] = b[i]
  <2> SUFFICES ASSUME NEW i \in 1 .. Len(s) + 1 PROVE a[i] = b[i]
    BY <1>1, <1>4
  <2>1. a[i] = t[i].id
    BY <1>1, <1>4
  <2> QED BY <1>1, <1>3, <1>5, <2>1
<1> QED BY <1>1, <1>3, <1>4, <1>6, SeqEqual DEF t, a, b

LEMMA IdsOfRest ==
    ASSUME NEW s \in Seq(Packet), s # <<>>
    PROVE  /\ Ids(s) # <<>> /\ Head(Ids(s)) = Head(s).id /\ Tail(Ids(s)) = Ids(Tail(s))
           /\ Ids(s) = <<Head(s).id>> \o Ids(Tail(s))
<1> DEFINE t == Tail(s)
           a == Ids(t)
           b == Tail(Ids(s))
<1>1. /\ Len(s) \in Nat \ {0} /\ t \in Seq(Packet) /\ Len(t) = Len(s) - 1 /\ Head(s) = s[1]
      /\ \A i \in 1 .. Len(t) : t[i] = s[i + 1]
  BY HeadTailProperties, EmptySeq
<1>2. /\ Ids(s) \in Seq(Nat) /\ Len(Ids(s)) = Len(s) /\ Ids(s) # <<>>
      /\ \A i \in 1 .. Len(s) : Ids(s)[i] = s[i].id
  BY <1>1, IdsProperties
<1>3. Head(Ids(s)) = Head(s).id /\ Ids(s) = <<Head(Ids(s))>> \o b
  <2>1. Head(Ids(s)) = Ids(s)[1] /\ 1 \in 1 .. Len(s)
    BY <1>1, <1>2
  <2>2. Ids(s) = <<Head(Ids(s))>> \o b
    BY <1>2, HeadTailProperties
  <2> QED BY <1>1, <1>2, <2>1, <2>2
<1>4. /\ b \in Seq(Nat) /\ Len(b) = Len(s) - 1 /\ \A i \in 1 .. Len(s) - 1 : b[i] = Ids(s)[i + 1]
  BY <1>2, HeadTailProperties
<1>5. /\ a \in Seq(Nat) /\ Len(a) = Len(t) /\ \A i \in 1 .. Len(t) : a[i] = t[i].id
  BY <1>1, IdsProperties
<1>6. \A i \in 1 .. Len(s) - 1 : i + 1 \in 1 .. Len(s)
  BY <1>1
<1> HIDE DEF a, b, t
<1>7. \A i \in 1 .. Len(a) : a[i] = b[i]
  BY <1>1, <1>2, <1>4, <1>5, <1>6
<1>8. a = b
  BY <1>1, <1>4, <1>5, <1>7, SeqEqual
<1> QED BY <1>2, <1>3, <1>8 DEF a, b, t
\* The three parts of Held.
LEMMA HeldParts ==
    ASSUME RadioInv
    PROVE  /\ Ids(gRxQueue) \in Seq(Nat) /\ InHand \in Seq(Nat) /\ Ids(Behind) \in Seq(Nat)
           /\ gRxQueue \in Seq(Packet) /\ fifo \in Seq(Packet) /\ Behind \in Seq(Packet)
           /\ cur \in Packet /\ cur.id \in Nat
           /\ Held = Joined(Ids(gRxQueue), InHand, Ids(Behind))
<1>1. Behind \in Seq(Packet) /\ fifo \in Seq(Packet) /\ gRxQueue \in Seq(Packet) /\ cur \in Packet
  BY HeadTailProperties DEF Behind, RadioInv, TypeOK, Oldest
<1>2. cur.id \in Nat
  BY <1>1, PacketData
<1>3. InHand \in Seq(Nat)
  <2>1. <<cur.id>> \in Seq(Nat) /\ <<>> \in Seq(Nat)
    BY <1>2
  <2> QED BY <2>1 DEF InHand
<1>4. Held = Joined(Ids(gRxQueue), InHand, Ids(Behind))
  BY Zenon DEF Held, Joined
<1> QED BY <1>1, <1>2, <1>3, <1>4, IdsProperties

LEMMA HeldStep == RadioInv /\ [Next]_vars => [Abstract!Next]_(Abstract!vars)
<1> SUFFICES ASSUME RadioInv, [Next]_vars PROVE Abstract!Next \/ UNCHANGED Abstract!vars
  OBVIOUS
<1> DEFINE q == Ids(gRxQueue)
           b == Ids(Behind)
<1>0. /\ q \in Seq(Nat) /\ InHand \in Seq(Nat) /\ b \in Seq(Nat)
      /\ gRxQueue \in Seq(Packet) /\ fifo \in Seq(Packet) /\ Behind \in Seq(Packet)
      /\ cur \in Packet /\ cur.id \in Nat
      /\ Held = Joined(q, InHand, b)
  BY HeldParts
<1>h. Held' = Joined(q', InHand', b')
  BY Zenon DEF Held, Joined
\* What moves nothing is no step.
<1>1. ASSUME Held' = Held, arrived' = arrived, gPbuf' = gPbuf
      PROVE  UNCHANGED Abstract!vars
  BY <1>1 DEF Abstract!vars
<1>2. ASSUME NEW s \in Sizes, NEW ack \in BOOLEAN, RxPacketReceived(s, ack)
      PROVE  Abstract!Receive
  <2> DEFINE p == [id |-> arrived + 1, size |-> s, ack |-> ack, intact |-> TRUE]
  <2>1. p \in Packet /\ p.id = arrived + 1 /\ arrived + 1 \in Nat
    BY SizesAssumption DEF Packet, RadioInv, TypeOK
  <2>2. fifo' = Append(fifo, p) /\ arrived' = arrived + 1
        /\ UNCHANGED <<pc, cur, gRxQueue, gPbuf, holding>>
    BY <1>2 DEF RxPacketReceived, radioVars, handlerVars, hostVars
  <2> HIDE DEF p
  <2>3. Behind' = Append(Behind, p)
    BY <1>0, <2>2, HeadTailAppend DEF Behind, RadioInv, Oldest
  <2>4. Ids(Behind') = Append(b, arrived + 1)
    BY <1>0, <2>1, <2>3, IdsOfMore
  <2>5. q' = q /\ InHand' = InHand /\ b' = Append(b, arrived + 1)
    BY <2>2, <2>4 DEF InHand
  <2> HIDE DEF q, b
  <2>6. Joined(q, InHand, Append(b, arrived + 1)) = Append(Joined(q, InHand, b), arrived + 1)
    BY <1>0, <2>1, JoinedMore, ZenonT(30)
  <2>7. Held' = Append(Held, arrived + 1)
    BY <1>0, <1>h, <2>5, <2>6, Zenon
  <2> HIDE DEF Held
  <2> QED BY <2>2, <2>7 DEF Abstract!Receive
<1>3. ASSUME ResetFifo
      PROVE  \E n \in 0 .. Len(Held) : Abstract!Flush(n)
  <2>1. fifo' = <<>> /\ ~holding' /\ UNCHANGED <<arrived, pc, cur, gRxQueue, gPbuf>>
    BY <1>3 DEF ResetFifo, radioVars, handlerVars, hostVars
  <2>2. b' = <<>> /\ q' = q /\ InHand' = InHand
    BY <2>1, IdsOfNone DEF Behind, InHand
  <2> HIDE DEF q, b
  <2>3. Held' = Joined(q, InHand, <<>>)
    BY <1>h, <2>2, Zenon
  <2>4. \E n \in 0 .. Len(Joined(q, InHand, b)) :
           Joined(q, InHand, <<>>) = SubSeq(Joined(q, InHand, b), 1, n)
    BY <1>0, JoinedCut
  <2> HIDE DEF Held
  <2>5. PICK n \in 0 .. Len(Held) : Held' = SubSeq(Held, 1, n)
    BY <1>0, <2>3, <2>4, Zenon
  <2>6. Abstract!Flush(n)
    BY <2>1, <2>5 DEF Abstract!Flush
  <2> QED BY <2>6
<1>4. ASSUME RadioGetInfo
      PROVE  UNCHANGED Abstract!vars
  <2>1. pc = "info" /\ ~holding /\ UNCHANGED <<arrived, gRxQueue, gPbuf, fifo>>
    BY <1>4 DEF RadioGetInfo, handlerVars, hostVars, RadioInv, Oldest
  <2>2. CASE fifo = <<>>
    <3>1. UNCHANGED holding /\ pc' = "idle"
      BY <1>4, <2>2 DEF RadioGetInfo
    <3>2. InHand' = InHand /\ b' = b /\ q' = q
      BY <2>1, <3>1 DEF InHand, Behind
    <3> HIDE DEF q, b
    <3>3. Held' = Held
      BY <1>0, <1>h, <3>2, Zenon
    <3> QED BY <1>1, <2>1, <3>3
  <2>3. CASE fifo # <<>>
    <3> DEFINE one == <<Head(fifo).id>>
               rest == Ids(Tail(fifo))
    <3>1. pc' = "check" /\ cur' = Head(fifo) /\ holding'
      BY <1>4, <2>3 DEF RadioGetInfo
    <3>2. InHand = <<>> /\ InHand' = one /\ Behind = fifo /\ b' = rest /\ q' = q
      BY <2>1, <3>1 DEF InHand, Behind
    <3>3. Head(fifo) \in Packet /\ Tail(fifo) \in Seq(Packet)
      BY <1>0, <2>3, HeadTailProperties
    <3>4. one \in Seq(Nat) /\ rest \in Seq(Nat)
      <4>1. Head(fifo).id \in Nat
        BY <3>3, PacketData
      <4>2. one \in Seq(Nat)
        BY <4>1
      <4>3. rest \in Seq(Nat)
        BY <3>3, IdsProperties
      <4> QED BY <4>2, <4>3
    <3>5. b = one \o rest
      BY <1>0, <2>3, <3>2, IdsOfRest
    <3> HIDE DEF q, b, one, rest
    <3>6. Joined(q, <<>>, one \o rest) = Joined(q, one, rest)
      BY <1>0, <3>4, JoinedGrasp
    <3>7. Held' = Held
      BY <1>0, <1>h, <3>2, <3>5, <3>6, Zenon
    <3> QED BY <1>1, <2>1, <3>7
  <2> QED BY <2>2, <2>3
\* A packet is turned away.
<1>5. ASSUME pc \in {"check", "alloc"}, pc' = "update",
             UNCHANGED <<arrived, fifo, holding, gRxQueue, gPbuf>>
      PROVE  \E i \in 1 .. Len(Held) : Abstract!Refuse(i)
  <2>1. InHand = <<cur.id>> /\ InHand' = <<>> /\ b' = b /\ q' = q
    BY <1>5 DEF InHand, Behind
  <2>2. InHand \in Seq(Nat) /\ Len(InHand) = 1
    BY <1>0, <2>1
  <2> HIDE DEF q, b
  <2>3. Held' = Joined(q, <<>>, b)
    BY <1>h, <2>1, Zenon
  <2>4. \E i \in 1 .. Len(Joined(q, InHand, b)) :
           Joined(q, <<>>, b) = SubSeq(Joined(q, InHand, b), 1, i - 1)
              \o SubSeq(Joined(q, InHand, b), i + 1, Len(Joined(q, InHand, b)))
    BY <1>0, <2>2, JoinedDrop, Zenon
  <2> HIDE DEF Held
  <2>5. PICK i \in 1 .. Len(Held) :
           Held' = SubSeq(Held, 1, i - 1) \o SubSeq(Held, i + 1, Len(Held))
    BY <1>0, <2>3, <2>4, Zenon
  <2>6. Held' = Abstract!RemoveAt(Held, i)
    BY <2>5 DEF Abstract!RemoveAt
  <2>7. Abstract!Refuse(i)
    BY <1>5, <2>6 DEF Abstract!Refuse
  <2> QED BY <2>7
<1>6. ASSUME RadioCheck \/ RadioAlloc
      PROVE  Abstract!Next \/ UNCHANGED Abstract!vars
  <2>1. /\ pc \in {"check", "alloc"} /\ pc' \in {"alloc", "count", "update"}
        /\ UNCHANGED <<arrived, fifo, holding, gRxQueue, gPbuf, cur>>
    BY <1>6 DEF RadioCheck, RadioAlloc, railVars, hostVars
  <2>2. CASE pc' = "update"
    BY <1>5, <2>1, <2>2 DEF Abstract!Next
  <2>3. CASE pc' # "update"
    <3>1. InHand' = InHand /\ b' = b /\ q' = q
      BY <2>1, <2>3 DEF InHand, Behind
    <3> HIDE DEF q, b
    <3>2. Held' = Held
      BY <1>0, <1>h, <3>1, Zenon
    <3> QED BY <1>1, <2>1, <3>2
  <2> QED BY <2>2, <2>3
<1>7. ASSUME RadioCopy
      PROVE  UNCHANGED Abstract!vars
  <2>1. /\ pc = "copy" /\ pc' = "update"
        /\ UNCHANGED <<arrived, fifo, holding, gPbuf, cur>>
    BY <1>7 DEF RadioCopy, railVars, hostVars
  <2>2. \E p \in Packet : p.id = cur.id /\ gRxQueue' = Append(gRxQueue, p)
    <3>1. \A ack \in BOOLEAN : /\ [cur EXCEPT !.ack = ack, !.intact = FALSE] \in Packet
                               /\ [cur EXCEPT !.ack = ack, !.intact = FALSE].id = cur.id
      BY <1>0 DEF Packet
    <3> QED BY <1>0, <1>7, <3>1 DEF RadioCopy, Queued
  <2>3. q' = Append(q, cur.id)
    BY <1>0, <2>2, IdsOfMore
  <2>4. InHand = <<cur.id>> /\ InHand' = <<>> /\ b' = b
    BY <2>1 DEF InHand, Behind
  <2> HIDE DEF q, b
  <2>5. Joined(Append(q, cur.id), <<>>, b) = Joined(q, <<cur.id>>, b)
    BY <1>0, JoinedQueue
  <2>6. Held' = Held
    BY <1>0, <1>h, <2>3, <2>4, <2>5, Zenon
  <2> QED BY <1>1, <2>1, <2>6
<1>8. ASSUME RadioRelease
      PROVE  UNCHANGED Abstract!vars
  <2>1. /\ pc = "release" /\ pc' = "idle" /\ fifo' = (IF holding THEN Tail(fifo) ELSE fifo)
        /\ ~holding' /\ UNCHANGED <<arrived, gRxQueue, gPbuf>>
    BY <1>8 DEF RadioRelease, handlerVars, hostVars
  <2>2. b' = b /\ InHand' = InHand /\ q' = q
    BY <2>1 DEF Behind, InHand
  <2> HIDE DEF q, b
  <2>3. Held' = Held
    BY <1>0, <1>h, <2>2, Zenon
  <2> QED BY <1>1, <2>1, <2>3
<1>9. ASSUME HostReadPacket
      PROVE  Abstract!Deliver
  <2>1. /\ gRxQueue # <<>> /\ gPbuf' = Head(gRxQueue) /\ gRxQueue' = Tail(gRxQueue)
        /\ UNCHANGED <<arrived, fifo, pc, cur, holding>>
    BY <1>9 DEF HostReadPacket, railVars, radioVars
  <2>2. q # <<>> /\ Head(q) = Head(gRxQueue).id /\ Ids(gRxQueue') = Tail(q)
    BY <1>0, <2>1, IdsOfRest
  <2>3. q' = Tail(q) /\ InHand' = InHand /\ b' = b
    BY <2>1, <2>2 DEF InHand, Behind
  <2>4. gPbuf.id' = Head(q)
    BY <2>1, <2>2
  <2> HIDE DEF q, b
  <2>5. /\ Joined(q, InHand, b) # <<>> /\ Head(Joined(q, InHand, b)) = Head(q)
        /\ Tail(Joined(q, InHand, b)) = Joined(Tail(q), InHand, b)
    BY <1>0, <2>2, JoinedTake
  <2>6. Held # <<>> /\ Head(Held) = Head(q) /\ Held' = Tail(Held)
    BY <1>0, <1>h, <2>3, <2>5, Zenon
  <2> HIDE DEF Held
  <2> QED BY <2>1, <2>4, <2>6 DEF Abstract!Deliver
<1>10. ASSUME RadioWake \/ RadioCount \/ RadioStore \/ RadioUpdate \/ RadioAssert
              \/ HostIrqStatus \/ HostQueueStatus \/ HostPostRead
       PROVE  UNCHANGED Abstract!vars
  <2>1. /\ UNCHANGED <<arrived, fifo, holding, gRxQueue, gPbuf, cur>>
        /\ pc' \in HandleSteps <=> pc \in HandleSteps
    BY <1>10
    DEF RadioWake, RadioCount, RadioStore, RadioUpdate, RadioAssert, HostIrqStatus,
        HostQueueStatus, HostPostRead, HandleSteps, railVars, radioVars, handlerVars, hostVars
  <2>2. b' = b /\ InHand' = InHand /\ q' = q
    BY <2>1 DEF Behind, InHand, HandleSteps
  <2> HIDE DEF q, b
  <2>3. Held' = Held
    BY <1>0, <1>h, <2>2, Zenon
  <2> QED BY <1>1, <2>1, <2>3
<1>11. CASE UNCHANGED vars
  <2>1. UNCHANGED <<arrived, fifo, holding, gRxQueue, gPbuf, cur, pc>>
    BY <1>11 DEF vars
  <2>2. b' = b /\ InHand' = InHand /\ q' = q
    BY <2>1 DEF Behind, InHand
  <2> HIDE DEF q, b
  <2>3. Held' = Held
    BY <1>0, <1>h, <2>2, Zenon
  <2> QED BY <1>1, <2>1, <2>3
<1> QED
  BY <1>2, <1>3, <1>4, <1>6, <1>7, <1>8, <1>9, <1>10, <1>11, Zenon
  DEF Next, Rail, RxFifoOverflow, Radio, HostReads, HostSetChannel, Abstract!Next

LEMMA HeldInit == Init => Abstract!Init
<1> SUFFICES ASSUME Init PROVE Abstract!Init
  OBVIOUS
<1>1. arrived = 0 /\ gPbuf = NoPacket /\ Ids(gRxQueue) = <<>> /\ InHand = <<>> /\ Ids(Behind) = <<>>
  BY IdsOfNone DEF Init, InHand, Behind
<1>2. gPbuf.id = 0
  BY <1>1 DEF NoPacket
<1>3. Held = <<>>
  BY <1>1 DEF Held
<1> HIDE DEF Held
<1> QED BY <1>1, <1>2, <1>3 DEF Abstract!Init

\* The receive path implements LossyFifo: packets reach the host in the order
\* they were received in, each at most once, wherever ReadPacket preempts
\* HandleRxPacket and whenever the receive FIFO is reset.
THEOREM RxPathIsFifo == Spec => DeliversInOrder
<1> QED BY HeldInit, HeldStep, RadioInit, RadioInvStep, PTL DEF Spec, DeliversInOrder, Abstract!SafeSpec

-----------------------------------------------------------------------------
(* The buffers.                                                              *)

LEMMA JoinedAt ==
    ASSUME NEW q \in Seq(Nat), NEW h \in Seq(Nat), NEW b \in Seq(Nat)
    PROVE  /\ \A i \in 1 .. Len(q) : i \in 1 .. Len(Joined(q, h, b)) /\ Joined(q, h, b)[i] = q[i]
           /\ \A i \in 1 .. Len(h) :
                 /\ Len(q) + i \in 1 .. Len(Joined(q, h, b)) /\ Joined(q, h, b)[Len(q) + i] = h[i]
                 /\ \A j \in 1 .. Len(q) : j < Len(q) + i
<1> DEFINE qh == q \o h
           m == Len(q)
           n == Len(h)
           k == Len(b)
<1>1. /\ qh \in Seq(Nat) /\ Len(qh) = m + n
      /\ \A i \in 1 .. m + n : qh[i] = IF i <= m THEN q[i] ELSE h[i - m]
  BY ConcatProperties
<1>2. Joined(q, h, b) = qh \o b
  BY DEF Joined
<1> HIDE DEF qh
<1>3. /\ Len(qh \o b) = Len(qh) + k
      /\ \A i \in 1 .. Len(qh) + k : (qh \o b)[i] = IF i <= Len(qh) THEN qh[i] ELSE b[i - Len(qh)]
  <2>1. qh \in Seq(Nat)
    BY <1>1
  <2> QED BY <2>1, ConcatProperties
<1>4. m \in Nat /\ n \in Nat /\ k \in Nat
  BY LenProperties
<1> DEFINE s == qh \o b
<1>5. s = Joined(q, h, b)
  BY <1>2
<1>6. Len(s) = m + n + k /\ \A i \in 1 .. m + n : s[i] = qh[i]
  <2> HIDE DEF m, n, k, s
  <2>1. Len(s) = Len(qh) + k /\ \A i \in 1 .. Len(qh) + k : s[i] = IF i <= Len(qh) THEN qh[i] ELSE b[i - Len(qh)]
    BY <1>3 DEF s
  <2>2. \A i \in 1 .. m + n : i \in 1 .. (m + n) + k /\ i <= m + n
    BY <1>4
  <2> QED BY <1>1, <2>1, <2>2
<1> HIDE DEF m, n, k, s
<1>7. \A i \in 1 .. m : i \in 1 .. m + n /\ i \in 1 .. Len(s) /\ i <= m
  BY <1>4, <1>6
<1>8. \A i \in 1 .. n : m + i \in 1 .. m + n /\ m + i \in 1 .. Len(s) /\ ~(m + i <= m)
                        /\ (m + i) - m = i /\ \A j \in 1 .. m : j < m + i
  BY <1>4, <1>6
<1>9. \A i \in 1 .. m : s[i] = q[i]
  BY <1>1, <1>6, <1>7
<1>10. \A i \in 1 .. n : s[m + i] = h[i]
  BY <1>1, <1>6, <1>8
<1> QED BY <1>5, <1>7, <1>8, <1>9, <1>10 DEF m, n

\* No two packets in the firmware's hands are the same.
LEMMA Distinct ==
    ASSUME RadioInv, InOrder
    PROVE  /\ \A i \in 1 .. Len(gRxQueue) : gPbuf.id < gRxQueue[i].id
           /\ pc \in HandleSteps => /\ gPbuf.id < cur.id
                                    /\ \A i \in 1 .. Len(gRxQueue) : gRxQueue[i].id < cur.id
<1> DEFINE q == Ids(gRxQueue)
           b == Ids(Behind)
           s == Joined(q, InHand, b)
<1>1. q \in Seq(Nat) /\ InHand \in Seq(Nat) /\ b \in Seq(Nat) /\ Held = s
      /\ Len(q) = Len(gRxQueue) /\ \A i \in 1 .. Len(gRxQueue) : q[i] = gRxQueue[i].id
  BY HeldParts, IdsProperties
<1>2. /\ \A i \in 1 .. Len(s) : gPbuf.id < s[i]
      /\ \A i, j \in 1 .. Len(s) : i < j => s[i] < s[j]
  BY <1>1 DEF InOrder
<1> HIDE DEF s, q, b
<1>3. \A i \in 1 .. Len(q) : i \in 1 .. Len(s) /\ s[i] = q[i]
  BY <1>1, JoinedAt DEF s
<1>4. \A i \in 1 .. Len(InHand) :
         /\ Len(q) + i \in 1 .. Len(s) /\ s[Len(q) + i] = InHand[i]
         /\ \A j \in 1 .. Len(q) : j < Len(q) + i
  BY <1>1, JoinedAt DEF s
<1>5. \A i \in 1 .. Len(gRxQueue) : gPbuf.id < gRxQueue[i].id
  BY <1>1, <1>2, <1>3
<1>6. ASSUME pc \in HandleSteps
      PROVE  gPbuf.id < cur.id /\ \A i \in 1 .. Len(gRxQueue) : gRxQueue[i].id < cur.id
  <2>1. InHand[1] = cur.id /\ 1 \in 1 .. Len(InHand)
    BY <1>6 DEF InHand, HandleSteps
  <2>2. Len(q) + 1 \in 1 .. Len(s) /\ s[Len(q) + 1] = cur.id /\ \A j \in 1 .. Len(q) : j < Len(q) + 1
    BY <1>4, <2>1
  <2> QED BY <1>1, <1>2, <1>3, <2>2
<1> QED BY <1>5, <1>6

\* The buffers of a queue.
BuffersOf(s) == {Buffer(s[i]) : i \in 1 .. Len(s)}

LEMMA BuffersOfMore ==
    ASSUME NEW s \in Seq(Packet), NEW p \in Packet
    PROVE  BuffersOf(Append(s, p)) = BuffersOf(s) \cup {Buffer(p)}
<1> DEFINE t == Append(s, p)
<1>1. /\ Len(t) = Len(s) + 1 /\ t[Len(s) + 1] = p /\ \A i \in 1 .. Len(s) : t[i] = s[i]
      /\ Len(s) \in Nat
  BY AppendProperties, LenProperties
<1> HIDE DEF t
<1>2. 1 .. Len(t) = (1 .. Len(s)) \cup {Len(s) + 1}
  BY <1>1
<1> QED BY <1>1, <1>2 DEF BuffersOf, t

LEMMA BuffersOfRest ==
    ASSUME NEW s \in Seq(Packet), s # <<>>
    PROVE  BuffersOf(s) = {Buffer(Head(s))} \cup BuffersOf(Tail(s))
<1> DEFINE t == Tail(s)
<1>1. /\ Len(t) = Len(s) - 1 /\ Len(s) \in Nat \ {0} /\ \A i \in 1 .. Len(s) - 1 : t[i] = s[i + 1]
      /\ Head(s) = s[1]
  BY HeadTailProperties, EmptySeq
<1> HIDE DEF t
<1>2. \A i \in 1 .. Len(s) : i = 1 \/ (i - 1 \in 1 .. Len(t) /\ (i - 1) + 1 = i)
  BY <1>1
<1>3. 1 \in 1 .. Len(s) /\ \A i \in 1 .. Len(t) : i + 1 \in 1 .. Len(s)
  BY <1>1
<1>4. ASSUME NEW x \in BuffersOf(s) PROVE x = Buffer(Head(s)) \/ x \in BuffersOf(t)
  <2>1. PICK i \in 1 .. Len(s) : x = Buffer(s[i])
    BY DEF BuffersOf
  <2>2. CASE i = 1
    BY <1>1, <2>1, <2>2
  <2>3. CASE i # 1
    <3>1. i - 1 \in 1 .. Len(t) /\ t[i - 1] = s[i]
      BY <1>1, <1>2, <2>3
    <3> QED BY <2>1, <3>1 DEF BuffersOf
  <2> QED BY <2>2, <2>3
<1>5. Buffer(Head(s)) \in BuffersOf(s)
  BY <1>1, <1>3 DEF BuffersOf
<1>6. ASSUME NEW x \in BuffersOf(t) PROVE x \in BuffersOf(s)
  <2>1. PICK i \in 1 .. Len(t) : x = Buffer(t[i])
    BY DEF BuffersOf
  <2>2. i + 1 \in 1 .. Len(s) /\ t[i] = s[i + 1]
    BY <1>1, <1>3
  <2> QED BY <2>1, <2>2 DEF BuffersOf
<1> QED BY <1>4, <1>5, <1>6 DEF t

\* The three owners.
Counting == IF pc \in {"count", "store", "copy"} THEN {Buffer(cur)} ELSE {}
Responding == IF host = "response" THEN {Buffer(gPbuf)} ELSE {}

LEMMA OwnedParts == Owned = (Counting \cup BuffersOf(gRxQueue)) \cup Responding
BY DEF Owned, Counting, Responding, BuffersOf

LEMMA OwnedNext == Owned' = (Counting' \cup BuffersOf(gRxQueue')) \cup Responding'
BY DEF Owned, Counting, Responding, BuffersOf

LEMMA BuffersStep ==
    ASSUME RadioInv, InOrder, BuffersOwned, [Next]_vars
    PROVE  BuffersOwned'
<1>1. gRxQueue \in Seq(Packet) /\ cur \in Packet /\ gPbuf \in Packet
  BY DEF RadioInv, TypeOK
<1>2. ASSUME Running, UNCHANGED heap, Owned' = Owned PROVE BuffersOwned'
  BY <1>2 DEF BuffersOwned
<1>3. ASSUME Counting' = Counting, Responding' = Responding, UNCHANGED gRxQueue
      PROVE  Owned' = Owned
  BY <1>3, OwnedParts, OwnedNext
<1>4. ASSUME Running, UNCHANGED <<heap, gRxQueue, cur, gPbuf>>,
             pc \in {"count", "store", "copy"} <=> pc' \in {"count", "store", "copy"},
             host = "response" <=> host' = "response"
      PROVE  BuffersOwned'
  <2>1. Counting' = Counting /\ Responding' = Responding
    BY <1>4 DEF Counting, Responding
  <2> QED BY <1>2, <1>3, <1>4, <2>1
<1>5. ASSUME Running, UNCHANGED <<heap, gRxQueue, gPbuf, host>>,
             pc \notin {"count", "store", "copy"}, pc' \notin {"count", "store", "copy"}
      PROVE  BuffersOwned'
  <2>1. Counting' = Counting /\ Responding' = Responding
    BY <1>5 DEF Counting, Responding
  <2> QED BY <1>2, <1>3, <1>5, <2>1
<1>6. CASE Rail
  <2>1. Running /\ UNCHANGED <<heap, gRxQueue, cur, gPbuf, pc, host>>
    BY <1>6 DEF Rail, RxPacketReceived, RxFifoOverflow, ResetFifo, radioVars, handlerVars, hostVars
  <2> QED BY <1>4, <2>1
<1>7. CASE HostSetChannel
  <2>1. Running /\ UNCHANGED <<heap, gRxQueue, cur, gPbuf, pc, host>>
    BY <1>7 DEF HostSetChannel, ResetFifo, radioVars, handlerVars, hostVars
  <2> QED BY <1>4, <2>1
<1>8. CASE RadioWake \/ RadioGetInfo \/ RadioCheck \/ RadioUpdate \/ RadioAssert \/ RadioRelease
  <2>1. /\ Running /\ UNCHANGED <<heap, gRxQueue, gPbuf, host>>
        /\ pc \notin {"count", "store", "copy"} /\ pc' \notin {"count", "store", "copy"}
    BY <1>8
    DEF RadioWake, RadioGetInfo, RadioCheck, RadioUpdate, RadioAssert, RadioRelease, handlerVars,
        hostVars
  <2> QED BY <1>5, <2>1
<1>9. CASE RadioCount \/ RadioStore \/ HostIrqStatus \/ HostQueueStatus
  <2>1. /\ Running /\ UNCHANGED <<heap, gRxQueue, cur, gPbuf>>
        /\ pc \in {"count", "store", "copy"} <=> pc' \in {"count", "store", "copy"}
        /\ host = "response" <=> host' = "response"
    BY <1>9
    DEF RadioCount, RadioStore, HostIrqStatus, HostQueueStatus, railVars, radioVars,
        handlerVars, hostVars
  <2> QED BY <1>4, <2>1
<1>10. CASE RadioAlloc
  <2>1. CASE UNCHANGED heap /\ pc' = "update"
    <3>1. Running /\ UNCHANGED <<gRxQueue, gPbuf, host>> /\ pc = "alloc"
      BY <1>10 DEF RadioAlloc, hostVars
    <3> QED BY <1>5, <2>1, <3>1
  <2>2. CASE heap' = heap \cup {Buffer(cur)} /\ pc' = "count"
    <3>1. /\ Running /\ UNCHANGED <<gRxQueue, gPbuf, host, cur>> /\ pc = "alloc"
      BY <1>10 DEF RadioAlloc, hostVars
    <3>2. Counting = {} /\ Counting' = {Buffer(cur)} /\ Responding' = Responding
      BY <2>2, <3>1 DEF Counting, Responding
    <3>3. heap = Owned
      BY <3>1 DEF BuffersOwned
    <3>4. heap' = Owned'
      BY <2>2, <3>1, <3>2, <3>3, OwnedParts, OwnedNext
    <3> QED BY <3>4 DEF BuffersOwned
  <2> QED BY <1>10, <2>1, <2>2 DEF RadioAlloc
<1>11. CASE RadioCopy
  <2>1. Running /\ UNCHANGED <<heap, gPbuf, host, cur>> /\ pc = "copy" /\ pc' = "update"
    BY <1>11 DEF RadioCopy, hostVars
  <2>2. \E p \in Packet : Buffer(p) = Buffer(cur) /\ gRxQueue' = Append(gRxQueue, p)
    <3>1. \A ack \in BOOLEAN :
             /\ [cur EXCEPT !.ack = ack, !.intact = FALSE] \in Packet
             /\ [cur EXCEPT !.ack = ack, !.intact = FALSE].id = cur.id
             /\ [cur EXCEPT !.ack = ack, !.intact = FALSE].size = cur.size
      BY <1>1 DEF Packet
    <3> QED BY <1>1, <1>11, <3>1 DEF RadioCopy, Queued, Buffer
  <2>3. BuffersOf(gRxQueue') = BuffersOf(gRxQueue) \cup {Buffer(cur)}
    BY <1>1, <2>2, BuffersOfMore
  <2>4. Counting = {Buffer(cur)} /\ Counting' = {} /\ Responding' = Responding
    BY <2>1 DEF Counting, Responding
  <2>5. Owned' = Owned
    BY <2>3, <2>4, OwnedParts, OwnedNext
  <2> QED BY <1>2, <2>1, <2>5
<1>12. CASE HostReadPacket
  <2>1. /\ Running /\ UNCHANGED <<heap, cur, pc>> /\ gRxQueue # <<>>
        /\ gPbuf' = Head(gRxQueue) /\ gRxQueue' = Tail(gRxQueue)
        /\ host # "response" /\ host' = "response"
    BY <1>12 DEF HostReadPacket, radioVars
  <2>2. BuffersOf(gRxQueue) = {Buffer(gPbuf')} \cup BuffersOf(gRxQueue')
    BY <1>1, <2>1, BuffersOfRest
  <2>3. Counting' = Counting /\ Responding = {} /\ Responding' = {Buffer(gPbuf')}
    BY <2>1 DEF Counting, Responding
  <2>4. Owned' = Owned
    BY <2>2, <2>3, OwnedParts, OwnedNext
  <2> QED BY <1>2, <2>1, <2>4
<1>13. CASE HostPostRead
  <2>1. /\ Running /\ UNCHANGED <<cur, pc, gRxQueue, gPbuf>> /\ heap' = heap \ {Buffer(gPbuf)}
        /\ host = "response" /\ host' = "idle"
    BY <1>13 DEF HostPostRead, radioVars, HeapAfterRead
  <2>2. Counting' = Counting /\ Responding = {Buffer(gPbuf)} /\ Responding' = {}
    BY <2>1 DEF Counting, Responding
  <2>3. Buffer(gPbuf) \notin Counting \cup BuffersOf(gRxQueue)
    <3>1. \A x, y \in Packet : Buffer(x) = Buffer(y) => x.id = y.id
      BY DEF Buffer
    <3>2. gPbuf.id \in Nat /\ \A n \in Nat : ~(n < n)
      BY <1>1, PacketData
    <3>3. Buffer(gPbuf) \notin Counting
      <4>1. CASE pc \in {"count", "store", "copy"}
        <5>1. gPbuf.id < cur.id
          BY <4>1, Distinct DEF HandleSteps
        <5>2. gPbuf.id # cur.id
          BY <3>2, <5>1
        <5> QED BY <1>1, <3>1, <4>1, <5>2 DEF Counting
      <4>2. CASE pc \notin {"count", "store", "copy"}
        BY <4>2 DEF Counting
      <4> QED BY <4>1, <4>2
    <3>4. Buffer(gPbuf) \notin BuffersOf(gRxQueue)
      <4> SUFFICES ASSUME NEW i \in 1 .. Len(gRxQueue), Buffer(gPbuf) = Buffer(gRxQueue[i])
                   PROVE  FALSE
        BY DEF BuffersOf
      <4>1. gPbuf.id < gRxQueue[i].id
        BY Distinct
      <4>2. gRxQueue[i] \in Packet
        BY <1>1, ElementOfSeq
      <4>3. gPbuf.id = gRxQueue[i].id
        BY <1>1, <3>1, <4>2
      <4> QED BY <3>2, <4>1, <4>3
    <3> QED BY <3>3, <3>4
  <2>4. heap = Owned
    BY <2>1 DEF BuffersOwned
  <2>5. heap' = Owned'
    BY <2>1, <2>2, <2>3, <2>4, OwnedParts, OwnedNext
  <2> QED BY <2>5 DEF BuffersOwned
<1>14. CASE UNCHANGED vars
  <2>1. CASE Running
    BY <1>4, <1>14, <2>1 DEF vars
  <2>2. CASE ~Running
    BY <1>14, <2>2 DEF vars, Running, BuffersOwned
  <2> QED BY <2>1, <2>2
<1> QED
  BY <1>6, <1>7, <1>8, <1>9, <1>10, <1>11, <1>12, <1>13, <1>14, Zenon
  DEF Next, Radio, HostReads

LEMMA BuffersInit == Init => BuffersOwned
<1> SUFFICES ASSUME Init PROVE heap = Owned
  BY DEF BuffersOwned
<1>1. heap = {} /\ Counting = {} /\ Responding = {} /\ gRxQueue = <<>>
  BY DEF Init, Counting, Responding
<1>2. BuffersOf(gRxQueue) = {}
  BY <1>1 DEF BuffersOf
<1> QED BY <1>1, <1>2, OwnedParts

LEMMA InOrderInit == Init => InOrder
<1> SUFFICES ASSUME Init PROVE InOrder
  OBVIOUS
<1>1. Held = <<>> /\ arrived = 0 /\ gPbuf.id = 0
  BY HeldInit DEF Abstract!Init
<1> HIDE DEF Held
<1> QED BY <1>1 DEF InOrder

\* The packets the firmware holds stay in the order of their numbers.
LEMMA Ordered == Spec => []InOrder
<1> QED BY InOrderInit, RadioInit, RadioInvStep, HeldStep, OrderKept, PTL DEF Spec

\* Every receive buffer that is allocated is with the radio task, in the queue or
\* with ReadPacket, and what is there is allocated: HandleRxPacket, PopRxQueue
\* and DiscardRxPacket (Packet/Handler.cpp) neither leak a buffer nor free one
\* twice.
THEOREM BuffersCorrect == Spec => []BuffersOwned
<1> QED BY BuffersInit, RadioInit, RadioInvStep, Ordered, BuffersStep, PTL DEF Spec

-----------------------------------------------------------------------------
(* The interrupt.                                                            *)

LEMMA InterruptStep ==
    ASSUME TypeOK, InterruptOwed, [Next]_vars
    PROVE  InterruptOwed'
<1> SUFFICES ASSUME Running', gRxQueue' # <<>>
             PROVE  rxIrq' \/ pc' \in {"update", "assert"} \/ host' \in {"told", "sized"}
  BY DEF InterruptOwed
<1> DEFINE Goal == rxIrq' \/ pc' \in {"update", "assert"} \/ host' \in {"told", "sized"}
<1>1. ASSUME Running, UNCHANGED <<gRxQueue, rxIrq, host>>,
             pc \in {"update", "assert"} => pc' \in {"update", "assert"}
      PROVE  Goal
  BY <1>1 DEF InterruptOwed
<1>2. CASE Rail \/ HostSetChannel
  <2>1. Running /\ UNCHANGED <<gRxQueue, rxIrq, host, pc>>
    BY <1>2
    DEF Rail, RxPacketReceived, RxFifoOverflow, HostSetChannel, ResetFifo, radioVars,
        handlerVars, hostVars
  <2> QED BY <1>1, <2>1
<1>3. CASE RadioWake \/ RadioGetInfo \/ RadioCheck \/ RadioAlloc \/ RadioCount \/ RadioStore
           \/ RadioRelease
  <2>1. /\ Running /\ UNCHANGED <<gRxQueue, rxIrq, host>> /\ pc \notin {"update", "assert"}
    BY <1>3
    DEF RadioWake, RadioGetInfo, RadioCheck, RadioAlloc, RadioCount, RadioStore, RadioRelease,
        handlerVars, hostVars
  <2> QED BY <1>1, <2>1
<1>4. CASE RadioCopy
  BY <1>4 DEF RadioCopy
<1>5. CASE RadioUpdate
  <2>1. gRxQueue' = gRxQueue
    BY <1>5 DEF RadioUpdate, handlerVars
  <2> QED BY <1>5, <2>1 DEF RadioUpdate
<1>6. CASE RadioAssert
  BY <1>6 DEF RadioAssert
<1>7. CASE HostIrqStatus
  BY <1>7 DEF HostIrqStatus
<1>8. CASE HostQueueStatus
  <2>1. gRxQueue' = gRxQueue /\ (gRxQueue # <<>> => host' = "sized")
    BY <1>8 DEF HostQueueStatus, RxPending, handlerVars
  <2> QED BY <2>1
<1>9. CASE HostReadPacket
  <2>1. rxIrq' = (rxIrq \/ gRxQueue' # <<>>)
    BY <1>9, Zenon DEF HostReadPacket, IrqAfterPop
  <2> QED BY <2>1
<1>10. CASE HostPostRead
  <2>1. Running /\ host = "response" /\ UNCHANGED <<gRxQueue, rxIrq, pc>>
    BY <1>10 DEF HostPostRead, radioVars
  <2> QED BY <2>1 DEF InterruptOwed
<1>11. CASE UNCHANGED vars
  <2>1. Running /\ UNCHANGED <<gRxQueue, rxIrq, host, pc>>
    BY <1>11 DEF vars, Running
  <2> QED BY <1>1, <2>1
<1> QED
  BY <1>2, <1>3, <1>4, <1>5, <1>6, <1>7, <1>8, <1>9, <1>10, <1>11, Zenon
  DEF Next, Radio, HostReads

\* A host that relies on the interrupt alone (HostIf/Commands.h:142) hears of
\* every packet: while one is in the queue, the interrupt is asserted, about to
\* be, or the host is reading.
THEOREM InterruptCorrect == Spec => []InterruptOwed
<1>1. Init => InterruptOwed
  BY DEF Init, InterruptOwed
<1> QED BY <1>1, InterruptStep, RxTypeCorrect, PTL DEF Spec

-----------------------------------------------------------------------------
(* The bytes of the buffers.                                                 *)

HeapBytes(h) == SumFunction([b \in h |-> b.size])
Records == [id : Nat, size : Sizes]

LEMMA HeapLess ==
    ASSUME NEW h \in SUBSET Records, IsFiniteSet(h), NEW x \in h
    PROVE  /\ HeapBytes(h \ {x}) = HeapBytes(h) - x.size
           /\ HeapBytes(h) \in Int /\ HeapBytes(h \ {x}) \in Int /\ x.size \in Nat
<1> DEFINE f == [b \in h |-> b.size]
           r == [b \in h \ {x} |-> b.size]
<1>1. \A b \in h : b.size \in Nat
  <2>1. \A b \in h : b.size \in Sizes
    BY DEF Records
  <2>2. \A n \in Sizes : n \in Nat
    BY SizesAssumption
  <2> QED BY <2>1, <2>2, Zenon
<1>2. f \in [h -> Int] /\ r \in [h \ {x} -> Int] /\ f[x] = x.size /\ \A y \in h \ {x} : r[y] = f[y]
  BY <1>1
<1>3. HeapBytes(h) = SumFunction(f) /\ HeapBytes(h \ {x}) = SumFunction(r)
  BY Zenon DEF HeapBytes
<1> HIDE DEF f, r
<1>4. SumFunction(f) = f[x] + SumFunction(r)
  <2>1. f \in [h -> Int] /\ r \in [h \ {x} -> Int] /\ \A y \in h \ {x} : r[y] = f[y]
    BY <1>2, Zenon
  <2> QED BY <2>1, SumSplit
<1>5. SumFunction(f) \in Int /\ SumFunction(r) \in Int
  <2>1. IsFiniteSet(h \ {x})
    BY FS_RemoveElement
  <2> QED BY <1>2, <2>1, SumType
<1>6. x.size \in Nat
  BY <1>1
<1> DEFINE a == SumFunction(f)
           c == SumFunction(r)
<1>7. a = x.size + c /\ a \in Int /\ c \in Int
  BY <1>2, <1>4, <1>5
<1> HIDE DEF a, c
<1>8. c = a - x.size
  BY <1>6, <1>7
<1> QED BY <1>3, <1>5, <1>6, <1>8 DEF a, c

LEMMA HeapMore ==
    ASSUME NEW h \in SUBSET Records, IsFiniteSet(h), NEW x \in Records, x \notin h
    PROVE  IsFiniteSet(h \cup {x}) /\ HeapBytes(h \cup {x}) = HeapBytes(h) + x.size
<1> DEFINE g == h \cup {x}
<1>1. g \in SUBSET Records /\ IsFiniteSet(g) /\ x \in g /\ g \ {x} = h
  BY FS_AddElement
<1> HIDE DEF g
<1>2. /\ HeapBytes(g \ {x}) = HeapBytes(g) - x.size
      /\ HeapBytes(g) \in Int /\ HeapBytes(g \ {x}) \in Int /\ x.size \in Nat
  BY <1>1, HeapLess
<1> DEFINE a == HeapBytes(h)
           c == HeapBytes(g)
<1>3. a = c - x.size /\ a \in Int /\ c \in Int /\ x.size \in Nat
  BY <1>1, <1>2, Zenon
<1> HIDE DEF a, c
<1>4. c = a + x.size
  BY <1>3
<1> QED BY <1>1, <1>4 DEF g, a, c

\* Between its look at the limit and its addition, the room stays.
BytesInv ==
    /\ IsFiniteSet(heap)
    /\ Counted = HeapBytes(heap) + lost
    /\ Counted <= MaxRxBufferSize
    /\ pc = "alloc" => Counted + cur.size <= MaxRxBufferSize

LEMMA BytesStep ==
    ASSUME RadioInv, InOrder, BuffersOwned, Running => BytesInv, [Next]_vars, Running'
    PROVE  BytesInv'
<1>1. /\ gRxQueue \in Seq(Packet) /\ cur \in Packet /\ gPbuf \in Packet
      /\ cur.size \in Nat /\ gRxAllocBytes \in Int /\ MaxRxBufferSize \in Nat
      /\ lost \in Nat /\ sum \in Int /\ heap \in SUBSET Records
  <2>1. cur \in Packet
    BY DEF RadioInv, TypeOK
  <2>2. cur.size \in Nat
    BY <2>1, PacketData
  <2> QED BY <2>1, <2>2, LimitsAssumption DEF RadioInv, TypeOK, Records
<1>2. Running
  BY DEF Running, Next, Rail, Radio, HostReads, RxPacketReceived, RxFifoOverflow, RadioWake,
         RadioGetInfo, RadioCheck, RadioAlloc, RadioCount, RadioStore, RadioCopy, RadioUpdate,
         RadioAssert, RadioRelease, HostIrqStatus, HostQueueStatus, HostReadPacket,
         HostPostRead, HostSetChannel, vars
<1>3. BytesInv
  BY <1>2
<1>4. ASSUME UNCHANGED <<heap, gRxAllocBytes, cur, pc, sum, lost>> PROVE BytesInv'
  BY <1>3, <1>4 DEF BytesInv, Counted
<1>5. ASSUME UNCHANGED <<heap, gRxAllocBytes, lost>>,
             pc \notin {"count", "store"}, pc' \notin {"alloc", "count", "store"}
      PROVE  BytesInv'
  BY <1>3, <1>5 DEF BytesInv, Counted
<1>6. CASE Rail \/ HostSetChannel \/ HostIrqStatus \/ HostQueueStatus \/ HostReadPacket
           \/ UNCHANGED vars
  <2>1. UNCHANGED <<heap, gRxAllocBytes, cur, pc, sum, lost>>
    BY <1>6
    DEF Rail, RxPacketReceived, RxFifoOverflow, HostSetChannel, HostIrqStatus, HostQueueStatus,
        HostReadPacket, ResetFifo, radioVars, handlerVars, hostVars, vars
  <2> QED BY <1>4, <2>1
<1>7. CASE RadioWake \/ RadioGetInfo \/ RadioCopy \/ RadioUpdate \/ RadioAssert \/ RadioRelease
  <2>1. /\ UNCHANGED <<heap, gRxAllocBytes, lost>>
        /\ pc \notin {"count", "store"} /\ pc' \notin {"alloc", "count", "store"}
    BY <1>7
    DEF RadioWake, RadioGetInfo, RadioCopy, RadioUpdate, RadioAssert, RadioRelease, handlerVars,
        hostVars
  <2> QED BY <1>5, <2>1
<1>8. CASE RadioCheck
  <2>1. UNCHANGED <<heap, gRxAllocBytes, cur, sum, lost>> /\ pc = "check"
    BY <1>8 DEF RadioCheck, hostVars
  <2>2. CASE pc' = "update"
    BY <1>5, <2>1, <2>2
  <2>3. CASE pc' # "update"
    <3>1. pc' = "alloc" /\ gRxAllocBytes + cur.size <= MaxRxBufferSize
      BY <1>8, <2>3 DEF RadioCheck
    <3> QED BY <1>3, <2>1, <3>1 DEF BytesInv, Counted
  <2> QED BY <2>2, <2>3
<1>9. CASE RadioAlloc
  <2>1. UNCHANGED <<gRxQueue, gRxAllocBytes, gPbuf, host, cur, sum, lost>> /\ pc = "alloc"
    BY <1>9 DEF RadioAlloc, hostVars
  <2>2. CASE UNCHANGED heap /\ pc' = "update"
    BY <1>5, <2>1, <2>2
  <2>3. CASE heap' = heap \cup {Buffer(cur)} /\ pc' = "count"
    <3>1. Buffer(cur) \in Records /\ Buffer(cur).size = cur.size
      BY <1>1, <2>1, PacketData DEF RadioInv, Sized, HandleSteps, Buffer, Records
    <3>2. Buffer(cur) \notin heap
      <4>1. heap = (Counting \cup BuffersOf(gRxQueue)) \cup Responding /\ Counting = {}
        BY <1>2, <2>1, OwnedParts DEF BuffersOwned, Counting
      <4>2. \A x, y \in Packet : Buffer(x) = Buffer(y) => x.id = y.id
        BY DEF Buffer
      <4>3. /\ cur.id \in Nat /\ \A n \in Nat : ~(n < n)
            /\ gPbuf.id < cur.id /\ \A i \in 1 .. Len(gRxQueue) : gRxQueue[i].id < cur.id
        BY <1>1, <2>1, PacketData, Distinct DEF HandleSteps
      <4>4. Buffer(cur) \notin Responding
        <5>1. gPbuf.id # cur.id
          BY <4>3
        <5> QED BY <1>1, <4>2, <5>1 DEF Responding
      <4>5. Buffer(cur) \notin BuffersOf(gRxQueue)
        <5> SUFFICES ASSUME NEW i \in 1 .. Len(gRxQueue), Buffer(cur) = Buffer(gRxQueue[i])
                     PROVE  FALSE
          BY DEF BuffersOf
        <5>1. gRxQueue[i] \in Packet /\ gRxQueue[i].id < cur.id
          BY <1>1, <4>3, ElementOfSeq
        <5>2. cur.id = gRxQueue[i].id
          BY <1>1, <4>2, <5>1
        <5> QED BY <4>3, <5>1, <5>2
      <4> QED BY <4>1, <4>4, <4>5
    <3>3. IsFiniteSet(heap') /\ HeapBytes(heap') = HeapBytes(heap) + cur.size
      BY <1>1, <1>3, <2>3, <3>1, <3>2, HeapMore DEF BytesInv
    <3>4. gRxAllocBytes = HeapBytes(heap) + lost /\ HeapBytes(heap) \in Int
      <4>1. gRxAllocBytes = HeapBytes(heap) + lost
        BY <1>3, <2>1 DEF BytesInv, Counted
      <4>2. heap = heap' \ {Buffer(cur)} /\ heap' \in SUBSET Records /\ Buffer(cur) \in heap'
        BY <1>1, <2>3, <3>1, <3>2
      <4>3. HeapBytes(heap) \in Int
        BY <3>3, <4>2, HeapLess
      <4> QED BY <4>1, <4>3
    <3>5. Counted' = gRxAllocBytes + cur.size
      BY <2>1, <2>3 DEF Counted
    <3>6. gRxAllocBytes + cur.size = HeapBytes(heap') + lost'
      BY <1>1, <2>1, <3>3, <3>4
    <3>7. gRxAllocBytes + cur.size <= MaxRxBufferSize
      BY <1>3, <2>1 DEF BytesInv, Counted
    <3> QED BY <2>3, <3>3, <3>5, <3>6, <3>7, LimitsAssumption DEF BytesInv
  <2> QED BY <1>9, <2>2, <2>3 DEF RadioAlloc
<1>10. CASE RadioCount
  <2>1. /\ UNCHANGED <<heap, lost>> /\ pc = "count" /\ pc' = "store"
        /\ sum' = gRxAllocBytes + cur.size
    BY <1>10 DEF RadioCount, handlerVars, hostVars
  <2> QED BY <1>3, <2>1 DEF BytesInv, Counted
<1>11. CASE RadioStore
  <2>1. /\ UNCHANGED <<heap, lost>> /\ pc = "store" /\ pc' = "copy" /\ gRxAllocBytes' = sum
    BY <1>11 DEF RadioStore, hostVars
  <2> QED BY <1>3, <2>1 DEF BytesInv, Counted
<1>12. CASE HostPostRead
  <2>1. /\ UNCHANGED <<cur, pc, sum>> /\ heap' = heap \ {Buffer(gPbuf)} /\ host = "response"
        /\ gRxAllocBytes' = gRxAllocBytes - gPbuf.size
        /\ lost' = IF pc = "store" THEN lost + gPbuf.size ELSE lost
    BY <1>12 DEF HostPostRead, radioVars, HeapAfterRead, BytesAfterRead
  <2>2. Buffer(gPbuf) \in heap /\ Buffer(gPbuf).size = gPbuf.size
    BY <1>2, <2>1, OwnedParts DEF BuffersOwned, Responding, Buffer
  <2>3. /\ HeapBytes(heap') = HeapBytes(heap) - gPbuf.size /\ IsFiniteSet(heap')
        /\ HeapBytes(heap) \in Int /\ gPbuf.size \in Nat
    <3>1. IsFiniteSet(heap)
      BY <1>3 DEF BytesInv
    <3>2. /\ HeapBytes(heap \ {Buffer(gPbuf)}) = HeapBytes(heap) - Buffer(gPbuf).size
          /\ HeapBytes(heap) \in Int /\ Buffer(gPbuf).size \in Nat
      BY <1>1, <2>2, <3>1, HeapLess
    <3>3. IsFiniteSet(heap \ {Buffer(gPbuf)})
      BY <3>1, FS_RemoveElement
    <3> QED BY <2>1, <2>2, <3>2, <3>3
  <2>4. /\ Counted = HeapBytes(heap) + lost /\ Counted \in Int /\ Counted <= MaxRxBufferSize
        /\ pc = "alloc" => Counted + cur.size <= MaxRxBufferSize
    BY <1>1, <1>3 DEF BytesInv, Counted
\* In the middle of the addition it is lost: the register does not see it.
  <2>5. CASE pc = "store"
    <3>1. Counted' = Counted /\ lost' = lost + gPbuf.size /\ pc' = "store"
      BY <2>1, <2>5 DEF Counted
    <3>2. HeapBytes(heap) + lost = HeapBytes(heap') + lost'
      BY <1>1, <2>3, <3>1
    <3> QED BY <2>3, <2>4, <3>1, <3>2 DEF BytesInv
  <2>6. CASE pc # "store"
    <3>1. Counted' = Counted - gPbuf.size /\ lost' = lost /\ pc' = pc /\ cur' = cur
      BY <1>1, <2>1, <2>3, <2>6 DEF Counted
    <3>2. Counted' = HeapBytes(heap') + lost' /\ Counted' <= MaxRxBufferSize
      BY <1>1, <2>3, <2>4, <3>1
    <3>3. ASSUME pc' = "alloc"
          PROVE  Counted' + cur'.size <= MaxRxBufferSize
      <4>1. Counted + cur.size <= MaxRxBufferSize
        BY <2>4, <3>1, <3>3
      <4>2. /\ Counted \in Int /\ cur.size \in Nat /\ gPbuf.size \in Nat /\ MaxRxBufferSize \in Nat
            /\ Counted' = Counted - gPbuf.size /\ cur'.size = cur.size
        BY <1>1, <2>3, <2>4, <3>1
      <4> QED BY <4>1, <4>2, SMTT(30)
    <3> QED BY <2>3, <3>2, <3>3 DEF BytesInv
  <2> QED BY <2>5, <2>6
<1> QED
  BY <1>6, <1>7, <1>8, <1>9, <1>10, <1>11, <1>12, Zenon
  DEF Next, Radio, HostReads

\* gRxAllocBytes is what its name says (Packet/Handler.h:290) and what ReadPacket
\* has given back in the middle of an addition, wherever it preempts
\* HandleRxPacket; so the buffers stay within kMaxRxBufferSize.
THEOREM RxBytesCorrect == Spec => []BytesCounted
<1>1. Init => (Running => BytesInv)
  <2> SUFFICES ASSUME Init PROVE BytesInv
    OBVIOUS
  <2>1. heap = {} /\ gRxAllocBytes = 0 /\ pc = "idle" /\ lost = 0
    BY DEF Init
  <2>2. HeapBytes({}) = 0 /\ IsFiniteSet({})
    <3>1. [b \in {} |-> b.size] \in [{} -> Int]
      OBVIOUS
    <3> QED BY <3>1, SumOfNone, FS_EmptySet DEF HeapBytes
  <2> QED BY <2>1, <2>2, LimitsAssumption DEF BytesInv, Counted
<1>2. RadioInv /\ InOrder /\ BuffersOwned /\ (Running => BytesInv) /\ [Next]_vars
        => (Running => BytesInv)'
  BY BytesStep
<1>3. (Running => BytesInv) => BytesCounted
  BY DEF BytesInv, BytesCounted, HeapBytes
<1> QED
  BY <1>1, <1>2, <1>3, RadioInit, RadioInvStep, Ordered, BuffersCorrect, PTL DEF Spec
==============================================================================
