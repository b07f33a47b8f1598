------------------------ MODULE ReactorTimersProofs -------------------------
(***************************************************************************)
(* TimersSound and KeepsPromise of ReactorTimers for any set of timers, any *)
(* delays and intervals and any length of time.                             *)
(*                                                                         *)
(* The lemmas on the list say of timer_list_insert and timer_list_remove    *)
(* what the rest needs: which timers are linked afterwards, and that the    *)
(* list is still in order.  From there on the list is only its order and    *)
(* the set Linked.                                                          *)
(***************************************************************************)
EXTENDS ReactorTimers, WellFoundedInduction, TLAPS

(* A list with t inserted at i, and without its element at i. *)
InsertAt(l, i, t) == SubSeq(l, 1, i - 1) \o <<t>> \o SubSeq(l, i, Len(l))
RemoveAt(l, i) == SubSeq(l, 1, i - 1) \o SubSeq(l, i + 1, Len(l))

(* A list without duplicates in the order of the deadlines x. *)
InOrder(l, x) ==
    /\ l \in Seq(Timers) /\ IsInjective(l)
    /\ \A i, j \in 1 .. Len(l) : i < j => x[l[i]] <= x[l[j]]

-----------------------------------------------------------------------------
\* A non-empty set of natural numbers has a least element: the loop of
\* timer_list_insert stops at the first timer that expires later.
LEMMA LeastNat ==
    ASSUME NEW S \in SUBSET Nat, S # {}
    PROVE  Min(S) \in S /\ \A y \in S : Min(S) <= y
<1>1. PICK x \in S : \A y \in S : ~(<<y, x>> \in OpToRel(<, Nat))
  BY WFMin, NatLessThanWellFounded, Zenon
<1>2. ASSUME NEW y \in S PROVE x <= y
  <2>1. <<y, x>> \notin {ss \in Nat \X Nat : ss[1] < ss[2]}
    BY <1>1, Zenon DEF OpToRel
  <2> QED BY <2>1
<1> QED BY <1>2, Zenon DEF Min

\* A repeating timer that was due has a next deadline: the loop that adds the
\* interval until it lies after now ends within one interval.
LEMMA NextOnGrid ==
    ASSUME NEW a \in Nat, NEW b \in Nat \ {0}, NEW n \in Nat, a <= n
    PROVE  \E e \in n + 1 .. n + b : \E k \in 1 .. n + 1 : e = a + k * b
<1> DEFINE q == (n - a) \div b
           r == (n - a) % b
<1>1. /\ q \in Nat /\ r \in Nat /\ n - a = b * q + r /\ r < b
  OBVIOUS
<1>2. q <= n
  BY <1>1
<1> HIDE DEF q, r
<1>3. a + (q + 1) * b = n - r + b
  BY <1>1
<1>4. n - r + b \in n + 1 .. n + b /\ q + 1 \in 1 .. n + 1
  BY <1>1, <1>2
<1> QED BY <1>3, <1>4, Zenon

\* What Realigned chooses (the loop at the end of process_expired_timers).
LEMMA RealignedIs ==
    ASSUME NEW t \in Timers, expires \in [Timers -> Nat], interval \in [Timers -> Nat],
           now \in Nat, expires[t] <= now, interval[t] > 0
    PROVE  /\ Realigned(t) \in now + 1 .. now + interval[t]
           /\ \E k \in 1 .. now + 1 : Realigned(t) = expires[t] + k * interval[t]
<1>1. \E e \in now + 1 .. now + interval[t] :
        \E k \in 1 .. now + 1 : e = expires[t] + k * interval[t]
  <2>1. expires[t] \in Nat /\ interval[t] \in Nat \ {0}
    OBVIOUS
  <2> QED BY <2>1, NextOnGrid, Zenon
<1> QED BY <1>1, Zenon DEF Realigned

-----------------------------------------------------------------------------
\* The elements of a concatenation.
LEMMA ConcatElements ==
    ASSUME NEW S, NEW a \in Seq(S), NEW b \in Seq(S)
    PROVE  /\ a \o b \in Seq(S)
           /\ Len(a \o b) = Len(a) + Len(b)
           /\ \A j \in 1 .. Len(a) + Len(b) :
                (a \o b)[j] = IF j <= Len(a) THEN a[j] ELSE b[j - Len(a)]
<1>1. a \o b \in Seq(S)
  OBVIOUS
<1>2. Len(a \o b) = Len(a) + Len(b)
  OBVIOUS
<1> QED BY <1>1, <1>2

\* Which element is where after an insertion at i.
LEMMA InsertElements ==
    ASSUME NEW S, NEW l \in Seq(S), NEW i \in 1 .. Len(l) + 1, NEW t \in S
    PROVE  /\ InsertAt(l, i, t) \in Seq(S) /\ Len(InsertAt(l, i, t)) = Len(l) + 1
           /\ \A j \in 1 .. Len(l) + 1 :
                InsertAt(l, i, t)[j] = IF j < i THEN l[j] ELSE IF j = i THEN t ELSE l[j - 1]
<1> DEFINE a == SubSeq(l, 1, i - 1)
           b == SubSeq(l, i, Len(l))
<1>1. a \in Seq(S) /\ Len(a) = i - 1 /\ \A j \in 1 .. i - 1 : a[j] = l[j]
  OBVIOUS
<1>2. b \in Seq(S) /\ Len(b) = Len(l) - i + 1 /\ \A j \in 1 .. Len(l) - i + 1 : b[j] = l[j + i - 1]
  OBVIOUS
<1>3. InsertAt(l, i, t) = (a \o <<t>>) \o b
  BY Zenon DEF InsertAt
<1> HIDE DEF a, b
<1> DEFINE c == a \o <<t>>
<1>4. c \in Seq(S) /\ Len(c) = i /\ c[i] = t /\ \A j \in 1 .. i - 1 : c[j] = l[j]
  BY <1>1
<1> HIDE DEF c
<1> DEFINE d == c \o b
<1>5. /\ d \in Seq(S) /\ Len(d) = Len(c) + Len(b)
      /\ \A j \in 1 .. Len(c) + Len(b) : d[j] = IF j <= Len(c) THEN c[j] ELSE b[j - Len(c)]
  BY <1>2, <1>4, ConcatElements, Zenon
<1> HIDE DEF d
<1>6. Len(c) + Len(b) = Len(l) + 1
  BY <1>2, <1>4
<1>7. ASSUME NEW j \in 1 .. Len(l) + 1
      PROVE  d[j] = IF j < i THEN l[j] ELSE IF j = i THEN t ELSE l[j - 1]
  <2>1. CASE j <= i
    <3>1. d[j] = c[j]
      BY <2>1, <1>4, <1>5, <1>6, Zenon
    <3> QED BY <2>1, <3>1, <1>4
  <2>2. CASE j > i
    <3>1. d[j] = b[j - i]
      BY <2>2, <1>4, <1>5, <1>6
    <3>2. b[j - i] = l[(j - i) + i - 1]
      BY <2>2, <1>2
    <3>3. (j - i) + i - 1 = j - 1
      OBVIOUS
    <3> QED BY <2>2, <3>1, <3>2, <3>3
  <2> QED BY <2>1, <2>2
<1> QED BY <1>3, <1>5, <1>6, <1>7, Zenon DEF c, d

\* Which element is where after a removal at i.
LEMMA RemoveElements ==
    ASSUME NEW S, NEW l \in Seq(S), NEW i \in 1 .. Len(l)
    PROVE  /\ RemoveAt(l, i) \in Seq(S) /\ Len(RemoveAt(l, i)) = Len(l) - 1
           /\ \A j \in 1 .. Len(l) - 1 : RemoveAt(l, i)[j] = IF j < i THEN l[j] ELSE l[j + 1]
<1> DEFINE a == SubSeq(l, 1, i - 1)
           b == SubSeq(l, i + 1, Len(l))
<1>1. a \in Seq(S) /\ Len(a) = i - 1 /\ \A j \in 1 .. i - 1 : a[j] = l[j]
  OBVIOUS
<1>2. b \in Seq(S) /\ Len(b) = Len(l) - i /\ \A j \in 1 .. Len(l) - i : b[j] = l[j + i]
  OBVIOUS
<1>3. RemoveAt(l, i) = a \o b
  BY Zenon DEF RemoveAt
<1> HIDE DEF a, b
<1> DEFINE d == a \o b
<1>4. /\ d \in Seq(S) /\ Len(d) = Len(a) + Len(b)
      /\ \A j \in 1 .. Len(a) + Len(b) : d[j] = IF j <= Len(a) THEN a[j] ELSE b[j - Len(a)]
  BY <1>1, <1>2, ConcatElements, Zenon
<1> HIDE DEF d
<1>5. Len(a) + Len(b) = Len(l) - 1
  BY <1>1, <1>2
<1>6. ASSUME NEW j \in 1 .. Len(l) - 1
      PROVE  d[j] = IF j < i THEN l[j] ELSE l[j + 1]
  <2>1. CASE j < i
    <3>1. j \in 1 .. Len(a) + Len(b) /\ j <= Len(a) /\ j \in 1 .. i - 1
      BY <2>1, <1>1, <1>5
    <3> QED BY <2>1, <3>1, <1>1, <1>4, Zenon
  <2>2. CASE j >= i
    <3>1. d[j] = b[j - (i - 1)]
      BY <2>2, <1>1, <1>4, <1>5
    <3>2. b[j - (i - 1)] = l[(j - (i - 1)) + i]
      BY <2>2, <1>2
    <3>3. (j - (i - 1)) + i = j + 1
      OBVIOUS
    <3> QED BY <2>2, <3>1, <3>2, <3>3
  <2> QED BY <2>1, <2>2
<1> QED BY <1>3, <1>4, <1>5, <1>6, Zenon DEF d

-----------------------------------------------------------------------------
\* timer_list_insert links the timer and keeps the order.
LEMMA InsertInOrder ==
    ASSUME expires \in [Timers -> Nat], NEW l, InOrder(l, expires),
           NEW t \in Timers, t \notin Range(l), NEW e \in Nat
    PROVE  /\ InOrder(timer_list_insert(l, t, e), [expires EXCEPT ![t] = e])
           /\ Range(timer_list_insert(l, t, e)) = Range(l) \cup {t}
<1> DEFINE later == {i \in DOMAIN l : expires[l[i]] > e}
           p == Min(later \cup {Len(l) + 1})
           m == InsertAt(l, p, t)
           x == [expires EXCEPT ![t] = e]
<1>0. l \in Seq(Timers) /\ Len(l) \in Nat /\ DOMAIN l = 1 .. Len(l)
  BY DEF InOrder
<1>1. p \in later \cup {Len(l) + 1} /\ \A i \in later : p <= i
  <2>1. later \cup {Len(l) + 1} \in SUBSET Nat
    BY <1>0
  <2> HIDE DEF later
  <2> QED BY <2>1, LeastNat, Zenon
<1> HIDE DEF p
<1>2. /\ p \in 1 .. Len(l) + 1
      /\ \A i \in 1 .. Len(l) : i < p => expires[l[i]] <= e
      /\ p <= Len(l) => expires[l[p]] > e
  <2>1. \A i \in 1 .. Len(l) : expires[l[i]] \in Nat
    BY <1>0
  <2>2. p \in 1 .. Len(l) + 1
    BY <1>0, <1>1
  <2>3. \A i \in 1 .. Len(l) : i < p => ~(expires[l[i]] > e)
    <3>1. SUFFICES ASSUME NEW i \in 1 .. Len(l), i < p PROVE i \notin later
      BY <1>0, Zenon
    <3>2. i \in Nat /\ p \in Nat /\ ~(p <= i)
      BY <3>1, <2>2, <1>0
    <3> QED BY <3>2, <1>1, Zenon
  <2>4. p <= Len(l) => expires[l[p]] > e
    <3>1. p <= Len(l) => p # Len(l) + 1
      BY <2>2, <1>0
    <3> QED BY <3>1, <1>1, Zenon
  <2> QED BY <2>1, <2>2, <2>3, <2>4
<1>3. /\ m \in Seq(Timers) /\ Len(m) = Len(l) + 1
      /\ \A j \in 1 .. Len(l) + 1 : m[j] = IF j < p THEN l[j] ELSE IF j = p THEN t ELSE l[j - 1]
  <2>1. l \in Seq(Timers) /\ p \in 1 .. Len(l) + 1
    BY <1>0, <1>2, Zenon
  <2> QED BY <2>1, InsertElements
<1>4. timer_list_insert(l, t, e) = m
  BY Zenon DEF timer_list_insert, p, InsertAt
<1> HIDE DEF m, later
<1>5. DOMAIN m = 1 .. Len(l) + 1
  BY <1>3
<1>6. \A i \in 1 .. Len(l) : l[i] \in Timers /\ l[i] # t
  BY <1>0 DEF Range
<1>7. Range(m) = Range(l) \cup {t}
  <2>1. ASSUME NEW i \in 1 .. Len(l) PROVE \E j \in 1 .. Len(l) + 1 : m[j] = l[i]
    <3>1. CASE i < p
      <4>1. i \in 1 .. Len(l) + 1 /\ m[i] = l[i]
        BY <3>1, <1>0, <1>2, <1>3
      <4> QED BY <4>1, Zenon
    <3>2. CASE i >= p
      <4>1. i + 1 \in 1 .. Len(l) + 1 /\ m[i + 1] = l[(i + 1) - 1]
        BY <3>2, <1>0, <1>2, <1>3, SMTT(30)
      <4>2. (i + 1) - 1 = i
        OBVIOUS
      <4> QED BY <4>1, <4>2, Zenon
    <3> QED BY <3>1, <3>2, <1>0, <1>2
  <2>2. m[p] = t
    BY <1>2, <1>3
  <2>3. ASSUME NEW j \in 1 .. Len(l) + 1 PROVE m[j] = t \/ \E i \in 1 .. Len(l) : m[j] = l[i]
    <3>1. CASE j < p
      <4>1. j \in 1 .. Len(l) /\ m[j] = l[j]
        BY <3>1, <1>0, <1>2, <1>3
      <4> QED BY <4>1, Zenon
    <3>2. CASE j > p
      <4>1. j - 1 \in 1 .. Len(l) /\ m[j] = l[j - 1]
        BY <3>2, <1>0, <1>2, <1>3
      <4> QED BY <4>1, Zenon
    <3> QED BY <3>1, <3>2, <2>2, <1>2
  <2>4. Range(l) = {l[i] : i \in 1 .. Len(l)} /\ Range(m) = {m[i] : i \in 1 .. Len(l) + 1}
    BY <1>0, <1>5, Zenon DEF Range
  <2>5. p \in 1 .. Len(l) + 1
    BY <1>2, Zenon
  <2> QED BY <2>1, <2>2, <2>3, <2>4, <2>5, SMTT(30)
<1>8. IsInjective(m)
  <2>1. \A i, j \in 1 .. Len(l) : l[i] = l[j] => i = j
    BY <1>0, Zenon DEF InOrder, IsInjective
  <2>2. ASSUME NEW i \in 1 .. Len(l) + 1, NEW j \in 1 .. Len(l) + 1, m[i] = m[j] PROVE i = j
    <3>1. \A a \in 1 .. Len(l) + 1 :
             \/ a < p /\ a \in 1 .. Len(l) /\ m[a] = l[a]
             \/ a = p /\ m[a] = t
             \/ a > p /\ a - 1 \in 1 .. Len(l) /\ m[a] = l[a - 1]
      BY <1>0, <1>2, <1>3
    <3>2. i = p \/ j = p => i = j
      BY <3>1, <2>2, <1>6, <1>2
    <3>3. ASSUME i # p, j # p PROVE i = j
      <4> DEFINE a == IF i < p THEN i ELSE i - 1
                 b == IF j < p THEN j ELSE j - 1
      <4>1. a \in 1 .. Len(l) /\ m[i] = l[a]
        BY <3>1, <3>3, <1>2
      <4>2. b \in 1 .. Len(l) /\ m[j] = l[b]
        BY <3>1, <3>3, <1>2
      <4>3. a = b
        BY <4>1, <4>2, <2>1, <2>2, Zenon
      <4> QED BY <4>3, <3>3, <1>2
    <3> QED BY <3>2, <3>3, Zenon
  <2> QED BY <2>2, <1>5, Zenon DEF IsInjective
<1>9. ASSUME NEW i \in 1 .. Len(l) + 1, NEW j \in 1 .. Len(l) + 1, i < j
      PROVE  x[m[i]] <= x[m[j]]
  <2>1. \A a, b \in 1 .. Len(l) : a < b => expires[l[a]] <= expires[l[b]]
    BY Zenon DEF InOrder
  <2>2. \A a \in 1 .. Len(l) : expires[l[a]] \in Nat /\ x[l[a]] = expires[l[a]]
    BY <1>6, Zenon
  <2>3. x[t] = e
    BY Zenon
  <2>4. \A a \in 1 .. Len(l) : a >= p => expires[l[a]] > e
    BY <2>1, <2>2, <1>0, <1>2
  <2> HIDE DEF x
  <2>5. CASE i < p
    <3>1. i \in 1 .. Len(l) /\ m[i] = l[i]
      BY <2>5, <1>0, <1>2, <1>3
    <3>2. CASE j < p
      <4>1. j \in 1 .. Len(l) /\ m[j] = l[j]
        BY <3>2, <1>0, <1>2, <1>3
      <4> QED BY <3>1, <4>1, <1>9, <2>1, <2>2, Zenon
    <3>3. CASE j = p
      BY <3>1, <3>3, <2>5, <2>2, <2>3, <1>2, <1>3
    <3>4. CASE j > p
      <4>1. j - 1 \in 1 .. Len(l) /\ i < j - 1 /\ m[j] = l[j - 1]
        BY <3>4, <2>5, <1>0, <1>2, <1>3, SMTT(30)
      <4> QED BY <3>1, <4>1, <2>1, <2>2, Zenon
    <3> QED BY <3>2, <3>3, <3>4, <1>2
  <2>6. CASE i = p
    <3>1. j - 1 \in 1 .. Len(l) /\ j - 1 >= p /\ m[j] = l[j - 1] /\ m[i] = t
      BY <2>6, <1>9, <1>0, <1>2, <1>3
    <3> QED BY <3>1, <2>2, <2>3, <2>4
  <2>7. CASE i > p
    <3>1. /\ i - 1 \in 1 .. Len(l) /\ j - 1 \in 1 .. Len(l) /\ i - 1 < j - 1
          /\ m[i] = l[i - 1] /\ m[j] = l[j - 1]
      BY <2>7, <1>9, <1>0, <1>2, <1>3
    <3> QED BY <3>1, <2>1, <2>2, Zenon
  <2> QED BY <2>5, <2>6, <2>7, <1>2
<1> HIDE DEF x
<1>10. InOrder(m, x)
  BY <1>3, <1>8, <1>9, Zenon DEF InOrder
<1> QED BY <1>4, <1>7, <1>10, Zenon DEF x

\* m is l without its element at p.
Without(l, m, p) ==
    /\ m \in Seq(Timers) /\ Len(m) = Len(l) - 1
    /\ \A j \in 1 .. Len(l) - 1 : m[j] = IF j < p THEN l[j] ELSE l[j + 1]

\* A list without one of its elements is still in order.
LEMMA WithoutInOrder ==
    ASSUME NEW x \in [Timers -> Nat], NEW l, InOrder(l, x), NEW p \in 1 .. Len(l),
           NEW m, Without(l, m, p)
    PROVE  InOrder(m, x) /\ Range(m) = Range(l) \ {l[p]}
<1>0. l \in Seq(Timers) /\ Len(l) \in Nat /\ DOMAIN l = 1 .. Len(l) /\ DOMAIN m = 1 .. Len(l) - 1
  BY DEF InOrder, Without
<1> DEFINE at(j) == IF j < p THEN j ELSE j + 1
<1>1. /\ \A j \in 1 .. Len(l) - 1 : at(j) \in 1 .. Len(l) /\ at(j) # p /\ m[j] = l[at(j)]
      /\ \A i, j \in 1 .. Len(l) - 1 : i < j => at(i) < at(j)
  <2>1. ASSUME NEW j \in 1 .. Len(l) - 1
        PROVE  at(j) \in 1 .. Len(l) /\ at(j) # p /\ m[j] = l[at(j)]
    BY <1>0, SMTT(30) DEF Without
  <2>2. ASSUME NEW i \in 1 .. Len(l) - 1, NEW j \in 1 .. Len(l) - 1, i < j
        PROVE  at(i) < at(j)
    BY <2>2
  <2> QED BY <2>1, <2>2, Zenon
<1>2. \A a \in 1 .. Len(l) : a # p => \E j \in 1 .. Len(l) - 1 : at(j) = a
  <2> SUFFICES ASSUME NEW a \in 1 .. Len(l), a # p
               PROVE  \E j \in 1 .. Len(l) - 1 : at(j) = a
    BY Zenon
  <2>1. CASE a < p
    <3>1. a \in 1 .. Len(l) - 1 /\ at(a) = a
      BY <2>1, <1>0
    <3> QED BY <3>1, Zenon
  <2>2. CASE a > p
    <3>1. a - 1 \in 1 .. Len(l) - 1 /\ at(a - 1) = a
      BY <2>2, <1>0
    <3> QED BY <3>1, Zenon
  <2> QED BY <2>1, <2>2
<1> HIDE DEF at
<1>3. \A i, j \in 1 .. Len(l) : l[i] = l[j] => i = j
  BY <1>0, Zenon DEF InOrder, IsInjective
<1>4. \A i, j \in 1 .. Len(l) : i < j => x[l[i]] <= x[l[j]]
  BY Zenon DEF InOrder
<1>5. \A i, j \in 1 .. Len(l) - 1 : i < j => x[m[i]] <= x[m[j]]
  BY <1>1, <1>4, Zenon
<1>6. IsInjective(m)
  <2>1. ASSUME NEW i \in 1 .. Len(l) - 1, NEW j \in 1 .. Len(l) - 1, m[i] = m[j] PROVE i = j
    <3>1. at(i) = at(j)
      BY <2>1, <1>1, <1>3
    <3>2. ~(i < j) /\ ~(j < i)
      BY <3>1, <1>1
    <3> QED BY <3>2, <1>0
  <2> QED BY <2>1, <1>0, Zenon DEF IsInjective
<1>7. Range(m) = Range(l) \ {l[p]}
  <2>1. Range(l) = {l[i] : i \in 1 .. Len(l)} /\ Range(m) = {m[i] : i \in 1 .. Len(l) - 1}
    BY <1>0, Zenon DEF Range
  <2>2. ASSUME NEW j \in 1 .. Len(l) - 1 PROVE \E a \in 1 .. Len(l) : m[j] = l[a] /\ m[j] # l[p]
    BY <1>1, <1>3, Zenon
  <2>3. ASSUME NEW a \in 1 .. Len(l), l[a] # l[p] PROVE \E j \in 1 .. Len(l) - 1 : m[j] = l[a]
    BY <2>3, <1>1, <1>2, Zenon
  <2> HIDE DEF at
  <2>4. \A u \in Range(m) : u \in Range(l) /\ u # l[p]
    BY <2>1, <2>2, Zenon
  <2>5. \A u \in Range(l) : u # l[p] => u \in Range(m)
    BY <2>1, <2>3, Zenon
  <2> QED BY <2>4, <2>5, Zenon
<1> QED BY <1>0, <1>5, <1>6, <1>7, Zenon DEF InOrder, Without

\* timer_list_remove unlinks the timer and keeps the order.
LEMMA RemoveInOrder ==
    ASSUME NEW x \in [Timers -> Nat], NEW l, InOrder(l, x), NEW t \in Range(l)
    PROVE  /\ InOrder(timer_list_remove(l, t), x)
           /\ Range(timer_list_remove(l, t)) = Range(l) \ {t}
<1> DEFINE p == CHOOSE i \in DOMAIN l : l[i] = t
<1>1. l \in Seq(Timers) /\ DOMAIN l = 1 .. Len(l) /\ p \in DOMAIN l /\ l[p] = t
  BY DEF InOrder, Range
<1>2. timer_list_remove(l, t) = RemoveAt(l, p)
  BY Zenon DEF timer_list_remove, RemoveAt
<1> HIDE DEF p
<1>3. p \in 1 .. Len(l)
  BY <1>1, Zenon
<1>4. Without(l, RemoveAt(l, p), p)
  <2>1. l \in Seq(Timers)
    BY <1>1, Zenon
  <2> QED BY <2>1, <1>3, RemoveElements, Zenon DEF Without
<1>5. InOrder(RemoveAt(l, p), x) /\ Range(RemoveAt(l, p)) = Range(l) \ {l[p]}
  BY <1>3, <1>4, WithoutInOrder, Zenon
<1> QED BY <1>1, <1>2, <1>5, Zenon

\* Unlinking the head keeps the order; the head has the earliest deadline.
LEMMA TailInOrder ==
    ASSUME NEW x \in [Timers -> Nat], NEW l, InOrder(l, x), l # <<>>
    PROVE  /\ Head(l) \in Range(l) /\ \A t \in Range(l) : t \in Timers /\ x[Head(l)] <= x[t]
           /\ InOrder(Tail(l), x) /\ Range(Tail(l)) = Range(l) \ {Head(l)}
<1>1. l \in Seq(Timers) /\ Len(l) \in Nat \ {0} /\ DOMAIN l = 1 .. Len(l) /\ Head(l) = l[1]
  BY DEF InOrder
<1>2. Without(l, Tail(l), 1)
  <2>1. l \in Seq(Timers) /\ l # <<>>
    BY <1>1, Zenon
  <2>2. Tail(l) \in Seq(Timers) /\ Len(Tail(l)) = Len(l) - 1
    BY <2>1
  <2>3. \A j \in 1 .. Len(l) - 1 : Tail(l)[j] = l[j + 1]
    BY <2>1
  <2> QED BY <2>2, <2>3, <1>1 DEF Without
<1>3. 1 \in 1 .. Len(l)
  BY <1>1
<1>4. InOrder(Tail(l), x) /\ Range(Tail(l)) = Range(l) \ {l[1]}
  BY <1>2, <1>3, WithoutInOrder, Zenon
<1>5. Range(l) = {l[i] : i \in 1 .. Len(l)}
  BY <1>1, Zenon DEF Range
<1>6. ASSUME NEW i \in 1 .. Len(l) PROVE l[i] \in Timers /\ x[l[1]] <= x[l[i]]
  <2>1. l[i] \in Timers /\ x[l[i]] \in Nat
    BY <1>1
  <2>2. 1 < i => x[l[1]] <= x[l[i]]
    BY <1>3, Zenon DEF InOrder
  <2> QED BY <2>1, <2>2, <1>3
<1> QED BY <1>1, <1>3, <1>4, <1>5, <1>6, Zenon

-----------------------------------------------------------------------------
(* The inductive invariant.  Sound and complete passes need to know of every
   timer where it is: linked, or the one whose callback runs (Placed); that a
   timer is either active or marked, and a handle never that of a marked one
   (Marked); and that a cancelled timer is due at once, so that the pass under
   way reaches it before a timer that is not due (DueAtOnce).              *)
Placed ==
    /\ IF pc = "callback" THEN cur \in Timers /\ cur \notin Linked /\ expires[cur] <= now
                          ELSE cur = NoTimer
    /\ \A t \in Timers : allocated[t] = 1 <=> t \in Linked \/ t = cur

Marked ==
    /\ \A t \in Timers : allocated[t] = 1 => (active[t] = 1 <=> pending_delete[t] = 0)
    /\ \A t \in Timers : handle[t] = 1 => allocated[t] = 1 /\ active[t] = 1

DueAtOnce ==
    /\ current_time = now
    /\ \A t \in Linked : pending_delete[t] = 1 => expires[t] <= now

TimerInv ==
    TypeOK /\ InOrder(list, expires) /\ Placed /\ Marked /\ DueAtOnce /\ PassComplete

\* Times, deadlines and intervals are natural numbers.
LEMMA Numbers ==
    ASSUME TypeOK
    PROVE  /\ expires \in [Timers -> Nat] /\ interval \in [Timers -> Nat]
           /\ clock \in Nat /\ now \in Nat /\ current_time \in Nat /\ now <= clock
<1>1. interval \in [Timers -> Intervals \cup {0}]
  BY Zenon DEF TypeOK
<1>2. Intervals \cup {0} \subseteq Nat
  BY TimerAssumption
<1>3. clock \in Nat /\ now \in Nat /\ current_time \in Nat /\ now <= clock
  BY TimerAssumption DEF TypeOK
<1> QED BY <1>1, <1>2, <1>3, Zenon DEF TypeOK

\* TimerInv holds when the reactor has been created.
LEMMA TimersInit == Init => TimerInv
<1> SUFFICES ASSUME Init PROVE TimerInv
  BY Zenon
<1>1. TypeOK /\ Linked = {}
  BY TimerAssumption DEF Init, TypeOK, Flag, Linked, Range
<1>2. InOrder(list, expires)
  BY DEF Init, InOrder, IsInjective
<1> QED BY <1>1, <1>2, TimerAssumption DEF Init, TimerInv, Placed, Marked, DueAtOnce,
           PassComplete

\* The list is in order, in the words of ListSound.
LEMMA SoundList == TimerInv => TimersSound
<1> SUFFICES ASSUME TimerInv PROVE TimersSound
  BY Zenon
<1> USE DEF TimerInv
<1>1. DOMAIN list = 1 .. Len(list)
  BY DEF InOrder
<1>2. \A i, j \in DOMAIN list : i < j => expires[list[i]] <= expires[list[j]]
  BY <1>1, Zenon DEF InOrder
<1>3. Linked \subseteq Timers
  BY DEF Linked, Range, InOrder
<1>4. {t \in Timers : allocated[t] = 1} = Linked \cup (IF pc = "callback" THEN {cur} ELSE {})
  BY <1>3, TimerAssumption, Zenon DEF Placed
<1>5. cur \notin Linked
  BY <1>3, TimerAssumption, Zenon DEF Placed
<1>6. \A t \in Timers : handle[t] = 1 => /\ allocated[t] = 1 /\ active[t] = 1
                                          /\ pending_delete[t] = 0
  BY Zenon DEF Marked
<1> QED BY <1>2, <1>4, <1>5, <1>6, Zenon DEF TimersSound, ListSound, InOrder

\* Every call of a component, every step of the loop and of the clock keeps
\* TimerInv.
LEMMA TimersStep == TimerInv /\ [Next]_vars => TimerInv'
<1> SUFFICES ASSUME TimerInv, [Next]_vars PROVE TimerInv'
  BY Zenon
<1> USE TimerAssumption DEF TimerInv, Flag, fieldVars, timeVars
<1> /\ expires \in [Timers -> Nat] /\ interval \in [Timers -> Nat]
    /\ clock \in Nat /\ now \in Nat /\ current_time \in Nat /\ now <= clock
  BY Numbers, Zenon
<1>l. Linked = Range(list) /\ Linked' = Range(list')
  BY Zenon DEF Linked
<1>t. Linked \subseteq Timers
  BY DEF Linked, Range, InOrder
<1>h. ASSUME list # <<>>
      PROVE  /\ Head(list) \in Linked /\ Head(list) \in Timers
             /\ \A t \in Linked : expires[Head(list)] <= expires[t]
             /\ InOrder(Tail(list), expires) /\ Range(Tail(list)) = Linked \ {Head(list)}
             /\ Tail(list) \in Seq(Timers)
  <2>1. InOrder(Tail(list), expires) => Tail(list) \in Seq(Timers)
    BY Zenon DEF InOrder
  <2> QED BY <1>h, <1>l, <1>t, <2>1, TailInOrder, Zenon
<1>1. ASSUME NEW t \in Timers, NEW d \in Delays, NEW i \in Intervals, reactor_add_timer(t, d,
i)
      PROVE  TimerInv'
  <2> DEFINE e == clock + d
  <2>0. e \in Nat /\ i \in Nat
    OBVIOUS
  <2> HIDE DEF e
  <2>a. Added(t, e, i)
    BY <1>1, Zenon DEF reactor_add_timer, e
  <2>1. t \notin Linked /\ t # cur
    BY <2>a DEF Added, Placed, TypeOK
  <2>2. /\ InOrder(list', expires') /\ Linked' = Linked \cup {t}
    BY <2>0, <2>a, <2>1, <1>l, InsertInOrder, Zenon DEF Added
  <2>3. TypeOK'
    BY <2>0, <2>a, <2>2, Zenon DEF Added, TypeOK, InOrder
  <2>4. Placed' /\ Marked' /\ DueAtOnce' /\ PassComplete'
    BY <2>0, <2>a, <2>1, <2>2, <1>t
       DEF Added, TypeOK, Placed, Marked, DueAtOnce, PassComplete, InCallback
  <2> QED BY <2>2, <2>3, <2>4, Zenon
<1>2. ASSUME NEW t \in Timers, reactor_cancel_timer(t) PROVE TimerInv'
  <2>1. /\ InOrder(list', expires') /\ Linked' = Linked
        /\ expires' \in [Timers -> Nat] /\ \A u \in Timers : u # t => expires'[u] = expires[u]
        /\ t \in Linked => expires'[t] = now
        /\ t \notin Linked => expires' = expires
    <3>1. CASE t \in Linked
      <4> DEFINE r == timer_list_remove(list, t)
      <4>1. InOrder(r, expires) /\ Range(r) = Linked \ {t}
        BY <3>1, <1>l, RemoveInOrder, Zenon
      <4> HIDE DEF r
      <4>2. list' = timer_list_insert(r, t, now) /\ expires' = [expires EXCEPT ![t] = now]
        BY <3>1, <1>2, Zenon DEF reactor_cancel_timer, r, DueAtOnce
      <4>3. /\ InOrder(timer_list_insert(r, t, now), [expires EXCEPT ![t] = now])
            /\ Range(timer_list_insert(r, t, now)) = Range(r) \cup {t}
        <5>1. t \notin Range(r)
          BY <4>1, Zenon
        <5> QED BY <4>1, <5>1, InsertInOrder, Zenon
      <4> QED BY <3>1, <4>1, <4>2, <4>3, <1>l, Zenon
    <3>2. CASE t \notin Linked
      BY <3>2, <1>2, <1>l, Zenon DEF reactor_cancel_timer
    <3> QED BY <3>1, <3>2, Zenon
  <2>2. /\ active' = [active EXCEPT ![t] = 0] /\ handle' = [handle EXCEPT ![t] = 0]
        /\ pending_delete' = [pending_delete EXCEPT ![t] = 1]
        /\ UNCHANGED <<clock, current_time, now, interval, allocated, pc, cur>> /\ InCallback
    BY <1>2, Zenon DEF reactor_cancel_timer
  <2>3. TypeOK'
    BY <2>1, <2>2, Zenon DEF TypeOK, InOrder
  <2>4. t \in Linked \/ t = cur
    BY <1>2, Zenon DEF reactor_cancel_timer, Placed, Marked
  <2>5. Placed' /\ Marked'
    BY <2>1, <2>2, <2>4, <1>t, Zenon DEF TypeOK, Placed, Marked
  <2>6. DueAtOnce' /\ PassComplete'
    BY <2>1, <2>2, <1>t DEF TypeOK, DueAtOnce, PassComplete, InCallback
  <2> QED BY <2>1, <2>3, <2>5, <2>6, Zenon
<1>3. CASE FreeCancelled
  <2> DEFINE t == Head(list)
  <2>1. /\ t \in Linked /\ t \in Timers /\ list' = Tail(list) /\ pending_delete[t] = 1
        /\ InOrder(list', expires') /\ Linked' = Linked \ {t} /\ list' \in Seq(Timers)
    BY <1>3, <1>h, <1>l, Zenon DEF FreeCancelled, Expired
  <2>2. /\ allocated' = [allocated EXCEPT ![t] = 0] /\ handle' = [handle EXCEPT ![t] = 0]
        /\ UNCHANGED <<clock, current_time, now, expires, interval, active, pending_delete, pc, cur>>
        /\ pc = "pass"
    BY <1>3, Zenon DEF FreeCancelled, Free
  <2> HIDE DEF t
  <2>3. TypeOK'
    BY <2>1, <2>2, Zenon DEF TypeOK
  <2>4. Placed' /\ Marked' /\ DueAtOnce' /\ PassComplete'
    BY <2>1, <2>2, <1>t DEF TypeOK, Placed, Marked, DueAtOnce, PassComplete
  <2> QED BY <2>1, <2>3, <2>4, Zenon
<1>4. CASE CallBack
  <2> DEFINE t == Head(list)
  <2>1. /\ t \in Linked /\ t \in Timers /\ expires[t] <= now
        /\ InOrder(list', expires') /\ Linked' = Linked \ {t} /\ list' \in Seq(Timers)
    BY <1>4, <1>h, <1>l, Zenon DEF CallBack, Expired
  <2>2. /\ pc = "pass" /\ pc' = "callback" /\ cur' = t
        /\ UNCHANGED <<clock, current_time, now, expires, interval, active, pending_delete,
                       allocated, handle>>
    BY <1>4, Zenon DEF CallBack
  <2> HIDE DEF t
  <2>3. TypeOK'
    BY <2>1, <2>2, Zenon DEF TypeOK
  <2>4. Placed' /\ Marked' /\ DueAtOnce' /\ PassComplete'
    BY <2>1, <2>2, <1>t DEF TypeOK, Placed, Marked, DueAtOnce, PassComplete
  <2> QED BY <2>1, <2>3, <2>4, Zenon
<1>5. CASE CallbackReturns
  <2>1. /\ pc = "callback" /\ pc' = "pass" /\ cur' = NoTimer /\ cur \in Timers
        /\ cur \notin Linked /\ expires[cur] <= now
        /\ UNCHANGED <<clock, current_time, now, interval, active, pending_delete>>
    BY <1>5, Zenon DEF CallbackReturns, Placed
  <2>2. CASE active[cur] = 1 /\ pending_delete[cur] = 0 /\ interval[cur] > 0
    <3> DEFINE e == Realigned(cur)
    <3>1. e \in Nat /\ e > now
      BY <2>1, <2>2, RealignedIs
    <3>2. /\ expires' = [expires EXCEPT ![cur] = e] /\ list' = timer_list_insert(list, cur, e)
          /\ UNCHANGED <<allocated, handle>>
      BY <2>2, <1>5, Zenon DEF CallbackReturns
    <3> HIDE DEF e
    <3>3. InOrder(list', expires') /\ Linked' = Linked \cup {cur}
      BY <3>1, <3>2, <2>1, <1>l, InsertInOrder, Zenon
    <3>4. TypeOK'
      BY <2>1, <3>1, <3>2, <3>3, Zenon DEF TypeOK, InOrder
    <3>5. Placed' /\ Marked' /\ DueAtOnce' /\ PassComplete'
      BY <2>1, <2>2, <3>1, <3>2, <3>3, <1>t
         DEF TypeOK, Placed, Marked, DueAtOnce, PassComplete
    <3> QED BY <3>3, <3>4, <3>5, Zenon
  <2>3. CASE ~(active[cur] = 1 /\ pending_delete[cur] = 0 /\ interval[cur] > 0)
    <3>1. /\ UNCHANGED <<expires, list>> /\ allocated' = [allocated EXCEPT ![cur] = 0]
          /\ handle' = [handle EXCEPT ![cur] = 0]
      BY <2>3, <1>5, Zenon DEF CallbackReturns, Free
    <3>2. TypeOK' /\ Linked' = Linked /\ InOrder(list', expires')
      BY <2>1, <3>1, <1>l, Zenon DEF TypeOK
    <3>3. Placed' /\ Marked' /\ DueAtOnce' /\ PassComplete'
      BY <2>1, <3>1, <3>2, <1>t DEF TypeOK, Placed, Marked, DueAtOnce, PassComplete
    <3> QED BY <3>2, <3>3, Zenon
  <2> QED BY <2>2, <2>3, Zenon
<1>6. CASE UNCHANGED <<list, fieldVars, cur>>
           /\ (BeginPass \/ EndPass \/ Dispatch \/ EndDispatch \/ Tick \/ UNCHANGED vars)
  <2>1. Linked' = Linked /\ InOrder(list', expires')
    BY <1>6, <1>l, Zenon
  <2>2. TypeOK'
    BY <1>6 DEF TypeOK, BeginPass, EndPass, Dispatch, EndDispatch, Tick, vars
  <2>3. Placed' /\ Marked'
    BY <1>6, <2>1, Zenon DEF TypeOK, Placed, Marked, BeginPass, EndPass, Dispatch,
       EndDispatch, Tick, vars
  <2>4. DueAtOnce'
    BY <1>6, <2>1, <1>t DEF TypeOK, DueAtOnce, BeginPass, EndPass, Dispatch, EndDispatch,
       Tick, vars
  <2>5. PassComplete'
    <3>1. CASE EndPass
      <4>1. \A t \in Linked : expires[t] > now
        <5>1. CASE list = <<>>
          BY <5>1, <1>l DEF Range
        <5>2. CASE list # <<>>
          BY <5>2, <1>h, <1>t, <3>1 DEF EndPass, Expired
        <5> QED BY <5>1, <5>2, Zenon
      <4> QED BY <4>1, <3>1, <2>1, <1>t DEF EndPass, PassComplete, DueAtOnce, TypeOK
    <3>2. CASE ~EndPass
      BY <1>6, <3>2, <2>1, Zenon DEF PassComplete, BeginPass, Dispatch, EndDispatch, Tick, vars
    <3> QED BY <3>1, <3>2, Zenon
  <2> QED BY <2>1, <2>2, <2>3, <2>4, <2>5, Zenon
<1> HIDE DEF TimerInv
<1> QED BY <1>1, <1>2, <1>3, <1>4, <1>5, <1>6, Zenon
        DEF Next, Loop, Callers, BeginPass, EndPass, Dispatch, EndDispatch, Tick, vars

\* What the components rely on holds throughout: the list of the reactor is
\* sound in the middle of a pass, and no pass leaves a timer behind
\* (process_expired_timers, reactor_add_timer, reactor_cancel_timer).
THEOREM TimersSoundHolds == Spec => []TimersSound
<1>1. Spec => []TimerInv
  BY TimersInit, TimersStep, PTL DEF Spec
<1> QED BY <1>1, SoundList, PTL

-----------------------------------------------------------------------------
\* The deadline that TimerService sees, by where the timer is.
LEMMA DeadlineIs ==
    ASSUME TimerInv, NEW t \in Timers
    PROVE  /\ t \in Linked /\ active[t] = 1 => Deadline(t) = expires[t]
           /\ t = cur /\ active[t] = 1 /\ interval[t] > 0 => Deadline(t) = Realigned(t)
           /\ t = cur /\ ~(active[t] = 1 /\ interval[t] > 0) => Deadline(t) = Off
           /\ t \in Linked /\ active[t] # 1 => Deadline(t) = Off
           /\ t \notin Linked /\ t # cur => Deadline(t) = Off
<1>1. cur \notin Linked
  BY SoundList, Zenon DEF TimersSound, ListSound
<1> QED BY <1>1, Zenon DEF Deadline

\* An armed deadline is a time.
LEMMA DeadlineType ==
    ASSUME TimerInv, NEW t \in Timers, Deadline(t) # Off
    PROVE  /\ Deadline(t) \in Nat /\ active[t] = 1
           /\ t \in Linked \/ (t = cur /\ interval[t] > 0 /\ Deadline(t) > now)
<1> /\ expires \in [Timers -> Nat] /\ interval \in [Timers -> Nat] /\ now \in Nat
  BY Numbers, Zenon DEF TimerInv
<1>1. CASE t \in Linked
  BY <1>1, DeadlineIs, Zenon
<1>2. CASE t = cur
  <2>1. active[t] = 1 /\ interval[t] > 0 /\ Deadline(t) = Realigned(t)
    BY <1>2, DeadlineIs, Zenon
  <2>2. expires[t] <= now
    BY <1>2, TimerAssumption, Zenon DEF TimerInv, Placed
  <2> QED BY <1>2, <2>1, <2>2, RealignedIs
<1> QED BY <1>1, <1>2, DeadlineIs, Zenon

\* A step changes the deadlines of no timer but t.
OnlyOf(t) == \A u \in Timers \ {t} : Deadline(u)' = Deadline(u)

\* A timer whose fields a step leaves alone, and that is linked, running or
\* neither as before, keeps its deadline.
LEMMA DeadlineKept ==
    ASSUME NEW u \in Timers, u \in Linked' <=> u \in Linked, u = cur' <=> u = cur,
           expires'[u] = expires[u], interval'[u] = interval[u], active'[u] = active[u],
           u = cur => now' = now
    PROVE  Deadline(u)' = Deadline(u)
<1>1. ASSUME now' = now PROVE Realigned(u)' = Realigned(u)
  BY <1>1, Zenon DEF Realigned
<1> QED BY <1>1, Zenon DEF Deadline

\* Every step of the reactor is a step of TimerService or leaves it alone.
LEMMA PromiseStep ==
    ASSUME TimerInv, TimerInv', [Next]_vars
    PROVE  [Promise!Next]_(Promise!vars)
<1> USE TimerAssumption DEF fieldVars, timeVars, Flag
<1> DEFINE due == [t \in Timers |-> Deadline(t)]
<1> /\ expires \in [Timers -> Nat] /\ interval \in [Timers -> Nat]
    /\ clock \in Nat /\ now \in Nat /\ current_time \in Nat /\ now <= clock
  BY Numbers, Zenon DEF TimerInv
<1>l. Linked = Range(list) /\ Linked' = Range(list')
  BY Zenon DEF Linked
<1>t. /\ Linked \subseteq Timers /\ cur \notin Linked
      /\ \A t \in Timers : allocated[t] = 1 <=> t \in Linked \/ t = cur
  BY DEF TimerInv, Linked, Range, InOrder, Placed
<1>s. ASSUME \A t \in Timers : Deadline(t)' = Deadline(t), UNCHANGED <<clock, cur, interval>>
      PROVE  UNCHANGED Promise!vars
  BY <1>s, Zenon DEF Promise!vars
<1>o. ASSUME NEW t \in Timers, OnlyOf(t) PROVE due' = [due EXCEPT ![t] = due'[t]]
  BY <1>o, Zenon DEF OnlyOf
<1>h. ASSUME list # <<>>
      PROVE  /\ Head(list) \in Linked /\ Head(list) \in Timers
             /\ \A t \in Linked : expires[Head(list)] <= expires[t]
             /\ Range(Tail(list)) = Linked \ {Head(list)}
  BY <1>h, <1>l, <1>t, TailInOrder, Zenon DEF TimerInv
<1>1. ASSUME NEW t \in Timers, NEW d \in Delays, NEW i \in Intervals, reactor_add_timer(t, d,
i)
      PROVE  Promise!Arm(t)
  <2> DEFINE e == clock + d
  <2>0. e \in Nat /\ e >= clock /\ i \in Nat
    OBVIOUS
  <2> HIDE DEF e
  <2>a. Added(t, e, i)
    BY <1>1, Zenon DEF reactor_add_timer, e
  <2>1. t \notin Linked /\ t # cur
    BY <2>a, <1>t DEF Added
  <2>2. Linked' = Linked \cup {t}
    BY <2>0, <2>a, <2>1, <1>l, InsertInOrder, Zenon DEF Added, TimerInv
  <2>3. OnlyOf(t)
    <3>1. /\ \A u \in Timers \ {t} : /\ expires'[u] = expires[u] /\ interval'[u] = interval[u]
                                     /\ active'[u] = active[u]
          /\ UNCHANGED <<now, cur>>
      BY <2>a DEF Added, TypeOK, TimerInv
    <3> QED BY <2>2, <3>1, DeadlineKept, Zenon DEF OnlyOf
  <2>4. Deadline(t) = Off
    BY <2>1, DeadlineIs, Zenon
  <2>5. Deadline(t)' = e
    BY <2>a, <2>1, <2>2 DEF Added, Deadline, TypeOK, TimerInv
  <2>6. UNCHANGED <<clock, cur>> /\ interval' = [interval EXCEPT ![t] = i]
    BY <2>a, Zenon DEF Added
  <2> HIDE DEF due
  <2>7. due[t] = Off /\ due'[t] = e /\ due' = [due EXCEPT ![t] = due'[t]]
    BY <2>3, <2>4, <2>5, <1>o, Zenon DEF due
  <2> QED BY <2>0, <2>6, <2>7, Zenon DEF Promise!Arm, due
<1>2. ASSUME NEW t \in Timers, reactor_cancel_timer(t)
      PROVE  Promise!Disarm(t) \/ UNCHANGED Promise!vars
  <2>1. /\ active' = [active EXCEPT ![t] = 0] /\ active[t] = 1 /\ (t \in Linked \/ t = cur)
        /\ UNCHANGED <<clock, now, interval, cur>>
    BY <1>2, <1>t, Zenon DEF reactor_cancel_timer, TimerInv, Marked
  <2>2. Linked' = Linked /\ \A u \in Timers \ {t} : expires'[u] = expires[u]
    <3>1. CASE t \in Linked
      <4> DEFINE r == timer_list_remove(list, t)
      <4>1. InOrder(r, expires) /\ Range(r) = Linked \ {t}
        BY <3>1, <1>l, RemoveInOrder, Zenon DEF TimerInv
      <4> HIDE DEF r
      <4>2. /\ list' = timer_list_insert(r, t, current_time)
            /\ expires' = [expires EXCEPT ![t] = current_time]
        BY <3>1, <1>2, Zenon DEF reactor_cancel_timer, r
      <4>3. Range(timer_list_insert(r, t, current_time)) = Range(r) \cup {t}
        <5>1. t \notin Range(r)
          BY <4>1, Zenon
        <5> QED BY <4>1, <5>1, InsertInOrder, Zenon
      <4> QED BY <3>1, <4>1, <4>2, <4>3, <1>l, Zenon
    <3>2. CASE t \notin Linked
      BY <3>2, <1>2, <1>l, Zenon DEF reactor_cancel_timer
    <3> QED BY <3>1, <3>2, Zenon
  <2>3. OnlyOf(t)
    BY <2>1, <2>2, DeadlineKept, Zenon DEF OnlyOf, TypeOK, TimerInv
  <2>4. Deadline(t)' = Off
    BY <2>1 DEF Deadline, TypeOK, TimerInv
  <2>5. CASE Deadline(t) = Off
    BY <2>1, <2>3, <2>4, <2>5, <1>s, Zenon DEF OnlyOf
  <2>6. CASE Deadline(t) # Off
    <3> HIDE DEF due
    <3>1. due[t] # Off /\ due'[t] = Off /\ due' = [due EXCEPT ![t] = due'[t]]
      BY <2>3, <2>4, <2>6, <1>o, Zenon DEF due
    <3> QED BY <2>1, <3>1, Zenon DEF Promise!Disarm, due
  <2> QED BY <2>5, <2>6, Zenon
<1>3. ASSUME NEW t \in Timers, t = Head(list), FreeCancelled PROVE UNCHANGED Promise!vars
  <2>1. /\ t \in Linked /\ pending_delete[t] = 1 /\ Linked' = Linked \ {t}
        /\ UNCHANGED <<clock, now, expires, interval, active, cur>>
    BY <1>3, <1>h, <1>l, Zenon DEF FreeCancelled, Expired
  <2>2. active[t] # 1 /\ Deadline(t) = Off
    BY <2>1, <1>t, DeadlineIs DEF TimerInv, Marked
  <2>3. Deadline(t)' = Off
    BY <2>1, <2>2, Zenon DEF Deadline
  <2>4. \A u \in Timers \ {t} : Deadline(u)' = Deadline(u)
    BY <2>1, DeadlineKept, Zenon
  <2> QED BY <2>1, <2>2, <2>3, <2>4, <1>s, Zenon
<1>4. ASSUME NEW t \in Timers, t = Head(list), CallBack PROVE Promise!Fire(t)
  <2>1. /\ t \in Linked /\ pending_delete[t] = 0 /\ Linked' = Linked \ {t}
        /\ expires[t] <= now /\ \A u \in Linked : expires[t] <= expires[u]
    BY <1>4, <1>h, <1>l, Zenon DEF CallBack, Expired
  <2>2. /\ pc = "pass" /\ cur' = t
        /\ UNCHANGED <<clock, now, expires, interval, active>>
    BY <1>4, Zenon DEF CallBack
  <2>3. cur = NoTimer
    BY <2>2, Zenon DEF TimerInv, Placed
  <2>4. active[t] = 1 /\ Deadline(t) = expires[t]
    BY <2>1, <1>t, DeadlineIs, Zenon DEF TimerInv, Marked
  <2>5. OnlyOf(t)
    BY <2>1, <2>2, <2>3, DeadlineKept, Zenon DEF OnlyOf
  <2>6. ASSUME NEW u \in Timers, Deadline(u) # Off PROVE Deadline(t) <= Deadline(u)
    BY <2>1, <2>3, <2>4, <2>6, DeadlineType, DeadlineIs, Zenon
  <2>7. interval[t] = 0 => Deadline(t)' = Off
    BY <2>1, <2>2 DEF Deadline
  <2>8. ASSUME interval[t] # 0
        PROVE  /\ \E k \in 1 .. clock + 1 : Deadline(t)' = Deadline(t) + k * interval[t]
               /\ Deadline(t)' - interval[t] <= clock
    <3>1. interval[t] \in Nat /\ interval[t] > 0
      BY <2>1, <2>8
    <3>2. Realigned(t)' = Realigned(t)
      BY <2>2, Zenon DEF Realigned
    <3>3. Deadline(t)' = Realigned(t)
      BY <2>1, <2>2, <2>4, <3>1, <3>2, Zenon DEF Deadline
    <3>4. /\ Realigned(t) \in now + 1 .. now + interval[t]
          /\ \E k \in 1 .. now + 1 : Realigned(t) = expires[t] + k * interval[t]
      BY <2>1, <3>1, RealignedIs, Zenon
    <3>5. Realigned(t) - interval[t] <= clock
      BY <3>1, <3>4
    <3>6. \A k \in 1 .. now + 1 : k \in 1 .. clock + 1
      OBVIOUS
    <3> QED BY <2>4, <3>3, <3>4, <3>5, <3>6, Zenon
  <2> HIDE DEF due
  <2>9. due[t] = expires[t] /\ due' = [due EXCEPT ![t] = due'[t]] /\ due'[t] = Deadline(t)'
    BY <2>1, <2>4, <2>5, <1>o, Zenon DEF due
  <2>10. \A u \in Timers : due[u] = Deadline(u)
    BY Zenon DEF due
  <2>11. due[t] # Off /\ due[t] <= clock
    BY <2>1, <2>9
  <2>12. \A u \in Timers : due[u] # Off => due[t] <= due[u]
    BY <2>1, <2>6, <2>10, Zenon
  <2>13. IF interval[t] = 0 THEN due'[t] = Off
         ELSE /\ \E k \in 1 .. clock + 1 : due'[t] = due[t] + k * interval[t]
              /\ due'[t] - interval[t] <= clock
    BY <2>4, <2>7, <2>8, <2>9, Zenon
  <2> QED BY <2>2, <2>3, <2>9, <2>11, <2>12, <2>13, Zenon DEF Promise!Fire, Promise!Armed, due
<1>5. ASSUME NEW t \in Timers, t = cur, CallbackReturns PROVE Promise!Return
  <2>1. /\ pc = "callback" /\ cur' = NoTimer
        /\ UNCHANGED <<clock, now, interval, active, pending_delete>>
    BY <1>5, Zenon DEF CallbackReturns, TimerInv, Placed
  <2>2. OnlyOf(t) /\ Deadline(t)' = Deadline(t)
    <3>1. CASE active[t] = 1 /\ pending_delete[t] = 0 /\ interval[t] > 0
      <4> DEFINE e == Realigned(t)
      <4>1. expires[t] <= now
        BY <1>5, <2>1, Zenon DEF TimerInv, Placed
      <4>2. e \in Nat
        BY <2>1, <3>1, <4>1, RealignedIs
      <4>3. expires' = [expires EXCEPT ![t] = e] /\ list' = timer_list_insert(list, t, e)
        BY <3>1, <1>5, Zenon DEF CallbackReturns
      <4>4. Deadline(t) = e
        BY <2>1, <3>1, <1>5, DeadlineIs, Zenon
      <4> HIDE DEF e
      <4>5. Linked' = Linked \cup {t}
        BY <4>2, <4>3, <1>5, <2>1, <1>l, <1>t, InsertInOrder, Zenon DEF TimerInv
      <4>6. Deadline(t)' = e
        BY <2>1, <3>1, <4>3, <4>5, Zenon DEF Deadline
      <4>7. ASSUME NEW u \in Timers \ {t} PROVE Deadline(u)' = Deadline(u)
        BY <2>1, <4>3, <4>5, <1>5, DeadlineKept, Zenon
      <4> QED BY <4>4, <4>6, <4>7, Zenon DEF OnlyOf
    <3>2. CASE ~(active[t] = 1 /\ pending_delete[t] = 0 /\ interval[t] > 0)
      <4>1. ~(active[t] = 1 /\ interval[t] > 0)
        BY <1>5, <3>2, <2>1, <1>t, Zenon DEF TimerInv, Marked
      <4>2. UNCHANGED <<expires, list>> /\ Linked' = Linked
        BY <3>2, <1>5, <1>l, Zenon DEF CallbackReturns
      <4>3. Deadline(t) = Off
        BY <2>1, <4>1, <1>5, DeadlineIs, Zenon
      <4>4. Deadline(t)' = Off
        BY <1>5, <2>1, <4>2, <1>t, Zenon DEF Deadline
      <4>5. ASSUME NEW u \in Timers \ {t} PROVE Deadline(u)' = Deadline(u)
        BY <2>1, <4>2, <1>5, DeadlineKept, Zenon
      <4> QED BY <4>3, <4>4, <4>5, SMTT(30) DEF OnlyOf
    <3> QED BY <3>1, <3>2, Zenon
  <2>3. \A u \in Timers : Deadline(u)' = Deadline(u)
    BY <2>2, Zenon DEF OnlyOf
  <2> QED BY <1>5, <2>1, <2>3, Zenon DEF Promise!Return
<1>6. CASE Tick
  <2>1. \A t \in Timers : Deadline(t)' = Deadline(t)
    BY <1>6, <1>l, DeadlineKept, Zenon DEF Tick
  <2>2. Promise!Tick
    BY <1>6, <2>1, Zenon DEF Tick, Promise!Tick
  <2> QED BY <2>2, Zenon DEF Promise!Next
<1>7. CASE BeginPass \/ EndPass \/ Dispatch \/ EndDispatch \/ UNCHANGED vars
  <2>1. /\ UNCHANGED <<clock, list, expires, interval, active, cur>>
        /\ cur \in Timers => now' = now
    BY <1>7, Zenon DEF BeginPass, EndPass, Dispatch, EndDispatch, vars, TimerInv, Placed
  <2>2. \A t \in Timers : Deadline(t)' = Deadline(t)
    BY <2>1, <1>l, DeadlineKept, Zenon
  <2> QED BY <2>1, <2>2, <1>s, Zenon
<1>8. FreeCancelled \/ CallBack => Head(list) \in Timers
  BY <1>h, Zenon DEF FreeCancelled, CallBack, Expired
<1>9. CallbackReturns => cur \in Timers
  BY Zenon DEF CallbackReturns, TimerInv, Placed
<1>10. ASSUME NEW t \in Timers, Promise!Arm(t) \/ Promise!Disarm(t) \/ Promise!Fire(t)
       PROVE  Promise!Next
  BY <1>10, Zenon DEF Promise!Next
<1>11. CASE FreeCancelled
  BY <1>3, <1>8, <1>11, Zenon
<1>12. CASE CallBack
  BY <1>4, <1>8, <1>10, <1>12, Zenon
<1>13. CASE CallbackReturns
  BY <1>5, <1>9, <1>13, Zenon DEF Promise!Next
<1> QED BY <1>1, <1>2, <1>6, <1>7, <1>10, <1>11, <1>12, <1>13, Zenon DEF Next, Loop, Callers

\* The reactor implements TimerService: armed timers call back in the order of
\* their deadlines and not before, once or on their grid, and a cancelled timer
\* never does (process_expired_timers).
THEOREM PromiseKept == Spec => KeepsPromise
<1>1. Init => Promise!Init
  <2> SUFFICES ASSUME Init PROVE Promise!Init
    BY Zenon
  <2>1. \A t \in Timers : Deadline(t) = Off
    BY TimerAssumption, TimersInit, DeadlineIs DEF Init, Linked, Range
  <2> QED BY <2>1, Zenon DEF Init, Promise!Init
<1>2. TimerInv /\ TimerInv' /\ [Next]_vars => [Promise!Next]_(Promise!vars)
  BY PromiseStep, Zenon
<1> QED BY <1>1, <1>2, TimersInit, TimersStep, PTL DEF Spec, KeepsPromise, Promise!Spec

=============================================================================
