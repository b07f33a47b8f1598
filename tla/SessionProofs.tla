--------------------------- MODULE SessionProofs ----------------------------
(***************************************************************************)
(* Proofs for the sessions: no freed session is used and every count is     *)
(* exact, no unit is lost, and none is leaked by the cleanup.  The invariant *)
(* has three parts.  RefInv says who holds a session in each of its states,  *)
(* and that the count is their number.  DataInv says where its units are.    *)
(* CleanupInv says what the steps of the cleanup have already done.          *)
(* Every step is shown to move its sessions along valid transitions and to   *)
(* a new count that its references add up to, without passing zero before    *)
(* the last of them (Ends, Goes, TouchedEnds); what remains is one session   *)
(* at a time.                                                               *)
(***************************************************************************)
EXTENDS Session, TLAPS

Both == {"in", "out"}

(* Who has a session in each of its states. *)
Held(s) ==
    /\ state(s) \notin {"DRAINING", "CLOSING"}
    /\ handlers[s] \in {{}, Both}
    /\ s \in registry <=> Open(s)
    /\ handlers[s] # {} => state(s) \in {"ACTIVE", "PIPE_DIRTY"}
    /\ s \in gc_queue => state(s) = "DESTROY_PENDING"
    /\ s \in owners => state(s) \notin {"NONE", "DESTROYED"}
    /\ s \in freed <=> state(s) = "DESTROYED"
    /\ state(s) = "DESTROY_PENDING" => s \in owners \cup gc_queue

(* The number of those who have it. *)
Holders(s) == One(s \in owners) + One(s \in registry)
              + (IF handlers[s] = {} THEN 0 ELSE 2) + One(s \in gc_queue)

(* A path through the state machine of session.c. *)
Valid(w) == /\ w \in Seq(States) \ {<<>>}
            /\ \A i \in 1 .. Len(w) - 1 : <<w[i], w[i + 1]>> \in ValidTransitions

LastOf(w) == w[Len(w)]

RefTypes ==
    /\ walk \in [Sessions -> Seq(States) \ {<<>>}] /\ ref \in [Sessions -> Nat]
    /\ owners \in SUBSET Sessions /\ registry \in SUBSET Sessions
    /\ gc_queue \in SUBSET Sessions /\ freed \in SUBSET Sessions
    /\ handlers \in [Sessions -> SUBSET Both]

RefInv ==
    /\ RefTypes /\ touched = 0
    /\ \A s \in Sessions : Held(s) /\ ref[s] = Holders(s) /\ Valid(walk[s])

(* What is left to do in the cleanup. *)
CleanupInv ==
    /\ phase \in {"run", "drained", "collected", "end"}
    /\ undrained \in {0, 1} /\ vpn \in {0, 1}
    /\ phase # "run" /\ undrained = 0 => registry = {}
    /\ phase \in {"collected", "end"} => gc_queue = {}
    /\ phase = "end" => \A s \in Sessions : handlers[s] = {}

(* The data of a session: none before it is created; the record never says
   less than the pipe has, and no session but a dirty one has any.         *)
Fresh(s) == src[s] = 0 /\ arrived[s] = 0 /\ out[s] = 0 /\ pipe[s] = 0 /\ pipe_pending[s] = 0
            /\ wr[s] = 0

Recorded(s) ==
    /\ pipe[s] <= pipe_pending[s]
    /\ state(s) # "PIPE_DIRTY" => pipe_pending[s] = 0

Conserved(s) ==
    /\ src[s] + pipe[s] + out[s] = arrived[s]
    /\ pipe[s] = pipe_pending[s]
    /\ (pipe[s] > 0) <=> (state(s) = "PIPE_DIRTY")
    /\ (wr[s] = 1) <=> (state(s) = "PIPE_DIRTY")

DataTypes ==
    /\ src \in [Sessions -> Nat] /\ arrived \in [Sessions -> Nat] /\ out \in [Sessions -> Nat]
    /\ pipe \in [Sessions -> 0 .. PipeSize] /\ pipe_pending \in [Sessions -> 0 .. PipeSize]
    /\ room \in [Sessions -> 0 .. SinkRoom] /\ wr \in [Sessions -> {0, 1}]
    /\ damaged \in SUBSET Sessions

DataOf(s) ==
    /\ state(s) = "NONE" => Fresh(s)
    /\ Open(s) => Recorded(s)
    /\ Open(s) /\ s \notin damaged => Conserved(s)

DataInv == DataTypes /\ \A s \in Sessions : DataOf(s)

SessionInv == RefInv /\ CleanupInv /\ DataInv

-----------------------------------------------------------------------------
(* Counting references. *)

(* What the lemmas use of cardinality: the sizes of no handlers and of both, and
   one element more.  The library's theorems on finite sets prove it below.  *)
Counts ==
    /\ Cardinality({}) = 0 /\ Cardinality(Both) = 2
    /\ \A n \in Nat : \A S \in SUBSET (1 .. n) :
           /\ Cardinality(S) \in Nat
           /\ Cardinality(S \cup {n + 1}) = Cardinality(S) + 1

\* The number of equal entries grows by one or not at all with each entry.
LEMMA CountStep ==
    ASSUME Counts, NEW ops, NEW n \in Nat, NEW op
    PROVE  /\ Count(ops, 0, op) = 0 /\ Count(ops, n, op) \in Nat
           /\ Count(ops, n + 1, op) = Count(ops, n, op) + One(ops[n + 1] = op)
<1> DEFINE S == {i \in 1 .. n : ops[i] = op}
<1>1. Cardinality(S) \in Nat /\ Cardinality(S \cup {n + 1}) = Cardinality(S) + 1
  <2>1. S \in SUBSET (1 .. n)
    BY Zenon
  <2> QED BY <2>1, Zenon DEF Counts
<1>2. {i \in 1 .. 0 : ops[i] = op} = {}
  OBVIOUS
<1>3. {i \in 1 .. n + 1 : ops[i] = op} = IF ops[n + 1] = op THEN S \cup {n + 1} ELSE S
  OBVIOUS
<1>4. Count(ops, 0, op) = 0
  BY <1>2, Zenon DEF Count, Counts
<1>5. Count(ops, n, op) = Cardinality(S)
  BY Zenon DEF Count
<1>6. Count(ops, n + 1, op) = IF ops[n + 1] = op THEN Cardinality(S) + 1 ELSE Cardinality(S)
  BY <1>1, <1>3, Zenon DEF Count
<1> HIDE DEF S
<1> QED BY <1>1, <1>4, <1>5, <1>6 DEF One

\* Each atpd_session_get adds one to the count, each put takes one away.
LEMMA AfterStep ==
    ASSUME Counts, NEW r \in Int, NEW ops, NEW n \in Nat, ops[n + 1] \in {1, -1}
    PROVE  /\ After(r, ops, 0) = r /\ After(r, ops, n) \in Int
           /\ After(r, ops, n + 1) = After(r, ops, n) + ops[n + 1]
<1>1. /\ Count(ops, 0, 1) = 0 /\ Count(ops, 0, -1) = 0
      /\ Count(ops, n, 1) \in Nat /\ Count(ops, n, -1) \in Nat
      /\ Count(ops, n + 1, 1) = Count(ops, n, 1) + One(ops[n + 1] = 1)
      /\ Count(ops, n + 1, -1) = Count(ops, n, -1) + One(ops[n + 1] = -1)
  BY CountStep
<1> QED BY <1>1 DEF After, One

(* A count of r ends as f and is zero at no point before. *)
Ends(r, ops, f) == After(r, ops, Len(ops)) = f /\ ~FreedEarly(r, ops)

\* The counts along a sequence of gets and puts.
LEMMA Sums ==
    ASSUME Counts, NEW r \in Int, NEW ops, NEW k \in 1 .. 8, \A i \in 1 .. k : ops[i] \in {1,
    -1}
    PROVE  /\ After(r, ops, 1) = r + ops[1]
           /\ k >= 2 => After(r, ops, 2) = After(r, ops, 1) + ops[2]
           /\ k >= 3 => After(r, ops, 3) = After(r, ops, 2) + ops[3]
           /\ k >= 4 => After(r, ops, 4) = After(r, ops, 3) + ops[4]
           /\ k >= 5 => After(r, ops, 5) = After(r, ops, 4) + ops[5]
           /\ k >= 6 => After(r, ops, 6) = After(r, ops, 5) + ops[6]
           /\ k >= 7 => After(r, ops, 7) = After(r, ops, 6) + ops[7]
           /\ k >= 8 => After(r, ops, 8) = After(r, ops, 7) + ops[8]
           /\ \A n \in 1 .. k : After(r, ops, n) \in Int
<1>1. ASSUME NEW n \in 0 .. 7, n + 1 <= k
      PROVE  /\ After(r, ops, 0) = r /\ After(r, ops, n) \in Int
             /\ After(r, ops, n + 1) = After(r, ops, n) + ops[n + 1]
  <2>1. ops[n + 1] \in {1, -1} /\ n \in Nat
    BY <1>1
  <2> QED BY <2>1, AfterStep, Zenon
<1>2. After(r, ops, 1) = After(r, ops, 0) + ops[1]
  <2>1. 0 + 1 = 1 /\ 0 \in 0 .. 7 /\ 0 + 1 = 1
    OBVIOUS
  <2> QED BY <1>1, <2>1
<1>3. k >= 2 => After(r, ops, 2) = After(r, ops, 1) + ops[2]
  <2>1. 0 + 1 = 1 /\ 1 \in 0 .. 7 /\ 1 + 1 = 2
    OBVIOUS
  <2> QED BY <1>1, <2>1, Zenon
<1>4. k >= 3 => After(r, ops, 3) = After(r, ops, 2) + ops[3]
  <2>1. 0 + 1 = 1 /\ 2 \in 0 .. 7 /\ 2 + 1 = 3
    OBVIOUS
  <2> QED BY <1>1, <2>1, Zenon
<1>5. k >= 4 => After(r, ops, 4) = After(r, ops, 3) + ops[4]
  <2>1. 0 + 1 = 1 /\ 3 \in 0 .. 7 /\ 3 + 1 = 4
    OBVIOUS
  <2> QED BY <1>1, <2>1, Zenon
<1>6. k >= 5 => After(r, ops, 5) = After(r, ops, 4) + ops[5]
  <2>1. 0 + 1 = 1 /\ 4 \in 0 .. 7 /\ 4 + 1 = 5
    OBVIOUS
  <2> QED BY <1>1, <2>1, Zenon
<1>7. k >= 6 => After(r, ops, 6) = After(r, ops, 5) + ops[6]
  <2>1. 0 + 1 = 1 /\ 5 \in 0 .. 7 /\ 5 + 1 = 6
    OBVIOUS
  <2> QED BY <1>1, <2>1, Zenon
<1>8. k >= 7 => After(r, ops, 7) = After(r, ops, 6) + ops[7]
  <2>1. 0 + 1 = 1 /\ 6 \in 0 .. 7 /\ 6 + 1 = 7
    OBVIOUS
  <2> QED BY <1>1, <2>1, Zenon
<1>9. k >= 8 => After(r, ops, 8) = After(r, ops, 7) + ops[8]
  <2>1. 0 + 1 = 1 /\ 7 \in 0 .. 7 /\ 7 + 1 = 8
    OBVIOUS
  <2> QED BY <1>1, <2>1, Zenon
<1>10. ASSUME NEW n \in 1 .. k PROVE After(r, ops, n) \in Int
  <2>1. n - 1 \in 0 .. 7 /\ (n - 1) + 1 = n /\ ops[n] \in {1, -1}
    OBVIOUS
  <2> QED BY <1>1, <2>1
<1> QED BY <1>1, <1>2, <1>3, <1>4, <1>5, <1>6, <1>7, <1>8, <1>9, <1>10

\* Two references that are kept: a new session, or one registered.
LEMMA EndsTaken ==
    ASSUME Counts, NEW r \in Nat, r >= 0
    PROVE  Ends(r, <<1, 1>>, r + 2)
<1> DEFINE ops == <<1, 1>>
<1>1. Len(ops) = 2 /\ ops[1] = 1 /\ ops[2] = 1
  BY Zenon
<1>2. \A i \in 1 .. 2 : ops[i] \in {1, -1}
  OBVIOUS
<1> HIDE DEF ops
<1>3. Ends(r, ops, r + 2)
  BY <1>1, <1>2, Sums DEF Ends, FreedEarly
<1> QED BY <1>3, Zenon DEF ops

\* A reference for the time of a callback.
LEMMA EndsAlike ==
    ASSUME Counts, NEW r \in Nat, r >= 0
    PROVE  Ends(r, <<1, -1>>, r)
<1> DEFINE ops == <<1, -1>>
<1>1. Len(ops) = 2 /\ ops[1] = 1 /\ ops[2] = -1
  BY Zenon
<1>2. \A i \in 1 .. 2 : ops[i] \in {1, -1}
  OBVIOUS
<1> HIDE DEF ops
<1>3. Ends(r, ops, r)
  BY <1>1, <1>2, Sums DEF Ends, FreedEarly
<1> QED BY <1>3, Zenon DEF ops

\* Two references taken and given back when the second handler is refused.
LEMMA EndsGivenBack ==
    ASSUME Counts, NEW r \in Nat, r >= 0
    PROVE  Ends(r, <<1, 1, -1, -1>>, r)
<1> DEFINE ops == <<1, 1, -1, -1>>
<1>1. Len(ops) = 4 /\ ops[1] = 1 /\ ops[2] = 1 /\ ops[3] = -1 /\ ops[4] = -1
  BY Zenon
<1>2. \A i \in 1 .. 4 : ops[i] \in {1, -1}
  OBVIOUS
<1> HIDE DEF ops
<1>3. Ends(r, ops, r)
  BY <1>1, <1>2, Sums DEF Ends, FreedEarly
<1> QED BY <1>3, Zenon DEF ops

\* A reference that is dropped.
LEMMA EndsDropped ==
    ASSUME Counts, NEW r \in Nat, r >= 1
    PROVE  Ends(r, <<-1>>, r - 1)
<1> DEFINE ops == <<-1>>
<1>1. Len(ops) = 1 /\ ops[1] = -1
  BY Zenon
<1>2. \A i \in 1 .. 1 : ops[i] \in {1, -1}
  OBVIOUS
<1> HIDE DEF ops
<1>3. Ends(r, ops, r - 1)
  BY <1>1, <1>2, Sums DEF Ends, FreedEarly
<1> QED BY <1>3, Zenon DEF ops

\* The references of both handlers.
LEMMA EndsTwoDropped ==
    ASSUME Counts, NEW r \in Nat, r >= 2
    PROVE  Ends(r, <<-1, -1>>, r - 2)
<1> DEFINE ops == <<-1, -1>>
<1>1. Len(ops) = 2 /\ ops[1] = -1 /\ ops[2] = -1
  BY Zenon
<1>2. \A i \in 1 .. 2 : ops[i] \in {1, -1}
  OBVIOUS
<1> HIDE DEF ops
<1>3. Ends(r, ops, r - 2)
  BY <1>1, <1>2, Sums DEF Ends, FreedEarly
<1> QED BY <1>3, Zenon DEF ops

\* A sequence of references followed by another.
LEMMA Joined ==
    ASSUME NEW S, NEW p \in Seq(S), NEW q \in Seq(S)
    PROVE  /\ p \o q \in Seq(S) /\ Len(p \o q) = Len(p) + Len(q)
           /\ \A i \in 1 .. Len(p) : (p \o q)[i] = p[i]
           /\ \A i \in Len(p) + 1 .. Len(p) + Len(q) : (p \o q)[i] = q[i - Len(p)]
  OBVIOUS

(* What ClosingRefs is for a session with k handlers. *)
Closes(k) == <<1>> \o Times(1, -1) \o Times(k, -1) \o <<1, -1>>

\* mark_closing drops the handlers' references and passes the registry's on to
\* the collector, by itself and inside a callback that holds one more; the
\* session is freed in neither.
LEMMA ClosesEnds ==
    ASSUME Counts, NEW k \in {0, 2}, NEW r \in Nat, r > k
    PROVE  Ends(r, Closes(k), r - k) /\ Ends(r, <<1>> \o Closes(k) \o <<-1>>, r - k)
<1> DEFINE G == {1, -1}
           u == <<1>>            v == <<-1>>          w == <<1, -1>>
           t == Times(1, -1)     h == Times(k, -1)
           a == u \o t           b == a \o h          c == b \o w
           d == u \o c           e == d \o v
<1>1. /\ u \in Seq(G) /\ Len(u) = 1 /\ u[1] = 1 /\ v \in Seq(G) /\ Len(v) = 1 /\ v[1] = -1
      /\ w \in Seq(G) /\ Len(w) = 2 /\ w[1] = 1 /\ w[2] = -1
  OBVIOUS
<1>2. /\ t \in Seq(G) /\ Len(t) = 1 /\ t[1] = -1
      /\ h \in Seq(G) /\ Len(h) = k /\ \A i \in 1 .. k : h[i] = -1
  BY DEF Times
<1>3. Closes(k) = c
  BY Zenon DEF Closes
<1> HIDE DEF G, u, v, w, t, h
<1>4. a \in Seq(G) /\ Len(a) = 2 /\ a[1] = 1 /\ a[2] = -1
  <2>0. u \in Seq(G) /\ t \in Seq(G)
    BY <1>1, <1>2, Zenon
  <2>1. /\ a \in Seq(G) /\ Len(a) = Len(u) + Len(t)
        /\ \A i \in 1 .. Len(u) : a[i] = u[i]
        /\ \A i \in Len(u) + 1 .. Len(u) + Len(t) : a[i] = t[i - Len(u)]
    BY <2>0, Joined, Zenon
  <2> HIDE DEF a
  <2> QED BY <1>1, <1>2, <2>1
<1> HIDE DEF a
<1>5. /\ b \in Seq(G) /\ Len(b) = k + 2 /\ b[1] = 1 /\ b[2] = -1
      /\ k = 2 => b[3] = -1 /\ b[4] = -1
  <2>0. a \in Seq(G) /\ h \in Seq(G)
    BY <1>2, <1>4, Zenon
  <2>1. /\ b \in Seq(G) /\ Len(b) = Len(a) + Len(h)
        /\ \A i \in 1 .. Len(a) : b[i] = a[i]
        /\ \A i \in Len(a) + 1 .. Len(a) + Len(h) : b[i] = h[i - Len(a)]
    BY <2>0, Joined, Zenon
  <2> HIDE DEF b
  <2> QED BY <1>2, <1>4, <2>1
<1> HIDE DEF b
<1>6. /\ c \in Seq(G) /\ Len(c) = k + 4 /\ c[1] = 1 /\ c[2] = -1
      /\ k = 0 => c[3] = 1 /\ c[4] = -1
      /\ k = 2 => c[3] = -1 /\ c[4] = -1 /\ c[5] = 1 /\ c[6] = -1
  <2>0. b \in Seq(G) /\ w \in Seq(G)
    BY <1>1, <1>5, Zenon
  <2>1. /\ c \in Seq(G) /\ Len(c) = Len(b) + Len(w)
        /\ \A i \in 1 .. Len(b) : c[i] = b[i]
        /\ \A i \in Len(b) + 1 .. Len(b) + Len(w) : c[i] = w[i - Len(b)]
    BY <2>0, Joined, Zenon
  <2> HIDE DEF c
  <2> QED BY <1>1, <1>5, <2>1
<1> HIDE DEF c
<1>7. /\ d \in Seq(G) /\ Len(d) = k + 5 /\ d[1] = 1 /\ d[2] = 1 /\ d[3] = -1
      /\ k = 0 => d[4] = 1 /\ d[5] = -1
      /\ k = 2 => d[4] = -1 /\ d[5] = -1 /\ d[6] = 1 /\ d[7] = -1
  <2>0. u \in Seq(G) /\ c \in Seq(G)
    BY <1>1, <1>6, Zenon
  <2>1. /\ d \in Seq(G) /\ Len(d) = Len(u) + Len(c)
        /\ \A i \in 1 .. Len(u) : d[i] = u[i]
        /\ \A i \in Len(u) + 1 .. Len(u) + Len(c) : d[i] = c[i - Len(u)]
    BY <2>0, Joined, Zenon
  <2> HIDE DEF d
  <2> QED BY <1>1, <1>6, <2>1
<1> HIDE DEF d
<1>8. /\ e \in Seq(G) /\ Len(e) = k + 6 /\ e[1] = 1 /\ e[2] = 1 /\ e[3] = -1
      /\ k = 0 => e[4] = 1 /\ e[5] = -1 /\ e[6] = -1
      /\ k = 2 => e[4] = -1 /\ e[5] = -1 /\ e[6] = 1 /\ e[7] = -1 /\ e[8] = -1
  <2>0. d \in Seq(G) /\ v \in Seq(G)
    BY <1>1, <1>7, Zenon
  <2>1. /\ e \in Seq(G) /\ Len(e) = Len(d) + Len(v)
        /\ \A i \in 1 .. Len(d) : e[i] = d[i]
        /\ \A i \in Len(d) + 1 .. Len(d) + Len(v) : e[i] = v[i - Len(d)]
    BY <2>0, Joined, Zenon
  <2> HIDE DEF e
  <2> QED BY <1>1, <1>7, <2>1
<1> HIDE DEF e
<1>9. Ends(r, c, r - k)
  <2>1. \A i \in 1 .. k + 4 : c[i] \in G
    BY <1>6 DEF G
  <2>3. CASE k = 0
    <3>1. Len(c) = 4 /\ 4 \in 1 .. 8 /\ \A i \in 1 .. 4 : c[i] \in {1, -1}
      BY <1>6, <2>1, <2>3 DEF G
    <3>2. /\ After(r, c, 1) = r + 1 /\ After(r, c, 2) = r /\ After(r, c, 3) = r + 1
          /\ After(r, c, 4) = r
      BY <1>6, <2>3, <3>1, Sums
    <3> QED BY <2>3, <3>1, <3>2 DEF Ends, FreedEarly
  <2>4. CASE k = 2
    <3>1. Len(c) = 6 /\ 6 \in 1 .. 8 /\ \A i \in 1 .. 6 : c[i] \in {1, -1}
      BY <1>6, <2>1, <2>4 DEF G
    <3>2. /\ After(r, c, 1) = r + c[1] /\ After(r, c, 2) = After(r, c, 1) + c[2]
          /\ After(r, c, 3) = After(r, c, 2) + c[3] /\ After(r, c, 4) = After(r, c, 3) + c[4]
          /\ After(r, c, 5) = After(r, c, 4) + c[5] /\ After(r, c, 6) = After(r, c, 5) + c[6]
      BY <3>1, Sums
    <3>3. /\ After(r, c, 1) = r + 1 /\ After(r, c, 2) = r /\ After(r, c, 3) = r - 1
          /\ After(r, c, 4) = r - 2 /\ After(r, c, 5) = r - 1 /\ After(r, c, 6) = r - 2
      BY <1>6, <2>4, <3>2
    <3> QED BY <2>4, <3>1, <3>3 DEF Ends, FreedEarly
  <2> QED BY <2>3, <2>4, Zenon
<1>10. Ends(r, e, r - k)
  <2>1. \A i \in 1 .. k + 6 : e[i] \in G
    BY <1>8 DEF G
  <2>3. CASE k = 0
    <3>1. Len(e) = 6 /\ 6 \in 1 .. 8 /\ \A i \in 1 .. 6 : e[i] \in {1, -1}
      BY <1>8, <2>1, <2>3 DEF G
    <3>2. /\ After(r, e, 1) = r + 1 /\ After(r, e, 2) = r + 2 /\ After(r, e, 3) = r + 1
          /\ After(r, e, 4) = r + 2 /\ After(r, e, 5) = r + 1 /\ After(r, e, 6) = r
      BY <1>8, <2>3, <3>1, Sums
    <3> QED BY <2>3, <3>1, <3>2 DEF Ends, FreedEarly
  <2>4. CASE k = 2
    <3>1. Len(e) = 8 /\ 8 \in 1 .. 8 /\ \A i \in 1 .. 8 : e[i] \in {1, -1}
      BY <1>8, <2>1, <2>4 DEF G
    <3>2. /\ After(r, e, 1) = r + e[1] /\ After(r, e, 2) = After(r, e, 1) + e[2]
          /\ After(r, e, 3) = After(r, e, 2) + e[3] /\ After(r, e, 4) = After(r, e, 3) + e[4]
          /\ After(r, e, 5) = After(r, e, 4) + e[5] /\ After(r, e, 6) = After(r, e, 5) + e[6]
          /\ After(r, e, 7) = After(r, e, 6) + e[7] /\ After(r, e, 8) = After(r, e, 7) + e[8]
      BY <3>1, Sums
    <3>3. /\ After(r, e, 1) = r + 1 /\ After(r, e, 2) = r + 2 /\ After(r, e, 3) = r + 1
          /\ After(r, e, 4) = r /\ After(r, e, 5) = r - 1 /\ After(r, e, 6) = r
          /\ After(r, e, 7) = r - 1 /\ After(r, e, 8) = r - 2
      BY <1>8, <2>4, <3>2
    <3> QED BY <2>4, <3>1, <3>3 DEF Ends, FreedEarly
  <2> QED BY <2>3, <2>4, Zenon
<1>11. e = <<1>> \o c \o <<-1>>
  BY Zenon DEF e, d, u, v
<1> QED BY <1>3, <1>9, <1>10, <1>11, Zenon

-----------------------------------------------------------------------------
(* Paths through the state machine. *)

(* From state a, a session goes through the states st and ends in e. *)
Goes(a, st, e) ==
    /\ a \in States /\ st \in Seq(States)
    /\ st = <<>> => e = a
    /\ st # <<>> => /\ <<a, st[1]>> \in ValidTransitions /\ e = st[Len(st)]
                    /\ \A i \in 1 .. Len(st) - 1 : <<st[i], st[i + 1]>> \in ValidTransitions

\* The single transitions of session_set_state, and none at all.
LEMMA GoesOne ==
    ASSUME NEW a \in States
    PROVE  /\ Goes(a, <<>>, a)
           /\ \A b \in States : <<a, b>> \in ValidTransitions => Goes(a, <<b>>, b)
<1>1. Goes(a, <<>>, a)
  BY DEF Goes
<1>2. ASSUME NEW b \in States, <<a, b>> \in ValidTransitions
      PROVE  Goes(a, <<b>>, b)
  <2> DEFINE st == <<b>>
  <2>1. st \in Seq(States) /\ st # <<>> /\ st[1] = b /\ Len(st) = 1
    OBVIOUS
  <2> HIDE DEF st
  <2>2. Goes(a, st, b)
    BY <1>2, <2>1 DEF Goes
  <2> QED BY <2>2, Zenon DEF st
<1> QED BY <1>1, <1>2, Zenon

\* Two transitions in a row.
LEMMA GoesTwo ==
    ASSUME NEW a \in States, NEW b \in States, NEW c \in States,
           <<a, b>> \in ValidTransitions, <<b, c>> \in ValidTransitions
    PROVE  Goes(a, <<b, c>>, c)
<1> DEFINE st == <<b, c>>
<1>1. st \in Seq(States) /\ st # <<>> /\ Len(st) = 2 /\ st[1] = b /\ st[2] = c
  OBVIOUS
<1> HIDE DEF st
<1>2. ASSUME NEW i \in 1 .. Len(st) - 1 PROVE <<st[i], st[i + 1]>> \in ValidTransitions
  <2>1. i = 1
    BY <1>1
  <2> QED BY <1>1, <2>1
<1>3. Goes(a, st, c)
  BY <1>1, <1>2, Zenon DEF Goes
<1> QED BY <1>3, Zenon DEF st

\* One path after another is a path.
LEMMA GoesOn ==
    ASSUME NEW a, NEW b, NEW e, NEW p, NEW q, Goes(a, p, b), Goes(b, q, e)
    PROVE  Goes(a, p \o q, e)
<1>1. a \in States /\ p \in Seq(States) /\ q \in Seq(States)
  BY Zenon DEF Goes
<1>2. CASE p = <<>>
  <2>1. p \o q = q /\ a = b
    BY <1>1, <1>2 DEF Goes
  <2> QED BY <2>1, Zenon
<1>3. CASE q = <<>>
  <2>1. p \o q = p /\ e = b
    BY <1>1, <1>3 DEF Goes
  <2> QED BY <2>1, Zenon
<1>4. CASE p # <<>> /\ q # <<>>
  <2> DEFINE r == p \o q
             m == Len(p)
             n == Len(q)
  <2>1. /\ r \in Seq(States) /\ Len(r) = m + n /\ m \in Nat \ {0} /\ n \in Nat \ {0}
        /\ \A i \in 1 .. m : r[i] = p[i]
        /\ \A i \in m + 1 .. m + n : r[i] = q[i - m]
    BY <1>1, <1>4, Joined
  <2>2. /\ <<a, p[1]>> \in ValidTransitions /\ b = p[m]
        /\ \A i \in 1 .. m - 1 : <<p[i], p[i + 1]>> \in ValidTransitions
        /\ <<b, q[1]>> \in ValidTransitions /\ e = q[n]
        /\ \A i \in 1 .. n - 1 : <<q[i], q[i + 1]>> \in ValidTransitions
    BY <1>4, Zenon DEF Goes
  <2> HIDE DEF r, m, n
  <2>3. r # <<>> /\ r[1] = p[1] /\ r[m + n] = e
    BY <2>1, <2>2
  <2>4. ASSUME NEW i \in 1 .. m + n - 1
        PROVE  <<r[i], r[i + 1]>> \in ValidTransitions
    <3>1. CASE i < m
      <4>1. i \in 1 .. m - 1 /\ r[i] = p[i] /\ r[i + 1] = p[i + 1]
        BY <2>1, <3>1
      <4> QED BY <2>2, <4>1, Zenon
    <3>2. CASE i = m
      <4>1. r[i] = b /\ r[i + 1] = q[1]
        BY <2>1, <2>2, <3>2
      <4> QED BY <2>2, <4>1, Zenon
    <3>3. CASE i > m
      <4>1. /\ i - m \in 1 .. n - 1 /\ (i - m) + 1 = (i + 1) - m
            /\ r[i] = q[i - m] /\ r[i + 1] = q[(i + 1) - m]
        BY <2>1, <3>3
      <4>2. r[i] = q[i - m] /\ r[i + 1] = q[(i - m) + 1]
        BY <4>1, Zenon
      <4> QED BY <2>2, <4>1, <4>2, Zenon
    <3> QED BY <2>1, <3>1, <3>2, <3>3
  <2>5. Goes(a, r, e)
    BY <1>1, <2>1, <2>2, <2>3, <2>4 DEF Goes
  <2> QED BY <2>5, Zenon DEF r
<1> QED BY <1>2, <1>3, <1>4, Zenon

\* What is written down for a step that takes a path.
LEMMA GoesWalk ==
    ASSUME NEW a, NEW st, NEW e, Goes(a, st, e)
    PROVE  /\ Valid(<<a>> \o st \o <<>>) /\ LastOf(<<a>> \o st \o <<>>) = e
           /\ Valid(<<a>>) /\ LastOf(<<a>>) = a
<1> DEFINE u == <<a>>
           w == u \o st
<1>1. /\ a \in States /\ st \in Seq(States) /\ u \in Seq(States) /\ Len(u) = 1 /\ u[1] = a
      /\ u # <<>>
  BY DEF Goes
<1> HIDE DEF u
<1>2. /\ w \in Seq(States) /\ Len(w) = Len(st) + 1 /\ w[1] = a /\ w # <<>>
      /\ \A i \in 2 .. Len(w) : w[i] = st[i - 1]
  <2>1. /\ w \in Seq(States) /\ Len(w) = Len(u) + Len(st)
        /\ \A i \in 1 .. Len(u) : w[i] = u[i]
        /\ \A i \in Len(u) + 1 .. Len(u) + Len(st) : w[i] = st[i - Len(u)]
    BY <1>1, Joined, Zenon
  <2> HIDE DEF w
  <2> QED BY <1>1, <2>1
<1>3. w \o <<>> = w
  BY <1>2
<1> HIDE DEF w
<1>4. w[Len(w)] = e
  BY <1>1, <1>2 DEF Goes
<1>5. ASSUME NEW i \in 1 .. Len(w) - 1
      PROVE  <<w[i], w[i + 1]>> \in ValidTransitions
  <2>1. st # <<>> /\ w[i + 1] = st[i]
    BY <1>1, <1>2
  <2>2. CASE i = 1
    BY <1>2, <2>1, <2>2, Zenon DEF Goes
  <2>3. CASE i # 1
    <3>1. i - 1 \in 1 .. Len(st) - 1 /\ (i - 1) + 1 = i /\ w[i] = st[i - 1]
      BY <1>1, <1>2, <2>3
    <3>2. <<st[i - 1], st[(i - 1) + 1]>> \in ValidTransitions
      BY <2>1, <3>1, Zenon DEF Goes
    <3> QED BY <2>1, <3>1, <3>2, Zenon
  <2> QED BY <2>2, <2>3, Zenon
<1>6. Valid(w) /\ LastOf(w) = e
  BY <1>2, <1>4, <1>5, Zenon DEF Valid, LastOf
<1>7. Valid(u) /\ LastOf(u) = a
  BY <1>1 DEF Valid, LastOf
<1> QED BY <1>3, <1>6, <1>7, Zenon DEF w, u

-----------------------------------------------------------------------------
(* One step on sessions. *)

(* Touch with functions for what it takes as operators, so that it can be spoken
   about: O[s] are the references and W[s] the states of s.                *)
Touched(S, O, W) ==
    LET final(s) == After(ref[s], O[s], Len(O[s]))
    IN  /\ ref' = [s \in Sessions |-> IF s \in S THEN final(s) ELSE ref[s]]
        /\ freed' = freed \cup {s \in S : final(s) = 0}
        /\ touched' = IF \E s \in S : s \in freed \/ FreedEarly(ref[s], O[s])
                      THEN 1 ELSE touched
        /\ walk' = [s \in Sessions |->
               IF s \notin S THEN <<state(s)>>
               ELSE <<state(s)>> \o W[s]
                    \o (IF final(s) = 0 THEN <<"DESTROYED">> ELSE <<>>)]

(* What a step may do to s: it ends with a count of f and in state e, and is
   destroyed only if it was waiting for that and does nothing else.        *)
MayMove(s, ops, st, f, e) ==
    /\ s \notin freed /\ Ends(ref[s], ops, f) /\ f \in Nat
    /\ Goes(state(s), st, e) /\ e # "DESTROYED"
    /\ f = 0 => st = <<>> /\ e = "DESTROY_PENDING"

MayMoveAll(S, O, W, F, E) == \A s \in S : MayMove(s, O[s], W[s], F[s], E[s])

(* The step leaves s with a count of f in state e. *)
Ended(s, f, e) ==
    /\ ref'[s] = f /\ f \in Nat /\ Valid(walk'[s]) /\ state(s)' = e
    /\ s \in freed' <=> e = "DESTROYED"

Typed == /\ walk' \in [Sessions -> Seq(States) \ {<<>>}] /\ ref' \in [Sessions -> Nat]
         /\ freed' \in SUBSET Sessions /\ touched' = 0

Final(f, e) == IF f = 0 THEN "DESTROYED" ELSE e

\* A step that uses no freed session and drops no reference too many changes
\* the sessions it is about as intended, and no others.
LEMMA TouchedEnds ==
    ASSUME RefInv, NEW S \in SUBSET Sessions, NEW O, NEW W, NEW F, NEW E,
           MayMoveAll(S, O, W, F, E), Touched(S, O, W)
    PROVE  /\ Typed
           /\ \A s \in S : Ended(s, F[s], Final(F[s], E[s]))
           /\ \A s \in Sessions \ S : Ended(s, ref[s], state(s))
<1>1. /\ RefTypes /\ touched = 0
      /\ \A s \in Sessions : state(s) \in States /\ (s \in freed <=> state(s) = "DESTROYED")
  <2>1. ASSUME NEW s \in Sessions PROVE state(s) \in States
    <3>1. walk[s] \in Seq(States) /\ walk[s] # <<>>
      BY Zenon DEF RefInv, RefTypes
    <3> QED BY <3>1 DEF state
  <2> QED BY <2>1, Zenon DEF RefInv, Held
<1>2. ASSUME NEW s \in S
      PROVE  /\ After(ref[s], O[s], Len(O[s])) = F[s] /\ ~FreedEarly(ref[s], O[s])
             /\ F[s] \in Nat /\ s \notin freed /\ Goes(state(s), W[s], E[s])
             /\ E[s] # "DESTROYED" /\ (F[s] = 0 => W[s] = <<>> /\ E[s] = "DESTROY_PENDING")
  BY Zenon DEF MayMoveAll, MayMove, Ends
<1>3. touched' = 0
  BY <1>1, <1>2, Zenon DEF Touched
<1>4. /\ ref' = [s \in Sessions |-> IF s \in S THEN F[s] ELSE ref[s]]
      /\ freed' = freed \cup {s \in S : F[s] = 0}
      /\ walk' = [s \in Sessions |->
               IF s \notin S THEN <<state(s)>>
               ELSE <<state(s)>> \o W[s] \o (IF F[s] = 0 THEN <<"DESTROYED">> ELSE <<>>)]
  <2>1. ref' = [s \in Sessions |-> IF s \in S THEN F[s] ELSE ref[s]]
    BY <1>2, Zenon DEF Touched
  <2>2. freed' = freed \cup {s \in S : F[s] = 0}
    BY <1>2, Zenon DEF Touched
  <2>3. walk' = [s \in Sessions |->
               IF s \notin S THEN <<state(s)>>
               ELSE <<state(s)>> \o W[s] \o (IF F[s] = 0 THEN <<"DESTROYED">> ELSE <<>>)]
    BY <1>2, Zenon DEF Touched
  <2> QED BY <2>1, <2>2, <2>3, Zenon
<1>5. ASSUME NEW s \in S
      PROVE  Ended(s, F[s], Final(F[s], E[s]))
  <2>1. /\ walk'[s] = <<state(s)>> \o W[s] \o (IF F[s] = 0 THEN <<"DESTROYED">> ELSE <<>>)
        /\ ref'[s] = F[s] /\ (s \in freed' <=> F[s] = 0)
    BY <1>2, <1>4, Zenon
  <2>2. Valid(walk'[s]) /\ LastOf(walk'[s]) = Final(F[s], E[s])
    <3>1. CASE F[s] = 0
      <4>1. state(s) = "DESTROY_PENDING" /\ W[s] = <<>>
        BY <1>2, <3>1, Zenon DEF Goes
      <4> DEFINE w == <<"DESTROY_PENDING">> \o <<>> \o <<"DESTROYED">>
      <4>2. w \in Seq(States) /\ Len(w) = 2 /\ w[1] = "DESTROY_PENDING" /\ w[2] = "DESTROYED"
        BY DEF States
      <4>3. <<"DESTROY_PENDING", "DESTROYED">> \in ValidTransitions
        BY Zenon DEF ValidTransitions
      <4>4. walk'[s] = w
        BY <2>1, <3>1, <4>1, Zenon
      <4> HIDE DEF w
      <4>5. Valid(w) /\ LastOf(w) = "DESTROYED"
        <5>1. w # <<>>
          BY <4>2
        <5>2. ASSUME NEW i \in 1 .. Len(w) - 1
              PROVE  <<w[i], w[i + 1]>> \in ValidTransitions
          <6>1. i = 1
            BY <4>2
          <6> QED BY <4>2, <4>3, <6>1
        <5> QED BY <4>2, <5>1, <5>2, Zenon DEF Valid, LastOf
      <4> QED BY <3>1, <4>4, <4>5, Zenon DEF Final
    <3>2. CASE F[s] # 0
      <4>1. walk'[s] = <<state(s)>> \o W[s] \o <<>>
        BY <2>1, <3>2, Zenon
      <4> QED BY <1>2, <3>2, <4>1, GoesWalk DEF Final
    <3> QED BY <3>1, <3>2, Zenon
  <2> QED BY <1>2, <2>1, <2>2, Zenon DEF Ended, Final, state, LastOf
<1>6. ASSUME NEW s \in Sessions \ S
      PROVE  Ended(s, ref[s], state(s))
  <2>1. walk'[s] = <<state(s)>> /\ ref'[s] = ref[s] /\ (s \in freed' <=> s \in freed)
    BY <1>4, Zenon
  <2>2. Goes(state(s), <<>>, state(s))
    BY <1>1, GoesOne, Zenon
  <2>3. Valid(walk'[s]) /\ LastOf(walk'[s]) = state(s)
    BY <2>1, <2>2, GoesWalk, Zenon
  <2>4. ref[s] \in Nat
    BY <1>1, Zenon DEF RefTypes
  <2> QED BY <1>1, <2>1, <2>3, <2>4, Zenon DEF Ended, state, LastOf
<1>7. Typed
  <2>1. ref' \in [Sessions -> Nat] /\ freed' \in SUBSET Sessions
    BY <1>1, <1>2, <1>4, Zenon DEF RefTypes
  <2>2. \A s \in Sessions : walk'[s] \in Seq(States) \ {<<>>}
    BY <1>5, <1>6, Zenon DEF Ended, Valid
  <2>3. walk' \in [Sessions -> Seq(States) \ {<<>>}]
    BY <1>4, <2>2, Zenon
  <2> QED BY <1>3, <2>1, <2>3, Zenon DEF Typed
<1> QED BY <1>5, <1>6, <1>7, Zenon

\* The same for a step on one session.
LEMMA OneEnds ==
    ASSUME RefInv, NEW s \in Sessions, NEW ops, NEW st, NEW f, NEW e,
           MayMove(s, ops, st, f, e), Touched({s}, [x \in {s} |-> ops], [x \in {s} |-> st])
    PROVE  /\ Typed /\ Ended(s, f, Final(f, e))
           /\ \A x \in Sessions \ {s} : Ended(x, ref[x], state(x))
<1> DEFINE S == {s}
           O == [x \in S |-> ops]
           W == [x \in S |-> st]
           F == [x \in S |-> f]
           E == [x \in S |-> e]
<1>1. O[s] = ops /\ W[s] = st /\ F[s] = f /\ E[s] = e
  BY Zenon
<1>2. Touched(S, O, W)
  BY Zenon
<1> HIDE DEF O, W, F, E
<1>3. MayMoveAll(S, O, W, F, E)
  BY <1>1, Zenon DEF MayMoveAll
<1>4. S \in SUBSET Sessions
  BY Zenon
<1>5. /\ Typed /\ \A x \in S : Ended(x, F[x], Final(F[x], E[x]))
      /\ \A x \in Sessions \ S : Ended(x, ref[x], state(x))
  <2> HIDE DEF S
  <2> QED BY <1>2, <1>3, <1>4, TouchedEnds, Zenon
<1> QED BY <1>1, <1>5, Zenon

(* The invariant of one session, and its holders being the same as before. *)
Kept(s) == Held(s)' /\ ref'[s] = Holders(s)' /\ Valid(walk'[s])

Same(s) == /\ s \in owners' <=> s \in owners
           /\ s \in registry' <=> s \in registry
           /\ s \in gc_queue' <=> s \in gc_queue
           /\ handlers'[s] = handlers[s]

Held4 == /\ owners' \in SUBSET Sessions /\ registry' \in SUBSET Sessions
         /\ gc_queue' \in SUBSET Sessions /\ handlers' \in [Sessions -> SUBSET Both]

\* Together the sessions' invariants are the invariant.
LEMMA KeptAll ==
    ASSUME Typed, Held4, \A s \in Sessions : Kept(s)
    PROVE  RefInv'
  BY Zenon DEF Typed, Held4, Kept, RefInv, RefTypes

\* A session that a step leaves alone keeps its invariant.
LEMMA SameKept ==
    ASSUME RefInv, NEW s \in Sessions, Ended(s, ref[s], state(s)), Same(s)
    PROVE  Kept(s)
<1>1. Held(s) /\ ref[s] = Holders(s)
  BY Zenon DEF RefInv
<1>2. state(s)' = state(s) /\ ref'[s] = ref[s] /\ Valid(walk'[s])
      /\ (s \in freed' <=> state(s) = "DESTROYED")
  BY Zenon DEF Ended
<1>3. Held(s)'
  BY <1>1, <1>2, Zenon DEF Held, Open, Same
<1>4. Holders(s)' = Holders(s)
  BY Zenon DEF Holders, One, Same
<1> QED BY <1>1, <1>2, <1>3, <1>4, Zenon DEF Kept

(* Only s changes its state, to e. *)
OnlyMoves(s, e) == /\ RefInv' /\ state(s)' = e
                   /\ \A x \in Sessions \ {s} : state(x)' = state(x)

\* A step on one session whose own invariant is kept.
LEMMA OneKept ==
    ASSUME RefInv, NEW s \in Sessions, NEW ops, NEW st, NEW f, NEW e,
           MayMove(s, ops, st, f, e), Touched({s}, [x \in {s} |-> ops], [x \in {s} |-> st]),
           Held4, \A x \in Sessions \ {s} : Same(x),
           Ended(s, f, Final(f, e)) => Kept(s)
    PROVE  OnlyMoves(s, Final(f, e))
<1>1. /\ Typed /\ Ended(s, f, Final(f, e))
      /\ \A x \in Sessions \ {s} : Ended(x, ref[x], state(x))
  BY OneEnds, Zenon
<1>2. \A x \in Sessions \ {s} : Kept(x)
  BY <1>1, SameKept, Zenon
<1>3. \A x \in Sessions : Kept(x)
  BY <1>1, <1>2, Zenon
<1>4. RefInv'
  BY <1>1, <1>3, KeptAll, Zenon
<1>5. state(s)' = Final(f, e) /\ \A x \in Sessions \ {s} : state(x)' = state(x)
  BY <1>1, Zenon DEF Ended
<1> QED BY <1>4, <1>5, Zenon DEF OnlyMoves

-----------------------------------------------------------------------------
(* The steps on one session. *)

\* What the invariant says of a session in each state.
LEMMA Ref ==
    ASSUME RefInv, NEW s \in Sessions
    PROVE  /\ state(s) \in States /\ ref[s] \in Nat /\ Held(s) /\ ref[s] = Holders(s)
           /\ handlers \in [Sessions -> SUBSET Both]
           /\ owners \in SUBSET Sessions /\ registry \in SUBSET Sessions
           /\ gc_queue \in SUBSET Sessions
<1>1. walk[s] \in Seq(States) /\ walk[s] # <<>>
  BY Zenon DEF RefInv, RefTypes
<1>2. state(s) \in States
  BY <1>1 DEF state
<1> QED BY <1>2, Zenon DEF RefInv, RefTypes

\* A new session is held by its creator and the registry.
LEMMA CreateMoves ==
    ASSUME Counts, RefInv, NEW s \in Sessions, atpd_session_create(s)
    PROVE  OnlyMoves(s, "IDLE")
<1>1. /\ state(s) = "NONE" /\ owners' = owners \cup {s} /\ registry' = registry \cup {s}
      /\ gc_queue' = gc_queue /\ handlers' = handlers
  BY Zenon DEF atpd_session_create
<1>2. Touched({s}, [x \in {s} |-> <<1, 1>>], [x \in {s} |-> <<"IDLE">>])
  BY Zenon DEF atpd_session_create, Touch, Touched
<1>3. /\ ref[s] = 0 /\ s \notin freed /\ s \notin owners /\ s \notin gc_queue
      /\ handlers[s] = {}
  BY <1>1, Ref DEF Held, Open, Holders, One
<1>4. MayMove(s, <<1, 1>>, <<"IDLE">>, 2, "IDLE")
  <2>1. Ends(ref[s], <<1, 1>>, 2)
    BY <1>3, EndsTaken
  <2>2. Goes("NONE", <<"IDLE">>, "IDLE")
    BY GoesOne, Zenon DEF States, ValidTransitions
  <2> QED BY <1>1, <1>3, <2>1, <2>2 DEF MayMove
<1>5. Held4 /\ \A x \in Sessions \ {s} : Same(x)
  BY <1>1, Ref, Zenon DEF Held4, Same
<1>6. Ended(s, 2, Final(2, "IDLE")) => Kept(s)
  BY <1>1, <1>3 DEF Ended, Final, Kept, Held, Open, Holders, One
<1>7. Final(2, "IDLE") = "IDLE"
  BY DEF Final
<1>8. OnlyMoves(s, Final(2, "IDLE"))
  BY <1>2, <1>4, <1>5, <1>6, OneKept, Zenon
<1> QED BY <1>7, <1>8, Zenon

\* A failed registration gives back what it took.
LEMMA RegisterFailsMoves ==
    ASSUME Counts, RefInv, NEW s \in Sessions, RegisterFails(s)
    PROVE  OnlyMoves(s, "IDLE")
<1>1. /\ state(s) = "IDLE" /\ owners' = owners /\ registry' = registry
      /\ gc_queue' = gc_queue /\ handlers' = handlers
  BY Zenon DEF RegisterFails
<1>2. ref[s] \in Nat \ {0} /\ s \notin freed
  BY <1>1, Ref DEF Held, Open, Holders, One
<1>3. PICK ops \in {<<1, -1>>, <<1, 1, -1, -1>>} :
         Touched({s}, [x \in {s} |-> ops], [x \in {s} |-> <<>>])
  BY Zenon DEF RegisterFails, Touch, Touched
<1>4. MayMove(s, ops, <<>>, ref[s], "IDLE")
  <2>1. Ends(ref[s], ops, ref[s])
    BY <1>2, <1>3, EndsAlike, EndsGivenBack
  <2>2. Goes("IDLE", <<>>, "IDLE")
    BY GoesOne, Zenon DEF States
  <2> QED BY <1>1, <1>2, <2>1, <2>2, Zenon DEF MayMove
<1>5. Held4 /\ \A x \in Sessions : Same(x)
  BY <1>1, Ref, Zenon DEF Held4, Same
<1>6. Final(ref[s], "IDLE") = "IDLE"
  BY <1>2, Zenon DEF Final
<1>7. Ended(s, ref[s], Final(ref[s], "IDLE")) => Kept(s)
  BY <1>1, <1>5, <1>6, SameKept, Zenon
<1>8. OnlyMoves(s, Final(ref[s], "IDLE"))
  BY <1>3, <1>4, <1>5, <1>7, OneKept, Zenon
<1> QED BY <1>6, <1>8, Zenon

\* A registered session is held by both handlers too.
LEMMA RegisterMoves ==
    ASSUME Counts, RefInv, NEW s \in Sessions, atpd_session_register(s)
    PROVE  OnlyMoves(s, "ACTIVE")
<1>1. /\ state(s) = "IDLE" /\ s \in owners /\ owners' = owners /\ registry' = registry
      /\ gc_queue' = gc_queue /\ handlers' = [handlers EXCEPT ![s] = {"in", "out"}]
  BY Zenon DEF atpd_session_register
<1>2. Touched({s}, [x \in {s} |-> <<1, 1>>], [x \in {s} |-> <<"ACTIVE">>])
  BY Zenon DEF atpd_session_register, Touch, Touched
<1>3. /\ ref[s] \in Nat /\ s \notin freed /\ s \in registry /\ s \notin gc_queue
      /\ handlers[s] = {} /\ ref[s] = 2
  BY <1>1, Ref DEF Held, Open, Holders, One
<1>4. MayMove(s, <<1, 1>>, <<"ACTIVE">>, 4, "ACTIVE")
  <2>1. Ends(ref[s], <<1, 1>>, 4)
    BY <1>3, EndsTaken
  <2>2. Goes("IDLE", <<"ACTIVE">>, "ACTIVE")
    BY GoesOne, Zenon DEF States, ValidTransitions
  <2> QED BY <1>1, <1>3, <2>1, <2>2 DEF MayMove
<1>5. Held4 /\ \A x \in Sessions \ {s} : Same(x)
  BY <1>1, Ref, Zenon DEF Held4, Same, Both
<1>6. Ended(s, 4, Final(4, "ACTIVE")) => Kept(s)
  BY <1>1, <1>3, Ref DEF Ended, Final, Kept, Held, Open, Holders, One, Both
<1>7. Final(4, "ACTIVE") = "ACTIVE"
  BY DEF Final
<1>8. OnlyMoves(s, Final(4, "ACTIVE"))
  BY <1>2, <1>4, <1>5, <1>6, OneKept, Zenon
<1> QED BY <1>7, <1>8, Zenon

\* A creator that lets go of its session frees it if it is the last holder.
LEMMA OwnerPutMoves ==
    ASSUME Counts, RefInv, NEW s \in Sessions, OwnerPut(s)
    PROVE  OnlyMoves(s, IF ref[s] = 1 THEN "DESTROYED" ELSE state(s))
<1>1. /\ s \in owners /\ owners' = owners \ {s} /\ registry' = registry
      /\ gc_queue' = gc_queue /\ handlers' = handlers
  BY Zenon DEF OwnerPut
<1>2. Touched({s}, [x \in {s} |-> <<-1>>], [x \in {s} |-> <<>>])
  BY Zenon DEF OwnerPut, Touch, Touched
<1>3. /\ ref[s] \in Nat \ {0} /\ s \notin freed /\ state(s) \in States
      /\ state(s) \notin {"NONE", "DESTROYED", "DRAINING", "CLOSING"}
      /\ ref[s] = 1 => state(s) = "DESTROY_PENDING"
  BY <1>1, Ref DEF Held, Open, Holders, One, States
<1> DEFINE f == ref[s] - 1
<1>4. MayMove(s, <<-1>>, <<>>, f, state(s))
  <2>1. Ends(ref[s], <<-1>>, f)
    BY <1>3, EndsDropped
  <2>2. Goes(state(s), <<>>, state(s))
    BY <1>3, GoesOne, Zenon
  <2> QED BY <1>1, <1>3, <2>1, <2>2 DEF MayMove
<1>5. Held4 /\ \A x \in Sessions \ {s} : Same(x)
  BY <1>1, Ref, Zenon DEF Held4, Same
<1>6. Ended(s, f, Final(f, state(s))) => Kept(s)
  <2> SUFFICES ASSUME Ended(s, f, Final(f, state(s)))
               PROVE  Kept(s)
    BY Zenon
  <2>1. Held(s) /\ ref[s] = Holders(s)
    BY Ref, Zenon
  <2>2. /\ ref'[s] = f /\ Valid(walk'[s]) /\ state(s)' = Final(f, state(s))
        /\ s \in freed' <=> Final(f, state(s)) = "DESTROYED"
    BY Zenon DEF Ended
  <2>3. Holders(s)' = f
    BY <1>1, <2>1 DEF Holders, One
  <2>4. CASE ref[s] = 1
    <3>1. /\ Final(f, state(s)) = "DESTROYED" /\ handlers[s] = {} /\ s \notin registry
          /\ s \notin gc_queue
      BY <1>1, <2>1, <2>4 DEF Final, Holders, One
    <3> QED BY <1>1, <2>2, <2>3, <3>1, Zenon DEF Kept, Held, Open
  <2>5. CASE ref[s] # 1
    <3>1. Final(f, state(s)) = state(s)
      BY <1>3, <2>5 DEF Final
    <3>2. state(s) = "DESTROY_PENDING" => s \in gc_queue
      BY <1>1, <2>1, <2>5 DEF Held, Open, Holders, One
    <3> QED BY <1>1, <2>1, <2>2, <2>3, <3>1, <3>2, Zenon DEF Kept, Held, Open
  <2> QED BY <2>4, <2>5, Zenon
<1>7. OnlyMoves(s, Final(f, state(s)))
  <2> HIDE DEF f
  <2> QED BY <1>2, <1>4, <1>5, <1>6, OneKept, Zenon
<1>8. Final(f, state(s)) = IF ref[s] = 1 THEN "DESTROYED" ELSE state(s)
  BY <1>3 DEF Final
<1> QED BY <1>7, <1>8, Zenon

\* Both handlers are two.
LEMMA BothTwo ==
    ASSUME Counts
    PROVE  Cardinality(Both) = 2 /\ Cardinality({}) = 0
  BY Zenon DEF Counts

(* The references of the handlers of s. *)
Watches(s) == IF handlers[s] = {} THEN 0 ELSE 2

\* What closing an open session does to its references and its state, by itself
\* and inside a callback that has moved it to state a.
LEMMA ClosingMoves ==
    ASSUME Counts, RefInv, NEW s \in Sessions, Open(s)
    PROVE  /\ ClosingRefs(s) = Closes(Watches(s))
           /\ Ends(ref[s], ClosingRefs(s), ref[s] - Watches(s))
           /\ Ends(ref[s], <<1>> \o ClosingRefs(s) \o <<-1>>, ref[s] - Watches(s))
           /\ ref[s] - Watches(s) \in Nat \ {0} /\ s \notin freed
           /\ \A a \in {"IDLE", "ACTIVE", "PIPE_DIRTY"} : Goes(a, ClosingStates(s), "DESTROY_PENDING")
           /\ state(s) \in {"IDLE", "ACTIVE", "PIPE_DIRTY"}
<1>1. Held(s) /\ ref[s] = Holders(s) /\ ref[s] \in Nat /\ s \in registry
  BY Ref, Zenon DEF Held
<1>2. Cardinality(handlers[s]) = Watches(s)
  BY <1>1, BothTwo, Zenon DEF Held, Watches
<1>3. ClosingRefs(s) = Closes(Watches(s))
  BY <1>1, <1>2, Zenon DEF ClosingRefs, Closes, One
<1>4. Watches(s) \in {0, 2} /\ ref[s] > Watches(s)
  BY <1>1 DEF Watches, Holders, One
<1>5. /\ Ends(ref[s], ClosingRefs(s), ref[s] - Watches(s))
      /\ Ends(ref[s], <<1>> \o ClosingRefs(s) \o <<-1>>, ref[s] - Watches(s))
  BY <1>1, <1>3, <1>4, ClosesEnds, Zenon
<1>6. ASSUME NEW a \in {"IDLE", "ACTIVE", "PIPE_DIRTY"}
      PROVE  Goes(a, ClosingStates(s), "DESTROY_PENDING")
  <2>1. Goes(a, <<"CLOSING", "DESTROY_PENDING">>, "DESTROY_PENDING")
    BY GoesTwo, Zenon DEF States, ValidTransitions
  <2>2. ClosingStates(s) = <<"CLOSING", "DESTROY_PENDING">>
    BY Zenon DEF ClosingStates
  <2> QED BY <2>1, <2>2, Zenon
<1>7. s \notin freed /\ state(s) \in {"IDLE", "ACTIVE", "PIPE_DIRTY"}
  BY <1>1, Zenon DEF Held, Open
<1> QED BY <1>1, <1>3, <1>4, <1>5, <1>6, <1>7

\* Closing passes the registry's reference to the collector and drops those of
\* the handlers.
LEMMA ClosedKept ==
    ASSUME RefInv, NEW S \in SUBSET Sessions, Unlink(S), owners' = owners
    PROVE  /\ Held4 /\ \A x \in Sessions \ S : Same(x)
           /\ \A s \in S : Open(s) /\ Ended(s, ref[s] - Watches(s), "DESTROY_PENDING") => Kept(s)
<1>1. /\ owners \in SUBSET Sessions /\ registry \in SUBSET Sessions
      /\ gc_queue \in SUBSET Sessions /\ handlers \in [Sessions -> SUBSET Both]
  BY Zenon DEF RefInv, RefTypes
<1>2. PICK C \in SUBSET S : C = {s \in S : Open(s)}
  BY Zenon
<1>3. /\ registry' = registry \ C /\ gc_queue' = gc_queue \cup C
      /\ handlers' = [s \in Sessions |-> IF s \in C THEN {} ELSE handlers[s]]
  BY <1>2, Zenon DEF Unlink
<1>4. Held4
  <2>1. registry' \in SUBSET Sessions /\ gc_queue' \in SUBSET Sessions
    BY <1>1, <1>2, <1>3, Zenon
  <2>2. handlers' \in [Sessions -> SUBSET Both]
    BY <1>1, <1>3, Zenon
  <2> QED BY <1>1, <2>1, <2>2, Zenon DEF Held4
<1>5. ASSUME NEW x \in Sessions \ S PROVE Same(x)
  BY <1>2, <1>3, Zenon DEF Same
<1>6. ASSUME NEW s \in S, Open(s), Ended(s, ref[s] - Watches(s), "DESTROY_PENDING")
      PROVE  Kept(s)
  <2>1. s \in registry /\ Held(s) /\ ref[s] = Holders(s) /\ s \notin gc_queue
    BY <1>6, Ref, Zenon DEF Held, Open
  <2>2. s \in C /\ s \notin registry' /\ s \in gc_queue' /\ handlers'[s] = {}
    BY <1>2, <1>3, <1>6, Zenon
  <2>3. Held(s)'
    BY <1>6, <2>1, <2>2, Zenon DEF Ended, Held, Open
  <2>4. Holders(s)' = ref[s] - Watches(s)
    BY <2>1, <2>2 DEF Holders, Watches, One
  <2> QED BY <1>6, <2>3, <2>4, Zenon DEF Ended, Kept
<1> QED BY <1>4, <1>5, <1>6, Zenon

\* A creator's request closes an open session.
LEMMA DestroyMoves ==
    ASSUME Counts, RefInv, NEW s \in Sessions, atpd_session_destroy(s)
    PROVE  OnlyMoves(s, "DESTROY_PENDING")
<1>1. Open(s) /\ Unlink({s}) /\ owners' = owners
  BY Zenon DEF atpd_session_destroy
<1>2. Touched({s}, [x \in {s} |-> ClosingRefs(s)], [x \in {s} |-> ClosingStates(s)])
  BY Zenon DEF atpd_session_destroy, Touch, Touched
<1>3. MayMove(s, ClosingRefs(s), ClosingStates(s), ref[s] - Watches(s), "DESTROY_PENDING")
  BY <1>1, ClosingMoves, Zenon DEF MayMove
<1>4. Final(ref[s] - Watches(s), "DESTROY_PENDING") = "DESTROY_PENDING"
  BY <1>1, ClosingMoves, Zenon DEF Final
<1>5. /\ Held4 /\ \A x \in Sessions \ {s} : Same(x)
      /\ Ended(s, ref[s] - Watches(s), "DESTROY_PENDING") => Kept(s)
  BY <1>1, ClosedKept, Zenon
<1>6. OnlyMoves(s, Final(ref[s] - Watches(s), "DESTROY_PENDING"))
  BY <1>2, <1>3, <1>4, <1>5, OneKept, Zenon
<1> QED BY <1>4, <1>6, Zenon

\* A callback that keeps its session open.
LEMMA KeepMoves ==
    ASSUME Counts, RefInv, NEW s \in Sessions, NEW st, NEW e \in {"ACTIVE", "PIPE_DIRTY"},
           Keep(s, st), state(s) \in {"ACTIVE", "PIPE_DIRTY"}, Goes(state(s), st, e)
    PROVE  OnlyMoves(s, e)
<1>1. owners' = owners /\ registry' = registry /\ gc_queue' = gc_queue /\ handlers' = handlers
  BY Zenon DEF Keep
<1>2. Touched({s}, [x \in {s} |-> <<1, -1>>], [x \in {s} |-> st])
  BY Zenon DEF Keep, Touch, Touched
<1>3. Held(s) /\ ref[s] = Holders(s) /\ ref[s] \in Nat \ {0} /\ s \notin freed
  BY Ref DEF Held, Open, Holders, One
<1>4. MayMove(s, <<1, -1>>, st, ref[s], e)
  <2>1. Ends(ref[s], <<1, -1>>, ref[s])
    BY <1>3, EndsAlike
  <2> QED BY <1>3, <2>1, Zenon DEF MayMove
<1>5. Held4 /\ \A x \in Sessions : Same(x)
  BY <1>1, Ref, Zenon DEF Held4, Same
<1>6. Final(ref[s], e) = e
  BY <1>3, Zenon DEF Final
<1>7. Ended(s, ref[s], e) => Kept(s)
  <2> SUFFICES ASSUME Ended(s, ref[s], e)
               PROVE  Kept(s)
    BY Zenon
  <2>1. Held(s)'
    BY <1>1, <1>3, Zenon DEF Ended, Held, Open
  <2>2. Holders(s)' = ref[s]
    BY <1>1, <1>3, Zenon DEF Holders
  <2> QED BY <2>1, <2>2, Zenon DEF Ended, Kept
<1>8. OnlyMoves(s, Final(ref[s], e))
  BY <1>2, <1>4, <1>5, <1>6, <1>7, OneKept, Zenon
<1> QED BY <1>6, <1>8, Zenon

\* A callback that closes its session after moving it to state a.
LEMMA CloseMoves ==
    ASSUME Counts, RefInv, NEW s \in Sessions, NEW st, NEW a \in {"ACTIVE", "PIPE_DIRTY"},
           Close(s, st), state(s) \in {"ACTIVE", "PIPE_DIRTY"}, Goes(state(s), st, a)
    PROVE  OnlyMoves(s, "DESTROY_PENDING")
<1> DEFINE ops == <<1>> \o ClosingRefs(s) \o <<-1>>
           path == st \o ClosingStates(s)
<1>1. Open(s) /\ Unlink({s}) /\ owners' = owners
  BY Zenon DEF Close, Open
<1>2. Touched({s}, [x \in {s} |-> ops], [x \in {s} |-> path])
  BY Zenon DEF Close, Touch, Touched
<1>3. MayMove(s, ops, path, ref[s] - Watches(s), "DESTROY_PENDING")
  <2>1. Goes(a, ClosingStates(s), "DESTROY_PENDING")
    BY <1>1, ClosingMoves, Zenon
  <2>2. Goes(state(s), path, "DESTROY_PENDING")
    BY <2>1, GoesOn, Zenon
  <2>3. /\ Ends(ref[s], ops, ref[s] - Watches(s)) /\ ref[s] - Watches(s) \in Nat \ {0}
        /\ s \notin freed
    BY <1>1, ClosingMoves, Zenon
  <2> HIDE DEF ops, path
  <2> QED BY <2>2, <2>3, Zenon DEF MayMove
<1> HIDE DEF ops, path
<1>4. Final(ref[s] - Watches(s), "DESTROY_PENDING") = "DESTROY_PENDING"
  BY <1>1, ClosingMoves, Zenon DEF Final
<1>5. /\ Held4 /\ \A x \in Sessions \ {s} : Same(x)
      /\ Ended(s, ref[s] - Watches(s), "DESTROY_PENDING") => Kept(s)
  BY <1>1, ClosedKept, Zenon
<1>6. OnlyMoves(s, Final(ref[s] - Watches(s), "DESTROY_PENDING"))
  BY <1>2, <1>3, <1>4, <1>5, OneKept, Zenon
<1> QED BY <1>4, <1>6, Zenon

-----------------------------------------------------------------------------
(* The steps on many sessions. *)

\* A step on the sessions S that keeps the invariant of each.
LEMMA AllKept ==
    ASSUME RefInv, NEW S \in SUBSET Sessions, NEW O, NEW W, NEW F, NEW E,
           MayMoveAll(S, O, W, F, E), Touched(S, O, W), Held4, \A x \in Sessions \ S : Same(x),
           \A s \in S : Ended(s, F[s], Final(F[s], E[s])) => Kept(s)
    PROVE  /\ RefInv'
           /\ \A s \in S : state(s)' = Final(F[s], E[s])
           /\ \A x \in Sessions \ S : state(x)' = state(x)
<1>1. /\ Typed /\ \A s \in S : Ended(s, F[s], Final(F[s], E[s]))
      /\ \A x \in Sessions \ S : Ended(x, ref[x], state(x))
  BY TouchedEnds, Zenon
<1>2. \A x \in Sessions \ S : Kept(x)
  BY <1>1, SameKept, Zenon
<1>3. \A x \in Sessions : Kept(x)
  BY <1>1, <1>2, Zenon
<1>4. RefInv'
  BY <1>1, <1>3, KeptAll, Zenon
<1> QED BY <1>1, <1>4, Zenon DEF Ended

(* What a close-all that has memory for its list does. *)
ClosesAll ==
    /\ Unlink(registry) /\ owners' = owners
    /\ Touched(registry, [x \in registry |-> <<1>> \o ClosingRefs(x) \o <<-1>>],
                         [x \in registry |-> ClosingStates(x)])

\* It closes every registered session.
LEMMA DrainAllMoves ==
    ASSUME Counts, RefInv, ClosesAll
    PROVE  /\ RefInv' /\ registry' = {}
           /\ \A s \in registry : state(s)' = "DESTROY_PENDING"
           /\ \A x \in Sessions \ registry : state(x)' = state(x)
<1>1. PICK S \in SUBSET Sessions : S = registry
  BY Zenon DEF RefInv, RefTypes
<1> DEFINE O == [x \in S |-> <<1>> \o ClosingRefs(x) \o <<-1>>]
           W == [x \in S |-> ClosingStates(x)]
           F == [x \in S |-> ref[x] - Watches(x)]
           E == [x \in S |-> "DESTROY_PENDING"]
<1>2. Touched(S, O, W)
  BY <1>1, Zenon DEF ClosesAll
<1>3. \A s \in S : Open(s)
  BY <1>1, Ref, Zenon DEF Held
<1>4. ASSUME NEW s \in S
      PROVE  /\ O[s] = <<1>> \o ClosingRefs(s) \o <<-1>> /\ W[s] = ClosingStates(s)
             /\ F[s] = ref[s] - Watches(s) /\ E[s] = "DESTROY_PENDING"
  BY Zenon
<1> HIDE DEF O, W, F, E
<1>5. ASSUME NEW s \in S
      PROVE  MayMove(s, O[s], W[s], F[s], E[s]) /\ Final(F[s], E[s]) = "DESTROY_PENDING"
  <2>1. /\ Ends(ref[s], O[s], F[s]) /\ F[s] \in Nat \ {0} /\ s \notin freed
        /\ state(s) \in {"IDLE", "ACTIVE", "PIPE_DIRTY"}
        /\ \A a \in {"IDLE", "ACTIVE", "PIPE_DIRTY"} : Goes(a, W[s], E[s])
    BY <1>3, <1>4, ClosingMoves, Zenon
  <2>2. E[s] = "DESTROY_PENDING"
    BY <1>4, Zenon
  <2> QED BY <2>1, <2>2, Zenon DEF MayMove, Final
<1>6. /\ Held4 /\ \A x \in Sessions \ S : Same(x)
      /\ \A s \in S : Open(s) /\ Ended(s, ref[s] - Watches(s), "DESTROY_PENDING") => Kept(s)
  BY <1>1, ClosedKept, Zenon DEF ClosesAll
<1>7. ASSUME NEW s \in S, Ended(s, F[s], Final(F[s], E[s]))
      PROVE  Kept(s)
  BY <1>7, <1>3, <1>4, <1>5, <1>6, Zenon
<1>8. /\ RefInv' /\ \A s \in S : state(s)' = Final(F[s], E[s])
      /\ \A x \in Sessions \ S : state(x)' = state(x)
  <2>1. MayMoveAll(S, O, W, F, E)
    BY <1>5, Zenon DEF MayMoveAll
  <2>2. Held4 /\ \A x \in Sessions \ S : Same(x)
    BY <1>6, Zenon
  <2> QED BY <1>2, <1>7, <2>1, <2>2, AllKept
<1>9. registry' = {}
  BY <1>1, <1>3, Zenon DEF ClosesAll, Unlink
<1> QED BY <1>1, <1>5, <1>8, <1>9, Zenon

\* The collector frees the sessions of its queue that nobody else holds.
LEMMA CollectMoves ==
    ASSUME Counts, RefInv, Collect
    PROVE  /\ RefInv' /\ gc_queue' = {}
           /\ \A s \in gc_queue : state(s) = "DESTROY_PENDING"
                                  /\ state(s)' \in {"DESTROY_PENDING", "DESTROYED"}
           /\ \A x \in Sessions \ gc_queue : state(x)' = state(x)
<1>1. PICK S \in SUBSET Sessions : S = gc_queue
  BY Zenon DEF RefInv, RefTypes
<1> DEFINE O == [x \in S |-> <<-1>>]
           W == [x \in S |-> <<>>]
           F == [x \in S |-> ref[x] - 1]
           E == [x \in S |-> "DESTROY_PENDING"]
<1>2. Touched(S, O, W)
  BY <1>1, Zenon DEF Collect, Touch, Touched
<1>3. owners' = owners /\ registry' = registry /\ handlers' = handlers /\ gc_queue' = {}
  BY Zenon DEF Collect
<1>4. ASSUME NEW s \in S
      PROVE  O[s] = <<-1>> /\ W[s] = <<>> /\ F[s] = ref[s] - 1 /\ E[s] = "DESTROY_PENDING"
  BY Zenon
<1> HIDE DEF O, W, F, E
<1>5. ASSUME NEW s \in S
      PROVE  /\ Held(s) /\ ref[s] = Holders(s) /\ ref[s] \in Nat \ {0}
             /\ state(s) = "DESTROY_PENDING" /\ s \notin freed /\ s \in gc_queue
             /\ handlers[s] = {} /\ s \notin registry
  BY <1>1, Ref DEF Held, Open, Holders, One
<1>6. ASSUME NEW s \in S
      PROVE  MayMove(s, O[s], W[s], F[s], E[s])
  <2>1. Ends(ref[s], <<-1>>, ref[s] - 1)
    BY <1>5, EndsDropped
  <2>2. Goes("DESTROY_PENDING", <<>>, "DESTROY_PENDING")
    BY GoesOne, Zenon DEF States
  <2>3. MayMove(s, <<-1>>, <<>>, ref[s] - 1, "DESTROY_PENDING")
    BY <1>5, <2>1, <2>2 DEF MayMove
  <2> QED BY <1>4, <2>3, Zenon
<1>7. Held4 /\ \A x \in Sessions \ S : Same(x)
  BY <1>1, <1>3, Zenon DEF Held4, Same, RefInv, RefTypes
<1>8. ASSUME NEW s \in S, Ended(s, F[s], Final(F[s], E[s]))
      PROVE  Kept(s)
  <2>1. /\ ref'[s] = ref[s] - 1 /\ Valid(walk'[s])
        /\ state(s)' = IF ref[s] = 1 THEN "DESTROYED" ELSE "DESTROY_PENDING"
        /\ s \in freed' <=> ref[s] = 1
    BY <1>4, <1>5, <1>8 DEF Ended, Final
  <2>2. Holders(s)' = ref[s] - 1
    BY <1>3, <1>5 DEF Holders, One
  <2>3. ref[s] = 1 <=> s \notin owners
    BY <1>5 DEF Holders, One
  <2>4. Held(s)'
    BY <1>3, <1>5, <2>1, <2>3, Zenon DEF Held, Open
  <2> QED BY <2>1, <2>2, <2>4, Zenon DEF Kept
<1>9. /\ RefInv' /\ \A s \in S : state(s)' = Final(F[s], E[s])
      /\ \A x \in Sessions \ S : state(x)' = state(x)
  <2>1. MayMoveAll(S, O, W, F, E)
    BY <1>6, Zenon DEF MayMoveAll
  <2> QED BY <1>2, <1>7, <1>8, <2>1, AllKept
<1> QED BY <1>1, <1>3, <1>4, <1>5, <1>9, Zenon DEF Final

\* The end of the reactor drops the handlers that are left, of sessions that are
\* still in the registry.
LEMMA ReactorMoves ==
    ASSUME Counts, RefInv, CleanupReactor
    PROVE  /\ RefInv' /\ \A x \in Sessions : handlers'[x] = {} /\ state(x)' = state(x)
<1>1. PICK S \in SUBSET Sessions : S = {s \in Sessions : handlers[s] # {}}
  BY Zenon
<1> DEFINE O == [x \in S |-> Times(Cardinality(handlers[x]), -1)]
           W == [x \in S |-> <<>>]
           F == [x \in S |-> ref[x] - 2]
           E == [x \in S |-> state(x)]
<1>2. Touched(S, O, W)
  BY <1>1, Zenon DEF CleanupReactor, Touch, Touched
<1>3. /\ owners' = owners /\ registry' = registry /\ gc_queue' = gc_queue
      /\ handlers' = [s \in Sessions |-> {}]
  BY Zenon DEF CleanupReactor
<1>4. ASSUME NEW s \in S
      PROVE  /\ O[s] = Times(Cardinality(handlers[s]), -1) /\ W[s] = <<>>
             /\ F[s] = ref[s] - 2 /\ E[s] = state(s)
  BY Zenon
<1> HIDE DEF O, W, F, E
<1>5. ASSUME NEW s \in S
      PROVE  /\ Held(s) /\ ref[s] = Holders(s) /\ ref[s] \in Nat /\ ref[s] > 2
             /\ state(s) \in {"ACTIVE", "PIPE_DIRTY"} /\ s \notin freed
             /\ handlers[s] = Both /\ s \in registry
  BY <1>1, Ref DEF Held, Open, Holders, One
<1>6. ASSUME NEW s \in S
      PROVE  MayMove(s, O[s], W[s], F[s], E[s]) /\ Final(F[s], E[s]) = state(s)
  <2>1. O[s] = <<-1, -1>>
    <3>1. Cardinality(handlers[s]) = 2
      BY <1>5, BothTwo, Zenon
    <3>2. Times(2, -1) = <<-1, -1>>
      BY DEF Times
    <3> QED BY <1>4, <3>1, <3>2, Zenon
  <2>2. Ends(ref[s], <<-1, -1>>, ref[s] - 2)
    BY <1>5, EndsTwoDropped
  <2>3. Goes(state(s), <<>>, state(s))
    BY <1>5, GoesOne, Zenon DEF States
  <2>4. MayMove(s, <<-1, -1>>, <<>>, ref[s] - 2, state(s))
    BY <1>5, <2>2, <2>3 DEF MayMove
  <2> QED BY <1>4, <1>5, <2>1, <2>4 DEF Final
<1>7. Held4 /\ \A x \in Sessions \ S : Same(x)
  <2>1. Held4
    BY <1>3, Zenon DEF Held4, RefInv, RefTypes
  <2> QED BY <1>1, <1>3, <2>1, Zenon DEF Same
<1>8. ASSUME NEW s \in S, Ended(s, F[s], Final(F[s], E[s]))
      PROVE  Kept(s)
  <2>1. ref'[s] = ref[s] - 2 /\ Valid(walk'[s]) /\ state(s)' = state(s) /\ s \notin freed'
    BY <1>4, <1>5, <1>6, <1>8, Zenon DEF Ended
  <2>2. handlers'[s] = {}
    BY <1>3, Zenon
  <2>3. Holders(s)' = ref[s] - 2
    <3>1. handlers[s] # {}
      BY <1>5, Zenon DEF Both
    <3> QED BY <1>3, <1>5, <2>2, <3>1 DEF Holders, One
  <2>4. Held(s)'
    BY <1>3, <1>5, <2>1, <2>2, Zenon DEF Held, Open
  <2> QED BY <2>1, <2>3, <2>4, Zenon DEF Kept
<1>9. /\ RefInv' /\ \A s \in S : state(s)' = Final(F[s], E[s])
      /\ \A x \in Sessions \ S : state(x)' = state(x)
  <2>1. MayMoveAll(S, O, W, F, E)
    BY <1>6, Zenon DEF MayMoveAll
  <2> QED BY <1>2, <1>7, <1>8, <2>1, AllKept
<1> QED BY <1>3, <1>6, <1>9, Zenon

-----------------------------------------------------------------------------
(* The data of the sessions. *)

\* The least of two numbers: what one splice takes in.
LEMMA Least2 ==
    ASSUME NEW a \in Nat, NEW b \in Nat
    PROVE  Min({a, b}) \in Nat /\ Min({a, b}) <= a /\ Min({a, b}) <= b
<1>1. \E x \in {a, b} : \A y \in {a, b} : x <= y
  OBVIOUS
<1> QED BY <1>1, Zenon DEF Min

\* The least of three, which atpd_session_drain_pipe can send.
LEMMA Least3 ==
    ASSUME NEW a \in Nat, NEW b \in Nat, NEW c \in Nat
    PROVE  /\ Min({a, b, c}) \in Nat
           /\ Min({a, b, c}) <= a /\ Min({a, b, c}) <= b /\ Min({a, b, c}) <= c
<1>1. \E x \in {a, b, c} : \A y \in {a, b, c} : x <= y
  OBVIOUS
<1> QED BY <1>1, Zenon DEF Min

(* A step leaves the data of s alone. *)
SameData(s) ==
    /\ src'[s] = src[s] /\ arrived'[s] = arrived[s] /\ out'[s] = out[s]
    /\ pipe'[s] = pipe[s] /\ pipe_pending'[s] = pipe_pending[s] /\ wr'[s] = wr[s]
    /\ s \in damaged' <=> s \in damaged

Gone == {"DESTROY_PENDING", "DESTROYED"}

\* The data of a session that keeps its state, is created or registered, or is
\* closed.
LEMMA SameDataKept ==
    ASSUME DataInv, NEW s \in Sessions
    PROVE  /\ state(s)' \in Gone => DataOf(s)'
           /\ SameData(s) /\ state(s)' = state(s) => DataOf(s)'
           /\ SameData(s) /\ state(s) = "NONE" /\ state(s)' = "IDLE" => DataOf(s)'
           /\ SameData(s) /\ state(s) = "IDLE" /\ state(s)' = "ACTIVE" => DataOf(s)'
<1>1. DataOf(s)
  BY Zenon DEF DataInv
<1>2. ASSUME state(s)' \in Gone PROVE DataOf(s)'
  BY <1>2, Zenon DEF DataOf, Open, Gone
<1>3. ASSUME SameData(s), state(s)' = state(s) PROVE DataOf(s)'
  BY <1>1, <1>3, Zenon DEF SameData, DataOf, Open, Fresh, Recorded, Conserved
<1>4. ASSUME SameData(s), state(s) = "NONE", state(s)' = "IDLE" PROVE DataOf(s)'
  <2>1. arrived[s] = 0 /\ src[s] = 0 /\ out[s] = 0 /\ pipe[s] = 0 /\ pipe_pending[s] = 0
        /\ wr[s] = 0
    BY <1>1, <1>4, Zenon DEF DataOf, Fresh
  <2> QED BY <1>4, <2>1 DEF SameData, DataOf, Open, Recorded, Conserved
<1>5. ASSUME SameData(s), state(s) = "IDLE", state(s)' = "ACTIVE" PROVE DataOf(s)'
  BY <1>1, <1>5, Zenon DEF SameData, DataOf, Open, Recorded, Conserved
<1> QED BY <1>2, <1>3, <1>4, <1>5, Zenon

\* A step on one session.
LEMMA OneData ==
    ASSUME DataInv, NEW s \in Sessions, NEW e, OnlyMoves(s, e), DataTypes',
           \A x \in Sessions \ {s} : SameData(x), DataOf(s)'
    PROVE  DataInv'
<1>1. \A x \in Sessions \ {s} : DataOf(x)'
  BY SameDataKept, Zenon DEF OnlyMoves
<1> QED BY <1>1, Zenon DEF DataInv

\* A step that leaves the data alone.
LEMMA NoData ==
    ASSUME DataInv, UNCHANGED <<dataVars, damaged>>
    PROVE  DataTypes' /\ \A x \in Sessions : SameData(x)
  BY Zenon DEF DataInv, DataTypes, SameData, dataVars

(* What the callbacks do to the data of s: taken units enter the pipe, sent leave
   it, left are recorded.                                                  *)
DataMoves(s, taken, sent, left, w) ==
    /\ src' = [src EXCEPT ![s] = @ - taken] /\ arrived' = arrived
    /\ pipe' = [pipe EXCEPT ![s] = @ + taken - sent]
    /\ out' = [out EXCEPT ![s] = @ + sent] /\ room' = [room EXCEPT ![s] = @ - sent]
    /\ pipe_pending' = [pipe_pending EXCEPT ![s] = left]
    /\ wr' = [wr EXCEPT ![s] = w]
    /\ damaged' \in {damaged, damaged \cup {s}}

\* The types stay if nothing is taken or sent that is not there.
LEMMA DataMovesTyped ==
    ASSUME DataInv, NEW s \in Sessions, NEW taken \in Nat, NEW sent \in Nat,
           NEW left \in 0 .. PipeSize, NEW w \in {0, 1}, DataMoves(s, taken, sent, left, w),
           taken <= src[s], sent <= pipe[s] + taken, pipe[s] + taken - sent <= PipeSize,
           sent <= room[s]
    PROVE  /\ DataTypes' /\ \A x \in Sessions \ {s} : SameData(x)
           /\ src'[s] = src[s] - taken /\ arrived'[s] = arrived[s]
           /\ out'[s] = out[s] + sent /\ pipe'[s] = pipe[s] + taken - sent
           /\ pipe_pending'[s] = left /\ wr'[s] = w
<1>1. DataTypes /\ PipeSize \in Nat /\ SinkRoom \in Nat
  BY SizeAssumption, Zenon DEF DataInv
<1>2. src[s] \in Nat /\ out[s] \in Nat /\ pipe[s] \in 0 .. PipeSize /\ room[s] \in 0 .. SinkRoom
  BY <1>1, Zenon DEF DataTypes
<1>3. /\ src[s] - taken \in Nat /\ out[s] + sent \in Nat
      /\ pipe[s] + taken - sent \in 0 .. PipeSize /\ room[s] - sent \in 0 .. SinkRoom
  BY <1>1, <1>2
<1>4. /\ src' \in [Sessions -> Nat] /\ arrived' \in [Sessions -> Nat]
      /\ out' \in [Sessions -> Nat]
  BY <1>1, <1>3, Zenon DEF DataMoves, DataTypes
<1>5. /\ pipe' \in [Sessions -> 0 .. PipeSize] /\ pipe_pending' \in [Sessions -> 0 .. PipeSize]
      /\ room' \in [Sessions -> 0 .. SinkRoom]
  BY <1>1, <1>3, Zenon DEF DataMoves, DataTypes
<1>6. wr' \in [Sessions -> {0, 1}] /\ damaged' \in SUBSET Sessions
  BY <1>1, Zenon DEF DataMoves, DataTypes
<1>7. DataTypes'
  BY <1>4, <1>5, <1>6, Zenon DEF DataTypes
<1>8. ASSUME NEW x \in Sessions \ {s} PROVE SameData(x)
  BY <1>1, Zenon DEF DataMoves, DataTypes, SameData
<1>9. /\ src'[s] = src[s] - taken /\ arrived'[s] = arrived[s]
      /\ out'[s] = out[s] + sent /\ pipe'[s] = pipe[s] + taken - sent
      /\ pipe_pending'[s] = left /\ wr'[s] = w
  BY <1>1, Zenon DEF DataMoves, DataTypes
<1> QED BY <1>7, <1>8, <1>9, Zenon

(* The data of s is in order once it is in state e, and that of others the same. *)
DataFits(s, e) == /\ DataTypes' /\ \A x \in Sessions \ {s} : SameData(x)
                  /\ state(s)' = e => DataOf(s)'

(* What is known of a session that has its data in order. *)
Known(s) ==
    /\ src[s] \in Nat /\ arrived[s] \in Nat /\ out[s] \in Nat
    /\ pipe[s] \in 0 .. PipeSize /\ pipe_pending[s] \in 0 .. PipeSize
    /\ room[s] \in 0 .. SinkRoom /\ wr[s] \in {0, 1}
    /\ PipeSize \in Nat \ {0} /\ SinkRoom \in Nat
    /\ Sendable(s) \in Nat /\ Sendable(s) <= pipe_pending[s]
    /\ Sendable(s) <= pipe[s] /\ Sendable(s) <= room[s]
    /\ Open(s) => pipe[s] <= pipe_pending[s]
    /\ state(s) \in {"IDLE", "ACTIVE"} => pipe_pending[s] = 0 /\ pipe[s] = 0
    /\ Open(s) /\ s \notin damaged => Conserved(s)

\* What the types and the invariant say of one session.
LEMMA DataNow ==
    ASSUME DataInv, NEW s \in Sessions
    PROVE  Known(s)
<1>1. /\ src[s] \in Nat /\ arrived[s] \in Nat /\ out[s] \in Nat
      /\ pipe[s] \in 0 .. PipeSize /\ pipe_pending[s] \in 0 .. PipeSize
      /\ room[s] \in 0 .. SinkRoom /\ wr[s] \in {0, 1}
  BY Zenon DEF DataInv, DataTypes
<1>2. PipeSize \in Nat \ {0} /\ SinkRoom \in Nat
  BY SizeAssumption, Zenon
<1>3. /\ Sendable(s) \in Nat /\ Sendable(s) <= pipe_pending[s]
      /\ Sendable(s) <= pipe[s] /\ Sendable(s) <= room[s]
  <2>1. pipe_pending[s] \in Nat /\ pipe[s] \in Nat /\ room[s] \in Nat
    BY <1>1, <1>2
  <2> QED BY <2>1, Least3, Zenon DEF Sendable
<1>4. /\ Open(s) => pipe[s] <= pipe_pending[s]
      /\ state(s) \in {"IDLE", "ACTIVE"} => pipe_pending[s] = 0
      /\ Open(s) /\ s \notin damaged => Conserved(s)
  BY Zenon DEF DataInv, DataOf, Open, Recorded
<1>5. state(s) \in {"IDLE", "ACTIVE"} => pipe[s] = 0
  BY <1>1, <1>2, <1>4 DEF Open
<1> QED BY <1>1, <1>2, <1>3, <1>4, <1>5, Zenon DEF Known

\* Sending from the pipe takes nothing in.
LEMMA SendMoves ==
    ASSUME DataInv, NEW s \in Sessions, NEW n \in Nat, NEW left, NEW w,
           SendFromPipe(s, n, left), src' = src, arrived' = arrived,
           wr' = [wr EXCEPT ![s] = w], damaged' \in {damaged, damaged \cup {s}}
    PROVE  DataMoves(s, 0, n, left, w)
<1>0. Known(s)
  BY DataNow, Zenon
<1>1. src \in [Sessions -> Nat] /\ src[s] - 0 = src[s] /\ pipe[s] + 0 - n = pipe[s] - n
  BY <1>0 DEF DataInv, DataTypes, Known
<1>2. src' = [src EXCEPT ![s] = @ - 0]
  BY <1>1, Zenon
<1>3. pipe' = [pipe EXCEPT ![s] = @ + 0 - n]
  BY <1>1, Zenon DEF SendFromPipe
<1> QED BY <1>2, <1>3, Zenon DEF SendFromPipe, DataMoves

(* Nothing is taken or sent that is not there, and what stays in the pipe is
   recorded and, unless a call failed, watched in state e.                 *)
MovesWell(s, taken, sent, left, w, e) ==
    /\ taken \in Nat /\ sent \in Nat /\ left \in 0 .. PipeSize /\ w \in {0, 1}
    /\ taken <= src[s] /\ sent <= pipe[s] + taken /\ sent <= room[s]
    /\ pipe[s] + taken - sent <= left
    /\ e \in {"ACTIVE", "PIPE_DIRTY"} /\ (e = "ACTIVE" => left = 0)
    /\ s \notin damaged' => /\ Conserved(s) /\ pipe[s] + taken - sent = left
                            /\ left > 0 <=> e = "PIPE_DIRTY"
                            /\ w = 1 <=> e = "PIPE_DIRTY"

\* Data that moves so is in order.
LEMMA MovesFits ==
    ASSUME DataInv, NEW s \in Sessions, NEW taken, NEW sent, NEW left, NEW w, NEW e,
           DataMoves(s, taken, sent, left, w), MovesWell(s, taken, sent, left, w, e)
    PROVE  DataFits(s, e)
<1>0. Known(s)
  BY DataNow, Zenon
<1>1. /\ taken \in Nat /\ sent \in Nat /\ left \in 0 .. PipeSize /\ w \in {0, 1}
      /\ taken <= src[s] /\ sent <= pipe[s] + taken /\ sent <= room[s]
      /\ pipe[s] + taken - sent <= left
      /\ e \in {"ACTIVE", "PIPE_DIRTY"} /\ (e = "ACTIVE" => left = 0)
  BY Zenon DEF MovesWell
<1>2. pipe[s] + taken - sent <= PipeSize
  BY <1>0, <1>1 DEF Known
<1>3. /\ DataTypes' /\ \A x \in Sessions \ {s} : SameData(x)
      /\ src'[s] = src[s] - taken /\ arrived'[s] = arrived[s]
      /\ out'[s] = out[s] + sent /\ pipe'[s] = pipe[s] + taken - sent
      /\ pipe_pending'[s] = left /\ wr'[s] = w
  BY <1>1, <1>2, DataMovesTyped, Zenon
<1>4. ASSUME state(s)' = e PROVE DataOf(s)'
  <2>1. Recorded(s)'
    BY <1>1, <1>3, <1>4, Zenon DEF Recorded
  <2>2. ASSUME s \notin damaged' PROVE Conserved(s)'
    <3>1. /\ Conserved(s) /\ pipe[s] + taken - sent = left
          /\ left > 0 <=> e = "PIPE_DIRTY"
          /\ w = 1 <=> e = "PIPE_DIRTY"
      BY <2>2, Zenon DEF MovesWell
    <3>2. src[s] + pipe[s] + out[s] = arrived[s]
      BY <3>1, Zenon DEF Conserved
    <3>3. src[s] \in Nat /\ pipe[s] \in Nat /\ out[s] \in Nat
      BY <1>0 DEF Known
    <3>4. (src[s] - taken) + (pipe[s] + taken - sent) + (out[s] + sent) = arrived[s]
      BY <1>1, <3>2, <3>3
    <3>5. src'[s] + pipe'[s] + out'[s] = arrived'[s]
      BY <1>3, <3>4, Zenon
    <3>6. pipe'[s] = left /\ pipe_pending'[s] = left /\ wr'[s] = w
      BY <1>3, <3>1, Zenon
    <3> QED BY <1>4, <3>1, <3>5, <3>6, Zenon DEF Conserved
  <2>3. state(s)' # "NONE"
    BY <1>1, <1>4, Zenon
  <2> QED BY <2>1, <2>2, <2>3, Zenon DEF DataOf
<1> QED BY <1>3, <1>4, Zenon DEF DataFits

\* A drain that blocks records exactly what it leaves in the pipe.
LEMMA DrainBlockedFits ==
    ASSUME DataInv, NEW s \in Sessions, state(s) = "PIPE_DIRTY", DrainBlocked(s)
    PROVE  DataFits(s, "PIPE_DIRTY")
<1> DEFINE n == Sendable(s)
           left == pipe_pending[s] - n
<1>0. Known(s)
  BY DataNow, Zenon
<1>1. n < pipe_pending[s] /\ SendFromPipe(s, n, left)
      /\ src' = src /\ arrived' = arrived /\ wr' = wr /\ damaged' = damaged
  BY Zenon DEF DrainBlocked
<1>2. n \in Nat /\ left \in 1 .. PipeSize
  BY <1>0, <1>1 DEF Known
<1>3. DataMoves(s, 0, n, left, wr[s])
  <2> HIDE DEF n, left
  <2>1. wr' = [wr EXCEPT ![s] = wr[s]]
    BY <1>1, Zenon DEF DataInv, DataTypes
  <2> QED BY <1>1, <1>2, <2>1, SendMoves, Zenon
<1>4. /\ 0 \in Nat /\ 0 <= src[s] /\ n <= pipe[s] + 0 /\ n <= room[s] /\ wr[s] \in {0, 1}
      /\ left \in 0 .. PipeSize /\ left > 0 /\ pipe[s] + 0 - n <= left
  BY <1>0, <1>2 DEF Known, Open
<1>5. ASSUME s \notin damaged PROVE Conserved(s) /\ pipe[s] + 0 - n = left /\ wr[s] = 1
  <2>1. Conserved(s)
    BY <1>0, <1>5, Zenon DEF Known, Open
  <2> QED BY <1>0, <1>2, <2>1 DEF Known, Conserved
<1> HIDE DEF n, left
<1>6. MovesWell(s, 0, n, left, wr[s], "PIPE_DIRTY")
  BY <1>1, <1>2, <1>4, <1>5, Zenon DEF MovesWell
<1> QED BY <1>3, <1>6, MovesFits, Zenon

\* A drain that fails leaves no more in the pipe than is recorded.
LEMMA DrainFailsFits ==
    ASSUME DataInv, NEW s \in Sessions, state(s) = "PIPE_DIRTY", DrainFails(s)
    PROVE  DataFits(s, "PIPE_DIRTY")
<1>0. Known(s)
  BY DataNow, Zenon
<1>1. PICK n \in 0 .. Sendable(s) : SendFromPipe(s, n, pipe_pending[s])
  BY Zenon DEF DrainFails
<1>2. src' = src /\ arrived' = arrived /\ wr' = wr /\ damaged' = damaged \cup {s}
  BY Zenon DEF DrainFails
<1>3. n \in Nat
  BY <1>0 DEF Known
<1>4. DataMoves(s, 0, n, pipe_pending[s], wr[s])
  <2>1. wr' = [wr EXCEPT ![s] = wr[s]]
    BY <1>2, Zenon DEF DataInv, DataTypes
  <2> QED BY <1>1, <1>2, <1>3, <2>1, SendMoves, Zenon
<1>5. /\ 0 \in Nat /\ 0 <= src[s] /\ n <= pipe[s] + 0 /\ n <= room[s] /\ wr[s] \in {0, 1}
      /\ pipe_pending[s] \in 0 .. PipeSize /\ pipe[s] + 0 - n <= pipe_pending[s]
  BY <1>0, <1>3 DEF Known, Open
<1>6. MovesWell(s, 0, n, pipe_pending[s], wr[s], "PIPE_DIRTY")
  BY <1>2, <1>3, <1>5, Zenon DEF MovesWell
<1> QED BY <1>4, <1>6, MovesFits, Zenon

\* A drain that completes leaves the pipe empty and WRITE unwatched.
LEMMA DrainCompleteFits ==
    ASSUME DataInv, NEW s \in Sessions, state(s) = "PIPE_DIRTY", DrainComplete(s)
    PROVE  DataFits(s, "ACTIVE")
<1> DEFINE n == Sendable(s)
<1>0. Known(s)
  BY DataNow, Zenon
<1>1. /\ n = pipe_pending[s] /\ SendFromPipe(s, n, 0) /\ wr' = [wr EXCEPT ![s] = 0]
      /\ src' = src /\ arrived' = arrived /\ damaged' = damaged
  BY Zenon DEF DrainComplete, Drained
<1>2. n \in Nat /\ n = pipe[s]
  BY <1>0, <1>1 DEF Open, Known
<1>3. DataMoves(s, 0, n, 0, 0)
  <2> HIDE DEF n
  <2> QED BY <1>1, <1>2, SendMoves, Zenon
<1>4. /\ 0 \in Nat /\ 0 <= src[s] /\ n <= pipe[s] + 0 /\ n <= room[s] /\ 0 \in 0 .. PipeSize
      /\ pipe[s] + 0 - n = 0
  BY <1>0, <1>2 DEF Known
<1>5. s \notin damaged => Conserved(s)
  BY <1>0, Zenon DEF Known, Open
<1> HIDE DEF n
<1>6. MovesWell(s, 0, n, 0, 0, "ACTIVE")
  BY <1>1, <1>2, <1>4, <1>5 DEF MovesWell
<1> QED BY <1>3, <1>6, MovesFits, Zenon

\* What a pump takes and does not send is stuck.
LEMMA Stuck ==
    ASSUME NEW taken \in Nat, NEW sent \in Nat, sent <= taken
    PROVE  /\ taken - sent > 0 <=> sent < taken
           /\ sent < taken \/ taken - sent = 0
  OBVIOUS

\* A pump that starts with the k units of the pipe sent leaves what is stuck
\* recorded and watched.
LEMMA PumpedFits ==
    ASSUME DataInv, NEW s \in Sessions, state(s) \in {"ACTIVE", "PIPE_DIRTY"},
           NEW k \in Nat, NEW taken \in Nat, NEW sent \in Nat, NEW watch \in {0, 1},
           Pumped(s, k, taken, sent, watch), k = pipe[s], taken <= src[s],
           taken <= PipeSize, sent <= taken, k + sent <= room[s],
           NEW e \in {"ACTIVE", "PIPE_DIRTY"}, e = "PIPE_DIRTY" <=> sent < taken,
           watch = 1 => sent < taken
    PROVE  DataFits(s, e)
<1> DEFINE total == k + sent
           left  == taken - sent
<1>0. Known(s)
  BY DataNow, Zenon
<1>1. /\ total \in Nat /\ left \in 0 .. PipeSize /\ total <= pipe[s] + taken
      /\ pipe[s] + taken - total = left /\ left <= left /\ total <= room[s]
      /\ left > 0 <=> sent < taken
      /\ sent < taken \/ left = 0
  <2>1. PipeSize \in Nat
    BY SizeAssumption, Zenon
  <2>2. total \in Nat /\ total <= pipe[s] + taken /\ total <= room[s]
    OBVIOUS
  <2>3. left \in 0 .. PipeSize /\ left <= left /\ pipe[s] + taken - total = left
    BY <2>1
  <2>4. (left > 0 <=> sent < taken) /\ (sent < taken \/ left = 0)
    BY Stuck, Zenon
  <2> QED BY <2>2, <2>3, <2>4, Zenon
<1>2. /\ pipe[s] - k + taken - sent = pipe[s] + taken - total
      /\ out[s] + k + sent = out[s] + total /\ room[s] - k - sent = room[s] - total
  <2>1. out[s] \in Nat /\ room[s] \in Int
    BY <1>0 DEF Known
  <2> QED BY <2>1
<1>3. DataMoves(s, taken, total, left, watch)
  <2>1. pipe' = [pipe EXCEPT ![s] = @ + taken - total]
    BY <1>2, Zenon DEF Pumped
  <2>2. out' = [out EXCEPT ![s] = @ + total] /\ room' = [room EXCEPT ![s] = @ - total]
    BY <1>2, Zenon DEF Pumped
  <2>3. damaged' \in {damaged, damaged \cup {s}}
    BY Zenon DEF Pumped
  <2>4. /\ src' = [src EXCEPT ![s] = @ - taken] /\ arrived' = arrived
        /\ pipe_pending' = [pipe_pending EXCEPT ![s] = left]
        /\ wr' = [wr EXCEPT ![s] = watch]
    BY Zenon DEF Pumped
  <2> HIDE DEF total, left
  <2> QED BY <2>1, <2>2, <2>3, <2>4, Zenon DEF DataMoves
<1> HIDE DEF total, left
<1>4. ASSUME s \notin damaged'
      PROVE  Conserved(s) /\ (sent < taken => watch = 1)
  <2>1. s \notin damaged /\ (sent < taken => watch = 1)
    BY <1>4, Zenon DEF Pumped
  <2> QED BY <1>0, <2>1, Zenon DEF Open, Known
<1>5. watch = 1 => e = "PIPE_DIRTY"
  BY Zenon
<1>6. e = "ACTIVE" => left = 0
  BY <1>1, Zenon
<1>7. MovesWell(s, taken, total, left, watch, e)
  BY <1>1, <1>4, <1>5, <1>6, Zenon DEF MovesWell
<1> QED BY <1>3, <1>7, MovesFits, Zenon

(* The states a callback goes through before it pumps. *)
First(a) == IF a = "PIPE_DIRTY" THEN <<"DRAINING", "ACTIVE">> ELSE <<>>

\* They are a path to ACTIVE, and on to a dirty pipe.
LEMMA PumpGoes ==
    ASSUME NEW a \in {"ACTIVE", "PIPE_DIRTY"}
    PROVE  Goes(a, First(a), "ACTIVE") /\ Goes(a, First(a) \o <<"PIPE_DIRTY">>, "PIPE_DIRTY")
<1>1. Goes("ACTIVE", <<>>, "ACTIVE") /\ Goes("ACTIVE", <<"PIPE_DIRTY">>, "PIPE_DIRTY")
  BY GoesOne, Zenon DEF States, ValidTransitions
<1>2. Goes("PIPE_DIRTY", <<"DRAINING", "ACTIVE">>, "ACTIVE")
  BY GoesTwo, Zenon DEF States, ValidTransitions
<1>3. Goes(a, First(a), "ACTIVE")
  BY <1>1, <1>2, Zenon DEF First
<1> QED BY <1>1, <1>3, GoesOn, Zenon

\* The states of a drain.
LEMMA DrainGoes ==
    /\ Goes("PIPE_DIRTY", <<"DRAINING", "ACTIVE">>, "ACTIVE")
    /\ Goes("PIPE_DIRTY", <<"DRAINING", "PIPE_DIRTY">>, "PIPE_DIRTY")
  BY GoesTwo, Zenon DEF States, ValidTransitions

\* A callback's data fits the state it leaves its session in.
LEMMA FitsKeeps ==
    ASSUME DataInv, NEW s \in Sessions, NEW e, NEW d, DataFits(s, e), OnlyMoves(s, d),
           d = e \/ d \in Gone
    PROVE  RefInv' /\ DataInv'
<1>1. DataOf(s)'
  BY SameDataKept, Zenon DEF DataFits, OnlyMoves
<1> QED BY <1>1, OneData, Zenon DEF DataFits, OnlyMoves

\* session_in_cb that pumps keeps what is known of the references and the data.
LEMMA InPumpKeeps ==
    ASSUME Counts, RefInv, DataInv, NEW s \in Sessions, InPump(s)
    PROVE  RefInv' /\ DataInv'
<1> DEFINE k == IF state(s) = "PIPE_DIRTY" THEN Sendable(s) ELSE 0
           r == room[s] - k
           n == Min({PipeSize, src[s]})
           first == First(state(s))
<1>0. Known(s)
  BY DataNow, Zenon
<1>1. /\ state(s) \in {"ACTIVE", "PIPE_DIRTY"} /\ (state(s) = "PIPE_DIRTY" => Drained(s))
      /\ \/ n <= r /\ Pumped(s, k, n, n, 0) /\ Keep(s, first)
         \/ /\ n > r
            /\ \E taken \in r + 1 .. n, watch \in {0, 1} : Pumped(s, k, taken, r, watch)
            /\ \/ Keep(s, first \o <<"PIPE_DIRTY">>)
               \/ Close(s, first \o <<"PIPE_DIRTY">>)
         \/ Pumped(s, k, 0, 0, 0) /\ Close(s, first)
  BY Zenon DEF InPump, First
<1>2. k \in Nat /\ k = pipe[s] /\ k <= room[s]
  <2>1. CASE state(s) = "PIPE_DIRTY"
    <3>1. k = Sendable(s) /\ Sendable(s) = pipe_pending[s]
      BY <1>1, <2>1, Zenon DEF Drained
    <3>2. pipe[s] <= pipe_pending[s]
      BY <1>0, <2>1, Zenon DEF Known, Open
    <3> QED BY <1>0, <3>1, <3>2 DEF Known
  <2>2. CASE state(s) = "ACTIVE"
    BY <1>0, <2>2 DEF Known
  <2> QED BY <1>1, <2>1, <2>2, Zenon
<1>3. r \in Nat /\ n \in Nat /\ n <= PipeSize /\ n <= src[s] /\ k + r = room[s]
  <2>1. PipeSize \in Nat /\ src[s] \in Nat /\ room[s] \in Nat
    BY <1>0 DEF Known
  <2>2. n \in Nat /\ n <= PipeSize /\ n <= src[s]
    BY <2>1, Least2, Zenon
  <2> QED BY <1>2, <2>1, <2>2
<1>4. Goes(state(s), first, "ACTIVE") /\ Goes(state(s), first \o <<"PIPE_DIRTY">>,
"PIPE_DIRTY")
  BY <1>1, PumpGoes, Zenon
<1> HIDE DEF k, r, n, first
<1>5. CASE n <= r /\ Pumped(s, k, n, n, 0) /\ Keep(s, first)
  <2>1. PICK w \in {0, 1} : w = 0 /\ Pumped(s, k, n, n, w)
    BY <1>5, Zenon
  <2>2. n <= n /\ ~(n < n) /\ k + n <= room[s]
    BY <1>2, <1>3, <1>5
  <2>3. DataFits(s, "ACTIVE")
    BY <1>1, <1>2, <1>3, <2>1, <2>2, PumpedFits
  <2>4. OnlyMoves(s, "ACTIVE")
    BY <1>1, <1>4, <1>5, KeepMoves, Zenon
  <2> QED BY <2>3, <2>4, FitsKeeps, Zenon
<1>6. ASSUME n > r, NEW taken \in r + 1 .. n, NEW watch \in {0, 1},
             Pumped(s, k, taken, r, watch),
             Keep(s, first \o <<"PIPE_DIRTY">>) \/ Close(s, first \o <<"PIPE_DIRTY">>)
      PROVE  RefInv' /\ DataInv'
  <2>1. /\ taken \in Nat /\ taken <= src[s] /\ taken <= PipeSize /\ r <= taken /\ r < taken
        /\ k + r <= room[s]
    <3>1. PipeSize \in Nat /\ src[s] \in Nat /\ room[s] \in Nat
      BY <1>0 DEF Known
    <3> QED BY <1>2, <1>3, <3>1
  <2>2. DataFits(s, "PIPE_DIRTY")
    BY <1>1, <1>2, <1>3, <1>6, <2>1, PumpedFits, Zenon
  <2>3. CASE Keep(s, first \o <<"PIPE_DIRTY">>)
    <3>1. OnlyMoves(s, "PIPE_DIRTY")
      BY <1>1, <1>4, <2>3, KeepMoves, Zenon
    <3> QED BY <2>2, <3>1, FitsKeeps, Zenon
  <2>4. CASE Close(s, first \o <<"PIPE_DIRTY">>)
    <3>1. OnlyMoves(s, "DESTROY_PENDING")
      BY <1>1, <1>4, <2>4, CloseMoves, Zenon
    <3> QED BY <2>2, <3>1, FitsKeeps, Zenon DEF Gone
  <2> QED BY <1>6, <2>3, <2>4, Zenon
<1>7. CASE Pumped(s, k, 0, 0, 0) /\ Close(s, first)
  <2>1. PICK m \in Nat, w \in {0, 1} : m = 0 /\ w = 0 /\ Pumped(s, k, m, m, w)
    BY <1>7, Zenon
  <2>2. /\ m <= m /\ ~(m < m) /\ k + m <= room[s] /\ m <= src[s] /\ m <= PipeSize
    <3>1. PipeSize \in Nat /\ src[s] \in Nat /\ room[s] \in Nat
      BY <1>0 DEF Known
    <3> QED BY <1>2, <2>1, <3>1
  <2>3. DataFits(s, "ACTIVE")
    BY <1>1, <1>2, <2>1, <2>2, PumpedFits
  <2>4. OnlyMoves(s, "DESTROY_PENDING")
    BY <1>1, <1>4, <1>7, CloseMoves, Zenon
  <2> QED BY <2>3, <2>4, FitsKeeps, Zenon DEF Gone
<1> QED BY <1>1, <1>5, <1>6, <1>7, Zenon

\* So do session_out_cb, session_in_cb on a pipe that stays dirty, and a hangup.
LEMMA CallbackKeeps ==
    ASSUME Counts, RefInv, DataInv, NEW s \in Sessions, Callback(s)
    PROVE  RefInv' /\ DataInv'
<1>1. CASE Hangup(s)
  <2>1. state(s) \in {"ACTIVE", "PIPE_DIRTY"} /\ Close(s, <<>>) /\ UNCHANGED <<dataVars,
  damaged>>
    BY <1>1, Ref, Zenon DEF Hangup, Held
  <2>2. Goes(state(s), <<>>, state(s))
    BY <2>1, GoesOne, Zenon DEF States
  <2>3. OnlyMoves(s, "DESTROY_PENDING")
    BY <2>1, <2>2, CloseMoves, Zenon
  <2>4. DataFits(s, "DESTROY_PENDING")
    BY <2>1, NoData, SameDataKept, Zenon DEF DataFits, Gone
  <2> QED BY <2>3, <2>4, FitsKeeps, Zenon
<1>2. CASE session_out_cb(s)
  <2>1. /\ state(s) = "PIPE_DIRTY" /\ state(s) \in {"ACTIVE", "PIPE_DIRTY"}
        /\ Goes(state(s), <<"DRAINING", "ACTIVE">>, "ACTIVE")
        /\ Goes(state(s), <<"DRAINING", "PIPE_DIRTY">>, "PIPE_DIRTY")
    BY <1>2, DrainGoes, Zenon DEF session_out_cb
  <2>2. CASE DrainBlocked(s) /\ Keep(s, <<"DRAINING", "PIPE_DIRTY">>)
    BY <2>1, <2>2, DrainBlockedFits, KeepMoves, FitsKeeps, Zenon
  <2>3. CASE DrainFails(s) /\ Close(s, <<"DRAINING", "PIPE_DIRTY">>)
    BY <2>1, <2>3, DrainFailsFits, CloseMoves, FitsKeeps, Zenon DEF Gone
  <2>4. CASE DrainComplete(s) /\ Keep(s, <<"DRAINING", "ACTIVE">>)
    BY <2>1, <2>4, DrainCompleteFits, KeepMoves, FitsKeeps, Zenon
  <2>5. CASE DrainComplete(s) /\ Close(s, <<"DRAINING", "ACTIVE">>)
    BY <2>1, <2>5, DrainCompleteFits, CloseMoves, FitsKeeps, Zenon DEF Gone
  <2> QED BY <1>2, <2>2, <2>3, <2>4, <2>5, Zenon DEF session_out_cb
<1>3. CASE InBlocked(s)
  <2>1. /\ state(s) = "PIPE_DIRTY" /\ state(s) \in {"ACTIVE", "PIPE_DIRTY"}
        /\ Goes(state(s), <<"DRAINING", "PIPE_DIRTY">>, "PIPE_DIRTY")
        /\ DrainBlocked(s) \/ DrainFails(s)
        /\ Keep(s, <<"DRAINING", "PIPE_DIRTY">>)
    BY <1>3, DrainGoes, Zenon DEF InBlocked
  <2>2. DataFits(s, "PIPE_DIRTY")
    BY <2>1, DrainBlockedFits, DrainFailsFits, Zenon
  <2> QED BY <2>1, <2>2, KeepMoves, FitsKeeps, Zenon
<1>4. CASE InPump(s)
  BY <1>4, InPumpKeeps, Zenon
<1> QED BY <1>1, <1>2, <1>3, <1>4, Zenon DEF Callback

-----------------------------------------------------------------------------
(* The other steps. *)

\* The creator's steps leave the data alone.
LEMMA OwnerKeeps ==
    ASSUME Counts, RefInv, DataInv, NEW s \in Sessions, Owner(s)
    PROVE  RefInv' /\ DataInv'
<1>1. DataTypes' /\ \A x \in Sessions : SameData(x)
  <2>1. UNCHANGED <<dataVars, damaged>>
    BY Zenon DEF Owner, atpd_session_create, atpd_session_register, RegisterFails, OwnerPut,
           atpd_session_destroy, histVars
  <2> QED BY <2>1, NoData, Zenon
<1>2. CASE atpd_session_create(s)
  <2>1. state(s) = "NONE"
    BY <1>2, Zenon DEF atpd_session_create
  <2>2. OnlyMoves(s, "IDLE")
    BY <1>2, CreateMoves, Zenon
  <2>3. DataOf(s)'
    BY <1>1, <2>1, <2>2, SameDataKept, Zenon DEF OnlyMoves
  <2> QED BY <1>1, <2>2, <2>3, OneData, Zenon DEF OnlyMoves
<1>3. CASE atpd_session_register(s)
  <2>1. state(s) = "IDLE"
    BY <1>3, Zenon DEF atpd_session_register
  <2>2. OnlyMoves(s, "ACTIVE")
    BY <1>3, RegisterMoves, Zenon
  <2>3. DataOf(s)'
    BY <1>1, <2>1, <2>2, SameDataKept, Zenon DEF OnlyMoves
  <2> QED BY <1>1, <2>2, <2>3, OneData, Zenon DEF OnlyMoves
<1>4. CASE RegisterFails(s)
  <2>1. state(s) = "IDLE"
    BY <1>4, Zenon DEF RegisterFails
  <2>2. OnlyMoves(s, "IDLE")
    BY <1>4, RegisterFailsMoves, Zenon
  <2>3. DataOf(s)'
    BY <1>1, <2>1, <2>2, SameDataKept, Zenon DEF OnlyMoves
  <2> QED BY <1>1, <2>2, <2>3, OneData, Zenon DEF OnlyMoves
<1>5. CASE OwnerPut(s)
  <2>1. PICK e : OnlyMoves(s, e) /\ (e = "DESTROYED" \/ e = state(s))
    BY <1>5, OwnerPutMoves, Zenon
  <2>2. DataOf(s)'
    BY <1>1, <2>1, SameDataKept, Zenon DEF OnlyMoves, Gone
  <2> QED BY <1>1, <2>1, <2>2, OneData, Zenon DEF OnlyMoves
<1>6. CASE atpd_session_destroy(s)
  <2>1. OnlyMoves(s, "DESTROY_PENDING")
    BY <1>6, DestroyMoves, Zenon
  <2>2. DataOf(s)'
    BY <2>1, SameDataKept, Zenon DEF OnlyMoves, Gone
  <2> QED BY <1>1, <2>1, <2>2, OneData, Zenon DEF OnlyMoves
<1> QED BY <1>2, <1>3, <1>4, <1>5, <1>6, Zenon DEF Owner

(* A step that has nothing to do with references. *)
refsSame == UNCHANGED <<walk, refVars, owners, registry, handlers, gc_queue>>

\* It leaves the references as they are.
LEMMA RefsKept ==
    ASSUME RefInv, refsSame
    PROVE  RefInv' /\ \A x \in Sessions : state(x)' = state(x)
<1>1. /\ walk' = walk /\ ref' = ref /\ freed' = freed /\ touched' = touched /\ owners' = owners
      /\ registry' = registry /\ handlers' = handlers /\ gc_queue' = gc_queue
  BY Zenon DEF refsSame, refVars
<1>2. \A x \in Sessions : state(x)' = state(x)
  BY <1>1, Zenon DEF state
<1>3. ASSUME NEW x \in Sessions PROVE Held(x)' /\ ref'[x] = Holders(x)' /\ Valid(walk'[x])
  BY <1>1, <1>2, Zenon DEF RefInv, Held, Open, Holders
<1> QED BY <1>1, <1>2, <1>3, Zenon DEF RefInv, RefTypes

\* Neither references nor data.
LEMMA NothingMoves ==
    ASSUME RefInv, DataInv, refsSame, UNCHANGED <<dataVars, damaged>>
    PROVE  RefInv' /\ DataInv'
<1>1. RefInv' /\ \A x \in Sessions : state(x)' = state(x)
  BY RefsKept, Zenon
<1>2. DataTypes' /\ \A x \in Sessions : SameData(x)
  BY NoData, Zenon
<1> QED BY <1>1, <1>2, SameDataKept, Zenon DEF DataInv

\* Data that arrives waits on fd_in.
LEMMA ArriveKeeps ==
    ASSUME RefInv, DataInv, NEW s \in Sessions, Arrive(s)
    PROVE  RefInv' /\ DataInv'
<1>0. Known(s)
  BY DataNow, Zenon
<1>1. /\ refsSame /\ handlers[s] # {} /\ src' = [src EXCEPT ![s] = @ + 1]
      /\ arrived' = [arrived EXCEPT ![s] = @ + 1] /\ pipe' = pipe
      /\ pipe_pending' = pipe_pending /\ out' = out /\ room' = room /\ wr' = wr
      /\ damaged' = damaged
  BY Zenon DEF Arrive, refsSame, histVars
<1>2. RefInv' /\ \A x \in Sessions : state(x)' = state(x)
  BY <1>1, RefsKept, Zenon
<1>3. DataTypes' /\ src'[s] = src[s] + 1 /\ arrived'[s] = arrived[s] + 1
  BY <1>1 DEF DataInv, DataTypes
<1>4. ASSUME NEW x \in Sessions \ {s} PROVE DataOf(x)'
  <2>1. SameData(x)
    BY <1>1, Zenon DEF SameData, DataInv, DataTypes
  <2> QED BY <1>2, <2>1, SameDataKept, Zenon
<1>5. DataOf(s)'
  <2>1. Open(s) /\ state(s) # "NONE"
    BY <1>1, Ref, Zenon DEF Held, Open
  <2>2. Recorded(s)'
    BY <1>1, <1>2, <2>1, Zenon DEF DataInv, DataOf, Recorded
  <2>3. ASSUME s \notin damaged PROVE Conserved(s)'
    <3>1. Conserved(s)
      BY <1>0, <2>1, <2>3, Zenon DEF Known
    <3>2. src[s] + pipe[s] + out[s] = arrived[s]
      BY <3>1, Zenon DEF Conserved
    <3>3. (src[s] + 1) + pipe[s] + out[s] = arrived[s] + 1
      <4>1. src[s] \in Nat /\ pipe[s] \in Nat /\ out[s] \in Nat
        BY <1>0 DEF Known
      <4> QED BY <3>2, <4>1
    <3> QED BY <1>1, <1>2, <1>3, <3>1, <3>3, Zenon DEF Conserved
  <2> QED BY <1>1, <1>2, <2>1, <2>2, <2>3, Zenon DEF DataOf
<1> QED BY <1>2, <1>3, <1>4, <1>5, Zenon DEF DataInv

\* A peer that reads makes room.
LEMMA SinkKeeps ==
    ASSUME RefInv, DataInv, NEW s \in Sessions, SinkReads(s)
    PROVE  RefInv' /\ DataInv'
<1>0. Known(s)
  BY DataNow, Zenon
<1>1. /\ refsSame /\ room' = [room EXCEPT ![s] = @ + 1] /\ room[s] < SinkRoom
      /\ src' = src /\ arrived' = arrived /\ pipe' = pipe /\ pipe_pending' = pipe_pending
      /\ out' = out /\ wr' = wr /\ damaged' = damaged
  BY Zenon DEF SinkReads, refsSame, histVars
<1>2. RefInv' /\ \A x \in Sessions : state(x)' = state(x)
  BY <1>1, RefsKept, Zenon
<1>3. room[s] + 1 \in 0 .. SinkRoom
  BY <1>0, <1>1 DEF Known
<1>4. DataTypes'
  BY <1>1, <1>3, Zenon DEF DataInv, DataTypes
<1>5. \A x \in Sessions : DataOf(x)'
  BY <1>1, <1>2, SameDataKept, Zenon DEF SameData
<1> QED BY <1>2, <1>4, <1>5, Zenon DEF DataInv

\* A close-all empties the registry, unless it says that it found no memory; it
\* loses no data of a session that stays open.
LEMMA DrainAllKeeps ==
    ASSUME Counts, RefInv, DataInv, DrainAll
    PROVE  /\ RefInv' /\ DataInv'
           /\ undrained' \in {undrained, 1} /\ (undrained' = 0 => registry' = {})
           /\ UNCHANGED <<handlers, gc_queue, registry>> \/ (registry' = {} /\ undrained' = undrained)
<1>1. \/ /\ ClosesAll /\ undrained' = undrained
         /\ pipe' = [s \in Sessions |-> IF s \in registry THEN 0 ELSE pipe[s]]
         /\ pipe_pending' = [s \in Sessions |-> IF s \in registry THEN 0 ELSE pipe_pending[s]]
         /\ UNCHANGED <<src, arrived, out, room, wr, damaged>>
      \/ /\ undrained' = IF registry = {} THEN undrained ELSE 1
         /\ refsSame /\ UNCHANGED <<dataVars, damaged>>
  <2>1. CASE registry # {} /\ Touch(registry, LAMBDA x : <<1>> \o ClosingRefs(x) \o <<-1>>,
  ClosingStates)
             /\ Unlink(registry) /\ owners' = owners
    BY <2>1, Zenon DEF DrainAll, ClosesAll, Touch, Touched, histVars, refsSame
  <2> QED BY <2>1, Zenon DEF DrainAll, histVars, refsSame
<1>2. CASE /\ ClosesAll /\ undrained' = undrained
           /\ pipe' = [s \in Sessions |-> IF s \in registry THEN 0 ELSE pipe[s]]
           /\ pipe_pending' = [s \in Sessions |-> IF s \in registry THEN 0 ELSE pipe_pending[s]]
           /\ UNCHANGED <<src, arrived, out, room, wr, damaged>>
  <2>1. /\ RefInv' /\ registry' = {}
        /\ \A s \in registry : state(s)' = "DESTROY_PENDING"
        /\ \A x \in Sessions \ registry : state(x)' = state(x)
    BY <1>2, DrainAllMoves, Zenon
  <2>2. 0 \in 0 .. PipeSize
    BY SizeAssumption
  <2>3. DataTypes'
    BY <1>2, <2>2, Zenon DEF DataInv, DataTypes
  <2>4. ASSUME NEW x \in Sessions PROVE DataOf(x)'
    <3>1. CASE x \in registry
      BY <2>1, <3>1, SameDataKept, Zenon DEF Gone
    <3>2. CASE x \notin registry
      <4>1. SameData(x)
        BY <1>2, <3>2, Zenon DEF SameData
      <4> QED BY <2>1, <3>2, <4>1, SameDataKept, Zenon
    <3> QED BY <3>1, <3>2, Zenon
  <2> QED BY <1>2, <2>1, <2>3, <2>4, Zenon DEF DataInv
<1>3. CASE /\ undrained' = IF registry = {} THEN undrained ELSE 1
           /\ refsSame /\ UNCHANGED <<dataVars, damaged>>
  <2>1. RefInv' /\ DataInv'
    BY <1>3, NothingMoves, Zenon
  <2>2. registry' = registry /\ handlers' = handlers /\ gc_queue' = gc_queue
    BY <1>3, Zenon DEF refsSame
  <2> QED BY <1>3, <2>1, <2>2
<1> QED BY <1>1, <1>2, <1>3, Zenon

\* The collector leaves the data alone.
LEMMA CollectKeeps ==
    ASSUME Counts, RefInv, DataInv, Collect
    PROVE  RefInv' /\ DataInv' /\ gc_queue' = {} /\ UNCHANGED <<registry, handlers, undrained>>
<1>1. /\ RefInv' /\ gc_queue' = {}
      /\ \A s \in gc_queue : state(s)' \in Gone
      /\ \A x \in Sessions \ gc_queue : state(x)' = state(x)
  BY CollectMoves, Zenon DEF Gone
<1>2. UNCHANGED <<dataVars, damaged>> /\ UNCHANGED <<registry, handlers, undrained>>
  BY Zenon DEF Collect, histVars
<1>3. DataTypes' /\ \A x \in Sessions : SameData(x)
  BY <1>2, NoData, Zenon
<1>4. \A x \in Sessions : DataOf(x)'
  BY <1>1, <1>3, SameDataKept, Zenon
<1> QED BY <1>1, <1>2, <1>3, <1>4, Zenon DEF DataInv

\* So does the end of the reactor.
LEMMA ReactorKeeps ==
    ASSUME Counts, RefInv, DataInv, CleanupReactor
    PROVE  RefInv' /\ DataInv'
<1>1. RefInv' /\ \A x \in Sessions : state(x)' = state(x)
  BY ReactorMoves, Zenon
<1>2. UNCHANGED <<dataVars, damaged>>
  BY Zenon DEF CleanupReactor, histVars
<1>3. DataTypes' /\ \A x \in Sessions : SameData(x)
  BY <1>2, NoData, Zenon
<1> QED BY <1>1, <1>3, SameDataKept, Zenon DEF DataInv

\* Every step keeps the references and the data.
LEMMA HoldsStep ==
    ASSUME Counts, RefInv, DataInv, [SessionNext]_sessionVars
    PROVE  RefInv' /\ DataInv'
<1>1. CASE UNCHANGED sessionVars
  <2>1. refsSame /\ UNCHANGED <<dataVars, damaged>>
    BY <1>1, Zenon DEF sessionVars, refsSame, histVars
  <2> QED BY <2>1, NothingMoves, Zenon
<1>2. CASE \E s \in Sessions : Owner(s) \/ Callback(s) \/ Arrive(s) \/ SinkReads(s)
  BY <1>2, OwnerKeeps, CallbackKeeps, ArriveKeeps, SinkKeeps, Zenon
<1>3. CASE VpnUp \/ VpnDown
  <2>1. refsSame /\ UNCHANGED <<dataVars, damaged>>
    BY <1>3, Zenon DEF VpnUp, VpnDown, refsSame, histVars
  <2> QED BY <2>1, NothingMoves, Zenon
<1>4. CASE VpnTeardown \/ CleanupDrain
  BY <1>4, DrainAllKeeps, Zenon DEF VpnTeardown, CleanupDrain
<1>5. CASE atpd_session_gc_process \/ CleanupCollect
  BY <1>5, CollectKeeps, Zenon DEF atpd_session_gc_process, CleanupCollect
<1>6. CASE CleanupReactor
  BY <1>6, ReactorKeeps, Zenon
<1> QED BY <1>1, <1>2, <1>3, <1>4, <1>5, <1>6, Zenon DEF SessionNext, Cleanup

\* The cleanup does its parts in their order, and nothing is registered, queued
\* or watched again after them.
LEMMA CleanupStep ==
    ASSUME Counts, RefInv, DataInv, CleanupInv, [SessionNext]_sessionVars
    PROVE  CleanupInv'
<1>1. CASE UNCHANGED <<registry, handlers, gc_queue, undrained, phase, vpn>>
  BY <1>1, Zenon DEF CleanupInv
<1>2. CASE UNCHANGED sessionVars
  BY <1>1, <1>2, Zenon DEF sessionVars, histVars
<1>3. ASSUME NEW s \in Sessions, Owner(s) \/ Callback(s) \/ Arrive(s) \/ SinkReads(s)
      PROVE  CleanupInv'
  <2>1. UNCHANGED <<undrained, phase, vpn>>
        /\ (phase = "run" \/ UNCHANGED <<registry, handlers, gc_queue>>)
    <3>1. CASE Owner(s)
      BY <3>1, Zenon DEF Owner, atpd_session_create, atpd_session_register, RegisterFails,
                         OwnerPut, atpd_session_destroy, histVars
    <3>2. CASE Callback(s)
      BY <3>2, Zenon DEF Callback, Hangup, session_out_cb, InBlocked, InPump, Keep, Close
    <3>3. CASE Arrive(s) \/ SinkReads(s)
      BY <3>3, Zenon DEF Arrive, SinkReads, histVars
    <3> QED BY <1>3, <3>1, <3>2, <3>3, Zenon
  <2> QED BY <1>1, <2>1, Zenon DEF CleanupInv
<1>4. CASE VpnUp \/ VpnDown
  <2>1. /\ registry' = registry /\ handlers' = handlers /\ gc_queue' = gc_queue
        /\ undrained' = undrained /\ phase' = phase /\ vpn' \in {0, 1}
    BY <1>4, Zenon DEF VpnUp, VpnDown, histVars
  <2> QED BY <2>1, Zenon DEF CleanupInv
<1>5. CASE VpnTeardown
  <2>1. phase = "run" /\ phase' = "run" /\ vpn' = 0
    BY <1>5, Zenon DEF VpnTeardown
  <2>2. undrained' \in {undrained, 1}
    BY <1>5, DrainAllKeeps, Zenon DEF VpnTeardown
  <2> QED BY <2>1, <2>2, Zenon DEF CleanupInv
<1>6. CASE CleanupDrain
  <2>1. phase' = "drained" /\ vpn' = vpn
    BY <1>6, Zenon DEF CleanupDrain
  <2>2. undrained' \in {undrained, 1} /\ (undrained' = 0 => registry' = {})
    BY <1>6, DrainAllKeeps, Zenon DEF CleanupDrain
  <2> QED BY <2>1, <2>2, Zenon DEF CleanupInv
<1>7. CASE atpd_session_gc_process \/ CleanupCollect
  <2>1. /\ gc_queue' = {} /\ UNCHANGED <<registry, handlers, undrained>>
    BY <1>7, CollectKeeps, Zenon DEF atpd_session_gc_process, CleanupCollect
  <2>2. /\ vpn' = vpn
        /\ (phase = "run" /\ phase' = "run") \/ (phase = "drained" /\ phase' = "collected")
    BY <1>7, Zenon DEF atpd_session_gc_process, CleanupCollect, Collect
  <2> QED BY <2>1, <2>2, Zenon DEF CleanupInv
<1>8. CASE CleanupReactor
  <2>1. /\ phase = "collected" /\ phase' = "end" /\ vpn' = vpn /\ undrained' = undrained
        /\ registry' = registry /\ gc_queue' = gc_queue
    BY <1>8, Zenon DEF CleanupReactor, histVars
  <2>2. \A x \in Sessions : handlers'[x] = {}
    BY <1>8, ReactorMoves, Zenon
  <2> QED BY <2>1, <2>2, Zenon DEF CleanupInv
<1> QED BY <1>2, <1>3, <1>4, <1>5, <1>6, <1>7, <1>8, Zenon DEF SessionNext, Cleanup

\* No session exists at first.
LEMMA SessionStarts == SessionInit => SessionInv
<1> SUFFICES ASSUME SessionInit PROVE SessionInv
  BY Zenon
<1>1. /\ walk \in [Sessions -> Seq(States) \ {<<>>}]
      /\ \A s \in Sessions : Valid(walk[s]) /\ state(s) = "NONE"
  <2>1. Valid(<<"NONE">>) /\ LastOf(<<"NONE">>) = "NONE" /\ <<"NONE">> \in Seq(States) \ {<<>>}
    BY DEF Valid, LastOf, States
  <2>2. \A s \in Sessions : walk[s] = <<"NONE">>
    BY Zenon DEF SessionInit
  <2> QED BY <2>1, <2>2, Zenon DEF SessionInit, state, LastOf
<1>2. RefTypes /\ touched = 0
  BY <1>1, Zenon DEF SessionInit, RefTypes
<1>3. ASSUME NEW s \in Sessions PROVE Held(s) /\ ref[s] = Holders(s)
  BY <1>1 DEF SessionInit, Held, Open, Holders, One
<1>4. CleanupInv
  BY Zenon DEF SessionInit, CleanupInv
<1>5. DataTypes
  BY SizeAssumption DEF SessionInit, DataTypes
<1>6. ASSUME NEW s \in Sessions PROVE DataOf(s)
  BY <1>1, Zenon DEF SessionInit, DataOf, Open, Fresh
<1> QED BY <1>1, <1>2, <1>3, <1>4, <1>5, <1>6, Zenon DEF SessionInv, RefInv, DataInv

\* The invariant of the sessions is kept by every step.
LEMMA SessionStep ==
    ASSUME Counts
    PROVE  SessionInv /\ [SessionNext]_sessionVars => SessionInv'
  BY HoldsStep, CleanupStep, Zenon DEF SessionInv

\* It says that the references are exact.
LEMMA HeldFollows ==
    ASSUME Counts
    PROVE  SessionInv => SessionsHeld
<1> SUFFICES ASSUME SessionInv PROVE SessionsHeld
  BY Zenon
<1>1. RefInv /\ CleanupInv /\ DataInv
  BY Zenon DEF SessionInv
<1>2. NoUseAfterFree
  <2>1. \A s \in Sessions : \A i \in 1 .. Len(walk[s]) - 1 :
            <<walk[s][i], walk[s][i + 1]>> \in ValidTransitions
    BY <1>1, Zenon DEF RefInv, Valid
  <2>2. ASSUME NEW s \in freed
        PROVE  s \notin registry \cup owners \cup gc_queue /\ handlers[s] = {}
    <3>1. s \in Sessions
      BY <1>1, Zenon DEF RefInv, RefTypes
    <3>2. Held(s) /\ state(s) = "DESTROYED"
      BY <1>1, <3>1, Ref, Zenon DEF Held
    <3> QED BY <3>2, Zenon DEF Held, Open
  <2> QED BY <1>1, <2>1, <2>2, Zenon DEF RefInv, NoUseAfterFree
<1>3. ASSUME NEW s \in Sessions
      PROVE  /\ ref[s] \in 0 .. 6
             /\ ref[s] = One(s \in owners) + One(s \in registry) + Cardinality(handlers[s])
                         + One(s \in gc_queue)
  <2>1. Held(s) /\ ref[s] = Holders(s)
    BY <1>1, Ref, Zenon
  <2>2. Cardinality(handlers[s]) = IF handlers[s] = {} THEN 0 ELSE 2
    BY <2>1, BothTwo, Zenon DEF Held, Both
  <2> QED BY <2>1, <2>2 DEF Holders, One
<1>4. SessionTypeOK
  <2>1. ref \in [Sessions -> 0 .. 6]
    BY <1>1, <1>3, Zenon DEF RefInv, RefTypes
  <2> QED BY <1>1, <2>1, Zenon DEF SessionTypeOK, RefInv, RefTypes, CleanupInv, DataInv,
             DataTypes, Both
<1> QED BY <1>2, <1>3, <1>4, Zenon DEF SessionsHeld, RefExact

\* It says that no session is leaked.
LEMMA FreedFollows == SessionInv => NoneLeaked
<1> SUFFICES ASSUME SessionInv, phase = "end", undrained = 0, NEW s \in Sessions,
                    state(s) # "NONE", s \notin owners
             PROVE  s \in freed
  BY Zenon DEF NoneLeaked
<1>1. registry = {} /\ gc_queue = {}
  BY Zenon DEF SessionInv, CleanupInv
<1>2. Held(s) /\ state(s) \in States
  BY Ref, Zenon DEF SessionInv
<1> QED BY <1>1, <1>2, Zenon DEF Held, Open, States

-----------------------------------------------------------------------------
(* The theorems. *)

FST == INSTANCE FiniteSetTheorems

\* The library counts as the module does.
LEMMA AsCounted ==
    ASSUME NEW S
    PROVE  FST!Cardinality(S) = Cardinality(S)
  BY Zenon DEF FST!Cardinality, Cardinality

\* Finite sets count as the lemmas say.
LEMMA CountsHold == Counts
<1>1. Cardinality({}) = 0
  BY FST!FS_EmptySet, AsCounted, Zenon
<1>2. Cardinality(Both) = 2
  <2>1. FST!IsFiniteSet({"in"}) /\ Cardinality({"in"}) = 1
    BY FST!FS_Singleton, AsCounted, Zenon
  <2>2. Cardinality({"in"} \cup {"out"}) = 1 + 1
    BY <2>1, FST!FS_AddElement, AsCounted
  <2>3. Both = {"in"} \cup {"out"}
    BY Zenon DEF Both
  <2> QED BY <2>2, <2>3
<1>3. ASSUME NEW n \in Nat, NEW S \in SUBSET (1 .. n)
      PROVE  Cardinality(S) \in Nat /\ Cardinality(S \cup {n + 1}) = Cardinality(S) + 1
  <2>1. FST!IsFiniteSet(S)
    <3>1. FST!IsFiniteSet(1 .. n)
      BY FST!FS_Interval
    <3> QED BY <3>1, FST!FS_Subset, Zenon
  <2>2. n + 1 \notin S
    OBVIOUS
  <2> QED BY <2>1, <2>2, FST!FS_CardinalityType, FST!FS_AddElement, AsCounted, Zenon
<1> QED BY <1>1, <1>2, <1>3, Zenon DEF Counts

\* The invariant of the sessions holds at all times.
LEMMA SessionInvariant == SessionSpec => []SessionInv
  BY SessionStarts, SessionStep, CountsHold, PTL DEF SessionSpec

\* The count of a session (atpd_session_get and put) is at all times the number
\* of those who hold it, and no freed session is used or held, whatever the
\* creator, the reactor's callbacks, the collector and a VPN teardown do, for any
\* number of sessions and any sizes (session.c's ownership contract).
THEOREM SessionsHeldAlways == SessionSpec => []SessionsHeld
  BY SessionInvariant, HeldFollows, CountsHold, PTL

\* No unit is lost or sent twice by the splices of an open session, the record of
\* the pipe is exact, and WRITE is watched exactly while the pipe is dirty, unless
\* a system call on it failed (session_in_cb, session_out_cb and what they call).
THEOREM DataConservedAlways == SessionSpec => []DataConserved
<1>1. SessionInv => DataConserved
  BY Zenon DEF SessionInv, DataInv, DataOf, Conserved, DataConserved
<1> QED BY <1>1, SessionInvariant, PTL

\* When run_event_loop has cleaned up, every session that its creator let go of
\* is freed, wherever the loop left it.
THEOREM NoneLeakedAlways == SessionSpec => []NoneLeaked
  BY SessionInvariant, FreedFollows, PTL

=============================================================================
