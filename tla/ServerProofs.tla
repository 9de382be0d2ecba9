----------------------------- MODULE ServerProofs -----------------------------
(***************************************************************************)
(* Theorems about Server, for every set of connections, every capacity and *)
(* every behaviour of the peers: a bounded backlog, epochs that no two     *)
(* handlers share, and the final screen before the exit status.            *)
(***************************************************************************)
EXTENDS Server, TransportProofs, FiniteSetTheorems, WellFoundedInduction

-----------------------------------------------------------------------------
(* Induction over a set of naturals.                                       *)

LEMMA Least ==
    ASSUME NEW T, T \subseteq Nat, T # {}
    PROVE  \E x \in T : \A y \in T : x <= y
<1>. DEFINE R == OpToRel(<, Nat)
<1>1. IsWellFoundedOn(R, Nat)
  BY NatLessThanWellFounded
<1>2. \A i, j \in Nat : i < j => <<i, j>> \in R
  BY DEF OpToRel
<1>. HIDE DEF R
<1>3. PICK x \in T : \A y \in T : ~(<<y, x>> \in R)
  BY <1>1, WFMin
<1>4. \A y \in T : x <= y
  <2>. TAKE y \in T
  <2>1. x \in Nat /\ y \in Nat /\ ~(y < x)
    BY <1>2, <1>3
  <2>. QED
    BY <2>1
<1>. QED
  BY <1>4, Zenon

LEMMA SetInduction ==
    ASSUME NEW T, 0 \in T, \A n \in Nat : n \in T => n + 1 \in T
    PROVE  \A n \in Nat : n \in T
<1>. SUFFICES ASSUME NEW n \in Nat, n \notin T
              PROVE  FALSE
  OBVIOUS
<1>1. PICK m \in Nat \ T : \A k \in Nat \ T : m <= k
  BY Least
<1>2. m # 0 /\ m \in Nat /\ m \notin T
  BY <1>1
<1>3. m - 1 \in Nat /\ m - 1 \in T
  BY <1>1, <1>2
<1>. QED
  BY <1>2, <1>3
-----------------------------------------------------------------------------
(* The backlog in bytes.                                                   *)

\* f[i] is the size of the first i records of q.
Sums(q, f) ==
    /\ f \in [0..Len(q) -> Nat] /\ f[0] = 0
    /\ \A i \in 1..Len(q) : f[i] = f[i - 1] + RecordCost(q[i])

SumsOf(q, f) == f = [i \in 0..Len(q) |-> IF i = 0 THEN 0 ELSE f[i - 1] + RecordCost(q[i])]

LEMMA BytesAre ==
    ASSUME NEW q, NEW f, SumsOf(q, f)
    PROVE  \E g : SumsOf(q, g) /\ busy_bytes(q) = g[Len(q)]
<1>. DEFINE g == CHOOSE g : SumsOf(q, g)
<1>1. SumsOf(q, g)
  BY Zenon
<1>2. g = CHOOSE h : h = [i \in 0..Len(q) |-> IF i = 0 THEN 0 ELSE h[i - 1] + RecordCost(q[i])]
  BY Zenon DEF SumsOf
<1>3. busy_bytes(q) = g[Len(q)]
  BY <1>2, Zenon DEF busy_bytes
<1>. QED
  BY <1>1, <1>3, Zenon

\* Records of a backlog: each has a size.
Sizable == [op : {"Input"}, seq : Nat, data : Data]

LEMMA CostIs ==
    ASSUME NEW m \in Sizable
    PROVE  RecordCost(m) \in Nat
<1>1. m.data \in Data
  BY DEF Sizable
<1>2. DataLen[m.data] \in Nat
  BY <1>1, ApiAssumption
<1>. QED
  BY <1>2, TransportAssumption DEF RecordCost

LEMMA SumsAre ==
    ASSUME NEW q \in Seq(Sizable)
    PROVE  \E f : Sums(q, f)
<1>. DEFINE P(n, f) == /\ f \in [0..n -> Nat] /\ f[0] = 0
                       /\ \A i \in 1..n : f[i] = f[i - 1] + RecordCost(q[i])
            Q(n) == n <= Len(q) => \E f : P(n, f)
            T == {n \in Nat : Q(n)}
<1>1. \A i \in 1..Len(q) : RecordCost(q[i]) \in Nat
  BY CostIs
<1>2. Q(0)
  <2>1. P(0, [i \in 0..0 |-> 0])
    OBVIOUS
  <2>. QED
    BY <2>1
<1>3. ASSUME NEW n \in Nat, Q(n), n + 1 <= Len(q)
      PROVE  \E f : P(n + 1, f)
  <2>1. n <= Len(q) /\ Len(q) \in Nat /\ n + 1 \in 1..Len(q) /\ n \in 0..n
    BY <1>3
  <2>2. PICK f : P(n, f)
    BY <1>3, <2>1, Zenon
  <2>. DEFINE c == RecordCost(q[n + 1])
              g == [i \in 0..(n + 1) |-> IF i = n + 1 THEN f[n] + c ELSE f[i]]
  <2>3. c \in Nat /\ f[n] \in Nat
    BY <1>1, <2>1, <2>2
  <2>4. /\ \A i \in 0..(n + 1) : g[i] = IF i = n + 1 THEN f[n] + c ELSE f[i]
        /\ g \in [0..(n + 1) -> Nat]
    <3>. HIDE DEF c
    <3>. QED
      BY <2>2, <2>3
  <2>5. g[0] = 0
    BY <2>2, <2>4
  <2>6. ASSUME NEW i \in 1..(n + 1) PROVE g[i] = g[i - 1] + RecordCost(q[i])
    <3>1. CASE i = n + 1
      <4>1. g[i] = f[n] + c /\ i - 1 = n /\ g[n] = f[n]
        <5>. HIDE DEF g
        <5>. QED
          BY <2>4, <3>1
      <4>. QED
        BY <3>1, <4>1, Zenon
    <3>2. CASE i # n + 1
      <4>1. i \in 1..n /\ i \in 0..(n + 1) /\ i - 1 \in 0..(n + 1) /\ i - 1 # n + 1
        BY <3>2
      <4>2. g[i] = f[i] /\ g[i - 1] = f[i - 1]
        <5>. HIDE DEF g
        <5>. QED
          BY <2>4, <3>2, <4>1, Zenon
      <4>. QED
        BY <2>2, <4>1, <4>2, Zenon
    <3>. QED
      BY <3>1, <3>2, Zenon
  <2>. HIDE DEF g
  <2>. QED
    BY <2>4, <2>5, <2>6, Zenon
<1>4. \A n \in Nat : Q(n) => Q(n + 1)
  BY <1>3, Zenon
<1>5. Q(Len(q))
  <2>. HIDE DEF Q
  <2>1. 0 \in T /\ \A n \in Nat : n \in T => n + 1 \in T
    BY <1>2, <1>4
  <2>. HIDE DEF T
  <2>2. Len(q) \in T
    BY <2>1, SetInduction
  <2>. QED
    BY <2>2 DEF T
<1>6. \E f : P(Len(q), f)
  BY <1>5
<1>. QED
  BY <1>6, Zenon DEF Sums

LEMMA SumsRecur ==
    ASSUME NEW q \in Seq(Sizable), NEW f, Sums(q, f)
    PROVE  SumsOf(q, f)
<1>1. /\ f \in [0..Len(q) -> Nat] /\ f[0] = 0 /\ Len(q) \in Nat
      /\ \A i \in 1..Len(q) : f[i] = f[i - 1] + RecordCost(q[i])
  BY DEF Sums
<1>2. f = [i \in 0..Len(q) |-> f[i]]
  BY <1>1, Zenon
<1>3. \A i \in 0..Len(q) : f[i] = IF i = 0 THEN 0 ELSE f[i - 1] + RecordCost(q[i])
  <2>1. \A i \in 0..Len(q) : i = 0 \/ i \in 1..Len(q)
    BY <1>1
  <2>. QED
    BY <1>1, <2>1, Zenon
<1>4. [i \in 0..Len(q) |-> f[i]]
      = [i \in 0..Len(q) |-> IF i = 0 THEN 0 ELSE f[i - 1] + RecordCost(q[i])]
  BY <1>3, Zenon
<1>. QED
  BY <1>2, <1>4, Zenon DEF SumsOf

\* The records before the n-th are n - 1 records, and so on: the recursive
\* definition has one solution.
LEMMA RecurSums ==
    ASSUME NEW q \in Seq(Sizable), NEW g, SumsOf(q, g)
    PROVE  Sums(q, g)
<1>1. \A i \in 1..Len(q) : RecordCost(q[i]) \in Nat
  BY CostIs
<1>. DEFINE n == Len(q)  c(i) == RecordCost(q[i])
<1>2. g = [i \in 0..n |-> IF i = 0 THEN 0 ELSE g[i - 1] + c(i)]
  BY Zenon DEF SumsOf
<1>3. n \in Nat
  OBVIOUS
<1>4. \A i \in 1..n : c(i) \in Nat
  BY <1>1
<1>. HIDE DEF n, c
<1>5. /\ DOMAIN g = 0..n /\ g = [i \in 0..n |-> g[i]]
      /\ \A i \in 0..n : g[i] = IF i = 0 THEN 0 ELSE g[i - 1] + c(i)
  BY <1>2, Zenon
<1>6. /\ g[0] = 0 /\ \A i \in 1..n : g[i] = g[i - 1] + c(i)
  <2>1. 0 \in 0..n /\ \A i \in 1..n : i \in 0..n /\ i # 0
    BY <1>3
  <2>. QED
    BY <1>5, <2>1, Zenon
<1>. DEFINE T == {i \in Nat : i <= n => g[i] \in Nat}
<1>7. 0 \in T
  BY <1>6
<1>8. \A i \in Nat : i \in T => i + 1 \in T
  <2>. SUFFICES ASSUME NEW i \in Nat, i \in T, i + 1 <= n
                PROVE  g[i + 1] \in Nat
    OBVIOUS
  <2>1. i <= n /\ i + 1 \in 1..n /\ (i + 1) - 1 = i
    BY <1>3
  <2>2. g[i] \in Nat
    BY <2>1
  <2>3. g[i + 1] = g[i] + c(i + 1)
    BY <1>6, <2>1
  <2>4. c(i + 1) \in Nat
    BY <1>4, <2>1
  <2>. QED
    BY <2>2, <2>3, <2>4
<1>. HIDE DEF T
<1>9. \A i \in Nat : i \in T
  BY <1>7, <1>8, SetInduction, Zenon
<1>10. \A i \in 0..n : g[i] \in Nat
  BY <1>3, <1>9 DEF T
<1>11. g \in [0..n -> Nat]
  BY <1>5, <1>10, Zenon
<1>. QED
  BY <1>6, <1>11, Zenon DEF Sums, n, c

LEMMA BytesSum ==
    ASSUME NEW q \in Seq(Sizable)
    PROVE  \E f : Sums(q, f) /\ busy_bytes(q) = f[Len(q)]
<1>1. PICK f : Sums(q, f)
  BY SumsAre, Zenon
<1>2. PICK g : SumsOf(q, g) /\ busy_bytes(q) = g[Len(q)]
  BY <1>1, SumsRecur, BytesAre, Zenon
<1>. QED
  BY <1>2, RecurSums, Zenon

LEMMA EmptyBytes ==
    busy_bytes(<<>>) = 0
<1>. DEFINE q == <<>>
<1>1. q \in Seq(Sizable) /\ Len(q) = 0
  OBVIOUS
<1>. HIDE DEF q
<1>2. PICK f : Sums(q, f) /\ busy_bytes(q) = f[Len(q)]
  BY <1>1, BytesSum, Zenon
<1>3. busy_bytes(q) = 0
  BY <1>1, <1>2, Zenon DEF Sums
<1>. QED
  BY <1>3, Zenon DEF q

LEMMA AppendBytes ==
    ASSUME NEW q \in Seq(Sizable), NEW m \in Sizable
    PROVE  /\ busy_bytes(q) \in Nat
           /\ busy_bytes(Append(q, m)) = busy_bytes(q) + RecordCost(m)
<1>. DEFINE r == Append(q, m)  n == Len(q)
<1>1. /\ r \in Seq(Sizable) /\ n \in Nat /\ Len(r) = n + 1 /\ r[n + 1] = m
      /\ \A i \in 1..n : r[i] = q[i]
  OBVIOUS
<1>. HIDE DEF r
<1>2. PICK f : Sums(q, f) /\ busy_bytes(q) = f[n]
  BY BytesSum, Zenon
<1>3. PICK g : Sums(r, g) /\ busy_bytes(r) = g[n + 1]
  BY <1>1, BytesSum, Zenon
<1>. HIDE DEF n
<1>4. /\ f \in [0..n -> Nat] /\ f[0] = 0
      /\ \A i \in 1..n : f[i] = f[i - 1] + RecordCost(q[i])
  BY <1>2, Zenon DEF Sums, n
<1>5. /\ g[0] = 0 /\ \A i \in 1..(n + 1) : g[i] = g[i - 1] + RecordCost(r[i])
  BY <1>1, <1>3, Zenon DEF Sums
<1>. DEFINE T == {i \in Nat : i <= n => g[i] = f[i]}
<1>6. 0 \in T
  BY <1>4, <1>5
<1>7. \A i \in Nat : i \in T => i + 1 \in T
  <2>. SUFFICES ASSUME NEW i \in Nat, i \in T, i + 1 <= n
                PROVE  g[i + 1] = f[i + 1]
    OBVIOUS
  <2>1. i <= n /\ i + 1 \in 1..n /\ i + 1 \in 1..(n + 1) /\ (i + 1) - 1 = i
    BY <1>1
  <2>2. g[i] = f[i]
    BY <2>1
  <2>3. g[i + 1] = g[i] + RecordCost(r[i + 1]) /\ f[i + 1] = f[i] + RecordCost(q[i + 1])
    <3>1. \A j \in 1..n : f[j] = f[j - 1] + RecordCost(q[j])
      BY <1>4
    <3>2. g[i + 1] = g[(i + 1) - 1] + RecordCost(r[i + 1])
      BY <1>5, <2>1, Zenon
    <3>3. f[i + 1] = f[(i + 1) - 1] + RecordCost(q[i + 1])
      BY <3>1, <2>1, Zenon
    <3>. QED
      BY <2>1, <3>2, <3>3, Zenon
  <2>4. r[i + 1] = q[i + 1]
    BY <1>1, <2>1, Zenon
  <2>. QED
    BY <2>2, <2>3, <2>4, Zenon
<1>. HIDE DEF T
<1>8. n \in T
  BY <1>1, <1>6, <1>7, SetInduction, Zenon
<1>9. g[n] = f[n]
  BY <1>1, <1>8 DEF T
<1>10. g[n + 1] = g[n] + RecordCost(r[n + 1])
  <2>1. n + 1 \in 1..(n + 1) /\ (n + 1) - 1 = n
    BY <1>1
  <2>2. g[n + 1] = g[(n + 1) - 1] + RecordCost(r[n + 1])
    BY <1>5, <2>1, Zenon
  <2>. QED
    BY <2>1, <2>2, Zenon
<1>11. f[n] \in Nat
  BY <1>1, <1>4
<1>. QED
  BY <1>1, <1>2, <1>3, <1>9, <1>10, <1>11, Zenon DEF r

LEMMA TailBytes ==
    ASSUME NEW q \in Seq(Sizable), q # <<>>
    PROVE  /\ busy_bytes(Tail(q)) \in Nat /\ busy_bytes(q) \in Nat
           /\ busy_bytes(Tail(q)) <= busy_bytes(q)
<1>. DEFINE r == Tail(q)  n == Len(r)
<1>1. /\ r \in Seq(Sizable) /\ n \in Nat /\ Len(q) = n + 1 /\ q[1] \in Sizable
      /\ \A i \in 1..n : r[i] = q[i + 1]
  OBVIOUS
<1>. HIDE DEF r
<1>2. PICK f : Sums(q, f) /\ busy_bytes(q) = f[n + 1]
  BY <1>1, BytesSum, Zenon
<1>3. PICK g : Sums(r, g) /\ busy_bytes(r) = g[n]
  BY <1>1, BytesSum, Zenon
<1>. HIDE DEF n
<1>4. /\ f \in [0..(n + 1) -> Nat] /\ f[0] = 0
      /\ \A i \in 1..(n + 1) : f[i] = f[i - 1] + RecordCost(q[i])
  BY <1>1, <1>2, Zenon DEF Sums
<1>5. /\ g \in [0..n -> Nat] /\ g[0] = 0
      /\ \A i \in 1..n : g[i] = g[i - 1] + RecordCost(r[i])
  BY <1>1, <1>3, Zenon DEF Sums, n
<1>. DEFINE T == {i \in Nat : i <= n => f[i + 1] >= g[i]}
<1>6. 0 \in T
  <2>1. 0 + 1 \in 0..(n + 1)
    BY <1>1
  <2>2. f[0 + 1] \in Nat
    BY <1>4, <2>1, Zenon
  <2>. QED
    BY <1>5, <2>2
<1>7. \A i \in Nat : i \in T => i + 1 \in T
  <2>. SUFFICES ASSUME NEW i \in Nat, i \in T, i + 1 <= n
                PROVE  f[(i + 1) + 1] >= g[i + 1]
    OBVIOUS
  <2>1. /\ i <= n /\ i + 1 \in 1..n /\ (i + 1) + 1 \in 1..(n + 1) /\ (i + 1) - 1 = i
        /\ ((i + 1) + 1) - 1 = i + 1 /\ i \in 0..n /\ i + 1 \in 0..(n + 1)
    BY <1>1
  <2>2. f[i + 1] >= g[i] /\ f[i + 1] \in Nat /\ g[i] \in Nat
    BY <1>4, <1>5, <2>1
  <2>. DEFINE c == RecordCost(r[i + 1])  j == (i + 1) + 1
  <2>3. r[i + 1] = q[j]
    BY <1>1, <2>1, Zenon
  <2>4. g[i + 1] = g[(i + 1) - 1] + c
    BY <1>5, <2>1, Zenon
  <2>5. f[j] = f[j - 1] + RecordCost(q[j])
    BY <1>4, <2>1, Zenon
  <2>6. g[i + 1] = g[i] + c /\ f[j] = f[i + 1] + c
    BY <2>1, <2>3, <2>4, <2>5, Zenon
  <2>7. c \in Nat
    <3>1. r[i + 1] \in Sizable
      BY <1>1, <2>1 DEF n
    <3>. QED
      BY <3>1, CostIs
  <2>. HIDE DEF c
  <2>. QED
    BY <2>2, <2>6, <2>7
<1>. HIDE DEF T
<1>8. n \in T
  BY <1>1, <1>6, <1>7, SetInduction, Zenon
<1>9. f[n + 1] >= g[n]
  BY <1>1, <1>8 DEF T
<1>10. f[n + 1] \in Nat /\ g[n] \in Nat
  BY <1>1, <1>4, <1>5
<1>. QED
  BY <1>2, <1>3, <1>9, <1>10 DEF r
-----------------------------------------------------------------------------
(* What a handler's step does to its epoch, its backlog and its place.     *)

Early == {"hello", "rejected", "claim"}

\* The epoch is kept; the backlog is dropped, loses its front record or gets
\* the frame under consideration; a frame is considered only if there is
\* room for it.
Keeps(h) ==
    LET c == conn[h]
        d == conn'[h]
        m == Head(c.leftover)
    IN  /\ d.epoch = c.epoch
        /\ d.pc \in Early <=> c.pc \in Early
        /\ \/ d.busy = c.busy
           \/ d.busy = <<>>
           \/ c.busy # <<>> /\ d.busy = Tail(c.busy)
           \/ /\ c.pc = "apply" /\ m.op = "Input" /\ InputOk(m.data)
              /\ d.busy = Append(c.busy, m)
        /\ d.pc = "apply" => /\ d.busy = c.busy /\ d.leftover = c.leftover
                             /\ ~(m.op = "Input" /\ BusyFull(h))

LEMMA QuietKeeps ==
    ASSUME NEW T, conn \in [Conns -> T], NEW h \in Conns, NEW d,
           conn' = [conn EXCEPT ![h] = d], d.epoch = conn[h].epoch, d.busy = conn[h].busy,
           d.pc # "apply", d.pc \in Early <=> conn[h].pc \in Early
    PROVE  Keeps(h)
<1>1. conn'[h] = d
  BY Zenon
<1>. QED
  BY <1>1, Zenon DEF Keeps

LEMMA GoKeeps ==
    ASSUME NEW M, NEW A, NEW F, conn \in [Conns -> ConnOf(M, A, F)], NEW h \in Conns,
           NEW p, Go(h, p), p # "apply", p \in Early <=> conn[h].pc \in Early
    PROVE  Keeps(h)
<1>. DEFINE c == conn[h]  d == [c EXCEPT !.pc = p]
<1>1. c \in ConnOf(M, A, F)
  OBVIOUS
<1>2. conn' = [conn EXCEPT ![h] = d]
  BY Zenon DEF Go
<1>. HIDE DEF c
<1>3. d.epoch = c.epoch /\ d.busy = c.busy /\ d.pc = p
  BY <1>1 DEF ConnOf
<1>. HIDE DEF d
<1>. QED
  BY <1>2, <1>3, QuietKeeps, Zenon DEF c

LEMMA NotEarly ==
    ASSUME NEW c
    PROVE  /\ LoopTop(c) \notin Early \cup {"apply"}
           /\ AfterFrames(c) \notin Early \cup {"apply"}
           /\ AfterBusy(c) \notin Early \cup {"apply"}
<1>1. AfterBusy(c) \in {"resize", "acks", "select"}
  BY DEF AfterBusy
<1>2. AfterFrames(c) \in {"busy", "resize", "acks", "select"}
  BY <1>1 DEF AfterFrames
<1>3. LoopTop(c) \in {"frames", "busy", "resize", "acks", "select"}
  BY <1>2 DEF LoopTop
<1>. QED
  BY <1>1, <1>2, <1>3 DEF Early

LEMMA LeaveKeeps ==
    ASSUME NEW M, NEW A, NEW F, conn \in [Conns -> ConnOf(M, A, F)], NEW h \in Conns,
           Leave(h), conn[h].pc \notin Early
    PROVE  Keeps(h)
<1>. DEFINE n == conn[h].epoch  d == [NewConn EXCEPT !.pc = "detach", !.epoch = n]
<1>1. conn' = [conn EXCEPT ![h] = d]
  BY Zenon DEF Leave
<1>. HIDE DEF n
<1>2. d.epoch = n /\ d.busy = <<>> /\ d.pc = "detach"
  <2>. DEFINE s == NewConn.seen  f == NewConn.feed  z == NoSize
  <2>1. /\ NewConn = [pc |-> "hello", epoch |-> 0, leftover |-> <<>>, busy |-> <<>>,
                     wantSize |-> z, wantAck |-> 0, feed |-> f, seen |-> s]
    BY DEF NewConn, NoAck
  <2>. HIDE DEF s, f, z
  <2>. QED
    BY <2>1
<1>. HIDE DEF d
<1>3. conn'[h] = d
  BY <1>1, Zenon
<1>4. "detach" \notin Early /\ "detach" # "apply"
  BY DEF Early
<1>. QED
  BY <1>2, <1>3, <1>4, Zenon DEF Keeps, n

\* The steps that change neither the backlog nor anything read.
LEMMA AttachKeeps ==
    ASSUME NEW M, NEW A, NEW F, conn \in [Conns -> ConnOf(M, A, F)], NEW h \in Conns,
           \/ \E s : Lookup(h, s)
           \/ Announce(h) \/ Attach(h) \/ Subscribe(h) \/ Greet(h)
           \/ detach_if_epoch(h) \/ MarkDetached(h)
    PROVE  Keeps(h)
<1>. DEFINE c == conn[h]
<1>1. c \in ConnOf(M, A, F)
  OBVIOUS
<1>2. CASE \E s : Lookup(h, s)
  <2>1. PICK s : Lookup(h, s)
    BY <1>2
  <2>. DEFINE p == IF registered THEN "claim" ELSE "rejected"  d == [c EXCEPT !.pc = p, !.wantSize = s]
  <2>2. conn' = [conn EXCEPT ![h] = d] /\ c.pc = "hello"
    BY <2>1, Zenon DEF Lookup, At
  <2>3. p \in Early /\ c.pc \in Early /\ p # "apply"
    BY <2>2 DEF Early
  <2>. HIDE DEF c, p
  <2>4. d.epoch = c.epoch /\ d.busy = c.busy /\ d.pc = p
    BY <1>1 DEF ConnOf
  <2>. HIDE DEF d
  <2>. QED
    BY <2>2, <2>3, <2>4, QuietKeeps, Zenon DEF c
<1>3. CASE Announce(h)
  <2>1. Go(h, "attach") /\ c.pc = "announce"
    BY <1>3, Zenon DEF Announce, At
  <2>. QED
    BY <2>1, GoKeeps DEF Early
<1>4. CASE Attach(h)
  <2>1. Go(h, "subscribe") /\ c.pc = "attach"
    BY <1>4, Zenon DEF Attach, At
  <2>. QED
    BY <2>1, GoKeeps DEF Early
<1>5. CASE Subscribe(h)
  <2>. DEFINE p == "greet"  s == [epoch |-> epochWatch, version |-> latest.version,
                                  accepted |-> accepted, exit |-> exit]
              d == [c EXCEPT !.pc = p, !.seen = s]
  <2>1. conn' = [conn EXCEPT ![h] = d] /\ c.pc = "subscribe"
    BY <1>5, Zenon DEF Subscribe, At
  <2>2. p \notin Early /\ c.pc \notin Early /\ p # "apply"
    BY <2>1 DEF Early
  <2>. HIDE DEF c, p, s
  <2>3. d.epoch = c.epoch /\ d.busy = c.busy /\ d.pc = p
    BY <1>1 DEF ConnOf
  <2>. HIDE DEF d
  <2>. QED
    BY <2>1, <2>2, <2>3, QuietKeeps, Zenon DEF c
<1>6. CASE Greet(h)
  <2>. DEFINE g == WithScreen(push_ctrl(c.feed, HelloOk))  w == accepted
              b == [c EXCEPT !.feed = g, !.wantAck = w]  p == LoopTop(b)
              d == [b EXCEPT !.pc = p]
  <2>1. conn' = [conn EXCEPT ![h] = d] /\ c.pc = "greet"
    BY <1>6, Zenon DEF Greet, At
  <2>2. p \notin Early /\ c.pc \notin Early /\ p # "apply"
    <3>1. c.pc \notin Early
      BY <2>1 DEF Early
    <3>. QED
      BY <3>1, NotEarly, Zenon
  <2>. HIDE DEF c, p, g, w
  <2>3. d.epoch = c.epoch /\ d.busy = c.busy /\ d.pc = p
    BY <1>1 DEF ConnOf
  <2>. HIDE DEF d
  <2>. QED
    BY <2>1, <2>2, <2>3, QuietKeeps, Zenon DEF c
<1>7. CASE detach_if_epoch(h)
  <2>1. (Go(h, "mark") \/ Go(h, "done")) /\ c.pc = "detach"
    BY <1>7, Zenon DEF detach_if_epoch, At
  <2>. QED
    BY <2>1, GoKeeps DEF Early
<1>8. CASE MarkDetached(h)
  <2>1. Go(h, "done") /\ c.pc = "mark"
    BY <1>8, Zenon DEF MarkDetached, At
  <2>. QED
    BY <2>1, GoKeeps DEF Early
<1>. QED
  BY <1>2, <1>3, <1>4, <1>5, <1>6, <1>7, <1>8, Zenon

LEMMA RoundKeeps ==
    ASSUME NEW M, NEW A, NEW F, conn \in [Conns -> ConnOf(M, A, F)], NEW h \in Conns,
           \/ ApplyResize(h) \/ QueueAck(h) \/ queue_exit(h) \/ Flushed(h) \/ CheckEpoch(h)
    PROVE  Keeps(h)
<1>. DEFINE c == conn[h]
<1>1. c \in ConnOf(M, A, F)
  OBVIOUS
<1>2. CASE ApplyResize(h)
  <2>. DEFINE p == "acks"  d == [c EXCEPT !.pc = p, !.wantSize = NoSize]
  <2>1. (Go(h, "acks") \/ conn' = [conn EXCEPT ![h] = d]) /\ c.pc = "resize"
    BY <1>2, Zenon DEF ApplyResize, At
  <2>2. p \notin Early /\ c.pc \notin Early /\ p # "apply"
    BY <2>1 DEF Early
  <2>3. CASE Go(h, "acks")
    BY <2>2, <2>3, GoKeeps, Zenon
  <2>4. CASE conn' = [conn EXCEPT ![h] = d]
    <3>. HIDE DEF c, p
    <3>1. d.epoch = c.epoch /\ d.busy = c.busy /\ d.pc = p
      BY <1>1 DEF ConnOf
    <3>. HIDE DEF d
    <3>. QED
      BY <2>2, <2>4, <3>1, QuietKeeps, Zenon DEF c
  <2>. QED
    BY <2>1, <2>3, <2>4
<1>3. CASE QueueAck(h)
  <2>. DEFINE p == IF exit # NoExit THEN "exit" ELSE "select"
              f == push_ctrl(c.feed, InputAck(c.wantAck))  w == NoAck
              b == [c EXCEPT !.pc = p]  d == [b EXCEPT !.feed = f, !.wantAck = w]
  <2>1. (Go(h, p) \/ conn' = [conn EXCEPT ![h] = d]) /\ c.pc = "acks"
    <3>. DEFINE next == [conn EXCEPT ![h].pc = p]
    <3>1. /\ \/ conn' = next
             \/ conn' = [next EXCEPT ![h].feed = push_ctrl(@, InputAck(c.wantAck)), ![h].wantAck = w]
          /\ c.pc = "acks"
      BY <1>3, Zenon DEF QueueAck, At
    <3>2. next = [conn EXCEPT ![h] = b]
      BY Zenon
    <3>3. next[h] = b /\ b.feed = c.feed
      <4>1. next[h] = b
        BY <3>2, Zenon
      <4>. HIDE DEF c, p
      <4>2. b.feed = c.feed
        BY <1>1 DEF ConnOf
      <4>. QED
        BY <4>1, <4>2, Zenon
    <3>4. [next EXCEPT ![h].feed = push_ctrl(@, InputAck(c.wantAck)), ![h].wantAck = w]
          = [conn EXCEPT ![h] = d]
      <4>. HIDE DEF b, p, w
      <4>1. [next EXCEPT ![h].feed = push_ctrl(@, InputAck(c.wantAck)), ![h].wantAck = w]
            = [next EXCEPT ![h] = [b EXCEPT !.feed = push_ctrl(b.feed, InputAck(c.wantAck)),
                                            !.wantAck = w]]
        <5>. HIDE DEF next
        <5>. QED
          BY <3>3, Zenon
      <4>2. [b EXCEPT !.feed = push_ctrl(b.feed, InputAck(c.wantAck)), !.wantAck = w] = d
        BY <3>3, Zenon
      <4>3. [next EXCEPT ![h] = d] = [conn EXCEPT ![h] = d]
        <5>. HIDE DEF d, next
        <5>. QED
          BY <3>2, Zenon
      <4>. HIDE DEF d, next
      <4>. QED
        BY <4>1, <4>2, <4>3, Zenon
    <3>. QED
      BY <3>1, <3>4, Zenon DEF Go
  <2>2. p \notin Early /\ c.pc \notin Early /\ p # "apply"
    BY <2>1 DEF Early
  <2>3. CASE Go(h, p)
    BY <2>2, <2>3, GoKeeps, Zenon
  <2>4. CASE conn' = [conn EXCEPT ![h] = d]
    <3>. HIDE DEF c, p, f, w
    <3>1. d.epoch = c.epoch /\ d.busy = c.busy /\ d.pc = p
      BY <1>1 DEF ConnOf
    <3>. HIDE DEF d
    <3>. QED
      BY <2>2, <2>4, <3>1, QuietKeeps, Zenon DEF c
  <2>. QED
    BY <2>1, <2>3, <2>4
<1>4. CASE queue_exit(h)
  <2>. DEFINE p == "flush"
              f == IF Current(h) THEN push_fin(WithScreen(c.feed), Exit(exit)) ELSE c.feed
              d == [c EXCEPT !.pc = p, !.feed = f]
  <2>1. conn' = [conn EXCEPT ![h] = d] /\ c.pc = "exit"
    BY <1>4, Zenon DEF queue_exit, At
  <2>2. p \notin Early /\ c.pc \notin Early /\ p # "apply"
    BY <2>1 DEF Early
  <2>. HIDE DEF c, p, f
  <2>3. d.epoch = c.epoch /\ d.busy = c.busy /\ d.pc = p
    BY <1>1 DEF ConnOf
  <2>. HIDE DEF d
  <2>. QED
    BY <2>1, <2>2, <2>3, QuietKeeps, Zenon DEF c
<1>5. CASE Flushed(h)
  <2>1. Leave(h) /\ c.pc = "flush"
    BY <1>5, Zenon DEF Flushed, At
  <2>. QED
    BY <2>1, LeaveKeeps DEF Early
<1>6. CASE CheckEpoch(h)
  <2>1. (Go(h, LoopTop(c)) \/ Leave(h)) /\ c.pc = "check"
    BY <1>6, Zenon DEF CheckEpoch, At
  <2>2. c.pc \notin Early
    BY <2>1 DEF Early
  <2>3. LoopTop(c) \notin Early /\ LoopTop(c) # "apply"
    BY NotEarly, Zenon
  <2>. QED
    BY <2>1, <2>2, <2>3, GoKeeps, LeaveKeeps, Zenon
<1>. QED
  BY <1>2, <1>3, <1>4, <1>5, <1>6, Zenon

LEMMA NextFrameKeeps ==
    ASSUME NEW M, NEW A, NEW F, conn \in [Conns -> ConnOf(M, A, F)], NEW h \in Conns,
           NextFrame(h)
    PROVE  Keeps(h)
<1>. DEFINE c == conn[h]  m == Head(c.leftover)
<1>1. /\ c.pc = "frames"
      /\ \/ Go(h, "apply") /\ ~(m.op = "Input" /\ BusyFull(h))
         \/ Go(h, AfterFrames(c))
  BY Zenon DEF NextFrame, At
<1>2. c.pc \notin Early
  BY <1>1 DEF Early
<1>3. CASE Go(h, AfterFrames(c))
  <2>1. AfterFrames(c) \notin Early /\ AfterFrames(c) # "apply"
    BY NotEarly, Zenon
  <2>. QED
    BY <1>2, <1>3, <2>1, GoKeeps, Zenon
<1>4. CASE Go(h, "apply") /\ ~(m.op = "Input" /\ BusyFull(h))
  <2>. DEFINE p == "apply"  d == [c EXCEPT !.pc = p]
  <2>1. conn' = [conn EXCEPT ![h] = d]
    BY <1>4, Zenon DEF Go
  <2>2. p \notin Early
    BY DEF Early
  <2>3. c \in ConnOf(M, A, F)
    OBVIOUS
  <2>. HIDE DEF c, p
  <2>4. d.epoch = c.epoch /\ d.busy = c.busy /\ d.pc = p /\ d.leftover = c.leftover
    BY <2>3 DEF ConnOf
  <2>. HIDE DEF d
  <2>5. conn'[h] = d
    BY <2>1, Zenon
  <2>. QED
    BY <1>2, <1>4, <2>2, <2>4, <2>5, Zenon DEF Keeps, c
<1>. QED
  BY <1>1, <1>3, <1>4, Zenon

LEMMA ControlKeeps ==
    ASSUME NEW M, NEW A, NEW F, conn \in [Conns -> ConnOf(M, A, F)], NEW h \in Conns,
           on_control(h)
    PROVE  Keeps(h)
<1>. DEFINE c == conn[h]  m == Head(c.leftover)  q == Tail(c.leftover)
            b == [c EXCEPT !.leftover = q]  d == Took(b, m)  p == LoopTop(d)
            e == [d EXCEPT !.pc = p]
<1>1. /\ c.pc = "apply"
      /\ \/ Leave(h)
         \/ /\ conn' = [conn EXCEPT ![h] = e]
            /\ m.op = "Input" => InputOk(m.data)
            /\ m.op \in {"Input", "Resize", "Ping", "Hangup", "Ack"}
  <2>1. /\ c.pc = "apply"
        /\ \/ m.op = "Input" /\ InputOk(m.data) /\ conn' = [conn EXCEPT ![h] = e]
           \/ Leave(h)
           \/ m.op \in {"Resize", "Ping"} /\ conn' = [conn EXCEPT ![h] = e]
           \/ m.op = "Hangup" /\ conn' = [conn EXCEPT ![h] = e]
           \/ m.op = "Ack" /\ conn' = [conn EXCEPT ![h] = e]
    BY Zenon DEF on_control, At
  <2>. HIDE DEF e, m, c
  <2>. QED
    BY <2>1
<1>2. c \in ConnOf(M, A, F) /\ c.pc \notin Early
  BY <1>1 DEF Early
<1>3. CASE Leave(h)
  BY <1>2, <1>3, LeaveKeeps, Zenon
<1>4. CASE /\ conn' = [conn EXCEPT ![h] = e]
           /\ m.op = "Input" => InputOk(m.data)
           /\ m.op \in {"Input", "Resize", "Ping", "Hangup", "Ack"}
  <2>1. p \notin Early /\ p # "apply"
    BY NotEarly, Zenon
  <2>2. DOMAIN b = DOMAIN c /\ b.epoch = c.epoch /\ b.busy = c.busy
    <3>. HIDE DEF c, q
    <3>. QED
      BY <1>2 DEF ConnOf
  <2>3. DOMAIN c = {"pc", "epoch", "leftover", "busy", "wantSize", "wantAck", "feed", "seen"}
    <3>. HIDE DEF c
    <3>. QED
      BY <1>2 DEF ConnOf
  <2>4. /\ DOMAIN d = DOMAIN c /\ d.epoch = c.epoch
        /\ d.busy = IF m.op = "Input" THEN Append(c.busy, m) ELSE c.busy
    <3>. DEFINE l == Append(b.busy, m)  z == m.size  f == push_ctrl(b.feed, Pong)
    <3>1. d = CASE m.op = "Input" -> [b EXCEPT !.busy = l]
                [] m.op = "Resize" -> [b EXCEPT !.wantSize = z]
                [] m.op = "Ping" -> [b EXCEPT !.feed = f]
                [] OTHER -> b
      BY Zenon DEF Took
    <3>. HIDE DEF l, z, f, b, c, m, d
    <3>2. l = Append(c.busy, m)
      BY <2>2, Zenon DEF l
    <3>3. CASE m.op = "Input"
      <4>1. d = [b EXCEPT !.busy = l]
        BY <3>1, <3>3
      <4>. QED
        BY <2>2, <2>3, <3>2, <3>3, <4>1
    <3>4. CASE m.op = "Resize"
      <4>1. d = [b EXCEPT !.wantSize = z]
        BY <3>1, <3>4
      <4>. QED
        BY <2>2, <2>3, <3>4, <4>1
    <3>5. CASE m.op = "Ping"
      <4>1. d = [b EXCEPT !.feed = f]
        BY <3>1, <3>5
      <4>. QED
        BY <2>2, <2>3, <3>5, <4>1
    <3>6. CASE m.op \notin {"Input", "Resize", "Ping"}
      <4>1. d = b
        BY <3>1, <3>6
      <4>. QED
        BY <2>2, <2>3, <3>6, <4>1
    <3>. QED
      BY <3>3, <3>4, <3>5, <3>6
  <2>. HIDE DEF c, d, p, b, m
  <2>5. e.pc = p /\ e.epoch = d.epoch /\ e.busy = d.busy
    BY <2>3, <2>4
  <2>. HIDE DEF e
  <2>6. conn'[h] = e
    BY <1>4, Zenon
  <2>7. e.busy = c.busy \/ (m.op = "Input" /\ InputOk(m.data) /\ e.busy = Append(c.busy, m))
    BY <1>4, <2>4, <2>5, Zenon
  <2>. QED
    BY <1>1, <1>2, <2>1, <2>4, <2>5, <2>6, <2>7, Zenon DEF Keeps, c, m
<1>. QED
  BY <1>1, <1>3, <1>4, Zenon

LEMMA DrainKeeps ==
    ASSUME NEW M, NEW A, NEW F, conn \in [Conns -> ConnOf(M, A, F)], NEW h \in Conns,
           Ready(conn[h]), drain_busy(h)
    PROVE  Keeps(h)
<1>. DEFINE c == conn[h]  q == Tail(c.busy)  b == [c EXCEPT !.busy = q]
            p == AfterFrames(b)  r == AfterBusy(c)
            d == [b EXCEPT !.pc = p]  e == [b EXCEPT !.pc = r]
<1>1. /\ c.pc = "busy"
      /\ conn' = [conn EXCEPT ![h] = d] \/ conn' = [conn EXCEPT ![h] = e] \/ Go(h, r)
  BY Zenon DEF drain_busy, At
<1>2. c \in ConnOf(M, A, F) /\ c.pc \notin Early /\ c.busy # <<>>
  BY <1>1 DEF Early, Ready, ReadyFor
<1>3. p \notin Early /\ p # "apply" /\ r \notin Early /\ r # "apply"
  BY NotEarly, Zenon
<1>4. CASE Go(h, r)
  BY <1>2, <1>3, <1>4, GoKeeps, Zenon
<1>5. ASSUME NEW k, k \notin Early, k # "apply", conn' = [conn EXCEPT ![h] = [b EXCEPT !.pc = k]]
      PROVE  Keeps(h)
  <2>. DEFINE f == [b EXCEPT !.pc = k]
  <2>. HIDE DEF c, q
  <2>1. f.pc = k /\ f.epoch = c.epoch /\ f.busy = q
    BY <1>2 DEF ConnOf
  <2>. HIDE DEF f
  <2>2. conn'[h] = f
    BY <1>5, Zenon DEF f
  <2>. QED
    BY <1>2, <1>5, <2>1, <2>2, Zenon DEF Keeps, c, q
<1>. QED
  BY <1>1, <1>3, <1>4, <1>5, Zenon

\* The arms of the select.
LEMMA SelectKeeps ==
    ASSUME NEW M, NEW A, NEW F, conn \in [Conns -> ConnOf(M, A, F)], NEW h \in Conns,
           \/ OnEpoch(h) \/ OnExit(h) \/ (\E via : OnLatest(h, via)) \/ OnAccepted(h)
           \/ OnResync(h) \/ Write(h) \/ Broken(h) \/ \E q : read_more(h, q)
    PROVE  Keeps(h)
<1>. DEFINE c == conn[h]
<1>1. c \in ConnOf(M, A, F)
  OBVIOUS
<1>2. c.pc \in {"select", "flush"}
  <2>1. At(h, "select") \/ At(h, "flush")
    BY Zenon DEF OnEpoch, OnExit, OnLatest, OnAccepted, OnResync, Write, Broken, read_more
  <2>. QED
    BY <2>1 DEF At
<1>3. c.pc \notin Early
  BY <1>2 DEF Early
<1>4. ASSUME NEW d, conn' = [conn EXCEPT ![h] = d], d.epoch = c.epoch, d.busy = c.busy,
             d.pc = "check" \/ d.pc = "flush"
      PROVE  Keeps(h)
  <2>1. d.pc # "apply" /\ d.pc \notin Early
    BY <1>4 DEF Early
  <2>. QED
    BY <1>3, <1>4, <2>1, QuietKeeps, Zenon
<1>5. Leave(h) => Keeps(h)
  BY <1>3, LeaveKeeps, Zenon
<1>. DEFINE p == "check"
<1>6. CASE OnEpoch(h)
  <2>. DEFINE n == epochWatch  d == [c EXCEPT !.seen.epoch = n, !.pc = p]
  <2>1. Leave(h) \/ conn' = [conn EXCEPT ![h] = d]
    BY <1>6, Zenon DEF OnEpoch
  <2>. HIDE DEF c, n
  <2>2. d.epoch = c.epoch /\ d.busy = c.busy /\ d.pc = p
    BY <1>1 DEF ConnOf
  <2>. HIDE DEF d
  <2>. QED
    BY <1>4, <1>5, <2>1, <2>2, Zenon DEF c
<1>7. CASE OnExit(h)
  <2>. DEFINE n == exit  d == [c EXCEPT !.seen.exit = n, !.pc = p]
  <2>1. conn' = [conn EXCEPT ![h] = d]
    BY <1>7, Zenon DEF OnExit
  <2>. HIDE DEF c, n
  <2>2. d.epoch = c.epoch /\ d.busy = c.busy /\ d.pc = p
    BY <1>1 DEF ConnOf
  <2>. HIDE DEF d
  <2>. QED
    BY <1>4, <2>1, <2>2, Zenon DEF c
<1>8. CASE \E via : OnLatest(h, via)
  <2>0. PICK via : OnLatest(h, via)
    BY <1>8
  <2>. DEFINE n == latest.version  f == IF via = "stream" THEN WithScreen(c.feed) ELSE c.feed
              d == [c EXCEPT !.seen.version = n, !.pc = p, !.feed = f]
  <2>1. conn' = [conn EXCEPT ![h] = d]
    BY <2>0, Zenon DEF OnLatest
  <2>. HIDE DEF c, n, f
  <2>2. d.epoch = c.epoch /\ d.busy = c.busy /\ d.pc = p
    BY <1>1 DEF ConnOf
  <2>. HIDE DEF d
  <2>. QED
    BY <1>4, <2>1, <2>2, Zenon DEF c
<1>9. CASE OnAccepted(h)
  <2>. DEFINE n == accepted  d == [c EXCEPT !.seen.accepted = n, !.pc = p, !.wantAck = n]
  <2>1. conn' = [conn EXCEPT ![h] = d]
    BY <1>9, Zenon DEF OnAccepted
  <2>. HIDE DEF c, n
  <2>2. d.epoch = c.epoch /\ d.busy = c.busy /\ d.pc = p
    BY <1>1 DEF ConnOf
  <2>. HIDE DEF d
  <2>. QED
    BY <1>4, <2>1, <2>2, Zenon DEF c
<1>10. CASE OnResync(h)
  <2>. DEFINE f == IF latest.version > lastAcked THEN WithScreen(c.feed) ELSE c.feed
              d == [c EXCEPT !.pc = p, !.feed = f]
  <2>1. conn' = [conn EXCEPT ![h] = d]
    BY <1>10, Zenon DEF OnResync
  <2>. HIDE DEF c, f
  <2>2. d.epoch = c.epoch /\ d.busy = c.busy /\ d.pc = p
    BY <1>1 DEF ConnOf
  <2>. HIDE DEF d
  <2>. QED
    BY <1>4, <2>1, <2>2, Zenon DEF c
<1>11. CASE Write(h)
  <2>. DEFINE f == feed_advance(c.feed, c.feed.left)
              r == IF c.pc = "select" THEN "check" ELSE "flush"
              d == [c EXCEPT !.feed = f, !.pc = r]
  <2>1. conn' = [conn EXCEPT ![h] = d]
    BY <1>11, Zenon DEF Write
  <2>2. r = "check" \/ r = "flush"
    OBVIOUS
  <2>. HIDE DEF c, f, r
  <2>3. d.epoch = c.epoch /\ d.busy = c.busy /\ d.pc = r
    BY <1>1 DEF ConnOf
  <2>. HIDE DEF d
  <2>. QED
    BY <1>4, <2>1, <2>2, <2>3, Zenon DEF c
<1>12. CASE \E q : read_more(h, q)
  <2>0. PICK q : read_more(h, q)
    BY <1>12
  <2>. DEFINE l == c.leftover \o q  d == [c EXCEPT !.leftover = l, !.pc = p]
  <2>1. conn' = [conn EXCEPT ![h] = d]
    BY <2>0, Zenon DEF read_more
  <2>. HIDE DEF c, l
  <2>2. d.epoch = c.epoch /\ d.busy = c.busy /\ d.pc = p
    BY <1>1 DEF ConnOf
  <2>. HIDE DEF d
  <2>. QED
    BY <1>4, <2>1, <2>2, Zenon DEF c
<1>13. CASE Broken(h)
  BY <1>5, <1>13, Zenon DEF Broken
<1>. QED
  BY <1>6, <1>7, <1>8, <1>9, <1>10, <1>11, <1>12, <1>13, Zenon

\* A handler that claims the session takes the next epoch.
Claims(h) ==
    /\ epoch' = epoch + 1
    /\ conn[h].pc \in Early /\ conn'[h].pc \notin Early /\ conn'[h].pc # "apply"
    /\ conn'[h].epoch = epoch' /\ conn'[h].busy = conn[h].busy

LEMMA ClaimClaims ==
    ASSUME NEW M, NEW A, NEW F, conn \in [Conns -> ConnOf(M, A, F)], NEW h \in Conns,
           Claim(h)
    PROVE  Claims(h) /\ epochWatch' = epochWatch /\ detached' = detached
<1>. DEFINE c == conn[h]  p == "announce"  n == epoch + 1  d == [c EXCEPT !.pc = p, !.epoch = n]
<1>1. c \in ConnOf(M, A, F)
  OBVIOUS
<1>2. /\ conn' = [conn EXCEPT ![h] = d] /\ c.pc = "claim" /\ epoch' = n
      /\ epochWatch' = epochWatch /\ detached' = detached
  BY Zenon DEF Claim, At
<1>3. p \notin Early /\ c.pc \in Early /\ p # "apply"
  BY <1>2 DEF Early
<1>. HIDE DEF c, p, n
<1>4. d.epoch = n /\ d.busy = c.busy /\ d.pc = p
  BY <1>1 DEF ConnOf
<1>. HIDE DEF d
<1>5. conn'[h] = d
  BY <1>2, Zenon
<1>. QED
  BY <1>2, <1>3, <1>4, <1>5, Zenon DEF Claims, c, n

\* The bookkeeping of a handler's own steps.
Books(h) ==
    /\ epochWatch' = epochWatch \/ (epochWatch' = conn[h].epoch /\ epoch' = epoch)
    /\ detached' \in {detached, TRUE, FALSE}
    /\ (Claims(h) /\ epochWatch' = epochWatch) \/ (Keeps(h) /\ epoch' = epoch)

LEMMA ProceedKeeps ==
    ASSUME NEW M, NEW A, NEW F, conn \in [Conns -> ConnOf(M, A, F)], NEW h \in Conns,
           Ready(conn[h]), Proceed(h)
    PROVE  Books(h)
<1>1. CASE Claim(h)
  BY <1>1, ClaimClaims, Zenon DEF Books
<1>2. CASE ~Claim(h)
  <2>1. Keeps(h)
    BY <1>2, AttachKeeps, RoundKeeps, NextFrameKeeps, ControlKeeps, DrainKeeps, SelectKeeps,
       Zenon DEF Proceed
  <2>2. \/ UNCHANGED bookkeeping
        \/ Announce(h) \/ Attach(h) \/ MarkDetached(h)
    BY <1>2, Zenon DEF Proceed, Subscribe, Greet, NextFrame, on_control, drain_busy, ApplyResize,
       QueueAck, queue_exit, Flushed, OnEpoch, OnExit, CheckEpoch, detach_if_epoch
  <2>3. CASE UNCHANGED bookkeeping
    BY <2>1, <2>3, Zenon DEF bookkeeping, Books
  <2>4. CASE Announce(h) \/ Attach(h) \/ MarkDetached(h)
    BY <2>1, <2>4, Zenon DEF Announce, Attach, MarkDetached, Books
  <2>. QED
    BY <2>2, <2>3, <2>4, Zenon
<1>. QED
  BY <1>1, <1>2, Zenon
-----------------------------------------------------------------------------
(* The invariant.                                                          *)

Msgs == {Input(s, d) : s \in Nat, d \in Data} \cup {Resize(s) : s \in AnySize}
        \cup {Ack(v) : v \in Nat} \cup {Hangup, Ping}
Feeds == FeedOf(CtrlFrames(accepted), ScreenFrames(latest), ExitFrames(exit))
Records == ConnOf(Msgs, 0..accepted, Feeds)
PeerOf == [hello : BOOLEAN, version : Nat, acked : Nat, exit : Codes \cup {NoExit}]

StateInv ==
    /\ cmds \in Seq(Msgs) /\ accepted \in Nat /\ latest \in AnyScreen
    /\ exit \in Codes \cup {NoExit} /\ size \in AnySize /\ epoch \in Nat
    /\ detached \in BOOLEAN /\ bound \in Bounds /\ lost \in [Conns -> BOOLEAN]
    /\ peer \in [Conns -> PeerOf]

HandlersInv ==
    /\ conn \in [Conns -> Records]
    /\ \A h \in Conns : Ready(conn[h])

\* Every epoch up to the newest belongs to one handler that claimed it.
Claimed == {h \in Conns : conn[h].epoch # 0}

EpochInv ==
    /\ epochWatch \in 0..epoch
    /\ \A h \in Conns : /\ conn[h].epoch \in 0..epoch
                        /\ conn[h].epoch = 0 <=> conn[h].pc \in Early
    /\ \A h, g \in Conns : conn[h].epoch = conn[g].epoch /\ h # g => conn[h].epoch = 0
    /\ Cardinality(Claimed) = epoch

\* A record is taken only while the backlog is below its cap.
BacklogOk(c) ==
    /\ busy_bytes(c.busy) < BusyCap + Overhead + MaxInput
    /\ (c.pc = "apply" /\ Head(c.leftover).op = "Input") => busy_bytes(c.busy) < BusyCap

BacklogInv == \A h \in Conns : BacklogOk(conn[h])

\* A peer has the newest screen or is about to be sent it before the exit
\* status, however many datagrams were lost.
PeerOk(h) ==
    /\ peer[h].version <= latest.version
    /\ peer[h].exit # NoExit => peer[h].version = latest.version /\ peer[h].exit = exit
    /\ \/ lost[h]
       \/ peer[h].version = latest.version
       \/ Tells(conn[h].feed, Screen(latest), ExitFrames(exit))

PeersInv == \A h \in Conns : PeerOk(h)

ServerInv == StateInv /\ HandlersInv /\ EpochInv /\ BacklogInv /\ PeersInv

LEMMA MsgKinds ==
    /\ \A s, d : Input(s, d).op = "Input" /\ Input(s, d).seq = s /\ Input(s, d).data = d
    /\ \A s : Resize(s).op = "Resize" /\ Resize(s).size = s /\ Ack(s).op = "Ack" /\ Ack(s).version = s
    /\ Hangup.op = "Hangup" /\ Ping.op = "Ping"
<1>1. ASSUME NEW s, NEW d
      PROVE  Input(s, d).op = "Input" /\ Input(s, d).seq = s /\ Input(s, d).data = d
  BY DEF Input
<1>2. \A s : Resize(s).op = "Resize" /\ Resize(s).size = s /\ Ack(s).op = "Ack" /\ Ack(s).version = s
  BY DEF Resize, Ack
<1>3. Hangup.op = "Hangup" /\ Ping.op = "Ping"
  BY DEF Hangup, Ping
<1>. QED
  BY <1>1, <1>2, <1>3, Zenon

LEMMA MsgIs ==
    ASSUME NEW m \in Msgs
    PROVE  /\ m.op = "Input" => m.seq \in Nat /\ m.data \in Data /\ m = Input(m.seq, m.data)
           /\ m.op = "Resize" => m.size \in AnySize
           /\ m.op = "Ack" => m.version \in Nat /\ m = Ack(m.version)
           /\ m.op = "Hangup" => m = Hangup
<1>1. \/ \E s \in Nat, d \in Data : m = Input(s, d)
      \/ \E s \in AnySize : m = Resize(s)
      \/ \E v \in Nat : m = Ack(v)
      \/ m = Hangup \/ m = Ping
  BY DEF Msgs
<1>2. CASE \E s \in Nat, d \in Data : m = Input(s, d)
  <2>1. PICK s \in Nat, d \in Data : m = Input(s, d)
    BY <1>2
  <2>2. m.op = "Input" /\ m.seq = s /\ m.data = d
    BY <2>1, MsgKinds, Zenon
  <2>3. m.op # "Resize" /\ m.op # "Ack" /\ m.op # "Hangup"
    BY <2>2
  <2>. QED
    BY <2>1, <2>2, <2>3, Zenon
<1>3. CASE \E s \in AnySize : m = Resize(s)
  <2>1. PICK s \in AnySize : m = Resize(s)
    BY <1>3
  <2>2. m.op = "Resize" /\ m.size = s
    BY <2>1, MsgKinds, Zenon
  <2>. QED
    BY <2>2
<1>4. CASE \E v \in Nat : m = Ack(v)
  <2>1. PICK v \in Nat : m = Ack(v)
    BY <1>4
  <2>2. m.op = "Ack" /\ m.version = v
    BY <2>1, MsgKinds, Zenon
  <2>3. m.op # "Resize" /\ m.op # "Input" /\ m.op # "Hangup"
    BY <2>2
  <2>. QED
    BY <2>1, <2>2, <2>3, Zenon
<1>5. CASE m = Hangup \/ m = Ping
  BY <1>5, MsgKinds
<1>. QED
  BY <1>1, <1>2, <1>3, <1>4, <1>5, Zenon

LEMMA MsgsFaithful ==
    Faithful(Msgs)
<1>1. \A s \in AnySize : Resize(s) \in Msgs
  BY DEF Msgs
<1>. QED
  BY <1>1, MsgIs, Zenon DEF Faithful

LEMMA InputsSized ==
    Inputs(Msgs) \subseteq Sizable
<1>. SUFFICES ASSUME NEW m \in Inputs(Msgs) PROVE m \in Sizable
  OBVIOUS
<1>1. m \in Msgs /\ m.op = "Input"
  BY Zenon DEF Inputs
<1>. DEFINE s == m.seq  d == m.data
<1>2. s \in Nat /\ d \in Data /\ m = Input(s, d)
  BY <1>1, MsgIs, Zenon
<1>. HIDE DEF s, d
<1>. QED
  BY <1>2 DEF Input, Sizable

LEMMA HandlingHere ==
    ASSUME StateInv, HandlersInv, epochWatch \in Nat
    PROVE  Handling(Msgs, 0..accepted, CtrlFrames(accepted), ScreenFrames(latest), ExitFrames(exit))
<1>1. /\ conn \in [Conns -> Records] /\ \A h \in Conns : Ready(conn[h])
      /\ epoch \in Nat /\ latest \in AnyScreen /\ exit \in Nat \cup {NoExit}
  BY ApiAssumption, Zenon DEF StateInv, HandlersInv
<1>2. accepted \in Nat /\ accepted \in 0..accepted /\ 0 \in 0..accepted
  BY DEF StateInv
<1>3. latest.version \in Nat
  BY <1>1 DEF AnyScreen
<1>4. /\ HelloOk \in CtrlFrames(accepted) /\ Pong \in CtrlFrames(accepted)
      /\ \A a \in 0..accepted : InputAck(a) \in CtrlFrames(accepted)
  BY Zenon DEF CtrlFrames
<1>5. Screen(latest) \in ScreenFrames(latest)
  BY <1>1, Zenon DEF Past, ScreenFrames
<1>6. exit # NoExit => Exit(exit) \in ExitFrames(exit)
  BY DEF ExitFrames
<1>7. \A m \in Msgs : m.op = "Resize" => m.size \in AnySize
  BY MsgIs, Zenon
<1>. QED
  BY <1>1, <1>2, <1>3, <1>4, <1>5, <1>6, <1>7, FramesDiffer, Zenon DEF Handling, Records, Feeds
-----------------------------------------------------------------------------
(* The steps of the handlers.                                              *)

LEMMA SameRecords ==
    ASSUME accepted' = accepted, latest' = latest, exit' = exit
    PROVE  Records' = Records
<1>1. Labels' = Labels
  BY Zenon DEF Labels
<1>2. Feeds' = Feeds
  BY Zenon DEF Feeds
<1>. QED
  BY <1>1, <1>2, Zenon DEF Records, ConnOf

LEMMA RecordIs ==
    ASSUME HandlersInv, NEW h \in Conns
    PROVE  /\ conn[h].epoch \in Nat /\ conn[h].busy \in Seq(Sizable) /\ conn[h].leftover \in Seq(Msgs)
           /\ conn[h].pc \in Labels /\ conn[h].wantSize \in AnySize /\ conn[h].wantAck \in 0..accepted
           /\ conn[h].feed \in Feeds
<1>. DEFINE c == conn[h]  A == 0..accepted  F == Feeds
<1>1. c \in ConnOf(Msgs, A, F)
  BY Zenon DEF HandlersInv, Records
<1>. HIDE DEF c, A, F
<1>2. /\ c.epoch \in Nat /\ c.busy \in Seq(Inputs(Msgs)) /\ c.leftover \in Seq(Msgs)
      /\ c.pc \in Labels /\ c.wantSize \in AnySize /\ c.wantAck \in A /\ c.feed \in F
  BY <1>1 DEF ConnOf
<1>3. Seq(Inputs(Msgs)) \subseteq Seq(Sizable)
  BY InputsSized, SeqGrows, Zenon
<1>. QED
  BY <1>2, <1>3, Zenon DEF c, A, F

LEMMA BacklogStep ==
    ASSUME HandlersInv, BacklogInv, NEW h \in Conns, Ready(conn[h]), Claims(h) \/ Keeps(h),
           \A g \in Conns \ {h} : conn'[g] = conn[g]
    PROVE  BacklogInv'
<1>. DEFINE c == conn[h]  d == conn'[h]  m == Head(c.leftover)
<1>1. c.busy \in Seq(Sizable) /\ c.leftover \in Seq(Msgs) /\ BacklogOk(c)
  BY RecordIs, Zenon DEF BacklogInv
<1>2. busy_bytes(c.busy) \in Nat
  <2>. DEFINE q == c.busy
  <2>1. q \in Seq(Sizable)
    BY <1>1
  <2>. HIDE DEF q, c
  <2>2. q = <<>> \/ busy_bytes(q) \in Nat
    BY <2>1, TailBytes
  <2>. QED
    BY <2>2, EmptyBytes DEF q
<1>3. BusyCap \in Nat /\ Overhead \in Nat /\ MaxInput \in Nat /\ BusyCap > 0
  BY TransportAssumption, ApiAssumption
<1>4. BacklogOk(d)
  <2>1. CASE Claims(h)
    <3>1. d.busy = c.busy /\ d.pc # "apply"
      BY <2>1, Zenon DEF Claims
    <3>. QED
      BY <1>1, <3>1, Zenon DEF BacklogOk
  <2>2. CASE Keeps(h) /\ d.busy = c.busy
    <3>1. CASE d.pc = "apply"
      <4>1. d.leftover = c.leftover /\ ~(m.op = "Input" /\ busy_bytes(c.busy) >= BusyCap)
        BY <2>2, <3>1, Zenon DEF Keeps, BusyFull
      <4>2. Head(d.leftover).op = "Input" => busy_bytes(c.busy) < BusyCap
        <5>. DEFINE b == busy_bytes(c.busy)
        <5>1. ~(m.op = "Input" /\ b >= BusyCap) /\ Head(d.leftover) = m /\ b \in Nat
          BY <1>2, <4>1, Zenon
        <5>. HIDE DEF b, m
        <5>2. Head(d.leftover).op = "Input" => b < BusyCap
          BY <1>3, <5>1
        <5>. QED
          BY <5>2 DEF b
      <4>. QED
        BY <1>1, <2>2, <4>2, Zenon DEF BacklogOk
    <3>2. CASE d.pc # "apply"
      BY <1>1, <2>2, <3>2, Zenon DEF BacklogOk
    <3>. QED
      BY <3>1, <3>2
  <2>3. CASE Keeps(h) /\ d.busy # c.busy
    <3>1. d.pc # "apply"
      BY <2>3, Zenon DEF Keeps
    <3>2. busy_bytes(d.busy) < BusyCap + Overhead + MaxInput
      <4>1. CASE d.busy = <<>>
        <5>1. busy_bytes(d.busy) = 0
          BY <4>1, EmptyBytes, Zenon
        <5>. QED
          BY <1>3, <5>1
      <4>2. CASE c.busy # <<>> /\ d.busy = Tail(c.busy)
        <5>. DEFINE q == c.busy  a == busy_bytes(q)  b == busy_bytes(Tail(q))
        <5>1. a \in Nat /\ b \in Nat /\ b <= a
          <6>. HIDE DEF c
          <6>. QED
            BY <1>1, <4>2, TailBytes
        <5>2. a < BusyCap + Overhead + MaxInput
          BY <1>1, Zenon DEF BacklogOk
        <5>3. busy_bytes(d.busy) = b
          BY <4>2, Zenon
        <5>. HIDE DEF a, b
        <5>. QED
          BY <1>3, <5>1, <5>2, <5>3
      <4>3. CASE /\ c.pc = "apply" /\ m.op = "Input" /\ InputOk(m.data)
                 /\ d.busy = Append(c.busy, m)
        <5>1. c.leftover # <<>>
          <6>. HIDE DEF c
          <6>. QED
            BY <4>3 DEF Ready, ReadyFor, c
        <5>2. m \in Msgs
          <6>. HIDE DEF c
          <6>. QED
            BY <1>1, <5>1
        <5>3. m \in Sizable
          BY <4>3, <5>2, InputsSized, Zenon DEF Inputs
        <5>. DEFINE a == busy_bytes(c.busy)  r == RecordCost(m)
        <5>4. a < BusyCap
          BY <1>1, <4>3, Zenon DEF BacklogOk
        <5>5. busy_bytes(d.busy) = a + r
          <6>. DEFINE q == c.busy
          <6>. HIDE DEF c, m
          <6>1. q \in Seq(Sizable)
            BY <1>1
          <6>. HIDE DEF q
          <6>2. busy_bytes(Append(q, m)) = busy_bytes(q) + RecordCost(m)
            BY <5>3, <6>1, AppendBytes
          <6>. QED
            BY <4>3, <6>2, Zenon DEF q
        <5>6. r = Overhead + DataLen[m.data] /\ DataLen[m.data] <= MaxInput /\ DataLen[m.data] \in Nat
          <6>1. m.data \in Data
            BY <4>3, <5>2, MsgIs, Zenon
          <6>2. DataLen[m.data] \in Nat
            BY <6>1, ApiAssumption, Zenon
          <6>. QED
            BY <4>3, <6>2, Zenon DEF InputOk, RecordCost
        <5>. HIDE DEF a, r, m
        <5>. QED
          BY <1>2, <1>3, <5>4, <5>5, <5>6 DEF a
      <4>. QED
        BY <2>3, <4>1, <4>2, <4>3, Zenon DEF Keeps
    <3>. QED
      BY <3>1, <3>2, Zenon DEF BacklogOk
  <2>. QED
    BY <2>1, <2>2, <2>3, Zenon
<1>5. ASSUME NEW g \in Conns PROVE BacklogOk(conn'[g])
  <2>1. CASE g = h
    BY <1>4, <2>1, Zenon
  <2>2. CASE g # h
    <3>1. conn'[g] = conn[g]
      BY <2>2
    <3>. QED
      BY <3>1, Zenon DEF BacklogInv
  <2>. QED
    BY <2>1, <2>2
<1>. QED
  BY <1>5, Zenon DEF BacklogInv, BacklogOk

\* The next epoch is nobody's yet.
LEMMA EpochStep ==
    ASSUME StateInv, HandlersInv, EpochInv, NEW h \in Conns, Books(h),
           \A g \in Conns \ {h} : conn'[g] = conn[g]
    PROVE  EpochInv' /\ epoch' \in Nat /\ detached' \in BOOLEAN
<1>1. /\ epoch \in Nat /\ epochWatch \in 0..epoch /\ detached \in BOOLEAN
      /\ Cardinality(Claimed) = epoch
  BY Zenon DEF StateInv, EpochInv
<1>2. \A g \in Conns : /\ conn[g].epoch \in 0..epoch
                       /\ conn[g].epoch = 0 <=> conn[g].pc \in Early
  BY Zenon DEF EpochInv
<1>3. \A f, g \in Conns : conn[f].epoch = conn[g].epoch /\ f # g => conn[f].epoch = 0
  BY Zenon DEF EpochInv
<1>4. detached' \in BOOLEAN
  BY <1>1, Zenon DEF Books
<1>5. CASE Keeps(h) /\ epoch' = epoch
  <2>1. \A g \in Conns : /\ conn'[g].epoch = conn[g].epoch
                         /\ conn'[g].pc \in Early <=> conn[g].pc \in Early
    <3>. TAKE g \in Conns
    <3>1. CASE g = h
      BY <1>5, <3>1, Zenon DEF Keeps
    <3>2. CASE g # h
      <4>1. conn'[g] = conn[g]
        BY <3>2
      <4>. QED
        BY <4>1
    <3>. QED
      BY <3>1, <3>2
  <2>2. Claimed' = Claimed
    BY <2>1, Zenon DEF Claimed
  <2>3. epochWatch' \in 0..epoch
    BY <1>1, <1>2, Zenon DEF Books
  <2>4. \A g \in Conns : /\ conn'[g].epoch \in 0..epoch'
                         /\ conn'[g].epoch = 0 <=> conn'[g].pc \in Early
    BY <1>2, <1>5, <2>1, Zenon
  <2>5. \A f, g \in Conns : conn'[f].epoch = conn'[g].epoch /\ f # g => conn'[f].epoch = 0
    BY <1>3, <2>1, Zenon
  <2>. QED
    BY <1>1, <1>4, <1>5, <2>2, <2>3, <2>4, <2>5, Zenon DEF EpochInv
<1>6. CASE Claims(h) /\ epochWatch' = epochWatch
  <2>. DEFINE n == epoch'
  <2>1. n = epoch + 1 /\ conn'[h].epoch = n /\ conn'[h].pc \notin Early /\ conn[h].pc \in Early
    BY <1>6, Zenon DEF Claims
  <2>2. n \in Nat /\ n # 0 /\ epochWatch' \in 0..n /\ 0..epoch \subseteq 0..n /\ n \notin 0..epoch
        /\ n \in 0..n
    <3>. HIDE DEF n
    <3>. QED
      BY <1>1, <1>6, <2>1
  <2>3. conn[h].epoch = 0
    BY <1>2, <2>1, Zenon
  <2>4. \A g \in Conns \ {h} : conn'[g] = conn[g]
    OBVIOUS
  <2>. HIDE DEF n
  <2>5. \A g \in Conns : /\ conn'[g].epoch \in 0..n
                         /\ conn'[g].epoch = 0 <=> conn'[g].pc \in Early
    <3>. TAKE g \in Conns
    <3>1. CASE g = h
      BY <2>1, <2>2, <3>1, Zenon
    <3>2. CASE g # h
      <4>1. conn'[g] = conn[g]
        BY <3>2
      <4>. QED
        BY <1>2, <2>2, <4>1, Zenon
    <3>. QED
      BY <3>1, <3>2
  <2>6. \A f, g \in Conns : conn'[f].epoch = conn'[g].epoch /\ f # g => conn'[f].epoch = 0
    <3>. TAKE f, g \in Conns
    <3>. SUFFICES ASSUME conn'[f].epoch = conn'[g].epoch, f # g PROVE conn'[f].epoch = 0
      OBVIOUS
    <3>1. CASE f = h
      <4>1. conn'[g].epoch \in 0..epoch /\ conn'[g].epoch = n
        BY <1>2, <2>1, <2>4, <3>1, Zenon
      <4>. QED
        BY <2>2, <4>1, Zenon
    <3>2. CASE g = h
      <4>1. conn'[f].epoch \in 0..epoch /\ conn'[f].epoch = n
        BY <1>2, <2>1, <2>4, <3>2, Zenon
      <4>. QED
        BY <2>2, <4>1, Zenon
    <3>3. CASE f # h /\ g # h
      <4>1. conn'[f] = conn[f] /\ conn'[g] = conn[g]
        BY <2>4, <3>3, Zenon
      <4>. QED
        BY <1>3, <4>1, Zenon
    <3>. QED
      BY <3>1, <3>2, <3>3
  <2>7. Claimed' = Claimed \cup {h} /\ h \notin Claimed
    <3>1. \A g \in Conns : g \in Claimed' <=> (g \in Claimed \/ g = h)
      <4>. TAKE g \in Conns
      <4>1. CASE g = h
        BY <2>1, <2>2, <4>1, Zenon DEF Claimed
      <4>2. CASE g # h
        <5>1. conn'[g] = conn[g]
          BY <4>2
        <5>. QED
          BY <4>2, <5>1, Zenon DEF Claimed
      <4>. QED
        BY <4>1, <4>2
    <3>2. Claimed \subseteq Conns /\ Claimed' \subseteq Conns
      BY Zenon DEF Claimed
    <3>3. h \notin Claimed
      BY <2>3, Zenon DEF Claimed
    <3>. QED
      BY <3>1, <3>2, <3>3, Zenon
  <2>8. Cardinality(Claimed') = n
    <3>1. IsFiniteSet(Claimed)
      <4>1. Claimed \subseteq Conns
        BY Zenon DEF Claimed
      <4>. QED
        BY <4>1, ServerAssumption, FS_Subset
    <3>2. Cardinality(Claimed \cup {h}) = Cardinality(Claimed) + 1
      BY <2>7, <3>1, FS_AddElement
    <3>. QED
      BY <1>1, <2>1, <2>7, <3>2, Zenon
  <2>. QED
    BY <1>4, <2>2, <2>5, <2>6, <2>8, Zenon DEF EpochInv, n
<1>. QED
  BY <1>5, <1>6, Zenon DEF Books

\* A step that leaves the bookkeeping alone.
LEMMA KeepsBooks ==
    ASSUME NEW h \in Conns, Keeps(h), UNCHANGED bookkeeping
    PROVE  Books(h)
  BY Zenon DEF bookkeeping, Books

LEMMA ServesState ==
    ASSUME StateInv, Serves(Msgs)
    PROVE  /\ cmds' \in Seq(Msgs) /\ accepted' = accepted /\ latest' = latest
           /\ exit' = exit /\ size' = size
<1>1. cmds \in Seq(Msgs)
  BY Zenon DEF StateInv
<1>2. \A m \in Msgs : Append(cmds, m) \in Seq(Msgs)
  <2>. DEFINE M == Msgs
  <2>. HIDE DEF M
  <2>1. \A m \in M : Append(cmds, m) \in Seq(M)
    <3>1. cmds \in Seq(M)
      BY <1>1 DEF M
    <3>. QED
      BY <3>1
  <2>. QED
    BY <2>1, Zenon DEF M
<1>3. cmds' = cmds \/ \E m \in Msgs : cmds' = Append(cmds, m)
  BY Zenon DEF Serves
<1>4. cmds' \in Seq(Msgs)
  BY <1>1, <1>2, <1>3, Zenon
<1>. QED
  BY <1>4, Zenon DEF Serves

LEMMA HandlerStep ==
    ASSUME ServerInv, NEW h \in Conns, Books(h), Serves(Msgs),
           conn' \in [Conns -> Records], Ready(conn'[h]),
           \A g \in Conns \ {h} : conn'[g] = conn[g],
           bound' = bound, lost' \in [Conns -> BOOLEAN], peer' \in [Conns -> PeerOf], PeersInv'
    PROVE  ServerInv'
<1>1. /\ cmds' \in Seq(Msgs) /\ accepted' = accepted /\ latest' = latest
      /\ exit' = exit /\ size' = size
  BY ServesState, Zenon DEF ServerInv
<1>2. EpochInv' /\ epoch' \in Nat /\ detached' \in BOOLEAN
  BY EpochStep, Zenon DEF ServerInv
<1>3. StateInv'
  BY <1>1, <1>2, Zenon DEF ServerInv, StateInv
<1>4. HandlersInv'
  <2>1. Records' = Records
    BY <1>1, SameRecords, Zenon
  <2>2. \A g \in Conns : Ready(conn'[g])
    BY Zenon DEF ServerInv, HandlersInv
  <2>. QED
    BY <2>1, <2>2, Zenon DEF HandlersInv
<1>5. BacklogInv'
  <2>1. Ready(conn[h]) /\ (Claims(h) \/ Keeps(h))
    BY Zenon DEF ServerInv, HandlersInv, Books
  <2>. QED
    BY <2>1, BacklogStep, Zenon DEF ServerInv
<1>. QED
  BY <1>2, <1>3, <1>4, <1>5, Zenon DEF ServerInv

\* What a peer was told stays true while nobody tells it anything.
LEMMA PeersStep ==
    ASSUME ServerInv, NEW h \in Conns, Moves(h, Records, ExitFrames(exit)),
           latest' = latest, exit' = exit, peer' = peer, lost' = lost
    PROVE  PeersInv'
<1>. DEFINE s == Screen(latest)  X == ExitFrames(exit)
<1>1. /\ \A g \in Conns \ {h} : conn'[g] = conn[g]
      /\ latest = NoScreen \/ (Tells(conn[h].feed, s, X) => Tells(conn'[h].feed, s, X))
  BY Zenon DEF Moves, StillTells
<1>2. ASSUME NEW g \in Conns PROVE PeerOk(g)'
  <2>1. PeerOk(g)
    BY Zenon DEF ServerInv, PeersInv
  <2>2. ASSUME Tells(conn[g].feed, s, X) => Tells(conn'[g].feed, s, X) PROVE PeerOk(g)'
    BY <2>1, <2>2, Zenon DEF PeerOk
  <2>3. CASE g # h
    <3>1. conn'[g] = conn[g]
      BY <1>1, <2>3
    <3>. QED
      BY <2>2, <3>1, Zenon
  <2>4. CASE g = h /\ latest # NoScreen
    BY <1>1, <2>2, <2>4, Zenon
  <2>5. CASE latest = NoScreen
    <3>1. peer[g].version = latest.version
      <4>1. latest.version = 0
        BY <2>5 DEF NoScreen
      <4>. DEFINE p == peer[g]
      <4>2. p \in PeerOf
        BY Zenon DEF ServerInv, StateInv
      <4>3. p.version <= 0
        BY <2>1, <4>1, Zenon DEF PeerOk
      <4>. HIDE DEF p
      <4>4. p.version = 0
        BY <4>2, <4>3 DEF PeerOf
      <4>. QED
        BY <4>1, <4>4, Zenon DEF p
    <3>. QED
      BY <2>1, <3>1, Zenon DEF PeerOk
  <2>. QED
    BY <2>3, <2>4, <2>5
<1>. QED
  BY <1>2, Zenon DEF PeersInv

LEMMA MoveStep ==
    ASSUME ServerInv, NEW h \in Conns, Books(h), Serves(Msgs),
           Moves(h, Records, ExitFrames(exit)), UNCHANGED <<peer, lost, bound>>
    PROVE  ServerInv'
<1>1. latest' = latest /\ exit' = exit
  BY Zenon DEF Serves
<1>2. PeersInv'
  BY <1>1, PeersStep, Zenon
<1>3. lost' \in [Conns -> BOOLEAN] /\ peer' \in [Conns -> PeerOf] /\ bound' = bound
  BY Zenon DEF ServerInv, StateInv
<1>. QED
  BY <1>2, <1>3, HandlerStep, Zenon DEF Moves

LEMMA Here ==
    ASSUME ServerInv
    PROVE  /\ Handling(Msgs, 0..accepted, CtrlFrames(accepted), ScreenFrames(latest), ExitFrames(exit))
           /\ conn \in [Conns -> ConnOf(Msgs, 0..accepted, Feeds)]
           /\ \A h \in Conns : Ready(conn[h])
<1>1. epochWatch \in Nat
  <2>1. epochWatch \in 0..epoch
    BY Zenon DEF ServerInv, EpochInv
  <2>. QED
    BY <2>1
<1>. QED
  BY <1>1, HandlingHere, Zenon DEF ServerInv, HandlersInv, Records

LEMMA AloneServes ==
    ASSUME UNCHANGED shared
    PROVE  Serves(Msgs)
  BY Zenon DEF shared, Serves

LEMMA HandleStep ==
    ASSUME ServerInv, NEW h \in Conns, Handle(h)
    PROVE  ServerInv'
<1>1. Proceed(h) /\ UNCHANGED <<peer, lost, bound>>
  BY Zenon DEF Handle
<1>2. Serves(Msgs)
  BY <1>1, Here, MsgsFaithful, ProceedServes, Zenon
<1>3. Books(h)
  BY <1>1, Here, ProceedKeeps, Zenon
<1>4. Moves(h, Records, ExitFrames(exit))
  BY <1>1, Here, ProceedMoves, Zenon DEF Records, Feeds
<1>. QED
  BY <1>1, <1>2, <1>3, <1>4, MoveStep, Zenon

LEMMA ConnectStep ==
    ASSUME ServerInv, NEW h \in Conns, Connect(h)
    PROVE  ServerInv'
<1>1. PICK s \in (IF "Resize" \in bound.ops THEN ValidSizes ELSE {}) \cup {NoSize} : Lookup(h, s)
  BY Zenon DEF Connect
<1>2. s \in AnySize
  <2>1. ValidSizes \subseteq Sizes
    BY ApiAssumption
  <2>. QED
    BY <2>1 DEF AnySize
<1>3. UNCHANGED <<shared, bookkeeping>> /\ UNCHANGED <<peer, lost, bound>>
  BY <1>1, Zenon DEF Lookup, Connect
<1>4. Books(h)
  BY <1>1, <1>3, Here, AttachKeeps, KeepsBooks, Zenon
<1>5. Moves(h, Records, ExitFrames(exit))
  BY <1>1, <1>2, Here, LookupMoves, Zenon DEF Records, Feeds
<1>6. Serves(Msgs)
  BY <1>3, AloneServes, Zenon
<1>. QED
  BY <1>3, <1>4, <1>5, <1>6, MoveStep, Zenon
-----------------------------------------------------------------------------
(* What the peers are told.                                                *)

LEMMA ToldIs ==
    ASSUME ServerInv, NEW p \in PeerOf, p.version <= latest.version,
           NEW f \in CtrlFrames(accepted) \cup ScreenFrames(latest) \cup ExitFrames(exit)
    PROVE  LET q == Told(p, f)
           IN  /\ q \in PeerOf /\ p.version <= q.version /\ q.version <= latest.version
               /\ f = Screen(latest) => q.version = latest.version
               /\ q.exit = p.exit \/ (f \in ExitFrames(exit) /\ q.exit = exit)
<1>. DEFINE q == Told(p, f)
<1>1. /\ p.version \in Nat /\ latest \in AnyScreen /\ latest.version \in Nat /\ accepted \in Nat
      /\ exit \in Codes \cup {NoExit} /\ p.acked \in Nat
  <2>1. latest \in AnyScreen /\ accepted \in Nat /\ exit \in Codes \cup {NoExit}
    BY Zenon DEF ServerInv, StateInv
  <2>2. latest.version \in Nat
    BY <2>1 DEF AnyScreen
  <2>. QED
    BY <2>1, <2>2 DEF PeerOf
<1>2. CASE f \in {HelloOk, Pong, Error}
  <2>1. f.kind \in {"HelloOk", "Pong", "Error"}
    BY <1>2, FrameKinds, Zenon
  <2>2. f # Screen(latest)
    BY <2>1, FrameKinds
  <2>3. q = [p EXCEPT !.hello = TRUE] \/ q = p
    <3>. DEFINE r == [p EXCEPT !.hello = TRUE]
    <3>1. q = IF f.kind = "HelloOk" THEN r ELSE p
      BY <2>1 DEF Told
    <3>. QED
      BY <3>1
  <2>. HIDE DEF q
  <2>4. q \in PeerOf /\ q.version = p.version /\ q.exit = p.exit
    BY <2>3 DEF PeerOf
  <2>. QED
    BY <1>1, <2>2, <2>4 DEF q
<1>3. CASE \E i \in 0..accepted : f = InputAck(i)
  <2>1. PICK i \in 0..accepted : f = InputAck(i)
    BY <1>3
  <2>2. f.kind = "InputAck" /\ f.seq = i
    BY <2>1, FrameKinds, Zenon
  <2>3. f # Screen(latest)
    BY <2>2, FrameKinds
  <2>. DEFINE n == Larger(p.acked, f.seq)
  <2>4. n \in Nat
    BY <1>1, <2>2 DEF Larger
  <2>5. q = [p EXCEPT !.acked = n]
    BY <2>2 DEF Told
  <2>. HIDE DEF n, q
  <2>6. q \in PeerOf /\ q.version = p.version /\ q.exit = p.exit
    BY <2>4, <2>5 DEF PeerOf
  <2>. QED
    BY <1>1, <2>3, <2>6 DEF q
<1>4. CASE \E s \in Past(latest) : f = Screen(s)
  <2>1. PICK s \in Past(latest) : f = Screen(s)
    BY <1>4
  <2>2. f.kind = "Screen" /\ f.screen = s
    BY <2>1, FrameKinds, Zenon
  <2>3. s \in AnyScreen /\ (s.version < latest.version \/ s = latest)
    BY Zenon DEF Past
  <2>4. s.version \in Nat /\ s.version <= latest.version
    <3>1. s.version \in Nat
      BY <2>3 DEF AnyScreen
    <3>. QED
      BY <1>1, <2>3, <3>1
  <2>. DEFINE n == Larger(p.version, f.screen.version)
  <2>5. n \in Nat /\ p.version <= n /\ n <= latest.version /\ (s = latest => n = latest.version)
    BY <1>1, <2>2, <2>4 DEF Larger
  <2>6. q = [p EXCEPT !.version = n]
    BY <2>2 DEF Told
  <2>. HIDE DEF n, q
  <2>7. q \in PeerOf /\ q.version = n /\ q.exit = p.exit
    BY <2>5, <2>6 DEF PeerOf
  <2>8. f = Screen(latest) => s = latest
    BY <2>2, FrameKinds
  <2>. QED
    BY <2>5, <2>7, <2>8, Zenon DEF q
<1>5. CASE f \in ExitFrames(exit)
  <2>1. f = Exit(exit) /\ exit # NoExit
    BY <1>5, FramesDiffer, Zenon
  <2>2. f.kind = "Exit" /\ f.status = exit
    BY <2>1, FrameKinds, Zenon
  <2>3. f # Screen(latest)
    BY <2>2, FrameKinds
  <2>4. q = [p EXCEPT !.exit = exit]
    BY <2>2 DEF Told
  <2>. HIDE DEF q
  <2>5. q \in PeerOf /\ q.version = p.version /\ q.exit = exit
    BY <1>1, <2>4 DEF PeerOf
  <2>. QED
    BY <1>1, <1>5, <2>3, <2>5 DEF q
<1>. HIDE DEF q
<1>6. \/ f \in {HelloOk, Pong, Error} \/ \E i \in 0..accepted : f = InputAck(i)
      \/ \E s \in Past(latest) : f = Screen(s)
      \/ f \in ExitFrames(exit)
  BY Zenon DEF CtrlFrames, ScreenFrames
<1>. QED
  BY <1>2, <1>3, <1>4, <1>5, <1>6, Zenon DEF q

\* An exit status arrives only after the newest screen.
LEMMA PeerTold ==
    ASSUME ServerInv, NEW h \in Conns,
           NEW f \in CtrlFrames(accepted) \cup ScreenFrames(latest) \cup ExitFrames(exit),
           Receives(h, f), latest' = latest, exit' = exit, lost' = lost,
           \A g \in Conns \ {h} : conn'[g] = conn[g],
           \/ latest = NoScreen /\ f \notin ExitFrames(exit)
           \/ (Tells(conn[h].feed, Screen(latest), ExitFrames(exit)) /\ f # Screen(latest))
              => Tells(conn'[h].feed, Screen(latest), ExitFrames(exit)),
           f \in ExitFrames(exit) => ~Tells(conn[h].feed, Screen(latest), ExitFrames(exit))
    PROVE  PeersInv' /\ peer' \in [Conns -> PeerOf]
<1>. DEFINE s == Screen(latest)  X == ExitFrames(exit)  p == peer[h]  q == Told(p, f)
<1>1. peer \in [Conns -> PeerOf] /\ PeerOk(h) /\ latest.version \in Nat
  <2>1. latest \in AnyScreen
    BY Zenon DEF ServerInv, StateInv
  <2>2. latest.version \in Nat
    BY <2>1 DEF AnyScreen
  <2>. QED
    BY <2>2, Zenon DEF ServerInv, StateInv, PeersInv
<1>2. p \in PeerOf /\ p.version <= latest.version
  BY <1>1, Zenon DEF PeerOk
<1>3. /\ q \in PeerOf /\ p.version <= q.version /\ q.version <= latest.version
      /\ f = s => q.version = latest.version
      /\ q.exit = p.exit \/ (f \in X /\ q.exit = exit)
  <2>. HIDE DEF p
  <2>. QED
    BY <1>2, ToldIs
<1>4. peer' = [peer EXCEPT ![h] = IF lost[h] THEN p ELSE q]
  BY Zenon DEF Receives
<1>5. peer' \in [Conns -> PeerOf] /\ peer'[h] = (IF lost[h] THEN p ELSE q)
      /\ \A g \in Conns \ {h} : peer'[g] = peer[g]
  BY <1>1, <1>2, <1>3, <1>4, Zenon
<1>6. PeerOk(h)'
  <2>1. CASE lost[h]
    <3>1. peer'[h] = p
      BY <1>5, <2>1, Zenon
    <3>. QED
      BY <1>1, <2>1, <3>1, Zenon DEF PeerOk
  <2>2. CASE ~lost[h]
    <3>1. peer'[h] = q
      BY <1>5, <2>2, Zenon
    <3>2. p.version \in Nat /\ q.version \in Nat
      BY <1>2, <1>3 DEF PeerOf
    <3>3. p.version = latest.version => q.version = latest.version
      <4>. HIDE DEF p, q
      <4>. QED
        BY <1>1, <1>3, <3>2
    <3>4. p.exit # NoExit => p.version = latest.version /\ p.exit = exit
      BY <1>1, Zenon DEF PeerOk
    <3>5. p.version = latest.version \/ Tells(conn[h].feed, s, X)
      BY <1>1, <2>2, Zenon DEF PeerOk
    <3>6. q.exit # NoExit => q.version = latest.version /\ q.exit = exit
      BY <1>3, <3>3, <3>4, <3>5, Zenon
    <3>7. q.version = latest.version \/ Tells(conn'[h].feed, s, X)
      <4>1. CASE latest = NoScreen
        <5>1. latest.version = 0
          BY <4>1 DEF NoScreen
        <5>2. q.version = 0
          <6>. HIDE DEF q
          <6>. QED
            BY <1>3, <3>2, <5>1
        <5>. QED
          BY <5>1, <5>2, Zenon
      <4>2. CASE latest # NoScreen
        BY <1>3, <3>3, <3>5, <4>2, Zenon
      <4>. QED
        BY <4>1, <4>2
    <3>. HIDE DEF p, q, s, X
    <3>. QED
      BY <1>3, <3>1, <3>6, <3>7, Zenon DEF PeerOk, s, X
  <2>. QED
    BY <2>1, <2>2
<1>7. ASSUME NEW g \in Conns PROVE PeerOk(g)'
  <2>1. CASE g = h
    BY <1>6, <2>1, Zenon DEF PeerOk
  <2>2. CASE g # h
    <3>1. peer'[g] = peer[g] /\ conn'[g] = conn[g]
      BY <1>5, <2>2, Zenon
    <3>2. PeerOk(g)
      BY Zenon DEF ServerInv, PeersInv
    <3>. QED
      BY <3>1, <3>2, Zenon DEF PeerOk
  <2>. QED
    BY <2>1, <2>2
<1>. QED
  BY <1>5, <1>7, Zenon DEF PeersInv

LEMMA DeliverStep ==
    ASSUME ServerInv, NEW h \in Conns, Deliver(h)
    PROVE  ServerInv'
<1>. DEFINE o == Outgoing(h)  s == Screen(latest)  X == ExitFrames(exit)
<1>1. /\ Write(h) /\ Receives(h, o) /\ UNCHANGED <<lost, bound>>
      /\ UNCHANGED <<shared, bookkeeping>>
  BY Zenon DEF Deliver, Write
<1>2. /\ conn' \in [Conns -> Records] /\ Ready(conn'[h])
      /\ \A g \in Conns \ {h} : conn'[g] = conn[g]
      /\ o \in CtrlFrames(accepted) \cup ScreenFrames(latest) \cup X
      /\ conn[h].feed.out = <<o>>
      /\ (Tells(conn[h].feed, s, X) /\ o # s) => Tells(conn'[h].feed, s, X)
  <2>. HIDE DEF o, s
  <2>. QED
    BY <1>1, Here, WriteMoves, Zenon DEF o, Records, Feeds
<1>3. Books(h)
  BY <1>1, Here, SelectKeeps, KeepsBooks, Zenon
<1>4. latest' = latest /\ exit' = exit /\ lost' = lost /\ Serves(Msgs)
  BY <1>1, AloneServes, Zenon DEF shared
<1>5. o \in X => ~Tells(conn[h].feed, s, X)
  BY <1>2, Zenon DEF Tells
<1>6. PeersInv' /\ peer' \in [Conns -> PeerOf]
  <2>. HIDE DEF o
  <2>. QED
    BY <1>1, <1>2, <1>4, <1>5, PeerTold, Zenon
<1>7. lost' \in [Conns -> BOOLEAN] /\ bound' = bound
  BY <1>1, Zenon DEF ServerInv, StateInv
<1>. QED
  BY <1>2, <1>3, <1>4, <1>6, <1>7, HandlerStep, Zenon

LEMMA SendLatestStep ==
    ASSUME ServerInv, NEW h \in Conns, SendLatest(h)
    PROVE  ServerInv'
<1>1. PICK via : /\ OnLatest(h, via) /\ UNCHANGED <<lost, bound>>
                 /\ UNCHANGED peer \/ Receives(h, Screen(latest))
  BY Zenon DEF SendLatest
<1>2. UNCHANGED <<shared, bookkeeping>>
  BY <1>1, Zenon DEF OnLatest
<1>3. Books(h)
  BY <1>1, <1>2, Here, SelectKeeps, KeepsBooks, Zenon
<1>4. Moves(h, Records, ExitFrames(exit))
  BY <1>1, Here, OnLatestMoves, Zenon DEF Records, Feeds
<1>5. latest' = latest /\ exit' = exit /\ lost' = lost /\ Serves(Msgs)
  BY <1>1, <1>2, AloneServes, Zenon DEF shared
<1>6. CASE UNCHANGED peer
  BY <1>1, <1>3, <1>4, <1>5, <1>6, MoveStep, Zenon
<1>7. CASE Receives(h, Screen(latest))
  <2>. DEFINE f == Screen(latest)
  <2>1. f \in ScreenFrames(latest) /\ f \notin ExitFrames(exit)
    <3>1. latest \in AnyScreen
      BY Zenon DEF ServerInv, StateInv
    <3>2. f \in ScreenFrames(latest)
      BY <3>1, Zenon DEF ScreenFrames, Past
    <3>. QED
      BY <3>2, FramesDiffer, Zenon
  <2>2. \A g \in Conns \ {h} : conn'[g] = conn[g]
    BY <1>4, Zenon DEF Moves
  <2>3. f \in CtrlFrames(accepted) \cup ScreenFrames(latest) \cup ExitFrames(exit)
    BY <2>1, Zenon
  <2>4. Receives(h, f) /\ f = Screen(latest)
    BY <1>7
  <2>. HIDE DEF f
  <2>5. PeersInv' /\ peer' \in [Conns -> PeerOf]
    BY <1>5, <2>1, <2>2, <2>3, <2>4, PeerTold, Zenon
  <2>6. lost' \in [Conns -> BOOLEAN] /\ bound' = bound
    BY <1>1, Zenon DEF ServerInv, StateInv
  <2>. QED
    BY <1>3, <1>4, <1>5, <2>5, <2>6, HandlerStep, Zenon DEF Moves
<1>. QED
  BY <1>1, <1>6, <1>7

LEMMA ReadStep ==
    ASSUME ServerInv, NEW h \in Conns, Read(h)
    PROVE  ServerInv'
<1>0. PICK n \in 1..(bound.left - Len(conn[h].leftover)) :
         \E q \in [1..n -> PeerFrames(h)] : read_more(h, q)
  BY Zenon DEF Read
<1>1. PICK q \in [1..n -> PeerFrames(h)] : read_more(h, q)
  BY <1>0
<1>2. PeerFrames(h) \subseteq Msgs
  <2>. SUFFICES ASSUME NEW m \in PeerFrames(h) PROVE m \in Msgs
    OBVIOUS
  <2>1. \/ \E seq \in 1..bound.seq, d \in Data : m = Input(seq, d)
        \/ \E s \in Sizes : m = Resize(s)
        \/ \E v \in 1..peer[h].version : m = Ack(v)
        \/ m = Hangup \/ m = Ping
    <3>. DEFINE S == IF latest.version < bound.version THEN Sizes ELSE {}
                I == {Input(seq, d) : seq \in 1..bound.seq, d \in Data}
    <3>1. S \subseteq Sizes
      OBVIOUS
    <3>2. m \in I \/ (\E s \in S : m = Resize(s)) \/ (\E v \in 1..peer[h].version : m = Ack(v))
          \/ m = Hangup \/ m = Ping
      <4>. DEFINE R == {Resize(s) : s \in S}  K == {Ack(v) : v \in 1..peer[h].version}
                  O == bound.ops
      <4>1. PeerFrames(h) = {x \in I \cup R \cup K \cup {Hangup, Ping} : x.op \in O}
        BY DEF PeerFrames
      <4>2. m \in R => \E s \in S : m = Resize(s)
        BY Zenon
      <4>3. m \in K => \E v \in 1..peer[h].version : m = Ack(v)
        BY Zenon
      <4>. HIDE DEF I, R, K, O, S
      <4>4. m \in I \cup R \cup K \cup {Hangup, Ping}
        BY <4>1
      <4>. QED
        BY <4>2, <4>3, <4>4
    <3>3. m \in I => \E seq \in 1..bound.seq, d \in Data : m = Input(seq, d)
      OBVIOUS
    <3>. HIDE DEF S, I
    <3>. QED
      BY <3>1, <3>2, <3>3, Zenon
  <2>2. bound.seq \in Nat /\ peer[h].version \in Nat
    <3>1. bound \in Bounds /\ peer[h] \in PeerOf
      BY Zenon DEF ServerInv, StateInv
    <3>2. bound.seq \in Nat
      BY <3>1, ServerAssumption
    <3>3. peer[h].version \in Nat
      BY <3>1 DEF PeerOf
    <3>. QED
      BY <3>2, <3>3
  <2>3. 1..bound.seq \subseteq Nat /\ 1..peer[h].version \subseteq Nat
    BY <2>2
  <2>4. Sizes \subseteq AnySize
    BY DEF AnySize
  <2>. QED
    BY <2>1, <2>3, <2>4 DEF Msgs
<1>3. q \in Seq(Msgs)
  <2>. DEFINE M == Msgs  P == PeerFrames(h)  k == bound.left - Len(conn[h].leftover)
  <2>1. P \subseteq M /\ n \in 1..k /\ q \in [1..n -> P] /\ k \in Int
    <3>1. bound.left \in Int
      <4>1. bound \in Bounds
        BY Zenon DEF ServerInv, StateInv
      <4>. QED
        BY <4>1, ServerAssumption
    <3>2. Len(conn[h].leftover) \in Int
      <4>1. conn[h].leftover \in Seq(Msgs)
        BY RecordIs, Zenon DEF ServerInv
      <4>. DEFINE l == conn[h].leftover
      <4>. HIDE DEF l
      <4>2. l \in Seq(M)
        BY <4>1, Zenon DEF l
      <4>. HIDE DEF M
      <4>3. Len(l) \in Int
        BY <4>2
      <4>. QED
        BY <4>3 DEF l
    <3>. QED
      BY <1>1, <1>2, <3>1, <3>2
  <2>. HIDE DEF M, P, k
  <2>2. q \in Seq(M)
    BY <2>1
  <2>. QED
    BY <2>2 DEF M
<1>4. UNCHANGED <<shared, bookkeeping>> /\ UNCHANGED <<peer, lost, bound>>
  BY <1>1, Zenon DEF read_more, Read
<1>5. Books(h)
  BY <1>1, <1>4, Here, SelectKeeps, KeepsBooks, Zenon
<1>6. Moves(h, Records, ExitFrames(exit))
  BY <1>1, <1>3, Here, ReadMoves, Zenon DEF Records, Feeds
<1>7. Serves(Msgs)
  BY <1>4, AloneServes, Zenon
<1>. QED
  BY <1>4, <1>5, <1>6, <1>7, MoveStep, Zenon

LEMMA ArmStep ==
    ASSUME ServerInv, NEW h \in Conns, AckInput(h) \/ Resync(h) \/ Fail(h)
    PROVE  ServerInv'
<1>1. /\ OnAccepted(h) \/ OnResync(h) \/ Broken(h)
      /\ UNCHANGED <<peer, lost, bound>>
  BY Zenon DEF AckInput, Resync, Fail
<1>2. UNCHANGED <<shared, bookkeeping>>
  BY <1>1, Zenon DEF OnAccepted, OnResync, Broken
<1>3. Books(h)
  BY <1>1, <1>2, Here, SelectKeeps, KeepsBooks, Zenon
<1>4. Moves(h, Records, ExitFrames(exit))
  <2>1. CASE OnAccepted(h)
    BY <2>1, Here, OnAcceptedMoves, Zenon DEF Records, Feeds
  <2>2. CASE OnResync(h)
    BY <2>2, Here, OnResyncMoves, Zenon DEF Records, Feeds
  <2>3. CASE Broken(h)
    <3>1. Leave(h)
      BY <2>3, Zenon DEF Broken
    <3>. QED
      BY <3>1, Here, LeaveMoves, Zenon DEF Records, Feeds
  <2>. QED
    BY <1>1, <2>1, <2>2, <2>3
<1>5. Serves(Msgs)
  BY <1>2, AloneServes, Zenon
<1>. QED
  BY <1>1, <1>3, <1>4, <1>5, MoveStep, Zenon

LEMMA LoseStep ==
    ASSUME ServerInv, NEW h \in Conns, Lose(h)
    PROVE  ServerInv'
<1>1. /\ lost' = [lost EXCEPT ![h] = TRUE]
      /\ UNCHANGED <<shared, bookkeeping, conn, peer, bound>>
  BY Zenon DEF Lose
<1>2. lost \in [Conns -> BOOLEAN]
  BY Zenon DEF ServerInv, StateInv
<1>3. lost' \in [Conns -> BOOLEAN] /\ \A g \in Conns : lost[g] => lost'[g]
  BY <1>1, <1>2
<1>4. /\ cmds' = cmds /\ accepted' = accepted /\ latest' = latest /\ exit' = exit /\ size' = size
      /\ epoch' = epoch /\ epochWatch' = epochWatch /\ detached' = detached
  BY <1>1, Zenon DEF shared, bookkeeping
<1>5. StateInv'
  BY <1>1, <1>3, <1>4, Zenon DEF ServerInv, StateInv
<1>6. HandlersInv'
  BY <1>1, <1>4, SameRecords, Zenon DEF ServerInv, HandlersInv
<1>7. EpochInv'
  BY <1>1, <1>4, Zenon DEF ServerInv, EpochInv, Claimed
<1>8. BacklogInv'
  BY <1>1, Zenon DEF ServerInv, BacklogInv
<1>9. PeersInv'
  <2>1. \A g \in Conns : PeerOk(g)'
    <3>. TAKE g \in Conns
    <3>1. PeerOk(g)
      BY Zenon DEF ServerInv, PeersInv
    <3>. QED
      BY <1>1, <1>3, <1>4, <3>1, Zenon DEF PeerOk
  <2>. QED
    BY <2>1, Zenon DEF PeersInv
<1>. QED
  BY <1>5, <1>6, <1>7, <1>8, <1>9, Zenon DEF ServerInv
-----------------------------------------------------------------------------
(* The steps of the owner.                                                 *)

LEMMA RecordsGrow ==
    ASSUME StateInv, accepted' \in Nat, accepted <= accepted', latest' \in AnyScreen,
           latest' = latest \/ latest'.version > latest.version,
           exit = exit' \/ exit = NoExit
    PROVE  Records \subseteq Records'
<1>1. accepted \in Nat /\ latest \in AnyScreen
  BY Zenon DEF StateInv
<1>2. /\ CtrlFrames(accepted) \subseteq CtrlFrames(accepted')
      /\ ScreenFrames(latest) \subseteq ScreenFrames(latest')
      /\ ExitFrames(exit) \subseteq ExitFrames(exit')
  <2>. DEFINE m == accepted'  k == latest'  y == exit'
  <2>1. /\ m \in Nat /\ accepted <= m /\ k \in AnyScreen
        /\ k = latest \/ k.version > latest.version
        /\ exit = y \/ exit = NoExit
    OBVIOUS
  <2>. HIDE DEF m, k, y
  <2>2. /\ CtrlFrames(accepted) \subseteq CtrlFrames(m)
        /\ ScreenFrames(latest) \subseteq ScreenFrames(k)
        /\ ExitFrames(exit) \subseteq ExitFrames(y)
    BY <1>1, <2>1, FramesGrow
  <2>. QED
    BY <2>2, Zenon DEF m, k, y
<1>3. Feeds \subseteq Feeds'
  BY <1>2, FeedGrows, Zenon DEF Feeds
<1>4. Labels \subseteq Labels'
  <2>1. {p \in {"exit"} : exit # NoExit} \subseteq {p \in {"exit"} : exit' # NoExit}
    BY Zenon
  <2>. QED
    BY <2>1 DEF Labels
<1>5. 0..accepted \subseteq 0..accepted'
  BY <1>1
<1>. DEFINE A == 0..accepted  B == 0..accepted'  S == Seq(Msgs)  K == Seq(Inputs(Msgs))
            Fe == Feeds'  La == Labels'
            P == [pc : Labels, epoch : Nat, leftover : S, busy : K, wantSize : AnySize,
                  wantAck : A, feed : Feeds, seen : SeenOf]
            Q == [pc : La, epoch : Nat, leftover : S, busy : K, wantSize : AnySize,
                  wantAck : B, feed : Fe, seen : SeenOf]
<1>6. Records = P
  BY Zenon DEF Records, ConnOf
<1>7. Records' = Q
  BY Zenon DEF Records, ConnOf
<1>8. A \subseteq B /\ Feeds \subseteq Fe /\ Labels \subseteq La
  BY <1>3, <1>4, <1>5
<1>. HIDE DEF A, B, S, K, Fe, La
<1>9. P \subseteq Q
  BY <1>8, Zenon
<1>. QED
  BY <1>6, <1>7, <1>9, Zenon

\* Before there is an exit status none is on its way.
LEMMA NoExitYet ==
    ASSUME StateInv, HandlersInv, exit = NoExit, NEW h \in Conns
    PROVE  \A l, x : Tells(conn[h].feed, Screen(l), ExitFrames(x))
<1>. DEFINE C == CtrlFrames(accepted)  S == ScreenFrames(latest)  f == conn[h].feed
<1>1. ExitFrames(exit) = {}
  BY Zenon DEF ExitFrames
<1>2. f \in FeedOf(C, S, {})
  BY <1>1, RecordIs, Zenon DEF Feeds
<1>3. \A x : \A y \in ExitFrames(x) : y \notin C \cup S
  BY FramesDiffer, Zenon
<1>. HIDE DEF C, S, f
<1>4. f.fin = <<>> /\ f.out \in Opt(C \cup S)
  <2>1. f.fin \in Opt({}) /\ f.out \in Opt(C \cup S \cup {}) /\ C \cup S \cup {} = C \cup S
    BY <1>2 DEF FeedOf
  <2>2. f.fin = <<>>
    BY <2>1 DEF Opt
  <2>. QED
    BY <2>1, <2>2
<1>5. ASSUME NEW x, NEW y \in ExitFrames(x) PROVE f.out # <<y>>
  <2>1. f.out = <<>> \/ \E z \in C \cup S : f.out = <<z>>
    BY <1>4, OptIs, Zenon
  <2>2. y \notin C \cup S
    BY <1>3, Zenon
  <2>. QED
    BY <2>1, <2>2
<1>. QED
  BY <1>4, <1>5, Zenon DEF Tells, f

LEMMA OwnerStep ==
    ASSUME ServerInv, UNCHANGED notShared,
           cmds' \in Seq(Msgs), size' \in AnySize, accepted' \in Nat, accepted <= accepted',
           latest' \in AnyScreen, latest' = latest \/ latest'.version > latest.version,
           exit' \in Codes \cup {NoExit},
           (latest' = latest /\ exit' = exit) \/ exit = NoExit
    PROVE  ServerInv'
<1>1. /\ conn' = conn /\ peer' = peer /\ lost' = lost /\ bound' = bound
      /\ epoch' = epoch /\ epochWatch' = epochWatch /\ detached' = detached
  BY Zenon DEF notShared, bookkeeping
<1>2. StateInv'
  BY <1>1, Zenon DEF ServerInv, StateInv
<1>3. HandlersInv'
  <2>1. Records \subseteq Records'
    BY RecordsGrow, Zenon DEF ServerInv
  <2>. QED
    BY <1>1, <2>1, Zenon DEF ServerInv, HandlersInv
<1>4. EpochInv'
  BY <1>1, Zenon DEF ServerInv, EpochInv, Claimed
<1>5. BacklogInv'
  BY <1>1, Zenon DEF ServerInv, BacklogInv
<1>6. ASSUME NEW h \in Conns PROVE PeerOk(h)'
  <2>1. PeerOk(h)
    BY Zenon DEF ServerInv, PeersInv
  <2>2. CASE latest' = latest /\ exit' = exit
    BY <1>1, <2>1, <2>2, Zenon DEF PeerOk
  <2>3. CASE exit = NoExit
    <3>1. Tells(conn[h].feed, Screen(latest'), ExitFrames(exit'))
      BY <2>3, NoExitYet, Zenon DEF ServerInv
    <3>. DEFINE p == peer[h]
    <3>2. p.exit = NoExit
      <4>1. p \in PeerOf
        BY Zenon DEF ServerInv, StateInv
      <4>2. p.exit # NoExit => p.exit = exit
        BY <2>1, Zenon DEF PeerOk
      <4>. QED
        BY <2>3, <4>2
    <3>3. p.version <= latest'.version
      <4>1. p \in PeerOf /\ latest \in AnyScreen /\ p.version <= latest.version
        BY <2>1, Zenon DEF ServerInv, StateInv, PeerOk
      <4>2. p.version \in Nat /\ latest.version \in Nat
        <5>. HIDE DEF p
        <5>. QED
          BY <4>1 DEF PeerOf, AnyScreen
      <4>. DEFINE k == latest'
      <4>3. k \in AnyScreen /\ (k = latest \/ k.version > latest.version)
        OBVIOUS
      <4>. HIDE DEF p, k
      <4>4. k.version \in Nat
        BY <4>3 DEF AnyScreen
      <4>5. p.version <= k.version
        BY <4>1, <4>2, <4>3, <4>4
      <4>. QED
        BY <4>5, Zenon DEF k
    <3>. QED
      BY <1>1, <3>1, <3>2, <3>3, Zenon DEF PeerOk
  <2>. QED
    BY <2>2, <2>3
<1>7. PeersInv'
  BY <1>6, Zenon DEF PeersInv
<1>. QED
  BY <1>2, <1>3, <1>4, <1>5, <1>7, Zenon DEF ServerInv

LEMMA OwnerSteps ==
    ASSUME ServerInv, Owner
    PROVE  ServerInv'
<1>1. /\ UNCHANGED notShared
      /\ OwnerTakes \/ OwnerPublishes \/ OwnerExits \/ OwnerCloses
  BY Zenon DEF Owner
<1>2. /\ cmds \in Seq(Msgs) /\ accepted \in Nat /\ latest \in AnyScreen /\ size \in AnySize
      /\ exit \in Codes \cup {NoExit} /\ accepted <= accepted
  <2>1. /\ cmds \in Seq(Msgs) /\ accepted \in Nat /\ latest \in AnyScreen /\ size \in AnySize
        /\ exit \in Codes \cup {NoExit}
    BY Zenon DEF ServerInv, StateInv
  <2>2. accepted <= accepted
    BY <2>1
  <2>. QED
    BY <2>1, <2>2
<1>3. \A s \in AnySize : NextScreen(s) \in AnyScreen /\ NextScreen(s).version > latest.version
  BY <1>2 DEF NextScreen, AnyScreen
<1>4. CASE OwnerTakes
  <2>. DEFINE m == Head(cmds)
  <2>1. /\ cmds # <<>> /\ cmds' = Tail(cmds) /\ exit = NoExit /\ exit' = exit
        /\ latest' = IF m.op = "Resize" THEN NextScreen(m.size) ELSE latest
        /\ \/ m.op = "Input" /\ m.seq = accepted + 1 /\ accepted' = m.seq /\ size' = size
           \/ m.op = "Input" /\ accepted' = accepted /\ size' = size
           \/ m.op = "Resize" /\ accepted' = accepted /\ size' = m.size
           \/ m.op = "Ack" /\ accepted' = accepted /\ size' = size
    BY <1>4, Zenon DEF OwnerTakes, ApiTake
  <2>2. m \in Msgs /\ cmds' \in Seq(Msgs)
    <3>. DEFINE M == Msgs
    <3>. HIDE DEF M
    <3>1. cmds \in Seq(M)
      BY <1>2 DEF M
    <3>2. m \in M /\ cmds' \in Seq(M)
      BY <2>1, <3>1
    <3>. QED
      BY <3>2, Zenon DEF M
  <2>3. accepted' \in Nat /\ accepted <= accepted'
    <3>. HIDE DEF m
    <3>. QED
      BY <1>2, <2>1
  <2>4. m.op = "Resize" => m.size \in AnySize
    BY <2>2, MsgIs, Zenon
  <2>5. size' \in AnySize
    <3>1. m.op = "Resize" \/ size' = size
      BY <2>1, Zenon
    <3>2. m.op = "Resize" => size' = m.size
      <4>. HIDE DEF m
      <4>. QED
        BY <2>1
    <3>. QED
      BY <1>2, <2>4, <3>1, <3>2, Zenon
  <2>6. latest' \in AnyScreen /\ (latest' = latest \/ latest'.version > latest.version)
    <3>1. CASE m.op = "Resize"
      <4>1. latest' = NextScreen(m.size)
        BY <2>1, <3>1, Zenon
      <4>. QED
        BY <1>3, <2>4, <3>1, <4>1, Zenon
    <3>2. CASE m.op # "Resize"
      BY <1>2, <2>1, <3>2, Zenon
    <3>. QED
      BY <3>1, <3>2
  <2>. QED
    BY <1>1, <1>2, <2>1, <2>2, <2>3, <2>5, <2>6, OwnerStep, Zenon
<1>5. CASE OwnerPublishes
  <2>1. /\ latest' = NextScreen(size) /\ exit = NoExit
        /\ cmds' = cmds /\ accepted' = accepted /\ size' = size /\ exit' = exit
    BY <1>5, Zenon DEF OwnerPublishes, ApiPublish
  <2>2. latest' \in AnyScreen /\ latest'.version > latest.version
    BY <1>2, <1>3, <2>1, Zenon
  <2>. QED
    BY <1>1, <1>2, <2>1, <2>2, OwnerStep, Zenon
<1>6. CASE OwnerExits
  <2>1. /\ exit = NoExit /\ exit' \in Codes /\ latest' = latest
        /\ cmds' = cmds /\ accepted' = accepted /\ size' = size
    BY <1>6, Zenon DEF OwnerExits, ApiExit
  <2>. QED
    BY <1>1, <1>2, <2>1, OwnerStep, Zenon
<1>7. CASE OwnerCloses
  <2>1. /\ cmds' = <<>> /\ latest' = latest /\ exit' = exit
        /\ accepted' = accepted /\ size' = size
    BY <1>7, Zenon DEF OwnerCloses, ApiClose
  <2>2. <<>> \in Seq(Msgs)
    OBVIOUS
  <2>. QED
    BY <1>1, <1>2, <2>1, <2>2, OwnerStep, Zenon
<1>. QED
  BY <1>1, <1>4, <1>5, <1>6, <1>7

LEMMA ServerFirst ==
    ASSUME Init
    PROVE  ServerInv
<1>1. /\ cmds = <<>> /\ accepted = 0 /\ latest = NoScreen /\ exit = NoExit /\ size \in ValidSizes
      /\ epoch = 0 /\ epochWatch = 0 /\ detached = TRUE /\ conn = [h \in Conns |-> NewConn]
      /\ peer = [h \in Conns |-> NewPeer] /\ lost = [h \in Conns |-> FALSE] /\ bound \in Bounds
  BY Zenon DEF Init, ApiInit, TransportInit
<1>2. NoScreen \in AnyScreen /\ NoScreen.version = 0
  BY DEF NoScreen, AnyScreen
<1>3. NewPeer \in PeerOf /\ NewPeer.version = 0 /\ NewPeer.exit = NoExit
  <2>. DEFINE x == NoExit
  <2>1. NewPeer = [hello |-> FALSE, version |-> 0, acked |-> 0, exit |-> x] /\ x \in Codes \cup {NoExit}
    BY Zenon DEF NewPeer
  <2>. HIDE DEF x
  <2>2. NewPeer \in PeerOf /\ NewPeer.version = 0 /\ NewPeer.exit = x
    BY <2>1 DEF PeerOf
  <2>. QED
    BY <2>2, Zenon DEF x
<1>4. StateInv
  <2>1. cmds \in Seq(Msgs) /\ accepted \in Nat /\ epoch \in Nat
    BY <1>1
  <2>2. size \in AnySize
    BY <1>1, ApiAssumption DEF AnySize
  <2>. QED
    BY <1>1, <1>2, <1>3, <2>1, <2>2, Zenon DEF StateInv
<1>5. NewConn \in Records /\ Ready(NewConn) /\ NewConn.pc = "hello"
  <2>1. 0 \in 0..accepted
    BY <1>1
  <2>. QED
    BY <2>1, NewConnIs, Zenon DEF Records, Feeds
<1>6. NewConn.epoch = 0 /\ NewConn.busy = <<>>
  <2>. DEFINE x == NoExit  z == NoSize  f == EmptyFeed
              s == [epoch |-> 0, version |-> 0, accepted |-> 0, exit |-> x]
  <2>1. NewConn = [pc |-> "hello", epoch |-> 0, leftover |-> <<>>, busy |-> <<>>,
                   wantSize |-> z, wantAck |-> 0, feed |-> f, seen |-> s]
    BY Zenon DEF NewConn, NoAck
  <2>. HIDE DEF x, z, f, s
  <2>. QED
    BY <2>1
<1>7. \A h \in Conns : conn[h] = NewConn /\ peer[h] = NewPeer
  BY <1>1, Zenon
<1>8. HandlersInv
  BY <1>1, <1>5, Zenon DEF HandlersInv
<1>9. EpochInv
  <2>1. Claimed = {}
    BY <1>6, <1>7, Zenon DEF Claimed
  <2>2. Cardinality(Claimed) = epoch
    BY <1>1, <2>1, FS_EmptySet, Zenon
  <2>3. 0 \in 0..0 /\ "hello" \in Early
    BY DEF Early
  <2>4. \A h \in Conns : conn[h].epoch = 0 /\ conn[h].pc = "hello"
    BY <1>5, <1>6, <1>7, Zenon
  <2>. QED
    BY <1>1, <2>2, <2>3, <2>4, Zenon DEF EpochInv
<1>10. BacklogInv
  <2>1. BacklogOk(NewConn)
    <3>1. busy_bytes(NewConn.busy) = 0
      BY <1>6, EmptyBytes, Zenon
    <3>2. 0 < BusyCap + Overhead + MaxInput
      BY TransportAssumption, ApiAssumption
    <3>3. NewConn.pc # "apply"
      BY <1>5
    <3>. QED
      BY <3>1, <3>2, <3>3, Zenon DEF BacklogOk
  <2>. QED
    BY <1>7, <2>1, Zenon DEF BacklogInv
<1>11. PeersInv
  <2>1. 0 <= 0
    OBVIOUS
  <2>. QED
    BY <1>1, <1>2, <1>3, <1>7, <2>1, Zenon DEF PeersInv, PeerOk
<1>. QED
  BY <1>4, <1>8, <1>9, <1>10, <1>11, Zenon DEF ServerInv

LEMMA ServerStays ==
    ASSUME ServerInv, UNCHANGED vars
    PROVE  ServerInv'
<1>1. /\ cmds' = cmds /\ accepted' = accepted /\ latest' = latest /\ exit' = exit /\ size' = size
      /\ epoch' = epoch /\ epochWatch' = epochWatch /\ detached' = detached
      /\ conn' = conn /\ peer' = peer /\ lost' = lost /\ bound' = bound
  BY Zenon DEF vars, shared, bookkeeping
<1>2. StateInv' /\ HandlersInv'
  BY <1>1, SameRecords, Zenon DEF ServerInv, StateInv, HandlersInv
<1>3. EpochInv' /\ BacklogInv' /\ PeersInv'
  BY <1>1, Zenon DEF ServerInv, EpochInv, Claimed, BacklogInv, PeersInv, PeerOk
<1>. QED
  BY <1>2, <1>3, Zenon DEF ServerInv

LEMMA ServerNext ==
    ASSUME ServerInv, [Next]_vars
    PROVE  ServerInv'
<1>1. ASSUME NEW h \in Conns,
             \/ Handle(h) \/ Connect(h) \/ Deliver(h) \/ SendLatest(h) \/ AckInput(h)
             \/ Resync(h) \/ Read(h) \/ Lose(h) \/ Fail(h)
      PROVE  ServerInv'
  BY <1>1, HandleStep, ConnectStep, DeliverStep, SendLatestStep, ArmStep, ReadStep, LoseStep,
     Zenon
<1>. QED
  BY <1>1, OwnerSteps, ServerStays, Zenon DEF Next
-----------------------------------------------------------------------------
(* What the handlers and their peers may rely on.                          *)

\* The invariant: epochs (claim_transport), the backlog (drain_leftover) and
\* what every peer was and will be told (FrameFeed, queue_exit).
THEOREM ServerHolds == Spec => []ServerInv
<1>1. Init => ServerInv
  BY ServerFirst, Zenon
<1>2. ServerInv /\ [Next]_vars => ServerInv'
  BY ServerNext, Zenon
<1>. QED
  BY <1>1, <1>2, PTL DEF Spec

LEMMA InvGivesTypes ==
    ASSUME ServerInv
    PROVE  TypeOK
<1>1. epoch \in 0..Cardinality(Conns)
  <2>1. Claimed \subseteq Conns /\ Cardinality(Claimed) = epoch /\ epoch \in Nat
    BY Zenon DEF Claimed, ServerInv, StateInv, EpochInv
  <2>2. Cardinality(Claimed) <= Cardinality(Conns)
    BY <2>1, ServerAssumption, FS_Subset
  <2>3. Cardinality(Conns) \in Nat
    BY ServerAssumption, FS_CardinalityType
  <2>. QED
    BY <2>1, <2>2, <2>3
<1>2. epochWatch \in 0..epoch /\ detached \in BOOLEAN
  BY Zenon DEF ServerInv, StateInv, EpochInv
<1>3. ASSUME NEW h \in Conns
      PROVE  LET c == conn[h]
             IN  /\ c.pc \in Pcs /\ c.epoch \in 0..epoch
                 /\ c.wantSize \in Sizes \cup {NoSize} /\ c.wantAck \in 0..accepted
                 /\ At(h, "frames") \/ At(h, "apply") => c.leftover # <<>>
                 /\ c.pc \notin {"hello", "rejected", "claim"} => c.epoch > 0
                 /\ peer[h].exit \in Codes \cup {NoExit} /\ lost[h] \in BOOLEAN
                 /\ busy_bytes(c.busy) < BusyCap + Overhead + MaxInput
  <2>. DEFINE c == conn[h]
  <2>1. c.pc \in Labels /\ c.wantSize \in AnySize /\ c.wantAck \in 0..accepted
    BY RecordIs, Zenon DEF ServerInv
  <2>2. c.pc \in Pcs
    <3>1. Labels \subseteq Pcs
      BY DEF Labels, Pcs
    <3>. QED
      BY <2>1, <3>1, Zenon
  <2>3. c.epoch \in 0..epoch /\ (c.pc \notin Early => c.epoch # 0) /\ epoch \in Nat
    BY Zenon DEF ServerInv, StateInv, EpochInv
  <2>4. c.pc \notin {"hello", "rejected", "claim"} => c.epoch > 0
    <3>. HIDE DEF c
    <3>. QED
      BY <2>3 DEF Early
  <2>5. At(h, "frames") \/ At(h, "apply") => c.leftover # <<>>
    <3>1. Ready(c)
      BY Here, Zenon
    <3>2. c.pc = "frames" \/ c.pc = "apply" => c.leftover # <<>>
      <4>. HIDE DEF c
      <4>. QED
        BY <3>1 DEF Ready, ReadyFor
    <3>. QED
      BY <3>2, Zenon DEF At
  <2>6. peer[h].exit \in Codes \cup {NoExit} /\ lost[h] \in BOOLEAN
    <3>. DEFINE p == peer[h]
    <3>1. p \in PeerOf /\ lost[h] \in BOOLEAN
      BY Zenon DEF ServerInv, StateInv
    <3>. HIDE DEF p
    <3>2. p.exit \in Codes \cup {NoExit}
      BY <3>1 DEF PeerOf
    <3>. QED
      BY <3>1, <3>2 DEF p
  <2>7. busy_bytes(c.busy) < BusyCap + Overhead + MaxInput
    BY Zenon DEF ServerInv, BacklogInv, BacklogOk
  <2>. QED
    BY <2>1, <2>2, <2>3, <2>4, <2>5, <2>6, <2>7, Zenon DEF AnySize
<1>4. \A h, g \in Conns : conn[h].epoch = conn[g].epoch /\ h # g => conn[h].epoch = 0
  BY Zenon DEF ServerInv, EpochInv
<1>. QED
  BY <1>1, <1>2, <1>3, <1>4, Zenon DEF TypeOK

\* No two handlers share an epoch, a handler that serves has one, and the
\* backlog passes its cap by less than one record (claim_transport,
\* drain_leftover).
THEOREM TypeOKHolds == Spec => []TypeOK
<1>1. ServerInv => TypeOK
  BY InvGivesTypes, Zenon
<1>. QED
  BY <1>1, ServerHolds, PTL

\* Who is told the exit status has the final screen, whichever datagrams were
\* lost (queue_exit, push_fin).
THEOREM ExitShowsFinalScreenHolds == Spec => []ExitShowsFinalScreen
<1>1. ServerInv => ExitShowsFinalScreen
  BY Zenon DEF ServerInv, PeersInv, PeerOk, ExitShowsFinalScreen
<1>. QED
  BY <1>1, ServerHolds, PTL
=============================================================================
