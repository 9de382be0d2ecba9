---------------------------- MODULE SessionProofs ----------------------------
(***************************************************************************)
(* Theorems about Session, for every value of its constants.               *)
(***************************************************************************)
EXTENDS Session, TLAPS

USE DEF NoSeq, NoExit, Alive

-----------------------------------------------------------------------------
(* The write queue: what push_input, push_generated and advance return,    *)
(* for queues of any length.                                               *)

\* f is the running total of the bytes still to be written of chunks c.
Totals(f, c) ==
    /\ f \in [0..Len(c) -> Nat]
    /\ f[0] = 0
    /\ \A i \in 1..Len(c) : f[i] = f[i - 1] + (c[i].len - c[i].off)
    /\ \A i, j \in 0..Len(c) : i <= j => f[i] <= f[j]

\* Typed, no chunk empty or used up, and `unread` the total of the chunks.
\* The running totals stand for the sum: as a function that exists they need
\* no induction over the queue.
PendingOk(p) ==
    /\ p \in PendingType
    /\ \A i \in 1..Len(p.chunks) : p.chunks[i].off < p.chunks[i].len
    /\ \E f : Totals(f, p.chunks) /\ p.unread = f[Len(p.chunks)]

\* The elements of a typed queue.
LEMMA ChunkTypes ==
    ASSUME NEW p \in PendingType
    PROVE  /\ p.chunks \in Seq(ChunkType) /\ p.unread \in Nat /\ Len(p.chunks) \in Nat
           /\ \A i \in 1..Len(p.chunks) :
                 /\ p.chunks[i] \in ChunkType
                 /\ p.chunks[i].seq \in Nat /\ p.chunks[i].len \in Nat
                 /\ p.chunks[i].off \in Nat
                 /\ p.chunks[i].data \in Data \cup {Generated}
<1>1. p.chunks \in Seq(ChunkType) /\ p.unread \in Nat /\ Len(p.chunks) \in Nat
  BY DEF PendingType
<1>2. \A i \in 1..Len(p.chunks) : p.chunks[i] \in ChunkType
  BY <1>1
<1>. QED
  BY <1>1, <1>2 DEF ChunkType

\* With an empty queue nothing is unread; otherwise the front chunk's rest
\* is positive and part of `unread` (write_buf).
LEMMA FrontOfPending ==
    ASSUME NEW p, PendingOk(p)
    PROVE  /\ p.chunks = <<>> => p.unread = 0 /\ WriteLen(p) = 0
           /\ p.chunks # <<>> => /\ WriteLen(p) = p.chunks[1].len - p.chunks[1].off
                                 /\ WriteLen(p) \in Nat \ {0}
                                 /\ WriteLen(p) <= p.unread
<1>1. p \in PendingType
  BY DEF PendingOk
<1>2. PICK f : Totals(f, p.chunks) /\ p.unread = f[Len(p.chunks)]
  BY DEF PendingOk
<1>3. CASE p.chunks = <<>>
  BY <1>2, <1>3 DEF Totals, WriteLen
<1>4. CASE p.chunks # <<>>
  <2>1. Len(p.chunks) >= 1 /\ Head(p.chunks) = p.chunks[1]
    BY <1>1, <1>4, ChunkTypes
  <2>2. p.chunks[1].off < p.chunks[1].len /\ p.chunks[1].len \in Nat /\ p.chunks[1].off \in Nat
    BY <1>1, <2>1, ChunkTypes DEF PendingOk
  <2>3. Len(p.chunks) \in Nat
    BY <1>1, ChunkTypes
  <2>4. f[1] = f[1 - 1] + (p.chunks[1].len - p.chunks[1].off) /\ f[0] = 0
    BY <1>2, <2>1, <2>3 DEF Totals
  <2>5. f[1] <= f[Len(p.chunks)]
    BY <1>2, <2>1, <2>3 DEF Totals
  <2>. QED
    BY <1>2, <1>4, <2>1, <2>2, <2>4, <2>5 DEF WriteLen
<1>. QED
  BY <1>3, <1>4

\* Appending a chunk with bytes to write keeps the queue well formed.
LEMMA AppendChunk ==
    ASSUME NEW p, PendingOk(p), NEW e \in ChunkType, e.off = 0, e.len > 0
    PROVE  PendingOk([chunks |-> Append(p.chunks, e), unread |-> p.unread + e.len])
<1> DEFINE c == Append(p.chunks, e)
           n == Len(p.chunks)
<1>1. p \in PendingType /\ n \in Nat /\ p.unread \in Nat /\ e.len \in Nat
  BY ChunkTypes DEF PendingOk, ChunkType
<1>2. /\ c \in Seq(ChunkType) /\ Len(c) = n + 1 /\ c[n + 1] = e
      /\ \A i \in 1..n : c[i] = p.chunks[i]
  BY <1>1, ChunkTypes
<1>3. PICK f : Totals(f, p.chunks) /\ p.unread = f[n]
  BY DEF PendingOk
<1> DEFINE g == [i \in 0..(n + 1) |-> IF i = n + 1 THEN f[n] + e.len ELSE f[i]]
<1>4. f \in [0..n -> Nat] /\ (\A i \in 0..n : f[i] <= f[n])
  BY <1>1, <1>3 DEF Totals
<1>5. Totals(g, c)
  <2> HIDE DEF c
  <2>1. g \in [0..Len(c) -> Nat] /\ g[0] = 0
    BY <1>1, <1>2, <1>3, <1>4 DEF Totals
  <2>2. ASSUME NEW i \in 1..Len(c)
        PROVE  g[i] = g[i - 1] + (c[i].len - c[i].off)
    <3>1. CASE i = n + 1
      <4>1. g[i] = f[n] + e.len /\ g[i - 1] = f[n] /\ c[i] = e
        BY <1>1, <1>2, <3>1
      <4>. QED
        BY <1>1, <1>4, <4>1
    <3>2. CASE i \in 1..n
      <4>1. g[i] = f[i] /\ g[i - 1] = f[i - 1] /\ c[i] = p.chunks[i]
        BY <1>1, <1>2, <3>2
      <4>. QED
        BY <1>3, <3>2, <4>1 DEF Totals
    <3>. QED
      BY <1>1, <1>2, <3>1, <3>2
  <2>3. ASSUME NEW i \in 0..Len(c), NEW j \in 0..Len(c), i <= j
        PROVE  g[i] <= g[j]
    <3>1. CASE j = n + 1
      <4>1. g[j] = f[n] + e.len /\ f[n] \in Nat
        BY <1>1, <1>4, <3>1
      <4>2. CASE i = n + 1
        BY <1>1, <3>1, <4>1, <4>2
      <4>3. CASE i # n + 1
        <5>1. i \in 0..n /\ g[i] = f[i]
          BY <1>1, <1>2, <4>3
        <5>. QED
          BY <1>1, <1>4, <4>1, <5>1
      <4>. QED
        BY <4>2, <4>3
    <3>2. CASE j # n + 1
      <4>1. i \in 0..n /\ j \in 0..n /\ g[i] = f[i] /\ g[j] = f[j]
        BY <1>1, <1>2, <2>3, <3>2
      <4>. QED
        BY <1>3, <2>3, <4>1 DEF Totals
    <3>. QED
      BY <3>1, <3>2
  <2>. QED
    BY <2>1, <2>2, <2>3 DEF Totals
<1>6. p.unread + e.len = g[Len(c)]
  BY <1>1, <1>2, <1>3
<1>7. \A i \in 1..Len(c) : c[i].off < c[i].len
  BY <1>1, <1>2 DEF PendingOk
<1> HIDE DEF c
<1>8. [chunks |-> c, unread |-> p.unread + e.len] \in PendingType
  BY <1>1, <1>2 DEF PendingType
<1>. QED
  BY <1>5, <1>6, <1>7, <1>8 DEF PendingOk, c

\* Growing the last chunk keeps the queue well formed.
LEMMA GrowLast ==
    ASSUME NEW p, PendingOk(p), NEW k \in Nat, NEW c \in Seq(ChunkType),
           p.chunks # <<>>, Len(c) = Len(p.chunks),
           \A i \in 1..Len(c) : i # Len(c) => c[i] = p.chunks[i],
           c[Len(c)].off = p.chunks[Len(c)].off,
           c[Len(c)].len = p.chunks[Len(c)].len + k
    PROVE  PendingOk([chunks |-> c, unread |-> p.unread + k])
<1> DEFINE n == Len(c)
<1>1. p \in PendingType /\ n \in Nat /\ p.unread \in Nat /\ n > 0
  BY ChunkTypes DEF PendingOk
<1>2. PICK f : Totals(f, p.chunks) /\ p.unread = f[n]
  BY DEF PendingOk
<1> DEFINE g == [i \in 0..n |-> IF i = n THEN f[n] + k ELSE f[i]]
<1>3. f \in [0..n -> Nat] /\ f[0] = 0 /\ (\A i, j \in 0..n : i <= j => f[i] <= f[j])
  BY <1>2 DEF Totals
<1>4. /\ p.chunks[n].off < p.chunks[n].len
      /\ p.chunks[n].len \in Nat /\ p.chunks[n].off \in Nat
  BY <1>1, ChunkTypes DEF PendingOk
<1>5. ASSUME NEW i \in 1..n
      PROVE  g[i] = g[i - 1] + (c[i].len - c[i].off)
  <2>1. f[i] = f[i - 1] + (p.chunks[i].len - p.chunks[i].off)
    BY <1>1, <1>2 DEF Totals
  <2>a. i - 1 \in 0..n /\ f[i - 1] \in Nat
    BY <1>1, <1>3
  <2>2. g[i - 1] = f[i - 1]
    BY <1>1
  <2>3. CASE i = n
    BY <1>1, <1>3, <1>4, <2>1, <2>a, <2>2, <2>3
  <2>4. CASE i # n
    BY <2>1, <2>2, <2>4
  <2>. QED
    BY <2>3, <2>4
<1>6. ASSUME NEW i \in 0..n, NEW j \in 0..n, i <= j
      PROVE  g[i] <= g[j]
  <2>1. f[i] <= f[j] /\ f[i] \in Nat /\ f[j] \in Nat
    BY <1>3, <1>6
  <2>. QED
    BY <1>1, <1>6, <2>1
<1>7. g \in [0..n -> Nat] /\ g[0] = 0
  BY <1>1, <1>3
<1>8. Totals(g, c)
  BY <1>5, <1>6, <1>7 DEF Totals
<1>9. ASSUME NEW i \in 1..n
      PROVE  c[i].off < c[i].len
  <2>1. CASE i = n
    BY <1>4, <2>1
  <2>2. CASE i # n
    BY <2>2 DEF PendingOk
  <2>. QED
    BY <2>1, <2>2
<1>10. [chunks |-> c, unread |-> p.unread + k] \in PendingType
  BY <1>1 DEF PendingType
<1>11. p.unread + k = g[n]
  BY <1>1, <1>2
<1>. QED
  BY <1>8, <1>9, <1>10, <1>11 DEF PendingOk

\* Writing n bytes of the front chunk: it leaves when it is done, and
\* otherwise only its written part grows; the other chunks stay.
LEMMA Advance ==
    ASSUME NEW p, PendingOk(p), p.chunks # <<>>, NEW n \in 1..WriteLen(p)
    PROVE  LET q == advance(p, n)
           IN  /\ PendingOk(q)
               /\ q.unread <= p.unread
               /\ CompletesFront(p, n) => q.chunks = Tail(p.chunks)
               /\ ~CompletesFront(p, n) =>
                     /\ Len(q.chunks) = Len(p.chunks)
                     /\ \A i \in 1..Len(p.chunks) : /\ q.chunks[i].seq = p.chunks[i].seq
                                                    /\ q.chunks[i].data = p.chunks[i].data
<1> DEFINE old == p.chunks
           m == Len(old)
           w == old[1].len - old[1].off
<1>1. p \in PendingType /\ m \in Nat /\ m >= 1 /\ p.unread \in Nat /\ old \in Seq(ChunkType)
  BY ChunkTypes DEF PendingOk
<1>2. PICK f : Totals(f, old) /\ p.unread = f[m]
  BY DEF PendingOk
<1>3. /\ f \in [0..m -> Nat] /\ f[0] = 0 /\ (\A i, j \in 0..m : i <= j => f[i] <= f[j])
      /\ \A i \in 1..m : f[i] = f[i - 1] + (old[i].len - old[i].off)
  BY <1>2 DEF Totals
<1>4. WriteLen(p) = w /\ w \in Nat \ {0} /\ w <= p.unread /\ n \in Nat /\ n >= 1 /\ n <= w
  BY FrontOfPending
<1>5. f[1] = w
  <2>1. f[1] = f[1 - 1] + w
    BY <1>1, <1>3
  <2>. QED
    BY <1>3, <1>4, <2>1
<1>6. \A i \in 1..m : /\ old[i] \in ChunkType /\ old[i].off < old[i].len
                      /\ old[i].len \in Nat /\ old[i].off \in Nat
  BY <1>1, ChunkTypes DEF PendingOk
<1>7. CASE CompletesFront(p, n)
  <2> DEFINE c == Tail(old)
             g == [i \in 0..(m - 1) |-> f[i + 1] - n]
             q == [chunks |-> c, unread |-> p.unread - n]
  <2>1. n = w
    BY <1>4, <1>7 DEF CompletesFront
  <2>2. advance(p, n) = q
    BY <1>7 DEF advance
  <2>3. /\ c \in Seq(ChunkType) /\ Len(c) = m - 1
        /\ \A i \in 1..(m - 1) : c[i] = old[i + 1]
    BY <1>1
  <2> HIDE DEF c
  <2>4. ASSUME NEW i \in 0..(m - 1)
        PROVE  f[i + 1] \in Nat /\ f[i + 1] >= n /\ g[i] = f[i + 1] - n
    <3>1. i + 1 \in 0..m /\ 1 \in 0..m /\ 1 <= i + 1
      BY <1>1
    <3>2. f[1] <= f[i + 1] /\ f[i + 1] \in Nat
      BY <1>3, <3>1
    <3>. QED
      BY <1>5, <2>1, <3>2
  <2>a. DOMAIN g = 0..(m - 1)
    OBVIOUS
  <2>b. g = [i \in 0..(m - 1) |-> g[i]]
    OBVIOUS
  <2> HIDE DEF g, w
  <2>c. \A i \in 0..(m - 1) : g[i] \in Nat
    BY <1>4, <2>4
  <2>5. g \in [0..Len(c) -> Nat] /\ g[0] = 0
    <3>1. g[0] = f[0 + 1] - n
      BY <1>1, <2>4
    <3>2. g[0] = 0
      BY <1>4, <1>5, <2>1, <3>1
    <3>. QED
      BY <2>3, <2>b, <2>c, <3>2
  <2>6. ASSUME NEW i \in 1..Len(c)
        PROVE  g[i] = g[i - 1] + (c[i].len - c[i].off)
    <3>1. i + 1 \in 1..m /\ i - 1 \in 0..(m - 1) /\ i \in 0..(m - 1) /\ (i + 1) - 1 = i /\ (i - 1) + 1 = i
      BY <1>1, <2>3
    <3>2. f[i + 1] = f[i] + (old[i + 1].len - old[i + 1].off)
      BY <1>3, <3>1
    <3>3. g[i] = f[i + 1] - n /\ g[i - 1] = f[i] - n /\ c[i] = old[i + 1]
      BY <2>3, <2>4, <3>1
    <3>4. old[i + 1].len \in Nat /\ old[i + 1].off \in Nat
      BY <1>6, <3>1
    <3>5. i \in 0..m
      BY <1>1, <3>1
    <3>6. f[i] \in Nat
      BY <1>3, <3>5
    <3>7. n \in Nat
      BY <1>4
    <3> HIDE DEF old, m
    <3>8. f[i + 1] - n = (f[i] - n) + (old[i + 1].len - old[i + 1].off)
      BY <3>2, <3>4, <3>6, <3>7
    <3>. QED
      BY <3>3, <3>8
  <2>7. ASSUME NEW i \in 0..Len(c), NEW j \in 0..Len(c), i <= j
        PROVE  g[i] <= g[j]
    <3>1. i + 1 \in 0..m /\ j + 1 \in 0..m /\ i + 1 <= j + 1
      BY <1>1, <2>3, <2>7
    <3>2. f[i + 1] <= f[j + 1]
      BY <1>3, <3>1
    <3>3. /\ f[i + 1] \in Nat /\ g[i] = f[i + 1] - n
          /\ f[j + 1] \in Nat /\ g[j] = f[j + 1] - n
      BY <2>3, <2>4
    <3>. QED
      BY <1>4, <3>2, <3>3
  <2>8. Totals(g, c)
    BY <2>5, <2>6, <2>7 DEF Totals
  <2>9. q \in PendingType /\ q.unread <= p.unread
    BY <1>1, <1>4, <2>3 DEF PendingType
  <2>10. p.unread - n = g[Len(c)]
    BY <1>1, <1>2, <2>3, <2>4
  <2>11. ASSUME NEW i \in 1..Len(c)
         PROVE  c[i].off < c[i].len
    <3>1. i \in 1..(m - 1) /\ i + 1 \in 1..m
      BY <1>1, <2>3
    <3>. QED
      BY <1>6, <2>3, <3>1
  <2>12. PendingOk(q)
    BY <2>8, <2>9, <2>10, <2>11 DEF PendingOk
  <2>. QED
    BY <1>7, <2>2, <2>9, <2>12 DEF c
<1>8. CASE ~CompletesFront(p, n)
  <2> DEFINE c == [old EXCEPT ![1].off = @ + n]
             e == [old[1] EXCEPT !.off = @ + n]
             g == [i \in 0..m |-> IF i = 0 THEN 0 ELSE f[i] - n]
             q == [chunks |-> c, unread |-> p.unread - n]
  <2>1. n < w
    BY <1>4, <1>8 DEF CompletesFront
  <2>2. advance(p, n) = q
    BY <1>8 DEF advance
  <2>3. /\ e \in ChunkType /\ e.seq = old[1].seq /\ e.data = old[1].data
        /\ e.len = old[1].len /\ e.off = old[1].off + n
    <3>1. old[1] \in ChunkType
      BY <1>1, <1>6
    <3>. QED
      BY <1>4, <3>1 DEF ChunkType
  <2>4. c = [old EXCEPT ![1] = e]
    OBVIOUS
  <2>a. g = [i \in 0..m |-> g[i]] /\ g[0] = 0
    BY <1>1
  <2>b. \A i \in 1..m : g[i] = f[i] - n
    BY <1>1
  <2> HIDE DEF c, e, g, w
  <2>5. c \in Seq(ChunkType) /\ Len(c) = m
    BY <1>1, <2>3, <2>4
  <2>6. \A i \in 1..m : c[i] = IF i = 1 THEN e ELSE old[i]
    BY <1>1, <2>4
  <2>7. ASSUME NEW i \in 1..m
        PROVE  f[i] \in Nat /\ f[i] > n /\ g[i] = f[i] - n /\ g[i] \in Nat
    <3>0. i \in 0..m /\ 1 \in 0..m /\ 1 <= i
      BY <1>1
    <3>1. f[i] \in Nat /\ f[1] <= f[i]
      BY <1>3, <3>0
    <3>. QED
      BY <1>4, <1>5, <2>1, <2>b, <3>1
  <2>8. g \in [0..Len(c) -> Nat] /\ g[0] = 0
    <3>1. \A i \in 0..m : g[i] \in Nat
      BY <1>1, <2>a, <2>7
    <3>. QED
      BY <2>a, <2>5, <3>1
  <2>9. ASSUME NEW i \in 1..Len(c)
        PROVE  g[i] = g[i - 1] + (c[i].len - c[i].off)
    <3>1. CASE i = 1
      <4>a. 1 \in 1..m /\ i - 1 = 0
        BY <1>1, <3>1
      <4>b. g[1] = f[1] - n /\ c[1] = e
        BY <2>6, <2>b, <4>a
      <4>1. g[i] = w - n /\ g[i - 1] = 0 /\ c[i] = e
        BY <1>5, <2>a, <3>1, <4>a, <4>b
      <4>2. old[1].len \in Nat /\ old[1].off \in Nat
        BY <1>1, <1>6
      <4>. QED
        BY <1>4, <2>3, <4>1, <4>2 DEF w
    <3>2. CASE i # 1
      <4>1. i \in 1..m /\ i - 1 \in 1..m
        BY <1>1, <2>5, <3>2
      <4>2. g[i] = f[i] - n /\ g[i - 1] = f[i - 1] - n /\ c[i] = old[i]
        BY <2>6, <2>7, <3>2, <4>1
      <4>3. f[i] = f[i - 1] + (old[i].len - old[i].off) /\ f[i - 1] \in Nat
        BY <1>3, <2>7, <4>1
      <4>4. old[i].len \in Nat /\ old[i].off \in Nat
        BY <1>6, <4>1
      <4>5. n \in Nat
        BY <1>4
      <4> HIDE DEF old, m
      <4>6. f[i] - n = (f[i - 1] - n) + (old[i].len - old[i].off)
        BY <4>3, <4>4, <4>5
      <4>. QED
        BY <4>2, <4>6
    <3>. QED
      BY <3>1, <3>2
  <2>10. ASSUME NEW i \in 0..Len(c), NEW j \in 0..Len(c), i <= j
         PROVE  g[i] <= g[j]
    <3>1. CASE i = 0
      BY <2>8, <3>1
    <3>2. CASE i # 0
      <4>1. i \in 1..m /\ j \in 1..m
        BY <1>1, <2>5, <2>10, <3>2
      <4>2. f[i] <= f[j]
        BY <1>1, <1>3, <2>10, <4>1
      <4>. QED
        BY <1>4, <2>7, <4>1, <4>2
    <3>. QED
      BY <3>1, <3>2
  <2>11. Totals(g, c)
    BY <2>8, <2>9, <2>10 DEF Totals
  <2>12. q \in PendingType /\ q.unread <= p.unread
    BY <1>1, <1>4, <2>5 DEF PendingType
  <2>13. p.unread - n = g[Len(c)]
    BY <1>1, <1>2, <2>5, <2>7
  <2>14. ASSUME NEW i \in 1..Len(c)
         PROVE  c[i].off < c[i].len
    <3>1. CASE i = 1
      <4>1. c[i] = e /\ old[1].len \in Nat /\ old[1].off \in Nat
        BY <1>6, <2>5, <2>6, <3>1
      <4>. QED
        BY <1>4, <2>1, <2>3, <4>1 DEF w
    <3>2. CASE i # 1
      BY <1>6, <2>5, <2>6, <3>2
    <3>. QED
      BY <3>1, <3>2
  <2>15. PendingOk(q)
    BY <2>11, <2>12, <2>13, <2>14 DEF PendingOk
  <2>16. \A i \in 1..m : c[i].seq = old[i].seq /\ c[i].data = old[i].data
    BY <2>3, <2>6
  <2>. QED
    BY <1>8, <2>2, <2>5, <2>12, <2>15, <2>16
<1>. QED
  BY <1>7, <1>8

\* Queueing an accepted input of at least one byte.
LEMMA PushInput ==
    ASSUME NEW p, PendingOk(p), NEW seq \in Nat, NEW d \in Data, NEW n \in Nat, n > 0
    PROVE  LET q == push_input(p, seq, d, n)
           IN  /\ PendingOk(q)
               /\ q.unread = p.unread + n
               /\ q.chunks = Append(p.chunks, Chunk(seq, d, n))
<1> DEFINE e == Chunk(seq, d, n)
<1>1. e \in ChunkType /\ e.off = 0 /\ e.len = n
  BY DEF Chunk, ChunkType
<1>2. push_input(p, seq, d, n) = [chunks |-> Append(p.chunks, e), unread |-> p.unread + e.len]
  BY <1>1 DEF push_input
<1> HIDE DEF e
<1>3. PendingOk([chunks |-> Append(p.chunks, e), unread |-> p.unread + e.len])
  BY <1>1, AppendChunk
<1>. QED
  BY <1>1, <1>2, <1>3 DEF e

\* Queueing replies keeps the sequence and the payload of every chunk that
\* is there; a chunk it adds is unsequenced.
LEMMA PushGenerated ==
    ASSUME NEW p, PendingOk(p), NEW n \in Nat
    PROVE  LET q == push_generated(p, n)
           IN  /\ PendingOk(q)
               /\ q.unread = p.unread + n
               /\ Len(q.chunks) >= Len(p.chunks)
               /\ \A i \in 1..Len(p.chunks) : /\ q.chunks[i].seq = p.chunks[i].seq
                                              /\ q.chunks[i].data = p.chunks[i].data
               /\ \A i \in (Len(p.chunks) + 1)..Len(q.chunks) : q.chunks[i].seq = NoSeq
<1> DEFINE last == Len(p.chunks)
           old == p.chunks
<1>0. p \in PendingType /\ old \in Seq(ChunkType) /\ p.unread \in Nat /\ last \in Nat
  BY ChunkTypes DEF PendingOk
<1>1. \A i \in 1..last : old[i] \in ChunkType
  BY <1>0
<1>3. CASE n = 0
  <2>1. push_generated(p, n) = p
    BY <1>3 DEF push_generated
  <2>. QED
    BY <1>0, <1>3, <2>1
<1>4. CASE n # 0 /\ last > 0 /\ old[last].seq = NoSeq
  <2> DEFINE c == [old EXCEPT ![last].len = @ + n]
             e == [old[last] EXCEPT !.len = @ + n]
             q == [chunks |-> c, unread |-> p.unread + n]
  <2>1. push_generated(p, n) = q
    BY <1>4 DEF push_generated
  <2>2. old[last] \in ChunkType
    BY <1>1, <1>4, <1>0
  <2>3. /\ e \in ChunkType /\ e.seq = old[last].seq /\ e.data = old[last].data
        /\ e.off = old[last].off /\ e.len = old[last].len + n
    BY <2>2 DEF ChunkType
  <2>4. c = [old EXCEPT ![last] = e]
    OBVIOUS
  <2> HIDE DEF c, e
  <2>5. c \in Seq(ChunkType) /\ Len(c) = last
    BY <1>0, <1>4, <2>3, <2>4
  <2>6. \A i \in 1..last : c[i] = IF i = last THEN e ELSE old[i]
    BY <1>0, <2>4
  <2>7. \A i \in 1..last : c[i].seq = old[i].seq /\ c[i].data = old[i].data
    BY <2>3, <2>6
  <2>8. c[last] = e /\ (\A i \in 1..last : i # last => c[i] = old[i])
    BY <1>0, <1>4, <2>6
  <2>9. PendingOk(q)
    BY <1>0, <1>4, <2>3, <2>5, <2>8, GrowLast
  <2>. QED
    BY <1>0, <2>1, <2>5, <2>7, <2>9
<1>5. CASE n # 0 /\ ~(last > 0 /\ old[last].seq = NoSeq)
  <2> DEFINE e == Chunk(NoSeq, Generated, n)
             c == Append(old, e)
             q == [chunks |-> c, unread |-> p.unread + n]
  <2>1. push_generated(p, n) = q
    BY <1>5 DEF push_generated
  <2>2. e \in ChunkType /\ e.seq = NoSeq /\ e.off = 0 /\ e.len = n /\ n > 0
    BY <1>5 DEF Chunk, ChunkType
  <2> HIDE DEF e
  <2>3. /\ Len(c) = last + 1 /\ c[last + 1] = e
        /\ \A i \in 1..last : c[i] = old[i]
    BY <1>0, <2>2
  <2>4. PendingOk(q)
    BY <2>2, AppendChunk
  <2> HIDE DEF c
  <2>5. \A i \in (last + 1)..Len(c) : i = last + 1
    BY <1>0, <2>3
  <2>. QED
    BY <1>0, <2>1, <2>2, <2>3, <2>4, <2>5
<1>. QED
  BY <1>3, <1>4, <1>5

-----------------------------------------------------------------------------
(* The inductive invariant.                                                *)

\* Where the owner is, what it knows of the child, and what is published.
Control ==
    /\ closed = (ownerPc = "gone")
    /\ exit # NoExit => ownerPc \in {"unreg", "gone"} /\ exit = childDone
    /\ ownerPc \in {"drain", "final"} => childDone \in Codes
    /\ cause = "child" => /\ ownerPc \in {"drain", "final", "unreg", "gone"}
                          /\ shell # Alive /\ childDone = shell
    /\ cause # "input"
    /\ ownerPc = "start" => latest = NoScreen /\ accepted = 0
    /\ ownerPc = "unreg" => exit # NoExit

\* The published screen is never ahead of the owner, and is up to date from
\* drain_pty on.
Screens ==
    /\ latest.version <= version /\ latest.frame <= frame
    /\ (ownerPc \in {"final", "unreg"} \/ exit # NoExit) =>
          /\ latest.version = version /\ latest.frame = frame
          /\ latest.echoAck = echoAck

\* Queued input was checked by try_input.
CmdsOk == \A i \in 1..Len(cmds) : cmds[i].op = "Input" => InputOk(cmds[i].data)

IInv == /\ TypeOK /\ PendingOk(pending) /\ Budget /\ InOrder /\ EchoHistory
        /\ Control /\ Screens /\ CmdsOk

\* Initially.
LEMMA InitIInv == Init => IInv
<1> SUFFICES ASSUME Init PROVE IInv
  OBVIOUS
<1> USE DEF Init, ApiInit
<1>1. TypeOK
  <2>1. latest \in ScreenType
    BY DEF NoScreen, ScreenType
  <2>2. pending \in PendingType
    BY DEF EmptyPending, PendingType
  <2>3. history \in Seq(Nat) /\ settled \in 0..Len(history)
    OBVIOUS
  <2>4. cmds \in Seq(OwnerMsg) /\ accLog \in Seq(Data) /\ wroteLog \in Seq(Data)
    OBVIOUS
  <2>5. ownerPc \in Pcs /\ cause \in Causes
    BY DEF Pcs, Causes
  <2>. QED
    BY <2>1, <2>2, <2>3, <2>4, <2>5 DEF TypeOK
<1>2. PendingOk(pending)
  <2> DEFINE f == [i \in 0..0 |-> 0]
  <2>1. pending \in PendingType /\ pending.chunks = <<>> /\ pending.unread = 0
    BY DEF EmptyPending, PendingType
  <2>2. Totals(f, <<>>)
    BY DEF Totals
  <2>. QED
    BY <2>1, <2>2 DEF PendingOk
<1>3. Budget
  BY BudgetAssumption DEF Budget, EmptyPending
<1>4. InOrder
  <2>1. pending.chunks = <<>> /\ DOMAIN pending.chunks = {}
    BY DEF EmptyPending
  <2>2. accepted = 0 /\ Len(accLog) = 0 /\ Len(wroteLog) = 0
    OBVIOUS
  <2>. QED
    BY <2>1, <2>2 DEF InOrder
<1>6. EchoHistory
  <2>1. Len(history) = 0 /\ DOMAIN history = {} /\ Len(wroteLog) = 0 /\ latest.echoAck = 0
    BY DEF NoScreen
  <2>. QED
    BY <2>1 DEF EchoHistory
<1>5. Control /\ Screens /\ CmdsOk
  <2>1. Control
    BY DEF Control
  <2>2. Screens
    BY DEF Screens, NoScreen
  <2>3. CmdsOk
    BY DEF CmdsOk
  <2>. QED
    BY <2>1, <2>2, <2>3
<1>. QED
  BY <1>1, <1>2, <1>3, <1>4, <1>5, <1>6 DEF IInv
-----------------------------------------------------------------------------
(* How the steps that touch the write queue keep InOrder.                  *)

\* Replies queued, or part of the front chunk written: the inputs stay.
LEMMA SameInputs ==
    ASSUME TypeOK, InOrder, PendingOk(pending), PendingOk(pending'),
           UNCHANGED <<accepted, accLog, wroteLog>>,
           Len(pending'.chunks) >= Len(pending.chunks),
           \A i \in 1..Len(pending.chunks) :
              /\ pending'.chunks[i].seq = pending.chunks[i].seq
              /\ pending'.chunks[i].data = pending.chunks[i].data,
           \A i \in (Len(pending.chunks) + 1)..Len(pending'.chunks) :
              pending'.chunks[i].seq = NoSeq
    PROVE  InOrder'
<1> DEFINE c == pending.chunks
           d == pending'.chunks
           w == Len(wroteLog)
<1>a. /\ Len(c) \in Nat /\ DOMAIN c = 1..Len(c)
      /\ \A i \in 1..Len(c) : c[i].seq \in Nat
  BY ChunkTypes DEF PendingOk
<1>b. /\ Len(d) \in Nat /\ DOMAIN d = 1..Len(d)
      /\ \A i \in 1..Len(d) : d[i].seq \in Nat
  BY ChunkTypes DEF PendingOk
<1>c. w \in Nat /\ accepted \in Nat
  BY DEF TypeOK
<1>1. /\ Len(c) \in Nat /\ Len(d) \in Nat /\ w \in Nat /\ accepted \in Nat
      /\ DOMAIN c = 1..Len(c) /\ DOMAIN d = 1..Len(d)
      /\ \A i \in 1..Len(c) : c[i].seq \in Nat
      /\ \A i \in 1..Len(d) : d[i].seq \in Nat
  BY <1>a, <1>b, <1>c
<1>2. \A i \in 1..Len(d) : d[i].seq # NoSeq => i \in 1..Len(c)
  BY <1>1
<1>3. /\ accepted = Len(accLog) /\ w <= accepted
      /\ \A i \in 1..w : wroteLog[i] = accLog[i]
  BY DEF InOrder
<1>4. \A i \in DOMAIN d : d[i].seq # NoSeq =>
          d[i].seq \in (w + 1)..accepted /\ d[i].data = accLog[d[i].seq]
  <2> SUFFICES ASSUME NEW i \in DOMAIN d, d[i].seq # NoSeq
               PROVE  d[i].seq \in (w + 1)..accepted /\ d[i].data = accLog[d[i].seq]
    OBVIOUS
  <2>1. i \in 1..Len(c) /\ i \in DOMAIN c
    BY <1>1, <1>2
  <2>2. d[i].seq = c[i].seq /\ d[i].data = c[i].data
    BY <2>1
  <2>3. c[i].seq \in (w + 1)..accepted /\ c[i].data = accLog[c[i].seq]
    BY <2>1, <2>2 DEF InOrder
  <2>. QED
    BY <2>2, <2>3
<1>5. \A i, j \in DOMAIN d : (i < j /\ d[j].seq # NoSeq) => d[i].seq < d[j].seq
  <2> SUFFICES ASSUME NEW i \in DOMAIN d, NEW j \in DOMAIN d, i < j, d[j].seq # NoSeq
               PROVE  d[i].seq < d[j].seq
    OBVIOUS
  <2>1. i \in 1..Len(c) /\ j \in 1..Len(c)
    BY <1>1, <1>2
  <2>2. c[i].seq < c[j].seq
    BY <1>1, <2>1 DEF InOrder
  <2>. QED
    BY <2>1, <2>2
<1>6. \A s \in (w + 1)..accepted : \E i \in DOMAIN d : d[i].seq = s
  <2> SUFFICES ASSUME NEW s \in (w + 1)..accepted
               PROVE  \E i \in DOMAIN d : d[i].seq = s
    OBVIOUS
  <2>1. PICK i \in DOMAIN c : c[i].seq = s
    BY DEF InOrder
  <2>2. i \in DOMAIN d /\ d[i].seq = s
    BY <1>1, <2>1
  <2>. QED
    BY <2>2
<1>. QED
  BY <1>3, <1>4, <1>5, <1>6 DEF InOrder

\* The next input in sequence joins the queue.
LEMMA InputQueued ==
    ASSUME TypeOK, InOrder, PendingOk(pending), NEW d \in Data, NEW n \in Nat,
           accepted' = accepted + 1, accLog' = Append(accLog, d), UNCHANGED wroteLog,
           pending'.chunks = Append(pending.chunks, Chunk(accepted + 1, d, n))
    PROVE  InOrder'
<1> DEFINE c == pending.chunks
           e == Chunk(accepted + 1, d, n)
           c2 == pending'.chunks
           w == Len(wroteLog)
           L == Len(c)
<1>1. /\ L \in Nat /\ w \in Nat /\ accepted \in Nat /\ c \in Seq(ChunkType)
      /\ DOMAIN c = 1..L /\ accLog \in Seq(Data)
      /\ \A i \in 1..L : c[i].seq \in Nat
  <2>1. L \in Nat /\ c \in Seq(ChunkType) /\ DOMAIN c = 1..L /\ \A i \in 1..L : c[i].seq \in Nat
    BY ChunkTypes DEF PendingOk
  <2>2. w \in Nat /\ accepted \in Nat /\ accLog \in Seq(Data)
    BY DEF TypeOK
  <2>. QED
    BY <2>1, <2>2
<1>2. e.seq = accepted + 1 /\ e.data = d
  BY DEF Chunk
<1> HIDE DEF e
<1>3. /\ Len(c2) = L + 1 /\ DOMAIN c2 = 1..(L + 1) /\ c2[L + 1] = e
      /\ \A i \in 1..L : c2[i] = c[i]
  BY <1>1 DEF e
<1>4. /\ accepted = Len(accLog) /\ w <= accepted
      /\ \A i \in 1..w : wroteLog[i] = accLog[i]
  BY DEF InOrder
<1>5. /\ Len(accLog') = accepted' /\ accLog'[accepted + 1] = d
      /\ \A i \in 1..accepted : accLog'[i] = accLog[i]
  BY <1>1, <1>4
<1> HIDE DEF c2, c
<1>6. \A i \in 1..w : wroteLog'[i] = accLog'[i]
  BY <1>1, <1>4, <1>5
<1>7. \A i \in 1..L : c[i].seq # NoSeq =>
         c[i].seq \in (w + 1)..accepted /\ c[i].data = accLog[c[i].seq]
  BY <1>1 DEF InOrder, c
<1>12. \A i, j \in 1..L : (i < j /\ c[j].seq # NoSeq) => c[i].seq < c[j].seq
  BY <1>1 DEF InOrder, c
<1>8. ASSUME NEW i \in 1..(L + 1), c2[i].seq # NoSeq
      PROVE  c2[i].seq \in (w + 1)..(accepted + 1) /\ c2[i].data = accLog'[c2[i].seq]
  <2>1. CASE i = L + 1
    BY <1>1, <1>2, <1>3, <1>4, <1>5, <2>1
  <2>2. CASE i # L + 1
    <3>1. i \in 1..L /\ c2[i] = c[i]
      BY <1>1, <1>3, <2>2
    <3>2. c[i].seq \in (w + 1)..accepted /\ c[i].data = accLog[c[i].seq]
      BY <1>7, <1>8, <3>1
    <3>3. c[i].seq \in 1..accepted
      BY <1>1, <3>2
    <3>. QED
      BY <1>1, <1>5, <3>1, <3>2, <3>3
  <2>. QED
    BY <2>1, <2>2
<1>9. ASSUME NEW i \in 1..(L + 1), NEW j \in 1..(L + 1), i < j, c2[j].seq # NoSeq
      PROVE  c2[i].seq < c2[j].seq
  <2>0. i \in 1..L /\ c2[i] = c[i] /\ c[i].seq \in Nat
    BY <1>1, <1>3, <1>9
  <2>1. CASE j = L + 1
    <3>1. c2[j].seq = accepted + 1
      BY <1>2, <1>3, <2>1
    <3>2. c[i].seq = NoSeq \/ c[i].seq \in (w + 1)..accepted
      BY <1>7, <2>0
    <3>3. accepted \in Nat /\ w \in Nat
      BY <1>1
    <3>4. c[i].seq < accepted + 1
      BY <2>0, <3>2, <3>3
    <3>. QED
      BY <2>0, <3>1, <3>4
  <2>2. CASE j # L + 1
    <3>0. j \in 1..L
      BY <1>1, <2>2
    <3>1. j \in 1..L /\ c2[j] = c[j] /\ c[j].seq # NoSeq
      BY <1>3, <1>9, <3>0
    <3>2. c[i].seq < c[j].seq
      BY <1>9, <1>12, <2>0, <3>1
    <3>. QED
      BY <2>0, <3>1, <3>2
  <2>. QED
    BY <2>1, <2>2
<1>10. ASSUME NEW s \in (w + 1)..(accepted + 1)
       PROVE  \E i \in 1..(L + 1) : c2[i].seq = s
  <2>1. CASE s = accepted + 1
    BY <1>1, <1>2, <1>3, <2>1
  <2>2. CASE s # accepted + 1
    <3>1. s \in (w + 1)..accepted
      BY <1>1, <2>2
    <3>2. PICK i \in 1..L : c[i].seq = s
      BY <1>1, <3>1 DEF InOrder, c
    <3>3. i \in 1..(L + 1) /\ c2[i] = c[i]
      BY <1>1, <1>3, <3>2
    <3>. QED
      BY <3>2, <3>3
  <2>. QED
    BY <2>1, <2>2
<1>11. w <= accepted'
  BY <1>1, <1>4
<1>. QED
  BY <1>3, <1>5, <1>6, <1>8, <1>9, <1>10, <1>11 DEF InOrder, c2

\* The front chunk leaves, completely written.  If it is an input it is the
\* oldest one not written yet, and its sequence number says so.
LEMMA FrontWritten ==
    ASSUME TypeOK, InOrder, PendingOk(pending), pending.chunks # <<>>,
           UNCHANGED <<accepted, accLog>>, pending'.chunks = Tail(pending.chunks),
           wroteLog' = IF Head(pending.chunks).seq # NoSeq
                       THEN Append(wroteLog, Head(pending.chunks).data) ELSE wroteLog
    PROVE  /\ InOrder'
           /\ Head(pending.chunks).seq # NoSeq =>
                 /\ Head(pending.chunks).seq = Len(wroteLog) + 1
                 /\ Head(pending.chunks).data \in Data
                 /\ Len(wroteLog') = Len(wroteLog) + 1
<1> DEFINE c == pending.chunks
           c2 == pending'.chunks
           f == c[1]
           w == Len(wroteLog)
           L == Len(c)
<1>1. L \in Nat /\ L >= 1 /\ c \in Seq(ChunkType) /\ DOMAIN c = 1..L /\ Head(c) = f
  BY ChunkTypes DEF PendingOk
<1>2. \A i \in 1..L : c[i].seq \in Nat
  BY ChunkTypes DEF PendingOk
<1>3. w \in Nat /\ accepted \in Nat /\ accLog \in Seq(Data) /\ wroteLog \in Seq(Data)
  BY DEF TypeOK
<1>4. /\ accepted = Len(accLog) /\ w <= accepted
      /\ \A i \in 1..w : wroteLog[i] = accLog[i]
  BY DEF InOrder
<1>5. \A i \in 1..L : c[i].seq # NoSeq =>
         c[i].seq \in (w + 1)..accepted /\ c[i].data = accLog[c[i].seq]
  BY <1>1 DEF InOrder
<1>6. \A i, j \in 1..L : (i < j /\ c[j].seq # NoSeq) => c[i].seq < c[j].seq
  BY <1>1 DEF InOrder
<1>7. \A s \in (w + 1)..accepted : \E i \in 1..L : c[i].seq = s
  BY <1>1 DEF InOrder
<1>8. /\ Len(c2) = L - 1 /\ DOMAIN c2 = 1..(L - 1)
      /\ \A i \in 1..(L - 1) : c2[i] = c[i + 1]
  BY <1>1
<1> HIDE DEF c, c2
<1>9. ASSUME NEW i \in 1..(L - 1), NEW j \in 1..(L - 1), i < j, c2[j].seq # NoSeq
      PROVE  c2[i].seq < c2[j].seq
  <2>1. i + 1 \in 1..L /\ j + 1 \in 1..L /\ i + 1 < j + 1
    BY <1>1, <1>9
  <2>2. c2[i] = c[i + 1] /\ c2[j] = c[j + 1]
    BY <1>8
  <2>. QED
    BY <1>6, <1>9, <2>1, <2>2
<1>10. CASE f.seq = NoSeq
  <2>1. wroteLog' = wroteLog
    BY <1>1, <1>10 DEF c
  <2>2. ASSUME NEW i \in 1..(L - 1), c2[i].seq # NoSeq
        PROVE  c2[i].seq \in (w + 1)..accepted /\ c2[i].data = accLog[c2[i].seq]
    <3>1. i + 1 \in 1..L /\ c2[i] = c[i + 1]
      BY <1>1, <1>8
    <3>. QED
      BY <1>5, <2>2, <3>1
  <2>3. ASSUME NEW s \in (w + 1)..accepted
        PROVE  \E i \in 1..(L - 1) : c2[i].seq = s
    <3>1. PICK i \in 1..L : c[i].seq = s
      BY <1>7
    <3>a. s # 0
      BY <1>3
    <3>2. i # 1
      BY <1>10, <3>1, <3>a
    <3>3. i - 1 \in 1..(L - 1) /\ (i - 1) + 1 = i
      BY <1>1, <3>2
    <3>4. c2[i - 1].seq = s
      BY <1>8, <3>1, <3>3
    <3>. QED
      BY <3>3, <3>4
  <2>4. InOrder'
    BY <1>4, <1>8, <1>9, <2>1, <2>2, <2>3 DEF InOrder, c2
  <2>. QED
    BY <1>1, <1>10, <2>4 DEF c
<1>11. CASE f.seq # NoSeq
  <2>0. 1 \in 1..L /\ f.seq \in Nat
    BY <1>1, <1>2
  <2>1. f.seq \in (w + 1)..accepted /\ f.data = accLog[f.seq]
    BY <1>5, <1>11, <2>0
  <2>2. f.seq = w + 1
    <3>1. w + 1 \in (w + 1)..accepted
      BY <1>3, <2>0, <2>1
    <3>2. PICK i \in 1..L : c[i].seq = w + 1
      BY <1>7, <3>1
    <3>a. w + 1 # 0 /\ (i # 1 => 1 < i)
      BY <1>3
    <3>3. i = 1 \/ (1 < i /\ c[i].seq # NoSeq)
      BY <3>2, <3>a
    <3>4. i # 1 => f.seq < c[i].seq
      BY <1>6, <2>0, <3>3
    <3>. QED
      BY <1>3, <2>0, <2>1, <3>2, <3>4
  <2>3. f.data = accLog[w + 1] /\ w + 1 <= accepted
    BY <1>3, <2>0, <2>1, <2>2
  <2>4. f.data \in Data
    BY <1>3, <1>4, <2>3
  <2>5. wroteLog' = Append(wroteLog, f.data)
    BY <1>1, <1>11 DEF c
  <2>6. /\ Len(wroteLog') = w + 1 /\ wroteLog'[w + 1] = f.data
        /\ \A i \in 1..w : wroteLog'[i] = wroteLog[i]
    BY <1>3, <2>4, <2>5
  <2>7. ASSUME NEW i \in 1..(w + 1)
        PROVE  wroteLog'[i] = accLog[i]
    BY <1>3, <1>4, <2>3, <2>6
  <2>8. ASSUME NEW i \in 1..(L - 1), c2[i].seq # NoSeq
        PROVE  c2[i].seq \in ((w + 1) + 1)..accepted /\ c2[i].data = accLog[c2[i].seq]
    <3>1. i + 1 \in 1..L /\ c2[i] = c[i + 1] /\ 1 < i + 1
      BY <1>1, <1>8
    <3>2. c[i + 1].seq \in (w + 1)..accepted /\ c[i + 1].data = accLog[c[i + 1].seq]
      BY <1>5, <2>8, <3>1
    <3>3. f.seq < c[i + 1].seq
      BY <1>6, <2>0, <2>8, <3>1
    <3>4. c[i + 1].seq \in ((w + 1) + 1)..accepted
      BY <1>3, <2>2, <3>2, <3>3
    <3>. QED
      BY <3>1, <3>2, <3>4
  <2>9. ASSUME NEW s \in ((w + 1) + 1)..accepted
        PROVE  \E i \in 1..(L - 1) : c2[i].seq = s
    <3>0. s \in (w + 1)..accepted /\ s # w + 1
      BY <1>3
    <3>1. PICK i \in 1..L : c[i].seq = s
      BY <1>7, <3>0
    <3>2. i # 1
      BY <2>2, <3>0, <3>1
    <3>3. i - 1 \in 1..(L - 1) /\ (i - 1) + 1 = i
      BY <1>1, <3>2
    <3>4. c2[i - 1].seq = s
      BY <1>8, <3>1, <3>3
    <3>. QED
      BY <3>3, <3>4
  <2>10. InOrder'
    BY <1>4, <1>8, <1>9, <2>3, <2>6, <2>7, <2>8, <2>9 DEF InOrder, c2
  <2>. QED
    BY <1>1, <2>2, <2>4, <2>6, <2>10 DEF c
<1>. QED
  BY <1>10, <1>11
-----------------------------------------------------------------------------
(* The parts of a step that several actions share.                         *)

\* A step that leaves the queue and the logs alone.
LEMMA QueueUntouched ==
    ASSUME IInv, UNCHANGED <<pending, accepted, accLog, wroteLog>>
    PROVE  PendingOk(pending') /\ pending' \in PendingType /\ Budget' /\ InOrder'
<1>1. PendingOk(pending') /\ pending' \in PendingType
  BY DEF IInv, PendingOk
<1>2. Budget'
  BY DEF IInv, Budget
<1>3. InOrder'
  BY DEF IInv, InOrder
<1>. QED
  BY <1>1, <1>2, <1>3

\* A step that queues the emulator's replies.
LEMMA GeneratedQueued ==
    ASSUME IInv, NEW g \in Nat, Fits(pending, g), pending' = push_generated(pending, g),
           UNCHANGED <<accepted, accLog, wroteLog>>
    PROVE  PendingOk(pending') /\ pending' \in PendingType /\ Budget' /\ InOrder'
<1>0. TypeOK /\ InOrder /\ PendingOk(pending)
  BY DEF IInv
<1>1. /\ PendingOk(pending')
      /\ pending'.unread = pending.unread + g
      /\ Len(pending'.chunks) >= Len(pending.chunks)
      /\ \A i \in 1..Len(pending.chunks) :
            /\ pending'.chunks[i].seq = pending.chunks[i].seq
            /\ pending'.chunks[i].data = pending.chunks[i].data
      /\ \A i \in (Len(pending.chunks) + 1)..Len(pending'.chunks) :
            pending'.chunks[i].seq = NoSeq
  BY <1>0, PushGenerated
<1>2. InOrder'
  BY <1>0, <1>1, SameInputs
<1>3. Budget'
  BY <1>1 DEF Budget, Fits
<1>4. pending' \in PendingType
  BY <1>1 DEF PendingOk
<1>. QED
  BY <1>1, <1>2, <1>3, <1>4

\* A step that leaves the echo timers alone.
LEMMA EchoUntouched ==
    ASSUME IInv, UNCHANGED <<history, settled, echoAck, wroteLog>>,
           latest' = latest \/ latest'.echoAck = echoAck
    PROVE  EchoHistory' /\ history' \in Seq(Nat) /\ settled' \in 0..Len(history')
           /\ echoAck' \in Nat
<1>1. EchoHistory'
  <2>1. latest'.echoAck <= echoAck
    BY DEF IInv, EchoHistory, TypeOK
  <2>. QED
    BY <2>1 DEF IInv, EchoHistory
<1>. QED
  BY <1>1 DEF IInv, TypeOK

\* publish: the screen is typed, and newer than the one before.
LEMMA Published ==
    ASSUME TypeOK, NEW e \in Nat, NEW f \in Nat, NEW sz \in ValidSizes, publish(e, f, sz)
    PROVE  /\ latest' \in ScreenType /\ version' \in Nat
           /\ version' = version + 1 /\ latest'.version = version + 1
           /\ latest'.echoAck = e /\ latest'.frame = f /\ latest'.size = sz
<1>1. version \in Nat
  BY DEF TypeOK
<1>. QED
  BY <1>1 DEF publish, ScreenType

\* The top of the loop.
LEMMA AtLoopTop ==
    ASSUME IInv, ownerPc \in {"start", "select"}, LoopTop
    PROVE  /\ ownerPc' \in {"select", "reap"} /\ cause' \in Causes
           /\ cause' \notin {"child", "input"}
BY DEF IInv, TypeOK, Control, LoopTop, Break, Goto, Causes
-----------------------------------------------------------------------------
(* Each action keeps the invariant.                                        *)

\* The owner's steps that only move its control, and the end of a session.
LEMMA ControlSteps ==
    ASSUME IInv,
           \/ OwnerStart \/ OnHangup \/ OnChildExit \/ OnPtyError
           \/ reap_child \/ PublishExit \/ Unregister
    PROVE  IInv'
<1> USE DEF IInv
<1>1. /\ UNCHANGED <<shutdown, accepted, lastAcked, latest, size, accLog, pending, version,
                     wroteLog, history, settled, echoAck, frame, held, syncing,
                     shell, ttyOpen, inQ, outQ, owed, produced>>
      /\ (cmds' = cmds \/ cmds' = <<>>)
  <2> USE DEF shared, owner, echo, emulator, tty
  <2>1. CASE OwnerStart
    BY <2>1 DEF OwnerStart, Drop
  <2>2. CASE OnHangup \/ OnPtyError
    BY <2>2 DEF OnHangup, OnPtyError
  <2>3. CASE OnChildExit
    BY <2>3 DEF OnChildExit
  <2>4. CASE reap_child
    BY <2>4 DEF reap_child
  <2>5. CASE PublishExit
    BY <2>5 DEF PublishExit
  <2>6. CASE Unregister
    BY <2>6 DEF Unregister, Drop
  <2>. QED
    BY <2>1, <2>2, <2>3, <2>4, <2>5, <2>6
<1>2. PendingOk(pending') /\ pending' \in PendingType /\ Budget' /\ InOrder'
  BY <1>1, QueueUntouched
<1>3. EchoHistory' /\ history' \in Seq(Nat) /\ settled' \in 0..Len(history') /\ echoAck' \in Nat
  BY <1>1, EchoUntouched
<1>4. cmds' \in Seq(OwnerMsg) /\ CmdsOk'
  <2>1. CASE cmds' = cmds
    BY <2>1 DEF TypeOK, CmdsOk, InputOk
  <2>2. CASE cmds' = <<>>
    BY <2>2 DEF CmdsOk
  <2>. QED
    BY <1>1, <2>1, <2>2
<1>5. /\ ownerPc' \in Pcs /\ cause' \in Causes
      /\ closed' \in BOOLEAN /\ registered' \in BOOLEAN
      /\ childDone' \in Codes \cup {NoExit} /\ exit' \in Codes \cup {NoExit}
      /\ Control' /\ Screens'
  <2>1. CASE OwnerStart
    <3>1. CASE LoopTop /\ UNCHANGED <<cmds, closed, registered>>
      <4>1. ownerPc' \in {"select", "reap"} /\ cause' \in Causes /\ cause' \notin {"child", "input"}
        BY <2>1, <3>1, AtLoopTop DEF OwnerStart
      <4>2. UNCHANGED <<exit, childDone>> /\ ownerPc = "start"
        BY <2>1 DEF OwnerStart
      <4>3. Control' /\ ownerPc' \in Pcs
        BY <1>1, <3>1, <4>1, <4>2 DEF Control, Pcs
      <4>4. Screens'
        BY <1>1, <4>1, <4>2 DEF Screens, Control
      <4>. QED
        BY <3>1, <4>1, <4>2, <4>3, <4>4 DEF TypeOK
    <3>2. CASE Goto("gone") /\ Drop
      <4>1. /\ ownerPc' = "gone" /\ closed' = TRUE /\ registered' = FALSE
            /\ UNCHANGED <<exit, childDone, cause>> /\ ownerPc = "start"
        BY <2>1, <3>2 DEF OwnerStart, Goto, Drop
      <4>2. Control' /\ ownerPc' \in Pcs
        BY <1>1, <4>1 DEF Control, Pcs
      <4>3. Screens'
        BY <1>1, <4>1 DEF Screens, Control
      <4>. QED
        BY <4>1, <4>2, <4>3 DEF TypeOK
    <3>. QED
      BY <2>1, <3>1, <3>2 DEF OwnerStart
  <2>2. CASE OnHangup \/ OnPtyError
    <3>1. /\ ownerPc = "select" /\ ownerPc' = "reap" /\ cause' \in {"hangup", "io"}
          /\ UNCHANGED <<exit, closed, registered, childDone>>
      BY <2>2 DEF OnHangup, OnPtyError, Break, shared
    <3>2. Control' /\ ownerPc' \in Pcs /\ cause' \in Causes
      BY <1>1, <3>1 DEF Control, Pcs, Causes
    <3>3. Screens'
      BY <1>1, <3>1 DEF Screens, Control
    <3>. QED
      BY <3>1, <3>2, <3>3 DEF TypeOK
  <2>3. CASE OnChildExit
    <3>1. /\ ownerPc = "select" /\ ownerPc' = "drain" /\ cause' = "child" /\ shell # Alive
          /\ childDone' = shell /\ UNCHANGED <<exit, closed, registered>>
      BY <2>3 DEF OnChildExit, shared
    <3>2. shell \in Codes
      BY <3>1 DEF TypeOK
    <3>3. Control' /\ ownerPc' \in Pcs /\ cause' \in Causes
      BY <1>1, <3>1, <3>2 DEF Control, Pcs, Causes
    <3>4. Screens'
      BY <1>1, <3>1 DEF Screens, Control
    <3>. QED
      BY <3>1, <3>2, <3>3, <3>4 DEF TypeOK
  <2>4. CASE reap_child
    <3>1. /\ ownerPc \in {"reap", "term", "kill"}
          /\ \/ ownerPc' \in {"term", "kill"} /\ UNCHANGED childDone
             \/ ownerPc' = "drain" /\ childDone' \in Codes
          /\ UNCHANGED <<cause, exit, closed, registered>>
      BY <2>4, ApiAssumption DEF reap_child, Reaped, TypeOK, shared
    <3>2. Control' /\ ownerPc' \in Pcs
      BY <1>1, <3>1 DEF Control, Pcs
    <3>3. Screens'
      BY <1>1, <3>1 DEF Screens, Control
    <3>. QED
      BY <3>1, <3>2, <3>3 DEF TypeOK
  <2>5. CASE PublishExit
    <3>1. /\ ownerPc = "final" /\ ownerPc' = "unreg" /\ exit' = childDone
          /\ UNCHANGED <<cause, childDone, closed, registered>>
      BY <2>5 DEF PublishExit, Goto
    <3>2. Control' /\ ownerPc' \in Pcs
      <4>1. exit' # NoExit
        BY <1>1, <3>1, ApiAssumption DEF Control
      <4>. QED
        BY <1>1, <3>1, <4>1 DEF Control, Pcs
    <3>3. Screens'
      BY <1>1, <3>1 DEF Screens
    <3>. QED
      BY <3>1, <3>2, <3>3 DEF TypeOK
  <2>6. CASE Unregister
    <3>1. /\ ownerPc = "unreg" /\ ownerPc' = "gone" /\ closed' = TRUE /\ registered' = FALSE
          /\ UNCHANGED <<cause, childDone, exit>>
      BY <2>6 DEF Unregister, Goto, Drop
    <3>2. Control' /\ ownerPc' \in Pcs
      BY <1>1, <3>1 DEF Control, Pcs
    <3>3. Screens'
      BY <1>1, <3>1 DEF Screens
    <3>. QED
      BY <3>1, <3>2, <3>3 DEF TypeOK
  <2>. QED
    BY <2>1, <2>2, <2>3, <2>4, <2>5, <2>6
<1>6. TypeOK'
  BY <1>1, <1>2, <1>3, <1>4, <1>5 DEF TypeOK
<1>. QED
  BY <1>2, <1>3, <1>4, <1>5, <1>6

\* Handlers, time, the kernel and the shell.
LEMMA EnvironmentSteps ==
    ASSUME IInv, Call \/ Elapse \/ ShellRead \/ ShellWrite \/ ShellExit \/ TtyClose
    PROVE  IInv'
<1> USE DEF IInv
<1>1. CASE Call
  <2>0. Handler /\ UNCHANGED <<ownerPc, cause, childDone, pending, version, wroteLog,
             history, settled, echoAck, frame, held, syncing, shell, ttyOpen, inQ,
             outQ, owed, produced>>
    BY <1>1 DEF Call, owner, echo, emulator, tty
  <2>1. /\ UNCHANGED <<closed, accepted, latest, exit, size, registered, accLog>>
        /\ shutdown' \in BOOLEAN /\ lastAcked' \in Nat
        /\ \/ cmds' = cmds
           \/ \E m \in OwnerMsg : /\ cmds' = Append(cmds, m)
                                  /\ m.op = "Input" => InputOk(m.data)
    <3>1. CASE \E seq \in 0..MaxSeq, d \in Data : try_input(seq, d)
      <4>1. PICK seq \in 0..MaxSeq, d \in Data : try_input(seq, d)
        BY <3>1
      <4>2. Input(seq, d) \in OwnerMsg /\ Input(seq, d).data = d
        BY ApiAssumption DEF Input, OwnerMsg
      <4>. QED
        BY <4>1, <4>2 DEF try_input, TypeOK
    <3>2. CASE \E z \in Sizes : latest.version + Len(cmds) < MaxVersion /\ try_resize(z)
      <4>1. PICK z \in Sizes : try_resize(z)
        BY <3>2
      <4>2. Resize(z) \in OwnerMsg /\ Resize(z).op = "Resize"
        BY <4>1 DEF Resize, OwnerMsg, try_resize
      <4>. QED
        BY <4>1, <4>2 DEF try_resize, TypeOK
    <3>3. CASE \E v \in 1..latest.version : v <= MaxAck /\ try_ack(v)
      <4>1. PICK v \in 1..latest.version : try_ack(v)
        BY <3>3
      <4>2. latest.version \in Nat /\ lastAcked \in Nat
        BY DEF TypeOK, ScreenType
      <4>3. v \in Nat
        BY <4>2
      <4>4. Ack(v) \in OwnerMsg /\ Ack(v).op = "Ack"
        BY <4>3 DEF Ack, OwnerMsg
      <4>5. AckMax(v) \in Nat
        BY <4>2, <4>3 DEF AckMax
      <4>. QED
        BY <4>1, <4>4, <4>5 DEF try_ack, TypeOK
    <3>4. CASE request_hangup
      BY <3>4 DEF request_hangup, TypeOK
    <3>. QED
      BY <2>0, <3>1, <3>2, <3>3, <3>4 DEF Handler
  <2>2. cmds' \in Seq(OwnerMsg) /\ CmdsOk'
    <3>1. CASE cmds' = cmds
      BY <3>1 DEF TypeOK, CmdsOk, InputOk
    <3>2. CASE cmds' # cmds
      <4>1. PICK m \in OwnerMsg : cmds' = Append(cmds, m) /\ (m.op = "Input" => InputOk(m.data))
        BY <2>1, <3>2
      <4>2. cmds \in Seq(OwnerMsg) /\ Len(cmds) \in Nat
        BY DEF TypeOK
      <4>3. /\ cmds' \in Seq(OwnerMsg) /\ Len(cmds') = Len(cmds) + 1
            /\ cmds'[Len(cmds) + 1] = m
            /\ \A i \in 1..Len(cmds) : cmds'[i] = cmds[i]
        BY <4>1, <4>2
      <4>4. ASSUME NEW i \in 1..Len(cmds'), cmds'[i].op = "Input"
            PROVE  InputOk(cmds'[i].data)
        <5>1. CASE i = Len(cmds) + 1
          BY <4>1, <4>3, <4>4, <5>1
        <5>2. CASE i # Len(cmds) + 1
          <6>1. i \in 1..Len(cmds) /\ cmds'[i] = cmds[i]
            BY <4>2, <4>3, <5>2
          <6>. QED
            BY <4>4, <6>1 DEF CmdsOk
        <5>. QED
          BY <5>1, <5>2
      <4>. QED
        BY <4>3, <4>4 DEF CmdsOk, InputOk
    <3>. QED
      BY <3>1, <3>2
  <2>3. PendingOk(pending') /\ pending' \in PendingType /\ Budget' /\ InOrder'
    BY <2>0, <2>1, QueueUntouched
  <2>4. EchoHistory' /\ history' \in Seq(Nat) /\ settled' \in 0..Len(history') /\ echoAck' \in Nat
    BY <2>0, <2>1, EchoUntouched
  <2>5. Control' /\ Screens'
    BY <2>0, <2>1 DEF Control, Screens
  <2>6. TypeOK'
    BY <2>0, <2>1, <2>2, <2>3, <2>4 DEF TypeOK
  <2>. QED
    BY <2>2, <2>3, <2>4, <2>5, <2>6
<1>2. CASE Elapse
  <2>1. /\ UNCHANGED <<cmds, closed, shutdown, accepted, lastAcked, latest, exit, size, registered,
             accLog, ownerPc, cause, childDone, pending, version, wroteLog, history, echoAck, frame,
             held, syncing, shell, ttyOpen, inQ, outQ, owed, produced>>
        /\ settled < Len(history) /\ settled' = settled + 1
    BY <1>2 DEF Elapse, notTty, shared, owner, emulator, tty
  <2>2. PendingOk(pending') /\ Budget' /\ InOrder'
    BY <2>1, QueueUntouched
  <2>3. EchoHistory' /\ Control' /\ Screens' /\ CmdsOk'
    BY <2>1 DEF EchoHistory, Control, Screens, CmdsOk, InputOk
  <2>4. settled' \in 0..Len(history')
    BY <2>1 DEF TypeOK
  <2>5. TypeOK'
    BY <2>1, <2>4 DEF TypeOK
  <2>. QED
    BY <2>2, <2>3, <2>5
<1>3. CASE ShellRead \/ ShellWrite \/ ShellExit \/ TtyClose
  <2>1. UNCHANGED <<cmds, closed, shutdown, accepted, lastAcked, latest, exit, size, registered,
             accLog, ownerPc, cause, childDone, pending, version, wroteLog, history, settled,
             echoAck, frame, held, syncing>>
    BY <1>3 DEF ShellRead, ShellWrite, ShellExit, TtyClose, notTty, shared, owner, emulator, echo
  <2>2. PendingOk(pending') /\ Budget' /\ InOrder'
    BY <2>1, QueueUntouched
  <2>3. EchoHistory' /\ Screens' /\ CmdsOk'
    BY <2>1 DEF EchoHistory, Screens, CmdsOk, InputOk
  <2>4. /\ shell' \in Codes \cup {Alive} /\ ttyOpen' \in BOOLEAN
        /\ inQ' \in Nat /\ outQ' \in Nat /\ owed' \in Nat /\ produced' \in Nat
        /\ shell # Alive => shell' = shell
    <3>1. CASE ShellRead
      <4>1. owed' \in {0, 1}
        BY <3>1 DEF ShellRead
      <4>2. inQ \in Nat /\ inQ > 0 /\ inQ' = inQ - 1 /\ produced \in Nat
            /\ produced' = produced + owed' /\ UNCHANGED <<shell, ttyOpen, outQ>>
        BY <3>1 DEF ShellRead, TypeOK
      <4>3. inQ' \in Nat /\ produced' \in Nat /\ owed' \in Nat
        <5>1. CASE owed' = 0
          BY <4>2, <5>1
        <5>2. CASE owed' = 1
          BY <4>2, <5>2
        <5>. QED
          BY <4>1, <5>1, <5>2
      <4>. QED
        BY <4>2, <4>3 DEF TypeOK
    <3>2. CASE ShellWrite
      BY <3>2 DEF ShellWrite, TypeOK
    <3>3. CASE ShellExit \/ TtyClose
      BY <3>3 DEF ShellExit, TtyClose, TypeOK
    <3>. QED
      BY <1>3, <3>1, <3>2, <3>3
  <2>5. Control'
    BY <2>1, <2>4 DEF Control
  <2>6. TypeOK'
    BY <2>1, <2>4 DEF TypeOK
  <2>. QED
    BY <2>2, <2>3, <2>5, <2>6
<1>. QED
  BY <1>1, <1>2, <1>3

\* Output is shown, or held back by a synchronized update, and the replies
\* it asks for are queued if they fit.
LEMMA OutputSteps ==
    ASSUME IInv, OnReadable \/ OnSyncDeadline
    PROVE  IInv'
<1> USE DEF IInv
<1>0. /\ UNCHANGED <<cmds, closed, shutdown, accepted, lastAcked, exit, size, registered, accLog,
                     childDone, wroteLog, history, settled, echoAck, shell, ttyOpen,
                     inQ, owed, produced>>
      /\ ownerPc = "select"
  BY DEF OnReadable, ReadPty, OnSyncDeadline, notScreen, echo, tty
<1>1. /\ frame' \in Nat /\ frame' >= frame /\ held' \in Nat /\ syncing' \in BOOLEAN
      /\ outQ' \in Nat
  <2>1. frame \in Nat /\ held \in Nat /\ outQ \in Nat /\ syncing \in BOOLEAN
    BY DEF TypeOK
  <2>2. CASE OnReadable
    <3>1. PICK kind \in {"plain", "begin", "end"} : Process(kind)
      BY <2>2 DEF OnReadable, ReadPty
    <3>2. outQ > 0 /\ outQ' = outQ - 1
      BY <2>2 DEF OnReadable, ReadPty
    <3>3. syncing' \in BOOLEAN
      BY <3>1 DEF Process
    <3>4. \/ frame' = frame /\ held' = held + 1
          \/ frame' = frame + held + 1 /\ held' = 0
      BY <3>1 DEF Process
    <3>. QED
      BY <2>1, <3>2, <3>3, <3>4
  <2>3. CASE OnSyncDeadline
    <3>1. frame' = frame + held /\ held' = 0 /\ syncing' = FALSE /\ outQ' = outQ
      BY <2>3 DEF OnSyncDeadline, flush_sync, tty
    <3>2. frame' \in Nat /\ frame' >= frame /\ held' \in Nat
      BY <2>1, <3>1
    <3>. QED
      BY <2>1, <3>1, <3>2
  <2>. QED
    BY <2>2, <2>3
<1>2. PICK g \in 0..MaxGen :
         IF Fits(pending, g)
         THEN /\ pending' = push_generated(pending, g)
              /\ publish(echoAck, frame', size)
              /\ LoopTop
         ELSE Break("generated") /\ UNCHANGED <<pending, version, latest>>
  BY DEF OnReadable, ReadPty, OnSyncDeadline
<1>3. g \in Nat
  BY SessionAssumption
<1>4. /\ PendingOk(pending') /\ pending' \in PendingType /\ Budget' /\ InOrder'
      /\ latest' \in ScreenType /\ version' \in Nat /\ ownerPc' \in {"select", "reap"}
      /\ cause' \in Causes /\ cause' \notin {"child", "input"}
      /\ latest'.version <= version' /\ latest'.frame <= frame'
      /\ latest' = latest \/ latest'.echoAck = echoAck
  <2>1. CASE Fits(pending, g)
    <3>1. pending' = push_generated(pending, g) /\ publish(echoAck, frame', size) /\ LoopTop
      BY <1>2, <2>1
    <3>2. PendingOk(pending') /\ pending' \in PendingType /\ Budget' /\ InOrder'
      BY <1>0, <1>3, <2>1, <3>1, GeneratedQueued
    <3>3. echoAck \in Nat /\ size \in ValidSizes
      BY DEF TypeOK
    <3>4. /\ latest' \in ScreenType /\ version' \in Nat
          /\ latest'.version = version' /\ latest'.frame = frame' /\ latest'.echoAck = echoAck
      BY <1>1, <3>1, <3>3, Published
    <3>5. /\ ownerPc' \in {"select", "reap"} /\ cause' \in Causes
          /\ cause' \notin {"child", "input"}
      BY <1>0, <3>1, AtLoopTop
    <3>. QED
      BY <1>1, <3>2, <3>4, <3>5
  <2>2. CASE ~Fits(pending, g)
    <3>1. Break("generated") /\ UNCHANGED <<pending, version, latest>>
      BY <1>2, <2>2
    <3>2. PendingOk(pending') /\ pending' \in PendingType /\ Budget' /\ InOrder'
      BY <1>0, <3>1, QueueUntouched
    <3>3. ownerPc' = "reap" /\ cause' = "generated"
      BY <3>1 DEF Break
    <3>4. /\ latest' \in ScreenType /\ version' \in Nat /\ frame \in Nat /\ latest.frame \in Nat
          /\ latest.version <= version /\ latest.frame <= frame
      BY <3>1 DEF TypeOK, Screens, ScreenType
    <3>5. latest.frame <= frame'
      BY <1>1, <3>4
    <3>. QED
      BY <3>1, <3>2, <3>3, <3>4, <3>5 DEF Causes
  <2>. QED
    BY <2>1, <2>2
<1>5. EchoHistory' /\ history' \in Seq(Nat) /\ settled' \in 0..Len(history') /\ echoAck' \in Nat
  BY <1>0, <1>4, EchoUntouched
<1>6. Control' /\ Screens' /\ CmdsOk'
  BY <1>0, <1>4 DEF Control, Screens, CmdsOk, InputOk
<1>7. TypeOK'
  BY <1>0, <1>1, <1>4, <1>5 DEF TypeOK, Pcs
<1>. QED
  BY <1>4, <1>5, <1>6, <1>7

\* What n reads leave held back is part of what was held and read.
LEMMA HoldsBound ==
    ASSUME NEW n \in Nat, held \in Nat, syncing \in BOOLEAN,
           NEW h \in (IF n = 0 THEN {<<syncing, held>>} ELSE Holds(n))
    PROVE  h[1] \in BOOLEAN /\ h[2] \in Nat /\ h[2] <= held + n
<1>1. CASE n = 0
  BY <1>1
<1>2. CASE n # 0
  <2>1. \/ h = <<FALSE, 0>>
        \/ h \in {TRUE} \X (1..n)
        \/ h = <<TRUE, held + n>>
    BY <1>2 DEF Holds
  <2>2. CASE h = <<FALSE, 0>>
    BY <2>2
  <2>3. CASE h \in {TRUE} \X (1..n)
    <3>1. h[1] = TRUE /\ h[2] \in 1..n
      BY <2>3
    <3>2. h[2] \in Nat /\ h[2] <= held + n
      BY <3>1
    <3>. QED
      BY <3>1, <3>2
  <2>4. CASE h = <<TRUE, held + n>>
    BY <2>4
  <2>. QED
    BY <2>1, <2>2, <2>3, <2>4
<1>. QED
  BY <1>1, <1>2

\* The final screen.
LEMMA DrainStep ==
    ASSUME IInv, drain_pty
    PROVE  IInv'
<1> USE DEF IInv
<1>0. /\ UNCHANGED <<cmds, closed, shutdown, accepted, lastAcked, exit, size, registered, accLog,
                     childDone, wroteLog, history, settled, echoAck, shell, ttyOpen,
                     inQ, owed, produced, cause>>
      /\ ownerPc = "drain" /\ ownerPc' = "final"
  BY DEF drain_pty, notScreen, echo, Goto
<1>1. PICK n \in 0..outQ, g \in 0..(MaxGen * DrainReads) :
         /\ Fits(pending, g)
         /\ outQ' = outQ - n
         /\ pending' = push_generated(pending, g)
         /\ \E h \in (IF n = 0 THEN {<<syncing, held>>} ELSE Holds(n)) :
               /\ syncing' = h[1] /\ held' = h[2]
               /\ frame' = frame + held + n - h[2]
  BY DEF drain_pty
<1>2. frame \in Nat /\ held \in Nat /\ outQ \in Nat /\ syncing \in BOOLEAN
  BY DEF TypeOK
<1>3. n \in Nat /\ n <= outQ
  BY <1>2
<1>4. PICK h \in (IF n = 0 THEN {<<syncing, held>>} ELSE Holds(n)) :
         syncing' = h[1] /\ held' = h[2] /\ frame' = frame + held + n - h[2]
  BY <1>1
<1>5. h[1] \in BOOLEAN /\ h[2] \in Nat /\ h[2] <= held + n
  BY <1>2, <1>3, <1>4, HoldsBound
<1>6. frame' \in Nat /\ frame' >= frame - held /\ held' \in Nat /\ syncing' \in BOOLEAN
  BY <1>2, <1>3, <1>4, <1>5
<1>7. outQ' \in Nat
  BY <1>1, <1>2, <1>3
<1>8. g \in Nat
  <2>1. MaxGen * DrainReads \in Nat
    BY SessionAssumption
  <2>. QED
    BY <2>1
<1>9. PendingOk(pending') /\ pending' \in PendingType /\ Budget' /\ InOrder'
  BY <1>0, <1>1, <1>8, GeneratedQueued
<1>10. /\ latest' \in ScreenType /\ version' \in Nat
       /\ latest'.version = version' /\ latest'.frame = frame' /\ latest'.echoAck = echoAck
  <2>1. echoAck \in Nat /\ size \in ValidSizes /\ publish(echoAck, frame', size)
    BY DEF TypeOK, drain_pty
  <2>. QED
    BY <1>6, <2>1, Published
<1>11. EchoHistory' /\ history' \in Seq(Nat) /\ settled' \in 0..Len(history') /\ echoAck' \in Nat
  BY <1>0, <1>10, EchoUntouched
<1>12. Control'
  BY <1>0 DEF Control
<1>13. Screens'
  BY <1>0, <1>6, <1>10 DEF Screens
<1>14. CmdsOk'
  BY <1>0 DEF CmdsOk, InputOk
<1>15. TypeOK'
  BY <1>0, <1>6, <1>7, <1>9, <1>10, <1>11 DEF TypeOK, Pcs
<1>. QED
  BY <1>9, <1>11, <1>12, <1>13, <1>14, <1>15

\* Bytes of the front chunk go to the PTY; a sequence that is done waits to
\* settle.
LEMMA WriteStep ==
    ASSUME IInv, OnWritable
    PROVE  IInv'
<1> USE DEF IInv
<1> DEFINE front == Head(pending.chunks)
<1>0. /\ UNCHANGED <<cmds, closed, shutdown, accepted, lastAcked, latest, exit, size, registered,
                     accLog, childDone, settled, echoAck, version, frame, held, syncing,
                     shell, ttyOpen, outQ, owed, produced>>
      /\ ownerPc = "select" /\ pending.unread > 0 /\ LoopTop
  BY DEF OnWritable, shared, emulator
<1>1. PICK n \in 1..WriteLen(pending) :
         /\ inQ' = inQ + n
         /\ pending' = advance(pending, n)
         /\ history' = IF CompletesFront(pending, n) /\ front.seq # NoSeq
                       THEN Append(history, front.seq) ELSE history
         /\ wroteLog' = IF CompletesFront(pending, n) /\ front.seq # NoSeq
                        THEN Append(wroteLog, front.data) ELSE wroteLog
  BY DEF OnWritable
<1>2. pending.chunks # <<>>
  BY <1>0, FrontOfPending
<1>3. n \in Nat /\ inQ' \in Nat
  <2>1. WriteLen(pending) \in Nat /\ inQ \in Nat
    BY <1>2, FrontOfPending DEF TypeOK
  <2>. QED
    BY <1>1, <2>1
<1>4. /\ PendingOk(pending')
      /\ pending'.unread <= pending.unread
      /\ CompletesFront(pending, n) => pending'.chunks = Tail(pending.chunks)
      /\ ~CompletesFront(pending, n) =>
            /\ Len(pending'.chunks) = Len(pending.chunks)
            /\ \A i \in 1..Len(pending.chunks) :
                  /\ pending'.chunks[i].seq = pending.chunks[i].seq
                  /\ pending'.chunks[i].data = pending.chunks[i].data
  BY <1>1, <1>2, Advance
<1>5. pending' \in PendingType /\ Budget'
  <2>1. pending' \in PendingType
    BY <1>4 DEF PendingOk
  <2>2. pending'.unread \in Nat /\ pending.unread \in Nat /\ HardMax \in Nat
    BY <2>1, BudgetAssumption DEF TypeOK, PendingType
  <2>. QED
    BY <1>4, <2>1, <2>2 DEF Budget
<1>6. /\ InOrder' /\ EchoHistory' /\ history' \in Seq(Nat) /\ Len(history') >= Len(history)
      /\ wroteLog' \in Seq(Data)
  <2>0. /\ history \in Seq(Nat) /\ wroteLog \in Seq(Data) /\ echoAck \in Nat
        /\ echoAck + Len(history) = Len(wroteLog) /\ Len(history) \in Nat
        /\ latest.echoAck <= echoAck
        /\ \A i \in 1..Len(history) : history[i] = echoAck + i
    BY DEF TypeOK, EchoHistory
  <2>1. CASE CompletesFront(pending, n) /\ front.seq # NoSeq
    <3>1. /\ pending'.chunks = Tail(pending.chunks)
          /\ wroteLog' = Append(wroteLog, front.data)
          /\ history' = Append(history, front.seq)
      BY <1>1, <1>4, <2>1
    <3>2. /\ InOrder' /\ front.seq = Len(wroteLog) + 1 /\ front.data \in Data
          /\ Len(wroteLog') = Len(wroteLog) + 1
      BY <1>0, <1>2, <2>1, <3>1, FrontWritten
    <3>3. /\ wroteLog' \in Seq(Data) /\ history' \in Seq(Nat)
          /\ Len(history') = Len(history) + 1
          /\ \A i \in 1..Len(history) : history'[i] = history[i]
          /\ history'[Len(history) + 1] = Len(wroteLog) + 1
      BY <2>0, <3>1, <3>2
    <3>a. echoAck \in Nat /\ Len(history) \in Nat /\ Len(wroteLog) = echoAck + Len(history)
      BY <2>0
    <3>4. ASSUME NEW i \in 1..Len(history')
          PROVE  history'[i] = echoAck + i
      <4>1. CASE i = Len(history) + 1
        BY <3>3, <3>a, <4>1
      <4>2. CASE i # Len(history) + 1
        <5>1. i \in 1..Len(history)
          BY <3>3, <3>a, <4>2
        <5>. QED
          BY <2>0, <3>3, <5>1
      <4>. QED
        BY <4>1, <4>2
    <3>b. Len(history') = Len(history) + 1 /\ Len(wroteLog') = Len(wroteLog) + 1
      BY <3>2, <3>3
    <3>5. echoAck + Len(history') = Len(wroteLog')
      BY <3>a, <3>b
    <3>6. EchoHistory'
      BY <1>0, <2>0, <3>3, <3>4, <3>5 DEF EchoHistory
    <3>. QED
      BY <2>0, <3>2, <3>3, <3>6
  <2>2. CASE ~(CompletesFront(pending, n) /\ front.seq # NoSeq)
    <3>1. UNCHANGED <<history, wroteLog>>
      BY <1>1, <2>2
    <3>2. EchoHistory'
      BY <1>0, <3>1 DEF EchoHistory
    <3>3. InOrder'
      <4>1. CASE CompletesFront(pending, n)
        <5>1. front.seq = NoSeq /\ pending'.chunks = Tail(pending.chunks)
          BY <1>4, <2>2, <4>1
        <5>. QED
          BY <1>0, <1>2, <3>1, <5>1, FrontWritten
      <4>2. CASE ~CompletesFront(pending, n)
        <5>1. Len(pending.chunks) \in Nat
          BY ChunkTypes DEF PendingOk
        <5>2. /\ Len(pending'.chunks) >= Len(pending.chunks)
              /\ (Len(pending.chunks) + 1)..Len(pending'.chunks) = {}
          BY <1>4, <4>2, <5>1
        <5>. QED
          BY <1>0, <1>4, <3>1, <4>2, <5>2, SameInputs
      <4>. QED
        BY <4>1, <4>2
    <3>. QED
      BY <2>0, <3>1, <3>2, <3>3
  <2>. QED
    BY <2>1, <2>2
<1>7. settled' \in 0..Len(history')
  <2>1. settled \in 0..Len(history) /\ Len(history) \in Nat /\ Len(history') \in Nat
    BY <1>6 DEF TypeOK
  <2>. QED
    BY <1>0, <1>6, <2>1
<1>8. ownerPc' \in {"select", "reap"} /\ cause' \in Causes /\ cause' \notin {"child", "input"}
  BY <1>0, AtLoopTop
<1>9. Control' /\ Screens' /\ CmdsOk'
  BY <1>0, <1>8 DEF Control, Screens, CmdsOk, InputOk
<1>10. TypeOK'
  BY <1>0, <1>3, <1>5, <1>6, <1>7, <1>8 DEF TypeOK, Pcs
<1>. QED
  BY <1>4, <1>5, <1>6, <1>9, <1>10

\* What a command is, once it is at the head of the queue.
LEMMA HeadCommand ==
    ASSUME IInv, cmds # <<>>
    PROVE  /\ Head(cmds) \in OwnerMsg
           /\ Tail(cmds) \in Seq(OwnerMsg)
           /\ \A i \in 1..Len(Tail(cmds)) : Tail(cmds)[i].op = "Input" =>
                 InputOk(Tail(cmds)[i].data)
           /\ Head(cmds).op = "Input" =>
                 /\ Head(cmds).data \in Data /\ Head(cmds).seq \in Nat
                 /\ InputOk(Head(cmds).data)
           /\ Head(cmds).op = "Resize" => Head(cmds).size \in ValidSizes
           /\ Head(cmds).op = "Ack" => Head(cmds).version \in Nat
<1>1. /\ cmds \in Seq(OwnerMsg) /\ Len(cmds) \in Nat /\ Len(cmds) >= 1
      /\ Head(cmds) = cmds[1] /\ Head(cmds) \in OwnerMsg
      /\ Tail(cmds) \in Seq(OwnerMsg) /\ Len(Tail(cmds)) = Len(cmds) - 1
      /\ \A i \in 1..(Len(cmds) - 1) : Tail(cmds)[i] = cmds[i + 1]
  BY DEF IInv, TypeOK
<1>2. ASSUME NEW i \in 1..Len(Tail(cmds)), Tail(cmds)[i].op = "Input"
      PROVE  InputOk(Tail(cmds)[i].data)
  <2>1. i + 1 \in 1..Len(cmds) /\ Tail(cmds)[i] = cmds[i + 1]
    BY <1>1
  <2>. QED
    BY <1>2, <2>1 DEF IInv, CmdsOk
<1>3. Head(cmds).op = "Input" => InputOk(Head(cmds).data)
  <2>1. 1 \in 1..Len(cmds)
    BY <1>1
  <2>. QED
    BY <1>1, <2>1 DEF IInv, CmdsOk
<1>. QED
  BY <1>1, <1>2, <1>3 DEF OwnerMsg

\* A command taken below MAX_PENDING: one more input always fits.
LEMMA InputFits ==
    ASSUME IInv, AcceptMore, NEW d \in Data, InputOk(d)
    PROVE  Fits(pending, DataLen[d]) /\ DataLen[d] \in Nat /\ DataLen[d] > 0
<1>1. pending.unread \in Nat /\ pending.unread < MaxPending
  BY DEF IInv, TypeOK, PendingType, AcceptMore
<1>2. DataLen[d] \in Nat /\ DataLen[d] > 0 /\ DataLen[d] <= MaxInput
  BY ApiAssumption DEF InputOk
<1>3. /\ MaxPending \in Nat /\ HardMax \in Nat /\ MaxInput \in Nat
      /\ MaxInput <= HardMax - MaxPending
  BY BudgetAssumption, ApiAssumption, SessionAssumption
<1>4. pending.unread + DataLen[d] <= HardMax
  BY <1>1, <1>2, <1>3
<1>. QED
  BY <1>2, <1>4 DEF Fits

\* Input in sequence is queued, anything else is dropped; resizes publish.
LEMMA CommandStep ==
    ASSUME IInv, OnCommand
    PROVE  IInv'
<1> USE DEF IInv
<1> DEFINE m == Head(cmds)
<1>0. /\ UNCHANGED <<closed, shutdown, exit, registered, childDone, wroteLog, history, settled,
                     echoAck, frame, held, syncing, shell, ttyOpen, inQ, outQ, owed, produced>>
      /\ ownerPc = "select" /\ AcceptMore /\ cmds # <<>> /\ cmds' = Tail(cmds)
  BY DEF OnCommand, echo, emulator, tty
<1>1. cmds' \in Seq(OwnerMsg) /\ CmdsOk'
  BY <1>0, HeadCommand DEF CmdsOk, InputOk
<1>2. /\ PendingOk(pending') /\ pending' \in PendingType /\ Budget' /\ InOrder'
      /\ accepted' \in Nat /\ accLog' \in Seq(Data) /\ lastAcked' \in Nat
      /\ size' \in ValidSizes /\ latest' \in ScreenType /\ version' \in Nat
      /\ latest' = latest \/ latest'.echoAck = echoAck
      /\ latest'.version <= version' /\ latest'.frame <= frame
      /\ LoopTop
  <2>0. /\ accepted \in Nat /\ accLog \in Seq(Data) /\ lastAcked \in Nat /\ size \in ValidSizes
        /\ latest \in ScreenType /\ version \in Nat /\ echoAck \in Nat /\ frame \in Nat
        /\ latest.version <= version /\ latest.frame <= frame
    BY DEF TypeOK, Screens
  <2>1. CASE m.op = "Input" /\ OnInput(m)
    <3>1. m.data \in Data /\ m.seq \in Nat /\ InputOk(m.data)
      BY <1>0, <2>1, HeadCommand
    <3>2. Fits(pending, DataLen[m.data]) /\ DataLen[m.data] \in Nat /\ DataLen[m.data] > 0
      BY <1>0, <3>1, InputFits
    <3>3. UNCHANGED <<lastAcked, latest, size, version>>
      BY <2>1 DEF OnInput, InSequence
    <3>4. CASE m.seq # accepted + 1
      <4>1. LoopTop /\ UNCHANGED <<pending, accepted, accLog>>
        BY <2>1, <3>4 DEF OnInput, InSequence
      <4>2. PendingOk(pending') /\ pending' \in PendingType /\ Budget' /\ InOrder'
        BY <1>0, <4>1, QueueUntouched
      <4>. QED
        BY <2>0, <3>3, <4>1, <4>2
    <3>5. CASE m.seq = accepted + 1
      <4>1. /\ pending' = push_input(pending, m.seq, m.data, DataLen[m.data])
            /\ accepted' = m.seq
            /\ accLog' = Append(accLog, m.data)
            /\ LoopTop
        BY <2>1, <3>2, <3>5 DEF OnInput, InSequence
      <4>2. /\ PendingOk(pending')
            /\ pending'.unread = pending.unread + DataLen[m.data]
            /\ pending'.chunks = Append(pending.chunks, Chunk(m.seq, m.data, DataLen[m.data]))
        <5> DEFINE n == DataLen[m.data]
                   sq == m.seq
                   d == m.data
        <5>1. PendingOk(pending) /\ sq \in Nat /\ d \in Data /\ n \in Nat /\ n > 0
          BY <3>1, <3>2
        <5>2. pending' = push_input(pending, sq, d, n)
          BY <4>1
        <5> HIDE DEF n, sq, d, IInv
        <5>3. /\ PendingOk(pending')
              /\ pending'.unread = pending.unread + n
              /\ pending'.chunks = Append(pending.chunks, Chunk(sq, d, n))
          BY <5>1, <5>2, PushInput
        <5>. QED
          BY <5>3 DEF n, sq, d
      <4>3. Budget' /\ pending' \in PendingType
        BY <3>2, <4>2 DEF Budget, Fits, PendingOk
      <4>4. InOrder'
        <5>1. /\ accepted' = accepted + 1
              /\ pending'.chunks = Append(pending.chunks,
                                          Chunk(accepted + 1, m.data, DataLen[m.data]))
          BY <3>5, <4>1, <4>2
        <5>. QED
          BY <1>0, <3>1, <3>2, <4>1, <5>1, InputQueued
      <4>5. accepted' \in Nat /\ accLog' \in Seq(Data)
        BY <2>0, <3>1, <4>1
      <4>. QED
        BY <2>0, <3>3, <4>1, <4>2, <4>3, <4>4, <4>5
    <3>. QED
      BY <3>4, <3>5
  <2>2. CASE m.op = "Resize" /\ OnResize(m)
    <3>1. m.size \in ValidSizes
      BY <1>0, <2>2, HeadCommand
    <3>2. /\ size' = m.size /\ publish(echoAck, frame, m.size) /\ LoopTop
          /\ UNCHANGED <<lastAcked, pending, accepted, accLog>>
      BY <2>2 DEF OnResize
    <3>3. PendingOk(pending') /\ pending' \in PendingType /\ Budget' /\ InOrder'
      BY <1>0, <3>2, QueueUntouched
    <3>4. /\ latest' \in ScreenType /\ version' \in Nat
          /\ latest'.version = version' /\ latest'.echoAck = echoAck /\ latest'.frame = frame
      BY <2>0, <3>1, <3>2, Published
    <3>. QED
      BY <2>0, <3>1, <3>2, <3>3, <3>4
  <2>3. CASE m.op = "Ack" /\ OnAck(m)
    <3>1. m.version \in Nat
      BY <1>0, <2>3, HeadCommand
    <3>2. /\ lastAcked' = AckMax(m.version) /\ LoopTop
          /\ UNCHANGED <<latest, size, version, pending, accepted, accLog>>
      BY <2>3 DEF OnAck
    <3>3. lastAcked' \in Nat
      BY <2>0, <3>1, <3>2 DEF AckMax
    <3>4. PendingOk(pending') /\ pending' \in PendingType /\ Budget' /\ InOrder'
      BY <1>0, <3>2, QueueUntouched
    <3>. QED
      BY <2>0, <3>2, <3>3, <3>4
  <2>. QED
    BY <2>1, <2>2, <2>3 DEF OnCommand
<1>3. EchoHistory' /\ history' \in Seq(Nat) /\ settled' \in 0..Len(history') /\ echoAck' \in Nat
  BY <1>0, <1>2, EchoUntouched
<1>4. ownerPc' \in {"select", "reap"} /\ cause' \in Causes /\ cause' \notin {"child", "input"}
  BY <1>0, <1>2, AtLoopTop
<1>5. Control'
  BY <1>0, <1>4 DEF Control
<1>6. Screens'
  BY <1>0, <1>2, <1>4 DEF Screens, Control
<1>7. TypeOK'
  BY <1>0, <1>1, <1>2, <1>3, <1>4 DEF TypeOK, Pcs
<1>. QED
  BY <1>1, <1>2, <1>3, <1>5, <1>6, <1>7

\* The echo timer: the checkpoint moves over the settled sequences.
LEMMA EchoStep ==
    ASSUME IInv, OnEchoTimer
    PROVE  /\ IInv'
           /\ echoAck' >= echoAck /\ echoAck' <= Len(wroteLog)
<1> USE DEF IInv
<1>0. /\ UNCHANGED <<cmds, closed, shutdown, accepted, lastAcked, exit, size, registered, accLog,
                     childDone, pending, wroteLog, frame, held, syncing, shell, ttyOpen,
                     inQ, outQ, owed, produced>>
      /\ ownerPc = "select" /\ settled > 0 /\ settled' = 0
      /\ echoAck' = history[settled]
      /\ history' = SubSeq(history, settled + 1, Len(history))
      /\ publish(echoAck', frame, size) /\ LoopTop
  BY DEF OnEchoTimer, advance_echo_ack, notScreen, emulator, tty
<1>1. /\ history \in Seq(Nat) /\ Len(history) \in Nat /\ settled \in 1..Len(history)
      /\ echoAck \in Nat /\ Len(wroteLog) \in Nat /\ frame \in Nat /\ size \in ValidSizes
  BY <1>0 DEF TypeOK
<1>2. /\ echoAck + Len(history) = Len(wroteLog)
      /\ \A i \in 1..Len(history) : history[i] = echoAck + i
  BY <1>1 DEF EchoHistory
<1>3. echoAck' = echoAck + settled
  BY <1>0, <1>1, <1>2
<1>4. echoAck' \in Nat /\ echoAck' >= echoAck /\ echoAck' <= Len(wroteLog)
  BY <1>1, <1>2, <1>3
<1>5. /\ history' \in Seq(Nat) /\ Len(history') = Len(history) - settled
      /\ \A i \in 1..(Len(history) - settled) : history'[i] = history[settled + i]
  BY <1>0, <1>1
<1>6. /\ latest' \in ScreenType /\ version' \in Nat
      /\ latest'.version = version' /\ latest'.echoAck = echoAck' /\ latest'.frame = frame
  <2>1. publish(echoAck', frame, size) /\ TypeOK
    BY <1>0
  <2>. QED
    BY <1>1, <1>4, <2>1, Published
<1>7. EchoHistory'
  <2>1. ASSUME NEW i \in 1..Len(history')
        PROVE  history'[i] = echoAck' + i
    <3>1. i \in 1..(Len(history) - settled) /\ settled + i \in 1..Len(history)
      BY <1>1, <1>5
    <3>2. history'[i] = echoAck + (settled + i)
      BY <1>2, <1>5, <3>1
    <3>. QED
      BY <1>1, <1>3, <3>1, <3>2
  <2>a. Len(history') = Len(history) - settled /\ Len(wroteLog') = Len(wroteLog)
    BY <1>0, <1>5
  <2>2. echoAck' + Len(history') = Len(wroteLog')
    <3>1. /\ echoAck + Len(history) = Len(wroteLog) /\ echoAck \in Nat
          /\ Len(history) \in Nat /\ settled \in Nat /\ echoAck' = echoAck + settled
      BY <1>1, <1>2, <1>3
    <3>. QED
      BY <2>a, <3>1
  <2>3. latest'.echoAck <= echoAck'
    BY <1>4, <1>6
  <2>4. DOMAIN history' = 1..Len(history')
    BY <1>5
  <2>. QED
    BY <2>1, <2>2, <2>3, <2>4 DEF EchoHistory
<1>8. PendingOk(pending') /\ pending' \in PendingType /\ Budget' /\ InOrder'
  BY <1>0, QueueUntouched
<1>9. ownerPc' \in {"select", "reap"} /\ cause' \in Causes /\ cause' \notin {"child", "input"}
  BY <1>0, AtLoopTop
<1>10. Control' /\ CmdsOk'
  BY <1>0, <1>9 DEF Control, CmdsOk, InputOk
<1>11. Screens'
  BY <1>0, <1>1, <1>6, <1>9 DEF Screens, Control
<1>12. settled' \in 0..Len(history')
  BY <1>0, <1>5
<1>13. TypeOK'
  BY <1>0, <1>4, <1>5, <1>6, <1>8, <1>9, <1>12 DEF TypeOK, Pcs
<1>. QED
  BY <1>4, <1>7, <1>8, <1>10, <1>11, <1>13
-----------------------------------------------------------------------------
(* Theorems.                                                               *)

\* Every step keeps the invariant, one lemma per kind of step.
LEMMA NextIInv == IInv /\ [Next]_vars => IInv'
<1> SUFFICES ASSUME IInv, [Next]_vars PROVE IInv'
  OBVIOUS
<1>1. CASE \/ OwnerStart \/ OnHangup \/ OnChildExit \/ OnPtyError
           \/ reap_child \/ PublishExit \/ Unregister
  BY <1>1, ControlSteps
<1>2. CASE OnReadable \/ OnSyncDeadline
  BY <1>2, OutputSteps
<1>3. CASE OnWritable
  BY <1>3, WriteStep
<1>4. CASE OnCommand
  BY <1>4, CommandStep
<1>5. CASE OnEchoTimer
  BY <1>5, EchoStep
<1>6. CASE drain_pty
  BY <1>6, DrainStep
<1>7. CASE Call \/ Elapse \/ ShellRead \/ ShellWrite \/ ShellExit \/ TtyClose
  BY <1>7, EnvironmentSteps
<1>8. CASE UNCHANGED vars
  <2>1. UNCHANGED <<cmds, closed, shutdown, accepted, lastAcked, latest, exit, size, registered,
             accLog, ownerPc, cause, childDone, pending, version, wroteLog, history, settled,
             echoAck, frame, held, syncing, shell, ttyOpen, inQ, outQ, owed, produced>>
    BY <1>8 DEF vars, shared, owner, echo, emulator, tty
  <2>2. PendingOk(pending') /\ Budget' /\ InOrder'
    BY <2>1, QueueUntouched
  <2>3. EchoHistory' /\ Control' /\ Screens' /\ CmdsOk'
    BY <2>1 DEF IInv, EchoHistory, Control, Screens, CmdsOk, InputOk
  <2>4. TypeOK'
    BY <2>1 DEF IInv, TypeOK
  <2>. QED
    BY <2>2, <2>3, <2>4 DEF IInv
<1>. QED
  BY <1>1, <1>2, <1>3, <1>4, <1>5, <1>6, <1>7, <1>8 DEF Next, Owner

\* The inductive invariant holds throughout.
LEMMA Inductive == Spec => []IInv
<1>1. Init => IInv
  BY InitIInv
<1>2. IInv /\ [Next]_vars => IInv'
  BY NextIInv
<1>. QED
  BY <1>1, <1>2, PTL DEF Spec

\* Type correctness of the owner and the shared Session.
THEOREM TypeCorrect == Spec => []TypeOK
<1>1. IInv => TypeOK
  BY DEF IInv
<1>. QED
  BY <1>1, Inductive, PTL

\* Accepted input reaches the PTY complete, once and in order.
THEOREM InputInOrder == Spec => []InOrder
<1>1. IInv => InOrder
  BY DEF IInv
<1>. QED
  BY <1>1, Inductive, PTL

\* A screen's echo_ack names only input completely written to the PTY.
THEOREM EchoAckIsSound == Spec => []EchoAckSound
<1>1. ASSUME IInv PROVE EchoAckSound
  <2>1. /\ latest.echoAck \in Nat /\ echoAck \in Nat /\ Len(history) \in Nat
        /\ latest.echoAck <= echoAck /\ echoAck + Len(history) = Len(wroteLog)
    BY <1>1 DEF IInv, TypeOK, ScreenType, EchoHistory
  <2>. QED
    BY <2>1 DEF EchoAckSound
<1>. QED
  BY <1>1, Inductive, PTL

\* The write queue stays within its budget, whatever replies the terminal
\* generates.
THEOREM BudgetHolds == Spec => []Budget
<1>1. IInv => Budget
  BY DEF IInv
<1>. QED
  BY <1>1, Inductive, PTL

\* The write arm never offers an empty buffer, and never takes off more
\* than is there.
THEOREM WriteBufHolds == Spec => []WriteBufNonEmpty
<1>1. ASSUME IInv PROVE WriteBufNonEmpty
  <2>1. PendingOk(pending) /\ pending.unread \in Nat
    BY <1>1 DEF IInv, TypeOK, PendingType
  <2>. QED
    BY <2>1, FrontOfPending DEF WriteBufNonEmpty
<1>. QED
  BY <1>1, Inductive, PTL

\* No client input, however long or frequent, ends a session for want of
\* room in the write queue.
THEOREM InputIsHarmless == Spec => []InputNeverKills
<1>1. IInv => InputNeverKills
  BY DEF IInv, Control, InputNeverKills
<1>. QED
  BY <1>1, Inductive, PTL

\* Whoever sees the exit status also sees the final screen.
THEOREM ExitAfterScreen == Spec => []ExitAfterFinalScreen
<1>1. ASSUME IInv PROVE ExitAfterFinalScreen
  BY <1>1 DEF IInv, Control, Screens, ExitAfterFinalScreen
<1>. QED
  BY <1>1, Inductive, PTL
-----------------------------------------------------------------------------
(* The owner implements SessionApi.                                        *)

\* A screen published while the loop runs is one the abstract owner may
\* publish.
LEMMA PublishIsNewer ==
    ASSUME IInv, NEW e \in Nat, NEW f \in Nat, NEW sz \in ValidSizes,
           publish(e, f, sz), e >= echoAck, e <= Len(wroteLog), f >= frame
    PROVE  Newer(latest') /\ latest'.size = sz
<1>1. /\ latest'.version = version + 1 /\ latest'.echoAck = e
      /\ latest'.frame = f /\ latest'.size = sz
  BY Published DEF IInv
<1>2. /\ latest.version \in Nat /\ latest.echoAck \in Nat /\ latest.frame \in Nat
      /\ version \in Nat /\ frame \in Nat /\ echoAck \in Nat
      /\ latest.version <= version /\ latest.frame <= frame /\ latest.echoAck <= echoAck
  BY DEF IInv, TypeOK, ScreenType, Screens, EchoHistory
<1>3. Len(wroteLog) \in Nat /\ accepted \in Nat /\ Len(wroteLog) <= accepted
  BY DEF IInv, TypeOK, InOrder
<1>. QED
  BY <1>1, <1>2, <1>3 DEF Newer

\* The checkpoint covers only written input.
LEMMA EchoBound ==
    ASSUME IInv
    PROVE  echoAck \in Nat /\ echoAck <= Len(wroteLog)
<1>1. /\ echoAck \in Nat /\ Len(history) \in Nat /\ echoAck + Len(history) = Len(wroteLog)
  BY DEF IInv, TypeOK, EchoHistory
<1>. QED
  BY <1>1

\* Each step of the owner or of a handler is a step of the abstract
\* specification, every other step leaves the shared fields alone.
LEMMA ApiStep ==
    ASSUME IInv, [Next]_vars
    PROVE  [ApiNext]_shared
<1>0. /\ echoAck \in Nat /\ echoAck <= Len(wroteLog) /\ frame \in Nat /\ size \in ValidSizes
      /\ held \in Nat /\ outQ \in Nat
  BY EchoBound DEF IInv, TypeOK
<1>1. CASE OwnerStart \/ Unregister
  <2>1. CASE UNCHANGED <<cmds, closed, registered>>
    BY <1>1, <2>1 DEF OwnerStart, Unregister, shared
  <2>2. CASE Drop
    <3>1. ~closed
      BY <1>1 DEF OwnerStart, Unregister, IInv, Control
    <3>2. UNCHANGED <<shutdown, accepted, lastAcked, latest, exit, size, accLog>>
      BY <1>1 DEF OwnerStart, Unregister
    <3>3. exit # NoExit \/ (latest = NoScreen /\ accepted = 0)
      BY <1>1 DEF OwnerStart, Unregister, IInv, Control
    <3>. QED
      BY <2>2, <3>1, <3>2, <3>3 DEF Drop, ApiClose, ApiNext
  <2>. QED
    BY <1>1, <2>1, <2>2 DEF OwnerStart, Unregister
<1>2. CASE OnHangup \/ OnChildExit \/ OnPtyError \/ reap_child
  BY <1>2 DEF OnHangup, OnChildExit, OnPtyError, reap_child
<1>3. CASE OnReadable \/ OnSyncDeadline
  <2>1. UNCHANGED notScreen /\ ownerPc = "select"
    BY <1>3 DEF OnReadable, ReadPty, OnSyncDeadline
  <2>2. latest' = latest \/ publish(echoAck, frame', size)
    BY <1>3 DEF OnReadable, ReadPty, OnSyncDeadline
  <2>3. CASE latest' = latest
    BY <2>1, <2>3 DEF notScreen, shared
  <2>4. CASE publish(echoAck, frame', size)
    <3>1. frame' \in Nat /\ frame' >= frame
      <4>1. CASE OnReadable
        <5>1. PICK kind \in {"plain", "begin", "end"} : Process(kind)
          BY <4>1 DEF OnReadable, ReadPty
        <5>2. frame' = frame \/ frame' = frame + held + 1
          BY <5>1 DEF Process
        <5>. QED
          BY <1>0, <5>2
      <4>2. CASE OnSyncDeadline
        <5>1. frame' = frame + held
          BY <4>2 DEF OnSyncDeadline, flush_sync
        <5>. QED
          BY <1>0, <5>1
      <4>. QED
        BY <1>3, <4>1, <4>2
    <3>2. Newer(latest') /\ latest'.size = size
      <4>1. echoAck >= echoAck
        BY <1>0
      <4>. QED
        BY <1>0, <2>4, <3>1, <4>1, PublishIsNewer
    <3>3. exit = NoExit
      BY <2>1 DEF IInv, Control
    <3>. QED
      BY <2>1, <3>2, <3>3 DEF notScreen, ApiPublish, ApiNext
  <2>. QED
    BY <2>2, <2>3, <2>4
<1>4. CASE OnWritable
  BY <1>4 DEF OnWritable
<1>5. CASE OnCommand
  <2> DEFINE m == Head(cmds)
  <2>1. /\ cmds # <<>> /\ cmds' = Tail(cmds) /\ AcceptMore /\ ownerPc = "select"
        /\ UNCHANGED <<closed, shutdown, exit, registered>>
    BY <1>5 DEF OnCommand
  <2>2. exit = NoExit
    BY <2>1 DEF IInv, Control
  <2>3. CASE m.op = "Input" /\ OnInput(m)
    <3>1. m.data \in Data /\ m.seq \in Nat /\ InputOk(m.data)
      BY <2>1, <2>3, HeadCommand
    <3>2. Fits(pending, DataLen[m.data])
      BY <2>1, <3>1, InputFits
    <3>3. \/ m.seq # accepted + 1 /\ UNCHANGED <<accepted, accLog>>
          \/ m.seq = accepted + 1 /\ accepted' = m.seq /\ accLog' = Append(accLog, m.data)
      BY <2>3, <3>2 DEF OnInput, InSequence
    <3>4. UNCHANGED <<size, latest, lastAcked>>
      BY <2>3 DEF OnInput, InSequence
    <3>. QED
      BY <2>1, <2>2, <2>3, <3>3, <3>4 DEF ApiTake, ApiNext
  <2>4. CASE m.op = "Resize" /\ OnResize(m)
    <3>1. m.size \in ValidSizes
      BY <2>1, <2>4, HeadCommand
    <3>2. /\ size' = m.size /\ publish(echoAck, frame, m.size)
          /\ UNCHANGED <<lastAcked, accepted, accLog>>
      BY <2>4 DEF OnResize
    <3>3. Newer(latest') /\ latest'.size = m.size
      <4>1. echoAck >= echoAck /\ frame >= frame
        BY <1>0
      <4>. QED
        BY <1>0, <3>1, <3>2, <4>1, PublishIsNewer
    <3>. QED
      BY <2>1, <2>2, <2>4, <3>2, <3>3 DEF ApiTake, ApiNext
  <2>5. CASE m.op = "Ack" /\ OnAck(m)
    BY <2>1, <2>2, <2>5 DEF OnAck, ApiTake, ApiNext
  <2>. QED
    BY <1>5, <2>3, <2>4, <2>5 DEF OnCommand
<1>6. CASE OnEchoTimer
  <2>1. /\ UNCHANGED notScreen /\ ownerPc = "select" /\ publish(echoAck', frame, size)
        /\ UNCHANGED <<accepted, wroteLog>>
    BY <1>6 DEF OnEchoTimer, notScreen
  <2>2. /\ echoAck' \in Nat /\ echoAck' >= echoAck /\ echoAck' <= Len(wroteLog)
    BY <1>6, EchoStep DEF IInv, TypeOK
  <2>3. Newer(latest') /\ latest'.size = size
    <3>1. frame >= frame
      BY <1>0
    <3>. QED
      BY <1>0, <2>1, <2>2, <3>1, PublishIsNewer
  <2>4. exit = NoExit
    BY <2>1 DEF IInv, Control
  <2>. QED
    BY <2>1, <2>3, <2>4 DEF notScreen, ApiPublish, ApiNext
<1>7. CASE drain_pty
  <2>1. UNCHANGED notScreen /\ ownerPc = "drain" /\ publish(echoAck, frame', size)
    BY <1>7 DEF drain_pty
  <2>2. frame' \in Nat /\ frame' >= frame
    <3>1. PICK n \in 0..outQ : \E h \in (IF n = 0 THEN {<<syncing, held>>} ELSE Holds(n)) :
             frame' = frame + held + n - h[2]
      BY <1>7 DEF drain_pty
    <3>2. PICK h \in (IF n = 0 THEN {<<syncing, held>>} ELSE Holds(n)) :
             frame' = frame + held + n - h[2]
      BY <3>1
    <3>3. n \in Nat
      BY <1>0
    <3>4. h[2] \in Nat /\ h[2] <= held + n
      BY <1>0, <3>2, <3>3, HoldsBound DEF IInv, TypeOK
    <3>. QED
      BY <1>0, <3>2, <3>3, <3>4
  <2>3. Newer(latest') /\ latest'.size = size
    <3>1. echoAck >= echoAck
      BY <1>0
    <3>. QED
      BY <1>0, <2>1, <2>2, <3>1, PublishIsNewer
  <2>4. exit = NoExit
    BY <2>1 DEF IInv, Control
  <2>. QED
    BY <2>1, <2>3, <2>4 DEF notScreen, ApiPublish, ApiNext
<1>8. CASE PublishExit
  <2>1. /\ ownerPc = "final" /\ exit' = childDone
        /\ UNCHANGED <<cmds, closed, shutdown, accepted, lastAcked, latest, size, registered, accLog>>
    BY <1>8 DEF PublishExit
  <2>2. exit = NoExit /\ ~closed /\ childDone \in Codes
    BY <2>1 DEF IInv, Control
  <2>. QED
    BY <2>1, <2>2 DEF ApiExit, ApiNext
<1>9. CASE Call
  BY <1>9 DEF Call, ApiNext
<1>10. CASE Elapse \/ ShellRead \/ ShellWrite \/ ShellExit \/ TtyClose
  BY <1>10 DEF Elapse, ShellRead, ShellWrite, ShellExit, TtyClose, notTty
<1>11. CASE UNCHANGED vars
  BY <1>11 DEF vars
<1>. QED
  BY <1>1, <1>2, <1>3, <1>4, <1>5, <1>6, <1>7, <1>8, <1>9, <1>10, <1>11 DEF Next, Owner

\* The session owner keeps every promise of the abstract specification that
\* the transport handlers are written against.
THEOREM OwnerImplementsApi == Spec => ImplementsApi
<1>1. Init => ApiInit
  BY DEF Init
<1>2. IInv /\ [Next]_vars => [ApiNext]_shared
  BY ApiStep
<1>. QED
  BY <1>1, <1>2, Inductive, PTL DEF Spec, ImplementsApi, ApiSpec

\* A newer screen never shows less, nor an older checkpoint.
THEOREM ScreensOnlyGrow == Spec => ScreensGrow
<1>1. ASSUME IInv, [Next]_vars
      PROVE  [latest' # latest => /\ latest'.version > latest.version
                                  /\ latest'.echoAck >= latest.echoAck
                                  /\ latest'.frame >= latest.frame]_vars
  <2>1. [ApiNext]_shared
    BY <1>1, ApiStep
  <2>2. latest' = latest \/ Newer(latest')
    BY <2>1 DEF ApiNext, Handler, try_input, try_resize, try_ack, request_hangup, ApiTake,
                ApiPublish, ApiExit, ApiClose, shared
  <2>. QED
    BY <2>2 DEF Newer
<1>. QED
  BY <1>1, Inductive, PTL DEF Spec, ScreensGrow

\* After the exit status, nothing a client relies on moves any more.
THEOREM ExitEndsAll == Spec => ExitIsLast
<1>1. ASSUME IInv, [Next]_vars
      PROVE  [exit # NoExit => UNCHANGED <<exit, latest, accepted, wroteLog>>]_vars
  <2> SUFFICES ASSUME exit # NoExit
               PROVE  UNCHANGED <<exit, latest, accepted, wroteLog>>
    OBVIOUS
  <2>1. ownerPc \in {"unreg", "gone"}
    BY <1>1 DEF IInv, Control
  <2>2. CASE Unregister
    BY <2>2 DEF Unregister
  <2>3. CASE Call
    BY <2>3 DEF Call, owner, Handler, try_input, try_resize, try_ack, request_hangup
  <2>4. CASE Elapse \/ ShellRead \/ ShellWrite \/ ShellExit \/ TtyClose
    BY <2>4 DEF Elapse, ShellRead, ShellWrite, ShellExit, TtyClose, notTty, shared, owner
  <2>5. CASE UNCHANGED vars
    BY <2>5 DEF vars, shared, owner
  <2>. QED
    BY <1>1, <2>1, <2>2, <2>3, <2>4, <2>5 DEF Next, Owner, OwnerStart, OnHangup, OnChildExit,
       OnPtyError, OnReadable, OnWritable, OnCommand, OnSyncDeadline, OnEchoTimer,
       reap_child, drain_pty, PublishExit
<1>. QED
  BY <1>1, Inductive, PTL DEF Spec, ExitIsLast
=============================================================================
