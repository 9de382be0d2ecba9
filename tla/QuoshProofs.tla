------------------------------ MODULE QuoshProofs ------------------------------
(***************************************************************************)
(* Theorems about Quosh, for every set of connections, every user and      *)
(* every size of its queues: what the user typed is accepted once and in   *)
(* order, and what the client shows is what the session takes it to show.  *)
(***************************************************************************)
EXTENDS Quosh, TransportProofs

-----------------------------------------------------------------------------
(* The client's queue: what was typed beyond the first k payloads.         *)

Typed(t) == {Input(i, t[i]) : i \in DOMAIN t}
Rest(t, k) == [i \in 1..(Len(t) - k) |-> Input(k + i, t[k + i])]
AtLeast(a, b) == IF a > b THEN a ELSE b

LEMMA RestIs ==
    ASSUME NEW t \in Seq(Data), NEW k \in 0..Len(t)
    PROVE  /\ Rest(t, k) \in Seq(Typed(t)) /\ Len(Rest(t, k)) = Len(t) - k
           /\ \A i \in 1..(Len(t) - k) : /\ Rest(t, k)[i] = Input(k + i, t[k + i])
                                         /\ Rest(t, k)[i].seq = k + i
                                         /\ Rest(t, k)[i].data = t[k + i]
<1>. DEFINE n == Len(t) - k
<1>1. n \in Nat /\ DOMAIN t = 1..Len(t)
  OBVIOUS
<1>2. \A i \in 1..n : k + i \in DOMAIN t
  BY <1>1
<1>3. \A i \in 1..n : Input(k + i, t[k + i]) \in Typed(t)
  BY <1>2, Zenon DEF Typed
<1>4. Rest(t, k) = [i \in 1..n |-> Input(k + i, t[k + i])]
  BY Zenon DEF Rest
<1>5. Rest(t, k) \in [1..n -> Typed(t)]
  BY <1>3, <1>4, Zenon
<1>6. Rest(t, k) \in Seq(Typed(t)) /\ Len(Rest(t, k)) = n
  <2>. HIDE DEF n
  <2>. QED
    BY <1>1, <1>5
<1>7. \A i \in 1..n : Rest(t, k)[i] = Input(k + i, t[k + i])
  BY <1>4, Zenon
<1>8. \A i \in 1..n : Input(k + i, t[k + i]).seq = k + i /\ Input(k + i, t[k + i]).data = t[k + i]
  BY DEF Input
<1>. QED
  BY <1>6, <1>7, <1>8, Zenon

\* Two queues with the same payloads are the same.
LEMMA RestEqual ==
    ASSUME NEW t \in Seq(Data), NEW k \in 0..Len(t), NEW U, NEW q \in Seq(U),
           Len(q) = Len(t) - k, \A i \in 1..Len(q) : q[i] = Input(k + i, t[k + i])
    PROVE  q = Rest(t, k)
<1>1. q = [i \in 1..Len(q) |-> q[i]]
  BY IsASeq
<1>2. Rest(t, k) = [i \in 1..Len(q) |-> Input(k + i, t[k + i])]
  BY Zenon DEF Rest
<1>. QED
  BY <1>1, <1>2, Zenon

LEMMA AboveRest ==
    ASSUME NEW t \in Seq(Data), NEW k \in 0..Len(t), NEW n \in 0..Len(t)
    PROVE  Above(Rest(t, k), n) = Rest(t, AtLeast(k, n))
<1>. DEFINE q == Rest(t, k)  P(j) == \A i \in DOMAIN q : q[i].seq > n <=> i > j
            j0 == AtLeast(k, n) - k  j1 == CHOOSE j \in 0..Len(q) : P(j)
<1>1. /\ q \in Seq(Typed(t)) /\ Len(q) = Len(t) - k
      /\ \A i \in 1..Len(q) : q[i] = Input(k + i, t[k + i]) /\ q[i].seq = k + i
  BY RestIs
<1>. HIDE DEF q
<1>2. DOMAIN q = 1..Len(q) /\ Len(q) \in Nat
  BY <1>1
<1>3. j0 \in 0..Len(q) /\ k + j0 = AtLeast(k, n)
  BY <1>1 DEF AtLeast
<1>4. \A i \in 1..Len(q) : k + i > n <=> i > j0
  BY <1>1, <1>2 DEF AtLeast
<1>5. P(j0)
  BY <1>1, <1>2, <1>4
<1>6. j1 \in 0..Len(q) /\ P(j1)
  BY <1>3, <1>5, Zenon
<1>. HIDE DEF j1
<1>7. j1 = j0
  <2>1. \A i \in 1..Len(q) : i > j1 <=> i > j0
    BY <1>2, <1>5, <1>6, Zenon
  <2>. HIDE DEF j0
  <2>2. CASE j1 < j0
    <3>1. j0 \in 1..Len(q) /\ j0 > j1 /\ ~(j0 > j0)
      BY <1>2, <1>3, <1>6, <2>2
    <3>. QED
      BY <2>1, <3>1, Zenon
  <2>3. CASE j0 < j1
    <3>1. j1 \in 1..Len(q) /\ j1 > j0 /\ ~(j1 > j1)
      BY <1>2, <1>3, <1>6, <2>3
    <3>. QED
      BY <2>1, <3>1, Zenon
  <2>. QED
    BY <1>2, <1>3, <1>6, <2>2, <2>3
<1>8. Above(q, n) = SubSeq(q, j0 + 1, Len(q))
  BY <1>7, Zenon DEF Above, j1
<1>. HIDE DEF j0
<1>. DEFINE m == Len(q)  s == SubSeq(q, j0 + 1, m)  U == Typed(t)
<1>9. /\ s \in Seq(U) /\ Len(s) = m - j0
      /\ \A i \in 1..(m - j0) : s[i] = q[j0 + i]
  BY <1>1, <1>2, <1>3
<1>10. \A i \in 1..Len(s) : s[i] = Input(AtLeast(k, n) + i, t[AtLeast(k, n) + i])
  <2>1. \A i \in 1..(m - j0) : j0 + i \in 1..Len(q) /\ k + (j0 + i) = AtLeast(k, n) + i
    BY <1>2, <1>3 DEF AtLeast
  <2>. QED
    BY <1>1, <1>9, <2>1
<1>11. AtLeast(k, n) \in 0..Len(t) /\ Len(s) = Len(t) - AtLeast(k, n)
  <2>1. AtLeast(k, n) \in 0..Len(t) /\ m = Len(t) - k /\ j0 = AtLeast(k, n) - k
    BY <1>1, <1>3 DEF AtLeast, j0
  <2>2. Len(s) = m - j0
    BY <1>9, Zenon
  <2>. HIDE DEF s, m
  <2>. QED
    BY <2>1, <2>2
<1>12. s = Rest(t, AtLeast(k, n))
  <2>. HIDE DEF s, U
  <2>. QED
    BY <1>9, <1>10, <1>11, RestEqual
<1>. QED
  BY <1>8, <1>12, Zenon DEF q

LEMMA AppendRest ==
    ASSUME NEW t \in Seq(Data), NEW d \in Data, NEW k \in 0..Len(t)
    PROVE  /\ Append(Rest(t, k), Input(Len(t) + 1, d)) = Rest(Append(t, d), k)
           /\ Append(t, d) \in Seq(Data) /\ Len(Append(t, d)) = Len(t) + 1
           /\ Typed(t) \subseteq Typed(Append(t, d))
<1>. DEFINE u == Append(t, d)  q == Rest(t, k)  m == Input(Len(t) + 1, d)  s == Append(q, m)
<1>1. /\ u \in Seq(Data) /\ Len(u) = Len(t) + 1 /\ DOMAIN u = 1..(Len(t) + 1)
      /\ DOMAIN t = 1..Len(t) /\ \A i \in 1..Len(t) : u[i] = t[i]
      /\ u[Len(t) + 1] = d
  OBVIOUS
<1>2. Typed(t) \subseteq Typed(u)
  <2>1. \A i \in DOMAIN t : i \in DOMAIN u /\ u[i] = t[i]
    BY <1>1
  <2>. HIDE DEF u
  <2>. QED
    BY <2>1, Zenon DEF Typed
<1>3. m \in Typed(u)
  <2>1. Len(t) + 1 \in DOMAIN u
    BY <1>1
  <2>. HIDE DEF u
  <2>. QED
    BY <1>1, <2>1, Zenon DEF Typed
<1>4. /\ q \in Seq(Typed(t)) /\ Len(q) = Len(t) - k
      /\ \A i \in 1..(Len(t) - k) : q[i] = Input(k + i, t[k + i])
  BY RestIs
<1>5. q \in Seq(Typed(u))
  BY <1>2, <1>4, SeqGrows, Zenon
<1>. HIDE DEF q, m, u
<1>6. /\ s \in Seq(Typed(u)) /\ Len(s) = Len(q) + 1
      /\ \A i \in 1..Len(q) : s[i] = q[i]
      /\ s[Len(q) + 1] = m
  <2>. DEFINE U == Typed(u)
  <2>. HIDE DEF U
  <2>1. q \in Seq(U) /\ m \in U
    BY <1>3, <1>5 DEF U
  <2>. QED
    BY <2>1, AppendProperties DEF U
<1>7. k \in 0..Len(u) /\ Len(s) = Len(u) - k
  BY <1>1, <1>4, <1>6
<1>8. \A i \in 1..Len(s) : s[i] = Input(k + i, u[k + i])
  <2>. SUFFICES ASSUME NEW i \in 1..Len(s) PROVE s[i] = Input(k + i, u[k + i])
    OBVIOUS
  <2>1. CASE i = Len(q) + 1
    <3>1. k + i = Len(t) + 1
      BY <1>4, <2>1
    <3>. QED
      BY <1>1, <1>6, <2>1, <3>1, Zenon DEF m
  <2>2. CASE i # Len(q) + 1
    <3>1. i \in 1..Len(q) /\ i \in 1..(Len(t) - k) /\ k + i \in 1..Len(t)
      BY <1>4, <1>6, <2>2
    <3>2. s[i] = q[i] /\ q[i] = Input(k + i, t[k + i]) /\ u[k + i] = t[k + i]
      BY <1>1, <1>4, <1>6, <3>1, Zenon
    <3>. QED
      BY <3>2, Zenon
  <2>. QED
    BY <2>1, <2>2
<1>9. s = Rest(u, k)
  <2>. HIDE DEF s
  <2>. QED
    BY <1>1, <1>6, <1>7, <1>8, RestEqual
<1>. QED
  BY <1>1, <1>2, <1>9, Zenon DEF q, m, u
-----------------------------------------------------------------------------
(* The client: what it may say, having typed t and seen screen version v,  *)
(* and having hung up or not (h).                                          *)

Says(t, v) == {Hello(s) : s \in AnySize} \cup {Resize(s) : s \in AnySize} \cup Typed(t)
              \cup {Ack(n) : n \in 0..v} \cup {Ping}
Bye(h) == {m \in {Hangup} : h}
Messages(t, v, h) == Says(t, v) \cup Bye(h)

Framed(S) == {Sized(m) : m \in S}
ClientFeed(t, v, h) == FeedOf(Framed(Says(t, v)), {}, Framed(Bye(h)))

ClientOf(t, v, h) ==
    [connected : BOOLEAN, helloOk : BOOLEAN, feed : ClientFeed(t, v, h), sentSeq : 0..Len(t),
     pendingAck : 0..v, unacked : Seq(Typed(t)), seq : Nat, confirmed : AnyScreen,
     pinging : BOOLEAN, size : AnySize, hungup : BOOLEAN, exitCode : Nat \cup {NoExit}]

\* What the loop's own steps leave alone.
SameCore(c, d) ==
    /\ d.unacked = c.unacked /\ d.seq = c.seq /\ d.confirmed = c.confirmed
    /\ d.size = c.size /\ d.hungup = c.hungup /\ d.exitCode = c.exitCode

LEMMA SameCoreTwice ==
    ASSUME NEW a, NEW b, NEW c, SameCore(a, b), SameCore(b, c)
    PROVE  SameCore(a, c)
  BY Zenon DEF SameCore

LEMMA TypedIs ==
    ASSUME NEW t, NEW m \in Typed(t)
    PROVE  /\ m.op = "Input" /\ m = Input(m.seq, m.data)
           /\ m.seq \in DOMAIN t /\ m.data = t[m.seq]
<1>1. PICK i \in DOMAIN t : m = Input(i, t[i])
  BY Zenon DEF Typed
<1>. DEFINE d == t[i]
<1>2. m = [op |-> "Input", seq |-> i, data |-> d]
  BY <1>1, Zenon DEF Input
<1>. HIDE DEF d
<1>3. m.op = "Input" /\ m.seq = i /\ m.data = d
  BY <1>2
<1>. QED
  BY <1>1, <1>3, Zenon DEF d

LEMMA FramesAre ==
    ASSUME NEW t, NEW v, NEW h
    PROVE  /\ \A x \in Framed(Says(t, v)) \cup {} \cup Framed(Bye(h)) : x.len \in Int
           /\ \A x \in Framed(Bye(h)) : x \notin Framed(Says(t, v)) \cup {}
<1>1. \A m : Sized(m).len = 1 /\ Sized(m).msg = m
  BY DEF Sized
<1>2. Hangup \notin Says(t, v)
  <2>1. /\ \A s : Hello(s).op = "Hello" /\ Resize(s).op = "Resize" /\ Ack(s).op = "Ack"
        /\ Ping.op = "Ping" /\ Hangup.op = "Hangup"
    BY DEF Hello, Resize, Ack, Ping, Hangup
  <2>2. \A m \in Typed(t) : m.op = "Input"
    BY TypedIs, Zenon
  <2>. QED
    BY <2>1, <2>2 DEF Says
<1>3. \A x \in Framed(Says(t, v)) : x.len = 1 /\ x.msg \in Says(t, v)
  BY <1>1, Zenon DEF Framed
<1>4. \A x \in Framed(Bye(h)) : x.len = 1 /\ x.msg = Hangup
  BY <1>1, Zenon DEF Framed, Bye
<1>. QED
  BY <1>2, <1>3, <1>4

LEMMA FramedHas ==
    ASSUME NEW S, NEW m \in S
    PROVE  Sized(m) \in Framed(S)
  BY Zenon DEF Framed

LEMMA PushMsgIs ==
    ASSUME NEW t, NEW v, NEW h, NEW c \in ClientOf(t, v, h), NEW m \in Says(t, v)
    PROVE  LET d == push_msg(c, m)
           IN  d \in ClientOf(t, v, h) /\ SameCore(c, d) /\ d.sentSeq = c.sentSeq
<1>. DEFINE F == ClientFeed(t, v, h)  f == push_ctrl(c.feed, Sized(m))  d == push_msg(c, m)
<1>1. c.feed \in F
  BY DEF ClientOf
<1>2. f \in F
  <2>1. Sized(m) \in Framed(Says(t, v))
    BY FramedHas, Zenon
  <2>. QED
    BY <1>1, <2>1, FramesAre, PushCtrlIs, Zenon DEF ClientFeed
<1>3. d = [c EXCEPT !.feed = f]
  BY Zenon DEF push_msg
<1>. HIDE DEF f, d
<1>4. [c EXCEPT !.feed = f] \in ClientOf(t, v, h)
  <2>. HIDE DEF F
  <2>. QED
    BY <1>2 DEF ClientOf, F
<1>5. SameCore(c, [c EXCEPT !.feed = f]) /\ [c EXCEPT !.feed = f].sentSeq = c.sentSeq
  BY DEF ClientOf, SameCore
<1>. QED
  BY <1>3, <1>4, <1>5, Zenon DEF d

LEMMA PumpMsgIs ==
    ASSUME NEW t \in Seq(Data), NEW v \in Nat, NEW h, NEW c \in ClientOf(t, v, h),
           NEW k \in 0..Len(t), c.unacked = Rest(t, k)
    PROVE  client_pump(c) \in ClientOf(t, v, h) /\ SameCore(c, client_pump(c))
<1>. DEFINE zero == 0  b == push_msg(c, Ack(c.pendingAck))
            a == IF c.pendingAck # 0 /\ MsgFits(c, Ack(c.pendingAck))
                 THEN [b EXCEPT !.pendingAck = 0] ELSE c
            u == Unsent(a)  m == Head(u)  e == push_msg(a, m)  n == m.seq
            g == [e EXCEPT !.sentSeq = n]
<1>1. b \in ClientOf(t, v, h) /\ SameCore(c, b) /\ b.sentSeq = c.sentSeq
  <2>1. c.pendingAck \in 0..v
    BY DEF ClientOf
  <2>2. Ack(c.pendingAck) \in Says(t, v)
    BY <2>1, Zenon DEF Says
  <2>. QED
    BY <2>2, PushMsgIs
<1>2. /\ [b EXCEPT !.pendingAck = 0] \in ClientOf(t, v, h)
      /\ SameCore(b, [b EXCEPT !.pendingAck = 0])
      /\ [b EXCEPT !.pendingAck = 0].sentSeq = b.sentSeq
  <2>. HIDE DEF b
  <2>. QED
    BY <1>1 DEF ClientOf, SameCore
<1>. HIDE DEF b
<1>3. a \in ClientOf(t, v, h) /\ SameCore(c, a) /\ a.sentSeq = c.sentSeq
  <2>1. CASE c.pendingAck # 0 /\ MsgFits(c, Ack(c.pendingAck))
    <3>1. a = [b EXCEPT !.pendingAck = 0]
      BY <2>1, Zenon
    <3>. HIDE DEF a
    <3>2. SameCore(c, a)
      BY <1>1, <1>2, <3>1, SameCoreTwice, Zenon
    <3>. QED
      BY <1>1, <1>2, <3>1, <3>2, Zenon
  <2>2. CASE ~(c.pendingAck # 0 /\ MsgFits(c, Ack(c.pendingAck)))
    <3>1. a = c
      BY <2>2, Zenon
    <3>. HIDE DEF a
    <3>. QED
      BY <3>1, Zenon DEF SameCore
  <2>. QED
    BY <2>1, <2>2, Zenon
<1>4. client_pump(c) = c \/ client_pump(c) = a \/ (client_pump(c) = g /\ u # <<>>)
  <2>. DEFINE p == ~c.connected \/ c.hungup  r == writing(a.feed) \/ u = <<>>
  <2>1. client_pump(c) = IF p THEN c ELSE IF r THEN a ELSE g
    BY Zenon DEF client_pump, b
  <2>2. ~r => u # <<>>
    BY Zenon
  <2>. HIDE DEF a, u, g, p, r
  <2>3. p => client_pump(c) = c
    BY <2>1, Zenon
  <2>4. ~p /\ r => client_pump(c) = a
    BY <2>1, Zenon
  <2>5. ~p /\ ~r => client_pump(c) = g
    BY <2>1, Zenon
  <2>6. client_pump(c) = c \/ client_pump(c) = a \/ (client_pump(c) = g /\ u # <<>>)
    BY <2>2, <2>3, <2>4, <2>5, Zenon
  <2>. QED
    BY <2>6, Zenon
<1>5. ASSUME u # <<>>
      PROVE  g \in ClientOf(t, v, h) /\ SameCore(c, g)
  <2>1. a.unacked = Rest(t, k) /\ a.sentSeq \in 0..Len(t)
    <3>. HIDE DEF a
    <3>1. a.unacked = Rest(t, k)
      BY <1>3, Zenon DEF SameCore
    <3>2. a.sentSeq \in 0..Len(t)
      BY <1>3 DEF ClientOf
    <3>. QED
      BY <3>1, <3>2
  <2>. HIDE DEF a
  <2>2. u = Rest(t, AtLeast(k, a.sentSeq))
    BY <2>1, AboveRest, Zenon DEF Unsent
  <2>3. AtLeast(k, a.sentSeq) \in 0..Len(t)
    BY <2>1 DEF AtLeast
  <2>4. u \in Seq(Typed(t))
    BY <2>2, <2>3, RestIs, Zenon
  <2>5. m \in Typed(t)
    <3>. HIDE DEF u
    <3>. QED
      BY <1>5, <2>4
  <2>. HIDE DEF m, u
  <2>6. m \in Says(t, v) /\ n \in 0..Len(t)
    <3>1. m \in Says(t, v)
      BY <2>5, Zenon DEF Says
    <3>2. n \in DOMAIN t
      BY <2>5, TypedIs, Zenon
    <3>. QED
      BY <3>1, <3>2
  <2>7. e \in ClientOf(t, v, h) /\ SameCore(a, e)
    BY <1>3, <2>6, PushMsgIs, Zenon
  <2>. HIDE DEF e, n
  <2>8. g \in ClientOf(t, v, h) /\ SameCore(e, g)
    BY <2>6, <2>7 DEF ClientOf, SameCore
  <2>. HIDE DEF g
  <2>. QED
    BY <1>3, <2>7, <2>8, SameCoreTwice, Zenon
<1>6. SameCore(c, c)
  BY Zenon DEF SameCore
<1>. HIDE DEF a, g, u
<1>. QED
  BY <1>3, <1>4, <1>5, <1>6, Zenon

\* A client with all t in its queue or accepted: n payloads at least are.
GoodClient(t, n, c) ==
    /\ c \in ClientOf(t, c.confirmed.version, c.hungup)
    /\ c.confirmed.version \in Nat /\ c.seq = Len(t)
    /\ \E k \in 0..Len(t) : k <= n /\ c.unacked = Rest(t, k)

LEMMA SaysGrows ==
    ASSUME NEW t, NEW u, Typed(t) \subseteq Typed(u), NEW v \in Nat, NEW w \in Nat, v <= w
    PROVE  Says(t, v) \subseteq Says(u, w)
<1>1. 0..v \subseteq 0..w
  OBVIOUS
<1>. QED
  BY <1>1, Zenon DEF Says

LEMMA ByeGrows ==
    ASSUME NEW h, NEW g, h => g
    PROVE  Bye(h) \subseteq Bye(g)
  BY Zenon DEF Bye

LEMMA FramedGrows ==
    ASSUME NEW S, NEW T, S \subseteq T
    PROVE  Framed(S) \subseteq Framed(T)
  BY Zenon DEF Framed

LEMMA MessagesGrow ==
    ASSUME NEW t, NEW u, Typed(t) \subseteq Typed(u), NEW v \in Nat, NEW w \in Nat, v <= w,
           NEW h, NEW g, h => g
    PROVE  Messages(t, v, h) \subseteq Messages(u, w, g)
  BY SaysGrows, ByeGrows, Zenon DEF Messages

LEMMA ClientGrows ==
    ASSUME NEW t \in Seq(Data), NEW u \in Seq(Data), Typed(t) \subseteq Typed(u), Len(t) <= Len(u),
           NEW v \in Nat, NEW w \in Nat, v <= w, NEW h, NEW g, h => g
    PROVE  ClientOf(t, v, h) \subseteq ClientOf(u, w, g)
<1>1. ClientFeed(t, v, h) \subseteq ClientFeed(u, w, g)
  <2>1. Framed(Says(t, v)) \subseteq Framed(Says(u, w)) /\ Framed(Bye(h)) \subseteq Framed(Bye(g))
    BY SaysGrows, ByeGrows, FramedGrows, Zenon
  <2>. QED
    BY <2>1, FeedGrows, Zenon DEF ClientFeed
<1>2. Seq(Typed(t)) \subseteq Seq(Typed(u)) /\ 0..Len(t) \subseteq 0..Len(u) /\ 0..v \subseteq 0..w
  BY SeqGrows
<1>. QED
  BY <1>1, <1>2 DEF ClientOf

\* Only the core of a client matters to the queue.
LEMMA GoodAgain ==
    ASSUME NEW t, NEW n, NEW c, NEW d, GoodClient(t, n, c), SameCore(c, d),
           d \in ClientOf(t, c.confirmed.version, c.hungup)
    PROVE  GoodClient(t, n, d)
  BY Zenon DEF GoodClient, SameCore

LEMMA TickIs ==
    ASSUME NEW t \in Seq(Data), NEW n, NEW c, GoodClient(t, n, c), NEW due
    PROVE  GoodClient(t, n, tick(c, due)) /\ SameCore(c, tick(c, due))
<1>. DEFINE v == c.confirmed.version  h == c.hungup  a == client_pump(c)
            b == push_msg(a, Ping)  d == [b EXCEPT !.pinging = TRUE]
<1>1. /\ c \in ClientOf(t, v, h) /\ v \in Nat
      /\ \E k \in 0..Len(t) : c.unacked = Rest(t, k)
  BY Zenon DEF GoodClient
<1>. HIDE DEF v, h
<1>2. a \in ClientOf(t, v, h) /\ SameCore(c, a)
  BY <1>1, PumpMsgIs, Zenon
<1>3. b \in ClientOf(t, v, h) /\ SameCore(a, b)
  <2>1. Ping \in Says(t, v)
    BY Zenon DEF Says
  <2>. HIDE DEF a
  <2>. QED
    BY <1>2, <2>1, PushMsgIs, Zenon
<1>4. d \in ClientOf(t, v, h) /\ SameCore(b, d)
  <2>. HIDE DEF b
  <2>. QED
    BY <1>3 DEF ClientOf, SameCore
<1>5. tick(c, due) = a \/ tick(c, due) = d
  <2>. DEFINE p == due /\ a.connected /\ ~a.hungup /\ MsgFits(a, Ping)
  <2>1. tick(c, due) = IF p THEN d ELSE a
    BY Zenon DEF tick
  <2>. HIDE DEF p, a, d
  <2>. QED
    BY <2>1, Zenon
<1>6. SameCore(c, d)
  <2>. HIDE DEF a, b, d
  <2>. QED
    BY <1>2, <1>3, <1>4, SameCoreTwice, Zenon
<1>. HIDE DEF a, d
<1>. QED
  BY <1>2, <1>4, <1>5, <1>6, GoodAgain, Zenon DEF v, h

LEMMA BeginIs ==
    ASSUME NEW t \in Seq(Data), NEW n, NEW c, GoodClient(t, n, c)
    PROVE  GoodClient(t, n, begin_connection(c)) /\ SameCore(c, begin_connection(c))
<1>. DEFINE v == c.confirmed.version  h == c.hungup  f == push_ctrl(EmptyFeed, Sized(Hello(c.size)))
            d == begin_connection(c)
<1>1. c \in ClientOf(t, v, h) /\ v \in Nat
  BY Zenon DEF GoodClient
<1>2. f \in ClientFeed(t, v, h)
  <2>1. c.size \in AnySize
    BY <1>1 DEF ClientOf
  <2>2. Sized(Hello(c.size)) \in Framed(Says(t, v))
    BY <2>1, FramedHas, Zenon DEF Says
  <2>3. EmptyFeed \in ClientFeed(t, v, h)
    BY EmptyIs, Zenon DEF ClientFeed
  <2>. QED
    BY <2>2, <2>3, FramesAre, PushCtrlIs, Zenon DEF ClientFeed
<1>3. d = [c EXCEPT !.connected = TRUE, !.helloOk = FALSE, !.feed = f, !.sentSeq = 0,
                    !.pendingAck = 0, !.pinging = FALSE]
  BY Zenon DEF begin_connection
<1>. HIDE DEF f, d, v, h
<1>. DEFINE e == [c EXCEPT !.connected = TRUE, !.helloOk = FALSE, !.feed = f, !.sentSeq = 0,
                           !.pendingAck = 0, !.pinging = FALSE]
<1>4. e \in ClientOf(t, v, h) /\ SameCore(c, e)
  <2>1. 0 \in 0..Len(t) /\ 0 \in 0..v
    BY <1>1
  <2>. QED
    BY <1>1, <1>2, <2>1 DEF ClientOf, SameCore
<1>. HIDE DEF e
<1>. QED
  BY <1>3, <1>4, GoodAgain, Zenon DEF d, e, v, h

\* The frame the stream takes next is one of the client's.
LEMMA ClientWriteIs ==
    ASSUME NEW t \in Seq(Data), NEW n, NEW c, GoodClient(t, n, c), writing(c.feed)
    PROVE  /\ GoodClient(t, n, [c EXCEPT !.feed = feed_advance(@, @.left)])
           /\ SameCore(c, [c EXCEPT !.feed = feed_advance(@, @.left)])
           /\ Head(c.feed.out).msg \in Messages(t, c.confirmed.version, c.hungup)
<1>. DEFINE v == c.confirmed.version  h == c.hungup  f == feed_advance(c.feed, c.feed.left)
            d == [c EXCEPT !.feed = f]
<1>1. c \in ClientOf(t, v, h)
  BY Zenon DEF GoodClient
<1>2. c.feed \in ClientFeed(t, v, h)
  BY <1>1 DEF ClientOf
<1>3. f \in ClientFeed(t, v, h)
  BY <1>2, FramesAre, AdvanceIs, Zenon DEF ClientFeed
<1>4. Head(c.feed.out).msg \in Messages(t, v, h)
  <2>. DEFINE C == Framed(Says(t, v))  X == Framed(Bye(h))  none == {}
  <2>1. c.feed.out \in Opt(C \cup none \cup X)
    <3>1. c.feed \in FeedOf(C, none, X)
      BY <1>2, Zenon DEF ClientFeed
    <3>. HIDE DEF C, X, none
    <3>. QED
      BY <3>1 DEF FeedOf
  <2>2. c.feed.out # <<>>
    BY Zenon DEF writing
  <2>. DEFINE q == c.feed.out
  <2>3. PICK x \in C \cup none \cup X : q = <<x>>
    <3>. HIDE DEF q, C, X, none
    <3>. QED
      BY <2>1, <2>2, OptIs DEF q
  <2>4. Head(q) = x
    <3>1. Head(<<x>>) = x
      OBVIOUS
    <3>. QED
      BY <2>3, <3>1, Zenon
  <2>5. \A m : Sized(m).msg = m
    BY DEF Sized
  <2>6. x.msg \in Says(t, v) \cup Bye(h)
    BY <2>3, <2>5, Zenon DEF Framed
  <2>. QED
    BY <2>4, <2>6, Zenon DEF Messages
<1>. HIDE DEF f, v, h
<1>5. d \in ClientOf(t, v, h) /\ SameCore(c, d)
  BY <1>1, <1>3 DEF ClientOf, SameCore
<1>. HIDE DEF d
<1>6. [c EXCEPT !.feed = feed_advance(@, @.left)] = d
  BY Zenon DEF d, f
<1>. QED
  BY <1>4, <1>5, <1>6, GoodAgain, Zenon DEF v, h

LEMMA ApplyScreenIs ==
    ASSUME NEW t \in Seq(Data), NEW n, NEW c, GoodClient(t, n, c), NEW s \in AnyScreen
    PROVE  LET d == apply_screen(c, s)
           IN  /\ GoodClient(t, n, d) /\ d.hungup = c.hungup /\ d.exitCode = c.exitCode
               /\ s.version > c.confirmed.version => d.confirmed = s
               /\ ~(s.version > c.confirmed.version) => d.confirmed = c.confirmed
<1>. DEFINE v == c.confirmed.version  w == s.version  h == c.hungup  d == apply_screen(c, s)
<1>1. c \in ClientOf(t, v, h) /\ v \in Nat
  BY Zenon DEF GoodClient
<1>2. w \in Nat
  BY DEF AnyScreen
<1>3. CASE ~(w > v)
  <2>1. d = c
    BY <1>3, Zenon DEF apply_screen
  <2>. QED
    BY <1>3, <2>1, Zenon
<1>4. CASE w > v
  <2>. DEFINE e == [c EXCEPT !.confirmed = s, !.pendingAck = w]
  <2>1. d = e
    BY <1>4, Zenon DEF apply_screen
  <2>. HIDE DEF d
  <2>2. c \in ClientOf(t, w, h)
    <3>1. v <= w /\ Len(t) <= Len(t)
      BY <1>1, <1>2, <1>4
    <3>2. ClientOf(t, v, h) \subseteq ClientOf(t, w, h)
      <4>. HIDE DEF v, w, h
      <4>. QED
        BY <1>1, <1>2, <3>1, ClientGrows
    <3>. QED
      BY <1>1, <3>2, Zenon
  <2>. HIDE DEF h, w
  <2>3. /\ e \in ClientOf(t, w, h) /\ e.confirmed = s /\ e.hungup = c.hungup
        /\ e.exitCode = c.exitCode /\ e.seq = c.seq /\ e.unacked = c.unacked
    <3>1. w \in 0..w
      BY <1>2
    <3>. DEFINE V == 0..w
    <3>2. w \in V
      BY <3>1
    <3>. HIDE DEF V, v
    <3>3. c \in [connected : BOOLEAN, helloOk : BOOLEAN, feed : ClientFeed(t, w, h),
                 sentSeq : 0..Len(t), pendingAck : V, unacked : Seq(Typed(t)), seq : Nat,
                 confirmed : AnyScreen, pinging : BOOLEAN, size : AnySize, hungup : BOOLEAN,
                 exitCode : Nat \cup {NoExit}]
      BY <2>2, Zenon DEF ClientOf, V
    <3>4. e \in [connected : BOOLEAN, helloOk : BOOLEAN, feed : ClientFeed(t, w, h),
                 sentSeq : 0..Len(t), pendingAck : V, unacked : Seq(Typed(t)), seq : Nat,
                 confirmed : AnyScreen, pinging : BOOLEAN, size : AnySize, hungup : BOOLEAN,
                 exitCode : Nat \cup {NoExit}]
      BY <3>2, <3>3
    <3>5. /\ e.confirmed = s /\ e.hungup = c.hungup
          /\ e.exitCode = c.exitCode /\ e.seq = c.seq /\ e.unacked = c.unacked
      BY <3>3
    <3>. QED
      BY <3>4, <3>5, Zenon DEF ClientOf, V
  <2>. HIDE DEF e, v
  <2>4. GoodClient(t, n, e)
    <3>1. e.confirmed.version = w
      BY <2>3, Zenon DEF w
    <3>. QED
      BY <1>2, <2>3, <3>1, Zenon DEF GoodClient, h
  <2>. QED
    BY <1>4, <2>1, <2>3, <2>4, Zenon DEF d, w, v
<1>. QED
  BY <1>3, <1>4, Zenon

LEMMA AckedIs ==
    ASSUME NEW t \in Seq(Data), NEW n \in Nat, NEW c, GoodClient(t, n, c), n <= Len(t),
           NEW s \in 0..n
    PROVE  LET d == Acked(c, s)
           IN  /\ GoodClient(t, n, d) /\ d.hungup = c.hungup /\ d.exitCode = c.exitCode
               /\ d.confirmed = c.confirmed
<1>. DEFINE v == c.confirmed.version  h == c.hungup  d == Acked(c, s)  u == Above(c.unacked, s)
<1>1. c \in ClientOf(t, v, h)
  BY Zenon DEF GoodClient
<1>2. PICK k \in 0..Len(t) : k <= n /\ c.unacked = Rest(t, k)
  BY Zenon DEF GoodClient
<1>3. u = Rest(t, AtLeast(k, s))
  <2>1. s \in 0..Len(t)
    OBVIOUS
  <2>. QED
    BY <1>2, <2>1, AboveRest, Zenon
<1>4. AtLeast(k, s) \in 0..Len(t) /\ AtLeast(k, s) <= n
  BY <1>2 DEF AtLeast
<1>5. u \in Seq(Typed(t))
  BY <1>3, <1>4, RestIs, Zenon
<1>6. d = [c EXCEPT !.unacked = u]
  BY Zenon DEF Acked
<1>. HIDE DEF u, d, v, h
<1>. DEFINE e == [c EXCEPT !.unacked = u]
<1>7. /\ e \in ClientOf(t, v, h) /\ e.unacked = u /\ e.seq = c.seq /\ e.confirmed = c.confirmed
      /\ e.hungup = c.hungup /\ e.exitCode = c.exitCode
  BY <1>1, <1>5 DEF ClientOf
<1>. HIDE DEF e
<1>8. GoodClient(t, n, e)
  BY <1>3, <1>4, <1>7, Zenon DEF GoodClient, v, h
<1>. QED
  BY <1>6, <1>7, <1>8, Zenon DEF d, e

\* Typing and quitting, resizing and losing the connection.
LEMMA QueueInputIs ==
    ASSUME NEW t \in Seq(Data), NEW n, NEW c, GoodClient(t, n, c), NEW d \in Data
    PROVE  LET e == queue_input(c, d)
           IN  /\ GoodClient(Append(t, d), n, e) /\ e.hungup = c.hungup
               /\ e.exitCode = c.exitCode /\ e.confirmed = c.confirmed
<1>. DEFINE v == c.confirmed.version  h == c.hungup  r == Append(t, d)  m == Input(c.seq + 1, d)
            u == Append(c.unacked, m)  s == c.seq + 1  e == queue_input(c, d)
<1>1. c \in ClientOf(t, v, h) /\ v \in Nat /\ c.seq = Len(t)
  BY Zenon DEF GoodClient
<1>2. PICK k \in 0..Len(t) : k <= n /\ c.unacked = Rest(t, k)
  BY Zenon DEF GoodClient
<1>3. /\ u = Rest(r, k) /\ r \in Seq(Data) /\ Len(r) = Len(t) + 1
      /\ Typed(t) \subseteq Typed(r)
  BY <1>1, <1>2, AppendRest
<1>4. k \in 0..Len(r) /\ s \in Nat /\ s = Len(r)
  <2>. HIDE DEF r, u
  <2>. QED
    BY <1>1, <1>2, <1>3
<1>5. u \in Seq(Typed(r))
  <2>. HIDE DEF r, u
  <2>. QED
    BY <1>3, <1>4, RestIs, Zenon
<1>6. c \in ClientOf(r, v, h)
  <2>1. Len(t) <= Len(r) /\ v <= v
    <3>. HIDE DEF r, v
    <3>. QED
      BY <1>1, <1>3
  <2>2. ClientOf(t, v, h) \subseteq ClientOf(r, v, h)
    <3>. HIDE DEF r, v, h
    <3>. QED
      BY <1>1, <1>3, <2>1, ClientGrows
  <2>. QED
    BY <1>1, <2>2, Zenon
<1>7. e = [c EXCEPT !.seq = s, !.unacked = u]
  BY Zenon DEF queue_input
<1>. HIDE DEF e, s, u, r, v, h
<1>. DEFINE f == [c EXCEPT !.seq = s, !.unacked = u]
<1>8. /\ f \in ClientOf(r, v, h) /\ f.unacked = u /\ f.seq = s /\ f.confirmed = c.confirmed
      /\ f.hungup = c.hungup /\ f.exitCode = c.exitCode
  BY <1>4, <1>5, <1>6 DEF ClientOf
<1>. HIDE DEF f
<1>9. GoodClient(r, n, f)
  BY <1>1, <1>2, <1>3, <1>4, <1>8, Zenon DEF GoodClient, v, h
<1>. QED
  BY <1>7, <1>8, <1>9, Zenon DEF e, f, r

LEMMA HangupIs ==
    ASSUME NEW t \in Seq(Data), NEW n, NEW c, GoodClient(t, n, c)
    PROVE  LET d == client_hangup(c)
           IN  /\ GoodClient(t, n, d) /\ d.hungup = TRUE
               /\ d.exitCode = c.exitCode /\ d.confirmed = c.confirmed
<1>. DEFINE v == c.confirmed.version  h == c.hungup  b == TRUE
            f == push_fin(c.feed, Sized(Hangup))  d == client_hangup(c)
<1>1. c \in ClientOf(t, v, h) /\ v \in Nat
  BY Zenon DEF GoodClient
<1>2. c \in ClientOf(t, v, b)
  <2>1. v <= v /\ Len(t) <= Len(t)
    BY <1>1
  <2>2. ClientOf(t, v, h) \subseteq ClientOf(t, v, b)
    <3>. HIDE DEF v, h
    <3>. QED
      BY <1>1, <2>1, ClientGrows
  <2>. QED
    BY <1>1, <2>2, Zenon
<1>3. f \in ClientFeed(t, v, b)
  <2>1. c.feed \in ClientFeed(t, v, b)
    <3>. HIDE DEF v, b
    <3>. QED
      BY <1>2 DEF ClientOf
  <2>2. Sized(Hangup) \in Framed(Bye(b))
    BY FramedHas, Zenon DEF Bye
  <2>3. push_fin(c.feed, Sized(Hangup)) \in FeedOf(Framed(Says(t, v)), {}, Framed(Bye(b)))
    <3>. HIDE DEF v, b
    <3>. QED
      BY <2>1, <2>2, FramesAre, PushFinIs DEF ClientFeed
  <2>. QED
    BY <2>3, Zenon DEF ClientFeed
<1>4. d = [c EXCEPT !.feed = f, !.hungup = TRUE]
  BY Zenon DEF client_hangup
<1>. HIDE DEF f, d, v, h
<1>. DEFINE e == [c EXCEPT !.feed = f, !.hungup = TRUE]
<1>5. /\ e \in ClientOf(t, v, b) /\ e.unacked = c.unacked /\ e.seq = c.seq
      /\ e.confirmed = c.confirmed /\ e.exitCode = c.exitCode /\ e.hungup = TRUE
  <2>. HIDE DEF b
  <2>. QED
    BY <1>2, <1>3 DEF ClientOf
<1>. HIDE DEF e
<1>6. GoodClient(t, n, e)
  BY <1>5, Zenon DEF GoodClient, v, b
<1>. QED
  BY <1>4, <1>5, <1>6, Zenon DEF d, e

LEMMA ResizedIs ==
    ASSUME NEW t \in Seq(Data), NEW n, NEW c, GoodClient(t, n, c), NEW s \in AnySize
    PROVE  LET d == [c EXCEPT !.size = s]
           IN  /\ GoodClient(t, n, d) /\ d.hungup = c.hungup
               /\ d.exitCode = c.exitCode /\ d.confirmed = c.confirmed
<1>. DEFINE v == c.confirmed.version  h == c.hungup  d == [c EXCEPT !.size = s]
<1>1. c \in ClientOf(t, v, h)
  BY Zenon DEF GoodClient
<1>. HIDE DEF v, h
<1>2. /\ d \in ClientOf(t, v, h) /\ d.unacked = c.unacked /\ d.seq = c.seq
      /\ d.confirmed = c.confirmed /\ d.exitCode = c.exitCode /\ d.hungup = c.hungup
  BY <1>1 DEF ClientOf
<1>. HIDE DEF d
<1>3. GoodClient(t, n, d)
  BY <1>2, Zenon DEF GoodClient, v, h
<1>. QED
  BY <1>2, <1>3, Zenon DEF d

LEMMA SetSizeIs ==
    ASSUME NEW t \in Seq(Data), NEW n, NEW c, GoodClient(t, n, c), NEW s \in AnySize
    PROVE  LET d == set_size(c, s)
           IN  /\ GoodClient(t, n, d) /\ d.hungup = c.hungup
               /\ d.exitCode = c.exitCode /\ d.confirmed = c.confirmed
<1>. DEFINE a == [c EXCEPT !.size = s]  b == push_msg(a, Resize(s))
            v == a.confirmed.version  h == a.hungup
<1>1. /\ GoodClient(t, n, a) /\ a.hungup = c.hungup
      /\ a.exitCode = c.exitCode /\ a.confirmed = c.confirmed
  BY ResizedIs
<1>2. set_size(c, s) = a \/ set_size(c, s) = b
  <2>. DEFINE p == c.connected /\ ~c.hungup
  <2>1. set_size(c, s) = IF p THEN b ELSE a
    BY Zenon DEF set_size
  <2>. HIDE DEF p, a, b
  <2>. QED
    BY <2>1, Zenon
<1>. HIDE DEF a
<1>3. b \in ClientOf(t, v, h) /\ SameCore(a, b)
  <2>1. a \in ClientOf(t, v, h)
    BY <1>1, Zenon DEF GoodClient
  <2>2. Resize(s) \in Says(t, v)
    BY Zenon DEF Says
  <2>. HIDE DEF v, h
  <2>. QED
    BY <2>1, <2>2, PushMsgIs
<1>. HIDE DEF b
<1>4. GoodClient(t, n, b)
  BY <1>1, <1>3, GoodAgain, Zenon
<1>. QED
  BY <1>1, <1>2, <1>3, <1>4, Zenon DEF SameCore

LEMMA DisconnectedIs ==
    ASSUME NEW t \in Seq(Data), NEW n, NEW c, GoodClient(t, n, c)
    PROVE  GoodClient(t, n, Disconnected(c)) /\ SameCore(c, Disconnected(c))
<1>. DEFINE v == c.confirmed.version  h == c.hungup  e == EmptyFeed  d == [c EXCEPT !.feed = e]
<1>1. c \in ClientOf(t, v, h)
  BY Zenon DEF GoodClient
<1>2. e \in ClientFeed(t, v, h)
  BY EmptyIs, Zenon DEF ClientFeed
<1>. HIDE DEF v, h, e
<1>3. d \in ClientOf(t, v, h) /\ SameCore(c, d)
  BY <1>1, <1>2 DEF ClientOf, SameCore
<1>. HIDE DEF d
<1>4. Disconnected(c) = d
  BY Zenon DEF Disconnected, d, e
<1>. QED
  BY <1>3, <1>4, GoodAgain, Zenon DEF v, h
-----------------------------------------------------------------------------
(* What a frame of the session does to the client.                         *)

\* What frame f of such a session does to client c.
Handled(c, d, f, l, x) ==
    /\ c.hungup => d.hungup
    /\ \/ d.confirmed = c.confirmed
       \/ /\ d.confirmed \in Past(l) /\ f = Screen(d.confirmed)
          /\ d.confirmed.version > c.confirmed.version
    /\ d.exitCode = c.exitCode \/ (f = Exit(x) /\ x # NoExit /\ d.exitCode = x)
    /\ \A s \in Past(l) : f = Screen(s) => d.confirmed.version >= s.version

LEMMA HandleFrameIs ==
    ASSUME NEW t \in Seq(Data), NEW n \in Nat, n <= Len(t), NEW l, NEW x \in Nat \cup {NoExit},
           NEW c, GoodClient(t, n, c), NEW f \in Frames(n, l, x), f.kind # "Error"
    PROVE  GoodClient(t, n, handle_frame(c, f)) /\ Handled(c, handle_frame(c, f), f, l, x)
<1>. DEFINE d == handle_frame(c, f)  v == c.confirmed.version  h == c.hungup
<1>1. c \in ClientOf(t, v, h) /\ v \in Nat
  BY Zenon DEF GoodClient
<1>2. CASE f = HelloOk
  <2>. DEFINE e == [c EXCEPT !.helloOk = TRUE]
  <2>1. d = e
    BY <1>2, FrameKinds DEF handle_frame
  <2>. HIDE DEF d, v, h
  <2>2. e \in ClientOf(t, v, h) /\ SameCore(c, e)
    BY <1>1 DEF ClientOf, SameCore
  <2>. HIDE DEF e
  <2>3. GoodClient(t, n, e)
    BY <2>2, GoodAgain, Zenon DEF v, h
  <2>4. \A s : f # Screen(s)
    BY <1>2 DEF HelloOk, Screen
  <2>. QED
    BY <2>1, <2>2, <2>3, <2>4, Zenon DEF d, SameCore, Handled
<1>3. CASE f = Pong
  <2>. DEFINE e == [c EXCEPT !.pinging = FALSE]
  <2>1. d = e
    BY <1>3, FrameKinds DEF handle_frame
  <2>. HIDE DEF d, v, h
  <2>2. e \in ClientOf(t, v, h) /\ SameCore(c, e)
    BY <1>1 DEF ClientOf, SameCore
  <2>. HIDE DEF e
  <2>3. GoodClient(t, n, e)
    BY <2>2, GoodAgain, Zenon DEF v, h
  <2>4. \A s : f # Screen(s)
    BY <1>3 DEF Pong, Screen
  <2>. QED
    BY <2>1, <2>2, <2>3, <2>4, Zenon DEF d, SameCore, Handled
<1>4. CASE \E i \in 0..n : f = InputAck(i)
  <2>1. PICK i \in 0..n : f = InputAck(i)
    BY <1>4
  <2>2. d = Acked(c, i)
    BY <2>1, FrameKinds DEF handle_frame
  <2>. HIDE DEF d
  <2>. DEFINE e == Acked(c, i)
  <2>3. /\ GoodClient(t, n, e) /\ e.hungup = c.hungup /\ e.exitCode = c.exitCode
        /\ e.confirmed = c.confirmed
    BY AckedIs
  <2>4. \A s : f # Screen(s)
    BY <2>1 DEF InputAck, Screen
  <2>. HIDE DEF e
  <2>. QED
    BY <2>2, <2>3, <2>4, Zenon DEF d, e, Handled
<1>5. CASE \E s \in Past(l) : f = Screen(s)
  <2>1. PICK s \in Past(l) : f = Screen(s)
    BY <1>5
  <2>. DEFINE e == apply_screen(c, s)
  <2>2. d = e
    BY <2>1, FrameKinds DEF handle_frame
  <2>. HIDE DEF d
  <2>3. s \in AnyScreen
    BY Zenon DEF Past
  <2>4. s.version \in Nat
    BY <2>3 DEF AnyScreen
  <2>5. /\ GoodClient(t, n, e) /\ e.hungup = c.hungup /\ e.exitCode = c.exitCode
        /\ s.version > v => e.confirmed = s
        /\ ~(s.version > v) => e.confirmed = c.confirmed
    BY <2>3, ApplyScreenIs
  <2>. HIDE DEF e
  <2>6. \A r : f = Screen(r) => r = s
    BY <2>1 DEF Screen
  <2>7. e.confirmed.version >= s.version
    <3>1. CASE s.version > v
      BY <2>4, <2>5, <3>1
    <3>2. CASE ~(s.version > v)
      BY <1>1, <2>4, <2>5, <3>2
    <3>. QED
      BY <3>1, <3>2, Zenon
  <2>8. \/ e.confirmed = c.confirmed
        \/ /\ e.confirmed \in Past(l) /\ f = Screen(e.confirmed)
           /\ e.confirmed.version > c.confirmed.version
    BY <2>1, <2>5, Zenon
  <2>. QED
    BY <2>2, <2>5, <2>6, <2>7, <2>8, Zenon DEF d, Handled
<1>6. CASE f \in ExitFrames(x)
  <2>1. f = Exit(x) /\ x # NoExit
    BY <1>6, FramesDiffer, Zenon
  <2>2. x \in Nat \cup {NoExit}
    OBVIOUS
  <2>. DEFINE b == TRUE  e == [c EXCEPT !.exitCode = x, !.hungup = TRUE]
  <2>3. d = e
    BY <2>1, FrameKinds DEF handle_frame
  <2>4. c \in ClientOf(t, v, b)
    <3>1. v <= v /\ Len(t) <= Len(t)
      BY <1>1
    <3>2. ClientOf(t, v, h) \subseteq ClientOf(t, v, b)
      <4>. HIDE DEF v, h
      <4>. QED
        BY <1>1, <3>1, ClientGrows
    <3>. QED
      BY <1>1, <3>2, Zenon
  <2>. HIDE DEF d, v, h
  <2>5. /\ e \in ClientOf(t, v, b) /\ e.unacked = c.unacked /\ e.seq = c.seq
        /\ e.confirmed = c.confirmed /\ e.exitCode = x /\ e.hungup = TRUE
    <3>. HIDE DEF b
    <3>. QED
      BY <2>2, <2>4 DEF ClientOf
  <2>. HIDE DEF e
  <2>6. GoodClient(t, n, e)
    BY <2>5, Zenon DEF GoodClient, v, b
  <2>7. \A s : f # Screen(s)
    BY <2>1 DEF Exit, Screen
  <2>. QED
    BY <2>1, <2>3, <2>5, <2>6, <2>7, Zenon DEF d, Handled
<1>7. \/ f = HelloOk \/ f = Pong \/ (\E i \in 0..n : f = InputAck(i))
      \/ (\E s \in Past(l) : f = Screen(s)) \/ f \in ExitFrames(x)
  BY FrameKinds, Zenon DEF Frames, CtrlFrames, ScreenFrames
<1>. HIDE DEF d
<1>. QED
  BY <1>2, <1>3, <1>4, <1>5, <1>6, <1>7, Zenon DEF d

-----------------------------------------------------------------------------
(* The invariant: who holds or is sent what, anywhere in the system.       *)

Said == Messages(typed, client.confirmed.version, client.hungup)
Feeds == FeedOf(CtrlFrames(accepted), ScreenFrames(latest), ExitFrames(exit))
Records == ConnOf(Said, 0..accepted, Feeds)

\* What was accepted is what was typed, and nobody asks for anything else.
SessionInv ==
    /\ typed \in Seq(Data) /\ accLog \in Seq(Data) /\ accepted = Len(accLog)
    /\ accepted <= Len(typed) /\ \A i \in DOMAIN accLog : accLog[i] = typed[i]
    /\ latest \in AnyScreen /\ exit \in Nat \cup {NoExit} /\ size \in AnySize
    /\ epoch \in Nat /\ epochWatch \in Nat
    /\ cmds \in Seq(Said)

\* The client has the rest, and shows a screen that was published.
ClientInv ==
    /\ GoodClient(typed, accepted, client)
    /\ client.confirmed \in Past(latest)
    /\ lastAcked \in 0..client.confirmed.version
    /\ client.exitCode \in {NoExit, exit}
    /\ shutdown => client.hungup

HandlersInv ==
    /\ conn \in [Conns -> Records]
    /\ \A h \in Conns : Ready(conn[h])

WiresInv ==
    /\ up \in [Conns -> Seq(Said)]
    /\ down \in [Conns -> Seq(Frames(accepted, latest, exit))]
    /\ air \in [Conns -> SUBSET Past(latest)]

RouteInv ==
    /\ bound \in Bounds
    /\ fresh \subseteq Conns /\ lost \in [Conns -> BOOLEAN]
    /\ link \in {"up", "flushing"} => route \in Conns \ fresh

HeldInv == SessionInv /\ ClientInv /\ HandlersInv /\ WiresInv /\ RouteInv

LEMMA SaidIsFaithful ==
    Faithful(Said)
<1>. DEFINE v == client.confirmed.version  h == client.hungup
<1>1. \A s : /\ Hello(s).op = "Hello" /\ Resize(s).op = "Resize" /\ Ack(s).op = "Ack"
             /\ Ping.op = "Ping" /\ Hangup.op = "Hangup" /\ Ack(s) = Ack(Ack(s).version)
  BY DEF Hello, Resize, Ack, Ping, Hangup
<1>2. \A m \in Typed(typed) : m.op = "Input" /\ m = Input(m.seq, m.data)
  BY TypedIs, Zenon
<1>. HIDE DEF v, h
<1>3. \A m \in Says(typed, v) : /\ m.op = "Input" => m = Input(m.seq, m.data)
                                /\ m.op = "Ack" => m = Ack(m.version)
                                /\ m.op = "Hangup" => m = Hangup
  BY <1>1, <1>2 DEF Says
<1>4. \A m \in Bye(h) : m = Hangup
  BY Zenon DEF Bye
<1>5. \A s \in AnySize : Resize(s) \in Says(typed, v)
  BY Zenon DEF Says
<1>6. \A m \in Bye(h) : /\ m.op = "Input" => m = Input(m.seq, m.data)
                        /\ m.op = "Ack" => m = Ack(m.version)
                        /\ m.op = "Hangup" => m = Hangup
  BY <1>1, <1>4
<1>7. Said = Says(typed, v) \cup Bye(h)
  BY Zenon DEF Said, Messages, v, h
<1>. QED
  BY <1>3, <1>5, <1>6, <1>7, Zenon DEF Faithful

\* A message by its kind.
LEMMA SaidIs ==
    ASSUME NEW m \in Said
    PROVE  /\ m.op = "Input" => m \in Typed(typed)
           /\ m.op = "Resize" => m.size \in AnySize
           /\ m.op = "Hello" => m.size \in AnySize
           /\ m.op = "Ack" => m.version \in 0..client.confirmed.version
           /\ m.op = "Hangup" => client.hungup
<1>. DEFINE v == client.confirmed.version  h == client.hungup
<1>1. /\ \A s : /\ Hello(s).op = "Hello" /\ Resize(s).op = "Resize" /\ Ack(s).op = "Ack"
                /\ Ack(s).version = s /\ Resize(s).size = s /\ Hello(s).size = s
      /\ Ping.op = "Ping" /\ Hangup.op = "Hangup"
  BY DEF Hello, Resize, Ack, Ping, Hangup
<1>2. \A i \in Typed(typed) : i.op = "Input"
  BY TypedIs, Zenon
<1>3. \/ \E s \in AnySize : m = Hello(s) \/ m = Resize(s)
      \/ m \in Typed(typed) \/ (\E n \in 0..v : m = Ack(n)) \/ m = Ping
      \/ m = Hangup /\ h
  BY Zenon DEF Said, Messages, Says, Bye
<1>. HIDE DEF v, h
<1>4. CASE m \in Typed(typed)
  BY <1>2, <1>4
<1>5. CASE m = Ping
  BY <1>1, <1>5
<1>6. CASE m = Hangup /\ h
  <2>1. m.op = "Hangup"
    BY <1>1, <1>6
  <2>2. h
    BY <1>6
  <2>. QED
    BY <2>1, <2>2 DEF h
<1>7. CASE \E n \in 0..v : m = Ack(n)
  BY <1>1, <1>7 DEF v
<1>8. CASE \E s \in AnySize : m = Hello(s) \/ m = Resize(s)
  BY <1>1, <1>8
<1>. QED
  BY <1>3, <1>4, <1>5, <1>6, <1>7, <1>8, Zenon

LEMMA HandlingHere ==
    ASSUME HeldInv
    PROVE  Handling(Said, 0..accepted, CtrlFrames(accepted), ScreenFrames(latest), ExitFrames(exit))
<1>1. /\ conn \in [Conns -> Records] /\ \A h \in Conns : Ready(conn[h])
      /\ epoch \in Nat /\ epochWatch \in Nat /\ latest \in AnyScreen /\ exit \in Nat \cup {NoExit}
  BY Zenon DEF HeldInv, SessionInv, HandlersInv
<1>2. accepted \in Nat /\ accepted \in 0..accepted /\ 0 \in 0..accepted
  <2>1. accepted \in Nat
    BY DEF HeldInv, SessionInv
  <2>. QED
    BY <2>1
<1>3. latest.version \in Nat
  BY <1>1 DEF AnyScreen
<1>4. /\ HelloOk \in CtrlFrames(accepted) /\ Pong \in CtrlFrames(accepted)
      /\ \A a \in 0..accepted : InputAck(a) \in CtrlFrames(accepted)
  BY Zenon DEF CtrlFrames
<1>5. Screen(latest) \in ScreenFrames(latest)
  <2>1. latest \in Past(latest)
    BY <1>1, Zenon DEF Past
  <2>. QED
    BY <2>1, Zenon DEF ScreenFrames
<1>6. exit # NoExit => Exit(exit) \in ExitFrames(exit)
  BY DEF ExitFrames
<1>7. \A m \in Said : m.op = "Resize" => m.size \in AnySize
  BY SaidIs, Zenon
<1>. QED
  BY <1>1, <1>2, <1>3, <1>4, <1>5, <1>6, <1>7, FramesDiffer, Zenon DEF Handling, Records, Feeds
-----------------------------------------------------------------------------
(* What may be held and sent only grows.                                   *)

Grows ==
    /\ Typed(typed) \subseteq Typed(typed')
    /\ client'.confirmed.version \in Nat
    /\ client.confirmed.version <= client'.confirmed.version
    /\ client.hungup => client'.hungup
    /\ accepted' \in Nat /\ accepted <= accepted'
    /\ latest' \in AnyScreen /\ (latest' = latest \/ latest'.version > latest.version)
    /\ exit' = exit \/ exit = NoExit

LEMMA HeldGrows ==
    ASSUME HeldInv, Grows
    PROVE  /\ Said \subseteq Said' /\ Records \subseteq Records'
           /\ Frames(accepted, latest, exit) \subseteq Frames(accepted', latest', exit')
           /\ Past(latest) \subseteq Past(latest')
<1>1. /\ accepted \in Nat /\ latest \in AnyScreen /\ client.confirmed.version \in Nat
  <2>1. accepted \in Nat
    BY DEF HeldInv, SessionInv
  <2>. QED
    BY <2>1, Zenon DEF HeldInv, SessionInv, ClientInv, GoodClient
<1>2. Said \subseteq Said'
  <2>. DEFINE v == client.confirmed.version  w == client'.confirmed.version
              h == client.hungup  g == client'.hungup
  <2>1. /\ Typed(typed) \subseteq Typed(typed') /\ v \in Nat /\ w \in Nat /\ v <= w
        /\ h => g
    BY <1>1, Zenon DEF Grows
  <2>2. Said = Messages(typed, v, h) /\ Said' = Messages(typed', w, g)
    BY Zenon DEF Said
  <2>. HIDE DEF v, w, h, g
  <2>3. Messages(typed, v, h) \subseteq Messages(typed', w, g)
    <3>. DEFINE u == typed'
    <3>1. Typed(typed) \subseteq Typed(u)
      BY <2>1, Zenon
    <3>. HIDE DEF u
    <3>2. Messages(typed, v, h) \subseteq Messages(u, w, g)
      BY <2>1, <3>1, MessagesGrow
    <3>. QED
      BY <3>2, Zenon DEF u
  <2>. QED
    BY <2>2, <2>3, Zenon
<1>3. /\ CtrlFrames(accepted) \subseteq CtrlFrames(accepted')
      /\ ScreenFrames(latest) \subseteq ScreenFrames(latest')
      /\ ExitFrames(exit) \subseteq ExitFrames(exit')
      /\ Frames(accepted, latest, exit) \subseteq Frames(accepted', latest', exit')
      /\ Past(latest) \subseteq Past(latest')
  <2>. DEFINE m == accepted'  k == latest'  y == exit'
  <2>1. /\ m \in Nat /\ accepted <= m /\ k \in AnyScreen
        /\ k = latest \/ k.version > latest.version
        /\ exit = y \/ exit = NoExit
    BY Zenon DEF Grows
  <2>. HIDE DEF m, k, y
  <2>2. /\ CtrlFrames(accepted) \subseteq CtrlFrames(m)
        /\ ScreenFrames(latest) \subseteq ScreenFrames(k)
        /\ ExitFrames(exit) \subseteq ExitFrames(y)
        /\ Frames(accepted, latest, exit) \subseteq Frames(m, k, y)
        /\ Past(latest) \subseteq Past(k)
    BY <1>1, <2>1, FramesGrow, PastGrows
  <2>. QED
    BY <2>2, Zenon DEF m, k, y
<1>4. Records \subseteq Records'
  <2>1. Feeds \subseteq Feeds'
    BY <1>3, FeedGrows, Zenon DEF Feeds
  <2>2. Labels \subseteq Labels'
    <3>1. {p \in {"exit"} : exit # NoExit} \subseteq {p \in {"exit"} : exit' # NoExit}
      BY Zenon DEF Grows
    <3>. QED
      BY <3>1 DEF Labels
  <2>3. Seq(Said) \subseteq Seq(Said') /\ Seq(Inputs(Said)) \subseteq Seq(Inputs(Said'))
    <3>1. Inputs(Said) \subseteq Inputs(Said')
      BY <1>2, Zenon DEF Inputs
    <3>. QED
      BY <1>2, <3>1, SeqGrows, Zenon
  <2>4. 0..accepted \subseteq 0..accepted'
    BY <1>1 DEF Grows
  <2>. DEFINE A == 0..accepted  B == 0..accepted'  I == Inputs(Said)  J == Inputs(Said)'
              S == Seq(Said)  T == Seq(Said')  K == Seq(I)  L == Seq(J)
              P == [pc : Labels, epoch : Nat, leftover : S, busy : K, wantSize : AnySize,
                    wantAck : A, feed : Feeds, seen : SeenOf]
              Q == [pc : Labels', epoch : Nat, leftover : T, busy : L, wantSize : AnySize,
                    wantAck : B, feed : Feeds', seen : SeenOf]
  <2>5. Records = P
    BY Zenon DEF Records, ConnOf
  <2>6. Records' = Q
    BY Zenon DEF Records, ConnOf
  <2>7. S \subseteq T /\ K \subseteq L /\ A \subseteq B
    BY <2>3, <2>4, Zenon DEF Inputs
  <2>. HIDE DEF A, B, S, T, K, L, I, J
  <2>8. P \subseteq Q
    <3>. DEFINE Fe == Feeds'  La == Labels'
    <3>1. Feeds \subseteq Fe /\ Labels \subseteq La
      BY <2>1, <2>2
    <3>. HIDE DEF Fe, La
    <3>. QED
      BY <2>7, <3>1, Zenon DEF Fe, La
  <2>. QED
    BY <2>5, <2>6, <2>8, Zenon
<1>. QED
  BY <1>2, <1>3, <1>4, Zenon
-----------------------------------------------------------------------------
(* The client's steps.                                                     *)

ClientMoves ==
    /\ typed' = typed \/ \E d \in Data : typed' = Append(typed, d)
    /\ GoodClient(typed', accepted, client')
    /\ client'.confirmed \in Past(latest)
    /\ client'.confirmed.version >= client.confirmed.version
    /\ client.hungup => client'.hungup
    /\ client'.exitCode \in {NoExit, exit}

LEMMA ClientKeeps ==
    ASSUME HeldInv, UNCHANGED notClient, ClientMoves
    PROVE  /\ SessionInv' /\ ClientInv' /\ HandlersInv'
           /\ Said \subseteq Said' /\ UNCHANGED <<accepted, latest, exit>>
<1>1. /\ UNCHANGED <<cmds, closed, shutdown, accepted, lastAcked, latest, exit, size,
                     registered, accLog>>
      /\ UNCHANGED <<epoch, epochWatch, detached, conn>>
  BY Zenon DEF notClient, shared, bookkeeping
<1>2. /\ typed \in Seq(Data) /\ accepted \in Nat /\ accLog \in Seq(Data)
      /\ accepted = Len(accLog) /\ accepted <= Len(typed)
      /\ \A i \in DOMAIN accLog : accLog[i] = typed[i]
      /\ latest \in AnyScreen /\ exit \in Nat \cup {NoExit} /\ size \in AnySize
      /\ epoch \in Nat /\ epochWatch \in Nat /\ cmds \in Seq(Said)
      /\ lastAcked \in 0..client.confirmed.version
      /\ shutdown => client.hungup
      /\ client.confirmed.version \in Nat
  <2>1. accepted \in Nat
    BY DEF HeldInv, SessionInv
  <2>. QED
    BY <2>1, Zenon DEF HeldInv, SessionInv, ClientInv, GoodClient
<1>3. /\ typed' \in Seq(Data) /\ Typed(typed) \subseteq Typed(typed')
      /\ Len(typed) <= Len(typed')
      /\ \A i \in 1..Len(typed) : typed'[i] = typed[i]
  <2>1. CASE typed' = typed
    BY <1>2, <2>1
  <2>2. ASSUME NEW d \in Data, typed' = Append(typed, d)
        PROVE  /\ typed' \in Seq(Data) /\ Typed(typed) \subseteq Typed(typed')
               /\ Len(typed) <= Len(typed')
               /\ \A i \in 1..Len(typed) : typed'[i] = typed[i]
    <3>. DEFINE u == Append(typed, d)
    <3>1. u \in Seq(Data) /\ Len(u) = Len(typed) + 1 /\ \A i \in 1..Len(typed) : u[i] = typed[i]
      BY <1>2
    <3>2. Typed(typed) \subseteq Typed(u)
      <4>1. 0 \in 0..Len(typed)
        BY <1>2
      <4>. QED
        BY <1>2, <4>1, AppendRest, Zenon
    <3>3. Len(typed) <= Len(u)
      <4>. HIDE DEF u
      <4>. QED
        BY <1>2, <3>1
    <3>. QED
      BY <2>2, <3>1, <3>2, <3>3, Zenon
  <2>. QED
    BY <2>1, <2>2, Zenon DEF ClientMoves
<1>4. /\ GoodClient(typed', accepted, client') /\ client'.confirmed \in Past(latest)
      /\ client'.confirmed.version >= client.confirmed.version
      /\ client.hungup => client'.hungup
      /\ client'.exitCode \in {NoExit, exit}
  BY Zenon DEF ClientMoves
<1>5. client'.confirmed.version \in Nat
  BY <1>4, Zenon DEF GoodClient
<1>6. Grows
  <2>1. client.confirmed.version <= client'.confirmed.version
    BY <1>2, <1>4, <1>5
  <2>2. accepted' \in Nat /\ accepted <= accepted' /\ latest' = latest /\ exit' = exit
    BY <1>1, <1>2
  <2>. QED
    BY <1>2, <1>3, <1>4, <1>5, <2>1, <2>2, Zenon DEF Grows
<1>7. Said \subseteq Said' /\ Records \subseteq Records'
  BY <1>6, HeldGrows, Zenon
<1>8. SessionInv'
  <2>1. cmds' \in Seq(Said')
    BY <1>1, <1>2, <1>7, SeqGrows, Zenon
  <2>2. accepted' <= Len(typed') /\ \A i \in DOMAIN accLog' : accLog'[i] = typed'[i]
    <3>1. DOMAIN accLog = 1..accepted /\ accepted \in Nat /\ Len(typed) \in Nat /\ Len(typed') \in Nat
      BY <1>2, <1>3
    <3>2. \A i \in DOMAIN accLog : i \in 1..Len(typed)
      BY <1>2, <3>1
    <3>3. \A i \in DOMAIN accLog' : accLog'[i] = typed'[i]
      BY <1>1, <1>2, <1>3, <3>2, Zenon
    <3>4. accepted' <= Len(typed')
      BY <1>1, <1>2, <1>3, <3>1
    <3>. QED
      BY <3>3, <3>4
  <2>. QED
    BY <1>1, <1>2, <1>3, <2>1, <2>2, Zenon DEF SessionInv
<1>9. ClientInv'
  <2>1. lastAcked' \in 0..client'.confirmed.version
    BY <1>1, <1>2, <1>4, <1>5
  <2>2. GoodClient(typed', accepted', client') /\ client'.confirmed \in Past(latest')
        /\ client'.exitCode \in {NoExit, exit'} /\ (shutdown' => client'.hungup)
    BY <1>1, <1>2, <1>4, Zenon
  <2>. QED
    BY <2>1, <2>2, Zenon DEF ClientInv
<1>10. HandlersInv'
  <2>1. conn \in [Conns -> Records] /\ \A h \in Conns : Ready(conn[h])
    BY Zenon DEF HeldInv, HandlersInv
  <2>2. conn' \in [Conns -> Records'] /\ \A h \in Conns : Ready(conn'[h])
    BY <1>1, <1>7, <2>1, Zenon
  <2>. QED
    BY <2>2, Zenon DEF HandlersInv
<1>. QED
  BY <1>1, <1>7, <1>8, <1>9, <1>10, Zenon

\* What the loop does to a good client.
LEMMA LoopIs ==
    ASSUME NEW t \in Seq(Data), NEW n, NEW c, GoodClient(t, n, c), Loop(c)
    PROVE  GoodClient(t, n, client') /\ SameCore(c, client')
<1>1. PICK due \in bound.pings : client' = tick(c, due)
  BY Zenon DEF Loop
<1>. QED
  BY <1>1, TickIs, Zenon

LEMMA CoreMoves ==
    ASSUME HeldInv, NEW c, GoodClient(typed, accepted, c), SameCore(client, c),
           client' = c \/ Loop(c), UNCHANGED typed
    PROVE  ClientMoves /\ client'.exitCode = client.exitCode
<1>1. /\ typed \in Seq(Data) /\ client.confirmed \in Past(latest)
      /\ client.exitCode \in {NoExit, exit} /\ client.confirmed.version \in Nat
  BY Zenon DEF HeldInv, SessionInv, ClientInv, GoodClient
<1>2. GoodClient(typed, accepted, client') /\ SameCore(c, client')
  <2>1. CASE client' = c
    BY <2>1, Zenon DEF SameCore
  <2>2. CASE Loop(c)
    BY <1>1, <2>2, LoopIs, Zenon
  <2>. QED
    BY <2>1, <2>2, Zenon
<1>3. SameCore(client, client')
  BY <1>2, SameCoreTwice, Zenon
<1>4. client'.confirmed.version >= client.confirmed.version
  <2>1. client'.confirmed.version = client.confirmed.version
    BY <1>3, Zenon DEF SameCore
  <2>. QED
    BY <1>1, <2>1
<1>. QED
  BY <1>1, <1>2, <1>3, <1>4, Zenon DEF ClientMoves, SameCore

LEMMA LoopMoves ==
    ASSUME HeldInv, NEW c, GoodClient(typed', accepted, c), typed' \in Seq(Data),
           typed' = typed \/ \E d \in Data : typed' = Append(typed, d),
           c.confirmed \in Past(latest), c.confirmed.version >= client.confirmed.version,
           client.hungup => c.hungup, c.exitCode \in {NoExit, exit}, client' = c \/ Loop(c)
    PROVE  ClientMoves /\ SameCore(c, client')
<1>1. GoodClient(typed', accepted, client') /\ SameCore(c, client')
  <2>1. CASE client' = c
    BY <2>1, Zenon DEF SameCore
  <2>2. CASE Loop(c)
    <3>. DEFINE t == typed'
    <3>1. t \in Seq(Data) /\ GoodClient(t, accepted, c)
      OBVIOUS
    <3>. HIDE DEF t
    <3>2. GoodClient(t, accepted, client') /\ SameCore(c, client')
      BY <2>2, <3>1, LoopIs
    <3>. QED
      BY <3>2, Zenon DEF t
  <2>. QED
    BY <2>1, <2>2, Zenon
<1>2. client'.confirmed.version >= client.confirmed.version
  <2>1. client'.confirmed.version = c.confirmed.version
    BY <1>1, Zenon DEF SameCore
  <2>. QED
    BY <2>1
<1>. QED
  BY <1>1, <1>2, Zenon DEF ClientMoves, SameCore

LEMMA ClientIsGood ==
    ASSUME HeldInv
    PROVE  /\ GoodClient(typed, accepted, client) /\ typed \in Seq(Data)
           /\ client.confirmed \in Past(latest) /\ client.exitCode \in {NoExit, exit}
           /\ client.confirmed.version \in Nat /\ client.hungup \in BOOLEAN
           /\ accepted \in Nat /\ accepted <= Len(typed) /\ latest \in AnyScreen
           /\ exit \in Nat \cup {NoExit} /\ latest.version \in Nat
<1>1. accepted \in Nat /\ accepted <= Len(typed) /\ latest.version \in Nat
  BY DEF HeldInv, SessionInv, AnyScreen
<1>2. client.hungup \in BOOLEAN
  <2>. DEFINE v == client.confirmed.version  h == client.hungup
  <2>1. client \in ClientOf(typed, v, h)
    BY Zenon DEF HeldInv, ClientInv, GoodClient
  <2>. HIDE DEF v, h
  <2>. QED
    BY <2>1 DEF ClientOf
<1>. QED
  BY <1>1, <1>2, Zenon DEF HeldInv, SessionInv, ClientInv, GoodClient

LEMMA ScreenMoves ==
    ASSUME HeldInv, NEW s \in Past(latest), UNCHANGED typed,
           Loop(apply_screen(client, s))
    PROVE  ClientMoves /\ client'.exitCode = client.exitCode
<1>. DEFINE c == apply_screen(client, s)
<1>1. /\ GoodClient(typed, accepted, c) /\ c.hungup = client.hungup
      /\ c.exitCode = client.exitCode
      /\ s.version > client.confirmed.version => c.confirmed = s
      /\ ~(s.version > client.confirmed.version) => c.confirmed = client.confirmed
  <2>1. s \in AnyScreen
    BY Zenon DEF Past
  <2>. QED
    BY <2>1, ClientIsGood, ApplyScreenIs
<1>2. c.confirmed \in Past(latest)
  BY <1>1, ClientIsGood, Zenon
<1>3. c.confirmed.version >= client.confirmed.version
  <2>1. s.version \in Nat /\ client.confirmed.version \in Nat
    BY ClientIsGood DEF Past, AnyScreen
  <2>. HIDE DEF c
  <2>2. CASE s.version > client.confirmed.version
    BY <1>1, <2>1, <2>2
  <2>3. CASE ~(s.version > client.confirmed.version)
    <3>1. c.confirmed.version = client.confirmed.version
      BY <1>1, <2>3, Zenon
    <3>. QED
      BY <2>1, <3>1
  <2>. QED
    BY <2>2, <2>3, Zenon
<1>4. Loop(c)
  OBVIOUS
<1>. HIDE DEF c
<1>. QED
  BY <1>1, <1>2, <1>3, <1>4, ClientIsGood, LoopMoves, Zenon DEF SameCore

LEMMA ReceiveMoves ==
    ASSUME HeldInv, NEW f \in Frames(accepted, latest, exit), ReceiveFrame(f)
    PROVE  /\ ClientMoves
           /\ \E d : /\ Handled(client, d, f, latest, exit) \/ (f.kind = "Error" /\ d = client)
                    /\ client'.confirmed = d.confirmed /\ client'.exitCode = d.exitCode
<1>1. UNCHANGED typed
  BY Zenon DEF ReceiveFrame
<1>2. CASE f.kind = "Error"
  <2>1. client' = client
    BY <1>2, Zenon DEF ReceiveFrame
  <2>2. SameCore(client, client)
    BY Zenon DEF SameCore
  <2>3. ClientMoves
    BY <1>1, <2>1, <2>2, ClientIsGood, CoreMoves, Zenon
  <2>4. client'.confirmed = client.confirmed /\ client'.exitCode = client.exitCode
    BY <2>1, Zenon
  <2>. QED
    BY <1>2, <2>3, <2>4, Zenon
<1>3. CASE f.kind # "Error"
  <2>. DEFINE c == handle_frame(client, f)
  <2>1. Loop(c)
    BY <1>3, Zenon DEF ReceiveFrame
  <2>2. GoodClient(typed, accepted, c) /\ Handled(client, c, f, latest, exit)
    <3>1. /\ typed \in Seq(Data) /\ accepted \in Nat /\ accepted <= Len(typed)
          /\ exit \in Nat \cup {NoExit} /\ GoodClient(typed, accepted, client)
      BY ClientIsGood, Zenon
    <3>. QED
      BY <1>3, <3>1, HandleFrameIs
  <2>. HIDE DEF c
  <2>3. c.confirmed \in Past(latest) /\ c.exitCode \in {NoExit, exit}
    BY <2>2, ClientIsGood, Zenon DEF Handled
  <2>4. c.confirmed.version >= client.confirmed.version
    <3>1. client.confirmed.version \in Nat /\ c.confirmed.version \in Nat
      BY <2>2, ClientIsGood, Zenon DEF GoodClient
    <3>2. c.confirmed.version = client.confirmed.version \/ c.confirmed.version > client.confirmed.version
      BY <2>2, Zenon DEF Handled
    <3>. QED
      BY <3>1, <3>2
  <2>. QED
    BY <1>1, <2>1, <2>2, <2>3, <2>4, ClientIsGood, LoopMoves, Zenon DEF Handled, SameCore
<1>. QED
  BY <1>2, <1>3, Zenon

LEMMA WriteKeepsClient ==
    ASSUME HeldInv, ClientWrite
    PROVE  ClientMoves /\ client'.exitCode = client.exitCode /\ ClientOutgoing \in Said
<1>. DEFINE c == [client EXCEPT !.feed = feed_advance(@, @.left)]
<1>1. /\ GoodClient(typed, accepted, c) /\ SameCore(client, c)
      /\ Head(client.feed.out).msg \in Messages(typed, client.confirmed.version, client.hungup)
  <2>1. writing(client.feed)
    BY Zenon DEF ClientWrite
  <2>. QED
    BY <2>1, ClientIsGood, ClientWriteIs, Zenon
<1>2. client' = c \/ Loop(c)
  BY Zenon DEF ClientWrite
<1>3. UNCHANGED typed
  BY Zenon DEF ClientWrite
<1>. HIDE DEF c
<1>. QED
  BY <1>1, <1>2, <1>3, CoreMoves, Zenon DEF ClientOutgoing, Said

LEMMA ConnectedMoves ==
    ASSUME HeldInv, Connected
    PROVE  ClientMoves /\ client'.exitCode = client.exitCode
<1>. DEFINE c == begin_connection(client)
<1>1. GoodClient(typed, accepted, c) /\ SameCore(client, c)
  BY ClientIsGood, BeginIs, Zenon
<1>2. Loop(c) /\ UNCHANGED typed
  BY Zenon DEF Connected
<1>. HIDE DEF c
<1>. QED
  BY <1>1, <1>2, CoreMoves, Zenon

LEMMA LosesMoves ==
    ASSUME HeldInv, StreamEnd \/ TransportError
    PROVE  ClientMoves /\ client'.exitCode = client.exitCode
<1>. DEFINE c == Disconnected(client)
<1>1. GoodClient(typed, accepted, c) /\ SameCore(client, c)
  BY ClientIsGood, DisconnectedIs, Zenon
<1>2. client' = c /\ UNCHANGED typed
  BY Zenon DEF StreamEnd, TransportError
<1>. HIDE DEF c
<1>. QED
  BY <1>1, <1>2, CoreMoves, Zenon

LEMMA UserMoves ==
    ASSUME HeldInv, User
    PROVE  ClientMoves /\ client'.exitCode = client.exitCode
<1>1. CASE \E d \in Data : Type(d)
  <2>1. PICK d \in Data : Type(d)
    BY <1>1
  <2>. DEFINE c == queue_input(client, d)
  <2>2. /\ GoodClient(Append(typed, d), accepted, c) /\ c.hungup = client.hungup
        /\ c.exitCode = client.exitCode /\ c.confirmed = client.confirmed
    BY ClientIsGood, QueueInputIs
  <2>3. typed' = Append(typed, d) /\ (client' = c \/ Loop(c))
    BY <2>1, Zenon DEF Type
  <2>. HIDE DEF c
  <2>4. typed' \in Seq(Data)
    BY <2>3, ClientIsGood
  <2>5. c.confirmed.version >= client.confirmed.version
    <3>1. c.confirmed.version = client.confirmed.version
      BY <2>2, Zenon
    <3>. QED
      BY <3>1, ClientIsGood
  <2>. QED
    BY <2>2, <2>3, <2>4, <2>5, ClientIsGood, LoopMoves, Zenon DEF SameCore
<1>2. CASE \E s \in ValidSizes : Winch(s)
  <2>1. PICK s \in ValidSizes : Winch(s)
    BY <1>2
  <2>2. s \in AnySize
    BY ApiAssumption DEF AnySize
  <2>. DEFINE c == set_size(client, s)  e == [client EXCEPT !.size = s]
  <2>3. /\ GoodClient(typed, accepted, c) /\ c.hungup = client.hungup
        /\ c.exitCode = client.exitCode /\ c.confirmed = client.confirmed
    BY <2>2, ClientIsGood, SetSizeIs
  <2>4. /\ GoodClient(typed, accepted, e) /\ e.hungup = client.hungup
        /\ e.exitCode = client.exitCode /\ e.confirmed = client.confirmed
    BY <2>2, ClientIsGood, ResizedIs
  <2>5. UNCHANGED typed /\ (Loop(c) \/ client' = e)
    BY <2>1, Zenon DEF Winch
  <2>6. client.confirmed.version >= client.confirmed.version
    BY ClientIsGood
  <2>. HIDE DEF c, e
  <2>7. CASE Loop(c)
    BY <2>3, <2>5, <2>6, <2>7, ClientIsGood, LoopMoves, Zenon DEF SameCore
  <2>8. CASE client' = e
    BY <2>4, <2>5, <2>6, <2>8, ClientIsGood, LoopMoves, Zenon DEF SameCore
  <2>. QED
    BY <2>5, <2>7, <2>8, Zenon
<1>3. CASE Quit
  <2>. DEFINE c == client_hangup(client)
  <2>1. /\ GoodClient(typed, accepted, c) /\ c.hungup = TRUE
        /\ c.exitCode = client.exitCode /\ c.confirmed = client.confirmed
    BY ClientIsGood, HangupIs, Zenon
  <2>2. client' = c /\ UNCHANGED typed
    BY <1>3, Zenon DEF Quit
  <2>. HIDE DEF c
  <2>3. client.confirmed.version >= client.confirmed.version
    BY ClientIsGood
  <2>. QED
    BY <2>1, <2>2, <2>3, ClientIsGood, LoopMoves, Zenon DEF SameCore
<1>4. CASE Tick \/ FlushEnds
  <2>1. (client' = client \/ Loop(client)) /\ UNCHANGED typed
    BY <1>4, Zenon DEF Tick, FlushEnds
  <2>2. SameCore(client, client)
    BY Zenon DEF SameCore
  <2>. QED
    BY <2>1, <2>2, ClientIsGood, CoreMoves, Zenon
<1>5. (\E d \in Data : Type(d)) \/ (\E s \in ValidSizes : Winch(s)) \/ Quit \/ Tick \/ FlushEnds
  BY Zenon DEF User
<1>. QED
  BY <1>1, <1>2, <1>3, <1>4, <1>5, Zenon
-----------------------------------------------------------------------------
(* The client's steps keep the invariant.                                  *)

LEMMA EmptyQueue ==
    ASSUME NEW S
    PROVE  <<>> \in Seq(S)
  OBVIOUS

LEMMA PurgeIs ==
    ASSUME HeldInv, Purge
    PROVE  /\ down' \in [Conns -> Seq(Frames(accepted, latest, exit))]
           /\ air' \in [Conns -> SUBSET Past(latest)]
<1>. DEFINE F == Seq(Frames(accepted, latest, exit))  P == SUBSET Past(latest)
<1>1. <<>> \in F /\ {} \in P
  BY EmptyQueue, Zenon
<1>2. down \in [Conns -> F] /\ air \in [Conns -> P]
  BY Zenon DEF HeldInv, WiresInv
<1>. HIDE DEF F, P
<1>3. /\ down' = [h \in Conns |-> IF Left(h)' THEN <<>> ELSE down[h]]
      /\ air' = [h \in Conns |-> IF Left(h)' THEN {} ELSE air[h]]
  BY Zenon DEF Purge
<1>4. down' \in [Conns -> F] /\ air' \in [Conns -> P]
  BY <1>1, <1>2, <1>3, Zenon
<1>. QED
  BY <1>4, Zenon DEF F, P

LEMMA ClientHeld ==
    ASSUME HeldInv, UNCHANGED notClient, ClientMoves,
           up' \in [Conns -> Seq(Said')],
           down' \in [Conns -> Seq(Frames(accepted, latest, exit))],
           air' \in [Conns -> SUBSET Past(latest)],
           bound' = bound, fresh' \subseteq Conns, lost' \in [Conns -> BOOLEAN],
           link' \in {"up", "flushing"} => route' \in Conns \ fresh'
    PROVE  HeldInv'
<1>1. /\ SessionInv' /\ ClientInv' /\ HandlersInv' /\ UNCHANGED <<accepted, latest, exit>>
  BY ClientKeeps, Zenon
<1>2. WiresInv'
  BY <1>1, Zenon DEF WiresInv
<1>3. RouteInv'
  BY Zenon DEF RouteInv, HeldInv
<1>. QED
  BY <1>1, <1>2, <1>3, Zenon DEF HeldInv

\* The streams of the invariant, and that they stay typed.
LEMMA WiresAre ==
    ASSUME HeldInv
    PROVE  /\ up \in [Conns -> Seq(Said)]
           /\ down \in [Conns -> Seq(Frames(accepted, latest, exit))]
           /\ air \in [Conns -> SUBSET Past(latest)]
           /\ bound \in Bounds /\ fresh \subseteq Conns /\ lost \in [Conns -> BOOLEAN]
           /\ link \in {"up", "flushing"} => route \in Conns \ fresh
  BY Zenon DEF HeldInv, WiresInv, RouteInv

LEMMA UpStays ==
    ASSUME HeldInv, UNCHANGED notClient, ClientMoves, UNCHANGED up
    PROVE  up' \in [Conns -> Seq(Said')]
<1>1. Said \subseteq Said'
  BY ClientKeeps, Zenon
<1>2. Seq(Said) \subseteq Seq(Said')
  BY <1>1, SeqGrows, Zenon
<1>. QED
  BY <1>2, WiresAre, Zenon

LEMMA OpenHeld ==
    ASSUME HeldInv, NEW h \in Conns, Open(h)
    PROVE  HeldInv'
<1>1. /\ Connected /\ UNCHANGED <<notClient, up, down, air, lost>>
      /\ route' = h /\ fresh' = fresh \ {h}
  BY Zenon DEF Open
<1>2. ClientMoves
  BY <1>1, ConnectedMoves, Zenon
<1>3. UNCHANGED notClient /\ UNCHANGED up /\ UNCHANGED down /\ UNCHANGED air /\ UNCHANGED lost
  BY <1>1, Zenon
<1>4. bound' = bound
  BY <1>1, Zenon DEF Connected
<1>5. up' \in [Conns -> Seq(Said')]
  BY <1>2, <1>3, UpStays, Zenon
<1>. QED
  BY <1>1, <1>2, <1>3, <1>4, <1>5, WiresAre, ClientHeld, Zenon

LEMMA ClientSendsHeld ==
    ASSUME HeldInv, ClientSends
    PROVE  HeldInv'
<1>1. /\ ClientWrite /\ UNCHANGED notClient /\ UNCHANGED route /\ UNCHANGED fresh
      /\ UNCHANGED down /\ UNCHANGED air /\ UNCHANGED lost
      /\ up' = IF lost[route] \/ Over(route) THEN up
               ELSE [up EXCEPT ![route] = Append(@, ClientOutgoing)]
  BY Zenon DEF ClientSends
<1>2. ClientMoves /\ ClientOutgoing \in Said
  BY <1>1, WriteKeepsClient, Zenon
<1>3. link \in {"up", "flushing"} /\ link' \in {"up", "flushing", "ended"} /\ bound' = bound
  BY <1>1, Zenon DEF ClientWrite, Loop
<1>4. route \in Conns \ fresh
  BY <1>3, WiresAre, Zenon
<1>5. Said \subseteq Said'
  BY <1>1, <1>2, ClientKeeps, Zenon
<1>6. Seq(Said) \subseteq Seq(Said')
  BY <1>5, SeqGrows, Zenon
<1>7. up' \in [Conns -> Seq(Said)]
  <2>1. Append(up[route], ClientOutgoing) \in Seq(Said)
    <3>. DEFINE q == up[route]
    <3>1. q \in Seq(Said)
      BY <1>4, WiresAre, Zenon
    <3>. HIDE DEF q
    <3>2. Append(q, ClientOutgoing) \in Seq(Said)
      BY <1>2, <3>1
    <3>. QED
      BY <3>2, Zenon DEF q
  <2>. QED
    BY <1>1, <2>1, WiresAre, Zenon
<1>8. up' \in [Conns -> Seq(Said')]
  BY <1>6, <1>7, Zenon
<1>. QED
  BY <1>1, <1>2, <1>3, <1>4, <1>8, WiresAre, ClientHeld, Zenon

LEMMA ClientReceivesHeld ==
    ASSUME HeldInv, ClientReceives
    PROVE  HeldInv'
<1>1. /\ link = "up" /\ down[route] # <<>> /\ ReceiveFrame(Head(down[route]))
      /\ down' = [down EXCEPT ![route] = Tail(@)]
      /\ UNCHANGED notClient /\ UNCHANGED route /\ UNCHANGED fresh /\ UNCHANGED up
      /\ UNCHANGED air /\ UNCHANGED lost
  BY Zenon DEF ClientReceives
<1>2. route \in Conns \ fresh
  BY <1>1, WiresAre, Zenon
<1>3. /\ Head(down[route]) \in Frames(accepted, latest, exit)
      /\ Tail(down[route]) \in Seq(Frames(accepted, latest, exit))
  <2>. DEFINE F == Frames(accepted, latest, exit)  q == down[route]
  <2>1. q \in Seq(F) /\ q # <<>>
    BY <1>1, <1>2, WiresAre, Zenon
  <2>. HIDE DEF F, q
  <2>2. Head(q) \in F /\ Tail(q) \in Seq(F)
    BY <2>1
  <2>. QED
    BY <2>2, Zenon DEF F, q
<1>4. ClientMoves
  BY <1>1, <1>3, ReceiveMoves, Zenon
<1>5. down' \in [Conns -> Seq(Frames(accepted, latest, exit))]
  BY <1>1, <1>3, WiresAre, Zenon
<1>6. bound' = bound
  BY <1>1, Zenon DEF ReceiveFrame
<1>7. up' \in [Conns -> Seq(Said')]
  BY <1>1, <1>4, UpStays, Zenon
<1>. QED
  BY <1>1, <1>2, <1>4, <1>5, <1>6, <1>7, WiresAre, ClientHeld, Zenon

LEMMA DatagramHeld ==
    ASSUME HeldInv, DatagramArrives
    PROVE  HeldInv' /\ ClientMoves
<1>1. PICK s \in air[route] : ReceiveDatagram(s) /\ air' = [air EXCEPT ![route] = @ \ {s}]
  BY Zenon DEF DatagramArrives
<1>2. /\ link = "up" /\ UNCHANGED notClient /\ UNCHANGED route /\ UNCHANGED fresh
      /\ UNCHANGED up /\ UNCHANGED down /\ UNCHANGED lost
  BY Zenon DEF DatagramArrives
<1>3. route \in Conns \ fresh
  BY <1>2, WiresAre, Zenon
<1>4. s \in Past(latest) /\ air[route] \ {s} \in SUBSET Past(latest)
  BY <1>3, WiresAre, Zenon
<1>5. Loop(apply_screen(client, s)) /\ UNCHANGED typed /\ bound' = bound
  BY <1>1, Zenon DEF ReceiveDatagram
<1>6. ClientMoves
  BY <1>4, <1>5, ScreenMoves, Zenon
<1>7. air' \in [Conns -> SUBSET Past(latest)]
  BY <1>1, <1>4, WiresAre, Zenon
<1>8. up' \in [Conns -> Seq(Said')]
  BY <1>2, <1>6, UpStays, Zenon
<1>. QED
  BY <1>2, <1>3, <1>5, <1>6, <1>7, <1>8, WiresAre, ClientHeld, Zenon

LEMMA UserHeld ==
    ASSUME HeldInv, User
    PROVE  HeldInv'
<1>1. /\ UNCHANGED notClient /\ UNCHANGED route /\ UNCHANGED fresh
      /\ UNCHANGED up /\ UNCHANGED lost /\ Purge
  BY Zenon DEF User
<1>2. ClientMoves
  BY UserMoves, Zenon
<1>3. bound' = bound /\ (link' \in {"up", "flushing"} => link \in {"up", "flushing"})
  BY Zenon DEF User, Type, Winch, Quit, Tick, FlushEnds, Loop
<1>4. up' \in [Conns -> Seq(Said')]
  BY <1>1, <1>2, UpStays, Zenon
<1>. QED
  BY <1>1, <1>2, <1>3, <1>4, PurgeIs, WiresAre, ClientHeld, Zenon

LEMMA LinkFailsHeld ==
    ASSUME HeldInv, LinkFails
    PROVE  HeldInv' /\ ClientMoves
<1>1. /\ UNCHANGED notClient /\ UNCHANGED route /\ UNCHANGED fresh
      /\ UNCHANGED up /\ UNCHANGED lost /\ Purge
      /\ link = "up" /\ (StreamEnd \/ TransportError)
  BY Zenon DEF LinkFails
<1>2. ClientMoves
  BY <1>1, LosesMoves, Zenon
<1>3. bound' = bound
  BY <1>1, Zenon DEF StreamEnd, TransportError
<1>4. up' \in [Conns -> Seq(Said')]
  BY <1>1, <1>2, UpStays, Zenon
<1>. QED
  BY <1>1, <1>2, <1>3, <1>4, PurgeIs, WiresAre, ClientHeld, Zenon
-----------------------------------------------------------------------------
(* The handlers' steps keep the invariant.                                 *)

LEMMA AckCounts ==
    ASSUME HeldInv, NEW v, Ack(v) \in Said
    PROVE  AckMax(v) \in 0..client.confirmed.version
<1>1. v \in 0..client.confirmed.version
  <2>1. Ack(v).op = "Ack" /\ Ack(v).version = v
    BY DEF Ack
  <2>. QED
    BY <2>1, SaidIs, Zenon
<1>2. lastAcked \in 0..client.confirmed.version
  BY Zenon DEF HeldInv, ClientInv
<1>. QED
  BY <1>1, <1>2, Zenon DEF AckMax

LEMMA HandlerHeld ==
    ASSUME HeldInv, Serves(Said), UNCHANGED sides, UNCHANGED lost,
           conn' \in [Conns -> Records], \A h \in Conns : Ready(conn'[h]),
           epoch' \in Nat, epochWatch' \in Nat,
           up' \in [Conns -> Seq(Said)],
           down' \in [Conns -> Seq(Frames(accepted, latest, exit))],
           air' \in [Conns -> SUBSET Past(latest)]
    PROVE  HeldInv'
<1>1. /\ client' = client /\ link' = link /\ typed' = typed /\ bound' = bound
      /\ route' = route /\ fresh' = fresh
  BY Zenon DEF sides, clientVars
<1>2. UNCHANGED <<accepted, latest, exit, size, accLog>>
  BY Zenon DEF Serves
<1>3. Said' = Said
  BY <1>1, Zenon DEF Said
<1>4. Records \subseteq Records'
  <2>1. Grows
    <3>1. accepted' \in Nat /\ accepted <= accepted'
      BY <1>2, ClientIsGood
    <3>2. client.confirmed.version <= client'.confirmed.version /\ client'.confirmed.version \in Nat
      BY <1>1, ClientIsGood
    <3>. QED
      BY <1>1, <1>2, <3>1, <3>2, ClientIsGood, Zenon DEF Grows
  <2>. QED
    BY <2>1, HeldGrows, Zenon
<1>5. /\ cmds' \in Seq(Said) /\ lastAcked' \in 0..client.confirmed.version
      /\ (shutdown' => client.hungup)
  <2>1. /\ cmds \in Seq(Said) /\ lastAcked \in 0..client.confirmed.version
        /\ (shutdown => client.hungup)
    BY Zenon DEF HeldInv, SessionInv, ClientInv
  <2>2. ASSUME NEW m \in Said PROVE Append(cmds, m) \in Seq(Said)
    BY <2>1
  <2>3. CASE UNCHANGED <<cmds, shutdown, lastAcked>>
    BY <2>1, <2>3, Zenon
  <2>4. CASE \E m \in Said : cmds' = Append(cmds, m) /\ UNCHANGED <<shutdown, lastAcked>>
    <3>1. PICK m \in Said : cmds' = Append(cmds, m) /\ UNCHANGED <<shutdown, lastAcked>>
      BY <2>4
    <3>2. cmds' \in Seq(Said)
      BY <2>2, <3>1, Zenon
    <3>3. shutdown' = shutdown /\ lastAcked' = lastAcked
      BY <3>1
    <3>. QED
      BY <2>1, <3>2, <3>3, Zenon
  <2>5. CASE shutdown' = TRUE /\ Hangup \in Said /\ UNCHANGED <<cmds, lastAcked>>
    <3>1. Hangup.op = "Hangup"
      BY DEF Hangup
    <3>. QED
      BY <2>1, <2>5, <3>1, SaidIs, Zenon
  <2>6. CASE \E v : /\ Ack(v) \in Said /\ lastAcked' = AckMax(v) /\ UNCHANGED shutdown
                    /\ cmds' \in {cmds, Append(cmds, Ack(v))}
    <3>1. PICK v : /\ Ack(v) \in Said /\ lastAcked' = AckMax(v) /\ shutdown' = shutdown
                   /\ cmds' = cmds \/ cmds' = Append(cmds, Ack(v))
      BY <2>6, Zenon
    <3>2. cmds' \in Seq(Said)
      BY <2>1, <2>2, <3>1, Zenon
    <3>3. lastAcked' \in 0..client.confirmed.version
      BY <3>1, AckCounts, Zenon
    <3>. QED
      BY <2>1, <3>1, <3>2, <3>3, Zenon
  <2>. QED
    BY <2>3, <2>4, <2>5, <2>6, Zenon DEF Serves
<1>6. SessionInv'
  BY <1>1, <1>2, <1>3, <1>5, Zenon DEF HeldInv, SessionInv
<1>7. ClientInv'
  BY <1>1, <1>2, <1>5, Zenon DEF HeldInv, ClientInv
<1>8. HandlersInv'
  BY <1>4, Zenon DEF HandlersInv
<1>9. WiresInv'
  BY <1>2, <1>3, Zenon DEF WiresInv
<1>10. RouteInv'
  BY <1>1, Zenon DEF HeldInv, RouteInv
<1>. QED
  BY <1>6, <1>7, <1>8, <1>9, <1>10, Zenon DEF HeldInv

\* A step of one handler.
LEMMA MoveHeld ==
    ASSUME HeldInv, NEW h \in Conns, Serves(Said), UNCHANGED sides, UNCHANGED lost,
           conn' \in [Conns -> Records], Ready(conn'[h]),
           \A g \in Conns \ {h} : conn'[g] = conn[g],
           epoch' \in Nat, epochWatch' \in Nat,
           up' \in [Conns -> Seq(Said)],
           down' \in [Conns -> Seq(Frames(accepted, latest, exit))],
           air' \in [Conns -> SUBSET Past(latest)]
    PROVE  HeldInv'
<1>1. \A g \in Conns : Ready(conn'[g])
  BY Zenon DEF HeldInv, HandlersInv
<1>. QED
  BY <1>1, HandlerHeld, Zenon

\* A step that leaves the session alone.
LEMMA AloneHeld ==
    ASSUME HeldInv, UNCHANGED <<shared, bookkeeping>>
    PROVE  Serves(Said) /\ epoch' \in Nat /\ epochWatch' \in Nat
  BY Zenon DEF shared, bookkeeping, Serves, HeldInv, SessionInv

\* Such a step as Moves describes it.
LEMMA AloneMoveHeld ==
    ASSUME HeldInv, NEW h \in Conns, UNCHANGED <<shared, bookkeeping>>,
           UNCHANGED sides, UNCHANGED lost,
           Moves(h, Records, ExitFrames(exit)),
           up' \in [Conns -> Seq(Said)],
           down' \in [Conns -> Seq(Frames(accepted, latest, exit))],
           air' \in [Conns -> SUBSET Past(latest)]
    PROVE  HeldInv'
<1>1. /\ conn' \in [Conns -> Records] /\ Ready(conn'[h])
      /\ \A g \in Conns \ {h} : conn'[g] = conn[g]
  BY Zenon DEF Moves
<1>2. Serves(Said) /\ epoch' \in Nat /\ epochWatch' \in Nat
  BY AloneHeld, Zenon
<1>. QED
  BY <1>1, <1>2, MoveHeld, Zenon

LEMMA PurgeUpIs ==
    ASSUME HeldInv, NEW h \in Conns, PurgeUp(h)
    PROVE  up' \in [Conns -> Seq(Said)]
<1>1. <<>> \in Seq(Said)
  BY EmptyQueue, Zenon
<1>2. up' = up \/ up' = [up EXCEPT ![h] = <<>>]
  BY Zenon DEF PurgeUp
<1>. QED
  BY <1>1, <1>2, WiresAre, Zenon

LEMMA SuffixesAre ==
    ASSUME NEW S, NEW q \in Seq(S), NEW n \in 1..Len(q)
    PROVE  SubSeq(q, 1, n) \in Seq(S) /\ SubSeq(q, n + 1, Len(q)) \in Seq(S)
  OBVIOUS

LEMMA HelloHeld ==
    ASSUME HeldInv, NEW h \in Conns, HelloArrives(h)
    PROVE  HeldInv'
<1>. DEFINE q == up[h]  s == Head(q).size  F == Frames(accepted, latest, exit)
<1>1. /\ q # <<>> /\ Head(q).op = "Hello" /\ Lookup(h, s)
      /\ up' = [up EXCEPT ![h] = Tail(q)]
      /\ down' = down \/ down' = [down EXCEPT ![h] = Append(@, Error)]
      /\ UNCHANGED sides /\ UNCHANGED air /\ UNCHANGED lost
  BY Zenon DEF HelloArrives
<1>2. Head(q) \in Said /\ Tail(q) \in Seq(Said)
  <2>1. q \in Seq(Said)
    BY WiresAre, Zenon
  <2>. HIDE DEF q
  <2>. QED
    BY <1>1, <2>1
<1>3. s \in AnySize
  BY <1>1, <1>2, SaidIs, Zenon
<1>4. Moves(h, Records, ExitFrames(exit))
  BY <1>1, <1>3, HandlingHere, LookupMoves, Zenon DEF Records, Feeds
<1>5. Append(down[h], Error) \in Seq(F)
  <2>1. down[h] \in Seq(F) /\ Error \in F
    BY WiresAre, Zenon DEF Frames, CtrlFrames
  <2>. HIDE DEF F
  <2>. QED
    BY <2>1
<1>6. down' \in [Conns -> Seq(F)]
  BY <1>1, <1>5, WiresAre, Zenon
<1>7. up' \in [Conns -> Seq(Said)]
  BY <1>1, <1>2, WiresAre, Zenon
<1>8. UNCHANGED <<shared, bookkeeping>>
  BY <1>1, Zenon DEF Lookup
<1>. HIDE DEF s, q
<1>. QED
  BY <1>1, <1>4, <1>6, <1>7, <1>8, WiresAre, AloneMoveHeld, Zenon

LEMMA HandleHeld ==
    ASSUME HeldInv, NEW h \in Conns, Handle(h)
    PROVE  HeldInv'
<1>1. /\ Proceed(h) /\ PurgeUp(h) /\ UNCHANGED sides /\ UNCHANGED down
      /\ UNCHANGED air /\ UNCHANGED lost
  BY Zenon DEF Handle
<1>2. Moves(h, Records, ExitFrames(exit))
  BY <1>1, HandlingHere, ProceedMoves, Zenon DEF Records, Feeds
<1>3. Serves(Said)
  BY <1>1, HandlingHere, SaidIsFaithful, ProceedServes, Zenon
<1>4. epoch' \in Nat /\ epochWatch' \in Nat
  BY <1>1, HandlingHere, ProceedBooks, Zenon
<1>5. /\ conn' \in [Conns -> Records] /\ Ready(conn'[h])
      /\ \A g \in Conns \ {h} : conn'[g] = conn[g]
  BY <1>2, Zenon DEF Moves
<1>6. up' \in [Conns -> Seq(Said)]
  BY <1>1, PurgeUpIs, Zenon
<1>. QED
  BY <1>1, <1>3, <1>4, <1>5, <1>6, WiresAre, MoveHeld, Zenon

LEMMA ReadsHeld ==
    ASSUME HeldInv, NEW h \in Conns, ServerReads(h)
    PROVE  HeldInv' /\ Moves(h, Records, ExitFrames(exit))
<1>. DEFINE q == up[h]
<1>1. PICK n \in 1..Len(q) : /\ read_more(h, SubSeq(q, 1, n))
                             /\ up' = [up EXCEPT ![h] = SubSeq(q, n + 1, Len(q))]
  BY Zenon DEF ServerReads
<1>2. UNCHANGED sides /\ UNCHANGED down /\ UNCHANGED air /\ UNCHANGED lost
  BY Zenon DEF ServerReads
<1>3. q \in Seq(Said)
  BY WiresAre, Zenon
<1>. HIDE DEF q
<1>4. SubSeq(q, 1, n) \in Seq(Said) /\ SubSeq(q, n + 1, Len(q)) \in Seq(Said)
  BY <1>3, SuffixesAre, Zenon
<1>5. Moves(h, Records, ExitFrames(exit))
  BY <1>1, <1>4, HandlingHere, ReadMoves, Zenon DEF Records, Feeds
<1>6. UNCHANGED <<shared, bookkeeping>>
  BY <1>1, Zenon DEF read_more
<1>7. up' \in [Conns -> Seq(Said)]
  BY <1>1, <1>4, WiresAre, Zenon
<1>. QED
  BY <1>2, <1>5, <1>6, <1>7, WiresAre, AloneMoveHeld, Zenon

LEMMA SendsHeld ==
    ASSUME HeldInv, NEW h \in Conns, ServerSends(h)
    PROVE  HeldInv'
<1>. DEFINE F == Frames(accepted, latest, exit)
<1>1. /\ Write(h) /\ UNCHANGED sides /\ UNCHANGED up /\ UNCHANGED air /\ UNCHANGED lost
      /\ down' = down \/ down' = [down EXCEPT ![h] = Append(@, Outgoing(h))]
  BY Zenon DEF ServerSends
<1>2. /\ conn' \in [Conns -> Records] /\ Ready(conn'[h])
      /\ \A g \in Conns \ {h} : conn'[g] = conn[g]
      /\ Outgoing(h) \in F
  BY <1>1, HandlingHere, WriteMoves, Zenon DEF Records, Feeds, Frames
<1>3. Append(down[h], Outgoing(h)) \in Seq(F)
  <2>. DEFINE o == Outgoing(h)
  <2>1. down[h] \in Seq(F) /\ o \in F
    BY <1>2, WiresAre, Zenon
  <2>. HIDE DEF F, o
  <2>2. Append(down[h], o) \in Seq(F)
    BY <2>1
  <2>. QED
    BY <2>2, Zenon DEF o
<1>4. down' \in [Conns -> Seq(F)]
  BY <1>1, <1>3, WiresAre, Zenon
<1>5. UNCHANGED <<shared, bookkeeping>>
  BY <1>1, Zenon DEF Write
<1>6. Serves(Said) /\ epoch' \in Nat /\ epochWatch' \in Nat
  BY <1>5, AloneHeld, Zenon
<1>7. up' \in [Conns -> Seq(Said)] /\ air' \in [Conns -> SUBSET Past(latest)]
  BY <1>1, WiresAre, Zenon
<1>. QED
  BY <1>1, <1>2, <1>4, <1>6, <1>7, MoveHeld, Zenon

LEMMA SelectHeld ==
    ASSUME HeldInv, NEW h \in Conns,
           SendLatest(h) \/ AckInput(h) \/ Resync(h) \/ HandlerFails(h)
    PROVE  HeldInv' /\ Moves(h, Records, ExitFrames(exit))
<1>1. UNCHANGED sides /\ UNCHANGED down /\ UNCHANGED lost
  BY Zenon DEF SendLatest, AckInput, Resync, HandlerFails
<1>2. UNCHANGED <<shared, bookkeeping>> /\ Moves(h, Records, ExitFrames(exit))
  <2>1. CASE SendLatest(h)
    <3>1. PICK via \in {"stream", "datagram"} : OnLatest(h, via)
      BY <2>1, Zenon DEF SendLatest
    <3>2. UNCHANGED <<shared, bookkeeping>>
      BY <3>1, Zenon DEF OnLatest
    <3>. QED
      BY <3>1, <3>2, HandlingHere, OnLatestMoves, Zenon DEF Records, Feeds
  <2>2. CASE AckInput(h)
    <3>1. OnAccepted(h)
      BY <2>2, Zenon DEF AckInput
    <3>2. UNCHANGED <<shared, bookkeeping>>
      BY <3>1, Zenon DEF OnAccepted
    <3>. QED
      BY <3>1, <3>2, HandlingHere, OnAcceptedMoves, Zenon DEF Records, Feeds
  <2>3. CASE Resync(h)
    <3>1. OnResync(h)
      BY <2>3, Zenon DEF Resync
    <3>2. UNCHANGED <<shared, bookkeeping>>
      BY <3>1, Zenon DEF OnResync
    <3>. QED
      BY <3>1, <3>2, HandlingHere, OnResyncMoves, Zenon DEF Records, Feeds
  <2>4. CASE HandlerFails(h)
    <3>1. Leave(h) /\ UNCHANGED <<shared, bookkeeping>>
      BY <2>4, Zenon DEF HandlerFails, Broken
    <3>. QED
      BY <3>1, HandlingHere, LeaveMoves, Zenon DEF Records, Feeds
  <2>. QED
    BY <2>1, <2>2, <2>3, <2>4, Zenon
<1>3. up' \in [Conns -> Seq(Said)]
  <2>1. UNCHANGED up \/ PurgeUp(h)
    BY Zenon DEF SendLatest, AckInput, Resync, HandlerFails
  <2>. QED
    BY <2>1, PurgeUpIs, WiresAre, Zenon
<1>4. air' \in [Conns -> SUBSET Past(latest)]
  <2>1. air' = air \/ air' = [air EXCEPT ![h] = @ \cup {latest}]
    BY Zenon DEF SendLatest, AckInput, Resync, HandlerFails
  <2>2. latest \in Past(latest)
    BY ClientIsGood, Zenon DEF Past
  <2>3. air[h] \cup {latest} \in SUBSET Past(latest)
    BY <2>2, WiresAre, Zenon
  <2>. QED
    BY <2>1, <2>3, WiresAre, Zenon
<1>. QED
  BY <1>1, <1>2, <1>3, <1>4, WiresAre, AloneMoveHeld, Zenon
-----------------------------------------------------------------------------
(* The network's and the owner's steps keep the invariant.                 *)

LEMMA LoseHeld ==
    ASSUME HeldInv, NEW h \in Conns, Lose(h)
    PROVE  HeldInv'
<1>1. /\ UNCHANGED notClient /\ UNCHANGED sides /\ UNCHANGED up /\ Purge
      /\ lost' = [lost EXCEPT ![h] = TRUE]
  BY Zenon DEF Lose
<1>2. /\ client' = client /\ link' = link /\ typed' = typed /\ bound' = bound
      /\ route' = route /\ fresh' = fresh
  BY <1>1, Zenon DEF sides, clientVars
<1>3. ClientMoves
  <2>1. SameCore(client, client)
    BY Zenon DEF SameCore
  <2>. QED
    BY <1>2, <2>1, ClientIsGood, CoreMoves, Zenon
<1>4. up' \in [Conns -> Seq(Said')]
  BY <1>1, <1>3, UpStays, Zenon
<1>5. lost' \in [Conns -> BOOLEAN]
  <2>1. TRUE \in BOOLEAN
    OBVIOUS
  <2>. QED
    BY <1>1, <2>1, WiresAre, Zenon
<1>. QED
  BY <1>1, <1>2, <1>3, <1>4, <1>5, PurgeIs, WiresAre, ClientHeld, Zenon

LEMMA OwnerHeld ==
    ASSUME HeldInv, UNCHANGED notShared, UNCHANGED shutdown,
           cmds' \in Seq(Said), lastAcked' \in 0..client.confirmed.version, size' \in AnySize,
           \/ accepted' = accepted /\ accLog' = accLog
           \/ /\ accepted' = accepted + 1 /\ accepted' \in DOMAIN typed
              /\ accLog' = Append(accLog, typed[accepted']),
           latest' \in AnyScreen, latest' = latest \/ latest'.version > latest.version,
           exit' \in Nat \cup {NoExit}, exit' = exit \/ exit = NoExit
    PROVE  HeldInv'
<1>1. /\ client' = client /\ link' = link /\ typed' = typed /\ bound' = bound
      /\ route' = route /\ fresh' = fresh /\ up' = up /\ down' = down /\ air' = air
      /\ lost' = lost /\ conn' = conn /\ epoch' = epoch /\ epochWatch' = epochWatch
  BY Zenon DEF notShared, clientVars, network, bookkeeping
<1>2. /\ typed \in Seq(Data) /\ accLog \in Seq(Data) /\ accepted = Len(accLog)
      /\ accepted \in Nat /\ accepted <= Len(typed)
      /\ \A i \in DOMAIN accLog : accLog[i] = typed[i]
  BY ClientIsGood, Zenon DEF HeldInv, SessionInv
<1>3. /\ accLog' \in Seq(Data) /\ accepted' = Len(accLog') /\ accepted' <= Len(typed)
      /\ \A i \in DOMAIN accLog' : accLog'[i] = typed[i]
      /\ accepted' \in Nat /\ accepted <= accepted'
  <2>1. CASE accepted' = accepted /\ accLog' = accLog
    BY <1>2, <2>1
  <2>2. CASE /\ accepted' = accepted + 1 /\ accepted' \in DOMAIN typed
             /\ accLog' = Append(accLog, typed[accepted'])
    <3>. DEFINE d == typed[accepted']
    <3>1. d \in Data /\ accLog' = Append(accLog, d)
      BY <1>2, <2>2
    <3>2. /\ accLog' \in Seq(Data) /\ accepted' = Len(accLog') /\ accepted' <= Len(typed)
          /\ accepted' \in Nat /\ accepted <= accepted'
      BY <1>2, <2>2, <3>1
    <3>3. \A i \in DOMAIN accLog' : \/ i \in DOMAIN accLog /\ accLog'[i] = accLog[i]
                                    \/ i = accepted' /\ accLog'[i] = d
      <4>. HIDE DEF d
      <4>. QED
        BY <1>2, <2>2, <3>1
    <3>. QED
      BY <1>2, <3>2, <3>3, Zenon DEF d
  <2>. QED
    BY <2>1, <2>2, Zenon
<1>4. Grows
  <2>1. client.confirmed.version <= client'.confirmed.version /\ client'.confirmed.version \in Nat
    BY <1>1, ClientIsGood
  <2>. QED
    BY <1>1, <1>3, <2>1, Zenon DEF Grows
<1>5. /\ Said' = Said /\ Records \subseteq Records'
      /\ Frames(accepted, latest, exit) \subseteq Frames(accepted', latest', exit')
      /\ Past(latest) \subseteq Past(latest')
  BY <1>1, <1>4, HeldGrows, Zenon DEF Said
<1>6. SessionInv'
  BY <1>1, <1>2, <1>3, <1>5, Zenon DEF HeldInv, SessionInv
<1>7. ClientInv'
  <2>1. GoodClient(typed, accepted', client)
    <3>1. PICK k \in 0..Len(typed) : k <= accepted /\ client.unacked = Rest(typed, k)
      BY ClientIsGood, Zenon DEF GoodClient
    <3>2. k <= accepted'
      BY <1>2, <1>3, <3>1
    <3>. QED
      BY <3>1, <3>2, ClientIsGood, Zenon DEF GoodClient
  <2>2. client.confirmed \in Past(latest')
    BY <1>5, ClientIsGood, Zenon
  <2>3. client.exitCode \in {NoExit, exit'} /\ (shutdown' => client.hungup)
    <3>1. shutdown => client.hungup
      BY Zenon DEF HeldInv, ClientInv
    <3>. QED
      BY <3>1, ClientIsGood, Zenon
  <2>. QED
    BY <1>1, <2>1, <2>2, <2>3, Zenon DEF ClientInv
<1>8. HandlersInv'
  <2>1. conn \in [Conns -> Records] /\ \A h \in Conns : Ready(conn[h])
    BY Zenon DEF HeldInv, HandlersInv
  <2>2. conn \in [Conns -> Records']
    BY <1>5, <2>1, Zenon
  <2>. QED
    BY <1>1, <2>1, <2>2, Zenon DEF HandlersInv
<1>9. WiresInv'
  <2>1. Seq(Frames(accepted, latest, exit)) \subseteq Seq(Frames(accepted', latest', exit'))
    BY <1>5, SeqGrows, Zenon
  <2>2. down \in [Conns -> Seq(Frames(accepted', latest', exit'))]
    BY <2>1, WiresAre, Zenon
  <2>3. air \in [Conns -> SUBSET Past(latest')]
    BY <1>5, WiresAre, Zenon
  <2>. QED
    BY <1>1, <1>5, <2>2, <2>3, WiresAre, Zenon DEF WiresInv
<1>10. RouteInv'
  BY <1>1, Zenon DEF HeldInv, RouteInv
<1>. QED
  BY <1>6, <1>7, <1>8, <1>9, <1>10, Zenon DEF HeldInv

LEMMA NextScreenIs ==
    ASSUME HeldInv, NEW s \in AnySize
    PROVE  NextScreen(s) \in AnyScreen /\ NextScreen(s).version > latest.version
  BY ClientIsGood DEF NextScreen, AnyScreen

LEMMA OwnerTakesHeld ==
    ASSUME HeldInv, OwnerTakes
    PROVE  HeldInv'
<1>. DEFINE m == Head(cmds)
<1>1. /\ cmds # <<>> /\ ApiTake /\ UNCHANGED notShared
      /\ latest' = IF m.op = "Resize" THEN NextScreen(m.size) ELSE latest
  BY Zenon DEF OwnerTakes
<1>2. cmds' = Tail(cmds) /\ UNCHANGED shutdown /\ UNCHANGED exit
  BY <1>1, Zenon DEF ApiTake
<1>3. m \in Said /\ cmds' \in Seq(Said)
  <2>1. cmds \in Seq(Said)
    BY Zenon DEF HeldInv, SessionInv
  <2>. QED
    BY <1>1, <1>2, <2>1
<1>4. /\ lastAcked \in 0..client.confirmed.version /\ size \in AnySize
      /\ exit \in Nat \cup {NoExit} /\ latest \in AnyScreen
  BY Zenon DEF HeldInv, SessionInv, ClientInv
<1>. HIDE DEF m
<1>5. CASE /\ m.op = "Input" /\ m.seq = accepted + 1
           /\ accepted' = m.seq /\ accLog' = Append(accLog, m.data)
           /\ UNCHANGED <<size, latest, lastAcked>>
  <2>1. m.seq \in DOMAIN typed /\ m.data = typed[m.seq]
    BY <1>3, <1>5, SaidIs, TypedIs, Zenon
  <2>2. /\ accepted' = accepted + 1 /\ accepted' \in DOMAIN typed
        /\ accLog' = Append(accLog, typed[accepted'])
    BY <1>5, <2>1, Zenon
  <2>. QED
    BY <1>1, <1>2, <1>3, <1>4, <1>5, <2>2, OwnerHeld, Zenon
<1>6. CASE /\ m.op = "Input" /\ m.seq # accepted + 1
           /\ UNCHANGED <<accepted, accLog, size, latest, lastAcked>>
  BY <1>1, <1>2, <1>3, <1>4, <1>6, OwnerHeld, Zenon
<1>7. CASE m.op = "Resize" /\ size' = m.size /\ UNCHANGED <<accepted, accLog, lastAcked>>
  <2>1. m.size \in AnySize
    BY <1>3, <1>7, SaidIs, Zenon
  <2>2. latest' = NextScreen(m.size)
    BY <1>1, <1>7, Zenon
  <2>3. latest' \in AnyScreen /\ latest'.version > latest.version
    BY <2>1, <2>2, NextScreenIs, Zenon
  <2>. QED
    BY <1>1, <1>2, <1>3, <1>4, <1>7, <2>1, <2>3, OwnerHeld, Zenon
<1>8. CASE /\ m.op = "Ack" /\ lastAcked' = AckMax(m.version)
           /\ UNCHANGED <<accepted, accLog, size, latest>>
  <2>1. lastAcked' \in 0..client.confirmed.version
    <3>1. Ack(m.version) \in Said
      BY <1>3, <1>8, SaidIsFaithful, Zenon DEF Faithful
    <3>. QED
      BY <1>8, <3>1, AckCounts, Zenon
  <2>. QED
    BY <1>1, <1>2, <1>3, <1>4, <1>8, <2>1, OwnerHeld, Zenon
<1>. QED
  BY <1>1, <1>5, <1>6, <1>7, <1>8, Zenon DEF ApiTake, m

LEMMA OwnerPublishesHeld ==
    ASSUME HeldInv, OwnerPublishes
    PROVE  HeldInv'
<1>1. /\ latest' = NextScreen(size) /\ UNCHANGED notShared
      /\ UNCHANGED <<cmds, shutdown, accepted, lastAcked, exit, size, accLog>>
  BY Zenon DEF OwnerPublishes, ApiPublish
<1>2. /\ lastAcked \in 0..client.confirmed.version /\ size \in AnySize
      /\ exit \in Nat \cup {NoExit} /\ cmds \in Seq(Said)
  BY Zenon DEF HeldInv, SessionInv, ClientInv
<1>3. latest' \in AnyScreen /\ latest'.version > latest.version
  BY <1>1, <1>2, NextScreenIs, Zenon
<1>. QED
  BY <1>1, <1>2, <1>3, OwnerHeld, Zenon

LEMMA OwnerEndsHeld ==
    ASSUME HeldInv, OwnerEnds
    PROVE  HeldInv'
<1>1. /\ UNCHANGED notShared
      /\ UNCHANGED <<shutdown, accepted, lastAcked, latest, size, accLog>>
      /\ cmds' = cmds \/ cmds' = <<>>
      /\ exit' = exit \/ (exit = NoExit /\ exit' \in Codes)
  BY Zenon DEF OwnerEnds, ApiExit, ApiClose
<1>2. /\ lastAcked \in 0..client.confirmed.version /\ size \in AnySize /\ latest \in AnyScreen
      /\ exit \in Nat \cup {NoExit} /\ cmds \in Seq(Said)
  BY Zenon DEF HeldInv, SessionInv, ClientInv
<1>3. cmds' \in Seq(Said) /\ exit' \in Nat \cup {NoExit} /\ (exit' = exit \/ exit = NoExit)
  BY <1>1, <1>2, EmptyQueue, ApiAssumption, Zenon
<1>. QED
  BY <1>1, <1>2, <1>3, OwnerHeld, Zenon
-----------------------------------------------------------------------------
(* The invariant holds from the first state on.                            *)

LEMMA NewClientIsGood ==
    ASSUME NEW s \in AnySize
    PROVE  /\ GoodClient(<<>>, 0, NewClient(s)) /\ NewClient(s).confirmed = NoScreen
           /\ NewClient(s).exitCode = NoExit /\ NewClient(s).hungup = FALSE
           /\ NoScreen \in AnyScreen /\ NoScreen.version = 0
<1>. DEFINE c == NewClient(s)  t == <<>>  e == EmptyFeed  n == NoScreen
<1>1. n \in AnyScreen /\ n.version = 0
  BY DEF NoScreen, AnyScreen
<1>2. t \in Seq(Data) /\ Len(t) = 0 /\ t \in Seq(Typed(t)) /\ Len(t) - 0 = 0 /\ 0 \in 0..Len(t)
  OBVIOUS
<1>3. e \in ClientFeed(t, 0, FALSE)
  BY EmptyIs, Zenon DEF ClientFeed
<1>4. t = Rest(t, 0)
  <2>1. \A i \in 1..Len(t) : t[i] = Input(0 + i, t[0 + i])
    BY <1>2
  <2>. QED
    BY <1>2, <2>1, RestEqual
<1>5. NoExit \in Nat \cup {NoExit}
  OBVIOUS
<1>6. c = [connected |-> FALSE, helloOk |-> FALSE, feed |-> e,
           sentSeq |-> 0, pendingAck |-> 0, unacked |-> t, seq |-> 0,
           confirmed |-> n, pinging |-> FALSE, size |-> s,
           hungup |-> FALSE, exitCode |-> NoExit]
  BY Zenon DEF NewClient
<1>. DEFINE x == NoExit
<1>. HIDE DEF c, t, e, n, x
<1>7. c = [connected |-> FALSE, helloOk |-> FALSE, feed |-> e,
           sentSeq |-> 0, pendingAck |-> 0, unacked |-> t, seq |-> 0,
           confirmed |-> n, pinging |-> FALSE, size |-> s,
           hungup |-> FALSE, exitCode |-> x]
  BY <1>6, Zenon DEF x
<1>8. x \in Nat \cup {NoExit}
  BY <1>5, Zenon DEF x
<1>9. /\ c \in ClientOf(t, 0, FALSE) /\ c.confirmed = n /\ c.exitCode = x /\ c.hungup = FALSE
      /\ c.seq = 0 /\ c.unacked = t
  BY <1>1, <1>2, <1>3, <1>7, <1>8 DEF ClientOf
<1>10. GoodClient(t, 0, c)
  <2>1. 0 <= 0 /\ 0 \in Nat
    OBVIOUS
  <2>. QED
    BY <1>1, <1>2, <1>4, <1>9, <2>1, Zenon DEF GoodClient
<1>. QED
  BY <1>1, <1>9, <1>10, Zenon DEF c, t, n, x

LEMMA HeldFirst ==
    ASSUME Init
    PROVE  HeldInv
<1>1. /\ bound \in Bounds /\ client = NewClient(bound.term) /\ link = "down" /\ typed = <<>>
      /\ cmds = <<>> /\ shutdown = FALSE /\ accepted = 0 /\ lastAcked = 0 /\ latest = NoScreen
      /\ exit = NoExit /\ size \in ValidSizes /\ accLog = <<>>
      /\ epoch = 0 /\ epochWatch = 0 /\ conn = [h \in Conns |-> NewConn]
      /\ fresh = bound.conns
      /\ up = [h \in Conns |-> <<>>] /\ down = [h \in Conns |-> <<>>]
      /\ air = [h \in Conns |-> {}] /\ lost = [h \in Conns |-> FALSE]
  BY Zenon DEF Init, ApiInit, TransportInit, ClientInit
<1>2. bound.term \in AnySize /\ bound.conns \subseteq Conns
  BY <1>1, QuoshAssumption DEF AnySize
<1>3. /\ GoodClient(typed, accepted, client) /\ client.confirmed = latest
      /\ client.exitCode = exit /\ client.hungup = FALSE
      /\ latest \in AnyScreen /\ latest.version = 0
  BY <1>1, <1>2, NewClientIsGood, Zenon
<1>4. SessionInv
  <2>1. /\ typed \in Seq(Data) /\ accLog \in Seq(Data) /\ accepted = Len(accLog)
        /\ accepted <= Len(typed) /\ \A i \in DOMAIN accLog : accLog[i] = typed[i]
        /\ exit \in Nat \cup {NoExit} /\ epoch \in Nat /\ epochWatch \in Nat
    BY <1>1
  <2>2. size \in AnySize
    BY <1>1, ApiAssumption DEF AnySize
  <2>. QED
    BY <1>1, <1>3, <2>1, <2>2, EmptyQueue, Zenon DEF SessionInv
<1>5. ClientInv
  <2>1. lastAcked \in 0..client.confirmed.version
    BY <1>1, <1>3
  <2>2. latest \in Past(latest)
    BY <1>3, Zenon DEF Past
  <2>. QED
    BY <1>1, <1>3, <2>1, <2>2, Zenon DEF ClientInv
<1>6. HandlersInv
  <2>1. 0 \in 0..accepted
    BY <1>1
  <2>2. NewConn \in Records /\ Ready(NewConn)
    BY <2>1, NewConnIs, Zenon DEF Records, Feeds
  <2>. QED
    BY <1>1, <2>2, Zenon DEF HandlersInv
<1>7. WiresInv
  BY <1>1, EmptyQueue, Zenon DEF WiresInv
<1>8. RouteInv
  <2>1. link \notin {"up", "flushing"} /\ lost \in [Conns -> BOOLEAN]
    BY <1>1
  <2>. QED
    BY <1>1, <1>2, <2>1, Zenon DEF RouteInv
<1>. QED
  BY <1>4, <1>5, <1>6, <1>7, <1>8, Zenon DEF HeldInv

LEMMA HeldStays ==
    ASSUME HeldInv, UNCHANGED vars
    PROVE  HeldInv'
<1>1. /\ UNCHANGED <<cmds, closed, shutdown, accepted, lastAcked, latest, exit, size,
                     registered, accLog>>
      /\ UNCHANGED <<epoch, epochWatch, detached, conn>>
      /\ UNCHANGED <<client, link, failures, typed, bound>>
      /\ UNCHANGED <<route, fresh, up, down, air, lost>>
  BY Zenon DEF vars, shared, bookkeeping, clientVars, network
<1>2. Said' = Said
  BY <1>1, Zenon DEF Said
<1>3. Records' = Records
  BY <1>1, <1>2, Zenon DEF Records, Feeds, ConnOf, Labels, Inputs
<1>. QED
  BY <1>1, <1>2, <1>3, Zenon DEF HeldInv, SessionInv, ClientInv, HandlersInv, WiresInv, RouteInv

LEMMA HeldNext ==
    ASSUME HeldInv, [Next]_vars
    PROVE  HeldInv'
<1>1. CASE \/ ClientSends \/ ClientReceives \/ DatagramArrives \/ User \/ LinkFails
  BY <1>1, ClientSendsHeld, ClientReceivesHeld, DatagramHeld, UserHeld, LinkFailsHeld, Zenon
<1>2. CASE \/ OwnerTakes \/ OwnerPublishes \/ OwnerEnds
  BY <1>2, OwnerTakesHeld, OwnerPublishesHeld, OwnerEndsHeld, Zenon
<1>3. ASSUME NEW h \in Conns,
             \/ Open(h) \/ HelloArrives(h) \/ Handle(h) \/ ServerReads(h) \/ ServerSends(h)
             \/ SendLatest(h) \/ AckInput(h) \/ Resync(h) \/ HandlerFails(h) \/ Lose(h)
      PROVE  HeldInv'
  BY <1>3, OpenHeld, HelloHeld, HandleHeld, ReadsHeld, SendsHeld, SelectHeld, LoseHeld, Zenon
<1>. QED
  BY <1>1, <1>2, <1>3, HeldStays, Zenon DEF Next

\* What anyone in the system holds or is sent was typed, published or
\* confirmed: the queues of Client, Transport and Session and all streams.
THEOREM HeldHolds == Spec => []HeldInv
<1>1. Init => HeldInv
  BY HeldFirst, Zenon
<1>2. HeldInv /\ [Next]_vars => HeldInv'
  BY HeldNext, Zenon
<1>. QED
  BY <1>1, <1>2, PTL DEF Spec
-----------------------------------------------------------------------------
(* What follows for the user.                                              *)

LEMMA HeldGivesExactlyOnce ==
    ASSUME HeldInv
    PROVE  ExactlyOnce
<1>. DEFINE u == client.unacked
<1>1. PICK k \in 0..Len(typed) : k <= accepted /\ u = Rest(typed, k)
  BY ClientIsGood, Zenon DEF GoodClient
<1>2. /\ typed \in Seq(Data) /\ accLog \in Seq(Data) /\ accepted = Len(accLog)
      /\ accepted \in Nat /\ accepted <= Len(typed)
      /\ \A i \in DOMAIN accLog : accLog[i] = typed[i]
  BY ClientIsGood, Zenon DEF HeldInv, SessionInv
<1>. HIDE DEF u
<1>3. /\ Len(u) = Len(typed) - k /\ DOMAIN u = 1..Len(u)
      /\ \A i \in 1..(Len(typed) - k) : u[i].seq = k + i /\ u[i].data = typed[k + i]
  <2>1. /\ u \in Seq(Typed(typed)) /\ Len(u) = Len(typed) - k
        /\ \A i \in 1..(Len(typed) - k) : u[i].seq = k + i /\ u[i].data = typed[k + i]
    BY <1>1, <1>2, RestIs, Zenon
  <2>2. DOMAIN u = 1..Len(u)
    BY <2>1
  <2>. QED
    BY <2>1, <2>2, Zenon
<1>4. \A s \in (accepted + 1)..Len(typed) : \E i \in DOMAIN u : u[i].seq = s
  <2>. SUFFICES ASSUME NEW s \in (accepted + 1)..Len(typed)
                PROVE  \E i \in DOMAIN u : u[i].seq = s
    OBVIOUS
  <2>1. s - k \in 1..(Len(typed) - k) /\ k + (s - k) = s
    BY <1>1, <1>2
  <2>. QED
    BY <1>3, <2>1, Zenon
<1>5. \A i \in DOMAIN u : u[i].data = typed[u[i].seq]
  BY <1>3, Zenon
<1>6. \A i, j \in DOMAIN u : i < j => u[i].seq < u[j].seq
  BY <1>1, <1>2, <1>3
<1>. QED
  BY <1>2, <1>4, <1>5, <1>6, Zenon DEF ExactlyOnce, u

\* Exactly once and in order, across connections, lost frames and handlers
\* that deliver late (Client.unacked, on_control and the owner's check of the
\* sequence number): for any number of connections and any input.
THEOREM ExactlyOnceHolds == Spec => []ExactlyOnce
<1>1. HeldInv => ExactlyOnce
  BY HeldGivesExactlyOnce, Zenon
<1>. QED
  BY <1>1, HeldHolds, PTL

\* Nothing but a user who quits ends the shell (request_hangup): no Hangup is
\* held or under way anywhere unless the client was told to send one.
THEOREM LossNeverHangsUpHolds == Spec => []LossNeverHangsUp
<1>1. HeldInv => LossNeverHangsUp
  BY Zenon DEF HeldInv, ClientInv, LossNeverHangsUp
<1>. QED
  BY <1>1, HeldHolds, PTL

\* The steps that leave the client's program alone.
LEMMA ClientOrNot ==
    ASSUME HeldInv, Next
    PROVE  (ClientMoves /\ UNCHANGED notClient) \/ client' = client
<1>1. CASE ClientSends
  <2>1. ClientWrite /\ UNCHANGED notClient
    BY <1>1, Zenon DEF ClientSends
  <2>. QED
    BY <2>1, WriteKeepsClient, Zenon
<1>2. CASE ClientReceives
  <2>1. ReceiveFrame(Head(down[route])) /\ UNCHANGED notClient /\ link = "up" /\ down[route] # <<>>
    BY <1>2, Zenon DEF ClientReceives
  <2>2. Head(down[route]) \in Frames(accepted, latest, exit)
    <3>. DEFINE F == Frames(accepted, latest, exit)  q == down[route]
    <3>1. q \in Seq(F) /\ q # <<>>
      BY <2>1, WiresAre, Zenon
    <3>. HIDE DEF F, q
    <3>2. Head(q) \in F
      BY <3>1
    <3>. QED
      BY <3>2, Zenon DEF F, q
  <2>. QED
    BY <2>1, <2>2, ReceiveMoves, Zenon
<1>3. CASE DatagramArrives \/ LinkFails
  <2>1. UNCHANGED notClient
    BY <1>3, Zenon DEF DatagramArrives, LinkFails
  <2>. QED
    BY <1>3, <2>1, DatagramHeld, LinkFailsHeld, Zenon
<1>4. CASE User
  <2>1. UNCHANGED notClient
    BY <1>4, Zenon DEF User
  <2>. QED
    BY <1>4, <2>1, UserMoves, Zenon
<1>5. CASE OwnerTakes \/ OwnerPublishes \/ OwnerEnds
  BY <1>5, Zenon DEF OwnerTakes, OwnerPublishes, OwnerEnds, notShared, clientVars
<1>6. ASSUME NEW h \in Conns, Open(h)
      PROVE  ClientMoves /\ UNCHANGED notClient
  <2>1. Connected /\ UNCHANGED notClient
    BY <1>6, Zenon DEF Open
  <2>. QED
    BY <2>1, ConnectedMoves, Zenon
<1>7. ASSUME NEW h \in Conns,
             \/ HelloArrives(h) \/ Handle(h) \/ ServerReads(h) \/ ServerSends(h)
             \/ SendLatest(h) \/ AckInput(h) \/ Resync(h) \/ HandlerFails(h) \/ Lose(h)
      PROVE  client' = client
  <2>1. UNCHANGED sides
    BY <1>7, Zenon DEF HelloArrives, Handle, ServerReads, ServerSends, SendLatest, AckInput,
                       Resync, HandlerFails, Lose
  <2>. QED
    BY <2>1, Zenon DEF sides, clientVars
<1>. QED
  BY <1>1, <1>2, <1>3, <1>4, <1>5, <1>6, <1>7, Zenon DEF Next

\* No order in which streams and datagrams deliver makes the client go back
\* to an older screen (apply_screen).
THEOREM ScreenNeverOlderHolds == Spec => ScreenNeverOlder
<1>1. HeldInv /\ [Next]_vars => [client'.confirmed.version >= client.confirmed.version]_vars
  <2>. SUFFICES ASSUME HeldInv, Next
                PROVE  client'.confirmed.version >= client.confirmed.version
    BY Zenon
  <2>1. CASE client' = client
    BY <2>1, ClientIsGood
  <2>2. CASE ClientMoves
    BY <2>2, Zenon DEF ClientMoves
  <2>. QED
    BY <2>1, <2>2, ClientOrNot, Zenon
<1>. QED
  BY <1>1, HeldHolds, PTL DEF Spec, ScreenNeverOlder
-----------------------------------------------------------------------------
(* The exit status comes after the final screen.                           *)

\* Somewhere on the stream of h there is the newest screen.
Coming(h) == \E j \in DOMAIN down[h] : down[h][j] = Screen(latest)

\* No exit status on the stream of h overtook the newest screen.
Follows(h) ==
    \A i \in DOMAIN down[h] :
        down[h][i].kind = "Exit" => \E j \in 1..(i - 1) : down[h][j] = Screen(latest)

Tellable(h) == Coming(h) \/ Tells(conn[h].feed, Screen(latest), ExitFrames(exit))

ExitOk(h) == Left(h) \/ client.confirmed = latest \/ (Tellable(h) /\ Follows(h))

\* A connection the client still listens to brings the newest screen before
\* an exit status, or the client has that screen.
ExitInv ==
    /\ \A h \in Conns : ExitOk(h)
    /\ client.exitCode # NoExit => client.confirmed = latest

\* A connection the client gave up on is never taken up again.
LEMMA LeftStays ==
    ASSUME HeldInv, [Next]_vars, NEW h \in Conns, Left(h)
    PROVE  Left(h)'
<1>1. /\ h \in bound.conns \ fresh
      /\ lost[h] \/ route # h \/ link \in {"down", "ended", "failed"}
      /\ lost \in [Conns -> BOOLEAN]
  BY WiresAre, Zenon DEF Left
<1>2. CASE \/ UNCHANGED <<route, fresh, lost, link, bound>>
           \/ /\ UNCHANGED <<route, fresh, lost, bound>>
              /\ link' \in {"up", "flushing"} => link \in {"up", "flushing"}
              /\ link' \in {"up", "flushing", "down", "ended", "failed"}
  <2>1. /\ route' = route /\ fresh' = fresh /\ lost' = lost /\ bound' = bound
        /\ \/ link' = link
           \/ /\ link' \in {"up", "flushing"} => link \in {"up", "flushing"}
              /\ link' \in {"up", "flushing", "down", "ended", "failed"}
    BY <1>2, Zenon
  <2>2. link \in {"down", "ended", "failed"} => link' \in {"down", "ended", "failed"}
    BY <2>1
  <2>. QED
    BY <1>1, <2>1, <2>2, Zenon DEF Left
<1>3. CASE \E g \in Conns : Open(g)
  <2>1. PICK g \in Conns : /\ g \in fresh /\ route' = g /\ fresh' = fresh \ {g}
                           /\ lost' = lost /\ bound' = bound
    BY <1>3, Zenon DEF Open, Connected
  <2>2. g # h
    BY <1>1, <2>1, Zenon
  <2>. QED
    BY <1>1, <2>1, <2>2, Zenon DEF Left
<1>4. CASE \E g \in Conns : Lose(g)
  <2>1. PICK g \in Conns : /\ lost' = [lost EXCEPT ![g] = TRUE] /\ UNCHANGED sides
    BY <1>4, Zenon DEF Lose
  <2>2. route' = route /\ fresh' = fresh /\ link' = link /\ bound' = bound
    BY <2>1, Zenon DEF sides, clientVars
  <2>3. lost[h] => lost'[h]
    BY <1>1, <2>1, Zenon
  <2>. QED
    BY <1>1, <2>2, <2>3, Zenon DEF Left
<1>5. CASE \/ OwnerTakes \/ OwnerPublishes \/ OwnerEnds
           \/ \E g \in Conns :
                 \/ HelloArrives(g) \/ Handle(g) \/ ServerReads(g) \/ ServerSends(g)
                 \/ SendLatest(g) \/ AckInput(g) \/ Resync(g) \/ HandlerFails(g)
  <2>1. UNCHANGED notShared \/ (UNCHANGED sides /\ UNCHANGED lost)
    BY <1>5, Zenon DEF HelloArrives, Handle, ServerReads, ServerSends, SendLatest, AckInput,
                       Resync, HandlerFails, OwnerTakes, OwnerPublishes, OwnerEnds
  <2>2. UNCHANGED <<route, fresh, lost, link, bound>>
    BY <2>1, Zenon DEF notShared, sides, clientVars, network
  <2>. QED
    BY <1>2, <2>2, Zenon
<1>6. CASE ClientSends \/ ClientReceives \/ DatagramArrives \/ User \/ LinkFails
  <2>1. UNCHANGED <<route, fresh, lost>>
    BY <1>6, Zenon DEF ClientSends, ClientReceives, DatagramArrives, User, LinkFails
  <2>2. \/ link' = link
        \/ /\ link' \in {"up", "flushing"} => link \in {"up", "flushing"}
           /\ link' \in {"up", "flushing", "down", "ended", "failed"}
    <3>1. CASE ClientSends
      BY <3>1 DEF ClientSends, ClientWrite, Loop
    <3>2. CASE ClientReceives
      BY <3>2 DEF ClientReceives, ReceiveFrame, Loop
    <3>3. CASE DatagramArrives
      BY <3>3 DEF DatagramArrives, ReceiveDatagram, Loop
    <3>4. CASE User
      BY <3>4 DEF User, Type, Winch, Quit, Tick, FlushEnds, Loop
    <3>5. CASE LinkFails
      BY <3>5 DEF LinkFails, StreamEnd, TransportError
    <3>. QED
      BY <1>6, <3>1, <3>2, <3>3, <3>4, <3>5, Zenon
  <2>3. bound' = bound
    BY <1>6, Zenon DEF ClientSends, ClientWrite, ClientReceives, ReceiveFrame, DatagramArrives,
                       ReceiveDatagram, User, Type, Winch, Quit, Tick, FlushEnds, LinkFails,
                       StreamEnd, TransportError
  <2>. QED
    BY <1>2, <2>1, <2>2, <2>3, Zenon
<1>7. CASE UNCHANGED vars
  <2>1. UNCHANGED <<route, fresh, lost, link, bound>>
    BY <1>7, Zenon DEF vars, clientVars, network
  <2>. QED
    BY <1>2, <2>1, Zenon
<1>. QED
  BY <1>3, <1>4, <1>5, <1>6, <1>7, Zenon DEF Next

LEMMA NewestIsLast ==
    ASSUME HeldInv, NEW s \in Past(latest), s.version >= latest.version
    PROVE  s = latest
<1>1. s \in AnyScreen /\ (s.version < latest.version \/ s = latest)
  BY Zenon DEF Past
<1>2. s.version \in Nat /\ latest.version \in Nat
  BY <1>1, ClientIsGood DEF AnyScreen
<1>. QED
  BY <1>1, <1>2

\* Who has the newest screen keeps it as long as it is the newest.
LEMMA NewestStays ==
    ASSUME HeldInv, ClientMoves, client.confirmed = latest
    PROVE  client'.confirmed = latest
<1>1. client'.confirmed \in Past(latest) /\ client'.confirmed.version >= latest.version
  BY Zenon DEF ClientMoves
<1>. QED
  BY <1>1, NewestIsLast, Zenon

\* What is on its way on a connection nobody reads or writes.
LEMMA SameWire ==
    ASSUME NEW h \in Conns, down'[h] = down[h], UNCHANGED <<latest, exit>>,
           conn'[h].feed = conn[h].feed
    PROVE  /\ Coming(h) => Coming(h)'
           /\ Follows(h) => Follows(h)'
           /\ Tellable(h) => Tellable(h)'
<1>1. latest' = latest /\ exit' = exit
  OBVIOUS
<1>2. Coming(h) => Coming(h)'
  BY <1>1, Zenon DEF Coming
<1>3. Follows(h) => Follows(h)'
  BY <1>1, Zenon DEF Follows
<1>4. Tells(conn[h].feed, Screen(latest), ExitFrames(exit))
      => Tells(conn[h].feed, Screen(latest), ExitFrames(exit))'
  BY <1>1, Zenon DEF Tells, ExitFrames
<1>. QED
  BY <1>2, <1>3, <1>4, Zenon DEF Tellable

LEMMA ClientExit ==
    ASSUME HeldInv, ExitInv, [Next]_vars, UNCHANGED notClient, ClientMoves,
           client'.exitCode = client.exitCode,
           \A h \in Conns : down'[h] = down[h] \/ Left(h)'
    PROVE  ExitInv'
<1>1. conn' = conn /\ UNCHANGED <<latest, exit>>
  BY Zenon DEF notClient, shared
<1>2. client.confirmed = latest => client'.confirmed = latest'
  BY <1>1, NewestStays, Zenon
<1>3. ASSUME NEW h \in Conns PROVE ExitOk(h)'
  <2>1. CASE Left(h)'
    BY <2>1, Zenon DEF ExitOk
  <2>2. CASE ~Left(h)'
    <3>1. ~Left(h) /\ down'[h] = down[h] /\ ExitOk(h)
      BY <2>2, LeftStays, Zenon DEF ExitInv
    <3>2. CASE client.confirmed = latest
      BY <1>2, <3>2, Zenon DEF ExitOk
    <3>3. CASE Tellable(h) /\ Follows(h)
      <4>1. Tellable(h)' /\ Follows(h)'
        BY <1>1, <3>1, <3>3, SameWire, Zenon
      <4>. QED
        BY <4>1, Zenon DEF ExitOk
    <3>. QED
      BY <3>1, <3>2, <3>3, Zenon DEF ExitOk
  <2>. QED
    BY <2>1, <2>2, Zenon
<1>4. client'.exitCode # NoExit => client'.confirmed = latest'
  BY <1>2, Zenon DEF ExitInv
<1>. QED
  BY <1>3, <1>4, Zenon DEF ExitInv

LEMMA PurgeLeaves ==
    ASSUME Purge
    PROVE  \A h \in Conns : down'[h] = down[h] \/ Left(h)'
<1>1. down' = [h \in Conns |-> IF Left(h)' THEN <<>> ELSE down[h]]
  BY Zenon DEF Purge
<1>. SUFFICES ASSUME NEW h \in Conns PROVE down'[h] = down[h] \/ Left(h)'
  OBVIOUS
<1>2. CASE Left(h)'
  BY <1>2
<1>3. CASE ~Left(h)'
  BY <1>1, <1>3, Zenon
<1>. QED
  BY <1>2, <1>3, Zenon

\* The client's steps but its reading of the stream.
LEMMA ClientStepsExit ==
    ASSUME HeldInv, ExitInv, Next,
           \/ ClientSends \/ DatagramArrives \/ User \/ LinkFails
           \/ \E h \in Conns : Open(h) \/ Lose(h)
    PROVE  ExitInv'
<1>0. [Next]_vars
  OBVIOUS
<1>1. CASE ClientSends
  <2>1. ClientWrite /\ UNCHANGED notClient /\ down' = down
    BY <1>1, Zenon DEF ClientSends
  <2>. QED
    BY <1>0, <2>1, WriteKeepsClient, ClientExit, Zenon
<1>2. CASE DatagramArrives
  <2>1. PICK s \in air[route] : ReceiveDatagram(s)
    BY <1>2, Zenon DEF DatagramArrives
  <2>2. UNCHANGED notClient /\ down' = down /\ link = "up"
    BY <1>2, Zenon DEF DatagramArrives
  <2>3. s \in Past(latest)
    BY <2>2, WiresAre, Zenon
  <2>4. ClientMoves /\ client'.exitCode = client.exitCode
    BY <2>1, <2>3, ScreenMoves, Zenon DEF ReceiveDatagram
  <2>. QED
    BY <1>0, <2>2, <2>4, ClientExit, Zenon
<1>3. CASE User
  <2>1. UNCHANGED notClient /\ Purge
    BY <1>3, Zenon DEF User
  <2>. QED
    BY <1>0, <1>3, <2>1, UserMoves, PurgeLeaves, ClientExit, Zenon
<1>4. CASE LinkFails
  <2>1. UNCHANGED notClient /\ Purge /\ (StreamEnd \/ TransportError)
    BY <1>4, Zenon DEF LinkFails
  <2>. QED
    BY <1>0, <2>1, LosesMoves, PurgeLeaves, ClientExit, Zenon
<1>5. ASSUME NEW h \in Conns, Open(h) PROVE ExitInv'
  <2>1. UNCHANGED notClient /\ down' = down /\ Connected
    BY <1>5, Zenon DEF Open
  <2>. QED
    BY <1>0, <2>1, ConnectedMoves, ClientExit, Zenon
<1>6. ASSUME NEW h \in Conns, Lose(h) PROVE ExitInv'
  <2>1. UNCHANGED notClient /\ Purge /\ UNCHANGED sides
    BY <1>6, Zenon DEF Lose
  <2>2. client' = client /\ typed' = typed
    BY <2>1, Zenon DEF sides, clientVars
  <2>3. SameCore(client, client)
    BY Zenon DEF SameCore
  <2>4. ClientMoves
    BY <2>2, <2>3, ClientIsGood, CoreMoves, Zenon
  <2>. QED
    BY <1>0, <2>1, <2>2, <2>4, PurgeLeaves, ClientExit, Zenon
<1>. QED
  BY <1>1, <1>2, <1>3, <1>4, <1>5, <1>6, Zenon

\* A reader one frame further.
LEMMA TailFollows ==
    ASSUME NEW S, NEW q \in Seq(S), q # <<>>, NEW s, Head(q) # s
    PROVE  /\ (\E j \in DOMAIN q : q[j] = s) => (\E j \in DOMAIN Tail(q) : Tail(q)[j] = s)
           /\ (\A i \in DOMAIN q : q[i].kind = "Exit" => \E j \in 1..(i - 1) : q[j] = s)
              => (\A i \in DOMAIN Tail(q) :
                     Tail(q)[i].kind = "Exit" => \E j \in 1..(i - 1) : Tail(q)[j] = s)
<1>. DEFINE r == Tail(q)
<1>1. /\ DOMAIN q = 1..Len(q) /\ DOMAIN r = 1..(Len(q) - 1) /\ Len(q) \in Nat /\ Head(q) = q[1]
      /\ \A i \in 1..(Len(q) - 1) : r[i] = q[i + 1]
  OBVIOUS
<1>. HIDE DEF r
<1>2. ASSUME NEW j \in DOMAIN q, q[j] = s
      PROVE  j - 1 \in DOMAIN r /\ r[j - 1] = s
  <2>1. j # 1
    BY <1>1, <1>2
  <2>2. j - 1 \in 1..(Len(q) - 1) /\ (j - 1) + 1 = j
    BY <1>1, <2>1
  <2>. QED
    BY <1>1, <1>2, <2>2, Zenon
<1>3. ASSUME \A i \in DOMAIN q : q[i].kind = "Exit" => \E j \in 1..(i - 1) : q[j] = s,
             NEW i \in DOMAIN r, r[i].kind = "Exit"
      PROVE  \E j \in 1..(i - 1) : r[j] = s
  <2>1. i \in Nat /\ i + 1 \in DOMAIN q /\ i \in 1..(Len(q) - 1)
    BY <1>1
  <2>2. q[i + 1].kind = "Exit"
    BY <1>1, <1>3, <2>1, Zenon
  <2>3. PICK j \in 1..((i + 1) - 1) : q[j] = s
    BY <1>3, <2>1, <2>2, Zenon
  <2>4. j \in DOMAIN q
    BY <1>1, <2>1
  <2>5. j # 1 /\ r[j - 1] = s
    BY <1>1, <1>2, <2>3, <2>4
  <2>6. j - 1 \in 1..(i - 1)
    BY <2>1, <2>5
  <2>. QED
    BY <2>5, <2>6, Zenon
<1>. QED
  BY <1>2, <1>3, Zenon DEF r

LEMMA ScreenAtHead ==
    ASSUME HeldInv, ClientReceives, Head(down[route]) = Screen(latest)
    PROVE  client'.confirmed = latest
<1>. DEFINE f == Head(down[route])
<1>1. ReceiveFrame(f) /\ f = Screen(latest) /\ link = "up" /\ down[route] # <<>>
  BY Zenon DEF ClientReceives
<1>2. latest \in Past(latest)
  BY ClientIsGood, Zenon DEF Past
<1>3. f \in Frames(accepted, latest, exit)
  BY <1>1, <1>2, Zenon DEF Frames, ScreenFrames
<1>4. f.kind # "Error"
  <2>1. f.kind = "Screen"
    BY <1>1, FrameKinds, Zenon
  <2>. QED
    BY <2>1
<1>. HIDE DEF f
<1>5. ClientMoves /\ \E d : /\ Handled(client, d, f, latest, exit)
                            /\ client'.confirmed = d.confirmed
  BY <1>1, <1>3, <1>4, ReceiveMoves, Zenon
<1>6. client'.confirmed.version >= latest.version /\ client'.confirmed \in Past(latest)
  BY <1>1, <1>2, <1>5, Zenon DEF Handled, ClientMoves
<1>. QED
  BY <1>6, NewestIsLast, Zenon

LEMMA ReceivesExit ==
    ASSUME HeldInv, ExitInv, Next, ClientReceives
    PROVE  ExitInv'
<1>. DEFINE f == Head(down[route])  F == Frames(accepted, latest, exit)
<1>1. /\ link = "up" /\ ~lost[route] /\ ReceiveFrame(f)
      /\ down' = [down EXCEPT ![route] = Tail(@)]
      /\ UNCHANGED notClient
      /\ down[route] # <<>>
  BY Zenon DEF ClientReceives
<1>2. conn' = conn /\ latest' = latest /\ exit' = exit
  BY <1>1, Zenon DEF notClient, shared
<1>3. route \in Conns /\ down \in [Conns -> Seq(F)]
  BY <1>1, WiresAre, Zenon
<1>4. f \in F /\ down[route] \in Seq(F) /\ DOMAIN down[route] = 1..Len(down[route])
      /\ f = down[route][1] /\ 1 \in DOMAIN down[route]
  <2>. DEFINE q == down[route]
  <2>1. q \in Seq(F) /\ q # <<>>
    BY <1>1, <1>3, Zenon
  <2>. HIDE DEF F, q
  <2>2. Head(q) \in F /\ Head(q) = q[1] /\ 1 \in DOMAIN q /\ DOMAIN q = 1..Len(q)
    BY <2>1
  <2>. QED
    BY <2>1, <2>2, Zenon DEF q
<1>. HIDE DEF F
<1>5. /\ ClientMoves
      /\ \E d : /\ Handled(client, d, f, latest, exit) \/ (f.kind = "Error" /\ d = client)
                /\ client'.confirmed = d.confirmed /\ client'.exitCode = d.exitCode
  BY <1>1, <1>4, ReceiveMoves, Zenon DEF F
<1>6. client.confirmed = latest => client'.confirmed = latest
  BY <1>5, NewestStays, Zenon
<1>7. f = Screen(latest) => client'.confirmed = latest
  BY ScreenAtHead, Zenon
<1>8. ExitOk(route)
  BY <1>3, Zenon DEF ExitInv
<1>9. ~Left(route)
  <2>1. link \notin {"down", "ended", "failed"}
    BY <1>1
  <2>. QED
    BY <1>1, <2>1, Zenon DEF Left
<1>10. client'.exitCode # NoExit => client'.confirmed = latest
  <2>1. CASE client'.exitCode = client.exitCode
    BY <1>6, <2>1, Zenon DEF ExitInv
  <2>2. CASE client'.exitCode # client.exitCode
    <3>1. f = Exit(exit)
      BY <1>5, <2>2, Zenon DEF Handled
    <3>2. down[route][1].kind = "Exit"
      <4>1. down[route][1] = Exit(exit)
        BY <1>4, <3>1, Zenon
      <4>. QED
        BY <4>1 DEF Exit
    <3>3. ~Follows(route)
      <4>1. ~\E j \in 1..(1 - 1) : down[route][j] = Screen(latest)
        OBVIOUS
      <4>. QED
        BY <1>4, <3>2, <4>1, Zenon DEF Follows
    <3>. QED
      BY <1>6, <1>8, <1>9, <3>3, Zenon DEF ExitOk
  <2>. QED
    BY <2>1, <2>2, Zenon
<1>11. ASSUME NEW h \in Conns, h # route PROVE ExitOk(h)'
  <2>1. down'[h] = down[h] /\ ExitOk(h) /\ (Left(h) => Left(h)')
    <3>1. down'[h] = down[h]
      BY <1>1, <1>3, <1>11, Zenon
    <3>2. Left(h) => Left(h)'
      BY LeftStays, Zenon
    <3>. QED
      BY <3>1, <3>2, Zenon DEF ExitInv
  <2>2. (Tellable(h) => Tellable(h)') /\ (Follows(h) => Follows(h)')
    BY <1>2, <2>1, SameWire, Zenon
  <2>. QED
    BY <1>2, <1>6, <2>1, <2>2, Zenon DEF ExitOk
<1>12. ExitOk(route)'
  <2>1. CASE client'.confirmed = latest
    BY <1>2, <2>1, Zenon DEF ExitOk
  <2>2. CASE client'.confirmed # latest
    <3>1. f # Screen(latest) /\ Tellable(route) /\ Follows(route)
      BY <1>6, <1>7, <1>8, <1>9, <2>2, Zenon DEF ExitOk
    <3>. DEFINE q == down[route]  s == Screen(latest)
    <3>2. down'[route] = Tail(q)
      BY <1>1, <1>3, Zenon
    <3>3. q \in Seq(F) /\ q # <<>> /\ Head(q) # s
      BY <1>1, <1>4, <3>1, Zenon
    <3>4. /\ (\E j \in DOMAIN q : q[j] = s) => (\E j \in DOMAIN Tail(q) : Tail(q)[j] = s)
          /\ (\A i \in DOMAIN q : q[i].kind = "Exit" => \E j \in 1..(i - 1) : q[j] = s)
             => (\A i \in DOMAIN Tail(q) :
                    Tail(q)[i].kind = "Exit" => \E j \in 1..(i - 1) : Tail(q)[j] = s)
      <4>. HIDE DEF q, s
      <4>. QED
        BY <3>3, TailFollows, Zenon
    <3>5. Coming(route) => \E j \in DOMAIN down'[route] : down'[route][j] = s
      BY <3>2, <3>4, Zenon DEF Coming
    <3>6. \A i \in DOMAIN down'[route] :
             down'[route][i].kind = "Exit" => \E j \in 1..(i - 1) : down'[route][j] = s
      BY <3>1, <3>2, <3>4, Zenon DEF Follows
    <3>7. route' = route
      BY Zenon DEF ClientReceives
    <3>8. Follows(route)' /\ (Coming(route) => Coming(route)')
      BY <1>2, <3>5, <3>6, <3>7, Zenon DEF Follows, Coming
    <3>9. Tellable(route)'
      <4>1. Tells(conn[route].feed, s, ExitFrames(exit))
            => Tells(conn[route].feed, Screen(latest), ExitFrames(exit))'
        BY <1>2, <3>7, Zenon DEF Tells, ExitFrames
      <4>. QED
        BY <3>1, <3>8, <4>1, Zenon DEF Tellable
    <3>. QED
      BY <3>8, <3>9, Zenon DEF ExitOk
  <2>. QED
    BY <2>1, <2>2, Zenon
<1>13. route' = route
  BY Zenon DEF ClientReceives
<1>14. ASSUME NEW h \in Conns PROVE ExitOk(h)'
  <2>1. CASE h = route
    <3>1. ExitOk(h)' <=> ExitOk(route)'
      BY <1>13, <2>1, Zenon DEF ExitOk, Left, Tellable, Coming, Follows
    <3>. QED
      BY <1>12, <3>1, Zenon
  <2>. QED
    BY <1>11, <2>1, Zenon
<1>. QED
  BY <1>2, <1>10, <1>14, Zenon DEF ExitInv

LEMMA NewestSeen ==
    ASSUME HeldInv, latest = NoScreen
    PROVE  client.confirmed = latest
<1>1. latest.version = 0
  BY DEF NoScreen
<1>2. client.confirmed.version \in Nat /\ client.confirmed \in Past(latest)
  BY ClientIsGood, Zenon
<1>3. client.confirmed.version >= latest.version
  BY <1>1, <1>2
<1>. QED
  BY <1>2, <1>3, NewestIsLast, Zenon

LEMMA HandlerExit ==
    ASSUME HeldInv, ExitInv, [Next]_vars, NEW h \in Conns,
           client' = client, latest' = latest, exit' = exit,
           \A g \in Conns \ {h} : conn'[g] = conn[g] /\ down'[g] = down[g],
           (client.confirmed # latest /\ ~Left(h) /\ Tellable(h) /\ Follows(h))
           => (Tellable(h)' /\ Follows(h)')
    PROVE  ExitInv'
<1>1. ASSUME NEW g \in Conns PROVE ExitOk(g)'
  <2>1. ExitOk(g) /\ (Left(g) => Left(g)')
    <3>1. ExitOk(g)
      BY Zenon DEF ExitInv
    <3>. QED
      BY <3>1, LeftStays, Zenon
  <2>2. CASE Left(g) \/ client.confirmed = latest
    BY <2>1, <2>2, Zenon DEF ExitOk
  <2>3. CASE ~Left(g) /\ client.confirmed # latest
    <3>1. Tellable(g) /\ Follows(g)
      BY <2>1, <2>3, Zenon DEF ExitOk
    <3>2. CASE g = h
      <4>1. Tellable(h)' /\ Follows(h)'
        BY <2>3, <3>1, <3>2, Zenon
      <4>2. (Tellable(g)' <=> Tellable(h)') /\ (Follows(g)' <=> Follows(h)')
        BY <3>2, Zenon DEF Tellable, Follows, Coming
      <4>. QED
        BY <4>1, <4>2, Zenon DEF ExitOk
    <3>3. CASE g # h
      <4>1. conn'[g].feed = conn[g].feed /\ down'[g] = down[g]
        BY <3>3, Zenon
      <4>2. Tellable(g)' /\ Follows(g)'
        BY <3>1, <4>1, SameWire, Zenon
      <4>. QED
        BY <4>2, Zenon DEF ExitOk
    <3>. QED
      BY <3>2, <3>3, Zenon
  <2>. QED
    BY <2>2, <2>3, Zenon
<1>2. client'.exitCode # NoExit => client'.confirmed = latest'
  BY Zenon DEF ExitInv
<1>. QED
  BY <1>1, <1>2, Zenon DEF ExitInv

LEMMA AppendFollows ==
    ASSUME NEW S, NEW q \in Seq(S), NEW s, NEW o,
           o.kind = "Exit" => \E j \in DOMAIN q : q[j] = s
    PROVE  /\ (\E j \in DOMAIN q : q[j] = s)
              => (\E j \in DOMAIN Append(q, o) : Append(q, o)[j] = s)
           /\ \E j \in DOMAIN Append(q, o) : Append(q, o)[j] = o
           /\ (\A i \in DOMAIN q : q[i].kind = "Exit" => \E j \in 1..(i - 1) : q[j] = s)
              => (\A i \in DOMAIN Append(q, o) :
                     Append(q, o)[i].kind = "Exit"
                     => \E j \in 1..(i - 1) : Append(q, o)[j] = s)
<1>. DEFINE r == Append(q, o)  n == Len(q)
<1>1. /\ n \in Nat /\ DOMAIN q = 1..n /\ DOMAIN r = 1..(n + 1)
      /\ \A i \in 1..n : r[i] = q[i]
      /\ r[n + 1] = o
  OBVIOUS
<1>. HIDE DEF r, n
<1>2. \A j \in DOMAIN q : j \in DOMAIN r /\ r[j] = q[j]
  BY <1>1
<1>3. n + 1 \in DOMAIN r
  BY <1>1
<1>4. ASSUME \A i \in DOMAIN q : q[i].kind = "Exit" => \E j \in 1..(i - 1) : q[j] = s,
             NEW i \in DOMAIN r, r[i].kind = "Exit"
      PROVE  \E j \in 1..(i - 1) : r[j] = s
  <2>1. CASE i = n + 1
    <3>1. PICK j \in DOMAIN q : q[j] = s
      BY <1>1, <1>4, <2>1, Zenon
    <3>2. j \in 1..(i - 1) /\ r[j] = s
      BY <1>1, <1>2, <2>1, <3>1
    <3>. QED
      BY <3>2, Zenon
  <2>2. CASE i # n + 1
    <3>1. i \in DOMAIN q
      BY <1>1, <2>2
    <3>2. PICK j \in 1..(i - 1) : q[j] = s
      BY <1>2, <1>4, <3>1, Zenon
    <3>3. j \in DOMAIN q
      BY <1>1, <3>1, <3>2
    <3>. QED
      BY <1>2, <3>2, <3>3, Zenon
  <2>. QED
    BY <2>1, <2>2, Zenon
<1>. QED
  BY <1>1, <1>2, <1>3, <1>4, Zenon DEF r

\* A handler's frame o on the stream.
LEMMA AppendWire ==
    ASSUME HeldInv, NEW h \in Conns, NEW o, latest' = latest,
           down' = [down EXCEPT ![h] = Append(@, o)],
           o.kind = "Exit" => Coming(h)
    PROVE  /\ Coming(h) => Coming(h)'
           /\ Follows(h) => Follows(h)'
           /\ o = Screen(latest) => Coming(h)'
<1>. DEFINE q == down[h]  s == Screen(latest)  F == Frames(accepted, latest, exit)
<1>1. q \in Seq(F) /\ down'[h] = Append(q, o)
  BY WiresAre, Zenon
<1>2. o.kind = "Exit" => \E j \in DOMAIN q : q[j] = s
  BY Zenon DEF Coming
<1>3. /\ (\E j \in DOMAIN q : q[j] = s)
         => (\E j \in DOMAIN Append(q, o) : Append(q, o)[j] = s)
      /\ \E j \in DOMAIN Append(q, o) : Append(q, o)[j] = o
      /\ (\A i \in DOMAIN q : q[i].kind = "Exit" => \E j \in 1..(i - 1) : q[j] = s)
         => (\A i \in DOMAIN Append(q, o) :
                Append(q, o)[i].kind = "Exit"
                => \E j \in 1..(i - 1) : Append(q, o)[j] = s)
  <2>. HIDE DEF q, s, F
  <2>. QED
    BY <1>1, <1>2, AppendFollows
<1>. QED
  BY <1>1, <1>3, Zenon DEF Coming, Follows

LEMMA SendsExit ==
    ASSUME HeldInv, ExitInv, Next, NEW h \in Conns, ServerSends(h)
    PROVE  ExitInv'
<1>. DEFINE o == Outgoing(h)  s == Screen(latest)  X == ExitFrames(exit)
<1>0. [Next]_vars
  OBVIOUS
<1>1. /\ Write(h) /\ UNCHANGED sides /\ UNCHANGED <<shared, bookkeeping>>
      /\ down' = IF Left(h) THEN down ELSE [down EXCEPT ![h] = Append(@, o)]
  BY Zenon DEF ServerSends, Write
<1>2. client' = client /\ latest' = latest /\ exit' = exit
  BY <1>1, Zenon DEF sides, clientVars, shared
<1>3. /\ \A g \in Conns \ {h} : conn'[g] = conn[g]
      /\ o \in CtrlFrames(accepted) \cup ScreenFrames(latest) \cup X
      /\ conn[h].feed.out = <<o>>
      /\ Tells(conn[h].feed, s, X) /\ o # s => Tells(conn'[h].feed, s, X)
  <2>. HIDE DEF o, s
  <2>. QED
    BY <1>1, HandlingHere, WriteMoves, Zenon DEF o
<1>4. \A g \in Conns \ {h} : conn'[g] = conn[g] /\ down'[g] = down[g]
  BY <1>1, <1>3, WiresAre, Zenon
<1>5. ASSUME ~Left(h), Tellable(h), Follows(h) PROVE Tellable(h)' /\ Follows(h)'
  <2>1. down' = [down EXCEPT ![h] = Append(@, o)]
    BY <1>1, <1>5, Zenon
  <2>2. o.kind = "Exit" => Coming(h)
    <3>. SUFFICES ASSUME o.kind = "Exit" PROVE Coming(h)
      OBVIOUS
    <3>1. o \in X
      BY <1>3, FramesDiffer, Zenon DEF Frames
    <3>2. ~Tells(conn[h].feed, s, X)
      BY <1>3, <3>1, Zenon DEF Tells
    <3>. QED
      BY <1>5, <3>2, Zenon DEF Tellable
  <2>. HIDE DEF o
  <2>3. /\ Coming(h) => Coming(h)'
        /\ Follows(h) => Follows(h)'
        /\ o = s => Coming(h)'
    BY <1>2, <2>1, <2>2, AppendWire, Zenon
  <2>4. Tells(conn[h].feed, s, X) /\ o # s => Tells(conn[h].feed, s, X)'
    BY <1>2, <1>3, Zenon DEF Tells, ExitFrames
  <2>. QED
    BY <1>5, <2>3, <2>4, Zenon DEF Tellable
<1>. HIDE DEF o, s, X
<1>. QED
  BY <1>0, <1>2, <1>4, <1>5, HandlerExit, Zenon

\* A handler's step that writes nothing.
LEMMA MoveExit ==
    ASSUME HeldInv, ExitInv, [Next]_vars, NEW h \in Conns, UNCHANGED sides,
           latest' = latest, exit' = exit, Moves(h, Records, ExitFrames(exit)),
           \/ down' = down
           \/ down' = [down EXCEPT ![h] = Append(@, Error)]
    PROVE  ExitInv'
<1>. DEFINE s == Screen(latest)  X == ExitFrames(exit)
<1>1. client' = client
  BY Zenon DEF sides, clientVars
<1>2. /\ \A g \in Conns \ {h} : conn'[g] = conn[g]
      /\ latest = NoScreen \/ (Tells(conn[h].feed, s, X) => Tells(conn'[h].feed, s, X))
  BY Zenon DEF Moves, StillTells
<1>3. \A g \in Conns \ {h} : conn'[g] = conn[g] /\ down'[g] = down[g]
  BY <1>2, WiresAre, Zenon
<1>4. (Coming(h) => Coming(h)') /\ (Follows(h) => Follows(h)')
  <2>1. CASE down' = down
    BY <2>1, Zenon DEF Coming, Follows
  <2>2. CASE down' = [down EXCEPT ![h] = Append(@, Error)]
    <3>1. Error.kind # "Exit"
      BY DEF Error
    <3>. QED
      BY <2>2, <3>1, AppendWire, Zenon
  <2>. QED
    BY <2>1, <2>2, Zenon
<1>5. ASSUME client.confirmed # latest, Tellable(h), Follows(h)
      PROVE  Tellable(h)' /\ Follows(h)'
  <2>1. Tells(conn[h].feed, s, X) => Tells(conn'[h].feed, s, X)
    BY <1>2, <1>5, NewestSeen, Zenon
  <2>2. Tells(conn[h].feed, s, X) => Tells(conn[h].feed, s, X)'
    BY <2>1, Zenon DEF Tells, ExitFrames
  <2>. QED
    BY <1>4, <1>5, <2>2, Zenon DEF Tellable
<1>. HIDE DEF s, X
<1>. QED
  BY <1>1, <1>3, <1>5, HandlerExit, Zenon

LEMMA HandlerStepsExit ==
    ASSUME HeldInv, ExitInv, Next, NEW h \in Conns,
           \/ HelloArrives(h) \/ Handle(h) \/ ServerReads(h)
           \/ SendLatest(h) \/ AckInput(h) \/ Resync(h) \/ HandlerFails(h)
    PROVE  ExitInv'
<1>1. [Next]_vars
  OBVIOUS
<1>2. UNCHANGED sides
  BY Zenon DEF HelloArrives, Handle, ServerReads, SendLatest, AckInput, Resync, HandlerFails
<1>3. Moves(h, Records, ExitFrames(exit)) /\ latest' = latest /\ exit' = exit
  <2>1. CASE HelloArrives(h)
    <3>. DEFINE q == up[h]
    <3>1. q # <<>> /\ Head(q).op = "Hello" /\ Lookup(h, Head(q).size)
      BY <2>1, Zenon DEF HelloArrives
    <3>2. Head(q) \in Said
      <4>1. q \in Seq(Said)
        BY WiresAre, Zenon
      <4>. HIDE DEF q
      <4>. QED
        BY <3>1, <4>1
    <3>3. Head(q).size \in AnySize
      BY <3>1, <3>2, SaidIs, Zenon
    <3>4. latest' = latest /\ exit' = exit
      BY <3>1, Zenon DEF Lookup, shared
    <3>. QED
      BY <3>1, <3>3, <3>4, HandlingHere, LookupMoves, Zenon DEF Records, Feeds
  <2>2. CASE Handle(h)
    <3>1. Proceed(h)
      BY <2>2, Zenon DEF Handle
    <3>2. Serves(Said)
      BY <3>1, HandlingHere, SaidIsFaithful, ProceedServes, Zenon
    <3>3. latest' = latest /\ exit' = exit
      BY <3>2, Zenon DEF Serves
    <3>. QED
      BY <3>1, <3>3, HandlingHere, ProceedMoves, Zenon DEF Records, Feeds
  <2>3. CASE ServerReads(h)
    <3>1. latest' = latest /\ exit' = exit
      BY <2>3, Zenon DEF ServerReads, read_more, shared
    <3>. QED
      BY <2>3, <3>1, ReadsHeld, Zenon
  <2>4. CASE SendLatest(h) \/ AckInput(h) \/ Resync(h) \/ HandlerFails(h)
    <3>1. latest' = latest /\ exit' = exit
      BY <2>4, Zenon DEF SendLatest, AckInput, Resync, HandlerFails, OnLatest, OnAccepted,
                         OnResync, Broken, shared
    <3>. QED
      BY <2>4, <3>1, SelectHeld, Zenon
  <2>. QED
    BY <2>1, <2>2, <2>3, <2>4, Zenon
<1>4. down' = down \/ down' = [down EXCEPT ![h] = Append(@, Error)]
  BY Zenon DEF HelloArrives, Handle, ServerReads, SendLatest, AckInput, Resync, HandlerFails
<1>. QED
  BY <1>1, <1>2, <1>3, <1>4, MoveExit, Zenon

\* Before the session has an exit status no exit status is under way.
LEMMA NoExitYet ==
    ASSUME HeldInv, exit = NoExit, NEW h \in Conns
    PROVE  /\ \A l, x : Tells(conn[h].feed, Screen(l), ExitFrames(x))
           /\ \A i \in DOMAIN down[h] : down[h][i].kind # "Exit"
           /\ client.exitCode = NoExit
<1>. DEFINE C == CtrlFrames(accepted)  S == ScreenFrames(latest)
            f == conn[h].feed  F == Frames(accepted, latest, exit)  q == down[h]
<1>1. ExitFrames(exit) = {}
  BY Zenon DEF ExitFrames
<1>2. f \in FeedOf(C, S, {})
  <2>1. conn[h] \in ConnOf(Said, 0..accepted, Feeds)
    BY Zenon DEF HeldInv, HandlersInv, Records
  <2>2. conn[h].feed \in Feeds
    <3>. HIDE DEF HeldInv
    <3>. DEFINE A == 0..accepted  G == Feeds
    <3>1. conn[h] \in ConnOf(Said, A, G)
      BY <2>1, Zenon
    <3>. HIDE DEF A, G
    <3>2. conn[h].feed \in G
      BY <3>1 DEF ConnOf
    <3>. QED
      BY <3>2, Zenon DEF G
  <2>. QED
    BY <1>1, <2>2, Zenon DEF Feeds
<1>3. \A x : \A y \in ExitFrames(x) : y \notin C \cup S
  BY FramesDiffer, Zenon
<1>4. q \in Seq(F) /\ \A y \in F : y.kind # "Exit"
  <2>1. \A y \in F : y.kind # "Exit"
    BY <1>1, FramesDiffer, Zenon
  <2>. QED
    BY <2>1, WiresAre, Zenon
<1>. HIDE DEF C, S, f, F, q
<1>5. f.fin = <<>> /\ f.out \in Opt(C \cup S)
  <2>1. f.fin \in Opt({}) /\ f.out \in Opt(C \cup S \cup {}) /\ C \cup S \cup {} = C \cup S
    BY <1>2 DEF FeedOf
  <2>2. f.fin = <<>>
    BY <2>1 DEF Opt
  <2>. QED
    BY <2>1, <2>2
<1>6. ASSUME NEW x, NEW y \in ExitFrames(x) PROVE f.out # <<y>>
  <2>1. f.out = <<>> \/ \E z \in C \cup S : f.out = <<z>>
    BY <1>5, OptIs, Zenon
  <2>2. y \notin C \cup S
    BY <1>3, Zenon
  <2>. QED
    BY <2>1, <2>2
<1>7. \A l, x : Tells(f, Screen(l), ExitFrames(x))
  BY <1>5, <1>6, Zenon DEF Tells
<1>8. \A i \in DOMAIN q : q[i].kind # "Exit"
  BY <1>4
<1>9. client.exitCode = NoExit
  BY ClientIsGood
<1>. QED
  BY <1>7, <1>8, <1>9, Zenon DEF f, q

LEMMA OwnerExit ==
    ASSUME HeldInv, ExitInv, OwnerTakes \/ OwnerPublishes \/ OwnerEnds
    PROVE  ExitInv'
<1>1. UNCHANGED notShared
  BY Zenon DEF OwnerTakes, OwnerPublishes, OwnerEnds
<1>2. client' = client /\ conn' = conn /\ down' = down
      /\ \A h \in Conns : Left(h)' <=> Left(h)
  BY <1>1, Zenon DEF notShared, clientVars, network, Left
<1>3. (latest' = latest /\ exit' = exit) \/ exit = NoExit
  BY Zenon DEF OwnerTakes, OwnerPublishes, OwnerEnds, ApiTake, ApiPublish, ApiExit, ApiClose
<1>4. CASE latest' = latest /\ exit' = exit
  <2>1. ASSUME NEW h \in Conns PROVE ExitOk(h)'
    <3>1. ExitOk(h)
      BY Zenon DEF ExitInv
    <3>2. (Tellable(h) => Tellable(h)') /\ (Follows(h) => Follows(h)')
      BY <1>2, <1>4, SameWire, Zenon
    <3>. QED
      BY <1>2, <1>4, <3>1, <3>2, Zenon DEF ExitOk
  <2>2. client'.exitCode # NoExit => client'.confirmed = latest'
    BY <1>2, <1>4, Zenon DEF ExitInv
  <2>. QED
    BY <2>1, <2>2, Zenon DEF ExitInv
<1>5. CASE exit = NoExit
  <2>1. ASSUME NEW h \in Conns PROVE ExitOk(h)'
    <3>1. Tells(conn[h].feed, Screen(latest'), ExitFrames(exit'))
      BY <1>5, NoExitYet, Zenon
    <3>2. Tellable(h)'
      BY <1>2, <3>1, Zenon DEF Tellable
    <3>3. Follows(h)'
      BY <1>2, <1>5, NoExitYet, Zenon DEF Follows
    <3>. QED
      BY <3>2, <3>3, Zenon DEF ExitOk
  <2>2. client'.exitCode = NoExit
    BY <1>2, ClientIsGood, <1>5
  <2>. QED
    BY <2>1, <2>2, Zenon DEF ExitInv
<1>. QED
  BY <1>3, <1>4, <1>5, Zenon

LEMMA ExitFirst ==
    ASSUME Init
    PROVE  ExitInv
<1>1. client = NewClient(bound.term) /\ latest = NoScreen /\ bound \in Bounds
  BY Zenon DEF Init, ApiInit, ClientInit
<1>2. bound.term \in AnySize
  BY <1>1, QuoshAssumption DEF AnySize
<1>3. client.confirmed = latest
  BY <1>1, <1>2, NewClientIsGood, Zenon
<1>. QED
  BY <1>3, Zenon DEF ExitInv, ExitOk

LEMMA ExitNext ==
    ASSUME HeldInv, ExitInv, [Next]_vars
    PROVE  ExitInv'
<1>1. CASE Next
  <2>1. CASE OwnerTakes \/ OwnerPublishes \/ OwnerEnds
    BY <2>1, OwnerExit, Zenon
  <2>2. CASE ClientReceives
    BY <1>1, <2>2, ReceivesExit, Zenon
  <2>3. CASE \/ ClientSends \/ DatagramArrives \/ User \/ LinkFails
             \/ \E h \in Conns : Open(h) \/ Lose(h)
    BY <1>1, <2>3, ClientStepsExit, Zenon
  <2>4. ASSUME NEW h \in Conns,
               \/ HelloArrives(h) \/ Handle(h) \/ ServerReads(h)
               \/ SendLatest(h) \/ AckInput(h) \/ Resync(h) \/ HandlerFails(h)
        PROVE  ExitInv'
    BY <1>1, <2>4, HandlerStepsExit, Zenon
  <2>5. ASSUME NEW h \in Conns, ServerSends(h) PROVE ExitInv'
    BY <1>1, <2>5, SendsExit, Zenon
  <2>. QED
    BY <1>1, <2>1, <2>2, <2>3, <2>4, <2>5, Zenon DEF Next
<1>2. CASE UNCHANGED vars
  <2>1. /\ UNCHANGED <<latest, exit, conn, client, link, bound, route, fresh, down, lost>>
    BY <1>2, Zenon DEF vars, shared, clientVars, network
  <2>2. client' = client /\ latest' = latest /\ exit' = exit /\ conn' = conn /\ down' = down
    BY <2>1, Zenon
  <2>3. ASSUME NEW h \in Conns PROVE ExitOk(h)'
    <3>1. ExitOk(h) /\ (Left(h) => Left(h)')
      <4>1. Left(h) => Left(h)'
        BY LeftStays, Zenon
      <4>. QED
        BY <4>1, Zenon DEF ExitInv
    <3>2. (Tellable(h) => Tellable(h)') /\ (Follows(h) => Follows(h)')
      BY <2>2, SameWire, Zenon
    <3>. QED
      BY <2>2, <3>1, <3>2, Zenon DEF ExitOk
  <2>. QED
    BY <2>2, <2>3, Zenon DEF ExitInv
<1>. QED
  BY <1>1, <1>2, Zenon

\* The client shows what the session takes it to show: nobody confirms a
\* screen the client has not applied, and an exit status reaches the user
\* after the final screen (queue_exit), over whichever connection it comes.
THEOREM ShownAsToldHolds == Spec => []ShownAsTold
<1>1. Init => HeldInv /\ ExitInv
  BY HeldFirst, ExitFirst, Zenon
<1>2. HeldInv /\ ExitInv /\ [Next]_vars => HeldInv' /\ ExitInv'
  BY HeldNext, ExitNext, Zenon
<1>3. HeldInv /\ ExitInv => ShownAsTold
  <2>. SUFFICES ASSUME HeldInv, ExitInv PROVE ShownAsTold
    OBVIOUS
  <2>1. lastAcked \in 0..client.confirmed.version /\ client.exitCode \in {NoExit, exit}
    BY Zenon DEF HeldInv, ClientInv
  <2>2. lastAcked <= client.confirmed.version
    BY <2>1
  <2>. QED
    BY <2>1, <2>2, Zenon DEF ExitInv, ShownAsTold
<1>. QED
  BY <1>1, <1>2, <1>3, PTL DEF Spec
=============================================================================
