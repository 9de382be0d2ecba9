---------------------------- MODULE TransportProofs ----------------------------
(***************************************************************************)
(* What the handlers of Transport do to the frames they hold, for every    *)
(* budget and any number of connections: the lemmas on which theorems      *)
(* about Server and Quosh rest.                                            *)
(***************************************************************************)
EXTENDS Transport, SequenceTheorems, TLAPS

-----------------------------------------------------------------------------
(* A feed by the frames it may hold: control frames C, screens S and final *)
(* frames X.                                                               *)

Opt(S) == {<<>>} \cup {<<x>> : x \in S}

FeedOf(C, S, X) ==
    [out : Opt(C \cup S \cup X), left : Int, screen : Opt(S), ctrl : Seq(C),
     ctrlBytes : Int, fin : Opt(X)]

LEMMA OptIs ==
    ASSUME NEW S, NEW q \in Opt(S)
    PROVE  q = <<>> \/ \E x \in S : q = <<x>> /\ Head(q) = x /\ <<Head(q)>> = q
  BY DEF Opt

LEMMA OptHas ==
    ASSUME NEW S, NEW x \in S
    PROVE  <<x>> \in Opt(S) /\ <<>> \in Opt(S) /\ <<x>> # <<>> /\ Head(<<x>>) = x
  BY DEF Opt

LEMMA OptGrows ==
    ASSUME NEW S, NEW T, S \subseteq T
    PROVE  Opt(S) \subseteq Opt(T)
  BY DEF Opt

LEMMA SeqGrows ==
    ASSUME NEW S, NEW T, S \subseteq T
    PROVE  Seq(S) \subseteq Seq(T)
  BY SeqMonotonic

LEMMA FeedGrows ==
    ASSUME NEW C, NEW S, NEW X, NEW D, NEW T, NEW Y,
           C \subseteq D, S \subseteq T, X \subseteq Y
    PROVE  FeedOf(C, S, X) \subseteq FeedOf(D, T, Y)
<1>1. /\ Opt(C \cup S \cup X) \subseteq Opt(D \cup T \cup Y) /\ Opt(S) \subseteq Opt(T)
      /\ Opt(X) \subseteq Opt(Y) /\ Seq(C) \subseteq Seq(D)
  <2>1. C \cup S \cup X \subseteq D \cup T \cup Y
    OBVIOUS
  <2>. QED
    BY <2>1, OptGrows, SeqGrows
<1>. QED
  BY <1>1 DEF FeedOf

\* Changes of a feed, field by field.
LEMMA SetScreen ==
    ASSUME NEW C, NEW S, NEW X, NEW f \in FeedOf(C, S, X), NEW q \in Opt(S),
           NEW g, g = [f EXCEPT !.screen = q]
    PROVE  /\ g \in FeedOf(C, S, X) /\ g.out = f.out /\ g.left = f.left /\ g.screen = q
           /\ g.ctrl = f.ctrl /\ g.ctrlBytes = f.ctrlBytes /\ g.fin = f.fin
  BY DEF FeedOf

LEMMA SetFin ==
    ASSUME NEW C, NEW S, NEW X, NEW f \in FeedOf(C, S, X), NEW q \in Opt(X),
           NEW g, g = [f EXCEPT !.fin = q]
    PROVE  /\ g \in FeedOf(C, S, X) /\ g.out = f.out /\ g.left = f.left /\ g.screen = f.screen
           /\ g.ctrl = f.ctrl /\ g.ctrlBytes = f.ctrlBytes /\ g.fin = q
  BY DEF FeedOf

LEMMA EmptyIs ==
    ASSUME NEW C, NEW S, NEW X
    PROVE  /\ EmptyFeed \in FeedOf(C, S, X)
           /\ EmptyFeed.out = <<>> /\ EmptyFeed.screen = <<>> /\ EmptyFeed.fin = <<>>
           /\ EmptyFeed.ctrl = <<>>
  BY DEF EmptyFeed, FeedOf, Opt

\* The four things pump may find.
Pumps(f, g) ==
    \/ g = f /\ (f.out # <<>> \/ (f.ctrl = <<>> /\ f.screen = <<>> /\ f.fin = <<>>))
    \/ /\ f.out = <<>> /\ f.ctrl # <<>>
       /\ g.out = <<Head(f.ctrl)>> /\ g.ctrl = Tail(f.ctrl)
       /\ g.screen = f.screen /\ g.fin = f.fin
    \/ /\ f.out = <<>> /\ f.ctrl = <<>> /\ f.screen # <<>>
       /\ g.out = f.screen /\ g.ctrl = <<>> /\ g.screen = <<>> /\ g.fin = f.fin
    \/ /\ f.out = <<>> /\ f.ctrl = <<>> /\ f.screen = <<>> /\ f.fin # <<>>
       /\ g.out = f.fin /\ g.ctrl = <<>> /\ g.screen = <<>> /\ g.fin = <<>>

LEMMA PumpIs ==
    ASSUME NEW C, NEW S, NEW X, \A x \in C \cup S \cup X : x.len \in Int,
           NEW f \in FeedOf(C, S, X)
    PROVE  pump(f) \in FeedOf(C, S, X) /\ Pumps(f, pump(f))
<1>1. /\ f.out \in Opt(C \cup S \cup X) /\ f.screen \in Opt(S) /\ f.fin \in Opt(X)
      /\ f.ctrl \in Seq(C) /\ f.ctrlBytes \in Int /\ <<>> \in Opt(S) /\ <<>> \in Opt(X)
  BY DEF FeedOf, Opt
<1>2. ASSUME NEW x \in C \cup S \cup X
      PROVE  /\ InFlight(f, x) \in FeedOf(C, S, X) /\ InFlight(f, x).out = <<x>>
             /\ InFlight(f, x).screen = f.screen /\ InFlight(f, x).ctrl = f.ctrl
             /\ InFlight(f, x).ctrlBytes = f.ctrlBytes /\ InFlight(f, x).fin = f.fin
  <2>. DEFINE one == <<x>>  n == x.len  g == InFlight(f, x)
  <2>1. one \in Opt(C \cup S \cup X) /\ n \in Int
    BY OptHas
  <2>2. g = [f EXCEPT !.out = one, !.left = n]
    BY Zenon DEF InFlight
  <2>. HIDE DEF one, n, g
  <2>. DEFINE e == [f EXCEPT !.out = one, !.left = n]
  <2>3. /\ e \in FeedOf(C, S, X) /\ e.out = one /\ e.screen = f.screen /\ e.ctrl = f.ctrl
        /\ e.ctrlBytes = f.ctrlBytes /\ e.fin = f.fin
    BY <2>1 DEF FeedOf
  <2>. HIDE DEF e
  <2>. QED
    BY <2>2, <2>3, Zenon DEF g, one, e
<1>3. CASE writing(f)
  <2>1. pump(f) = f
    BY <1>3, Zenon DEF pump
  <2>. QED
    BY <1>3, <2>1, Zenon DEF Pumps, writing
<1>4. CASE ~writing(f) /\ f.ctrl # <<>>
  <2>. DEFINE x == Head(f.ctrl)  g == InFlight(f, x)  n == f.ctrlBytes - x.len
              rest == Tail(f.ctrl)  h == pump(f)
  <2>1. x \in C /\ rest \in Seq(C)
    BY <1>1, <1>4
  <2>2. n \in Int
    BY <1>1, <2>1
  <2>3. /\ g \in FeedOf(C, S, X) /\ g.out = <<x>> /\ g.screen = f.screen
        /\ g.ctrl = f.ctrl /\ g.ctrlBytes = f.ctrlBytes /\ g.fin = f.fin
    BY <1>2, <2>1, Zenon
  <2>4. pump(f) = [g EXCEPT !.ctrl = Tail(g.ctrl), !.ctrlBytes = g.ctrlBytes - x.len]
    BY <1>4, Zenon DEF pump
  <2>. HIDE DEF g, x
  <2>5. h = [g EXCEPT !.ctrl = rest, !.ctrlBytes = n]
    BY <2>3, <2>4, Zenon
  <2>. HIDE DEF rest, n, h
  <2>. DEFINE e == [g EXCEPT !.ctrl = rest, !.ctrlBytes = n]
  <2>6. /\ e \in FeedOf(C, S, X) /\ e.out = g.out /\ e.screen = g.screen /\ e.ctrl = rest
        /\ e.fin = g.fin
    BY <2>1, <2>2, <2>3 DEF FeedOf
  <2>. HIDE DEF e
  <2>. QED
    BY <1>4, <2>3, <2>5, <2>6, Zenon DEF Pumps, writing, x, rest, h, e
<1>5. CASE ~writing(f) /\ f.ctrl = <<>> /\ f.screen # <<>>
  <2>. DEFINE x == Head(f.screen)  g == InFlight(f, x)  h == pump(f)  none == <<>>
  <2>1. x \in S /\ <<x>> = f.screen
    BY <1>1, <1>5, OptIs, Zenon
  <2>2. /\ g \in FeedOf(C, S, X) /\ g.out = <<x>> /\ g.ctrl = f.ctrl /\ g.fin = f.fin
    BY <1>2, <2>1, Zenon
  <2>3. h = [g EXCEPT !.screen = none]
    BY <1>5, Zenon DEF pump
  <2>. HIDE DEF g, x, h
  <2>4. none \in Opt(S)
    BY <1>1
  <2>. HIDE DEF none
  <2>5. /\ h \in FeedOf(C, S, X) /\ h.out = g.out /\ h.screen = none /\ h.ctrl = g.ctrl
        /\ h.fin = g.fin
    BY <2>2, <2>3, <2>4, SetScreen
  <2>. QED
    BY <1>5, <2>1, <2>2, <2>5, Zenon DEF Pumps, writing, h, none
<1>6. CASE ~writing(f) /\ f.ctrl = <<>> /\ f.screen = <<>> /\ f.fin # <<>>
  <2>. DEFINE x == Head(f.fin)  g == InFlight(f, x)  h == pump(f)  none == <<>>
  <2>1. x \in X /\ <<x>> = f.fin
    BY <1>1, <1>6, OptIs, Zenon
  <2>2. /\ g \in FeedOf(C, S, X) /\ g.out = <<x>> /\ g.ctrl = f.ctrl /\ g.screen = f.screen
    BY <1>2, <2>1, Zenon
  <2>3. h = [g EXCEPT !.fin = none]
    BY <1>6, Zenon DEF pump
  <2>. HIDE DEF g, x, h
  <2>4. none \in Opt(X)
    BY <1>1
  <2>. HIDE DEF none
  <2>5. /\ h \in FeedOf(C, S, X) /\ h.out = g.out /\ h.screen = g.screen /\ h.ctrl = g.ctrl
        /\ h.fin = none
    BY <2>2, <2>3, <2>4, SetFin
  <2>. QED
    BY <1>6, <2>1, <2>2, <2>5, Zenon DEF Pumps, writing, h, none
<1>7. CASE ~writing(f) /\ f.ctrl = <<>> /\ f.screen = <<>> /\ f.fin = <<>>
  <2>1. pump(f) = f
    BY <1>7, Zenon DEF pump
  <2>. QED
    BY <1>7, <2>1, Zenon DEF Pumps
<1>. QED
  BY <1>3, <1>4, <1>5, <1>6, <1>7, Zenon

\* Whoever gets all frames of feed f sees screen s before a final frame: the
\* final frame is not on its way yet, and waits behind s.
Tells(f, s, X) ==
    /\ (f.fin # <<>> => (f.out = <<s>> \/ f.screen = <<s>>))
    /\ \A x \in X : f.out # <<x>>

LEMMA PumpTells ==
    ASSUME NEW C, NEW S, NEW X, \A x \in X : x \notin C \cup S,
           NEW f \in FeedOf(C, S, X), NEW g, Pumps(f, g), NEW s, Tells(f, s, X)
    PROVE  Tells(g, s, X)
<1>1. /\ f.out \in Opt(C \cup S \cup X) /\ f.screen \in Opt(S) /\ f.fin \in Opt(X)
      /\ f.ctrl \in Seq(C)
  BY DEF FeedOf
<1>2. CASE g = f
  BY <1>2, Zenon
<1>3. CASE /\ f.out = <<>> /\ f.ctrl # <<>>
           /\ g.out = <<Head(f.ctrl)>> /\ g.ctrl = Tail(f.ctrl)
           /\ g.screen = f.screen /\ g.fin = f.fin
  <2>. DEFINE x == Head(f.ctrl)
  <2>1. x \in C
    BY <1>1, <1>3
  <2>. HIDE DEF x
  <2>2. g.fin # <<>> => g.screen = <<s>>
    BY <1>3 DEF Tells
  <2>3. \A y \in X : <<x>> # <<y>>
    BY <2>1
  <2>. QED
    BY <1>3, <2>2, <2>3, Zenon DEF Tells, x
<1>4. CASE /\ f.out = <<>> /\ f.ctrl = <<>> /\ f.screen # <<>>
           /\ g.out = f.screen /\ g.ctrl = <<>> /\ g.screen = <<>> /\ g.fin = f.fin
  <2>1. PICK x \in S : f.screen = <<x>>
    BY <1>1, <1>4, OptIs, Zenon
  <2>2. g.fin # <<>> => g.out = <<s>>
    BY <1>4 DEF Tells
  <2>3. \A y \in X : <<x>> # <<y>>
    BY <2>1
  <2>. QED
    BY <1>4, <2>1, <2>2, <2>3, Zenon DEF Tells
<1>5. CASE f.out = <<>> /\ f.screen = <<>> /\ f.fin # <<>>
  BY <1>5 DEF Tells
<1>. QED
  BY <1>2, <1>3, <1>4, <1>5, Zenon DEF Pumps

LEMMA PushScreenIs ==
    ASSUME NEW C, NEW S, NEW X, \A x \in C \cup S \cup X : x.len \in Int,
           \A x \in X : x \notin C \cup S, NEW f \in FeedOf(C, S, X), NEW s \in S
    PROVE  LET g == push_screen(f, s)
           IN  /\ g \in FeedOf(C, S, X)
               /\ Tells(f, s, X) => Tells(g, s, X) /\ (g.out = <<s>> \/ g.screen = <<s>>)
<1>. DEFINE q == <<s>>  e == [f EXCEPT !.screen = q]  g == push_screen(f, s)
<1>1. q \in Opt(S)
  BY OptHas
<1>. HIDE DEF q
<1>2. /\ e \in FeedOf(C, S, X) /\ e.out = f.out /\ e.screen = q /\ e.ctrl = f.ctrl
      /\ e.fin = f.fin
  BY <1>1 DEF FeedOf
<1>3. g = pump(e)
  BY Zenon DEF push_screen, q
<1>. HIDE DEF e, g
<1>4. g \in FeedOf(C, S, X) /\ Pumps(e, g)
  BY <1>2, <1>3, PumpIs, Zenon
<1>5. ASSUME Tells(f, s, X)
      PROVE  Tells(g, s, X) /\ (g.out = <<s>> \/ g.screen = <<s>>)
  <2>1. Tells(e, s, X)
    BY <1>2, <1>5, Zenon DEF Tells, q
  <2>2. Tells(g, s, X)
    BY <1>2, <1>4, <2>1, PumpTells, Zenon
  <2>3. q # <<>>
    BY DEF q
  <2>4. g.out = q \/ g.screen = q
    BY <1>2, <1>4, <2>3, Zenon DEF Pumps
  <2>. QED
    BY <2>2, <2>4, Zenon DEF q
<1>. QED
  BY <1>4, <1>5, Zenon DEF g

LEMMA PushCtrlIs ==
    ASSUME NEW C, NEW S, NEW X, \A x \in C \cup S \cup X : x.len \in Int,
           \A x \in X : x \notin C \cup S, NEW f \in FeedOf(C, S, X), NEW c \in C
    PROVE  LET g == push_ctrl(f, c)
           IN  /\ g \in FeedOf(C, S, X)
               /\ \A s : Tells(f, s, X) => Tells(g, s, X)
<1>. DEFINE p == pump(f)  g == push_ctrl(f, c)
<1>1. p \in FeedOf(C, S, X) /\ Pumps(f, p)
  BY PumpIs, Zenon
<1>2. \A s : Tells(f, s, X) => Tells(p, s, X)
  BY <1>1, PumpTells, Zenon
<1>. DEFINE one == <<c>>  n == c.len
<1>3. one \in Opt(C \cup S \cup X) /\ n \in Int /\ \A x \in X : one # <<x>>
  BY OptHas
<1>. HIDE DEF p
<1>4. CASE ~writing(p)
  <2>1. g = [p EXCEPT !.out = one, !.left = n]
    BY <1>4, Zenon DEF push_ctrl, p, InFlight
  <2>. HIDE DEF g, one, n
  <2>. DEFINE e == [p EXCEPT !.out = one, !.left = n]
  <2>2. e \in FeedOf(C, S, X) /\ e.out = one /\ e.screen = p.screen /\ e.fin = p.fin
    BY <1>1, <1>3 DEF FeedOf
  <2>. HIDE DEF e
  <2>3. p.fin = <<>>
    BY <1>1, <1>4 DEF Pumps, writing
  <2>4. \A s : Tells(e, s, X)
    BY <1>3, <2>2, <2>3, Zenon DEF Tells
  <2>. QED
    BY <2>1, <2>2, <2>4, Zenon DEF g, e
<1>5. CASE writing(p) /\ CtrlFits(f, c)
  <2>. DEFINE q == Append(p.ctrl, c)  m == p.ctrlBytes + n
  <2>1. g = [p EXCEPT !.ctrl = q, !.ctrlBytes = m]
    BY <1>5, Zenon DEF push_ctrl, p
  <2>2. q \in Seq(C) /\ m \in Int
    <3>1. p.ctrl \in Seq(C) /\ p.ctrlBytes \in Int
      BY <1>1 DEF FeedOf
    <3>. QED
      BY <1>3, <3>1
  <2>. HIDE DEF g, q, m
  <2>. DEFINE e == [p EXCEPT !.ctrl = q, !.ctrlBytes = m]
  <2>3. e \in FeedOf(C, S, X) /\ e.out = p.out /\ e.screen = p.screen /\ e.fin = p.fin
    BY <1>1, <2>2 DEF FeedOf
  <2>. HIDE DEF e
  <2>4. \A s : Tells(p, s, X) => Tells(e, s, X)
    BY <2>3, Zenon DEF Tells
  <2>. QED
    BY <1>2, <2>1, <2>3, <2>4, Zenon DEF g, e
<1>6. CASE writing(p) /\ ~CtrlFits(f, c)
  <2>1. g = p
    BY <1>6, Zenon DEF push_ctrl, p
  <2>. QED
    BY <1>1, <1>2, <2>1, Zenon
<1>. QED
  BY <1>4, <1>5, <1>6, Zenon DEF g

LEMMA PushFinIs ==
    ASSUME NEW C, NEW S, NEW X, \A x \in C \cup S \cup X : x.len \in Int,
           \A x \in X : x \notin C \cup S, NEW f \in FeedOf(C, S, X), NEW x \in X
    PROVE  LET g == push_fin(f, x)
           IN  /\ g \in FeedOf(C, S, X)
               /\ \A s : /\ Tells(f, s, X)
                         /\ f.out = <<s>> \/ f.screen = <<s>>
                         => Tells(g, s, X)
<1>. DEFINE q == <<x>>  none == <<>>  zero == 0  g == push_fin(f, x)
            e == [f EXCEPT !.fin = q, !.ctrl = none, !.ctrlBytes = zero]
<1>1. q \in Opt(X) /\ none \in Seq(C) /\ zero \in Int
  BY OptHas
<1>2. g = pump(e)
  BY Zenon DEF push_fin, q, none, zero
<1>. HIDE DEF q, none, zero
<1>3. /\ e \in FeedOf(C, S, X) /\ e.out = f.out /\ e.screen = f.screen /\ e.ctrl = none
      /\ e.fin = q
  BY <1>1 DEF FeedOf
<1>. HIDE DEF e, g
<1>4. g \in FeedOf(C, S, X) /\ Pumps(e, g)
  BY <1>2, <1>3, PumpIs, Zenon
<1>5. ASSUME NEW s, Tells(f, s, X), f.out = <<s>> \/ f.screen = <<s>>
      PROVE  Tells(g, s, X)
  <2>1. Tells(e, s, X)
    BY <1>3, <1>5, Zenon DEF Tells
  <2>. QED
    BY <1>3, <1>4, <2>1, PumpTells, Zenon
<1>. QED
  BY <1>4, <1>5, Zenon DEF g

LEMMA AdvanceIs ==
    ASSUME NEW C, NEW S, NEW X, \A x \in C \cup S \cup X : x.len \in Int,
           \A x \in X : x \notin C \cup S, NEW f \in FeedOf(C, S, X)
    PROVE  LET g == feed_advance(f, f.left)
           IN  /\ g \in FeedOf(C, S, X)
               /\ \A s : Tells(f, s, X) /\ f.out # <<s>> => Tells(g, s, X)
<1>. DEFINE none == <<>>  zero == 0  g == feed_advance(f, f.left)
            e == [f EXCEPT !.out = none, !.left = zero]
<1>1. none \in Opt(C \cup S \cup X) /\ zero \in Int
  BY DEF Opt
<1>2. g = pump(e)
  <2>1. ~(f.left < f.left)
    BY DEF FeedOf
  <2>. QED
    BY <2>1, Zenon DEF feed_advance, none, zero
<1>3. \A x : none # <<x>>
  OBVIOUS
<1>. HIDE DEF none, zero
<1>4. /\ e \in FeedOf(C, S, X) /\ e.out = none /\ e.screen = f.screen /\ e.ctrl = f.ctrl
      /\ e.fin = f.fin
  BY <1>1 DEF FeedOf
<1>. HIDE DEF e, g
<1>5. g \in FeedOf(C, S, X) /\ Pumps(e, g)
  BY <1>2, <1>4, PumpIs, Zenon
<1>6. ASSUME NEW s, Tells(f, s, X), f.out # <<s>>
      PROVE  Tells(g, s, X)
  <2>1. Tells(e, s, X)
    BY <1>3, <1>4, <1>6, Zenon DEF Tells
  <2>. QED
    BY <1>4, <1>5, <2>1, PumpTells, Zenon
<1>. QED
  BY <1>5, <1>6, Zenon DEF g
-----------------------------------------------------------------------------
(* A handler's record by the frames it took (M), the acknowledgements it   *)
(* may want (A) and the feeds it may hold (F).                             *)

\* Where a handler can be; it queues an exit status only if there is one,
\* and looks only at a frame or a record that is there.
Labels == {"hello", "rejected", "claim", "announce", "attach", "subscribe", "greet",
           "frames", "apply", "busy", "resize", "acks", "flush", "select", "check",
           "detach", "mark", "done"} \cup {p \in {"exit"} : exit # NoExit}

Looking == {"frames", "apply", "busy"}
ReadyFor(p, c) == /\ p \in {"frames", "apply"} => c.leftover # <<>>
                  /\ p = "busy" => c.busy # <<>>
Ready(c) == ReadyFor(c.pc, c)

AnySize == Sizes \cup {NoSize}
SeenOf == [epoch : Nat, version : Nat, accepted : Nat, exit : Nat \cup {NoExit}]
Inputs(M) == {m \in M : m.op = "Input"}

ConnOf(M, A, F) ==
    [pc : Labels, epoch : Nat, leftover : Seq(M), busy : Seq(Inputs(M)), wantSize : AnySize,
     wantAck : A, feed : F, seen : SeenOf]

\* What the handlers work with: the shared Session's watches and epochs, and
\* frames of the kinds they make (Exit frames X apart from all others).
Handling(M, A, C, S, X) ==
    /\ conn \in [Conns -> ConnOf(M, A, FeedOf(C, S, X))]
    /\ \A h \in Conns : Ready(conn[h])
    /\ epoch \in Nat /\ epochWatch \in Nat
    /\ latest.version \in Nat /\ exit \in Nat \cup {NoExit}
    /\ accepted \in Nat /\ accepted \in A /\ 0 \in A
    /\ HelloOk \in C /\ Pong \in C /\ \A a \in A : InputAck(a) \in C
    /\ latest = NoScreen \/ Screen(latest) \in S
    /\ exit # NoExit => Exit(exit) \in X
    /\ \A x \in C \cup S \cup X : x.len \in Int
    /\ \A x \in X : x \notin C \cup S
    /\ \A m \in M : m.op = "Resize" => m.size \in AnySize

\* Who was about to be told the newest screen before an exit status still is.
StillTells(f, g, X) ==
    latest = NoScreen \/ (Tells(f, Screen(latest), X) => Tells(g, Screen(latest), X))

\* One handler's record changes, to one of set T.
Moves(h, T, X) ==
    /\ conn' \in [Conns -> T]
    /\ Ready(conn'[h])
    /\ \A g \in Conns \ {h} : conn'[g] = conn[g]
    /\ StillTells(conn[h].feed, conn'[h].feed, X)

LEMMA MovesTo ==
    ASSUME NEW T, NEW X, NEW h \in Conns, conn \in [Conns -> T], NEW d \in T,
           conn' = [conn EXCEPT ![h] = d], Ready(d), StillTells(conn[h].feed, d.feed, X)
    PROVE  Moves(h, T, X)
  BY Zenon DEF Moves

LEMMA Same ==
    ASSUME NEW f, NEW X
    PROVE  StillTells(f, f, X)
  BY Zenon DEF StillTells

LEMMA Going ==
    ASSUME NEW M, NEW A, NEW F, NEW c \in ConnOf(M, A, F), NEW p \in Labels,
           ReadyFor(p, c)
    PROVE  /\ [c EXCEPT !.pc = p] \in ConnOf(M, A, F) /\ [c EXCEPT !.pc = p].feed = c.feed
           /\ Ready([c EXCEPT !.pc = p])
  BY DEF ConnOf, Ready, ReadyFor

LEMMA GoMoves ==
    ASSUME NEW M, NEW A, NEW F, NEW X, conn \in [Conns -> ConnOf(M, A, F)], NEW h \in Conns,
           NEW p \in Labels, ReadyFor(p, conn[h]), Go(h, p)
    PROVE  Moves(h, ConnOf(M, A, F), X)
<1>. DEFINE c == conn[h]  d == [c EXCEPT !.pc = p]
<1>1. d \in ConnOf(M, A, F) /\ d.feed = c.feed /\ Ready(d)
  BY Going
<1>2. conn' = [conn EXCEPT ![h] = d]
  BY Zenon DEF Go
<1>. HIDE DEF d
<1>. QED
  BY <1>1, <1>2, Same, MovesTo, Zenon

LEMMA LoopTopIs ==
    ASSUME NEW c
    PROVE  /\ LoopTop(c) \in Labels /\ ReadyFor(LoopTop(c), c)
           /\ AfterFrames(c) \in Labels /\ ReadyFor(AfterFrames(c), c)
           /\ AfterBusy(c) \in Labels /\ ReadyFor(AfterBusy(c), c)
<1>1. AfterBusy(c) \in Labels \ Looking
  BY DEF AfterBusy, Labels, Looking
<1>2. /\ AfterFrames(c) \in Labels /\ AfterFrames(c) \notin {"frames", "apply"}
      /\ AfterFrames(c) = "busy" => c.busy # <<>>
  BY <1>1 DEF AfterFrames, Labels, Looking
<1>3. /\ LoopTop(c) \in Labels
      /\ LoopTop(c) \in {"frames", "apply"} => c.leftover # <<>>
      /\ LoopTop(c) = "busy" => c.busy # <<>>
  BY <1>2 DEF LoopTop, Labels
<1>. QED
  BY <1>1, <1>2, <1>3 DEF ReadyFor, Looking

\* A handler that leaves drops its feed, and tells nobody anything.
LEMMA LeaveMoves ==
    ASSUME NEW M, NEW A, NEW C, NEW S, NEW X, Handling(M, A, C, S, X), NEW h \in Conns, Leave(h)
    PROVE  Moves(h, ConnOf(M, A, FeedOf(C, S, X)), X)
<1>. DEFINE c == conn[h]  F == FeedOf(C, S, X)
            d == [NewConn EXCEPT !.pc = "detach", !.epoch = c.epoch]
<1>1. c \in ConnOf(M, A, F) /\ 0 \in A
  BY Zenon DEF Handling
<1>2. EmptyFeed \in F /\ EmptyFeed.out = <<>> /\ EmptyFeed.fin = <<>>
  BY EmptyIs, Zenon
<1>. HIDE DEF F, c
<1>3. d \in ConnOf(M, A, F) /\ d.feed = EmptyFeed /\ Ready(d)
  <2>1. c.epoch \in Nat
    BY <1>1 DEF ConnOf
  <2>. DEFINE e == EmptyFeed  n == c.epoch
  <2>. HIDE DEF e, n
  <2>. DEFINE z == [epoch |-> 0, version |-> 0, accepted |-> 0, exit |-> NoExit]
              l == <<>>  q == <<>>  p == "hello"  w == 0  i == 0
              k == [pc |-> p, epoch |-> i, leftover |-> l, busy |-> q,
                    wantSize |-> NoSize, wantAck |-> w, feed |-> e, seen |-> z]
  <2>2. NewConn = k
    BY Zenon DEF NewConn, NoAck, e
  <2>3. /\ z \in SeenOf /\ l \in Seq(M) /\ q \in Seq(Inputs(M)) /\ p \in Labels
        /\ NoSize \in AnySize /\ i \in Nat
    BY DEF SeenOf, Labels, AnySize
  <2>4. e \in F /\ n \in Nat /\ w \in A
    BY <1>1, <1>2, <2>1 DEF e, n
  <2>. HIDE DEF z, l, q, p, w, i
  <2>5. k \in ConnOf(M, A, F) /\ k.feed = e
    BY <2>3, <2>4 DEF ConnOf
  <2>. HIDE DEF k
  <2>. DEFINE r == "detach"
  <2>6. r \in Labels \ Looking
    BY DEF Labels, Looking
  <2>. HIDE DEF r
  <2>7. [k EXCEPT !.pc = r, !.epoch = n] \in ConnOf(M, A, F)
    BY <2>4, <2>5, <2>6 DEF ConnOf
  <2>8. [k EXCEPT !.pc = r, !.epoch = n].feed = e
    BY <2>5 DEF ConnOf
  <2>9. Ready([k EXCEPT !.pc = r, !.epoch = n])
    BY <2>5, <2>6 DEF ConnOf, Ready, ReadyFor, Looking
  <2>. QED
    BY <2>2, <2>7, <2>8, <2>9, Zenon DEF e, n, r
<1>4. conn' = [conn EXCEPT ![h] = d]
  BY Zenon DEF Leave, c
<1>. HIDE DEF d
<1>5. \A s : Tells(EmptyFeed, s, X)
  <2>1. \A x : <<>> # <<x>>
    OBVIOUS
  <2>. QED
    BY <1>2, <2>1, Zenon DEF Tells
<1>6. StillTells(conn[h].feed, d.feed, X)
  BY <1>3, <1>5, Zenon DEF StillTells
<1>7. conn \in [Conns -> ConnOf(M, A, F)]
  BY Zenon DEF Handling, F
<1>. QED
  BY <1>3, <1>4, <1>6, <1>7, MovesTo, Zenon DEF F

LEMMA LookupMoves ==
    ASSUME NEW M, NEW A, NEW C, NEW S, NEW X, Handling(M, A, C, S, X), NEW h \in Conns,
           NEW s \in AnySize, Lookup(h, s)
    PROVE  Moves(h, ConnOf(M, A, FeedOf(C, S, X)), X)
<1>. DEFINE c == conn[h]  F == FeedOf(C, S, X)  p == IF registered THEN "claim" ELSE "rejected"
            d == [c EXCEPT !.pc = p, !.wantSize = s]
<1>1. c \in ConnOf(M, A, F) /\ conn \in [Conns -> ConnOf(M, A, F)]
  BY Zenon DEF Handling
<1>2. p \in Labels \ Looking
  BY DEF Labels, Looking
<1>3. conn' = [conn EXCEPT ![h] = d]
  BY <1>1, Zenon DEF Lookup
<1>. HIDE DEF p, c, F
<1>4. d \in ConnOf(M, A, F) /\ d.feed = c.feed /\ Ready(d)
  BY <1>1, <1>2 DEF ConnOf, Ready, ReadyFor, Looking
<1>. HIDE DEF d
<1>. QED
  BY <1>1, <1>3, <1>4, Same, MovesTo, Zenon DEF F, c

LEMMA ClaimMoves ==
    ASSUME NEW M, NEW A, NEW C, NEW S, NEW X, Handling(M, A, C, S, X), NEW h \in Conns, Claim(h)
    PROVE  Moves(h, ConnOf(M, A, FeedOf(C, S, X)), X)
<1>. DEFINE c == conn[h]  F == FeedOf(C, S, X)  p == "announce"  n == epoch + 1
            d == [c EXCEPT !.pc = p, !.epoch = n]
<1>1. c \in ConnOf(M, A, F) /\ conn \in [Conns -> ConnOf(M, A, F)] /\ epoch \in Nat
  BY Zenon DEF Handling
<1>2. p \in Labels \ Looking /\ n \in Nat
  BY <1>1 DEF Labels, Looking
<1>3. conn' = [conn EXCEPT ![h] = d]
  BY <1>1, Zenon DEF Claim
<1>. HIDE DEF p, n, c, F
<1>4. d \in ConnOf(M, A, F) /\ d.feed = c.feed /\ Ready(d)
  BY <1>1, <1>2 DEF ConnOf, Ready, ReadyFor, Looking
<1>. HIDE DEF d
<1>. QED
  BY <1>1, <1>3, <1>4, Same, MovesTo, Zenon DEF F, c

LEMMA SubscribeMoves ==
    ASSUME NEW M, NEW A, NEW C, NEW S, NEW X, Handling(M, A, C, S, X), NEW h \in Conns,
           Subscribe(h)
    PROVE  Moves(h, ConnOf(M, A, FeedOf(C, S, X)), X)
<1>. DEFINE c == conn[h]  F == FeedOf(C, S, X)  p == "greet"
            s == [epoch |-> epochWatch, version |-> latest.version, accepted |-> accepted,
                  exit |-> exit]
            d == [c EXCEPT !.pc = p, !.seen = s]
<1>1. c \in ConnOf(M, A, F) /\ conn \in [Conns -> ConnOf(M, A, F)]
  BY Zenon DEF Handling
<1>2. p \in Labels \ Looking /\ s \in SeenOf
  BY DEF Labels, Looking, Handling, SeenOf
<1>3. conn' = [conn EXCEPT ![h] = d]
  BY <1>1, Zenon DEF Subscribe
<1>. HIDE DEF p, s, c, F
<1>4. d \in ConnOf(M, A, F) /\ d.feed = c.feed /\ Ready(d)
  BY <1>1, <1>2 DEF ConnOf, Ready, ReadyFor, Looking
<1>. HIDE DEF d
<1>. QED
  BY <1>1, <1>3, <1>4, Same, MovesTo, Zenon DEF F, c

LEMMA WithScreenIs ==
    ASSUME NEW M, NEW A, NEW C, NEW S, NEW X, Handling(M, A, C, S, X),
           NEW f \in FeedOf(C, S, X)
    PROVE  LET g == WithScreen(f)
           IN  /\ g \in FeedOf(C, S, X)
               /\ StillTells(f, g, X)
               /\ \/ latest = NoScreen
                  \/ /\ Tells(f, Screen(latest), X)
                     => (g.out = <<Screen(latest)>> \/ g.screen = <<Screen(latest)>>)
<1>. DEFINE F == FeedOf(C, S, X)  s == Screen(latest)  g == WithScreen(f)
<1>1. CASE latest = NoScreen
  <2>1. g = f
    BY <1>1, Zenon DEF WithScreen
  <2>. QED
    BY <1>1, <2>1, Zenon DEF StillTells
<1>2. CASE latest # NoScreen
  <2>1. s \in S /\ (\A x \in C \cup S \cup X : x.len \in Int) /\ \A x \in X : x \notin C \cup S
    BY <1>2, Zenon DEF Handling
  <2>2. g = push_screen(f, s)
    BY <1>2, Zenon DEF WithScreen
  <2>. HIDE DEF s, g
  <2>. DEFINE k == push_screen(f, s)
  <2>3. /\ k \in FeedOf(C, S, X)
        /\ Tells(f, s, X) => Tells(k, s, X) /\ (k.out = <<s>> \/ k.screen = <<s>>)
    BY <2>1, PushScreenIs
  <2>. QED
    BY <2>2, <2>3, Zenon DEF StillTells, s, g
<1>. QED
  BY <1>1, <1>2, Zenon DEF g, F

LEMMA GreetMoves ==
    ASSUME NEW M, NEW A, NEW C, NEW S, NEW X, Handling(M, A, C, S, X), NEW h \in Conns,
           Greet(h)
    PROVE  Moves(h, ConnOf(M, A, FeedOf(C, S, X)), X)
<1>. DEFINE c == conn[h]  F == FeedOf(C, S, X)  f == push_ctrl(c.feed, HelloOk)
            g == WithScreen(f)  b == [c EXCEPT !.feed = g, !.wantAck = accepted]
            p == LoopTop(b)  d == [b EXCEPT !.pc = p]
<1>1. c \in ConnOf(M, A, F) /\ conn \in [Conns -> ConnOf(M, A, F)]
  BY Zenon DEF Handling
<1>2. HelloOk \in C /\ accepted \in A
  BY Zenon DEF Handling
<1>3. c.feed \in F
  BY <1>1 DEF ConnOf
<1>4. f \in F /\ \A s : Tells(c.feed, s, X) => Tells(f, s, X)
  <2>1. (\A x \in C \cup S \cup X : x.len \in Int) /\ \A x \in X : x \notin C \cup S
    BY Zenon DEF Handling
  <2>. QED
    BY <1>2, <1>3, <2>1, PushCtrlIs, Zenon
<1>5. g \in F /\ StillTells(f, g, X)
  BY <1>4, WithScreenIs, Zenon
<1>6. StillTells(c.feed, g, X)
  BY <1>4, <1>5, Zenon DEF StillTells
<1>7. conn' = [conn EXCEPT ![h] = d]
  BY <1>1, Zenon DEF Greet
<1>. HIDE DEF c, F, f, g
<1>8. b \in ConnOf(M, A, F) /\ b.feed = g
  BY <1>1, <1>2, <1>5 DEF ConnOf
<1>9. p \in Labels /\ ReadyFor(p, b)
  BY LoopTopIs, Zenon
<1>. HIDE DEF p, b
<1>10. d \in ConnOf(M, A, F) /\ d.feed = b.feed /\ Ready(d)
  BY <1>8, <1>9, Going
<1>. HIDE DEF d
<1>. QED
  BY <1>1, <1>6, <1>7, <1>8, <1>10, MovesTo, Zenon DEF F, c

LEMMA DrainMoves ==
    ASSUME NEW M, NEW A, NEW C, NEW S, NEW X, Handling(M, A, C, S, X), NEW h \in Conns,
           drain_busy(h), conn[h].busy # <<>>
    PROVE  Moves(h, ConnOf(M, A, FeedOf(C, S, X)), X)
<1>. DEFINE c == conn[h]  F == FeedOf(C, S, X)  q == Tail(c.busy)  b == [c EXCEPT !.busy = q]
<1>1. c \in ConnOf(M, A, F) /\ conn \in [Conns -> ConnOf(M, A, F)]
  BY Zenon DEF Handling
<1>2. CASE Go(h, AfterBusy(c))
  <2>1. AfterBusy(c) \in Labels /\ ReadyFor(AfterBusy(c), c)
    BY LoopTopIs, Zenon
  <2>. QED
    BY <1>1, <1>2, <2>1, GoMoves, Zenon
<1>3. b \in ConnOf(M, A, F) /\ b.feed = c.feed
  <2>1. c.busy \in Seq(Inputs(M))
    BY <1>1 DEF ConnOf
  <2>2. q \in Seq(Inputs(M))
    BY <2>1
  <2>. HIDE DEF q, c, F
  <2>. QED
    BY <1>1, <2>2 DEF ConnOf
<1>4. ASSUME NEW p \in Labels, ReadyFor(p, b), conn' = [conn EXCEPT ![h] = [b EXCEPT !.pc = p]]
      PROVE  Moves(h, ConnOf(M, A, F), X)
  <2>. HIDE DEF b, c, F
  <2>. DEFINE d == [b EXCEPT !.pc = p]
  <2>1. d \in ConnOf(M, A, F) /\ d.feed = b.feed /\ Ready(d)
    BY <1>3, <1>4, Going
  <2>. HIDE DEF d
  <2>. QED
    BY <1>1, <1>3, <1>4, <2>1, Same, MovesTo, Zenon DEF d, c
<1>5. \/ Go(h, AfterBusy(c))
      \/ conn' = [conn EXCEPT ![h] = [b EXCEPT !.pc = AfterFrames(b)]]
      \/ conn' = [conn EXCEPT ![h] = [b EXCEPT !.pc = AfterBusy(c)]]
  BY Zenon DEF drain_busy
<1>6. AfterFrames(b) \in Labels /\ ReadyFor(AfterFrames(b), b)
  BY LoopTopIs, Zenon
<1>7. AfterBusy(b) \in Labels /\ ReadyFor(AfterBusy(b), b)
  BY LoopTopIs, Zenon
<1>8. AfterBusy(c) = AfterBusy(b)
  <2>. HIDE DEF q, c, F
  <2>1. b.wantSize = c.wantSize /\ b.wantAck = c.wantAck
    BY <1>1 DEF ConnOf
  <2>. QED
    BY <2>1, Zenon DEF AfterBusy
<1>. QED
  BY <1>2, <1>4, <1>5, <1>6, <1>7, <1>8, Zenon

LEMMA ApplyResizeMoves ==
    ASSUME NEW M, NEW A, NEW C, NEW S, NEW X, Handling(M, A, C, S, X), NEW h \in Conns,
           ApplyResize(h)
    PROVE  Moves(h, ConnOf(M, A, FeedOf(C, S, X)), X)
<1>. DEFINE c == conn[h]  F == FeedOf(C, S, X)  p == "acks"  s == NoSize
            d == [c EXCEPT !.pc = p, !.wantSize = s]
<1>1. c \in ConnOf(M, A, F) /\ conn \in [Conns -> ConnOf(M, A, F)]
  BY Zenon DEF Handling
<1>2. p \in Labels \ Looking /\ s \in AnySize
  BY DEF Labels, Looking, AnySize
<1>3. CASE Go(h, p)
  <2>1. ReadyFor(p, c)
    BY <1>2, Zenon DEF ReadyFor, Looking
  <2>. QED
    BY <1>1, <1>2, <1>3, <2>1, GoMoves, Zenon
<1>4. CASE conn' = [conn EXCEPT ![h] = d]
  <2>. HIDE DEF p, s, c, F
  <2>1. d \in ConnOf(M, A, F) /\ d.feed = c.feed /\ Ready(d)
    BY <1>1, <1>2 DEF ConnOf, Ready, ReadyFor, Looking
  <2>. HIDE DEF d
  <2>. QED
    BY <1>1, <1>4, <2>1, Same, MovesTo, Zenon DEF F, c
<1>5. Go(h, p) \/ conn' = [conn EXCEPT ![h] = d]
  BY <1>1, Zenon DEF ApplyResize
<1>. QED
  BY <1>3, <1>4, <1>5, Zenon DEF F

LEMMA QueueAckMoves ==
    ASSUME NEW M, NEW A, NEW C, NEW S, NEW X, Handling(M, A, C, S, X), NEW h \in Conns,
           QueueAck(h)
    PROVE  Moves(h, ConnOf(M, A, FeedOf(C, S, X)), X)
<1>. DEFINE c == conn[h]  F == FeedOf(C, S, X)
            p == IF exit # NoExit THEN "exit" ELSE "select"
            b == [c EXCEPT !.pc = p]
            m == InputAck(c.wantAck)  f == push_ctrl(c.feed, m)  z == NoAck
            d == [b EXCEPT !.feed = f, !.wantAck = z]
<1>1. c \in ConnOf(M, A, F) /\ conn \in [Conns -> ConnOf(M, A, F)]
  BY Zenon DEF Handling
<1>2. p \in Labels \ Looking
  BY DEF Labels, Looking
<1>3. CASE Go(h, p)
  <2>1. ReadyFor(p, c)
    BY <1>2, Zenon DEF ReadyFor, Looking
  <2>. QED
    BY <1>1, <1>2, <1>3, <2>1, GoMoves, Zenon
<1>4. CASE conn' = [conn EXCEPT ![h] = d]
  <2>1. c.wantAck \in A /\ c.feed \in F
    BY <1>1 DEF ConnOf
  <2>2. m \in C /\ z \in A
    BY <2>1, Zenon DEF Handling, NoAck
  <2>3. (\A x \in C \cup S \cup X : x.len \in Int) /\ \A x \in X : x \notin C \cup S
    BY Zenon DEF Handling
  <2>4. f \in F /\ \A s : Tells(c.feed, s, X) => Tells(f, s, X)
    <3>. HIDE DEF m
    <3>. QED
      BY <2>1, <2>2, <2>3, PushCtrlIs, Zenon
  <2>5. StillTells(c.feed, f, X)
    BY <2>4, Zenon DEF StillTells
  <2>. HIDE DEF p, f, z, c, F
  <2>6. b \in ConnOf(M, A, F) /\ b.pc = p
    BY <1>1, <1>2 DEF ConnOf
  <2>. HIDE DEF b
  <2>7. d \in ConnOf(M, A, F) /\ d.feed = f /\ Ready(d)
    BY <1>2, <2>2, <2>4, <2>6 DEF ConnOf, Ready, ReadyFor, Looking
  <2>. HIDE DEF d
  <2>. QED
    BY <1>1, <1>4, <2>5, <2>7, MovesTo, Zenon DEF F, c
<1>5. Go(h, p) \/ conn' = [conn EXCEPT ![h] = d]
  <2>. DEFINE next == [conn EXCEPT ![h].pc = p]
  <2>1. conn' = next \/ conn' = [next EXCEPT ![h].feed = push_ctrl(@, m), ![h].wantAck = z]
    BY Zenon DEF QueueAck
  <2>2. next = [conn EXCEPT ![h] = b]
    BY <1>1, Zenon
  <2>3. b.feed = c.feed
    <3>. HIDE DEF c, F, p
    <3>. QED
      BY <1>1, <1>2 DEF ConnOf
  <2>4. next[h] = b
    BY <1>1, <2>2, Zenon
  <2>. HIDE DEF b, p, m, z
  <2>5. CASE conn' = [next EXCEPT ![h].feed = push_ctrl(@, m), ![h].wantAck = z]
    <3>1. conn' = [next EXCEPT ![h] = [b EXCEPT !.feed = push_ctrl(b.feed, m), !.wantAck = z]]
      BY <1>1, <2>4, <2>5, Zenon
    <3>2. conn' = [next EXCEPT ![h] = d]
      BY <2>3, <3>1, Zenon
    <3>. HIDE DEF d
    <3>. QED
      BY <1>1, <2>2, <3>2, Zenon
  <2>. QED
    BY <2>1, <2>5, Zenon DEF Go, p
<1>. QED
  BY <1>3, <1>4, <1>5, Zenon DEF F

LEMMA TookIs ==
    ASSUME NEW M, NEW A, NEW C, NEW S, NEW X, Handling(M, A, C, S, X),
           NEW c \in ConnOf(M, A, FeedOf(C, S, X)), NEW m \in M
    PROVE  Took(c, m) \in ConnOf(M, A, FeedOf(C, S, X)) /\ StillTells(c.feed, Took(c, m).feed, X)
<1>. DEFINE F == FeedOf(C, S, X)
<1>1. CASE m.op = "Input"
  <2>. DEFINE q == Append(c.busy, m)
  <2>1. c.busy \in Seq(Inputs(M)) /\ m \in Inputs(M)
    BY <1>1 DEF ConnOf, Inputs
  <2>2. q \in Seq(Inputs(M))
    BY <2>1
  <2>3. Took(c, m) = [c EXCEPT !.busy = q]
    BY <1>1, Zenon DEF Took
  <2>. HIDE DEF q, F
  <2>4. [c EXCEPT !.busy = q] \in ConnOf(M, A, F) /\ [c EXCEPT !.busy = q].feed = c.feed
    <3>1. c \in ConnOf(M, A, F)
      BY Zenon DEF F
    <3>. QED
      BY <2>2, <3>1 DEF ConnOf
  <2>. QED
    BY <2>3, <2>4, Same, Zenon DEF F
<1>2. CASE m.op = "Resize"
  <2>. DEFINE s == m.size
  <2>1. s \in AnySize
    BY <1>2, Zenon DEF Handling
  <2>2. Took(c, m) = [c EXCEPT !.wantSize = s]
    BY <1>2 DEF Took
  <2>. HIDE DEF s, F
  <2>3. [c EXCEPT !.wantSize = s] \in ConnOf(M, A, F) /\ [c EXCEPT !.wantSize = s].feed = c.feed
    <3>1. c \in ConnOf(M, A, F)
      BY Zenon DEF F
    <3>. QED
      BY <2>1, <3>1 DEF ConnOf
  <2>. QED
    BY <2>2, <2>3, Same, Zenon DEF F
<1>3. CASE m.op = "Ping"
  <2>. DEFINE f == push_ctrl(c.feed, Pong)
  <2>1. Pong \in C /\ (\A x \in C \cup S \cup X : x.len \in Int) /\ \A x \in X : x \notin C \cup S
    BY Zenon DEF Handling
  <2>2. c.feed \in F
    BY DEF ConnOf
  <2>3. f \in F /\ \A s : Tells(c.feed, s, X) => Tells(f, s, X)
    BY <2>1, <2>2, PushCtrlIs, Zenon
  <2>4. StillTells(c.feed, f, X)
    BY <2>3, Zenon DEF StillTells
  <2>5. Took(c, m) = [c EXCEPT !.feed = f]
    BY <1>3 DEF Took
  <2>. HIDE DEF f, F
  <2>6. [c EXCEPT !.feed = f] \in ConnOf(M, A, F) /\ [c EXCEPT !.feed = f].feed = f
    <3>1. c \in ConnOf(M, A, F)
      BY Zenon DEF F
    <3>. QED
      BY <2>3, <3>1 DEF ConnOf
  <2>. QED
    BY <2>4, <2>5, <2>6, Zenon DEF F
<1>4. CASE m.op \notin {"Input", "Resize", "Ping"}
  <2>1. Took(c, m) = c
    BY <1>4 DEF Took
  <2>. QED
    BY <2>1, Same, Zenon
<1>. QED
  BY <1>1, <1>2, <1>3, <1>4, Zenon

LEMMA ControlMoves ==
    ASSUME NEW M, NEW A, NEW C, NEW S, NEW X, Handling(M, A, C, S, X), NEW h \in Conns,
           on_control(h)
    PROVE  Moves(h, ConnOf(M, A, FeedOf(C, S, X)), X)
<1>. DEFINE c == conn[h]  F == FeedOf(C, S, X)  m == Head(c.leftover)  q == Tail(c.leftover)
            b == [c EXCEPT !.leftover = q]  d == Took(b, m)  p == LoopTop(d)
            e == [d EXCEPT !.pc = p]
<1>1. c \in ConnOf(M, A, F) /\ conn \in [Conns -> ConnOf(M, A, F)]
  BY Zenon DEF Handling
<1>2. m \in M /\ q \in Seq(M)
  <2>1. c.leftover # <<>>
    <3>1. Ready(c) /\ c.pc = "apply"
      BY Zenon DEF Handling, on_control, At
    <3>. HIDE DEF c
    <3>. QED
      BY <3>1 DEF Ready, ReadyFor
  <2>2. c.leftover \in Seq(M)
    <3>. HIDE DEF c, F
    <3>. QED
      BY <1>1 DEF ConnOf
  <2>. QED
    BY <2>1, <2>2
<1>3. conn' = [conn EXCEPT ![h] = e] \/ Leave(h)
  BY Zenon DEF on_control
<1>4. b \in ConnOf(M, A, F) /\ b.feed = c.feed
  <2>. HIDE DEF c, F, q
  <2>. QED
    BY <1>1, <1>2 DEF ConnOf
<1>5. d \in ConnOf(M, A, F) /\ StillTells(b.feed, d.feed, X)
  <2>. HIDE DEF b, m
  <2>. QED
    BY <1>2, <1>4, TookIs, Zenon
<1>6. p \in Labels /\ ReadyFor(p, d)
  BY LoopTopIs, Zenon
<1>7. e \in ConnOf(M, A, F) /\ e.feed = d.feed /\ Ready(e)
  <2>. HIDE DEF d, p, F
  <2>. QED
    BY <1>5, <1>6, Going
<1>8. CASE Leave(h)
  BY <1>8, LeaveMoves, Zenon
<1>9. CASE conn' = [conn EXCEPT ![h] = e]
  <2>. HIDE DEF e, d, b, F
  <2>. QED
    BY <1>1, <1>4, <1>5, <1>7, <1>9, MovesTo, Zenon DEF F
<1>. QED
  BY <1>3, <1>8, <1>9, Zenon

LEMMA QueueExitMoves ==
    ASSUME NEW M, NEW A, NEW C, NEW S, NEW X, Handling(M, A, C, S, X), NEW h \in Conns,
           queue_exit(h)
    PROVE  Moves(h, ConnOf(M, A, FeedOf(C, S, X)), X)
<1>. DEFINE c == conn[h]  F == FeedOf(C, S, X)  p == "flush"  g == WithScreen(c.feed)
            y == Exit(exit)  k == push_fin(g, y)
            f == IF Current(h) THEN k ELSE c.feed  d == [c EXCEPT !.pc = p, !.feed = f]
<1>1. c \in ConnOf(M, A, F) /\ conn \in [Conns -> ConnOf(M, A, F)]
  BY Zenon DEF Handling
<1>2. p \in Labels \ Looking
  BY DEF Labels, Looking
<1>3. conn' = [conn EXCEPT ![h] = d]
  BY <1>1, Zenon DEF queue_exit
<1>4. c.feed \in F /\ c.pc \in Labels
  <2>. HIDE DEF c, F
  <2>. QED
    BY <1>1 DEF ConnOf
<1>5. y \in X
  <2>1. c.pc = "exit"
    BY Zenon DEF queue_exit, At
  <2>2. exit # NoExit
    <3>. HIDE DEF c
    <3>. QED
      BY <1>4, <2>1 DEF Labels
  <2>. QED
    BY <2>2, Zenon DEF Handling
<1>6. /\ g \in F /\ StillTells(c.feed, g, X)
      /\ \/ latest = NoScreen
         \/ /\ Tells(c.feed, Screen(latest), X)
            => (g.out = <<Screen(latest)>> \/ g.screen = <<Screen(latest)>>)
  <2>. HIDE DEF c
  <2>. QED
    BY <1>4, WithScreenIs
<1>7. k \in F /\ \A s : (Tells(g, s, X) /\ (g.out = <<s>> \/ g.screen = <<s>>)) => Tells(k, s, X)
  <2>1. (\A x \in C \cup S \cup X : x.len \in Int) /\ \A x \in X : x \notin C \cup S
    BY Zenon DEF Handling
  <2>. HIDE DEF g, y
  <2>. QED
    BY <1>5, <1>6, <2>1, PushFinIs
<1>8. StillTells(c.feed, k, X)
  <2>. HIDE DEF g, k
  <2>. QED
    BY <1>6, <1>7, Zenon DEF StillTells
<1>9. f \in F /\ StillTells(c.feed, f, X)
  <2>1. CASE Current(h)
    BY <1>7, <1>8, <2>1, Zenon
  <2>2. CASE ~Current(h)
    BY <1>4, <2>2, Same, Zenon
  <2>. QED
    BY <2>1, <2>2, Zenon
<1>. HIDE DEF p, f, c, F
<1>10. d \in ConnOf(M, A, F) /\ d.feed = f /\ Ready(d)
  BY <1>1, <1>2, <1>9 DEF ConnOf, Ready, ReadyFor, Looking
<1>. HIDE DEF d
<1>. QED
  BY <1>1, <1>3, <1>9, <1>10, MovesTo, Zenon DEF F, c

LEMMA OnEpochMoves ==
    ASSUME NEW M, NEW A, NEW C, NEW S, NEW X, Handling(M, A, C, S, X), NEW h \in Conns,
           OnEpoch(h)
    PROVE  Moves(h, ConnOf(M, A, FeedOf(C, S, X)), X)
<1>. DEFINE c == conn[h]  F == FeedOf(C, S, X)  p == "check"  n == epochWatch
            d == [c EXCEPT !.seen.epoch = n, !.pc = p]
<1>1. c \in ConnOf(M, A, F) /\ conn \in [Conns -> ConnOf(M, A, F)]
  BY Zenon DEF Handling
<1>2. p \in Labels \ Looking /\ n \in Nat
  BY DEF Labels, Looking, Handling
<1>3. conn' = [conn EXCEPT ![h] = d] \/ Leave(h)
  BY <1>1, Zenon DEF OnEpoch
<1>4. CASE Leave(h)
  BY <1>4, LeaveMoves, Zenon
<1>5. CASE conn' = [conn EXCEPT ![h] = d]
  <2>. HIDE DEF p, n, c, F
  <2>1. d \in ConnOf(M, A, F) /\ d.feed = c.feed /\ Ready(d)
    BY <1>1, <1>2 DEF ConnOf, SeenOf, Ready, ReadyFor, Looking
  <2>. HIDE DEF d
  <2>. QED
    BY <1>1, <1>5, <2>1, Same, MovesTo, Zenon DEF F, c
<1>. QED
  BY <1>3, <1>4, <1>5, Zenon

LEMMA OnExitMoves ==
    ASSUME NEW M, NEW A, NEW C, NEW S, NEW X, Handling(M, A, C, S, X), NEW h \in Conns,
           OnExit(h)
    PROVE  Moves(h, ConnOf(M, A, FeedOf(C, S, X)), X)
<1>. DEFINE c == conn[h]  F == FeedOf(C, S, X)  p == "check"  n == exit
            d == [c EXCEPT !.seen.exit = n, !.pc = p]
<1>1. c \in ConnOf(M, A, F) /\ conn \in [Conns -> ConnOf(M, A, F)]
  BY Zenon DEF Handling
<1>2. p \in Labels \ Looking /\ n \in Nat \cup {NoExit}
  BY DEF Labels, Looking, Handling
<1>3. conn' = [conn EXCEPT ![h] = d]
  BY <1>1, Zenon DEF OnExit
<1>. HIDE DEF p, n, c, F
<1>4. d \in ConnOf(M, A, F) /\ d.feed = c.feed /\ Ready(d)
  BY <1>1, <1>2 DEF ConnOf, SeenOf, Ready, ReadyFor, Looking
<1>. HIDE DEF d
<1>. QED
  BY <1>1, <1>3, <1>4, Same, MovesTo, Zenon DEF F, c

LEMMA OnLatestMoves ==
    ASSUME NEW M, NEW A, NEW C, NEW S, NEW X, Handling(M, A, C, S, X), NEW h \in Conns,
           NEW via, OnLatest(h, via)
    PROVE  Moves(h, ConnOf(M, A, FeedOf(C, S, X)), X)
<1>. DEFINE c == conn[h]  F == FeedOf(C, S, X)  p == "check"  n == latest.version
            f == IF via = "stream" THEN WithScreen(c.feed) ELSE c.feed
            d == [c EXCEPT !.seen.version = n, !.pc = p, !.feed = f]
<1>1. c \in ConnOf(M, A, F) /\ conn \in [Conns -> ConnOf(M, A, F)]
  BY Zenon DEF Handling
<1>2. p \in Labels \ Looking /\ n \in Nat
  BY DEF Labels, Looking, Handling
<1>3. conn' = [conn EXCEPT ![h] = d]
  BY <1>1, Zenon DEF OnLatest
<1>4. c.feed \in F
  <2>. HIDE DEF c, F
  <2>. QED
    BY <1>1 DEF ConnOf
<1>5. f \in F /\ StillTells(c.feed, f, X)
  <2>1. CASE via = "stream"
    BY <1>4, <2>1, WithScreenIs, Zenon
  <2>2. CASE via # "stream"
    BY <1>4, <2>2, Same, Zenon
  <2>. QED
    BY <2>1, <2>2, Zenon
<1>. HIDE DEF p, n, f, c, F
<1>6. d \in ConnOf(M, A, F) /\ d.feed = f /\ Ready(d)
  BY <1>1, <1>2, <1>5 DEF ConnOf, SeenOf, Ready, ReadyFor, Looking
<1>. HIDE DEF d
<1>. QED
  BY <1>1, <1>3, <1>5, <1>6, MovesTo, Zenon DEF F, c

LEMMA OnAcceptedMoves ==
    ASSUME NEW M, NEW A, NEW C, NEW S, NEW X, Handling(M, A, C, S, X), NEW h \in Conns,
           OnAccepted(h)
    PROVE  Moves(h, ConnOf(M, A, FeedOf(C, S, X)), X)
<1>. DEFINE c == conn[h]  F == FeedOf(C, S, X)  p == "check"  n == accepted
            d == [c EXCEPT !.seen.accepted = n, !.pc = p, !.wantAck = n]
<1>1. c \in ConnOf(M, A, F) /\ conn \in [Conns -> ConnOf(M, A, F)]
  BY Zenon DEF Handling
<1>2. p \in Labels \ Looking /\ n \in Nat /\ n \in A
  BY DEF Labels, Looking, Handling
<1>3. conn' = [conn EXCEPT ![h] = d]
  BY <1>1, Zenon DEF OnAccepted
<1>. HIDE DEF p, n, c, F
<1>4. d \in ConnOf(M, A, F) /\ d.feed = c.feed /\ Ready(d)
  BY <1>1, <1>2 DEF ConnOf, SeenOf, Ready, ReadyFor, Looking
<1>. HIDE DEF d
<1>. QED
  BY <1>1, <1>3, <1>4, Same, MovesTo, Zenon DEF F, c

LEMMA OnResyncMoves ==
    ASSUME NEW M, NEW A, NEW C, NEW S, NEW X, Handling(M, A, C, S, X), NEW h \in Conns,
           OnResync(h)
    PROVE  Moves(h, ConnOf(M, A, FeedOf(C, S, X)), X)
<1>. DEFINE c == conn[h]  F == FeedOf(C, S, X)  p == "check"
            f == IF latest.version > lastAcked THEN WithScreen(c.feed) ELSE c.feed
            d == [c EXCEPT !.pc = p, !.feed = f]
<1>1. c \in ConnOf(M, A, F) /\ conn \in [Conns -> ConnOf(M, A, F)]
  BY Zenon DEF Handling
<1>2. p \in Labels \ Looking
  BY DEF Labels, Looking
<1>3. conn' = [conn EXCEPT ![h] = d]
  BY <1>1, Zenon DEF OnResync
<1>4. c.feed \in F
  <2>. HIDE DEF c, F
  <2>. QED
    BY <1>1 DEF ConnOf
<1>5. f \in F /\ StillTells(c.feed, f, X)
  <2>1. CASE latest.version > lastAcked
    BY <1>4, <2>1, WithScreenIs, Zenon
  <2>2. CASE ~(latest.version > lastAcked)
    BY <1>4, <2>2, Same, Zenon
  <2>. QED
    BY <2>1, <2>2, Zenon
<1>. HIDE DEF p, f, c, F
<1>6. d \in ConnOf(M, A, F) /\ d.feed = f /\ Ready(d)
  BY <1>1, <1>2, <1>5 DEF ConnOf, Ready, ReadyFor, Looking
<1>. HIDE DEF d
<1>. QED
  BY <1>1, <1>3, <1>5, <1>6, MovesTo, Zenon DEF F, c

LEMMA ReadMoves ==
    ASSUME NEW M, NEW A, NEW C, NEW S, NEW X, Handling(M, A, C, S, X), NEW h \in Conns,
           NEW q \in Seq(M), read_more(h, q)
    PROVE  Moves(h, ConnOf(M, A, FeedOf(C, S, X)), X)
<1>. DEFINE c == conn[h]  F == FeedOf(C, S, X)  p == "check"  l == c.leftover \o q
            d == [c EXCEPT !.leftover = l, !.pc = p]
<1>1. c \in ConnOf(M, A, F) /\ conn \in [Conns -> ConnOf(M, A, F)]
  BY Zenon DEF Handling
<1>2. p \in Labels \ Looking
  BY DEF Labels, Looking
<1>3. conn' = [conn EXCEPT ![h] = d]
  BY <1>1, Zenon DEF read_more
<1>4. l \in Seq(M)
  <2>1. c.leftover \in Seq(M)
    <3>. HIDE DEF c, F
    <3>. QED
      BY <1>1 DEF ConnOf
  <2>. HIDE DEF c
  <2>. QED
    BY <2>1
<1>. HIDE DEF p, l, c, F
<1>5. d \in ConnOf(M, A, F) /\ d.feed = c.feed /\ Ready(d)
  BY <1>1, <1>2, <1>4 DEF ConnOf, Ready, ReadyFor, Looking
<1>. HIDE DEF d
<1>. QED
  BY <1>1, <1>3, <1>5, Same, MovesTo, Zenon DEF F, c

\* Writing a frame: whoever gets it still sees the newest screen first,
\* unless it is this frame.
LEMMA WriteMoves ==
    ASSUME NEW M, NEW A, NEW C, NEW S, NEW X, Handling(M, A, C, S, X), NEW h \in Conns,
           Write(h)
    PROVE  /\ conn' \in [Conns -> ConnOf(M, A, FeedOf(C, S, X))]
           /\ Ready(conn'[h]) /\ \A g \in Conns \ {h} : conn'[g] = conn[g]
           /\ Outgoing(h) \in C \cup S \cup X /\ conn[h].feed.out = <<Outgoing(h)>>
           /\ \A s : (Tells(conn[h].feed, s, X) /\ Outgoing(h) # s) => Tells(conn'[h].feed, s, X)
<1>. DEFINE c == conn[h]  F == FeedOf(C, S, X)  p == IF c.pc = "select" THEN "check" ELSE "flush"
            f == feed_advance(c.feed, c.feed.left)  d == [c EXCEPT !.feed = f, !.pc = p]
<1>1. c \in ConnOf(M, A, F) /\ conn \in [Conns -> ConnOf(M, A, F)]
  BY Zenon DEF Handling
<1>2. p \in Labels \ Looking
  BY DEF Labels, Looking
<1>3. conn' = [conn EXCEPT ![h] = d]
  BY <1>1, Zenon DEF Write
<1>4. c.feed \in F
  <2>. HIDE DEF c, F
  <2>. QED
    BY <1>1 DEF ConnOf
<1>5. Outgoing(h) \in C \cup S \cup X /\ c.feed.out = <<Outgoing(h)>>
  <2>1. c.feed.out # <<>>
    BY Zenon DEF Write, writing
  <2>2. c.feed.out \in Opt(C \cup S \cup X)
    BY <1>4 DEF FeedOf
  <2>. DEFINE q == c.feed.out
  <2>3. PICK x \in C \cup S \cup X : q = <<x>>
    <3>. HIDE DEF q
    <3>. QED
      BY <2>1, <2>2, OptIs DEF q
  <2>4. Outgoing(h) = x
    <3>1. Head(<<x>>) = x
      OBVIOUS
    <3>. QED
      BY <2>3, <3>1, Zenon DEF Outgoing
  <2>. QED
    BY <2>3, <2>4, Zenon
<1>6. f \in F /\ \A s : (Tells(c.feed, s, X) /\ c.feed.out # <<s>>) => Tells(f, s, X)
  <2>1. (\A x \in C \cup S \cup X : x.len \in Int) /\ \A x \in X : x \notin C \cup S
    BY Zenon DEF Handling
  <2>. HIDE DEF c
  <2>. QED
    BY <1>4, <2>1, AdvanceIs
<1>7. \A s : (Tells(c.feed, s, X) /\ Outgoing(h) # s) => Tells(f, s, X)
  <2>1. \A s : c.feed.out = <<s>> => Outgoing(h) = s
    BY <1>5
  <2>. HIDE DEF f, c
  <2>. QED
    BY <1>6, <2>1, Zenon
<1>. HIDE DEF p, f, c, F
<1>8. d \in ConnOf(M, A, F) /\ d.feed = f /\ Ready(d)
  BY <1>1, <1>2, <1>6 DEF ConnOf, Ready, ReadyFor, Looking
<1>. HIDE DEF d
<1>9. /\ conn' \in [Conns -> ConnOf(M, A, F)] /\ conn'[h] = d
      /\ \A g \in Conns \ {h} : conn'[g] = conn[g]
  BY <1>1, <1>3, <1>8, Zenon
<1>. QED
  BY <1>5, <1>7, <1>8, <1>9, Zenon DEF F, c

\* A step a handler makes on its own.
LEMMA ProceedMoves ==
    ASSUME NEW M, NEW A, NEW C, NEW S, NEW X, Handling(M, A, C, S, X), NEW h \in Conns,
           Proceed(h)
    PROVE  Moves(h, ConnOf(M, A, FeedOf(C, S, X)), X)
<1>. DEFINE c == conn[h]  F == FeedOf(C, S, X)
<1>1. c \in ConnOf(M, A, F) /\ conn \in [Conns -> ConnOf(M, A, F)] /\ Ready(c)
  BY Zenon DEF Handling
<1>2. ASSUME NEW p \in Labels \ Looking, Go(h, p)
      PROVE  Moves(h, ConnOf(M, A, F), X)
  <2>1. ReadyFor(p, c)
    BY <1>2, Zenon DEF ReadyFor, Looking
  <2>. QED
    BY <1>1, <1>2, <2>1, GoMoves, Zenon
<1>3. {"attach", "subscribe", "done", "mark"} \subseteq Labels \ Looking
  BY DEF Labels, Looking
<1>4. CASE Announce(h) \/ Attach(h) \/ detach_if_epoch(h) \/ MarkDetached(h)
  BY <1>2, <1>3, <1>4, Zenon DEF Announce, Attach, detach_if_epoch, MarkDetached
<1>5. CASE NextFrame(h)
  <2>1. c.leftover # <<>>
    <3>1. c.pc = "frames"
      BY <1>5, Zenon DEF NextFrame, At
    <3>. HIDE DEF c
    <3>. QED
      BY <1>1, <3>1 DEF Ready, ReadyFor
  <2>2. "apply" \in Labels /\ ReadyFor("apply", c)
    <3>. HIDE DEF c
    <3>. QED
      BY <2>1 DEF Labels, ReadyFor
  <2>3. AfterFrames(c) \in Labels /\ ReadyFor(AfterFrames(c), c)
    BY LoopTopIs, Zenon
  <2>4. Go(h, "apply") \/ Go(h, AfterFrames(c))
    BY <1>5, Zenon DEF NextFrame
  <2>. QED
    BY <1>1, <2>2, <2>3, <2>4, GoMoves, Zenon
<1>6. CASE CheckEpoch(h)
  <2>1. LoopTop(c) \in Labels /\ ReadyFor(LoopTop(c), c)
    BY LoopTopIs, Zenon
  <2>2. Go(h, LoopTop(c)) \/ Leave(h)
    BY <1>6, Zenon DEF CheckEpoch
  <2>3. CASE Go(h, LoopTop(c))
    BY <1>1, <2>1, <2>3, GoMoves, Zenon
  <2>. QED
    BY <2>2, <2>3, LeaveMoves, Zenon
<1>7. CASE drain_busy(h)
  <2>1. c.busy # <<>>
    <3>1. c.pc = "busy"
      BY <1>7, Zenon DEF drain_busy, At
    <3>. HIDE DEF c
    <3>. QED
      BY <1>1, <3>1 DEF Ready, ReadyFor
  <2>. QED
    BY <1>7, <2>1, DrainMoves, Zenon
<1>8. CASE Flushed(h)
  BY <1>8, LeaveMoves, Zenon DEF Flushed
<1>9. CASE Claim(h) \/ Subscribe(h) \/ Greet(h)
  BY <1>9, ClaimMoves, SubscribeMoves, GreetMoves, Zenon
<1>10. CASE on_control(h) \/ ApplyResize(h) \/ QueueAck(h)
  BY <1>10, ControlMoves, ApplyResizeMoves, QueueAckMoves, Zenon
<1>11. CASE queue_exit(h) \/ OnEpoch(h) \/ OnExit(h)
  BY <1>11, QueueExitMoves, OnEpochMoves, OnExitMoves, Zenon
<1>. QED
  BY <1>4, <1>5, <1>6, <1>7, <1>8, <1>9, <1>10, <1>11, Zenon DEF Proceed

\* Frames that are what they look like, as all the client's are.
Faithful(M) ==
    /\ \A m \in M : /\ m.op = "Input" => m = Input(m.seq, m.data)
                    /\ m.op = "Ack" => m = Ack(m.version)
                    /\ m.op = "Hangup" => m = Hangup
    /\ \A s \in AnySize : Resize(s) \in M

\* What a handler's step does to the shared Session.
Serves(M) ==
    /\ \/ UNCHANGED <<cmds, shutdown, lastAcked>>
       \/ \E m \in M : cmds' = Append(cmds, m) /\ UNCHANGED <<shutdown, lastAcked>>
       \/ shutdown' = TRUE /\ Hangup \in M /\ UNCHANGED <<cmds, lastAcked>>
       \/ \E v : /\ Ack(v) \in M /\ lastAcked' = AckMax(v) /\ UNCHANGED shutdown
                 /\ cmds' \in {cmds, Append(cmds, Ack(v))}
    /\ UNCHANGED <<closed, accepted, latest, exit, size, registered, accLog>>

LEMMA ProceedServes ==
    ASSUME NEW M, NEW A, NEW C, NEW S, NEW X, Handling(M, A, C, S, X), Faithful(M),
           NEW h \in Conns, Proceed(h)
    PROVE  Serves(M)
<1>. DEFINE c == conn[h]  F == FeedOf(C, S, X)
<1>1. c \in ConnOf(M, A, F) /\ Ready(c)
  BY Zenon DEF Handling
<1>2. c.leftover \in Seq(M) /\ c.busy \in Seq(Inputs(M)) /\ c.wantSize \in AnySize
  <2>. HIDE DEF c, F
  <2>. QED
    BY <1>1 DEF ConnOf
<1>3. CASE UNCHANGED shared
  BY <1>3, Zenon DEF Serves, shared
<1>4. CASE on_control(h)
  <2>. DEFINE m == Head(c.leftover)
  <2>1. c.leftover # <<>>
    <3>1. c.pc = "apply"
      BY <1>4, Zenon DEF on_control, At
    <3>. HIDE DEF c
    <3>. QED
      BY <1>1, <3>1 DEF Ready, ReadyFor
  <2>2. m \in M
    BY <1>2, <2>1
  <2>3. \/ UNCHANGED shared
        \/ m.op = "Hangup" /\ request_hangup
        \/ m.op = "Ack" /\ try_ack(m.version)
    BY <1>4, Zenon DEF on_control
  <2>. HIDE DEF m
  <2>4. CASE m.op = "Hangup" /\ request_hangup
    BY <2>2, <2>4, Zenon DEF Faithful, Serves, request_hangup
  <2>5. CASE m.op = "Ack" /\ try_ack(m.version)
    <3>1. Ack(m.version) \in M
      BY <2>2, <2>5, Zenon DEF Faithful
    <3>. DEFINE v == m.version
    <3>2. /\ cmds' \in {cmds, Append(cmds, Ack(v))} /\ lastAcked' = AckMax(v)
          /\ UNCHANGED <<shutdown, closed, accepted, latest, exit, size, registered, accLog>>
      <4>1. try_ack(v)
        BY <2>5
      <4>2. CASE HasRoom
        BY <4>1, <4>2, Zenon DEF try_ack
      <4>3. CASE ~HasRoom
        BY <4>1, <4>3, Zenon DEF try_ack
      <4>. QED
        BY <4>2, <4>3, Zenon
    <3>. QED
      BY <3>1, <3>2, Zenon DEF Serves
  <2>. QED
    BY <1>3, <2>3, <2>4, <2>5, Zenon
<1>5. CASE drain_busy(h)
  <2>. DEFINE m == Head(c.busy)
  <2>1. c.busy # <<>>
    <3>1. c.pc = "busy"
      BY <1>5, Zenon DEF drain_busy, At
    <3>. HIDE DEF c
    <3>. QED
      BY <1>1, <3>1 DEF Ready, ReadyFor
  <2>2. m \in Inputs(M)
    BY <1>2, <2>1
  <2>3. UNCHANGED shared \/ try_input(m.seq, m.data)
    BY <1>5, Zenon DEF drain_busy
  <2>. HIDE DEF m
  <2>4. CASE try_input(m.seq, m.data)
    <3>1. Input(m.seq, m.data) \in M
      BY <2>2, Zenon DEF Faithful, Inputs
    <3>. QED
      BY <2>4, <3>1, Zenon DEF try_input, Serves
  <2>. QED
    BY <1>3, <2>3, <2>4, Zenon
<1>6. CASE ApplyResize(h)
  <2>1. UNCHANGED shared \/ try_resize(c.wantSize)
    BY <1>6, Zenon DEF ApplyResize
  <2>2. CASE try_resize(c.wantSize)
    <3>1. Resize(c.wantSize) \in M
      BY <1>2, Zenon DEF Faithful
    <3>. QED
      BY <2>2, <3>1, Zenon DEF try_resize, Serves
  <2>. QED
    BY <1>3, <2>1, <2>2, Zenon
<1>7. CASE Claim(h) \/ Announce(h) \/ Attach(h) \/ Subscribe(h) \/ Greet(h) \/ NextFrame(h)
  BY <1>3, <1>7, Zenon DEF Claim, Announce, Attach, Subscribe, Greet, NextFrame
<1>8. CASE QueueAck(h) \/ queue_exit(h) \/ Flushed(h) \/ OnEpoch(h) \/ OnExit(h)
           \/ CheckEpoch(h) \/ detach_if_epoch(h) \/ MarkDetached(h)
  BY <1>3, <1>8, Zenon DEF QueueAck, queue_exit, Flushed, OnEpoch, OnExit, CheckEpoch,
                           detach_if_epoch, MarkDetached
<1>. QED
  BY <1>4, <1>5, <1>6, <1>7, <1>8, Zenon DEF Proceed

\* The epoch and its watch stay naturals.
LEMMA ProceedBooks ==
    ASSUME NEW M, NEW A, NEW C, NEW S, NEW X, Handling(M, A, C, S, X), NEW h \in Conns,
           Proceed(h)
    PROVE  epoch' \in Nat /\ epochWatch' \in Nat
<1>1. epoch \in Nat /\ epochWatch \in Nat /\ conn[h].epoch \in Nat
  <2>1. conn[h] \in ConnOf(M, A, FeedOf(C, S, X)) /\ epoch \in Nat /\ epochWatch \in Nat
    BY Zenon DEF Handling
  <2>. DEFINE F == FeedOf(C, S, X)  c == conn[h]
  <2>2. c \in ConnOf(M, A, F)
    BY <2>1
  <2>. HIDE DEF F, c
  <2>3. c.epoch \in Nat
    BY <2>2 DEF ConnOf
  <2>. QED
    BY <2>1, <2>3, Zenon DEF c
<1>2. \/ UNCHANGED <<epoch, epochWatch>>
      \/ epoch' = epoch + 1 /\ UNCHANGED epochWatch
      \/ epochWatch' = conn[h].epoch /\ UNCHANGED epoch
  <2>1. CASE UNCHANGED bookkeeping
    BY <2>1, Zenon DEF bookkeeping
  <2>2. CASE Claim(h) \/ Announce(h) \/ Attach(h) \/ MarkDetached(h)
    BY <2>2, Zenon DEF Claim, Announce, Attach, MarkDetached
  <2>3. CASE Subscribe(h) \/ Greet(h) \/ NextFrame(h) \/ on_control(h) \/ drain_busy(h)
    BY <2>1, <2>3, Zenon DEF Subscribe, Greet, NextFrame, on_control, drain_busy
  <2>4. CASE QueueAck(h) \/ queue_exit(h) \/ Flushed(h) \/ OnEpoch(h) \/ OnExit(h)
             \/ CheckEpoch(h) \/ detach_if_epoch(h) \/ ApplyResize(h)
    BY <2>1, <2>4, Zenon DEF QueueAck, queue_exit, Flushed, OnEpoch, OnExit, CheckEpoch,
                             detach_if_epoch, ApplyResize
  <2>. QED
    BY <2>2, <2>3, <2>4, Zenon DEF Proceed
<1>. QED
  BY <1>1, <1>2
-----------------------------------------------------------------------------
(* What the session says: acknowledgements of n inputs, screens up to the  *)
(* newest one (l), and its exit status, if it has one (x).                 *)

AnyScreen == [version : Nat, echoAck : Nat, frame : Nat, size : AnySize \cup {"none"}]
Past(l) == {s \in AnyScreen : s.version < l.version \/ s = l}
CtrlFrames(n) == {HelloOk, Pong, Error} \cup {InputAck(i) : i \in 0..n}
ScreenFrames(l) == {Screen(s) : s \in Past(l)}
ExitFrames(x) == {Exit(e) : e \in {x} \ {NoExit}}
Frames(n, l, x) == CtrlFrames(n) \cup ScreenFrames(l) \cup ExitFrames(x)

LEMMA FrameKinds ==
    /\ HelloOk.kind = "HelloOk" /\ Pong.kind = "Pong" /\ Error.kind = "Error"
    /\ \A i : InputAck(i).kind = "InputAck" /\ InputAck(i).seq = i
    /\ \A s : Screen(s).kind = "Screen" /\ Screen(s).screen = s
    /\ \A e : Exit(e).kind = "Exit" /\ Exit(e).status = e
    /\ HelloOk.len = 1 /\ Pong.len = 1 /\ Error.len = 1
    /\ \A i : InputAck(i).len = 1 /\ Screen(i).len = 1 /\ Exit(i).len = 1
  BY DEF HelloOk, Pong, Error, InputAck, Screen, Exit

LEMMA FramesDiffer ==
    ASSUME NEW n, NEW l, NEW x
    PROVE  /\ \A f \in CtrlFrames(n) \cup ScreenFrames(l) \cup ExitFrames(x) : f.len \in Int
           /\ \A f \in ExitFrames(x) : f \notin CtrlFrames(n) \cup ScreenFrames(l)
           /\ \A f \in Frames(n, l, x) : f.kind = "Exit" <=> f \in ExitFrames(x)
           /\ \A f \in ExitFrames(x) : f = Exit(x) /\ x # NoExit
<1>1. \A f \in CtrlFrames(n) : f.len = 1 /\ f.kind \in {"HelloOk", "Pong", "Error", "InputAck"}
  BY FrameKinds DEF CtrlFrames
<1>2. \A f \in ScreenFrames(l) : f.len = 1 /\ f.kind = "Screen"
  BY FrameKinds DEF ScreenFrames
<1>3. \A f \in ExitFrames(x) : f.len = 1 /\ f.kind = "Exit" /\ f = Exit(x) /\ x # NoExit
  BY FrameKinds DEF ExitFrames
<1>. QED
  BY <1>1, <1>2, <1>3 DEF Frames

LEMMA PastGrows ==
    ASSUME NEW l \in AnyScreen, NEW m \in AnyScreen, m = l \/ m.version > l.version
    PROVE  Past(l) \subseteq Past(m)
<1>1. l.version \in Nat /\ m.version \in Nat /\ \A s \in AnyScreen : s.version \in Nat
  BY DEF AnyScreen
<1>. SUFFICES ASSUME NEW s \in Past(l) PROVE s \in Past(m)
  OBVIOUS
<1>2. s \in AnyScreen /\ (s.version < l.version \/ s = l)
  BY Zenon DEF Past
<1>3. s.version < m.version \/ s = m
  BY <1>1, <1>2
<1>. QED
  BY <1>2, <1>3, Zenon DEF Past

LEMMA FramesGrow ==
    ASSUME NEW n \in Nat, NEW m \in Nat, n <= m, NEW l \in AnyScreen, NEW k \in AnyScreen,
           k = l \/ k.version > l.version, NEW x, NEW y, x = y \/ x = NoExit
    PROVE  /\ CtrlFrames(n) \subseteq CtrlFrames(m) /\ ScreenFrames(l) \subseteq ScreenFrames(k)
           /\ ExitFrames(x) \subseteq ExitFrames(y) /\ Frames(n, l, x) \subseteq Frames(m, k, y)
<1>1. CtrlFrames(n) \subseteq CtrlFrames(m)
  <2>1. 0..n \subseteq 0..m
    OBVIOUS
  <2>. QED
    BY <2>1, Zenon DEF CtrlFrames
<1>2. ScreenFrames(l) \subseteq ScreenFrames(k)
  <2>1. Past(l) \subseteq Past(k)
    BY PastGrows
  <2>. QED
    BY <2>1, Zenon DEF ScreenFrames
<1>3. ExitFrames(x) \subseteq ExitFrames(y)
  <2>1. {x} \ {NoExit} \subseteq {y} \ {NoExit}
    BY Zenon
  <2>. QED
    BY <2>1, Zenon DEF ExitFrames
<1>. QED
  BY <1>1, <1>2, <1>3, Zenon DEF Frames

\* A handler that has not started.
LEMMA NewConnIs ==
    ASSUME NEW M, NEW A, 0 \in A, NEW C, NEW S, NEW X
    PROVE  NewConn \in ConnOf(M, A, FeedOf(C, S, X)) /\ Ready(NewConn) /\ NewConn.pc = "hello"
<1>. DEFINE F == FeedOf(C, S, X)  e == EmptyFeed  x == NoExit
<1>1. e \in F
  BY EmptyIs, Zenon
<1>2. x \in Nat \cup {NoExit}
  OBVIOUS
<1>. DEFINE s == [epoch |-> 0, version |-> 0, accepted |-> 0, exit |-> x]  t == <<>>
<1>3. t \in Seq(M) /\ t \in Seq(Inputs(M))
  OBVIOUS
<1>. HIDE DEF F, e, x, t
<1>4. s \in SeenOf
  BY <1>2 DEF SeenOf
<1>. HIDE DEF s
<1>5. NewConn = [pc |-> "hello", epoch |-> 0, leftover |-> t, busy |-> t,
                 wantSize |-> NoSize, wantAck |-> 0, feed |-> e, seen |-> s]
  BY Zenon DEF NewConn, e, s, t, x, NoAck
<1>6. NewConn \in ConnOf(M, A, F) /\ NewConn.pc = "hello"
  <2>1. NoSize \in AnySize /\ "hello" \in Labels
    BY DEF AnySize, Labels
  <2>. HIDE DEF AnySize, Labels
  <2>. QED
    BY <1>1, <1>3, <1>4, <1>5, <2>1 DEF ConnOf
<1>7. Ready(NewConn)
  BY <1>6 DEF Ready, ReadyFor
<1>. QED
  BY <1>6, <1>7, Zenon DEF F
=============================================================================
