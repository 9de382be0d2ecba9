------------------------------ MODULE FeedProofs ------------------------------
(***************************************************************************)
(* Theorems about FeedStream, for every budget, every set of frame sizes   *)
(* and any number of frames.                                               *)
(***************************************************************************)
EXTENDS FeedStream, SequenceTheorems, TLAPS

-----------------------------------------------------------------------------
(* What the operations of a feed do to its fields.                         *)

\* At most one frame in flight, one screen, one final frame; a frame in flight
\* has bytes left.
Single(f) ==
    /\ f \in FeedType
    /\ Len(f.out) <= 1 /\ Len(f.screen) <= 1 /\ Len(f.fin) <= 1
    /\ writing(f) <=> f.left > 0

LEMMA OneFrame ==
    ASSUME NEW x \in StreamFrames
    PROVE  <<x>> \in Seq(StreamFrames) /\ Len(<<x>>) = 1 /\ <<x>>[1] = x /\ x.len \in Nat \ {0}
  BY DEF StreamFrames

LEMMA InFlightIs ==
    ASSUME NEW f \in FeedType, NEW x \in StreamFrames
    PROVE  /\ InFlight(f, x) \in FeedType
           /\ InFlight(f, x).out = <<x>> /\ InFlight(f, x).left = x.len
           /\ InFlight(f, x).screen = f.screen /\ InFlight(f, x).fin = f.fin
           /\ InFlight(f, x).ctrl = f.ctrl /\ InFlight(f, x).ctrlBytes = f.ctrlBytes
<1>1. <<x>> \in Seq(StreamFrames) /\ x.len \in Nat
  BY OneFrame
<1>. DEFINE one == <<x>>
<1>. HIDE DEF one
<1>2. /\ [f EXCEPT !.out = one, !.left = x.len] \in FeedType
      /\ [f EXCEPT !.out = one, !.left = x.len].out = one
      /\ [f EXCEPT !.out = one, !.left = x.len].left = x.len
      /\ [f EXCEPT !.out = one, !.left = x.len].screen = f.screen
      /\ [f EXCEPT !.out = one, !.left = x.len].fin = f.fin
      /\ [f EXCEPT !.out = one, !.left = x.len].ctrl = f.ctrl
      /\ [f EXCEPT !.out = one, !.left = x.len].ctrlBytes = f.ctrlBytes
  <2>1. one \in Seq(StreamFrames) /\ x.len \in Nat
    BY <1>1 DEF one
  <2>. QED
    BY <2>1 DEF FeedType
<1>. QED
  BY <1>2, Zenon DEF InFlight, one

LEMMA SetScreen ==
    ASSUME NEW f \in FeedType, NEW c \in Seq(StreamFrames)
    PROVE  /\ [f EXCEPT !.screen = c] \in FeedType
           /\ [f EXCEPT !.screen = c].out = f.out /\ [f EXCEPT !.screen = c].left = f.left
           /\ [f EXCEPT !.screen = c].screen = c /\ [f EXCEPT !.screen = c].fin = f.fin
           /\ [f EXCEPT !.screen = c].ctrl = f.ctrl
           /\ [f EXCEPT !.screen = c].ctrlBytes = f.ctrlBytes
  BY DEF FeedType

LEMMA SetFin ==
    ASSUME NEW f \in FeedType, NEW c \in Seq(StreamFrames)
    PROVE  /\ [f EXCEPT !.fin = c] \in FeedType
           /\ [f EXCEPT !.fin = c].out = f.out /\ [f EXCEPT !.fin = c].left = f.left
           /\ [f EXCEPT !.fin = c].screen = f.screen /\ [f EXCEPT !.fin = c].fin = c
           /\ [f EXCEPT !.fin = c].ctrl = f.ctrl
           /\ [f EXCEPT !.fin = c].ctrlBytes = f.ctrlBytes
  BY DEF FeedType

LEMMA SetOut ==
    ASSUME NEW f \in FeedType
    PROVE  /\ [f EXCEPT !.out = <<>>, !.left = 0] \in FeedType
           /\ [f EXCEPT !.out = <<>>, !.left = 0].out = <<>>
           /\ [f EXCEPT !.out = <<>>, !.left = 0].left = 0
           /\ [f EXCEPT !.out = <<>>, !.left = 0].screen = f.screen
           /\ [f EXCEPT !.out = <<>>, !.left = 0].fin = f.fin
           /\ [f EXCEPT !.out = <<>>, !.left = 0].ctrl = f.ctrl
           /\ [f EXCEPT !.out = <<>>, !.left = 0].ctrlBytes = f.ctrlBytes
<1>1. <<>> \in Seq(StreamFrames)
  OBVIOUS
<1>. QED
  BY <1>1 DEF FeedType

LEMMA SetLeft ==
    ASSUME NEW f \in FeedType, NEW n \in Nat
    PROVE  /\ [f EXCEPT !.left = n] \in FeedType
           /\ [f EXCEPT !.left = n].out = f.out /\ [f EXCEPT !.left = n].left = n
           /\ [f EXCEPT !.left = n].screen = f.screen /\ [f EXCEPT !.left = n].fin = f.fin
           /\ [f EXCEPT !.left = n].ctrl = f.ctrl
           /\ [f EXCEPT !.left = n].ctrlBytes = f.ctrlBytes
  BY DEF FeedType

LEMMA HeadOf ==
    ASSUME NEW s \in Seq(StreamFrames), s # <<>>
    PROVE  /\ Head(s) \in StreamFrames /\ Head(s) = s[1] /\ Len(s) >= 1 /\ Tail(s) \in Seq(StreamFrames)
           /\ Len(Tail(s)) = Len(s) - 1
           /\ \A i \in 1..Len(Tail(s)) : Tail(s)[i] = s[i + 1]
           /\ Head(s).len \in Nat \ {0}
<1>1. Len(s) \in Nat \ {0}
  BY EmptySeq
<1>2. Head(s) = s[1] /\ Head(s) \in StreamFrames
  BY <1>1
<1>3. /\ Tail(s) \in Seq(StreamFrames) /\ Len(Tail(s)) = Len(s) - 1
      /\ \A i \in 1..Len(Tail(s)) : Tail(s)[i] = s[i + 1]
  BY HeadTailProperties
<1>. QED
  BY <1>1, <1>2, <1>3, OneFrame

\* The four cases of pump.
PumpsCtrl(f, g) ==
    /\ f.ctrl # <<>> /\ g.out = <<Head(f.ctrl)>> /\ g.left = Head(f.ctrl).len
    /\ g.ctrl = Tail(f.ctrl) /\ g.ctrlBytes = f.ctrlBytes - Head(f.ctrl).len
    /\ g.screen = f.screen /\ g.fin = f.fin
PumpsScreen(f, g) ==
    /\ f.ctrl = <<>> /\ f.screen # <<>> /\ g.out = <<Head(f.screen)>>
    /\ g.left = Head(f.screen).len /\ g.screen = <<>> /\ g.fin = f.fin
    /\ g.ctrl = <<>> /\ g.ctrlBytes = f.ctrlBytes
PumpsFin(f, g) ==
    /\ f.ctrl = <<>> /\ f.screen = <<>> /\ f.fin # <<>> /\ g.out = <<Head(f.fin)>>
    /\ g.left = Head(f.fin).len /\ g.screen = <<>> /\ g.fin = <<>>
    /\ g.ctrl = <<>> /\ g.ctrlBytes = f.ctrlBytes

LEMMA PumpIs ==
    ASSUME NEW f \in FeedType
    PROVE  /\ pump(f) \in FeedType
           /\ \/ pump(f) = f /\ (writing(f) \/ is_empty(f))
              \/ ~writing(f) /\ PumpsCtrl(f, pump(f))
              \/ ~writing(f) /\ PumpsScreen(f, pump(f))
              \/ ~writing(f) /\ PumpsFin(f, pump(f))
<1>1. /\ f.out \in Seq(StreamFrames) /\ f.screen \in Seq(StreamFrames) /\ f.ctrl \in Seq(StreamFrames)
      /\ f.fin \in Seq(StreamFrames) /\ f.ctrlBytes \in Int /\ <<>> \in Seq(StreamFrames)
  BY DEF FeedType
<1>2. CASE writing(f)
  BY <1>2, Zenon DEF pump
<1>3. CASE ~writing(f) /\ f.ctrl # <<>>
  <2>. DEFINE x == Head(f.ctrl)  g == InFlight(f, x)  n == f.ctrlBytes - x.len
  <2>1. x \in StreamFrames /\ Tail(f.ctrl) \in Seq(StreamFrames) /\ n \in Int
    BY <1>1, <1>3, HeadOf
  <2>2. /\ g \in FeedType /\ g.out = <<x>> /\ g.left = x.len /\ g.screen = f.screen
        /\ g.fin = f.fin /\ g.ctrl = f.ctrl /\ g.ctrlBytes = f.ctrlBytes
    BY <2>1, InFlightIs
  <2>3. pump(f) = [g EXCEPT !.ctrl = Tail(g.ctrl), !.ctrlBytes = g.ctrlBytes - x.len]
    BY <1>3, Zenon DEF pump
  <2>. HIDE DEF g
  <2>4. pump(f) = [g EXCEPT !.ctrl = Tail(f.ctrl), !.ctrlBytes = n]
    BY <2>2, <2>3, Zenon
  <2>. HIDE DEF x, n
  <2>. DEFINE e == [g EXCEPT !.ctrl = Tail(f.ctrl), !.ctrlBytes = n]
  <2>5. /\ e \in FeedType /\ e.out = g.out /\ e.left = g.left /\ e.screen = g.screen
        /\ e.fin = g.fin /\ e.ctrl = Tail(f.ctrl) /\ e.ctrlBytes = n
    BY <2>1, <2>2 DEF FeedType
  <2>. HIDE DEF e
  <2>. QED
    BY <1>3, <2>2, <2>4, <2>5 DEF PumpsCtrl, x, n, e
<1>4. CASE ~writing(f) /\ f.ctrl = <<>> /\ f.screen # <<>>
  <2>. DEFINE x == Head(f.screen)  g == InFlight(f, x)
  <2>1. x \in StreamFrames
    BY <1>1, <1>4, HeadOf
  <2>2. /\ g \in FeedType /\ g.out = <<x>> /\ g.left = x.len
        /\ g.fin = f.fin /\ g.ctrl = f.ctrl /\ g.ctrlBytes = f.ctrlBytes
    BY <2>1, InFlightIs
  <2>3. pump(f) = [g EXCEPT !.screen = <<>>]
    BY <1>4, Zenon DEF pump
  <2>. HIDE DEF x, g
  <2>. DEFINE e == [g EXCEPT !.screen = <<>>]
  <2>4. /\ e \in FeedType /\ e.out = g.out /\ e.left = g.left /\ e.screen = <<>>
        /\ e.fin = g.fin /\ e.ctrl = g.ctrl /\ e.ctrlBytes = g.ctrlBytes
    BY <1>1, <2>2, SetScreen, Zenon
  <2>. HIDE DEF e
  <2>. QED
    BY <1>4, <2>2, <2>3, <2>4 DEF PumpsScreen, x, e
<1>5. CASE ~writing(f) /\ f.ctrl = <<>> /\ f.screen = <<>> /\ f.fin # <<>>
  <2>. DEFINE x == Head(f.fin)  g == InFlight(f, x)
  <2>1. x \in StreamFrames
    BY <1>1, <1>5, HeadOf
  <2>2. /\ g \in FeedType /\ g.out = <<x>> /\ g.left = x.len /\ g.screen = f.screen
        /\ g.ctrl = f.ctrl /\ g.ctrlBytes = f.ctrlBytes
    BY <2>1, InFlightIs
  <2>3. pump(f) = [g EXCEPT !.fin = <<>>]
    BY <1>5, Zenon DEF pump
  <2>. HIDE DEF x, g
  <2>. DEFINE e == [g EXCEPT !.fin = <<>>]
  <2>4. /\ e \in FeedType /\ e.out = g.out /\ e.left = g.left /\ e.fin = <<>>
        /\ e.screen = g.screen /\ e.ctrl = g.ctrl /\ e.ctrlBytes = g.ctrlBytes
    BY <1>1, <2>2, SetFin, Zenon
  <2>. HIDE DEF e
  <2>. QED
    BY <1>5, <2>2, <2>3, <2>4 DEF PumpsFin, x, e
<1>6. CASE is_empty(f)
  BY <1>6, Zenon DEF pump, is_empty
<1>. QED
  BY <1>2, <1>3, <1>4, <1>5, <1>6 DEF is_empty
-----------------------------------------------------------------------------
(* The stream: a feed f, the frames w written before it.                   *)

SentOf(w, f) == w \o f.out
LineOf(w, f) == w \o f.out \o f.ctrl

\* The control frames of a line are numbers 1..nc but d, in order.
Fifo(line, nc, d) ==
    /\ \A i, j \in DOMAIN line :
           i < j /\ line[i].kind = "ctrl" /\ line[j].kind = "ctrl" => line[i].n < line[j].n
    /\ \A i \in DOMAIN line :
           line[i].kind = "ctrl" => line[i].n \in 1..nc /\ line[i].n \notin d
    /\ \A n \in 1..nc :
           n \in d \/ \E i \in DOMAIN line : line[i].kind = "ctrl" /\ line[i].n = n

LEMMA FifoOther ==
    ASSUME NEW line \in Seq(StreamFrames), NEW x \in StreamFrames, x.kind # "ctrl", NEW nc, NEW d,
           Fifo(line, nc, d)
    PROVE  Fifo(Append(line, x), nc, d)
<1>. DEFINE new == Append(line, x)
<1>1. /\ Len(line) \in Nat /\ DOMAIN line = 1..Len(line) /\ DOMAIN new = 1..(Len(line) + 1)
      /\ new[Len(line) + 1] = x /\ \A i \in DOMAIN line : new[i] = line[i]
  OBVIOUS
<1>2. \A i \in DOMAIN new : i \in DOMAIN line \/ i = Len(line) + 1
  BY <1>1
<1>3. \A i \in DOMAIN line : i \in DOMAIN new
  BY <1>1
<1>. HIDE DEF new
<1>4. \A i \in DOMAIN new : new[i].kind = "ctrl" => i \in DOMAIN line /\ new[i] = line[i]
  BY <1>1, <1>2
<1>5. Fifo(new, nc, d)
  BY <1>1, <1>3, <1>4 DEF Fifo
<1>. QED
  BY <1>5 DEF new

LEMMA FifoNext ==
    ASSUME NEW line \in Seq(StreamFrames), NEW x \in StreamFrames, NEW nc \in Nat,
           x.kind = "ctrl", x.n = nc + 1, Fifo(line, nc, {})
    PROVE  Fifo(Append(line, x), nc + 1, {})
<1>. DEFINE new == Append(line, x)
<1>1. /\ Len(line) \in Nat /\ DOMAIN line = 1..Len(line) /\ DOMAIN new = 1..(Len(line) + 1)
      /\ new[Len(line) + 1] = x /\ \A i \in DOMAIN line : new[i] = line[i]
  OBVIOUS
<1>2. \A i \in DOMAIN new : i \in DOMAIN line \/ i = Len(line) + 1
  BY <1>1
<1>3. \A i \in DOMAIN line : i \in DOMAIN new /\ i < Len(line) + 1
  BY <1>1
<1>. HIDE DEF new
<1>4. \A i \in DOMAIN line : line[i].kind = "ctrl" => line[i].n \in 1..nc
  BY DEF Fifo
<1>5. \A i, j \in DOMAIN new :
          i < j /\ new[i].kind = "ctrl" /\ new[j].kind = "ctrl" => new[i].n < new[j].n
  <2>. SUFFICES ASSUME NEW i \in DOMAIN new, NEW j \in DOMAIN new, i < j,
                       new[i].kind = "ctrl", new[j].kind = "ctrl"
                PROVE  new[i].n < new[j].n
    OBVIOUS
  <2>1. i \in DOMAIN line
    BY <1>1
  <2>2. CASE j \in DOMAIN line
    BY <1>1, <2>1, <2>2 DEF Fifo
  <2>3. CASE j = Len(line) + 1
    BY <1>1, <1>4, <2>1, <2>3
  <2>. QED
    BY <1>2, <2>2, <2>3
<1>6. \A i \in DOMAIN new : new[i].kind = "ctrl" => new[i].n \in 1..(nc + 1)
  BY <1>1, <1>2, <1>4
<1>7. \A n \in 1..(nc + 1) : \E i \in DOMAIN new : new[i].kind = "ctrl" /\ new[i].n = n
  <2>. TAKE n \in 1..(nc + 1)
  <2>1. CASE n = nc + 1
    BY <1>1, <2>1
  <2>2. CASE n \in 1..nc
    BY <1>1, <1>3, <2>2 DEF Fifo
  <2>. QED
    BY <2>1, <2>2
<1>8. Fifo(new, nc + 1, {})
  BY <1>5, <1>6, <1>7 DEF Fifo
<1>. QED
  BY <1>8 DEF new

\* The control frames at the end of a line are thrown away.
LEMMA FifoCut ==
    ASSUME NEW sent \in Seq(StreamFrames), NEW ctrl \in Seq(StreamFrames), NEW nc \in Nat,
           \A i \in DOMAIN ctrl : ctrl[i].kind = "ctrl", Fifo(sent \o ctrl, nc, {})
    PROVE  /\ Fifo(sent, nc, {ctrl[i].n : i \in DOMAIN ctrl})
           /\ {ctrl[i].n : i \in DOMAIN ctrl} \subseteq 1..nc
<1>. DEFINE line == sent \o ctrl
            d == {ctrl[i].n : i \in DOMAIN ctrl}
<1>1. /\ DOMAIN line = 1..(Len(sent) + Len(ctrl)) /\ DOMAIN sent = 1..Len(sent)
      /\ DOMAIN ctrl = 1..Len(ctrl) /\ Len(sent) \in Nat /\ Len(ctrl) \in Nat
      /\ \A i \in 1..Len(sent) : line[i] = sent[i]
      /\ \A i \in 1..Len(ctrl) : line[Len(sent) + i] = ctrl[i]
  OBVIOUS
<1>2. \A i \in DOMAIN line : i \in DOMAIN sent \/ \E j \in DOMAIN ctrl : i = Len(sent) + j
  <2>. TAKE i \in DOMAIN line
  <2>1. \/ i \in DOMAIN sent
        \/ i - Len(sent) \in DOMAIN ctrl /\ i = Len(sent) + (i - Len(sent))
    BY <1>1
  <2>. QED
    BY <2>1
<1>3. /\ \A i \in DOMAIN sent : i \in DOMAIN line /\ line[i] = sent[i]
      /\ \A j \in DOMAIN ctrl : Len(sent) + j \in DOMAIN line /\ line[Len(sent) + j] = ctrl[j]
      /\ \A i \in DOMAIN sent, j \in DOMAIN ctrl : i < Len(sent) + j
  BY <1>1
<1>4. Fifo(line, nc, {})
  OBVIOUS
<1>. HIDE DEF line
<1>5. d \subseteq 1..nc
  <2>1. ASSUME NEW j \in DOMAIN ctrl
        PROVE  ctrl[j].n \in 1..nc
    <3>. DEFINE i == Len(sent) + j
    <3>1. i \in DOMAIN line /\ line[i] = ctrl[j] /\ line[i].kind = "ctrl"
      BY <1>3
    <3>. QED
      BY <1>4, <3>1 DEF Fifo
  <2>. QED
    BY <2>1
<1>6. \A i \in DOMAIN sent : sent[i].kind = "ctrl" => sent[i].n \notin d
  <2>. SUFFICES ASSUME NEW i \in DOMAIN sent, sent[i].kind = "ctrl", NEW j \in DOMAIN ctrl
                PROVE  sent[i].n # ctrl[j].n
    OBVIOUS
  <2>. DEFINE k == Len(sent) + j
  <2>1. /\ i \in DOMAIN line /\ line[i] = sent[i] /\ i < k
        /\ k \in DOMAIN line /\ line[k] = ctrl[j] /\ line[k].kind = "ctrl"
    BY <1>3
  <2>. HIDE DEF k
  <2>2. sent[i].n < ctrl[j].n /\ sent[i].n \in 1..nc
    BY <1>4, <2>1 DEF Fifo
  <2>. QED
    BY <2>2
<1>7. \A n \in 1..nc : n \in d \/ \E i \in DOMAIN sent : sent[i].kind = "ctrl" /\ sent[i].n = n
  <2>. TAKE n \in 1..nc
  <2>1. PICK i \in DOMAIN line : line[i].kind = "ctrl" /\ line[i].n = n
    BY <1>4 DEF Fifo
  <2>. QED
    BY <1>2, <1>3, <2>1
<1>8. Fifo(sent, nc, d)
  BY <1>3, <1>4, <1>6, <1>7 DEF Fifo
<1>. QED
  BY <1>5, <1>8
-----------------------------------------------------------------------------
(* The invariant, of any feed and the frames before it.                    *)

\* Running totals, which never fall.
Bytes(f) ==
    \E total \in [0..Len(f.ctrl) -> 0..CtrlCap] :
        /\ total[0] = 0 /\ total[Len(f.ctrl)] = f.ctrlBytes
        /\ \A i \in 1..Len(f.ctrl) : total[i] = total[i - 1] + f.ctrl[i].len
        /\ \A i, j \in 0..Len(f.ctrl) : i <= j => total[i] <= total[j]

\* What waits is what it should be, and the screen that waits is the newest.
Waits(f, ns) ==
    /\ \A i \in DOMAIN f.ctrl : f.ctrl[i].kind = "ctrl"
    /\ f.screen # <<>> => Head(f.screen).kind = "screen" /\ Head(f.screen).n = ns
    /\ f.fin # <<>> => Head(f.fin).kind = "fin"

\* Screen ns is among the frames sent.
ScreenSent(sent, ns) == \E j \in DOMAIN sent : sent[j].kind = "screen" /\ sent[j].n = ns

\* The newest screen waits or has gone; before the final frame is pushed
\* there is none, after it no control frame waits, and when it goes nothing
\* else does.
Closes(f, sent, ns, fi) ==
    /\ ns > 0 => f.screen # <<>> \/ ScreenSent(sent, ns)
    /\ ~fi => f.fin = <<>> /\ \A i \in DOMAIN sent : sent[i].kind # "fin"
    /\ fi => f.ctrl = <<>>
    /\ \A i \in DOMAIN sent : sent[i].kind = "fin" =>
           i = Len(sent) /\ f.screen = <<>> /\ f.ctrl = <<>> /\ f.fin = <<>>

Good(f, w, nc, d, ns, fi) ==
    /\ Single(f) /\ w \in Seq(StreamFrames)
    /\ nc \in Nat /\ ns \in Nat /\ d \subseteq 1..nc /\ (~fi => d = {})
    /\ Bytes(f) /\ Waits(f, ns)
    /\ Fifo(LineOf(w, f), nc, d) /\ Closes(f, SentOf(w, f), ns, fi)

\* What the empty buffer makes of the lines.
LEMMA LinesEmpty ==
    ASSUME NEW w \in Seq(StreamFrames), NEW f \in FeedType, f.out = <<>>
    PROVE  SentOf(w, f) = w /\ LineOf(w, f) = w \o f.ctrl
<1>1. w \o <<>> = w
  BY ConcatEmptySeq
<1>. QED
  BY <1>1 DEF SentOf, LineOf

LEMMA LinesOne ==
    ASSUME NEW w \in Seq(StreamFrames), NEW f \in FeedType, NEW x \in StreamFrames, f.out = <<x>>
    PROVE  SentOf(w, f) = Append(w, x) /\ LineOf(w, f) = Append(w, x) \o f.ctrl
<1>1. w \o <<x>> = Append(w, x)
  BY AppendIsConcat
<1>. QED
  BY <1>1 DEF SentOf, LineOf

\* Running totals without the first frame.
LEMMA BytesTail ==
    ASSUME NEW f \in FeedType, NEW g \in FeedType, f.ctrl # <<>>, Bytes(f),
           g.ctrl = Tail(f.ctrl), g.ctrlBytes = f.ctrlBytes - Head(f.ctrl).len
    PROVE  Bytes(g)
<1>1. PICK total \in [0..Len(f.ctrl) -> 0..CtrlCap] :
          /\ total[0] = 0 /\ total[Len(f.ctrl)] = f.ctrlBytes
          /\ \A i \in 1..Len(f.ctrl) : total[i] = total[i - 1] + f.ctrl[i].len
          /\ \A i, j \in 0..Len(f.ctrl) : i <= j => total[i] <= total[j]
  BY DEF Bytes
<1>. DEFINE x == Head(f.ctrl).len
            m == Len(f.ctrl) - 1
            rest == [i \in 0..m |-> total[i + 1] - x]
<1>2. f.ctrl \in Seq(StreamFrames) /\ f.ctrlBytes \in Int /\ CtrlCap \in Nat
  BY FeedAssumption DEF FeedType
<1>3. /\ x = f.ctrl[1].len /\ x \in Nat \ {0} /\ Len(f.ctrl) \in Nat \ {0} /\ m \in Nat
      /\ Len(g.ctrl) = m /\ \A i \in 1..m : g.ctrl[i] = f.ctrl[i + 1]
  BY <1>2, HeadOf
<1>4. \A i \in 1..Len(f.ctrl) : f.ctrl[i].len \in Nat
  BY <1>2, OneFrame
<1>5. total[1] = x
  <2>1. 1 \in 1..Len(f.ctrl) /\ 1 - 1 = 0
    BY <1>3
  <2>2. total[1] = total[0] + f.ctrl[1].len
    BY <1>1, <2>1
  <2>. QED
    BY <1>1, <1>3, <2>2
<1>6. \A i \in 0..m : /\ i + 1 \in 0..Len(f.ctrl) /\ 1 \in 0..Len(f.ctrl)
                      /\ total[i + 1] \in 0..CtrlCap /\ total[i + 1] >= x
  <2>. TAKE i \in 0..m
  <2>1. i + 1 \in 0..Len(f.ctrl) /\ 1 \in 0..Len(f.ctrl) /\ 1 <= i + 1
    BY <1>3
  <2>2. total[1] <= total[i + 1] /\ total[i + 1] \in 0..CtrlCap
    BY <1>1, <2>1
  <2>. QED
    BY <1>5, <2>1, <2>2
<1>. HIDE DEF x, m
<1>7. \A i \in 0..m : rest[i] = total[i + 1] - x /\ rest[i] \in 0..CtrlCap
  BY <1>2, <1>3, <1>6
<1>8. rest \in [0..m -> 0..CtrlCap]
  BY <1>7
<1>. HIDE DEF rest
<1>9. rest[0] = 0 /\ rest[m] = g.ctrlBytes
  <2>1. 0 \in 0..m /\ m \in 0..m /\ 0 + 1 = 1 /\ m + 1 = Len(f.ctrl)
    BY <1>3 DEF m
  <2>2. rest[0] = total[1] - x /\ rest[m] = total[Len(f.ctrl)] - x
    BY <1>7, <2>1
  <2>. QED
    BY <1>1, <1>2, <1>3, <1>5, <2>2 DEF x
<1>10. ASSUME NEW i \in 1..m
       PROVE  rest[i] = rest[i - 1] + g.ctrl[i].len
  <2>1. /\ i \in 0..m /\ i - 1 \in 0..m /\ i + 1 \in 1..Len(f.ctrl)
        /\ (i - 1) + 1 = i /\ (i + 1) - 1 = i
    BY <1>3 DEF m
  <2>2. rest[i] = total[i + 1] - x /\ rest[i - 1] = total[i] - x
    BY <1>7, <2>1
  <2>3. total[i + 1] = total[i] + f.ctrl[i + 1].len
    BY <1>1, <2>1
  <2>4. g.ctrl[i] = f.ctrl[i + 1] /\ f.ctrl[i + 1].len \in Nat /\ x \in Nat
    BY <1>3, <1>4, <2>1
  <2>5. total[i] \in Int
    <3>1. i \in 0..Len(f.ctrl)
      BY <1>3, <2>1 DEF m
    <3>. QED
      BY <1>2, <3>1
  <2>6. \A a, b, y \in Int : (a + b) - y = (a - y) + b
    OBVIOUS
  <2>7. total[i] \in Int /\ f.ctrl[i + 1].len \in Int /\ x \in Int
    BY <2>4, <2>5
  <2>8. (total[i] + f.ctrl[i + 1].len) - x = (total[i] - x) + f.ctrl[i + 1].len
    BY <2>6, <2>7, Zenon
  <2>. QED
    BY <2>2, <2>3, <2>4, <2>8, Zenon
<1>11. ASSUME NEW i \in 0..m, NEW j \in 0..m, i <= j
       PROVE  rest[i] <= rest[j]
  <2>1. total[i + 1] <= total[j + 1]
    BY <1>1, <1>6, <1>11
  <2>2. total[i + 1] \in Int /\ total[j + 1] \in Int /\ x \in Int
    BY <1>2, <1>3, <1>6
  <2>. QED
    BY <1>7, <2>1, <2>2
<1>. QED
  BY <1>3, <1>8, <1>9, <1>10, <1>11 DEF Bytes

\* Running totals of none, and of one frame more.
LEMMA BytesNone ==
    ASSUME NEW f \in FeedType, f.ctrl = <<>>, f.ctrlBytes = 0
    PROVE  Bytes(f)
<1>. DEFINE total == [i \in 0..0 |-> 0]
<1>1. CtrlCap \in Nat /\ Len(f.ctrl) = 0
  BY FeedAssumption
<1>2. total \in [0..0 -> 0..CtrlCap] /\ total[0] = 0 /\ \A i \in 0..0 : total[i] = 0
  BY <1>1
<1>. HIDE DEF total
<1>3. /\ total[0] = 0 /\ total[0] = f.ctrlBytes
      /\ \A i \in 1..0 : total[i] = total[i - 1] + f.ctrl[i].len
      /\ \A i, j \in 0..0 : i <= j => total[i] <= total[j]
  BY <1>2
<1>. QED
  BY <1>1, <1>2, <1>3 DEF Bytes

LEMMA BytesAppend ==
    ASSUME NEW f \in FeedType, NEW g \in FeedType, NEW x \in StreamFrames, Bytes(f),
           g.ctrl = Append(f.ctrl, x), g.ctrlBytes = f.ctrlBytes + x.len,
           g.ctrlBytes <= CtrlCap
    PROVE  Bytes(g)
<1>1. PICK total \in [0..Len(f.ctrl) -> 0..CtrlCap] :
          /\ total[0] = 0 /\ total[Len(f.ctrl)] = f.ctrlBytes
          /\ \A i \in 1..Len(f.ctrl) : total[i] = total[i - 1] + f.ctrl[i].len
          /\ \A i, j \in 0..Len(f.ctrl) : i <= j => total[i] <= total[j]
  BY DEF Bytes
<1>. DEFINE m == Len(f.ctrl)
            sum == f.ctrlBytes + x.len
            more == [i \in 0..(m + 1) |-> IF i = m + 1 THEN sum ELSE total[i]]
<1>2. /\ f.ctrl \in Seq(StreamFrames) /\ f.ctrlBytes \in Int /\ CtrlCap \in Nat
      /\ x.len \in Nat /\ m \in Nat /\ sum \in Int
  BY FeedAssumption, OneFrame DEF FeedType
<1>3. /\ Len(g.ctrl) = m + 1 /\ g.ctrl[m + 1] = x
      /\ \A i \in 1..m : g.ctrl[i] = f.ctrl[i]
  BY <1>2
<1>4. /\ f.ctrlBytes \in 0..CtrlCap /\ sum \in 0..CtrlCap /\ f.ctrlBytes <= sum
      /\ \A i \in 0..m : total[i] <= f.ctrlBytes
  <2>1. m \in 0..m
    BY <1>2
  <2>2. total[m] \in 0..CtrlCap
    BY <1>1, <2>1
  <2>3. \A i \in 0..m : total[i] <= total[m]
    <3>. TAKE i \in 0..m
    <3>1. i <= m
      BY <1>2
    <3>. QED
      BY <1>1, <2>1, <3>1
  <2>. QED
    BY <1>1, <1>2, <2>2, <2>3
<1>. HIDE DEF m, sum
<1>5. /\ more[m + 1] = sum
      /\ \A i \in 0..m : more[i] = total[i] /\ more[i] \in 0..CtrlCap
  <2>1. \A i \in 0..m : i \in 0..(m + 1) /\ i # m + 1 /\ m + 1 \in 0..(m + 1)
    BY <1>2
  <2>2. m + 1 \in 0..(m + 1)
    BY <1>2
  <2>3. \A i \in 0..m : total[i] \in 0..CtrlCap
    BY <1>1 DEF m
  <2>. QED
    BY <2>1, <2>2, <2>3
<1>6. more \in [0..(m + 1) -> 0..CtrlCap]
  BY <1>1, <1>2, <1>4 DEF m
<1>. HIDE DEF more
<1>7. more[0] = 0 /\ more[m + 1] = g.ctrlBytes
  BY <1>1, <1>2, <1>5 DEF sum
<1>8. ASSUME NEW i \in 1..(m + 1)
      PROVE  more[i] = more[i - 1] + g.ctrl[i].len
  <2>0. i = m + 1 \/ i \in 1..m
    BY <1>2
  <2>1. i - 1 \in 0..m
    BY <1>2
  <2>2. CASE i = m + 1
    <3>1. i - 1 = m /\ m \in 0..m
      BY <1>2, <2>2
    <3>2. more[i - 1] = f.ctrlBytes
      BY <1>1, <1>5, <3>1 DEF m
    <3>3. more[i] = sum /\ g.ctrl[i] = x
      BY <1>3, <1>5, <2>2
    <3>. QED
      BY <3>2, <3>3 DEF sum
  <2>3. CASE i \in 1..m
    <3>1. i \in 0..m
      BY <2>3
    <3>2. more[i] = total[i] /\ more[i - 1] = total[i - 1] /\ g.ctrl[i] = f.ctrl[i]
      BY <1>3, <1>5, <2>1, <2>3, <3>1
    <3>3. total[i] = total[i - 1] + f.ctrl[i].len
      BY <1>1, <2>3 DEF m
    <3>. QED
      BY <3>2, <3>3
  <2>. QED
    BY <2>0, <2>2, <2>3
<1>9. ASSUME NEW i \in 0..(m + 1), NEW j \in 0..(m + 1), i <= j
      PROVE  more[i] <= more[j]
  <2>1. CASE j \in 0..m
    <3>1. i \in 0..m
      BY <1>2, <1>9, <2>1
    <3>. QED
      BY <1>1, <1>5, <1>9, <2>1, <3>1 DEF m
  <2>2. CASE j = m + 1 /\ i \in 0..m
    <3>1. more[i] \in Int /\ more[i] <= f.ctrlBytes /\ more[j] = sum
      BY <1>4, <1>5, <2>2
    <3>. QED
      BY <1>2, <1>4, <3>1
  <2>3. CASE j = m + 1 /\ i = m + 1
    BY <1>2, <1>5, <2>3
  <2>. QED
    BY <1>2, <2>1, <2>2, <2>3
<1>. QED
  BY <1>3, <1>6, <1>7, <1>8, <1>9 DEF Bytes

\* A control frame that starts stays where it is in the line.
LEMMA LineStart ==
    ASSUME NEW w \in Seq(StreamFrames), NEW c \in Seq(StreamFrames), c # <<>>
    PROVE  Append(w, Head(c)) \o Tail(c) = w \o c
<1>1. /\ Head(c) \in StreamFrames /\ Tail(c) \in Seq(StreamFrames) /\ Head(c) = c[1]
      /\ Len(Tail(c)) = Len(c) - 1 /\ \A i \in 1..Len(Tail(c)) : Tail(c)[i] = c[i + 1]
      /\ Len(c) >= 1
  BY HeadOf
<1>. DEFINE h == Head(c)  t == Tail(c)
<1>. HIDE DEF h, t
<1>2. h \in StreamFrames /\ t \in Seq(StreamFrames) /\ h = c[1] /\ Len(t) = Len(c) - 1
      /\ (\A i \in 1..Len(t) : t[i] = c[i + 1]) /\ Len(c) >= 1
  BY <1>1 DEF h, t
<1>3. <<h>> \o t = c
  <2>1. /\ <<h>> \o t \in Seq(StreamFrames) /\ Len(<<h>> \o t) = Len(c) /\ (<<h>> \o t)[1] = h
        /\ \A i \in 2..Len(c) : (<<h>> \o t)[i] = t[i - 1]
    BY <1>2
  <2>2. \A i \in 2..Len(c) : t[i - 1] = c[i]
    BY <1>2
  <2>3. \A i \in 1..Len(c) : (<<h>> \o t)[i] = c[i]
    BY <1>2, <2>1, <2>2
  <2>. QED
    BY <2>1, <2>3, SeqEqual
<1>4. Append(w, h) = w \o <<h>> /\ <<h>> \in Seq(StreamFrames)
  BY <1>2, AppendIsConcat
<1>5. (w \o <<h>>) \o t = w \o (<<h>> \o t)
  BY <1>2, <1>4, ConcatAssociative
<1>. QED
  BY <1>3, <1>4, <1>5 DEF h, t

-----------------------------------------------------------------------------
(* What pump keeps.                                                        *)

LEMMA GoodParts ==
    ASSUME NEW f, NEW w, NEW nc, NEW d, NEW ns, NEW fi, Good(f, w, nc, d, ns, fi)
    PROVE  /\ f \in FeedType /\ w \in Seq(StreamFrames) /\ nc \in Nat /\ ns \in Nat
           /\ f.out \in Seq(StreamFrames) /\ f.screen \in Seq(StreamFrames) /\ f.ctrl \in Seq(StreamFrames)
           /\ f.fin \in Seq(StreamFrames) /\ f.ctrlBytes \in Int
           /\ SentOf(w, f) \in Seq(StreamFrames) /\ LineOf(w, f) \in Seq(StreamFrames)
<1>1. f \in FeedType /\ w \in Seq(StreamFrames) /\ nc \in Nat /\ ns \in Nat
  BY Zenon DEF Good, Single
<1>2. /\ f.out \in Seq(StreamFrames) /\ f.screen \in Seq(StreamFrames) /\ f.ctrl \in Seq(StreamFrames)
      /\ f.fin \in Seq(StreamFrames) /\ f.ctrlBytes \in Int
  BY <1>1 DEF FeedType
<1>3. w \o f.out \in Seq(StreamFrames)
  BY <1>1, <1>2
<1>4. (w \o f.out) \o f.ctrl \in Seq(StreamFrames)
  BY <1>2, <1>3
<1>. QED
  BY <1>1, <1>2, <1>3, <1>4 DEF SentOf, LineOf

\* The newest screen that was sent still is when one frame more is.
LEMMA StillSent ==
    ASSUME NEW sent \in Seq(StreamFrames), NEW x \in StreamFrames, NEW ns
    PROVE  /\ ScreenSent(sent, ns) => ScreenSent(Append(sent, x), ns)
           /\ x.kind = "screen" /\ x.n = ns => ScreenSent(Append(sent, x), ns)
           /\ Len(Append(sent, x)) = Len(sent) + 1
           /\ (\A i \in DOMAIN sent : sent[i].kind # "fin") =>
                 \A i \in DOMAIN Append(sent, x) :
                     Append(sent, x)[i].kind = "fin" => i = Len(sent) + 1 /\ x.kind = "fin"
<1>. DEFINE new == Append(sent, x)
<1>1. /\ Len(sent) \in Nat /\ DOMAIN sent = 1..Len(sent) /\ DOMAIN new = 1..(Len(sent) + 1)
      /\ Len(new) = Len(sent) + 1
      /\ new[Len(sent) + 1] = x /\ \A i \in DOMAIN sent : new[i] = sent[i]
  OBVIOUS
<1>2. /\ \A i \in DOMAIN new : i \in DOMAIN sent \/ i = Len(sent) + 1
      /\ \A i \in DOMAIN sent : i \in DOMAIN new
      /\ Len(sent) + 1 \in DOMAIN new
  BY <1>1
<1>. HIDE DEF new
<1>3. ScreenSent(sent, ns) => ScreenSent(new, ns)
  BY <1>1, <1>2 DEF ScreenSent
<1>4. x.kind = "screen" /\ x.n = ns => ScreenSent(new, ns)
  BY <1>1, <1>2 DEF ScreenSent
<1>5. (\A i \in DOMAIN sent : sent[i].kind # "fin") =>
          \A i \in DOMAIN new : new[i].kind = "fin" => i = Len(sent) + 1 /\ x.kind = "fin"
  BY <1>1, <1>2
<1>. QED
  BY <1>1, <1>3, <1>4, <1>5 DEF new

\* A frame that starts: what is said of the frames sent.
LEMMA ClosesMore ==
    ASSUME NEW f \in FeedType, NEW g \in FeedType, NEW sent \in Seq(StreamFrames), NEW x \in StreamFrames,
           NEW ns \in Nat, NEW fi \in BOOLEAN, Closes(f, sent, ns, fi), Waits(f, ns),
           \/ ~fi /\ x.kind = "ctrl" /\ g.screen = f.screen /\ g.fin = f.fin
           \/ /\ f.ctrl = <<>> /\ f.screen # <<>> /\ x.kind = "screen" /\ x.n = ns
              /\ g.screen = <<>> /\ g.fin = f.fin /\ g.ctrl = <<>>
           \/ /\ f.ctrl = <<>> /\ f.screen = <<>> /\ f.fin # <<>> /\ x.kind = "fin"
              /\ g.screen = <<>> /\ g.fin = <<>> /\ g.ctrl = <<>>
    PROVE  Closes(g, Append(sent, x), ns, fi)
<1>. DEFINE new == Append(sent, x)
<1>1. /\ ScreenSent(sent, ns) => ScreenSent(new, ns)
      /\ (x.kind = "screen" /\ x.n = ns) => ScreenSent(new, ns)
      /\ Len(new) = Len(sent) + 1
      /\ (\A i \in DOMAIN sent : sent[i].kind # "fin") =>
            \A i \in DOMAIN new : new[i].kind = "fin" => i = Len(new) /\ x.kind = "fin"
  <2>1. /\ ScreenSent(sent, ns) => ScreenSent(new, ns)
        /\ x.kind = "screen" /\ x.n = ns => ScreenSent(new, ns)
    BY StillSent
  <2>2. Len(new) = Len(sent) + 1
    BY StillSent, Zenon
  <2>3. (\A i \in DOMAIN sent : sent[i].kind # "fin") =>
            \A i \in DOMAIN new : new[i].kind = "fin" => i = Len(sent) + 1 /\ x.kind = "fin"
    BY StillSent, Zenon
  <2>. QED
    BY <2>1, <2>2, <2>3, Zenon
<1>2. /\ ns > 0 => f.screen # <<>> \/ ScreenSent(sent, ns)
      /\ ~fi => f.fin = <<>> /\ \A i \in DOMAIN sent : sent[i].kind # "fin"
      /\ fi => f.ctrl = <<>>
      /\ \A i \in DOMAIN sent : sent[i].kind = "fin" =>
             f.screen = <<>> /\ f.ctrl = <<>> /\ f.fin = <<>>
  BY DEF Closes
<1>. HIDE DEF new
<1>3. CASE ~fi /\ x.kind = "ctrl" /\ g.screen = f.screen /\ g.fin = f.fin
  <2>1. \A i \in DOMAIN new : new[i].kind # "fin"
    BY <1>1, <1>2, <1>3
  <2>. QED
    BY <1>1, <1>2, <1>3, <2>1 DEF Closes, new
<1>4. CASE /\ f.ctrl = <<>> /\ f.screen # <<>> /\ x.kind = "screen" /\ x.n = ns
           /\ g.screen = <<>> /\ g.fin = f.fin /\ g.ctrl = <<>>
  <2>1. \A i \in DOMAIN new : new[i].kind # "fin"
    BY <1>1, <1>2, <1>4
  <2>2. ScreenSent(new, ns)
    BY <1>1, <1>4
  <2>. QED
    BY <1>2, <1>4, <2>1, <2>2 DEF Closes, new
<1>5. CASE /\ f.ctrl = <<>> /\ f.screen = <<>> /\ f.fin # <<>> /\ x.kind = "fin"
           /\ g.screen = <<>> /\ g.fin = <<>> /\ g.ctrl = <<>>
  <2>1. \A i \in DOMAIN new : new[i].kind = "fin" => i = Len(new)
    BY <1>1, <1>2, <1>5
  <2>2. ns > 0 => ScreenSent(new, ns)
    BY <1>1, <1>2, <1>5
  <2>3. fi
    BY <1>2, <1>5
  <2>. QED
    BY <1>5, <2>1, <2>2, <2>3 DEF Closes, new
<1>. QED
  BY <1>3, <1>4, <1>5

\* When nothing is in flight, pump keeps the invariant, and starts a frame
\* unless nothing waits.
LEMMA PumpKeeps ==
    ASSUME NEW f, NEW w, NEW nc, NEW d, NEW ns, NEW fi \in BOOLEAN,
           Good(f, w, nc, d, ns, fi)
    PROVE  /\ Good(pump(f), w, nc, d, ns, fi)
           /\ ~is_empty(pump(f)) => writing(pump(f))
<1>. DEFINE g == pump(f)
            sent == SentOf(w, f)
            line == LineOf(w, f)
<1>1. /\ f \in FeedType /\ w \in Seq(StreamFrames) /\ nc \in Nat /\ ns \in Nat
      /\ f.out \in Seq(StreamFrames) /\ f.screen \in Seq(StreamFrames) /\ f.ctrl \in Seq(StreamFrames)
      /\ f.fin \in Seq(StreamFrames) /\ sent \in Seq(StreamFrames) /\ line \in Seq(StreamFrames)
  BY GoodParts, Zenon
<1>2. /\ Single(f) /\ Bytes(f) /\ Waits(f, ns) /\ Fifo(line, nc, d) /\ Closes(f, sent, ns, fi)
      /\ d \subseteq 1..nc /\ (~fi => d = {})
  BY Zenon DEF Good
<1>3. /\ g \in FeedType
      /\ \/ g = f /\ (writing(f) \/ is_empty(f))
         \/ ~writing(f) /\ PumpsCtrl(f, g)
         \/ ~writing(f) /\ PumpsScreen(f, g)
         \/ ~writing(f) /\ PumpsFin(f, g)
  BY <1>1, PumpIs, Zenon
<1>. HIDE DEF g
<1>4. ASSUME NEW x \in StreamFrames, ~writing(f), g.out = <<x>>, g.left = x.len,
             Len(g.screen) <= 1, Len(g.fin) <= 1
      PROVE  /\ Single(g) /\ writing(g) /\ sent = w /\ line = w \o f.ctrl
             /\ SentOf(w, g) = Append(sent, x) /\ LineOf(w, g) = Append(w, x) \o g.ctrl
  <2>1. x.len \in Nat \ {0} /\ Len(<<x>>) = 1 /\ <<x>> # <<>>
    BY OneFrame
  <2>2. writing(g) /\ g.left > 0 /\ Len(g.out) <= 1
    BY <1>4, <2>1 DEF writing
  <2>3. Single(g)
    BY <1>3, <1>4, <2>2 DEF Single
  <2>4. f.out = <<>>
    BY <1>4, Zenon DEF writing
  <2>5. sent = w /\ line = w \o f.ctrl
    BY <1>1, <2>4, LinesEmpty, Zenon
  <2>6. SentOf(w, g) = Append(w, x) /\ LineOf(w, g) = Append(w, x) \o g.ctrl
    BY <1>1, <1>3, <1>4, LinesOne, Zenon
  <2>. QED
    BY <2>2, <2>3, <2>5, <2>6, Zenon
<1>. HIDE DEF sent, line
<1>5. CASE g = f /\ (writing(f) \/ is_empty(f))
  BY <1>5, Zenon DEF g
<1>6. CASE ~writing(f) /\ PumpsCtrl(f, g)
  <2>. DEFINE x == Head(f.ctrl)
  <2>1. /\ x \in StreamFrames /\ x = f.ctrl[1] /\ 1 \in DOMAIN f.ctrl
        /\ Len(Tail(f.ctrl)) = Len(f.ctrl) - 1 /\ Tail(f.ctrl) \in Seq(StreamFrames)
        /\ \A i \in 1..Len(Tail(f.ctrl)) : Tail(f.ctrl)[i] = f.ctrl[i + 1]
        /\ f.ctrl # <<>>
    BY <1>1, <1>6, HeadOf DEF PumpsCtrl
  <2>. HIDE DEF x
  <2>2. /\ g.out = <<x>> /\ g.left = x.len /\ g.ctrl = Tail(f.ctrl) /\ g.screen = f.screen
        /\ g.fin = f.fin /\ g.ctrlBytes = f.ctrlBytes - x.len
    BY <1>6, Zenon DEF PumpsCtrl, x
  <2>3. Len(g.screen) <= 1 /\ Len(g.fin) <= 1
    BY <1>2, <2>2 DEF Single
  <2>4. /\ Single(g) /\ writing(g) /\ SentOf(w, g) = Append(sent, x)
        /\ line = w \o f.ctrl /\ LineOf(w, g) = Append(w, x) \o g.ctrl
    BY <1>4, <1>6, <2>1, <2>2, <2>3, Zenon
  <2>5. LineOf(w, g) = line
    <3>1. Append(w, Head(f.ctrl)) \o Tail(f.ctrl) = w \o f.ctrl
      BY <1>1, <2>1, LineStart, Zenon
    <3>. QED
      BY <2>2, <2>4, <3>1, Zenon DEF x
  <2>6. Bytes(g)
    BY <1>1, <1>2, <1>3, <2>1, <2>2, BytesTail, Zenon DEF x
  <2>7. Waits(g, ns)
    <3>1. \A i \in DOMAIN g.ctrl : i + 1 \in DOMAIN f.ctrl /\ g.ctrl[i] = f.ctrl[i + 1]
      BY <1>1, <2>1, <2>2
    <3>. QED
      BY <1>2, <2>2, <3>1 DEF Waits
  <2>8. x.kind = "ctrl" /\ ~fi
    BY <1>2, <2>1 DEF Waits, Closes
  <2>9. Closes(g, Append(sent, x), ns, fi)
    <3>1. ~fi /\ x.kind = "ctrl" /\ g.screen = f.screen /\ g.fin = f.fin
      BY <2>2, <2>8, Zenon
    <3>2. f \in FeedType /\ g \in FeedType /\ sent \in Seq(StreamFrames) /\ x \in StreamFrames
      BY <1>1, <1>3, <2>1, Zenon
    <3>3. ns \in Nat /\ Closes(f, sent, ns, fi) /\ Waits(f, ns)
      BY <1>1, <1>2, Zenon
    <3>. QED
      BY <3>1, <3>2, <3>3, ClosesMore, Zenon
  <2>10. Good(g, w, nc, d, ns, fi)
    BY <1>1, <1>2, <2>4, <2>5, <2>6, <2>7, <2>9, Zenon DEF Good
  <2>. QED
    BY <2>4, <2>10, Zenon DEF g
<1>7. ASSUME NEW x \in StreamFrames, ~writing(f), f.ctrl = <<>>, g.out = <<x>>, g.left = x.len,
             g.screen = <<>>, g.ctrl = <<>>, g.ctrlBytes = f.ctrlBytes, x.kind # "ctrl",
             Len(g.fin) <= 1, g.fin # <<>> => Head(g.fin).kind = "fin",
             Closes(g, Append(sent, x), ns, fi)
      PROVE  Good(g, w, nc, d, ns, fi) /\ writing(g)
  <2>1. Len(g.screen) <= 1
    BY <1>7
  <2>2. /\ Single(g) /\ writing(g) /\ sent = w /\ SentOf(w, g) = Append(sent, x)
        /\ line = w \o f.ctrl /\ LineOf(w, g) = Append(w, x) \o g.ctrl
    BY <1>4, <1>7, <2>1, Zenon
  <2>3. /\ w \o <<>> = w /\ Append(w, x) \in Seq(StreamFrames)
    BY <1>1, ConcatEmptySeq
  <2>4. Append(w, x) \o <<>> = Append(w, x)
    BY <2>3, ConcatEmptySeq
  <2>5. line = w /\ LineOf(w, g) = Append(line, x)
    BY <1>7, <2>2, <2>3, <2>4, Zenon
  <2>6. Fifo(LineOf(w, g), nc, d)
    BY <1>1, <1>2, <1>7, <2>5, FifoOther, Zenon
  <2>7. Bytes(g)
    <3>1. g.ctrl = f.ctrl /\ g.ctrlBytes = f.ctrlBytes
      BY <1>7, Zenon
    <3>. QED
      BY <1>2, <3>1, Zenon DEF Bytes
  <2>8. Waits(g, ns)
    <3>1. \A i \in DOMAIN g.ctrl : g.ctrl[i].kind = "ctrl"
      BY <1>7
    <3>. QED
      BY <1>7, <3>1, Zenon DEF Waits
  <2>. QED
    BY <1>1, <1>2, <1>7, <2>2, <2>6, <2>7, <2>8, Zenon DEF Good
<1>8. CASE ~writing(f) /\ PumpsScreen(f, g)
  <2>. DEFINE x == Head(f.screen)
  <2>1. /\ f.ctrl = <<>> /\ f.screen # <<>> /\ g.out = <<x>> /\ g.left = x.len
        /\ g.screen = <<>> /\ g.fin = f.fin /\ g.ctrl = <<>> /\ g.ctrlBytes = f.ctrlBytes
    BY <1>8, Zenon DEF PumpsScreen
  <2>2. x \in StreamFrames
    BY <1>1, <2>1, HeadOf, Zenon
  <2>3. x.kind = "screen" /\ x.n = ns /\ (f.fin # <<>> => Head(f.fin).kind = "fin")
    BY <1>2, <2>1, Zenon DEF Waits
  <2>4. Len(g.fin) <= 1 /\ x.kind # "ctrl"
    BY <1>2, <2>1, <2>3 DEF Single
  <2>. HIDE DEF x
  <2>5. Closes(g, Append(sent, x), ns, fi)
    BY <1>1, <1>2, <1>3, <2>1, <2>2, <2>3, ClosesMore, Zenon
  <2>6. Good(g, w, nc, d, ns, fi) /\ writing(g)
    BY <1>7, <1>8, <2>1, <2>2, <2>3, <2>4, <2>5, Zenon
  <2>. QED
    BY <2>6, Zenon DEF g
<1>9. CASE ~writing(f) /\ PumpsFin(f, g)
  <2>. DEFINE x == Head(f.fin)
  <2>1. /\ f.ctrl = <<>> /\ f.screen = <<>> /\ f.fin # <<>> /\ g.out = <<x>>
        /\ g.left = x.len
        /\ g.screen = <<>> /\ g.fin = <<>> /\ g.ctrl = <<>> /\ g.ctrlBytes = f.ctrlBytes
    BY <1>9, Zenon DEF PumpsFin
  <2>2. x \in StreamFrames
    BY <1>1, <2>1, HeadOf, Zenon
  <2>3. x.kind = "fin"
    BY <1>2, <2>1, Zenon DEF Waits
  <2>4. Len(g.fin) <= 1 /\ x.kind # "ctrl"
    BY <2>1, <2>3
  <2>. HIDE DEF x
  <2>5. Closes(g, Append(sent, x), ns, fi)
    BY <1>1, <1>2, <1>3, <2>1, <2>2, <2>3, ClosesMore, Zenon
  <2>6. Good(g, w, nc, d, ns, fi) /\ writing(g)
    BY <1>7, <1>9, <2>1, <2>2, <2>3, <2>4, <2>5, Zenon
  <2>. QED
    BY <2>6, Zenon DEF g
<1>. QED
  BY <1>3, <1>5, <1>6, <1>8, <1>9, Zenon

-----------------------------------------------------------------------------
(* What the operations keep, before they pump.                             *)

\* A screen replaces the one that waits.
LEMMA ScreenKeeps ==
    ASSUME NEW f, NEW w, NEW nc, NEW d, NEW ns, Good(f, w, nc, d, ns, FALSE),
           NEW x \in StreamFrames, x.kind = "screen", x.n = ns + 1
    PROVE  Good([f EXCEPT !.screen = <<x>>], w, nc, d, ns + 1, FALSE)
<1>. DEFINE one == <<x>>
            e == [f EXCEPT !.screen = one]
<1>1. /\ f \in FeedType /\ w \in Seq(StreamFrames) /\ nc \in Nat /\ ns \in Nat
      /\ SentOf(w, f) \in Seq(StreamFrames)
  BY GoodParts, Zenon
<1>2. /\ Single(f) /\ Bytes(f) /\ Waits(f, ns) /\ Fifo(LineOf(w, f), nc, d)
      /\ Closes(f, SentOf(w, f), ns, FALSE) /\ d \subseteq 1..nc /\ d = {}
  BY Zenon DEF Good
<1>3. one \in Seq(StreamFrames) /\ Len(one) = 1 /\ one # <<>> /\ Head(one) = x
  BY OneFrame
<1>. HIDE DEF one
<1>4. /\ e \in FeedType /\ e.out = f.out /\ e.left = f.left /\ e.screen = one
      /\ e.fin = f.fin /\ e.ctrl = f.ctrl /\ e.ctrlBytes = f.ctrlBytes
  BY <1>1, <1>3, SetScreen, Zenon
<1>. HIDE DEF e
<1>5. Single(e)
  <2>1. Len(e.screen) <= 1
    <3>1. Len(e.screen) = 1
      BY <1>3, <1>4, Zenon
    <3>. QED
      BY <3>1
  <2>2. writing(e) <=> e.left > 0
    <3>1. writing(f) <=> f.left > 0
      BY <1>2, Zenon DEF Single
    <3>. QED
      BY <1>4, <3>1, Zenon DEF writing
  <2>3. Len(e.out) <= 1 /\ Len(e.fin) <= 1
    BY <1>2, <1>4, Zenon DEF Single
  <2>. QED
    BY <1>4, <2>1, <2>2, <2>3, Zenon DEF Single
<1>6. Bytes(e)
  BY <1>2, <1>4, Zenon DEF Bytes
<1>7. Waits(e, ns + 1)
  BY <1>2, <1>3, <1>4, Zenon DEF Waits
<1>8. LineOf(w, e) = LineOf(w, f) /\ SentOf(w, e) = SentOf(w, f)
  BY <1>4, Zenon DEF LineOf, SentOf
<1>9. Closes(e, SentOf(w, f), ns + 1, FALSE)
  BY <1>2, <1>3, <1>4, Zenon DEF Closes
<1>10. ns + 1 \in Nat
  BY <1>1
<1>11. Good(e, w, nc, d, ns + 1, FALSE)
  BY <1>1, <1>2, <1>5, <1>6, <1>7, <1>8, <1>9, <1>10, Zenon DEF Good
<1>. QED
  BY <1>11, Zenon DEF e, one

LEMMA AppendAfter ==
    ASSUME NEW s \in Seq(StreamFrames), NEW c \in Seq(StreamFrames), NEW x \in StreamFrames
    PROVE  s \o Append(c, x) = Append(s \o c, x)
<1>1. <<x>> \in Seq(StreamFrames) /\ s \o c \in Seq(StreamFrames)
  BY OneFrame
<1>2. Append(c, x) = c \o <<x>> /\ Append(s \o c, x) = (s \o c) \o <<x>>
  BY <1>1, AppendIsConcat
<1>3. (s \o c) \o <<x>> = s \o (c \o <<x>>)
  BY <1>1, ConcatAssociative
<1>. QED
  BY <1>2, <1>3

\* A control frame joins those that wait.
LEMMA CtrlWaits ==
    ASSUME NEW f, NEW w, NEW nc, NEW d, NEW ns, Good(f, w, nc, d, ns, FALSE),
           NEW x \in StreamFrames, x.kind = "ctrl", x.n = nc + 1,
           writing(f), f.ctrlBytes + x.len <= CtrlCap
    PROVE  LET e == [f EXCEPT !.ctrl = Append(f.ctrl, x), !.ctrlBytes = f.ctrlBytes + x.len]
           IN  Good(e, w, nc + 1, d, ns, FALSE) /\ writing(e)
<1>. DEFINE more == Append(f.ctrl, x)
            sum == f.ctrlBytes + x.len
            e == [f EXCEPT !.ctrl = more, !.ctrlBytes = sum]
            sent == SentOf(w, f)
<1>1. /\ f \in FeedType /\ w \in Seq(StreamFrames) /\ nc \in Nat /\ ns \in Nat
      /\ f.ctrl \in Seq(StreamFrames) /\ f.ctrlBytes \in Int
      /\ sent \in Seq(StreamFrames) /\ LineOf(w, f) \in Seq(StreamFrames)
  BY GoodParts, Zenon
<1>2. /\ Single(f) /\ Bytes(f) /\ Waits(f, ns) /\ Fifo(LineOf(w, f), nc, d)
      /\ Closes(f, sent, ns, FALSE) /\ d = {}
  BY Zenon DEF Good
<1>. HIDE DEF sent
<1>3. /\ more \in Seq(StreamFrames) /\ sum \in Int /\ DOMAIN more = 1..(Len(f.ctrl) + 1)
      /\ Len(f.ctrl) \in Nat /\ DOMAIN f.ctrl = 1..Len(f.ctrl)
      /\ more[Len(f.ctrl) + 1] = x /\ \A i \in DOMAIN f.ctrl : more[i] = f.ctrl[i]
  BY <1>1, OneFrame
<1>4. sent \o more = Append(sent \o f.ctrl, x)
  BY <1>1, AppendAfter, Zenon
<1>. HIDE DEF more, sum
<1>5. /\ e \in FeedType /\ e.out = f.out /\ e.left = f.left /\ e.screen = f.screen
      /\ e.fin = f.fin /\ e.ctrl = more /\ e.ctrlBytes = sum
  BY <1>1, <1>3 DEF FeedType
<1>. HIDE DEF e
<1>6. Single(e) /\ writing(e)
  BY <1>2, <1>5, Zenon DEF Single, writing
<1>7. Bytes(e)
  BY <1>1, <1>2, <1>5, BytesAppend, Zenon DEF more, sum
<1>8. Waits(e, ns)
  <2>1. \A i \in DOMAIN more : more[i].kind = "ctrl"
    BY <1>2, <1>3 DEF Waits
  <2>. QED
    BY <1>2, <1>5, <2>1, Zenon DEF Waits
<1>9. SentOf(w, e) = sent /\ LineOf(w, e) = Append(LineOf(w, f), x)
  BY <1>4, <1>5, Zenon DEF LineOf, SentOf, sent
<1>10. Fifo(LineOf(w, e), nc + 1, {})
  BY <1>1, <1>2, <1>9, FifoNext, Zenon
<1>11. Closes(e, sent, ns, FALSE)
  BY <1>2, <1>5, Zenon DEF Closes
<1>12. nc + 1 \in Nat /\ {} \subseteq 1..(nc + 1)
  BY <1>1
<1>13. Good(e, w, nc + 1, d, ns, FALSE)
  BY <1>1, <1>2, <1>6, <1>7, <1>8, <1>9, <1>10, <1>11, <1>12, Zenon DEF Good
<1>. QED
  BY <1>6, <1>13, Zenon DEF e, more, sum

\* A control frame goes at once when nothing waits.
LEMMA CtrlStarts ==
    ASSUME NEW f, NEW w, NEW nc, NEW d, NEW ns, Good(f, w, nc, d, ns, FALSE),
           NEW x \in StreamFrames, x.kind = "ctrl", x.n = nc + 1, is_empty(f)
    PROVE  Good(InFlight(f, x), w, nc + 1, d, ns, FALSE) /\ writing(InFlight(f, x))
<1>. DEFINE e == InFlight(f, x)
            sent == SentOf(w, f)
<1>1. /\ f \in FeedType /\ w \in Seq(StreamFrames) /\ nc \in Nat /\ ns \in Nat
      /\ sent \in Seq(StreamFrames) /\ LineOf(w, f) \in Seq(StreamFrames)
  BY GoodParts, Zenon
<1>2. /\ Single(f) /\ Bytes(f) /\ Waits(f, ns) /\ Fifo(LineOf(w, f), nc, d)
      /\ Closes(f, sent, ns, FALSE) /\ d = {}
  BY Zenon DEF Good
<1>3. f.out = <<>> /\ f.ctrl = <<>>
  BY Zenon DEF is_empty, writing
<1>4. /\ e \in FeedType /\ e.out = <<x>> /\ e.left = x.len /\ e.screen = f.screen
      /\ e.fin = f.fin /\ e.ctrl = f.ctrl /\ e.ctrlBytes = f.ctrlBytes
  BY <1>1, InFlightIs, Zenon
<1>. HIDE DEF e
<1>5. Single(e) /\ writing(e)
  <2>1. x.len \in Nat \ {0} /\ Len(<<x>>) = 1 /\ <<x>> # <<>>
    BY OneFrame
  <2>2. writing(e) /\ e.left > 0 /\ Len(e.out) <= 1
    BY <1>4, <2>1 DEF writing
  <2>3. Len(e.screen) <= 1 /\ Len(e.fin) <= 1
    BY <1>2, <1>4 DEF Single
  <2>. QED
    BY <1>4, <2>2, <2>3 DEF Single
<1>6. Bytes(e) /\ Waits(e, ns)
  BY <1>2, <1>4, Zenon DEF Bytes, Waits
<1>7. /\ sent = w /\ LineOf(w, f) = w /\ SentOf(w, e) = Append(w, x)
      /\ LineOf(w, e) = Append(w, x)
  <2>1. w \o <<>> = w /\ Append(w, x) \in Seq(StreamFrames)
    BY <1>1, ConcatEmptySeq
  <2>2. Append(w, x) \o <<>> = Append(w, x)
    BY <2>1, ConcatEmptySeq
  <2>3. sent = w /\ LineOf(w, f) = w \o f.ctrl
    BY <1>1, <1>3, LinesEmpty, Zenon
  <2>4. SentOf(w, e) = Append(w, x) /\ LineOf(w, e) = Append(w, x) \o e.ctrl
    BY <1>1, <1>4, LinesOne, Zenon
  <2>. QED
    BY <1>3, <1>4, <2>1, <2>2, <2>3, <2>4, Zenon
<1>. HIDE DEF sent
<1>8. Fifo(LineOf(w, e), nc + 1, {})
  BY <1>1, <1>2, <1>7, FifoNext, Zenon
<1>9. Closes(e, SentOf(w, e), ns, FALSE)
  <2>1. ~FALSE /\ x.kind = "ctrl" /\ e.screen = f.screen /\ e.fin = f.fin
    BY <1>4, Zenon
  <2>2. Closes(e, Append(sent, x), ns, FALSE)
    BY <1>1, <1>2, <1>4, <2>1, ClosesMore, Zenon
  <2>. QED
    BY <1>7, <2>2, Zenon
<1>10. nc + 1 \in Nat /\ {} \subseteq 1..(nc + 1)
  BY <1>1
<1>11. Good(e, w, nc + 1, d, ns, FALSE)
  BY <1>1, <1>2, <1>5, <1>6, <1>8, <1>9, <1>10, Zenon DEF Good
<1>. QED
  BY <1>5, <1>11, Zenon DEF e

\* The final frame throws away the control frames that wait.
LEMMA FinKeeps ==
    ASSUME NEW f, NEW w, NEW nc, NEW d, NEW ns, Good(f, w, nc, d, ns, FALSE),
           NEW x \in StreamFrames, x.kind = "fin"
    PROVE  Good([f EXCEPT !.fin = <<x>>, !.ctrl = <<>>, !.ctrlBytes = 0], w, nc,
                {f.ctrl[i].n : i \in DOMAIN f.ctrl}, ns, TRUE)
<1>. DEFINE one == <<x>>
            e == [f EXCEPT !.fin = one, !.ctrl = <<>>, !.ctrlBytes = 0]
            sent == SentOf(w, f)
            gone == {f.ctrl[i].n : i \in DOMAIN f.ctrl}
<1>1. /\ f \in FeedType /\ w \in Seq(StreamFrames) /\ nc \in Nat /\ ns \in Nat
      /\ f.ctrl \in Seq(StreamFrames) /\ sent \in Seq(StreamFrames)
  BY GoodParts, Zenon
<1>2. /\ Single(f) /\ Bytes(f) /\ Waits(f, ns) /\ Fifo(LineOf(w, f), nc, {})
      /\ Closes(f, sent, ns, FALSE)
  BY Zenon DEF Good
<1>3. one \in Seq(StreamFrames) /\ Len(one) = 1 /\ one # <<>> /\ Head(one) = x
  BY OneFrame
<1>4. LineOf(w, f) = sent \o f.ctrl
  BY Zenon DEF LineOf, SentOf
<1>. HIDE DEF one, sent, gone
<1>5. /\ e \in FeedType /\ e.out = f.out /\ e.left = f.left /\ e.screen = f.screen
      /\ e.fin = one /\ e.ctrl = <<>> /\ e.ctrlBytes = 0
  <2>. DEFINE none == <<>>  n == 0
              g == [f EXCEPT !.fin = one, !.ctrl = none, !.ctrlBytes = n]
  <2>1. none \in Seq(StreamFrames) /\ n \in Int
    OBVIOUS
  <2>. HIDE DEF none, n
  <2>2. /\ g \in FeedType /\ g.out = f.out /\ g.left = f.left /\ g.screen = f.screen
        /\ g.fin = one /\ g.ctrl = none /\ g.ctrlBytes = n
    BY <1>1, <1>3, <2>1 DEF FeedType
  <2>. QED
    BY <2>2, Zenon DEF none, n
<1>. HIDE DEF e
<1>6. Single(e)
  <2>1. Len(e.fin) <= 1
    <3>1. Len(e.fin) = 1
      BY <1>3, <1>5, Zenon
    <3>. QED
      BY <3>1
  <2>2. writing(e) <=> e.left > 0
    <3>1. writing(f) <=> f.left > 0
      BY <1>2, Zenon DEF Single
    <3>. QED
      BY <1>5, <3>1, Zenon DEF writing
  <2>3. Len(e.out) <= 1 /\ Len(e.screen) <= 1
    BY <1>2, <1>5, Zenon DEF Single
  <2>. QED
    BY <1>5, <2>1, <2>2, <2>3, Zenon DEF Single
<1>7. Bytes(e)
  BY <1>5, BytesNone, Zenon
<1>8. Waits(e, ns)
  <2>1. \A i \in DOMAIN e.ctrl : e.ctrl[i].kind = "ctrl"
    BY <1>5
  <2>2. /\ e.screen # <<>> => Head(e.screen).kind = "screen" /\ Head(e.screen).n = ns
        /\ Head(e.fin).kind = "fin"
    BY <1>2, <1>3, <1>5, Zenon DEF Waits
  <2>. QED
    BY <2>1, <2>2, Zenon DEF Waits
<1>9. SentOf(w, e) = sent /\ LineOf(w, e) = sent
  <2>1. SentOf(w, e) = sent /\ LineOf(w, e) = sent \o <<>>
    BY <1>5, Zenon DEF LineOf, SentOf, sent
  <2>2. sent \o <<>> = sent
    BY <1>1, ConcatEmptySeq
  <2>. QED
    BY <2>1, <2>2, Zenon
<1>10. Fifo(sent, nc, gone) /\ gone \subseteq 1..nc
  <2>1. \A i \in DOMAIN f.ctrl : f.ctrl[i].kind = "ctrl"
    BY <1>2, Zenon DEF Waits
  <2>2. Fifo(sent \o f.ctrl, nc, {})
    BY <1>2, <1>4, Zenon
  <2>. QED
    BY <1>1, <2>1, <2>2, FifoCut, Zenon DEF gone
<1>11. Closes(e, sent, ns, TRUE)
  <2>1. \A i \in DOMAIN sent : sent[i].kind # "fin"
    BY <1>2, Zenon DEF Closes
  <2>2. ns > 0 => e.screen # <<>> \/ ScreenSent(sent, ns)
    BY <1>2, <1>5, Zenon DEF Closes
  <2>. QED
    BY <1>5, <2>1, <2>2, Zenon DEF Closes
<1>12. Good(e, w, nc, gone, ns, TRUE)
  BY <1>1, <1>6, <1>7, <1>8, <1>9, <1>10, <1>11, Zenon DEF Good
<1>. QED
  BY <1>12, Zenon DEF e, one, gone

\* Part of the frame in flight is taken.
LEMMA PartKeeps ==
    ASSUME NEW f, NEW w, NEW nc, NEW d, NEW ns, NEW fi, Good(f, w, nc, d, ns, fi),
           NEW n \in 1..f.left, n < f.left
    PROVE  LET e == [f EXCEPT !.left = f.left - n]
           IN  Good(e, w, nc, d, ns, fi) /\ writing(e)
<1>. DEFINE rest == f.left - n
            e == [f EXCEPT !.left = rest]
<1>1. f \in FeedType
  BY GoodParts, Zenon
<1>2. f.left \in Nat
  BY <1>1 DEF FeedType
<1>3. rest \in Nat /\ rest > 0 /\ f.left > 0
  BY <1>2
<1>. HIDE DEF rest
<1>4. /\ e \in FeedType /\ e.out = f.out /\ e.left = rest /\ e.screen = f.screen
      /\ e.fin = f.fin /\ e.ctrl = f.ctrl /\ e.ctrlBytes = f.ctrlBytes
  BY <1>1, <1>3, SetLeft, Zenon
<1>. HIDE DEF e
<1>5. Single(e) /\ writing(e)
  <2>1. writing(f) /\ Len(f.out) <= 1 /\ Len(f.screen) <= 1 /\ Len(f.fin) <= 1
    BY <1>3, Zenon DEF Good, Single
  <2>2. writing(e) /\ e.left > 0
    BY <1>3, <1>4, <2>1, Zenon DEF writing
  <2>. QED
    BY <1>4, <2>1, <2>2, Zenon DEF Single
<1>6. Bytes(e) /\ Waits(e, ns)
  BY <1>4, Zenon DEF Good, Bytes, Waits
<1>7. SentOf(w, e) = SentOf(w, f) /\ LineOf(w, e) = LineOf(w, f)
  BY <1>4, Zenon DEF SentOf, LineOf
<1>8. Closes(e, SentOf(w, f), ns, fi)
  BY <1>4, Zenon DEF Good, Closes
<1>9. Good(e, w, nc, d, ns, fi)
  BY <1>5, <1>6, <1>7, <1>8, Zenon DEF Good
<1>. QED
  BY <1>5, <1>9, Zenon DEF e, rest

\* The frame in flight is out.
LEMMA WrittenKeeps ==
    ASSUME NEW f, NEW w, NEW nc, NEW d, NEW ns, NEW fi, Good(f, w, nc, d, ns, fi), writing(f)
    PROVE  Good([f EXCEPT !.out = <<>>, !.left = 0], Append(w, Head(f.out)), nc, d, ns, fi)
<1>. DEFINE e == [f EXCEPT !.out = <<>>, !.left = 0]
            x == Head(f.out)
<1>1. f \in FeedType /\ w \in Seq(StreamFrames) /\ f.out \in Seq(StreamFrames)
  BY GoodParts, Zenon
<1>2. f.out # <<>> /\ Len(f.out) <= 1
  BY Zenon DEF Good, Single, writing
<1>3. x \in StreamFrames /\ f.out = <<x>>
  <2>0. x \in StreamFrames /\ x = f.out[1] /\ Len(f.out) >= 1
    BY <1>1, <1>2, HeadOf, Zenon
  <2>1. x \in StreamFrames /\ x = f.out[1] /\ Len(f.out) = 1
    <3>1. Len(f.out) \in Nat
      BY <1>1, LenProperties, Zenon
    <3>2. Len(f.out) = 1
      <4>1. \A k \in Nat : k >= 1 /\ k <= 1 => k = 1
        OBVIOUS
      <4>. QED
        BY <1>2, <2>0, <3>1, <4>1, Zenon
    <3>. QED
      BY <2>0, <3>2, Zenon
  <2>2. <<x>> \in Seq(StreamFrames) /\ Len(<<x>>) = 1 /\ <<x>>[1] = x
    BY <2>1, OneFrame
  <2>3. \A i \in 1..1 : f.out[i] = <<x>>[i]
    BY <2>1, <2>2
  <2>. QED
    BY <1>1, <2>1, <2>2, <2>3, SeqEqual
<1>. HIDE DEF x
<1>4. /\ e \in FeedType /\ e.out = <<>> /\ e.left = 0 /\ e.screen = f.screen
      /\ e.fin = f.fin /\ e.ctrl = f.ctrl /\ e.ctrlBytes = f.ctrlBytes
  BY <1>1, SetOut, Zenon
<1>. HIDE DEF e
<1>5. Single(e)
  <2>1. Len(e.out) <= 1 /\ ~(e.left > 0)
    BY <1>4
  <2>2. ~writing(e)
    BY <1>4, Zenon DEF writing
  <2>3. Len(f.screen) <= 1 /\ Len(f.fin) <= 1
    BY Zenon DEF Good, Single
  <2>. QED
    BY <1>4, <2>1, <2>2, <2>3, Zenon DEF Single
<1>6. Bytes(e) /\ Waits(e, ns)
  <2>1. Bytes(f) /\ Waits(f, ns)
    BY Zenon DEF Good
  <2>2. e.ctrl = f.ctrl /\ e.ctrlBytes = f.ctrlBytes
    BY <1>4, Zenon
  <2>3. Bytes(e)
    BY <2>1, <2>2, Zenon DEF Bytes
  <2>. QED
    BY <1>4, <2>1, <2>3, Zenon DEF Waits
<1>7. /\ Append(w, x) \in Seq(StreamFrames)
      /\ SentOf(Append(w, x), e) = SentOf(w, f) /\ LineOf(Append(w, x), e) = LineOf(w, f)
  <2>1. Append(w, x) \in Seq(StreamFrames)
    BY <1>1, <1>3
  <2>2. SentOf(Append(w, x), e) = Append(w, x) /\ LineOf(Append(w, x), e) = Append(w, x) \o e.ctrl
    BY <1>4, <2>1, LinesEmpty, Zenon
  <2>3. SentOf(w, f) = Append(w, x) /\ LineOf(w, f) = Append(w, x) \o f.ctrl
    BY <1>1, <1>3, LinesOne, Zenon
  <2>. QED
    BY <1>4, <2>1, <2>2, <2>3, Zenon
<1>8. Closes(e, SentOf(w, f), ns, fi)
  BY <1>4, Zenon DEF Good, Closes
<1>9. Good(e, Append(w, x), nc, d, ns, fi)
  BY <1>5, <1>6, <1>7, <1>8, Zenon DEF Good
<1>. QED
  BY <1>9, Zenon DEF e, x

-----------------------------------------------------------------------------
(* The inductive invariant, and the theorems.                              *)

FeedInv ==
    /\ Good(feed, wire, nCtrl, dropped, nScreen, finished)
    /\ ~is_empty(feed) => writing(feed)
    /\ finished \in BOOLEAN

LEMMA FramesMade ==
    ASSUME NEW n \in Nat, NEW len \in Lens
    PROVE  /\ Frame("ctrl", n + 1, len) \in StreamFrames /\ Frame("ctrl", n + 1, len).kind = "ctrl"
           /\ Frame("ctrl", n + 1, len).n = n + 1 /\ Frame("ctrl", n + 1, len).len = len
           /\ Frame("screen", n + 1, len) \in StreamFrames
           /\ Frame("screen", n + 1, len).kind = "screen"
           /\ Frame("screen", n + 1, len).n = n + 1
  BY StreamAssumption DEF Frame, StreamFrames

LEMMA FinMade == Frame("fin", 1, 1) \in StreamFrames /\ Frame("fin", 1, 1).kind = "fin"
  BY DEF Frame, StreamFrames

LEMMA FeedInvInit == StreamInit => FeedInv
<1>. SUFFICES ASSUME StreamInit
              PROVE  FeedInv
  OBVIOUS
<1>1. /\ feed = EmptyFeed /\ wire = <<>> /\ nCtrl = 0 /\ dropped = {} /\ nScreen = 0
      /\ finished = FALSE
  BY Zenon DEF StreamInit
<1>2. /\ feed \in FeedType /\ feed.out = <<>> /\ feed.left = 0 /\ feed.screen = <<>>
      /\ feed.ctrl = <<>> /\ feed.ctrlBytes = 0 /\ feed.fin = <<>>
  <2>1. <<>> \in Seq(StreamFrames)
    OBVIOUS
  <2>. QED
    BY <1>1, <2>1 DEF EmptyFeed, FeedType
<1>3. is_empty(feed) /\ ~writing(feed)
  BY <1>2, Zenon DEF is_empty, writing
<1>4. Single(feed)
  <2>1. Len(feed.out) <= 1 /\ Len(feed.screen) <= 1 /\ Len(feed.fin) <= 1 /\ ~(feed.left > 0)
    BY <1>2
  <2>. QED
    BY <1>2, <1>3, <2>1, Zenon DEF Single
<1>5. Bytes(feed)
  BY <1>2, BytesNone, Zenon
<1>6. \A i \in DOMAIN feed.ctrl : feed.ctrl[i].kind = "ctrl"
  BY <1>2
<1>7. Waits(feed, 0)
  BY <1>2, <1>6, Zenon DEF Waits
<1>8. SentOf(wire, feed) = <<>> /\ LineOf(wire, feed) = <<>>
  <2>1. <<>> \o <<>> = <<>>
    OBVIOUS
  <2>. QED
    BY <1>1, <1>2, <2>1, Zenon DEF SentOf, LineOf
<1>9. Fifo(<<>>, 0, {})
  BY DEF Fifo
<1>10. Closes(feed, <<>>, 0, FALSE)
  <2>1. ~(0 > 0) /\ \A i \in DOMAIN <<>> : FALSE
    OBVIOUS
  <2>. QED
    BY <1>2, <2>1, Zenon DEF Closes
<1>11. wire \in Seq(StreamFrames) /\ 0 \in Nat /\ {} \subseteq 1..0
  BY <1>1
<1>. QED
  BY <1>1, <1>3, <1>4, <1>5, <1>7, <1>8, <1>9, <1>10, <1>11, Zenon DEF FeedInv, Good

LEMMA PushScreenKeeps == FeedInv /\ PushScreen => FeedInv'
<1>. SUFFICES ASSUME FeedInv, PushScreen
              PROVE  FeedInv'
  OBVIOUS
<1>1. /\ Good(feed, wire, nCtrl, dropped, nScreen, FALSE) /\ finished = FALSE
      /\ nScreen' = nScreen + 1 /\ wire' = wire /\ nCtrl' = nCtrl /\ dropped' = dropped
      /\ finished' = finished
  BY Zenon DEF FeedInv, PushScreen
<1>2. PICK len \in Lens : feed' = push_screen(feed, Frame("screen", nScreen + 1, len))
  BY Zenon DEF PushScreen
<1>3. nScreen \in Nat
  BY <1>1, Zenon DEF Good
<1>. DEFINE x == Frame("screen", nScreen + 1, len)
            e == [feed EXCEPT !.screen = <<x>>]
<1>4. x \in StreamFrames /\ x.kind = "screen" /\ x.n = nScreen + 1
  BY <1>3, FramesMade
<1>. HIDE DEF x
<1>5. Good(e, wire, nCtrl, dropped, nScreen + 1, FALSE)
  BY <1>1, <1>4, ScreenKeeps, Zenon
<1>6. feed' = pump(e)
  BY <1>2, Zenon DEF push_screen, x
<1>. HIDE DEF e
<1>7. /\ Good(pump(e), wire, nCtrl, dropped, nScreen + 1, FALSE)
      /\ ~is_empty(pump(e)) => writing(pump(e))
  BY <1>5, PumpKeeps, Zenon
<1>. QED
  BY <1>1, <1>6, <1>7, Zenon DEF FeedInv

LEMMA PushCtrlKeeps == FeedInv /\ PushCtrl => FeedInv'
<1>. SUFFICES ASSUME FeedInv, PushCtrl
              PROVE  FeedInv'
  OBVIOUS
<1>1. /\ Good(feed, wire, nCtrl, dropped, nScreen, FALSE) /\ finished = FALSE
      /\ wire' = wire /\ nScreen' = nScreen /\ dropped' = dropped /\ finished' = finished
      /\ ~is_empty(feed) => writing(feed)
  BY Zenon DEF FeedInv, PushCtrl
<1>2. PICK len \in Lens :
          /\ feed' = push_ctrl(feed, Frame("ctrl", nCtrl + 1, len))
          /\ nCtrl' = IF CtrlFits(feed, Frame("ctrl", nCtrl + 1, len)) THEN nCtrl + 1 ELSE nCtrl
  BY Zenon DEF PushCtrl
<1>3. nCtrl \in Nat /\ feed \in FeedType
  BY <1>1, Zenon DEF Good, Single
<1>. DEFINE x == Frame("ctrl", nCtrl + 1, len)
<1>4. x \in StreamFrames /\ x.kind = "ctrl" /\ x.n = nCtrl + 1
  BY <1>3, FramesMade
<1>. HIDE DEF x
<1>5. pump(feed) = feed
  <2>1. is_empty(feed) => pump(feed) = feed
    BY Zenon DEF pump, is_empty
  <2>2. writing(feed) => pump(feed) = feed
    BY Zenon DEF pump
  <2>. QED
    BY <1>1, <2>1, <2>2, Zenon
<1>6. CASE ~writing(feed)
  <2>1. is_empty(feed) /\ CtrlFits(feed, x)
    BY <1>1, <1>5, <1>6, Zenon DEF CtrlFits
  <2>2. feed' = InFlight(feed, x) /\ nCtrl' = nCtrl + 1
    BY <1>2, <1>5, <1>6, <2>1, Zenon DEF push_ctrl, x
  <2>3. Good(feed', wire, nCtrl + 1, dropped, nScreen, FALSE) /\ writing(feed')
    BY <1>1, <1>4, <2>1, <2>2, CtrlStarts, Zenon
  <2>. QED
    BY <1>1, <2>2, <2>3, Zenon DEF FeedInv
<1>7. CASE writing(feed) /\ CtrlFits(feed, x)
  <2>1. feed.ctrlBytes + x.len <= CtrlCap
    BY <1>5, <1>7, Zenon DEF CtrlFits
  <2>2. /\ feed' = [feed EXCEPT !.ctrl = Append(feed.ctrl, x),
                                !.ctrlBytes = feed.ctrlBytes + x.len]
        /\ nCtrl' = nCtrl + 1
    BY <1>2, <1>5, <1>7, Zenon DEF push_ctrl, x
  <2>3. Good(feed', wire, nCtrl + 1, dropped, nScreen, FALSE) /\ writing(feed')
    BY <1>1, <1>4, <1>7, <2>1, <2>2, CtrlWaits, Zenon
  <2>. QED
    BY <1>1, <2>2, <2>3, Zenon DEF FeedInv
<1>8. CASE writing(feed) /\ ~CtrlFits(feed, x)
  <2>1. feed' = feed /\ nCtrl' = nCtrl
    BY <1>2, <1>5, <1>8, Zenon DEF push_ctrl, x
  <2>. QED
    BY <1>1, <2>1, Zenon DEF FeedInv
<1>. QED
  BY <1>6, <1>7, <1>8, Zenon

LEMMA PushFinKeeps == FeedInv /\ PushFin => FeedInv'
<1>. SUFFICES ASSUME FeedInv, PushFin
              PROVE  FeedInv'
  OBVIOUS
<1>1. /\ Good(feed, wire, nCtrl, dropped, nScreen, FALSE) /\ finished' = TRUE
      /\ nScreen' = nScreen /\ wire' = wire /\ nCtrl' = nCtrl
      /\ dropped' = {feed.ctrl[i].n : i \in DOMAIN feed.ctrl}
      /\ feed' = push_fin(feed, Frame("fin", 1, 1))
  BY Zenon DEF FeedInv, PushFin
<1>. DEFINE x == Frame("fin", 1, 1)
            e == [feed EXCEPT !.fin = <<x>>, !.ctrl = <<>>, !.ctrlBytes = 0]
<1>2. x \in StreamFrames /\ x.kind = "fin"
  BY FinMade
<1>. HIDE DEF x
<1>3. Good(e, wire, nCtrl, dropped', nScreen, TRUE)
  BY <1>1, <1>2, FinKeeps, Zenon
<1>4. feed' = pump(e)
  BY <1>1, Zenon DEF push_fin, x
<1>. HIDE DEF e
<1>5. /\ Good(pump(e), wire, nCtrl, dropped', nScreen, TRUE)
      /\ ~is_empty(pump(e)) => writing(pump(e))
  BY <1>3, PumpKeeps, Zenon
<1>. QED
  BY <1>1, <1>4, <1>5, Zenon DEF FeedInv

LEMMA WriteKeeps == FeedInv /\ Write => FeedInv'
<1>. SUFFICES ASSUME FeedInv, Write
              PROVE  FeedInv'
  OBVIOUS
<1>1. /\ Good(feed, wire, nCtrl, dropped, nScreen, finished) /\ finished \in BOOLEAN
      /\ nScreen' = nScreen /\ nCtrl' = nCtrl /\ dropped' = dropped /\ finished' = finished
      /\ writing(feed)
  BY Zenon DEF FeedInv, Write
<1>2. PICK n \in 1..feed.left :
          /\ feed' = feed_advance(feed, n)
          /\ wire' = IF n = feed.left THEN Append(wire, Head(feed.out)) ELSE wire
  BY Zenon DEF Write
<1>3. feed.left \in Nat
  <2>1. feed \in FeedType
    BY <1>1, Zenon DEF Good, Single
  <2>. QED
    BY <2>1 DEF FeedType
<1>4. CASE n < feed.left
  <2>1. n # feed.left
    BY <1>3, <1>4
  <2>2. feed' = [feed EXCEPT !.left = feed.left - n] /\ wire' = wire
    BY <1>2, <1>4, <2>1, Zenon DEF feed_advance
  <2>3. Good(feed', wire, nCtrl, dropped, nScreen, finished) /\ writing(feed')
    BY <1>1, <1>4, <2>2, PartKeeps, Zenon
  <2>. QED
    BY <1>1, <2>2, <2>3, Zenon DEF FeedInv
<1>5. CASE ~(n < feed.left)
  <2>. DEFINE e == [feed EXCEPT !.out = <<>>, !.left = 0]
  <2>1. n = feed.left
    BY <1>3, <1>5
  <2>2. feed' = pump(e) /\ wire' = Append(wire, Head(feed.out))
    BY <1>2, <1>5, <2>1, Zenon DEF feed_advance
  <2>3. Good(e, wire', nCtrl, dropped, nScreen, finished)
    BY <1>1, <2>2, WrittenKeeps, Zenon
  <2>. HIDE DEF e
  <2>4. /\ Good(pump(e), wire', nCtrl, dropped, nScreen, finished)
        /\ ~is_empty(pump(e)) => writing(pump(e))
    BY <1>1, <2>3, PumpKeeps, Zenon
  <2>. QED
    BY <1>1, <2>2, <2>4, Zenon DEF FeedInv
<1>. QED
  BY <1>4, <1>5, Zenon

LEMMA FeedInvNext == FeedInv /\ [StreamNext]_streamVars => FeedInv'
<1>. SUFFICES ASSUME FeedInv, [StreamNext]_streamVars
              PROVE  FeedInv'
  OBVIOUS
<1>1. CASE UNCHANGED streamVars
  BY <1>1, Zenon DEF streamVars, FeedInv
<1>. QED
  BY <1>1, PushCtrlKeeps, PushScreenKeeps, PushFinKeeps, WriteKeeps, Zenon DEF StreamNext

LEMMA FeedInvType == FeedInv => TypeOK
<1>. SUFFICES ASSUME FeedInv
              PROVE  TypeOK
  OBVIOUS
<1>1. /\ Single(feed) /\ Bytes(feed) /\ wire \in Seq(StreamFrames) /\ nCtrl \in Nat /\ nScreen \in Nat
      /\ dropped \subseteq 1..nCtrl /\ finished \in BOOLEAN
  BY Zenon DEF FeedInv, Good
<1>2. dropped \subseteq Nat
  BY <1>1
<1>3. BytesExact
  BY <1>1, Zenon DEF Bytes, BytesExact
<1>. QED
  BY <1>1, <1>2, <1>3, Zenon DEF TypeOK, Single

LEMMA FeedInvFifo == FeedInv => CtrlFifo
<1>. SUFFICES ASSUME FeedInv
              PROVE  CtrlFifo
  OBVIOUS
<1>1. Fifo(Line, nCtrl, dropped)
  BY Zenon DEF FeedInv, Good, Line, LineOf
<1>. DEFINE ctrls == {i \in DOMAIN Line : Line[i].kind = "ctrl"}
<1>2. \A i, j \in ctrls : i < j => Line[i].n < Line[j].n
  BY <1>1, Zenon DEF Fifo
<1>3. \A i \in ctrls : Line[i].n \in 1..nCtrl \ dropped
  BY <1>1, Zenon DEF Fifo
<1>4. \A n \in 1..nCtrl \ dropped : \E i \in ctrls : Line[i].n = n
  BY <1>1, Zenon DEF Fifo
<1>5. {Line[i].n : i \in ctrls} = 1..nCtrl \ dropped
  BY <1>3, <1>4, Zenon
<1>. QED
  BY <1>2, <1>5, Zenon DEF CtrlFifo

LEMMA FeedInvFin == FeedInv => FinAfterScreen
<1>. SUFFICES ASSUME FeedInv
              PROVE  FinAfterScreen
  OBVIOUS
<1>. DEFINE sent == wire \o feed.out
<1>1. Closes(feed, sent, nScreen, finished) /\ sent \in Seq(StreamFrames)
  <2>1. Closes(feed, sent, nScreen, finished)
    BY Zenon DEF FeedInv, Good, SentOf
  <2>2. sent \in Seq(StreamFrames)
    BY GoodParts, Zenon DEF FeedInv, SentOf
  <2>. QED
    BY <2>1, <2>2
<1>. HIDE DEF sent
<1>2. ASSUME NEW i \in DOMAIN sent, sent[i].kind = "fin"
      PROVE  /\ i = Len(sent)
             /\ feed.screen = <<>> /\ feed.ctrl = <<>> /\ feed.fin = <<>>
             /\ nScreen > 0 => \E j \in 1..(i - 1) : sent[j].kind = "screen"
                                                    /\ sent[j].n = nScreen
  <2>1. /\ i = Len(sent) /\ feed.screen = <<>> /\ feed.ctrl = <<>> /\ feed.fin = <<>>
    BY <1>1, <1>2, Zenon DEF Closes
  <2>2. ASSUME nScreen > 0
        PROVE  \E j \in 1..(i - 1) : sent[j].kind = "screen" /\ sent[j].n = nScreen
    <3>1. PICK j \in DOMAIN sent : sent[j].kind = "screen" /\ sent[j].n = nScreen
      BY <1>1, <2>1, <2>2, Zenon DEF Closes, ScreenSent
    <3>2. j # i
      BY <1>2, <3>1
    <3>3. j \in 1..(i - 1)
      BY <1>1, <2>1, <3>2
    <3>. QED
      BY <3>1, <3>3, Zenon
  <2>. QED
    BY <2>1, <2>2, Zenon
<1>. QED
  BY <1>2, Zenon DEF FinAfterScreen, sent

LEMMA Invariance == StreamSpec => []FeedInv
  BY FeedInvInit, FeedInvNext, PTL DEF StreamSpec

\* The feed keeps its types and at most one frame of each waiting kind, and the
\* bytes it counts against the budget are those of the control frames that
\* wait: push_ctrl, pump and push_fin never let them drift apart.
THEOREM TypeOKHolds == StreamSpec => []TypeOK
  BY Invariance, FeedInvType, PTL

\* Whatever is queued, and however the stream takes it, nothing waits while the
\* writer is idle: every push ends in pump, and so does the end of a frame.
THEOREM NeverIdleHolds == StreamSpec => []NeverIdle
<1>1. FeedInv => NeverIdle
  BY Zenon DEF FeedInv, Good, Single, NeverIdle
<1>. QED
  BY <1>1, Invariance, PTL

\* Control frames taken by push_ctrl come out once each and in order, except
\* those push_fin throws away.
THEOREM CtrlFifoHolds == StreamSpec => []CtrlFifo
  BY Invariance, FeedInvFifo, PTL

\* A final frame follows the newest screen queued before it, and nothing
\* follows it.
THEOREM FinAfterScreenHolds == StreamSpec => []FinAfterScreen
  BY Invariance, FeedInvFin, PTL
=============================================================================
