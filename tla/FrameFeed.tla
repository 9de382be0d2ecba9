------------------------------ MODULE FrameFeed ------------------------------
(***************************************************************************)
(* The outbound queue of a control stream (OutBuf and FrameFeed of         *)
(* quosh-proto), used by the server's handlers and by the client: one      *)
(* frame in flight, control frames in order within a byte budget, one      *)
(* screen that newer ones replace, and a final frame.                      *)
(*                                                                         *)
(* A frame is a record with a positive `len`; an optional frame is a       *)
(* sequence of at most one.                                                *)
(***************************************************************************)
EXTENDS Integers, Sequences

CONSTANT CtrlCap        \* CTRL_CAP: bytes of queued control frames

ASSUME FeedAssumption == CtrlCap \in Nat

EmptyFeed == [out |-> <<>>, left |-> 0, screen |-> <<>>, ctrl |-> <<>>,
              ctrlBytes |-> 0, fin |-> <<>>]

writing(f) == f.out # <<>>
is_empty(f) == ~writing(f) /\ f.screen = <<>> /\ f.ctrl = <<>> /\ f.fin = <<>>

\* OutBuf::queue on an empty buffer: the frame is in flight, all of it left.
InFlight(f, frame) == [f EXCEPT !.out = <<frame>>, !.left = frame.len]

\* Mutant: nothing starts while a screen is queued but no control frame is.
pump_ctrl(f) ==
    IF ~writing(f) /\ f.ctrl # <<>>
    THEN [InFlight(f, Head(f.ctrl)) EXCEPT !.ctrl = Tail(@),
                                           !.ctrlBytes = @ - Head(f.ctrl).len]
    ELSE f

\* Mutant: the final frame overtakes the screen.
pump_fin(f) ==
    IF ~writing(f) /\ f.ctrl = <<>> /\ f.fin # <<>>
    THEN [InFlight(f, Head(f.fin)) EXCEPT !.fin = <<>>]
    ELSE IF ~writing(f) /\ f.ctrl = <<>> /\ f.screen # <<>>
    THEN [InFlight(f, Head(f.screen)) EXCEPT !.screen = <<>>]
    ELSE pump_ctrl(f)

\* With nothing in flight the next frame starts: control frames first, then
\* the screen, then the final frame.
pump(f) ==
    CASE writing(f) -> f
      [] ~writing(f) /\ f.ctrl # <<>> ->
            [InFlight(f, Head(f.ctrl)) EXCEPT !.ctrl = Tail(@),
                                              !.ctrlBytes = @ - Head(f.ctrl).len]
      [] ~writing(f) /\ f.ctrl = <<>> /\ f.screen # <<>> ->
            [InFlight(f, Head(f.screen)) EXCEPT !.screen = <<>>]
      [] ~writing(f) /\ f.ctrl = <<>> /\ f.screen = <<>> /\ f.fin # <<>> ->
            [InFlight(f, Head(f.fin)) EXCEPT !.fin = <<>>]
      [] OTHER -> f

push_screen(f, frame) == pump([f EXCEPT !.screen = <<frame>>])

\* What push_ctrl returns: a frame of any size when nothing is in flight,
\* otherwise one within the budget.
CtrlFits(f, frame) ==
    LET g == pump(f) IN ~writing(g) \/ g.ctrlBytes + frame.len <= CtrlCap

\* Mutant: the frame goes in front of the ones that wait.
push_ctrl_front(f, frame) ==
    LET g == pump(f)
    IN  IF ~writing(g) THEN InFlight(g, frame)
        ELSE IF CtrlFits(f, frame)
        THEN [g EXCEPT !.ctrl = <<frame>> \o @, !.ctrlBytes = @ + frame.len]
        ELSE g

push_ctrl(f, frame) ==
    LET g == pump(f)
    IN  IF ~writing(g) THEN InFlight(g, frame)
        ELSE IF CtrlFits(f, frame)
        THEN [g EXCEPT !.ctrl = Append(@, frame), !.ctrlBytes = @ + frame.len]
        ELSE g

\* Mutant: the byte count survives the frames it counted.
push_fin_bytes(f, frame) == pump([f EXCEPT !.fin = <<frame>>, !.ctrl = <<>>])

\* The final frame throws queued control frames away.
push_fin(f, frame) ==
    pump([f EXCEPT !.fin = <<frame>>, !.ctrl = <<>>, !.ctrlBytes = 0])

\* n bytes of the frame in flight are written; once it is out the next one
\* starts.
feed_advance(f, n) ==
    IF n < f.left THEN [f EXCEPT !.left = @ - n]
    ELSE pump([f EXCEPT !.out = <<>>, !.left = 0])
=============================================================================
