------------------------------- MODULE Predictor -------------------------------
(***************************************************************************)
(* The predictive echo of quosh-predict: what the user types is guessed    *)
(* onto a copy of the confirmed frame, and every guess is judged by the    *)
(* first screen whose echo checkpoint covers the message it came from.     *)
(*                                                                         *)
(* A predictor is a record and every method an operator on it.  Cells hold *)
(* one glyph: renditions, the underline of unconfirmed cells (flagging)    *)
(* and the bytes of a cell are left out, so is the escape sequence parser  *)
(* (a key is what it reports).                                             *)
(***************************************************************************)
EXTENDS Integers, Sequences, SequencesExt

CONSTANTS Letters,              \* printable characters one column wide
          SrttTriggerLow,       \* SRTT_TRIGGER_LOW
          SrttTriggerHigh,      \* SRTT_TRIGGER_HIGH
          GlitchThreshold,      \* GLITCH_THRESHOLD
          GlitchFlagThreshold,  \* GLITCH_FLAG_THRESHOLD
          GlitchRepairCount,    \* GLITCH_REPAIR_COUNT
          GlitchRepairInterval  \* GLITCH_REPAIR_MININTERVAL

Blank == " "
Overflow == "~"     \* text kept in the overflow table
Linked == "@"       \* a cell with an OSC 8 link
Glyphs == Letters \cup {Blank, Overflow, Linked, ":"}

\* Other: an escape, a control character, an unknown sequence.
Unprinted == {"Left", "Right", "Wide", "Other"}
Controls == {"Backspace", "Enter"} \cup Unprinted
Keys == Letters \cup Controls

ASSUME PredictorAssumption ==
    /\ SrttTriggerLow \in Nat /\ SrttTriggerHigh \in Nat
    /\ SrttTriggerLow < SrttTriggerHigh
    /\ GlitchThreshold \in Nat /\ GlitchFlagThreshold \in Nat
    /\ GlitchThreshold < GlitchFlagThreshold
    /\ GlitchRepairCount \in Nat \ {0} /\ GlitchRepairInterval \in Nat
    /\ Letters \cap {Blank, Overflow, Linked} = {} /\ Letters \cap Controls = {}

\* A frame: its size, its cells and its cursor, rows and columns from 0.
Columns(fb) == 0..(fb.cols - 1)
RowNumbers(fb) == 0..(fb.rows - 1)
Frames(r, c) ==
    [rows : {r}, cols : {c}, row : 0..(r - 1), col : 0..(c - 1),
     cell : [0..(r - 1) -> [0..(c - 1) -> Glyphs]]]
IsFrame(fb) == /\ fb.rows \in Nat /\ fb.cols \in Nat
               /\ fb \in Frames(fb.rows, fb.cols)
BlankFrame(r, c) ==
    [rows |-> r, cols |-> c, row |-> 0, col |-> 0,
     cell |-> [i \in 0..(r - 1) |-> [k \in 0..(c - 1) |-> Blank]]]

\* cell_text: text in the overflow table is not in the cell.
Text(g) == IF g = Overflow THEN Blank ELSE g

\* A cell overlay; an inactive one carries nothing that is read again.
Inactive == [active |-> FALSE, exp |-> 0, epoch |-> 0, time |-> 0,
             unknown |-> FALSE, text |-> Blank, orig |-> {}]

\* Vec::retain: the elements of s that are in T (SelectSeq, in a form that
\* can be reasoned about).
Retain(s, T) ==
    LET kept[i \in 0..Len(s)] ==
            IF i = 0 THEN <<>>
            ELSE IF s[i] \in T THEN Append(kept[i - 1], s[i]) ELSE kept[i - 1]
    IN  kept[Len(s)]

\* The state of struct Predictor; sent and late are local_frame_sent and
\* local_frame_late_acked.
NewPredictor(pref, overwrite) ==
    [overlays |-> <<>>, cursors |-> <<>>, sent |-> 0, late |-> 0,
     epoch |-> 1, confirmed |-> 0, srtt |-> FALSE, glitch |-> 0, quick |-> 0,
     interval |-> 250, size |-> <<0, 0>>, pref |-> pref, overwrite |-> overwrite]

become_tentative(p) == [p EXCEPT !.epoch = @ + 1]

\* Mutant: a reset starts a new epoch and keeps the guesses.
reset_keeps(p) == become_tentative(p)

reset(p) == become_tentative([p EXCEPT !.cursors = <<>>, !.overlays = <<>>])

active(p) ==
    \/ p.cursors # <<>>
    \/ \E i \in DOMAIN p.overlays : \E k \in DOMAIN p.overlays[i].cells :
           p.overlays[i].cells[k].active
-----------------------------------------------------------------------------
(* Judging guesses against a frame.                                        *)

CellValidity(p, fb, row, col, c) ==
    IF ~c.active THEN "inactive"
    ELSE IF row >= fb.rows \/ col >= fb.cols THEN "incorrect"
    ELSE IF p.late < c.exp THEN "pending"
    ELSE IF c.unknown \/ c.text = Blank THEN "no credit"
    ELSE IF fb.cell[row][col] # c.text THEN "incorrect"
    ELSE IF c.text \in c.orig THEN "no credit"
    ELSE "correct"

CursorValidity(p, fb, c) ==
    IF c.row >= fb.rows \/ c.col >= fb.cols THEN "incorrect"
    ELSE IF p.late < c.exp THEN "pending"
    ELSE IF fb.row = c.row /\ fb.col = c.col THEN "correct"
    ELSE "incorrect"

CursorAt(p, row, col) ==
    [exp |-> p.sent + 1, epoch |-> p.epoch, row |-> row, col |-> col]

\* The guesses of this epoch and later ones, the epoch of the guess itself
\* included.
FromEpoch(c, epoch) == c.epoch > epoch - 1

\* Mutant: only the guesses of later epochs are withdrawn.
kill_epoch_later(p, epoch, fb) ==
    become_tentative(
      [p EXCEPT !.cursors = Append(Retain(@, {c \in Range(@) : c.epoch <= epoch}),
                                   CursorAt(p, fb.row, fb.col)),
                !.overlays = [i \in DOMAIN @ |-> [@[i] EXCEPT
                    !.cells = [k \in DOMAIN @ |-> IF @[k].epoch > epoch
                                                  THEN Inactive ELSE @[k]]]]])

\* The cells of a line without the guesses from an epoch on.
Withdrawn(cells, epoch) ==
    [k \in DOMAIN cells |-> IF FromEpoch(cells[k], epoch) THEN Inactive ELSE cells[k]]

\* A tentative guess was wrong: its epoch goes, and the cursor is taken from
\* the frame.
kill_epoch(p, epoch, fb) ==
    become_tentative(
      [p EXCEPT !.cursors = Append(Retain(@, {c \in Range(@) : ~FromEpoch(c, epoch)}),
                                   CursorAt(p, fb.row, fb.col)),
                !.overlays = [i \in DOMAIN p.overlays |->
                    [p.overlays[i] EXCEPT !.cells = Withdrawn(@, epoch)]]])

\* A right guess makes its epoch confident, and a quick one repairs a glitch.
Credit(p, c, now) ==
    LET repairs == /\ now - c.time < GlitchThreshold /\ p.glitch > 0
                   /\ now - p.quick >= GlitchRepairInterval
    IN  [p EXCEPT !.confirmed = IF c.epoch > @ THEN c.epoch ELSE @,
                  !.glitch = IF repairs THEN @ - 1 ELSE @,
                  !.quick = IF repairs THEN now ELSE @]

\* A guess that waits for long shows that the link is slow.
Overdue(p, c, now) ==
    [p EXCEPT !.glitch =
        IF now - c.time >= GlitchFlagThreshold THEN 2 * GlitchRepairCount
        ELSE IF now - c.time >= GlitchThreshold /\ @ < GlitchRepairCount
        THEN GlitchRepairCount ELSE @]

\* One turn of cull's loop, at the cell pos of the overlays; stop is its
\* return after a reset.
JudgeCell(a, pos, fb, now) ==
    LET p == a.p
        line == p.overlays[pos[1]]
        c == line.cells[pos[2]]
        v == CellValidity(p, fb, line.row, pos[2], c)
        cleared(q) == [q EXCEPT !.overlays[pos[1]].cells[pos[2]] = Inactive]
        judged == CASE v = "inactive" -> p
                    [] v = "incorrect" -> kill_epoch(p, c.epoch, fb)
                    [] v = "correct" -> cleared(Credit(p, c, now))
                    [] v = "no credit" -> cleared(p)
                    [] v = "pending" -> Overdue(p, c, now)
    IN  IF a.stop THEN a
        ELSE IF v = "incorrect" /\ c.epoch <= p.confirmed
        THEN [p |-> reset(p), stop |-> TRUE]
        ELSE [p |-> judged, stop |-> FALSE]

JudgeCells(p, fb, now) ==
    LET judged[i \in 0..(Len(p.overlays) * fb.cols)] ==
            IF i = 0 THEN [p |-> p, stop |-> FALSE]
            ELSE JudgeCell(judged[i - 1],
                           <<(i - 1) \div fb.cols + 1, (i - 1) % fb.cols>>, fb, now)
    IN  judged[Len(p.overlays) * fb.cols]

JudgeCursors(p, fb) ==
    IF p.cursors # <<>> /\ CursorValidity(p, fb, Last(p.cursors)) = "incorrect"
    THEN reset(p)
    ELSE [p EXCEPT !.cursors =
            Retain(@, {c \in Range(@) : CursorValidity(p, fb, c) = "pending"})]

\* A frame of another size drops every guess.
Resized(p, fb) ==
    IF p.size = <<fb.rows, fb.cols>> THEN p
    ELSE reset([p EXCEPT !.size = <<fb.rows, fb.cols>>])

\* Mutant: a fast link hides guesses that are shown.
SrttTrigger_eager(p) ==
    IF p.interval > SrttTriggerHigh THEN [p EXCEPT !.srtt = TRUE]
    ELSE IF p.srtt /\ p.interval <= SrttTriggerLow THEN [p EXCEPT !.srtt = FALSE]
    ELSE p

SrttTrigger(p) ==
    IF p.interval > SrttTriggerHigh THEN [p EXCEPT !.srtt = TRUE]
    ELSE IF p.srtt /\ p.interval <= SrttTriggerLow /\ ~active(p)
    THEN [p EXCEPT !.srtt = FALSE]
    ELSE p

cull(p, fb, now) ==
    LET q == SrttTrigger(Resized(p, fb))
        r == JudgeCells([q EXCEPT !.overlays =
                 Retain(@, {line \in Range(@) : line.row < fb.rows})], fb, now)
    IN  IF p.pref = "Never" THEN p
        ELSE IF r.stop THEN r.p ELSE JudgeCursors(r.p, fb)
-----------------------------------------------------------------------------
(* Guessing what a key will do to the frame on display.                    *)

Cursor(p) == Last(p.cursors)
MoveCursor(p, row, col) ==
    [p EXCEPT !.cursors = [@ EXCEPT ![Len(p.cursors)].row = row,
                                    ![Len(p.cursors)].col = col]]
\* expire: the guess is judged by the screen that covers this message.
ExpireCursor(p) == [p EXCEPT !.cursors[Len(p.cursors)].exp = p.sent + 1]

init_cursor(p, fb) ==
    IF p.cursors = <<>> THEN [p EXCEPT !.cursors = <<CursorAt(p, fb.row, fb.col)>>]
    ELSE IF Cursor(p).epoch # p.epoch
    THEN [p EXCEPT !.cursors = Append(@, CursorAt(p, Cursor(p).row, Cursor(p).col))]
    ELSE p

\* Cells that cannot be moved faithfully are not guessed about.
unsupported_range(fb, row, from, to) ==
    row < fb.rows /\ \E k \in from..to : fb.cell[row][k] \in {Overflow, Linked}

get_or_make_row(p, row, fb) ==
    IF \E i \in DOMAIN p.overlays : p.overlays[i].row = row THEN p
    ELSE [p EXCEPT !.overlays =
            Append(@, [row |-> row, cells |-> [k \in Columns(fb) |-> Inactive]])]

LineIndex(p, row) == CHOOSE i \in DOMAIN p.overlays : p.overlays[i].row = row

\* reset_with_orig and what follows it everywhere: the cell remembers what it
\* stood for and what is on display.
Guess(p, c, shown, unknown, text, now) ==
    [active |-> TRUE, exp |-> p.sent + 1, epoch |-> p.epoch, time |-> now,
     unknown |-> unknown, text |-> IF unknown THEN Blank ELSE text,
     orig |-> {Text(shown)} \cup
              IF c.active /\ ~c.unknown THEN c.orig \cup {c.text} ELSE {}]

\* The cell takes over what its neighbour is thought to hold.
ShiftFrom(p, c, shown, neighbour, neighbourShown, now) ==
    Guess(p, c, shown, neighbour.active /\ neighbour.unknown,
          IF neighbour.active THEN neighbour.text ELSE neighbourShown, now)

\* Mutant: the cells right of the cursor are not moved.
backspace_leaves(p, fb, now) ==
    LET row == Cursor(p).row
        col == Cursor(p).col - 1
        q == MoveCursor(ExpireCursor(get_or_make_row(p, row, fb)), row, col)
        n == LineIndex(q, row)
    IN  IF col < 0 \/ unsupported_range(fb, row, col, fb.cols - 1) THEN p
        ELSE [q EXCEPT !.overlays[n].cells[col] =
                 Guess(p, @, fb.cell[row][col], FALSE, Blank, now)]

backspace(p, fb, now) ==
    LET row == Cursor(p).row
        col == Cursor(p).col - 1
        q == MoveCursor(ExpireCursor(get_or_make_row(p, row, fb)), row, col)
        n == LineIndex(q, row)
        old == q.overlays[n].cells
        shown(k) == fb.cell[row][k]
        moved == [k \in Columns(fb) |->
            IF k < col THEN old[k]
            ELSE IF k + 2 < fb.cols
            THEN ShiftFrom(p, old[k], shown(k), old[k + 1], shown(k + 1), now)
            ELSE Guess(p, old[k], shown(k), TRUE, Blank, now)]
    IN  IF col < 0 THEN p
        ELSE IF unsupported_range(fb, row, col,
                    IF p.overwrite THEN col ELSE fb.cols - 1)
        THEN become_tentative(p)
        ELSE [q EXCEPT !.overlays[n].cells =
            IF p.overwrite
            THEN [old EXCEPT ![col] = Guess(p, @, shown(col), FALSE, Blank, now)]
            ELSE moved]

\* On the last row the line is thought to scroll away.
newline_carriage_return(p, fb, now) ==
    LET q == init_cursor(p, fb)
        row == Cursor(q).row
        home == MoveCursor(q, row, 0)
        made == get_or_make_row(home, row, fb)
    IN  IF row # fb.rows - 1 THEN MoveCursor(q, row + 1, 0)
        ELSE IF \E k \in Columns(fb) : fb.cell[row][k] = Linked
        THEN become_tentative(home)
        ELSE [made EXCEPT !.overlays[LineIndex(made, row)].cells =
                [k \in DOMAIN @ |-> [@[k] EXCEPT !.active = TRUE, !.text = Blank,
                    !.exp = p.sent + 1, !.epoch = p.epoch, !.time = now]]]

\* In the last column the guess is tentative, and so is all that follows it.
predict_char(p, ch, fb, now) ==
    LET row == Cursor(p).row
        col == Cursor(p).col
        last == fb.cols - 1
        right == IF p.overwrite THEN col ELSE last
        e == IF col = last THEN become_tentative(p) ELSE p
        q == ExpireCursor(get_or_make_row(e, row, fb))
        n == LineIndex(q, row)
        old == q.overlays[n].cells
        shown(k) == fb.cell[row][k]
        moved == [k \in Columns(fb) |->
            IF k < col \/ k > right THEN old[k]
            ELSE IF k = col THEN Guess(e, old[k], shown(k), FALSE, ch, now)
            ELSE IF k = last THEN Guess(e, old[k], shown(k), TRUE, Blank, now)
            ELSE ShiftFrom(e, old[k], shown(k), old[k - 1], shown(k - 1), now)]
        typed == [q EXCEPT !.overlays[n].cells = moved]
    IN  IF row >= fb.rows \/ col >= fb.cols THEN p
        ELSE IF unsupported_range(fb, row, col, right) THEN become_tentative(p)
        ELSE IF col < last THEN MoveCursor(typed, row, col + 1)
        ELSE newline_carriage_return(become_tentative(typed), fb, now)

HandleKey(p, key, fb, now) ==
    LET q == init_cursor(p, fb)
        row == Cursor(q).row
        col == Cursor(q).col
        step(to) == IF to \in Columns(fb) THEN MoveCursor(ExpireCursor(q), row, to)
                    ELSE q
    IN  CASE key = "Enter" -> newline_carriage_return(become_tentative(p), fb, now)
          [] key = "Right" -> step(col + 1)
          [] key = "Left" -> step(col - 1)
          [] key = "Backspace" -> backspace(q, fb, now)
          [] key = "Wide" -> become_tentative(q)
          [] key = "Other" -> become_tentative(p)
          [] key \in Letters -> predict_char(q, key, fb, now)

new_user_byte(p, key, fb, now) ==
    IF p.pref = "Never" THEN p ELSE HandleKey(cull(p, fb, now), key, fb, now)
-----------------------------------------------------------------------------
(* What is shown.                                                          *)

Displays(p) == p.pref # "Never" /\ (p.srtt \/ p.glitch > 0 \/ p.pref = "Always")

\* Mutant: tentative guesses are shown as well.
Confident_always(p, c) == TRUE

Confident(p, c) == c.epoch <= p.confirmed

\* Whether an overlay replaces this cell of the frame.
Shown(p, row, col) ==
    \E i \in DOMAIN p.overlays :
        /\ p.overlays[i].row = row /\ col \in DOMAIN p.overlays[i].cells
        /\ LET c == p.overlays[i].cells[col]
           IN  c.active /\ ~c.unknown /\ Confident(p, c)

apply(p, fb) ==
    LET cs == Retain(p.cursors, {c \in Range(p.cursors) :
                  Confident(p, c) /\ c.row < fb.rows /\ c.col < fb.cols})
        guess(row, col) == p.overlays[LineIndex(p, row)].cells[col].text
    IN  IF ~Displays(p) THEN fb
        ELSE [fb EXCEPT !.row = IF cs = <<>> THEN @ ELSE Last(cs).row,
                        !.col = IF cs = <<>> THEN @ ELSE Last(cs).col,
                        !.cell = [r \in DOMAIN @ |-> [k \in DOMAIN @[r] |->
                            IF Shown(p, r, k) THEN guess(r, k) ELSE @[r][k]]]]
=============================================================================
