----------------------------- MODULE MCPrediction -----------------------------
(***************************************************************************)
(* The environments in which Prediction is checked.                        *)
(***************************************************************************)
EXTENDS Prediction

TextLine(text, cols, at) ==
    [BlankFrame(1, cols) EXCEPT !.col = at,
        !.cell[0] = [k \in 0..(cols - 1) |-> IF k < Len(text) THEN text[k + 1] ELSE Blank]]

Quiet == [program |-> "editor", frame |-> BlankFrame(1, 3), typed |-> 0,
          messages |-> {<<"a">>}, pref |-> "Adaptive", overwrite |-> FALSE,
          prompts |-> {":"}, contexts |-> {}, intervals |-> {}, sizes |-> {},
          output |-> 0, time |-> 0, pastes |-> FALSE, losses |-> FALSE]

Single(ks) == {<<k>> : k \in ks}

\* Editing a line: inserting and overwriting, one or two keys in a message.
Editing(overwrite, n) ==
    [Quiet EXCEPT !.frame = TextLine(<<"a", "b">>, 5, 1), !.typed = n,
        !.overwrite = overwrite,
        !.messages = Single({"a", "b", "Backspace", "Left", "Right"}) \cup {<<"b", "a">>}]

\* A password after Enter, on a screen that scrolls.
Login(rows, prompts, n) ==
    [Quiet EXCEPT !.program = "login", !.frame = BlankFrame(rows, 3),
        !.typed = n, !.prompts = prompts, !.messages = Single({"a", "s", "Enter"})]

\* A program that prints over the guesses, and every way to lose the basis.
Unruly(frame, keys, sizes, output, n) ==
    [Quiet EXCEPT !.program = "any", !.frame = frame, !.typed = n,
        !.messages = Single(keys), !.output = output, !.sizes = sizes,
        !.pastes = TRUE, !.losses = TRUE]

\* Links whose speed changes.
Speeds == [Quiet EXCEPT !.typed = 3, !.intervals = {20, 25, 250}, !.time = 4]

\* Contexts of a shared screen.
Sharing ==
    [Quiet EXCEPT !.typed = 3, !.contexts = [epoch : 1..2, allowed : BOOLEAN]]

BoundsAll ==
    {Editing(FALSE, 4), Editing(TRUE, 3),
     Login(1, {":"}, 5), Login(3, {":"}, 6),
     Unruly(BlankFrame(2, 2), {"a", "Enter"}, {}, 0, 3),
     Unruly(BlankFrame(2, 2), {"a", "Backspace"}, {}, 1, 2),
     Unruly(TextLine(<<"a", Linked>>, 3, 0), {"a", "Wide", "Other", "Enter"}, {<<1, 2>>}, 1, 2),
     Unruly(TextLine(<<Overflow>>, 3, 1), {"a", "Right", "Backspace"}, {}, 0, 2),
     Speeds, [Speeds EXCEPT !.pref = "Never", !.typed = 1], Sharing}

\* A login whose prompt may have the password's glyph.
BoundsDrawn ==
    {[Login(2, {":", Secret}, 4) EXCEPT !.messages = Single({Secret, "Enter"})]}

\* A login on a row that begins with a link.  PasswordNeverDrawn is violated
\* with these bounds too, after some two million states.
BoundsLinked ==
    {[Login(1, {":"}, 7) EXCEPT !.frame = TextLine(<<Linked>>, 5, 1),
         !.messages = Single({"a", Secret, "Enter", "Right"})]}
=============================================================================
