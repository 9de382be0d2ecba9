------------------------------ MODULE Prediction ------------------------------
(***************************************************************************)
(* The predictor at work: the user types, the client (quosh-client) feeds  *)
(* each message to its predictor and sends it, a program reads it and      *)
(* changes its terminal, and screens come back with an echo checkpoint.    *)
(*                                                                         *)
(* The transport and the session owner are the subject of Quosh; here they *)
(* are reduced to what those modules establish: messages reach the program *)
(* once and in order, and the screens a client applies are ever newer.  A  *)
(* late screen is the screen of a program that is still behind, so the     *)
(* screen that is applied is the terminal as it stands.                    *)
(***************************************************************************)
EXTENDS Predictor

CONSTANTS Bounds        \* bound: the environments to explore

VARIABLES pr,           \* Client.predictor
          seq,          \* Client.seq: messages typed
          confirmed,    \* Client.confirmed: frame and echo_ack
          shared,       \* Client.shared_prediction
          term,         \* external: the program's terminal and whether it echoes
          unread,       \* external: messages the program has not read
          checkpoint,   \* the owner's echo_ack
          now,          \* the client's clock
          since,        \* history: the last message typed before the basis of
                        \* prediction changed (reset, paste, context)
          bound         \* the environment of this behaviour

vars == <<pr, seq, confirmed, shared, term, unread, checkpoint, now, since, bound>>

\* An environment: the program ("editor" echoes what it reads, "login" reads
\* every second line with its echo off, "any" also prints whatever it likes),
\* the terminal it starts with, the messages, the bounds of typing, output,
\* time, pastes and transport losses, the contexts and the link.
Programs == {"editor", "login", "any"}

\* What a password consists of.
Secret == "s"

\* A login at which nothing looks like the password: neither its prompts nor
\* the screen it starts with have the password's glyph or a link.
Unmistakable(b) ==
    /\ b.program = "login"
    /\ \A r \in RowNumbers(b.frame), k \in Columns(b.frame) :
           b.frame.cell[r][k] \notin {Secret, Linked}
    /\ b.prompts \cap {Secret, Linked} = {}

\* The user of a login program ends a line by a message of its own.
EndsLines(messages) ==
    \A keys \in messages : keys = <<"Enter">> \/ "Enter" \notin Range(keys)

ASSUME PredictionAssumption ==
    \A b \in Bounds :
        /\ b.program \in Programs /\ IsFrame(b.frame) /\ b.prompts \subseteq Glyphs
        /\ b.messages \subseteq Seq(Keys) /\ b.time \in Nat /\ b.intervals \subseteq Nat
        /\ b.pref \in {"Never", "Adaptive", "Always"} /\ b.overwrite \in BOOLEAN
        /\ b.contexts \subseteq [epoch : Nat, allowed : BOOLEAN]
        /\ b.program = "login" => EndsLines(b.messages)

\* shared_prediction = None: below every context.
NoContext == [epoch |-> -1, allowed |-> TRUE]

\* The first screen has been applied.
Init ==
    /\ bound \in Bounds
    /\ pr = cull(NewPredictor(bound.pref, bound.overwrite), bound.frame, 0)
    /\ seq = 0 /\ checkpoint = 0 /\ now = 0 /\ since = 0
    /\ confirmed = [frame |-> bound.frame, ack |-> 0]
    /\ shared = NoContext
    /\ term = [frame |-> bound.frame, echo |-> TRUE, line |-> 0, output |-> 0]
    /\ unread = <<>>

\* refresh_display: the display is always up to date between two events.
Display == apply(pr, confirmed.frame)
-----------------------------------------------------------------------------
(* The client.                                                             *)

Fed(p, keys, basis) ==
    LET fed[i \in 0..Len(keys)] ==
            IF i = 0 THEN p ELSE new_user_byte(fed[i - 1], keys[i], basis, now)
    IN  fed[Len(keys)]

\* All bytes of a message are guessed on the display it was typed at.
feed_predict(p, n, keys, basis) == Fed([p EXCEPT !.sent = n - 1], keys, basis)

\* The user of a login program knows which of the lines are passwords, and
\* types them without correcting them.
LineTyped == term.line + Len(Retain(unread, {<<"Enter">>}))
Sensible(keys) ==
    bound.program = "login" =>
        \/ keys = <<"Enter">>
        \/ LineTyped % 2 = 1 /\ Range(keys) \subseteq {Secret} \cup Unprinted
        \/ LineTyped % 2 = 0 /\ Secret \notin Range(keys)

\* queue_input: where predictions are not allowed the message is only sent.
Type(keys) ==
    /\ seq < bound.typed /\ Sensible(keys)
    /\ seq' = seq + 1
    /\ unread' = Append(unread, keys)
    /\ pr' = IF shared.allowed THEN feed_predict(pr, seq + 1, keys, Display) ELSE pr
    /\ UNCHANGED <<confirmed, shared, term, checkpoint, now, since, bound>>

\* Bulk input is sent, not predicted, and drops every guess.
Paste(keys) ==
    /\ bound.pastes /\ seq < bound.typed /\ Sensible(keys)
    /\ seq' = seq + 1
    /\ unread' = Append(unread, keys)
    /\ pr' = IF shared.allowed THEN reset(pr) ELSE pr
    /\ since' = IF shared.allowed THEN seq ELSE since
    /\ UNCHANGED <<confirmed, shared, term, checkpoint, now, bound>>

\* Client::reset after a transport loss.
TransportLoss ==
    /\ bound.losses /\ since < seq
    /\ pr' = reset(pr)
    /\ since' = seq
    /\ UNCHANGED <<seq, confirmed, shared, term, unread, checkpoint, now, bound>>

Screen == [frame |-> term.frame, ack |-> checkpoint]

apply_screen(p, s) == cull([p EXCEPT !.late = s.ack], s.frame, now)

ReceiveScreen ==
    /\ Screen # confirmed /\ shared = NoContext
    /\ confirmed' = Screen
    /\ pr' = apply_screen(pr, Screen)
    /\ UNCHANGED <<seq, shared, term, unread, checkpoint, now, since, bound>>

\* Another context: all guesses go, and it decides whether there are more.
Contextual(p, allowed) ==
    [reset(p) EXCEPT !.pref =
        IF bound.pref = "Never" \/ ~allowed THEN "Never" ELSE "Adaptive"]

\* apply_shared_screen: a screen that says whether, and against which basis,
\* the client may predict; one of an older basis is refused.
ReceiveSharedScreen(context) ==
    /\ Screen # confirmed
    /\ context.epoch >= shared.epoch
    /\ confirmed' = Screen
    /\ shared' = context
    /\ pr' = apply_screen(IF context = shared THEN pr
                          ELSE Contextual(pr, context.allowed), Screen)
    /\ since' = IF context = shared THEN since ELSE seq
    /\ UNCHANGED <<seq, term, unread, checkpoint, now, bound>>

\* tick: guesses that wait are looked at again.
Tick ==
    /\ now < bound.time /\ now' = now + 1
    /\ pr' = IF active(pr) THEN cull(pr, confirmed.frame, now') ELSE pr
    /\ UNCHANGED <<seq, confirmed, shared, term, unread, checkpoint, since, bound>>

\* A pong, with the send interval that follows from the round trip.
Pong ==
    /\ \E i \in bound.intervals : pr' = [pr EXCEPT !.interval = i]
    /\ UNCHANGED <<seq, confirmed, shared, term, unread, checkpoint, now, since, bound>>
-----------------------------------------------------------------------------
(* The program and its terminal (external).                                *)

Put(f, col, ch) == [f EXCEPT !.cell[f.row][col] = ch]

\* A printed character is inserted, or overwrites; the last column holds the
\* cursor.
Echoed(f, ch) ==
    LET line == f.cell[f.row]
        moved == [k \in Columns(f) |->
            IF k = f.col THEN ch
            ELSE IF k > f.col /\ ~bound.overwrite THEN line[k - 1]
            ELSE line[k]]
    IN  [f EXCEPT !.cell[f.row] = moved,
                  !.col = IF f.col < f.cols - 1 THEN f.col + 1 ELSE f.col]

Erased(f) ==
    LET line == f.cell[f.row]
        moved == [k \in Columns(f) |->
            IF k < f.col - 1 \/ (bound.overwrite /\ k > f.col - 1) THEN line[k]
            ELSE IF ~bound.overwrite /\ k < f.cols - 1 THEN line[k + 1]
            ELSE Blank]
    IN  IF f.col = 0 THEN f ELSE [f EXCEPT !.cell[f.row] = moved, !.col = @ - 1]

NextLine(f) ==
    IF f.row < f.rows - 1 THEN [f EXCEPT !.row = @ + 1, !.col = 0]
    ELSE [f EXCEPT !.col = 0, !.cell = [r \in RowNumbers(f) |->
             IF r < f.rows - 1 THEN f.cell[r + 1] ELSE [k \in Columns(f) |-> Blank]]]

Prompted(f, prompt) == [Put([f EXCEPT !.col = 0], 0, prompt) EXCEPT
                            !.col = IF f.cols > 1 THEN 1 ELSE 0]

\* After a line a login program prompts for the password, echo off.
Entered(t, prompt) ==
    LET f == NextLine(t.frame)
        silent == bound.program = "login" /\ t.line % 2 = 0
    IN  [t EXCEPT !.line = @ + 1, !.echo = ~silent,
                  !.frame = IF silent THEN Prompted(f, prompt) ELSE f]

ReadKey(t, key, prompt) ==
    LET f == t.frame
    IN  CASE key = "Enter" -> Entered(t, prompt)
          [] key \in Letters /\ t.echo -> [t EXCEPT !.frame = Echoed(f, key)]
          [] key = "Backspace" /\ t.echo -> [t EXCEPT !.frame = Erased(f)]
          [] key = "Left" /\ t.echo /\ f.col > 0 -> [t EXCEPT !.frame.col = @ - 1]
          [] key = "Right" /\ t.echo /\ f.col < f.cols - 1 -> [t EXCEPT !.frame.col = @ + 1]
          [] OTHER -> t

ReadKeys(t, keys, prompt) ==
    LET read[i \in 0..Len(keys)] ==
            IF i = 0 THEN t ELSE ReadKey(read[i - 1], keys[i], prompt)
    IN  read[Len(keys)]

ReadMessage ==
    /\ unread # <<>>
    /\ \E prompt \in bound.prompts : term' = ReadKeys(term, Head(unread), prompt)
    /\ unread' = Tail(unread)
    /\ UNCHANGED <<pr, seq, confirmed, shared, checkpoint, now, since, bound>>

\* Output of its own, anywhere.
PrintOut(ch) ==
    /\ bound.program = "any" /\ term.output < bound.output
    /\ \E col \in Columns(term.frame) :
           term' = [term EXCEPT !.output = @ + 1, !.frame = Put(term.frame, col, ch)]
    /\ UNCHANGED <<pr, seq, confirmed, shared, unread, checkpoint, now, since, bound>>

\* The terminal gets another size.
Resize(r, c) ==
    /\ <<r, c>> \in bound.sizes /\ <<r, c>> # <<term.frame.rows, term.frame.cols>>
    /\ term.output < bound.output
    /\ term' = [term EXCEPT !.output = @ + 1, !.frame = BlankFrame(r, c)]
    /\ UNCHANGED <<pr, seq, confirmed, shared, unread, checkpoint, now, since, bound>>

\* The owner's checkpoint: written to the program and settled, which an
\* "any" program may take without having read it.
Checkpoint ==
    /\ checkpoint < IF bound.program = "any" THEN seq ELSE seq - Len(unread)
    /\ checkpoint' = checkpoint + 1
    /\ UNCHANGED <<pr, seq, confirmed, shared, term, unread, now, since, bound>>

Next ==
    \/ \E keys \in bound.messages : Type(keys) \/ Paste(keys)
    \/ \E context \in bound.contexts : ReceiveSharedScreen(context)
    \/ \E ch \in Letters : PrintOut(ch)
    \/ \E r, c \in 1..4 : Resize(r, c)
    \/ TransportLoss \/ ReceiveScreen \/ Tick \/ Pong \/ ReadMessage \/ Checkpoint

Spec == Init /\ [][Next]_vars

-----------------------------------------------------------------------------
(* Properties.                                                             *)

\* The guesses that wait to be judged.
Waiting ==
    (UNION {{pr.overlays[i].cells[k] : k \in DOMAIN pr.overlays[i].cells} :
                i \in DOMAIN pr.overlays}) \ {Inactive}
AllGuesses == {g.exp : g \in Waiting} \cup {c.exp : c \in Range(pr.cursors)}

\* Every guess, the cursor's included, rests on what is still so: none is left
\* once the screen reflects the message it came from, whatever the program
\* prints and whatever is lost; none from before a transport loss, a bulk
\* paste or a change of the shared context; and none waits for a screen that
\* no input of the client can bring about (cull, reset, feed_predict).
JudgedInTime ==
    /\ \A n \in AllGuesses : confirmed.ack < n /\ since < n
    /\ \A g \in Waiting : g.exp <= seq

\* What the terminal will show once the program has read all that was typed.
Outcome ==
    ReadKeys(term, FlattenSeq(unread), ":").frame

\* A program that does what the predictor assumes (it inserts or overwrites
\* and moves within the line) makes every guess that is shown come true: the
\* cells shown are those of the terminal after all that was typed
\* (predict_char, backspace, apply).
GuessesComeTrue ==
    (bound.program = "editor" /\ Displays(pr)) =>
        \A r \in RowNumbers(confirmed.frame), k \in Columns(confirmed.frame) :
            Shown(pr, r, k) => Display.cell[r][k] = Outcome.cell[r][k]

\* At a login where nothing looks like the password, it is not drawn: where a
\* line typed after Enter is read with the echo off, none of its characters
\* appears on the display unless the terminal itself shows it there (the
\* epochs of become_tentative).  The condition is needed: see
\* PasswordNeverDrawn.
UnmistakablePasswordHidden ==
    Unmistakable(bound) =>
        \A r \in RowNumbers(confirmed.frame), k \in Columns(confirmed.frame) :
            Display.cell[r][k] = Secret => confirmed.frame.cell[r][k] = Secret

\* A guess that is shown is withdrawn by a screen, a paste or a loss, never
\* by time or by a link that became fast (cull's triggers).
ShownUntilJudged ==
    [][(now' # now \/ pr'.interval # pr.interval) =>
          \A r \in RowNumbers(confirmed.frame), k \in Columns(confirmed.frame) :
              (Displays(pr) /\ Shown(pr, r, k)) => (Displays(pr)' /\ Shown(pr, r, k)')]_vars

-----------------------------------------------------------------------------
(* What the documentation says and the code does not quite do.             *)

\* A password typed ahead of its prompt is never drawn, as nothing in the
\* epoch that Enter began is ever confirmed (docs/12-prediction.md, line
\* 123; lib.rs, line 21).  A guess is confirmed by any screen that has its
\* glyph in its place, a prompt as well as an echo (Correct in cull); and on a
\* last row with a link Enter leaves the guesses where they are, so that those
\* of the password come to lie in the row of the next line
\* (newline_carriage_return).
PasswordNeverDrawn ==
    bound.program = "login" =>
        \A r \in RowNumbers(confirmed.frame), k \in Columns(confirmed.frame) :
            Display.cell[r][k] = Secret => confirmed.frame.cell[r][k] = Secret

=============================================================================
