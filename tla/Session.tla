------------------------------- MODULE Session -------------------------------
(***************************************************************************)
(* One terminal session of quosh-server (session.rs): the owner task that  *)
(* holds the PTY, the fields of the shared `Session` through which any     *)
(* transport handler talks to it, and, as environment, the kernel's PTY    *)
(* buffers and the shell.                                                  *)
(*                                                                         *)
(* The owner is a `select!` loop.  Each arm is one action, followed by the *)
(* check at the top of the loop (no await lies between them).              *)
(***************************************************************************)
EXTENDS PendingWrites, SessionApi

CONSTANTS DrainReads,   \* reads drain_pty makes at most
          TtyIn,        \* capacity of the kernel's PTY input queue, bytes
          TtyOut,       \* capacity of its output queue, reads' worth
          MaxGen,       \* most reply bytes one read can generate
          MaxOutput     \* bound: reads' worth of output the shell writes

ASSUME SessionAssumption ==
    /\ MaxInput <= HardMax - MaxPending     \* one message always fits
    /\ Generated \notin Data
    /\ DrainReads \in Nat /\ MaxGen \in Nat /\ MaxOutput \in Nat
    /\ TtyIn \in Nat \ {0} /\ TtyOut \in Nat \ {0}

VARIABLES
    ownerPc,    \* where the owner task is
    cause,      \* which break ended the loop
    childDone,  \* child_done: status collected so far, or NoExit
    pending,    \* PendingWrites
    history,    \* input sequences fully written, not yet echo checkpoints
    settled,    \* how many of those are older than ECHO_TIMEOUT
    echoAck,    \* the echo checkpoint
    version,    \* screen versions handed out
    frame,      \* emulator: reads' worth of output its grid shows
    held,       \* emulator: output held back by a synchronized update
    syncing,    \* emulator: a synchronized update is open
    shell,      \* Alive, or the status it exited with
    ttyOpen,    \* some process still holds the slave side
    inQ,        \* bytes in the kernel input queue
    outQ,       \* reads' worth in the kernel output queue
    owed,       \* output the shell must write before it reads again
    produced,   \* output the shell has committed to, ever
    wroteLog    \* history: payloads completely written to the PTY, in order

emulator == <<frame, held, syncing>>
echo == <<history, settled, echoAck>>
tty == <<shell, ttyOpen, inQ, outQ, owed, produced>>
owner == <<ownerPc, cause, childDone, pending, version, wroteLog>>
vars == <<shared, owner, echo, emulator, tty>>

\* The shared fields apart from the screen, which publish sets.
notScreen == <<cmds, closed, shutdown, accepted, lastAcked, exit, size, registered, accLog>>

Alive == -1

Pcs == {"start", "select", "reap", "term", "kill", "drain", "final", "unreg", "gone"}
Causes == {"none", "hangup", "child", "io", "generated", "input"}

Init ==
    /\ ApiInit
    /\ ownerPc = "start" /\ cause = "none" /\ childDone = NoExit
    /\ pending = EmptyPending
    /\ history = <<>> /\ settled = 0 /\ echoAck = 0 /\ version = 0
    /\ frame = 0 /\ held = 0 /\ syncing = FALSE
    /\ shell = Alive /\ ttyOpen = TRUE
    /\ inQ = 0 /\ outQ = 0 /\ owed = 0 /\ produced = 0
    /\ wroteLog = <<>>
-----------------------------------------------------------------------------
(* The owner task.                                                         *)

Goto(pc) == ownerPc' = pc /\ UNCHANGED cause
Break(why) == ownerPc' = "reap" /\ cause' = why
LoopTop == IF shutdown THEN Break("hangup") ELSE Goto("select")

\* Mutant: the accepted sequence goes out as the checkpoint.
publish_accepted(echoAck2, frame2, size2) ==
    /\ version' = version + 1
    /\ latest' = [version |-> version + 1, echoAck |-> accepted,
                  frame |-> frame2, size |-> size2]

publish(echoAck2, frame2, size2) ==
    /\ version' = version + 1
    /\ latest' = [version |-> version + 1, echoAck |-> echoAck2,
                  frame |-> frame2, size |-> size2]

\* The registry entry goes; the receiver is dropped and with it the queue.
Drop == registered' = FALSE /\ closed' = TRUE /\ cmds' = <<>>

\* AsyncFd::new may fail: the entry goes, and no exit status is published.
OwnerStart ==
    /\ ownerPc = "start"
    /\ \/ LoopTop /\ UNCHANGED <<cmds, closed, registered>>
       \/ Goto("gone") /\ Drop
    /\ UNCHANGED <<shutdown, accepted, lastAcked, latest, exit, size, accLog>>
    /\ UNCHANGED <<childDone, pending, version, wroteLog, echo, emulator, tty>>

OnHangup ==
    /\ ownerPc = "select" /\ shutdown
    /\ Break("hangup")
    /\ UNCHANGED <<shared, childDone, pending, version, wroteLog, echo, emulator, tty>>

OnChildExit ==
    /\ ownerPc = "select" /\ shell # Alive
    /\ childDone' = shell
    /\ ownerPc' = "drain" /\ cause' = "child"
    /\ UNCHANGED <<shared, pending, version, wroteLog, echo, emulator, tty>>

\* Reading (once the queue is empty) or writing a PTY whose slave side is
\* closed fails.
OnPtyError ==
    /\ ownerPc = "select" /\ ~ttyOpen
    /\ outQ = 0 \/ pending.unread > 0
    /\ Break("io")
    /\ UNCHANGED <<shared, childDone, pending, version, wroteLog, echo, emulator, tty>>

\* driver.process on one read's worth: plain output shows at once unless a
\* synchronized update is open; the update's end shows all it held back.
Process(kind) ==
    /\ syncing' = (kind = "begin" \/ (kind = "plain" /\ syncing))
    /\ IF syncing' THEN frame' = frame /\ held' = held + 1
                   ELSE frame' = frame + held + 1 /\ held' = 0

ReadPty ==
    /\ outQ' = outQ - 1
    /\ \E kind \in {"plain", "begin", "end"}, g \in 0..MaxGen :
          /\ Process(kind)
          /\ IF Fits(pending, g)
             THEN /\ pending' = push_generated(pending, g)
                  /\ publish(echoAck, frame', size)
                  /\ LoopTop
             ELSE Break("generated") /\ UNCHANGED <<pending, version, latest>>
    /\ UNCHANGED <<notScreen, childDone, wroteLog, echo, shell, ttyOpen, inQ, owed, produced>>

\* Mutant: a full write queue pauses the reads as well.
OnReadable_paused ==
    ownerPc = "select" /\ outQ > 0 /\ pending.unread < MaxPending /\ ReadPty

OnReadable == ownerPc = "select" /\ outQ > 0 /\ ReadPty

\* The kernel takes n of the bytes offered; with no room it would block and
\* the arm does nothing.
OnWritable ==
    /\ ownerPc = "select" /\ pending.unread > 0 /\ ttyOpen
    /\ \E n \in 1..WriteLen(pending) :
          LET front == Head(pending.chunks)
              done  == CompletesFront(pending, n) /\ front.seq # NoSeq
          IN  /\ inQ + n <= TtyIn
              /\ inQ' = inQ + n
              /\ pending' = advance(pending, n)
              /\ history' = IF done THEN Append(history, front.seq) ELSE history
              /\ wroteLog' = IF done THEN Append(wroteLog, front.data) ELSE wroteLog
    /\ LoopTop
    /\ UNCHANGED <<shared, childDone, settled, echoAck, version, emulator>>
    /\ UNCHANGED <<shell, ttyOpen, outQ, owed, produced>>

\* Mutant: commands are never paused.
AcceptMore_always == TRUE

AcceptMore == pending.unread < MaxPending

\* Mutant: a gap in the sequence is let through.
InSequence_gap(m) == m.seq > accepted

InSequence(m) == m.seq = accepted + 1

OnInput(m) ==
    /\ IF ~InSequence(m) THEN LoopTop /\ UNCHANGED <<pending, accepted, accLog>>
       ELSE IF Fits(pending, DataLen[m.data])
       THEN /\ pending' = push_input(pending, m.seq, m.data, DataLen[m.data])
            /\ accepted' = m.seq
            /\ accLog' = Append(accLog, m.data)
            /\ LoopTop
       ELSE Break("input") /\ UNCHANGED <<pending, accepted, accLog>>
    /\ UNCHANGED <<lastAcked, latest, size, version>>

OnResize(m) ==
    /\ size' = m.size
    /\ publish(echoAck, frame, m.size)
    /\ LoopTop
    /\ UNCHANGED <<lastAcked, pending, accepted, accLog>>

OnAck(m) ==
    /\ lastAcked' = AckMax(m.version)
    /\ LoopTop
    /\ UNCHANGED <<latest, size, version, pending, accepted, accLog>>

OnCommand ==
    /\ ownerPc = "select" /\ AcceptMore /\ cmds # <<>>
    /\ LET m == Head(cmds)
       IN  \/ m.op = "Input" /\ OnInput(m)
           \/ m.op = "Resize" /\ OnResize(m)
           \/ m.op = "Ack" /\ OnAck(m)
    /\ cmds' = Tail(cmds)
    /\ UNCHANGED <<closed, shutdown, exit, registered, childDone, wroteLog, echo, emulator, tty>>

\* Mutant: the update is closed without showing what it held.
flush_sync_drops == syncing' = FALSE /\ UNCHANGED <<frame, held>>

flush_sync == syncing' = FALSE /\ frame' = frame + held /\ held' = 0

\* The deadline of an open synchronized update passes.
OnSyncDeadline ==
    /\ ownerPc = "select" /\ syncing
    /\ flush_sync
    /\ \E g \in 0..MaxGen :
          IF Fits(pending, g)
          THEN /\ pending' = push_generated(pending, g)
               /\ publish(echoAck, frame', size)
               /\ LoopTop
          ELSE Break("generated") /\ UNCHANGED <<pending, version, latest>>
    /\ UNCHANGED <<notScreen, childDone, wroteLog, echo, tty>>

\* Every settled entry leaves, the newest is the checkpoint.
advance_echo_ack ==
    /\ echoAck' = history[settled]
    /\ history' = SubSeq(history, settled + 1, Len(history))
    /\ settled' = 0

\* Mutant: the moved checkpoint waits for the next output.
OnEchoTimer_quiet ==
    /\ ownerPc = "select" /\ settled > 0
    /\ advance_echo_ack
    /\ LoopTop
    /\ UNCHANGED <<shared, childDone, pending, version, wroteLog, emulator, tty>>

\* The echo timer: the same frame goes out with the new checkpoint.
OnEchoTimer ==
    /\ ownerPc = "select" /\ settled > 0
    /\ advance_echo_ack
    /\ publish(echoAck', frame, size)
    /\ LoopTop
    /\ UNCHANGED <<notScreen, childDone, pending, wroteLog, emulator, tty>>
-----------------------------------------------------------------------------
(* The end: reap the child, show what it still wrote, publish, unregister. *)

\* Leaving reap_child with a status, or giving up on it with 1.
Reaped(status) ==
    /\ childDone' = status
    /\ ownerPc' = "drain"

\* Mutant: no second timeout, the owner waits for the killed child.
reap_child_waits ==
    /\ \/ ownerPc = "reap" /\ ownerPc' = "term" /\ UNCHANGED childDone
       \/ ownerPc \in {"term", "kill"} /\ shell # Alive /\ Reaped(shell)
       \/ ownerPc = "term" /\ ownerPc' = "kill" /\ UNCHANGED childDone
    /\ UNCHANGED <<shared, cause, pending, version, wroteLog, echo, emulator, tty>>

reap_child ==
    /\ \/ ownerPc = "reap" /\ ownerPc' = "term" /\ UNCHANGED childDone    \* SIGTERM
       \/ ownerPc \in {"term", "kill"} /\ shell # Alive /\ Reaped(shell)
       \/ ownerPc = "term" /\ ownerPc' = "kill" /\ UNCHANGED childDone    \* SIGKILL
       \/ ownerPc = "kill" /\ Reaped(1)
    /\ UNCHANGED <<shared, cause, pending, version, wroteLog, echo, emulator, tty>>

\* drain_pty makes up to DrainReads reads, and stops early when the replies
\* to one no longer fit; then the final screen goes out.
DrainStops(n, g) ==
    \/ n \in {outQ, DrainReads} /\ g <= n * MaxGen
    \/ n > 0 /\ g <= (n - 1) * MaxGen /\ ~Fits(pending, g + MaxGen)

\* What n reads can leave of a synchronized update: open or not, and how
\* much is held back.
Holds(n) == {<<FALSE, 0>>} \cup ({TRUE} \X (1..n))
            \cup (IF syncing THEN {<<TRUE, held + n>>} ELSE {})

\* Mutant: the final screen is published before the PTY is drained.
drain_pty_last ==
    /\ ownerPc = "drain"
    /\ \E n \in 0..outQ, g \in 0..(MaxGen * DrainReads) :
          /\ n <= DrainReads /\ Fits(pending, g) /\ DrainStops(n, g)
          /\ outQ' = outQ - n
          /\ pending' = push_generated(pending, g)
          /\ \E h \in (IF n = 0 THEN {<<syncing, held>>} ELSE Holds(n)) :
                /\ syncing' = h[1] /\ held' = h[2]
                /\ frame' = frame + held + n - h[2]
    /\ publish(echoAck, frame, size)
    /\ Goto("final")
    /\ UNCHANGED <<notScreen, childDone, wroteLog, echo, shell, ttyOpen, inQ, owed, produced>>

drain_pty ==
    /\ ownerPc = "drain"
    /\ \E n \in 0..outQ, g \in 0..(MaxGen * DrainReads) :
          /\ n <= DrainReads /\ Fits(pending, g) /\ DrainStops(n, g)
          /\ outQ' = outQ - n
          /\ pending' = push_generated(pending, g)
          /\ \E h \in (IF n = 0 THEN {<<syncing, held>>} ELSE Holds(n)) :
                /\ syncing' = h[1] /\ held' = h[2]
                /\ frame' = frame + held + n - h[2]
    /\ publish(echoAck, frame', size)
    /\ Goto("final")
    /\ UNCHANGED <<notScreen, childDone, wroteLog, echo, shell, ttyOpen, inQ, owed, produced>>

\* Mutant: the status goes out before the PTY is drained.
PublishExit_first ==
    /\ ownerPc = "drain" /\ exit = NoExit
    /\ exit' = childDone
    /\ UNCHANGED <<cmds, closed, shutdown, accepted, lastAcked, latest, size, registered, accLog>>
    /\ UNCHANGED <<owner, echo, emulator, tty>>

PublishExit ==
    /\ ownerPc = "final"
    /\ exit' = childDone
    /\ Goto("unreg")
    /\ UNCHANGED <<cmds, closed, shutdown, accepted, lastAcked, latest, size, registered, accLog>>
    /\ UNCHANGED <<childDone, pending, version, wroteLog, echo, emulator, tty>>

Unregister ==
    /\ ownerPc = "unreg"
    /\ Drop
    /\ Goto("gone")
    /\ UNCHANGED <<shutdown, accepted, lastAcked, latest, exit, size, accLog>>
    /\ UNCHANGED <<childDone, pending, version, wroteLog, echo, emulator, tty>>
-----------------------------------------------------------------------------
(* Environment: handlers, time, kernel and shell.                          *)

Call == Handler /\ UNCHANGED <<owner, echo, emulator, tty>>

notTty == <<shared, owner, emulator>>

\* ECHO_TIMEOUT passes for one more written input.
Elapse ==
    /\ settled < Len(history)
    /\ settled' = settled + 1
    /\ UNCHANGED <<notTty, history, echoAck, tty>>

\* A program that answers what it reads, and writes the answer (blocking
\* while the output queue is full) before it reads again.
ShellRead ==
    /\ shell = Alive /\ ttyOpen /\ inQ > 0 /\ owed = 0
    /\ inQ' = inQ - 1
    /\ owed' \in IF produced < MaxOutput THEN {0, 1} ELSE {0}
    /\ produced' = produced + owed'
    /\ UNCHANGED <<notTty, echo, shell, ttyOpen, outQ>>

ShellWrite ==
    /\ ttyOpen /\ outQ < TtyOut
    /\ \/ owed > 0 /\ owed' = owed - 1 /\ UNCHANGED produced
       \/ produced < MaxOutput /\ produced' = produced + 1 /\ UNCHANGED owed
    /\ outQ' = outQ + 1
    /\ UNCHANGED <<notTty, echo, shell, ttyOpen, inQ>>

ShellExit ==
    /\ shell = Alive
    /\ shell' \in Codes
    /\ UNCHANGED <<notTty, echo, ttyOpen, inQ, outQ, owed, produced>>

TtyClose ==
    /\ ttyOpen
    /\ ttyOpen' = FALSE
    /\ UNCHANGED <<notTty, echo, shell, inQ, outQ, owed, produced>>

Owner == \/ OwnerStart \/ OnHangup \/ OnChildExit \/ OnPtyError \/ OnReadable
         \/ OnWritable \/ OnCommand \/ OnSyncDeadline \/ OnEchoTimer
         \/ reap_child \/ drain_pty \/ PublishExit \/ Unregister

Next == Owner \/ Call \/ Elapse \/ ShellRead \/ ShellWrite \/ ShellExit \/ TtyClose

Spec == Init /\ [][Next]_vars

\* `select!` polls its ready arms in random order, so none stays ready for
\* ever; time passes; the shell keeps reading and writing.
Fairness ==
    /\ WF_vars(OwnerStart) /\ WF_vars(OnHangup) /\ WF_vars(OnChildExit)
    /\ WF_vars(OnPtyError) /\ WF_vars(OnReadable) /\ WF_vars(OnWritable)
    /\ WF_vars(OnCommand) /\ WF_vars(OnSyncDeadline) /\ WF_vars(OnEchoTimer)
    /\ WF_vars(reap_child) /\ WF_vars(drain_pty) /\ WF_vars(PublishExit)
    /\ WF_vars(Unregister) /\ WF_vars(Elapse)
    /\ WF_vars(ShellRead) /\ WF_vars(ShellWrite)

FairSpec == Spec /\ Fairness
-----------------------------------------------------------------------------
(* Properties.                                                             *)

ChunkType == [seq : Nat, data : Data \cup {Generated}, len : Nat, off : Nat]
PendingType == [chunks : Seq(ChunkType), unread : Nat]
ScreenType == [version : Nat, echoAck : Nat, frame : Nat, size : ValidSizes \cup {"none"}]

\* Every variable of the owner and of the shared Session has its type.
TypeOK ==
    /\ cmds \in Seq(OwnerMsg)
    /\ closed \in BOOLEAN /\ shutdown \in BOOLEAN /\ registered \in BOOLEAN
    /\ accepted \in Nat /\ lastAcked \in Nat
    /\ latest \in ScreenType
    /\ exit \in Codes \cup {NoExit} /\ childDone \in Codes \cup {NoExit}
    /\ size \in ValidSizes
    /\ ownerPc \in Pcs /\ cause \in Causes
    /\ pending \in PendingType
    /\ history \in Seq(Nat) /\ settled \in 0..Len(history)
    /\ echoAck \in Nat /\ version \in Nat
    /\ frame \in Nat /\ held \in Nat /\ syncing \in BOOLEAN
    /\ shell \in Codes \cup {Alive} /\ ttyOpen \in BOOLEAN
    /\ inQ \in Nat /\ outQ \in Nat /\ owed \in Nat /\ produced \in Nat
    /\ accLog \in Seq(Data) /\ wroteLog \in Seq(Data)

\* Nothing accepted is lost, repeated or reordered on its way to the PTY:
\* what is written is a prefix of what was accepted, and the inputs still
\* queued are exactly the rest of it, oldest first (Owner::run,
\* PendingWrites).
InOrder ==
    LET c == pending.chunks
        w == Len(wroteLog)
    IN  /\ accepted = Len(accLog)
        /\ w <= accepted
        /\ \A i \in 1..w : wroteLog[i] = accLog[i]
        /\ \A i \in DOMAIN c : c[i].seq # NoSeq =>
              c[i].seq \in (w + 1)..accepted /\ c[i].data = accLog[c[i].seq]
        /\ \A i, j \in DOMAIN c : (i < j /\ c[j].seq # NoSeq) => c[i].seq < c[j].seq
        /\ \A s \in (w + 1)..accepted : \E i \in DOMAIN c : c[i].seq = s

\* No published screen carries an echo_ack for input that is not completely
\* written to the PTY: a half-written message, or a generated reply, never
\* completes a sequence (advance, advance_echo_ack, publish).
EchoAckSound == latest.echoAck <= Len(wroteLog)

\* The invariant behind it: the entries waiting to settle are exactly the
\* written sequences beyond the checkpoint, in order.
EchoHistory ==
    /\ latest.echoAck <= echoAck
    /\ echoAck + Len(history) = Len(wroteLog)
    /\ \A i \in DOMAIN history : history[i] = echoAck + i

\* The write budget: `unread` never passes the hard cap.
Budget == pending.unread <= HardMax

\* Whenever the write arm is enabled (unread > 0) write_buf has bytes: a
\* zero-length write would read as a dead PTY and end the session.  And
\* `unread` covers the front chunk, so taking off what was written never
\* underflows.
WriteBufNonEmpty ==
    /\ pending.unread > 0 => WriteLen(pending) > 0
    /\ WriteLen(pending) <= pending.unread

\* Client input can not overrun the budget: pausing commands at MAX_PENDING
\* leaves room for one message of any legal size.
InputNeverKills == cause # "input"

\* A client may take the newest screen as final once it sees an exit status:
\* the status is only there after the screen with all output drained and
\* the last checkpoint is published.
ExitAfterFinalScreen ==
    exit # NoExit => /\ latest.version = version /\ latest.frame = frame
                     /\ latest.echoAck = echoAck
                     /\ cause = "child" => exit = shell

\* Once an exit status is published nothing a client relies on moves: no
\* other status, no newer screen, no more input accepted.
ExitIsLast == [][exit # NoExit => UNCHANGED <<exit, latest, accepted, wroteLog>>]_vars

\* Last-state-wins is sound: a screen with a higher version never shows less
\* output nor an older checkpoint, and no two screens share a version.
ScreensGrow ==
    [][latest' # latest => /\ latest'.version > latest.version
                           /\ latest'.echoAck >= latest.echoAck
                           /\ latest'.frame >= latest.frame]_vars

\* Liveness: what may be behind but not for ever (P ~> ~P is []<>~P).

Running == ownerPc = "select"

\* A hangup request or the shell's exit ends the session: the registry entry
\* goes, and unless the owner could not even start an exit status is there.
EndsWhenTold ==
    []<>(shutdown \/ shell # Alive => ~registered /\ (cause = "none" \/ exit # NoExit))

\* Accepted input reaches the PTY as long as the owner runs and the program
\* makes progress, even one that writes its output before it reads on.
AcceptedIsWritten == []<>(Running => Len(wroteLog) = accepted)

\* Written input becomes an echo checkpoint some screen carries, also on a
\* quiet link.
WrittenIsCheckpointed == []<>(Running => latest.echoAck = Len(wroteLog))

\* Output held back by a synchronized update that never ends is shown.
HeldIsShown == []<>(Running => held = 0)

\* The owner keeps the promises of the abstract specification: commands are
\* taken in order, the next input in sequence is always accepted, screens
\* only get newer and never carry a checkpoint beyond the accepted input,
\* and after the exit status nothing but the closing happens.
ImplementsApi == ApiSpec
=============================================================================
