# A TLA+ model of quosh

quosh is a remote terminal: a server daemon keeps shells on PTYs, a client
(command line or browser) shows their screens and sends what the user types,
over WebTransport connections that come and go.  This directory holds a model
of it in TLA+, the TLC runs that check it on small instances, and TLAPS
proofs of what its parts promise for every value of the constants.

`PROJECT.json` is the index: components, runs, mutants (a plausible bug for
every checked property, which the run must find), the map from definitions to
source lines, findings, hazards and theorems.

## The system

| Component | Source | State | Operations | Hard part |
|---|---|---|---|---|
| Session owner | `quosh-server/src/session.rs` | pending PTY writes, echo history, emulator, version, child | one `select!` loop: hangup, child exit, read, write, command, sync deadline, echo timer; then reap, drain, publish, unregister | partial writes between replies, a program that writes before it reads, the order at the end |
| Shared session | `Session` in the same file | command queue, accepted sequence, newest screen, confirmed version, exit status, epoch | `try_input`, `try_resize`, `try_ack`, `request_hangup`, `claim_transport`, `detach_if_epoch` | many handlers and one owner on different threads |
| Transport handler | `quosh-server/src/transport.rs` | unread frames, input backlog, wanted size and acknowledgement, outbound feed, seen watch values | attach, one `select!` loop, detach | replacement by a newer connection, full queues, lost datagrams, exit while attaching |
| Outbound feed | `FrameFeed` in `quosh-proto/src/lib.rs` | frame in flight, control frames, one screen, final frame | push, pump, advance | priorities, byte budget, nothing left waiting |
| Client | `quosh-client/src/lib.rs` | unacknowledged input, sent and pending sequence numbers, confirmed screen | pump, receive, type, resize, hang up, tick | sending again after a reconnection |
| Command line loops | `quosh-cli/src/main.rs` | connection, failure count | connect, `session_loop`, quit | quitting or failing at any moment |
| Registry and helper | `quosh-server/src/helper.rs`, `main.rs` | map of sessions, limits | create, kill_idle, lookup, destroy at shutdown | two holds of one lock; owners that end meanwhile |
| Devices, nonces, authentication | `devices.rs`, `enroll.rs`, `auth.rs` | registrations, tokens, nonces, in memory and on disk | enrol, assert, rotate, revoke | revocation during a handshake, failing writes, restarts |
| Certificate chain | `quosh-trust/src/lib.rs` | identity key, anchor, one certificate per epoch, in memory and on disk | load, serve, forward_hashes, prune | pinned clients over rotations, restarts and a clock that steps back |
| Predictor | `quosh-predict/src/lib.rs`, its use in `quosh-client` | predicted cells and cursors, epochs, triggers | key, cull, apply, reset | screens that confirm the wrong prediction, passwords |

Handlers call the shared session; the owner takes their commands from a
bounded queue and answers through watches (newest screen, accepted sequence,
exit status, epoch).  A watch announces a change once and only the newest
value; a new receiver has seen the current one.  Client and handler exchange
length-prefixed frames on one bidirectional stream, and screens in datagrams.
A client that reconnects sends all input that was not acknowledged again; the
owner accepts only the next sequence number.  A browser proves who its user is
in front of that, by a token or a passkey, and learns which certificates the
server will show in the epochs to come.

## Modules

| Module | Models | Used by |
|---|---|---|
| `Protocol` | payloads, sizes, frames of the control stream by their meaning | all below |
| `PendingWrites` | `struct PendingWrites` | `Session` |
| `SessionApi` | the shared `Session` and, as `ApiSpec`, what a handler may rely on of the owner | `Session` (refines it), `Transport` (built on it) |
| `Session` | the owner task, with PTY and shell as environment | `MCSession`, `SessionProofs` |
| `FrameFeed`, `FeedStream` | the feed's operations; a writer that uses it in any order | `Transport`, `Client`; `MCClient` |
| `Transport` | `handle_incoming` and `run_transport`, for several handlers of one session | `Server`, `Quosh` |
| `Server` | handlers against arbitrary peers, owner by `ApiSpec` | `MCServer` |
| `Client` | `struct Client` and the loops of the command line | `Quosh` |
| `Quosh` | client, handlers, owner by `ApiSpec`, and a network | `MCQuosh` |
| `Predictor` | `struct Predictor`: a record and one operator per method | `Prediction` |
| `Prediction` | the client's use of the predictor, with user, program and screens as environment | `MCPrediction`, `MCClient`, `PredictionProofs` |
| `CertChain` | the certificate chain, its files, and the clients that pin it | `MCCertChain` |
| `Devices` | the device store and the enrolment nonces | `Daemon` |
| `Registry` | the registry of sessions, its limits, claims and detachments | `Daemon` |
| `Daemon` | handshakes, attaching transports, the helper's operations, shutdown and crashes on one store and one registry | `MCDaemon` |
| `Access` | abstract: grants that are usable or in doubt, invitations, and whom a handler has proven | refined by `Daemon` |
| `SessionProofs`, `FeedProofs`, `CertProofs`, `DaemonProofs`, `PredictionProofs` | theorems about the modules they extend | |
| `TransportProofs` | lemmas: what each step of a handler does | `ServerProofs`, `QuoshProofs` |
| `ServerProofs`, `QuoshProofs` | theorems about `Server` and `Quosh` | |

How state and actions correspond to the code:

* **Owner.**  One action per arm of the `select!`, together with the check at
  the top of the loop (there is no await between them).  `cause` records which
  `break` ended the loop.  A chunk of pending writes is its sequence number,
  its length and how much of it is written.  The emulator is reduced to how
  many reads' worth of output its grid shows (`frame`), how much a
  synchronized update holds back (`held`) and whether one is open; a read may
  generate up to `MaxGen` reply bytes.  `drain_pty`, which does not await, is
  one step.  The kernel's queues are bounded byte counters, and the shell is a
  program that answers some of what it reads and writes the answer before it
  reads on.  `accLog` and `wroteLog` are history variables.
* **Handlers.**  Handlers and owner run on different threads, so an action
  makes at most one access to the shared session: the epoch is read in one
  step (`NextFrame`, `CheckEpoch`, `detach_if_epoch`) and used in the next
  (`on_control`, `MarkDetached`), and `claim_transport` is three steps.  `pc`
  names the place in the loop; a place with nothing to do is passed over.
* **Feed.**  `FeedStream` checks the feed with partial writes; in `Transport`
  and `Client` a write takes the whole frame in flight.
* **Client.**  One action per arm of `session_loop` with the tick at its top.
  Whether a ping is due, and whether the link counts as dead, is a
  nondeterministic choice.  Between two connections the feed is emptied at
  once, as nobody reads it and `begin_connection` replaces it.
* **Network.**  A stream delivers in order what was written while its path
  lived; towards the server maybe long after the client gave up on it; datagrams are lost or
  reordered; a path dies at any moment.  Frames on their way to someone who is
  gone are dropped.
* **Predictor.**  A frame is a grid of one-glyph cells with a cursor; text in
  the overflow table and links are glyphs of their own, as they are what
  `unsupported_range` looks for.  A message is a short sequence of keys, fed to
  `new_user_byte` one by one against the display it was typed at.  Transport
  and owner are reduced to what `Quosh` and `Session` establish: messages reach
  the program once and in order, screens are ever newer, and the echo
  checkpoint is covered by what was written.  Three programs: an editor that
  does what the predictor assumes, a login that reads every second line with
  its echo off, and one that prints, resizes and swallows what it likes.
  One glyph stands for every character of a password.  `EndsLines` and
  `Sensible` say what is taken for granted of the user of a login, who ends a
  line by a message of its own, types a password where one is asked for and
  nothing with its glyph elsewhere, and does not correct it.  `Unmistakable` is
  no assumption but the condition of one property: a login whose prompts and
  first screen have neither the password's glyph nor a link.
  `Retain` is `Vec::retain`, as a recursive function that proofs can unfold.
* **Certificates.**  A certificate is its epoch, validity, key and the number
  of its signature, since signing again makes another certificate.  A start
  may fail or be cut off after any of its writes.  The loops of `load` and of
  `forward_hashes` go one entry a step, as each takes the lock for itself: a
  loop is a record of the epoch it began with, the next one, and what it got.
  The clock moves forward by any amount or falls back by at most `MaxLag`,
  which is at most an epoch: that is what `prune` keeps the previous
  certificate for.  While a loop is under way the clock does not get beyond the
  epoch after the one it began with: both are synchronous calls that wait for
  nothing but a few small files, and a jump by more than an epoch in the middle
  of one could prune a file the loop is about to read again.
* **Daemon.**  A handler's step is what it does under one hold of a lock:
  validate, drop and issue are three.  A write happens or fails, and only then
  is something reported; `dropped`, `barred` and `root` are history variables.
  Sessions are reduced to user, owner, hangup, epoch and `last_detach`.  What
  the environment may still do is counted in `left`.  `revoke` finds the
  credential (`resolve_credential`) and revokes it under two holds of the
  store's lock, which are one step here (`RevokeCredential`): what another
  helper revokes in between only leaves this one less to do.

## Runs

Bounds are the smallest at which the queues involved run full and the
interesting races happen: two connections (a handler and its successor; a
third adds no new pair of places), a command queue of one, feeds with room for
one control frame besides the one in flight (two in `quosh_live`, as
`set_size` does not try again), a backlog cap of one record.  In
`session` payloads differ in length and a command is taken with a byte still
unread, so that inputs wait together and behind replies; in `quosh` there are
two payloads that differ in nothing but which is which; `server_races` has an
empty one, which is refused, and elsewhere one is enough.
What the environment of handlers and clients does is bounded by the variable
`bound`, which is chosen from the set `Bounds` in the initial state and never
changes: a run explores a few environments one after the other (typing while a
connection dies; screens while one dies; ...), as all of them at once are out
of reach.  The MC modules list them.  Handlers are interchangeable: `server_races` uses
symmetry, and `Quosh` opens unused connections in a fixed order; `quosh` uses
the symmetry of its payloads.  `client` explores two machines one after the
other, the predictor and a writer with its feed, which share nothing
(`MCClient`).  Deadlock checking is off where the model
stops on purpose (connections used up, the session over).

| Run | Environments | Checks |
|---|---|---|
| `session` | two input messages of different lengths that wait together, replies queued behind and in front of input, one read, a resize | `InOrder`, `EchoAckSound`, `InputNeverKills`, `WriteBufNonEmpty`, `ExitIsLast`, refinement of `ApiSpec` |
| `session_live` | two messages longer than the PTY's queue, output, confirmations, two exit codes | `EndsWhenTold`, `AcceptedIsWritten`, `WrittenIsCheckpointed`, `HeldIsShown`, `ExitAfterFinalScreen` |
| `server_races` | two handlers: typing with bad frames; screens with a death | the bound of the backlog and distinct epochs (`TypeOK`), `ExitShowsFinalScreen` |
| `server_live` | one handler: two messages and a hangup against full queues; lost datagrams, resizes, a death | `InputGetsThrough`, `HangupIsHeard`, `LatestArrives`, `ExitArrives` |
| `quosh` | a death while two messages of either payload are typed, while the user quits, while a screen is published and the shell exits; three screens on a connection that dies; one user who types, pings and quits | `ExactlyOnce`, `LossNeverHangsUp`, `ShownAsTold`, `ScreenNeverOlder` |
| `quosh_live` | a death while a message is typed; a resize | `QueueEmpties`, `SupersededEnds`, `SizeArrives` |
| `client` | editing in a line of five cells, inserting and overwriting; a login on one and on three rows; a program that overprints and resizes, with pastes and losses; links, overflow text and wide characters; links that get fast and slow; shared contexts; a login whose prompt may look like the password.  A feed with frames smaller and larger than its budget, partial writes | `JudgedInTime`, `GuessesComeTrue`, `UnmistakablePasswordHidden`, `ShownUntilJudged`; `NeverIdle`, `CtrlFifo`, `FinAfterScreen`, the exact byte budget (`TypeOK`) |
| `certs` | four epochs, windows of one and of three certificates, one browser and a command line, every failed or interrupted start | `OneCertificatePerEpoch`, `PinsLast`, `ServedIsValid` |
| `daemon` | two handlers and two helpers: revocations with failed writes and a crash; ageing tokens and nonces; two devices; sessions made, served and killed; browsers on sessions; a shutdown | `ReportedIsDurable`, `RegistryExact`, `OwnSessionsOnly`, refinement of `Access` |

Liveness of the form "P does not hold for ever" is written `[]<>~P`, which is
`P ~> ~P`; with a quantifier over handlers inside it is stronger than one
`~>` per handler.

Three runs show where the code and what is written about it part; each is a
finding in `PROJECT.json`:

* `server_attached`: `detach_if_epoch` compares the epoch, then waits for the
  lock; a claim in between leaves a served session marked detached.
* `daemon_revoked`: a silent reconnection replaces a token by one that is tied
  to no credential, so revoking the device afterwards leaves that token
  accepted, for as long as it is renewed within the hour (devices.rs, line 9;
  docs/13, line 161).
* `prediction_drawn`: a guess is confirmed by whatever puts its glyph in its
  place.  A user types Enter and two characters of a password; the prompt has
  the first of them where it was guessed, which confirms the epoch that Enter
  began, and the second is drawn (docs/12, line 123, and lib.rs, line 21, say
  that nothing in that epoch is ever confirmed).  `PasswordNeverDrawn` states
  the documents' claim, `UnmistakablePasswordHidden` what the code keeps: the
  claim for logins at which nothing looks like the password.  The run stops at
  the first counterexample, so it shows one of two ways.  The other is a last
  row that holds an OSC 8 link: there `newline_carriage_return` does not
  predict the blank row but only begins an epoch (lib.rs, line 585), the
  guesses of the password lie in the row that was typed before, and a user who
  steps right over the link and types on an echoed line shifts them to the
  right, where they take part in an epoch that this line makes confident.  With
  `Bounds <- BoundsLinked` the same configuration finds it (a row of five cells
  that begins with a link, the messages `a`, `s`, Enter and Right, seven of them
  typed).

Known behaviours of the models that need no run, most of them under "hazards": a
replaced handler still queues its backlog and the frame whose epoch check it
had passed (docs/11, line 147); two claims that count and announce in opposite
orders end both handlers; the command line pins one certificate and cannot
reconnect after the next rotation; a nonce is judged by the time its handshake
began; a revocation whose write failed is not found when it is repeated before
a restart; expired tokens stay in the file; between the two holds of `create`
another session may take the place of the idle ones it killed; a first start
with a clock that is ahead fixes an anchor in the future (`ServedIsValid` is
stated for times from the anchor on).

Two more: the comment at `MAX_PENDING` (session.rs:22) says PTY reads pause at
that size, which they do not, and `AcceptedIsWritten` with its mutant `OnReadable_paused` shows why they
must not; and a user who quits while the client is connecting (`Quit` in
`Client`) sends no hangup, where docs/11, line 59, promises one.

### Fairness

Weak fairness of a task's own steps: tokio runs ready tasks.  Strong fairness
of the arms of a handler's `select!`: an arm may be ready in one round and not
in the next (a write completes, another arm is taken), and `select!` polls its
arms in random order, so one that is ready again and again is taken some time.
In `Session` the arms stay ready until they are taken, and weak fairness is
enough.  Time passes; the shell of `session_live` keeps reading and writing; a
live path delivers, a dead one is noticed (`link_dead_ms`), and the client
reconnects.  Nothing is assumed of users, of peers, or of datagrams.
`InputGetsThrough` is checked for peers that do not ping: Pongs are queued
before the acknowledgement, and a peer that pings faster than it reads starves
it.  quosh's clients ping once a second.

### Refinement

`Session` implements `ApiSpec` (run `session`, and proved); `Server` and
`Quosh` stand on `ApiSpec`.  `Daemon` implements `Access` (run `daemon`): the
usable grants are the tokens and registrations in memory, those in doubt the
ones only the file still has, the invitations the nonces, and a handler has
proven a user from the step that looked at its proof until its reply.  Access
says that nobody is proven without a usable grant or an invitation nobody else
has spent, that only a proven handler gains grants, and that grants come back
after a crash only if their removal had not been reported.

## Proofs

### The session owner

`SessionProofs` proves, for every capacity, payload set and message length
that satisfies the assumptions (`MaxPending <= HardMax`, and one message fits
between them), the safety properties of `Session`: `TypeCorrect`,
`InputInOrder`, `EchoAckIsSound`, `BudgetHolds`, `WriteBufHolds`,
`InputIsHarmless`, `ExitAfterScreen`, the action properties `ExitEndsAll` and
`ScreensOnlyGrow`, and `OwnerImplementsApi`, the refinement of `ApiSpec` on
which `Server` and `Quosh` rest.

None of them is inductive by itself.  The inductive invariant `IInv` is the
conjunction of `TypeOK`; of `PendingOk`, the shape of the write queue (no chunk
is used up, and `unread` is the total of what is left of the chunks, stated by
running totals, which need no induction); of `Budget`; of `InOrder`, which
relates the queue to both logs; of `EchoHistory`, which relates the echo
history to the write log; of `Screens`, what the newest screen is relative to
the owner's version, frame and checkpoint; of `Control`, what is known at each
place of the owner (nothing was published before the loop, the exit status is
out when the entry is removed, no break was caused by input); and of `CmdsOk`,
that queued input was checked by `try_input`.  `EchoAckSound` follows from
`EchoHistory`, `WriteBufNonEmpty` from `PendingOk`, `InputNeverKills` from
`CmdsOk`, `Budget` and the guard of the command arm.  The refinement needs the
checkpoint of a new screen to be at most the accepted sequence, which is
`EchoHistory` and `InOrder` together.  The facts about queue operations are the lemmas
`SessionProofs` begins with.

### The feed

`FeedProofs` proves what `FeedStream` promises for every budget, every set of
frame sizes and any number of frames: `TypeOK` with the exact byte count,
`NeverIdle`, `CtrlFifo` and `FinAfterScreen`.  The invariant `FeedInv` says of
the stream as a whole (`Good`) that the control frames written, in flight and
waiting carry increasing numbers that are those accepted and not thrown away,
and where the newest screen and the final frame are in relation to each other.
`pump` is described once, by the four cases it has (`PumpIs`), and each push is
that case distinction after one change.

### The certificate chain

`CertProofs` proves the three properties of `CertChain` for every stride,
validity and slack that fit (`Stride + Slack <= Validity`), any windows, and any
number of browsers.  `CertInv` says where certificates are relative to the
latest epoch there ever was: every certificate anyone holds has the validity of
its epoch, two of one epoch are the same, and those whose epoch may still become
current are in their files (`Sound`); a loop has a certificate for every epoch
it passed, and is not left behind by the clock (`Placed`); the pins of a browser
cover their window (`Pinned`); without an anchor there is nothing.  That the
clock lags by at most an epoch gives that the current epoch is the latest or the
one before (`EpochLags`), which is what pruning leaves alone.

### The daemon

`DaemonProofs` proves `ReportedIsDurable`, `RegistryExact`, `OwnSessionsOnly`
and the refinement of `Access` for all limits, users and numbers of handlers.
`DaemonInv` is `AuthInv`, what the store, its file, the nonces and the places of
the handlers say of each other (numbers of tokens and nonces are never given
twice, although a token may be in memory only or in the file only; the token a
handler rotates is its user's; the one it is about to hand out is in the file as
long as it is accepted), and `SessionInv`, what the registry says of the
sessions.

### The handlers

`Server` and `Quosh` run the same handlers against different surroundings, so
`TransportProofs` describes each step of a handler once, for any set of
messages a peer may send and any set of frames a feed may hold: the shape of
its record is kept (`Handling`), whatever it puts into its feed is one of the
frames it may send (`Moves`), a command it queues is one of the messages it was
sent and an acknowledgement is of a number it has seen (`Serves`).  `Tells(f, s, X)`
says that a feed will send screen s before an exit status; `StillTells` says
that a step keeps this.

### The server

`ServerProofs` proves `TypeOK` and `ExitShowsFinalScreen` for any finite set of
connections, any capacities and peers that send what they like.  `ServerInv`
adds to the types:

* `EpochInv`: an epoch is 0 until it is claimed, no two handlers share one, and
  the number of handlers that have claimed is the epoch.  This count is what
  makes `Conns` finite (`ServerAssumption`); without it "no epoch above the
  newest" would be all that is known, and the bound of the epoch in `TypeOK`
  would not follow.
* `BacklogInv`: the backlog is at most one record above its cap, and a handler
  that is about to look at an Input is below it, which is the check `NextFrame`
  made one step earlier; nothing grows the backlog in between.
* `PeersInv`: a peer whose connection lives has the newest screen, or the feed
  of its handler `Tells` it.

The size of a backlog, `busy_bytes`, is a recursive function.  The library's
induction rules cannot be instantiated here, but its theorem that < is
well-founded on the naturals takes no operator, and gives induction over a set
of numbers (`SetInduction`): enough to show that the function exists, is a
natural number, and grows and shrinks by the cost of the record that comes or
goes.

### End to end

`QuoshProofs` proves the four safety properties of `Quosh` for every set of
connections and every size of the queues.  `HeldInv` is:

* `SessionInv`: what was accepted is a prefix of what was typed, and the
  command queue holds only things the client has said.
* `ClientInv`: the client's queue is what was typed beyond some number k that
  is at most what was accepted (`Rest`); the screen it has confirmed was
  published; the version it last acknowledged is not above it.
* `HandlersInv` and `WiresInv`: what a handler holds or a stream still carries
  towards the server was said by the client (`Said`), and what goes towards the
  client is one of the frames the session may have caused so far
  (`Frames(accepted, latest, exit)`).
* `RouteInv`: the connection in use was opened.

`ExactlyOnce`, `LossNeverHangsUp`, `ScreenNeverOlder` and the half of
`ShownAsTold` about confirmations follow.  That the client sends again what was
not acknowledged, and that handlers it has left still deliver, is why the
invariant must speak of all connections at once and not of the one in use: a
late handler is harmless because all it can hold is `Said`, and the owner takes
only the next number.  Both sets only grow (`Past`, `FramesGrow`), so a
step of one actor keeps what is known of all the others.

The other half of `ShownAsTold` needs an order between two frames.  `ExitInv`
says that each connection the client still listens to brings the newest screen
before an exit status, where it may be in the feed (`Tells`) or already on the
stream (`Coming`, with nothing but older things before the exit: `Follows`),
or the client has confirmed that screen.  Before the shell has exited there is
no exit status anywhere; from then on the newest screen is the final one.

### The predictor

`PredictionProofs` proves `JudgedInTime`, `UnmistakablePasswordHidden` and
`ShownUntilJudged` for frames of any size, any thresholds, any programs,
messages, contexts and intervals that satisfy `PredictionAssumption`.  `IInv`
is:

* `Typed` and `Drawn`: the environment is one of `Bounds`, and the confirmed
  frame and the terminal's are frames.
* `Acknowledged`: the predictor's late acknowledgement is the confirmed
  screen's, and that is at most the checkpoint, which is at most the number of
  the last message.
* `Guessed`: the predictor is `Sound` for the confirmed frame.  No two overlay
  lines are of one row; a cell without a guess is empty; a guess is of a
  message since the last reset and of an epoch begun (`Dated`); of two guesses
  the one of the later epoch is of no earlier message (`Ordered`); the last
  cursor is at least as young as any guess, and not above it (`Led`); every
  guess and cursor waits for a screen to come (`Judged`).  A predictor that
  must not predict is empty; any other knows the size of the frame.
* `Hushed`, for a login that is `Unmistakable`: the passwords are hidden (`Hide`), neither the
  confirmed frame nor the terminal shows one, and every password among the
  unread messages is on a line the program will read with its echo off
  (`InTurn`, a running count of lines as in `SessionProofs`).

`JudgedInTime` is not inductive because `kill_epoch` withdraws the guesses of an
epoch and of later ones, wherever in the frame they are: what it leaves behind
is judged by the same screen only because the others are of earlier messages
(`Ordered`).  The cursor it puts in place of the withdrawn ones need not lead
what is left, so within `cull` either the last cursor leads or everything left
is due (`Sweeping`).

For `UnmistakablePasswordHidden`, `Masked` says that the epoch of a guessed password
character is not confident, and why it cannot become so: of each guess of that
epoch that is neither blank nor a password character, there is a `Witness`, a
password character left of it in its row that is judged no later.  Such guesses
exist, as typing into a line moves what is right of the cursor.  `cull` judges a
row from left to right, so the witness is judged wrong, and the epoch killed,
before the guess can be credited.  On a password line nothing can make the
current epoch confident (`Silent`); on any other, the passwords are of earlier
epochs in rows above the last cursor (`Open`), so no key moves them.  Within
`cull` this does not hold at each step: `Hidden` is what does, where a password
may be of a confident epoch if this screen judges it.

`cull`'s loop is a recursive function of the position.  `SetInduction` gives that
it exists, and induction over `Sweeping`, the state of the loop after the cells
before a position, gives what the loop ends in (`JudgesAll`): a reset, or
guesses that all wait (`Done`).  `Retain`, the keys of a message and the program's
reading of one are unfolded in the same way.  Every key's handler is one lemma
(`NewLine`, `Backspaced`, `CharTyped`), of the form: sound stays sound, and
hidden stays hidden if the line allows the key.

### Only model-checked

All liveness (fairness and `ENABLED` are out of the prover's reach), and of the
safety properties `GuessesComeTrue`: it compares the display with what the
terminal will show after every unread message is read, so it needs, for each
key, that guessing and reading commute, under any number of keys not yet
confirmed.  That a user who corrects a password with Backspace sees nothing of
it was looked at on small instances only, without a counterexample: a
backspace moves guesses to the left, and a guess may then lose its `Witness`.

## Not modelled

WebAuthn parsing and signatures, frame encodings, the emulator's grid, the
painter and tty reader of the command line, SSH, WebAssembly wrappers, the
browser's rendering and storage: pure conversions or input and output without
state to explore.  `PROJECT.json` lists each with its reason.  The hangup and
stream finishing at the very end of a connection (`finish_send`) only delay the
drop of the connection and are part of the network's choice of what still
arrives.  Of the predictor, renditions and underlining; of the helper, the
operations that only read; of the device store `touch_token`, which has no
caller; of the files, reading errors: a file that is there can be read.

## Plan

1. The command line's connecting phase and tty reader (overflow, escape), and
   the browser's loop as a second user of `Client`.
2. Proofs: `GuessesComeTrue` for the editor, as a simulation between the
   predictor and the terminal; `UnmistakablePasswordHidden` for a user who corrects a
   password.
