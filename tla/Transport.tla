------------------------------ MODULE Transport ------------------------------
(***************************************************************************)
(* The server's transport handlers (transport.rs): one task per incoming   *)
(* WebTransport connection.  A handler claims the session by its epoch,    *)
(* forwards client frames to the owner and screens, acknowledgements and   *)
(* the exit status to the client, until it is replaced or its connection   *)
(* ends.                                                                   *)
(*                                                                         *)
(* Handlers and owner run on different threads: between any two accesses   *)
(* of a handler to the shared Session another task may move, so each       *)
(* action makes one of them.  A module that uses these actions says where  *)
(* the frames read come from and where the ones written go.                *)
(***************************************************************************)
EXTENDS SessionApi, FrameFeed

CONSTANTS Conns,        \* connections, each served by one handler
          BusyCap,      \* BUSY_CAP
          Overhead      \* INPUT_RECORD_OVERHEAD

ASSUME TransportAssumption ==
    /\ BusyCap \in Nat \ {0} /\ Overhead \in Nat \ {0}
    /\ NoSize \notin Sizes

VARIABLES epoch,        \* Session::epoch, the newest claim
          epochWatch,   \* the watch that announces it
          detached,     \* last_detach.is_some()
          conn          \* the handlers' local state

bookkeeping == <<epoch, epochWatch, detached>>

NoAck == 0              \* `pending_input_ack: None`

\* `seen` is what the handler's watch receivers have marked as seen.
NewConn == [pc |-> "hello", epoch |-> 0, leftover |-> <<>>, busy |-> <<>>,
            wantSize |-> NoSize, wantAck |-> NoAck, feed |-> EmptyFeed,
            seen |-> [epoch |-> 0, version |-> 0, accepted |-> 0, exit |-> NoExit]]

\* A new session counts as detached until its first handler claims it.
TransportInit ==
    /\ epoch = 0 /\ epochWatch = 0 /\ detached = TRUE
    /\ conn = [h \in Conns |-> NewConn]

At(h, pc) == conn[h].pc = pc
Go(h, pc) == conn' = [conn EXCEPT ![h].pc = pc]
Current(h) == epoch = conn[h].epoch

\* Where a round of the loop goes on, passing over what has nothing to do.
AfterBusy(c) == CASE c.wantSize # NoSize -> "resize"
                  [] c.wantSize = NoSize /\ (c.wantAck # NoAck \/ exit # NoExit) -> "acks"
                  [] OTHER -> "select"
AfterFrames(c) == IF c.busy # <<>> THEN "busy" ELSE AfterBusy(c)

\* Mutant: the backlog is only retried after a frame.
LoopTop_idle(c) == IF c.leftover # <<>> THEN "frames" ELSE AfterBusy(c)

LoopTop(c) == IF c.leftover # <<>> THEN "frames" ELSE AfterFrames(c)

\* run_transport returns: all it held is dropped.
Leave(h) == conn' = [conn EXCEPT ![h] = [NewConn EXCEPT !.pc = "detach", !.epoch = conn[h].epoch]]
-----------------------------------------------------------------------------
(* Attaching: handle_incoming and the head of run_transport.               *)

\* The Hello, asking for size s: lookup under the registry's lock.
Lookup(h, s) ==
    /\ At(h, "hello")
    /\ conn' = [conn EXCEPT ![h].pc = IF registered THEN "claim" ELSE "rejected",
                            ![h].wantSize = s]
    /\ UNCHANGED <<shared, bookkeeping>>

\* claim_transport, in its three steps.
Claim(h) ==
    /\ At(h, "claim")
    /\ epoch' = epoch + 1
    /\ conn' = [conn EXCEPT ![h].pc = "announce", ![h].epoch = epoch + 1]
    /\ UNCHANGED <<shared, epochWatch, detached>>

Announce(h) ==
    /\ At(h, "announce")
    /\ epochWatch' = conn[h].epoch
    /\ Go(h, "attach")
    /\ UNCHANGED <<shared, epoch, detached>>

Attach(h) ==
    /\ At(h, "attach")
    /\ detached' = FALSE
    /\ Go(h, "subscribe")
    /\ UNCHANGED <<shared, epoch, epochWatch>>

\* A new watch receiver has seen the current value.
Subscribe(h) ==
    /\ At(h, "subscribe")
    /\ conn' = [conn EXCEPT ![h].pc = "greet",
                            ![h].seen = [epoch |-> epochWatch, version |-> latest.version,
                                         accepted |-> accepted, exit |-> exit]]
    /\ UNCHANGED <<shared, bookkeeping>>

WithScreen(f) == IF latest = NoScreen THEN f ELSE push_screen(f, Screen(latest))

Greet(h) ==
    /\ At(h, "greet")
    /\ LET c == [conn[h] EXCEPT !.feed = WithScreen(push_ctrl(@, HelloOk)),
                                !.wantAck = accepted]
       IN  conn' = [conn EXCEPT ![h] = [c EXCEPT !.pc = LoopTop(c)]]
    /\ UNCHANGED <<shared, bookkeeping>>
-----------------------------------------------------------------------------
(* One round of run_transport's loop, up to the select.                    *)

RecordCost(m) == Overhead + DataLen[m.data]

busy_bytes(q) ==
    LET upTo[i \in 0..Len(q)] == IF i = 0 THEN 0 ELSE upTo[i - 1] + RecordCost(q[i])
    IN  upTo[Len(q)]

BusyFull(h) == busy_bytes(conn[h].busy) >= BusyCap

\* Mutant: frames are taken whatever the backlog.
NextFrame_full(h) ==
    /\ At(h, "frames")
    /\ Go(h, IF Current(h) THEN "apply" ELSE AfterFrames(conn[h]))
    /\ UNCHANGED <<shared, bookkeeping>>

\* Mutant: a frame that waits for room keeps the backlog from being retried.
NextFrame_stuck(h) ==
    /\ At(h, "frames")
    /\ Go(h, IF Current(h) /\ ~(Head(conn[h].leftover).op = "Input" /\ BusyFull(h))
             THEN "apply" ELSE AfterBusy(conn[h]))
    /\ UNCHANGED <<shared, bookkeeping>>

\* Whether drain_leftover looks at the next frame: not for lack of room, nor
\* in a superseded handler (on_control asks again; either way it never looks
\* at another frame).
NextFrame(h) ==
    /\ At(h, "frames")
    /\ Go(h, IF Current(h) /\ ~(Head(conn[h].leftover).op = "Input" /\ BusyFull(h))
             THEN "apply" ELSE AfterFrames(conn[h]))
    /\ UNCHANGED <<shared, bookkeeping>>

\* Mutant: input is acknowledged when it arrives.
Took_acks(c, m) ==
    CASE m.op = "Input" -> [c EXCEPT !.busy = Append(@, m), !.wantAck = m.seq]
      [] m.op = "Resize" -> [c EXCEPT !.wantSize = m.size]
      [] m.op = "Ping" -> [c EXCEPT !.feed = push_ctrl(@, Pong)]
      [] OTHER -> c

\* What a frame does to the handler's own state.
Took(c, m) ==
    CASE m.op = "Input" -> [c EXCEPT !.busy = Append(@, m)]
      [] m.op = "Resize" -> [c EXCEPT !.wantSize = m.size]
      [] m.op = "Ping" -> [c EXCEPT !.feed = push_ctrl(@, Pong)]    \* or no Pong
      [] OTHER -> c

\* The frame, past the last look at the epoch.
on_control(h) ==
    LET c    == conn[h]
        m    == Head(c.leftover)
        d    == Took([c EXCEPT !.leftover = Tail(@)], m)
        rest == conn' = [conn EXCEPT ![h] = [d EXCEPT !.pc = LoopTop(d)]]
    IN  /\ At(h, "apply")
        /\ \/ m.op = "Input" /\ InputOk(m.data) /\ rest /\ UNCHANGED shared
           \/ m.op = "Input" /\ ~InputOk(m.data) /\ Leave(h) /\ UNCHANGED shared
           \/ m.op \in {"Resize", "Ping"} /\ rest /\ UNCHANGED shared
           \/ m.op = "Hangup" /\ rest /\ request_hangup
           \/ m.op = "Ack" /\ rest /\ try_ack(m.version)
        /\ UNCHANGED bookkeeping

\* One turn of drain_busy: the front record is queued, or stays for want of
\* room, or, the session being closed, is dropped.
drain_busy(h) ==
    LET c    == conn[h]
        m    == Head(c.busy)
        rest == [c EXCEPT !.busy = Tail(@)]
    IN  /\ At(h, "busy")
        /\ \/ /\ try_input(m.seq, m.data)
              /\ conn' = [conn EXCEPT ![h] = [rest EXCEPT !.pc = AfterFrames(rest)]]
           \/ /\ ~closed /\ ~HasRoom
              /\ Go(h, AfterBusy(c)) /\ UNCHANGED shared
           \/ /\ closed
              /\ conn' = [conn EXCEPT ![h] = [rest EXCEPT !.pc = AfterBusy(c)]]
              /\ UNCHANGED shared
        /\ UNCHANGED bookkeeping

\* Mutant: a size the queue has no room for is forgotten.
ApplyResize_once(h) ==
    LET s == conn[h].wantSize
    IN  /\ At(h, "resize")
        /\ \/ try_resize(s)
           \/ (s \notin ValidSizes \/ closed \/ ~HasRoom) /\ UNCHANGED shared
        /\ conn' = [conn EXCEPT ![h].pc = "acks", ![h].wantSize = NoSize]
        /\ UNCHANGED bookkeeping

\* The wanted size stays wanted only if the queue is full.
ApplyResize(h) ==
    LET s == conn[h].wantSize
    IN  /\ At(h, "resize")
        /\ \/ /\ s \in ValidSizes /\ ~closed /\ ~HasRoom     \* stays wanted
              /\ Go(h, "acks") /\ UNCHANGED shared
           \/ /\ try_resize(s)
              /\ conn' = [conn EXCEPT ![h].pc = "acks", ![h].wantSize = NoSize]
           \/ /\ s \notin ValidSizes \/ closed
              /\ conn' = [conn EXCEPT ![h].pc = "acks", ![h].wantSize = NoSize]
              /\ UNCHANGED shared
        /\ UNCHANGED bookkeeping

\* Mutant: a refused acknowledgement is forgotten.
QueueAck_once(h) ==
    LET c == conn[h]
    IN  /\ At(h, "acks")
        /\ conn' = [conn EXCEPT ![h].pc = IF exit # NoExit THEN "exit" ELSE "select",
                                ![h].wantAck = NoAck,
                                ![h].feed = IF c.wantAck # NoAck
                                            THEN push_ctrl(@, InputAck(c.wantAck)) ELSE @]
        /\ UNCHANGED <<shared, bookkeeping>>

\* Mutant: only a change of the exit status is looked at.
QueueAck_change(h) ==
    LET c    == conn[h]
        next == [conn EXCEPT ![h].pc = IF c.seen.exit # exit THEN "exit" ELSE "select"]
    IN  /\ At(h, "acks")
        /\ conn' = IF c.wantAck # NoAck /\ CtrlFits(c.feed, InputAck(c.wantAck))
                   THEN [next EXCEPT ![h].feed = push_ctrl(@, InputAck(c.wantAck)),
                                     ![h].wantAck = NoAck]
                   ELSE next
        /\ UNCHANGED <<shared, bookkeeping>>

\* A refused acknowledgement stays wanted.  The exit status is looked at in
\* every round, not only when it changes.
QueueAck(h) ==
    LET c    == conn[h]
        next == [conn EXCEPT ![h].pc = IF exit # NoExit THEN "exit" ELSE "select"]
    IN  /\ At(h, "acks")
        /\ conn' = IF c.wantAck # NoAck /\ CtrlFits(c.feed, InputAck(c.wantAck))
                   THEN [next EXCEPT ![h].feed = push_ctrl(@, InputAck(c.wantAck)),
                                     ![h].wantAck = NoAck]
                   ELSE next
        /\ UNCHANGED <<shared, bookkeeping>>

\* Mutant: the exit status goes out without the final screen.
queue_exit_bare(h) ==
    /\ At(h, "exit")
    /\ conn' = [conn EXCEPT ![h].pc = "flush",
                            ![h].feed = IF Current(h) THEN push_fin(@, Exit(exit)) ELSE @]
    /\ UNCHANGED <<shared, bookkeeping>>

queue_exit(h) ==
    /\ At(h, "exit")
    /\ conn' = [conn EXCEPT ![h].pc = "flush",
                            ![h].feed = IF Current(h) THEN push_fin(WithScreen(@), Exit(exit))
                                        ELSE @]
    /\ UNCHANGED <<shared, bookkeeping>>

\* flush_bounded with nothing left to write.
Flushed(h) ==
    /\ At(h, "flush") /\ ~writing(conn[h].feed)
    /\ Leave(h)
    /\ UNCHANGED <<shared, bookkeeping>>
-----------------------------------------------------------------------------
(* The select: each arm ends in a look at the epoch.                       *)

OnEpoch(h) ==
    /\ At(h, "select") /\ epochWatch # conn[h].seen.epoch
    /\ IF epochWatch # conn[h].epoch THEN Leave(h)
       ELSE conn' = [conn EXCEPT ![h].seen.epoch = epochWatch, ![h].pc = "check"]
    /\ UNCHANGED <<shared, bookkeeping>>

OnExit(h) ==
    /\ At(h, "select") /\ exit # conn[h].seen.exit
    /\ conn' = [conn EXCEPT ![h].seen.exit = exit, ![h].pc = "check"]
    /\ UNCHANGED <<shared, bookkeeping>>

\* A new screen goes out as a datagram if it is small enough for one.
OnLatest(h, via) ==
    /\ At(h, "select") /\ latest.version # conn[h].seen.version
    /\ conn' = [conn EXCEPT ![h].seen.version = latest.version, ![h].pc = "check",
                            ![h].feed = IF via = "stream" THEN WithScreen(@) ELSE @]
    /\ UNCHANGED <<shared, bookkeeping>>

OnAccepted(h) ==
    /\ At(h, "select") /\ accepted # conn[h].seen.accepted
    /\ conn' = [conn EXCEPT ![h].seen.accepted = accepted, ![h].pc = "check",
                            ![h].wantAck = accepted]
    /\ UNCHANGED <<shared, bookkeeping>>

\* Mutant: a screen that was sent once is not sent again.
OnResync_seen(h) ==
    /\ At(h, "select")
    /\ conn' = [conn EXCEPT ![h].pc = "check",
                            ![h].feed = IF /\ latest.version > lastAcked
                                           /\ latest.version # conn[h].seen.version
                                        THEN WithScreen(@) ELSE @]
    /\ UNCHANGED <<shared, bookkeeping>>

\* Every 300 ms: a screen nobody confirmed goes out again, reliably.
OnResync(h) ==
    /\ At(h, "select")
    /\ conn' = [conn EXCEPT ![h].pc = "check",
                            ![h].feed = IF latest.version > lastAcked THEN WithScreen(@) ELSE @]
    /\ UNCHANGED <<shared, bookkeeping>>

\* The stream takes the frame in flight, in the select or in flush_bounded.
Outgoing(h) == Head(conn[h].feed.out)

Write(h) ==
    /\ At(h, "select") \/ At(h, "flush")
    /\ writing(conn[h].feed)
    /\ conn' = [conn EXCEPT ![h].feed = feed_advance(@, @.left),
                            ![h].pc = IF @ = "select" THEN "check" ELSE "flush"]
    /\ UNCHANGED <<shared, bookkeeping>>

\* Frames arrive, several in one read maybe; a full backlog stops the reading.
read_more(h, frames) ==
    /\ At(h, "select") /\ ~BusyFull(h)
    /\ conn' = [conn EXCEPT ![h].leftover = @ \o frames, ![h].pc = "check"]
    /\ UNCHANGED <<shared, bookkeeping>>

\* Mutant: a connection that ends takes the session with it.
Broken_hangup(h) ==
    /\ \/ At(h, "select") /\ (~BusyFull(h) \/ writing(conn[h].feed))
       \/ At(h, "flush") /\ writing(conn[h].feed)
    /\ Leave(h)
    /\ request_hangup
    /\ UNCHANGED bookkeeping

\* End of stream, an error of the connection, or the time to flush is over.
Broken(h) ==
    /\ \/ At(h, "select") /\ (~BusyFull(h) \/ writing(conn[h].feed))
       \/ At(h, "flush") /\ writing(conn[h].feed)
    /\ Leave(h)
    /\ UNCHANGED <<shared, bookkeeping>>

\* Mutant: only the watch tells a handler that it is replaced.
CheckEpoch_not(h) ==
    /\ At(h, "check")
    /\ Go(h, LoopTop(conn[h]))
    /\ UNCHANGED <<shared, bookkeeping>>

CheckEpoch(h) ==
    /\ At(h, "check")
    /\ IF Current(h) THEN Go(h, LoopTop(conn[h])) ELSE Leave(h)
    /\ UNCHANGED <<shared, bookkeeping>>

\* detach_if_epoch: the epoch is read before the lock is taken.
detach_if_epoch(h) ==
    /\ At(h, "detach")
    /\ Go(h, IF Current(h) THEN "mark" ELSE "done")
    /\ UNCHANGED <<shared, bookkeeping>>

MarkDetached(h) ==
    /\ At(h, "mark")
    /\ detached' = TRUE
    /\ Go(h, "done")
    /\ UNCHANGED <<shared, epoch, epochWatch>>

\* The steps a handler makes on its own, without waiting for anything.
Proceed(h) ==
    \/ Claim(h) \/ Announce(h) \/ Attach(h) \/ Subscribe(h) \/ Greet(h)
    \/ NextFrame(h) \/ on_control(h) \/ drain_busy(h) \/ ApplyResize(h)
    \/ QueueAck(h) \/ queue_exit(h) \/ Flushed(h)
    \/ OnEpoch(h) \/ OnExit(h) \/ CheckEpoch(h)
    \/ detach_if_epoch(h) \/ MarkDetached(h)

Serving(h) == conn[h].pc \notin {"hello", "rejected", "claim", "announce", "attach",
                                 "detach", "mark", "done"}
=============================================================================
