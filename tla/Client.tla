-------------------------------- MODULE Client --------------------------------
(***************************************************************************)
(* The client: the state machine of quosh-client (struct Client) and the   *)
(* loops of the command line around it (run_session, session_loop), which  *)
(* connect, type, reconnect and quit.                                      *)
(*                                                                         *)
(* The loop is one task, so an action is one arm of its select together    *)
(* with the tick at the top of the loop.  Prediction and display are left  *)
(* out: they never write the state kept here.                              *)
(***************************************************************************)
EXTENDS Protocol, FrameFeed

CONSTANTS UnackedCap,   \* UNACKED_CAP
          MaxFailures,  \* MAX_HANDSHAKE_FAILURES
          Bounds        \* bound: the environments to explore

ASSUME ClientAssumption ==
    /\ UnackedCap \in Nat \ {0} /\ MaxFailures \in Nat \ {0}

VARIABLES client,       \* struct Client
          link,         \* where the loops are
          failures,     \* handshake_failures
          typed,        \* history: payloads typed, in order
          bound         \* the environment of this behaviour: its terminal's
                        \* size (term), how much the user types (typed),
                        \* and whether ticks find pings due (pings)

clientVars == <<client, link, failures, typed, bound>>

\* "down": connecting; "up": in session_loop; "flushing": its last writes
\* after a quit; "ended" and "failed": the process is over.
Links == {"down", "up", "flushing", "ended", "failed"}

NewClient(s) == [connected |-> FALSE, helloOk |-> FALSE, feed |-> EmptyFeed,
                 sentSeq |-> 0, pendingAck |-> 0, unacked |-> <<>>, seq |-> 0,
                 confirmed |-> NoScreen, pinging |-> FALSE, size |-> s,
                 hungup |-> FALSE, exitCode |-> NoExit]

ClientInit ==
    /\ bound \in Bounds
    /\ client = NewClient(bound.term)
    /\ link = "down" /\ failures = 0 /\ typed = <<>>

\* A client frame on its way through the feed.
Sized(m) == [msg |-> m, len |-> 1]
-----------------------------------------------------------------------------
(* Client's methods.                                                       *)

push_msg(c, m) == [c EXCEPT !.feed = push_ctrl(@, Sized(m))]
MsgFits(c, m) == CtrlFits(c.feed, Sized(m))

\* Input beyond n, of a queue in order: all that find and retain look for.
Above(q, n) ==
    LET k == CHOOSE k \in 0..Len(q) : \A i \in DOMAIN q : q[i].seq > n <=> i > k
    IN  SubSeq(q, k + 1, Len(q))

Unsent(c) == Above(c.unacked, c.sentSeq)

\* The pending confirmation, then, with nothing in flight, the next input.
client_pump(c) ==
    LET a == IF c.pendingAck # 0 /\ MsgFits(c, Ack(c.pendingAck))
             THEN [push_msg(c, Ack(c.pendingAck)) EXCEPT !.pendingAck = 0] ELSE c
    IN  IF ~c.connected \/ c.hungup THEN c
        ELSE IF writing(a.feed) \/ Unsent(a) = <<>> THEN a
        ELSE [push_msg(a, Head(Unsent(a))) EXCEPT !.sentSeq = Head(Unsent(a)).seq]

\* tick: pump, then a ping if one is due.
tick(c, due) ==
    LET a == client_pump(c)
    IN  IF due /\ a.connected /\ ~a.hungup /\ MsgFits(a, Ping)
        THEN [push_msg(a, Ping) EXCEPT !.pinging = TRUE] ELSE a

\* Mutant: what was sent on the last connection counts as sent on this one.
begin_connection_keeps(c) ==
    [c EXCEPT !.connected = TRUE, !.helloOk = FALSE,
              !.feed = push_ctrl(EmptyFeed, Sized(Hello(c.size))),
              !.pendingAck = 0, !.pinging = FALSE]

begin_connection(c) ==
    [c EXCEPT !.connected = TRUE, !.helloOk = FALSE,
              !.feed = push_ctrl(EmptyFeed, Sized(Hello(c.size))),
              !.sentSeq = 0, !.pendingAck = 0, !.pinging = FALSE]

\* Mutant: the last screen to arrive wins.
apply_screen_last(c, s) == [c EXCEPT !.confirmed = s, !.pendingAck = s.version]

\* Mutant: the version expected next is confirmed.
apply_screen_next(c, s) ==
    IF s.version > c.confirmed.version
    THEN [c EXCEPT !.confirmed = s, !.pendingAck = s.version + 1] ELSE c

\* Last state wins: only a newer screen is shown and confirmed.
apply_screen(c, s) ==
    IF s.version > c.confirmed.version
    THEN [c EXCEPT !.confirmed = s, !.pendingAck = s.version] ELSE c

\* Mutant: an acknowledgement covers the message after it as well.
Acked_more(c, n) == [c EXCEPT !.unacked = Above(@, n + 1)]

Acked(c, n) == [c EXCEPT !.unacked = Above(@, n)]

handle_frame(c, f) ==
    CASE f.kind = "HelloOk" -> [c EXCEPT !.helloOk = TRUE]
      [] f.kind = "Screen" -> apply_screen(c, f.screen)
      [] f.kind = "InputAck" -> Acked(c, f.seq)
      [] f.kind = "Pong" -> [c EXCEPT !.pinging = FALSE]
      [] f.kind = "Exit" -> [c EXCEPT !.exitCode = f.status, !.hungup = TRUE]

queue_input(c, d) ==
    [c EXCEPT !.seq = @ + 1, !.unacked = Append(@, Input(c.seq + 1, d))]

\* A resize the feed has no room for is not sent.
set_size(c, s) ==
    LET a == [c EXCEPT !.size = s]
    IN  IF c.connected /\ ~c.hungup THEN push_msg(a, Resize(s)) ELSE a

client_hangup(c) ==
    [c EXCEPT !.feed = push_fin(@, Sized(Hangup)), !.hungup = TRUE]

UnackedBytes(c) ==
    LET upTo[i \in 0..Len(c.unacked)] ==
            IF i = 0 THEN 0 ELSE upTo[i - 1] + DataLen[c.unacked[i].data]
    IN  upTo[Len(c.unacked)]

can_accept_input(c) == UnackedBytes(c) < UnackedCap
-----------------------------------------------------------------------------
(* The loops.                                                              *)

\* The tick at the top of session_loop; a client that is hung up ends it.
Loop(c) ==
    \E due \in bound.pings :
        /\ client' = tick(c, due)
        /\ link' = IF c.hungup THEN "ended" ELSE "up"

\* A connection is up: its stream is opened, and the Hello goes first.
Connected ==
    /\ link = "down"
    /\ Loop(begin_connection(client))
    /\ UNCHANGED <<failures, typed, bound>>

\* A frame of the control stream; an Error is fatal.
ReceiveFrame(f) ==
    /\ link = "up"
    /\ IF f.kind = "Error" THEN link' = "failed" /\ UNCHANGED client
       ELSE Loop(handle_frame(client, f))
    /\ UNCHANGED <<failures, typed, bound>>

ReceiveDatagram(s) ==
    /\ link = "up"
    /\ Loop(apply_screen(client, s))
    /\ UNCHANGED <<failures, typed, bound>>

\* The stream takes the frame in flight, in session_loop or flush_bounded.
ClientOutgoing == Head(client.feed.out).msg

ClientWrite ==
    /\ writing(client.feed)
    /\ LET c == [client EXCEPT !.feed = feed_advance(@, @.left)]
       IN  \/ link = "up" /\ Loop(c)
           \/ link = "flushing" /\ client' = c /\ UNCHANGED link
    /\ UNCHANGED <<failures, typed, bound>>

Type(d) ==
    /\ Len(typed) < bound.typed /\ can_accept_input(client)
    /\ typed' = Append(typed, d)
    /\ LET c == queue_input(client, d)
       IN  \/ link = "up" /\ Loop(c)
           \/ link = "down" /\ client' = c /\ UNCHANGED link
    /\ UNCHANGED <<failures, bound>>

Winch(s) ==
    /\ s # client.size
    /\ \/ link = "up" /\ Loop(set_size(client, s))
       \/ link = "down" /\ client' = [client EXCEPT !.size = s] /\ UNCHANGED link
    /\ UNCHANGED <<failures, typed, bound>>

Tick ==
    /\ link = "up"
    /\ Loop(client)
    /\ UNCHANGED <<failures, typed, bound>>

\* End of input, an interrupt or a hangup signal: with a connection the last
\* frames are flushed, without one there is nobody to tell.
Quit ==
    /\ link \in {"up", "down"}
    /\ client' = client_hangup(client)
    /\ link' = IF link = "up" THEN "flushing" ELSE "ended"
    /\ UNCHANGED <<failures, typed, bound>>

\* flush_bounded is done, or out of time.
FlushEnds ==
    /\ link = "flushing"
    /\ link' = "ended"
    /\ UNCHANGED <<client, failures, typed, bound>>

\* Between two connections nobody reads the feed, and begin_connection makes
\* a new one: what is in it, and what ticks and resizes would still add to
\* it, is left out.
Disconnected(c) == [c EXCEPT !.feed = EmptyFeed]

\* The stream's clean end: a rejection, if it comes before HelloOk.
StreamEnd ==
    /\ link = "up"
    /\ link' = IF client.helloOk THEN "down" ELSE "failed"
    /\ failures' = 0 /\ client' = Disconnected(client)
    /\ UNCHANGED <<typed, bound>>

\* An error of the transport, or nothing heard for link_dead_ms.
TransportError ==
    /\ link = "up"
    /\ failures' = IF client.helloOk THEN 0 ELSE failures + 1
    /\ link' = IF failures' >= MaxFailures THEN "failed" ELSE "down"
    /\ client' = Disconnected(client)
    /\ UNCHANGED <<typed, bound>>
=============================================================================
