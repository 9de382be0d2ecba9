-------------------------------- MODULE Server --------------------------------
(***************************************************************************)
(* One session of quosh-server as its peers see it: the transport handlers *)
(* of Transport, the owner by its abstract specification (SessionApi), and *)
(* on the other end of each connection a peer that knows the session's     *)
(* token, sends any frames and may fall silent for ever.                   *)
(***************************************************************************)
EXTENDS Transport, FiniteSets

CONSTANT Bounds         \* bound: the environments to explore

\* An environment: the connections made (conns) and how many of them die
\* (lost), the kinds of frames peers send (ops) and the sequence numbers they
\* use (seq), frames read and not yet looked at (left), screens the owner
\* publishes of its own accord (version), whether the session ends (exits).
ASSUME ServerAssumption ==
    /\ IsFiniteSet(Conns)
    /\ Bounds \subseteq [conns : SUBSET Conns, lost : Nat, seq : Nat, left : Nat \ {0},
                        ops : SUBSET {"Input", "Resize", "Ack", "Hangup", "Ping"},
                        version : Nat, exits : BOOLEAN]

VARIABLES peer,         \* what each peer was told
          lost,         \* its connection is dead
          bound         \* the environment of this behaviour

vars == <<shared, bookkeeping, conn, peer, lost, bound>>

NewPeer == [hello |-> FALSE, version |-> 0, acked |-> 0, exit |-> NoExit]

Init ==
    /\ ApiInit /\ TransportInit
    /\ peer = [h \in Conns |-> NewPeer]
    /\ lost = [h \in Conns |-> FALSE]
    /\ bound \in Bounds

Larger(a, b) == IF a > b THEN a ELSE b

\* What a frame teaches the peer.
Told(p, f) ==
    CASE f.kind = "HelloOk" -> [p EXCEPT !.hello = TRUE]
      [] f.kind = "Screen" -> [p EXCEPT !.version = Larger(@, f.screen.version)]
      [] f.kind = "InputAck" -> [p EXCEPT !.acked = Larger(@, f.seq)]
      [] f.kind = "Exit" -> [p EXCEPT !.exit = f.status]
      [] OTHER -> p

Receives(h, f) == peer' = [peer EXCEPT ![h] = IF lost[h] THEN @ ELSE Told(@, f)]
-----------------------------------------------------------------------------
(* The handlers and their peers.                                           *)

Handle(h) == Proceed(h) /\ UNCHANGED <<peer, lost, bound>>

Connect(h) ==
    /\ h \in bound.conns
    /\ \E s \in (IF "Resize" \in bound.ops THEN ValidSizes ELSE {}) \cup {NoSize} :
          Lookup(h, s)
    /\ UNCHANGED <<peer, lost, bound>>

Deliver(h) == Write(h) /\ Receives(h, Outgoing(h)) /\ UNCHANGED <<lost, bound>>

\* A datagram arrives or is lost.
SendLatest(h) ==
    /\ \/ OnLatest(h, "stream") /\ UNCHANGED peer
       \/ OnLatest(h, "datagram") /\ (UNCHANGED peer \/ Receives(h, Screen(latest)))
    /\ UNCHANGED <<lost, bound>>

AckInput(h) == OnAccepted(h) /\ UNCHANGED <<peer, lost, bound>>
Resync(h) == OnResync(h) /\ UNCHANGED <<peer, lost, bound>>

\* A peer confirms only screens it has; it stops resizing, and typing, at
\* the bounds.
PeerFrames(h) ==
    {m \in {Input(seq, d) : seq \in 1..bound.seq, d \in Data}
           \cup {Resize(s) : s \in (IF latest.version < bound.version THEN Sizes ELSE {})}
           \cup {Ack(v) : v \in 1..peer[h].version}
           \cup {Hangup, Ping} : m.op \in bound.ops}

Read(h) ==
    /\ ~lost[h]
    /\ \E n \in 1..(bound.left - Len(conn[h].leftover)) :
          \E frames \in [1..n -> PeerFrames(h)] : read_more(h, frames)
    /\ UNCHANGED <<peer, lost, bound>>

Lose(h) ==
    /\ h \in bound.conns /\ ~lost[h]
    /\ Cardinality({g \in Conns : lost[g]}) < bound.lost
    /\ lost' = [lost EXCEPT ![h] = TRUE]
    /\ UNCHANGED <<shared, bookkeeping, conn, peer, bound>>

Fail(h) == lost[h] /\ Broken(h) /\ UNCHANGED <<peer, lost, bound>>
-----------------------------------------------------------------------------
(* The owner.  A handler looks at nothing but the version of a screen.     *)

NextScreen(s) == [version |-> latest.version + 1, echoAck |-> accepted,
                  frame |-> latest.frame + 1, size |-> s]

OwnerTakes ==
    /\ cmds # <<>>
    /\ latest' = IF Head(cmds).op = "Resize" THEN NextScreen(Head(cmds).size) ELSE latest
    /\ ApiTake

OwnerPublishes ==
    /\ latest.version < bound.version
    /\ latest' = NextScreen(size)
    /\ ApiPublish

\* The shell exits, on its own or because it was told to.
OwnerExits == bound.exits /\ ApiExit
OwnerCloses == bound.exits /\ ApiClose

notShared == <<bookkeeping, conn, peer, lost, bound>>

Owner == /\ OwnerTakes \/ OwnerPublishes \/ OwnerExits \/ OwnerCloses
         /\ UNCHANGED notShared

Next ==
    \/ Owner
    \/ \E h \in Conns :
          \/ Handle(h) \/ Connect(h) \/ Deliver(h) \/ SendLatest(h) \/ AckInput(h)
          \/ Resync(h) \/ Read(h) \/ Lose(h) \/ Fail(h)

Spec == Init /\ [][Next]_vars

\* A handler proceeds; `select!` polls its arms in random order, so an arm
\* that is ready again and again is taken some time; the owner takes
\* commands while it runs.
Fairness ==
    /\ WF_vars(OwnerTakes /\ UNCHANGED notShared)
    /\ \A h \in Conns : /\ WF_vars(Handle(h)) /\ SF_vars(Deliver(h))
                        /\ SF_vars(AckInput(h)) /\ SF_vars(Resync(h))

FairSpec == Spec /\ Fairness
-----------------------------------------------------------------------------
(* Properties.                                                             *)

Pcs == {"hello", "rejected", "claim", "announce", "attach", "subscribe", "greet",
        "frames", "apply", "busy", "resize", "acks", "exit", "flush", "select",
        "check", "detach", "mark", "done"}

\* Types of the handlers' state; a handler that looks at a frame has one, and
\* no two handlers share an epoch.  Input that waits for room in the owner's
\* queue is bounded, record for record: the cap is passed by less than one
\* record (drain_leftover).
TypeOK ==
    /\ epoch \in 0..Cardinality(Conns) /\ epochWatch \in 0..epoch /\ detached \in BOOLEAN
    /\ \A h \in Conns :
          LET c == conn[h]
          IN  /\ c.pc \in Pcs /\ c.epoch \in 0..epoch
              /\ c.wantSize \in Sizes \cup {NoSize} /\ c.wantAck \in 0..accepted
              /\ At(h, "frames") \/ At(h, "apply") => c.leftover # <<>>
              /\ c.pc \notin {"hello", "rejected", "claim"} => c.epoch > 0
              /\ peer[h].exit \in Codes \cup {NoExit} /\ lost[h] \in BOOLEAN
              /\ busy_bytes(c.busy) < BusyCap + Overhead + MaxInput
    /\ \A h, g \in Conns : conn[h].epoch = conn[g].epoch /\ h # g => conn[h].epoch = 0

\* Who is told the exit status has the final screen, whichever datagrams got
\* lost (queue_exit, push_fin).
ExitShowsFinalScreen ==
    \A h \in Conns : peer[h].exit # NoExit => /\ peer[h].exit = exit
                                              /\ peer[h].version = latest.version

\* The connection still counts: its handler serves it and is the newest.
Served(h) == Serving(h) /\ Current(h) /\ ~lost[h]
Open == exit = NoExit /\ ~closed

\* Input gets through: what found the owner's queue full gets there (the
\* timer's wake-ups retry it, no one else would), and the current peer is
\* told of every accepted input without asking again; for peers that do not
\* ping (a flood of pings keeps the budget of control frames full of Pongs,
\* which are queued before the acknowledgement).
InputGetsThrough ==
    []<>~\E h \in Conns : /\ Served(h) /\ Open
                          /\ conn[h].busy # <<>> \/ peer[h].acked < accepted

\* It gets the newest screen, whatever datagrams are lost (the resync timer).
LatestArrives ==
    []<>~\E h \in Conns : Served(h) /\ Open /\ peer[h].version < latest.version

\* A hangup that was read reaches the owner, however much input is in front
\* of it (drain_leftover stops at input without room, and goes on later).
HangupIsHeard ==
    \A h \in Conns : (Served(h) /\ Open /\ \E i \in DOMAIN conn[h].leftover :
                                              conn[h].leftover[i] = Hangup)
                        ~> (shutdown \/ ~Served(h) \/ ~Open)

\* It is told the exit status, also one published between lookup and
\* subscription, which no watch announces.
ExitArrives ==
    \A h \in Conns : (Served(h) /\ exit # NoExit)
                        ~> (peer[h].exit # NoExit \/ ~Current(h) \/ lost[h])

-----------------------------------------------------------------------------
(* What the documentation says and the code does not quite do.             *)

\* A session served by its newest handler is not counted among the detached
\* ones, which `kill_idle` destroys after a week (docs/11).
ServedIsAttached == detached => ~\E h \in Conns : Serving(h) /\ Current(h)
=============================================================================
