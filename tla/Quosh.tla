-------------------------------- MODULE Quosh --------------------------------
(***************************************************************************)
(* One session end to end: the client of Client, the server's handlers of  *)
(* Transport, the owner by its abstract specification (SessionApi), and    *)
(* the network between them.  The client opens one connection after the    *)
(* other; each carries two reliable streams and unreliable datagrams, may  *)
(* die at any moment, and may still deliver long after the client gave up  *)
(* on it.                                                                  *)
(***************************************************************************)
EXTENDS Transport, Client, FiniteSets

CONSTANT MaxWire        \* bound: frames on their way in a stream

\* An environment: the connections that can be made (conns) and how many of
\* them die (lost), the size the session was created with (created) and that
\* of the user's terminal (term), input messages the user types (typed),
\* whether a tick may find a ping due (pings, a set of Booleans), screens the
\* owner publishes of its own accord (version), and what else users and shells
\* do (events).
ASSUME QuoshAssumption ==
    /\ MaxWire \in Nat \ {0}
    /\ Bounds \subseteq [conns : SUBSET Conns, lost : Nat, typed : Nat, version : Nat,
                        created : ValidSizes, term : Sizes \cup {NoSize},
                        pings : SUBSET BOOLEAN \ {{}},
                        events : SUBSET {"Quit", "Exit", "Winch"}]

NoConn == "noconn"

VARIABLES route,        \* the connection the client uses or used last
          fresh,        \* connections not opened yet
          up, down,     \* the streams of each connection
          air,          \* datagrams on their way, on each connection
          lost          \* its path is dead

network == <<route, fresh, up, down, air, lost>>
vars == <<shared, bookkeeping, conn, clientVars, network>>

Init ==
    /\ ApiInit /\ TransportInit /\ ClientInit
    /\ size = bound.created
    /\ route = NoConn /\ fresh = bound.conns
    /\ up = [h \in Conns |-> <<>>] /\ down = [h \in Conns |-> <<>>]
    /\ air = [h \in Conns |-> {}]
    /\ lost = [h \in Conns |-> FALSE]

notClient == <<shared, bookkeeping, conn>>

\* The client left, or the path to it is dead; the handler ended.  What is
\* under way to someone who is gone is gone.
Left(h) == /\ h \in bound.conns \ fresh
           /\ lost[h] \/ route # h \/ link \in {"down", "ended", "failed"}
Over(h) == conn[h].pc \in {"detach", "mark", "done", "rejected"}

Purge == /\ down' = [h \in Conns |-> IF Left(h)' THEN <<>> ELSE down[h]]
         /\ air' = [h \in Conns |-> IF Left(h)' THEN {} ELSE air[h]]
-----------------------------------------------------------------------------
(* The client's side.                                                      *)

\* Connections not opened yet are all alike, and the next is one of them.
Open(h) ==
    /\ h \in fresh /\ h = CHOOSE g \in fresh : TRUE
    /\ Connected
    /\ route' = h /\ fresh' = fresh \ {h}
    /\ UNCHANGED <<notClient, up, down, air, lost>>

\* What was written before the path died may still arrive, what is written
\* later does not.
ClientSends ==
    /\ ClientWrite
    /\ Len(up[route]) < MaxWire
    /\ up' = IF lost[route] \/ Over(route) THEN up
             ELSE [up EXCEPT ![route] = Append(@, ClientOutgoing)]
    /\ UNCHANGED <<notClient, route, fresh, down, air, lost>>

ClientReceives ==
    /\ link = "up" /\ down[route] # <<>> /\ ~lost[route]
    /\ ReceiveFrame(Head(down[route]))
    /\ down' = [down EXCEPT ![route] = Tail(@)]
    /\ UNCHANGED <<notClient, route, fresh, up, air, lost>>

\* Datagrams come in any order, or never.
DatagramArrives ==
    /\ link = "up" /\ ~lost[route]
    /\ \E s \in air[route] :
          /\ ReceiveDatagram(s)
          /\ air' = [air EXCEPT ![route] = @ \ {s}]
    /\ UNCHANGED <<notClient, route, fresh, up, down, lost>>

User ==
    /\ \/ \E d \in Data : Type(d)
       \/ "Winch" \in bound.events /\ client.size = bound.term      \* bound: once
          /\ \E s \in ValidSizes \ {bound.term} : Winch(s)
       \/ "Quit" \in bound.events /\ Quit
       \/ Tick \/ FlushEnds
    /\ UNCHANGED <<notClient, route, fresh, up, lost>>
    /\ Purge

\* The handler is gone, cleanly or not, or the path is dead.
LinkFails ==
    /\ link = "up"
    /\ \/ conn[route].pc \in {"done", "rejected"} /\ (StreamEnd \/ TransportError)
       \/ lost[route] /\ TransportError
    /\ UNCHANGED <<notClient, route, fresh, up, lost>>
    /\ Purge
-----------------------------------------------------------------------------
(* The server's side.                                                      *)

sides == <<clientVars, route, fresh>>

HelloArrives(h) ==
    /\ up[h] # <<>> /\ Head(up[h]).op = "Hello"
    /\ Lookup(h, Head(up[h]).size)
    /\ up' = [up EXCEPT ![h] = Tail(@)]
    /\ down' = IF registered \/ Left(h) THEN down ELSE [down EXCEPT ![h] = Append(@, Error)]
    /\ UNCHANGED <<sides, air, lost>>

PurgeUp(h) == up' = IF Over(h)' THEN [up EXCEPT ![h] = <<>>] ELSE up

Handle(h) == Proceed(h) /\ PurgeUp(h) /\ UNCHANGED <<sides, down, air, lost>>

ServerReads(h) ==
    /\ \E n \in 1..Len(up[h]) :
          /\ read_more(h, SubSeq(up[h], 1, n))
          /\ up' = [up EXCEPT ![h] = SubSeq(@, n + 1, Len(@))]
    /\ UNCHANGED <<sides, down, air, lost>>

ServerSends(h) ==
    /\ Write(h)
    /\ Len(down[h]) < MaxWire
    /\ down' = IF Left(h) THEN down
               ELSE [down EXCEPT ![h] = Append(@, Outgoing(h))]
    /\ UNCHANGED <<sides, up, air, lost>>

SendLatest(h) ==
    /\ \/ OnLatest(h, "stream") /\ UNCHANGED air
       \/ OnLatest(h, "datagram") 
          /\ air' = IF Left(h) THEN air ELSE [air EXCEPT ![h] = @ \cup {latest}]
    /\ UNCHANGED <<sides, up, down, lost>>

AckInput(h) == OnAccepted(h) /\ UNCHANGED <<sides, up, down, air, lost>>
Resync(h) == OnResync(h) /\ UNCHANGED <<sides, up, down, air, lost>>

HandlerFails(h) ==
    /\ Left(h)
    /\ Broken(h) /\ PurgeUp(h)
    /\ UNCHANGED <<sides, down, air, lost>>

Lose(h) ==
    /\ h = route /\ link \in {"up", "flushing"} /\ ~lost[h]
    /\ Cardinality({g \in Conns : lost[g]}) < bound.lost
    /\ lost' = [lost EXCEPT ![h] = TRUE]
    /\ UNCHANGED <<notClient, sides, up>>
    /\ Purge

NextScreen(s) == [version |-> latest.version + 1, echoAck |-> accepted,
                  frame |-> latest.frame + 1, size |-> s]

notShared == <<bookkeeping, conn, clientVars, network>>

OwnerTakes ==
    /\ cmds # <<>>
    /\ latest' = IF Head(cmds).op = "Resize" THEN NextScreen(Head(cmds).size) ELSE latest
    /\ ApiTake
    /\ UNCHANGED notShared

OwnerPublishes ==
    /\ latest.version < bound.version
    /\ latest' = NextScreen(size)
    /\ ApiPublish
    /\ UNCHANGED notShared

OwnerEnds == "Exit" \in bound.events /\ (ApiExit \/ ApiClose) /\ UNCHANGED notShared

Next ==
    \/ ClientSends \/ ClientReceives \/ DatagramArrives \/ User \/ LinkFails
    \/ OwnerTakes \/ OwnerPublishes \/ OwnerEnds
    \/ \E h \in Conns :
          \/ Open(h) \/ HelloArrives(h) \/ Handle(h) \/ ServerReads(h) \/ ServerSends(h)
          \/ SendLatest(h) \/ AckInput(h) \/ Resync(h) \/ HandlerFails(h) \/ Lose(h)

Spec == Init /\ [][Next]_vars

\* Both loops take every arm that stays or comes ready again and again
\* (`select!` polls in random order), a live path delivers, a dead one is
\* noticed, the client reconnects, and the owner takes commands.
Fairness ==
    /\ WF_vars(ClientSends) /\ WF_vars(ClientReceives) /\ WF_vars(LinkFails)
    /\ WF_vars(OwnerTakes) /\ WF_vars(\E h \in Conns : Open(h))
    /\ \A h \in Conns :
          /\ WF_vars(Handle(h)) /\ WF_vars(HelloArrives(h))
          /\ SF_vars(ServerReads(h)) /\ SF_vars(ServerSends(h)) /\ SF_vars(AckInput(h))
          /\ WF_vars(Resync(h))

FairSpec == Spec /\ Fairness
-----------------------------------------------------------------------------
(* Properties.                                                             *)

\* Exactly once, in order, across reconnections, although every reconnection
\* sends unacknowledged input again and old handlers may still be delivering:
\* what the session accepted is a prefix of what the user typed, and the rest
\* is still queued at the client, in order, for this connection or the next.
ExactlyOnce ==
    LET u == client.unacked
    IN  /\ accepted = Len(accLog) /\ accepted <= Len(typed)
        /\ \A i \in DOMAIN accLog : accLog[i] = typed[i]
        /\ \A s \in (accepted + 1)..Len(typed) : \E i \in DOMAIN u : u[i].seq = s
        /\ \A i \in DOMAIN u : u[i].data = typed[u[i].seq]
        /\ \A i, j \in DOMAIN u : i < j => u[i].seq < u[j].seq

\* The client shows what the server takes it to show: a screen no older than
\* the newest confirmed one, which the server stops repeating, and the final
\* screen once the client was told the exit status (apply_screen, queue_exit).
ShownAsTold ==
    /\ lastAcked <= client.confirmed.version
    /\ client.exitCode # NoExit => /\ client.exitCode = exit
                                   /\ client.confirmed = latest

\* Only a user who quits ends the shell: no lost, replaced or broken
\* connection does.
LossNeverHangsUp == shutdown => client.hungup

\* The screen shown never gets older, whatever the order in which datagrams
\* and streams, also of different connections, deliver.
ScreenNeverOlder == [][client'.confirmed.version >= client.confirmed.version]_vars

OutOfConns == link = "down" /\ fresh = {}

\* What is typed is accepted and acknowledged, across reconnections: the
\* client's queue runs empty again, as long as the client runs and can still
\* connect.
QueueEmpties ==
    []<>(client.unacked = <<>> \/ link \in {"ended", "failed"} \/ OutOfConns)

\* The session takes the size of the user's terminal, although the size may
\* wait in the handler for room in the command queue; for one connection and
\* a feed with room for the Resize (set_size never tries again).
SizeArrives ==
    []<>(size = client.size \/ client.size = NoSize \/ link # "up")

\* A superseded handler ends, also one that subscribed too late for the
\* announcement of its successor, and although its dead connection never
\* tells it anything.
SupersededEnds == []<>~\E h \in Conns : Serving(h) /\ ~Current(h)
=============================================================================
