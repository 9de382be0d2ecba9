----------------------------- MODULE SessionApi -----------------------------
(***************************************************************************)
(* The shared half of a terminal session (struct Session of session.rs):   *)
(* the fields through which transport handlers and the owner task talk,    *)
(* and the calls handlers make on it.                                      *)
(*                                                                         *)
(* ApiSpec is also the abstract specification of the owner: what a handler *)
(* may rely on without knowing about PTYs, write queues or timers.         *)
(* Session.tla models the real owner and is shown to implement it;         *)
(* Transport.tla is built on it.                                           *)
(***************************************************************************)
EXTENDS Protocol

CONSTANTS CmdQ,         \* CMD_Q, capacity of the command queue
          MaxSeq,       \* bound: input sequence numbers the clients use
          MaxVersion,   \* bound: resizes are not asked for beyond it
          MaxAck        \* bound: screen versions the clients confirm

ASSUME ApiAssumption ==
    /\ DataLen \in [Data -> Nat]
    /\ MaxInput \in Nat
    /\ CmdQ \in Nat \ {0}
    /\ ValidSizes \subseteq Sizes /\ ValidSizes # {}
    /\ Codes \subseteq Nat /\ 1 \in Codes
    /\ MaxSeq \in Nat /\ MaxVersion \in Nat /\ MaxAck \in Nat

VARIABLES
    cmds,       \* mpsc queue of OwnerMsg
    closed,     \* its receiver is gone
    shutdown,   \* AtomicBool set by request_hangup, with the Notify permit
    accepted,   \* last_seq, and the watch that announces it
    lastAcked,  \* newest screen version some client confirmed
    latest,     \* watch: newest published screen, or NoScreen
    exit,       \* watch: exit status, or NoExit
    size,       \* Session::size, emulator dimensions and winsize
    registered, \* the session is in the registry
    accLog      \* history: payloads accepted, in order of acceptance

shared == <<cmds, closed, shutdown, accepted, lastAcked, latest, exit, size,
            registered, accLog>>

OwnerMsg == [op : {"Input"}, seq : Nat, data : Data]
            \cup [op : {"Resize"}, size : ValidSizes]
            \cup [op : {"Ack"}, version : Nat]

ApiInit ==
    /\ cmds = <<>> /\ closed = FALSE /\ shutdown = FALSE
    /\ accepted = 0 /\ lastAcked = 0 /\ latest = NoScreen /\ exit = NoExit
    /\ size \in ValidSizes /\ registered = TRUE /\ accLog = <<>>
-----------------------------------------------------------------------------
(* What transport handlers call.  A refused call (bad payload or size,     *)
(* closed queue) and one answered Busy change nothing.                     *)

HasRoom == ~closed /\ Len(cmds) < CmdQ
InputOk(d) == DataLen[d] > 0 /\ DataLen[d] <= MaxInput
AckMax(v) == IF v > lastAcked THEN v ELSE lastAcked

try_input(seq, d) ==
    /\ InputOk(d) /\ HasRoom
    /\ cmds' = Append(cmds, Input(seq, d))
    /\ UNCHANGED <<closed, shutdown, accepted, lastAcked, latest, exit, size,
                   registered, accLog>>

try_resize(s) ==
    /\ s \in ValidSizes /\ HasRoom
    /\ cmds' = Append(cmds, Resize(s))
    /\ UNCHANGED <<closed, shutdown, accepted, lastAcked, latest, exit, size,
                   registered, accLog>>

\* The confirmation counts even when the queue has no room for it.
try_ack(v) ==
    /\ cmds' = IF HasRoom THEN Append(cmds, Ack(v)) ELSE cmds
    /\ lastAcked' = AckMax(v)
    /\ UNCHANGED <<closed, shutdown, accepted, latest, exit, size, registered, accLog>>

request_hangup ==
    /\ shutdown' = TRUE
    /\ UNCHANGED <<cmds, closed, accepted, lastAcked, latest, exit, size,
                   registered, accLog>>

\* Any number of handlers, current or superseded, calling in any order.
Handler ==
    \/ \E seq \in 0..MaxSeq, d \in Data : try_input(seq, d)
    \/ \E s \in Sizes : latest.version + Len(cmds) < MaxVersion /\ try_resize(s)
    \/ \E v \in 1..latest.version : v <= MaxAck /\ try_ack(v)
    \/ request_hangup
-----------------------------------------------------------------------------
(* What the owner may do.                                                  *)

\* A newer screen: at least as much output, at least as late a checkpoint,
\* and never a checkpoint for input that was not accepted.
Newer(s) ==
    /\ s.version > latest.version /\ s.frame >= latest.frame
    /\ s.echoAck >= latest.echoAck /\ s.echoAck <= accepted

\* Mutant: input is taken again after a reconnection.
ApiTake_again ==
    /\ cmds # <<>> /\ exit = NoExit
    /\ cmds' = Tail(cmds)
    /\ LET m == Head(cmds)
       IN  IF m.op = "Input"
           THEN accepted' = m.seq /\ accLog' = Append(accLog, m.data)
           ELSE UNCHANGED <<accepted, accLog>>
    /\ UNCHANGED <<size, latest, lastAcked, closed, shutdown, exit, registered>>

\* One command is taken.  The next input in sequence is always accepted, any
\* other input is dropped.
ApiTake ==
    /\ cmds # <<>> /\ exit = NoExit
    /\ cmds' = Tail(cmds)
    /\ LET m == Head(cmds)
       IN  \/ /\ m.op = "Input" /\ m.seq = accepted + 1
              /\ accepted' = m.seq /\ accLog' = Append(accLog, m.data)
              /\ UNCHANGED <<size, latest, lastAcked>>
           \/ /\ m.op = "Input" /\ m.seq # accepted + 1
              /\ UNCHANGED <<accepted, accLog, size, latest, lastAcked>>
           \/ /\ m.op = "Resize"
              /\ size' = m.size /\ Newer(latest') /\ latest'.size = m.size
              /\ UNCHANGED <<accepted, accLog, lastAcked>>
           \/ /\ m.op = "Ack" /\ lastAcked' = AckMax(m.version)
              /\ UNCHANGED <<accepted, accLog, size, latest>>
    /\ UNCHANGED <<closed, shutdown, exit, registered>>

ApiPublish ==
    /\ exit = NoExit
    /\ Newer(latest') /\ latest'.size = size
    /\ UNCHANGED <<cmds, closed, shutdown, accepted, lastAcked, exit, size,
                   registered, accLog>>

ApiExit ==
    /\ exit = NoExit /\ ~closed
    /\ exit' \in Codes
    /\ UNCHANGED <<cmds, closed, shutdown, accepted, lastAcked, latest, size,
                   registered, accLog>>

\* The receiver goes after the exit status is out, or before the owner did
\* anything at all (its AsyncFd could not be made).
ApiClose ==
    /\ ~closed
    /\ exit # NoExit \/ (latest = NoScreen /\ accepted = 0)
    /\ closed' = TRUE /\ registered' = FALSE /\ cmds' = <<>>
    /\ UNCHANGED <<shutdown, accepted, lastAcked, latest, exit, size, accLog>>

ApiNext == Handler \/ ApiTake \/ ApiPublish \/ ApiExit \/ ApiClose

ApiSpec == ApiInit /\ [][ApiNext]_shared
=============================================================================
