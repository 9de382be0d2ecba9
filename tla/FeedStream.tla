------------------------------ MODULE FeedStream ------------------------------
(***************************************************************************)
(* A writer and its FrameFeed: what may be queued, in any order, and the   *)
(* stream it comes out on.  Shows what the two ends of a connection rely   *)
(* on: nothing queued is left waiting, control frames keep their order,    *)
(* the newest screen wins and the final frame follows it.                  *)
(***************************************************************************)
EXTENDS FrameFeed

CONSTANTS Lens,         \* sizes of control and screen frames
          MaxCtrl,      \* bound: control frames queued, ever
          MaxScreen     \* bound: screens queued, ever

ASSUME StreamAssumption ==
    Lens \subseteq Nat \ {0} /\ MaxCtrl \in Nat /\ MaxScreen \in Nat

VARIABLES feed,
          wire,         \* frames completely written, in order
          nCtrl,        \* control frames taken
          dropped,      \* control frames push_fin threw away
          nScreen,      \* screens pushed; a screen is numbered by it
          finished      \* the final frame was pushed

streamVars == <<feed, wire, nCtrl, dropped, nScreen, finished>>

Frame(kind, n, len) == [kind |-> kind, n |-> n, len |-> len]
StreamFrames == [kind : {"ctrl", "screen", "fin"}, n : Nat, len : Nat \ {0}]

StreamInit ==
    /\ feed = EmptyFeed /\ wire = <<>>
    /\ nCtrl = 0 /\ dropped = {} /\ nScreen = 0 /\ finished = FALSE

\* After the final frame its callers only flush (queue_exit, request_hangup).
PushCtrl ==
    /\ ~finished /\ nCtrl < MaxCtrl
    /\ \E len \in Lens :
          LET frame == Frame("ctrl", nCtrl + 1, len)
          IN  /\ feed' = push_ctrl(feed, frame)
              /\ nCtrl' = IF CtrlFits(feed, frame) THEN nCtrl + 1 ELSE nCtrl
    /\ UNCHANGED <<wire, dropped, nScreen, finished>>

PushScreen ==
    /\ ~finished /\ nScreen < MaxScreen
    /\ nScreen' = nScreen + 1
    /\ \E len \in Lens : feed' = push_screen(feed, Frame("screen", nScreen + 1, len))
    /\ UNCHANGED <<wire, nCtrl, dropped, finished>>

PushFin ==
    /\ ~finished
    /\ finished' = TRUE
    /\ feed' = push_fin(feed, Frame("fin", 1, 1))
    /\ dropped' = {feed.ctrl[i].n : i \in DOMAIN feed.ctrl}
    /\ UNCHANGED <<wire, nCtrl, nScreen>>

\* The stream takes some of the bytes offered.
Write ==
    /\ writing(feed)
    /\ \E n \in 1..feed.left :
          /\ feed' = feed_advance(feed, n)
          /\ wire' = IF n = feed.left THEN Append(wire, Head(feed.out)) ELSE wire
    /\ UNCHANGED <<nCtrl, dropped, nScreen, finished>>

StreamNext == PushCtrl \/ PushScreen \/ PushFin \/ Write

StreamSpec == StreamInit /\ [][StreamNext]_streamVars

-----------------------------------------------------------------------------
(* Properties.                                                             *)

FeedType ==
    [out : Seq(StreamFrames), left : Nat, screen : Seq(StreamFrames), ctrl : Seq(StreamFrames),
     ctrlBytes : Int, fin : Seq(StreamFrames)]

\* ctrlBytes is the sum of the control frames queued: there are running totals
\* over them that end in it.
BytesExact ==
    \E total \in [0..Len(feed.ctrl) -> 0..CtrlCap] :
        /\ total[0] = 0 /\ total[Len(feed.ctrl)] = feed.ctrlBytes
        /\ \A i \in 1..Len(feed.ctrl) : total[i] = total[i - 1] + feed.ctrl[i].len

\* Types; at most one frame in flight, one screen and one final frame; the
\* running byte count of control frames is exact, and within the budget
\* (CTRL_CAP).
TypeOK ==
    /\ feed \in FeedType /\ wire \in Seq(StreamFrames)
    /\ Len(feed.out) <= 1 /\ Len(feed.screen) <= 1 /\ Len(feed.fin) <= 1
    /\ nCtrl \in Nat /\ nScreen \in Nat /\ finished \in BOOLEAN
    /\ dropped \subseteq Nat
    /\ BytesExact

\* The write arm of both select loops is only enabled by writing(): whenever
\* anything is queued some frame is in flight, with bytes left, so a queued
\* frame never waits for an unrelated event (pump at the end of every push).
NeverIdle == /\ ~is_empty(feed) => writing(feed)
             /\ writing(feed) <=> feed.left > 0

\* All frames of the stream, those that wait as control frames included.
Line == wire \o feed.out \o feed.ctrl

\* Control frames taken come out once each and in order; only push_fin may
\* throw one away (Hello before Input, acknowledgements in order).
CtrlFifo ==
    LET ctrls == {i \in DOMAIN Line : Line[i].kind = "ctrl"}
    IN  /\ \A i, j \in ctrls : i < j => Line[i].n < Line[j].n
        /\ {Line[i].n : i \in ctrls} = 1..nCtrl \ dropped

\* A final frame on its way follows the newest screen queued before it: who
\* reads an Exit has been sent the final screen (queue_exit).
FinAfterScreen ==
    LET sent == wire \o feed.out
    IN  \A i \in DOMAIN sent : sent[i].kind = "fin" =>
            /\ i = Len(sent)
            /\ feed.screen = <<>> /\ feed.ctrl = <<>> /\ feed.fin = <<>>
            /\ nScreen > 0 => \E j \in 1..(i - 1) : sent[j].kind = "screen"
                                                   /\ sent[j].n = nScreen

=============================================================================
