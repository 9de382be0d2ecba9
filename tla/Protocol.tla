------------------------------ MODULE Protocol ------------------------------
(***************************************************************************)
(* What a client and a session say to each other: payloads, terminal       *)
(* sizes, exit statuses, and the frames of the control stream (quosh-proto)*)
(* without their encoding.                                                 *)
(***************************************************************************)
EXTENDS Integers, Sequences

CONSTANTS Data,         \* input payloads a client may type
          DataLen,      \* their lengths in bytes, [Data -> Nat]
          MaxInput,     \* MAX_INPUT_BYTES
          Sizes,        \* terminal sizes a client may ask for
          ValidSizes,   \* the ones validate_dims lets through
          NoSize,       \* a Hello with no rows or no columns
          Codes         \* exit statuses of a shell; 1 when it has no code

NoScreen == [version |-> 0, echoAck |-> 0, frame |-> 0, size |-> "none"]
NoExit == -1            \* `None`; exit statuses are naturals

\* Client to server.  Input, Resize and Ack are also the owner's commands.
Hello(s) == [op |-> "Hello", size |-> s]
Input(seq, d) == [op |-> "Input", seq |-> seq, data |-> d]
Resize(s) == [op |-> "Resize", size |-> s]
Ack(v) == [op |-> "Ack", version |-> v]
Hangup == [op |-> "Hangup"]
Ping == [op |-> "Ping"]

\* Server to client; all of one length, FeedStream is about lengths.
HelloOk == [kind |-> "HelloOk", len |-> 1]
Screen(s) == [kind |-> "Screen", screen |-> s, len |-> 1]
InputAck(n) == [kind |-> "InputAck", seq |-> n, len |-> 1]
Pong == [kind |-> "Pong", len |-> 1]
Exit(st) == [kind |-> "Exit", status |-> st, len |-> 1]
Error == [kind |-> "Error", len |-> 1]
=============================================================================
