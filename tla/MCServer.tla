------------------------------ MODULE MCServer ------------------------------
(* Small instances of Server for TLC. *)
EXTENDS Server, TLC

MCDataLen == [d \in Data |-> IF d = "a" THEN 1 ELSE 0]

Env(conns, lost_, ops, seq, left, version, exits) ==
    [conns |-> conns, lost |-> lost_, ops |-> ops, seq |-> seq, left |-> left,
     version |-> version, exits |-> exits]

\* Two handlers race for the session: typing, frames that may be bad; screens,
\* confirmations and a dying connection.
Races == {Env(Conns, 0, {"Input"}, 1, 2, 0, FALSE),
          Env(Conns, 1, {"Ack"}, 0, 1, 1, TRUE)}

\* One handler with full queues on both sides, peers that do not ping; one
\* that loses datagrams.
Progress == {Env(Conns, 0, {"Input", "Hangup"}, 2, 3, 0, TRUE),
             Env(Conns, 1, {"Ack", "Resize"}, 0, 1, 1, TRUE)}

\* Two handlers that attach and detach, and one frame of input in each.
Attaching == {Env(Conns, 1, {"Input"}, 1, 1, 0, TRUE)}

\* Handlers are interchangeable.
Sym == Permutations(Conns)
=============================================================================
