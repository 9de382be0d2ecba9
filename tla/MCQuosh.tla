------------------------------ MODULE MCQuosh ------------------------------
(* Small instances of Quosh for TLC. *)
EXTENDS Quosh, TLC

MCDataLen == [d \in Data |-> 1]

Env(conns, lost_, term, typed_, version, pings, events) ==
    [conns |-> conns, lost |-> lost_, created |-> "s1", term |-> term,
     typed |-> typed_, version |-> version, pings |-> pings, events |-> events]

One == {CHOOSE h \in Conns : TRUE}

\* Payloads differ, and are otherwise alike.
Payloads == Permutations(Data)

\* One of two connections dies while the user types two messages or quits, or
\* while screens are published and the shell exits; screens on a connection
\* that dies; one user types and pings.
Losing == {Env(Conns, 1, NoSize, 2, 0, {FALSE}, {}),
           Env(Conns, 1, NoSize, 0, 0, {FALSE}, {"Quit"}),
           Env(Conns, 1, NoSize, 0, 1, {FALSE}, {"Exit"}),
           Env(One, 1, NoSize, 0, 3, {FALSE}, {}),
           Env(One, 0, NoSize, 1, 0, BOOLEAN, {"Quit"})}

\* Typing across a reconnection; a terminal that changes its size.
Progress == {Env(Conns, 1, NoSize, 1, 0, {FALSE}, {}),
             Env(One, 0, "s1", 0, 0, {FALSE}, {"Winch"})}
=============================================================================
