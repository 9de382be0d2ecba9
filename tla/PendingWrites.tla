--------------------------- MODULE PendingWrites ---------------------------
(***************************************************************************)
(* The owner's queue of bytes still to be written to the PTY master        *)
(* (struct PendingWrites).  A chunk is one input message or one run of     *)
(* terminal-generated replies; only its length and how much of it is       *)
(* written matter, never its bytes.                                        *)
(***************************************************************************)
EXTENDS Integers, Sequences

CONSTANTS MaxPending,   \* MAX_PENDING: commands are paused from here on
          HardMax,      \* PENDING_HARD_MAX: what the queue may ever hold
          Generated     \* stands for the content of a generated chunk

ASSUME BudgetAssumption == /\ MaxPending \in Nat \ {0}
                           /\ HardMax \in Nat
                           /\ MaxPending <= HardMax

NoSeq == 0              \* `seq: None`; input sequence numbers start at 1

Chunk(seq, data, len) == [seq |-> seq, data |-> data, len |-> len, off |-> 0]

EmptyPending == [chunks |-> <<>>, unread |-> 0]

Fits(p, n) == p.unread + n <= HardMax

\* Mutant: a message goes in front of what waits.
push_input_front(p, seq, data, len) ==
    [chunks |-> <<Chunk(seq, data, len)>> \o p.chunks, unread |-> p.unread + len]

push_input(p, seq, data, len) ==
    [chunks |-> Append(p.chunks, Chunk(seq, data, len)), unread |-> p.unread + len]

\* Mutant: an empty reply is queued as an empty chunk.
push_generated_empty(p, n) ==
    [chunks |-> Append(p.chunks, Chunk(NoSeq, Generated, n)), unread |-> p.unread + n]

\* An empty reply leaves the queue alone; otherwise it joins a generated
\* chunk that is already last, or starts one.
push_generated(p, n) ==
    LET last == Len(p.chunks)
    IN  IF n = 0 THEN p
        ELSE [chunks |-> IF last > 0 /\ p.chunks[last].seq = NoSeq
                         THEN [p.chunks EXCEPT ![last].len = @ + n]
                         ELSE Append(p.chunks, Chunk(NoSeq, Generated, n)),
              unread |-> p.unread + n]

\* Length of write_buf: what is left of the front chunk, if there is one.
WriteLen(p) == IF p.chunks = <<>> THEN 0
               ELSE Head(p.chunks).len - Head(p.chunks).off

\* The front chunk once n of its bytes are written.  The owner only ever
\* writes from the front chunk, so the loop of `advance` runs once.
CompletesFront(p, n) == n = WriteLen(p)

\* Mutant: `unread` loses the whole front chunk at a partial write.
advance_whole(p, n) ==
    [chunks |-> IF CompletesFront(p, n) THEN Tail(p.chunks)
                ELSE [p.chunks EXCEPT ![1].off = @ + n],
     unread |-> p.unread - WriteLen(p)]

advance(p, n) ==
    [chunks |-> IF CompletesFront(p, n) THEN Tail(p.chunks)
                ELSE [p.chunks EXCEPT ![1].off = @ + n],
     unread |-> p.unread - n]
=============================================================================
