------------------------------- MODULE Registry -------------------------------
(***************************************************************************)
(* The registry of sessions: who puts sessions in and takes them out, and  *)
(* the attachment of transports as far as it decides which sessions are    *)
(* idle.  What an owner does is the subject of Session and Server; here it *)
(* runs, is asked to hang up, and ends.                                    *)
(***************************************************************************)
EXTENDS Integers, Sequences, FiniteSets

CONSTANTS MaxSessions,  \* MAX_SESSIONS
          MaxPerUid,    \* MAX_PER_UID
          IdleSecs      \* IDLE_SECS

VARIABLES sess,         \* every session ever made: uid, whether its owner runs
                        \* and was told to hang up, transport epoch, last_detach
          registry      \* Daemon.sessions: the numbers of those in the map

NoTime == -1            \* last_detach = None

ASSUME RegistryAssumption ==
    MaxSessions \in Nat /\ MaxPerUid \in Nat /\ IdleSecs \in Nat

RegistryInit == sess = <<>> /\ registry = {}

OfUid(uid) == {s \in registry : sess[s].uid = uid}

\* Mutant: one session too many.
Full_loose(uid) ==
    \/ Cardinality(registry) > MaxSessions
    \/ Cardinality(OfUid(uid)) > MaxPerUid

Full(uid) ==
    \/ Cardinality(registry) >= MaxSessions
    \/ Cardinality(OfUid(uid)) >= MaxPerUid

\* detached_secs
Idle(s, now) == sess[s].detached # NoTime /\ now - sess[s].detached >= IdleSecs
IdleOf(uid, now) == {s \in OfUid(uid) : Idle(s, now)}

\* spawn_session under the lock; the owner is started right after it.
Spawned(uid, now) ==
    /\ sess' = Append(sess, [uid |-> uid, runs |-> TRUE, hup |-> FALSE,
                             epoch |-> 0, detached |-> now])
    /\ registry' = registry \cup {Len(sess) + 1}

HungUp(ss) == sess' = [s \in DOMAIN sess |->
                          [sess[s] EXCEPT !.hup = @ \/ s \in ss]]

\* Mutant: idle sessions are only forgotten.
Killed_forgets(ss) == registry' = registry \ ss /\ UNCHANGED sess

\* Sessions leave the map and are told to hang up (kill_idle, destroy).
Killed(ss) == registry' = registry \ ss /\ HungUp(ss)

\* The owner ends, told to or because its program has ended, and takes its
\* session out of the map.
OwnerEnds(s) ==
    /\ sess[s].runs
    /\ sess' = [sess EXCEPT ![s].runs = FALSE]
    /\ registry' = registry \ {s}
-----------------------------------------------------------------------------
(* claim_transport and detach_if_epoch, between their awaits.              *)

Claim(s) == sess' = [sess EXCEPT ![s].epoch = @ + 1]
ClearDetach(s) == sess' = [sess EXCEPT ![s].detached = NoTime]
SetDetach(s, now) == sess' = [sess EXCEPT ![s].detached = now]
=============================================================================
