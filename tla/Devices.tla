-------------------------------- MODULE Devices --------------------------------
(***************************************************************************)
(* The device store and the enrolment nonces of the daemon: registrations  *)
(* and session tokens in memory and in devices.json, nonces in memory.     *)
(*                                                                         *)
(* Every method of DeviceStore works under its lock and is one step.  It   *)
(* changes the memory first and then writes all of it to the file by a     *)
(* rename, which either happens or does not.  Counters, names and keys of  *)
(* a registration are left out.                                            *)
(***************************************************************************)
EXTENDS Integers, FiniteSets

CONSTANTS SessionIdle,  \* SESSION_IDLE_SECS
          NonceTtl,     \* NONCE_TTL_SECS
          None          \* no user, no credential

ASSUME DevicesAssumption == SessionIdle \in Nat /\ NonceTtl \in Nat

VARIABLES store,        \* DeviceStore.inner
          disk,         \* devices.json
          nonces,       \* NonceStore.inner
          clock         \* the time of day

Empty == [regs |-> {}, tokens |-> {}]

DevicesInit ==
    /\ store = Empty /\ disk = Empty /\ nonces = {} /\ clock = 0

Uid(s, id) == (CHOOSE t \in s.tokens : t.id = id).uid

\* A store with one registration per credential.
register(s, uid, cred) ==
    [s EXCEPT !.regs = {r \in @ : r.cred # cred} \cup {[uid |-> uid, cred |-> cred]}]

find(s, cred) == {r \in s.regs : r.cred = cred}

\* root is the credential at the beginning of a chain of rotations; the code
\* does not know it (history).
issue_token(s, id, uid, cred, root, now) ==
    [s EXCEPT !.tokens = @ \cup {[id |-> id, uid |-> uid, cred |-> cred,
                                  root |-> root, seen |-> now]}]

validate_token(s, id, now) ==
    \E t \in s.tokens : t.id = id /\ now - t.seen <= SessionIdle

Without(s, gone) == [s EXCEPT !.tokens = @ \ gone]

rotate_drop(s, id) == Without(s, {t \in s.tokens : t.id = id})

revoke_credential(s, uid, cred) ==
    [Without(s, {t \in s.tokens : t.uid = uid /\ t.cred = cred})
        EXCEPT !.regs = {r \in @ : ~(r.uid = uid /\ r.cred = cred)}]

revoke_sessions(s, uid) == Without(s, {t \in s.tokens : t.uid = uid})

revoke_all(s, uid) ==
    [revoke_sessions(s, uid) EXCEPT !.regs = {r \in @ : r.uid # uid}]

\* Mutant: the file is written before the change is made.
Saved_before(s, ok) == store' = s /\ disk' = IF ok THEN store ELSE disk

\* persist: the whole store, after the change.
Saved(s, ok) == store' = s /\ disk' = IF ok THEN s ELSE disk

\* load, at the start of the daemon.
Reloaded == store' = disk /\ UNCHANGED disk
-----------------------------------------------------------------------------

\* A nonce for a user; the expired ones are dropped.
issue_nonce(id, uid) ==
    nonces' = {n \in nonces : n.expires > clock}
                  \cup {[id |-> id, uid |-> uid, expires |-> clock + NonceTtl]}

\* Mutant: a nonce is looked up, and stays until it expires.
consume_looks(id, now) ==
    nonces' = {n \in nonces : n.id # id \/ n.expires > now}

\* Whatever its age the nonce is spent.
consume(id, now) == nonces' = {n \in nonces : n.id # id}

Spendable(id, now) == \E n \in nonces : n.id = id /\ n.expires > now
NonceUid(id) == (CHOOSE n \in nonces : n.id = id).uid
=============================================================================
