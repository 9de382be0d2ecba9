-------------------------------- MODULE Daemon --------------------------------
(***************************************************************************)
(* The daemon around the sessions: browsers that authenticate (auth::run), *)
(* transports that attach (handle_incoming), and the helper's operations,  *)
(* all running concurrently on one device store, one set of nonces and one *)
(* registry, each behind a lock of its own.                                *)
(*                                                                         *)
(* A handler's step is what it does under one hold of a lock.  Any write   *)
(* of devices.json may fail, and the daemon may crash between two steps.   *)
(* Whether a passkey's answer verifies (webauthn) is a choice.             *)
(***************************************************************************)
EXTENDS Devices, Registry

CONSTANTS Handlers,     \* connections
          Helpers,      \* helper connections in create
          Uids, Creds,
          Bounds        \* bound: the environments to explore

ASSUME DaemonAssumption == None \notin Uids

VARIABLES hs,           \* the handlers
          creating,     \* the helpers: the user between create's two holds
          issued,       \* session tokens made
          invited,      \* nonces made
          known,        \* tokens that have reached a browser
          dropped,      \* history: tokens whose removal was reported done
          barred,       \* history: credentials whose revocation was reported,
                        \* and how many tokens had been made by then
          stopping,     \* whether the daemon was told to stop
          doomed,       \* the sessions it has yet to destroy
          left          \* what the environment may still do

auth == <<store, disk, nonces, issued, invited, known, dropped, barred>>
registered == <<sess, registry>>
shutdown == <<stopping, doomed>>
\* What the handshake leaves alone.
elsewhere == <<registered, clock, creating, shutdown>>
vars == <<auth, registered, clock, hs, creating, shutdown, left>>

\* now is read once, when the handshake starts; wants is the session named
\* in the AuthHello, 0 for a new one; uid is None for a command line client.
NoHandler == [pc |-> "idle", now |-> 0, token |-> 0, uid |-> None, cred |-> None,
              root |-> None, issued |-> 0, wants |-> 0, epoch |-> 0]

Init ==
    /\ DevicesInit /\ RegistryInit
    /\ hs = [h \in Handlers |-> NoHandler]
    /\ creating = [k \in Helpers |-> None]
    /\ issued = 0 /\ invited = 0 /\ known = {} /\ dropped = {} /\ barred = {}
    /\ stopping = FALSE /\ doomed = {}
    /\ left \in Bounds

May(what) == left[what] > 0
Spends(what) == left' = [left EXCEPT ![what] = @ - 1]

\* A write that works costs nothing, one that fails is bounded.
Writes(s, ok) ==
    /\ ok \/ May("failures")
    /\ Saved(s, ok)
    /\ IF ok THEN UNCHANGED left ELSE Spends("failures")

At(h, pc) == hs[h].pc = pc
Goto(h, pc) == hs' = [hs EXCEPT ![h].pc = pc]
Becomes(h, fields) ==
    hs' = [hs EXCEPT ![h] = [f \in DOMAIN @ |->
              IF f \in DOMAIN fields THEN fields[f] ELSE @[f]]]
Ends(h) == hs' = [hs EXCEPT ![h] = NoHandler]
-----------------------------------------------------------------------------
(* The authentication handshake.                                           *)

\* AuthHello: a live token takes the fast path, otherwise a challenge is sent.
Hello(h, token, wants) ==
    /\ ~stopping /\ At(h, "idle") /\ May("browsers") /\ Spends("browsers")
    /\ token \in known \cup {0} /\ wants \in 0..Len(sess)
    /\ Becomes(h,
         IF token # 0 /\ validate_token(store, token, clock)
         THEN [pc |-> "rotate", now |-> clock, token |-> token, wants |-> wants,
               uid |-> Uid(store, token),
               root |-> (CHOOSE t \in store.tokens : t.id = token).root]
         ELSE [pc |-> "challenge", now |-> clock, wants |-> wants])
    /\ UNCHANGED <<auth, elsewhere>>

\* rotate_token drops the old token under one hold of the lock ...
Rotate(h, ok) ==
    /\ At(h, "rotate")
    /\ Writes(rotate_drop(store, hs[h].token), ok)
    /\ IF ok THEN Goto(h, "issue") ELSE Ends(h)
    /\ dropped' = IF ok THEN dropped \cup {hs[h].token} ELSE dropped
    /\ UNCHANGED <<nonces, issued, invited, known, barred, elsewhere>>

\* Mutant: the reply does not wait for the file.
Issue_unsaved(h, ok) ==
    /\ At(h, "issue")
    /\ Writes(issue_token(store, issued + 1, hs[h].uid, hs[h].cred, hs[h].root, hs[h].now), ok)
    /\ issued' = issued + 1
    /\ Becomes(h, [pc |-> "resolve", issued |-> issued + 1])
    /\ UNCHANGED <<nonces, invited, known, dropped, barred, elsewhere>>

\* ... and issues the new one under another; a ceremony ends here too.
Issue(h, ok) ==
    /\ At(h, "issue")
    /\ Writes(issue_token(store, issued + 1, hs[h].uid, hs[h].cred, hs[h].root, hs[h].now), ok)
    /\ issued' = issued + 1
    /\ IF ok THEN Becomes(h, [pc |-> "resolve", issued |-> issued + 1]) ELSE Ends(h)
    /\ UNCHANGED <<nonces, invited, known, dropped, barred, elsewhere>>

\* Mutant: a session is resumed for whoever names it.
Own_any(s, uid) == s \in registry

Own(s, uid) == s \in registry /\ sess[s].uid = uid

\* resolve_session: a new session, within the limits, or one of the user's own.
\* Its token may be wrong, and before it forward_hashes and in it the start of
\* the shell may fail.
Resolve(h) ==
    /\ At(h, "resolve")
    /\ \/ /\ hs[h].wants = 0 /\ ~Full(hs[h].uid)
          /\ Spawned(hs[h].uid, clock)
          /\ Becomes(h, [pc |-> "reply", wants |-> Len(sess) + 1])
       \/ /\ hs[h].wants # 0 /\ Own(hs[h].wants, hs[h].uid)
          /\ Goto(h, "reply") /\ UNCHANGED registered
       \/ Ends(h) /\ UNCHANGED registered
    /\ UNCHANGED <<auth, clock, creating, shutdown, left>>

\* send_ok: AuthOk reaches the browser, or the connection is lost with it.
Reply(h, lost) ==
    /\ At(h, "reply")
    /\ IF lost THEN Ends(h) /\ UNCHANGED known
       ELSE Goto(h, "hello") /\ known' = known \cup {hs[h].issued}
    /\ UNCHANGED <<store, disk, nonces, issued, invited, dropped, barred,
                   elsewhere, left>>

\* do_enroll: the nonce is spent first, by the time the handshake began.
Enroll(h, nonce) ==
    /\ At(h, "challenge") /\ nonce \in 1..invited
    /\ consume(nonce, hs[h].now)
    /\ IF Spendable(nonce, hs[h].now)
       THEN Becomes(h, [pc |-> "register", uid |-> NonceUid(nonce)])
       ELSE Ends(h)
    /\ UNCHANGED <<store, disk, issued, invited, known, dropped, barred,
                   elsewhere, left>>

\* The registration verifies and is stored, in place of another user's.
Register(h, cred, ok) ==
    /\ At(h, "register")
    /\ Writes(register(store, hs[h].uid, cred), ok)
    /\ IF ok THEN Becomes(h, [pc |-> "issue", cred |-> cred, root |-> cred]) ELSE Ends(h)
    /\ UNCHANGED <<nonces, issued, invited, known, dropped, barred, elsewhere>>

\* do_assert: the registration is looked up ...
Assertion(h, cred) ==
    /\ At(h, "challenge")
    /\ IF find(store, cred) = {} THEN Ends(h)
       ELSE \E r \in find(store, cred) :
                Becomes(h, [pc |-> "touch", uid |-> r.uid, cred |-> cred, root |-> cred])
    /\ UNCHANGED <<auth, elsewhere, left>>

\* ... and, once the answer has verified, saved with its new counter.
Touch(h, ok) ==
    /\ At(h, "touch")
    /\ Writes(store, ok)
    /\ IF ok THEN Goto(h, "issue") ELSE Ends(h)
    /\ UNCHANGED <<nonces, issued, invited, known, dropped, barred, elsewhere>>

\* The answer does not verify, is another message, or the browser is gone.
Refuse(h) ==
    /\ hs[h].pc \in {"challenge", "register", "touch", "hello"}
    /\ Ends(h)
    /\ UNCHANGED <<auth, elsewhere, left>>
-----------------------------------------------------------------------------
(* Attaching to a session.                                                 *)

\* A command line client sends its Hello at once.
Connect(h, s) ==
    /\ ~stopping /\ At(h, "idle") /\ May("terminals") /\ Spends("terminals")
    /\ Becomes(h, [pc |-> "hello", wants |-> s])
    /\ UNCHANGED <<auth, elsewhere>>

\* handle_incoming looks the session up, and a browser must own it.
Lookup(h, s) ==
    /\ At(h, "hello") /\ (hs[h].uid = None => s = hs[h].wants)
    /\ May("attachments") /\ Spends("attachments")
    /\ IF s \in registry /\ (hs[h].uid # None => Own(s, hs[h].uid))
       THEN Becomes(h, [pc |-> "claim", wants |-> s]) ELSE Ends(h)
    /\ UNCHANGED <<auth, elsewhere>>

ClaimTransport(h) ==
    /\ At(h, "claim")
    /\ Claim(hs[h].wants)
    /\ Becomes(h, [pc |-> "clear", epoch |-> sess[hs[h].wants].epoch + 1])
    /\ UNCHANGED <<auth, registry, clock, creating, shutdown, left>>

ClearLastDetach(h) ==
    /\ At(h, "clear")
    /\ ClearDetach(hs[h].wants)
    /\ Goto(h, "attached")
    /\ UNCHANGED <<auth, registry, clock, creating, shutdown, left>>

\* The transport ends; detach_if_epoch compares the epoch ...
Detach(h) ==
    /\ At(h, "attached")
    /\ IF sess[hs[h].wants].epoch = hs[h].epoch THEN Goto(h, "detach") ELSE Ends(h)
    /\ UNCHANGED <<auth, elsewhere, left>>

\* ... before it has the lock to note the time.
SetLastDetach(h) ==
    /\ At(h, "detach")
    /\ SetDetach(hs[h].wants, clock)
    /\ Ends(h)
    /\ UNCHANGED <<auth, registry, clock, creating, shutdown, left>>
-----------------------------------------------------------------------------
(* The helper.                                                             *)

EnrollNonce(uid) ==
    /\ May("invitations") /\ Spends("invitations")
    /\ issue_nonce(invited + 1, uid)
    /\ invited' = invited + 1
    /\ UNCHANGED <<store, disk, issued, known, dropped, barred, elsewhere, hs>>

Ids(s) == {t.id : t \in s.tokens}

\* A revocation, reported as done when the file is written.
Revoked(s, ok, gone, creds) ==
    /\ May("revocations")
    /\ ok \/ May("failures")
    /\ Saved(s, ok)
    /\ left' = [left EXCEPT !["revocations"] = @ - 1,
                            !["failures"] = IF ok THEN @ ELSE @ - 1]
    /\ dropped' = IF ok THEN dropped \cup gone ELSE dropped
    /\ barred' = IF ok THEN barred \cup [cred : creds, issued : {issued}] ELSE barred
    /\ UNCHANGED <<nonces, issued, invited, known, elsewhere, hs>>

TokensOf(uid) == {t.id : t \in {x \in store.tokens \cup disk.tokens : x.uid = uid}}
TokensBy(uid, cred) ==
    {t.id : t \in {x \in store.tokens \cup disk.tokens : x.uid = uid /\ x.cred = cred}}

\* resolve_credential finds it among the user's own, and revoke_credential takes
\* the lock again: the model leaves out a revocation by another helper between
\* the two, after which this one would find less to revoke.
RevokeCredential(uid, cred, ok) ==
    /\ [uid |-> uid, cred |-> cred] \in store.regs
    /\ Revoked(revoke_credential(store, uid, cred), ok, TokensBy(uid, cred), {cred})

RevokeAll(uid, ok) ==
    Revoked(revoke_all(store, uid), ok, TokensOf(uid),
            {r.cred : r \in {x \in store.regs : x.uid = uid}})

RevokeSessions(uid, ok) == Revoked(revoke_sessions(store, uid), ok, TokensOf(uid), {})

\* create: idle sessions are looked for, and killed where that is asked for,
\* under one hold of the registry ...
Create(k, uid, kill) ==
    /\ creating[k] = None /\ May("creates") /\ Spends("creates")
    /\ creating' = [creating EXCEPT ![k] = uid]
    /\ Killed(IF kill THEN IdleOf(uid, clock) ELSE {})
    /\ UNCHANGED <<auth, clock, hs, shutdown>>

\* ... and the session is made under the next, if the shell can be started.
Spawn(k) ==
    /\ creating[k] # None
    /\ \/ ~Full(creating[k]) /\ Spawned(creating[k], clock)
       \/ UNCHANGED registered
    /\ creating' = [creating EXCEPT ![k] = None]
    /\ UNCHANGED <<auth, clock, hs, shutdown, left>>
-----------------------------------------------------------------------------
(* The sessions, time and crashes.                                         *)

OwnerEnd(s) ==
    /\ OwnerEnds(s) /\ May("ends") /\ Spends("ends")
    /\ UNCHANGED <<auth, clock, hs, creating, shutdown>>

\* A client's Hangup; the session stays in the map until its owner has ended.
Hangup(h) ==
    /\ At(h, "attached") /\ sess[hs[h].wants].epoch = hs[h].epoch
    /\ HungUp({hs[h].wants})
    /\ UNCHANGED <<auth, registry, clock, hs, creating, shutdown, left>>

Tick ==
    /\ May("ticks") /\ Spends("ticks")
    /\ clock' = clock + 1
    /\ UNCHANGED <<auth, registered, hs, creating, shutdown>>

\* A signal ends the accept loop; handlers and helpers go on while the
\* sessions of that moment are destroyed one by one.
Shutdown ==
    /\ ~stopping /\ May("stops") /\ Spends("stops")
    /\ stopping' = TRUE /\ doomed' = registry
    /\ UNCHANGED <<auth, registered, clock, hs, creating>>

Destroy(s) ==
    /\ s \in doomed /\ doomed' = doomed \ {s}
    /\ Killed({s} \cap registry)
    /\ UNCHANGED <<auth, clock, hs, creating, stopping, left>>

\* The daemon starts again with its file.
Restarted ==
    /\ Reloaded
    /\ nonces' = {} /\ registry' = {} /\ sess' = <<>>
    /\ hs' = [h \in Handlers |-> NoHandler]
    /\ creating' = [k \in Helpers |-> None]
    /\ stopping' = FALSE /\ doomed' = {}
    /\ UNCHANGED <<clock, issued, invited, known, dropped, barred>>

Exit == stopping /\ doomed = {} /\ Restarted /\ UNCHANGED left
Crash == May("crashes") /\ Spends("crashes") /\ Restarted

Handshake(h) ==
    \/ \E token \in known \cup {0} : \E wants \in 0..Len(sess) : Hello(h, token, wants)
    \/ \E ok \in BOOLEAN : Rotate(h, ok) \/ Issue(h, ok) \/ Touch(h, ok)
    \/ \E nonce \in 1..invited : Enroll(h, nonce)
    \/ \E cred \in Creds : \/ Assertion(h, cred)
                           \/ \E ok \in BOOLEAN : Register(h, cred, ok)
    \/ \E lost \in BOOLEAN : Reply(h, lost)
    \/ Resolve(h) \/ Refuse(h)

Attachment(h) ==
    \/ \E s \in DOMAIN sess : Connect(h, s) \/ Lookup(h, s)
    \/ ClaimTransport(h) \/ ClearLastDetach(h) \/ Detach(h) \/ SetLastDetach(h) \/ Hangup(h)

HelperOp ==
    \/ \E uid \in Uids : \/ EnrollNonce(uid)
                         \/ \E ok \in BOOLEAN : RevokeAll(uid, ok) \/ RevokeSessions(uid, ok)
                         \/ \E cred \in Creds, ok \in BOOLEAN : RevokeCredential(uid, cred, ok)
                         \/ \E k \in Helpers, kill \in BOOLEAN : Create(k, uid, kill)
    \/ \E k \in Helpers : Spawn(k)

Next ==
    \/ \E h \in Handlers : Handshake(h) \/ Attachment(h)
    \/ HelperOp \/ Tick \/ Shutdown \/ Exit \/ Crash
    \/ \E s \in DOMAIN sess : OwnerEnd(s) \/ Destroy(s)

Spec == Init /\ [][Next]_vars
-----------------------------------------------------------------------------
(* Properties.                                                             *)

Proving == {"rotate", "issue", "register", "touch", "resolve", "reply"}

Grants(s) ==
    {[kind |-> "token", id |-> t.id, uid |-> t.uid] : t \in s.tokens} \cup
    {[kind |-> "device", id |-> r.cred, uid |-> r.uid] : r \in s.regs}

A == INSTANCE Access WITH
    usable <- Grants(store),
    doubtful <- Grants(disk) \ Grants(store),
    invited <- {[id |-> n.id, uid |-> n.uid] : n \in nonces},
    proven <- [h \in Handlers |-> IF hs[h].pc \in Proving THEN hs[h].uid ELSE None]

\* The handshake, cut into steps that interleave with each other, with
\* revocations, failed writes and crashes, does what Access promises: a user
\* is proven by a token or a device that is accepted at that moment or by a
\* nonce that nobody else has spent, and only proven handlers gain grants.
ImplementsAccess == A!Spec

\* What was reported survives a crash: a token whose removal was reported done
\* (a revocation the helper answered, a rotation the handshake went on from)
\* is never accepted again, and one that has reached a browser is kept for as
\* long as it is accepted (persist, issue_token, send_ok).
ReportedIsDurable ==
    /\ dropped \cap (Ids(store) \cup Ids(disk)) = {}
    /\ known \cap Ids(store) \subseteq Ids(disk)

\* No session stays in the registry after its end, to count against the
\* limits, and none leaves it with its program running unless it was told to
\* hang up; and neither limit is passed, whichever of the two ways sessions
\* are made (spawn_session, create, destroy).
RegistryExact ==
    /\ \A s \in DOMAIN sess :
           /\ s \in registry => sess[s].runs
           /\ s \notin registry => ~sess[s].runs \/ sess[s].hup
    /\ Cardinality(registry) <= MaxSessions
    /\ \A uid \in Uids : Cardinality(OfUid(uid)) <= MaxPerUid

\* A browser is attached to a session of the user it authenticated as, and is
\* told of no other (resolve_session, handle_incoming).
OwnSessionsOnly ==
    \A h \in Handlers :
        (hs[h].uid # None /\ hs[h].pc \in {"reply", "claim", "clear", "attached", "detach"}) =>
            sess[hs[h].wants].uid = hs[h].uid

\* Once the revocation of a credential is reported, no token made before it
\* that goes back to that credential is accepted.
RevokedDevicesAreOut ==
    \A t \in store.tokens, b \in barred : t.root = b.cred => t.id > b.issued
=============================================================================
