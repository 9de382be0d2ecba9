----------------------------- MODULE DaemonProofs -----------------------------
(***************************************************************************)
(* Theorems about Daemon, for any number of handlers, helpers, users,      *)
(* devices and sessions, any limits and any environment.                   *)
(***************************************************************************)
EXTENDS Daemon, FiniteSetTheorems, TLAPS

-----------------------------------------------------------------------------
(* The sessions and the registry.                                          *)

SessType == [uid : Uids, runs : BOOLEAN, hup : BOOLEAN, epoch : Nat, detached : Int]

\* The sessions are numbered without gaps, and the registry holds some.
SessionShape == sess \in Seq(SessType) /\ registry \in SUBSET (1..Len(sess))

\* Setting one field of a session leaves the others alone.
LEMMA SetEpoch ==
    ASSUME NEW r \in SessType, NEW n \in Nat
    PROVE  /\ [r EXCEPT !.epoch = n] \in SessType
           /\ [r EXCEPT !.epoch = n].uid = r.uid
           /\ [r EXCEPT !.epoch = n].runs = r.runs
           /\ [r EXCEPT !.epoch = n].hup = r.hup
  BY DEF SessType

LEMMA SetDetached ==
    ASSUME NEW r \in SessType, NEW d \in Int
    PROVE  /\ [r EXCEPT !.detached = d] \in SessType
           /\ [r EXCEPT !.detached = d].uid = r.uid
           /\ [r EXCEPT !.detached = d].runs = r.runs
           /\ [r EXCEPT !.detached = d].hup = r.hup
  BY DEF SessType

LEMMA SetHup ==
    ASSUME NEW r \in SessType, NEW b \in BOOLEAN
    PROVE  /\ [r EXCEPT !.hup = b] \in SessType
           /\ [r EXCEPT !.hup = b].uid = r.uid
           /\ [r EXCEPT !.hup = b].runs = r.runs
           /\ [r EXCEPT !.hup = b].hup = b
  BY DEF SessType

LEMMA SetRuns ==
    ASSUME NEW r \in SessType, NEW b \in BOOLEAN
    PROVE  /\ [r EXCEPT !.runs = b] \in SessType
           /\ [r EXCEPT !.runs = b].uid = r.uid
           /\ [r EXCEPT !.runs = b].runs = b
           /\ [r EXCEPT !.runs = b].hup = r.hup
  BY DEF SessType

\* What every step between two starts of the daemon does to the sessions: each
\* stays the session of its user, and a request to hang up is not taken back.
Kept ==
    /\ sess' \in Seq(SessType) /\ Len(sess) <= Len(sess')
    /\ \A s \in 1..Len(sess) : sess'[s].uid = sess[s].uid /\ (sess[s].hup => sess'[s].hup)

\* One session is replaced by what it has become.
LEMMA ReplaceSession ==
    ASSUME sess \in Seq(SessType), NEW s \in 1..Len(sess), NEW r \in SessType,
           r.uid = sess[s].uid, r.hup = sess[s].hup, sess' = [sess EXCEPT ![s] = r]
    PROVE  /\ Kept /\ Len(sess') = Len(sess)
           /\ \A t \in 1..Len(sess) : sess'[t].runs = IF t = s THEN r.runs ELSE sess[t].runs
<1>1. sess' \in Seq(SessType) /\ Len(sess') = Len(sess)
  OBVIOUS
<1>2. \A t \in 1..Len(sess) : sess'[t] = IF t = s THEN r ELSE sess[t]
  OBVIOUS
<1>3. Len(sess) <= Len(sess')
  BY <1>1
<1>4. \A t \in 1..Len(sess) : sess'[t].uid = sess[t].uid /\ sess'[t].hup = sess[t].hup
  BY <1>2
<1>5. \A t \in 1..Len(sess) : sess'[t].runs = IF t = s THEN r.runs ELSE sess[t].runs
  BY <1>2
<1>. QED
  BY <1>1, <1>3, <1>4, <1>5, Zenon DEF Kept

\* A claim, or a note of the time, changes a session in nothing the registry
\* looks at.
LEMMA TransportSteps ==
    ASSUME sess \in Seq(SessType), clock \in Nat, NEW s \in 1..Len(sess),
           Claim(s) \/ ClearDetach(s) \/ SetDetach(s, clock)
    PROVE  Kept /\ Len(sess') = Len(sess)
                /\ \A t \in 1..Len(sess) : sess'[t].runs = sess[t].runs
<1>1. sess[s] \in SessType
  OBVIOUS
<1>2. sess[s].epoch + 1 \in Nat /\ NoTime \in Int /\ clock \in Int
  BY <1>1 DEF SessType, NoTime
<1>3. PICK r \in SessType : /\ r.uid = sess[s].uid /\ r.runs = sess[s].runs
                            /\ r.hup = sess[s].hup /\ sess' = [sess EXCEPT ![s] = r]
  <2>1. CASE Claim(s)
    BY <1>1, <1>2, <2>1, SetEpoch, Zenon DEF Claim
  <2>2. CASE ClearDetach(s)
    BY <1>1, <1>2, <2>2, SetDetached, Zenon DEF ClearDetach
  <2>3. CASE SetDetach(s, clock)
    BY <1>1, <1>2, <2>3, SetDetached, Zenon DEF SetDetach
  <2>. QED
    BY <2>1, <2>2, <2>3
<1>4. /\ Kept /\ Len(sess') = Len(sess)
      /\ \A t \in 1..Len(sess) : sess'[t].runs = IF t = s THEN r.runs ELSE sess[t].runs
  BY <1>3, ReplaceSession, Zenon
<1>. QED
  BY <1>3, <1>4, Zenon

\* The owner of s ends and every other session runs as it did.
LEMMA OwnerEndsStep ==
    ASSUME sess \in Seq(SessType), NEW s \in 1..Len(sess), OwnerEnds(s)
    PROVE  /\ Kept /\ Len(sess') = Len(sess)
           /\ \A t \in 1..Len(sess) : sess'[t].runs = IF t = s THEN FALSE ELSE sess[t].runs
<1>1. sess[s] \in SessType
  OBVIOUS
<1>2. PICK r \in SessType : /\ r.uid = sess[s].uid /\ r.runs = FALSE
                            /\ r.hup = sess[s].hup /\ sess' = [sess EXCEPT ![s] = r]
  BY <1>1, SetRuns, Zenon DEF OwnerEnds
<1>3. /\ Kept /\ Len(sess') = Len(sess)
      /\ \A t \in 1..Len(sess) : sess'[t].runs = IF t = s THEN r.runs ELSE sess[t].runs
  BY <1>2, ReplaceSession, Zenon
<1>. QED
  BY <1>2, <1>3, Zenon

\* HungUp tells the sessions of ss, and leaves the others alone.
LEMMA HungUpStep ==
    ASSUME sess \in Seq(SessType), NEW ss, HungUp(ss)
    PROVE  /\ Kept /\ Len(sess') = Len(sess)
           /\ \A t \in 1..Len(sess) : sess'[t].runs = sess[t].runs
           /\ \A t \in 1..Len(sess) : t \in ss => sess'[t].hup
<1>1. ASSUME NEW t \in 1..Len(sess)
      PROVE  /\ sess'[t] \in SessType /\ sess'[t].uid = sess[t].uid
             /\ sess'[t].runs = sess[t].runs /\ sess'[t].hup = (sess[t].hup \/ t \in ss)
  <2>1. sess[t] \in SessType /\ t \in DOMAIN sess
    OBVIOUS
  <2>2. (sess[t].hup \/ t \in ss) \in BOOLEAN
    BY Zenon
  <2>3. sess'[t] = [sess[t] EXCEPT !.hup = sess[t].hup \/ t \in ss]
    BY <2>1, Zenon DEF HungUp
  <2>. QED
    BY <2>1, <2>2, <2>3, SetHup, Zenon
<1>2. DOMAIN sess' = 1..Len(sess) /\ sess' = [t \in 1..Len(sess) |-> sess'[t]]
  <2>1. DOMAIN sess = 1..Len(sess)
    OBVIOUS
  <2>. QED
    BY <2>1, Zenon DEF HungUp
<1>3. sess' \in Seq(SessType) /\ Len(sess') = Len(sess)
  BY <1>1, <1>2
<1>4. Len(sess) <= Len(sess')
  BY <1>3
<1>. QED
  BY <1>1, <1>3, <1>4, Zenon DEF Kept

\* A new session is the last one, and runs.
LEMMA SpawnedStep ==
    ASSUME sess \in Seq(SessType), clock \in Nat, NEW uid \in Uids, Spawned(uid, clock)
    PROVE  /\ Kept /\ Len(sess') = Len(sess) + 1
           /\ registry' = registry \cup {Len(sess) + 1}
           /\ sess'[Len(sess) + 1].uid = uid /\ sess'[Len(sess) + 1].runs
           /\ \A t \in 1..Len(sess) : sess'[t] = sess[t]
<1>. DEFINE r == [uid |-> uid, runs |-> TRUE, hup |-> FALSE, epoch |-> 0, detached |-> clock]
<1>1. r \in SessType
  BY DEF SessType
<1>2. r.uid = uid /\ r.runs
  OBVIOUS
<1>3. sess' = Append(sess, r) /\ registry' = registry \cup {Len(sess) + 1}
  BY DEF Spawned
<1>. HIDE DEF r
<1>4. /\ sess' \in Seq(SessType) /\ Len(sess') = Len(sess) + 1
      /\ sess'[Len(sess) + 1] = r
      /\ \A t \in 1..Len(sess) : sess'[t] = sess[t]
  BY <1>1, <1>3
<1>5. Len(sess) <= Len(sess')
  BY <1>4
<1>. QED
  BY <1>2, <1>3, <1>4, <1>5, Zenon DEF Kept

\* Cardinalities are those of finite sets of sessions.
LEMMA RegistryFinite ==
    ASSUME SessionShape
    PROVE  /\ IsFiniteSet(registry) /\ Cardinality(registry) \in Nat
           /\ \A uid : IsFiniteSet(OfUid(uid)) /\ Cardinality(OfUid(uid)) \in Nat
<1>1. Len(sess) \in Nat /\ registry \subseteq 1..Len(sess)
  BY DEF SessionShape
<1>2. IsFiniteSet(1..Len(sess))
  BY <1>1, FS_Interval
<1>3. IsFiniteSet(registry)
  BY <1>1, <1>2, FS_Subset
<1>4. \A uid : OfUid(uid) \subseteq registry
  BY DEF OfUid
<1>5. \A uid : IsFiniteSet(OfUid(uid))
  BY <1>3, <1>4, FS_Subset
<1>. QED
  BY <1>3, <1>5, FS_CardinalityType

\* What is to be shown of the registry after a step.
LEMMA RegistryExactNext ==
    ASSUME \A s \in DOMAIN sess' : /\ s \in registry' => sess'[s].runs
                                   /\ s \notin registry' => ~sess'[s].runs \/ sess'[s].hup,
           Cardinality(registry') <= MaxSessions,
           \A uid \in Uids : Cardinality(OfUid(uid)') <= MaxPerUid
    PROVE  RegistryExact'
  BY DEF RegistryExact

\* Sessions that leave the registry keep it within its limits.
LEMMA RegistryShrinks ==
    ASSUME SessionShape, RegistryExact, Kept, Len(sess') = Len(sess),
           registry' \subseteq registry,
           \A s \in 1..Len(sess) : s \in registry' => sess'[s].runs = sess[s].runs,
           \A s \in 1..Len(sess) : s \notin registry' => ~sess'[s].runs \/ sess'[s].hup
    PROVE  SessionShape' /\ RegistryExact'
<1>1. SessionShape'
  BY DEF SessionShape, Kept
<1>2. DOMAIN sess = 1..Len(sess) /\ DOMAIN sess' = 1..Len(sess)
  BY DEF SessionShape, Kept
<1>3. \A s \in DOMAIN sess' : /\ s \in registry' => sess'[s].runs
                              /\ s \notin registry' => ~sess'[s].runs \/ sess'[s].hup
  <2>. SUFFICES ASSUME NEW s \in 1..Len(sess)
                PROVE  /\ s \in registry' => sess'[s].runs
                       /\ s \notin registry' => ~sess'[s].runs \/ sess'[s].hup
    BY <1>2, Zenon
  <2>1. s \in registry => sess[s].runs
    BY <1>2, Zenon DEF RegistryExact
  <2>2. s \in registry' => s \in registry
    OBVIOUS
  <2>. QED
    BY <2>1, <2>2, Zenon
<1>4. Cardinality(registry') <= MaxSessions
  <2>1. Cardinality(registry') <= Cardinality(registry) /\ Cardinality(registry') \in Nat
    BY <1>1, RegistryFinite, FS_Subset, FS_CardinalityType
  <2>. QED
    BY <2>1, RegistryFinite, RegistryAssumption DEF RegistryExact
<1>5. ASSUME NEW uid \in Uids
      PROVE  Cardinality(OfUid(uid)') <= MaxPerUid
  <2>1. OfUid(uid)' \subseteq OfUid(uid)
    BY DEF OfUid, Kept, SessionShape
  <2>2. /\ Cardinality(OfUid(uid)') <= Cardinality(OfUid(uid))
        /\ IsFiniteSet(OfUid(uid)')
    BY <2>1, RegistryFinite, FS_Subset
  <2>3. Cardinality(OfUid(uid)') \in Nat
    BY <2>2, FS_CardinalityType
  <2>. QED
    BY <2>2, <2>3, RegistryFinite, RegistryAssumption DEF RegistryExact
<1>6. RegistryExact'
  BY <1>3, <1>4, <1>5, RegistryExactNext, Zenon
<1>. QED
  BY <1>1, <1>6

\* A session more, where the limits have room for it.
LEMMA RegistryGrows ==
    ASSUME SessionShape, RegistryExact, clock \in Nat, NEW uid \in Uids,
           ~Full(uid), Spawned(uid, clock)
    PROVE  SessionShape' /\ RegistryExact'
<1>. DEFINE n == Len(sess) + 1
<1>1. /\ Kept /\ Len(sess') = n /\ registry' = registry \cup {n}
      /\ sess'[n].uid = uid /\ sess'[n].runs
      /\ \A t \in 1..Len(sess) : sess'[t] = sess[t]
  BY SpawnedStep DEF SessionShape
<1>2. /\ sess \in Seq(SessType) /\ Len(sess) \in Nat /\ registry \subseteq 1..Len(sess)
      /\ DOMAIN sess = 1..Len(sess)
  BY DEF SessionShape
<1>3. sess' \in Seq(SessType) /\ DOMAIN sess' = 1..n
  BY <1>1, <1>2 DEF Kept
<1>4. SessionShape'
  <2>1. 1..Len(sess) \subseteq 1..n /\ n \in 1..n
    BY <1>2
  <2>2. registry' \subseteq 1..n
    BY <1>1, <1>2, <2>1, Zenon
  <2>. QED
    BY <1>1, <1>3, <2>2 DEF SessionShape
<1>5. n \notin registry /\ \A t \in 1..n : t = n \/ t \in 1..Len(sess)
  BY <1>2
<1>. HIDE DEF n
<1>6. \A s \in DOMAIN sess' : /\ s \in registry' => sess'[s].runs
                              /\ s \notin registry' => ~sess'[s].runs \/ sess'[s].hup
  <2>. SUFFICES ASSUME NEW s \in 1..n
                PROVE  /\ s \in registry' => sess'[s].runs
                       /\ s \notin registry' => ~sess'[s].runs \/ sess'[s].hup
    BY <1>3, Zenon
  <2>1. CASE s = n
    BY <1>1, <2>1, Zenon
  <2>2. CASE s \in 1..Len(sess) /\ s # n
    <3>1. sess'[s] = sess[s] /\ (s \in registry' <=> s \in registry)
      BY <1>1, <2>2
    <3>. QED
      BY <1>2, <2>2, <3>1, Zenon DEF RegistryExact
  <2>. QED
    BY <1>5, <2>1, <2>2
<1>7. Cardinality(registry') <= MaxSessions
  <2>1. Cardinality(registry) < MaxSessions
    BY RegistryFinite, RegistryAssumption DEF Full
  <2>2. Cardinality(registry') = Cardinality(registry) + 1
    BY <1>1, <1>5, RegistryFinite, FS_AddElement
  <2>. QED
    BY <2>1, <2>2, RegistryFinite, RegistryAssumption
<1>8. ASSUME NEW u \in Uids
      PROVE  Cardinality(OfUid(u)') <= MaxPerUid
  <2>1. OfUid(u)' = IF u = uid THEN OfUid(u) \cup {n} ELSE OfUid(u)
    BY <1>1, <1>2, <1>5 DEF OfUid
  <2>2. n \notin OfUid(u)
    BY <1>5 DEF OfUid
  <2>3. CASE u = uid
    <3>1. Cardinality(OfUid(u)) < MaxPerUid
      BY <2>3, RegistryFinite, RegistryAssumption DEF Full
    <3>2. Cardinality(OfUid(u)') = Cardinality(OfUid(u)) + 1
      BY <2>1, <2>2, <2>3, RegistryFinite, FS_AddElement
    <3>. QED
      BY <3>1, <3>2, RegistryFinite, RegistryAssumption
  <2>4. CASE u # uid
    BY <2>1, <2>4 DEF RegistryExact
  <2>. QED
    BY <2>3, <2>4
<1>9. RegistryExact'
  BY <1>6, <1>7, <1>8, RegistryExactNext, Zenon
<1>. QED
  BY <1>4, <1>9
-----------------------------------------------------------------------------
(* The handlers.                                                           *)

Attached == {"claim", "clear", "attached", "detach"}
Pcs == Proving \cup Attached \cup {"idle", "challenge", "hello"}

HandlerType ==
    [pc : Pcs, now : Nat, token : Nat, uid : Uids \cup {None},
     cred : Creds \cup {None}, root : Creds \cup {None}, issued : Nat, wants : Nat,
     epoch : Nat]

HandlerShape == hs \in [Handlers -> HandlerType]

\* A step of handler h leaves the others alone.
StepOf(h) == HandlerShape' /\ \A k \in Handlers : k # h => hs'[k] = hs[k]

LEMMA SetPc ==
    ASSUME NEW r \in HandlerType, NEW pc \in Pcs
    PROVE  /\ [r EXCEPT !.pc = pc] \in HandlerType
           /\ [r EXCEPT !.pc = pc].pc = pc
           /\ [r EXCEPT !.pc = pc].uid = r.uid
           /\ [r EXCEPT !.pc = pc].token = r.token
           /\ [r EXCEPT !.pc = pc].wants = r.wants
           /\ [r EXCEPT !.pc = pc].issued = r.issued
  BY DEF HandlerType

LEMMA GotoStep ==
    ASSUME HandlerShape, NEW h \in Handlers, NEW pc \in Pcs, Goto(h, pc)
    PROVE  /\ StepOf(h) /\ hs'[h].pc = pc /\ hs'[h].uid = hs[h].uid
           /\ hs'[h].token = hs[h].token /\ hs'[h].wants = hs[h].wants
           /\ hs'[h].issued = hs[h].issued
<1>1. hs[h] \in HandlerType /\ hs \in [Handlers -> HandlerType]
  BY DEF HandlerShape
<1>2. PICK r \in HandlerType : /\ r.pc = pc /\ r.uid = hs[h].uid /\ r.token = hs[h].token
                               /\ r.wants = hs[h].wants /\ r.issued = hs[h].issued
                               /\ hs' = [hs EXCEPT ![h] = r]
  BY <1>1, SetPc, Zenon DEF Goto
<1>3. /\ hs' \in [Handlers -> HandlerType] /\ hs'[h] = r
      /\ \A k \in Handlers : k # h => hs'[k] = hs[k]
  BY <1>1, <1>2
<1>. QED
  BY <1>2, <1>3 DEF StepOf, HandlerShape

LEMMA EndsStep ==
    ASSUME HandlerShape, NEW h \in Handlers, Ends(h)
    PROVE  StepOf(h) /\ hs'[h] = NoHandler /\ hs'[h].pc = "idle" /\ hs'[h].uid = None
<1>1. NoHandler \in HandlerType
  BY DEF NoHandler, HandlerType, Pcs
<1>2. /\ hs' \in [Handlers -> HandlerType] /\ hs'[h] = NoHandler
      /\ \A k \in Handlers : k # h => hs'[k] = hs[k]
  BY <1>1 DEF HandlerShape, Ends
<1>3. NoHandler.pc = "idle" /\ NoHandler.uid = None
  BY DEF NoHandler
<1>. QED
  BY <1>2, <1>3 DEF StepOf, HandlerShape

LEMMA BecomesIssued ==
    ASSUME HandlerShape, NEW h \in Handlers, NEW n \in Nat,
           Becomes(h, [pc |-> "resolve", issued |-> n])
    PROVE  StepOf(h) /\ hs'[h].pc = "resolve" /\ hs'[h].issued = n /\ hs'[h].uid = hs[h].uid
  BY DEF Becomes, HandlerShape, HandlerType, StepOf, Pcs, Proving

LEMMA BecomesWants ==
    ASSUME HandlerShape, NEW h \in Handlers, NEW pc \in Pcs, NEW w \in Nat,
           Becomes(h, [pc |-> pc, wants |-> w])
    PROVE  /\ StepOf(h) /\ hs'[h].pc = pc /\ hs'[h].wants = w
           /\ hs'[h].uid = hs[h].uid /\ hs'[h].issued = hs[h].issued
  BY DEF Becomes, HandlerShape, HandlerType, StepOf

LEMMA BecomesRotating ==
    ASSUME HandlerShape, NEW h \in Handlers, NEW n \in Nat, NEW t \in Nat, NEW w \in Nat,
           NEW u \in Uids, NEW c \in Creds \cup {None},
           Becomes(h, [pc |-> "rotate", now |-> n, token |-> t, wants |-> w, uid |-> u,
                       root |-> c])
    PROVE  StepOf(h) /\ hs'[h].pc = "rotate" /\ hs'[h].token = t /\ hs'[h].uid = u
  BY DEF Becomes, HandlerShape, HandlerType, StepOf, Pcs, Proving

LEMMA BecomesChallenged ==
    ASSUME HandlerShape, NEW h \in Handlers, NEW n \in Nat, NEW w \in Nat,
           Becomes(h, [pc |-> "challenge", now |-> n, wants |-> w])
    PROVE  StepOf(h) /\ hs'[h].pc = "challenge"
  BY DEF Becomes, HandlerShape, HandlerType, StepOf, Pcs

LEMMA BecomesEnrolling ==
    ASSUME HandlerShape, NEW h \in Handlers, NEW u \in Uids,
           Becomes(h, [pc |-> "register", uid |-> u])
    PROVE  StepOf(h) /\ hs'[h].pc = "register" /\ hs'[h].uid = u
  BY DEF Becomes, HandlerShape, HandlerType, StepOf, Pcs, Proving

LEMMA BecomesRegistered ==
    ASSUME HandlerShape, NEW h \in Handlers, NEW c \in Creds,
           Becomes(h, [pc |-> "issue", cred |-> c, root |-> c])
    PROVE  StepOf(h) /\ hs'[h].pc = "issue" /\ hs'[h].uid = hs[h].uid
  BY DEF Becomes, HandlerShape, HandlerType, StepOf, Pcs, Proving

LEMMA BecomesAsserting ==
    ASSUME HandlerShape, NEW h \in Handlers, NEW u \in Uids, NEW c \in Creds,
           Becomes(h, [pc |-> "touch", uid |-> u, cred |-> c, root |-> c])
    PROVE  StepOf(h) /\ hs'[h].pc = "touch" /\ hs'[h].uid = u
  BY DEF Becomes, HandlerShape, HandlerType, StepOf, Pcs, Proving

LEMMA BecomesClaimed ==
    ASSUME HandlerShape, NEW h \in Handlers, NEW e \in Nat,
           Becomes(h, [pc |-> "clear", epoch |-> e])
    PROVE  /\ StepOf(h) /\ hs'[h].pc = "clear" /\ hs'[h].uid = hs[h].uid
           /\ hs'[h].wants = hs[h].wants
  BY DEF Becomes, HandlerShape, HandlerType, StepOf, Pcs, Attached
-----------------------------------------------------------------------------
(* The device store.                                                       *)

RegType == [uid : Uids, cred : Creds]
TokenType == [id : Nat, uid : Uids, cred : Creds \cup {None}, root : Creds \cup {None},
              seen : Nat]
StoreType == [regs : SUBSET RegType, tokens : SUBSET TokenType]

LEMMA RegisterStore ==
    ASSUME NEW s \in StoreType, NEW uid \in Uids, NEW cred \in Creds
    PROVE  /\ register(s, uid, cred) \in StoreType
           /\ register(s, uid, cred).tokens = s.tokens
           /\ register(s, uid, cred).regs =
                  {r \in s.regs : r.cred # cred} \cup {[uid |-> uid, cred |-> cred]}
  BY DEF register, StoreType, RegType

LEMMA IssueStore ==
    ASSUME NEW s \in StoreType, NEW t \in TokenType
    PROVE  /\ issue_token(s, t.id, t.uid, t.cred, t.root, t.seen) \in StoreType
           /\ issue_token(s, t.id, t.uid, t.cred, t.root, t.seen).tokens = s.tokens \cup {t}
           /\ issue_token(s, t.id, t.uid, t.cred, t.root, t.seen).regs = s.regs
<1>1. [id |-> t.id, uid |-> t.uid, cred |-> t.cred, root |-> t.root, seen |-> t.seen] = t
  BY DEF TokenType
<1>. QED
  BY <1>1 DEF issue_token, StoreType

LEMMA WithoutStore ==
    ASSUME NEW s \in StoreType, NEW gone
    PROVE  /\ Without(s, gone) \in StoreType
           /\ Without(s, gone).tokens = s.tokens \ gone
           /\ Without(s, gone).regs = s.regs
  BY DEF Without, StoreType

LEMMA FewerRegs ==
    ASSUME NEW s \in StoreType, NEW regs \in SUBSET s.regs
    PROVE  /\ [s EXCEPT !.regs = regs] \in StoreType
           /\ [s EXCEPT !.regs = regs].tokens = s.tokens
           /\ [s EXCEPT !.regs = regs].regs = regs
  BY DEF StoreType

\* A revocation takes tokens and registrations away, and leaves no token of
\* the kind that it is about.
LEMMA RevokeSessionsStore ==
    ASSUME NEW s \in StoreType, NEW uid
    PROVE  /\ revoke_sessions(s, uid) \in StoreType
           /\ revoke_sessions(s, uid).tokens = {t \in s.tokens : t.uid # uid}
           /\ revoke_sessions(s, uid).regs = s.regs
<1>1. s.tokens \ {t \in s.tokens : t.uid = uid} = {t \in s.tokens : t.uid # uid}
  OBVIOUS
<1>. QED
  BY <1>1, WithoutStore, Zenon DEF revoke_sessions

LEMMA RevokeAllStore ==
    ASSUME NEW s \in StoreType, NEW uid
    PROVE  /\ revoke_all(s, uid) \in StoreType
           /\ revoke_all(s, uid).tokens = {t \in s.tokens : t.uid # uid}
           /\ revoke_all(s, uid).regs \subseteq s.regs
<1>. DEFINE w == revoke_sessions(s, uid)
            regs == {r \in w.regs : r.uid # uid}
<1>1. w \in StoreType /\ w.tokens = {t \in s.tokens : t.uid # uid} /\ w.regs = s.regs
  BY RevokeSessionsStore
<1>2. regs \in SUBSET w.regs
  OBVIOUS
<1>3. revoke_all(s, uid) = [w EXCEPT !.regs = regs]
  BY Zenon DEF revoke_all
<1>. HIDE DEF w, regs
<1>4. /\ [w EXCEPT !.regs = regs] \in StoreType
      /\ [w EXCEPT !.regs = regs].tokens = w.tokens
      /\ [w EXCEPT !.regs = regs].regs = regs
  BY <1>1, <1>2, FewerRegs, Zenon
<1>. QED
  BY <1>1, <1>2, <1>3, <1>4, Zenon

LEMMA RevokeCredentialStore ==
    ASSUME NEW s \in StoreType, NEW uid, NEW cred
    PROVE  /\ revoke_credential(s, uid, cred) \in StoreType
           /\ revoke_credential(s, uid, cred).tokens =
                  {t \in s.tokens : ~(t.uid = uid /\ t.cred = cred)}
           /\ revoke_credential(s, uid, cred).regs \subseteq s.regs
<1>. DEFINE gone == {t \in s.tokens : t.uid = uid /\ t.cred = cred}
            w == Without(s, gone)
            regs == {r \in w.regs : ~(r.uid = uid /\ r.cred = cred)}
<1>1. w \in StoreType /\ w.tokens = s.tokens \ gone /\ w.regs = s.regs
  BY WithoutStore
<1>2. regs \in SUBSET w.regs
  OBVIOUS
<1>3. s.tokens \ gone = {t \in s.tokens : ~(t.uid = uid /\ t.cred = cred)}
  OBVIOUS
<1>4. revoke_credential(s, uid, cred) = [w EXCEPT !.regs = regs]
  BY Zenon DEF revoke_credential
<1>. HIDE DEF w, regs, gone
<1>5. /\ [w EXCEPT !.regs = regs] \in StoreType
      /\ [w EXCEPT !.regs = regs].tokens = w.tokens
      /\ [w EXCEPT !.regs = regs].regs = regs
  BY <1>1, <1>2, FewerRegs, Zenon
<1>. QED
  BY <1>1, <1>2, <1>3, <1>4, <1>5, Zenon
-----------------------------------------------------------------------------
(* Who has proven what, and what is on the disk.                           *)

NonceType == [id : Nat, uid : Uids, expires : Int]

AuthShape ==
    /\ store \in StoreType /\ disk \in StoreType
    /\ nonces \in SUBSET NonceType
    /\ clock \in Nat /\ issued \in Nat /\ invited \in Nat

\* A token's number is never given twice, although a token may be in memory
\* and not in the file, or in the file and no longer in memory.
Tokens == store.tokens \cup disk.tokens
TokensUnique ==
    /\ \A t \in Tokens : t.id \in 1..issued
    /\ \A t, u \in Tokens : t.id = u.id => t = u

NoncesUnique ==
    /\ \A n \in nonces : n.id \in 1..invited
    /\ \A n, m \in nonces : n.id = m.id => n = m

Reported == known \subseteq 1..issued /\ dropped \subseteq 1..issued

\* A handler acts for a user; the token it rotates, as long as it is there, is
\* that user's; and the token it is about to hand out is in the file, if it
\* is still accepted.
HandlerProven(h) ==
    /\ hs[h].pc \in Proving => hs[h].uid \in Uids
    /\ hs[h].pc = "rotate" =>
           /\ hs[h].token \in 1..issued
           /\ \A t \in store.tokens : t.id = hs[h].token => t.uid = hs[h].uid
    /\ hs[h].pc \in {"resolve", "reply"} =>
           /\ hs[h].issued \in 1..issued
           /\ hs[h].issued \in Ids(store) => hs[h].issued \in Ids(disk)

AuthInv ==
    /\ AuthShape /\ HandlerShape /\ TokensUnique /\ NoncesUnique /\ Reported
    /\ ReportedIsDurable
    /\ \A h \in Handlers : HandlerProven(h)

\* The store before and after a step that makes no token: tokens only go, and
\* the file is as it was or as the memory is.
Shrinks ==
    /\ store' \in StoreType /\ store'.tokens \subseteq store.tokens
    /\ disk' \in {disk, store'} /\ issued' = issued

LEMMA ShrinksKeeps ==
    ASSUME AuthInv, Shrinks
    PROVE  /\ disk' \in StoreType /\ TokensUnique'
           /\ Ids(store)' \subseteq Ids(store) /\ Ids(disk)' \subseteq Ids(store) \cup Ids(disk)
           /\ \A i : (i \in Ids(store) => i \in Ids(disk)) =>
                         (i \in Ids(store)' => i \in Ids(disk)')
           /\ \A h \in Handlers : hs'[h] = hs[h] => HandlerProven(h)'
<1>1. disk' \in StoreType
  BY DEF AuthInv, AuthShape, Shrinks
<1>2. Tokens' \subseteq Tokens
  BY DEF Shrinks, Tokens
<1>3. TokensUnique'
  BY <1>2 DEF AuthInv, Shrinks, TokensUnique
<1>4. Ids(store)' \subseteq Ids(store) /\ Ids(disk)' \subseteq Ids(store) \cup Ids(disk)
  BY DEF Shrinks, Ids
<1>5. ASSUME NEW i, i \in Ids(store) => i \in Ids(disk), i \in Ids(store)'
      PROVE  i \in Ids(disk)'
  BY <1>4, <1>5 DEF Shrinks
<1>6. ASSUME NEW h \in Handlers, hs'[h] = hs[h]
      PROVE  HandlerProven(h)'
  <2>1. HandlerProven(h)
    BY DEF AuthInv
  <2>. QED
    BY <1>4, <1>5, <1>6, <2>1 DEF HandlerProven, Shrinks
<1>. QED
  BY <1>1, <1>3, <1>4, <1>5, <1>6, Zenon

\* A step that makes no token preserves AuthInv when what it reports removed
\* is gone from the memory and the file, and what it hands out is kept.
LEMMA AuthStep ==
    ASSUME AuthInv, Shrinks, clock' \in Nat, nonces' \subseteq nonces, invited' = invited,
           \A i \in known' \ known : /\ i \in 1..issued
                                     /\ i \in Ids(store) => i \in Ids(disk),
           \A i \in dropped' \ dropped : /\ i \in 1..issued
                                         /\ i \notin Ids(store)' /\ i \notin Ids(disk)',
           HandlerShape',
           \A h \in Handlers : hs'[h] = hs[h] \/ HandlerProven(h)'
    PROVE  AuthInv'
<1>1. AuthShape'
  BY ShrinksKeeps DEF AuthInv, AuthShape, Shrinks
<1>2. NoncesUnique'
  BY DEF AuthInv, NoncesUnique
<1>3. Reported'
  BY DEF AuthInv, Reported, Shrinks
<1>4. ReportedIsDurable'
  <2>1. ASSUME NEW i \in dropped'
        PROVE  i \notin Ids(store)' /\ i \notin Ids(disk)'
    <3>1. CASE i \in dropped
      <4>1. i \notin Ids(store) /\ i \notin Ids(disk)
        BY <3>1 DEF AuthInv, ReportedIsDurable
      <4>. QED
        BY <4>1, ShrinksKeeps
    <3>. QED
      BY <2>1, <3>1
  <2>2. ASSUME NEW i \in known', i \in Ids(store)'
        PROVE  i \in Ids(disk)'
    <3>1. i \in Ids(store) => i \in Ids(disk)
      BY DEF AuthInv, ReportedIsDurable
    <3>. QED
      BY <2>2, <3>1, ShrinksKeeps
  <2>. QED
    BY <2>1, <2>2 DEF ReportedIsDurable
<1>5. \A h \in Handlers : HandlerProven(h)'
  BY ShrinksKeeps
<1>. QED
  BY <1>1, <1>2, <1>3, <1>4, <1>5, ShrinksKeeps DEF AuthInv

\* What a handler that has proven nothing, or is between two writes, needs.
LEMMA ProvenSimply ==
    ASSUME NEW h, \/ hs'[h].pc \notin Proving
                  \/ hs'[h].uid \in Uids /\ hs'[h].pc \in {"issue", "register", "touch"}
    PROVE  HandlerProven(h)'
  BY DEF HandlerProven, Proving

\* A step of a handler that leaves memory, file and nonces alone.
LEMMA AuthElsewhere ==
    ASSUME AuthInv, UNCHANGED <<auth, clock>>, NEW h \in Handlers, StepOf(h),
           \/ hs'[h].pc \notin Proving
           \/ hs'[h].uid \in Uids /\ hs'[h].pc \in {"issue", "register", "touch"}
           \/ HandlerProven(h)'
    PROVE  AuthInv'
<1>1. Shrinks /\ clock' \in Nat
  BY DEF AuthInv, AuthShape, auth, Shrinks
<1>2. HandlerProven(h)'
  BY ProvenSimply
<1>. QED
  BY <1>1, <1>2, AuthStep DEF auth, StepOf

LEMMA AuthSame ==
    ASSUME AuthInv, UNCHANGED <<auth, hs>>, clock' \in Nat
    PROVE  AuthInv'
<1>1. Shrinks
  BY DEF AuthInv, AuthShape, auth, Shrinks
<1>. QED
  BY <1>1, AuthStep DEF auth, HandlerShape, AuthInv

\* What each step of a handshake makes of its handler: it goes on for the user
\* that it has, it has a user now, or it has ended.
Went(h, pc) == StepOf(h) /\ hs'[h].pc = pc /\ hs'[h].uid = hs[h].uid
Gone(h) == StepOf(h) /\ hs'[h].pc = "idle"

LEMMA HelloEffect ==
    ASSUME AuthInv, NEW h \in Handlers, NEW token \in known \cup {0},
           NEW wants \in 0..Len(sess), Len(sess) \in Nat, Hello(h, token, wants)
    PROVE  /\ StepOf(h)
           /\ \/ hs'[h].pc = "challenge"
              \/ /\ hs'[h].pc = "rotate" /\ hs'[h].token = token
                 /\ \E t \in store.tokens : t.id = token /\ hs'[h].uid = t.uid
<1>1. clock \in Nat /\ wants \in Nat
  BY DEF AuthInv, AuthShape
<1>2. CASE token # 0 /\ validate_token(store, token, clock)
  <2>. DEFINE t == CHOOSE x \in store.tokens : x.id = token
  <2>1. t \in store.tokens /\ t.id = token
    BY <1>2 DEF validate_token
  <2>2. t.uid \in Uids /\ t.root \in Creds \cup {None} /\ token \in Nat
    BY <2>1 DEF AuthInv, AuthShape, StoreType, TokenType
  <2>3. Becomes(h, [pc |-> "rotate", now |-> clock, token |-> token, wants |-> wants,
                    uid |-> t.uid, root |-> t.root])
    BY <1>2 DEF Hello, Uid
  <2>. HIDE DEF t
  <2>4. StepOf(h) /\ hs'[h].pc = "rotate" /\ hs'[h].token = token /\ hs'[h].uid = t.uid
    BY <1>1, <2>2, <2>3, BecomesRotating DEF AuthInv
  <2>. QED
    BY <2>1, <2>4
<1>3. CASE ~(token # 0 /\ validate_token(store, token, clock))
  <2>1. Becomes(h, [pc |-> "challenge", now |-> clock, wants |-> wants])
    BY <1>3 DEF Hello
  <2>. QED
    BY <1>1, <2>1, BecomesChallenged DEF AuthInv
<1>. QED
  BY <1>2, <1>3

LEMMA RotateEffect ==
    ASSUME AuthInv, NEW h \in Handlers, NEW ok \in BOOLEAN, Rotate(h, ok) \/ Touch(h, ok)
    PROVE  hs[h].uid \in Uids /\ (Went(h, "issue") \/ Gone(h))
<1>1. hs[h].uid \in Uids
  BY DEF AuthInv, HandlerProven, Proving, Rotate, Touch, At
<1>2. CASE ok
  <2>1. Goto(h, "issue") /\ "issue" \in Pcs
    BY <1>2 DEF Rotate, Touch, Pcs, Proving
  <2>. QED
    BY <1>1, <2>1, GotoStep DEF AuthInv, Went
<1>3. CASE ~ok
  BY <1>1, <1>3, EndsStep DEF Rotate, Touch, AuthInv, Gone
<1>. QED
  BY <1>2, <1>3

LEMMA IssueEffect ==
    ASSUME AuthInv, NEW h \in Handlers, NEW ok \in BOOLEAN, Issue(h, ok)
    PROVE  /\ hs[h].uid \in Uids
           /\ IF ok THEN Went(h, "resolve") /\ hs'[h].issued = issued + 1 ELSE Gone(h)
<1>1. hs[h].uid \in Uids /\ issued + 1 \in Nat
  BY DEF AuthInv, AuthShape, HandlerProven, Proving, Issue, At
<1>2. CASE ok
  <2>1. /\ StepOf(h) /\ hs'[h].pc = "resolve" /\ hs'[h].issued = issued + 1
        /\ hs'[h].uid = hs[h].uid
    BY <1>1, <1>2, BecomesIssued DEF Issue, AuthInv
  <2>. QED
    BY <1>1, <1>2, <2>1 DEF Went
<1>3. CASE ~ok
  BY <1>1, <1>3, EndsStep DEF Issue, AuthInv, Gone
<1>. QED
  BY <1>2, <1>3

LEMMA ReplyEffect ==
    ASSUME AuthInv, NEW h \in Handlers, NEW lost \in BOOLEAN, Reply(h, lost)
    PROVE  Went(h, "hello") \/ Gone(h)
<1>1. CASE lost
  BY <1>1, EndsStep DEF Reply, AuthInv, Gone
<1>2. CASE ~lost
  <2>1. Goto(h, "hello") /\ "hello" \in Pcs
    BY <1>2 DEF Reply, Pcs
  <2>. QED
    BY <2>1, GotoStep DEF AuthInv, Went
<1>. QED
  BY <1>1, <1>2

LEMMA EnrollEffect ==
    ASSUME AuthInv, NEW h \in Handlers, NEW nonce \in 1..invited, Enroll(h, nonce)
    PROVE  \/ /\ StepOf(h) /\ hs'[h].pc = "register" /\ hs'[h].uid \in Uids
              /\ \E n \in nonces : n.id = nonce /\ hs'[h].uid = n.uid
           \/ Gone(h)
<1>1. CASE Spendable(nonce, hs[h].now)
  <2>. DEFINE n == CHOOSE x \in nonces : x.id = nonce
  <2>1. n \in nonces /\ n.id = nonce
    BY <1>1 DEF Spendable
  <2>2. n.uid \in Uids
    BY <2>1 DEF AuthInv, AuthShape, NonceType
  <2>3. Becomes(h, [pc |-> "register", uid |-> n.uid])
    BY <1>1 DEF Enroll, NonceUid
  <2>. HIDE DEF n
  <2>4. StepOf(h) /\ hs'[h].pc = "register" /\ hs'[h].uid = n.uid
    BY <2>2, <2>3, BecomesEnrolling DEF AuthInv
  <2>. QED
    BY <2>1, <2>2, <2>4
<1>2. CASE ~Spendable(nonce, hs[h].now)
  BY <1>2, EndsStep DEF Enroll, AuthInv, Gone
<1>. QED
  BY <1>1, <1>2

LEMMA RegisterEffect ==
    ASSUME AuthInv, NEW h \in Handlers, NEW cred \in Creds, NEW ok \in BOOLEAN,
           Register(h, cred, ok)
    PROVE  hs[h].uid \in Uids /\ (Went(h, "issue") \/ Gone(h))
<1>1. hs[h].uid \in Uids
  BY DEF AuthInv, HandlerProven, Proving, Register, At
<1>2. CASE ok
  BY <1>1, <1>2, BecomesRegistered DEF Register, AuthInv, Went
<1>3. CASE ~ok
  BY <1>1, <1>3, EndsStep DEF Register, AuthInv, Gone
<1>. QED
  BY <1>2, <1>3

LEMMA AssertionEffect ==
    ASSUME AuthInv, NEW h \in Handlers, NEW cred \in Creds, Assertion(h, cred)
    PROVE  \/ /\ StepOf(h) /\ hs'[h].pc = "touch" /\ hs'[h].uid \in Uids
              /\ \E r \in store.regs : hs'[h].uid = r.uid
           \/ Gone(h)
<1>1. CASE find(store, cred) = {}
  BY <1>1, EndsStep DEF Assertion, AuthInv, Gone
<1>2. CASE find(store, cred) # {}
  <2>1. PICK r \in find(store, cred) :
            Becomes(h, [pc |-> "touch", uid |-> r.uid, cred |-> cred, root |-> cred])
    BY <1>2 DEF Assertion
  <2>2. r \in store.regs /\ r.uid \in Uids
    BY DEF find, AuthInv, AuthShape, StoreType, RegType
  <2>3. StepOf(h) /\ hs'[h].pc = "touch" /\ hs'[h].uid = r.uid
    BY <2>1, <2>2, BecomesAsserting DEF AuthInv
  <2>. QED
    BY <2>2, <2>3
<1>. QED
  BY <1>1, <1>2

LEMMA AuthHello ==
    ASSUME AuthInv, NEW h \in Handlers, NEW token \in known \cup {0},
           NEW wants \in 0..Len(sess), Len(sess) \in Nat, Hello(h, token, wants)
    PROVE  AuthInv'
<1>1. UNCHANGED <<auth, clock>>
  BY DEF Hello, elsewhere
<1>2. CASE hs'[h].pc = "challenge"
  BY <1>1, <1>2, HelloEffect, AuthElsewhere DEF Proving
<1>3. CASE hs'[h].pc = "rotate"
  <2>1. PICK t \in store.tokens : /\ t.id = token /\ hs'[h].token = token
                                  /\ hs'[h].uid = t.uid
    BY <1>3, HelloEffect
  <2>2. t.uid \in Uids
    BY DEF AuthInv, AuthShape, StoreType, TokenType
  <2>3. token \in 1..issued /\ \A x \in store.tokens : x.id = token => x = t
    BY <2>1 DEF AuthInv, TokensUnique, Tokens
  <2>4. HandlerProven(h)'
    BY <1>1, <1>3, <2>1, <2>2, <2>3 DEF HandlerProven, auth
  <2>. QED
    BY <1>1, <2>4, HelloEffect, AuthElsewhere
<1>. QED
  BY <1>2, <1>3, HelloEffect

LEMMA AuthRotate ==
    ASSUME AuthInv, NEW h \in Handlers, NEW ok \in BOOLEAN, Rotate(h, ok)
    PROVE  AuthInv'
<1>. DEFINE gone == {t \in store.tokens : t.id = hs[h].token}
<1>1. /\ hs[h].pc = "rotate" /\ store' = Without(store, gone)
      /\ disk' = IF ok THEN store' ELSE disk
      /\ UNCHANGED <<nonces, issued, invited, known, clock>>
  BY DEF Rotate, At, Writes, Saved, rotate_drop, elsewhere
<1>2. store' \in StoreType /\ store'.tokens = store.tokens \ gone
  BY <1>1, WithoutStore DEF AuthInv, AuthShape
<1>3. Shrinks /\ clock' \in Nat
  BY <1>1, <1>2 DEF Shrinks, AuthInv, AuthShape
<1>4. hs[h].uid \in Uids /\ hs[h].token \in 1..issued
  BY <1>1 DEF AuthInv, HandlerProven, Proving
<1>5. \A i \in dropped' \ dropped : i \in 1..issued /\ i \notin Ids(store)' /\ i \notin Ids(disk)'
  <2>1. CASE ok
    <3>1. \A i \in dropped' \ dropped : i = hs[h].token
      BY <2>1 DEF Rotate
    <3>2. hs[h].token \notin Ids(store)' /\ disk' = store'
      BY <1>1, <1>2, <2>1 DEF Ids
    <3>. QED
      BY <1>4, <3>1, <3>2 DEF Ids
  <2>2. CASE ~ok
    BY <2>2 DEF Rotate
  <2>. QED
    BY <2>1, <2>2
<1>6. StepOf(h) /\ HandlerProven(h)'
  BY <1>4, RotateEffect, ProvenSimply DEF Went, Gone, Proving
<1>. QED
  BY <1>1, <1>3, <1>5, <1>6, AuthStep DEF StepOf

\* The new token's number is in nobody's hands, and only one that is in the
\* file goes to the handler.
LEMMA AuthIssue ==
    ASSUME AuthInv, NEW h \in Handlers, NEW ok \in BOOLEAN, Issue(h, ok)
    PROVE  AuthInv'
<1>. DEFINE t == [id |-> issued + 1, uid |-> hs[h].uid, cred |-> hs[h].cred,
                  root |-> hs[h].root, seen |-> hs[h].now]
<1>1. /\ hs[h].pc = "issue"
      /\ store' = issue_token(store, t.id, t.uid, t.cred, t.root, t.seen)
      /\ disk' = IF ok THEN store' ELSE disk
      /\ issued' = issued + 1
      /\ UNCHANGED <<nonces, invited, known, dropped, clock>>
  BY DEF Issue, At, Writes, Saved, elsewhere
<1>2. t \in TokenType /\ hs[h].uid \in Uids /\ issued \in Nat
  <2>1. hs[h].uid \in Uids /\ issued \in Nat
    BY <1>1 DEF AuthInv, HandlerProven, Proving, AuthShape
  <2>. QED
    BY <2>1 DEF AuthInv, HandlerShape, HandlerType, TokenType
<1>3. t.id = issued + 1
  OBVIOUS
<1>. HIDE DEF t
<1>4. store' \in StoreType /\ store'.tokens = store.tokens \cup {t}
  BY <1>1, <1>2, IssueStore DEF AuthInv, AuthShape
<1>5. AuthShape'
  BY <1>1, <1>2, <1>4 DEF AuthInv, AuthShape
<1>6. Tokens' \subseteq Tokens \cup {t}
  BY <1>1, <1>4 DEF Tokens
<1>7. TokensUnique'
  <2>1. \A x \in Tokens : x.id \in 1..issued /\ x.id \in 1..issued' /\ x.id # t.id
    BY <1>1, <1>2, <1>3 DEF AuthInv, TokensUnique
  <2>2. t.id \in 1..issued'
    BY <1>1, <1>2, <1>3
  <2>. QED
    BY <1>6, <2>1, <2>2 DEF AuthInv, TokensUnique
<1>8. 1..issued \subseteq 1..issued' /\ issued + 1 \in 1..issued' /\ issued + 1 \notin 1..issued
  BY <1>1, <1>2
<1>9. NoncesUnique' /\ Reported'
  BY <1>1, <1>8 DEF AuthInv, NoncesUnique, Reported
<1>10. /\ Ids(store)' = Ids(store) \cup {issued + 1}
       /\ Ids(disk)' \in {Ids(disk), Ids(store)'}
  BY <1>1, <1>3, <1>4 DEF Ids
<1>11. \A i \in 1..issued : (i \in Ids(store) => i \in Ids(disk)) =>
                                (i \in Ids(store)' => i \in Ids(disk)')
  BY <1>8, <1>10
<1>12. ReportedIsDurable'
  <2>1. known \subseteq 1..issued /\ dropped \subseteq 1..issued /\ ReportedIsDurable
    BY DEF AuthInv, Reported
  <2>2. dropped' \cap (Ids(store)' \cup Ids(disk)') = {}
    BY <1>1, <1>8, <1>10, <2>1 DEF ReportedIsDurable
  <2>3. known' \cap Ids(store)' \subseteq Ids(disk)'
    BY <1>1, <1>11, <2>1 DEF ReportedIsDurable
  <2>. QED
    BY <2>2, <2>3 DEF ReportedIsDurable
<1>13. StepOf(h) /\ HandlerProven(h)'
  <2>1. CASE ok
    <3>1. Ids(disk)' = Ids(store)'
      BY <1>1, <2>1 DEF Ids
    <3>. QED
      BY <1>2, <1>8, <2>1, <3>1, IssueEffect DEF HandlerProven, Went
  <2>2. CASE ~ok
    BY <2>2, IssueEffect, ProvenSimply DEF Gone, Proving
  <2>. QED
    BY <2>1, <2>2
<1>14. ASSUME NEW k \in Handlers, hs'[k] = hs[k]
       PROVE  HandlerProven(k)'
  <2>1. HandlerProven(k)
    BY DEF AuthInv
  <2>2. hs[k].pc = "rotate" => \A x \in store'.tokens : x.id = hs[k].token => x.uid = hs[k].uid
    BY <1>3, <1>4, <1>8, <2>1 DEF HandlerProven
  <2>. QED
    BY <1>8, <1>11, <1>14, <2>1, <2>2 DEF HandlerProven
<1>. QED
  BY <1>5, <1>7, <1>9, <1>12, <1>13, <1>14 DEF AuthInv, StepOf

LEMMA AuthResolve ==
    ASSUME AuthInv, Len(sess) \in Nat, NEW h \in Handlers, Resolve(h)
    PROVE  AuthInv'
<1>1. hs[h].pc = "resolve" /\ UNCHANGED <<auth, clock>> /\ HandlerProven(h)
  BY DEF Resolve, At, AuthInv
<1>2. CASE Ends(h)
  <2>1. StepOf(h) /\ hs'[h].pc = "idle"
    BY <1>2, EndsStep DEF AuthInv
  <2>. QED
    BY <1>1, <2>1, AuthElsewhere DEF Proving
<1>3. CASE Goto(h, "reply") \/ Becomes(h, [pc |-> "reply", wants |-> Len(sess) + 1])
  <2>1. "reply" \in Pcs /\ Len(sess) + 1 \in Nat
    BY DEF Pcs, Proving
  <2>2. /\ StepOf(h) /\ hs'[h].pc = "reply" /\ hs'[h].uid = hs[h].uid
        /\ hs'[h].issued = hs[h].issued
    BY <1>3, <2>1, GotoStep, BecomesWants DEF AuthInv
  <2>3. HandlerProven(h)'
    BY <1>1, <2>2 DEF HandlerProven, Proving, auth
  <2>. QED
    BY <1>1, <2>2, <2>3, AuthElsewhere
<1>. QED
  BY <1>2, <1>3 DEF Resolve

LEMMA AuthReply ==
    ASSUME AuthInv, NEW h \in Handlers, NEW lost \in BOOLEAN, Reply(h, lost)
    PROVE  AuthInv'
<1>1. /\ hs[h].pc = "reply" /\ HandlerProven(h)
      /\ UNCHANGED <<store, disk, nonces, issued, invited, dropped, clock>>
  BY DEF Reply, At, elsewhere, AuthInv
<1>2. Shrinks /\ clock' \in Nat
  BY <1>1 DEF AuthInv, AuthShape, Shrinks
<1>3. \A i \in known' \ known : i \in 1..issued /\ (i \in Ids(store) => i \in Ids(disk))
  BY <1>1 DEF Reply, HandlerProven
<1>4. StepOf(h) /\ HandlerProven(h)'
  BY ReplyEffect, ProvenSimply DEF Went, Gone, Proving
<1>. QED
  BY <1>1, <1>2, <1>3, <1>4, AuthStep DEF StepOf

LEMMA AuthEnroll ==
    ASSUME AuthInv, NEW h \in Handlers, NEW nonce \in 1..invited, Enroll(h, nonce)
    PROVE  AuthInv'
<1>1. UNCHANGED <<store, disk, issued, invited, known, dropped, clock>> /\ nonces' \subseteq nonces
  BY DEF Enroll, elsewhere, consume
<1>2. Shrinks /\ clock' \in Nat
  BY <1>1 DEF AuthInv, AuthShape, Shrinks
<1>3. StepOf(h) /\ HandlerProven(h)'
  BY EnrollEffect, ProvenSimply DEF Gone, Proving
<1>. QED
  BY <1>1, <1>2, <1>3, AuthStep DEF StepOf

LEMMA AuthRegister ==
    ASSUME AuthInv, NEW h \in Handlers, NEW cred \in Creds, NEW ok \in BOOLEAN,
           Register(h, cred, ok)
    PROVE  AuthInv'
<1>1. /\ hs[h].pc = "register" /\ store' = register(store, hs[h].uid, cred)
      /\ disk' = IF ok THEN store' ELSE disk
      /\ UNCHANGED <<nonces, issued, invited, known, dropped, clock>>
  BY DEF Register, At, Writes, Saved, elsewhere
<1>2. hs[h].uid \in Uids
  BY <1>1 DEF AuthInv, HandlerProven, Proving
<1>3. Shrinks /\ clock' \in Nat
  BY <1>1, <1>2, RegisterStore DEF AuthInv, AuthShape, Shrinks
<1>4. StepOf(h) /\ HandlerProven(h)'
  BY RegisterEffect, ProvenSimply DEF Went, Gone, Proving
<1>. QED
  BY <1>1, <1>3, <1>4, AuthStep DEF StepOf

LEMMA AuthAssertion ==
    ASSUME AuthInv, NEW h \in Handlers, NEW cred \in Creds, Assertion(h, cred)
    PROVE  AuthInv'
<1>1. UNCHANGED <<auth, clock>>
  BY DEF Assertion, elsewhere
<1>. QED
  BY <1>1, AssertionEffect, AuthElsewhere DEF Gone, Proving

LEMMA AuthTouch ==
    ASSUME AuthInv, NEW h \in Handlers, NEW ok \in BOOLEAN, Touch(h, ok)
    PROVE  AuthInv'
<1>1. /\ hs[h].pc = "touch" /\ store' = store /\ disk' = IF ok THEN store' ELSE disk
      /\ UNCHANGED <<nonces, issued, invited, known, dropped, clock>>
  BY DEF Touch, At, Writes, Saved, elsewhere
<1>2. Shrinks /\ clock' \in Nat
  BY <1>1 DEF AuthInv, AuthShape, Shrinks
<1>3. StepOf(h) /\ HandlerProven(h)'
  BY RotateEffect, ProvenSimply DEF Went, Gone, Proving
<1>. QED
  BY <1>1, <1>2, <1>3, AuthStep DEF StepOf

LEMMA AuthRevoked ==
    ASSUME AuthInv, NEW s \in StoreType, NEW ok \in BOOLEAN, NEW gone, NEW creds,
           s.tokens \subseteq store.tokens, gone \subseteq 1..issued,
           \A t \in s.tokens : t.id \notin gone, Revoked(s, ok, gone, creds)
    PROVE  AuthInv'
<1>1. /\ store' = s /\ disk' = IF ok THEN store' ELSE disk
      /\ UNCHANGED <<nonces, issued, invited, known, clock, hs>>
      /\ dropped' = IF ok THEN dropped \cup gone ELSE dropped
  BY DEF Revoked, Saved, elsewhere
<1>2. Shrinks /\ clock' \in Nat /\ HandlerShape'
  BY <1>1 DEF AuthInv, AuthShape, Shrinks, HandlerShape
<1>3. \A i \in dropped' \ dropped : i \in 1..issued /\ i \notin Ids(store)' /\ i \notin Ids(disk)'
  BY <1>1 DEF Ids
<1>. QED
  BY <1>1, <1>2, <1>3, AuthStep

\* Each of the helper's three revocations removes from the file, too, what it
\* reports: a number belongs to one token, wherever it is kept.
LEMMA AuthRevocations ==
    ASSUME AuthInv, NEW uid, NEW cred, NEW ok \in BOOLEAN,
           RevokeCredential(uid, cred, ok) \/ RevokeAll(uid, ok) \/ RevokeSessions(uid, ok)
    PROVE  AuthInv'
<1>1. store \in StoreType /\ TokensUnique
  BY DEF AuthInv, AuthShape
<1>2. TokensOf(uid) \subseteq 1..issued /\ TokensBy(uid, cred) \subseteq 1..issued
  BY <1>1 DEF TokensOf, TokensBy, TokensUnique, Tokens
<1>3. \A t \in store.tokens : /\ t.uid # uid => t.id \notin TokensOf(uid)
                              /\ ~(t.uid = uid /\ t.cred = cred) => t.id \notin TokensBy(uid, cred)
  BY <1>1 DEF TokensOf, TokensBy, TokensUnique, Tokens
<1>4. CASE RevokeCredential(uid, cred, ok)
  <2>. DEFINE s == revoke_credential(store, uid, cred)
  <2>1. s \in StoreType /\ s.tokens = {t \in store.tokens : ~(t.uid = uid /\ t.cred = cred)}
    BY <1>1, RevokeCredentialStore
  <2>2. Revoked(s, ok, TokensBy(uid, cred), {cred})
    BY <1>4 DEF RevokeCredential
  <2>. HIDE DEF s
  <2>. QED
    BY <1>2, <1>3, <2>1, <2>2, AuthRevoked
<1>5. CASE RevokeAll(uid, ok)
  <2>. DEFINE s == revoke_all(store, uid)
              creds == {r.cred : r \in {x \in store.regs : x.uid = uid}}
  <2>1. s \in StoreType /\ s.tokens = {t \in store.tokens : t.uid # uid}
    BY <1>1, RevokeAllStore
  <2>2. Revoked(s, ok, TokensOf(uid), creds)
    BY <1>5 DEF RevokeAll
  <2>. HIDE DEF s, creds
  <2>. QED
    BY <1>2, <1>3, <2>1, <2>2, AuthRevoked
<1>6. CASE RevokeSessions(uid, ok)
  <2>. DEFINE s == revoke_sessions(store, uid)
  <2>1. s \in StoreType /\ s.tokens = {t \in store.tokens : t.uid # uid}
    BY <1>1, RevokeSessionsStore
  <2>2. Revoked(s, ok, TokensOf(uid), {})
    BY <1>6 DEF RevokeSessions
  <2>. HIDE DEF s
  <2>. QED
    BY <1>2, <1>3, <2>1, <2>2, AuthRevoked
<1>. QED
  BY <1>4, <1>5, <1>6

LEMMA AuthEnrollNonce ==
    ASSUME AuthInv, NEW uid \in Uids, EnrollNonce(uid)
    PROVE  AuthInv'
<1>. DEFINE n == [id |-> invited + 1, uid |-> uid, expires |-> clock + NonceTtl]
<1>1. /\ UNCHANGED <<store, disk, issued, known, dropped, clock, hs>>
      /\ invited' = invited + 1 /\ invited \in Nat
      /\ nonces' = {x \in nonces : x.expires > clock} \cup {n}
  BY DEF EnrollNonce, elsewhere, issue_nonce, AuthInv, AuthShape
<1>2. n \in NonceType /\ n.id = invited + 1
  BY DevicesAssumption DEF NonceType, AuthInv, AuthShape
<1>. HIDE DEF n
<1>3. AuthShape'
  BY <1>1, <1>2 DEF AuthInv, AuthShape
<1>4. NoncesUnique'
  <2>1. \A x \in nonces : x.id \in 1..invited /\ x.id \in 1..invited' /\ x.id # n.id
    BY <1>1, <1>2 DEF AuthInv, NoncesUnique
  <2>2. n.id \in 1..invited' /\ \A x \in nonces' : x = n \/ x \in nonces
    BY <1>1, <1>2
  <2>. QED
    BY <2>1, <2>2 DEF AuthInv, NoncesUnique
<1>5. HandlerShape' /\ TokensUnique' /\ Reported' /\ ReportedIsDurable'
  BY <1>1 DEF AuthInv, HandlerShape, TokensUnique, Tokens, Reported, ReportedIsDurable, Ids
<1>6. \A h \in Handlers : HandlerProven(h)'
  BY <1>1 DEF AuthInv, HandlerProven, Ids
<1>. QED
  BY <1>3, <1>4, <1>5, <1>6 DEF AuthInv

\* After a start the memory is the file, and nobody has proven anything.
LEMMA AuthRestarted ==
    ASSUME AuthInv, Restarted
    PROVE  AuthInv'
<1>1. /\ store' = disk /\ disk' = disk /\ nonces' = {}
      /\ UNCHANGED <<clock, issued, invited, known, dropped>>
      /\ hs' = [h \in Handlers |-> NoHandler]
  BY DEF Restarted, Reloaded
<1>2. AuthShape' /\ TokensUnique' /\ NoncesUnique' /\ Reported'
  BY <1>1 DEF AuthInv, AuthShape, TokensUnique, Tokens, NoncesUnique, Reported
<1>3. ReportedIsDurable'
  BY <1>1 DEF AuthInv, ReportedIsDurable, Ids
<1>4. HandlerShape' /\ \A h \in Handlers : hs'[h].pc = "idle"
  BY <1>1 DEF HandlerShape, HandlerType, NoHandler, Pcs
<1>5. \A h \in Handlers : HandlerProven(h)'
  BY <1>4, ProvenSimply DEF Proving
<1>. QED
  BY <1>2, <1>3, <1>4, <1>5 DEF AuthInv
-----------------------------------------------------------------------------
(* Who is attached to what.                                                *)

\* A handler that has been given a session was given one there is, and a
\* browser one of its user.
Placed(h) ==
    hs[h].pc \in Attached \cup {"reply"} =>
        /\ hs[h].wants \in 1..Len(sess)
        /\ hs[h].uid # None => sess[hs[h].wants].uid = hs[h].uid

SessionInv ==
    /\ SessionShape /\ RegistryExact
    /\ creating \in [Helpers -> Uids \cup {None}]
    /\ \A h \in Handlers : Placed(h)

DaemonInv == AuthInv /\ SessionInv

LEMMA PlacedStep ==
    ASSUME SessionInv, HandlerShape, Kept, SessionShape', RegistryExact',
           creating' \in [Helpers -> Uids \cup {None}],
           \A h \in Handlers : hs'[h] = hs[h] \/ Placed(h)'
    PROVE  SessionInv'
<1>1. ASSUME NEW h \in Handlers, hs'[h] = hs[h]
      PROVE  Placed(h)'
  <2>1. Placed(h) /\ sess \in Seq(SessType)
    BY DEF SessionInv, SessionShape
  <2>2. 1..Len(sess) \subseteq 1..Len(sess')
    BY <2>1 DEF Kept
  <2>. QED
    BY <1>1, <2>1, <2>2 DEF Placed, Kept
<1>. QED
  BY <1>1 DEF SessionInv

\* The sessions are left alone.
LEMMA SessionsSame ==
    ASSUME SessionInv, HandlerShape, UNCHANGED registered,
           creating' \in [Helpers -> Uids \cup {None}],
           \A h \in Handlers : hs'[h] = hs[h] \/ Placed(h)'
    PROVE  SessionInv'
<1>1. sess' = sess /\ registry' = registry /\ SessionShape
  BY DEF registered, SessionInv
<1>2. Kept /\ SessionShape'
  BY <1>1 DEF Kept, SessionShape
<1>3. RegistryExact'
  <2>1. \A s \in DOMAIN sess' : /\ s \in registry' => sess'[s].runs
                                /\ s \notin registry' => ~sess'[s].runs \/ sess'[s].hup
    BY <1>1, Zenon DEF SessionInv, RegistryExact
  <2>2. \A uid : OfUid(uid)' = OfUid(uid)
    BY <1>1 DEF OfUid
  <2>3. /\ Cardinality(registry') <= MaxSessions
        /\ \A uid \in Uids : Cardinality(OfUid(uid)') <= MaxPerUid
    BY <1>1, <2>2, Zenon DEF SessionInv, RegistryExact
  <2>. QED
    BY <2>1, <2>3, RegistryExactNext, Zenon
<1>. QED
  BY <1>2, <1>3, PlacedStep

\* A transport's step on a session, as far as the registry is concerned.
LEMMA RegistryTransport ==
    ASSUME SessionInv, clock \in Nat, NEW s \in 1..Len(sess), registry' = registry,
           \/ Claim(s) \/ ClearDetach(s) \/ SetDetach(s, clock) \/ HungUp({s})
    PROVE  Kept /\ SessionShape' /\ RegistryExact'
<1>1. SessionShape /\ RegistryExact /\ sess \in Seq(SessType) /\ DOMAIN sess = 1..Len(sess)
  BY DEF SessionInv, SessionShape
<1>2. /\ Kept /\ Len(sess') = Len(sess)
      /\ \A t \in 1..Len(sess) : sess'[t].runs = sess[t].runs
  <2>1. CASE HungUp({s})
    BY <1>1, <2>1, HungUpStep, Zenon
  <2>2. CASE Claim(s) \/ ClearDetach(s) \/ SetDetach(s, clock)
    BY <1>1, <2>2, TransportSteps, Zenon
  <2>. QED
    BY <2>1, <2>2
<1>3. \A t \in 1..Len(sess) : t \notin registry' => ~sess'[t].runs \/ sess'[t].hup
  <2>1. \A t \in 1..Len(sess) : t \notin registry => ~sess[t].runs \/ sess[t].hup
    BY <1>1, Zenon DEF RegistryExact
  <2>. QED
    BY <1>2, <2>1, Zenon DEF Kept
<1>. QED
  BY <1>1, <1>2, <1>3, RegistryShrinks, Zenon

\* Sessions leave the map and are told to hang up, those of the map and no
\* others.
LEMMA RegistryKilled ==
    ASSUME SessionInv, NEW ss, Killed(ss)
    PROVE  Kept /\ SessionShape' /\ RegistryExact'
<1>1. SessionShape /\ RegistryExact /\ sess \in Seq(SessType) /\ DOMAIN sess = 1..Len(sess)
  BY DEF SessionInv, SessionShape
<1>2. /\ Kept /\ Len(sess') = Len(sess)
      /\ \A t \in 1..Len(sess) : sess'[t].runs = sess[t].runs
      /\ \A t \in 1..Len(sess) : t \in ss => sess'[t].hup
  BY <1>1, HungUpStep, Zenon DEF Killed
<1>3. registry' = registry \ ss
  BY DEF Killed
<1>4. \A t \in 1..Len(sess) : t \notin registry' => ~sess'[t].runs \/ sess'[t].hup
  <2>1. \A t \in 1..Len(sess) : t \notin registry => ~sess[t].runs \/ sess[t].hup
    BY <1>1, Zenon DEF RegistryExact
  <2>. QED
    BY <1>2, <1>3, <2>1, Zenon DEF Kept
<1>5. registry' \subseteq registry
  BY <1>3
<1>. QED
  BY <1>1, <1>2, <1>4, <1>5, RegistryShrinks, Zenon

LEMMA RegistryOwnerEnds ==
    ASSUME SessionInv, NEW s \in 1..Len(sess), OwnerEnds(s)
    PROVE  Kept /\ SessionShape' /\ RegistryExact'
<1>1. SessionShape /\ RegistryExact /\ sess \in Seq(SessType) /\ DOMAIN sess = 1..Len(sess)
  BY DEF SessionInv, SessionShape
<1>2. /\ Kept /\ Len(sess') = Len(sess)
      /\ \A t \in 1..Len(sess) : sess'[t].runs = IF t = s THEN FALSE ELSE sess[t].runs
  BY <1>1, OwnerEndsStep, Zenon
<1>3. registry' = registry \ {s}
  BY DEF OwnerEnds
<1>4. /\ ~sess'[s].runs
      /\ \A t \in 1..Len(sess) : t # s => sess'[t].runs = sess[t].runs
  BY <1>2, Zenon
<1>5. \A t \in 1..Len(sess) : t \notin registry' => ~sess'[t].runs \/ sess'[t].hup
  <2>1. \A t \in 1..Len(sess) : t \notin registry => ~sess[t].runs \/ sess[t].hup
    BY <1>1, Zenon DEF RegistryExact
  <2>. QED
    BY <1>2, <1>3, <1>4, <2>1, Zenon DEF Kept
<1>6. registry' \subseteq registry /\ \A t \in registry' : t # s
  BY <1>3
<1>. QED
  BY <1>1, <1>2, <1>4, <1>5, <1>6, RegistryShrinks, Zenon
-----------------------------------------------------------------------------
(* The invariant is inductive.                                             *)

\* A handshake does nothing to the sessions before it resolves the one that
\* was asked for, and a handler that has none is attached to none.
LEMMA SessionsOfHandshake ==
    ASSUME DaemonInv, NEW h \in Handlers, StepOf(h), hs'[h].pc \notin Attached \cup {"reply"},
           UNCHANGED <<registered, creating>>
    PROVE  SessionInv'
<1>1. Placed(h)'
  BY DEF Placed
<1>. QED
  BY <1>1, SessionsSame DEF DaemonInv, AuthInv, SessionInv, StepOf

LEMMA InvResolve ==
    ASSUME DaemonInv, NEW h \in Handlers, Resolve(h)
    PROVE  DaemonInv'
<1>1. /\ HandlerShape /\ SessionInv /\ SessionShape /\ RegistryExact /\ Len(sess) \in Nat
      /\ clock \in Nat /\ creating' \in [Helpers -> Uids \cup {None}]
      /\ hs[h].uid \in Uids
  BY DEF DaemonInv, AuthInv, AuthShape, SessionInv, SessionShape, Resolve, At, HandlerProven,
         Proving
<1>2. AuthInv'
  BY <1>1, AuthResolve DEF DaemonInv
<1>3. "reply" \in Pcs /\ Len(sess) + 1 \in Nat
  BY <1>1 DEF Pcs, Proving
<1>4. CASE ~Full(hs[h].uid) /\ Spawned(hs[h].uid, clock)
           /\ Becomes(h, [pc |-> "reply", wants |-> Len(sess) + 1])
  <2>1. StepOf(h) /\ hs'[h].wants = Len(sess) + 1 /\ hs'[h].uid = hs[h].uid
    BY <1>1, <1>3, <1>4, BecomesWants
  <2>2. Kept /\ Len(sess') = Len(sess) + 1 /\ sess'[Len(sess) + 1].uid = hs[h].uid
    BY <1>1, <1>4, SpawnedStep DEF SessionShape
  <2>3. SessionShape' /\ RegistryExact'
    BY <1>1, <1>4, RegistryGrows
  <2>4. Placed(h)'
    BY <1>1, <2>1, <2>2 DEF Placed
  <2>. QED
    BY <1>1, <1>2, <2>1, <2>2, <2>3, <2>4, PlacedStep DEF DaemonInv, StepOf
<1>5. CASE Own(hs[h].wants, hs[h].uid) /\ Goto(h, "reply") /\ UNCHANGED registered
  <2>1. StepOf(h) /\ hs'[h].wants = hs[h].wants /\ hs'[h].uid = hs[h].uid
    BY <1>1, <1>3, <1>5, GotoStep
  <2>2. Placed(h)'
    BY <1>1, <1>5, <2>1 DEF Placed, Own, SessionShape, registered
  <2>. QED
    BY <1>1, <1>2, <1>5, <2>1, <2>2, SessionsSame DEF DaemonInv, StepOf
<1>6. CASE Ends(h) /\ UNCHANGED registered
  <2>1. StepOf(h) /\ hs'[h].pc = "idle"
    BY <1>1, <1>6, EndsStep
  <2>. QED
    BY <1>2, <1>6, <2>1, SessionsOfHandshake DEF DaemonInv, Resolve, Attached
<1>. QED
  BY <1>4, <1>5, <1>6 DEF Resolve

LEMMA InvHandshake ==
    ASSUME DaemonInv, NEW h \in Handlers, Handshake(h)
    PROVE  DaemonInv'
<1>1. /\ AuthInv /\ SessionInv /\ Len(sess) \in Nat /\ HandlerShape
      /\ creating \in [Helpers -> Uids \cup {None}]
  BY DEF DaemonInv, AuthInv, SessionInv, SessionShape
<1>2. SUFFICES ASSUME ~Resolve(h)
               PROVE  /\ AuthInv' /\ StepOf(h) /\ UNCHANGED <<registered, creating>>
                      /\ hs'[h].pc \notin Attached \cup {"reply"}
  BY InvResolve, SessionsOfHandshake DEF DaemonInv
<1>3. CASE \E token \in known \cup {0} : \E wants \in 0..Len(sess) : Hello(h, token, wants)
  <2>1. PICK token \in known \cup {0}, wants \in 0..Len(sess) : Hello(h, token, wants)
    BY <1>3
  <2>2. StepOf(h) /\ hs'[h].pc \in {"challenge", "rotate"}
    BY <1>1, <2>1, HelloEffect
  <2>. QED
    BY <1>1, <2>1, <2>2, AuthHello DEF Hello, elsewhere, Attached
<1>4. CASE \E ok \in BOOLEAN : Rotate(h, ok) \/ Touch(h, ok)
  <2>1. PICK ok \in BOOLEAN : Rotate(h, ok) \/ Touch(h, ok)
    BY <1>4
  <2>2. StepOf(h) /\ hs'[h].pc \in {"issue", "idle"}
    BY <1>1, <2>1, RotateEffect DEF Went, Gone
  <2>. QED
    BY <1>1, <2>1, <2>2, AuthRotate, AuthTouch DEF Rotate, Touch, elsewhere, Attached
<1>5. CASE \E ok \in BOOLEAN : Issue(h, ok)
  <2>1. PICK ok \in BOOLEAN : Issue(h, ok)
    BY <1>5
  <2>2. StepOf(h) /\ hs'[h].pc \in {"resolve", "idle"}
    BY <1>1, <2>1, IssueEffect DEF Went, Gone
  <2>. QED
    BY <1>1, <2>1, <2>2, AuthIssue DEF Issue, elsewhere, Attached
<1>6. CASE \E nonce \in 1..invited : Enroll(h, nonce)
  <2>1. PICK nonce \in 1..invited : Enroll(h, nonce)
    BY <1>6
  <2>2. StepOf(h) /\ hs'[h].pc \in {"register", "idle"}
    BY <1>1, <2>1, EnrollEffect DEF Gone
  <2>. QED
    BY <1>1, <2>1, <2>2, AuthEnroll DEF Enroll, elsewhere, Attached
<1>7. CASE \E cred \in Creds : Assertion(h, cred)
  <2>1. PICK cred \in Creds : Assertion(h, cred)
    BY <1>7
  <2>2. StepOf(h) /\ hs'[h].pc \in {"touch", "idle"}
    BY <1>1, <2>1, AssertionEffect DEF Gone
  <2>. QED
    BY <1>1, <2>1, <2>2, AuthAssertion DEF Assertion, elsewhere, Attached
<1>8. CASE \E cred \in Creds, ok \in BOOLEAN : Register(h, cred, ok)
  <2>1. PICK cred \in Creds, ok \in BOOLEAN : Register(h, cred, ok)
    BY <1>8
  <2>2. StepOf(h) /\ hs'[h].pc \in {"issue", "idle"}
    BY <1>1, <2>1, RegisterEffect DEF Went, Gone
  <2>. QED
    BY <1>1, <2>1, <2>2, AuthRegister DEF Register, elsewhere, Attached
<1>9. CASE \E lost \in BOOLEAN : Reply(h, lost)
  <2>1. PICK lost \in BOOLEAN : Reply(h, lost)
    BY <1>9
  <2>2. StepOf(h) /\ hs'[h].pc \in {"hello", "idle"}
    BY <1>1, <2>1, ReplyEffect DEF Went, Gone
  <2>. QED
    BY <1>1, <2>1, <2>2, AuthReply DEF Reply, elsewhere, Attached
<1>10. CASE Refuse(h)
  <2>1. StepOf(h) /\ hs'[h].pc = "idle"
    BY <1>1, <1>10, EndsStep DEF Refuse
  <2>2. AuthInv'
    BY <1>1, <1>10, <2>1, AuthElsewhere DEF Refuse, elsewhere, Proving
  <2>. QED
    BY <1>10, <2>1, <2>2 DEF Refuse, elsewhere, Attached
<1>. QED
  BY <1>2, <1>3, <1>4, <1>5, <1>6, <1>7, <1>8, <1>9, <1>10 DEF Handshake

\* The step a handler takes on a session: it is a browser's own, if it is a
\* browser's, and stays it.
LEMMA InvAttachment ==
    ASSUME DaemonInv, NEW h \in Handlers, Attachment(h)
    PROVE  DaemonInv'
<1>1. /\ AuthInv /\ SessionInv /\ HandlerShape /\ clock \in Nat /\ Placed(h)
      /\ sess \in Seq(SessType) /\ registry \subseteq 1..Len(sess)
      /\ DOMAIN sess = 1..Len(sess)
      /\ creating \in [Helpers -> Uids \cup {None}]
  BY DEF DaemonInv, AuthInv, AuthShape, SessionInv, SessionShape
<1>2. UNCHANGED <<auth, clock, creating>>
  BY DEF Attachment, Connect, Lookup, ClaimTransport, ClearLastDetach, Detach, SetLastDetach,
         Hangup, elsewhere
<1>3. SUFFICES ASSUME ~Hangup(h)
               PROVE  StepOf(h) /\ hs'[h].pc \notin Proving /\ SessionInv'
  <2>1. CASE Hangup(h)
    <3>1. hs' = hs /\ registry' = registry /\ hs[h].wants \in 1..Len(sess) /\ HungUp({hs[h].wants})
      BY <1>1, <2>1 DEF Hangup, At, Placed, Attached
    <3>2. Kept /\ SessionShape' /\ RegistryExact'
      BY <1>1, <3>1, RegistryTransport
    <3>3. SessionInv'
      BY <1>1, <1>2, <3>1, <3>2, PlacedStep
    <3>4. AuthInv'
      BY <1>1, <1>2, <3>1, AuthSame
    <3>. QED
      BY <3>3, <3>4 DEF DaemonInv
  <2>2. CASE StepOf(h) /\ hs'[h].pc \notin Proving /\ SessionInv'
    BY <1>1, <1>2, <2>2, AuthElsewhere DEF DaemonInv
  <2>. QED
    BY <2>1, <2>2
<1>4. ASSUME Gone(h), UNCHANGED registered
      PROVE  StepOf(h) /\ hs'[h].pc \notin Proving /\ SessionInv'
  BY <1>2, <1>4, SessionsOfHandshake DEF Gone, Attached, Proving
<1>5. ASSUME NEW s \in 1..Len(sess), Connect(h, s)
      PROVE  StepOf(h) /\ hs'[h].pc \notin Proving /\ SessionInv'
  <2>1. "hello" \in Pcs /\ s \in Nat
    BY DEF Pcs
  <2>2. StepOf(h) /\ hs'[h].pc = "hello"
    BY <1>1, <1>5, <2>1, BecomesWants DEF Connect
  <2>. QED
    BY <1>2, <1>5, <2>2, SessionsOfHandshake DEF Connect, elsewhere, Attached, Proving
<1>6. ASSUME NEW s \in 1..Len(sess), Lookup(h, s)
      PROVE  StepOf(h) /\ hs'[h].pc \notin Proving /\ SessionInv'
  <2>1. UNCHANGED registered
    BY <1>6 DEF Lookup, elsewhere
  <2>2. CASE Becomes(h, [pc |-> "claim", wants |-> s]) /\ (hs[h].uid # None => Own(s, hs[h].uid))
    <3>1. "claim" \in Pcs /\ s \in Nat
      BY DEF Pcs, Attached
    <3>2. StepOf(h) /\ hs'[h].pc = "claim" /\ hs'[h].wants = s /\ hs'[h].uid = hs[h].uid
      BY <1>1, <2>2, <3>1, BecomesWants
    <3>3. Placed(h)'
      BY <2>1, <2>2, <3>2 DEF Placed, Own, registered
    <3>. QED
      BY <1>1, <1>2, <2>1, <3>2, <3>3, SessionsSame DEF StepOf, Proving
  <2>3. CASE Ends(h)
    BY <1>1, <1>4, <2>1, <2>3, EndsStep DEF Gone
  <2>. QED
    BY <1>6, <2>2, <2>3 DEF Lookup
<1>7. CASE ClaimTransport(h) \/ ClearLastDetach(h) \/ SetLastDetach(h)
  <2>1. /\ hs[h].pc \in Attached /\ hs[h].wants \in 1..Len(sess)
        /\ hs[h].uid # None => sess[hs[h].wants].uid = hs[h].uid
    BY <1>1, <1>7 DEF ClaimTransport, ClearLastDetach, SetLastDetach, At, Placed, Attached
  <2>2. Kept /\ SessionShape' /\ RegistryExact'
    BY <1>1, <1>7, <2>1, RegistryTransport DEF ClaimTransport, ClearLastDetach, SetLastDetach
  <2>3. /\ StepOf(h) /\ hs'[h].pc \notin Proving
        /\ \/ hs'[h].pc = "idle"
           \/ hs'[h].wants = hs[h].wants /\ hs'[h].uid = hs[h].uid
    <3>1. CASE ClaimTransport(h)
      <4>1. sess[hs[h].wants] \in SessType
        BY <1>1, <2>1
      <4>2. sess[hs[h].wants].epoch + 1 \in Nat
        BY <4>1 DEF SessType
      <4>. QED
        BY <1>1, <3>1, <4>2, BecomesClaimed DEF ClaimTransport, Proving
    <3>2. CASE ClearLastDetach(h)
      <4>1. Goto(h, "attached") /\ "attached" \in Pcs
        BY <3>2 DEF ClearLastDetach, Pcs, Attached
      <4>. QED
        BY <1>1, <4>1, GotoStep DEF Proving
    <3>3. CASE SetLastDetach(h)
      BY <1>1, <3>3, EndsStep DEF SetLastDetach, Proving
    <3>. QED
      BY <1>7, <3>1, <3>2, <3>3
  <2>4. Placed(h)'
    <3>1. 1..Len(sess) \subseteq 1..Len(sess')
      BY <1>1, <2>2 DEF Kept
    <3>. QED
      BY <2>1, <2>2, <2>3, <3>1 DEF Placed, Kept, Attached
  <2>. QED
    BY <1>1, <1>2, <2>2, <2>3, <2>4, PlacedStep DEF StepOf
<1>8. CASE Detach(h)
  <2>1. UNCHANGED registered /\ hs[h].pc \in Attached
    BY <1>8 DEF Detach, elsewhere, At, Attached
  <2>2. CASE Goto(h, "detach")
    <3>1. "detach" \in Pcs
      BY DEF Pcs, Attached
    <3>2. /\ StepOf(h) /\ hs'[h].pc = "detach" /\ hs'[h].wants = hs[h].wants
          /\ hs'[h].uid = hs[h].uid
      BY <1>1, <2>2, <3>1, GotoStep
    <3>3. Placed(h)'
      BY <1>1, <2>1, <3>2 DEF Placed, registered
    <3>. QED
      BY <1>1, <1>2, <2>1, <3>2, <3>3, SessionsSame DEF StepOf, Proving
  <2>3. CASE Ends(h)
    BY <1>1, <1>4, <2>1, <2>3, EndsStep DEF Gone
  <2>. QED
    BY <1>8, <2>2, <2>3 DEF Detach
<1>. QED
  BY <1>1, <1>3, <1>5, <1>6, <1>7, <1>8 DEF Attachment

LEMMA InvHelperOp ==
    ASSUME DaemonInv, HelperOp
    PROVE  DaemonInv'
<1>1. /\ AuthInv /\ SessionInv /\ HandlerShape /\ clock \in Nat
      /\ SessionShape /\ RegistryExact
      /\ creating \in [Helpers -> Uids \cup {None}]
  BY DEF DaemonInv, AuthInv, AuthShape, SessionInv
<1>2. ASSUME AuthInv', UNCHANGED <<registered, creating, hs>>
      PROVE  DaemonInv'
  BY <1>1, <1>2, SessionsSame DEF DaemonInv
<1>3. CASE \E uid \in Uids : EnrollNonce(uid)
  BY <1>1, <1>2, <1>3, AuthEnrollNonce DEF EnrollNonce, elsewhere
<1>4. CASE \E uid \in Uids, cred \in Creds, ok \in BOOLEAN : RevokeCredential(uid, cred, ok)
  <2>1. PICK uid \in Uids, cred \in Creds, ok \in BOOLEAN : RevokeCredential(uid, cred, ok)
    BY <1>4
  <2>2. AuthInv'
    BY <1>1, <2>1, AuthRevocations
  <2>. QED
    BY <1>2, <2>1, <2>2 DEF RevokeCredential, Revoked, elsewhere
<1>5. CASE \E uid \in Uids, ok \in BOOLEAN : RevokeAll(uid, ok) \/ RevokeSessions(uid, ok)
  BY <1>1, <1>2, <1>5, AuthRevocations DEF RevokeAll, RevokeSessions, Revoked, elsewhere
<1>6. CASE \E uid \in Uids, k \in Helpers, kill \in BOOLEAN : Create(k, uid, kill)
  <2>1. PICK uid \in Uids, k \in Helpers, kill \in BOOLEAN : Create(k, uid, kill)
    BY <1>6
  <2>2. PICK ss : Killed(ss)
    BY <2>1 DEF Create
  <2>3. Kept /\ SessionShape' /\ RegistryExact'
    BY <1>1, <2>2, RegistryKilled
  <2>4. creating' \in [Helpers -> Uids \cup {None}]
    BY <1>1, <2>1 DEF Create
  <2>5. UNCHANGED <<auth, clock, hs>>
    BY <2>1 DEF Create
  <2>6. SessionInv'
    BY <1>1, <2>3, <2>4, <2>5, PlacedStep
  <2>. QED
    BY <1>1, <2>5, <2>6, AuthSame DEF DaemonInv
<1>7. CASE \E k \in Helpers : Spawn(k)
  <2>1. PICK k \in Helpers : Spawn(k)
    BY <1>7
  <2>2. creating[k] \in Uids /\ creating' \in [Helpers -> Uids \cup {None}]
    BY <1>1, <2>1 DEF Spawn
  <2>3. UNCHANGED <<auth, clock, hs>>
    BY <2>1 DEF Spawn
  <2>4. CASE ~Full(creating[k]) /\ Spawned(creating[k], clock)
    <3>1. Kept /\ SessionShape' /\ RegistryExact'
      BY <1>1, <2>2, <2>4, SpawnedStep, RegistryGrows DEF SessionShape
    <3>2. SessionInv'
      BY <1>1, <2>2, <2>3, <3>1, PlacedStep
    <3>. QED
      BY <1>1, <2>3, <3>2, AuthSame DEF DaemonInv
  <2>5. CASE UNCHANGED registered
    <3>1. SessionInv'
      BY <1>1, <2>2, <2>3, <2>5, SessionsSame
    <3>. QED
      BY <1>1, <2>3, <3>1, AuthSame DEF DaemonInv
  <2>. QED
    BY <2>1, <2>4, <2>5 DEF Spawn
<1>. QED
  BY <1>3, <1>4, <1>5, <1>6, <1>7 DEF HelperOp

LEMMA InvRestarted ==
    ASSUME DaemonInv, Restarted
    PROVE  DaemonInv'
<1>1. AuthInv'
  BY AuthRestarted DEF DaemonInv
<1>2. /\ sess' = <<>> /\ registry' = {} /\ creating' = [k \in Helpers |-> None]
      /\ hs' = [h \in Handlers |-> NoHandler]
  BY DEF Restarted
<1>3. SessionShape' /\ creating' \in [Helpers -> Uids \cup {None}]
  BY <1>2 DEF SessionShape
<1>4. RegistryExact'
  <2>1. \A uid : OfUid(uid)' = {}
    BY <1>2 DEF OfUid
  <2>2. DOMAIN sess' = {} /\ Cardinality({}) = 0
    BY <1>2, FS_EmptySet
  <2>. QED
    BY <1>2, <2>1, <2>2, RegistryAssumption, RegistryExactNext
<1>5. \A h \in Handlers : Placed(h)'
  BY <1>2 DEF Placed, NoHandler, Attached
<1>. QED
  BY <1>1, <1>3, <1>4, <1>5 DEF DaemonInv, SessionInv

LEMMA InvInit == Init => DaemonInv
<1>. SUFFICES ASSUME Init PROVE DaemonInv
  OBVIOUS
<1>1. AuthShape /\ TokensUnique /\ NoncesUnique /\ Reported /\ ReportedIsDurable
  BY DEF Init, DevicesInit, Empty, AuthShape, StoreType, TokensUnique, Tokens, NoncesUnique,
         Reported, ReportedIsDurable
<1>2. HandlerShape /\ \A h \in Handlers : hs[h].pc = "idle"
  BY DEF Init, HandlerShape, HandlerType, NoHandler, Pcs
<1>3. \A h \in Handlers : HandlerProven(h) /\ Placed(h)
  BY <1>2 DEF HandlerProven, Placed, Proving, Attached
<1>4. SessionShape /\ creating \in [Helpers -> Uids \cup {None}]
  BY DEF Init, RegistryInit, SessionShape
<1>5. RegistryExact
  <2>1. DOMAIN sess = {} /\ registry = {} /\ \A uid : OfUid(uid) = {}
    BY DEF Init, RegistryInit, OfUid
  <2>2. Cardinality({}) = 0
    BY FS_EmptySet
  <2>3. Cardinality({}) <= MaxSessions /\ Cardinality({}) <= MaxPerUid
    BY <2>2, RegistryAssumption
  <2>. QED
    BY <2>1, <2>3, Zenon DEF RegistryExact
<1>. QED
  BY <1>1, <1>2, <1>3, <1>4, <1>5 DEF DaemonInv, AuthInv, SessionInv

LEMMA InvNext == DaemonInv /\ [Next]_vars => DaemonInv'
<1>. SUFFICES ASSUME DaemonInv, [Next]_vars PROVE DaemonInv'
  OBVIOUS
<1>1. /\ AuthInv /\ SessionInv /\ HandlerShape /\ clock \in Nat
      /\ creating \in [Helpers -> Uids \cup {None}]
      /\ DOMAIN sess = 1..Len(sess)
  BY DEF DaemonInv, AuthInv, AuthShape, SessionInv, SessionShape
<1>2. ASSUME UNCHANGED <<auth, registered, hs, creating>>, clock' \in Nat
      PROVE  DaemonInv'
  BY <1>1, <1>2, AuthSame, SessionsSame DEF DaemonInv
<1>3. ASSUME Kept, SessionShape', RegistryExact', UNCHANGED <<auth, clock, hs, creating>>
      PROVE  DaemonInv'
  BY <1>1, <1>3, AuthSame, PlacedStep DEF DaemonInv
<1>4. CASE \E h \in Handlers : Handshake(h) \/ Attachment(h)
  BY <1>4, InvHandshake, InvAttachment
<1>5. CASE HelperOp
  BY <1>5, InvHelperOp
<1>6. CASE Tick
  BY <1>1, <1>2, <1>6 DEF Tick
<1>7. CASE Shutdown
  BY <1>1, <1>2, <1>7 DEF Shutdown
<1>8. CASE Exit \/ Crash
  BY <1>8, InvRestarted DEF Exit, Crash
<1>9. CASE \E s \in DOMAIN sess : OwnerEnd(s)
  BY <1>1, <1>3, <1>9, RegistryOwnerEnds DEF OwnerEnd
<1>10. CASE \E s \in DOMAIN sess : Destroy(s)
  BY <1>1, <1>3, <1>10, RegistryKilled DEF Destroy
<1>11. CASE UNCHANGED vars
  BY <1>1, <1>2, <1>11 DEF vars
<1>. QED
  BY <1>4, <1>5, <1>6, <1>7, <1>8, <1>9, <1>10, <1>11 DEF Next

LEMMA InvAlways == Spec => []DaemonInv
  BY InvInit, InvNext, PTL DEF Spec
-----------------------------------------------------------------------------
(* The theorems.                                                           *)

\* However handshakes, revocations, failed writes and crashes interleave, a
\* token whose removal was reported is never accepted again, and one that a
\* browser holds is in devices.json for as long as it is accepted.
THEOREM ReportedIsDurableHolds == Spec => []ReportedIsDurable
<1>1. DaemonInv => ReportedIsDurable
  BY DEF DaemonInv, AuthInv
<1>. QED
  BY <1>1, InvAlways, PTL

\* The registry holds the sessions that run and no others, except those that
\* were told to hang up, and its two limits are never passed.
THEOREM RegistryExactHolds == Spec => []RegistryExact
<1>1. DaemonInv => RegistryExact
  BY DEF DaemonInv, SessionInv
<1>. QED
  BY <1>1, InvAlways, PTL

\* No browser is attached to, or told of, another user's session.
THEOREM OwnSessionsOnlyHolds == Spec => []OwnSessionsOnly
<1>1. DaemonInv => OwnSessionsOnly
  BY DEF DaemonInv, SessionInv, OwnSessionsOnly, Placed, Attached
<1>. QED
  BY <1>1, InvAlways, PTL
-----------------------------------------------------------------------------
(* The handshake implements Access.                                        *)

\* The abstract state.
Usable == Grants(store)
Doubtful == Grants(disk) \ Grants(store)
Invitations == {[id |-> n.id, uid |-> n.uid] : n \in nonces}
Act(h) == IF hs[h].pc \in Proving THEN hs[h].uid ELSE None
Acts == [h \in Handlers |-> IF hs[h].pc \in Proving THEN hs[h].uid ELSE None]

\* The abstract actions, of that state.
LEMMA AccessUse ==
    ASSUME NEW h \in Handlers, Acts[h] = None, NEW g \in Usable,
           Acts' = [Acts EXCEPT ![h] = g.uid], UNCHANGED <<Usable, Doubtful, Invitations>>
    PROVE  A!Next
  BY DEF A!Next, A!Use, Acts, Usable, Doubtful, Invitations

LEMMA AccessSpend ==
    ASSUME NEW h \in Handlers, Acts[h] = None, NEW i \in Invitations,
           Acts' = [Acts EXCEPT ![h] = i.uid], Invitations' = Invitations \ {i},
           UNCHANGED <<Usable, Doubtful>>
    PROVE  A!Next
  BY DEF A!Next, A!Spend, Acts, Usable, Doubtful, Invitations

LEMMA AccessGain ==
    ASSUME NEW h \in Handlers, NEW g \in Usable', g.uid = Acts[h], Acts[h] # None,
           Usable' \ {g} = {x \in Usable \ {g} : x.kind # g.kind \/ x.id # g.id},
           Doubtful' \subseteq Doubtful \cup Usable,
           Acts' \in {Acts, [Acts EXCEPT ![h] = None]}, Invitations' = Invitations
    PROVE  A!Next
  BY DEF A!Next, A!Gain, A!Goes, Acts, Usable, Doubtful, Invitations

LEMMA AccessDrop ==
    ASSUME NEW h \in Handlers, Usable' \subseteq Usable,
           \A g \in Usable \ Usable' : g.uid = Acts[h],
           Doubtful' \subseteq Doubtful \cup Usable,
           Acts' \in {Acts, [Acts EXCEPT ![h] = None]}, Invitations' = Invitations
    PROVE  A!Next
  BY DEF A!Next, A!Drop, A!Goes, Acts, Usable, Doubtful, Invitations

LEMMA AccessWithdraw ==
    ASSUME Usable' \subseteq Usable, Doubtful' \subseteq Doubtful \cup Usable,
           Acts' = Acts, Invitations' = Invitations
    PROVE  A!Next
  BY DEF A!Next, A!Withdraw, Acts, Usable, Doubtful, Invitations

LEMMA AccessInvite ==
    ASSUME NEW i \in Invitations', Invitations' \subseteq Invitations \cup {i},
           UNCHANGED <<Usable, Doubtful, Acts>>
    PROVE  A!Next
  BY DEF A!Next, A!Invite, Acts, Usable, Doubtful, Invitations

LEMMA AccessLapse ==
    ASSUME Invitations' \subseteq Invitations, UNCHANGED <<Usable, Doubtful, Acts>>
    PROVE  A!Next
  BY DEF A!Next, A!Lapse, Acts, Usable, Doubtful, Invitations

LEMMA AccessLeave ==
    ASSUME NEW h \in Handlers, Acts' = [Acts EXCEPT ![h] = None],
           UNCHANGED <<Usable, Doubtful, Invitations>>
    PROVE  A!Next
  BY DEF A!Next, A!Leave, Acts, Usable, Doubtful, Invitations

LEMMA AccessCrash ==
    ASSUME Usable' \subseteq Usable \cup Doubtful, Doubtful' = {}, Invitations' = {},
           Acts' = [h \in Handlers |-> None]
    PROVE  A!Next
  BY DEF A!Next, A!Crash, Acts, Usable, Doubtful, Invitations

LEMMA AccessStutter ==
    ASSUME UNCHANGED <<Usable, Doubtful, Invitations, Acts>>
    PROVE  UNCHANGED A!vars
  BY DEF A!vars, Acts, Usable, Doubtful, Invitations

\* A handler's step, as Access sees it.
LEMMA ActsStep ==
    ASSUME NEW h \in Handlers, StepOf(h)
    PROVE  /\ Acts' = [Acts EXCEPT ![h] = Act(h)']
           /\ Acts[h] = Act(h)
           /\ Went(h, hs'[h].pc) /\ hs[h].pc \in Proving /\ hs'[h].pc \in Proving => Acts' = Acts
           /\ hs'[h].pc \notin Proving => Acts' = [Acts EXCEPT ![h] = None]
<1>1. Acts[h] = Act(h) /\ Acts' = [Acts EXCEPT ![h] = Act(h)']
  BY DEF Acts, Act, StepOf
<1>2. Went(h, hs'[h].pc) /\ hs[h].pc \in Proving /\ hs'[h].pc \in Proving => Acts' = Acts
  BY DEF Acts, StepOf, Went
<1>3. hs'[h].pc \notin Proving => Act(h)' = None
  BY DEF Act
<1>. QED
  BY <1>1, <1>2, <1>3

LEMMA InGrants ==
    ASSUME NEW s, NEW g
    PROVE  g \in Grants(s) <=>
               \/ \E t \in s.tokens : g = [kind |-> "token", id |-> t.id, uid |-> t.uid]
               \/ \E r \in s.regs : g = [kind |-> "device", id |-> r.cred, uid |-> r.uid]
  BY DEF Grants

\* A write leaves in doubt at most what was accepted or in doubt before it.
LEMMA DoubtfulStep ==
    ASSUME disk' \in {disk, store'}
    PROVE  Doubtful' \subseteq Doubtful \cup Usable
  BY DEF Doubtful, Usable

LEMMA FewerGrants ==
    ASSUME store'.tokens \subseteq store.tokens, store'.regs \subseteq store.regs
    PROVE  Usable' \subseteq Usable
<1>. SUFFICES ASSUME NEW g \in Grants(store') PROVE g \in Grants(store)
  BY DEF Usable
<1>. QED
  BY InGrants

LEMMA GrantsSame ==
    ASSUME UNCHANGED <<store, disk>>
    PROVE  UNCHANGED <<Usable, Doubtful>>
  BY DEF Usable, Doubtful

LEMMA InvitationsSame ==
    ASSUME UNCHANGED nonces
    PROVE  UNCHANGED Invitations
  BY DEF Invitations

\* A handler that has ended, or has proven nothing.
LEMMA StepLeave ==
    ASSUME NEW h \in Handlers, StepOf(h), hs'[h].pc \notin Proving,
           UNCHANGED <<store, disk, nonces>>
    PROVE  A!Next
  BY ActsStep, GrantsSame, InvitationsSame, AccessLeave

LEMMA StepHello ==
    ASSUME DaemonInv, NEW h \in Handlers, NEW token \in known \cup {0},
           NEW wants \in 0..Len(sess), Hello(h, token, wants)
    PROVE  A!Next
<1>1. AuthInv /\ Len(sess) \in Nat
  BY DEF DaemonInv, SessionInv, SessionShape
<1>2. UNCHANGED <<store, disk, nonces>> /\ hs[h].pc = "idle"
  BY DEF Hello, auth, At
<1>3. StepOf(h)
  BY <1>1, HelloEffect
<1>4. CASE hs'[h].pc = "challenge"
  BY <1>2, <1>3, <1>4, StepLeave DEF Proving
<1>5. CASE hs'[h].pc # "challenge"
  <2>1. PICK t \in store.tokens : hs'[h].pc = "rotate" /\ hs'[h].uid = t.uid
    BY <1>1, <1>5, HelloEffect
  <2>. DEFINE g == [kind |-> "token", id |-> t.id, uid |-> t.uid]
  <2>2. g \in Usable /\ g.uid = t.uid
    BY InGrants DEF Usable
  <2>3. Acts[h] = None /\ Act(h)' = t.uid
    BY <1>2, <1>3, <2>1, ActsStep DEF Act, Proving
  <2>. HIDE DEF g
  <2>4. Acts' = [Acts EXCEPT ![h] = g.uid]
    BY <1>3, <2>2, <2>3, ActsStep
  <2>. QED
    BY <1>2, <2>2, <2>3, <2>4, AccessUse, GrantsSame, InvitationsSame
<1>. QED
  BY <1>4, <1>5

LEMMA StepRotate ==
    ASSUME AuthInv, NEW h \in Handlers, NEW ok \in BOOLEAN, Rotate(h, ok) \/ Touch(h, ok)
    PROVE  A!Next
<1>1. hs[h].pc \in {"rotate", "touch"} /\ UNCHANGED nonces /\ disk' \in {disk, store'}
  BY DEF Rotate, Touch, At, Writes, Saved
<1>2. Acts' \in {Acts, [Acts EXCEPT ![h] = None]} /\ Acts[h] = hs[h].uid
  BY <1>1, RotateEffect, ActsStep DEF Went, Gone, Proving, Act
<1>3. CASE Touch(h, ok)
  <2>1. Usable' = Usable
    BY <1>3 DEF Touch, Writes, Saved, Usable
  <2>. QED
    BY <1>1, <1>2, <2>1, DoubtfulStep, InvitationsSame, AccessDrop
<1>4. CASE Rotate(h, ok)
  <2>. DEFINE gone == {t \in store.tokens : t.id = hs[h].token}
  <2>1. store' = Without(store, gone) /\ hs[h].pc = "rotate" /\ store \in StoreType
    BY <1>4 DEF Rotate, At, Writes, Saved, rotate_drop, AuthInv, AuthShape
  <2>2. store'.tokens = store.tokens \ gone /\ store'.regs = store.regs
    BY <2>1, WithoutStore
  <2>3. \A t \in gone : t.uid = hs[h].uid
    BY <2>1 DEF AuthInv, HandlerProven
  <2>. HIDE DEF gone
  <2>4. Usable' \subseteq Usable
    BY <2>2, FewerGrants
  <2>5. ASSUME NEW g \in Usable \ Usable'
        PROVE  g.uid = hs[h].uid
    <3>1. g \in Grants(store) /\ g \notin Grants(store')
      BY DEF Usable
    <3>2. PICK t \in store.tokens : g = [kind |-> "token", id |-> t.id, uid |-> t.uid]
      BY <2>2, <3>1, InGrants
    <3>3. t \in gone
      BY <2>2, <3>1, <3>2, InGrants
    <3>. QED
      BY <2>3, <3>2, <3>3
  <2>. QED
    BY <1>1, <1>2, <2>4, <2>5, DoubtfulStep, InvitationsSame, AccessDrop
<1>. QED
  BY <1>3, <1>4

LEMMA StepIssue ==
    ASSUME AuthInv, NEW h \in Handlers, NEW ok \in BOOLEAN, Issue(h, ok)
    PROVE  A!Next
<1>. DEFINE t == [id |-> issued + 1, uid |-> hs[h].uid, cred |-> hs[h].cred,
                  root |-> hs[h].root, seen |-> hs[h].now]
            g == [kind |-> "token", id |-> issued + 1, uid |-> hs[h].uid]
<1>1. /\ hs[h].pc = "issue" /\ UNCHANGED nonces /\ disk' \in {disk, store'}
      /\ store' = issue_token(store, t.id, t.uid, t.cred, t.root, t.seen)
  BY DEF Issue, At, Writes, Saved
<1>2. hs[h].uid \in Uids /\ issued \in Nat /\ store \in StoreType
  BY IssueEffect DEF AuthInv, AuthShape
<1>3. t \in TokenType
  BY <1>2 DEF AuthInv, HandlerShape, HandlerType, TokenType
<1>4. g = [kind |-> "token", id |-> t.id, uid |-> t.uid]
  OBVIOUS
<1>5. g.kind = "token" /\ g.id = issued + 1 /\ g.uid = hs[h].uid /\ t.id = issued + 1
  OBVIOUS
<1>. HIDE DEF t
<1>6. store'.tokens = store.tokens \cup {t} /\ store'.regs = store.regs
  BY <1>1, <1>2, <1>3, IssueStore
<1>7. \A x : x \in Usable' <=> x \in Usable \/ x = g
  BY <1>4, <1>6, InGrants DEF Usable
<1>8. ASSUME NEW x \in Usable
      PROVE  x.kind # "token" \/ x.id # issued + 1
  <2>1. x \in Grants(store)
    BY DEF Usable
  <2>2. \A y \in store.tokens : y.id # issued + 1
    BY <1>2 DEF AuthInv, TokensUnique, Tokens
  <2>. QED
    BY <2>1, <2>2, InGrants
<1>. HIDE DEF g
<1>9. Usable' \ {g} = {x \in Usable \ {g} : x.kind # g.kind \/ x.id # g.id}
  BY <1>5, <1>7, <1>8
<1>10. Acts[h] = hs[h].uid /\ Acts[h] # None /\ Acts' \in {Acts, [Acts EXCEPT ![h] = None]}
  <2>1. Went(h, "resolve") \/ Gone(h)
    BY IssueEffect
  <2>2. Acts' \in {Acts, [Acts EXCEPT ![h] = None]} /\ Acts[h] = hs[h].uid
    BY <1>1, <2>1, ActsStep DEF Went, Gone, Proving, Act
  <2>. QED
    BY <1>2, <2>2, DaemonAssumption
<1>. QED
  BY <1>1, <1>5, <1>7, <1>9, <1>10, DoubtfulStep, InvitationsSame, AccessGain

LEMMA StepRegister ==
    ASSUME AuthInv, NEW h \in Handlers, NEW cred \in Creds, NEW ok \in BOOLEAN,
           Register(h, cred, ok)
    PROVE  A!Next
<1>. DEFINE g == [kind |-> "device", id |-> cred, uid |-> hs[h].uid]
            new == [uid |-> hs[h].uid, cred |-> cred]
<1>1. /\ hs[h].pc = "register" /\ UNCHANGED nonces /\ disk' \in {disk, store'}
      /\ store' = register(store, hs[h].uid, cred)
  BY DEF Register, At, Writes, Saved
<1>2. hs[h].uid \in Uids /\ store \in StoreType
  BY RegisterEffect DEF AuthInv, AuthShape
<1>3. /\ store'.tokens = store.tokens
      /\ store'.regs = {r \in store.regs : r.cred # cred} \cup {new}
  BY <1>1, <1>2, RegisterStore
<1>4. g = [kind |-> "device", id |-> new.cred, uid |-> new.uid]
  OBVIOUS
<1>5. g.kind = "device" /\ g.id = cred /\ g.uid = hs[h].uid
  OBVIOUS
<1>. HIDE DEF new
<1>6. g \in Usable'
  BY <1>3, <1>4, InGrants DEF Usable
<1>7. ASSUME NEW x, x # g
      PROVE  x \in Usable' <=> x \in Usable /\ (x.kind # "device" \/ x.id # cred)
  <2>1. CASE \E t \in store.tokens : x = [kind |-> "token", id |-> t.id, uid |-> t.uid]
    BY <1>3, <2>1, InGrants DEF Usable
  <2>2. CASE ~\E t \in store.tokens : x = [kind |-> "token", id |-> t.id, uid |-> t.uid]
    <3>1. x \in Usable <=>
              \E r \in store.regs : x = [kind |-> "device", id |-> r.cred, uid |-> r.uid]
      BY <2>2, InGrants DEF Usable
    <3>2. x \in Usable' <=>
              \E r \in store'.regs : x = [kind |-> "device", id |-> r.cred, uid |-> r.uid]
      BY <1>3, <2>2, InGrants DEF Usable
    <3>3. (\E r \in store'.regs : x = [kind |-> "device", id |-> r.cred, uid |-> r.uid]) <=>
              \E r \in store.regs : /\ r.cred # cred
                                    /\ x = [kind |-> "device", id |-> r.cred, uid |-> r.uid]
      BY <1>3, <1>4, <1>7
    <3>. QED
      BY <3>1, <3>2, <3>3
  <2>. QED
    BY <2>1, <2>2
<1>. HIDE DEF g
<1>8. Usable' \ {g} = {x \in Usable \ {g} : x.kind # g.kind \/ x.id # g.id}
  BY <1>5, <1>7
<1>9. Acts[h] = hs[h].uid /\ Acts[h] # None /\ Acts' \in {Acts, [Acts EXCEPT ![h] = None]}
  <2>1. Went(h, "issue") \/ Gone(h)
    BY RegisterEffect
  <2>2. Acts' \in {Acts, [Acts EXCEPT ![h] = None]} /\ Acts[h] = hs[h].uid
    BY <1>1, <2>1, ActsStep DEF Went, Gone, Proving, Act
  <2>. QED
    BY <1>2, <2>2, DaemonAssumption
<1>. QED
  BY <1>1, <1>5, <1>6, <1>8, <1>9, DoubtfulStep, InvitationsSame, AccessGain

LEMMA StepAssertion ==
    ASSUME AuthInv, NEW h \in Handlers, NEW cred \in Creds, Assertion(h, cred)
    PROVE  A!Next
<1>1. UNCHANGED <<store, disk, nonces>> /\ hs[h].pc = "challenge"
  BY DEF Assertion, At, auth
<1>2. CASE Gone(h)
  BY <1>1, <1>2, StepLeave DEF Gone, Proving
<1>3. CASE ~Gone(h)
  <2>1. StepOf(h) /\ hs'[h].pc = "touch"
    BY <1>3, AssertionEffect
  <2>2. PICK r \in store.regs : hs'[h].uid = r.uid
    BY <1>3, AssertionEffect
  <2>. DEFINE g == [kind |-> "device", id |-> r.cred, uid |-> r.uid]
  <2>3. g \in Usable /\ g.uid = r.uid
    BY InGrants DEF Usable
  <2>4. Acts[h] = None /\ Act(h)' = r.uid
    BY <1>1, <2>1, <2>2, ActsStep DEF Act, Proving
  <2>. HIDE DEF g
  <2>5. Acts' = [Acts EXCEPT ![h] = g.uid]
    BY <2>1, <2>3, <2>4, ActsStep
  <2>. QED
    BY <1>1, <2>3, <2>4, <2>5, AccessUse, GrantsSame, InvitationsSame
<1>. QED
  BY <1>2, <1>3

\* A nonce proves its user once: it goes with the step that uses it.
LEMMA StepEnroll ==
    ASSUME AuthInv, NEW h \in Handlers, NEW nonce \in 1..invited, Enroll(h, nonce)
    PROVE  A!Next
<1>1. /\ UNCHANGED <<store, disk>> /\ hs[h].pc = "challenge"
      /\ nonces' = {n \in nonces : n.id # nonce}
  BY DEF Enroll, At, consume
<1>2. CASE Gone(h)
  <2>1. Acts' = Acts
    BY <1>1, <1>2 DEF Gone, StepOf, Acts, Proving
  <2>2. Invitations' \subseteq Invitations
    BY <1>1 DEF Invitations
  <2>. QED
    BY <1>1, <2>1, <2>2, AccessLapse, GrantsSame
<1>3. CASE ~Gone(h)
  <2>1. StepOf(h) /\ hs'[h].pc = "register"
    BY <1>3, EnrollEffect
  <2>2. PICK n \in nonces : n.id = nonce /\ hs'[h].uid = n.uid
    BY <1>3, EnrollEffect
  <2>. DEFINE i == [id |-> n.id, uid |-> n.uid]
  <2>3. i \in Invitations /\ i.uid = n.uid
    BY DEF Invitations
  <2>4. Invitations' = Invitations \ {i}
    <3>1. \A m \in nonces : m.id = nonce => m = n
      BY <2>2 DEF AuthInv, NoncesUnique
    <3>2. \A m \in nonces : m.id # nonce => [id |-> m.id, uid |-> m.uid] # i
      BY <2>2
    <3>. QED
      BY <1>1, <3>1, <3>2 DEF Invitations
  <2>5. Acts[h] = None /\ Act(h)' = n.uid
    BY <1>1, <2>1, <2>2, ActsStep DEF Act, Proving
  <2>. HIDE DEF i
  <2>6. Acts' = [Acts EXCEPT ![h] = i.uid]
    BY <2>1, <2>3, <2>5, ActsStep
  <2>. QED
    BY <1>1, <2>3, <2>4, <2>5, <2>6, AccessSpend, GrantsSame
<1>. QED
  BY <1>2, <1>3

LEMMA StepResolve ==
    ASSUME DaemonInv, NEW h \in Handlers, Resolve(h)
    PROVE  A!Next \/ UNCHANGED A!vars
<1>1. /\ HandlerShape /\ Len(sess) + 1 \in Nat /\ hs[h].pc = "resolve"
      /\ UNCHANGED <<store, disk, nonces>> /\ "reply" \in Pcs
  BY DEF DaemonInv, AuthInv, SessionInv, SessionShape, Resolve, At, auth, Pcs, Proving
<1>2. CASE Ends(h)
  BY <1>1, <1>2, EndsStep, StepLeave DEF Proving
<1>3. CASE Goto(h, "reply") \/ Becomes(h, [pc |-> "reply", wants |-> Len(sess) + 1])
  <2>1. StepOf(h) /\ hs'[h].pc = "reply" /\ hs'[h].uid = hs[h].uid
    BY <1>1, <1>3, GotoStep, BecomesWants
  <2>2. Acts' = Acts
    BY <1>1, <2>1 DEF StepOf, Acts, Proving
  <2>. QED
    BY <1>1, <2>2, AccessStutter, GrantsSame, InvitationsSame
<1>. QED
  BY <1>2, <1>3 DEF Resolve

LEMMA StepHandshake ==
    ASSUME DaemonInv, NEW h \in Handlers, Handshake(h)
    PROVE  A!Next \/ UNCHANGED A!vars
<1>1. AuthInv /\ HandlerShape
  BY DEF DaemonInv, AuthInv
<1>2. CASE \E token \in known \cup {0} : \E wants \in 0..Len(sess) : Hello(h, token, wants)
  BY <1>2, StepHello
<1>3. CASE \E ok \in BOOLEAN : Rotate(h, ok) \/ Touch(h, ok)
  BY <1>1, <1>3, StepRotate
<1>4. CASE \E ok \in BOOLEAN : Issue(h, ok)
  BY <1>1, <1>4, StepIssue
<1>5. CASE \E nonce \in 1..invited : Enroll(h, nonce)
  BY <1>1, <1>5, StepEnroll
<1>6. CASE \E cred \in Creds : Assertion(h, cred)
  BY <1>1, <1>6, StepAssertion
<1>7. CASE \E cred \in Creds, ok \in BOOLEAN : Register(h, cred, ok)
  BY <1>1, <1>7, StepRegister
<1>8. CASE \E lost \in BOOLEAN : Reply(h, lost)
  <2>1. PICK lost \in BOOLEAN : Reply(h, lost)
    BY <1>8
  <2>2. StepOf(h) /\ hs'[h].pc \notin Proving
    BY <1>1, <2>1, ReplyEffect DEF Went, Gone, Proving
  <2>. QED
    BY <2>1, <2>2, StepLeave DEF Reply
<1>9. CASE Resolve(h)
  BY <1>9, StepResolve
<1>10. CASE Refuse(h)
  BY <1>1, <1>10, EndsStep, StepLeave DEF Refuse, Proving, auth
<1>. QED
  BY <1>2, <1>3, <1>4, <1>5, <1>6, <1>7, <1>8, <1>9, <1>10 DEF Handshake

\* Nothing that happens on a session proves anything or changes a grant.
LEMMA StepAttachment ==
    ASSUME DaemonInv, NEW h \in Handlers, Attachment(h)
    PROVE  A!Next \/ UNCHANGED A!vars
<1>1. /\ HandlerShape /\ sess \in Seq(SessType) /\ Placed(h)
      /\ DOMAIN sess = 1..Len(sess)
  BY DEF DaemonInv, AuthInv, SessionInv, SessionShape
<1>2. UNCHANGED <<store, disk, nonces>>
  BY DEF Attachment, Connect, Lookup, ClaimTransport, ClearLastDetach, Detach, SetLastDetach,
         Hangup, auth
<1>3. CASE hs' = hs
  BY <1>2, <1>3, AccessStutter, GrantsSame, InvitationsSame DEF Acts
<1>4. CASE Ends(h)
  BY <1>1, <1>2, <1>4, EndsStep, StepLeave DEF Proving
<1>5. CASE \E pc \in {"attached", "detach"} : Goto(h, pc)
  <2>1. PICK pc \in {"attached", "detach"} : Goto(h, pc)
    BY <1>5
  <2>2. pc \in Pcs /\ pc \notin Proving
    BY DEF Pcs, Attached, Proving
  <2>. QED
    BY <1>1, <1>2, <2>1, <2>2, GotoStep, StepLeave
<1>6. CASE \E s \in DOMAIN sess, pc \in {"hello", "claim"} :
               Becomes(h, [pc |-> pc, wants |-> s])
  <2>1. PICK s \in DOMAIN sess, pc \in {"hello", "claim"} :
                 Becomes(h, [pc |-> pc, wants |-> s])
    BY <1>6
  <2>2. pc \in Pcs /\ pc \notin Proving /\ s \in Nat
    BY <1>1 DEF Pcs, Attached, Proving
  <2>. QED
    BY <1>1, <1>2, <2>1, <2>2, BecomesWants, StepLeave
<1>7. CASE ClaimTransport(h)
  <2>1. sess[hs[h].wants] \in SessType
    BY <1>1, <1>7 DEF ClaimTransport, At, Placed, Attached
  <2>2. sess[hs[h].wants].epoch + 1 \in Nat
    BY <2>1 DEF SessType
  <2>. QED
    BY <1>1, <1>2, <1>7, <2>2, BecomesClaimed, StepLeave DEF ClaimTransport, Proving
<1>. QED
  BY <1>3, <1>4, <1>5, <1>6, <1>7
  DEF Attachment, Connect, Lookup, ClearLastDetach, Detach, SetLastDetach, Hangup

LEMMA StepRevocations ==
    ASSUME AuthInv, NEW uid, NEW cred, NEW ok \in BOOLEAN,
           RevokeCredential(uid, cred, ok) \/ RevokeAll(uid, ok) \/ RevokeSessions(uid, ok)
    PROVE  A!Next
<1>1. /\ UNCHANGED <<nonces, hs>> /\ disk' \in {disk, store'} /\ store \in StoreType
      /\ \/ store' = revoke_credential(store, uid, cred)
         \/ store' = revoke_all(store, uid)
         \/ store' = revoke_sessions(store, uid)
  BY DEF RevokeCredential, RevokeAll, RevokeSessions, Revoked, Saved, AuthInv, AuthShape
<1>2. store'.tokens \subseteq store.tokens /\ store'.regs \subseteq store.regs
  BY <1>1, RevokeCredentialStore, RevokeAllStore, RevokeSessionsStore
<1>3. Acts' = Acts
  BY <1>1 DEF Acts
<1>. QED
  BY <1>1, <1>2, <1>3, FewerGrants, DoubtfulStep, InvitationsSame, AccessWithdraw

LEMMA StepHelperOp ==
    ASSUME DaemonInv, HelperOp
    PROVE  A!Next \/ UNCHANGED A!vars
<1>1. AuthInv
  BY DEF DaemonInv
<1>2. CASE \E uid \in Uids : EnrollNonce(uid)
  <2>1. PICK uid \in Uids : EnrollNonce(uid)
    BY <1>2
  <2>. DEFINE n == [id |-> invited + 1, uid |-> uid, expires |-> clock + NonceTtl]
              i == [id |-> n.id, uid |-> n.uid]
  <2>2. /\ nonces' = {x \in nonces : x.expires > clock} \cup {n}
        /\ UNCHANGED <<store, disk, hs>>
    BY <2>1 DEF EnrollNonce, issue_nonce
  <2>. HIDE DEF n
  <2>3. i \in Invitations' /\ Invitations' \subseteq Invitations \cup {i}
    BY <2>2 DEF Invitations
  <2>4. Acts' = Acts
    BY <2>2 DEF Acts
  <2>. QED
    BY <2>2, <2>3, <2>4, AccessInvite, GrantsSame
<1>3. CASE \E uid \in Uids, cred \in Creds, ok \in BOOLEAN : RevokeCredential(uid, cred, ok)
  BY <1>1, <1>3, StepRevocations
<1>4. CASE \E uid \in Uids, ok \in BOOLEAN : RevokeAll(uid, ok) \/ RevokeSessions(uid, ok)
  BY <1>1, <1>4, StepRevocations
<1>5. CASE \/ \E uid \in Uids, k \in Helpers, kill \in BOOLEAN : Create(k, uid, kill)
           \/ \E k \in Helpers : Spawn(k)
  <2>1. UNCHANGED <<store, disk, nonces, hs>>
    BY <1>5 DEF Create, Spawn, auth
  <2>. QED
    BY <2>1, AccessStutter, GrantsSame, InvitationsSame DEF Acts
<1>. QED
  BY <1>2, <1>3, <1>4, <1>5 DEF HelperOp

LEMMA StepRestarted ==
    ASSUME Restarted
    PROVE  A!Next
<1>1. /\ store' = disk /\ disk' = disk /\ nonces' = {}
      /\ hs' = [h \in Handlers |-> NoHandler]
  BY DEF Restarted, Reloaded
<1>2. Usable' \subseteq Usable \cup Doubtful /\ Doubtful' = {}
  BY <1>1 DEF Usable, Doubtful
<1>3. Invitations' = {}
  BY <1>1 DEF Invitations
<1>4. Acts' = [h \in Handlers |-> None]
  BY <1>1 DEF Acts, NoHandler, Proving
<1>. QED
  BY <1>2, <1>3, <1>4, AccessCrash

LEMMA AccessInit == Init => A!Init
<1>. SUFFICES ASSUME Init PROVE A!Init
  OBVIOUS
<1>1. /\ Grants(store) = {} /\ Grants(disk) \ Grants(store) = {}
      /\ {[id |-> n.id, uid |-> n.uid] : n \in nonces} = {}
  BY DEF Init, DevicesInit, Empty, Grants
<1>2. [h \in Handlers |-> IF hs[h].pc \in Proving THEN hs[h].uid ELSE None] =
          [h \in Handlers |-> None]
  BY DEF Init, NoHandler, Proving
<1>. QED
  BY <1>1, <1>2 DEF A!Init

LEMMA AccessNext == DaemonInv /\ [Next]_vars => [A!Next]_(A!vars)
<1>. SUFFICES ASSUME DaemonInv, [Next]_vars PROVE A!Next \/ UNCHANGED A!vars
  OBVIOUS
<1>1. CASE \E h \in Handlers : Handshake(h) \/ Attachment(h)
  BY <1>1, StepHandshake, StepAttachment
<1>2. CASE HelperOp
  BY <1>2, StepHelperOp
<1>3. CASE Exit \/ Crash
  BY <1>3, StepRestarted DEF Exit, Crash
<1>4. CASE \/ Tick \/ Shutdown \/ UNCHANGED vars
           \/ \E s \in DOMAIN sess : OwnerEnd(s) \/ Destroy(s)
  <2>1. UNCHANGED <<store, disk, nonces, hs>>
    BY <1>4 DEF Tick, Shutdown, OwnerEnd, Destroy, vars, auth
  <2>. QED
    BY <2>1, AccessStutter, GrantsSame, InvitationsSame DEF Acts
<1>. QED
  BY <1>1, <1>2, <1>3, <1>4 DEF Next

\* The handshake, in steps that interleave with one another, with revocations,
\* failed writes, crashes and everything that happens on sessions, does what
\* Access promises.
THEOREM ImplementsAccessHolds == Spec => ImplementsAccess
  BY AccessInit, AccessNext, InvAlways, PTL DEF Spec, ImplementsAccess, A!Spec
=============================================================================
