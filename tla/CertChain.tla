------------------------------- MODULE CertChain -------------------------------
(***************************************************************************)
(* The rotating certificates of quosh-trust and the clients that pin them. *)
(*                                                                         *)
(* Epoch k has one certificate, minted on first use, kept in a file and in *)
(* memory.  Browsers pin the certificates of the current epoch and of the  *)
(* epochs after it, the command line pins the one it was given.  Restarts  *)
(* (with another window), failed writes, crashes between two writes and a  *)
(* server clock that steps back are part of the model.                     *)
(*                                                                         *)
(* A start of the server and forward_hashes go through a window of epochs, *)
(* one entry at a time; a position in such a loop is a record of the epoch *)
(* it began with, the next epoch and the certificates it got.              *)
(*                                                                         *)
(* A certificate is its epoch, its validity, its key and the number of its *)
(* signature (signatures are randomised: minting it again makes another).  *)
(***************************************************************************)
EXTENDS Integers, FiniteSets, Functions

CONSTANTS Browsers,
          Stride,       \* STRIDE: the length of an epoch
          Validity,     \* VALIDITY: of one certificate
          Slack,        \* SLACK: how far notBefore is backdated
          Windows,      \* the lengths (--cert-chain) the server is started with
          MaxTime,      \* bound: the end of time
          MaxLag,       \* how far the server's clock may fall behind itself
          None          \* nothing: no file, no loop

ASSUME CertAssumption ==
    /\ Stride \in Nat \ {0} /\ Validity \in Nat /\ Slack \in Nat
    /\ Stride + Slack <= Validity
    /\ Windows \subseteq Nat \ {0}
    /\ MaxTime \in Nat /\ MaxLag \in 0..Stride
    /\ None \notin Nat \cup STRING

VARIABLES now,          \* the server's clock
          high,         \* history: the latest time it has shown
          up,           \* whether the server runs
          identity,     \* identity.pem: the key in it, or None
          legacy,       \* whether key.pem of an old server is there
          anchor,       \* chain-anchor: the time in it, or None
          files,        \* the certificate files, by epoch
          len,          \* CertChain.len
          entries,      \* CertChain.entries, by epoch
          loading,      \* the loop of load, or None
          minted,       \* signatures made so far
          pins,         \* a browser's hashes, and the window they were sent for
          connected,    \* browsers that are past the TLS handshake
          asked,        \* a browser's loop in forward_hashes, or None
          cli           \* the hash a command line client connects with, or None

disk == <<identity, legacy, anchor, files>>
memory == <<up, len, entries, loading>>
clients == <<pins, connected, asked, cli>>
vars == <<now, high, disk, memory, minted, clients>>

Unpinned == [hashes |-> {}, base |-> 0, len |-> 0]

Init ==
    /\ now = 0 /\ high = 0 /\ up = FALSE
    /\ identity = None /\ legacy \in BOOLEAN /\ anchor = None
    /\ files = <<>> /\ entries = <<>> /\ len = 0 /\ loading = None /\ minted = 0
    /\ pins = [b \in Browsers |-> Unpinned]
    /\ connected = {} /\ asked = [b \in Browsers |-> None]
    /\ cli = None
-----------------------------------------------------------------------------
(* The chain.                                                              *)

epoch_at(a, t) == IF t <= a THEN 0 ELSE (t - a) \div Stride

\* Validity starts a little before the epoch, for clients whose clock lags.
window(a, epoch) ==
    LET start == a + epoch * Stride - Slack
    IN  [notBefore |-> start, notAfter |-> start + Validity]

\* Mutant: the files of the previous epoch go too.
prune_current(fs, keepFrom) == Restrict(fs, {k \in DOMAIN fs : k >= keepFrom})

\* The previous epoch is kept, for a clock that lags.
prune(fs, keepFrom) == Restrict(fs, {k \in DOMAIN fs : k + 1 >= keepFrom})

With(f, k, v) == [x \in DOMAIN f \cup {k} |-> IF x = k THEN v ELSE f[x]]

NewCert(s, epoch) ==
    [epoch |-> epoch, validity |-> window(s.anchor, epoch), key |-> s.key, n |-> s.minted]

\* Mutant: certificates are kept in memory only.
Mint_volatile(s, epoch, current) ==
    [s EXCEPT !.entries = With(@, epoch, NewCert(s, epoch)), !.minted = @ + 1]

\* load_or_generate_cert without a file: made, written, the old ones pruned.
Mint(s, epoch, current) ==
    LET cert == NewCert(s, epoch)
    IN  [s EXCEPT !.files = prune(With(@, epoch, cert), current),
                  !.entries = With(@, epoch, cert), !.minted = @ + 1]

\* entry: from memory, from its file, or made.
entry(s, epoch, current) ==
    CASE epoch \in DOMAIN s.entries -> s
      [] epoch \notin DOMAIN s.entries /\ epoch \in DOMAIN s.files ->
             [s EXCEPT !.entries = With(@, epoch, s.files[epoch])]
      [] OTHER -> Mint(s, epoch, current)

State == [files |-> files, entries |-> entries, minted |-> minted,
          key |-> identity, anchor |-> anchor]
Became(s) == files' = s.files /\ entries' = s.entries /\ minted' = s.minted
Current == epoch_at(anchor, now)

\* The entry of an epoch is asked for; where it has to be made, the write may
\* fail, which the callers report.
Asked(epoch) == Became(entry(State, epoch, Current))
MayFail(epoch) == epoch \notin DOMAIN entries \cup DOMAIN files
Failed == UNCHANGED <<files, entries, minted>>

\* The certificate that the entry of an epoch holds, or would hold.
Certificate(epoch) == entry(State, epoch, Current).entries[epoch]
-----------------------------------------------------------------------------
(* The server.                                                             *)

\* The identity key is adopted from an old server, unless the rename fails.
LoadedKey ==
    IF identity # None THEN {identity}
    ELSE IF legacy THEN {"legacy", "new"} ELSE {"new"}

\* Mutant: every start begins a new chain.
LoadedAnchor_new == now

LoadedAnchor == IF anchor = None THEN now ELSE anchor

Loop(base) == [base |-> base, next |-> base, got |-> {}]
After(loop) == [base |-> loop.base, next |-> loop.next + 1,
                got |-> loop.got \cup {Certificate(loop.next)}]

\* load begins: the key, the anchor, then the loop over the window.
load(l) ==
    /\ ~up /\ loading = None
    /\ identity' \in LoadedKey
    /\ legacy' = (legacy /\ identity' # "legacy")
    /\ anchor' = LoadedAnchor
    /\ loading' = Loop(epoch_at(anchor', now))
    /\ len' = l
    /\ UNCHANGED <<now, high, files, up, entries, minted, clients>>

\* The start fails before the anchor is written.
LoadFails ==
    /\ ~up /\ loading = None /\ anchor = None /\ identity = None
    /\ identity' \in LoadedKey
    /\ legacy' = (legacy /\ identity' # "legacy")
    /\ UNCHANGED <<now, high, anchor, files, memory, minted, clients>>

\* One certificate of the window: the last one ends the start.
load_entry ==
    /\ loading # None
    /\ Asked(loading.next)
    /\ IF loading.next + 1 = loading.base + len
       THEN up' = TRUE /\ loading' = None
       ELSE loading' = After(loading) /\ UNCHANGED up
    /\ UNCHANGED <<now, high, identity, legacy, anchor, len, clients>>

\* A crash, a restart, or a write of load that fails: connections and sessions
\* end.
Stop ==
    /\ up \/ loading # None
    /\ up' = FALSE /\ len' = 0 /\ entries' = <<>> /\ loading' = None
    /\ connected' = {} /\ asked' = [b \in Browsers |-> None]
    /\ cli' = None
    /\ UNCHANGED <<now, high, disk, minted, pins>>

\* The loops in progress.
Loops == ({loading} \cup {asked[b] : b \in Browsers}) \ {None}

\* The clock is set, forward or back.  A loop is one call that waits for
\* nothing but its small files: meanwhile the clock does not get beyond the
\* next epoch.
ClockSet(t) ==
    /\ t \in 0..MaxTime /\ t # now /\ t >= high - MaxLag
    /\ \A loop \in Loops : epoch_at(anchor, t) <= loop.base + 1
    /\ now' = t
    /\ high' = IF t > high THEN t ELSE high
    /\ UNCHANGED <<disk, memory, minted, clients>>
-----------------------------------------------------------------------------
(* The clients.                                                            *)

\* Resolver: each TLS handshake is served the certificate of the current
\* epoch, and a browser that has pinned it goes on.
Connect(b) ==
    /\ up /\ asked[b] = None /\ pins[b] # Unpinned
    /\ \/ /\ Asked(Current)
          /\ connected' = IF Certificate(Current) \in pins[b].hashes
                          THEN connected \cup {b} ELSE connected \ {b}
       \/ MayFail(Current) /\ Failed /\ connected' = connected \ {b}
    /\ UNCHANGED <<now, high, identity, legacy, anchor, up, len, loading,
                   pins, asked, cli>>

\* Authentication, whenever the browser's answers come, calls forward_hashes.
forward_hashes(b) ==
    /\ up /\ b \in connected /\ asked[b] = None
    /\ asked' = [asked EXCEPT ![b] = Loop(Current)]
    /\ UNCHANGED <<now, high, disk, memory, minted, pins, connected, cli>>

\* One entry of forward_hashes; other handshakes go on in between.  The last
\* one is followed by the reply, which is lost or replaces the browser's pins.
\* A write that fails ends the connection.
forward_entry(b) ==
    /\ up /\ asked[b] # None
    /\ LET a == asked[b]
           epoch == a.next
           done == epoch + 1 = a.base + len
       IN  \/ /\ ~done /\ Asked(epoch)
              /\ asked' = [asked EXCEPT ![b] = After(a)]
              /\ UNCHANGED <<pins, connected>>
           \/ /\ done /\ Asked(epoch)
              /\ asked' = [asked EXCEPT ![b] = None]
              /\ pins' \in {pins, [pins EXCEPT ![b] =
                     [hashes |-> After(a).got, base |-> a.base, len |-> len]]}
              /\ UNCHANGED connected
           \/ /\ MayFail(epoch) /\ Failed
              /\ asked' = [asked EXCEPT ![b] = None]
              /\ connected' = connected \ {b}
              /\ UNCHANGED pins
    /\ UNCHANGED <<now, high, identity, legacy, anchor, up, len, loading, cli>>

\* The helper's answers carry current_hash: an enrolment link pins it ...
enroll_link(b) ==
    /\ up /\ asked[b] = None
    /\ Asked(Current)
    /\ pins' = [pins EXCEPT ![b] =
           [hashes |-> {Certificate(Current)}, base |-> Current, len |-> 1]]
    /\ connected' = connected \ {b}
    /\ UNCHANGED <<now, high, identity, legacy, anchor, up, len, loading, asked, cli>>

\* ... and a command line client connects with it, now and after every loss.
create ==
    /\ up /\ cli = None
    /\ Asked(Current)
    /\ cli' = Certificate(Current)
    /\ UNCHANGED <<now, high, identity, legacy, anchor, up, len, loading,
                   pins, connected, asked>>

Next ==
    \/ \E l \in Windows : load(l)
    \/ LoadFails \/ load_entry \/ Stop \/ create
    \/ \E t \in 0..MaxTime : ClockSet(t)
    \/ \E b \in Browsers :
          Connect(b) \/ forward_hashes(b) \/ forward_entry(b) \/ enroll_link(b)

Spec == Init /\ [][Next]_vars
-----------------------------------------------------------------------------
(* Properties.                                                             *)

\* All certificates anyone holds.
Known ==
    Range(files) \cup Range(entries) \cup ({cli} \ {None}) \cup
    (UNION {pins[b].hashes : b \in Browsers}) \cup
    (UNION {loop.got : loop \in Loops})

\* An epoch has one certificate: restarts, failed starts, another window and
\* a clock that lags never make a second one for an epoch somebody has
\* pinned (entry, prune).
OneCertificatePerEpoch ==
    \A c, d \in Known : c.epoch = d.epoch => c = d

\* A browser that was sent its pins at most len - 1 rotations ago is served a
\* certificate it has pinned, whatever happened to the server since
\* (forward_hashes).
PinsLast ==
    \A b \in Browsers :
        (anchor # None /\ Current \in pins[b].base..(pins[b].base + pins[b].len - 1)) =>
            Certificate(Current) \in pins[b].hashes

\* The certificate served is valid for a client whose clock is up to Slack
\* behind the server's or up to the rest of the overlap ahead of it, and of a
\* server that keeps its anchor (window, load_or_create_anchor).
ServedIsValid ==
    (up /\ now >= anchor) =>
        LET w == Certificate(Current).validity
        IN  /\ w.notBefore <= now - Slack
            /\ now + (Validity - Stride - Slack) < w.notAfter
=============================================================================
