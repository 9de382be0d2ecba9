------------------------------ MODULE CertProofs ------------------------------
(***************************************************************************)
(* Theorems about CertChain, for every length of the epochs and of the     *)
(* windows, any number of browsers, restarts and changes of the clock.     *)
(***************************************************************************)
EXTENDS CertChain, TLAPS

-----------------------------------------------------------------------------
(* Epochs.                                                                 *)

LEMMA DivIs ==
    ASSUME NEW n \in Nat, NEW s \in Nat \ {0}
    PROVE  n \div s \in Nat /\ s * (n \div s) <= n /\ n < s * (n \div s) + s
  OBVIOUS

LEMMA DivLess ==
    ASSUME NEW n \in Nat, NEW m \in Nat, NEW s \in Nat \ {0}, n <= m
    PROVE  n \div s <= m \div s
  OBVIOUS

LEMMA TimesLess ==
    ASSUME NEW s \in Nat \ {0}, NEW a \in Int, NEW b \in Int, s * a < s * b
    PROVE  a < b
  OBVIOUS

LEMMA TimesPlus ==
    ASSUME NEW s \in Int, NEW a \in Int, NEW b \in Int
    PROVE  s * (a + b) = s * a + s * b /\ s * a \in Int /\ s * b \in Int
  OBVIOUS

LEMMA EpochIs ==
    ASSUME NEW a \in Nat, NEW t \in Nat
    PROVE  epoch_at(a, t) \in Nat
  BY DivIs, CertAssumption DEF epoch_at

LEMMA EpochGrows ==
    ASSUME NEW a \in Nat, NEW t \in Nat, NEW u \in Nat, t <= u
    PROVE  epoch_at(a, t) <= epoch_at(a, u)
<1>1. Stride \in Nat \ {0}
  BY CertAssumption
<1>2. CASE t <= a
  <2>1. epoch_at(a, t) = 0 /\ epoch_at(a, u) \in Nat
    BY <1>2, EpochIs DEF epoch_at
  <2>. QED
    BY <2>1
<1>3. CASE ~(t <= a)
  <2>1. t - a \in Nat /\ u - a \in Nat /\ t - a <= u - a /\ ~(u <= a)
    BY <1>3
  <2>2. (t - a) \div Stride <= (u - a) \div Stride
    BY <1>1, <2>1, DivLess
  <2>. QED
    BY <1>3, <2>1, <2>2 DEF epoch_at
<1>. QED
  BY <1>2, <1>3

\* A clock that lags by at most an epoch is in this epoch or the one before.
LEMMA EpochLags ==
    ASSUME NEW a \in Nat, NEW t \in Nat, NEW u \in Nat, u - t <= Stride
    PROVE  epoch_at(a, t) + 1 >= epoch_at(a, u)
<1>1. Stride \in Nat \ {0}
  BY CertAssumption
<1>2. CASE u <= a
  <2>1. epoch_at(a, u) = 0 /\ epoch_at(a, t) \in Nat
    BY <1>2, EpochIs DEF epoch_at
  <2>. QED
    BY <2>1
<1>3. CASE ~(u <= a)
  <2>. DEFINE n == u - a
              q == n \div Stride
              p == epoch_at(a, t)
  <2>1. n \in Nat /\ q \in Nat /\ Stride * q <= n /\ epoch_at(a, u) = q /\ p \in Nat
    BY <1>1, <1>3, DivIs, EpochIs DEF epoch_at
  <2>2. t - a < Stride * p + Stride
    <3>1. CASE t <= a
      BY <1>1, <3>1 DEF epoch_at
    <3>2. CASE ~(t <= a)
      <4>1. t - a \in Nat /\ p = (t - a) \div Stride
        BY <3>2 DEF epoch_at
      <4>. QED
        BY <1>1, <4>1, DivIs
    <3>. QED
      BY <3>1, <3>2
  <2>. HIDE DEF q, p
  <2>3. /\ Stride * (p + 2) = Stride * p + Stride * 2 /\ Stride * 2 = Stride + Stride
        /\ Stride * p \in Int /\ Stride * q \in Int
    BY <1>1, <2>1, TimesPlus
  <2>4. Stride * q < Stride * (p + 2)
    BY <1>1, <2>1, <2>2, <2>3
  <2>5. q < p + 2
    BY <1>1, <2>1, <2>4, TimesLess
  <2>. QED
    BY <2>1, <2>5 DEF p
<1>. QED
  BY <1>2, <1>3

-----------------------------------------------------------------------------
(* The operations of the chain.                                            *)

LEMMA WithIs ==
    ASSUME NEW f, NEW k, NEW v
    PROVE  /\ \A x : x \in DOMAIN With(f, k, v) <=> x \in DOMAIN f \/ x = k
           /\ With(f, k, v)[k] = v
           /\ \A x \in DOMAIN f : x # k => With(f, k, v)[x] = f[x]
  BY DEF With

LEMMA PruneIs ==
    ASSUME NEW f, NEW e
    PROVE  /\ \A x : x \in DOMAIN prune(f, e) <=> x \in DOMAIN f /\ x + 1 >= e
           /\ \A x \in DOMAIN prune(f, e) : prune(f, e)[x] = f[x]
  BY DEF prune, Restrict

\* What entry returns: from memory, from the file, or a new certificate.
LEMMA EntryIs ==
    ASSUME NEW k
    PROVE  LET t == entry(State, k, Current)
               new == NewCert(State, k)
           IN  \/ /\ k \in DOMAIN entries
                  /\ t.files = files /\ t.entries = entries
               \/ /\ k \notin DOMAIN entries /\ k \in DOMAIN files
                  /\ t.files = files /\ t.entries = With(entries, k, files[k])
               \/ /\ k \notin DOMAIN entries /\ k \notin DOMAIN files
                  /\ t.files = prune(With(files, k, new), Current)
                  /\ t.entries = With(entries, k, new)
<1>. DEFINE s == State
            t == entry(s, k, Current)
            new == NewCert(s, k)
            T == [files : {files}, entries : {entries}, minted : {minted},
                  key : {identity}, anchor : {anchor}]
<1>1. s \in T /\ s.files = files /\ s.entries = entries
  BY DEF State
<1>. HIDE DEF s, new
<1>2. CASE k \in DOMAIN entries
  <2>1. t = s
    BY <1>1, <1>2, Zenon DEF entry
  <2>. QED
    BY <1>1, <1>2, <2>1, Zenon DEF s
<1>3. CASE k \notin DOMAIN entries /\ k \in DOMAIN files
  <2>. DEFINE y == With(s.entries, k, s.files[k])
  <2>1. t = [s EXCEPT !.entries = y]
    BY <1>1, <1>3, Zenon DEF entry
  <2>. HIDE DEF y, t
  <2>. DEFINE e == [s EXCEPT !.entries = y]
  <2>2. e.files = s.files /\ e.entries = y
    BY <1>1
  <2>. HIDE DEF e
  <2>3. t.files = s.files /\ t.entries = y
    BY <2>1, <2>2, Zenon DEF e
  <2>. QED
    BY <1>1, <1>3, <2>3, Zenon DEF s, t, y
<1>4. CASE k \notin DOMAIN entries /\ k \notin DOMAIN files
  <2>. DEFINE x == prune(With(s.files, k, new), Current)
              y == With(s.entries, k, new)
              z == s.minted + 1
  <2>1. t = [s EXCEPT !.files = x, !.entries = y, !.minted = z]
    <3>1. t = Mint(s, k, Current)
      BY <1>1, <1>4, Zenon DEF entry
    <3>. QED
      BY <3>1, Zenon DEF Mint, new
  <2>. HIDE DEF x, y, z, t
  <2>. DEFINE e == [s EXCEPT !.files = x, !.entries = y, !.minted = z]
  <2>2. e.files = x /\ e.entries = y
    BY <1>1
  <2>. HIDE DEF e
  <2>3. t.files = x /\ t.entries = y
    BY <2>1, <2>2, Zenon DEF e
  <2>. QED
    BY <1>1, <1>4, <2>3, Zenon DEF s, new, t, x, y
<1>. QED
  BY <1>2, <1>3, <1>4, Zenon DEF s, new

-----------------------------------------------------------------------------
(* The inductive invariant.                                                *)

\* The certificates a window of epochs base..(next - 1) needs.
Covers(set, base, next) == \A k \in base..(next - 1) : \E c \in set : c.epoch = k

\* Certificates by epoch.
Chain(f) == DOMAIN f \subseteq Nat /\ \A k \in DOMAIN f : f[k].epoch = k

\* The certificates known, the files that hold them, the anchor, and the latest
\* epoch there ever was: an epoch has one certificate, and as long as its epoch
\* may be current again it is in its file.
Sound(known, fs, a, e) ==
    /\ \A c \in known : c.epoch \in Nat /\ c.validity = window(a, c.epoch)
    /\ \A c \in known : c.epoch + 1 >= e => c.epoch \in DOMAIN fs /\ fs[c.epoch] = c
    /\ \A c, d \in known : c.epoch = d.epoch => c = d

Latest == epoch_at(anchor, high)

\* What a loop got so far, and that it is not left behind by the clock.
Placed(loop) ==
    /\ loop.base \in Nat /\ loop.next \in Nat /\ loop.base <= loop.next
    /\ loop.base + 1 >= Latest
    /\ Covers(loop.got, loop.base, loop.next)

Pinned(p) == p.base \in Nat /\ p.len \in Nat /\ Covers(p.hashes, p.base, p.base + p.len)

Unanchored == /\ DOMAIN files = {} /\ DOMAIN entries = {}
              /\ Known = {} /\ Loops = {} /\ ~up

CertInv ==
    /\ now \in Nat /\ high \in Nat /\ now <= high /\ high - now <= MaxLag
    /\ len \in Nat /\ Chain(files) /\ Chain(entries)
    /\ anchor = None => Unanchored
    /\ anchor # None => /\ anchor \in Nat /\ Sound(Known, files, anchor, Latest)
                        /\ \A loop \in Loops : Placed(loop)
    /\ DOMAIN pins = Browsers /\ DOMAIN asked = Browsers
    /\ \A b \in Browsers : Pinned(pins[b])

LEMMA NewCertIs ==
    ASSUME NEW k
    PROVE  NewCert(State, k).epoch = k /\ NewCert(State, k).validity = window(anchor, k)
  BY DEF NewCert, State

\* Asking for a certificate that may be needed now or later adds it to what is
\* known, and changes nothing that is.
LEMMA EntryKeeps ==
    ASSUME NEW known, NEW e \in Nat, Sound(known, files, anchor, e),
           Chain(files), Chain(entries),
           \A i \in DOMAIN files : files[i] \in known,
           \A i \in DOMAIN entries : entries[i] \in known,
           Current \in Nat, Current <= e, NEW k \in Nat, k + 1 >= e
    PROVE  LET t == entry(State, k, Current)
               c == t.entries[k]
           IN  /\ c.epoch = k /\ c.validity = window(anchor, k)
               /\ Chain(t.files) /\ Chain(t.entries)
               /\ \A i \in DOMAIN t.files : t.files[i] \in known \cup {c}
               /\ \A i \in DOMAIN t.entries : t.entries[i] \in known \cup {c}
               /\ Sound(known \cup {c}, t.files, anchor, e)
<1>. DEFINE t == entry(State, k, Current)
            c == t.entries[k]
            new == NewCert(State, k)
            now_known == known \cup {c}
<1>1. \/ k \in DOMAIN entries /\ t.files = files /\ t.entries = entries
      \/ /\ k \notin DOMAIN entries /\ k \in DOMAIN files
         /\ t.files = files /\ t.entries = With(entries, k, files[k])
      \/ /\ k \notin DOMAIN entries /\ k \notin DOMAIN files
         /\ t.files = prune(With(files, k, new), Current)
         /\ t.entries = With(entries, k, new)
  BY EntryIs, Zenon
<1>2. new.epoch = k /\ new.validity = window(anchor, k)
  BY NewCertIs
<1>. HIDE DEF t, new
<1>3. ASSUME c \in known, c.epoch = k, t.files = files, Chain(t.entries),
             \A i \in DOMAIN t.entries : t.entries[i] \in known
      PROVE  /\ c.epoch = k /\ c.validity = window(anchor, k)
             /\ Chain(t.files) /\ Chain(t.entries)
             /\ \A i \in DOMAIN t.files : t.files[i] \in now_known
             /\ \A i \in DOMAIN t.entries : t.entries[i] \in now_known
             /\ Sound(now_known, t.files, anchor, e)
  <2>1. now_known = known
    BY <1>3, Zenon
  <2>2. c.validity = window(anchor, k)
    BY <1>3, Zenon DEF Sound
  <2>. QED
    BY <1>3, <2>1, <2>2, Zenon
<1>4. CASE k \in DOMAIN entries /\ t.files = files /\ t.entries = entries
  <2>1. c \in known /\ c.epoch = k
    BY <1>4, Zenon DEF Chain
  <2>2. Chain(t.entries) /\ \A i \in DOMAIN t.entries : t.entries[i] \in known
    BY <1>4, Zenon
  <2>. QED
    BY <1>3, <1>4, <2>1, <2>2, Zenon DEF t
<1>5. CASE /\ k \notin DOMAIN entries /\ k \in DOMAIN files
           /\ t.files = files /\ t.entries = With(entries, k, files[k])
  <2>1. /\ \A x : x \in DOMAIN t.entries <=> x \in DOMAIN entries \/ x = k
        /\ t.entries[k] = files[k]
        /\ \A x \in DOMAIN entries : x # k => t.entries[x] = entries[x]
    BY <1>5, WithIs
  <2>2. c \in known /\ c.epoch = k
    BY <1>5, <2>1, Zenon DEF Chain
  <2>3. \A i \in DOMAIN t.entries : t.entries[i] \in known
    BY <2>1, <2>2, Zenon
  <2>4. Chain(t.entries)
    BY <2>1, <2>2 DEF Chain
  <2>. QED
    BY <1>3, <1>5, <2>2, <2>3, <2>4, Zenon DEF t
<1>6. CASE /\ k \notin DOMAIN entries /\ k \notin DOMAIN files
           /\ t.files = prune(With(files, k, new), Current)
           /\ t.entries = With(entries, k, new)
  <2>1. /\ \A x : x \in DOMAIN t.entries <=> x \in DOMAIN entries \/ x = k
        /\ t.entries[k] = new
        /\ \A x \in DOMAIN entries : x # k => t.entries[x] = entries[x]
    BY <1>6, WithIs
  <2>. DEFINE more == With(files, k, new)
  <2>2. /\ \A x : x \in DOMAIN more <=> x \in DOMAIN files \/ x = k
        /\ more[k] = new
        /\ \A x \in DOMAIN files : x # k => more[x] = files[x]
    BY WithIs
  <2>3. /\ \A x : x \in DOMAIN t.files <=> x \in DOMAIN more /\ x + 1 >= Current
        /\ \A x \in DOMAIN t.files : t.files[x] = more[x]
    BY <1>6, PruneIs
  <2>. HIDE DEF more
  <2>4. c = new /\ c.epoch = k /\ c.validity = window(anchor, k)
    BY <1>2, <2>1, Zenon
  <2>5. Chain(t.entries) /\ \A i \in DOMAIN t.entries : t.entries[i] \in now_known
    <3>1. \A i \in DOMAIN t.entries : t.entries[i] \in now_known
      BY <2>1, <2>4, Zenon
    <3>2. Chain(t.entries)
      BY <2>1, <2>4 DEF Chain
    <3>. QED
      BY <3>1, <3>2
  <2>6. Chain(t.files) /\ \A i \in DOMAIN t.files : t.files[i] \in now_known
    <3>1. \A i \in DOMAIN t.files : t.files[i] \in now_known
      BY <2>2, <2>3, <2>4, Zenon
    <3>2. Chain(t.files)
      BY <2>2, <2>3, <2>4 DEF Chain
    <3>. QED
      BY <3>1, <3>2
  <2>7. \A d \in known : d.epoch # k
    <3>. SUFFICES ASSUME NEW d \in known, d.epoch = k
                  PROVE  FALSE
      OBVIOUS
    <3>. QED
      BY <1>6, Zenon DEF Sound
  <2>8. \A d \in now_known : d.epoch \in Nat /\ d.validity = window(anchor, d.epoch)
    BY <2>4, Zenon DEF Sound
  <2>9. \A d \in now_known : d.epoch + 1 >= e => d.epoch \in DOMAIN t.files /\ t.files[d.epoch] = d
    <3>. TAKE d \in now_known
    <3>. HAVE d.epoch + 1 >= e
    <3>1. d.epoch \in Nat /\ d.epoch + 1 >= Current
      BY <2>8
    <3>2. CASE d = c
      <4>1. k \in DOMAIN t.files
        BY <2>2, <2>3, <2>4, <3>1, <3>2, Zenon
      <4>. QED
        BY <2>2, <2>3, <2>4, <3>2, <4>1, Zenon
    <3>3. CASE d \in known
      <4>1. d.epoch \in DOMAIN files /\ files[d.epoch] = d /\ d.epoch # k
        BY <2>7, <3>3, Zenon DEF Sound
      <4>2. d.epoch \in DOMAIN t.files
        BY <2>2, <2>3, <3>1, <4>1, Zenon
      <4>. QED
        BY <2>2, <2>3, <4>1, <4>2, Zenon
    <3>. QED
      BY <3>2, <3>3, Zenon
  <2>10. \A d, f \in now_known : d.epoch = f.epoch => d = f
    BY <2>4, <2>7, Zenon DEF Sound
  <2>11. Sound(now_known, t.files, anchor, e)
    BY <2>8, <2>9, <2>10, Zenon DEF Sound
  <2>. QED
    BY <2>4, <2>5, <2>6, <2>11, Zenon DEF t
<1>. QED
  BY <1>1, <1>4, <1>5, <1>6, Zenon

LEMMA SoundLess ==
    ASSUME NEW known, NEW less, NEW fs, NEW a, NEW e, Sound(known, fs, a, e),
           \A c \in less : c \in known
    PROVE  Sound(less, fs, a, e)
  BY Zenon DEF Sound

LEMMA SoundLater ==
    ASSUME NEW known, NEW fs, NEW a, NEW e \in Nat, NEW u \in Nat, e <= u,
           Sound(known, fs, a, e)
    PROVE  Sound(known, fs, a, u)
<1>1. \A c \in known : c.epoch + 1 >= u => c.epoch + 1 >= e
  <2>. TAKE c \in known
  <2>1. c.epoch \in Nat
    BY Zenon DEF Sound
  <2>. QED
    BY <2>1
<1>. QED
  BY <1>1, Zenon DEF Sound

LEMMA KnownHas ==
    /\ \A i \in DOMAIN files : files[i] \in Known
    /\ \A i \in DOMAIN entries : entries[i] \in Known
    /\ cli = None \/ cli \in Known
    /\ \A b \in Browsers : \A c \in pins[b].hashes : c \in Known
    /\ \A loop \in Loops : \A c \in loop.got : c \in Known
<1>1. \A i \in DOMAIN files : files[i] \in Known
  BY Zenon DEF Known, Range
<1>2. \A i \in DOMAIN entries : entries[i] \in Known
  BY Zenon DEF Known, Range
<1>3. cli = None \/ cli \in Known
  BY Zenon DEF Known
<1>4. \A b \in Browsers : \A c \in pins[b].hashes : c \in Known
  BY Zenon DEF Known
<1>5. \A loop \in Loops : \A c \in loop.got : c \in Known
  BY DEF Known
<1>. QED
  BY <1>1, <1>2, <1>3, <1>4, <1>5

\* What is known after a step.
LEMMA KnownNext ==
    ASSUME NEW set,
           \A i \in DOMAIN files' : files'[i] \in set,
           \A i \in DOMAIN entries' : entries'[i] \in set,
           cli' = None \/ cli' \in set,
           \A b \in Browsers : \A c \in pins'[b].hashes : c \in set,
           \A loop \in Loops' : \A c \in loop.got : c \in set
    PROVE  \A c \in Known' : c \in set
<1>. SUFFICES ASSUME NEW c \in Known'
              PROVE  c \in set
  OBVIOUS
<1>1. \/ c \in Range(files') \/ c \in Range(entries')
      \/ c = cli' /\ c # None
      \/ \E b \in Browsers : c \in pins'[b].hashes
      \/ \E loop \in Loops' : c \in loop.got
  BY DEF Known
<1>2. CASE c \in Range(files')
  BY <1>2, Zenon DEF Range
<1>3. CASE c \in Range(entries')
  BY <1>3, Zenon DEF Range
<1>. QED
  BY <1>1, <1>2, <1>3, Zenon

\* The clock has been at most MaxLag ahead, so that at most the previous epoch
\* comes back.
LEMMA CurrentIs ==
    ASSUME CertInv, anchor # None
    PROVE  /\ anchor \in Nat /\ Current \in Nat /\ Latest \in Nat
           /\ Current <= Latest /\ Current + 1 >= Latest
<1>1. /\ now \in Nat /\ high \in Nat /\ now <= high /\ high - now <= MaxLag
      /\ anchor \in Nat
  BY Zenon DEF CertInv
<1>2. high - now <= Stride
  BY <1>1, CertAssumption
<1>. QED
  BY <1>1, <1>2, EpochIs, EpochGrows, EpochLags DEF Current, Latest

\* The invariant after a step that leaves the clock and the anchor alone.
LEMMA Stays ==
    ASSUME CertInv, anchor # None, NEW set,
           now' = now, high' = high, anchor' = anchor, len' \in Nat,
           Chain(files'), Chain(entries'), Sound(set, files', anchor, Latest),
           \A i \in DOMAIN files' : files'[i] \in set,
           \A i \in DOMAIN entries' : entries'[i] \in set,
           cli' = None \/ cli' \in set,
           DOMAIN pins' = Browsers, DOMAIN asked' = Browsers,
           \A b \in Browsers : Pinned(pins'[b]) /\ \A c \in pins'[b].hashes : c \in set,
           \A loop \in Loops' : Placed(loop) /\ \A c \in loop.got : c \in set
    PROVE  CertInv'
<1>1. Latest' = Latest
  BY Zenon DEF Latest
<1>2. \A c \in Known' : c \in set
  BY KnownNext, Zenon
<1>3. Sound(Known', files', anchor, Latest)
  BY <1>2, SoundLess, Zenon
<1>4. \A loop \in Loops' : Placed(loop)'
  BY <1>1, Zenon DEF Placed
<1>. QED
  BY <1>1, <1>3, <1>4, Zenon DEF CertInv

\* A step that asks for a certificate, and hands it to clients and loops.
LEMMA AskedStays ==
    ASSUME CertInv, anchor # None, NEW k \in Nat, k + 1 >= Latest, Asked(k),
           now' = now, high' = high, anchor' = anchor, len' = len,
           cli' = cli \/ cli' = Certificate(k),
           DOMAIN pins' = Browsers, DOMAIN asked' = Browsers,
           \A b \in Browsers :
               \/ pins'[b] = pins[b]
               \/ /\ Pinned(pins'[b])
                  /\ \A c \in pins'[b].hashes : c \in Known \/ c = Certificate(k),
           \A loop \in Loops' :
               \/ loop \in Loops
               \/ Placed(loop) /\ \A c \in loop.got : c \in Known \/ c = Certificate(k)
    PROVE  CertInv'
<1>. DEFINE t == entry(State, k, Current)
            c == t.entries[k]
            set == Known \cup {c}
<1>1. /\ anchor \in Nat /\ Current \in Nat /\ Latest \in Nat
      /\ Current <= Latest /\ Current + 1 >= Latest
  BY CurrentIs, Zenon
<1>2. /\ Chain(files) /\ Chain(entries) /\ Sound(Known, files, anchor, Latest) /\ len \in Nat
      /\ \A loop \in Loops : Placed(loop)
      /\ \A b \in Browsers : Pinned(pins[b])
  BY Zenon DEF CertInv
<1>3. /\ \A i \in DOMAIN files : files[i] \in Known
      /\ \A i \in DOMAIN entries : entries[i] \in Known
      /\ cli = None \/ cli \in Known
      /\ \A b \in Browsers : \A d \in pins[b].hashes : d \in Known
      /\ \A loop \in Loops : \A d \in loop.got : d \in Known
  BY KnownHas, Zenon
<1>4. /\ c.epoch = k /\ Chain(t.files) /\ Chain(t.entries)
      /\ \A i \in DOMAIN t.files : t.files[i] \in set
      /\ \A i \in DOMAIN t.entries : t.entries[i] \in set
      /\ Sound(set, t.files, anchor, Latest)
  <2>1. /\ Sound(Known, files, anchor, Latest) /\ Chain(files) /\ Chain(entries)
        /\ Latest \in Nat /\ Current \in Nat /\ Current <= Latest
        /\ \A i \in DOMAIN files : files[i] \in Known
        /\ \A i \in DOMAIN entries : entries[i] \in Known
    BY <1>1, <1>2, <1>3, Zenon
  <2>. QED
    BY <2>1, EntryKeeps
<1>5. files' = t.files /\ entries' = t.entries /\ Certificate(k) = c
  BY Zenon DEF Asked, Became, Certificate
<1>. HIDE DEF t, c
<1>6. \A d : d \in Known \/ d = c => d \in set
  OBVIOUS
<1>. HIDE DEF set
<1>7. cli' = None \/ cli' \in set
  BY <1>3, <1>5, <1>6, Zenon
<1>8. \A b \in Browsers : Pinned(pins'[b]) /\ \A d \in pins'[b].hashes : d \in set
  <2>. TAKE b \in Browsers
  <2>1. CASE pins'[b] = pins[b]
    BY <1>2, <1>3, <1>6, <2>1, Zenon
  <2>2. CASE /\ Pinned(pins'[b])
             /\ \A d \in pins'[b].hashes : d \in Known \/ d = Certificate(k)
    BY <1>5, <1>6, <2>2, Zenon
  <2>. QED
    BY <2>1, <2>2, Zenon
<1>9. \A loop \in Loops' : Placed(loop) /\ \A d \in loop.got : d \in set
  <2>. TAKE loop \in Loops'
  <2>1. CASE loop \in Loops
    BY <1>2, <1>3, <1>6, <2>1, Zenon
  <2>2. CASE Placed(loop) /\ \A d \in loop.got : d \in Known \/ d = Certificate(k)
    BY <1>5, <1>6, <2>2, Zenon
  <2>. QED
    BY <2>1, <2>2, Zenon
<1>10. /\ len' \in Nat /\ Chain(files') /\ Chain(entries')
       /\ Sound(set, files', anchor, Latest)
       /\ \A i \in DOMAIN files' : files'[i] \in set
       /\ \A i \in DOMAIN entries' : entries'[i] \in set
  BY <1>2, <1>4, <1>5, Zenon
<1>. QED
  BY <1>7, <1>8, <1>9, <1>10, Stays, Zenon

\* A step that asks for none, and may forget what is in memory.
LEMMA UnaskedStays ==
    ASSUME CertInv, anchor # None, files' = files, entries' = entries \/ entries' = <<>>,
           now' = now, high' = high, anchor' = anchor, len' \in Nat,
           cli' = cli \/ cli' = None,
           pins' = pins, DOMAIN asked' = Browsers,
           \A loop \in Loops' : loop \in Loops \/ (Placed(loop) /\ loop.got = {})
    PROVE  CertInv'
<1>1. /\ Chain(files) /\ Chain(entries) /\ Sound(Known, files, anchor, Latest)
      /\ \A loop \in Loops : Placed(loop)
      /\ \A b \in Browsers : Pinned(pins[b])
      /\ DOMAIN pins = Browsers
  BY Zenon DEF CertInv
<1>2. /\ \A i \in DOMAIN files : files[i] \in Known
      /\ \A i \in DOMAIN entries : entries[i] \in Known
      /\ cli = None \/ cli \in Known
      /\ \A b \in Browsers : \A d \in pins[b].hashes : d \in Known
      /\ \A loop \in Loops : \A d \in loop.got : d \in Known
  BY KnownHas, Zenon
<1>3. Chain(entries') /\ \A i \in DOMAIN entries' : entries'[i] \in Known
  <2>1. CASE entries' = entries
    BY <1>1, <1>2, <2>1, Zenon
  <2>2. CASE entries' = <<>>
    <3>1. DOMAIN entries' = {}
      BY <2>2
    <3>. QED
      BY <3>1 DEF Chain
  <2>. QED
    BY <2>1, <2>2
<1>4. \A loop \in Loops' : Placed(loop) /\ \A d \in loop.got : d \in Known
  <2>. TAKE loop \in Loops'
  <2>1. CASE loop \in Loops
    BY <1>1, <1>2, <2>1, Zenon
  <2>2. CASE Placed(loop) /\ loop.got = {}
    BY <2>2
  <2>. QED
    BY <2>1, <2>2, Zenon
<1>5. cli' = None \/ cli' \in Known
  BY <1>2, Zenon
<1>. QED
  BY <1>1, <1>2, <1>3, <1>4, <1>5, Stays, Zenon

\* The certificate of an epoch that may be current, now or later.
LEMMA CertificateIs ==
    ASSUME CertInv, anchor # None, NEW k \in Nat, k + 1 >= Latest
    PROVE  /\ Certificate(k).epoch = k /\ Certificate(k).validity = window(anchor, k)
           /\ \A c \in Known : c.epoch = k => c = Certificate(k)
<1>. DEFINE t == entry(State, k, Current)
            c == t.entries[k]
<1>1. /\ anchor \in Nat /\ Current \in Nat /\ Latest \in Nat /\ Current <= Latest
  BY CurrentIs, Zenon
<1>2. /\ Chain(files) /\ Chain(entries) /\ Sound(Known, files, anchor, Latest)
      /\ \A i \in DOMAIN files : files[i] \in Known
      /\ \A i \in DOMAIN entries : entries[i] \in Known
  BY KnownHas, Zenon DEF CertInv
<1>3. /\ c.epoch = k /\ c.validity = window(anchor, k)
      /\ Chain(t.files) /\ Chain(t.entries)
      /\ \A i \in DOMAIN t.files : t.files[i] \in Known \cup {c}
      /\ \A i \in DOMAIN t.entries : t.entries[i] \in Known \cup {c}
      /\ Sound(Known \cup {c}, t.files, anchor, Latest)
  BY <1>1, <1>2, EntryKeeps, Zenon
<1>4. Certificate(k) = c
  BY Zenon DEF Certificate
<1>. HIDE DEF c, t
<1>5. \A d \in Known : d.epoch = k => d = c
  <2>1. c \in Known \cup {c} /\ \A d \in Known : d \in Known \cup {c}
    OBVIOUS
  <2>. QED
    BY <1>3, <2>1, Zenon DEF Sound
<1>. QED
  BY <1>3, <1>4, <1>5, Zenon

LEMMA LoopIs ==
    ASSUME NEW base \in Nat, base + 1 >= Latest
    PROVE  Placed(Loop(base)) /\ Loop(base).got = {}
<1>1. Covers({}, base, base)
  BY DEF Covers
<1>. QED
  BY <1>1 DEF Placed, Loop

\* One entry more of a loop.
LEMMA AfterIs ==
    ASSUME CertInv, anchor # None, NEW loop, Placed(loop), loop \in Loops
    PROVE  LET a == After(loop)
           IN  /\ loop.next \in Nat /\ loop.next + 1 >= Latest
               /\ a.base = loop.base /\ a.next = loop.next + 1
               /\ Placed(a) /\ \A c \in a.got : c \in Known \/ c = Certificate(loop.next)
<1>. DEFINE a == After(loop)
            c == Certificate(loop.next)
<1>1. /\ loop.base \in Nat /\ loop.next \in Nat /\ loop.base <= loop.next
      /\ loop.base + 1 >= Latest /\ Covers(loop.got, loop.base, loop.next)
  BY Zenon DEF Placed
<1>2. loop.next + 1 >= Latest /\ loop.next + 1 \in Nat /\ loop.base <= loop.next + 1
  <2>1. Latest \in Nat
    BY CurrentIs, Zenon
  <2>. QED
    BY <1>1, <2>1
<1>3. c.epoch = loop.next
  BY <1>1, <1>2, CertificateIs, Zenon
<1>. HIDE DEF c
<1>4. a.base = loop.base /\ a.next = loop.next + 1 /\ a.got = loop.got \cup {c}
  BY DEF After, c
<1>. HIDE DEF a
<1>5. Covers(a.got, loop.base, loop.next + 1)
  <2>. SUFFICES ASSUME NEW k \in loop.base..((loop.next + 1) - 1)
                PROVE  \E d \in a.got : d.epoch = k
    BY DEF Covers
  <2>1. k = loop.next \/ k \in loop.base..(loop.next - 1)
    BY <1>1
  <2>2. CASE k = loop.next
    BY <1>3, <1>4, <2>2
  <2>3. CASE k \in loop.base..(loop.next - 1)
    <3>1. PICK d \in loop.got : d.epoch = k
      BY <1>1, <2>3, Zenon DEF Covers
    <3>2. d \in a.got
      BY <1>4
    <3>. QED
      BY <3>1, <3>2, Zenon
  <2>. QED
    BY <2>1, <2>2, <2>3
<1>6. Placed(a)
  BY <1>1, <1>2, <1>4, <1>5, Zenon DEF Placed
<1>7. \A d \in a.got : d \in Known \/ d = c
  <2>1. \A d \in loop.got : d \in Known
    BY KnownHas, Zenon
  <2>. QED
    BY <1>4, <2>1
<1>. QED
  BY <1>1, <1>2, <1>4, <1>6, <1>7, Zenon DEF a, c

\* Whoever runs, or is in a loop, has an anchor.
LEMMA Anchored ==
    ASSUME CertInv, up \/ loading # None \/ Loops # {}
    PROVE  anchor # None
<1>1. loading # None => loading \in Loops
  BY DEF Loops
<1>. QED
  BY <1>1 DEF CertInv, Unanchored
-----------------------------------------------------------------------------
(* Every action keeps the invariant.                                       *)

LEMMA CertInvInit == Init => CertInv
<1>. SUFFICES ASSUME Init
              PROVE  CertInv
  OBVIOUS
<1>1. /\ now = 0 /\ high = 0 /\ up = FALSE /\ anchor = None /\ files = <<>> /\ entries = <<>>
      /\ len = 0 /\ loading = None /\ pins = [b \in Browsers |-> Unpinned]
      /\ asked = [b \in Browsers |-> None] /\ cli = None
  BY Zenon DEF Init
<1>2. DOMAIN files = {} /\ DOMAIN entries = {} /\ Chain(files) /\ Chain(entries)
  BY <1>1 DEF Chain
<1>3. DOMAIN pins = Browsers /\ DOMAIN asked = Browsers
  BY <1>1
<1>4. \A b \in Browsers : pins[b].hashes = {} /\ Pinned(pins[b])
  <2>. TAKE b \in Browsers
  <2>1. pins[b] = Unpinned
    BY <1>1
  <2>2. Unpinned.hashes = {} /\ Unpinned.base = 0 /\ Unpinned.len = 0
    BY DEF Unpinned
  <2>3. Covers({}, 0, 0)
    BY DEF Covers
  <2>. QED
    BY <2>1, <2>2, <2>3 DEF Pinned
<1>5. Loops = {}
  BY <1>1 DEF Loops
<1>6. Known = {}
  <2>1. Range(files) = {} /\ Range(entries) = {}
    BY <1>2 DEF Range
  <2>. QED
    BY <1>1, <1>4, <1>5, <2>1 DEF Known
<1>7. 0 \in Nat /\ 0 - 0 <= MaxLag /\ 0 <= 0
  BY CertAssumption
<1>8. Unanchored
  BY <1>1, <1>2, <1>5, <1>6, Zenon DEF Unanchored
<1>. QED
  BY <1>1, <1>2, <1>3, <1>4, <1>7, <1>8, Zenon DEF CertInv

\* The loops after a step that begins or ends one.
LEMMA LoopsAre ==
    ASSUME NEW b, NEW x, asked' = [asked EXCEPT ![b] = x], loading' = loading,
           DOMAIN asked = Browsers
    PROVE  /\ DOMAIN asked' = Browsers
           /\ \A loop \in Loops' : loop \in Loops \/ (loop = x /\ loop # None)
<1>1. DOMAIN asked' = Browsers /\ \A y \in Browsers : asked'[y] = asked[y] \/ asked'[y] = x
  OBVIOUS
<1>2. ASSUME NEW loop \in Loops'
      PROVE  loop \in Loops \/ (loop = x /\ loop # None)
  <2>1. /\ loop # None
        /\ loop = loading' \/ \E y \in Browsers : loop = asked'[y]
    BY DEF Loops
  <2>2. loop = loading \/ (\E y \in Browsers : loop = asked[y]) \/ loop = x
    BY <1>1, <2>1
  <2>. QED
    BY <2>1, <2>2 DEF Loops
<1>. QED
  BY <1>1, <1>2

LEMMA LoadKeeps == ASSUME NEW l \in Windows PROVE CertInv /\ load(l) => CertInv'
<1>. SUFFICES ASSUME CertInv, load(l)
              PROVE  CertInv'
  OBVIOUS
<1>1. /\ anchor' = LoadedAnchor /\ loading' = Loop(epoch_at(anchor', now)) /\ len' = l
      /\ now' = now /\ high' = high /\ files' = files /\ entries' = entries /\ up' = up
      /\ pins' = pins /\ asked' = asked /\ cli' = cli
  BY Zenon DEF load, clients
<1>2. len' \in Nat
  BY <1>1, CertAssumption
<1>3. \A loop \in Loops' : loop \in Loops \/ loop = Loop(epoch_at(anchor', now))
  BY <1>1 DEF Loops
<1>4. DOMAIN asked' = Browsers
  BY <1>1, Zenon DEF CertInv
<1>5. CASE anchor # None
  <2>1. anchor' = anchor
    BY <1>1, <1>5, Zenon DEF LoadedAnchor
  <2>2. Current \in Nat /\ Current + 1 >= Latest
    BY <1>5, CurrentIs, Zenon
  <2>3. Placed(Loop(Current)) /\ Loop(Current).got = {}
    BY <2>2, LoopIs, Zenon
  <2>4. \A loop \in Loops' : loop \in Loops \/ (Placed(loop) /\ loop.got = {})
    <3>1. epoch_at(anchor', now) = Current
      BY <2>1, Zenon DEF Current
    <3>. QED
      BY <1>3, <2>3, <3>1, Zenon
  <2>. QED
    BY <1>1, <1>2, <1>4, <1>5, <2>1, <2>4, UnaskedStays, Zenon
<1>6. CASE anchor = None
  <2>1. anchor' = now
    BY <1>1, <1>6, Zenon DEF LoadedAnchor
  <2>2. /\ now \in Nat /\ high \in Nat /\ now <= high /\ high - now <= MaxLag
        /\ Chain(files) /\ Chain(entries) /\ \A b \in Browsers : Pinned(pins[b])
        /\ DOMAIN files = {} /\ DOMAIN entries = {} /\ Known = {} /\ Loops = {}
        /\ DOMAIN pins = Browsers
    BY <1>6, Zenon DEF CertInv, Unanchored
  <2>. DEFINE base == epoch_at(now, now)
  <2>3. base \in Nat /\ base + 1 >= epoch_at(now, high)
    <3>1. high - now <= Stride
      BY <2>2, CertAssumption
    <3>. QED
      BY <2>2, <3>1, EpochIs, EpochLags
  <2>4. Latest' = epoch_at(now, high)
    BY <1>1, <2>1, Zenon DEF Latest
  <2>. HIDE DEF base
  <2>5. \A loop \in Loops' : loop = Loop(base)
    BY <1>3, <2>1, <2>2, Zenon DEF base
  <2>6. Loop(base).base = base /\ Loop(base).next = base /\ Loop(base).got = {}
    BY DEF Loop
  <2>7. \A loop \in Loops' : Placed(loop)' /\ loop.got = {}
    <3>1. Covers({}, base, base) /\ base <= base
      BY <2>3 DEF Covers
    <3>. QED
      BY <2>3, <2>4, <2>5, <2>6, <3>1 DEF Placed
  <2>8. \A c \in Known' : c \in {}
    <3>1. \A b \in Browsers : \A c \in pins'[b].hashes : c \in {}
      BY <1>1, <2>2, KnownHas, Zenon
    <3>2. cli' = None \/ cli' \in {}
      BY <1>1, <2>2, KnownHas, Zenon
    <3>3. \A loop \in Loops' : \A c \in loop.got : c \in {}
      BY <2>7
    <3>. QED
      BY <1>1, <2>2, <3>1, <3>2, <3>3, KnownNext, Zenon
  <2>9. Sound(Known', files', anchor', Latest')
    BY <2>8, Zenon DEF Sound
  <2>10. anchor' # None
    BY <2>1, <2>2, CertAssumption
  <2>. QED
    BY <1>1, <1>2, <1>4, <2>1, <2>2, <2>7, <2>9, <2>10, Zenon DEF CertInv
<1>. QED
  BY <1>5, <1>6

LEMMA LoadFailsKeeps == CertInv /\ LoadFails => CertInv'
<1>. SUFFICES ASSUME CertInv, LoadFails
              PROVE  CertInv'
  OBVIOUS
<1>1. /\ anchor' = anchor /\ loading' = loading /\ len' = len
      /\ now' = now /\ high' = high /\ files' = files /\ entries' = entries /\ up' = up
      /\ pins' = pins /\ asked' = asked /\ cli' = cli
  BY Zenon DEF LoadFails, clients, memory
<1>2. Loops' = Loops /\ Latest' = Latest
  BY <1>1 DEF Loops, Latest
<1>3. Known' = Known
  BY <1>1, <1>2 DEF Known, Range
<1>. QED
  BY <1>1, <1>2, <1>3, Zenon DEF CertInv, Unanchored, Placed

LEMMA LoadEntryKeeps == CertInv /\ load_entry => CertInv'
<1>. SUFFICES ASSUME CertInv, load_entry
              PROVE  CertInv'
  OBVIOUS
<1>. DEFINE k == loading.next
<1>1. /\ loading # None /\ Asked(k) /\ loading' \in {None, After(loading)}
      /\ now' = now /\ high' = high /\ anchor' = anchor /\ len' = len
      /\ pins' = pins /\ asked' = asked /\ cli' = cli
  BY DEF load_entry, clients
<1>2. anchor # None
  BY <1>1, Anchored, Zenon
<1>3. loading \in Loops
  BY <1>1 DEF Loops
<1>4. Placed(loading)
  BY <1>2, <1>3, Zenon DEF CertInv
<1>5. /\ k \in Nat /\ k + 1 >= Latest /\ Placed(After(loading))
      /\ \A c \in After(loading).got : c \in Known \/ c = Certificate(k)
  BY <1>2, <1>3, <1>4, AfterIs, Zenon
<1>6. \A loop \in Loops' : loop \in Loops \/ loop = After(loading)
  BY <1>1 DEF Loops
<1>7. \A loop \in Loops' :
          \/ loop \in Loops
          \/ Placed(loop) /\ \A c \in loop.got : c \in Known \/ c = Certificate(k)
  BY <1>5, <1>6, Zenon
<1>8. DOMAIN pins' = Browsers /\ DOMAIN asked' = Browsers
  BY <1>1, Zenon DEF CertInv
<1>. HIDE DEF k
<1>. QED
  BY <1>1, <1>2, <1>5, <1>7, <1>8, AskedStays, Zenon

LEMMA StopKeeps == CertInv /\ Stop => CertInv'
<1>. SUFFICES ASSUME CertInv, Stop
              PROVE  CertInv'
  OBVIOUS
<1>1. /\ up \/ loading # None
      /\ len' = 0 /\ entries' = <<>> /\ loading' = None
      /\ asked' = [b \in Browsers |-> None] /\ cli' = None
      /\ now' = now /\ high' = high /\ anchor' = anchor /\ files' = files /\ pins' = pins
  BY Zenon DEF Stop, disk
<1>2. anchor # None
  BY <1>1, Anchored, Zenon
<1>3. Loops' = {} /\ DOMAIN asked' = Browsers /\ len' \in Nat
  BY <1>1 DEF Loops
<1>. QED
  BY <1>1, <1>2, <1>3, UnaskedStays

LEMMA ClockKeeps == ASSUME NEW u PROVE CertInv /\ ClockSet(u) => CertInv'
<1>. SUFFICES ASSUME CertInv, ClockSet(u)
              PROVE  CertInv'
  OBVIOUS
<1>1. /\ u \in 0..MaxTime /\ u >= high - MaxLag /\ now' = u
      /\ high' = IF u > high THEN u ELSE high
      /\ \A loop \in Loops : epoch_at(anchor, u) <= loop.base + 1
      /\ anchor' = anchor /\ files' = files /\ up' = up /\ len' = len /\ entries' = entries
      /\ loading' = loading /\ pins' = pins /\ asked' = asked /\ cli' = cli
  BY Zenon DEF ClockSet, disk, memory, clients
<1>2. /\ now \in Nat /\ high \in Nat /\ now <= high /\ high - now <= MaxLag
  BY Zenon DEF CertInv
<1>3. MaxTime \in Nat /\ MaxLag \in Nat /\ MaxLag <= Stride /\ Stride \in Nat
  BY CertAssumption
<1>4. /\ now' \in Nat /\ high' \in Nat /\ now' <= high' /\ high' - now' <= MaxLag
      /\ high <= high' /\ (high' = high \/ high' = u)
  BY <1>1, <1>2, <1>3
<1>5. Loops' = Loops
  BY <1>1 DEF Loops
<1>6. Known' = Known
  BY <1>1, <1>5 DEF Known, Range
<1>7. CASE anchor = None
  BY <1>1, <1>4, <1>5, <1>6, <1>7, Zenon DEF CertInv, Unanchored
<1>8. CASE anchor # None
  <2>1. anchor \in Nat /\ Latest \in Nat /\ Latest' = epoch_at(anchor, high')
    BY <1>1, <1>8, CurrentIs, Zenon DEF Latest
  <2>2. Latest' \in Nat /\ Latest <= Latest'
    BY <1>2, <1>4, <2>1, EpochIs, EpochGrows DEF Latest
  <2>3. Sound(Known, files, anchor, Latest) /\ \A loop \in Loops : Placed(loop)
    BY <1>8, Zenon DEF CertInv
  <2>4. Sound(Known, files, anchor, Latest')
    BY <2>1, <2>2, <2>3, SoundLater, Zenon
  <2>5. \A loop \in Loops : Placed(loop)'
    <3>. TAKE loop \in Loops
    <3>1. loop.base \in Nat /\ loop.base + 1 >= Latest
      BY <2>3, Zenon DEF Placed
    <3>2. loop.base + 1 >= Latest'
      <4>1. CASE high' = high
        BY <2>1, <3>1, <4>1 DEF Latest
      <4>2. CASE high' = u
        BY <1>1, <2>1, <2>2, <3>1, <4>2
      <4>. QED
        BY <1>4, <4>1, <4>2
    <3>. QED
      BY <2>3, <3>2, Zenon DEF Placed
  <2>. QED
    BY <1>1, <1>4, <1>5, <1>6, <1>8, <2>1, <2>4, <2>5, Zenon DEF CertInv
<1>. QED
  BY <1>7, <1>8

\* A step of a client that leaves the loops alone.
LEMMA SameLoops ==
    ASSUME loading' = loading, asked' = asked
    PROVE  Loops' = Loops
  BY DEF Loops

LEMMA ConnectKeeps == ASSUME NEW b \in Browsers PROVE CertInv /\ Connect(b) => CertInv'
<1>. SUFFICES ASSUME CertInv, Connect(b)
              PROVE  CertInv'
  OBVIOUS
<1>1. /\ up /\ (Asked(Current) \/ (files' = files /\ entries' = entries))
      /\ now' = now /\ high' = high /\ anchor' = anchor /\ len' = len /\ loading' = loading
      /\ pins' = pins /\ asked' = asked /\ cli' = cli
  BY Zenon DEF Connect, Failed
<1>2. anchor # None
  BY <1>1, Anchored, Zenon
<1>3. Current \in Nat /\ Current + 1 >= Latest
  BY <1>2, CurrentIs, Zenon
<1>4. DOMAIN pins' = Browsers /\ DOMAIN asked' = Browsers /\ len' \in Nat /\ Loops' = Loops
  BY <1>1, SameLoops, Zenon DEF CertInv
<1>5. CASE Asked(Current)
  BY <1>1, <1>2, <1>3, <1>4, <1>5, AskedStays, Zenon
<1>6. CASE files' = files /\ entries' = entries
  BY <1>1, <1>2, <1>4, <1>6, UnaskedStays, Zenon
<1>. QED
  BY <1>1, <1>5, <1>6, Zenon

LEMMA ForwardKeeps ==
    ASSUME NEW b \in Browsers PROVE CertInv /\ forward_hashes(b) => CertInv'
<1>. SUFFICES ASSUME CertInv, forward_hashes(b)
              PROVE  CertInv'
  OBVIOUS
<1>. DEFINE x == Loop(Current)
<1>1. /\ up /\ asked' = [asked EXCEPT ![b] = x]
      /\ now' = now /\ high' = high /\ anchor' = anchor /\ len' = len /\ loading' = loading
      /\ files' = files /\ entries' = entries /\ pins' = pins /\ cli' = cli
  BY Zenon DEF forward_hashes, disk, memory
<1>2. anchor # None
  BY <1>1, Anchored, Zenon
<1>3. Placed(x) /\ x.got = {}
  BY <1>2, CurrentIs, LoopIs, Zenon
<1>. HIDE DEF x
<1>4. len' \in Nat /\ DOMAIN asked = Browsers
  BY <1>1, Zenon DEF CertInv
<1>5. /\ DOMAIN asked' = Browsers
      /\ \A loop \in Loops' : loop \in Loops \/ (loop = x /\ loop # None)
  BY <1>1, <1>4, LoopsAre, Zenon
<1>6. \A loop \in Loops' : loop \in Loops \/ (Placed(loop) /\ loop.got = {})
  BY <1>3, <1>5, Zenon
<1>. QED
  BY <1>1, <1>2, <1>4, <1>5, <1>6, UnaskedStays, Zenon

LEMMA ForwardEntryKeeps ==
    ASSUME NEW b \in Browsers PROVE CertInv /\ forward_entry(b) => CertInv'
<1>. SUFFICES ASSUME CertInv, forward_entry(b)
              PROVE  CertInv'
  OBVIOUS
<1>. DEFINE a == asked[b]
            k == a.next
            more == After(a)
            p == [hashes |-> more.got, base |-> a.base, len |-> len]
<1>1. /\ up /\ a # None
      /\ now' = now /\ high' = high /\ anchor' = anchor /\ len' = len /\ loading' = loading
      /\ cli' = cli
      /\ \/ Asked(k) /\ asked' = [asked EXCEPT ![b] = more] /\ pins' = pins
         \/ /\ k + 1 = a.base + len /\ Asked(k) /\ asked' = [asked EXCEPT ![b] = None]
            /\ pins' = pins \/ pins' = [pins EXCEPT ![b] = p]
         \/ /\ files' = files /\ entries' = entries
            /\ asked' = [asked EXCEPT ![b] = None] /\ pins' = pins
  <2>1. /\ up /\ a # None
        /\ now' = now /\ high' = high /\ anchor' = anchor /\ len' = len /\ loading' = loading
        /\ cli' = cli
    BY Zenon DEF forward_entry
  <2>2. \/ Asked(k) /\ asked' = [asked EXCEPT ![b] = more] /\ pins' = pins
        \/ /\ k + 1 = a.base + len /\ Asked(k) /\ asked' = [asked EXCEPT ![b] = None]
           /\ pins' \in {pins, [pins EXCEPT ![b] = p]}
        \/ /\ files' = files /\ entries' = entries
           /\ asked' = [asked EXCEPT ![b] = None] /\ pins' = pins
    BY Zenon DEF forward_entry, Failed
  <2>. QED
    BY <2>1, <2>2, Zenon
<1>2. anchor # None
  BY <1>1, Anchored, Zenon
<1>3. a \in Loops
  BY <1>1 DEF Loops
<1>4. Placed(a)
  BY <1>2, <1>3, Zenon DEF CertInv
<1>5. /\ k \in Nat /\ k + 1 >= Latest /\ more.base = a.base /\ more.next = k + 1
      /\ Placed(more) /\ \A c \in more.got : c \in Known \/ c = Certificate(k)
  BY <1>2, <1>3, <1>4, AfterIs, Zenon
<1>. HIDE DEF a, k, more
<1>6. /\ len \in Nat /\ len' \in Nat /\ DOMAIN asked = Browsers /\ DOMAIN pins = Browsers
  BY <1>1, Zenon DEF CertInv
<1>7. ASSUME NEW x, asked' = [asked EXCEPT ![b] = x], x = None \/ x = more
      PROVE  /\ DOMAIN asked' = Browsers
             /\ x = None => \A loop \in Loops' : loop \in Loops
             /\ \A loop \in Loops' :
                    \/ loop \in Loops
                    \/ Placed(loop) /\ \A c \in loop.got : c \in Known \/ c = Certificate(k)
  <2>1. /\ DOMAIN asked' = Browsers
        /\ \A loop \in Loops' : loop \in Loops \/ (loop = x /\ loop # None)
    BY <1>1, <1>6, <1>7, LoopsAre, Zenon
  <2>. QED
    BY <1>5, <1>7, <2>1, Zenon
<1>8. CASE Asked(k) /\ asked' = [asked EXCEPT ![b] = more] /\ pins' = pins
  BY <1>1, <1>2, <1>5, <1>6, <1>7, <1>8, AskedStays, Zenon
<1>9. CASE /\ k + 1 = a.base + len /\ Asked(k) /\ asked' = [asked EXCEPT ![b] = None]
           /\ pins' = pins \/ pins' = [pins EXCEPT ![b] = p]
  <2>1. p.hashes = more.got /\ p.base = a.base /\ p.len = len
    OBVIOUS
  <2>. HIDE DEF p
  <2>2. Pinned(p)
    <3>1. a.base \in Nat /\ Covers(more.got, a.base, a.base + len)
      BY <1>5, <1>9, Zenon DEF Placed
    <3>. QED
      BY <1>6, <2>1, <3>1, Zenon DEF Pinned
  <2>3. DOMAIN pins' = Browsers /\ \A y \in Browsers : pins'[y] = pins[y] \/ pins'[y] = p
    BY <1>6, <1>9
  <2>4. \A y \in Browsers :
            \/ pins'[y] = pins[y]
            \/ /\ Pinned(pins'[y])
               /\ \A c \in pins'[y].hashes : c \in Known \/ c = Certificate(k)
    BY <1>5, <2>1, <2>2, <2>3, Zenon
  <2>. QED
    BY <1>1, <1>2, <1>5, <1>6, <1>7, <1>9, <2>3, <2>4, AskedStays, Zenon
<1>10. CASE /\ files' = files /\ entries' = entries
            /\ asked' = [asked EXCEPT ![b] = None] /\ pins' = pins
  BY <1>1, <1>2, <1>6, <1>7, <1>10, UnaskedStays, Zenon
<1>. QED
  BY <1>1, <1>8, <1>9, <1>10, Zenon

LEMMA EnrollKeeps == ASSUME NEW b \in Browsers PROVE CertInv /\ enroll_link(b) => CertInv'
<1>. SUFFICES ASSUME CertInv, enroll_link(b)
              PROVE  CertInv'
  OBVIOUS
<1>. DEFINE k == Current
            p == [hashes |-> {Certificate(k)}, base |-> k, len |-> 1]
<1>1. /\ up /\ Asked(k) /\ pins' = [pins EXCEPT ![b] = p]
      /\ now' = now /\ high' = high /\ anchor' = anchor /\ len' = len /\ loading' = loading
      /\ asked' = asked /\ cli' = cli
  BY Zenon DEF enroll_link
<1>2. anchor # None
  BY <1>1, Anchored, Zenon
<1>3. k \in Nat /\ k + 1 >= Latest
  BY <1>2, CurrentIs, Zenon
<1>4. Certificate(k).epoch = k
  BY <1>2, <1>3, CertificateIs, Zenon
<1>5. p.hashes = {Certificate(k)} /\ p.base = k /\ p.len = 1
  OBVIOUS
<1>. HIDE DEF k, p
<1>6. Pinned(p)
  <2>1. Covers({Certificate(k)}, k, k + 1)
    BY <1>3, <1>4 DEF Covers
  <2>. QED
    BY <1>3, <1>5, <2>1 DEF Pinned
<1>7. /\ DOMAIN pins = Browsers /\ DOMAIN asked' = Browsers /\ len' \in Nat /\ Loops' = Loops
  BY <1>1, SameLoops, Zenon DEF CertInv
<1>8. DOMAIN pins' = Browsers /\ \A y \in Browsers : pins'[y] = pins[y] \/ pins'[y] = p
  BY <1>1, <1>7
<1>9. \A y \in Browsers :
          \/ pins'[y] = pins[y]
          \/ /\ Pinned(pins'[y])
             /\ \A c \in pins'[y].hashes : c \in Known \/ c = Certificate(k)
  <2>1. \A c \in p.hashes : c = Certificate(k)
    BY <1>5
  <2>. QED
    BY <1>6, <1>8, <2>1, Zenon
<1>. QED
  BY <1>1, <1>2, <1>3, <1>7, <1>8, <1>9, AskedStays, Zenon

LEMMA CreateKeeps == CertInv /\ create => CertInv'
<1>. SUFFICES ASSUME CertInv, create
              PROVE  CertInv'
  OBVIOUS
<1>1. /\ up /\ Asked(Current) /\ cli' = Certificate(Current)
      /\ now' = now /\ high' = high /\ anchor' = anchor /\ len' = len /\ loading' = loading
      /\ pins' = pins /\ asked' = asked
  BY Zenon DEF create
<1>2. anchor # None
  BY <1>1, Anchored, Zenon
<1>3. Current \in Nat /\ Current + 1 >= Latest
  BY <1>2, CurrentIs, Zenon
<1>4. DOMAIN pins' = Browsers /\ DOMAIN asked' = Browsers /\ Loops' = Loops
  BY <1>1, SameLoops, Zenon DEF CertInv
<1>. QED
  BY <1>1, <1>2, <1>3, <1>4, AskedStays, Zenon
-----------------------------------------------------------------------------
(* The theorems.                                                           *)

LEMMA CertInvNext == CertInv /\ [Next]_vars => CertInv'
<1>. SUFFICES ASSUME CertInv, [Next]_vars
              PROVE  CertInv'
  OBVIOUS
<1>1. CASE Next
  BY <1>1, LoadKeeps, LoadFailsKeeps, LoadEntryKeeps, StopKeeps, CreateKeeps, ClockKeeps,
     ConnectKeeps, ForwardKeeps, ForwardEntryKeeps, EnrollKeeps, Zenon DEF Next
<1>2. CASE UNCHANGED vars
  <2>1. /\ anchor' = anchor /\ loading' = loading /\ len' = len
        /\ now' = now /\ high' = high /\ files' = files /\ entries' = entries /\ up' = up
        /\ pins' = pins /\ asked' = asked /\ cli' = cli
    BY <1>2, Zenon DEF vars, disk, memory, clients
  <2>2. Loops' = Loops /\ Latest' = Latest
    BY <2>1 DEF Loops, Latest
  <2>3. Known' = Known
    BY <2>1, <2>2 DEF Known, Range
  <2>. QED
    BY <2>1, <2>2, <2>3, Zenon DEF CertInv, Unanchored, Placed
<1>. QED
  BY <1>1, <1>2

\* The invariant is one.
THEOREM Invariance == Spec => []CertInv
  BY CertInvInit, CertInvNext, PTL DEF Spec

\* An epoch has one certificate among all that files, memory, clients and loops
\* hold (entry, prune, load).
THEOREM OneCertificatePerEpochHolds == Spec => []OneCertificatePerEpoch
<1>1. CertInv => OneCertificatePerEpoch
  <2>. SUFFICES ASSUME CertInv
                PROVE  OneCertificatePerEpoch
    OBVIOUS
  <2>1. CASE anchor = None
    BY <2>1, Zenon DEF CertInv, Unanchored, OneCertificatePerEpoch
  <2>2. CASE anchor # None
    BY <2>2, Zenon DEF CertInv, Sound, OneCertificatePerEpoch
  <2>. QED
    BY <2>1, <2>2
<1>. QED
  BY <1>1, Invariance, PTL

\* The server's certificate is one of those pinned, as long as the current epoch
\* is one the pins were sent for (forward_hashes, entry, prune).
THEOREM PinsLastHolds == Spec => []PinsLast
<1>1. CertInv => PinsLast
  <2>. SUFFICES ASSUME CertInv, anchor # None, NEW b \in Browsers,
                       Current \in pins[b].base..(pins[b].base + pins[b].len - 1)
                PROVE  Certificate(Current) \in pins[b].hashes
    BY Zenon DEF PinsLast
  <2>1. Covers(pins[b].hashes, pins[b].base, pins[b].base + pins[b].len)
    BY Zenon DEF CertInv, Pinned
  <2>. DEFINE hashes == pins[b].hashes
              base == pins[b].base
              next == base + pins[b].len
  <2>2. PICK c \in hashes : c.epoch = Current
    <3>1. \A k \in base..(next - 1) : \E c \in hashes : c.epoch = k
      BY <2>1, Zenon DEF Covers
    <3>2. base \in Nat /\ pins[b].len \in Nat
      BY Zenon DEF CertInv, Pinned
    <3>3. base + (pins[b].len - 1) = next - 1
      BY <3>2
    <3>. HIDE DEF hashes
    <3>. QED
      BY <3>1, <3>3, Zenon
  <2>3. c \in Known
    BY KnownHas, Zenon
  <2>4. Current \in Nat /\ Current + 1 >= Latest
    BY CurrentIs, Zenon
  <2>5. c = Certificate(Current)
    BY <2>2, <2>3, <2>4, CertificateIs, Zenon
  <2>. QED
    BY <2>2, <2>5, Zenon
<1>. QED
  BY <1>1, Invariance, PTL

\* Slack before an epoch and what Validity leaves after it are covered by the
\* epoch's certificate (window).
LEMMA WindowCovers ==
    ASSUME NEW a \in Nat, NEW t \in Nat, t >= a
    PROVE  LET w == window(a, epoch_at(a, t))
           IN  /\ w.notBefore <= t - Slack
               /\ t + (Validity - Stride - Slack) < w.notAfter
<1>. DEFINE q == epoch_at(a, t)
            w == window(a, q)
            p == q * Stride
<1>1. Stride \in Nat \ {0} /\ Validity \in Nat /\ Slack \in Nat
  BY CertAssumption
<1>2. q \in Nat
  BY EpochIs
<1>3. w.notBefore = a + p - Slack /\ w.notAfter = a + p - Slack + Validity
  BY DEF window
<1>. HIDE DEF w
<1>4. p \in Int /\ a + p <= t /\ t < a + p + Stride
  <2>1. CASE t = a
    <3>1. q = 0
      BY <2>1 DEF epoch_at
    <3>2. p = 0
      BY <1>1, <3>1
    <3>. QED
      BY <1>1, <2>1, <3>2
  <2>2. CASE t # a
    <3>. DEFINE n == t - a
    <3>1. n \in Nat /\ q = n \div Stride
      BY <2>2 DEF epoch_at
    <3>. HIDE DEF q, n
    <3>2. Stride * q <= n /\ n < Stride * q + Stride
      BY <1>1, <3>1, DivIs
    <3>3. p = Stride * q /\ p \in Int
      BY <1>1, <1>2
    <3>. HIDE DEF p
    <3>. QED
      BY <1>1, <3>2, <3>3 DEF n
  <2>. QED
    BY <2>1, <2>2
<1>. HIDE DEF p
<1>. QED
  BY <1>1, <1>3, <1>4 DEF w, q

\* What the server serves is valid for clients whose clock differs from its own
\* (window, load_or_create_anchor).
THEOREM ServedIsValidHolds == Spec => []ServedIsValid
<1>1. CertInv => ServedIsValid
  <2>. SUFFICES ASSUME CertInv, up, now >= anchor
                PROVE  LET w == Certificate(Current).validity
                       IN  /\ w.notBefore <= now - Slack
                           /\ now + (Validity - Stride - Slack) < w.notAfter
    BY Zenon DEF ServedIsValid
  <2>1. anchor # None
    BY Anchored, Zenon
  <2>2. Current \in Nat /\ Current + 1 >= Latest /\ anchor \in Nat
    BY <2>1, CurrentIs, Zenon
  <2>3. Certificate(Current).validity = window(anchor, Current)
    BY <2>1, <2>2, CertificateIs, Zenon
  <2>4. now \in Nat
    BY Zenon DEF CertInv
  <2>5. LET w == window(anchor, epoch_at(anchor, now))
        IN  /\ w.notBefore <= now - Slack
            /\ now + (Validity - Stride - Slack) < w.notAfter
    BY <2>2, <2>4, WindowCovers
  <2>. QED
    BY <2>3, <2>5, Zenon DEF Current
<1>. QED
  BY <1>1, Invariance, PTL
=============================================================================
