------------------------ MODULE PredictionProofs ------------------------
(***************************************************************************)
(* Theorems about Prediction, for every frame, every program and any       *)
(* messages: guesses are judged in time, are not withdrawn by time, and    *)
(* where nothing on the screen looks like a password, none is drawn.       *)
(***************************************************************************)
EXTENDS Prediction, TLAPS, WellFoundedInduction

(* Induction over a set of naturals.                                       *)

\* A set of naturals that has an element has a least one.
LEMMA Least ==
    ASSUME NEW T, T \subseteq Nat, T # {}
    PROVE  \E x \in T : \A y \in T : x <= y
<1>. DEFINE R == OpToRel(<, Nat)
<1>1. IsWellFoundedOn(R, Nat)
  BY NatLessThanWellFounded
<1>2. \A i, j \in Nat : i < j => <<i, j>> \in R
  BY DEF OpToRel
<1>. HIDE DEF R
<1>3. PICK x \in T : \A y \in T : ~(<<y, x>> \in R)
  BY <1>1, WFMin
<1>4. \A y \in T : x <= y
  <2>. TAKE y \in T
  <2>1. x \in Nat /\ y \in Nat /\ ~(y < x)
    BY <1>2, <1>3
  <2>. QED
    BY <2>1
<1>. QED
  BY <1>4, Zenon

\* What holds of 0 and of the successor of whatever it holds of holds of every
\* natural.
LEMMA SetInduction ==
    ASSUME NEW T, 0 \in T, \A n \in Nat : n \in T => n + 1 \in T
    PROVE  \A n \in Nat : n \in T
<1>. SUFFICES ASSUME NEW n \in Nat, n \notin T
              PROVE  FALSE
  OBVIOUS
<1>1. PICK m \in Nat \ T : \A k \in Nat \ T : m <= k
  BY Least
<1>2. m # 0 /\ m \in Nat /\ m \notin T
  BY <1>1
<1>3. m - 1 \in Nat /\ m - 1 \in T
  BY <1>1, <1>2
<1>. QED
  BY <1>2, <1>3
-----------------------------------------------------------------------------
(* What Retain keeps.                                                      *)

RetainOf(s, T, f) ==
    f = [i \in 0..Len(s) |->
            IF i = 0 THEN <<>>
            ELSE IF s[i] \in T THEN Append(f[i - 1], s[i]) ELSE f[i - 1]]

\* The recursion of Retain has a function that satisfies it.
LEMMA RetainExists ==
    ASSUME NEW s, NEW T, Len(s) \in Nat
    PROVE  \E f : RetainOf(s, T, f)
<1>. DEFINE P(n, f) == f = [i \in 0..n |-> IF i = 0 THEN <<>>
        ELSE IF s[i] \in T THEN Append(f[i - 1], s[i]) ELSE f[i - 1]]
            A == {n \in Nat : \E f : P(n, f)}
<1>1. 0 \in A
  <2>. DEFINE f == [i \in 0..0 |-> <<>>]
  <2>1. P(0, f)
    OBVIOUS
  <2>. QED
    BY <2>1
<1>2. ASSUME NEW n \in Nat, n \in A
      PROVE  n + 1 \in A
  <2>1. PICK f : P(n, f)
    BY <1>2
  <2>. DEFINE e == IF s[n + 1] \in T THEN Append(f[n], s[n + 1]) ELSE f[n]
              g == [i \in 0..(n + 1) |-> IF i = n + 1 THEN e ELSE f[i]]
  <2>2. \A i \in 0..n : f[i] = IF i = 0 THEN <<>>
        ELSE IF s[i] \in T THEN Append(f[i - 1], s[i]) ELSE f[i - 1]
    BY <2>1, Zenon
  <2>3. \A i \in 0..(n + 1) : g[i] = IF i = 0 THEN <<>>
        ELSE IF s[i] \in T THEN Append(g[i - 1], s[i]) ELSE g[i - 1]
    <3>. TAKE i \in 0..(n + 1)
    <3>1. CASE i = n + 1
      <4>1. g[i] = e /\ i # 0 /\ i - 1 = n /\ g[n] = f[n]
        BY <3>1
      <4>. QED
        BY <3>1, <4>1, Zenon
    <3>2. CASE i # n + 1
      <4>1. i \in 0..n /\ g[i] = f[i] /\ (i # 0 => g[i - 1] = f[i - 1])
        BY <3>2
      <4>. QED
        BY <2>2, <4>1, Zenon
    <3>. QED
      BY <3>1, <3>2
  <2>. HIDE DEF e
  <2>4. g = [i \in 0..(n + 1) |-> g[i]]
    OBVIOUS
  <2>. HIDE DEF g
  <2>5. P(n + 1, g)
    BY <2>3, <2>4, Zenon
  <2>. QED
    BY <2>5, SMTT(60)
<1>. HIDE DEF A
<1>3. Len(s) \in A
  BY <1>1, <1>2, SetInduction
<1>. QED
  BY <1>3 DEF A, RetainOf

\* Retain, unfolded: f[i] is what is kept of the first i elements.
LEMMA RetainIs ==
    ASSUME NEW S, NEW s \in Seq(S), NEW T
    PROVE  \E f : /\ Retain(s, T) = f[Len(s)] /\ f[0] = <<>>
                  /\ \A i \in 0..(Len(s) - 1) :
                        f[i + 1] = IF s[i + 1] \in T THEN Append(f[i], s[i + 1]) ELSE f[i]
<1>. DEFINE f == CHOOSE g : RetainOf(s, T, g)
<1>1. Len(s) \in Nat
  OBVIOUS
<1>2. RetainOf(s, T, f)
  BY <1>1, RetainExists, Zenon
<1>3. Retain(s, T) = f[Len(s)]
  BY Zenon DEF Retain, RetainOf
<1>. HIDE DEF f
<1>4. \A i \in 0..Len(s) : f[i] = IF i = 0 THEN <<>>
        ELSE IF s[i] \in T THEN Append(f[i - 1], s[i]) ELSE f[i - 1]
  BY <1>2, Zenon DEF RetainOf
<1>5. f[0] = <<>>
  BY <1>1, <1>4
<1>6. \A i \in 0..(Len(s) - 1) :
          f[i + 1] = IF s[i + 1] \in T THEN Append(f[i], s[i + 1]) ELSE f[i]
  <2>. TAKE i \in 0..(Len(s) - 1)
  <2>1. i + 1 \in 0..Len(s) /\ i + 1 # 0 /\ i + 1 - 1 = i
    BY <1>1
  <2>. DEFINE j == i + 1
  <2>2. j \in 0..Len(s) /\ j # 0 /\ j - 1 = i
    BY <2>1
  <2>. HIDE DEF j
  <2>3. f[j] = IF s[j] \in T THEN Append(f[j - 1], s[j]) ELSE f[j - 1]
    BY <1>4, <2>2, Zenon
  <2>. QED
    BY <2>2, <2>3, Zenon DEF j
<1>. QED
  BY <1>3, <1>5, <1>6, Zenon

Retains(s, T, f) ==
    /\ Retain(s, T) = f[Len(s)] /\ f[0] = <<>>
    /\ \A i \in 0..(Len(s) - 1) :
           f[i + 1] = IF s[i + 1] \in T THEN Append(f[i], s[i + 1]) ELSE f[i]

\* The same, as one predicate of f.
LEMMA RetainsSome ==
    ASSUME NEW S, NEW s \in Seq(S), NEW T
    PROVE  \E f : Retains(s, T, f)
<1>1. PICK f : /\ Retain(s, T) = f[Len(s)] /\ f[0] = <<>>
               /\ \A i \in 0..(Len(s) - 1) :
                     f[i + 1] = IF s[i + 1] \in T THEN Append(f[i], s[i + 1]) ELSE f[i]
  BY RetainIs
<1>. QED
  BY <1>1, Zenon DEF Retains

\* retain keeps nothing but elements of the sequence that are in T.
LEMMA RetainType ==
    ASSUME NEW S, NEW s \in Seq(S), NEW T
    PROVE  Retain(s, T) \in Seq({x \in S \cap T : \E i \in DOMAIN s : x = s[i]})
<1>. DEFINE U == {x \in S \cap T : \E i \in DOMAIN s : x = s[i]}
<1>1. PICK f : /\ Retain(s, T) = f[Len(s)] /\ f[0] = <<>>
               /\ \A i \in 0..(Len(s) - 1) :
                     f[i + 1] = IF s[i + 1] \in T THEN Append(f[i], s[i + 1]) ELSE f[i]
  BY RetainIs
<1>. DEFINE A == {i \in Nat : i <= Len(s) => f[i] \in Seq(U)}
<1>2. 0 \in A
  <2>. HIDE DEF U
  <2>1. f[0] \in Seq(U)
    BY <1>1
  <2>. QED
    BY <2>1
<1>3. ASSUME NEW i \in Nat, i \in A PROVE i + 1 \in A
  <2>. SUFFICES ASSUME i + 1 <= Len(s) PROVE f[i + 1] \in Seq(U)
    OBVIOUS
  <2>1. i + 1 \in 1..Len(s) /\ i + 1 \in DOMAIN s /\ s[i + 1] \in S
    OBVIOUS
  <2>2. f[i] \in Seq(U)
    BY <1>3, <2>1
  <2>3. f[i + 1] = IF s[i + 1] \in T THEN Append(f[i], s[i + 1]) ELSE f[i]
    BY <1>1, <2>1
  <2>4. s[i + 1] \in T => s[i + 1] \in U
    BY <2>1
  <2>. HIDE DEF U
  <2>. QED
    BY <2>2, <2>3, <2>4
<1>. HIDE DEF A
<1>4. Len(s) \in A
  BY <1>2, <1>3, SetInduction
<1>. QED
  BY <1>1, <1>4 DEF A

\* A last element that is kept stays the last.
LEMMA RetainLast ==
    ASSUME NEW S, NEW s \in Seq(S), NEW T, s # <<>>, Last(s) \in T
    PROVE  Retain(s, T) # <<>> /\ Last(Retain(s, T)) = Last(s)
<1>. DEFINE n == Len(s)  U == {x \in S \cap T : \E i \in DOMAIN s : x = s[i]}
<1>1. PICK f : /\ Retain(s, T) = f[Len(s)] /\ f[0] = <<>>
               /\ \A i \in 0..(Len(s) - 1) :
                     f[i + 1] = IF s[i + 1] \in T THEN Append(f[i], s[i + 1]) ELSE f[i]
  BY RetainIs
<1>2. n \in Nat \ {0} /\ n \in 1..Len(s) /\ s[n] \in T /\ Last(s) = s[n]
  BY DEF Last
<1>3. Retain(s, T) = Append(f[n - 1], s[n])
  <2>1. n - 1 \in 0..(Len(s) - 1) /\ n - 1 + 1 = n
    BY <1>2
  <2>2. f[n] = IF s[n] \in T THEN Append(f[n - 1], s[n]) ELSE f[n - 1]
    BY <1>1, <2>1
  <2>. QED
    BY <1>1, <1>2, <2>2, Zenon
<1>4. Retain(s, T) \in Seq(U)
  BY RetainType
<1>5. f[n - 1] \in Seq(U)
  <2>. DEFINE A == {i \in Nat : i <= n => f[i] \in Seq(U)}
  <2>2. 0 \in A
    <3>. HIDE DEF U
    <3>1. f[0] \in Seq(U)
      BY <1>1
    <3>. QED
      BY <3>1
  <2>3. ASSUME NEW i \in Nat, i \in A PROVE i + 1 \in A
    <3>. SUFFICES ASSUME i + 1 <= Len(s) PROVE f[i + 1] \in Seq(U)
      OBVIOUS
    <3>1. i + 1 \in 1..Len(s) /\ i + 1 \in DOMAIN s /\ s[i + 1] \in S
      OBVIOUS
    <3>2. f[i] \in Seq(U)
      BY <2>3, <3>1
    <3>3. f[i + 1] = IF s[i + 1] \in T THEN Append(f[i], s[i + 1]) ELSE f[i]
      BY <1>1, <3>1
    <3>4. s[i + 1] \in T => s[i + 1] \in U
      BY <3>1
    <3>. HIDE DEF U
    <3>. QED
      BY <3>2, <3>3, <3>4
  <2>. HIDE DEF A
  <2>4. n - 1 \in A
    BY <1>2, <2>2, <2>3, SetInduction
  <2>. QED
    BY <1>2, <2>4 DEF A
<1>. HIDE DEF n, U
<1>6. /\ Append(f[n - 1], s[n]) # <<>>
      /\ Append(f[n - 1], s[n])[Len(Append(f[n - 1], s[n]))] = s[n]
  BY <1>5
<1>. QED
  BY <1>2, <1>3, <1>6 DEF Last

\* retain leaves a sequence alone whose every element is in T.
LEMMA RetainAll ==
    ASSUME NEW S, NEW s \in Seq(S), NEW T, \A i \in DOMAIN s : s[i] \in T
    PROVE  Retain(s, T) = s
<1>1. PICK f : /\ Retain(s, T) = f[Len(s)] /\ f[0] = <<>>
               /\ \A i \in 0..(Len(s) - 1) :
                     f[i + 1] = IF s[i + 1] \in T THEN Append(f[i], s[i + 1]) ELSE f[i]
  BY RetainIs
<1>. DEFINE A == {i \in Nat : i <= Len(s) =>
                    f[i] \in Seq(S) /\ Len(f[i]) = i /\ \A j \in 1..i : f[i][j] = s[j]}
<1>2. 0 \in A
  <2>1. f[0] \in Seq(S) /\ Len(f[0]) = 0 /\ \A j \in 1..0 : f[0][j] = s[j]
    BY <1>1
  <2>. QED
    BY <2>1
<1>3. ASSUME NEW i \in Nat, i \in A PROVE i + 1 \in A
  <2>. SUFFICES ASSUME i + 1 <= Len(s)
                PROVE  /\ f[i + 1] \in Seq(S) /\ Len(f[i + 1]) = i + 1
                       /\ \A j \in 1..(i + 1) : f[i + 1][j] = s[j]
    OBVIOUS
  <2>1. i + 1 \in 1..Len(s) /\ i + 1 \in DOMAIN s /\ s[i + 1] \in S /\ s[i + 1] \in T
    OBVIOUS
  <2>2. f[i] \in Seq(S) /\ Len(f[i]) = i /\ \A j \in 1..i : f[i][j] = s[j]
    BY <1>3, <2>1
  <2>3. f[i + 1] = IF s[i + 1] \in T THEN Append(f[i], s[i + 1]) ELSE f[i]
    <3>1. i \in 0..(Len(s) - 1)
      BY <2>1
    <3>. QED
      BY <1>1, <3>1, Zenon
  <2>4. f[i + 1] = Append(f[i], s[i + 1])
    BY <2>1, <2>3
  <2>. QED
    BY <2>1, <2>2, <2>4
<1>4. Len(s) \in A
  <2>. HIDE DEF A
  <2>. QED
    BY <1>2, <1>3, SetInduction
<1>5. f[Len(s)] \in Seq(S) /\ Len(f[Len(s)]) = Len(s) /\ \A j \in 1..Len(s) : f[Len(s)][j] = s[j]
  BY <1>4
<1>6. f[Len(s)] = s
  BY <1>5
<1>. QED
  BY <1>1, <1>6

\* The first element, and the rest.
LEMMA RetainTail ==
    ASSUME NEW S, NEW s \in Seq(S), NEW T, s # <<>>
    PROVE  /\ Len(Retain(Tail(s), T)) \in Nat
           /\ Len(Retain(s, T)) = Len(Retain(Tail(s), T)) + IF Head(s) \in T THEN 1 ELSE 0
<1>1. PICK f : /\ Retain(s, T) = f[Len(s)] /\ f[0] = <<>>
               /\ \A i \in 0..(Len(s) - 1) :
                     f[i + 1] = IF s[i + 1] \in T THEN Append(f[i], s[i + 1]) ELSE f[i]
  BY RetainIs
<1>. DEFINE t == Tail(s)
            h == IF Head(s) \in T THEN 1 ELSE 0
<1>2. t \in Seq(S) /\ Len(t) = Len(s) - 1 /\ Len(t) \in Nat /\ \A i \in 1..Len(t) : t[i] = s[i + 1]
  OBVIOUS
<1>. HIDE DEF t
<1>3. PICK g : /\ Retain(t, T) = g[Len(t)] /\ g[0] = <<>>
               /\ \A i \in 0..(Len(t) - 1) :
                     g[i + 1] = IF t[i + 1] \in T THEN Append(g[i], t[i + 1]) ELSE g[i]
  BY <1>2, RetainIs
<1>. DEFINE A == {i \in Nat : i <= Len(t) =>
                    /\ g[i] \in Seq(S) /\ f[i + 1] \in Seq(S)
                    /\ Len(f[i + 1]) = Len(g[i]) + h}
<1>4. 0 \in A
  <2>1. 0 \in 0..(Len(s) - 1) /\ s[1] \in S /\ Head(s) = s[1] /\ 0 + 1 = 1
    OBVIOUS
  <2>2. f[0 + 1] = IF s[0 + 1] \in T THEN Append(f[0], s[0 + 1]) ELSE f[0]
    BY <1>1, <2>1, Zenon
  <2>3. f[0] \in Seq(S) /\ Len(f[0]) = 0 /\ g[0] \in Seq(S) /\ Len(g[0]) = 0
    BY <1>1, <1>3
  <2>4. f[1] = IF s[1] \in T THEN Append(f[0], s[1]) ELSE f[0]
    BY <2>1, <2>2, Zenon
  <2>5. f[1] \in Seq(S) /\ Len(f[1]) = h
    BY <2>1, <2>3, <2>4
  <2>6. Len(f[1]) = Len(g[0]) + h
    BY <2>3, <2>5
  <2>. HIDE DEF h
  <2>. QED
    BY <2>1, <2>3, <2>5, <2>6
<1>5. ASSUME NEW i \in Nat, i \in A PROVE i + 1 \in A
  <2>. HIDE DEF h
  <2>. SUFFICES ASSUME i + 1 <= Len(t)
                PROVE  /\ g[i + 1] \in Seq(S) /\ f[i + 1 + 1] \in Seq(S)
                       /\ Len(f[i + 1 + 1]) = Len(g[i + 1]) + h
    OBVIOUS
  <2>1. /\ i \in 0..(Len(t) - 1) /\ i + 1 \in 0..(Len(s) - 1) /\ i + 1 \in 1..Len(t)
        /\ i + 1 + 1 = i + 2 /\ t[i + 1] = s[i + 2] /\ s[i + 2] \in S
    <3>1. i + 1 \in 1..Len(t) /\ i + 2 \in 1..Len(s) /\ i + 1 + 1 = i + 2
      BY <1>2
    <3>2. t[i + 1] = s[i + 1 + 1] /\ s[i + 2] \in S
      BY <1>2, <3>1
    <3>. QED
      BY <1>2, <3>1, <3>2
  <2>2. g[i] \in Seq(S) /\ f[i + 1] \in Seq(S) /\ Len(f[i + 1]) = Len(g[i]) + h
    BY <1>5, <2>1
  <2>3. /\ g[i + 1] = IF t[i + 1] \in T THEN Append(g[i], t[i + 1]) ELSE g[i]
        /\ f[i + 2] = IF s[i + 2] \in T THEN Append(f[i + 1], s[i + 2]) ELSE f[i + 1]
    <3>1. f[i + 1 + 1] = IF s[i + 1 + 1] \in T THEN Append(f[i + 1], s[i + 1 + 1]) ELSE f[i + 1]
      BY <1>1, <2>1, Zenon
    <3>2. g[i + 1] = IF t[i + 1] \in T THEN Append(g[i], t[i + 1]) ELSE g[i]
      BY <1>3, <2>1, Zenon
    <3>. QED
      BY <2>1, <3>1, <3>2, Zenon
  <2>4. h \in Int
    BY DEF h
  <2>5. CASE s[i + 2] \in T
    <3>1. /\ g[i + 1] = Append(g[i], s[i + 2])
          /\ f[i + 2] = Append(f[i + 1], s[i + 2])
      BY <2>1, <2>3, <2>5, Zenon
    <3>2. Len(g[i]) \in Nat /\ Len(f[i + 1]) \in Nat
      BY <2>2
    <3>3. /\ g[i + 1] \in Seq(S) /\ f[i + 2] \in Seq(S)
          /\ Len(g[i + 1]) = Len(g[i]) + 1 /\ Len(f[i + 2]) = Len(f[i + 1]) + 1
      BY <2>1, <2>2, <3>1
    <3>4. Len(f[i + 2]) = Len(g[i + 1]) + h
      BY <2>2, <2>4, <3>2, <3>3
    <3>. QED
      BY <2>1, <3>3, <3>4, Zenon
  <2>6. CASE s[i + 2] \notin T
    <3>1. g[i + 1] = g[i] /\ f[i + 2] = f[i + 1]
      BY <2>1, <2>3, <2>6, Zenon
    <3>. QED
      BY <2>1, <2>2, <3>1, Zenon
  <2>. QED
    BY <2>5, <2>6, Zenon
<1>6. Len(t) \in A
  <2>. HIDE DEF A
  <2>. QED
    BY <1>2, <1>4, <1>5, SetInduction
<1>7. /\ g[Len(t)] \in Seq(S)
      /\ Len(f[Len(t) + 1]) = Len(g[Len(t)]) + h
  <2>. HIDE DEF h
  <2>. QED
    BY <1>2, <1>6
<1>8. Len(t) + 1 = Len(s) /\ Len(g[Len(t)]) \in Nat
  BY <1>2, <1>7
<1>. QED
  BY <1>1, <1>3, <1>7, <1>8, Zenon DEF t

\* One more element at the end.
LEMMA RetainAppend ==
    ASSUME NEW S, NEW s \in Seq(S), NEW x \in S, NEW T
    PROVE  /\ Len(Retain(s, T)) \in Nat
           /\ Len(Retain(Append(s, x), T)) = Len(Retain(s, T)) + IF x \in T THEN 1 ELSE 0
<1>1. PICK f : /\ Retain(s, T) = f[Len(s)] /\ f[0] = <<>>
               /\ \A i \in 0..(Len(s) - 1) :
                     f[i + 1] = IF s[i + 1] \in T THEN Append(f[i], s[i + 1]) ELSE f[i]
  BY RetainIs
<1>. DEFINE t == Append(s, x)
<1>2. t \in Seq(S) /\ Len(t) = Len(s) + 1 /\ Len(s) \in Nat /\ t[Len(s) + 1] = x
      /\ \A i \in 1..Len(s) : t[i] = s[i] /\ s[i] \in S
  OBVIOUS
<1>. HIDE DEF t
<1>3. PICK g : /\ Retain(t, T) = g[Len(t)] /\ g[0] = <<>>
               /\ \A i \in 0..(Len(t) - 1) :
                     g[i + 1] = IF t[i + 1] \in T THEN Append(g[i], t[i + 1]) ELSE g[i]
  <2>1. t \in Seq(S)
    BY <1>2
  <2>2. PICK g : Retains(t, T, g)
    BY <2>1, RetainsSome
  <2>. QED
    BY <2>2, Zenon DEF Retains
<1>. DEFINE A == {i \in Nat : i <= Len(s) => g[i] \in Seq(S) /\ f[i] = g[i]}
<1>4. 0 \in A
  <2>1. g[0] \in Seq(S) /\ f[0] = g[0]
    BY <1>1, <1>3
  <2>. QED
    BY <2>1
<1>5. ASSUME NEW i \in Nat, i \in A PROVE i + 1 \in A
  <2>. SUFFICES ASSUME i + 1 <= Len(s) PROVE g[i + 1] \in Seq(S) /\ f[i + 1] = g[i + 1]
    OBVIOUS
  <2>1. /\ i \in 0..(Len(t) - 1) /\ i \in 0..(Len(s) - 1)
        /\ i + 1 \in 1..Len(s) /\ t[i + 1] = s[i + 1] /\ s[i + 1] \in S
    BY <1>2
  <2>2. g[i] \in Seq(S) /\ f[i] = g[i]
    BY <1>5, <2>1
  <2>3. /\ g[i + 1] = IF t[i + 1] \in T THEN Append(g[i], t[i + 1]) ELSE g[i]
        /\ f[i + 1] = IF s[i + 1] \in T THEN Append(f[i], s[i + 1]) ELSE f[i]
    BY <1>1, <1>3, <2>1
  <2>. QED
    BY <2>1, <2>2, <2>3
<1>6. Len(s) \in A
  <2>. HIDE DEF A
  <2>. QED
    BY <1>2, <1>4, <1>5, SetInduction
<1>7. g[Len(s)] \in Seq(S) /\ Retain(s, T) = g[Len(s)]
  BY <1>1, <1>2, <1>6
<1>8. Len(s) \in 0..(Len(t) - 1)
  BY <1>2
<1>9. g[Len(t)] = IF x \in T THEN Append(g[Len(s)], x) ELSE g[Len(s)]
  <2>1. g[Len(s) + 1] = IF t[Len(s) + 1] \in T THEN Append(g[Len(s)], t[Len(s) + 1]) ELSE g[Len(s)]
    BY <1>3, <1>8, Zenon
  <2>. QED
    BY <1>2, <2>1, Zenon
<1>10. Len(g[Len(t)]) = Len(g[Len(s)]) + IF x \in T THEN 1 ELSE 0
  <2>. DEFINE r == g[Len(s)]
  <2>1. r \in Seq(S)
    BY <1>7
  <2>2. g[Len(t)] = IF x \in T THEN Append(r, x) ELSE r
    BY <1>9
  <2>. HIDE DEF r
  <2>3. CASE x \in T
    BY <2>1, <2>2, <2>3 DEF r
  <2>4. CASE x \notin T
    <3>1. g[Len(t)] = r /\ Len(r) + 0 = Len(r)
      BY <2>1, <2>2, <2>4
    <3>. QED
      BY <2>4, <3>1, Zenon DEF r
  <2>. QED
    BY <2>3, <2>4, Zenon
<1>. QED
  BY <1>3, <1>7, <1>10 DEF t

-----------------------------------------------------------------------------
(* The recursions of the model, unfolded.                                  *)

\* The predictor after i turns of cull's loop.
JudgingOf(p, fb, t, n, f) ==
    f = [i \in 0..n |->
            IF i = 0 THEN [p |-> p, stop |-> FALSE]
            ELSE JudgeCell(f[i - 1], <<(i - 1) \div fb.cols + 1, (i - 1) % fb.cols>>, fb, t)]

\* The recursion of cull's loop has a function that satisfies it.
LEMMA JudgingExists ==
    ASSUME NEW p, NEW fb, NEW t, NEW m \in Nat
    PROVE  \E f : JudgingOf(p, fb, t, m, f)
<1>. DEFINE A == {n \in Nat : \E f : JudgingOf(p, fb, t, n, f)}
<1>1. 0 \in A
  <2>. DEFINE f == [i \in 0..0 |-> [p |-> p, stop |-> FALSE]]
  <2>1. f = [i \in 0..0 |->
          IF i = 0 THEN [p |-> p, stop |-> FALSE]
          ELSE JudgeCell(f[i - 1], <<(i - 1) \div fb.cols + 1, (i - 1) % fb.cols>>, fb, t)]
    OBVIOUS
  <2>. HIDE DEF f
  <2>2. JudgingOf(p, fb, t, 0, f)
    BY <2>1, Zenon DEF JudgingOf
  <2>. QED
    BY <2>2
<1>2. ASSUME NEW n \in Nat, n \in A
      PROVE  n + 1 \in A
  <2>1. PICK f : JudgingOf(p, fb, t, n, f)
    BY <1>2
  <2>. DEFINE v(w) == JudgeCell(w, <<((n + 1) - 1) \div fb.cols + 1, ((n + 1) - 1) % fb.cols>>, fb, t)
              e == v(f[n])
              g == [i \in 0..(n + 1) |-> IF i = n + 1 THEN e ELSE f[i]]
  <2>2. \A i \in 0..n : f[i] =
          IF i = 0 THEN [p |-> p, stop |-> FALSE]
          ELSE JudgeCell(f[i - 1], <<(i - 1) \div fb.cols + 1, (i - 1) % fb.cols>>, fb, t)
    BY <2>1, Zenon DEF JudgingOf
  <2>3. \A i \in 0..(n + 1) : g[i] =
          IF i = 0 THEN [p |-> p, stop |-> FALSE]
          ELSE JudgeCell(g[i - 1], <<(i - 1) \div fb.cols + 1, (i - 1) % fb.cols>>, fb, t)
    <3>. TAKE i \in 0..(n + 1)
    <3>1. CASE i = n + 1
      <4>. HIDE DEF e
      <4>1. g[i] = e /\ i # 0 /\ i - 1 = n /\ g[n] = f[n]
        BY <3>1
      <4>. QED
        BY <3>1, <4>1, Zenon DEF e
    <3>2. CASE i # n + 1
      <4>. HIDE DEF e
      <4>1. i \in 0..n /\ g[i] = f[i] /\ (i # 0 => g[i - 1] = f[i - 1])
        BY <3>2
      <4>. HIDE DEF g
      <4>. QED
        BY <2>2, <4>1, Zenon
    <3>. QED
      BY <3>1, <3>2
  <2>. HIDE DEF e
  <2>4. g = [i \in 0..(n + 1) |-> g[i]]
    OBVIOUS
  <2>. HIDE DEF g
  <2>5. JudgingOf(p, fb, t, n + 1, g)
    BY <2>3, <2>4, Zenon DEF JudgingOf
  <2>. QED
    BY <2>5
<1>. HIDE DEF A
<1>3. m \in A
  BY <1>1, <1>2, SetInduction
<1>. QED
  BY <1>3 DEF A

\* JudgeCells, unfolded: f[i] is cull's loop after i cells.
LEMMA JudgingIs ==
    ASSUME NEW p, NEW fb, NEW t, (Len(p.overlays) * fb.cols) \in Nat
    PROVE  \E f : /\ JudgeCells(p, fb, t) = f[(Len(p.overlays) * fb.cols)]
                  /\ f[0] = [p |-> p, stop |-> FALSE]
                  /\ \A i \in 0..((Len(p.overlays) * fb.cols) - 1) :
                        f[i + 1] = JudgeCell(f[i], <<i \div fb.cols + 1, i % fb.cols>>, fb, t)
<1>. DEFINE n == (Len(p.overlays) * fb.cols)
            f == CHOOSE g : JudgingOf(p, fb, t, n, g)
<1>1. JudgingOf(p, fb, t, n, f)
  <2>1. \E g : JudgingOf(p, fb, t, n, g)
    BY JudgingExists
  <2>. QED
    BY <2>1, Zenon
<1>2. JudgeCells(p, fb, t) = f[n]
  BY Zenon DEF JudgeCells, JudgingOf
<1>. HIDE DEF f
<1>3. \A i \in 0..n : f[i] =
        IF i = 0 THEN [p |-> p, stop |-> FALSE]
        ELSE JudgeCell(f[i - 1], <<(i - 1) \div fb.cols + 1, (i - 1) % fb.cols>>, fb, t)
  BY <1>1, Zenon DEF JudgingOf
<1>4. f[0] = [p |-> p, stop |-> FALSE]
  <2>1. 0 \in 0..n
    OBVIOUS
  <2>. QED
    BY <1>3, <2>1, Zenon
<1>5. \A i \in 0..(n - 1) : f[i + 1] = JudgeCell(f[i], <<i \div fb.cols + 1, i % fb.cols>>, fb, t)
  <2>. TAKE i \in 0..(n - 1)
  <2>. DEFINE j == i + 1
  <2>1. j \in 0..n /\ j # 0 /\ j - 1 = i
    OBVIOUS
  <2>. HIDE DEF j
  <2>2. f[j] = JudgeCell(f[j - 1], <<(j - 1) \div fb.cols + 1, (j - 1) % fb.cols>>, fb, t)
    BY <1>3, <2>1, Zenon
  <2>. QED
    BY <2>1, <2>2, Zenon DEF j
<1>. QED
  BY <1>2, <1>4, <1>5, Zenon

\* The predictor after i keys of a message.
FeedingOf(p, keys, basis, n, f) ==
    f = [i \in 0..n |-> IF i = 0 THEN p ELSE new_user_byte(f[i - 1], keys[i], basis, now)]

\* The recursion of feed_predict's loop has a function that satisfies it.
LEMMA FeedingExists ==
    ASSUME NEW p, NEW keys, NEW basis, NEW m \in Nat
    PROVE  \E f : FeedingOf(p, keys, basis, m, f)
<1>. DEFINE A == {n \in Nat : \E f : FeedingOf(p, keys, basis, n, f)}
<1>1. 0 \in A
  <2>. DEFINE f == [i \in 0..0 |-> p]
  <2>1. f = [i \in 0..0 |-> IF i = 0 THEN p ELSE new_user_byte(f[i - 1], keys[i], basis, now)]
    OBVIOUS
  <2>. HIDE DEF f
  <2>2. FeedingOf(p, keys, basis, 0, f)
    BY <2>1, Zenon DEF FeedingOf
  <2>. QED
    BY <2>2
<1>2. ASSUME NEW n \in Nat, n \in A
      PROVE  n + 1 \in A
  <2>1. PICK f : FeedingOf(p, keys, basis, n, f)
    BY <1>2
  <2>. DEFINE v(w) == new_user_byte(w, keys[(n + 1)], basis, now)
              e == v(f[n])
              g == [i \in 0..(n + 1) |-> IF i = n + 1 THEN e ELSE f[i]]
  <2>2. \A i \in 0..n : f[i] = IF i = 0 THEN p ELSE new_user_byte(f[i - 1], keys[i], basis, now)
    BY <2>1, Zenon DEF FeedingOf
  <2>3. \A i \in 0..(n + 1) : g[i] =
          IF i = 0 THEN p ELSE new_user_byte(g[i - 1], keys[i], basis, now)
    <3>. TAKE i \in 0..(n + 1)
    <3>1. CASE i = n + 1
      <4>. HIDE DEF e
      <4>1. g[i] = e /\ i # 0 /\ i - 1 = n /\ g[n] = f[n]
        BY <3>1
      <4>. QED
        BY <3>1, <4>1, Zenon DEF e
    <3>2. CASE i # n + 1
      <4>. HIDE DEF e
      <4>1. i \in 0..n /\ g[i] = f[i] /\ (i # 0 => g[i - 1] = f[i - 1])
        BY <3>2
      <4>. HIDE DEF g
      <4>. QED
        BY <2>2, <4>1, Zenon
    <3>. QED
      BY <3>1, <3>2
  <2>. HIDE DEF e
  <2>4. g = [i \in 0..(n + 1) |-> g[i]]
    OBVIOUS
  <2>. HIDE DEF g
  <2>5. FeedingOf(p, keys, basis, n + 1, g)
    BY <2>3, <2>4, Zenon DEF FeedingOf
  <2>. QED
    BY <2>5
<1>. HIDE DEF A
<1>3. m \in A
  BY <1>1, <1>2, SetInduction
<1>. QED
  BY <1>3 DEF A

\* Fed, unfolded: f[i] is the predictor after i bytes.
LEMMA FeedingIs ==
    ASSUME NEW p, NEW keys, NEW basis, Len(keys) \in Nat
    PROVE  \E f : /\ Fed(p, keys, basis) = f[Len(keys)] /\ f[0] = p
                  /\ \A i \in 0..(Len(keys) - 1) :
                        f[i + 1] = new_user_byte(f[i], keys[i + 1], basis, now)
<1>. DEFINE n == Len(keys)
            f == CHOOSE g : FeedingOf(p, keys, basis, n, g)
<1>1. FeedingOf(p, keys, basis, n, f)
  <2>1. \E g : FeedingOf(p, keys, basis, n, g)
    BY FeedingExists
  <2>. QED
    BY <2>1, Zenon
<1>2. Fed(p, keys, basis) = f[n]
  BY Zenon DEF Fed, FeedingOf
<1>. HIDE DEF f
<1>3. \A i \in 0..n : f[i] = IF i = 0 THEN p ELSE new_user_byte(f[i - 1], keys[i], basis, now)
  BY <1>1, Zenon DEF FeedingOf
<1>4. f[0] = p
  <2>1. 0 \in 0..n
    OBVIOUS
  <2>. QED
    BY <1>3, <2>1, Zenon
<1>5. \A i \in 0..(n - 1) : f[i + 1] = new_user_byte(f[i], keys[i + 1], basis, now)
  <2>. TAKE i \in 0..(n - 1)
  <2>. DEFINE j == i + 1
  <2>1. j \in 0..n /\ j # 0 /\ j - 1 = i
    OBVIOUS
  <2>. HIDE DEF j
  <2>2. f[j] = new_user_byte(f[j - 1], keys[j], basis, now)
    BY <1>3, <2>1, Zenon
  <2>. QED
    BY <2>1, <2>2, Zenon DEF j
<1>. QED
  BY <1>2, <1>4, <1>5, Zenon

\* The terminal after i keys of a message.
ReadingOf(t, keys, prompt, n, f) ==
    f = [i \in 0..n |-> IF i = 0 THEN t ELSE ReadKey(f[i - 1], keys[i], prompt)]

\* The recursion of ReadKeys has a function that satisfies it.
LEMMA ReadingExists ==
    ASSUME NEW t, NEW keys, NEW prompt, NEW m \in Nat
    PROVE  \E f : ReadingOf(t, keys, prompt, m, f)
<1>. DEFINE A == {n \in Nat : \E f : ReadingOf(t, keys, prompt, n, f)}
<1>1. 0 \in A
  <2>. DEFINE f == [i \in 0..0 |-> t]
  <2>1. f = [i \in 0..0 |-> IF i = 0 THEN t ELSE ReadKey(f[i - 1], keys[i], prompt)]
    OBVIOUS
  <2>. HIDE DEF f
  <2>2. ReadingOf(t, keys, prompt, 0, f)
    BY <2>1, Zenon DEF ReadingOf
  <2>. QED
    BY <2>2
<1>2. ASSUME NEW n \in Nat, n \in A
      PROVE  n + 1 \in A
  <2>1. PICK f : ReadingOf(t, keys, prompt, n, f)
    BY <1>2
  <2>. DEFINE v(w) == ReadKey(w, keys[(n + 1)], prompt)
              e == v(f[n])
              g == [i \in 0..(n + 1) |-> IF i = n + 1 THEN e ELSE f[i]]
  <2>2. \A i \in 0..n : f[i] = IF i = 0 THEN t ELSE ReadKey(f[i - 1], keys[i], prompt)
    BY <2>1, Zenon DEF ReadingOf
  <2>3. \A i \in 0..(n + 1) : g[i] = IF i = 0 THEN t ELSE ReadKey(g[i - 1], keys[i], prompt)
    <3>. TAKE i \in 0..(n + 1)
    <3>1. CASE i = n + 1
      <4>. HIDE DEF e
      <4>1. g[i] = e /\ i # 0 /\ i - 1 = n /\ g[n] = f[n]
        BY <3>1
      <4>. QED
        BY <3>1, <4>1, Zenon DEF e
    <3>2. CASE i # n + 1
      <4>. HIDE DEF e
      <4>1. i \in 0..n /\ g[i] = f[i] /\ (i # 0 => g[i - 1] = f[i - 1])
        BY <3>2
      <4>. HIDE DEF g
      <4>. QED
        BY <2>2, <4>1, Zenon
    <3>. QED
      BY <3>1, <3>2
  <2>. HIDE DEF e
  <2>4. g = [i \in 0..(n + 1) |-> g[i]]
    OBVIOUS
  <2>. HIDE DEF g
  <2>5. ReadingOf(t, keys, prompt, n + 1, g)
    BY <2>3, <2>4, Zenon DEF ReadingOf
  <2>. QED
    BY <2>5
<1>. HIDE DEF A
<1>3. m \in A
  BY <1>1, <1>2, SetInduction
<1>. QED
  BY <1>3 DEF A

\* ReadKeys, unfolded: f[i] is the terminal after i keys.
LEMMA ReadingIs ==
    ASSUME NEW t, NEW keys, NEW prompt, Len(keys) \in Nat
    PROVE  \E f : /\ ReadKeys(t, keys, prompt) = f[Len(keys)] /\ f[0] = t
                  /\ \A i \in 0..(Len(keys) - 1) :
                        f[i + 1] = ReadKey(f[i], keys[i + 1], prompt)
<1>. DEFINE n == Len(keys)
            f == CHOOSE g : ReadingOf(t, keys, prompt, n, g)
<1>1. ReadingOf(t, keys, prompt, n, f)
  <2>1. \E g : ReadingOf(t, keys, prompt, n, g)
    BY ReadingExists
  <2>. QED
    BY <2>1, Zenon
<1>2. ReadKeys(t, keys, prompt) = f[n]
  BY Zenon DEF ReadKeys, ReadingOf
<1>. HIDE DEF f
<1>3. \A i \in 0..n : f[i] = IF i = 0 THEN t ELSE ReadKey(f[i - 1], keys[i], prompt)
  BY <1>1, Zenon DEF ReadingOf
<1>4. f[0] = t
  <2>1. 0 \in 0..n
    OBVIOUS
  <2>. QED
    BY <1>3, <2>1, Zenon
<1>5. \A i \in 0..(n - 1) : f[i + 1] = ReadKey(f[i], keys[i + 1], prompt)
  <2>. TAKE i \in 0..(n - 1)
  <2>. DEFINE j == i + 1
  <2>1. j \in 0..n /\ j # 0 /\ j - 1 = i
    OBVIOUS
  <2>. HIDE DEF j
  <2>2. f[j] = ReadKey(f[j - 1], keys[j], prompt)
    BY <1>3, <2>1, Zenon
  <2>. QED
    BY <2>1, <2>2, Zenon DEF j
<1>. QED
  BY <1>2, <1>4, <1>5, Zenon

Reads(t, keys, prompt, f) ==
    /\ ReadKeys(t, keys, prompt) = f[Len(keys)] /\ f[0] = t
    /\ \A i \in 0..(Len(keys) - 1) : f[i + 1] = ReadKey(f[i], keys[i + 1], prompt)

\* The same, as one predicate of f.
LEMMA ReadsSome ==
    ASSUME NEW t, NEW keys, NEW prompt, Len(keys) \in Nat
    PROVE  \E f : Reads(t, keys, prompt, f)
<1>1. PICK f : /\ ReadKeys(t, keys, prompt) = f[Len(keys)] /\ f[0] = t
               /\ \A i \in 0..(Len(keys) - 1) :
                     f[i + 1] = ReadKey(f[i], keys[i + 1], prompt)
  BY ReadingIs
<1>. QED
  BY <1>1, Zenon DEF Reads

-----------------------------------------------------------------------------
(* What a predictor is, for a frame of R rows and C columns.               *)

Prefs == {"Never", "Adaptive", "Always"}
CellOf == [active : BOOLEAN, exp : Nat, epoch : Nat, time : Nat,
           unknown : BOOLEAN, text : Glyphs, orig : SUBSET Glyphs]
LineOf(R, C) == [row : 0..(R - 1), cells : [0..(C - 1) -> CellOf]]
CursorOf(R, C) == [exp : Nat, epoch : Nat, row : 0..(R - 1), col : 0..(C - 1)]
PredOf(R, C) ==
    [overlays : Seq(LineOf(R, C)), cursors : Seq(CursorOf(R, C)), sent : Nat,
     late : Nat, epoch : Nat, confirmed : Nat, srtt : BOOLEAN, glitch : Nat,
     quick : Nat, interval : Nat, size : Nat \X Nat, pref : Prefs,
     overwrite : BOOLEAN]

\* The row of an overlay line, and its cells.
Row(p, i) == p.overlays[i].row
Cell(p, i, k) == p.overlays[i].cells[k]
Live(p, i, k) ==
    /\ i \in DOMAIN p.overlays /\ k \in DOMAIN p.overlays[i].cells
    /\ Cell(p, i, k).active

\* One overlay line for a row.
Unique(p) == \A i, j \in DOMAIN p.overlays : Row(p, i) = Row(p, j) => i = j

\* A cell is a guess or nothing.
Clean(p) == \A i \in DOMAIN p.overlays : \A k \in DOMAIN p.overlays[i].cells :
                Live(p, i, k) \/ Cell(p, i, k) = Inactive

\* A guess comes from a message after s and up to m, of no later epoch.
Dated(p, s, m) ==
    /\ \A i, k : Live(p, i, k) =>
           /\ s < Cell(p, i, k).exp /\ Cell(p, i, k).exp <= m
           /\ Cell(p, i, k).exp <= p.sent + 1 /\ Cell(p, i, k).epoch <= p.epoch
           /\ Cell(p, i, k).unknown => Cell(p, i, k).text = Blank
    /\ \A j \in DOMAIN p.cursors : /\ s < p.cursors[j].exp /\ p.cursors[j].exp <= p.sent + 1
                                   /\ p.cursors[j].epoch <= p.epoch
    /\ p.confirmed <= p.epoch

\* Guesses of a later epoch come from no earlier message.
Ordered(p) ==
    \A i, k, j, l : (Live(p, i, k) /\ Live(p, j, l)
                     /\ Cell(p, i, k).epoch < Cell(p, j, l).epoch) =>
        Cell(p, i, k).exp <= Cell(p, j, l).exp

\* The last cursor is as young as any guess, and in no row above it.
Led(p) ==
    \A i, k : Live(p, i, k) =>
        /\ p.cursors # <<>> /\ Cell(p, i, k).exp <= Last(p.cursors).exp
        /\ Row(p, i) <= Last(p.cursors).row

\* No guess waits that a screen of the echo checkpoint could have judged.
Judged(p) ==
    /\ \A i, k : Live(p, i, k) => p.late < Cell(p, i, k).exp
    /\ \A j \in DOMAIN p.cursors : p.late < p.cursors[j].exp

Core(p, R, C, s, m) ==
    p \in PredOf(R, C) /\ Unique(p) /\ Clean(p) /\ Dated(p, s, m) /\ Ordered(p)
Sound(p, R, C, s, m) == Core(p, R, C, s, m) /\ Led(p) /\ Judged(p)

\* The size of a frame, and the messages guesses come from.
Dims(R, C, s, m) == R \in Nat /\ C \in Nat /\ s \in Nat /\ m \in Nat

\* A frame a guess about may be taken from.
Fits(fb, R, C) == fb \in Frames(R, C)

\* The size, the cursor and the glyphs of a frame.
LEMMA FrameType ==
    ASSUME NEW R \in Nat, NEW C \in Nat, NEW fb, Fits(fb, R, C)
    PROVE  /\ fb.rows = R /\ fb.cols = C /\ fb.row \in 0..(R - 1) /\ fb.col \in 0..(C - 1)
           /\ R # 0 /\ C # 0 /\ Columns(fb) = 0..(C - 1) /\ RowNumbers(fb) = 0..(R - 1)
           /\ \A r \in 0..(R - 1), k \in 0..(C - 1) : fb.cell[r][k] \in Glyphs
BY DEF Fits, Frames, Columns, RowNumbers

\* The fields of a predictor.
LEMMA PredType ==
    ASSUME NEW R \in Nat, NEW C \in Nat, NEW p \in PredOf(R, C)
    PROVE  /\ p.overlays \in Seq(LineOf(R, C)) /\ p.cursors \in Seq(CursorOf(R, C))
           /\ p.sent \in Nat /\ p.late \in Nat /\ p.epoch \in Nat /\ p.confirmed \in Nat
           /\ p.srtt \in BOOLEAN /\ p.glitch \in Nat /\ p.quick \in Nat
           /\ p.interval \in Nat /\ p.size \in Nat \X Nat /\ p.pref \in Prefs
           /\ p.overwrite \in BOOLEAN
BY DEF PredOf

\* A line of the overlays: its row, and one cell for each column.
LEMMA LineType ==
    ASSUME NEW R \in Nat, NEW C \in Nat, NEW p \in PredOf(R, C),
           NEW i \in DOMAIN p.overlays
    PROVE  /\ p.overlays[i] \in LineOf(R, C) /\ Row(p, i) \in 0..(R - 1)
           /\ DOMAIN p.overlays[i].cells = 0..(C - 1)
           /\ p.overlays[i].cells \in [0..(C - 1) -> CellOf]
           /\ i \in 1..Len(p.overlays) /\ Len(p.overlays) \in Nat
<1>1. p.overlays \in Seq(LineOf(R, C))
  BY PredType
<1>2. p.overlays[i] \in LineOf(R, C) /\ i \in 1..Len(p.overlays) /\ Len(p.overlays) \in Nat
  BY <1>1
<1>. QED
  BY <1>2 DEF LineOf, Row

\* A live cell, and where it is.
LEMMA CellType ==
    ASSUME NEW R \in Nat, NEW C \in Nat, NEW p \in PredOf(R, C),
           NEW i, NEW k, Live(p, i, k)
    PROVE  /\ i \in DOMAIN p.overlays /\ i \in Nat /\ k \in 0..(C - 1) /\ Row(p, i) \in 0..(R - 1)
           /\ Cell(p, i, k) \in CellOf /\ Cell(p, i, k).active
           /\ Cell(p, i, k).exp \in Nat /\ Cell(p, i, k).epoch \in Nat
           /\ Cell(p, i, k).text \in Glyphs
<1>1. i \in DOMAIN p.overlays /\ k \in DOMAIN p.overlays[i].cells /\ Cell(p, i, k).active
  BY DEF Live
<1>2. /\ Row(p, i) \in 0..(R - 1) /\ DOMAIN p.overlays[i].cells = 0..(C - 1)
      /\ p.overlays[i].cells \in [0..(C - 1) -> CellOf] /\ i \in 1..Len(p.overlays)
      /\ Len(p.overlays) \in Nat
  BY <1>1, LineType
<1>3. Cell(p, i, k) \in CellOf
  BY <1>1, <1>2 DEF Cell
<1>4. /\ Cell(p, i, k).exp \in Nat /\ Cell(p, i, k).epoch \in Nat
      /\ Cell(p, i, k).text \in Glyphs
  BY <1>3 DEF CellOf
<1>. QED
  BY <1>1, <1>2, <1>3, <1>4

\* The cursors, and the last of them.
LEMMA CursorType ==
    ASSUME NEW R \in Nat, NEW C \in Nat, NEW p \in PredOf(R, C)
    PROVE  /\ \A j \in DOMAIN p.cursors :
                  /\ p.cursors[j] \in CursorOf(R, C) /\ p.cursors[j].exp \in Nat
                  /\ p.cursors[j].epoch \in Nat /\ p.cursors[j].row \in 0..(R - 1)
                  /\ p.cursors[j].col \in 0..(C - 1) /\ j \in Nat
           /\ DOMAIN p.cursors = 1..Len(p.cursors) /\ Len(p.cursors) \in Nat
           /\ p.cursors # <<>> =>
                  /\ Len(p.cursors) \in DOMAIN p.cursors
                  /\ Last(p.cursors) = p.cursors[Len(p.cursors)]
                  /\ Last(p.cursors) \in CursorOf(R, C)
                  /\ Last(p.cursors).exp \in Nat /\ Last(p.cursors).epoch \in Nat
                  /\ Last(p.cursors).row \in 0..(R - 1) /\ Last(p.cursors).row \in Nat
                  /\ Last(p.cursors).col \in 0..(C - 1) /\ Last(p.cursors).col \in Nat
<1>1. p.cursors \in Seq(CursorOf(R, C))
  BY PredType
<1>2. \A j \in DOMAIN p.cursors : p.cursors[j] \in CursorOf(R, C) /\ j \in Nat
  BY <1>1
<1>3. DOMAIN p.cursors = 1..Len(p.cursors) /\ Len(p.cursors) \in Nat
  BY <1>1
<1>4. p.cursors # <<>> => Len(p.cursors) \in DOMAIN p.cursors
  BY <1>1
<1>5. \A j \in DOMAIN p.cursors :
          /\ p.cursors[j].exp \in Nat
          /\ p.cursors[j].epoch \in Nat /\ p.cursors[j].row \in 0..(R - 1)
          /\ p.cursors[j].col \in 0..(C - 1)
  BY <1>2 DEF CursorOf
<1>6. ASSUME p.cursors # <<>>
      PROVE  /\ Last(p.cursors) = p.cursors[Len(p.cursors)]
             /\ p.cursors[Len(p.cursors)].row \in Nat /\ p.cursors[Len(p.cursors)].col \in Nat
  BY <1>4, <1>5, <1>6 DEF Last
<1>. QED
  BY <1>2, <1>3, <1>4, <1>5, <1>6

-----------------------------------------------------------------------------
(* What keeps a password off the display.                                  *)

Secretive(p, i, k) == Live(p, i, k) /\ Cell(p, i, k).text = Secret
Plain(p, i, k) == Live(p, i, k) /\ Cell(p, i, k).text \notin {Blank, Secret}

\* A password character is guessed left of it, and is judged no later.
Witness(p, i, k) ==
    /\ ~p.overwrite
    /\ \E j : /\ Secretive(p, i, j) /\ j < k
              /\ Cell(p, i, j).epoch = Cell(p, i, k).epoch
              /\ Cell(p, i, j).exp <= Cell(p, i, k).exp

\* The epoch of a password character cannot become confident: what could
\* confirm it has such a character left of it, which no screen confirms.
Masked(p) ==
    /\ \A i, k, j, l :
           (Plain(p, i, k) /\ Secretive(p, j, l)
            /\ Cell(p, i, k).epoch = Cell(p, j, l).epoch) => Witness(p, i, k)
    /\ \A i, k : Secretive(p, i, k) => p.confirmed < Cell(p, i, k).epoch
    /\ \A i, k : Live(p, i, k) => Cell(p, i, k).text # Linked

\* While a password is typed: nothing can make the current epoch confident.
Silent(p) ==
    /\ p.confirmed < p.epoch
    /\ \A i, k : (Plain(p, i, k) /\ Cell(p, i, k).epoch = p.epoch) => Witness(p, i, k)

\* While another line is typed: the passwords are of earlier epochs, above.
Open(p) ==
    \A i, k : Secretive(p, i, k) => /\ Cell(p, i, k).epoch < p.epoch
                                    /\ Row(p, i) < Last(p.cursors).row

Hide(p, odd) == Masked(p) /\ (odd => Silent(p)) /\ (~odd => Open(p))
-----------------------------------------------------------------------------
(* Steps that leave the guesses alone.                                     *)

Kept(p, q) ==
    /\ q.sent = p.sent /\ q.late = p.late /\ q.interval = p.interval
    /\ q.pref = p.pref /\ q.overwrite = p.overwrite /\ q.size = p.size

Same(p, q) ==
    /\ \A i, k : Live(q, i, k) <=> Live(p, i, k)
    /\ \A i, k : Live(p, i, k) => Cell(q, i, k) = Cell(p, i, k) /\ Row(q, i) = Row(p, i)

\* The last cursor does not go back.
Leads(p, q) ==
    p.cursors # <<>> => /\ q.cursors # <<>>
                        /\ Last(p.cursors).exp <= Last(q.cursors).exp
                        /\ Last(p.cursors).row <= Last(q.cursors).row

\* Cursors that wait to be judged.
Waits(q, s) ==
    \A j \in DOMAIN q.cursors : /\ s < q.cursors[j].exp /\ q.late < q.cursors[j].exp
                                /\ q.cursors[j].exp <= q.sent + 1
                                /\ q.cursors[j].epoch <= q.epoch

Follows(p, q, R, C, s) ==
    /\ q \in PredOf(R, C) /\ Kept(p, q) /\ q.confirmed = p.confirmed
    /\ Unique(q) /\ Clean(q) /\ p.epoch <= q.epoch
    /\ Waits(q, s) /\ Leads(p, q)

\* A step that keeps the guesses, and whose cursors wait, keeps the predictor
\* sound.
LEMMA SameSound ==
    ASSUME NEW R, NEW C, NEW s, NEW m, Dims(R, C, s, m), NEW p, NEW q,
           Sound(p, R, C, s, m), Follows(p, q, R, C, s), Same(p, q)
    PROVE  Sound(q, R, C, s, m)
<1>. R \in Nat /\ C \in Nat /\ s \in Nat /\ m \in Nat
  BY DEF Dims
<1>1. p \in PredOf(R, C) /\ q \in PredOf(R, C)
  BY DEF Sound, Core, Follows
<1>2. /\ p.epoch \in Nat /\ q.epoch \in Nat /\ p.sent \in Nat /\ q.sent = p.sent
      /\ q.late = p.late /\ q.confirmed = p.confirmed /\ p.confirmed \in Nat
      /\ p.epoch <= q.epoch
  BY <1>1, PredType DEF Follows, Kept
<1>3. ASSUME NEW i, NEW k, Live(q, i, k)
      PROVE  /\ Live(p, i, k) /\ Cell(q, i, k) = Cell(p, i, k) /\ Row(q, i) = Row(p, i)
             /\ Cell(p, i, k).exp \in Nat /\ Cell(p, i, k).epoch \in Nat
             /\ Row(p, i) \in Nat
  <2>1. Live(p, i, k) /\ Cell(q, i, k) = Cell(p, i, k) /\ Row(q, i) = Row(p, i)
    BY <1>3, Zenon DEF Same
  <2>. QED
    BY <1>1, <2>1, CellType
<1>4. Dated(q, s, m)
  <2>1. \A i, k : Live(q, i, k) =>
           /\ s < Cell(q, i, k).exp /\ Cell(q, i, k).exp <= m
           /\ Cell(q, i, k).exp <= q.sent + 1 /\ Cell(q, i, k).epoch <= q.epoch
           /\ Cell(q, i, k).unknown => Cell(q, i, k).text = Blank
    <3>. SUFFICES ASSUME NEW i, NEW k, Live(q, i, k)
                  PROVE  /\ s < Cell(q, i, k).exp /\ Cell(q, i, k).exp <= m
                         /\ Cell(q, i, k).exp <= q.sent + 1 /\ Cell(q, i, k).epoch <= q.epoch
                         /\ Cell(q, i, k).unknown => Cell(q, i, k).text = Blank
      BY Zenon
    <3>1. /\ s < Cell(p, i, k).exp /\ Cell(p, i, k).exp <= m
          /\ Cell(p, i, k).exp <= p.sent + 1 /\ Cell(p, i, k).epoch <= p.epoch
          /\ Cell(p, i, k).unknown => Cell(p, i, k).text = Blank
      BY <1>3, Zenon DEF Sound, Core, Dated
    <3>. QED
      BY <1>2, <1>3, <3>1
  <2>2. \A j \in DOMAIN q.cursors : /\ s < q.cursors[j].exp /\ q.cursors[j].exp <= q.sent + 1
                                   /\ q.cursors[j].epoch <= q.epoch
    BY Zenon DEF Follows, Waits
  <2>3. p.confirmed <= p.epoch
    BY DEF Sound, Core, Dated
  <2>4. q.confirmed <= q.epoch
    BY <1>2, <2>3
  <2>. QED
    BY <2>1, <2>2, <2>4, Zenon DEF Dated
<1>5. Ordered(q)
  <2>1. Ordered(p)
    BY DEF Sound, Core
  <2>. SUFFICES ASSUME NEW i, NEW k, NEW j, NEW l, Live(q, i, k), Live(q, j, l),
                       Cell(q, i, k).epoch < Cell(q, j, l).epoch
                PROVE  Cell(q, i, k).exp <= Cell(q, j, l).exp
    BY Zenon DEF Ordered
  <2>2. /\ Live(p, i, k) /\ Cell(q, i, k) = Cell(p, i, k)
        /\ Live(p, j, l) /\ Cell(q, j, l) = Cell(p, j, l)
    BY <1>3
  <2>. QED
    BY <2>1, <2>2, Zenon DEF Ordered
<1>6. Led(q)
  <2>. SUFFICES ASSUME NEW i, NEW k, Live(q, i, k)
                PROVE  /\ q.cursors # <<>> /\ Cell(q, i, k).exp <= Last(q.cursors).exp
                       /\ Row(q, i) <= Last(q.cursors).row
    BY Zenon DEF Led
  <2>1. /\ p.cursors # <<>> /\ Cell(p, i, k).exp <= Last(p.cursors).exp
        /\ Row(p, i) <= Last(p.cursors).row
    BY <1>3, Zenon DEF Sound, Led
  <2>2. /\ q.cursors # <<>>
        /\ Last(p.cursors).exp <= Last(q.cursors).exp
        /\ Last(p.cursors).row <= Last(q.cursors).row
    BY <2>1, Zenon DEF Follows, Leads
  <2>3. /\ Last(p.cursors).exp \in Nat /\ Last(q.cursors).exp \in Nat
        /\ Last(p.cursors).row \in Nat /\ Last(q.cursors).row \in Nat
    BY <1>1, <2>1, <2>2, CursorType
  <2>. QED
    BY <1>3, <2>1, <2>2, <2>3
<1>7. Judged(q)
  <2>1. \A i, k : Live(q, i, k) => q.late < Cell(q, i, k).exp
    <3>. TAKE i, k
    <3>. HAVE Live(q, i, k)
    <3>1. p.late < Cell(p, i, k).exp
      BY <1>3, Zenon DEF Sound, Judged
    <3>. QED
      BY <1>2, <1>3, <3>1
  <2>. QED
    BY <2>1, Zenon DEF Judged, Follows, Waits
<1>. QED
  BY <1>1, <1>4, <1>5, <1>6, <1>7, Zenon DEF Sound, Core, Follows

\* The same guesses have the same witnesses.
LEMMA SameWitness ==
    ASSUME NEW p, NEW q, Same(p, q), q.overwrite = p.overwrite, NEW i, NEW k
    PROVE  /\ Secretive(q, i, k) <=> Secretive(p, i, k)
           /\ Plain(q, i, k) <=> Plain(p, i, k)
           /\ (Live(p, i, k) /\ Witness(p, i, k)) => Witness(q, i, k)
<1>1. \A j : /\ Secretive(q, i, j) <=> Secretive(p, i, j)
             /\ Live(q, i, j) <=> Live(p, i, j)
             /\ Live(p, i, j) => Cell(q, i, j) = Cell(p, i, j)
  BY Zenon DEF Same, Secretive
<1>2. Plain(q, i, k) <=> Plain(p, i, k)
  BY <1>1, Zenon DEF Plain
<1>3. ASSUME Live(p, i, k), Witness(p, i, k) PROVE Witness(q, i, k)
  <2>1. PICK j : /\ Secretive(p, i, j) /\ j < k
                 /\ Cell(p, i, j).epoch = Cell(p, i, k).epoch
                 /\ Cell(p, i, j).exp <= Cell(p, i, k).exp
    BY <1>3, Zenon DEF Witness
  <2>2. Cell(q, i, j) = Cell(p, i, j) /\ Cell(q, i, k) = Cell(p, i, k) /\ Secretive(q, i, j)
    BY <1>1, <1>3, <2>1, Zenon DEF Secretive
  <2>. QED
    BY <1>3, <2>1, <2>2, Zenon DEF Witness
<1>. QED
  BY <1>1, <1>2, <1>3, Zenon

\* A step that keeps the guesses keeps the passwords hidden.
LEMMA SameHide ==
    ASSUME NEW R, NEW C, NEW s, NEW m, Dims(R, C, s, m), NEW p, NEW q,
           Sound(p, R, C, s, m), Follows(p, q, R, C, s), Same(p, q),
           NEW odd, Hide(p, odd)
    PROVE  Hide(q, odd)
<1>. R \in Nat /\ C \in Nat /\ s \in Nat /\ m \in Nat
  BY DEF Dims
<1>1. /\ p \in PredOf(R, C) /\ q \in PredOf(R, C) /\ q.overwrite = p.overwrite
      /\ q.confirmed = p.confirmed
  BY DEF Sound, Core, Follows, Kept
<1>2. /\ p.epoch \in Nat /\ q.epoch \in Nat /\ p.confirmed \in Nat /\ p.epoch <= q.epoch
  BY <1>1, PredType DEF Follows
<1>3. \A i, k : /\ Secretive(q, i, k) <=> Secretive(p, i, k)
                /\ Plain(q, i, k) <=> Plain(p, i, k)
                /\ (Live(p, i, k) /\ Witness(p, i, k)) => Witness(q, i, k)
                /\ Live(q, i, k) <=> Live(p, i, k)
                /\ Live(p, i, k) => Cell(q, i, k) = Cell(p, i, k) /\ Row(q, i) = Row(p, i)
                /\ Live(p, i, k) => Cell(p, i, k).epoch \in Nat /\ Cell(p, i, k).epoch <= p.epoch
                                    /\ Row(p, i) \in Nat
  <2>. TAKE i, k
  <2>1. /\ Secretive(q, i, k) <=> Secretive(p, i, k)
        /\ Plain(q, i, k) <=> Plain(p, i, k)
        /\ (Live(p, i, k) /\ Witness(p, i, k)) => Witness(q, i, k)
    BY <1>1, SameWitness
  <2>2. /\ Live(q, i, k) <=> Live(p, i, k)
        /\ Live(p, i, k) => Cell(q, i, k) = Cell(p, i, k) /\ Row(q, i) = Row(p, i)
    BY Zenon DEF Same
  <2>3. Live(p, i, k) => Cell(p, i, k).epoch \in Nat /\ Row(p, i) \in Nat
    BY <1>1, CellType
  <2>4. Live(p, i, k) => Cell(p, i, k).epoch <= p.epoch
    BY Zenon DEF Sound, Core, Dated
  <2>. QED
    BY <2>1, <2>2, <2>3, <2>4, Zenon
<1>4. Masked(q)
  <2>1. Masked(p)
    BY DEF Hide
  <2>2. \A i, k : Secretive(q, i, k) => q.confirmed < Cell(q, i, k).epoch
    BY <1>1, <1>3, <2>1, Zenon DEF Masked, Secretive
  <2>3. \A i, k : Live(q, i, k) => Cell(q, i, k).text # Linked
    BY <1>3, <2>1, Zenon DEF Masked
  <2>4. ASSUME NEW i, NEW k, NEW j, NEW l, Plain(q, i, k), Secretive(q, j, l),
               Cell(q, i, k).epoch = Cell(q, j, l).epoch
        PROVE  Witness(q, i, k)
    <3>1. Plain(p, i, k) /\ Secretive(p, j, l) /\ Live(p, i, k) /\ Live(p, j, l)
      BY <1>3, <2>4, Zenon DEF Plain, Secretive
    <3>2. Cell(p, i, k).epoch = Cell(p, j, l).epoch
      BY <1>3, <2>4, <3>1, Zenon
    <3>3. Witness(p, i, k)
      BY <2>1, <3>1, <3>2, Zenon DEF Masked
    <3>. QED
      BY <1>3, <3>1, <3>3, Zenon
  <2>. QED
    BY <2>2, <2>3, <2>4, Zenon DEF Masked
<1>5. ASSUME odd PROVE Silent(q)
  <2>1. Silent(p)
    BY <1>5 DEF Hide
  <2>2. q.confirmed < q.epoch
    BY <1>1, <1>2, <2>1 DEF Silent
  <2>3. ASSUME NEW i, NEW k, Plain(q, i, k), Cell(q, i, k).epoch = q.epoch
        PROVE  Witness(q, i, k)
    <3>1. Plain(p, i, k) /\ Live(p, i, k) /\ Cell(q, i, k) = Cell(p, i, k)
      BY <1>3, <2>3, Zenon DEF Plain
    <3>2. Cell(p, i, k).epoch = p.epoch
      BY <1>2, <1>3, <2>3, <3>1
    <3>3. Witness(p, i, k)
      BY <2>1, <3>1, <3>2, Zenon DEF Silent
    <3>. QED
      BY <1>3, <3>1, <3>3, Zenon
  <2>. QED
    BY <2>2, <2>3, Zenon DEF Silent
<1>6. ASSUME ~odd PROVE Open(q)
  <2>. SUFFICES ASSUME NEW i, NEW k, Secretive(q, i, k)
                PROVE  Cell(q, i, k).epoch < q.epoch /\ Row(q, i) < Last(q.cursors).row
    BY Zenon DEF Open
  <2>1. Secretive(p, i, k) /\ Live(p, i, k) /\ Cell(q, i, k) = Cell(p, i, k) /\ Row(q, i) = Row(p, i)
    BY <1>3, Zenon DEF Secretive
  <2>2. Cell(p, i, k).epoch < p.epoch /\ Row(p, i) < Last(p.cursors).row
    BY <1>6, <2>1, Zenon DEF Hide, Open
  <2>3. p.cursors # <<>>
    BY <2>1, Zenon DEF Sound, Led
  <2>4. q.cursors # <<>> /\ Last(p.cursors).row <= Last(q.cursors).row
    BY <2>3, Zenon DEF Follows, Leads
  <2>5. Last(p.cursors).row \in Nat /\ Last(q.cursors).row \in Nat
    BY <1>1, <2>3, <2>4, CursorType
  <2>. QED
    BY <1>2, <1>3, <2>1, <2>2, <2>4, <2>5
<1>. QED
  BY <1>4, <1>5, <1>6, Zenon DEF Hide

-----------------------------------------------------------------------------
(* The cursor and the epoch.                                               *)

\* A guess about a key typed now waits for a screen.
Ready(p, s) == s <= p.sent /\ p.late <= p.sent

\* The same overlays hold the same guesses.
LEMMA SameOverlays ==
    ASSUME NEW p, NEW q, q.overlays = p.overlays
    PROVE  Same(p, q) /\ (Unique(p) => Unique(q)) /\ (Clean(p) => Clean(q))
BY Zenon DEF Same, Unique, Clean, Live, Cell, Row

\* A predictor stays ready for the next guess while no message is sent.
LEMMA KeptReady ==
    ASSUME NEW p, NEW q, NEW s, Kept(p, q), Ready(p, s)
    PROVE  Ready(q, s)
BY DEF Kept, Ready

\* become_tentative begins an epoch, and nothing else changes.
LEMMA Tentative ==
    ASSUME NEW R, NEW C, NEW s, NEW m, Dims(R, C, s, m), NEW p,
           Sound(p, R, C, s, m)
    PROVE  LET q == become_tentative(p)
           IN  /\ Follows(p, q, R, C, s) /\ Same(p, q) /\ Sound(q, R, C, s, m)
               /\ \A odd : Hide(p, odd) => Hide(q, odd)
               /\ q.epoch = p.epoch + 1 /\ q.cursors = p.cursors /\ q.overlays = p.overlays
<1>. R \in Nat /\ C \in Nat /\ s \in Nat /\ m \in Nat
  BY DEF Dims
<1>. DEFINE q == become_tentative(p)
<1>1. p \in PredOf(R, C)
  BY DEF Sound, Core
<1>2. /\ q \in PredOf(R, C) /\ q.epoch = p.epoch + 1 /\ q.cursors = p.cursors
      /\ q.overlays = p.overlays /\ Kept(p, q) /\ q.confirmed = p.confirmed
  <2>1. p.epoch + 1 \in Nat
    BY <1>1, PredType
  <2>. DEFINE e == p.epoch + 1
              r == [p EXCEPT !.epoch = e]
  <2>2. q = r
    BY Zenon DEF become_tentative
  <2>. HIDE DEF e, q
  <2>3. /\ r \in PredOf(R, C) /\ r.epoch = e /\ r.cursors = p.cursors
        /\ r.overlays = p.overlays /\ Kept(p, r) /\ r.confirmed = p.confirmed
    BY <1>1, <2>1 DEF PredOf, Kept, e
  <2>. HIDE DEF r
  <2>. QED
    BY <2>2, <2>3, Zenon DEF e
<1>. HIDE DEF q
<1>3. Same(p, q) /\ Unique(q) /\ Clean(q)
  BY <1>2, SameOverlays DEF Sound, Core
<1>4. Waits(q, s)
  <2>. SUFFICES ASSUME NEW j \in DOMAIN p.cursors
                PROVE  /\ s < p.cursors[j].exp /\ p.late < p.cursors[j].exp
                       /\ p.cursors[j].exp <= p.sent + 1
                       /\ p.cursors[j].epoch <= p.epoch + 1
    BY <1>2, Zenon DEF Waits, Kept
  <2>1. /\ s < p.cursors[j].exp /\ p.late < p.cursors[j].exp /\ p.cursors[j].exp <= p.sent + 1 /\ p.cursors[j].epoch <= p.epoch
    BY Zenon DEF Sound, Core, Dated, Judged
  <2>2. p.cursors[j].epoch \in Nat /\ p.epoch \in Nat
    BY <1>1, CursorType, PredType
  <2>. QED
    BY <2>1, <2>2
<1>5. Leads(p, q)
  <2>1. p.cursors # <<>> => Last(p.cursors).exp \in Nat /\ Last(p.cursors).row \in Nat
    BY <1>1, CursorType
  <2>. QED
    BY <1>2, <2>1 DEF Leads
<1>6. p.epoch <= q.epoch
  <2>1. p.epoch \in Nat
    BY <1>1, PredType
  <2>. QED
    BY <1>2, <2>1
<1>7. Follows(p, q, R, C, s)
  BY <1>2, <1>3, <1>4, <1>5, <1>6, Zenon DEF Follows
<1>8. Sound(q, R, C, s, m)
  BY <1>3, <1>7, SameSound
<1>9. \A odd : Hide(p, odd) => Hide(q, odd)
  BY <1>3, <1>7, SameHide
<1>. QED
  BY <1>2, <1>3, <1>7, <1>8, <1>9, Zenon DEF q

\* Cursors that are replaced.
WithCursors(p, cs) == [p EXCEPT !.cursors = cs]

NewCursors(p, cs, R, C, s) ==
    /\ cs \in Seq(CursorOf(R, C)) /\ cs # <<>>
    /\ \A j \in DOMAIN cs : /\ s < cs[j].exp /\ p.late < cs[j].exp
                            /\ cs[j].exp <= p.sent + 1 /\ cs[j].epoch <= p.epoch
    /\ p.cursors # <<>> => /\ Last(p.cursors).exp <= Last(cs).exp
                           /\ Last(p.cursors).row <= Last(cs).row

\* Cursors that are replaced by ones no older and no higher leave the guesses
\* alone.
LEMMA Recursored ==
    ASSUME NEW R, NEW C, NEW s, NEW m, Dims(R, C, s, m), NEW p, NEW cs,
           NEW q, q = WithCursors(p, cs),
           Sound(p, R, C, s, m), NewCursors(p, cs, R, C, s)
    PROVE  /\ Follows(p, q, R, C, s) /\ Same(p, q) /\ Sound(q, R, C, s, m)
           /\ \A odd : Hide(p, odd) => Hide(q, odd)
           /\ q.epoch = p.epoch /\ q.cursors = cs /\ q.overlays = p.overlays
<1>. R \in Nat /\ C \in Nat /\ s \in Nat /\ m \in Nat
  BY DEF Dims
<1>1. p \in PredOf(R, C)
  BY DEF Sound, Core
<1>2. /\ q \in PredOf(R, C) /\ q.epoch = p.epoch /\ q.cursors = cs
      /\ q.overlays = p.overlays /\ Kept(p, q) /\ q.confirmed = p.confirmed
  BY <1>1 DEF PredOf, Kept, NewCursors, WithCursors
<1>3. Same(p, q) /\ Unique(q) /\ Clean(q)
  BY <1>2, SameOverlays DEF Sound, Core
<1>4. Waits(q, s)
  BY <1>2, Zenon DEF Waits, Kept, NewCursors
<1>5. Leads(p, q)
  BY <1>2, Zenon DEF Leads, NewCursors
<1>6. p.epoch <= q.epoch
  <2>1. p.epoch \in Nat
    BY <1>1, PredType
  <2>. QED
    BY <1>2, <2>1
<1>7. Follows(p, q, R, C, s)
  BY <1>2, <1>3, <1>4, <1>5, <1>6, Zenon DEF Follows
<1>8. Sound(q, R, C, s, m)
  BY <1>3, <1>7, SameSound
<1>9. \A odd : Hide(p, odd) => Hide(q, odd)
  BY <1>3, <1>7, SameHide
<1>. QED
  BY <1>2, <1>3, <1>7, <1>8, <1>9, Zenon

\* The cursors of a sound predictor wait for a screen.
LEMMA SoundCursors ==
    ASSUME NEW R, NEW C, NEW s, NEW m, Dims(R, C, s, m), NEW p,
           Sound(p, R, C, s, m)
    PROVE  /\ p \in PredOf(R, C) /\ p.cursors \in Seq(CursorOf(R, C))
           /\ p.epoch \in Nat /\ p.sent \in Nat /\ p.late \in Nat
           /\ \A j \in DOMAIN p.cursors : /\ s < p.cursors[j].exp /\ p.late < p.cursors[j].exp
                                          /\ p.cursors[j].exp <= p.sent + 1 /\ p.cursors[j].epoch <= p.epoch
<1>. R \in Nat /\ C \in Nat /\ s \in Nat /\ m \in Nat
  BY DEF Dims
<1>1. p \in PredOf(R, C)
  BY DEF Sound, Core
<1>2. \A j \in DOMAIN p.cursors : /\ s < p.cursors[j].exp /\ p.late < p.cursors[j].exp
                                  /\ p.cursors[j].exp <= p.sent + 1 /\ p.cursors[j].epoch <= p.epoch
  BY Zenon DEF Sound, Core, Dated, Judged
<1>. QED
  BY <1>1, <1>2, PredType

\* The elements of a sequence that one is appended to.
LEMMA AppendFacts ==
    ASSUME NEW S, NEW t \in Seq(S), NEW x \in S
    PROVE  /\ Append(t, x) \in Seq(S) /\ Append(t, x) # <<>> /\ Last(Append(t, x)) = x
           /\ DOMAIN Append(t, x) = 1..(Len(t) + 1) /\ Len(t) \in Nat
           /\ \A j \in DOMAIN Append(t, x) : j = Len(t) + 1 \/ j \in DOMAIN t
           /\ \A j \in DOMAIN t : Append(t, x)[j] = t[j]
           /\ Append(t, x)[Len(t) + 1] = x
<1>1. /\ Append(t, x) \in Seq(S) /\ Len(Append(t, x)) = Len(t) + 1 /\ Len(t) \in Nat
      /\ Append(t, x)[Len(t) + 1] = x
  OBVIOUS
<1>2. Append(t, x) # <<>>
  BY <1>1
<1>3. Last(Append(t, x)) = x
  BY <1>1 DEF Last
<1>4. \A j \in DOMAIN t : Append(t, x)[j] = t[j]
  OBVIOUS
<1>5. \A j \in DOMAIN Append(t, x) : j = Len(t) + 1 \/ j \in DOMAIN t
  OBVIOUS
<1>. QED
  BY <1>1, <1>2, <1>3, <1>4, <1>5

\* init_cursor leaves a cursor of the current epoch, and the guesses as they
\* were.
LEMMA Initialised ==
    ASSUME NEW R, NEW C, NEW s, NEW m, Dims(R, C, s, m), NEW p, NEW fb,
           Sound(p, R, C, s, m), Ready(p, s), Fits(fb, R, C)
    PROVE  LET q == init_cursor(p, fb)
           IN  /\ Follows(p, q, R, C, s) /\ Same(p, q) /\ Sound(q, R, C, s, m)
               /\ \A odd : Hide(p, odd) => Hide(q, odd)
               /\ q.epoch = p.epoch /\ q.overlays = p.overlays
               /\ q.cursors # <<>> /\ Last(q.cursors).epoch = p.epoch
               /\ (\A j \in DOMAIN p.cursors : p.cursors[j].epoch # p.epoch) =>
                      Last(q.cursors).exp = p.sent + 1
<1>. R \in Nat /\ C \in Nat /\ s \in Nat /\ m \in Nat
  BY DEF Dims
<1>. DEFINE q == init_cursor(p, fb)
            new == IF p.cursors = <<>> THEN CursorAt(p, fb.row, fb.col)
                   ELSE CursorAt(p, Cursor(p).row, Cursor(p).col)
            cs == Append(p.cursors, new)
<1>1. /\ p \in PredOf(R, C) /\ p.cursors \in Seq(CursorOf(R, C))
      /\ p.epoch \in Nat /\ p.sent \in Nat /\ p.late \in Nat
      /\ \A j \in DOMAIN p.cursors : /\ s < p.cursors[j].exp /\ p.late < p.cursors[j].exp
                                     /\ p.cursors[j].exp <= p.sent + 1 /\ p.cursors[j].epoch <= p.epoch
  BY SoundCursors
<1>2. /\ new \in CursorOf(R, C) /\ new.exp = p.sent + 1 /\ new.epoch = p.epoch
      /\ p.cursors # <<>> => new.row = Last(p.cursors).row
  BY <1>1, CursorType, FrameType, SMTT(60) DEF CursorOf, CursorAt, Cursor
<1>. HIDE DEF new
<1>3. s <= p.sent /\ p.late <= p.sent
  BY DEF Ready
<1>4. /\ cs \in Seq(CursorOf(R, C)) /\ cs # <<>> /\ Last(cs) = new
      /\ DOMAIN cs = 1..(Len(p.cursors) + 1) /\ Len(p.cursors) \in Nat
      /\ \A j \in DOMAIN cs : j = Len(p.cursors) + 1 \/ j \in DOMAIN p.cursors
      /\ \A j \in DOMAIN p.cursors : cs[j] = p.cursors[j]
      /\ cs[Len(p.cursors) + 1] = new
  BY <1>1, <1>2, AppendFacts, SMTT(60)
<1>. HIDE DEF cs
<1>5. \A j \in DOMAIN cs : /\ s < cs[j].exp /\ p.late < cs[j].exp
                           /\ cs[j].exp <= p.sent + 1 /\ cs[j].epoch <= p.epoch
  <2>. TAKE j \in DOMAIN cs
  <2>1. CASE j = Len(p.cursors) + 1
    <3>1. cs[j] = new
      BY <1>4, <2>1, Zenon
    <3>2. /\ s < p.sent + 1 /\ p.late < p.sent + 1
          /\ p.sent + 1 <= p.sent + 1 /\ p.epoch <= p.epoch
      BY <1>1, <1>3
    <3>. QED
      BY <1>2, <3>1, <3>2
  <2>2. CASE j \in DOMAIN p.cursors
    BY <1>1, <1>4, <2>2, Zenon
  <2>. QED
    BY <1>4, <2>1, <2>2, Zenon
<1>6. p.cursors # <<>> => /\ Last(p.cursors).exp <= Last(cs).exp
                          /\ Last(p.cursors).row <= Last(cs).row
  <2>. HAVE p.cursors # <<>>
  <2>1. /\ Last(p.cursors).exp \in Nat /\ Last(p.cursors).row \in Nat
        /\ Len(p.cursors) \in DOMAIN p.cursors /\ Last(p.cursors) = p.cursors[Len(p.cursors)]
    BY <1>1, CursorType
  <2>2. Last(p.cursors).exp <= p.sent + 1
    BY <1>1, <2>1, Zenon
  <2>. QED
    BY <1>2, <1>4, <2>1, <2>2
<1>. DEFINE r == [p EXCEPT !.cursors = cs]
<1>. HIDE DEF r
<1>7. /\ Follows(p, r, R, C, s) /\ Same(p, r) /\ Sound(r, R, C, s, m)
      /\ \A odd : Hide(p, odd) => Hide(r, odd)
      /\ r.epoch = p.epoch /\ r.cursors = cs /\ r.overlays = p.overlays
  <2>1. r = WithCursors(p, cs)
    BY DEF r, WithCursors
  <2>2. NewCursors(p, cs, R, C, s)
    BY <1>4, <1>5, <1>6, Zenon DEF NewCursors
  <2>. QED
    BY <2>1, <2>2, Recursored
<1>8. CASE p.cursors = <<>> \/ Cursor(p).epoch # p.epoch
  <2>1. q = r
    <3>1. CASE p.cursors = <<>>
      <4>1. cs = <<new>>
        BY <3>1, <1>2 DEF cs
      <4>2. q = [p EXCEPT !.cursors = <<new>>]
        BY <3>1 DEF init_cursor, new
      <4>. QED
        BY <4>1, <4>2 DEF r
    <3>2. CASE p.cursors # <<>> /\ Cursor(p).epoch # p.epoch
      <4>1. q = [p EXCEPT !.cursors = cs]
        BY <3>2, Zenon DEF init_cursor, new, cs
      <4>. QED
        BY <4>1 DEF r
    <3>. QED
      BY <1>8, <3>1, <3>2
  <2>. QED
    BY <1>2, <1>4, <1>7, <2>1
<1>9. CASE p.cursors # <<>> /\ Cursor(p).epoch = p.epoch
  <2>1. q = p /\ Last(q.cursors).epoch = p.epoch
    BY <1>9 DEF init_cursor, Cursor
  <2>2. p.cursors # <<>> /\ Len(p.cursors) \in DOMAIN p.cursors /\ p.cursors[Len(p.cursors)].epoch = p.epoch
    BY <1>1, <1>9, CursorType DEF Cursor
  <2>3. Follows(p, p, R, C, s)
    <3>1. Kept(p, p) /\ p.epoch <= p.epoch
      BY <1>1 DEF Kept
    <3>2. Leads(p, p)
      <4>1. p.cursors # <<>> => Last(p.cursors).exp \in Nat /\ Last(p.cursors).row \in Nat
        BY <1>1, CursorType
      <4>. QED
        BY <4>1 DEF Leads
    <3>3. Unique(p) /\ Clean(p)
      BY DEF Sound, Core
    <3>. QED
      BY <1>1, <3>1, <3>2, <3>3 DEF Follows, Waits
  <2>4. Same(p, p)
    BY SameOverlays
  <2>. HIDE DEF q
  <2>5. ~ \A j \in DOMAIN p.cursors : p.cursors[j].epoch # p.epoch
    BY <2>2, Zenon
  <2>6. q = p /\ p.epoch = p.epoch /\ p.overlays = p.overlays
    BY <2>1, Zenon
  <2>7. /\ Follows(p, q, R, C, s) /\ Same(p, q) /\ Sound(q, R, C, s, m)
        /\ \A odd : Hide(p, odd) => Hide(q, odd)
    BY <2>3, <2>4, <2>6, Zenon
  <2>8. /\ q.epoch = p.epoch /\ q.overlays = p.overlays
        /\ q.cursors # <<>> /\ Last(q.cursors).epoch = p.epoch
    BY <1>9, <2>1, Zenon
  <2>. QED
    BY <2>5, <2>7, <2>8, Zenon DEF q
<1>. QED
  BY <1>8, <1>9, Zenon

\* A sequence whose last element is replaced.
LEMMA LastExcept ==
    ASSUME NEW S, NEW t \in Seq(S), t # <<>>, NEW x \in S, NEW u, u = [t EXCEPT ![Len(t)] = x]
    PROVE  /\ u \in Seq(S) /\ u # <<>> /\ Last(u) = x /\ Len(t) \in DOMAIN t
           /\ DOMAIN u = DOMAIN t /\ Len(u) = Len(t)
           /\ \A j \in DOMAIN t : u[j] = IF j = Len(t) THEN x ELSE t[j]
<1>1. Len(t) \in Nat /\ Len(t) \in DOMAIN t /\ DOMAIN t = 1..Len(t)
  OBVIOUS
<1>2. DOMAIN u = DOMAIN t /\ \A j \in DOMAIN t : u[j] = IF j = Len(t) THEN x ELSE t[j]
  BY <1>1
<1>3. u \in Seq(S) /\ Len(u) = Len(t)
  OBVIOUS
<1>4. u # <<>> /\ Last(u) = x
  BY <1>1, <1>2, <1>3 DEF Last
<1>. QED
  BY <1>1, <1>2, <1>3, <1>4

Succeeds(p, x, R, C) ==
    /\ p.cursors # <<>> /\ x \in CursorOf(R, C)
    /\ Last(p.cursors).exp <= x.exp /\ x.exp <= p.sent + 1
    /\ Last(p.cursors).row <= x.row /\ x.epoch = Last(p.cursors).epoch

\* The last cursor is replaced by one that is no older and no higher.
LEMMA LastCursor ==
    ASSUME NEW R, NEW C, NEW s, NEW m, Dims(R, C, s, m), NEW p, NEW x, NEW q, NEW cs,
           Sound(p, R, C, s, m), Succeeds(p, x, R, C),
           cs = [p.cursors EXCEPT ![Len(p.cursors)] = x], q = WithCursors(p, cs)
    PROVE  /\ Follows(p, q, R, C, s) /\ Same(p, q) /\ Sound(q, R, C, s, m)
           /\ \A odd : Hide(p, odd) => Hide(q, odd)
           /\ q.epoch = p.epoch /\ q.overlays = p.overlays
           /\ q.cursors # <<>> /\ Last(q.cursors) = x
<1>. R \in Nat /\ C \in Nat /\ s \in Nat /\ m \in Nat
  BY DEF Dims
<1>. /\ p.cursors # <<>> /\ x \in CursorOf(R, C)
     /\ Last(p.cursors).exp <= x.exp /\ x.exp <= p.sent + 1
     /\ Last(p.cursors).row <= x.row /\ x.epoch = Last(p.cursors).epoch
  BY DEF Succeeds
<1>1. /\ p \in PredOf(R, C) /\ p.cursors \in Seq(CursorOf(R, C))
      /\ p.epoch \in Nat /\ p.sent \in Nat /\ p.late \in Nat
      /\ \A j \in DOMAIN p.cursors : /\ s < p.cursors[j].exp /\ p.late < p.cursors[j].exp
                                     /\ p.cursors[j].exp <= p.sent + 1 /\ p.cursors[j].epoch <= p.epoch
  BY SoundCursors
<1>2. /\ cs \in Seq(CursorOf(R, C)) /\ cs # <<>> /\ Last(cs) = x
      /\ DOMAIN cs = DOMAIN p.cursors
      /\ \A j \in DOMAIN p.cursors : cs[j] = IF j = Len(p.cursors) THEN x ELSE p.cursors[j]
  BY <1>1, LastExcept
<1>3. /\ Len(p.cursors) \in DOMAIN p.cursors /\ Last(p.cursors) = p.cursors[Len(p.cursors)]
      /\ Last(p.cursors).exp \in Nat
  BY <1>1, CursorType
<1>4. x.exp \in Nat
  BY DEF CursorOf
<1>6. \A j \in DOMAIN cs : /\ s < cs[j].exp /\ p.late < cs[j].exp
                           /\ cs[j].exp <= p.sent + 1 /\ cs[j].epoch <= p.epoch
  <2>. SUFFICES ASSUME NEW j \in DOMAIN p.cursors
                PROVE  /\ s < cs[j].exp /\ p.late < cs[j].exp
                       /\ cs[j].exp <= p.sent + 1 /\ cs[j].epoch <= p.epoch
    BY <1>2, Zenon
  <2>1. CASE j = Len(p.cursors)
    <3>1. cs[j] = x
      BY <1>2, <2>1, Zenon
    <3>2. s < Last(p.cursors).exp /\ p.late < Last(p.cursors).exp /\ x.epoch <= p.epoch
      BY <1>1, <1>3, Zenon
    <3>3. s < x.exp /\ p.late < x.exp
      BY <1>1, <1>3, <1>4, <3>2, SMTT(60)
    <3>. QED
      BY <3>1, <3>2, <3>3
  <2>2. CASE j # Len(p.cursors)
    BY <1>1, <1>2, <2>2, Zenon
  <2>. QED
    BY <2>1, <2>2, Zenon
<1>7. NewCursors(p, cs, R, C, s)
  BY <1>2, <1>6, Zenon DEF NewCursors
<1>8. /\ Follows(p, q, R, C, s) /\ Same(p, q) /\ Sound(q, R, C, s, m)
      /\ \A odd : Hide(p, odd) => Hide(q, odd)
      /\ q.epoch = p.epoch /\ q.cursors = cs /\ q.overlays = p.overlays
  BY <1>7, Recursored
<1>. QED
  BY <1>2, <1>8, Zenon

\* A cursor that is moved expires with the message that moves it.
LEMMA Expired ==
    ASSUME NEW R, NEW C, NEW s, NEW m, Dims(R, C, s, m), NEW p, NEW q,
           Sound(p, R, C, s, m), p.cursors # <<>>, q = ExpireCursor(p)
    PROVE  /\ Follows(p, q, R, C, s) /\ Same(p, q) /\ Sound(q, R, C, s, m)
           /\ \A odd : Hide(p, odd) => Hide(q, odd)
           /\ q.epoch = p.epoch /\ q.overlays = p.overlays
           /\ q.cursors # <<>> /\ Last(q.cursors).exp = p.sent + 1
           /\ Last(q.cursors).row = Last(p.cursors).row
           /\ Last(q.cursors).col = Last(p.cursors).col
           /\ Last(q.cursors).epoch = Last(p.cursors).epoch
<1>. R \in Nat /\ C \in Nat /\ s \in Nat /\ m \in Nat
  BY DEF Dims
<1>. DEFINE n == Len(p.cursors)  e == p.sent + 1  x == [p.cursors[n] EXCEPT !.exp = e]
            cs == [p.cursors EXCEPT ![n] = x]
<1>1. /\ p \in PredOf(R, C) /\ p.sent \in Nat
      /\ \A j \in DOMAIN p.cursors : p.cursors[j].exp <= p.sent + 1
  BY SoundCursors
<1>2. /\ n \in DOMAIN p.cursors /\ Last(p.cursors) = p.cursors[n]
      /\ Last(p.cursors) \in CursorOf(R, C)
      /\ Last(p.cursors).exp \in Nat /\ Last(p.cursors).row \in Nat
  BY <1>1, CursorType
<1>. e \in Nat
  BY <1>1
<1>. HIDE DEF e
<1>3. /\ x \in CursorOf(R, C) /\ x.exp = e /\ x.row = Last(p.cursors).row
      /\ x.col = Last(p.cursors).col /\ x.epoch = Last(p.cursors).epoch
  BY <1>1, <1>2 DEF CursorOf
<1>4. q = WithCursors(p, cs)
  BY DEF ExpireCursor, WithCursors, e
<1>. HIDE DEF x
<1>5. /\ Last(p.cursors).exp <= x.exp /\ x.exp <= p.sent + 1
      /\ Last(p.cursors).row <= x.row
  BY <1>1, <1>2, <1>3 DEF e
<1>6. /\ Follows(p, q, R, C, s) /\ Same(p, q) /\ Sound(q, R, C, s, m)
      /\ \A odd : Hide(p, odd) => Hide(q, odd)
      /\ q.epoch = p.epoch /\ q.overlays = p.overlays
      /\ q.cursors # <<>> /\ Last(q.cursors) = x
  <2>1. cs = [p.cursors EXCEPT ![Len(p.cursors)] = x]
    OBVIOUS
  <2>2. Succeeds(p, x, R, C)
    BY <1>3, <1>5, Zenon DEF Succeeds
  <2>. HIDE DEF cs
  <2>. QED
    BY <1>4, <2>1, <2>2, LastCursor
<1>. QED
  BY <1>3, <1>6, Zenon DEF e

InFrame(row, col, R, C) == row \in 0..(R - 1) /\ col \in 0..(C - 1)

\* A cursor that moves in its row or down keeps the guesses as they were.
LEMMA Moved ==
    ASSUME NEW R, NEW C, NEW s, NEW m, Dims(R, C, s, m), NEW p, NEW q,
           NEW row, NEW col, InFrame(row, col, R, C), Sound(p, R, C, s, m),
           p.cursors # <<>>, Last(p.cursors).row <= row,
           q = MoveCursor(p, row, col)
    PROVE  /\ Follows(p, q, R, C, s) /\ Same(p, q) /\ Sound(q, R, C, s, m)
           /\ \A odd : Hide(p, odd) => Hide(q, odd)
           /\ q.epoch = p.epoch /\ q.overlays = p.overlays
           /\ q.cursors # <<>> /\ Last(q.cursors).exp = Last(p.cursors).exp
           /\ Last(q.cursors).row = row /\ Last(q.cursors).col = col
           /\ Last(q.cursors).epoch = Last(p.cursors).epoch
<1>. R \in Nat /\ C \in Nat /\ s \in Nat /\ m \in Nat
  BY DEF Dims
<1>. row \in 0..(R - 1) /\ col \in 0..(C - 1)
  BY DEF InFrame
<1>. DEFINE n == Len(p.cursors)  x == [p.cursors[n] EXCEPT !.row = row, !.col = col]
            cs == [p.cursors EXCEPT ![n] = x]
<1>1. /\ p \in PredOf(R, C) /\ p.sent \in Nat /\ p.cursors \in Seq(CursorOf(R, C))
      /\ \A j \in DOMAIN p.cursors : p.cursors[j].exp <= p.sent + 1
  BY SoundCursors
<1>2. /\ n \in DOMAIN p.cursors /\ Last(p.cursors) = p.cursors[n]
      /\ Last(p.cursors) \in CursorOf(R, C)
      /\ Last(p.cursors).exp \in Nat /\ Last(p.cursors).row \in Nat
      /\ Last(p.cursors).exp <= p.sent + 1
  <2>1. /\ n \in DOMAIN p.cursors /\ Last(p.cursors) = p.cursors[n]
        /\ Last(p.cursors) \in CursorOf(R, C)
        /\ Last(p.cursors).exp \in Nat /\ Last(p.cursors).row \in Nat
    BY <1>1, CursorType
  <2>. QED
    BY <1>1, <2>1, Zenon
<1>3. /\ x \in CursorOf(R, C) /\ x.exp = Last(p.cursors).exp /\ x.row = row
      /\ x.col = col /\ x.epoch = Last(p.cursors).epoch
  BY <1>1, <1>2 DEF CursorOf
<1>4. q = WithCursors(p, cs)
  <2>. DEFINE c1 == [p.cursors EXCEPT ![n].row = row, ![n].col = col]
  <2>1. c1 = cs
    BY <1>1, <1>2 DEF CursorOf
  <2>2. q = [p EXCEPT !.cursors = c1]
    BY DEF MoveCursor
  <2>. HIDE DEF c1, cs
  <2>. QED
    BY <2>1, <2>2, Zenon DEF WithCursors
<1>. HIDE DEF x
<1>5. /\ Last(p.cursors).exp <= x.exp /\ x.exp <= p.sent + 1
      /\ Last(p.cursors).row <= x.row
  BY <1>1, <1>2, <1>3
<1>6. /\ Follows(p, q, R, C, s) /\ Same(p, q) /\ Sound(q, R, C, s, m)
      /\ \A odd : Hide(p, odd) => Hide(q, odd)
      /\ q.epoch = p.epoch /\ q.overlays = p.overlays
      /\ q.cursors # <<>> /\ Last(q.cursors) = x
  <2>1. cs = [p.cursors EXCEPT ![Len(p.cursors)] = x]
    OBVIOUS
  <2>2. Succeeds(p, x, R, C)
    BY <1>3, <1>5, Zenon DEF Succeeds
  <2>. HIDE DEF cs
  <2>. QED
    BY <1>4, <2>1, <2>2, LastCursor, SMTT(60)
<1>. QED
  BY <1>3, <1>6, Zenon
-----------------------------------------------------------------------------
(* Overlay lines.                                                          *)

\* A row that has an overlay line is found.
LEMMA LineFound ==
    ASSUME NEW p, NEW row, \E i \in DOMAIN p.overlays : Row(p, i) = row
    PROVE  LineIndex(p, row) \in DOMAIN p.overlays /\ Row(p, LineIndex(p, row)) = row
BY Zenon DEF LineIndex, Row

\* A cell without a guess is a cell.
LEMMA InactiveType == Inactive \in CellOf /\ ~Inactive.active
BY DEF Inactive, CellOf, Glyphs, Blank

IsRow(row, R) == row \in 0..(R - 1)

\* get_or_make_row adds an empty line at most, and the row is found from then on.
LEMMA RowMade ==
    ASSUME NEW R, NEW C, NEW s, NEW m, Dims(R, C, s, m), NEW p, NEW q, NEW fb,
           Fits(fb, R, C), NEW row, IsRow(row, R),
           Sound(p, R, C, s, m), q = get_or_make_row(p, row, fb)
    PROVE  /\ Follows(p, q, R, C, s) /\ Same(p, q) /\ Sound(q, R, C, s, m)
           /\ \A odd : Hide(p, odd) => Hide(q, odd)
           /\ q.epoch = p.epoch /\ q.cursors = p.cursors
           /\ \E i \in DOMAIN q.overlays : Row(q, i) = row
           /\ LineIndex(q, row) \in DOMAIN q.overlays /\ Row(q, LineIndex(q, row)) = row
<1>. R \in Nat /\ C \in Nat /\ s \in Nat /\ m \in Nat /\ row \in 0..(R - 1)
  BY DEF Dims, IsRow
<1>1. /\ p \in PredOf(R, C) /\ p.overlays \in Seq(LineOf(R, C)) /\ p.epoch \in Nat
      /\ Unique(p) /\ Clean(p)
  BY PredType DEF Sound, Core
<1>2. /\ Waits(p, s) /\ Leads(p, p)
  <2>1. Waits(p, s)
    BY SoundCursors DEF Waits
  <2>2. p.cursors # <<>> => Last(p.cursors).exp \in Nat /\ Last(p.cursors).row \in Nat
    BY <1>1, CursorType
  <2>. QED
    BY <2>1, <2>2 DEF Leads
<1>3. CASE \E i \in DOMAIN p.overlays : p.overlays[i].row = row
  <2>1. q = p
    BY <1>3, Zenon DEF get_or_make_row
  <2>2. Kept(p, p) /\ p.epoch <= p.epoch
    BY <1>1 DEF Kept
  <2>3. Same(p, p)
    BY SameOverlays
  <2>4. Follows(p, p, R, C, s)
    BY <1>1, <1>2, <2>2, Zenon DEF Follows
  <2>5. \E i \in DOMAIN p.overlays : Row(p, i) = row
    BY <1>3, Zenon DEF Row
  <2>. QED
    BY <2>1, <2>3, <2>4, <2>5, LineFound, Zenon
<1>4. CASE ~ \E i \in DOMAIN p.overlays : p.overlays[i].row = row
  <2>. DEFINE new == [row |-> row, cells |-> [k \in Columns(fb) |-> Inactive]]
              os == Append(p.overlays, new)
              r == [p EXCEPT !.overlays = os]
              n == Len(p.overlays) + 1
  <2>1. q = r
    BY <1>4, Zenon DEF get_or_make_row
  <2>2. /\ new \in LineOf(R, C) /\ new.row = row /\ DOMAIN new.cells = 0..(C - 1)
        /\ \A k \in 0..(C - 1) : new.cells[k] = Inactive
    BY FrameType, InactiveType DEF LineOf
  <2>. HIDE DEF new
  <2>3. /\ os \in Seq(LineOf(R, C)) /\ DOMAIN os = 1..n /\ Len(p.overlays) \in Nat
        /\ \A j \in DOMAIN os : j = n \/ j \in DOMAIN p.overlays
        /\ \A j \in DOMAIN p.overlays : os[j] = p.overlays[j] /\ j \in DOMAIN os /\ j # n
        /\ os[n] = new /\ n \in DOMAIN os
    <3>1. /\ os \in Seq(LineOf(R, C)) /\ DOMAIN os = 1..n /\ Len(p.overlays) \in Nat
          /\ \A j \in DOMAIN os : j = n \/ j \in DOMAIN p.overlays
          /\ \A j \in DOMAIN p.overlays : os[j] = p.overlays[j]
          /\ os[n] = new
      BY <1>1, <2>2, AppendFacts
    <3>2. DOMAIN p.overlays = 1..Len(p.overlays)
      BY <1>1
    <3>. HIDE DEF os
    <3>. QED
      BY <3>1, <3>2
  <2>. HIDE DEF os, n
  <2>4. /\ r \in PredOf(R, C) /\ r.overlays = os /\ r.epoch = p.epoch /\ r.cursors = p.cursors
        /\ Kept(p, r) /\ r.confirmed = p.confirmed
    BY <1>1, <2>3 DEF PredOf, Kept
  <2>. HIDE DEF r
  <2>5. Row(r, n) = row /\ \A j \in DOMAIN p.overlays : Row(r, j) = Row(p, j)
    BY <2>2, <2>3, <2>4, Zenon DEF Row
  <2>6. \A k \in DOMAIN r.overlays[n].cells : Cell(r, n, k) = Inactive
    BY <2>2, <2>3, <2>4, Zenon DEF Cell
  <2>7. \A j \in DOMAIN p.overlays : r.overlays[j].cells = p.overlays[j].cells
    BY <2>3, <2>4, Zenon
  <2>8. Same(p, r)
    <3>1. ASSUME NEW i, NEW k, Live(r, i, k) PROVE Live(p, i, k)
      <4>1. i \in DOMAIN os /\ k \in DOMAIN r.overlays[i].cells /\ Cell(r, i, k).active
        BY <2>4, <3>1, Zenon DEF Live
      <4>2. i # n
        BY <2>6, <4>1, InactiveType, Zenon
      <4>3. i \in DOMAIN p.overlays
        BY <2>3, <4>1, <4>2, Zenon
      <4>. QED
        BY <2>7, <4>1, <4>3, Zenon DEF Live, Cell
    <3>2. ASSUME NEW i, NEW k, Live(p, i, k)
          PROVE  Live(r, i, k) /\ Cell(r, i, k) = Cell(p, i, k) /\ Row(r, i) = Row(p, i)
      <4>1. i \in DOMAIN p.overlays /\ i \in DOMAIN r.overlays
        BY <2>3, <2>4, <3>2, Zenon DEF Live
      <4>. QED
        BY <2>5, <2>7, <3>2, <4>1, Zenon DEF Live, Cell
    <3>. QED
      BY <3>1, <3>2, Zenon DEF Same
  <2>9. Unique(r)
    <3>. SUFFICES ASSUME NEW i \in DOMAIN os, NEW j \in DOMAIN os, Row(r, i) = Row(r, j)
                  PROVE  i = j
      BY <2>4, Zenon DEF Unique
    <3>1. (i = n \/ i \in DOMAIN p.overlays) /\ (j = n \/ j \in DOMAIN p.overlays)
      BY <2>3, Zenon
    <3>2. \A l \in DOMAIN p.overlays : Row(p, l) # row
      BY <1>4, Zenon DEF Row
    <3>. QED
      BY <1>1, <2>5, <3>1, <3>2, Zenon DEF Unique
  <2>10. Clean(r)
    <3>. SUFFICES ASSUME NEW i \in DOMAIN os, NEW k \in DOMAIN r.overlays[i].cells
                  PROVE  Live(r, i, k) \/ Cell(r, i, k) = Inactive
      BY <2>4, Zenon DEF Clean
    <3>1. CASE i = n
      BY <2>6, <3>1, Zenon
    <3>2. CASE i \in DOMAIN p.overlays
      <4>1. k \in DOMAIN p.overlays[i].cells /\ Cell(r, i, k) = Cell(p, i, k)
        BY <2>7, <3>2, Zenon DEF Cell
      <4>2. Live(p, i, k) \/ Cell(p, i, k) = Inactive
        BY <1>1, <3>2, <4>1, Zenon DEF Clean
      <4>. QED
        BY <2>8, <4>1, <4>2, Zenon DEF Same
    <3>. QED
      BY <2>3, <3>1, <3>2, Zenon
  <2>11. Waits(r, s) /\ Leads(p, r) /\ p.epoch <= r.epoch
    <3>1. p.epoch <= p.epoch
      BY <1>1
    <3>. QED
      BY <1>2, <2>4, <3>1, Zenon DEF Waits, Leads, Kept
  <2>12. Follows(p, r, R, C, s)
    BY <2>4, <2>9, <2>10, <2>11, Zenon DEF Follows
  <2>13. Sound(r, R, C, s, m)
    BY <2>8, <2>12, SameSound
  <2>14. \A odd : Hide(p, odd) => Hide(r, odd)
    BY <2>8, <2>12, SameHide
  <2>15. \E i \in DOMAIN r.overlays : Row(r, i) = row
    BY <2>3, <2>4, <2>5, Zenon
  <2>16. LineIndex(r, row) \in DOMAIN r.overlays /\ Row(r, LineIndex(r, row)) = row
    BY <2>15, LineFound, Zenon
  <2>. QED
    BY <2>1, <2>4, <2>8, <2>12, <2>13, <2>14, <2>15, <2>16, Zenon DEF r
<1>. QED
  BY <1>3, <1>4, Zenon

-----------------------------------------------------------------------------
(* The cells of a line are guessed about.                                  *)

WithCells(p, n, new) == [p EXCEPT !.overlays[n].cells = new]

\* The cells of line n are replaced: every other line is as it was.
LEMMA CellsReplaced ==
    ASSUME NEW R \in Nat, NEW C \in Nat, NEW p, NEW n, NEW new, NEW q, p \in PredOf(R, C),
           n \in DOMAIN p.overlays, new \in [0..(C - 1) -> CellOf], q = WithCells(p, n, new)
    PROVE  /\ q \in PredOf(R, C) /\ Kept(p, q) /\ q.confirmed = p.confirmed
           /\ q.epoch = p.epoch /\ q.cursors = p.cursors /\ DOMAIN q.overlays = DOMAIN p.overlays
           /\ \A i \in DOMAIN p.overlays : Row(q, i) = Row(p, i)
           /\ \A i, k : i # n => /\ Live(q, i, k) <=> Live(p, i, k)
                                 /\ Live(p, i, k) => Cell(q, i, k) = Cell(p, i, k)
           /\ \A i \in DOMAIN p.overlays : i # n => q.overlays[i] = p.overlays[i]
           /\ \A k : Live(q, n, k) <=> k \in 0..(C - 1) /\ new[k].active
           /\ \A k : Cell(q, n, k) = new[k]
           /\ q.overlays[n].cells = new
<1>. DEFINE line == [p.overlays[n] EXCEPT !.cells = new]
            os == [p.overlays EXCEPT ![n] = line]
<1>1. p.overlays \in Seq(LineOf(R, C)) /\ p.overlays[n] \in LineOf(R, C)
  BY PredType, LineType
<1>2. line \in LineOf(R, C) /\ line.row = p.overlays[n].row /\ line.cells = new
  BY <1>1 DEF LineOf
<1>3. q = [p EXCEPT !.overlays = os]
  BY DEF WithCells
<1>. HIDE DEF line
<1>4. /\ os \in Seq(LineOf(R, C)) /\ DOMAIN os = DOMAIN p.overlays /\ os[n] = line
      /\ \A i \in DOMAIN p.overlays : i # n => os[i] = p.overlays[i]
  BY <1>1, <1>2
<1>. HIDE DEF os
<1>5. /\ q \in PredOf(R, C) /\ Kept(p, q) /\ q.confirmed = p.confirmed
      /\ q.epoch = p.epoch /\ q.cursors = p.cursors /\ q.overlays = os
  BY <1>3, <1>4 DEF PredOf, Kept
<1>6. \A i \in DOMAIN p.overlays : Row(q, i) = Row(p, i)
  BY <1>2, <1>4, <1>5, Zenon DEF Row
<1>7. \A i, k : i # n => /\ Live(q, i, k) <=> Live(p, i, k)
                         /\ Live(p, i, k) => Cell(q, i, k) = Cell(p, i, k)
  BY <1>4, <1>5, Zenon DEF Live, Cell
<1>8. \A k : Cell(q, n, k) = new[k]
  BY <1>2, <1>4, <1>5, Zenon DEF Cell
<1>9. n \in DOMAIN q.overlays /\ q.overlays[n].cells = new
  BY <1>2, <1>4, <1>5, Zenon
<1>10. DOMAIN new = 0..(C - 1)
  OBVIOUS
<1>11. \A k : Live(q, n, k) <=> k \in 0..(C - 1) /\ new[k].active
  BY <1>8, <1>9, <1>10, Zenon DEF Live
<1>. QED
  BY <1>4, <1>5, <1>6, <1>7, <1>8, <1>9, <1>11, Zenon

Fresh(p, c) ==
    /\ c \in CellOf /\ c.active /\ c.exp = p.sent + 1 /\ c.epoch = p.epoch
    /\ c.unknown => c.text = Blank

\* Cells of line n that are guessed about as the cursor expires.
Refreshes(p, n, new, C, m) ==
    /\ n \in DOMAIN p.overlays /\ new \in [0..(C - 1) -> CellOf]
    /\ \A k \in 0..(C - 1) : new[k] = Cell(p, n, k) \/ Fresh(p, new[k])
    /\ p.cursors # <<>> /\ Last(p.cursors).exp = p.sent + 1
    /\ Row(p, n) <= Last(p.cursors).row /\ p.sent + 1 <= m

\* A guess of q is one of p, or it is a fresh one in line n.
LEMMA RefreshedCells ==
    ASSUME NEW R \in Nat, NEW C \in Nat, NEW m, NEW p, NEW n, NEW new, NEW q,
           p \in PredOf(R, C), Refreshes(p, n, new, C, m), q = WithCells(p, n, new),
           NEW i, NEW k, Live(q, i, k)
    PROVE  /\ i \in DOMAIN p.overlays /\ Row(q, i) = Row(p, i)
           /\ \/ Live(p, i, k) /\ Cell(q, i, k) = Cell(p, i, k)
              \/ i = n /\ Fresh(p, Cell(q, i, k)) /\ Cell(q, i, k) = new[k]
<1>1. n \in DOMAIN p.overlays /\ new \in [0..(C - 1) -> CellOf]
  BY DEF Refreshes
<1>2. /\ DOMAIN q.overlays = DOMAIN p.overlays
      /\ \A j \in DOMAIN p.overlays : Row(q, j) = Row(p, j)
      /\ \A j, l : j # n => /\ Live(q, j, l) <=> Live(p, j, l)
                            /\ Live(p, j, l) => Cell(q, j, l) = Cell(p, j, l)
      /\ \A l : Live(q, n, l) <=> l \in 0..(C - 1) /\ new[l].active
      /\ \A l : Cell(q, n, l) = new[l]
  BY <1>1, CellsReplaced
<1>3. i \in DOMAIN p.overlays
  BY <1>2, Zenon DEF Live
<1>4. CASE i = n
  <2>1. k \in 0..(C - 1) /\ new[k].active
    BY <1>2, <1>4, Zenon
  <2>2. CASE Fresh(p, new[k])
    BY <1>2, <1>3, <1>4, <2>2, Zenon
  <2>3. CASE new[k] = Cell(p, n, k)
    <3>1. DOMAIN p.overlays[n].cells = 0..(C - 1)
      BY <1>1, LineType
    <3>2. Live(p, i, k)
      BY <1>1, <1>4, <2>1, <2>3, <3>1, Zenon DEF Live
    <3>. QED
      BY <1>2, <1>3, <1>4, <2>3, <3>2, Zenon
  <2>. QED
    BY <2>1, <2>2, <2>3, Zenon DEF Refreshes
<1>5. CASE i # n
  BY <1>2, <1>3, <1>5, Zenon
<1>. QED
  BY <1>4, <1>5, Zenon

\* The types of a guess about the message that is being sent.
LEMMA FreshType ==
    ASSUME NEW p, p.sent \in Nat, p.epoch \in Nat, NEW c, Fresh(p, c)
    PROVE  /\ c.exp = p.sent + 1 /\ c.epoch = p.epoch /\ c.active /\ c.exp \in Nat
           /\ c.epoch \in Nat /\ c.unknown => c.text = Blank
BY DEF Fresh

\* Guesses about the message that is being sent, in the cursor's line, keep the
\* predictor sound.
LEMMA Refreshed ==
    ASSUME NEW R, NEW C, NEW s, NEW m, Dims(R, C, s, m), NEW p, NEW n, NEW new, NEW q,
           Sound(p, R, C, s, m), Ready(p, s), Refreshes(p, n, new, C, m),
           q = WithCells(p, n, new)
    PROVE  /\ Sound(q, R, C, s, m) /\ Kept(p, q) /\ q.confirmed = p.confirmed
           /\ q.epoch = p.epoch /\ q.cursors = p.cursors
<1>. R \in Nat /\ C \in Nat /\ s \in Nat /\ m \in Nat
  BY DEF Dims
<1>1. /\ p \in PredOf(R, C) /\ n \in DOMAIN p.overlays /\ new \in [0..(C - 1) -> CellOf]
  BY DEF Sound, Core, Refreshes
<1>2. /\ q \in PredOf(R, C) /\ Kept(p, q) /\ q.confirmed = p.confirmed
      /\ q.epoch = p.epoch /\ q.cursors = p.cursors /\ DOMAIN q.overlays = DOMAIN p.overlays
      /\ \A i \in DOMAIN p.overlays : Row(q, i) = Row(p, i)
      /\ \A i \in DOMAIN p.overlays : i # n => q.overlays[i] = p.overlays[i]
      /\ \A k : Live(q, n, k) <=> k \in 0..(C - 1) /\ new[k].active
      /\ \A k : Cell(q, n, k) = new[k]
      /\ q.overlays[n].cells = new
  BY <1>1, CellsReplaced
<1>3. /\ p.sent \in Nat /\ p.epoch \in Nat /\ p.late \in Nat /\ q.sent = p.sent /\ q.late = p.late
      /\ s <= p.sent /\ p.late <= p.sent /\ p.sent + 1 <= m
      /\ p.cursors # <<>> /\ Last(p.cursors).exp = p.sent + 1 /\ Row(p, n) <= Last(p.cursors).row
  BY <1>1, <1>2, PredType DEF Kept, Ready, Refreshes
<1>4. ASSUME NEW i, NEW k, Live(q, i, k)
      PROVE  /\ i \in DOMAIN p.overlays /\ Row(q, i) = Row(p, i)
             /\ \/ Live(p, i, k) /\ Cell(q, i, k) = Cell(p, i, k)
                \/ /\ i = n /\ Cell(q, i, k).exp = p.sent + 1 /\ Cell(q, i, k).epoch = p.epoch
                   /\ Cell(q, i, k).unknown => Cell(q, i, k).text = Blank
  BY <1>1, <1>3, <1>4, RefreshedCells, FreshType
<1>5. ASSUME NEW i, NEW k, Live(p, i, k)
      PROVE  /\ s < Cell(p, i, k).exp /\ Cell(p, i, k).exp <= m
             /\ Cell(p, i, k).exp <= p.sent + 1 /\ Cell(p, i, k).epoch <= p.epoch
             /\ Cell(p, i, k).unknown => Cell(p, i, k).text = Blank
             /\ Cell(p, i, k).exp \in Nat /\ Cell(p, i, k).epoch \in Nat
             /\ p.late < Cell(p, i, k).exp
             /\ Cell(p, i, k).exp <= Last(p.cursors).exp /\ Row(p, i) <= Last(p.cursors).row
  <2>1. Cell(p, i, k).exp \in Nat /\ Cell(p, i, k).epoch \in Nat
    BY <1>1, <1>5, CellType
  <2>2. /\ s < Cell(p, i, k).exp /\ Cell(p, i, k).exp <= m
        /\ Cell(p, i, k).exp <= p.sent + 1 /\ Cell(p, i, k).epoch <= p.epoch
        /\ Cell(p, i, k).unknown => Cell(p, i, k).text = Blank
    BY <1>5, Zenon DEF Sound, Core, Dated
  <2>3. p.late < Cell(p, i, k).exp
    BY <1>5, Zenon DEF Sound, Judged
  <2>4. Cell(p, i, k).exp <= Last(p.cursors).exp /\ Row(p, i) <= Last(p.cursors).row
    BY <1>5, Zenon DEF Sound, Led
  <2>. QED
    BY <2>1, <2>2, <2>3, <2>4, Zenon
<1>6. Unique(q)
  <2>1. Unique(p)
    BY DEF Sound, Core
  <2>. SUFFICES ASSUME NEW i \in DOMAIN p.overlays, NEW j \in DOMAIN p.overlays,
                       Row(q, i) = Row(q, j)
                PROVE  i = j
    BY <1>2, Zenon DEF Unique
  <2>2. Row(p, i) = Row(p, j)
    BY <1>2, Zenon
  <2>. QED
    BY <2>1, <2>2, Zenon DEF Unique
<1>7. Clean(q)
  <2>. SUFFICES ASSUME NEW i \in DOMAIN p.overlays, NEW k \in DOMAIN q.overlays[i].cells
                PROVE  Live(q, i, k) \/ Cell(q, i, k) = Inactive
    BY <1>2, Zenon DEF Clean
  <2>1. Clean(p)
    BY DEF Sound, Core
  <2>2. CASE i # n
    <3>1. q.overlays[i] = p.overlays[i]
      BY <1>2, <2>2, Zenon
    <3>2. i \in DOMAIN p.overlays /\ k \in DOMAIN p.overlays[i].cells
      BY <3>1, Zenon
    <3>3. Live(p, i, k) \/ Cell(p, i, k) = Inactive
      BY <2>1, <3>2, Zenon DEF Clean
    <3>4. Cell(q, i, k) = Cell(p, i, k)
      BY <3>1, Zenon DEF Cell
    <3>5. i \in DOMAIN q.overlays
      BY <1>2, Zenon
    <3>6. Live(p, i, k) => Live(q, i, k)
      BY <3>4, <3>5, Zenon DEF Live
    <3>. QED
      BY <3>3, <3>4, <3>6, Zenon
  <2>3. CASE i = n
    <3>1. k \in 0..(C - 1)
      BY <1>1, <1>2, <2>3
    <3>2. CASE Fresh(p, new[k])
      BY <1>2, <1>3, <2>3, <3>1, <3>2, FreshType, Zenon
    <3>3. CASE new[k] = Cell(p, n, k)
      <4>1. DOMAIN p.overlays[n].cells = 0..(C - 1)
        BY <1>1, LineType
      <4>2. Live(p, n, k) \/ Cell(p, n, k) = Inactive
        BY <1>1, <2>1, <3>1, <4>1, Zenon DEF Clean
      <4>. QED
        BY <1>2, <2>3, <3>1, <3>3, <4>2, Zenon DEF Live
    <3>. QED
      BY <3>1, <3>2, <3>3, Zenon DEF Refreshes
  <2>. QED
    BY <2>2, <2>3, Zenon
<1>8. Dated(q, s, m)
  <2>1. ASSUME NEW i, NEW k, Live(q, i, k)
        PROVE  /\ s < Cell(q, i, k).exp /\ Cell(q, i, k).exp <= m
               /\ Cell(q, i, k).exp <= q.sent + 1 /\ Cell(q, i, k).epoch <= q.epoch
               /\ Cell(q, i, k).unknown => Cell(q, i, k).text = Blank
    <3>1. CASE Live(p, i, k) /\ Cell(q, i, k) = Cell(p, i, k)
      BY <1>2, <1>3, <1>5, <3>1
    <3>2. CASE /\ i = n /\ Cell(q, i, k).exp = p.sent + 1 /\ Cell(q, i, k).epoch = p.epoch
               /\ Cell(q, i, k).unknown => Cell(q, i, k).text = Blank
      BY <1>2, <1>3, <3>2
    <3>. QED
      BY <1>4, <2>1, <3>1, <3>2
  <2>2. /\ \A j \in DOMAIN q.cursors : /\ s < q.cursors[j].exp /\ q.cursors[j].exp <= q.sent + 1
                                       /\ q.cursors[j].epoch <= q.epoch
        /\ q.confirmed <= q.epoch
    BY <1>2, <1>3, Zenon DEF Sound, Core, Dated
  <2>. QED
    BY <2>1, <2>2, Zenon DEF Dated
<1>9. Ordered(q)
  <2>. SUFFICES ASSUME NEW i, NEW k, NEW j, NEW l, Live(q, i, k), Live(q, j, l),
                       Cell(q, i, k).epoch < Cell(q, j, l).epoch
                PROVE  Cell(q, i, k).exp <= Cell(q, j, l).exp
    BY Zenon DEF Ordered
  <2>1. CASE Live(p, i, k) /\ Cell(q, i, k) = Cell(p, i, k)
    <3>1. CASE Live(p, j, l) /\ Cell(q, j, l) = Cell(p, j, l)
      BY <2>1, <3>1, Zenon DEF Sound, Core, Ordered
    <3>2. CASE Cell(q, j, l).exp = p.sent + 1
      BY <1>5, <2>1, <3>2
    <3>. QED
      BY <1>4, <3>1, <3>2
  <2>2. CASE Cell(q, i, k).exp = p.sent + 1 /\ Cell(q, i, k).epoch = p.epoch
    <3>1. CASE Live(p, j, l) /\ Cell(q, j, l) = Cell(p, j, l)
      BY <1>3, <1>5, <2>2, <3>1
    <3>2. CASE Cell(q, j, l).exp = p.sent + 1
      BY <1>3, <2>2, <3>2
    <3>. QED
      BY <1>4, <3>1, <3>2
  <2>. QED
    BY <1>4, <2>1, <2>2
<1>10. Led(q)
  <2>. SUFFICES ASSUME NEW i, NEW k, Live(q, i, k)
                PROVE  /\ q.cursors # <<>> /\ Cell(q, i, k).exp <= Last(q.cursors).exp
                       /\ Row(q, i) <= Last(q.cursors).row
    BY Zenon DEF Led
  <2>1. CASE Live(p, i, k) /\ Cell(q, i, k) = Cell(p, i, k)
    BY <1>2, <1>3, <1>4, <1>5, <2>1
  <2>2. CASE i = n /\ Cell(q, i, k).exp = p.sent + 1
    BY <1>2, <1>3, <1>4, <2>2
  <2>. QED
    BY <1>4, <2>1, <2>2
<1>11. Judged(q)
  <2>1. ASSUME NEW i, NEW k, Live(q, i, k)
        PROVE  q.late < Cell(q, i, k).exp
    <3>1. CASE Live(p, i, k) /\ Cell(q, i, k) = Cell(p, i, k)
      BY <1>3, <1>5, <3>1
    <3>2. CASE Cell(q, i, k).exp = p.sent + 1
      BY <1>3, <3>2
    <3>. QED
      BY <1>4, <2>1, <3>1, <3>2
  <2>2. \A j \in DOMAIN q.cursors : q.late < q.cursors[j].exp
    BY <1>2, <1>3, Zenon DEF Sound, Judged
  <2>. QED
    BY <2>1, <2>2, Zenon DEF Judged
<1>. QED
  BY <1>2, <1>6, <1>7, <1>8, <1>9, <1>10, <1>11, Zenon DEF Sound, Core

-----------------------------------------------------------------------------
(* Passwords and the cells that are guessed about.                         *)

\* A line that shows no password is guessed about in its row.
LEMMA HideInOpen ==
    ASSUME NEW R, NEW C, NEW s, NEW m, Dims(R, C, s, m), NEW p, NEW n, NEW new, NEW q,
           Sound(p, R, C, s, m), Refreshes(p, n, new, C, m),
           q = WithCells(p, n, new), Hide(p, FALSE), Row(p, n) = Last(p.cursors).row,
           \A k \in 0..(C - 1) : Fresh(p, new[k]) => new[k].text \notin {Secret, Linked}
    PROVE  Hide(q, FALSE)
<1>. R \in Nat /\ C \in Nat /\ s \in Nat /\ m \in Nat
  BY DEF Dims
<1>1. /\ p \in PredOf(R, C) /\ n \in DOMAIN p.overlays /\ new \in [0..(C - 1) -> CellOf]
  BY DEF Sound, Core, Refreshes
<1>2. /\ q.confirmed = p.confirmed /\ q.epoch = p.epoch /\ q.cursors = p.cursors
      /\ q.overwrite = p.overwrite
      /\ \A i \in DOMAIN p.overlays : Row(q, i) = Row(p, i)
      /\ \A i, k : i # n => /\ Live(q, i, k) <=> Live(p, i, k)
                            /\ Live(p, i, k) => Cell(q, i, k) = Cell(p, i, k)
      /\ \A k : Live(q, n, k) <=> k \in 0..(C - 1) /\ new[k].active
      /\ \A k : Cell(q, n, k) = new[k]
  BY <1>1, CellsReplaced DEF Kept
<1>3. /\ p.epoch \in Nat /\ \A i \in DOMAIN p.overlays : Row(p, i) \in Nat
      /\ p.sent \in Nat
  <2>1. p.epoch \in Nat /\ p.sent \in Nat
    BY <1>1, PredType
  <2>2. \A i \in DOMAIN p.overlays : Row(p, i) \in 0..(R - 1)
    BY <1>1, LineType
  <2>. QED
    BY <2>1, <2>2
<1>4. Masked(p) /\ Open(p)
  BY DEF Hide
<1>5. \A i, k : Secretive(p, i, k) => i # n /\ Cell(p, i, k).epoch < p.epoch
  <2>. TAKE i, k
  <2>. HAVE Secretive(p, i, k)
  <2>1. Cell(p, i, k).epoch < p.epoch /\ Row(p, i) < Last(p.cursors).row
    BY <1>4, Zenon DEF Open
  <2>2. ~(Row(p, n) < Row(p, n))
    BY <1>1, <1>3
  <2>. QED
    BY <2>1, <2>2, Zenon
<1>6. ASSUME NEW i, NEW k, Live(q, i, k)
      PROVE  /\ Row(q, i) = Row(p, i)
             /\ \/ Live(p, i, k) /\ Cell(q, i, k) = Cell(p, i, k)
                \/ /\ i = n /\ Cell(q, i, k).epoch = p.epoch
                   /\ Cell(q, i, k).text \notin {Secret, Linked}
  <2>1. /\ i \in DOMAIN p.overlays /\ Row(q, i) = Row(p, i)
        /\ \/ Live(p, i, k) /\ Cell(q, i, k) = Cell(p, i, k)
           \/ i = n /\ Fresh(p, Cell(q, i, k)) /\ Cell(q, i, k) = new[k]
    BY <1>1, <1>6, RefreshedCells
  <2>2. CASE i = n /\ Fresh(p, Cell(q, i, k)) /\ Cell(q, i, k) = new[k]
    <3>1. k \in 0..(C - 1)
      BY <1>2, <1>6, <2>2, Zenon
    <3>2. Cell(q, i, k).epoch = p.epoch
      BY <2>2 DEF Fresh
    <3>. QED
      BY <2>1, <2>2, <3>1, <3>2, Zenon
  <2>. QED
    BY <2>1, <2>2, Zenon
<1>7. \A i, k : Secretive(q, i, k) <=> Secretive(p, i, k)
  <2>. TAKE i, k
  <2>1. Secretive(q, i, k) => Secretive(p, i, k)
    BY <1>6, Zenon DEF Secretive
  <2>2. Secretive(p, i, k) => Secretive(q, i, k)
    BY <1>2, <1>5, ZenonT(60) DEF Secretive
  <2>. QED
    BY <2>1, <2>2, Zenon
<1>8. \A i, k : Secretive(p, i, k) => Cell(q, i, k) = Cell(p, i, k) /\ Row(q, i) = Row(p, i)
  BY <1>2, <1>5, ZenonT(60) DEF Secretive, Live
<1>9. Masked(q)
  <2>1. \A i, k : Secretive(q, i, k) => q.confirmed < Cell(q, i, k).epoch
    BY <1>2, <1>4, <1>7, <1>8, ZenonT(60) DEF Masked
  <2>2. ASSUME NEW i, NEW k, Live(q, i, k) PROVE Cell(q, i, k).text # Linked
    BY <1>4, <1>6, <2>2, Zenon DEF Masked
  <2>3. ASSUME NEW i, NEW k, NEW j, NEW l, Plain(q, i, k), Secretive(q, j, l),
               Cell(q, i, k).epoch = Cell(q, j, l).epoch
        PROVE  Witness(q, i, k)
    <3>1. Secretive(p, j, l) /\ Cell(q, j, l) = Cell(p, j, l) /\ Cell(p, j, l).epoch < p.epoch
      BY <1>5, <1>7, <1>8, <2>3, Zenon
    <3>2. Cell(q, i, k).epoch # p.epoch
      BY <1>3, <2>3, <3>1
    <3>3. Live(p, i, k) /\ Cell(q, i, k) = Cell(p, i, k)
      BY <1>6, <2>3, <3>2, Zenon DEF Plain
    <3>4. Witness(p, i, k)
      BY <1>4, <2>3, <3>1, <3>3, Zenon DEF Masked, Plain
    <3>5. PICK j2 : /\ Secretive(p, i, j2) /\ j2 < k
                    /\ Cell(p, i, j2).epoch = Cell(p, i, k).epoch
                    /\ Cell(p, i, j2).exp <= Cell(p, i, k).exp
      BY <3>4, Zenon DEF Witness
    <3>6. Secretive(q, i, j2) /\ Cell(q, i, j2) = Cell(p, i, j2)
      BY <1>7, <1>8, <3>5, Zenon
    <3>. QED
      BY <1>2, <3>3, <3>4, <3>5, <3>6, Zenon DEF Witness
  <2>. QED
    BY <2>1, <2>2, <2>3, Zenon DEF Masked
<1>10. Open(q)
  <2>. SUFFICES ASSUME NEW i, NEW k, Secretive(q, i, k)
                PROVE  Cell(q, i, k).epoch < q.epoch /\ Row(q, i) < Last(q.cursors).row
    BY Zenon DEF Open
  <2>1. Secretive(p, i, k) /\ Cell(q, i, k) = Cell(p, i, k) /\ Row(q, i) = Row(p, i)
    BY <1>7, <1>8, Zenon
  <2>. QED
    BY <1>2, <1>4, <2>1, Zenon DEF Open
<1>. QED
  BY <1>9, <1>10, Zenon DEF Hide

\* A password character is guessed at col, and moves what is right of it.
Inserted(p, n, new, col, C) ==
    /\ col \in 0..(C - 1) /\ Fresh(p, new[col]) /\ new[col].text = Secret
    /\ \A k \in 0..(C - 1) :
           /\ k < col => new[k] = Cell(p, n, k)
           /\ col < k => /\ p.overwrite => new[k] = Cell(p, n, k)
                         /\ ~p.overwrite => Fresh(p, new[k])
    /\ \A k \in 0..(C - 1) : Fresh(p, new[k]) => new[k].text # Linked

\* A password character that is guessed, with what it moves to the right, stays
\* hidden.
LEMMA HideInSilence ==
    ASSUME NEW R, NEW C, NEW s, NEW m, Dims(R, C, s, m), NEW p, NEW n, NEW new, NEW q,
           Sound(p, R, C, s, m), Refreshes(p, n, new, C, m),
           q = WithCells(p, n, new), Hide(p, TRUE), NEW col, Inserted(p, n, new, col, C)
    PROVE  Hide(q, TRUE)
<1>. R \in Nat /\ C \in Nat /\ s \in Nat /\ m \in Nat
  BY DEF Dims
<1>. /\ col \in 0..(C - 1) /\ Fresh(p, new[col]) /\ new[col].text = Secret
     /\ \A k \in 0..(C - 1) :
            /\ k < col => new[k] = Cell(p, n, k)
            /\ col < k => /\ p.overwrite => new[k] = Cell(p, n, k)
                          /\ ~p.overwrite => Fresh(p, new[k])
     /\ \A k \in 0..(C - 1) : Fresh(p, new[k]) => new[k].text # Linked
  BY Zenon DEF Inserted
<1>1. /\ p \in PredOf(R, C) /\ n \in DOMAIN p.overlays /\ new \in [0..(C - 1) -> CellOf]
      /\ DOMAIN p.overlays[n].cells = 0..(C - 1)
  BY LineType DEF Sound, Core, Refreshes
<1>2. /\ q.confirmed = p.confirmed /\ q.epoch = p.epoch /\ q.cursors = p.cursors
      /\ q.overwrite = p.overwrite
      /\ \A i, k : i # n => /\ Live(q, i, k) <=> Live(p, i, k)
                            /\ Live(p, i, k) => Cell(q, i, k) = Cell(p, i, k)
      /\ \A k : Live(q, n, k) <=> k \in 0..(C - 1) /\ new[k].active
      /\ \A k : Cell(q, n, k) = new[k]
  BY <1>1, CellsReplaced DEF Kept
<1>3. p.epoch \in Nat /\ p.sent \in Nat
  BY <1>1, PredType
<1>4. Masked(p) /\ Silent(p)
  BY DEF Hide
<1>5. \A k \in 0..(C - 1) : Fresh(p, new[k]) =>
          new[k].active /\ new[k].exp = p.sent + 1 /\ new[k].epoch = p.epoch
  BY DEF Fresh
\* The password character.
<1>6. /\ Secretive(q, n, col) /\ Cell(q, n, col).epoch = p.epoch
      /\ Cell(q, n, col).exp = p.sent + 1
  BY <1>2, <1>5, Zenon DEF Secretive
\* What is left of it or in another line is as it was.
<1>7. ASSUME NEW i, NEW k, i # n \/ (k \in 0..(C - 1) /\ k < col)
      PROVE  /\ Live(q, i, k) <=> Live(p, i, k)
             /\ Live(p, i, k) => Cell(q, i, k) = Cell(p, i, k)
  <2>1. CASE i # n
    BY <1>2, <2>1, Zenon
  <2>2. CASE i = n /\ k \in 0..(C - 1) /\ k < col
    <3>1. new[k] = Cell(p, n, k) /\ Cell(q, n, k) = new[k]
      BY <1>2, <2>2, Zenon
    <3>2. Live(q, n, k) <=> new[k].active
      BY <1>2, <2>2, Zenon
    <3>3. Live(p, n, k) <=> Cell(p, n, k).active
      BY <1>1, <2>2, Zenon DEF Live
    <3>. QED
      BY <2>2, <3>1, <3>2, <3>3, Zenon
  <2>. QED
    BY <1>7, <2>1, <2>2
<1>8. ASSUME NEW i, NEW k, Live(q, i, k)
      PROVE  \/ i # n \/ (k \in 0..(C - 1) /\ k < col)
             \/ i = n /\ k = col
             \/ i = n /\ k \in 0..(C - 1) /\ col < k
  <2>1. i = n => k \in 0..(C - 1)
    BY <1>2, <1>8, Zenon
  <2>. QED
    BY <2>1
\* A witness stays where it is.
<1>9. ASSUME NEW i, NEW k, Live(q, i, k), Live(p, i, k), Cell(q, i, k) = Cell(p, i, k),
             Witness(p, i, k)
      PROVE  Witness(q, i, k)
  <2>1. ~p.overwrite
    BY <1>9 DEF Witness
  <2>2. PICK j : /\ Secretive(p, i, j) /\ j < k
                 /\ Cell(p, i, j).epoch = Cell(p, i, k).epoch
                 /\ Cell(p, i, j).exp <= Cell(p, i, k).exp
    BY <1>9, Zenon DEF Witness
  <2>3. k \in 0..(C - 1) /\ j \in 0..(C - 1)
    BY <1>1, <1>9, <2>2, CellType DEF Secretive
  <2>4. CASE i # n \/ j < col
    <3>1. Secretive(q, i, j) /\ Cell(q, i, j) = Cell(p, i, j)
      BY <1>7, <2>2, <2>3, <2>4, Zenon DEF Secretive
    <3>. QED
      BY <1>2, <1>9, <2>1, <2>2, <3>1, Zenon DEF Witness
  <2>5. CASE i = n /\ ~(j < col)
    <3>1. col < k
      BY <2>2, <2>3, <2>5
    <3>2. Fresh(p, new[k])
      BY <2>1, <2>3, <3>1, Zenon
    <3>3. Cell(q, n, k).epoch = p.epoch /\ Cell(q, n, k).exp = p.sent + 1
      BY <1>2, <1>5, <2>3, <3>2, ZenonT(60)
    <3>4. Cell(q, n, col).exp <= Cell(q, n, k).exp
      BY <1>3, <1>6, <3>3
    <3>. QED
      BY <1>2, <1>6, <2>1, <2>5, <3>1, <3>3, <3>4, Zenon DEF Witness
  <2>. QED
    BY <2>4, <2>5
\* A guess that was there, or one the character moved.
<1>10. ASSUME NEW i, NEW k, Plain(q, i, k)
       PROVE  \/ Plain(p, i, k) /\ Cell(q, i, k) = Cell(p, i, k)
              \/ Witness(q, i, k) /\ Cell(q, i, k).epoch = p.epoch
  <2>1. Live(q, i, k) /\ Cell(q, i, k).text \notin {Blank, Secret}
    BY <1>10 DEF Plain
  <2>2. CASE i # n \/ (k \in 0..(C - 1) /\ k < col)
    <3>1. Live(p, i, k) /\ Cell(q, i, k) = Cell(p, i, k)
      BY <1>7, <2>1, <2>2, Zenon
    <3>. QED
      BY <2>1, <3>1, Zenon DEF Plain
  <2>3. CASE i = n /\ k = col
    BY <1>6, <2>1, <2>3, Zenon DEF Secretive
  <2>4. CASE i = n /\ k \in 0..(C - 1) /\ col < k /\ p.overwrite
    <3>1. new[k] = Cell(p, n, k) /\ Cell(q, n, k) = new[k]
      BY <1>2, <2>4, Zenon
    <3>2. Live(p, n, k)
      BY <1>1, <1>2, <2>1, <2>4, <3>1, Zenon DEF Live
    <3>. QED
      BY <2>1, <2>4, <3>1, <3>2, Zenon DEF Plain
  <2>5. CASE i = n /\ k \in 0..(C - 1) /\ col < k /\ ~p.overwrite
    <3>1. Fresh(p, new[k])
      BY <2>5, Zenon
    <3>2. Cell(q, n, k).epoch = p.epoch /\ Cell(q, n, k).exp = p.sent + 1
      BY <1>2, <1>5, <2>5, <3>1, Zenon
    <3>3. Cell(q, n, col).exp <= Cell(q, n, k).exp
      BY <1>3, <1>6, <3>2
    <3>. QED
      BY <1>2, <1>6, <2>5, <3>2, <3>3, Zenon DEF Witness
  <2>. QED
    BY <1>8, <2>1, <2>2, <2>3, <2>4, <2>5
<1>11. ASSUME NEW i, NEW k, Plain(q, i, k), Cell(q, i, k).epoch = p.epoch
       PROVE  Witness(q, i, k)
  <2>1. CASE Plain(p, i, k) /\ Cell(q, i, k) = Cell(p, i, k)
    <3>1. Witness(p, i, k)
      BY <1>4, <1>11, <2>1, Zenon DEF Silent
    <3>. QED
      BY <1>9, <1>11, <2>1, <3>1, Zenon DEF Plain
  <2>. QED
    BY <1>10, <1>11, <2>1, Zenon
<1>12. ASSUME NEW j, NEW l, Secretive(q, j, l)
       PROVE  \/ Secretive(p, j, l) /\ Cell(q, j, l) = Cell(p, j, l)
              \/ Cell(q, j, l).epoch = p.epoch
  <2>1. Live(q, j, l)
    BY <1>12 DEF Secretive
  <2>2. CASE Live(p, j, l) /\ Cell(q, j, l) = Cell(p, j, l)
    BY <1>12, <2>2, Zenon DEF Secretive
  <2>3. CASE j = n /\ Fresh(p, Cell(q, j, l))
    BY <2>3 DEF Fresh
  <2>. QED
    BY <1>1, <2>1, <2>2, <2>3, RefreshedCells
<1>13. Masked(q)
  <2>1. ASSUME NEW j, NEW l, Secretive(q, j, l) PROVE q.confirmed < Cell(q, j, l).epoch
    <3>1. CASE Secretive(p, j, l) /\ Cell(q, j, l) = Cell(p, j, l)
      BY <1>2, <1>4, <3>1, Zenon DEF Masked
    <3>2. CASE Cell(q, j, l).epoch = p.epoch
      BY <1>2, <1>4, <3>2, Zenon DEF Silent
    <3>. QED
      BY <1>12, <2>1, <3>1, <3>2
  <2>2. ASSUME NEW i, NEW k, Live(q, i, k) PROVE Cell(q, i, k).text # Linked
    <3>1. CASE Live(p, i, k) /\ Cell(q, i, k) = Cell(p, i, k)
      BY <1>4, <3>1, Zenon DEF Masked
    <3>2. CASE i = n /\ Fresh(p, Cell(q, i, k)) /\ Cell(q, i, k) = new[k]
      BY <1>2, <2>2, <3>2, Zenon
    <3>. QED
      BY <1>1, <2>2, <3>1, <3>2, RefreshedCells
  <2>3. ASSUME NEW i, NEW k, NEW j, NEW l, Plain(q, i, k), Secretive(q, j, l),
               Cell(q, i, k).epoch = Cell(q, j, l).epoch
        PROVE  Witness(q, i, k)
    <3>1. CASE Cell(q, i, k).epoch = p.epoch
      BY <1>11, <2>3, <3>1, Zenon
    <3>2. CASE Cell(q, i, k).epoch # p.epoch
      <4>1. Secretive(p, j, l) /\ Cell(q, j, l) = Cell(p, j, l)
        BY <1>12, <2>3, <3>2
      <4>2. Plain(p, i, k) /\ Cell(q, i, k) = Cell(p, i, k)
        BY <1>10, <2>3, <3>2
      <4>3. Witness(p, i, k)
        BY <1>4, <2>3, <4>1, <4>2, Zenon DEF Masked
      <4>. QED
        BY <1>9, <2>3, <4>2, <4>3, Zenon DEF Plain
    <3>. QED
      BY <3>1, <3>2
  <2>. QED
    BY <2>1, <2>2, <2>3, Zenon DEF Masked
<1>14. Silent(q)
  BY <1>2, <1>4, <1>11, Zenon DEF Silent
<1>. QED
  BY <1>13, <1>14, Zenon DEF Hide

\* The last line is blanked after Enter, or after its last column.
LEMMA HideInBlanks ==
    ASSUME NEW R, NEW C, NEW s, NEW m, Dims(R, C, s, m), NEW p, NEW n, NEW new, NEW q,
           Sound(p, R, C, s, m), Refreshes(p, n, new, C, m),
           q = WithCells(p, n, new), Masked(p), p.confirmed < p.epoch,
           \A i, k : Live(p, i, k) => Cell(p, i, k).epoch < p.epoch,
           Row(p, n) = Last(p.cursors).row,
           \A k \in 0..(C - 1) : Fresh(p, new[k]) /\ new[k].text = Blank
    PROVE  \A odd \in BOOLEAN : Hide(q, odd)
<1>. R \in Nat /\ C \in Nat /\ s \in Nat /\ m \in Nat
  BY DEF Dims
<1>1. /\ p \in PredOf(R, C) /\ n \in DOMAIN p.overlays /\ new \in [0..(C - 1) -> CellOf]
  BY DEF Sound, Core, Refreshes
<1>2. /\ q.confirmed = p.confirmed /\ q.epoch = p.epoch /\ q.cursors = p.cursors
      /\ q.overwrite = p.overwrite
      /\ \A i \in DOMAIN p.overlays : Row(q, i) = Row(p, i)
      /\ \A i, k : i # n => /\ Live(q, i, k) <=> Live(p, i, k)
                            /\ Live(p, i, k) => Cell(q, i, k) = Cell(p, i, k)
      /\ \A k : Live(q, n, k) <=> k \in 0..(C - 1) /\ new[k].active
      /\ \A k : Cell(q, n, k) = new[k]
  BY <1>1, CellsReplaced DEF Kept
<1>3. p.epoch \in Nat
  BY <1>1, PredType
<1>4. \A k : Live(q, n, k) => Cell(q, n, k).text = Blank
  BY <1>2, ZenonT(60)
<1>5. Blank # Secret /\ Blank # Linked
  BY DEF Blank, Secret, Linked
\* Password characters, and what is neither blank, are in other lines.
<1>6. ASSUME NEW i, NEW k, Live(q, i, k), Cell(q, i, k).text # Blank
      PROVE  i # n /\ Live(p, i, k) /\ Cell(q, i, k) = Cell(p, i, k)
  BY <1>2, <1>4, <1>6, Zenon
<1>7. ASSUME NEW i, NEW k, i # n
      PROVE  /\ Secretive(q, i, k) <=> Secretive(p, i, k)
             /\ Live(p, i, k) => Cell(q, i, k) = Cell(p, i, k)
  BY <1>2, <1>7, ZenonT(60) DEF Secretive
<1>8. ASSUME NEW i, NEW k, i # n, Live(p, i, k), Witness(p, i, k) PROVE Witness(q, i, k)
  <2>1. PICK j : /\ Secretive(p, i, j) /\ j < k
                 /\ Cell(p, i, j).epoch = Cell(p, i, k).epoch
                 /\ Cell(p, i, j).exp <= Cell(p, i, k).exp
    BY <1>8, Zenon DEF Witness
  <2>2. Secretive(q, i, j) /\ Cell(q, i, j) = Cell(p, i, j) /\ Cell(q, i, k) = Cell(p, i, k)
    BY <1>7, <1>8, <2>1, Zenon DEF Secretive
  <2>. QED
    BY <1>2, <1>8, <2>1, <2>2, Zenon DEF Witness
<1>9. Masked(q)
  <2>1. ASSUME NEW j, NEW l, Secretive(q, j, l) PROVE q.confirmed < Cell(q, j, l).epoch
    <3>1. Secretive(p, j, l) /\ Cell(q, j, l) = Cell(p, j, l)
      BY <1>5, <1>6, <2>1, Zenon DEF Secretive
    <3>. QED
      BY <1>2, <3>1, Zenon DEF Masked
  <2>2. ASSUME NEW i, NEW k, Live(q, i, k) PROVE Cell(q, i, k).text # Linked
    BY <1>5, <1>6, <2>2, Zenon DEF Masked
  <2>3. ASSUME NEW i, NEW k, NEW j, NEW l, Plain(q, i, k), Secretive(q, j, l),
               Cell(q, i, k).epoch = Cell(q, j, l).epoch
        PROVE  Witness(q, i, k)
    <3>1. i # n /\ Plain(p, i, k) /\ Cell(q, i, k) = Cell(p, i, k)
      BY <1>6, <2>3, Zenon DEF Plain
    <3>2. Secretive(p, j, l) /\ Cell(q, j, l) = Cell(p, j, l)
      BY <1>5, <1>6, <2>3, Zenon DEF Secretive
    <3>3. Witness(p, i, k)
      BY <2>3, <3>1, <3>2, Zenon DEF Masked
    <3>. QED
      BY <1>8, <3>1, <3>3, Zenon DEF Plain
  <2>. QED
    BY <2>1, <2>2, <2>3, Zenon DEF Masked
<1>10. Silent(q)
  <2>1. ASSUME NEW i, NEW k, Plain(q, i, k) PROVE Cell(q, i, k).epoch # q.epoch
    <3>1. Live(p, i, k) /\ Cell(q, i, k) = Cell(p, i, k)
      BY <1>6, <2>1, Zenon DEF Plain
    <3>2. Cell(p, i, k).epoch < p.epoch
      BY <3>1, Zenon
    <3>. QED
      BY <1>2, <1>3, <3>1, <3>2
  <2>. QED
    BY <1>2, <2>1, Zenon DEF Silent
<1>11. Open(q)
  <2>. SUFFICES ASSUME NEW i, NEW k, Secretive(q, i, k)
                PROVE  Cell(q, i, k).epoch < q.epoch /\ Row(q, i) < Last(q.cursors).row
    BY Zenon DEF Open
  <2>1. i # n /\ Live(p, i, k) /\ Cell(q, i, k) = Cell(p, i, k)
    BY <1>5, <1>6, Zenon DEF Secretive
  <2>2. Row(p, i) <= Last(p.cursors).row /\ i \in DOMAIN p.overlays
    BY <2>1, Zenon DEF Sound, Led, Live
  <2>3. Row(p, i) # Row(p, n)
    BY <1>1, <2>1, <2>2, Zenon DEF Sound, Core, Unique
  <2>4. Row(p, i) \in 0..(R - 1) /\ Row(p, n) \in 0..(R - 1)
    BY <1>1, <2>2, LineType
  <2>5. Row(p, i) < Last(p.cursors).row
    BY <2>2, <2>3, <2>4
  <2>. QED
    BY <1>2, <2>1, <2>2, <2>5, Zenon
<1>. QED
  BY <1>9, <1>10, <1>11, Zenon DEF Hide

-----------------------------------------------------------------------------
(* Keys.                                                                   *)

\* Kept is transitive.
LEMMA KeptTrans ==
    ASSUME NEW p, NEW q, NEW r, Kept(p, q), Kept(q, r)
    PROVE  Kept(p, r)
BY Zenon DEF Kept

\* Same is transitive.
LEMMA SameTrans ==
    ASSUME NEW p, NEW q, NEW r, Same(p, q), Same(q, r)
    PROVE  Same(p, r)
BY Zenon DEF Same

\* No guess is of the current epoch.
Ahead(p) ==
    /\ p.confirmed < p.epoch
    /\ \A i, k : Live(p, i, k) => Cell(p, i, k).epoch < p.epoch
    /\ \A j \in DOMAIN p.cursors : p.cursors[j].epoch # p.epoch

\* After become_tentative no guess is of the current epoch, which nothing has
\* confirmed.
LEMMA TentativeAhead ==
    ASSUME NEW R, NEW C, NEW s, NEW m, Dims(R, C, s, m), NEW p, Sound(p, R, C, s, m),
           NEW q, q = become_tentative(p)
    PROVE  /\ Sound(q, R, C, s, m) /\ Kept(p, q) /\ Ahead(q) /\ Same(p, q)
           /\ q.cursors = p.cursors /\ q.overlays = p.overlays /\ q.epoch = p.epoch + 1
           /\ \A odd : Hide(p, odd) => Hide(q, odd)
           /\ Masked(p) => Masked(q) /\ Silent(q)
<1>. R \in Nat /\ C \in Nat /\ s \in Nat /\ m \in Nat
  BY DEF Dims
<1>1. /\ Follows(p, q, R, C, s) /\ Same(p, q) /\ Sound(q, R, C, s, m)
      /\ \A odd : Hide(p, odd) => Hide(q, odd)
      /\ q.epoch = p.epoch + 1 /\ q.cursors = p.cursors /\ q.overlays = p.overlays
  BY Tentative
<1>2. /\ Kept(p, q) /\ q.confirmed = p.confirmed /\ p \in PredOf(R, C)
      /\ p.epoch \in Nat /\ p.confirmed \in Nat /\ p.confirmed <= p.epoch
      /\ \A j \in DOMAIN p.cursors : p.cursors[j].epoch <= p.epoch /\ p.cursors[j].epoch \in Nat
  <2>1. p \in PredOf(R, C) /\ Kept(p, q) /\ q.confirmed = p.confirmed
    BY <1>1 DEF Sound, Core, Follows
  <2>2. p.epoch \in Nat /\ p.confirmed \in Nat
    BY <2>1, PredType
  <2>3. p.confirmed <= p.epoch /\ \A j \in DOMAIN p.cursors : p.cursors[j].epoch <= p.epoch
    BY Zenon DEF Sound, Core, Dated
  <2>4. \A j \in DOMAIN p.cursors : p.cursors[j].epoch \in Nat
    BY <2>1, CursorType
  <2>. QED
    BY <2>1, <2>2, <2>3, <2>4, Zenon
<1>3. ASSUME NEW i, NEW k, Live(q, i, k) PROVE Cell(q, i, k).epoch < q.epoch
  <2>1. Live(p, i, k) /\ Cell(q, i, k) = Cell(p, i, k)
    BY <1>1, <1>3, Zenon DEF Same
  <2>2. Cell(p, i, k).epoch <= p.epoch
    BY <2>1, Zenon DEF Sound, Core, Dated
  <2>3. Cell(p, i, k).epoch \in Nat
    BY <1>2, <2>1, CellType
  <2>. QED
    BY <1>1, <1>2, <2>1, <2>2, <2>3
<1>4. q.confirmed < q.epoch
  BY <1>1, <1>2
<1>5. \A j \in DOMAIN q.cursors : q.cursors[j].epoch # q.epoch
  BY <1>1, <1>2
<1>6. Ahead(q)
  BY <1>3, <1>4, <1>5, Zenon DEF Ahead
<1>7. ASSUME Masked(p) PROVE Masked(q) /\ Silent(q)
  <2>1. q.overwrite = p.overwrite
    BY <1>2 DEF Kept
  <2>2. \A i, k : /\ Secretive(q, i, k) <=> Secretive(p, i, k)
                  /\ Plain(q, i, k) <=> Plain(p, i, k)
                  /\ (Live(p, i, k) /\ Witness(p, i, k)) => Witness(q, i, k)
    BY <1>1, <2>1, SameWitness
  <2>3. Masked(q)
    <3>1. \A i, k : Secretive(q, i, k) => q.confirmed < Cell(q, i, k).epoch
      <4>. TAKE i, k
      <4>. HAVE Secretive(q, i, k)
      <4>1. Secretive(p, i, k) /\ Live(p, i, k)
        BY <2>2, Zenon DEF Secretive
      <4>2. Cell(q, i, k) = Cell(p, i, k)
        BY <1>1, <4>1, Zenon DEF Same
      <4>3. p.confirmed < Cell(p, i, k).epoch
        BY <1>7, <4>1, Zenon DEF Masked
      <4>. QED
        BY <1>2, <4>2, <4>3, Zenon
    <3>2. \A i, k : Live(q, i, k) => Cell(q, i, k).text # Linked
      BY <1>1, <1>7, Zenon DEF Masked, Same
    <3>3. ASSUME NEW i, NEW k, NEW j, NEW l, Plain(q, i, k), Secretive(q, j, l),
                 Cell(q, i, k).epoch = Cell(q, j, l).epoch
          PROVE  Witness(q, i, k)
      <4>1. Plain(p, i, k) /\ Secretive(p, j, l) /\ Live(p, i, k) /\ Live(p, j, l)
        BY <2>2, <3>3, Zenon DEF Plain, Secretive
      <4>2. Cell(q, i, k) = Cell(p, i, k) /\ Cell(q, j, l) = Cell(p, j, l)
        BY <1>1, <4>1, Zenon DEF Same
      <4>3. Witness(p, i, k)
        BY <1>7, <3>3, <4>1, <4>2, Zenon DEF Masked
      <4>. QED
        BY <2>2, <4>1, <4>3, Zenon
    <3>. QED
      BY <3>1, <3>2, <3>3, Zenon DEF Masked
  <2>4. \A i, k : Plain(q, i, k) => Cell(q, i, k).epoch # q.epoch
    <3>. TAKE i, k
    <3>. HAVE Plain(q, i, k)
    <3>1. Cell(q, i, k).epoch < q.epoch
      BY <1>3, Zenon DEF Plain
    <3>2. ~(q.epoch < q.epoch)
      BY <1>1, <1>2
    <3>. QED
      BY <3>1, <3>2, Zenon
  <2>. QED
    BY <1>4, <2>3, <2>4, Zenon DEF Silent
<1>. QED
  BY <1>1, <1>2, <1>6, <1>7, Zenon

NoLinks(fb) == \A r \in RowNumbers(fb), k \in Columns(fb) : fb.cell[r][k] # Linked

\* newline_carriage_return keeps the predictor sound, and passwords hidden
\* whichever line is next.
LEMMA NewLine ==
    ASSUME NEW R, NEW C, NEW s, NEW m, Dims(R, C, s, m), NEW p, Sound(p, R, C, s, m),
           NEW fb, Fits(fb, R, C), Ready(p, s), p.sent + 1 <= m, Ahead(p),
           NEW t \in Nat, NEW q, q = newline_carriage_return(p, fb, t)
    PROVE  /\ Sound(q, R, C, s, m) /\ Kept(p, q)
           /\ (Masked(p) /\ NoLinks(fb)) => \A odd \in BOOLEAN : Hide(q, odd)
<1>. R \in Nat /\ C \in Nat /\ s \in Nat /\ m \in Nat
  BY DEF Dims
<1>. DEFINE a == init_cursor(p, fb)
            row == Last(a.cursors).row
<1>1. /\ Follows(p, a, R, C, s) /\ Same(p, a) /\ Sound(a, R, C, s, m)
      /\ \A odd : Hide(p, odd) => Hide(a, odd)
      /\ a.epoch = p.epoch /\ a.overlays = p.overlays
      /\ a.cursors # <<>> /\ Last(a.cursors).epoch = p.epoch
      /\ Last(a.cursors).exp = p.sent + 1
  <2>1. \A j \in DOMAIN p.cursors : p.cursors[j].epoch # p.epoch
    BY DEF Ahead
  <2>. QED
    BY <2>1, Initialised
<1>2. /\ p \in PredOf(R, C) /\ a \in PredOf(R, C) /\ Kept(p, a) /\ a.confirmed = p.confirmed
      /\ p.epoch \in Nat /\ p.sent \in Nat
  BY <1>1, PredType DEF Sound, Core, Follows
<1>3. /\ fb.rows = R /\ fb.cols = C /\ R # 0 /\ C # 0 /\ Columns(fb) = 0..(C - 1)
      /\ RowNumbers(fb) = 0..(R - 1)
  BY FrameType
<1>4. row \in 0..(R - 1) /\ 0 \in 0..(C - 1) /\ row <= row
  <2>1. row \in 0..(R - 1)
    BY <1>1, <1>2, CursorType
  <2>. QED
    BY <1>3, <2>1
<1>5. Masked(p) => Hide(p, TRUE)
  <2>. HAVE Masked(p)
  <2>1. p.confirmed < p.epoch
    BY DEF Ahead
  <2>2. \A i, k : Plain(p, i, k) => Cell(p, i, k).epoch # p.epoch
    <3>. TAKE i, k
    <3>. HAVE Plain(p, i, k)
    <3>1. Cell(p, i, k).epoch < p.epoch
      BY Zenon DEF Plain, Ahead
    <3>2. ~(p.epoch < p.epoch)
      BY <1>2
    <3>. QED
      BY <3>1, <3>2, Zenon
  <2>. QED
    BY <2>1, <2>2, Zenon DEF Hide, Silent
<1>6. q = IF row # R - 1 THEN MoveCursor(a, row + 1, 0)
          ELSE IF \E k \in Columns(fb) : fb.cell[row][k] = Linked
          THEN become_tentative(MoveCursor(a, row, 0))
          ELSE LET made == get_or_make_row(MoveCursor(a, row, 0), row, fb)
                   n == LineIndex(made, row)
                   new == [k \in DOMAIN made.overlays[n].cells |->
                             [made.overlays[n].cells[k] EXCEPT !.active = TRUE, !.text = Blank,
                              !.exp = p.sent + 1, !.epoch = p.epoch, !.time = t]]
               IN  WithCells(made, n, new)
  BY <1>3, Zenon DEF newline_carriage_return, Cursor, WithCells
<1>. HIDE DEF a, row
<1>7. CASE row # R - 1
  <2>1. row + 1 \in 0..(R - 1) /\ row <= row + 1 /\ row \in Int
    BY <1>4, <1>7
  <2>2. q = MoveCursor(a, row + 1, 0)
    BY <1>6, <1>7, Zenon
  <2>. DEFINE next == row + 1
  <2>3. next \in 0..(R - 1) /\ Last(a.cursors).row <= next /\ q = MoveCursor(a, next, 0)
    BY <2>1, <2>2 DEF row
  <2>4. row < next
    BY <2>1
  <2>. HIDE DEF next
  <2>5. /\ Follows(a, q, R, C, s) /\ Same(a, q) /\ Sound(q, R, C, s, m)
        /\ \A odd : Hide(a, odd) => Hide(q, odd)
        /\ q.epoch = a.epoch /\ Last(q.cursors).row = next
    <3>1. Sound(a, R, C, s, m) /\ a.cursors # <<>> /\ InFrame(next, 0, R, C)
      BY <1>1, <1>4, <2>3, Zenon DEF InFrame
    <3>. QED
      BY <2>3, <3>1, Moved
  <2>6. Kept(p, q)
    BY <1>2, <2>5, KeptTrans DEF Follows
  <2>7. Masked(p) => Hide(q, TRUE)
    BY <1>1, <1>5, <2>5
  <2>8. ASSUME Masked(p) PROVE Hide(q, FALSE)
    <3>1. Masked(q)
      BY <2>7, <2>8 DEF Hide
    <3>. SUFFICES ASSUME NEW i, NEW k, Secretive(q, i, k)
                  PROVE  Cell(q, i, k).epoch < q.epoch /\ Row(q, i) < Last(q.cursors).row
      BY <3>1, Zenon DEF Hide, Open
    <3>2. /\ Live(a, i, k) /\ Cell(q, i, k) = Cell(a, i, k) /\ Row(q, i) = Row(a, i)
          /\ Live(p, i, k) /\ Cell(a, i, k) = Cell(p, i, k)
      BY <1>1, <2>5, Zenon DEF Same, Secretive
    <3>3. Cell(p, i, k).epoch < p.epoch
      BY <3>2, Zenon DEF Ahead
    <3>4. Row(a, i) <= row
      BY <1>1, <3>2, Zenon DEF Sound, Led, row
    <3>5. Row(a, i) \in 0..(R - 1)
      BY <1>2, <3>2, CellType
    <3>6. Row(a, i) < next
      BY <2>1, <3>4, <3>5 DEF next
    <3>. QED
      BY <1>1, <2>5, <3>2, <3>3, <3>6, Zenon
  <2>. QED
    BY <2>5, <2>6, <2>7, <2>8, Zenon
<1>8. CASE row = R - 1
  <2>. DEFINE home == MoveCursor(a, row, 0)
  <2>1. /\ Follows(a, home, R, C, s) /\ Same(a, home) /\ Sound(home, R, C, s, m)
        /\ \A odd : Hide(a, odd) => Hide(home, odd)
        /\ home.epoch = a.epoch /\ home.cursors # <<>> /\ Last(home.cursors).row = row
        /\ Last(home.cursors).exp = Last(a.cursors).exp
    <3>1. home = MoveCursor(a, row, 0) /\ Last(a.cursors).row <= row
      BY <1>4 DEF row
    <3>. HIDE DEF home
    <3>2. Sound(a, R, C, s, m) /\ a.cursors # <<>>
      BY <1>1, Zenon
    <3>3. InFrame(row, 0, R, C)
      BY <1>4, Zenon DEF InFrame
    <3>. QED
      BY <3>1, <3>2, <3>3, Moved
  <2>2. Kept(p, home) /\ home.confirmed = p.confirmed /\ Same(p, home)
    <3>1. Kept(a, home) /\ home.confirmed = a.confirmed
      BY <2>1 DEF Follows
    <3>. QED
      BY <1>1, <1>2, <2>1, <3>1, KeptTrans, SameTrans
  <2>3. CASE \E k \in Columns(fb) : fb.cell[row][k] = Linked
    <3>1. q = become_tentative(home)
      BY <1>6, <1>8, <2>3, Zenon
    <3>. HIDE DEF home
    <3>2. Sound(q, R, C, s, m) /\ Kept(home, q)
      BY <2>1, <3>1, TentativeAhead
    <3>3. ~NoLinks(fb)
      BY <1>3, <1>4, <2>3, Zenon DEF NoLinks
    <3>. QED
      BY <2>2, <3>2, <3>3, KeptTrans
  <2>4. CASE ~ \E k \in Columns(fb) : fb.cell[row][k] = Linked
    <3>. DEFINE made == get_or_make_row(home, row, fb)
                n == LineIndex(made, row)
                new == [k \in DOMAIN made.overlays[n].cells |->
                             [made.overlays[n].cells[k] EXCEPT !.active = TRUE, !.text = Blank,
                              !.exp = p.sent + 1, !.epoch = p.epoch, !.time = t]]
    <3>1. q = WithCells(made, n, new)
      BY <1>6, <1>8, <2>4, Zenon
    <3>. HIDE DEF home
    <3>2. /\ Follows(home, made, R, C, s) /\ Same(home, made) /\ Sound(made, R, C, s, m)
          /\ \A odd : Hide(home, odd) => Hide(made, odd)
          /\ made.epoch = home.epoch /\ made.cursors = home.cursors
          /\ n \in DOMAIN made.overlays /\ Row(made, n) = row
      <4>1. made = get_or_make_row(home, row, fb)
        OBVIOUS
      <4>. HIDE DEF made
      <4>2. Sound(home, R, C, s, m) /\ IsRow(row, R)
        BY <1>4, <2>1, Zenon DEF IsRow
      <4>. QED
        BY <4>1, <4>2, RowMade
    <3>. HIDE DEF made, n
    <3>3. /\ Kept(home, made) /\ made.confirmed = home.confirmed /\ made \in PredOf(R, C)
      BY <3>2 DEF Follows
    <3>4. Kept(p, made) /\ Same(p, made) /\ made.sent = p.sent /\ made.epoch = p.epoch
          /\ made.confirmed = p.confirmed
      <4>1. Kept(p, made)
        BY <2>2, <3>3, KeptTrans
      <4>2. Same(p, made)
        BY <2>2, <3>2, SameTrans
      <4>. QED
        BY <1>1, <2>1, <2>2, <3>2, <3>3, <4>1, <4>2 DEF Kept
    <3>5. /\ DOMAIN made.overlays[n].cells = 0..(C - 1)
          /\ \A k \in 0..(C - 1) : made.overlays[n].cells[k] \in CellOf
      BY <3>2, <3>3, LineType, SMTT(60)
    <3>6. \A k \in 0..(C - 1) : Fresh(made, new[k]) /\ new[k].text = Blank
      <4>. TAKE k \in 0..(C - 1)
      <4>. DEFINE c == made.overlays[n].cells[k]  e == p.sent + 1
                  d == [c EXCEPT !.active = TRUE, !.text = Blank, !.exp = e,
                                 !.epoch = p.epoch, !.time = t]
      <4>1. c \in CellOf /\ e \in Nat /\ Blank \in Glyphs
        BY <1>2, <3>5 DEF Glyphs
      <4>2. new[k] = d
        BY <3>5
      <4>. HIDE DEF c, e, new
      <4>3. /\ d \in CellOf /\ d.active /\ d.exp = e /\ d.epoch = p.epoch /\ d.text = Blank
        BY <1>2, <4>1 DEF CellOf
      <4>. HIDE DEF d
      <4>. QED
        BY <3>4, <4>2, <4>3 DEF Fresh, e
    <3>7. new \in [0..(C - 1) -> CellOf]
      <4>1. \A k \in 0..(C - 1) : new[k] \in CellOf
        BY <3>6, Zenon DEF Fresh
      <4>2. new = [k \in 0..(C - 1) |-> new[k]]
        BY <3>5
      <4>. HIDE DEF new
      <4>. QED
        BY <4>1, <4>2
    <3>. HIDE DEF new
    <3>8. Last(made.cursors).exp = made.sent + 1 /\ Row(made, n) <= Last(made.cursors).row
          /\ made.sent + 1 <= m /\ Row(made, n) = Last(made.cursors).row /\ made.cursors # <<>>
      BY <1>1, <1>4, <2>1, <3>2, <3>4
    <3>9. Refreshes(made, n, new, C, m)
      BY <3>2, <3>6, <3>7, <3>8, Zenon DEF Refreshes
    <3>10. Ready(made, s)
      BY <3>4, KeptReady
    <3>11. Sound(q, R, C, s, m) /\ Kept(made, q)
      BY <3>1, <3>2, <3>9, <3>10, Refreshed
    <3>12. ASSUME Masked(p) PROVE \A odd \in BOOLEAN : Hide(q, odd)
      <4>1. Masked(made)
        BY <1>1, <1>5, <2>1, <3>2, <3>12, Zenon DEF Hide
      <4>2. made.confirmed < made.epoch
        BY <3>4, Zenon DEF Ahead
      <4>3. \A i, k : Live(made, i, k) => Cell(made, i, k).epoch < made.epoch
        BY <3>4, Zenon DEF Ahead, Same
      <4>. QED
        BY <3>1, <3>2, <3>6, <3>8, <3>9, <4>1, <4>2, <4>3, HideInBlanks
    <3>13. Kept(p, q)
      BY <3>4, <3>11, KeptTrans
    <3>. QED
      BY <3>11, <3>12, <3>13, Zenon
  <2>. QED
    BY <2>3, <2>4, Zenon
<1>. QED
  BY <1>7, <1>8, Zenon

\* Guess makes a guess about the message that is being sent.
LEMMA GuessFresh ==
    ASSUME NEW p, p.sent \in Nat, p.epoch \in Nat, NEW c \in CellOf, NEW shown \in Glyphs,
           NEW unknown \in BOOLEAN, NEW text \in Glyphs, NEW t \in Nat,
           NEW q, q.sent = p.sent, q.epoch = p.epoch
    PROVE  /\ Fresh(q, Guess(p, c, shown, unknown, text, t))
           /\ Guess(p, c, shown, unknown, text, t).text = IF unknown THEN Blank ELSE text
<1>. DEFINE o == {Text(shown)} \cup IF c.active /\ ~c.unknown THEN c.orig \cup {c.text} ELSE {}
            x == IF unknown THEN Blank ELSE text
            g == Guess(p, c, shown, unknown, text, t)
<1>1. Blank \in Glyphs /\ Text(shown) \in Glyphs
  BY DEF Glyphs, Text
<1>2. o \in SUBSET Glyphs
  BY <1>1 DEF CellOf
<1>3. x \in Glyphs /\ (unknown => x = Blank)
  BY <1>1
<1>4. g = [active |-> TRUE, exp |-> p.sent + 1, epoch |-> p.epoch, time |-> t,
           unknown |-> unknown, text |-> x, orig |-> o]
  BY Zenon DEF Guess
<1>. HIDE DEF o, x, g
<1>5. /\ g \in CellOf /\ g.active /\ g.exp = p.sent + 1 /\ g.epoch = p.epoch
      /\ g.unknown = unknown /\ g.text = x
  BY <1>2, <1>3, <1>4 DEF CellOf
<1>6. Fresh(q, g)
  BY <1>3, <1>5 DEF Fresh
<1>. QED
  BY <1>5, <1>6, Zenon DEF g, x

\* A frame without passwords and links.
Tame(fb) == \A r \in RowNumbers(fb), k \in Columns(fb) : fb.cell[r][k] \notin {Secret, Linked}

\* A frame without passwords and links has no links.
LEMMA TameNoLinks ==
    ASSUME NEW fb, Tame(fb)
    PROVE  NoLinks(fb)
BY Zenon DEF Tame, NoLinks

\* What a cell of the line holds, for the cell beside it.
LEMMA ShiftFresh ==
    ASSUME NEW p, p.sent \in Nat, p.epoch \in Nat, NEW c \in CellOf, NEW shown \in Glyphs,
           NEW b \in CellOf, NEW bs \in Glyphs, NEW t \in Nat,
           NEW q, q.sent = p.sent, q.epoch = p.epoch
    PROVE  /\ Fresh(q, ShiftFrom(p, c, shown, b, bs, t))
           /\ ShiftFrom(p, c, shown, b, bs, t).text \in
                  {Blank, bs} \cup IF b.active THEN {b.text} ELSE {}
<1>. DEFINE u == b.active /\ b.unknown
            x == IF b.active THEN b.text ELSE bs
<1>1. u \in BOOLEAN /\ x \in Glyphs
  BY DEF CellOf
<1>2. x \in {Blank, bs} \cup IF b.active THEN {b.text} ELSE {}
  OBVIOUS
<1>3. ShiftFrom(p, c, shown, b, bs, t) = Guess(p, c, shown, u, x, t)
  BY Zenon DEF ShiftFrom
<1>. HIDE DEF u, x
<1>4. /\ Fresh(q, Guess(p, c, shown, u, x, t))
      /\ Guess(p, c, shown, u, x, t).text = IF u THEN Blank ELSE x
  BY <1>1, GuessFresh
<1>5. Guess(p, c, shown, u, x, t).text \in {Blank, bs} \cup IF b.active THEN {b.text} ELSE {}
  BY <1>1, <1>2, <1>4
<1>. QED
  BY <1>3, <1>4, <1>5, Zenon

\* The line of the cursor holds no password while another line is typed.
LEMMA OpenLine ==
    ASSUME NEW R, NEW C, NEW s, NEW m, Dims(R, C, s, m), NEW p, Sound(p, R, C, s, m),
           Masked(p), Open(p), NEW n \in DOMAIN p.overlays, Row(p, n) = Last(p.cursors).row,
           NEW k, Live(p, n, k)
    PROVE  Cell(p, n, k).text \notin {Secret, Linked}
<1>1. R \in Nat /\ C \in Nat /\ p \in PredOf(R, C)
  BY DEF Sound, Core, Dims
<1>2. Row(p, n) \in 0..(R - 1)
  BY <1>1, LineType
<1>3. ~(Row(p, n) < Row(p, n))
  BY <1>2
<1>4. ~Secretive(p, n, k)
  BY <1>3, Zenon DEF Open
<1>. QED
  BY <1>4, Zenon DEF Secretive, Masked

\* Cells of a line of the overlays, live or not.
LEMMA LineCells ==
    ASSUME NEW R, NEW C, NEW s, NEW m, Dims(R, C, s, m), NEW p, Sound(p, R, C, s, m),
           NEW n \in DOMAIN p.overlays
    PROVE  /\ DOMAIN p.overlays[n].cells = 0..(C - 1)
           /\ \A k \in 0..(C - 1) : /\ Cell(p, n, k) \in CellOf
                                    /\ Cell(p, n, k).active => Live(p, n, k)
<1>1. R \in Nat /\ C \in Nat /\ p \in PredOf(R, C)
  BY DEF Sound, Core, Dims
<1>2. /\ DOMAIN p.overlays[n].cells = 0..(C - 1)
      /\ p.overlays[n].cells \in [0..(C - 1) -> CellOf]
  BY <1>1, LineType
<1>3. \A k \in 0..(C - 1) : Cell(p, n, k) \in CellOf
  BY <1>2 DEF Cell
<1>. QED
  BY <1>2, <1>3, Zenon DEF Live

\* The line of the cursor, made and its cursor expired.
LEMMA LineReady ==
    ASSUME NEW R, NEW C, NEW s, NEW m, Dims(R, C, s, m), NEW p, Sound(p, R, C, s, m),
           p.cursors # <<>>, NEW fb, Fits(fb, R, C), NEW q,
           q = ExpireCursor(get_or_make_row(p, Last(p.cursors).row, fb))
    PROVE  LET n == LineIndex(q, Last(p.cursors).row)
           IN  /\ Sound(q, R, C, s, m) /\ Kept(p, q) /\ q.epoch = p.epoch
               /\ \A odd : Hide(p, odd) => Hide(q, odd)
               /\ q.cursors # <<>> /\ Last(q.cursors).exp = q.sent + 1
               /\ Last(q.cursors).row = Last(p.cursors).row
               /\ Last(q.cursors).col = Last(p.cursors).col
               /\ n \in DOMAIN q.overlays /\ Row(q, n) = Last(p.cursors).row
<1>. R \in Nat /\ C \in Nat /\ s \in Nat /\ m \in Nat
  BY DEF Dims
<1>. DEFINE row == Last(p.cursors).row
            a == get_or_make_row(p, row, fb)
<1>1. p \in PredOf(R, C)
  BY DEF Sound, Core
<1>2. row \in 0..(R - 1)
  BY <1>1, CursorType
<1>3. q = ExpireCursor(a)
  OBVIOUS
<1>. HIDE DEF row
<1>4. /\ Follows(p, a, R, C, s) /\ Same(p, a) /\ Sound(a, R, C, s, m)
      /\ \A odd : Hide(p, odd) => Hide(a, odd)
      /\ a.epoch = p.epoch /\ a.cursors = p.cursors
      /\ \E i \in DOMAIN a.overlays : Row(a, i) = row
  <2>0. IsRow(row, R)
    BY <1>2 DEF IsRow
  <2>1. a = get_or_make_row(p, row, fb)
    OBVIOUS
  <2>. HIDE DEF a
  <2>2. Dims(R, C, s, m) /\ Fits(fb, R, C) /\ Sound(p, R, C, s, m)
    OBVIOUS
  <2>3. /\ Follows(p, a, R, C, s) /\ Same(p, a) /\ Sound(a, R, C, s, m)
        /\ \A odd : Hide(p, odd) => Hide(a, odd)
        /\ a.epoch = p.epoch /\ a.cursors = p.cursors
        /\ \E i \in DOMAIN a.overlays : Row(a, i) = row
        /\ LineIndex(a, row) \in DOMAIN a.overlays /\ Row(a, LineIndex(a, row)) = row
    BY <2>0, <2>1, <2>2, RowMade, SMTT(60)
  <2>. QED
    BY <2>3, Zenon
<1>. HIDE DEF a
<1>5. /\ Follows(a, q, R, C, s) /\ Same(a, q) /\ Sound(q, R, C, s, m)
      /\ \A odd : Hide(a, odd) => Hide(q, odd)
      /\ q.epoch = a.epoch /\ q.overlays = a.overlays
      /\ q.cursors # <<>> /\ Last(q.cursors).exp = a.sent + 1
      /\ Last(q.cursors).row = Last(a.cursors).row
      /\ Last(q.cursors).col = Last(a.cursors).col
  <2>1. a.cursors # <<>>
    BY <1>4, Zenon
  <2>. QED
    BY <1>3, <1>4, <2>1, Expired
<1>6. Kept(p, q) /\ q.sent = a.sent
  <2>1. Kept(p, a) /\ Kept(a, q)
    BY <1>4, <1>5 DEF Follows
  <2>. QED
    BY <2>1, KeptTrans DEF Kept
<1>7. \E i \in DOMAIN q.overlays : Row(q, i) = row
  BY <1>4, <1>5, Zenon DEF Row
<1>8. LineIndex(q, row) \in DOMAIN q.overlays /\ Row(q, LineIndex(q, row)) = row
  BY <1>7, LineFound, Zenon
<1>. QED
  BY <1>4, <1>5, <1>6, <1>8, Zenon DEF row

\* Where cells are guessed about: line n of q, of the row of the cursor, by
\* what p stood for when the key was struck.
Ground(p, q, n, fb, R, C, s, m) ==
    /\ Sound(q, R, C, s, m) /\ q.sent = p.sent /\ q.epoch = p.epoch
    /\ n \in DOMAIN q.overlays /\ Row(q, n) = Last(q.cursors).row /\ Fits(fb, R, C)

\* The types of what a cell of the cursor's line is guessed from.
LEMMA GroundFacts ==
    ASSUME NEW R, NEW C, NEW s, NEW m, Dims(R, C, s, m), NEW p, NEW q, NEW n, NEW fb,
           Ground(p, q, n, fb, R, C, s, m)
    PROVE  /\ p.sent \in Nat /\ p.epoch \in Nat /\ q.sent = p.sent /\ q.epoch = p.epoch
           /\ Row(q, n) \in 0..(R - 1) /\ R \in Nat /\ C \in Nat
           /\ \A k \in 0..(C - 1) :
                  /\ fb.cell[Row(q, n)][k] \in Glyphs /\ Cell(q, n, k) \in CellOf
                  /\ Cell(q, n, k).active => Live(q, n, k)
                  /\ Tame(fb) => fb.cell[Row(q, n)][k] \notin {Secret, Linked}
<1>1. R \in Nat /\ C \in Nat /\ s \in Nat /\ m \in Nat
  BY DEF Dims
<1>2. /\ q \in PredOf(R, C) /\ q.sent = p.sent /\ q.epoch = p.epoch /\ n \in DOMAIN q.overlays
      /\ Sound(q, R, C, s, m) /\ Fits(fb, R, C)
  BY DEF Ground, Sound, Core
<1>3. q.sent \in Nat /\ q.epoch \in Nat
  BY <1>1, <1>2, PredType
<1>4. Row(q, n) \in 0..(R - 1)
  BY <1>1, <1>2, LineType
<1>5. /\ Columns(fb) = 0..(C - 1) /\ RowNumbers(fb) = 0..(R - 1)
      /\ \A r \in 0..(R - 1), k \in 0..(C - 1) : fb.cell[r][k] \in Glyphs
  BY <1>1, <1>2, FrameType
<1>6. \A k \in 0..(C - 1) : /\ Cell(q, n, k) \in CellOf
                            /\ Cell(q, n, k).active => Live(q, n, k)
  BY <1>2, LineCells
<1>7. Tame(fb) => \A k \in 0..(C - 1) : fb.cell[Row(q, n)][k] \notin {Secret, Linked}
  BY <1>4, <1>5, Zenon DEF Tame
<1>. QED
  BY <1>1, <1>2, <1>3, <1>4, <1>5, <1>6, <1>7

\* A guess in the cursor's line is fresh, and holds what was typed.
LEMMA GuessedAt ==
    ASSUME NEW R, NEW C, NEW s, NEW m, Dims(R, C, s, m), NEW p, NEW q, NEW n, NEW fb,
           Ground(p, q, n, fb, R, C, s, m), NEW k, IsRow(k, C), NEW u \in BOOLEAN,
           NEW x \in Glyphs, NEW t \in Nat, NEW g,
           g = Guess(p, Cell(q, n, k), fb.cell[Row(q, n)][k], u, x, t)
    PROVE  Fresh(q, g) /\ g.text = IF u THEN Blank ELSE x
<1>. DEFINE shown == fb.cell[Row(q, n)][k]
            c == Cell(q, n, k)
<1>1. k \in 0..(C - 1)
  BY DEF IsRow
<1>2. /\ p.sent \in Nat /\ p.epoch \in Nat /\ q.sent = p.sent /\ q.epoch = p.epoch
      /\ shown \in Glyphs /\ c \in CellOf
  BY <1>1, GroundFacts
<1>3. g = Guess(p, c, shown, u, x, t)
  OBVIOUS
<1>. HIDE DEF shown, c
<1>4. /\ Fresh(q, Guess(p, c, shown, u, x, t))
      /\ Guess(p, c, shown, u, x, t).text = IF u THEN Blank ELSE x
  BY <1>2, GuessFresh
<1>. QED
  BY <1>3, <1>4, Zenon

\* A cell that takes what its neighbour shows is fresh, and shows no password in
\* a line that has none.
LEMMA ShiftedAt ==
    ASSUME NEW R, NEW C, NEW s, NEW m, Dims(R, C, s, m), NEW p, NEW q, NEW n, NEW fb,
           Ground(p, q, n, fb, R, C, s, m), NEW k, IsRow(k, C), NEW j, IsRow(j, C),
           NEW t \in Nat, NEW g,
           g = ShiftFrom(p, Cell(q, n, k), fb.cell[Row(q, n)][k],
                         Cell(q, n, j), fb.cell[Row(q, n)][j], t)
    PROVE  /\ Fresh(q, g)
           /\ (Masked(q) /\ Tame(fb)) => g.text # Linked
           /\ (Hide(q, FALSE) /\ Tame(fb)) => g.text \notin {Secret, Linked}
<1>. DEFINE shown == fb.cell[Row(q, n)][k]
            c == Cell(q, n, k)
            bs == fb.cell[Row(q, n)][j]
            b == Cell(q, n, j)
<1>1. k \in 0..(C - 1) /\ j \in 0..(C - 1)
  BY DEF IsRow
<1>2. /\ p.sent \in Nat /\ p.epoch \in Nat /\ q.sent = p.sent /\ q.epoch = p.epoch
      /\ shown \in Glyphs /\ c \in CellOf /\ bs \in Glyphs /\ b \in CellOf
      /\ Tame(fb) => bs \notin {Secret, Linked}
      /\ b.active => Live(q, n, j)
  BY <1>1, GroundFacts
<1>3. g = ShiftFrom(p, c, shown, b, bs, t)
  OBVIOUS
<1>4. Masked(q) /\ b.active => b.text # Linked
  BY <1>2, Zenon DEF Masked
<1>5. Hide(q, FALSE) /\ b.active => b.text \notin {Secret, Linked}
  <2>. HAVE Hide(q, FALSE) /\ b.active
  <2>1. Masked(q) /\ Open(q)
    BY DEF Hide
  <2>2. Sound(q, R, C, s, m) /\ n \in DOMAIN q.overlays /\ Row(q, n) = Last(q.cursors).row
    BY DEF Ground
  <2>3. Live(q, n, j)
    BY <1>2
  <2>4. Cell(q, n, j).text \notin {Secret, Linked}
    BY <2>1, <2>2, <2>3, OpenLine
  <2>. QED
    BY <2>4
<1>. HIDE DEF shown, c, bs, b
<1>6. /\ Fresh(q, ShiftFrom(p, c, shown, b, bs, t))
      /\ ShiftFrom(p, c, shown, b, bs, t).text \in
             {Blank, bs} \cup IF b.active THEN {b.text} ELSE {}
  BY <1>2, ShiftFresh
<1>7. Fresh(q, g) /\ (g.text = Blank \/ g.text = bs \/ (b.active /\ g.text = b.text))
  BY <1>3, <1>6
<1>8. Blank \notin {Secret, Linked}
  BY DEF Blank, Secret, Linked
<1>9. Hide(q, FALSE) => Masked(q)
  BY DEF Hide
<1>. QED
  BY <1>2, <1>4, <1>5, <1>7, <1>8, Zenon

\* A blank is neither a password character nor a link.
LEMMA BlankGlyph == Blank \in Glyphs /\ Blank \notin {Secret, Linked}
BY DEF Blank, Glyphs, Secret, Linked

\* A letter is a glyph, and neither a link nor a blank.
LEMMA LetterGlyph ==
    ASSUME NEW ch \in Letters
    PROVE  ch \in Glyphs /\ ch # Linked /\ ch # Blank
BY PredictorAssumption DEF Glyphs

\* backspace keeps the predictor sound, and hides what it hid where no password
\* is typed.
LEMMA Backspaced ==
    ASSUME NEW R, NEW C, NEW s, NEW m, Dims(R, C, s, m), NEW p, Sound(p, R, C, s, m),
           NEW fb, Fits(fb, R, C), Ready(p, s), p.sent + 1 <= m, p.cursors # <<>>,
           NEW t \in Nat, NEW q, q = backspace(p, fb, t)
    PROVE  /\ Sound(q, R, C, s, m) /\ Kept(p, q)
           /\ (Hide(p, FALSE) /\ Tame(fb)) => Hide(q, FALSE)
<1>. R \in Nat /\ C \in Nat /\ s \in Nat /\ m \in Nat
  BY DEF Dims
<1>. DEFINE row == Last(p.cursors).row
            col == Last(p.cursors).col - 1
            e == ExpireCursor(get_or_make_row(p, row, fb))
            a == MoveCursor(e, row, col)
            n == LineIndex(a, row)
            old == a.overlays[n].cells
            shown(k) == fb.cell[row][k]
            new == IF p.overwrite
                   THEN [old EXCEPT ![col] = Guess(p, @, shown(col), FALSE, Blank, t)]
                   ELSE [k \in Columns(fb) |->
                       IF k < col THEN old[k]
                       ELSE IF k + 2 < fb.cols
                       THEN ShiftFrom(p, old[k], shown(k), old[k + 1], shown(k + 1), t)
                       ELSE Guess(p, old[k], shown(k), TRUE, Blank, t)]
<1>1. /\ p \in PredOf(R, C) /\ p.sent \in Nat /\ p.epoch \in Nat
      /\ row \in 0..(R - 1) /\ col + 1 \in 0..(C - 1)
  <2>1. p \in PredOf(R, C)
    BY DEF Sound, Core
  <2>2. p.sent \in Nat /\ p.epoch \in Nat
    BY <2>1, PredType
  <2>3. Last(p.cursors).row \in 0..(R - 1) /\ Last(p.cursors).col \in 0..(C - 1)
    BY <2>1, CursorType
  <2>4. Last(p.cursors).col - 1 + 1 \in 0..(C - 1)
    BY <2>3
  <2>. QED
    BY <2>1, <2>2, <2>3, <2>4
<1>2. /\ fb.rows = R /\ fb.cols = C /\ Columns(fb) = 0..(C - 1)
      /\ RowNumbers(fb) = 0..(R - 1)
  <2>. HIDE DEF new, shown, row, col, n, a, e, old
  <2>1. /\ fb.rows = R /\ fb.cols = C /\ fb.row \in 0..(R - 1) /\ fb.col \in 0..(C - 1)
        /\ R # 0 /\ C # 0 /\ Columns(fb) = 0..(C - 1) /\ RowNumbers(fb) = 0..(R - 1)
        /\ \A r \in 0..(R - 1), k \in 0..(C - 1) : fb.cell[r][k] \in Glyphs
    BY FrameType
  <2>. QED
    BY <2>1
<1>3. \/ q = p
      \/ q = become_tentative(p)
      \/ col \in 0..(C - 1) /\ q = WithCells(a, n, new)
  <2>1. col \in 0..(C - 1) \/ col < 0
    <3>1. Last(p.cursors).col \in 0..(C - 1)
      BY <1>1, CursorType
    <3>. QED
      BY <3>1
  <2>. DEFINE far == unsupported_range(fb, row, col, IF p.overwrite THEN col ELSE fb.cols - 1)
  <2>2. q = IF col < 0 THEN p ELSE IF far THEN become_tentative(p) ELSE WithCells(a, n, new)
    BY Zenon DEF backspace, Cursor, WithCells
  <2>. HIDE DEF col, a, n, new, far
  <2>. QED
    BY <2>1, <2>2, Zenon
<1>4. CASE q = p
  BY <1>4 DEF Kept
<1>5. CASE q = become_tentative(p)
  <2>1. Sound(q, R, C, s, m) /\ Kept(p, q) /\ \A odd : Hide(p, odd) => Hide(q, odd)
    BY <1>5, Tentative DEF Follows
  <2>. QED
    BY <2>1
<1>6. CASE col \in 0..(C - 1) /\ q = WithCells(a, n, new)
  <2>. DEFINE ne == LineIndex(e, row)
  <2>1. /\ Sound(e, R, C, s, m) /\ Kept(p, e) /\ e.epoch = p.epoch
        /\ \A odd : Hide(p, odd) => Hide(e, odd)
        /\ e.cursors # <<>> /\ Last(e.cursors).exp = e.sent + 1
        /\ Last(e.cursors).row = row
        /\ ne \in DOMAIN e.overlays /\ Row(e, ne) = row
    <3>1. e = ExpireCursor(get_or_make_row(p, row, fb))
      OBVIOUS
    <3>. HIDE DEF e
    <3>2. /\ Sound(e, R, C, s, m) /\ Kept(p, e) /\ e.epoch = p.epoch
          /\ \A odd : Hide(p, odd) => Hide(e, odd)
          /\ e.cursors # <<>> /\ Last(e.cursors).exp = e.sent + 1
          /\ Last(e.cursors).row = Last(p.cursors).row
          /\ Last(e.cursors).col = Last(p.cursors).col
          /\ LineIndex(e, Last(p.cursors).row) \in DOMAIN e.overlays
          /\ Row(e, LineIndex(e, Last(p.cursors).row)) = Last(p.cursors).row
      BY <3>1, LineReady
    <3>. QED
      BY <3>2
  <2>2. a = MoveCursor(e, row, col) /\ InFrame(row, col, R, C) /\ Last(e.cursors).row <= row
    <3>1. Last(e.cursors).row = row /\ row \in Int /\ row \in 0..(R - 1)
      BY <1>1, <2>1
    <3>2. Last(e.cursors).row <= row
      <4>. HIDE DEF row, e
      <4>. QED
        BY <3>1
    <3>. QED
      BY <1>6, <3>1, <3>2, Zenon DEF InFrame
  <2>. HIDE DEF e, row, col
  <2>3. /\ Follows(e, a, R, C, s) /\ Same(e, a) /\ Sound(a, R, C, s, m)
        /\ \A odd : Hide(e, odd) => Hide(a, odd)
        /\ a.epoch = e.epoch /\ a.overlays = e.overlays
        /\ a.cursors # <<>> /\ Last(a.cursors).exp = Last(e.cursors).exp
        /\ Last(a.cursors).row = row /\ Last(a.cursors).col = col
        /\ Last(a.cursors).epoch = Last(e.cursors).epoch
    <3>. HIDE DEF a
    <3>. QED
      BY <2>1, <2>2, Moved
  <2>4. n = ne /\ n \in DOMAIN a.overlays /\ Row(a, n) = row
    <3>1. n = ne
      BY <2>3, Zenon DEF LineIndex
    <3>. QED
      BY <2>1, <2>3, <3>1, Zenon DEF Row
  <2>5. Kept(e, a) /\ Kept(p, a) /\ a.sent = p.sent /\ a.epoch = p.epoch
    <3>1. Kept(e, a)
      BY <2>3 DEF Follows
    <3>2. Kept(p, a)
      BY <2>1, <3>1, KeptTrans
    <3>. QED
      BY <2>1, <2>3, <3>1, <3>2 DEF Kept
  <2>. HIDE DEF a, n, ne
  <2>6. Ground(p, a, n, fb, R, C, s, m)
    BY <2>3, <2>4, <2>5, Zenon DEF Ground
  <2>7. /\ DOMAIN old = 0..(C - 1) /\ \A k : old[k] = Cell(a, n, k)
        /\ \A k \in 0..(C - 1) : Cell(a, n, k) \in CellOf
    <3>1. DOMAIN old = 0..(C - 1) /\ \A k \in 0..(C - 1) : Cell(a, n, k) \in CellOf
      BY <2>3, <2>4, LineCells
    <3>. QED
      BY <3>1, Zenon DEF Cell
  <2>. HIDE DEF old
  <2>8. /\ DOMAIN new = 0..(C - 1)
        /\ \A k \in 0..(C - 1) :
              \/ new[k] = Cell(a, n, k)
              \/ new[k] = Guess(p, Cell(a, n, k), fb.cell[Row(a, n)][k], FALSE, Blank, t)
              \/ new[k] = Guess(p, Cell(a, n, k), fb.cell[Row(a, n)][k], TRUE, Blank, t)
              \/ /\ k + 1 \in 0..(C - 1)
                 /\ new[k] = ShiftFrom(p, Cell(a, n, k), fb.cell[Row(a, n)][k],
                                   Cell(a, n, k + 1), fb.cell[Row(a, n)][k + 1], t)
    <3>1. CASE p.overwrite
      <4>1. new = [old EXCEPT ![col] = Guess(p, old[col], shown(col), FALSE, Blank, t)]
        BY <3>1, Zenon
      <4>. HIDE DEF new
      <4>2. /\ DOMAIN new = 0..(C - 1)
            /\ \A k \in 0..(C - 1) : new[k] = IF k = col
                   THEN Guess(p, old[col], shown(col), FALSE, Blank, t) ELSE old[k]
        BY <2>7, <4>1, Zenon
      <4>. QED
        BY <2>4, <2>7, <4>2, Zenon
    <3>2. CASE ~p.overwrite
      <4>1. new = [k \in 0..(C - 1) |->
                       IF k < col THEN old[k]
                       ELSE IF k + 2 < C
                       THEN ShiftFrom(p, old[k], shown(k), old[k + 1], shown(k + 1), t)
                       ELSE Guess(p, old[k], shown(k), TRUE, Blank, t)]
        BY <1>2, <3>2, Zenon
      <4>. HIDE DEF new
      <4>2. /\ DOMAIN new = 0..(C - 1)
            /\ \A k \in 0..(C - 1) : new[k] =
                       IF k < col THEN old[k]
                       ELSE IF k + 2 < C
                       THEN ShiftFrom(p, old[k], shown(k), old[k + 1], shown(k + 1), t)
                       ELSE Guess(p, old[k], shown(k), TRUE, Blank, t)
        BY <4>1, Zenon
      <4>3. \A k \in 0..(C - 1) : k + 2 < C => k + 1 \in 0..(C - 1)
        OBVIOUS
      <4>4. ASSUME NEW k \in 0..(C - 1)
            PROVE  \/ new[k] = Cell(a, n, k)
                   \/ new[k] = Guess(p, Cell(a, n, k), fb.cell[Row(a, n)][k], TRUE, Blank, t)
                   \/ /\ k + 1 \in 0..(C - 1)
                      /\ new[k] = ShiftFrom(p, Cell(a, n, k), fb.cell[Row(a, n)][k],
                                   Cell(a, n, k + 1), fb.cell[Row(a, n)][k + 1], t)
        <5>1. \/ new[k] = old[k]
              \/ k + 2 < C /\ new[k] = ShiftFrom(p, old[k], shown(k), old[k + 1], shown(k + 1), t)
              \/ new[k] = Guess(p, old[k], shown(k), TRUE, Blank, t)
          BY <4>2, Zenon
        <5>. QED
          BY <2>4, <2>7, <4>3, <5>1, Zenon
      <4>. QED
        BY <4>2, <4>4, Zenon
    <3>. QED
      BY <3>1, <3>2
  <2>. HIDE DEF new
  <2>9. \A k \in 0..(C - 1) :
           \/ new[k] = Cell(a, n, k)
           \/ /\ Fresh(a, new[k])
              /\ (Hide(a, FALSE) /\ Tame(fb)) => new[k].text \notin {Secret, Linked}
    <3>. TAKE k \in 0..(C - 1)
    <3>1. IsRow(k, C)
      BY DEF IsRow
    <3>2. ASSUME NEW u \in BOOLEAN,
                 new[k] = Guess(p, Cell(a, n, k), fb.cell[Row(a, n)][k], u, Blank, t)
          PROVE  Fresh(a, new[k]) /\ new[k].text \notin {Secret, Linked}
      <4>. DEFINE g == new[k]
      <4>1. g = Guess(p, Cell(a, n, k), fb.cell[Row(a, n)][k], u, Blank, t)
        BY <3>2
      <4>. HIDE DEF g
      <4>2. Fresh(a, g) /\ g.text = IF u THEN Blank ELSE Blank
        BY <2>6, <3>1, <4>1, BlankGlyph, GuessedAt
      <4>. QED
        BY <4>2, BlankGlyph DEF g
    <3>3. ASSUME k + 1 \in 0..(C - 1),
                 new[k] = ShiftFrom(p, Cell(a, n, k), fb.cell[Row(a, n)][k],
                                   Cell(a, n, k + 1), fb.cell[Row(a, n)][k + 1], t)
          PROVE  /\ Fresh(a, new[k])
                 /\ (Hide(a, FALSE) /\ Tame(fb)) => new[k].text \notin {Secret, Linked}
      <4>. DEFINE g == new[k]
                  j == k + 1
      <4>1. /\ g = ShiftFrom(p, Cell(a, n, k), fb.cell[Row(a, n)][k],
                             Cell(a, n, j), fb.cell[Row(a, n)][j], t)
            /\ IsRow(j, C)
        BY <3>3 DEF IsRow
      <4>. HIDE DEF g, j
      <4>2. /\ Fresh(a, g)
            /\ (Masked(a) /\ Tame(fb)) => g.text # Linked
            /\ (Hide(a, FALSE) /\ Tame(fb)) => g.text \notin {Secret, Linked}
        BY <2>6, <3>1, <4>1, ShiftedAt
      <4>. QED
        BY <4>2 DEF g
    <3>. QED
      BY <2>8, <3>2, <3>3, Zenon
  <2>10. Refreshes(a, n, new, C, m)
    <3>1. \A k \in 0..(C - 1) : new[k] \in CellOf
      BY <2>7, <2>9, Zenon DEF Fresh
    <3>2. new \in [0..(C - 1) -> CellOf]
      <4>1. new = [k \in 0..(C - 1) |-> new[k]]
        <5>1. CASE p.overwrite
          BY <5>1, <2>7, Zenon DEF new
        <5>2. CASE ~p.overwrite
          BY <5>2, <1>2, Zenon DEF new
        <5>. QED
          BY <5>1, <5>2
      <4>. QED
        BY <3>1, <4>1, Zenon
    <3>3. Row(a, n) <= Last(a.cursors).row /\ a.sent + 1 <= m
      <4>1. row \in Int
        BY <1>1
      <4>2. row <= row
        BY <4>1
      <4>. QED
        BY <2>3, <2>4, <2>5, <4>2
    <3>4. Last(a.cursors).exp = a.sent + 1
      BY <2>1, <2>3, <2>5 DEF Kept
    <3>. QED
      BY <2>3, <2>4, <2>9, <3>2, <3>3, <3>4, Zenon DEF Refreshes
  <2>11. Ready(a, s)
    BY <2>5, KeptReady
  <2>12. q = WithCells(a, n, new)
    BY <1>6
  <2>13. Sound(q, R, C, s, m) /\ Kept(a, q)
    BY <2>3, <2>10, <2>11, <2>12, Refreshed
  <2>14. ASSUME Hide(p, FALSE), Tame(fb) PROVE Hide(q, FALSE)
    <3>1. Hide(a, FALSE)
      BY <2>1, <2>3, <2>14, Zenon
    <3>2. \A k \in 0..(C - 1) : Fresh(a, new[k]) => new[k].text \notin {Secret, Linked}
      <4>. TAKE k \in 0..(C - 1)
      <4>. HAVE Fresh(a, new[k])
      <4>1. CASE new[k] = Cell(a, n, k)
        <5>1. Live(a, n, k)
          BY <2>6, <4>1, GroundFacts DEF Fresh
        <5>2. Cell(a, n, k).text \notin {Secret, Linked}
          <6>1. Masked(a) /\ Open(a) /\ Row(a, n) = Last(a.cursors).row
            BY <3>1, <2>6 DEF Hide, Ground
          <6>. QED
            BY <2>3, <2>4, <5>1, <6>1, OpenLine
        <5>. QED
          BY <4>1, <5>2
      <4>. QED
        BY <2>9, <2>14, <3>1, <4>1
    <3>3. Row(a, n) = Last(a.cursors).row
      BY <2>6 DEF Ground
    <3>. QED
      BY <2>3, <2>10, <2>12, <3>1, <3>2, <3>3, HideInOpen
  <2>. QED
    BY <2>5, <2>13, <2>14, KeptTrans
<1>. QED
  BY <1>3, <1>4, <1>5, <1>6

\* predict_char keeps the predictor sound, and hides what is typed on a password
\* line.
LEMMA CharTyped ==
    ASSUME NEW R, NEW C, NEW s, NEW m, Dims(R, C, s, m), NEW p, Sound(p, R, C, s, m),
           NEW fb, Fits(fb, R, C), Ready(p, s), p.sent + 1 <= m, p.cursors # <<>>,
           NEW ch \in Letters, NEW t \in Nat, NEW q, q = predict_char(p, ch, fb, t)
    PROVE  /\ Sound(q, R, C, s, m) /\ Kept(p, q)
           /\ \A odd \in BOOLEAN :
                  (Hide(p, odd) /\ Tame(fb) /\ (odd <=> ch = Secret)) => Hide(q, odd)
<1>. R \in Nat /\ C \in Nat /\ s \in Nat /\ m \in Nat
  BY DEF Dims
<1>. DEFINE row == Last(p.cursors).row
            col == Last(p.cursors).col
            last == C - 1
            right == IF p.overwrite THEN col ELSE last
            e == IF col = last THEN become_tentative(p) ELSE p
            a == ExpireCursor(get_or_make_row(e, row, fb))
            n == LineIndex(a, row)
            old == a.overlays[n].cells
            shown(k) == fb.cell[row][k]
            new == [k \in 0..(C - 1) |->
                IF k < col \/ k > right THEN old[k]
                ELSE IF k = col THEN Guess(e, old[k], shown(k), FALSE, ch, t)
                ELSE IF k = last THEN Guess(e, old[k], shown(k), TRUE, Blank, t)
                ELSE ShiftFrom(e, old[k], shown(k), old[k - 1], shown(k - 1), t)]
            typed == WithCells(a, n, new)
<1>1. /\ p \in PredOf(R, C) /\ row \in 0..(R - 1) /\ col \in 0..(C - 1)
  <2>1. p \in PredOf(R, C)
    BY DEF Sound, Core
  <2>3. Last(p.cursors).row \in 0..(R - 1) /\ Last(p.cursors).col \in 0..(C - 1)
    BY <2>1, CursorType
  <2>. QED
    BY <2>1, <2>3
<1>2. /\ fb.rows = R /\ fb.cols = C /\ Columns(fb) = 0..(C - 1)
      /\ RowNumbers(fb) = 0..(R - 1)
  <2>. HIDE DEF new, shown, row, col, n, a, e, old, last, right
  <2>1. /\ fb.rows = R /\ fb.cols = C /\ fb.row \in 0..(R - 1) /\ fb.col \in 0..(C - 1)
        /\ R # 0 /\ C # 0 /\ Columns(fb) = 0..(C - 1) /\ RowNumbers(fb) = 0..(R - 1)
        /\ \A r \in 0..(R - 1), k \in 0..(C - 1) : fb.cell[r][k] \in Glyphs
    BY FrameType
  <2>. QED
    BY <2>1
<1>3. \/ q = become_tentative(p)
      \/ col < last /\ q = MoveCursor(typed, row, col + 1)
      \/ ~(col < last) /\ q = newline_carriage_return(become_tentative(typed), fb, t)
  <2>1. ~(row >= R \/ col >= C)
    <3>. HIDE DEF row, col
    <3>. QED
      BY <1>1
  <2>. DEFINE far == unsupported_range(fb, row, col, right)
  <2>2. q = IF row >= R \/ col >= C THEN p
            ELSE IF far THEN become_tentative(p)
            ELSE IF col < last THEN MoveCursor(typed, row, col + 1)
            ELSE newline_carriage_return(become_tentative(typed), fb, t)
    BY <1>2, ZenonT(60) DEF predict_char, Cursor, WithCells
  <2>. HIDE DEF row, col, far, typed, last
  <2>. QED
    BY <2>1, <2>2, Zenon
<1>4. CASE q = become_tentative(p)
  <2>1. Sound(q, R, C, s, m) /\ Kept(p, q) /\ \A odd : Hide(p, odd) => Hide(q, odd)
    BY <1>4, Tentative DEF Follows
  <2>. QED
    BY <2>1
<1>5. CASE \/ col < last /\ q = MoveCursor(typed, row, col + 1)
           \/ ~(col < last) /\ q = newline_carriage_return(become_tentative(typed), fb, t)
  <2>1. /\ Sound(e, R, C, s, m) /\ Kept(p, e) /\ e.cursors = p.cursors
        /\ \A odd : Hide(p, odd) => Hide(e, odd)
    <3>1. CASE col = last
      <4>1. e = become_tentative(p)
        BY <3>1
      <4>2. Sound(e, R, C, s, m) /\ Kept(p, e) /\ e.cursors = p.cursors
            /\ \A odd : Hide(p, odd) => Hide(e, odd)
        BY <4>1, Tentative DEF Follows
      <4>. QED
        BY <4>2
    <3>2. CASE col # last
      BY <3>2 DEF Kept
    <3>. QED
      BY <3>1, <3>2
  <2>2. /\ Sound(a, R, C, s, m) /\ Kept(e, a) /\ a.epoch = e.epoch
        /\ \A odd : Hide(e, odd) => Hide(a, odd)
        /\ a.cursors # <<>> /\ Last(a.cursors).exp = a.sent + 1
        /\ Last(a.cursors).row = row
        /\ n \in DOMAIN a.overlays /\ Row(a, n) = row
    <3>1. a = ExpireCursor(get_or_make_row(e, Last(e.cursors).row, fb)) /\ e.cursors # <<>>
          /\ Last(e.cursors).row = row
      BY <2>1
    <3>. HIDE DEF a, e
    <3>2. /\ Sound(a, R, C, s, m) /\ Kept(e, a) /\ a.epoch = e.epoch
          /\ \A odd : Hide(e, odd) => Hide(a, odd)
          /\ a.cursors # <<>> /\ Last(a.cursors).exp = a.sent + 1
          /\ Last(a.cursors).row = Last(e.cursors).row
          /\ Last(a.cursors).col = Last(e.cursors).col
          /\ LineIndex(a, Last(e.cursors).row) \in DOMAIN a.overlays
          /\ Row(a, LineIndex(a, Last(e.cursors).row)) = Last(e.cursors).row
      BY <2>1, <3>1, LineReady
    <3>. QED
      BY <3>1, <3>2
  <2>. HIDE DEF e, row, a, n
  <2>3. Kept(p, a) /\ a.sent = e.sent /\ a.sent = p.sent /\ a.overwrite = p.overwrite
    <3>1. Kept(p, a)
      BY <2>1, <2>2, KeptTrans
    <3>. QED
      BY <2>2, <3>1 DEF Kept
  <2>4. Ground(e, a, n, fb, R, C, s, m)
    BY <2>2, <2>3, Zenon DEF Ground
  <2>5. /\ DOMAIN old = 0..(C - 1) /\ \A k : old[k] = Cell(a, n, k)
        /\ \A k \in 0..(C - 1) : Cell(a, n, k) \in CellOf
    <3>1. DOMAIN old = 0..(C - 1) /\ \A k \in 0..(C - 1) : Cell(a, n, k) \in CellOf
      BY <2>2, LineCells
    <3>. QED
      BY <3>1, Zenon DEF Cell
  <2>. HIDE DEF old
  <2>6. \A k \in 0..(C - 1) : new[k] =
            IF k < col \/ k > right THEN old[k]
            ELSE IF k = col THEN Guess(e, old[k], shown(k), FALSE, ch, t)
            ELSE IF k = last THEN Guess(e, old[k], shown(k), TRUE, Blank, t)
            ELSE ShiftFrom(e, old[k], shown(k), old[k - 1], shown(k - 1), t)
    BY Zenon
  <2>7. new = [k \in 0..(C - 1) |-> new[k]]
    BY Zenon
  <2>. HIDE DEF new
  <2>8. /\ Fresh(a, new[col]) /\ new[col].text = ch
    <3>1. ~(col < col) /\ ~(col > right)
      <4>1. Last(p.cursors).col \in Int
        BY <1>1
      <4>. QED
        BY <1>1, <4>1
    <3>2. new[col] = Guess(e, Cell(a, n, col), fb.cell[Row(a, n)][col], FALSE, ch, t)
      <4>. HIDE DEF col, right
      <4>. QED
        BY <1>1, <2>2, <2>5, <2>6, <3>1, Zenon
    <3>. DEFINE g == new[col]
    <3>. DEFINE u == FALSE
    <3>3. g = Guess(e, Cell(a, n, col), fb.cell[Row(a, n)][col], u, ch, t) /\ u \in BOOLEAN
      BY <3>2
    <3>4. IsRow(col, C) /\ ch \in Glyphs
      BY <1>1, LetterGlyph DEF IsRow
    <3>. HIDE DEF g, col, u
    <3>5. Fresh(a, g) /\ g.text = IF u THEN Blank ELSE ch
      BY <2>4, <3>3, <3>4, GuessedAt
    <3>. QED
      BY <3>5 DEF g, u
  <2>9. ASSUME NEW k \in 0..(C - 1), k > col, k <= right
        PROVE  /\ Fresh(a, new[k])
               /\ (Masked(a) /\ Tame(fb)) => new[k].text # Linked
               /\ (Hide(a, FALSE) /\ Tame(fb)) => new[k].text \notin {Secret, Linked}
    <3>. DEFINE g == new[k]
                j == k - 1
    <3>1. k - 1 \in 0..(C - 1) /\ ~(k < col \/ k > right) /\ k # col
      <4>1. col \in Int /\ col >= 0
        BY <1>1
      <4>2. k # col /\ k - 1 \in 0..(C - 1) /\ ~(k < col)
        <5>. HIDE DEF col
        <5>. QED
          BY <2>9, <4>1
      <4>3. right \in Int
        BY <1>1
      <4>4. ~(k > right)
        <5>. HIDE DEF right
        <5>. QED
          BY <2>9, <4>3
      <4>. QED
        BY <4>2, <4>4
    <3>2. IsRow(k, C) /\ IsRow(j, C)
      BY <3>1 DEF IsRow
    <3>3. \/ g = Guess(e, Cell(a, n, k), fb.cell[Row(a, n)][k], TRUE, Blank, t)
          \/ g = ShiftFrom(e, Cell(a, n, k), fb.cell[Row(a, n)][k],
                           Cell(a, n, j), fb.cell[Row(a, n)][j], t)
      <4>. HIDE DEF col, right, last
      <4>. QED
        BY <2>2, <2>5, <2>6, <3>1, Zenon
    <3>. HIDE DEF g, j
    <3>4. ASSUME g = Guess(e, Cell(a, n, k), fb.cell[Row(a, n)][k], TRUE, Blank, t)
          PROVE  Fresh(a, g) /\ g.text = Blank
      <4>. DEFINE u == TRUE
      <4>1. g = Guess(e, Cell(a, n, k), fb.cell[Row(a, n)][k], u, Blank, t) /\ u \in BOOLEAN
        BY <3>4
      <4>. HIDE DEF u
      <4>2. Fresh(a, g) /\ g.text = IF u THEN Blank ELSE Blank
        BY <2>4, <3>2, <4>1, BlankGlyph, GuessedAt
      <4>. QED
        BY <4>2
    <3>5. ASSUME g = ShiftFrom(e, Cell(a, n, k), fb.cell[Row(a, n)][k],
                               Cell(a, n, j), fb.cell[Row(a, n)][j], t)
          PROVE  /\ Fresh(a, g)
                 /\ (Masked(a) /\ Tame(fb)) => g.text # Linked
                 /\ (Hide(a, FALSE) /\ Tame(fb)) => g.text \notin {Secret, Linked}
      BY <2>4, <3>2, <3>5, ShiftedAt
    <3>6. /\ Fresh(a, g)
          /\ (Masked(a) /\ Tame(fb)) => g.text # Linked
          /\ (Hide(a, FALSE) /\ Tame(fb)) => g.text \notin {Secret, Linked}
      BY <3>3, <3>4, <3>5, BlankGlyph
    <3>. QED
      BY <3>6 DEF g
  <2>10. ASSUME NEW k \in 0..(C - 1), k < col \/ k > right
         PROVE  new[k] = Cell(a, n, k)
    <3>. HIDE DEF col, right
    <3>. QED
      BY <2>5, <2>6, <2>10, Zenon
  <2>11. \A k \in 0..(C - 1) : k = col \/ (k > col /\ k <= right) \/ (k < col \/ k > right)
    <3>1. col \in Int /\ right \in Int
      BY <1>1
    <3>. HIDE DEF col, right
    <3>. QED
      BY <3>1
  <2>12. \A k \in 0..(C - 1) : new[k] = Cell(a, n, k) \/ Fresh(a, new[k])
    <3>. HIDE DEF col, right
    <3>. QED
      BY <2>8, <2>9, <2>10, <2>11, Zenon
  <2>13. Refreshes(a, n, new, C, m)
    <3>1. \A k \in 0..(C - 1) : new[k] \in CellOf
      BY <2>5, <2>12, Zenon DEF Fresh
    <3>2. new \in [0..(C - 1) -> CellOf]
      BY <2>7, <3>1, Zenon
    <3>3. Row(a, n) <= Last(a.cursors).row /\ a.sent + 1 <= m
      <4>1. row \in Int
        BY <1>1
      <4>2. row <= row
        BY <4>1
      <4>. QED
        BY <2>2, <2>3, <4>2
    <3>. QED
      BY <2>2, <2>12, <3>2, <3>3, Zenon DEF Refreshes
  <2>14. Ready(a, s) /\ typed = WithCells(a, n, new)
    BY <2>3, KeptReady
  <2>. HIDE DEF typed
  <2>15. Sound(typed, R, C, s, m) /\ Kept(a, typed) /\ typed.cursors = a.cursors
    BY <2>2, <2>13, <2>14, Refreshed
  <2>16. Kept(p, typed)
    BY <2>3, <2>15, KeptTrans
  <2>17. ASSUME NEW odd \in BOOLEAN, Hide(p, odd), Tame(fb), odd <=> ch = Secret
         PROVE  Hide(typed, odd)
    <3>1. Hide(a, odd) /\ Masked(a)
      BY <2>1, <2>2, <2>17, Zenon DEF Hide
    <3>2. CASE odd = TRUE
      <4>1. \A k \in 0..(C - 1) : Fresh(a, new[k]) => new[k].text # Linked
        <5>. TAKE k \in 0..(C - 1)
        <5>. HAVE Fresh(a, new[k])
        <5>1. CASE k < col \/ k > right
          <6>1. new[k] = Cell(a, n, k)
            BY <2>10, <5>1
          <6>2. Live(a, n, k)
            BY <2>4, <6>1, GroundFacts DEF Fresh
          <6>. QED
            BY <3>1, <6>1, <6>2, Zenon DEF Masked
        <5>2. CASE k = col
          BY <2>8, <5>2, LetterGlyph
        <5>3. CASE k > col /\ k <= right
          BY <2>9, <2>17, <3>1, <5>3
        <5>. HIDE DEF col, right
        <5>. QED
          BY <2>11, <5>1, <5>2, <5>3, Zenon
      <4>2. \A k \in 0..(C - 1) :
               /\ k < col => new[k] = Cell(a, n, k)
               /\ col < k => /\ a.overwrite => new[k] = Cell(a, n, k)
                             /\ ~a.overwrite => Fresh(a, new[k])
        <5>. TAKE k \in 0..(C - 1)
        <5>1. k < col => new[k] = Cell(a, n, k)
          BY <2>10
        <5>2. ASSUME col < k, a.overwrite PROVE new[k] = Cell(a, n, k)
          <6>1. k > right
            <7>1. right = col /\ col \in Int
              BY <1>1, <2>3, <5>2
            <7>. HIDE DEF right, col
            <7>. QED
              BY <5>2, <7>1
          <6>. QED
            BY <2>10, <6>1
        <5>3. ASSUME col < k, ~a.overwrite PROVE Fresh(a, new[k])
          <6>1. k > col /\ k <= right
            <7>1. right = C - 1 /\ col \in Int
              BY <1>1, <2>3, <5>3
            <7>. HIDE DEF right, col
            <7>. QED
              BY <5>3, <7>1
          <6>. QED
            BY <2>9, <6>1
        <5>. QED
          BY <5>1, <5>2, <5>3
      <4>3. Hide(a, TRUE) /\ new[col].text = Secret
        BY <2>8, <2>17, <3>1, <3>2
      <4>4. Hide(typed, TRUE)
        <5>1. col \in 0..(C - 1)
          BY <1>1
        <5>2. Fresh(a, new[col])
          BY <2>8
        <5>. HIDE DEF col
        <5>3. Inserted(a, n, new, col, C)
          BY <4>1, <4>2, <4>3, <5>1, <5>2, Zenon DEF Inserted
        <5>. QED
          BY <2>2, <2>13, <2>14, <4>3, <5>3, HideInSilence
      <4>. QED
        BY <3>2, <4>4
    <3>3. CASE odd = FALSE
      <4>1. Hide(a, FALSE)
        BY <3>1, <3>3
      <4>2. \A k \in 0..(C - 1) : Fresh(a, new[k]) => new[k].text \notin {Secret, Linked}
        <5>. TAKE k \in 0..(C - 1)
        <5>. HAVE Fresh(a, new[k])
        <5>1. CASE k < col \/ k > right
          <6>1. new[k] = Cell(a, n, k)
            BY <2>10, <5>1
          <6>2. Live(a, n, k)
            BY <2>4, <6>1, GroundFacts DEF Fresh
          <6>3. Masked(a) /\ Open(a) /\ Row(a, n) = Last(a.cursors).row
            BY <2>4, <4>1 DEF Hide, Ground
          <6>4. Cell(a, n, k).text \notin {Secret, Linked}
            BY <2>2, <6>2, <6>3, OpenLine
          <6>. QED
            BY <6>1, <6>4
        <5>2. CASE k = col
          BY <2>8, <2>17, <3>3, <5>2, LetterGlyph
        <5>3. CASE k > col /\ k <= right
          BY <2>9, <2>17, <4>1, <5>3
        <5>. HIDE DEF col, right
        <5>. QED
          BY <2>11, <5>1, <5>2, <5>3, Zenon
      <4>3. Row(a, n) = Last(a.cursors).row
        BY <2>4 DEF Ground
      <4>4. Hide(typed, FALSE)
        BY <2>2, <2>13, <2>14, <4>1, <4>2, <4>3, HideInOpen
      <4>. QED
        BY <3>3, <4>4
    <3>. QED
      BY <3>2, <3>3
  <2>18. typed.cursors # <<>> /\ Last(typed.cursors).row = row
    BY <2>2, <2>15
  <2>19. CASE col < last /\ q = MoveCursor(typed, row, col + 1)
    <3>. DEFINE next == col + 1
    <3>1. next \in 0..(C - 1)
      BY <1>1, <2>19
    <3>2. InFrame(row, next, R, C) /\ q = MoveCursor(typed, row, next)
      BY <1>1, <2>19, <3>1 DEF InFrame
    <3>3. Last(typed.cursors).row <= row
      <4>1. row \in Int
        BY <1>1
      <4>. QED
        BY <2>18, <4>1
    <3>. HIDE DEF next, col
    <3>4. /\ Follows(typed, q, R, C, s) /\ Same(typed, q) /\ Sound(q, R, C, s, m)
          /\ \A odd : Hide(typed, odd) => Hide(q, odd)
          /\ q.epoch = typed.epoch /\ q.overlays = typed.overlays
          /\ q.cursors # <<>> /\ Last(q.cursors).exp = Last(typed.cursors).exp
          /\ Last(q.cursors).row = row /\ Last(q.cursors).col = next
          /\ Last(q.cursors).epoch = Last(typed.cursors).epoch
      BY <2>15, <2>18, <3>2, <3>3, Moved
    <3>5. Kept(typed, q)
      BY <3>4 DEF Follows
    <3>6. Kept(p, q)
      BY <2>16, <3>5, KeptTrans
    <3>. QED
      BY <2>17, <3>4, <3>6, Zenon
  <2>20. CASE q = newline_carriage_return(become_tentative(typed), fb, t)
    <3>. DEFINE z == become_tentative(typed)
    <3>1. z = become_tentative(typed) /\ q = newline_carriage_return(z, fb, t)
      BY <2>20
    <3>. HIDE DEF z
    <3>2. /\ Sound(z, R, C, s, m) /\ Kept(typed, z) /\ Ahead(z)
          /\ \A odd : Hide(typed, odd) => Hide(z, odd)
      BY <2>15, <3>1, TentativeAhead
    <3>3. Kept(p, z) /\ z.sent = p.sent
      <4>1. Kept(p, z)
        BY <2>16, <3>2, KeptTrans
      <4>. QED
        BY <4>1 DEF Kept
    <3>4. Ready(z, s) /\ z.sent + 1 <= m
      BY <3>3, KeptReady
    <3>5. /\ Sound(q, R, C, s, m) /\ Kept(z, q)
          /\ (Masked(z) /\ NoLinks(fb)) => \A odd \in BOOLEAN : Hide(q, odd)
      BY <3>1, <3>2, <3>4, NewLine
    <3>6. Kept(p, q)
      BY <3>3, <3>5, KeptTrans
    <3>7. ASSUME NEW odd \in BOOLEAN, Hide(p, odd), Tame(fb), odd <=> ch = Secret
          PROVE  Hide(q, odd)
      <4>1. Hide(z, odd)
        BY <2>17, <3>2, <3>7, Zenon
      <4>2. Masked(z) /\ NoLinks(fb)
        BY <3>7, <4>1, TameNoLinks DEF Hide
      <4>. QED
        BY <3>5, <4>2, Zenon
    <3>. QED
      BY <3>5, <3>6, <3>7
  <2>. QED
    BY <1>5, <2>19, <2>20
<1>. QED
  BY <1>3, <1>4, <1>5

\* What a user of a login program types on a line: nothing but the password,
\* where the echo is off, and no password elsewhere.
KeyAllowed(key, odd) ==
    /\ key # "Enter"
    /\ odd => key \in {Secret} \cup Unprinted
    /\ ~odd => key # Secret

\* The size of a frame that fits.
LEMMA FrameSize ==
    ASSUME NEW R, NEW C, NEW s, NEW m, Dims(R, C, s, m), NEW fb, Fits(fb, R, C)
    PROVE  /\ fb.rows = R /\ fb.cols = C /\ Columns(fb) = 0..(C - 1)
           /\ RowNumbers(fb) = 0..(R - 1) /\ R \in Nat /\ C \in Nat
BY FrameType DEF Dims

\* A key is a letter or one of the control keys.
LEMMA KeyCases ==
    ASSUME NEW key \in Keys
    PROVE  /\ key \in Letters \/ key \in Controls
           /\ key \in Letters => key \notin {"Enter", "Right", "Left", "Backspace", "Wide", "Other"}
BY PredictorAssumption DEF Keys, Controls, Unprinted

\* The cases of new_user_byte and handle_print, and what each leaves.
LEMMA HandleKeyIs ==
    ASSUME NEW p, NEW key \in Keys, NEW fb, NEW t, NEW r, r = HandleKey(p, key, fb, t),
           NEW q, q = init_cursor(p, fb)
    PROVE  \/ key = "Enter" /\ r = newline_carriage_return(become_tentative(p), fb, t)
           \/ /\ key \in {"Left", "Right"}
              /\ \/ r = q
                 \/ \E to \in Columns(fb) :
                        r = MoveCursor(ExpireCursor(q), Last(q.cursors).row, to)
           \/ key = "Backspace" /\ r = backspace(q, fb, t)
           \/ key = "Wide" /\ r = become_tentative(q)
           \/ key = "Other" /\ r = become_tentative(p)
           \/ key \in Letters /\ r = predict_char(q, key, fb, t)
<1>. DEFINE row == Last(q.cursors).row
            col == Last(q.cursors).col
            step(to) == IF to \in Columns(fb) THEN MoveCursor(ExpireCursor(q), row, to) ELSE q
<1>1. r = CASE key = "Enter" -> newline_carriage_return(become_tentative(p), fb, t)
            [] key = "Right" -> step(col + 1)
            [] key = "Left" -> step(col - 1)
            [] key = "Backspace" -> backspace(q, fb, t)
            [] key = "Wide" -> become_tentative(q)
            [] key = "Other" -> become_tentative(p)
            [] key \in Letters -> predict_char(q, key, fb, t)
  BY Zenon DEF HandleKey, Cursor
<1>2. \A to : step(to) = q \/ \E x \in Columns(fb) : step(to) = MoveCursor(ExpireCursor(q), row, x)
  BY Zenon
<1>. HIDE DEF row, col, step
<1>3. key \in Letters => r = predict_char(q, key, fb, t)
  BY <1>1, KeyCases
<1>4. /\ key = "Enter" => r = newline_carriage_return(become_tentative(p), fb, t)
      /\ key = "Right" => r = step(col + 1)
      /\ key = "Left" => r = step(col - 1)
      /\ key = "Backspace" => r = backspace(q, fb, t)
      /\ key = "Wide" => r = become_tentative(q)
      /\ key = "Other" => r = become_tentative(p)
  BY <1>1, KeyCases
<1>5. key \in Controls => key \in {"Enter", "Right", "Left", "Backspace", "Wide", "Other"}
  BY DEF Controls, Unprinted
<1>6. \/ key = "Enter" /\ r = newline_carriage_return(become_tentative(p), fb, t)
      \/ /\ key \in {"Left", "Right"}
         /\ \/ r = q
            \/ \E to \in Columns(fb) : r = MoveCursor(ExpireCursor(q), row, to)
      \/ key = "Backspace" /\ r = backspace(q, fb, t)
      \/ key = "Wide" /\ r = become_tentative(q)
      \/ key = "Other" /\ r = become_tentative(p)
      \/ key \in Letters /\ r = predict_char(q, key, fb, t)
  BY <1>2, <1>3, <1>4, <1>5, KeyCases, Zenon
<1>. QED
  BY <1>6 DEF row

\* Every key keeps the predictor sound, and passwords hidden if it is one the
\* line allows.
LEMMA Handled ==
    ASSUME NEW R, NEW C, NEW s, NEW m, Dims(R, C, s, m), NEW p, Sound(p, R, C, s, m),
           NEW fb, Fits(fb, R, C), Ready(p, s), p.sent + 1 <= m,
           NEW key \in Keys, NEW t \in Nat, NEW r, r = HandleKey(p, key, fb, t)
    PROVE  /\ Sound(r, R, C, s, m) /\ Kept(p, r)
           /\ \A odd \in BOOLEAN :
                  (Hide(p, odd) /\ Tame(fb) /\ KeyAllowed(key, odd)) => Hide(r, odd)
           /\ (key = "Enter" /\ Masked(p) /\ Tame(fb)) => \A odd \in BOOLEAN : Hide(r, odd)
<1>. R \in Nat /\ C \in Nat /\ s \in Nat /\ m \in Nat
  BY DEF Dims
<1>. DEFINE q == init_cursor(p, fb)
            row == Last(q.cursors).row
<1>1. \/ key = "Enter" /\ r = newline_carriage_return(become_tentative(p), fb, t)
      \/ /\ key \in {"Left", "Right"}
         /\ \/ r = q
            \/ \E to \in Columns(fb) : r = MoveCursor(ExpireCursor(q), row, to)
      \/ key = "Backspace" /\ r = backspace(q, fb, t)
      \/ key = "Wide" /\ r = become_tentative(q)
      \/ key = "Other" /\ r = become_tentative(p)
      \/ key \in Letters /\ r = predict_char(q, key, fb, t)
  <2>1. q = init_cursor(p, fb)
    OBVIOUS
  <2>. HIDE DEF q
  <2>2. \/ key = "Enter" /\ r = newline_carriage_return(become_tentative(p), fb, t)
        \/ /\ key \in {"Left", "Right"}
           /\ \/ r = q
              \/ \E to \in Columns(fb) :
                     r = MoveCursor(ExpireCursor(q), Last(q.cursors).row, to)
        \/ key = "Backspace" /\ r = backspace(q, fb, t)
        \/ key = "Wide" /\ r = become_tentative(q)
        \/ key = "Other" /\ r = become_tentative(p)
        \/ key \in Letters /\ r = predict_char(q, key, fb, t)
    BY <2>1, HandleKeyIs
  <2>. QED
    BY <2>2
<1>2. /\ Sound(q, R, C, s, m) /\ Kept(p, q) /\ q.cursors # <<>>
      /\ \A odd : Hide(p, odd) => Hide(q, odd)
  BY Initialised DEF Follows
<1>3. Ready(q, s) /\ q.sent + 1 <= m
  BY <1>2, KeptReady DEF Kept
<1>4. Columns(fb) = 0..(C - 1)
  BY FrameSize
<1>5. row \in 0..(R - 1)
  <2>1. q \in PredOf(R, C)
    BY <1>2 DEF Sound, Core
  <2>. QED
    BY <1>2, <2>1, CursorType
<1>. HIDE DEF q, row
<1>6. CASE key = "Enter" /\ r = newline_carriage_return(become_tentative(p), fb, t)
  <2>. DEFINE z == become_tentative(p)
  <2>1. z = become_tentative(p) /\ r = newline_carriage_return(z, fb, t)
    BY <1>6
  <2>. HIDE DEF z
  <2>2. /\ Sound(z, R, C, s, m) /\ Kept(p, z) /\ Ahead(z)
        /\ Masked(p) => Masked(z) /\ Silent(z)
    BY <2>1, TentativeAhead
  <2>3. Ready(z, s) /\ z.sent + 1 <= m
    BY <2>2, KeptReady DEF Kept
  <2>4. /\ Sound(r, R, C, s, m) /\ Kept(z, r)
        /\ (Masked(z) /\ NoLinks(fb)) => \A odd \in BOOLEAN : Hide(r, odd)
    BY <2>1, <2>2, <2>3, NewLine
  <2>5. Kept(p, r)
    BY <2>2, <2>4, KeptTrans
  <2>6. (Masked(p) /\ Tame(fb)) => \A odd \in BOOLEAN : Hide(r, odd)
    BY <2>2, <2>4, TameNoLinks
  <2>. QED
    BY <1>6, <2>4, <2>5, <2>6, Zenon DEF KeyAllowed
<1>7. CASE key \in {"Left", "Right"} /\ r = q
  <2>1. key # "Enter"
    BY <1>7
  <2>. QED
    BY <1>2, <1>7, <2>1, Zenon
<1>8. CASE /\ key \in {"Left", "Right"}
           /\ \E to \in Columns(fb) : r = MoveCursor(ExpireCursor(q), row, to)
  <2>1. PICK to \in 0..(C - 1) : r = MoveCursor(ExpireCursor(q), row, to)
    BY <1>4, <1>8
  <2>. DEFINE e == ExpireCursor(q)
  <2>2. e = ExpireCursor(q) /\ r = MoveCursor(e, row, to)
    BY <2>1
  <2>. HIDE DEF e
  <2>3. /\ Follows(q, e, R, C, s) /\ Same(q, e) /\ Sound(e, R, C, s, m)
        /\ \A odd : Hide(q, odd) => Hide(e, odd)
        /\ e.epoch = q.epoch /\ e.overlays = q.overlays
        /\ e.cursors # <<>> /\ Last(e.cursors).exp = q.sent + 1
        /\ Last(e.cursors).row = Last(q.cursors).row
        /\ Last(e.cursors).col = Last(q.cursors).col
        /\ Last(e.cursors).epoch = Last(q.cursors).epoch
    BY <1>2, <2>2, Expired
  <2>4. InFrame(row, to, R, C) /\ Last(e.cursors).row <= row
    <3>1. Last(e.cursors).row = row /\ row \in Int
      BY <1>5, <2>3 DEF row
    <3>2. Last(e.cursors).row <= row
      BY <3>1
    <3>. QED
      BY <1>5, <3>2 DEF InFrame
  <2>5. /\ Follows(e, r, R, C, s) /\ Same(e, r) /\ Sound(r, R, C, s, m)
        /\ \A odd : Hide(e, odd) => Hide(r, odd)
        /\ r.epoch = e.epoch /\ r.overlays = e.overlays
        /\ r.cursors # <<>> /\ Last(r.cursors).exp = Last(e.cursors).exp
        /\ Last(r.cursors).row = row /\ Last(r.cursors).col = to
        /\ Last(r.cursors).epoch = Last(e.cursors).epoch
    BY <2>2, <2>3, <2>4, Moved
  <2>6. Kept(p, r)
    <3>1. Kept(q, e) /\ Kept(e, r)
      BY <2>3, <2>5 DEF Follows
    <3>2. Kept(p, e)
      BY <1>2, <3>1, KeptTrans
    <3>. QED
      BY <3>1, <3>2, KeptTrans
  <2>7. key # "Enter"
    BY <1>8
  <2>. QED
    BY <1>2, <2>3, <2>5, <2>6, <2>7, Zenon
<1>9. CASE key = "Backspace" /\ r = backspace(q, fb, t)
  <2>1. /\ Sound(r, R, C, s, m) /\ Kept(q, r)
        /\ (Hide(q, FALSE) /\ Tame(fb)) => Hide(r, FALSE)
    BY <1>2, <1>3, <1>9, Backspaced
  <2>2. Kept(p, r)
    BY <1>2, <2>1, KeptTrans
  <2>3. \A odd \in BOOLEAN : KeyAllowed(key, odd) => odd = FALSE
    BY <1>9 DEF KeyAllowed, Secret, Unprinted
  <2>4. key # "Enter"
    BY <1>9
  <2>. QED
    BY <1>2, <2>1, <2>2, <2>3, <2>4, Zenon
<1>10. CASE key = "Wide" /\ r = become_tentative(q)
  <2>1. /\ Sound(r, R, C, s, m) /\ Kept(q, r)
        /\ \A odd : Hide(q, odd) => Hide(r, odd)
    BY <1>2, <1>10, Tentative DEF Follows
  <2>2. Kept(p, r)
    BY <1>2, <2>1, KeptTrans
  <2>3. key # "Enter"
    BY <1>10
  <2>. QED
    BY <1>2, <2>1, <2>2, <2>3, Zenon
<1>11. CASE key = "Other" /\ r = become_tentative(p)
  <2>1. /\ Sound(r, R, C, s, m) /\ Kept(p, r)
        /\ \A odd : Hide(p, odd) => Hide(r, odd)
    BY <1>11, Tentative DEF Follows
  <2>2. key # "Enter"
    BY <1>11
  <2>. QED
    BY <2>1, <2>2, Zenon
<1>12. CASE key \in Letters /\ r = predict_char(q, key, fb, t)
  <2>1. /\ Sound(r, R, C, s, m) /\ Kept(q, r)
        /\ \A odd \in BOOLEAN :
              (Hide(q, odd) /\ Tame(fb) /\ (odd <=> key = Secret)) => Hide(r, odd)
    BY <1>2, <1>3, <1>12, CharTyped, SMTT(60)
  <2>2. Kept(p, r)
    BY <1>2, <2>1, KeptTrans
  <2>3. key \notin {"Enter"} \cup Unprinted
    BY <1>12, KeyCases DEF Unprinted
  <2>4. \A odd \in BOOLEAN : KeyAllowed(key, odd) => (odd <=> key = Secret)
    BY <2>3 DEF KeyAllowed
  <2>5. key # "Enter"
    BY <2>3
  <2>. QED
    BY <1>2, <2>1, <2>2, <2>4, <2>5, Zenon
<1>. QED
  BY <1>1, <1>6, <1>7, <1>8, <1>9, <1>10, <1>11, <1>12, Zenon

-----------------------------------------------------------------------------
(* Judging where nothing can be judged yet: only the triggers change.      *)

\* The line and the column of position i of the overlays.
LEMMA Position ==
    ASSUME NEW n \in Nat, NEW c \in Nat, c # 0, NEW i \in 0..(n * c - 1)
    PROVE  i \div c + 1 \in 1..n /\ i % c \in 0..(c - 1)
<1>. DEFINE d == i \div c
            r == i % c
<1>1. d \in Int /\ r \in 0..(c - 1) /\ i = c * d + r
  OBVIOUS
<1>. HIDE DEF d, r
<1>2. d >= 0
  BY <1>1
<1>3. d < n
  BY <1>1
<1>. QED
  BY <1>1, <1>2, <1>3 DEF d, r

InLine(p, pos, C) == pos[1] \in DOMAIN p.overlays /\ pos[2] \in 0..(C - 1)
WithGlitch(p, g) == [p EXCEPT !.glitch = g]
Going(p) == [p |-> p, stop |-> FALSE]

\* A guess of p is looked at in vain.
LEMMA Overlooked ==
    ASSUME NEW R, NEW C, NEW s, NEW m, Dims(R, C, s, m), NEW p, Sound(p, R, C, s, m),
           NEW fb, Fits(fb, R, C), NEW t \in Nat, NEW g \in Nat, NEW pos,
           InLine(p, pos, C), NEW a,
           a = Going(WithGlitch(p, g))
    PROVE  \E h \in Nat : /\ JudgeCell(a, pos, fb, t) = Going(WithGlitch(p, h))
                          /\ g > 0 => h > 0
<1>. R \in Nat /\ C \in Nat /\ s \in Nat /\ m \in Nat
  BY DEF Dims
<1>. pos[1] \in DOMAIN p.overlays /\ pos[2] \in 0..(C - 1)
  BY DEF InLine
<1>. DEFINE q == WithGlitch(p, g)
            line == q.overlays[pos[1]]
            c == line.cells[pos[2]]
            v == CellValidity(q, fb, line.row, pos[2], c)
            judged == CASE v = "inactive" -> q
                        [] v = "incorrect" -> kill_epoch(q, c.epoch, fb)
                        [] v = "correct" -> [Credit(q, c, t) EXCEPT !.overlays[pos[1]].cells[pos[2]] = Inactive]
                        [] v = "no credit" -> [q EXCEPT !.overlays[pos[1]].cells[pos[2]] = Inactive]
                        [] v = "pending" -> Overdue(q, c, t)
<1>1. /\ p \in PredOf(R, C) /\ q.overlays = p.overlays /\ q.late = p.late
      /\ q.confirmed = p.confirmed /\ q.glitch = g
  BY DEF WithGlitch, PredOf, Sound, Core
<1>2. /\ fb.rows = R /\ fb.cols = C
  BY FrameSize
<1>3. /\ line.row = Row(p, pos[1]) /\ c = Cell(p, pos[1], pos[2])
      /\ Row(p, pos[1]) \in 0..(R - 1) /\ c \in CellOf
      /\ c.active => Live(p, pos[1], pos[2])
  <2>1. Row(p, pos[1]) \in 0..(R - 1)
    BY <1>1, LineType
  <2>2. Cell(p, pos[1], pos[2]) \in CellOf
        /\ (Cell(p, pos[1], pos[2]).active => Live(p, pos[1], pos[2]))
    BY LineCells
  <2>3. line.row = Row(p, pos[1]) /\ c = Cell(p, pos[1], pos[2])
    BY <1>1 DEF Row, Cell
  <2>. QED
    BY <2>1, <2>2, <2>3
<1>4. c.active => p.late < c.exp
  BY <1>3, Zenon DEF Sound, Judged
<1>. DEFINE e == c.epoch <= q.confirmed
<1>5. JudgeCell(a, pos, fb, t) =
        IF v = "incorrect" /\ e THEN [p |-> reset(q), stop |-> TRUE]
        ELSE [p |-> judged, stop |-> FALSE]
  <2>1. a.p = q /\ a.stop = FALSE
    BY DEF Going
  <2>. HIDE DEF q
  <2>. QED
    BY <2>1, Zenon DEF JudgeCell
<1>6. v = IF c.active THEN "pending" ELSE "inactive"
  <2>1. ~(line.row >= R \/ pos[2] >= C)
    <3>1. line.row \in 0..(R - 1)
      BY <1>3
    <3>. HIDE DEF line
    <3>. QED
      BY <3>1
  <2>2. v = IF ~c.active THEN "inactive"
            ELSE IF line.row >= R \/ pos[2] >= C THEN "incorrect"
            ELSE IF p.late < c.exp THEN "pending"
            ELSE IF c.unknown \/ c.text = Blank THEN "no credit"
            ELSE IF fb.cell[line.row][pos[2]] # c.text THEN "incorrect"
            ELSE IF c.text \in c.orig THEN "no credit"
            ELSE "correct"
    BY <1>1, <1>2, Zenon DEF CellValidity
  <2>. HIDE DEF c, line, v
  <2>. QED
    BY <1>4, <2>1, <2>2, Zenon
<1>7. CASE ~c.active
  <2>1. v = "inactive"
    BY <1>6, <1>7
  <2>2. judged = q
    <3>. HIDE DEF v, q, c
    <3>. QED
      BY <2>1
  <2>3. JudgeCell(a, pos, fb, t) = [p |-> q, stop |-> FALSE]
    <3>. HIDE DEF v, judged, q, e
    <3>. QED
      BY <1>5, <2>1, <2>2
  <2>. QED
    BY <2>3 DEF Going
<1>8. CASE c.active
  <2>1. v = "pending"
    BY <1>6, <1>8
  <2>2. judged = Overdue(q, c, t)
    <3>. HIDE DEF v, q, c
    <3>. QED
      BY <2>1
  <2>3. JudgeCell(a, pos, fb, t) = [p |-> Overdue(q, c, t), stop |-> FALSE]
    <3>. HIDE DEF v, judged, q, e, c
    <3>. QED
      BY <1>5, <2>1, <2>2
  <2>. DEFINE late == t - c.time >= GlitchFlagThreshold
              slow == t - c.time >= GlitchThreshold /\ g < GlitchRepairCount
              h == IF late THEN 2 * GlitchRepairCount ELSE IF slow THEN GlitchRepairCount ELSE g
  <2>4. Overdue(q, c, t) = [q EXCEPT !.glitch = h]
    <3>. HIDE DEF c
    <3>1. Overdue(q, c, t) = [q EXCEPT !.glitch =
              IF t - c.time >= GlitchFlagThreshold THEN 2 * GlitchRepairCount
              ELSE IF t - c.time >= GlitchThreshold /\ q.glitch < GlitchRepairCount
              THEN GlitchRepairCount ELSE q.glitch]
      BY Zenon DEF Overdue
    <3>. HIDE DEF q
    <3>. QED
      BY <1>1, <3>1
  <2>. HIDE DEF late, slow
  <2>5. h \in Nat /\ (g > 0 => h > 0)
    BY PredictorAssumption
  <2>. HIDE DEF h
  <2>6. [q EXCEPT !.glitch = h] = WithGlitch(p, h)
    BY <1>1 DEF WithGlitch, PredOf
  <2>. QED
    BY <2>3, <2>4, <2>5, <2>6 DEF Going
<1>. QED
  BY <1>7, <1>8

\* cull's loop over guesses that all wait for a later screen changes the trigger
\* only.
LEMMA OverlooksAll ==
    ASSUME NEW R, NEW C, NEW s, NEW m, Dims(R, C, s, m), NEW p, Sound(p, R, C, s, m),
           NEW fb, Fits(fb, R, C), NEW t \in Nat
    PROVE  \E h \in Nat : /\ JudgeCells(p, fb, t) = Going(WithGlitch(p, h))
                          /\ p.glitch > 0 => h > 0
<1>. R \in Nat /\ C \in Nat /\ s \in Nat /\ m \in Nat
  BY DEF Dims
<1>1. /\ p \in PredOf(R, C) /\ p.glitch \in Nat /\ p.overlays \in Seq(LineOf(R, C))
  <2>1. p \in PredOf(R, C)
    BY DEF Sound, Core
  <2>. QED
    BY <2>1, PredType
<1>2. fb.cols = C /\ C # 0
  BY FrameType
<1>. DEFINE n == Len(p.overlays) * fb.cols
<1>3. n \in Nat /\ Len(p.overlays) \in Nat /\ DOMAIN p.overlays = 1..Len(p.overlays)
  <2>1. Len(p.overlays) \in Nat /\ DOMAIN p.overlays = 1..Len(p.overlays)
    BY <1>1
  <2>. QED
    BY <1>2, <2>1
<1>4. PICK f : /\ JudgeCells(p, fb, t) = f[n] /\ f[0] = [p |-> p, stop |-> FALSE]
               /\ \A i \in 0..(n - 1) :
                      f[i + 1] = JudgeCell(f[i], <<i \div fb.cols + 1, i % fb.cols>>, fb, t)
  BY <1>3, JudgingIs, SMTT(60)
<1>5. \A i \in 0..(n - 1) : <<i \div fb.cols + 1, i % fb.cols>>[1] \in DOMAIN p.overlays
                            /\ <<i \div fb.cols + 1, i % fb.cols>>[2] \in 0..(C - 1)
  <2>. TAKE i \in 0..(n - 1)
  <2>1. i \div C + 1 \in 1..Len(p.overlays) /\ i % C \in 0..(C - 1)
    BY <1>2, <1>3, Position
  <2>. QED
    BY <1>2, <1>3, <2>1
<1>. HIDE DEF n
<1>. DEFINE A == {i \in Nat : i <= n => \E h \in Nat :
                     /\ f[i] = Going(WithGlitch(p, h))
                     /\ p.glitch > 0 => h > 0}
<1>6. 0 \in A
  <2>1. WithGlitch(p, p.glitch) = p
    BY <1>1 DEF WithGlitch, PredOf
  <2>. QED
    BY <1>1, <1>4, <2>1 DEF Going
<1>7. ASSUME NEW i \in Nat, i \in A PROVE i + 1 \in A
  <2>. SUFFICES ASSUME i + 1 <= n
                PROVE  \E h \in Nat : /\ f[i + 1] = Going(WithGlitch(p, h))
                                      /\ p.glitch > 0 => h > 0
    OBVIOUS
  <2>1. i \in 0..(n - 1) /\ i <= n
    BY <1>3
  <2>2. PICK g \in Nat : /\ f[i] = Going(WithGlitch(p, g))
                         /\ p.glitch > 0 => g > 0
    BY <1>7, <2>1
  <2>. DEFINE pos == <<i \div fb.cols + 1, i % fb.cols>>
              a == f[i]
  <2>3. /\ InLine(p, pos, C)
        /\ f[i + 1] = JudgeCell(a, pos, fb, t)
        /\ a = Going(WithGlitch(p, g))
    BY <1>4, <1>5, <2>1, <2>2, Zenon DEF InLine
  <2>. HIDE DEF pos, a
  <2>4. \E h \in Nat : /\ JudgeCell(a, pos, fb, t) = Going(WithGlitch(p, h))
                       /\ g > 0 => h > 0
    BY <2>3, Overlooked
  <2>. QED
    BY <2>2, <2>3, <2>4, Zenon
<1>. HIDE DEF A
<1>8. n \in A
  BY <1>3, <1>6, <1>7, SetInduction
<1>9. n <= n
  BY <1>3
<1>. QED
  BY <1>4, <1>8, <1>9, Zenon DEF A

Triggered(p, x, g) == [p EXCEPT !.srtt = x, !.glitch = g]

\* The triggers matter to no guess.
LEMMA TriggeredSound ==
    ASSUME NEW R, NEW C, NEW s, NEW m, Dims(R, C, s, m), NEW p, Sound(p, R, C, s, m),
           NEW x \in BOOLEAN, NEW g \in Nat, NEW q, q = Triggered(p, x, g)
    PROVE  /\ Sound(q, R, C, s, m) /\ Kept(p, q)
           /\ \A odd : Hide(p, odd) => Hide(q, odd)
           /\ q.overlays = p.overlays /\ q.cursors = p.cursors /\ q.epoch = p.epoch
           /\ q.confirmed = p.confirmed /\ q.srtt = x /\ q.glitch = g
<1>. R \in Nat /\ C \in Nat /\ s \in Nat /\ m \in Nat
  BY DEF Dims
<1>1. p \in PredOf(R, C)
  BY DEF Sound, Core
<1>2. /\ q \in PredOf(R, C) /\ Kept(p, q) /\ q.confirmed = p.confirmed
      /\ q.overlays = p.overlays /\ q.cursors = p.cursors /\ q.epoch = p.epoch
      /\ q.srtt = x /\ q.glitch = g
  BY <1>1 DEF Triggered, PredOf, Kept
<1>3. Same(p, q) /\ Unique(q) /\ Clean(q)
  BY <1>2, SameOverlays DEF Sound, Core
<1>4. Waits(q, s) /\ Leads(p, q) /\ p.epoch <= q.epoch
  <2>1. /\ p \in PredOf(R, C) /\ p.cursors \in Seq(CursorOf(R, C))
        /\ p.epoch \in Nat /\ p.sent \in Nat /\ p.late \in Nat
        /\ \A j \in DOMAIN p.cursors : /\ s < p.cursors[j].exp /\ p.late < p.cursors[j].exp
                                       /\ p.cursors[j].exp <= p.sent + 1 /\ p.cursors[j].epoch <= p.epoch
    BY SoundCursors
  <2>2. q.late = p.late /\ q.sent = p.sent
    BY <1>2 DEF Kept
  <2>3. Waits(q, s)
    BY <1>2, <2>1, <2>2, Zenon DEF Waits
  <2>4. p.cursors # <<>> => Last(p.cursors).exp \in Nat /\ Last(p.cursors).row \in Nat
    BY <1>1, CursorType
  <2>. QED
    BY <1>2, <2>1, <2>3, <2>4 DEF Leads
<1>5. Follows(p, q, R, C, s)
  BY <1>2, <1>3, <1>4, Zenon DEF Follows
<1>6. Sound(q, R, C, s, m)
  BY <1>3, <1>5, SameSound
<1>7. ASSUME NEW odd, Hide(p, odd) PROVE Hide(q, odd)
  BY <1>3, <1>5, <1>7, SameHide
<1>. QED
  BY <1>2, <1>6, <1>7

\* cull leaves cursors alone that wait for a later screen.
LEMMA CursorsWait ==
    ASSUME NEW R, NEW C, NEW s, NEW m, Dims(R, C, s, m), NEW p, Sound(p, R, C, s, m),
           NEW fb, Fits(fb, R, C)
    PROVE  JudgeCursors(p, fb) = p
<1>. R \in Nat /\ C \in Nat /\ s \in Nat /\ m \in Nat
  BY DEF Dims
<1>1. p \in PredOf(R, C)
  BY DEF Sound, Core
<1>2. p.cursors \in Seq(CursorOf(R, C)) /\ DOMAIN p.cursors = 1..Len(p.cursors)
  BY <1>1, PredType
<1>3. fb.rows = R /\ fb.cols = C
  BY FrameSize
<1>4. ASSUME NEW j \in DOMAIN p.cursors
      PROVE  CursorValidity(p, fb, p.cursors[j]) = "pending"
  <2>. DEFINE c == p.cursors[j]
  <2>1. c.row \in 0..(R - 1) /\ c.col \in 0..(C - 1)
    BY <1>1, CursorType
  <2>2. p.late < c.exp
    BY DEF Sound, Judged
  <2>. HIDE DEF c
  <2>3. ~(c.row >= R \/ c.col >= C)
    BY <2>1
  <2>4. CursorValidity(p, fb, c) = IF c.row >= R \/ c.col >= C THEN "incorrect"
                                   ELSE IF p.late < c.exp THEN "pending"
                                   ELSE IF fb.row = c.row /\ fb.col = c.col THEN "correct"
                                   ELSE "incorrect"
    BY <1>3, Zenon DEF CursorValidity
  <2>5. CursorValidity(p, fb, c) = "pending"
    BY <2>2, <2>3, <2>4, Zenon
  <2>. QED
    BY <2>5 DEF c
<1>5. p.cursors # <<>> => CursorValidity(p, fb, Last(p.cursors)) # "incorrect"
  <2>1. p.cursors # <<>> => /\ Len(p.cursors) \in DOMAIN p.cursors
                            /\ Last(p.cursors) = p.cursors[Len(p.cursors)]
    BY <1>1, CursorType
  <2>. QED
    BY <1>4, <2>1
<1>6. Retain(p.cursors, {c \in Range(p.cursors) : CursorValidity(p, fb, c) = "pending"}) = p.cursors
  <2>. DEFINE T == {c \in Range(p.cursors) : CursorValidity(p, fb, c) = "pending"}
  <2>1. \A j \in DOMAIN p.cursors : p.cursors[j] \in T
    <3>1. \A j \in DOMAIN p.cursors : p.cursors[j] \in Range(p.cursors)
      BY Zenon DEF Range
    <3>. QED
      BY <1>4, <3>1
  <2>. HIDE DEF T
  <2>2. Retain(p.cursors, T) = p.cursors
    BY <1>2, <2>1, RetainAll
  <2>. QED
    BY <2>2 DEF T
<1>7. JudgeCursors(p, fb) = [p EXCEPT !.cursors = p.cursors]
  BY <1>5, <1>6, Zenon DEF JudgeCursors
<1>. QED
  BY <1>1, <1>7 DEF PredOf

\* cull drops no overlay line of a row the frame has.
LEMMA LinesRetained ==
    ASSUME NEW R, NEW C, NEW s, NEW m, Dims(R, C, s, m), NEW p, p \in PredOf(R, C),
           NEW fb, Fits(fb, R, C)
    PROVE  [p EXCEPT !.overlays =
                Retain(@, {line \in Range(@) : line.row < fb.rows})] = p
<1>. R \in Nat /\ C \in Nat /\ s \in Nat /\ m \in Nat
  BY DEF Dims
<1>1. p.overlays \in Seq(LineOf(R, C)) /\ fb.rows = R
  BY PredType, FrameSize
<1>. DEFINE T == {line \in Range(p.overlays) : line.row < fb.rows}
<1>2. \A i \in DOMAIN p.overlays : p.overlays[i] \in T
  <2>. TAKE i \in DOMAIN p.overlays
  <2>1. p.overlays[i] \in Range(p.overlays)
    BY Zenon DEF Range
  <2>2. p.overlays[i].row \in 0..(R - 1)
    BY LineType DEF Row
  <2>3. p.overlays[i].row < fb.rows
    BY <1>1, <2>2
  <2>. QED
    BY <2>1, <2>3
<1>3. Retain(p.overlays, T) = p.overlays
  <2>. HIDE DEF T
  <2>. QED
    BY <1>1, <1>2, RetainAll
<1>4. [p EXCEPT !.overlays = Retain(p.overlays, T)] = p
  BY <1>3 DEF PredOf
<1>. QED
  BY <1>4, Zenon

\* cull between two screens changes the triggers only, and puts out none that
\* shows guesses.
LEMMA CullQuiet ==
    ASSUME NEW R, NEW C, NEW s, NEW m, Dims(R, C, s, m), NEW p, Sound(p, R, C, s, m),
           NEW fb, Fits(fb, R, C), p.size = <<R, C>>, p.pref # "Never", NEW t \in Nat
    PROVE  \E x \in BOOLEAN, g \in Nat :
               /\ cull(p, fb, t) = Triggered(p, x, g)
               /\ p.glitch > 0 => g > 0
               /\ (p.srtt /\ active(p)) => x
<1>. R \in Nat /\ C \in Nat /\ s \in Nat /\ m \in Nat
  BY DEF Dims
<1>1. p \in PredOf(R, C) /\ p.srtt \in BOOLEAN /\ p.glitch \in Nat
  <2>1. p \in PredOf(R, C)
    BY DEF Sound, Core
  <2>. QED
    BY <2>1, PredType
<1>2. fb.rows = R /\ fb.cols = C
  BY FrameSize
<1>3. Resized(p, fb) = p
  BY <1>2, Zenon DEF Resized
<1>. DEFINE q == SrttTrigger(p)
<1>4. \E x \in BOOLEAN : q = Triggered(p, x, p.glitch) /\ ((p.srtt /\ active(p)) => x)
  <2>. DEFINE a == active(p)
              slow == p.interval > SrttTriggerHigh
              fast == p.interval <= SrttTriggerLow
  <2>1. q = IF slow THEN [p EXCEPT !.srtt = TRUE]
            ELSE IF p.srtt /\ fast /\ ~a THEN [p EXCEPT !.srtt = FALSE] ELSE p
    BY Zenon DEF SrttTrigger
  <2>2. \A x \in BOOLEAN : [p EXCEPT !.srtt = x] = Triggered(p, x, p.glitch)
    BY <1>1 DEF Triggered, PredOf
  <2>3. p = Triggered(p, p.srtt, p.glitch)
    BY <1>1 DEF Triggered, PredOf
  <2>. HIDE DEF q, a, slow, fast
  <2>4. \/ q = Triggered(p, TRUE, p.glitch)
        \/ ~a /\ q = Triggered(p, FALSE, p.glitch)
        \/ q = Triggered(p, p.srtt, p.glitch)
    BY <2>1, <2>2, <2>3, Zenon
  <2>. QED
    BY <1>1, <2>4, Zenon DEF a
<1>. HIDE DEF q
<1>5. PICK x \in BOOLEAN : q = Triggered(p, x, p.glitch) /\ ((p.srtt /\ active(p)) => x)
  BY <1>4
<1>6. Sound(q, R, C, s, m) /\ q.glitch = p.glitch
  <2>. DEFINE g == p.glitch
  <2>1. g \in Nat /\ q = Triggered(p, x, g)
    BY <1>1, <1>5
  <2>. HIDE DEF g
  <2>2. /\ Sound(q, R, C, s, m) /\ Kept(p, q)
        /\ \A odd : Hide(p, odd) => Hide(q, odd)
        /\ q.overlays = p.overlays /\ q.cursors = p.cursors /\ q.epoch = p.epoch
        /\ q.confirmed = p.confirmed /\ q.srtt = x /\ q.glitch = g
    BY <2>1, TriggeredSound
  <2>. QED
    BY <2>2 DEF g
<1>7. \E h \in Nat : /\ JudgeCells(q, fb, t) = Going(WithGlitch(q, h))
                     /\ q.glitch > 0 => h > 0
  BY <1>6, OverlooksAll
<1>8. PICK h \in Nat : /\ JudgeCells(q, fb, t) = Going(WithGlitch(q, h))
                       /\ q.glitch > 0 => h > 0
  BY <1>7
<1>. DEFINE z == WithGlitch(q, h)
<1>9. z = Triggered(p, x, h)
  BY <1>1, <1>5 DEF WithGlitch, Triggered, PredOf
<1>10. Sound(z, R, C, s, m)
  <2>. HIDE DEF z
  <2>. QED
    BY <1>9, TriggeredSound
<1>11. cull(p, fb, t) = JudgeCursors(z, fb)
  <2>. DEFINE r == JudgeCells(q, fb, t)
  <2>1. [q EXCEPT !.overlays = Retain(@, {line \in Range(@) : line.row < fb.rows})] = q
    <3>1. q \in PredOf(R, C)
      BY <1>6 DEF Sound, Core
    <3>. QED
      BY <3>1, LinesRetained
  <2>2. cull(p, fb, t) = IF p.pref = "Never" THEN p
                         ELSE IF r.stop THEN r.p ELSE JudgeCursors(r.p, fb)
    BY <1>3, <2>1, Zenon DEF cull, q
  <2>3. r.p = z /\ r.stop = FALSE
    BY <1>8 DEF Going
  <2>. HIDE DEF r, z
  <2>. QED
    BY <2>2, <2>3, Zenon
<1>12. JudgeCursors(z, fb) = z
  <2>. HIDE DEF z
  <2>. QED
    BY <1>10, CursorsWait
<1>. QED
  BY <1>5, <1>6, <1>8, <1>9, <1>11, <1>12, Zenon

-----------------------------------------------------------------------------
(* Judging by a new screen.                                                *)

Cleared(p, i, k) == [p EXCEPT !.overlays[i].cells[k] = Inactive]
Stopped(p) == [p |-> p, stop |-> TRUE]

\* What is left of p after its cells were judged: nothing but its size, its
\* settings and the epochs.
Emptied(p, R, C) ==
    /\ p \in PredOf(R, C) /\ p.overlays = <<>> /\ p.cursors = <<>>
    /\ p.confirmed < p.epoch

\* The outcomes of judging a cell: nothing, a trigger, a reset, an epoch
\* killed, or the cell cleared, with or without credit.
Unjudged(z, pos, b) == ~Live(z, pos[1], pos[2]) /\ b = Going(z)
Overlooks(z, pos, b) ==
    /\ Live(z, pos[1], pos[2]) /\ z.late < Cell(z, pos[1], pos[2]).exp
    /\ \E h \in Nat : b = Going(WithGlitch(z, h))
Wrong(z, pos, b) ==
    /\ Live(z, pos[1], pos[2]) /\ Cell(z, pos[1], pos[2]).exp <= z.late
    /\ b = Stopped(reset(z))
Killed(z, pos, fb, b) ==
    /\ Live(z, pos[1], pos[2]) /\ Cell(z, pos[1], pos[2]).exp <= z.late
    /\ b = Going(kill_epoch(z, Cell(z, pos[1], pos[2]).epoch, fb))
Uncredited(z, pos, fb, b) ==
    /\ Live(z, pos[1], pos[2])
    /\ Tame(fb) => Cell(z, pos[1], pos[2]).text # Secret
    /\ b = Going(Cleared(z, pos[1], pos[2]))
Credited(z, pos, fb, t, b) ==
    /\ Live(z, pos[1], pos[2]) /\ Cell(z, pos[1], pos[2]).exp <= z.late
    /\ Cell(z, pos[1], pos[2]).text # Blank
    /\ Tame(fb) => Cell(z, pos[1], pos[2]).text # Secret
    /\ b = Going(Cleared(Credit(z, Cell(z, pos[1], pos[2]), t), pos[1], pos[2]))

\* What judging one cell does, by the cases of cull's match.
LEMMA JudgeCellIs ==
    ASSUME NEW R, NEW C, NEW s, NEW m, Dims(R, C, s, m), NEW z, Core(z, R, C, s, m),
           NEW fb, Fits(fb, R, C), NEW t \in Nat, NEW pos, InLine(z, pos, C), NEW a,
           a = Going(z), NEW b, b = JudgeCell(a, pos, fb, t)
    PROVE  \/ Unjudged(z, pos, b) \/ Overlooks(z, pos, b) \/ Wrong(z, pos, b)
           \/ Killed(z, pos, fb, b) \/ Uncredited(z, pos, fb, b)
           \/ Credited(z, pos, fb, t, b)
<1>. R \in Nat /\ C \in Nat /\ s \in Nat /\ m \in Nat
  BY DEF Dims
<1>. DEFINE l == pos[1]
            k == pos[2]
            c == Cell(z, l, k)
            row == Row(z, l)
            v == CellValidity(z, fb, row, k, c)
            clear(q) == [q EXCEPT !.overlays[l].cells[k] = Inactive]
            judged == CASE v = "inactive" -> z
                        [] v = "incorrect" -> kill_epoch(z, c.epoch, fb)
                        [] v = "correct" -> clear(Credit(z, c, t))
                        [] v = "no credit" -> clear(z)
                        [] v = "pending" -> Overdue(z, c, t)
            known == c.epoch <= z.confirmed
<1>1. l \in DOMAIN z.overlays /\ k \in 0..(C - 1) /\ z \in PredOf(R, C)
  BY DEF InLine, Core
<1>2. /\ row \in 0..(R - 1) /\ z.overlays[l].cells \in [0..(C - 1) -> CellOf]
      /\ DOMAIN z.overlays[l].cells = 0..(C - 1)
  <2>. HIDE DEF l
  <2>1. /\ z.overlays[l] \in LineOf(R, C) /\ Row(z, l) \in 0..(R - 1)
        /\ DOMAIN z.overlays[l].cells = 0..(C - 1)
        /\ z.overlays[l].cells \in [0..(C - 1) -> CellOf]
        /\ l \in 1..Len(z.overlays) /\ Len(z.overlays) \in Nat
    BY <1>1, LineType
  <2>. QED
    BY <2>1
<1>3. c \in CellOf /\ (c.active <=> Live(z, l, k))
  <2>1. c \in CellOf
    BY <1>1, <1>2 DEF Cell
  <2>. QED
    BY <1>1, <1>2, <2>1, Zenon DEF Live
<1>4. /\ fb.rows = R /\ fb.cols = C /\ Columns(fb) = 0..(C - 1) /\ RowNumbers(fb) = 0..(R - 1)
  BY FrameSize
<1>5. b = IF v = "incorrect" /\ known THEN Stopped(reset(z)) ELSE Going(judged)
  <2>1. a.p = z /\ a.stop = FALSE
    BY DEF Going
  <2>2. b = JudgeCell(a, pos, fb, t)
    OBVIOUS
  <2>. QED
    BY <2>1, <2>2, Zenon DEF JudgeCell, Row, Cell, Going, Stopped
<1>6. ~(row >= R \/ k >= C)
  <2>. HIDE DEF row, k
  <2>. QED
    BY <1>1, <1>2
<1>. DEFINE late == z.late < c.exp
            blank == c.unknown \/ c.text = Blank
            same == fb.cell[row][k] = c.text
            old == c.text \in c.orig
<1>7. v = IF ~c.active THEN "inactive"
          ELSE IF late THEN "pending"
          ELSE IF blank THEN "no credit"
          ELSE IF ~same THEN "incorrect"
          ELSE IF old THEN "no credit"
          ELSE "correct"
  <2>1. v = IF ~c.active THEN "inactive"
            ELSE IF row >= fb.rows \/ k >= fb.cols THEN "incorrect"
            ELSE IF late THEN "pending"
            ELSE IF blank THEN "no credit"
            ELSE IF ~same THEN "incorrect"
            ELSE IF old THEN "no credit"
            ELSE "correct"
    BY Zenon DEF CellValidity
  <2>. HIDE DEF v, c, late, blank, same, old, row, k
  <2>. QED
    BY <1>4, <1>6, <2>1, Zenon
<1>8. (blank => c.text = Blank) \/ ~c.active
  BY <1>3, Zenon DEF Core, Dated
<1>9. Tame(fb) /\ same => c.text # Secret
  <2>. HAVE Tame(fb) /\ same
  <2>1. fb.cell[row][k] \notin {Secret, Linked}
    BY <1>1, <1>2, <1>4, Zenon DEF Tame
  <2>. QED
    BY <2>1
<1>10. Blank # Secret
  BY DEF Blank, Secret
<1>11. z.late \in Nat /\ c.exp \in Nat
  <2>1. z.late \in Nat
    BY <1>1, PredType
  <2>. QED
    BY <1>3, <2>1 DEF CellOf
<1>12. ~late => c.exp <= z.late
  <2>. HIDE DEF c
  <2>. QED
    BY <1>11
<1>. HIDE DEF v
<1>13. CASE ~c.active
  <2>1. v = "inactive"
    BY <1>7, <1>13, Zenon
  <2>2. judged = z
    BY <2>1
  <2>3. b = Going(z)
    <3>. HIDE DEF judged, known
    <3>. QED
      BY <1>5, <2>1, <2>2
  <2>4. Unjudged(z, pos, b)
    BY <1>3, <1>13, <2>3, Zenon DEF Unjudged
  <2>. QED
    BY <2>4
<1>14. CASE c.active /\ late
  <2>1. v = "pending"
    BY <1>7, <1>14, Zenon
  <2>2. judged = Overdue(z, c, t)
    <3>. HIDE DEF c
    <3>. QED
      BY <2>1
  <2>3. b = Going(Overdue(z, c, t))
    <3>. HIDE DEF judged, known, c
    <3>. QED
      BY <1>5, <2>1, <2>2
  <2>4. \E h \in Nat : Overdue(z, c, t) = WithGlitch(z, h)
    <3>. DEFINE slow == t - c.time >= GlitchFlagThreshold
                some == t - c.time >= GlitchThreshold /\ z.glitch < GlitchRepairCount
                h == IF slow THEN 2 * GlitchRepairCount ELSE IF some THEN GlitchRepairCount ELSE z.glitch
    <3>1. Overdue(z, c, t) = WithGlitch(z, h)
      BY Zenon DEF Overdue, WithGlitch
    <3>2. z.glitch \in Nat
      BY <1>1, PredType
    <3>. HIDE DEF slow, some
    <3>3. h \in Nat
      BY <3>2, PredictorAssumption
    <3>. HIDE DEF h
    <3>. QED
      BY <3>1, <3>3
  <2>5. Overlooks(z, pos, b)
    BY <1>3, <1>14, <2>3, <2>4, Zenon DEF Overlooks
  <2>. QED
    BY <2>5
<1>15. CASE c.active /\ ~late /\ v = "incorrect"
  <2>1. judged = kill_epoch(z, c.epoch, fb)
    <3>. HIDE DEF c
    <3>. QED
      BY <1>15
  <2>2. b = Stopped(reset(z)) \/ b = Going(kill_epoch(z, c.epoch, fb))
    <3>. HIDE DEF judged, known, c
    <3>. QED
      BY <1>5, <1>15, <2>1, Zenon
  <2>3. Wrong(z, pos, b) \/ Killed(z, pos, fb, b)
    BY <1>3, <1>12, <1>15, <2>2, Zenon DEF Wrong, Killed
  <2>. QED
    BY <2>3
<1>16. CASE c.active /\ ~late /\ v = "no credit"
  <2>1. judged = clear(z)
    <3>. HIDE DEF c, clear
    <3>. QED
      BY <1>16
  <2>2. b = Going(clear(z))
    <3>. HIDE DEF judged, known, c, clear
    <3>. QED
      BY <1>5, <1>16, <2>1
  <2>3. blank \/ same
    <3>. HIDE DEF blank, same, old, late, c
    <3>. QED
      BY <1>7, <1>16
  <2>4. Tame(fb) => c.text # Secret
    BY <1>8, <1>9, <1>10, <1>16, <2>3, Zenon
  <2>5. Uncredited(z, pos, fb, b)
    BY <1>3, <1>16, <2>2, <2>4, Zenon DEF Uncredited, Cleared
  <2>. QED
    BY <2>5
<1>17. CASE c.active /\ ~late /\ v = "correct"
  <2>1. judged = clear(Credit(z, c, t))
    <3>. HIDE DEF c, clear
    <3>. QED
      BY <1>17
  <2>2. b = Going(clear(Credit(z, c, t)))
    <3>. HIDE DEF judged, known, c, clear
    <3>. QED
      BY <1>5, <1>17, <2>1
  <2>3. ~blank /\ same
    <3>. HIDE DEF blank, same, old, late, c
    <3>. QED
      BY <1>7, <1>17
  <2>4. Credited(z, pos, fb, t, b)
    BY <1>3, <1>9, <1>12, <1>17, <2>2, <2>3, Zenon DEF Credited, Cleared
  <2>. QED
    BY <2>4
<1>18. v \in {"inactive", "pending", "incorrect", "no credit", "correct"}
  <2>. HIDE DEF c, late, blank, same, old
  <2>. QED
    BY <1>7
<1>19. c.active /\ ~late => v \in {"incorrect", "no credit", "correct"}
  <2>. HIDE DEF c, late, blank, same, old
  <2>. QED
    BY <1>7
<1>. QED
  BY <1>13, <1>14, <1>15, <1>16, <1>17, <1>19

\* The guesses of w are guesses of z.
Fewer(z, w) ==
    /\ DOMAIN w.overlays = DOMAIN z.overlays
    /\ \A i \in DOMAIN z.overlays : Row(w, i) = Row(z, i)
    /\ \A i, k : Live(w, i, k) => Live(z, i, k) /\ Cell(w, i, k) = Cell(z, i, k)

\* Every guess is to be judged by this screen.
Stale(z) == \A i, k : Live(z, i, k) => Cell(z, i, k).exp <= z.late

\* The cells before position i have been judged.
Swept(z, C, i) ==
    \A l, k : (Live(z, l, k) /\ (l - 1) * C + k < i) => z.late < Cell(z, l, k).exp

CursorsDated(w, s) ==
    \A j \in DOMAIN w.cursors : /\ s < w.cursors[j].exp /\ w.cursors[j].exp <= w.sent + 1
                                /\ w.cursors[j].epoch <= w.epoch

Turned(z, w, R, C, s) ==
    /\ w \in PredOf(R, C) /\ Kept(z, w) /\ Clean(w) /\ Fewer(z, w) /\ z.epoch <= w.epoch
    /\ w.confirmed <= w.epoch /\ CursorsDated(w, s)

\* A turn of cull's loop that only takes guesses away keeps what Core says.
LEMMA OutcomeCore ==
    ASSUME NEW R, NEW C, NEW s, NEW m, Dims(R, C, s, m), NEW z, Core(z, R, C, s, m),
           NEW w, Turned(z, w, R, C, s)
    PROVE  /\ Core(w, R, C, s, m) /\ (Stale(z) => Stale(w))
           /\ \A i : Swept(z, C, i) => Swept(w, C, i)
           /\ (Led(z) /\ w.cursors = z.cursors) => Led(w)
<1>. R \in Nat /\ C \in Nat /\ s \in Nat /\ m \in Nat
  BY DEF Dims
<1>1. /\ z \in PredOf(R, C) /\ w \in PredOf(R, C) /\ w.sent = z.sent /\ w.late = z.late
      /\ z.epoch <= w.epoch
  BY DEF Core, Turned, Kept
<1>2. z.epoch \in Nat /\ w.epoch \in Nat
  BY <1>1, PredType
<1>3. /\ DOMAIN w.overlays = DOMAIN z.overlays
      /\ \A i \in DOMAIN z.overlays : Row(w, i) = Row(z, i)
      /\ \A i, k : Live(w, i, k) => Live(z, i, k) /\ Cell(w, i, k) = Cell(z, i, k)
  BY Zenon DEF Turned, Fewer
<1>4. \A i, k : Live(w, i, k) => i \in DOMAIN z.overlays /\ Row(w, i) = Row(z, i)
  BY <1>3, Zenon DEF Live
<1>5. Unique(w)
  <2>1. Unique(z)
    BY DEF Core
  <2>. QED
    BY <1>3, <2>1, Zenon DEF Unique
<1>6. Dated(w, s, m)
  <2>1. \A i, k : Live(w, i, k) =>
           /\ s < Cell(w, i, k).exp /\ Cell(w, i, k).exp <= m
           /\ Cell(w, i, k).exp <= w.sent + 1 /\ Cell(w, i, k).epoch <= w.epoch
           /\ Cell(w, i, k).unknown => Cell(w, i, k).text = Blank
    <3>. TAKE i, k
    <3>. HAVE Live(w, i, k)
    <3>1. Live(z, i, k) /\ Cell(w, i, k) = Cell(z, i, k)
      BY <1>3, Zenon
    <3>2. /\ s < Cell(z, i, k).exp /\ Cell(z, i, k).exp <= m
          /\ Cell(z, i, k).exp <= z.sent + 1 /\ Cell(z, i, k).epoch <= z.epoch
          /\ Cell(z, i, k).unknown => Cell(z, i, k).text = Blank
      BY <3>1, Zenon DEF Core, Dated
    <3>3. Cell(z, i, k).epoch \in Nat
      BY <1>1, <3>1, CellType
    <3>4. Cell(z, i, k).epoch <= w.epoch
      BY <1>1, <1>2, <3>2, <3>3
    <3>. QED
      BY <1>1, <3>1, <3>2, <3>4, Zenon
  <2>2. \A j \in DOMAIN w.cursors : /\ s < w.cursors[j].exp /\ w.cursors[j].exp <= w.sent + 1
                                   /\ w.cursors[j].epoch <= w.epoch
    BY Zenon DEF Turned, CursorsDated
  <2>3. w.confirmed <= w.epoch
    BY DEF Turned
  <2>. QED
    BY <2>1, <2>2, <2>3, Zenon DEF Dated
<1>7. Ordered(w)
  <2>1. Ordered(z)
    BY DEF Core
  <2>. SUFFICES ASSUME NEW i, NEW k, NEW j, NEW l, Live(w, i, k), Live(w, j, l),
                       Cell(w, i, k).epoch < Cell(w, j, l).epoch
                PROVE  Cell(w, i, k).exp <= Cell(w, j, l).exp
    BY Zenon DEF Ordered
  <2>2. /\ Live(z, i, k) /\ Cell(w, i, k) = Cell(z, i, k)
        /\ Live(z, j, l) /\ Cell(w, j, l) = Cell(z, j, l)
    BY <1>3
  <2>. QED
    BY <2>1, <2>2, Zenon DEF Ordered
<1>8. Core(w, R, C, s, m)
  BY <1>1, <1>5, <1>6, <1>7, Zenon DEF Core, Turned
<1>9. Stale(z) => Stale(w)
  BY <1>1, <1>3, Zenon DEF Stale
<1>10. \A i : Swept(z, C, i) => Swept(w, C, i)
  BY <1>1, <1>3, Zenon DEF Swept
<1>11. (Led(z) /\ w.cursors = z.cursors) => Led(w)
  BY <1>3, <1>4, Zenon DEF Led
<1>. QED
  BY <1>8, <1>9, <1>10, <1>11

\* The cursors of a predictor whose cells are being judged.
LEMMA CoreCursorsDated ==
    ASSUME NEW R, NEW C, NEW s, NEW m, NEW z, Core(z, R, C, s, m)
    PROVE  CursorsDated(z, s) /\ z \in PredOf(R, C) /\ Clean(z) /\ z.confirmed <= z.epoch
BY Zenon DEF Core, Dated, CursorsDated

\* A turn that changes the glitch trigger takes no guess away.
LEMMA GlitchOutcome ==
    ASSUME NEW R, NEW C, NEW s, NEW m, Dims(R, C, s, m), NEW z, Core(z, R, C, s, m),
           NEW h \in Nat, NEW w, w = WithGlitch(z, h)
    PROVE  /\ Turned(z, w, R, C, s) /\ w.cursors = z.cursors /\ w.epoch = z.epoch
           /\ w.confirmed = z.confirmed /\ w.overlays = z.overlays
<1>. R \in Nat /\ C \in Nat /\ s \in Nat /\ m \in Nat
  BY DEF Dims
<1>1. CursorsDated(z, s) /\ z \in PredOf(R, C) /\ Clean(z) /\ z.confirmed <= z.epoch
  BY CoreCursorsDated
<1>2. /\ w \in PredOf(R, C) /\ Kept(z, w) /\ w.confirmed = z.confirmed
      /\ w.overlays = z.overlays /\ w.cursors = z.cursors /\ w.epoch = z.epoch
      /\ w.sent = z.sent
  BY <1>1 DEF WithGlitch, PredOf, Kept
<1>3. Same(z, w) /\ Clean(w)
  BY <1>1, <1>2, SameOverlays
<1>4. Fewer(z, w)
  BY <1>2, <1>3, Zenon DEF Fewer, Same, Row
<1>5. CursorsDated(w, s) /\ w.confirmed <= w.epoch
  BY <1>1, <1>2, Zenon DEF CursorsDated
<1>6. z.epoch <= w.epoch
  <2>1. z.epoch \in Nat
    BY <1>1, PredType
  <2>. QED
    BY <1>2, <2>1
<1>. QED
  BY <1>2, <1>3, <1>4, <1>5, <1>6, Zenon DEF Turned

\* A right guess makes its epoch confident at most.
LEMMA CreditOutcome ==
    ASSUME NEW R, NEW C, NEW s, NEW m, Dims(R, C, s, m), NEW z, Core(z, R, C, s, m),
           NEW l, NEW k, Live(z, l, k), NEW t \in Nat, NEW w, w = Credit(z, Cell(z, l, k), t)
    PROVE  /\ Turned(z, w, R, C, s) /\ w.cursors = z.cursors /\ w.epoch = z.epoch
           /\ w.overlays = z.overlays
           /\ w.confirmed = z.confirmed \/ w.confirmed = Cell(z, l, k).epoch
<1>. R \in Nat /\ C \in Nat /\ s \in Nat /\ m \in Nat
  BY DEF Dims
<1>1. CursorsDated(z, s) /\ z \in PredOf(R, C) /\ Clean(z) /\ z.confirmed <= z.epoch
  BY CoreCursorsDated
<1>2. Cell(z, l, k).epoch \in Nat /\ Cell(z, l, k).epoch <= z.epoch
  <2>1. Cell(z, l, k).epoch \in Nat
    BY <1>1, CellType
  <2>2. Cell(z, l, k).epoch <= z.epoch
    BY Zenon DEF Core, Dated
  <2>. QED
    BY <2>1, <2>2
<1>3. z.confirmed \in Nat /\ z.glitch \in Nat /\ z.quick \in Nat /\ z.epoch \in Nat
  BY <1>1, PredType
<1>. DEFINE c == Cell(z, l, k)
            repairs == /\ t - c.time < GlitchThreshold /\ z.glitch > 0
                       /\ t - z.quick >= GlitchRepairInterval
            cf == IF c.epoch > z.confirmed THEN c.epoch ELSE z.confirmed
            g == IF repairs THEN z.glitch - 1 ELSE z.glitch
            u == IF repairs THEN t ELSE z.quick
<1>4. w = [z EXCEPT !.confirmed = cf, !.glitch = g, !.quick = u]
  BY Zenon DEF Credit
<1>5. cf \in Nat /\ g \in Nat /\ u \in Nat /\ (cf = z.confirmed \/ cf = c.epoch) /\ cf <= z.epoch
  <2>1. repairs => z.glitch > 0
    OBVIOUS
  <2>. HIDE DEF repairs, c
  <2>2. g \in Nat /\ u \in Nat
    BY <1>3, <2>1
  <2>. HIDE DEF g, u
  <2>3. c.epoch \in Nat /\ c.epoch <= z.epoch
    BY <1>2 DEF c
  <2>. QED
    BY <1>1, <1>3, <2>2, <2>3
<1>. HIDE DEF c, cf, g, u
<1>6. /\ w \in PredOf(R, C) /\ Kept(z, w) /\ w.confirmed = cf
      /\ w.overlays = z.overlays /\ w.cursors = z.cursors /\ w.epoch = z.epoch
      /\ w.sent = z.sent
  <2>1. z \in PredOf(R, C) /\ cf \in Nat /\ g \in Nat /\ u \in Nat
    BY <1>1, <1>5
  <2>2. w \in PredOf(R, C)
    BY <1>4, <2>1, ZenonT(60) DEF PredOf
  <2>3. /\ w.confirmed = cf /\ w.overlays = z.overlays /\ w.cursors = z.cursors
        /\ w.epoch = z.epoch /\ w.sent = z.sent /\ w.late = z.late
        /\ w.interval = z.interval /\ w.pref = z.pref /\ w.overwrite = z.overwrite
        /\ w.size = z.size
    BY <1>4, <2>1 DEF PredOf
  <2>. QED
    BY <2>2, <2>3 DEF Kept
<1>7. Same(z, w) /\ Clean(w)
  BY <1>1, <1>6, SameOverlays
<1>8. Fewer(z, w)
  BY <1>6, <1>7, Zenon DEF Fewer, Same, Row
<1>9. CursorsDated(w, s) /\ w.confirmed <= w.epoch
  BY <1>1, <1>5, <1>6, Zenon DEF CursorsDated
<1>10. z.epoch <= w.epoch
  BY <1>3, <1>6
<1>. QED
  BY <1>5, <1>6, <1>7, <1>8, <1>9, <1>10, Zenon DEF Turned, c

\* A cell that is cleared takes its guess away and no other.
LEMMA ClearedOutcome ==
    ASSUME NEW R, NEW C, NEW s, NEW m, Dims(R, C, s, m), NEW z, Core(z, R, C, s, m),
           NEW l, NEW k, Live(z, l, k), NEW w, w = Cleared(z, l, k)
    PROVE  /\ Turned(z, w, R, C, s) /\ w.cursors = z.cursors /\ w.epoch = z.epoch
           /\ w.confirmed = z.confirmed /\ ~Live(w, l, k)
           /\ \A i, j : (Live(z, i, j) /\ ~(i = l /\ j = k)) => Live(w, i, j)
<1>. R \in Nat /\ C \in Nat /\ s \in Nat /\ m \in Nat
  BY DEF Dims
<1>1. CursorsDated(z, s) /\ z \in PredOf(R, C) /\ Clean(z) /\ z.confirmed <= z.epoch
  BY CoreCursorsDated
<1>2. l \in DOMAIN z.overlays /\ k \in DOMAIN z.overlays[l].cells
  BY DEF Live
<1>. DEFINE old == z.overlays[l].cells
            new == [old EXCEPT ![k] = Inactive]
<1>3. old \in [0..(C - 1) -> CellOf] /\ DOMAIN old = 0..(C - 1) /\ k \in 0..(C - 1)
  <2>1. /\ z.overlays[l] \in LineOf(R, C) /\ Row(z, l) \in 0..(R - 1)
        /\ DOMAIN z.overlays[l].cells = 0..(C - 1)
        /\ z.overlays[l].cells \in [0..(C - 1) -> CellOf]
        /\ l \in 1..Len(z.overlays) /\ Len(z.overlays) \in Nat
    BY <1>1, <1>2, LineType
  <2>. QED
    BY <1>2, <2>1
<1>4. /\ new \in [0..(C - 1) -> CellOf] /\ new[k] = Inactive
      /\ \A j \in 0..(C - 1) : j # k => new[j] = old[j]
  <2>1. Inactive \in CellOf
    BY InactiveType
  <2>. HIDE DEF old
  <2>. QED
    BY <1>3, <2>1
<1>5. w = WithCells(z, l, new)
  BY Zenon DEF Cleared, WithCells
<1>6. \A j : old[j] = Cell(z, l, j)
  BY Zenon DEF Cell
<1>. HIDE DEF new, old
<1>7. /\ w \in PredOf(R, C) /\ Kept(z, w) /\ w.confirmed = z.confirmed
      /\ w.epoch = z.epoch /\ w.cursors = z.cursors /\ DOMAIN w.overlays = DOMAIN z.overlays
      /\ \A i \in DOMAIN z.overlays : Row(w, i) = Row(z, i)
      /\ \A i, j : i # l => /\ Live(w, i, j) <=> Live(z, i, j)
                            /\ Live(z, i, j) => Cell(w, i, j) = Cell(z, i, j)
      /\ \A i \in DOMAIN z.overlays : i # l => w.overlays[i] = z.overlays[i]
      /\ \A j : Live(w, l, j) <=> j \in 0..(C - 1) /\ new[j].active
      /\ \A j : Cell(w, l, j) = new[j]
      /\ w.overlays[l].cells = new
  BY <1>1, <1>2, <1>4, <1>5, CellsReplaced
<1>8. ~Live(w, l, k)
  BY <1>4, <1>7, InactiveType, Zenon
<1>9. \A j : (j \in 0..(C - 1) /\ j # k) => (Live(w, l, j) <=> Live(z, l, j)) /\ Cell(w, l, j) = Cell(z, l, j)
  <2>. TAKE j
  <2>. HAVE j \in 0..(C - 1) /\ j # k
  <2>1. new[j] = Cell(z, l, j)
    BY <1>4, <1>6
  <2>2. Live(z, l, j) <=> Cell(z, l, j).active
    BY <1>2, <1>3, Zenon DEF Live, old
  <2>. QED
    BY <1>7, <2>1, <2>2, Zenon
<1>10. \A i, j : Live(w, i, j) => Live(z, i, j) /\ Cell(w, i, j) = Cell(z, i, j)
  BY <1>7, <1>8, <1>9, Zenon
<1>11. \A i, j : (Live(z, i, j) /\ ~(i = l /\ j = k)) => Live(w, i, j)
  <2>. TAKE i, j
  <2>. HAVE Live(z, i, j) /\ ~(i = l /\ j = k)
  <2>1. i = l => j \in 0..(C - 1)
    BY <1>3, Zenon DEF Live, old
  <2>. QED
    BY <1>7, <1>9, <2>1, Zenon
<1>12. Fewer(z, w)
  BY <1>7, <1>10, Zenon DEF Fewer
<1>13. Clean(w)
  <2>. SUFFICES ASSUME NEW i \in DOMAIN w.overlays, NEW j \in DOMAIN w.overlays[i].cells
                PROVE  Live(w, i, j) \/ Cell(w, i, j) = Inactive
    BY Zenon DEF Clean
  <2>1. CASE i # l
    <3>1. i \in DOMAIN z.overlays /\ w.overlays[i] = z.overlays[i]
      BY <1>7, <2>1, Zenon
    <3>2. Live(z, i, j) \/ Cell(z, i, j) = Inactive
      BY <1>1, <3>1, Zenon DEF Clean
    <3>. QED
      BY <1>7, <2>1, <3>1, <3>2, Zenon DEF Cell
  <2>2. CASE i = l
    <3>1. j \in 0..(C - 1)
      BY <1>4, <1>7, <2>2
    <3>2. CASE j = k
      BY <1>4, <1>7, <2>2, <3>2, Zenon
    <3>3. CASE j # k
      <4>1. Live(z, l, j) \/ Cell(z, l, j) = Inactive
        BY <1>1, <1>2, <1>3, <3>1, Zenon DEF Clean, old
      <4>. QED
        BY <1>9, <2>2, <3>1, <3>3, <4>1, Zenon
    <3>. QED
      BY <3>2, <3>3
  <2>. QED
    BY <2>1, <2>2
<1>14. CursorsDated(w, s) /\ w.confirmed <= w.epoch
  <2>1. w.sent = z.sent
    BY <1>7 DEF Kept
  <2>. QED
    BY <1>1, <1>7, <2>1, Zenon DEF CursorsDated
<1>15. z.epoch <= w.epoch
  <2>1. z.epoch \in Nat
    BY <1>1, PredType
  <2>. QED
    BY <1>7, <2>1
<1>. QED
  BY <1>7, <1>8, <1>11, <1>12, <1>13, <1>14, <1>15, Zenon DEF Turned

\* reset leaves no guess and no cursor, and begins an epoch.
LEMMA ResetOutcome ==
    ASSUME NEW R, NEW C, NEW p, p \in PredOf(R, C), p.confirmed <= p.epoch,
           NEW w, w = reset(p)
    PROVE  Emptied(w, R, C) /\ Kept(p, w) /\ w.epoch = p.epoch + 1 /\ w.confirmed = p.confirmed
<1>1. /\ p.epoch \in Nat /\ p.confirmed \in Nat
  BY DEF PredOf
<1>2. w = [p EXCEPT !.cursors = <<>>, !.overlays = <<>>, !.epoch = p.epoch + 1]
  BY DEF reset, become_tentative, PredOf
<1>3. <<>> \in Seq(LineOf(R, C)) /\ <<>> \in Seq(CursorOf(R, C)) /\ p.epoch + 1 \in Nat
  BY <1>1
<1>4. /\ w \in PredOf(R, C) /\ w.overlays = <<>> /\ w.cursors = <<>>
      /\ w.epoch = p.epoch + 1 /\ w.confirmed = p.confirmed
  BY <1>2, <1>3 DEF PredOf
<1>5. Kept(p, w)
  BY <1>2 DEF PredOf, Kept
<1>6. w.confirmed < w.epoch
  BY <1>1, <1>4
<1>. QED
  BY <1>4, <1>5, <1>6 DEF Emptied

\* kill_epoch empties the cells of the epoch and of later ones, and no others.
LEMMA WithdrawnCells ==
    ASSUME NEW C \in Nat, NEW cells, cells \in [0..(C - 1) -> CellOf], NEW e \in Nat
    PROVE  /\ Withdrawn(cells, e) \in [0..(C - 1) -> CellOf]
           /\ \A k \in 0..(C - 1) : \/ cells[k].epoch < e /\ Withdrawn(cells, e)[k] = cells[k]
                                    \/ e <= cells[k].epoch /\ Withdrawn(cells, e)[k] = Inactive
<1>. DEFINE new == Withdrawn(cells, e)
<1>1. new = [k \in 0..(C - 1) |-> IF FromEpoch(cells[k], e) THEN Inactive ELSE cells[k]]
  <2>1. DOMAIN cells = 0..(C - 1)
    OBVIOUS
  <2>. QED
    BY <2>1, Zenon DEF Withdrawn
<1>2. \A k \in 0..(C - 1) : /\ cells[k] \in CellOf
                            /\ FromEpoch(cells[k], e) <=> e <= cells[k].epoch
                            /\ cells[k].epoch \in Nat
  BY DEF FromEpoch, CellOf
<1>3. Inactive \in CellOf
  BY InactiveType
<1>. HIDE DEF new
<1>4. new \in [0..(C - 1) -> CellOf]
  BY <1>1, <1>2, <1>3, Zenon
<1>5. \A k \in 0..(C - 1) : \/ cells[k].epoch < e /\ new[k] = cells[k]
                            \/ e <= cells[k].epoch /\ new[k] = Inactive
  <2>. TAKE k \in 0..(C - 1)
  <2>1. new[k] = IF FromEpoch(cells[k], e) THEN Inactive ELSE cells[k]
    BY <1>1, Zenon
  <2>. QED
    BY <1>2, <2>1
<1>. QED
  BY <1>4, <1>5 DEF new

\* kill_epoch leaves the guesses of earlier epochs, which this screen judges too.
LEMMA KilledOutcome ==
    ASSUME NEW R, NEW C, NEW s, NEW m, Dims(R, C, s, m), NEW z, Core(z, R, C, s, m),
           NEW fb, Fits(fb, R, C), NEW l, NEW k, Live(z, l, k),
           Cell(z, l, k).exp <= z.late, NEW e, e = Cell(z, l, k).epoch,
           NEW w, w = kill_epoch(z, e, fb)
    PROVE  /\ Turned(z, w, R, C, s) /\ Stale(w) /\ w.epoch = z.epoch + 1
           /\ w.confirmed = z.confirmed
           /\ \A i, j : Live(w, i, j) <=> (Live(z, i, j) /\ Cell(z, i, j).epoch < e)
<1>. R \in Nat /\ C \in Nat /\ s \in Nat /\ m \in Nat
  BY DEF Dims
<1>1. CursorsDated(z, s) /\ z \in PredOf(R, C) /\ Clean(z) /\ z.confirmed <= z.epoch
  BY CoreCursorsDated
<1>2. /\ z.epoch \in Nat /\ z.sent \in Nat /\ z.late \in Nat /\ z.confirmed \in Nat
      /\ z.overlays \in Seq(LineOf(R, C)) /\ z.cursors \in Seq(CursorOf(R, C))
  BY <1>1, PredType
<1>3. /\ e \in Nat /\ Cell(z, l, k).exp \in Nat /\ s < Cell(z, l, k).exp
      /\ Cell(z, l, k).exp <= z.sent + 1
  <2>1. e \in Nat /\ Cell(z, l, k).exp \in Nat
    BY <1>1, CellType
  <2>2. s < Cell(z, l, k).exp /\ Cell(z, l, k).exp <= z.sent + 1
    BY Zenon DEF Core, Dated
  <2>. QED
    BY <2>1, <2>2
<1>. DEFINE T == {c \in Range(z.cursors) : ~FromEpoch(c, e)}
            old == Retain(z.cursors, T)
            x == CursorAt(z, fb.row, fb.col)
            cs == Append(old, x)
            os == [i \in DOMAIN z.overlays |->
                      [z.overlays[i] EXCEPT !.cells = Withdrawn(@, e)]]
<1>4. w = [z EXCEPT !.cursors = cs, !.overlays = os, !.epoch = z.epoch + 1]
  <2>1. w = become_tentative([z EXCEPT !.cursors = cs, !.overlays = os])
    BY Zenon DEF kill_epoch
  <2>. HIDE DEF cs, os
  <2>. QED
    BY <1>1, <2>1 DEF become_tentative, PredOf
<1>5. /\ old \in Seq({c \in CursorOf(R, C) \cap T : \E j \in DOMAIN z.cursors : c = z.cursors[j]})
  BY <1>2, RetainType
<1>6. x \in CursorOf(R, C) /\ x.exp = z.sent + 1 /\ x.epoch = z.epoch
  <2>1. fb.row \in 0..(R - 1) /\ fb.col \in 0..(C - 1)
    BY FrameType
  <2>. QED
    BY <1>2, <2>1, SMTT(60) DEF CursorAt, CursorOf
<1>. HIDE DEF T, x
<1>7. /\ old \in Seq(CursorOf(R, C))
      /\ \A j \in DOMAIN old : \E i \in DOMAIN z.cursors : old[j] = z.cursors[i]
  <2>. DEFINE U == {c \in CursorOf(R, C) \cap T : \E j \in DOMAIN z.cursors : c = z.cursors[j]}
  <2>1. U \subseteq CursorOf(R, C) /\ \A c \in U : \E j \in DOMAIN z.cursors : c = z.cursors[j]
    BY Zenon
  <2>2. old \in Seq(U)
    BY <1>5
  <2>. HIDE DEF U, old
  <2>3. old \in Seq(CursorOf(R, C)) /\ \A j \in DOMAIN old : old[j] \in U
    BY <2>1, <2>2
  <2>. QED
    BY <2>1, <2>3, Zenon
<1>. HIDE DEF old
<1>8. /\ cs \in Seq(CursorOf(R, C))
      /\ \A j \in DOMAIN cs : cs[j] = x \/ \E i \in DOMAIN z.cursors : cs[j] = z.cursors[i]
  <2>1. /\ Append(old, x) \in Seq(CursorOf(R, C)) /\ Append(old, x) # <<>> /\ Last(Append(old, x)) = x
        /\ DOMAIN Append(old, x) = 1..(Len(old) + 1) /\ Len(old) \in Nat
        /\ \A j \in DOMAIN Append(old, x) : j = Len(old) + 1 \/ j \in DOMAIN old
        /\ \A j \in DOMAIN old : Append(old, x)[j] = old[j]
        /\ Append(old, x)[Len(old) + 1] = x
    BY <1>6, <1>7, AppendFacts
  <2>. QED
    BY <1>7, <2>1, Zenon
<1>. HIDE DEF cs
<1>9. ASSUME NEW i \in DOMAIN z.overlays
      PROVE  /\ os[i] \in LineOf(R, C) /\ os[i].row = Row(z, i)
             /\ os[i].cells = Withdrawn(z.overlays[i].cells, e)
             /\ z.overlays[i].cells \in [0..(C - 1) -> CellOf]
  <2>1. /\ z.overlays[i] \in LineOf(R, C)
        /\ z.overlays[i].cells \in [0..(C - 1) -> CellOf]
    BY <1>1, LineType
  <2>2. Withdrawn(z.overlays[i].cells, e) \in [0..(C - 1) -> CellOf]
    BY <1>3, <2>1, WithdrawnCells
  <2>3. os[i] = [z.overlays[i] EXCEPT !.cells = Withdrawn(@, e)]
    BY Zenon
  <2>. HIDE DEF os
  <2>. QED
    BY <2>1, <2>2, <2>3 DEF LineOf, Row
<1>10. os \in Seq(LineOf(R, C)) /\ DOMAIN os = DOMAIN z.overlays
  <2>1. DOMAIN z.overlays = 1..Len(z.overlays) /\ Len(z.overlays) \in Nat
    BY <1>2
  <2>2. os = [i \in 1..Len(z.overlays) |-> os[i]] /\ DOMAIN os = DOMAIN z.overlays
    BY <2>1, Zenon
  <2>3. \A i \in 1..Len(z.overlays) : os[i] \in LineOf(R, C)
    BY <1>9, <2>1, Zenon
  <2>. HIDE DEF os
  <2>4. os \in [1..Len(z.overlays) -> LineOf(R, C)]
    BY <2>2, <2>3, Zenon
  <2>. QED
    BY <2>1, <2>2, <2>4
<1>. HIDE DEF os
<1>11. /\ w \in PredOf(R, C) /\ Kept(z, w) /\ w.cursors = cs /\ w.overlays = os
       /\ w.epoch = z.epoch + 1 /\ w.confirmed = z.confirmed /\ w.sent = z.sent
       /\ w.late = z.late
  <2>1. z.epoch + 1 \in Nat
    BY <1>2
  <2>. QED
    BY <1>1, <1>4, <1>8, <1>10, <2>1 DEF PredOf, Kept
<1>12. /\ DOMAIN w.overlays = DOMAIN z.overlays
       /\ \A i \in DOMAIN z.overlays : Row(w, i) = Row(z, i)
  BY <1>9, <1>10, <1>11, Zenon DEF Row
<1>13. ASSUME NEW i \in DOMAIN z.overlays, NEW j \in 0..(C - 1)
       PROVE  \/ Cell(z, i, j).epoch < e /\ Cell(w, i, j) = Cell(z, i, j)
              \/ ~(Cell(z, i, j).epoch < e) /\ Cell(w, i, j) = Inactive
  <2>. DEFINE cells == z.overlays[i].cells
  <2>1. cells \in [0..(C - 1) -> CellOf] /\ os[i].cells = Withdrawn(cells, e)
    BY <1>9
  <2>. HIDE DEF cells
  <2>2. \/ cells[j].epoch < e /\ Withdrawn(cells, e)[j] = cells[j]
        \/ e <= cells[j].epoch /\ Withdrawn(cells, e)[j] = Inactive
    BY <1>3, <2>1, WithdrawnCells
  <2>3. cells[j].epoch \in Nat
    BY <2>1 DEF CellOf
  <2>4. Cell(z, i, j) = cells[j] /\ Cell(w, i, j) = Withdrawn(cells, e)[j]
    BY <1>11, <2>1, Zenon DEF Cell, cells
  <2>5. e <= cells[j].epoch => ~(cells[j].epoch < e)
    BY <1>3, <2>3
  <2>. QED
    BY <2>2, <2>4, <2>5, Zenon
<1>14. \A i \in DOMAIN z.overlays : DOMAIN w.overlays[i].cells = 0..(C - 1)
                                  /\ DOMAIN z.overlays[i].cells = 0..(C - 1)
  <2>. TAKE i \in DOMAIN z.overlays
  <2>1. w.overlays[i] \in LineOf(R, C) /\ z.overlays[i].cells \in [0..(C - 1) -> CellOf]
    BY <1>9, <1>11
  <2>. QED
    BY <2>1 DEF LineOf
<1>15. \A i, j : Live(w, i, j) => Live(z, i, j) /\ Cell(w, i, j) = Cell(z, i, j) /\ Cell(z, i, j).epoch < e
  <2>. TAKE i, j
  <2>. HAVE Live(w, i, j)
  <2>1. i \in DOMAIN z.overlays /\ j \in 0..(C - 1) /\ Cell(w, i, j).active
        /\ j \in DOMAIN z.overlays[i].cells
    BY <1>12, <1>14, Zenon DEF Live
  <2>2. Cell(z, i, j).epoch < e /\ Cell(w, i, j) = Cell(z, i, j)
    BY <1>13, <2>1, InactiveType, Zenon
  <2>. QED
    BY <2>1, <2>2, Zenon DEF Live
<1>16. \A i, j : (Live(z, i, j) /\ Cell(z, i, j).epoch < e) => Live(w, i, j)
  <2>. TAKE i, j
  <2>. HAVE Live(z, i, j) /\ Cell(z, i, j).epoch < e
  <2>1. i \in DOMAIN z.overlays /\ j \in 0..(C - 1) /\ Cell(z, i, j).active
        /\ j \in DOMAIN w.overlays[i].cells
    BY <1>14, Zenon DEF Live
  <2>2. Cell(w, i, j) = Cell(z, i, j)
    BY <1>13, <2>1, Zenon
  <2>. QED
    BY <1>12, <2>1, <2>2, Zenon DEF Live
<1>17. Fewer(z, w)
  BY <1>12, <1>15, Zenon DEF Fewer
<1>18. Clean(w)
  <2>. SUFFICES ASSUME NEW i \in DOMAIN w.overlays, NEW j \in DOMAIN w.overlays[i].cells
                PROVE  Live(w, i, j) \/ Cell(w, i, j) = Inactive
    BY Zenon DEF Clean
  <2>1. i \in DOMAIN z.overlays /\ j \in 0..(C - 1) /\ j \in DOMAIN z.overlays[i].cells
    BY <1>12, <1>14, Zenon
  <2>2. Live(z, i, j) \/ Cell(z, i, j) = Inactive
    BY <1>1, <2>1, Zenon DEF Clean
  <2>. QED
    BY <1>13, <1>16, <2>1, <2>2, Zenon
<1>19. CursorsDated(w, s) /\ w.confirmed <= w.epoch /\ z.epoch <= w.epoch
  <2>1. w.confirmed <= w.epoch /\ z.epoch <= w.epoch /\ s < z.sent + 1
        /\ z.sent + 1 <= z.sent + 1
    <3>1. s < z.sent + 1 /\ z.sent + 1 <= z.sent + 1
      BY <1>2, <1>3, SMTT(60)
    <3>2. z.confirmed <= z.epoch + 1 /\ z.epoch <= z.epoch + 1
      BY <1>1, <1>2
    <3>. QED
      BY <1>11, <3>1, <3>2, Zenon
  <2>2. ASSUME NEW j \in DOMAIN w.cursors
        PROVE  /\ s < w.cursors[j].exp /\ w.cursors[j].exp <= w.sent + 1
               /\ w.cursors[j].epoch <= w.epoch
    <3>. DEFINE c == cs[j]
    <3>1. w.cursors[j] = c /\ (c = x \/ \E i \in DOMAIN z.cursors : c = z.cursors[i])
      BY <1>8, <1>11
    <3>. HIDE DEF c
    <3>2. CASE c = x
      BY <1>6, <1>11, <2>1, <3>1, <3>2
    <3>3. CASE \E i \in DOMAIN z.cursors : c = z.cursors[i]
      <4>1. PICK i \in DOMAIN z.cursors : c = z.cursors[i]
        BY <3>3
      <4>2. /\ s < z.cursors[i].exp /\ z.cursors[i].exp <= z.sent + 1
            /\ z.cursors[i].epoch <= z.epoch
        BY <1>1, Zenon DEF CursorsDated
      <4>3. z.cursors[i].epoch \in Nat
        BY <1>1, CursorType
      <4>4. z.cursors[i].epoch <= z.epoch + 1
        BY <1>2, <4>2, <4>3, SMTT(60)
      <4>. QED
        BY <1>11, <3>1, <4>1, <4>2, <4>4, Zenon
    <3>. QED
      BY <3>1, <3>2, <3>3
  <2>. QED
    BY <2>1, <2>2, Zenon DEF CursorsDated
<1>20. Stale(w)
  <2>. SUFFICES ASSUME NEW i, NEW j, Live(w, i, j)
                PROVE  Cell(w, i, j).exp <= w.late
    BY Zenon DEF Stale
  <2>1. Live(z, i, j) /\ Cell(w, i, j) = Cell(z, i, j) /\ Cell(z, i, j).epoch < Cell(z, l, k).epoch
    BY <1>15, Zenon
  <2>2. Cell(z, i, j).exp <= Cell(z, l, k).exp
    BY <2>1, Zenon DEF Core, Ordered
  <2>3. Cell(z, i, j).exp \in Nat
    BY <1>1, <2>1, CellType
  <2>. QED
    BY <1>2, <1>3, <1>11, <2>1, <2>2, <2>3, SMTT(60)
<1>. QED
  BY <1>11, <1>15, <1>16, <1>17, <1>18, <1>19, <1>20, Zenon DEF Turned

\* What keeps a password off the display while the cells are judged: a
\* password character of a confident epoch is wrong by this screen, and those
\* that are below the cursor go with it.
Hidden(z, odd) ==
    /\ \A i, k, j, l :
           (Plain(z, i, k) /\ Secretive(z, j, l)
            /\ Cell(z, i, k).epoch = Cell(z, j, l).epoch) => Witness(z, i, k)
    /\ \A i, k : Secretive(z, i, k) => \/ z.confirmed < Cell(z, i, k).epoch
                                       \/ Cell(z, i, k).exp <= z.late
    /\ \A i, k : Live(z, i, k) => Cell(z, i, k).text # Linked
    /\ odd => Silent(z)
    /\ ~odd => Stale(z) \/ Open(z)

Steady(z, w) ==
    /\ w.cursors = z.cursors /\ w.epoch = z.epoch
    /\ \A i, k : Secretive(z, i, k) => Live(w, i, k)

\* Of guesses that are taken away, what is left is as secret or as plain as
\* before.
LEMMA FewerSecretive ==
    ASSUME NEW z, NEW w, Fewer(z, w), NEW i, NEW k
    PROVE  /\ Secretive(w, i, k) => /\ Secretive(z, i, k) /\ Live(z, i, k)
                                    /\ Cell(w, i, k) = Cell(z, i, k) /\ Row(w, i) = Row(z, i)
           /\ Plain(w, i, k) => /\ Plain(z, i, k) /\ Live(z, i, k)
                                /\ Cell(w, i, k) = Cell(z, i, k)
           /\ (Secretive(z, i, k) /\ Live(w, i, k)) => Secretive(w, i, k)
<1>1. Live(w, i, k) => /\ Live(z, i, k) /\ Cell(w, i, k) = Cell(z, i, k)
                       /\ Row(w, i) = Row(z, i)
  BY Zenon DEF Fewer, Live
<1>. QED
  BY <1>1, Zenon DEF Secretive, Plain

\* Passwords stay hidden in a turn that keeps them and makes no epoch of theirs
\* confident.
LEMMA HiddenSteady ==
    ASSUME NEW R, NEW C, NEW s, NEW m, Dims(R, C, s, m), NEW z, Core(z, R, C, s, m),
           NEW w, Turned(z, w, R, C, s), Steady(z, w), NEW odd, Hidden(z, odd),
           \A i, k : Secretive(z, i, k) => \/ w.confirmed < Cell(z, i, k).epoch
                                           \/ Cell(z, i, k).exp <= z.late,
           odd => w.confirmed < w.epoch
    PROVE  Hidden(w, odd)
<1>1. Fewer(z, w) /\ w.overwrite = z.overwrite /\ w.late = z.late
  BY DEF Turned, Kept
<1>2. \A i, k : /\ Secretive(w, i, k) => /\ Secretive(z, i, k) /\ Live(z, i, k)
                                         /\ Cell(w, i, k) = Cell(z, i, k) /\ Row(w, i) = Row(z, i)
                /\ Plain(w, i, k) => /\ Plain(z, i, k) /\ Live(z, i, k)
                                     /\ Cell(w, i, k) = Cell(z, i, k)
                /\ (Secretive(z, i, k) /\ Live(w, i, k)) => Secretive(w, i, k)
  BY <1>1, FewerSecretive
<1>3. ASSUME NEW i, NEW k, Plain(w, i, k), Witness(z, i, k) PROVE Witness(w, i, k)
  <2>1. PICK j : /\ Secretive(z, i, j) /\ j < k
                 /\ Cell(z, i, j).epoch = Cell(z, i, k).epoch
                 /\ Cell(z, i, j).exp <= Cell(z, i, k).exp
    BY <1>3, Zenon DEF Witness
  <2>2. Secretive(w, i, j) /\ Cell(w, i, j) = Cell(z, i, j) /\ Cell(w, i, k) = Cell(z, i, k)
    BY <1>2, <1>3, <2>1, Zenon DEF Steady
  <2>. QED
    BY <1>1, <1>3, <2>1, <2>2, Zenon DEF Witness
<1>4. ASSUME NEW i, NEW k, NEW j, NEW l, Plain(w, i, k), Secretive(w, j, l),
             Cell(w, i, k).epoch = Cell(w, j, l).epoch
      PROVE  Witness(w, i, k)
  <2>1. /\ Plain(z, i, k) /\ Secretive(z, j, l)
        /\ Cell(z, i, k).epoch = Cell(z, j, l).epoch
    BY <1>2, <1>4, Zenon
  <2>2. Witness(z, i, k)
    BY <2>1, Zenon DEF Hidden
  <2>. QED
    BY <1>3, <1>4, <2>2, Zenon
<1>5. \A i, k : Secretive(w, i, k) => \/ w.confirmed < Cell(w, i, k).epoch
                                      \/ Cell(w, i, k).exp <= w.late
  BY <1>1, <1>2, Zenon
<1>6. \A i, k : Live(w, i, k) => Cell(w, i, k).text # Linked
  BY <1>1, Zenon DEF Fewer, Hidden
<1>7. ASSUME odd PROVE Silent(w)
  <2>1. Silent(z) /\ w.epoch = z.epoch
    BY <1>7 DEF Hidden, Steady
  <2>2. ASSUME NEW i, NEW k, Plain(w, i, k), Cell(w, i, k).epoch = w.epoch
        PROVE  Witness(w, i, k)
    <3>1. Plain(z, i, k) /\ Cell(z, i, k).epoch = z.epoch
      BY <1>2, <2>1, <2>2, Zenon
    <3>2. Witness(z, i, k)
      BY <2>1, <3>1, Zenon DEF Silent
    <3>. QED
      BY <1>3, <2>2, <3>2, Zenon
  <2>. QED
    BY <1>7, <2>2, Zenon DEF Silent
<1>8. ASSUME ~odd PROVE Stale(w) \/ Open(w)
  <2>1. Stale(z) => Stale(w)
    BY OutcomeCore
  <2>2. Open(z) => Open(w)
    BY <1>2, Zenon DEF Open, Steady
  <2>. QED
    BY <1>8, <2>1, <2>2 DEF Hidden
<1>. QED
  BY <1>4, <1>5, <1>6, <1>7, <1>8, Zenon DEF Hidden

\* Passwords stay hidden when an epoch is killed: a witness goes with what it is
\* a witness of.
LEMMA HiddenKilled ==
    ASSUME NEW R, NEW C, NEW s, NEW m, Dims(R, C, s, m), NEW z, Core(z, R, C, s, m),
           NEW w, NEW e, Turned(z, w, R, C, s), Stale(w), w.epoch = z.epoch + 1,
           w.confirmed = z.confirmed,
           \A i, j : Live(w, i, j) <=> (Live(z, i, j) /\ Cell(z, i, j).epoch < e),
           NEW odd, Hidden(z, odd)
    PROVE  Hidden(w, odd)
<1>. R \in Nat /\ C \in Nat /\ s \in Nat /\ m \in Nat
  BY DEF Dims
<1>1. Fewer(z, w) /\ w.overwrite = z.overwrite /\ w.late = z.late
  BY DEF Turned, Kept
<1>2. \A i, k : /\ Secretive(w, i, k) => /\ Secretive(z, i, k) /\ Live(z, i, k)
                                         /\ Cell(w, i, k) = Cell(z, i, k) /\ Row(w, i) = Row(z, i)
                /\ Plain(w, i, k) => /\ Plain(z, i, k) /\ Live(z, i, k)
                                     /\ Cell(w, i, k) = Cell(z, i, k)
                /\ (Secretive(z, i, k) /\ Live(w, i, k)) => Secretive(w, i, k)
  BY <1>1, FewerSecretive
<1>3. ASSUME NEW i, NEW k, Plain(w, i, k), Witness(z, i, k) PROVE Witness(w, i, k)
  <2>1. PICK j : /\ Secretive(z, i, j) /\ j < k
                 /\ Cell(z, i, j).epoch = Cell(z, i, k).epoch
                 /\ Cell(z, i, j).exp <= Cell(z, i, k).exp
    BY <1>3, Zenon DEF Witness
  <2>2. Cell(z, i, k).epoch < e
    BY <1>3, Zenon DEF Plain
  <2>3. Live(w, i, j)
    BY <2>1, <2>2, Zenon DEF Secretive
  <2>4. Secretive(w, i, j) /\ Cell(w, i, j) = Cell(z, i, j) /\ Cell(w, i, k) = Cell(z, i, k)
    BY <1>2, <1>3, <2>1, <2>3, Zenon
  <2>. QED
    BY <1>1, <1>3, <2>1, <2>4, Zenon DEF Witness
<1>4. ASSUME NEW i, NEW k, NEW j, NEW l, Plain(w, i, k), Secretive(w, j, l),
             Cell(w, i, k).epoch = Cell(w, j, l).epoch
      PROVE  Witness(w, i, k)
  <2>1. /\ Plain(z, i, k) /\ Secretive(z, j, l)
        /\ Cell(z, i, k).epoch = Cell(z, j, l).epoch
    BY <1>2, <1>4, Zenon
  <2>2. Witness(z, i, k)
    BY <2>1, Zenon DEF Hidden
  <2>. QED
    BY <1>3, <1>4, <2>2, Zenon
<1>5. \A i, k : Secretive(w, i, k) => \/ w.confirmed < Cell(w, i, k).epoch
                                      \/ Cell(w, i, k).exp <= w.late
  BY <1>1, <1>2, Zenon DEF Hidden
<1>6. \A i, k : Live(w, i, k) => Cell(w, i, k).text # Linked
  BY <1>1, Zenon DEF Fewer, Hidden
<1>7. Silent(w)
  <2>1. z.confirmed <= z.epoch /\ z.confirmed \in Nat /\ z.epoch \in Nat
    BY PredType DEF Core, Dated
  <2>2. w.confirmed < w.epoch
    BY <2>1
  <2>3. ASSUME NEW i, NEW k, Plain(w, i, k) PROVE Cell(w, i, k).epoch # w.epoch
    <3>1. Live(z, i, k) /\ Cell(w, i, k) = Cell(z, i, k)
      BY <1>2, <2>3, Zenon
    <3>2. Cell(z, i, k).epoch <= z.epoch
      BY <3>1, Zenon DEF Core, Dated
    <3>3. Cell(z, i, k).epoch \in Nat
      BY <3>1, CellType DEF Core
    <3>. QED
      BY <2>1, <3>1, <3>2, <3>3
  <2>. QED
    BY <2>2, <2>3, Zenon DEF Silent
<1>. QED
  BY <1>4, <1>5, <1>6, <1>7, Zenon DEF Hidden

\* Where the cell at position i is.
AtPos(pos, C, i) ==
    /\ \A j \in Nat : j < pos[2] => (pos[1] - 1) * C + j < i
    /\ \A l \in Nat \ {0}, k \in 0..(C - 1) :
           (l - 1) * C + k < i + 1 => \/ (l - 1) * C + k < i
                                      \/ l = pos[1] /\ k = pos[2]

\* The cells before position i + 1 are those before position i and the one at it.
LEMMA PosAt ==
    ASSUME NEW C \in Nat, C # 0, NEW i \in Nat, NEW pos, pos = <<i \div C + 1, i % C>>
    PROVE  AtPos(pos, C, i)
<1>. DEFINE d == i \div C
            r == i % C
<1>1. d \in Int /\ r \in 0..(C - 1) /\ i = C * d + r
  OBVIOUS
<1>2. pos[1] = d + 1 /\ pos[2] = r
  OBVIOUS
<1>. HIDE DEF d, r
<1>3. ASSUME NEW j \in Nat, j < r PROVE d * C + j < i
  BY <1>1, <1>3
<1>4. \A j \in Nat : j < pos[2] => (pos[1] - 1) * C + j < i
  <2>1. pos[1] - 1 = d
    BY <1>1, <1>2
  <2>. QED
    BY <1>2, <1>3, <2>1
<1>5. ASSUME NEW l \in Nat \ {0}, NEW k \in 0..(C - 1), (l - 1) * C + k < i + 1,
             ~((l - 1) * C + k < i)
      PROVE  l = pos[1] /\ k = pos[2]
  <2>. DEFINE e == l - 1
  <2>1. e \in Int /\ l = e + 1
    OBVIOUS
  <2>2. e * C + k < i + 1 /\ ~(e * C + k < i)
    BY <1>5
  <2>. HIDE DEF e
  <2>3. e * C + k = i
    BY <1>1, <2>1, <2>2
  <2>4. ~(e < d)
    BY <1>1, <2>1, <2>3
  <2>5. ~(e > d)
    BY <1>1, <2>1, <2>3
  <2>6. e = d
    BY <1>1, <2>1, <2>4, <2>5
  <2>7. k = r
    BY <1>1, <2>3, <2>6
  <2>. QED
    BY <1>2, <2>1, <2>6, <2>7
<1>. QED
  BY <1>4, <1>5 DEF AtPos

\* The loop has judged one more cell if what is left at its position waits.
LEMMA SweptOn ==
    ASSUME NEW R, NEW C, NEW s, NEW m, Dims(R, C, s, m), NEW z, Core(z, R, C, s, m),
           NEW w, Turned(z, w, R, C, s), NEW i, Swept(z, C, i), NEW pos, AtPos(pos, C, i),
           Live(w, pos[1], pos[2]) => w.late < Cell(w, pos[1], pos[2]).exp
    PROVE  Swept(w, C, i + 1)
<1>. R \in Nat /\ C \in Nat /\ s \in Nat /\ m \in Nat
  BY DEF Dims
<1>1. Swept(w, C, i) /\ Core(w, R, C, s, m)
  BY OutcomeCore
<1>. SUFFICES ASSUME NEW l, NEW k, Live(w, l, k), (l - 1) * C + k < i + 1
              PROVE  w.late < Cell(w, l, k).exp
  BY Zenon DEF Swept
<1>2. l \in DOMAIN w.overlays /\ k \in 0..(C - 1)
  BY <1>1, CellType DEF Core
<1>3. l \in Nat \ {0}
  <2>1. w.overlays \in Seq(LineOf(R, C))
    BY <1>1, PredType DEF Core
  <2>. QED
    BY <1>2, <2>1, SMTT(60)
<1>4. (l - 1) * C + k < i \/ (l = pos[1] /\ k = pos[2])
  BY <1>2, <1>3, Zenon DEF AtPos
<1>. QED
  BY <1>1, <1>4, Zenon DEF Swept

\* The loop of cull after the cells before position i.
Sweeping(p, z, R, C, s, m, i) ==
    /\ Core(z, R, C, s, m) /\ Kept(p, z) /\ DOMAIN z.overlays = DOMAIN p.overlays
    /\ Swept(z, C, i) /\ (Led(z) \/ Stale(z))
Ended(p, b, R, C) == \E w : b = Stopped(w) /\ Emptied(w, R, C) /\ Kept(p, w)
StaysHidden(z, w, fb) == \A odd : (Tame(fb) /\ Hidden(z, odd)) => Hidden(w, odd)
Continued(p, z, b, fb, R, C, s, m, i) ==
    \E w : /\ b = Going(w) /\ Sweeping(p, w, R, C, s, m, i + 1)
           /\ StaysHidden(z, w, fb)

\* The confident epochs of w may be those of z.
Discreet(z, w, odd) ==
    /\ \A i, k : Secretive(z, i, k) => \/ w.confirmed < Cell(z, i, k).epoch
                                       \/ Cell(z, i, k).exp <= z.late
    /\ odd => w.confirmed < w.epoch

\* A turn may change nothing.
LEMMA NoOutcome ==
    ASSUME NEW R, NEW C, NEW s, NEW m, Dims(R, C, s, m), NEW z, Core(z, R, C, s, m)
    PROVE  Turned(z, z, R, C, s)
<1>. R \in Nat /\ C \in Nat /\ s \in Nat /\ m \in Nat
  BY DEF Dims
<1>1. CursorsDated(z, s) /\ z \in PredOf(R, C) /\ Clean(z) /\ z.confirmed <= z.epoch
  BY CoreCursorsDated
<1>2. z.epoch \in Nat
  BY <1>1, PredType
<1>3. Kept(z, z) /\ Fewer(z, z)
  BY Zenon DEF Kept, Fewer
<1>4. z.epoch <= z.epoch
  BY <1>2
<1>. QED
  BY <1>1, <1>3, <1>4, Zenon DEF Turned

\* Two changes of one turn are a turn.
LEMMA OutcomeTrans ==
    ASSUME NEW R, NEW C, NEW s, R \in Nat, C \in Nat, NEW z, z \in PredOf(R, C),
           NEW y, Turned(z, y, R, C, s), NEW w, Turned(y, w, R, C, s)
    PROVE  Turned(z, w, R, C, s)
<1>1. Kept(z, w)
  <2>1. Kept(z, y) /\ Kept(y, w)
    BY DEF Turned
  <2>. QED
    BY <2>1, Zenon DEF Kept
<1>2. Fewer(z, w)
  <2>1. Fewer(z, y) /\ Fewer(y, w)
    BY DEF Turned
  <2>. QED
    BY <2>1, Zenon DEF Fewer
<1>3. z.epoch <= w.epoch
  <2>1. z.epoch \in Nat /\ y.epoch \in Nat /\ w.epoch \in Nat
    BY PredType DEF Turned
  <2>2. z.epoch <= y.epoch /\ y.epoch <= w.epoch
    BY DEF Turned
  <2>. QED
    BY <2>1, <2>2
<1>. QED
  BY <1>1, <1>2, <1>3, Zenon DEF Turned

\* A turn that leaves nothing to judge at its position takes the loop one cell
\* on.
LEMMA SweepOn ==
    ASSUME NEW R, NEW C, NEW s, NEW m, Dims(R, C, s, m), NEW p, NEW z, NEW i,
           Sweeping(p, z, R, C, s, m, i), NEW w, Turned(z, w, R, C, s),
           NEW pos, AtPos(pos, C, i), w.cursors = z.cursors \/ Stale(w),
           Live(w, pos[1], pos[2]) => w.late < Cell(w, pos[1], pos[2]).exp
    PROVE  Sweeping(p, w, R, C, s, m, i + 1)
<1>1. Core(z, R, C, s, m) /\ Swept(z, C, i) /\ Kept(p, z) /\ DOMAIN z.overlays = DOMAIN p.overlays
  BY DEF Sweeping
<1>2. /\ Core(w, R, C, s, m) /\ (Stale(z) => Stale(w))
      /\ \A j : Swept(z, C, j) => Swept(w, C, j)
      /\ (Led(z) /\ w.cursors = z.cursors) => Led(w)
  BY <1>1, OutcomeCore
<1>3. Swept(w, C, i + 1)
  BY <1>1, SweptOn
<1>4. Kept(p, w)
  <2>1. Kept(z, w)
    BY DEF Turned
  <2>. QED
    BY <1>1, <2>1, Zenon DEF Kept
<1>5. DOMAIN w.overlays = DOMAIN p.overlays
  BY <1>1, Zenon DEF Turned, Fewer
<1>6. Led(w) \/ Stale(w)
  BY <1>2, Zenon DEF Sweeping
<1>. QED
  BY <1>2, <1>3, <1>4, <1>5, <1>6, Zenon DEF Sweeping

\* Passwords stay hidden in a turn that confirms no epoch of theirs.
LEMMA DiscreetStays ==
    ASSUME NEW R, NEW C, NEW s, NEW m, Dims(R, C, s, m), NEW z, Core(z, R, C, s, m),
           NEW w, Turned(z, w, R, C, s), Steady(z, w), NEW odd, Hidden(z, odd),
           Discreet(z, w, odd)
    PROVE  Hidden(w, odd)
<1>1. /\ \A i, k : Secretive(z, i, k) => \/ w.confirmed < Cell(z, i, k).epoch
                                         \/ Cell(z, i, k).exp <= z.late
      /\ odd => w.confirmed < w.epoch
  BY DEF Discreet
<1>. QED
  BY <1>1, HiddenSteady

\* A turn that confirms no epoch confirms none of a password.
LEMMA NothingConfirmed ==
    ASSUME NEW z, NEW w, NEW odd, Hidden(z, odd), w.confirmed = z.confirmed,
           w.epoch = z.epoch
    PROVE  Discreet(z, w, odd)
BY Zenon DEF Hidden, Silent, Discreet

\* What a right guess confirms is no password's epoch.
LEMMA CreditDiscreet ==
    ASSUME NEW R, NEW C, NEW s, NEW m, Dims(R, C, s, m), NEW z, Core(z, R, C, s, m),
           NEW l, NEW k, Plain(z, l, k), Cell(z, l, k).exp <= z.late,
           NEW i, Swept(z, C, i), NEW pos, AtPos(pos, C, i), l = pos[1], k = pos[2],
           NEW odd, Hidden(z, odd), NEW w, w.epoch = z.epoch,
           w.confirmed = z.confirmed \/ w.confirmed = Cell(z, l, k).epoch
    PROVE  Discreet(z, w, odd)
<1>. R \in Nat /\ C \in Nat /\ s \in Nat /\ m \in Nat
  BY DEF Dims
<1>1. z \in PredOf(R, C) /\ Live(z, l, k) /\ z.late \in Nat /\ z.epoch \in Nat
  <2>1. z \in PredOf(R, C)
    BY DEF Core
  <2>. QED
    BY <2>1, PredType DEF Plain
<1>2. Cell(z, l, k).exp \in Nat /\ Cell(z, l, k).epoch \in Nat /\ Cell(z, l, k).epoch <= z.epoch
  <2>1. Cell(z, l, k).exp \in Nat /\ Cell(z, l, k).epoch \in Nat
    BY <1>1, CellType
  <2>2. Cell(z, l, k).epoch <= z.epoch
    BY <1>1, Zenon DEF Core, Dated
  <2>. QED
    BY <2>1, <2>2
<1>3. ~Witness(z, l, k)
  <2>. SUFFICES ASSUME Witness(z, l, k) PROVE FALSE
    OBVIOUS
  <2>1. PICK j : /\ Secretive(z, l, j) /\ j < k
                 /\ Cell(z, l, j).epoch = Cell(z, l, k).epoch
                 /\ Cell(z, l, j).exp <= Cell(z, l, k).exp
    BY Zenon DEF Witness
  <2>2. Live(z, l, j) /\ j \in Nat /\ Cell(z, l, j).exp \in Nat
    <3>1. Live(z, l, j)
      BY <2>1 DEF Secretive
    <3>2. j \in 0..(C - 1) /\ Cell(z, l, j).exp \in Nat
      BY <1>1, <3>1, CellType
    <3>. QED
      BY <3>1, <3>2
  <2>3. (l - 1) * C + j < i
    BY <2>1, <2>2, Zenon DEF AtPos
  <2>4. z.late < Cell(z, l, j).exp
    BY <2>2, <2>3, Zenon DEF Swept
  <2>. QED
    BY <1>1, <1>2, <2>1, <2>2, <2>4
<1>4. ASSUME NEW j, NEW h, Secretive(z, j, h)
      PROVE  w.confirmed < Cell(z, j, h).epoch \/ Cell(z, j, h).exp <= z.late
  <2>1. Live(z, j, h)
    BY <1>4 DEF Secretive
  <2>2. Cell(z, j, h).exp \in Nat /\ Cell(z, j, h).epoch \in Nat
    BY <1>1, <2>1, CellType
  <2>3. CASE w.confirmed = z.confirmed
    BY <1>4, <2>3, Zenon DEF Hidden
  <2>4. CASE w.confirmed = Cell(z, l, k).epoch
    <3>1. Cell(z, l, k).epoch # Cell(z, j, h).epoch
      BY <1>3, <1>4, Zenon DEF Hidden
    <3>2. CASE Cell(z, l, k).epoch < Cell(z, j, h).epoch
      BY <2>4, <3>2
    <3>3. CASE Cell(z, j, h).epoch < Cell(z, l, k).epoch
      <4>1. Cell(z, j, h).exp <= Cell(z, l, k).exp
        BY <1>1, <2>1, <3>3, Zenon DEF Core, Ordered
      <4>. QED
        BY <1>1, <1>2, <2>2, <4>1
    <3>. QED
      BY <1>2, <2>2, <3>1, <3>2, <3>3
  <2>. QED
    BY <2>3, <2>4
<1>5. ASSUME odd PROVE w.confirmed < w.epoch
  <2>1. Silent(z)
    BY <1>5 DEF Hidden
  <2>2. Cell(z, l, k).epoch # z.epoch
    BY <1>3, <2>1, Zenon DEF Silent
  <2>3. z.confirmed < z.epoch
    BY <2>1 DEF Silent
  <2>. QED
    BY <1>1, <1>2, <2>2, <2>3
<1>. QED
  BY <1>4, <1>5, Zenon DEF Discreet

\* A cell without a guess.
LEMMA StepUnjudged ==
    ASSUME NEW R, NEW C, NEW s, NEW m, Dims(R, C, s, m), NEW p, NEW z, NEW i,
           Sweeping(p, z, R, C, s, m, i), NEW pos, AtPos(pos, C, i), NEW fb, NEW b,
           Unjudged(z, pos, b)
    PROVE  Continued(p, z, b, fb, R, C, s, m, i)
<1>1. Core(z, R, C, s, m)
  BY DEF Sweeping
<1>2. Turned(z, z, R, C, s)
  BY <1>1, NoOutcome
<1>3. ~Live(z, pos[1], pos[2]) /\ b = Going(z)
  BY DEF Unjudged
<1>4. Sweeping(p, z, R, C, s, m, i + 1)
  BY <1>2, <1>3, SweepOn
<1>5. StaysHidden(z, z, fb)
  BY Zenon DEF StaysHidden
<1>. QED
  BY <1>3, <1>4, <1>5, Zenon DEF Continued

\* A guess that waits for a later screen.
LEMMA StepOverlooks ==
    ASSUME NEW R, NEW C, NEW s, NEW m, Dims(R, C, s, m), NEW p, NEW z, NEW i,
           Sweeping(p, z, R, C, s, m, i), NEW pos, AtPos(pos, C, i), NEW fb, NEW b,
           Overlooks(z, pos, b)
    PROVE  Continued(p, z, b, fb, R, C, s, m, i)
<1>1. Core(z, R, C, s, m)
  BY DEF Sweeping
<1>2. PICK h \in Nat : b = Going(WithGlitch(z, h))
  BY DEF Overlooks
<1>. DEFINE w == WithGlitch(z, h)
<1>3. b = Going(w) /\ w = WithGlitch(z, h)
  BY <1>2
<1>. HIDE DEF w
<1>4. /\ Turned(z, w, R, C, s) /\ w.cursors = z.cursors /\ w.epoch = z.epoch
      /\ w.confirmed = z.confirmed /\ w.overlays = z.overlays
  BY <1>1, <1>3, GlitchOutcome
<1>5. Live(w, pos[1], pos[2]) => w.late < Cell(w, pos[1], pos[2]).exp
  <2>1. z.late < Cell(z, pos[1], pos[2]).exp
    BY DEF Overlooks
  <2>2. Cell(w, pos[1], pos[2]) = Cell(z, pos[1], pos[2])
    BY <1>4, Zenon DEF Cell
  <2>3. w.late = z.late
    BY <1>4 DEF Turned, Kept
  <2>. QED
    BY <2>1, <2>2, <2>3, Zenon
<1>6. Sweeping(p, w, R, C, s, m, i + 1)
  BY <1>4, <1>5, SweepOn
<1>7. StaysHidden(z, w, fb)
  <2>. SUFFICES ASSUME NEW odd, Hidden(z, odd) PROVE Hidden(w, odd)
    BY Zenon DEF StaysHidden
  <2>1. Discreet(z, w, odd)
    BY <1>4, NothingConfirmed
  <2>2. Steady(z, w)
    BY <1>4, Zenon DEF Steady, Secretive, Live, Cell
  <2>. QED
    BY <1>1, <1>4, <2>1, <2>2, DiscreetStays
<1>. QED
  BY <1>3, <1>6, <1>7, Zenon DEF Continued

\* A wrong guess of a confident epoch resets the predictor and ends the loop.
LEMMA StepWrong ==
    ASSUME NEW R, NEW C, NEW s, NEW m, Dims(R, C, s, m), NEW p, NEW z, NEW i,
           Sweeping(p, z, R, C, s, m, i), NEW pos, NEW b, Wrong(z, pos, b)
    PROVE  Ended(p, b, R, C)
<1>1. z \in PredOf(R, C) /\ z.confirmed <= z.epoch /\ Kept(p, z)
  BY DEF Sweeping, Core, Dated
<1>. DEFINE w == reset(z)
<1>2. b = Stopped(w) /\ w = reset(z)
  BY DEF Wrong
<1>. HIDE DEF w
<1>3. Emptied(w, R, C) /\ Kept(z, w) /\ w.epoch = z.epoch + 1 /\ w.confirmed = z.confirmed
  BY <1>1, <1>2, ResetOutcome DEF Dims
<1>4. Kept(p, w)
  BY <1>1, <1>3, KeptTrans
<1>. QED
  BY <1>2, <1>3, <1>4, Zenon DEF Ended

\* A wrong guess of a tentative epoch kills it.
LEMMA StepKilled ==
    ASSUME NEW R, NEW C, NEW s, NEW m, Dims(R, C, s, m), NEW p, NEW z, NEW i,
           Sweeping(p, z, R, C, s, m, i), NEW pos, AtPos(pos, C, i), NEW fb,
           Fits(fb, R, C), NEW b, Killed(z, pos, fb, b)
    PROVE  Continued(p, z, b, fb, R, C, s, m, i)
<1>. R \in Nat /\ C \in Nat
  BY DEF Dims
<1>. DEFINE l == pos[1]
            k == pos[2]
            e == Cell(z, l, k).epoch
            w == kill_epoch(z, e, fb)
<1>1. Core(z, R, C, s, m)
  BY DEF Sweeping
<1>2. /\ Live(z, l, k) /\ Cell(z, l, k).exp <= z.late /\ e = Cell(z, l, k).epoch
      /\ w = kill_epoch(z, e, fb) /\ b = Going(w)
  BY Zenon DEF Killed
<1>3. l = pos[1] /\ k = pos[2]
  OBVIOUS
<1>. HIDE DEF e, w, l, k
<1>4. /\ Turned(z, w, R, C, s) /\ Stale(w) /\ w.epoch = z.epoch + 1
      /\ w.confirmed = z.confirmed
      /\ \A i_1, j : Live(w, i_1, j) <=> (Live(z, i_1, j) /\ Cell(z, i_1, j).epoch < e)
  BY <1>1, <1>2, KilledOutcome
<1>5. ~Live(w, l, k)
  <2>1. e \in Nat
    BY <1>1, <1>2, CellType DEF Core
  <2>2. ~(e < e)
    BY <2>1
  <2>. QED
    BY <1>2, <1>4, <2>2
<1>6. Sweeping(p, w, R, C, s, m, i + 1)
  <2>1. Live(w, pos[1], pos[2]) => w.late < Cell(w, pos[1], pos[2]).exp
    BY <1>3, <1>5
  <2>. QED
    BY <1>4, <2>1, SweepOn
<1>7. StaysHidden(z, w, fb)
  <2>. SUFFICES ASSUME NEW odd, Hidden(z, odd) PROVE Hidden(w, odd)
    BY Zenon DEF StaysHidden
  <2>. QED
    BY <1>1, <1>4, HiddenKilled
<1>. QED
  BY <1>2, <1>6, <1>7, Zenon DEF Continued

\* A guess that is dropped, or right without credit.
LEMMA StepUncredited ==
    ASSUME NEW R, NEW C, NEW s, NEW m, Dims(R, C, s, m), NEW p, NEW z, NEW i,
           Sweeping(p, z, R, C, s, m, i), NEW pos, AtPos(pos, C, i), NEW fb, NEW b,
           Uncredited(z, pos, fb, b)
    PROVE  Continued(p, z, b, fb, R, C, s, m, i)
<1>. DEFINE l == pos[1]
            k == pos[2]
            w == Cleared(z, l, k)
<1>1. Core(z, R, C, s, m)
  BY DEF Sweeping
<1>2. /\ Live(z, l, k) /\ (Tame(fb) => Cell(z, l, k).text # Secret)
      /\ w = Cleared(z, l, k) /\ b = Going(w)
  BY Zenon DEF Uncredited
<1>3. l = pos[1] /\ k = pos[2]
  OBVIOUS
<1>. HIDE DEF w, l, k
<1>4. /\ Turned(z, w, R, C, s) /\ w.cursors = z.cursors /\ w.epoch = z.epoch
      /\ w.confirmed = z.confirmed /\ ~Live(w, l, k)
      /\ \A i_1, j : (Live(z, i_1, j) /\ ~(i_1 = l /\ j = k)) => Live(w, i_1, j)
  BY <1>1, <1>2, ClearedOutcome
<1>6. Sweeping(p, w, R, C, s, m, i + 1)
  <2>1. Live(w, pos[1], pos[2]) => w.late < Cell(w, pos[1], pos[2]).exp
    BY <1>3, <1>4
  <2>. QED
    BY <1>4, <2>1, SweepOn
<1>7. StaysHidden(z, w, fb)
  <2>. SUFFICES ASSUME NEW odd, Tame(fb), Hidden(z, odd) PROVE Hidden(w, odd)
    BY Zenon DEF StaysHidden
  <2>1. Discreet(z, w, odd)
    BY <1>4, NothingConfirmed
  <2>2. Steady(z, w)
    BY <1>2, <1>4, Zenon DEF Steady, Secretive
  <2>. QED
    BY <1>1, <1>4, <2>1, <2>2, DiscreetStays
<1>. QED
  BY <1>2, <1>6, <1>7, Zenon DEF Continued

\* A right guess with credit: its epoch becomes confident, and is no password's.
LEMMA StepCredited ==
    ASSUME NEW R, NEW C, NEW s, NEW m, Dims(R, C, s, m), NEW p, NEW z, NEW i,
           Sweeping(p, z, R, C, s, m, i), NEW pos, AtPos(pos, C, i), NEW fb,
           NEW t \in Nat, NEW b, Credited(z, pos, fb, t, b)
    PROVE  Continued(p, z, b, fb, R, C, s, m, i)
<1>. R \in Nat /\ C \in Nat
  BY DEF Dims
<1>. DEFINE l == pos[1]
            k == pos[2]
            y == Credit(z, Cell(z, l, k), t)
            w == Cleared(y, l, k)
<1>1. Core(z, R, C, s, m) /\ Swept(z, C, i)
  BY DEF Sweeping
<1>2. /\ Live(z, l, k) /\ Cell(z, l, k).exp <= z.late /\ Cell(z, l, k).text # Blank
      /\ (Tame(fb) => Cell(z, l, k).text # Secret)
      /\ y = Credit(z, Cell(z, l, k), t) /\ w = Cleared(y, l, k) /\ b = Going(w)
  BY Zenon DEF Credited
<1>3. l = pos[1] /\ k = pos[2]
  OBVIOUS
<1>. HIDE DEF w, y, l, k
<1>4. /\ Turned(z, y, R, C, s) /\ y.cursors = z.cursors /\ y.epoch = z.epoch
      /\ y.overlays = z.overlays
      /\ y.confirmed = z.confirmed \/ y.confirmed = Cell(z, l, k).epoch
  BY <1>1, <1>2, CreditOutcome
<1>5. Core(y, R, C, s, m)
  BY <1>1, <1>4, OutcomeCore
<1>6. /\ \A j, h : Live(y, j, h) <=> Live(z, j, h)
      /\ \A j, h : Cell(y, j, h) = Cell(z, j, h)
  BY <1>4, Zenon DEF Live, Cell
<1>7. Live(y, l, k)
  BY <1>2, <1>6
<1>8. /\ Turned(y, w, R, C, s) /\ w.cursors = y.cursors /\ w.epoch = y.epoch
      /\ w.confirmed = y.confirmed /\ ~Live(w, l, k)
      /\ \A i_1, j : (Live(y, i_1, j) /\ ~(i_1 = l /\ j = k)) => Live(w, i_1, j)
  BY <1>2, <1>5, <1>7, ClearedOutcome
<1>9. Turned(z, w, R, C, s)
  <2>1. z \in PredOf(R, C)
    BY <1>1 DEF Core
  <2>. QED
    BY <1>4, <1>8, <2>1, OutcomeTrans
<1>10. Sweeping(p, w, R, C, s, m, i + 1)
  <2>1. Live(w, pos[1], pos[2]) => w.late < Cell(w, pos[1], pos[2]).exp
    BY <1>3, <1>8
  <2>2. w.cursors = z.cursors
    BY <1>4, <1>8
  <2>. QED
    BY <1>9, <2>1, <2>2, SweepOn
<1>11. StaysHidden(z, w, fb)
  <2>. SUFFICES ASSUME NEW odd, Tame(fb), Hidden(z, odd) PROVE Hidden(w, odd)
    BY Zenon DEF StaysHidden
  <2>1. Plain(z, l, k)
    BY <1>2, Zenon DEF Plain
  <2>2. Discreet(z, y, odd)
    BY <1>1, <1>2, <1>3, <1>4, <2>1, CreditDiscreet
  <2>3. Steady(z, y)
    BY <1>4, <1>6, Zenon DEF Steady, Secretive
  <2>4. Hidden(y, odd)
    BY <1>1, <1>4, <2>2, <2>3, DiscreetStays
  <2>5. Discreet(y, w, odd)
    BY <1>8, <2>4, NothingConfirmed
  <2>6. Steady(y, w)
    BY <1>2, <1>6, <1>8, Zenon DEF Steady, Secretive
  <2>. QED
    BY <1>5, <1>8, <2>4, <2>5, <2>6, DiscreetStays
<1>. QED
  BY <1>2, <1>10, <1>11, Zenon DEF Continued

\* A turn of cull's loop ends it or takes it one cell on.
LEMMA JudgeStep ==
    ASSUME NEW R, NEW C, NEW s, NEW m, Dims(R, C, s, m), NEW p, NEW z, NEW i,
           Sweeping(p, z, R, C, s, m, i), NEW pos, AtPos(pos, C, i), InLine(z, pos, C),
           NEW fb, Fits(fb, R, C), NEW t \in Nat, NEW a, a = Going(z),
           NEW b, b = JudgeCell(a, pos, fb, t)
    PROVE  Ended(p, b, R, C) \/ Continued(p, z, b, fb, R, C, s, m, i)
<1>1. Core(z, R, C, s, m)
  BY DEF Sweeping
<1>2. \/ Unjudged(z, pos, b) \/ Overlooks(z, pos, b) \/ Wrong(z, pos, b)
      \/ Killed(z, pos, fb, b) \/ Uncredited(z, pos, fb, b)
      \/ Credited(z, pos, fb, t, b)
  BY <1>1, JudgeCellIs
<1>3. CASE Unjudged(z, pos, b)
  BY <1>3, StepUnjudged
<1>4. CASE Overlooks(z, pos, b)
  BY <1>4, StepOverlooks
<1>5. CASE Wrong(z, pos, b)
  BY <1>5, StepWrong
<1>6. CASE Killed(z, pos, fb, b)
  BY <1>6, StepKilled
<1>7. CASE Uncredited(z, pos, fb, b)
  BY <1>7, StepUncredited
<1>8. CASE Credited(z, pos, fb, t, b)
  BY <1>8, StepCredited
<1>. QED
  BY <1>2, <1>3, <1>4, <1>5, <1>6, <1>7, <1>8

\* All cells have been judged.
Done(p, w, fb, R, C, s, m) ==
    /\ Core(w, R, C, s, m) /\ Kept(p, w) /\ Led(w) /\ StaysHidden(p, w, fb)
    /\ \A i, k : Live(w, i, k) => w.late < Cell(w, i, k).exp

\* Before its first turn the loop has judged nothing.
LEMMA SweepStarts ==
    ASSUME NEW R, NEW C, NEW s, NEW m, Dims(R, C, s, m), NEW p, Core(p, R, C, s, m),
           Led(p)
    PROVE  Sweeping(p, p, R, C, s, m, 0)
<1>. R \in Nat /\ C \in Nat
  BY DEF Dims
<1>1. p \in PredOf(R, C) /\ Kept(p, p)
  BY DEF Core, Kept
<1>2. Swept(p, C, 0)
  <2>. SUFFICES ASSUME NEW l, NEW k, Live(p, l, k) PROVE ~((l - 1) * C + k < 0)
    BY Zenon DEF Swept
  <2>1. l \in DOMAIN p.overlays /\ k \in 0..(C - 1)
    BY <1>1, CellType
  <2>2. p.overlays \in Seq(LineOf(R, C))
    BY <1>1, PredType
  <2>3. l - 1 \in Nat
    BY <2>1, <2>2
  <2>. DEFINE d == l - 1
  <2>4. d \in Nat
    BY <2>3
  <2>. HIDE DEF d
  <2>5. d * C \in Nat
    BY <2>4
  <2>6. ~(d * C + k < 0)
    BY <2>1, <2>5
  <2>. QED
    BY <2>6 DEF d
<1>. QED
  BY <1>1, <1>2, Zenon DEF Sweeping

\* After its last turn every guess that is left waits for a later screen.
LEMMA SweepEnds ==
    ASSUME NEW R, NEW C, NEW s, NEW m, Dims(R, C, s, m), NEW p, NEW w, NEW fb,
           p \in PredOf(R, C), Sweeping(p, w, R, C, s, m, Len(p.overlays) * C),
           StaysHidden(p, w, fb)
    PROVE  Done(p, w, fb, R, C, s, m)
<1>. R \in Nat /\ C \in Nat
  BY DEF Dims
<1>1. /\ w \in PredOf(R, C) /\ DOMAIN w.overlays = DOMAIN p.overlays
      /\ Core(w, R, C, s, m) /\ Kept(p, w) /\ Swept(w, C, Len(p.overlays) * C)
      /\ Led(w) \/ Stale(w)
  BY DEF Sweeping, Core
<1>2. p.overlays \in Seq(LineOf(R, C)) /\ w.late \in Nat
  BY <1>1, PredType
<1>3. ASSUME NEW l, NEW k, Live(w, l, k) PROVE w.late < Cell(w, l, k).exp
  <2>1. l \in DOMAIN p.overlays /\ k \in 0..(C - 1)
    BY <1>1, <1>3, CellType
  <2>. DEFINE d == l - 1
              n == Len(p.overlays)
  <2>2. d \in Nat /\ n \in Nat /\ d + 1 <= n
    BY <1>2, <2>1
  <2>. HIDE DEF d, n
  <2>3. (d + 1) * C <= n * C
    BY <2>2
  <2>4. d * C + C = (d + 1) * C /\ d * C \in Nat /\ n * C \in Nat
    BY <2>2
  <2>5. d * C + k < n * C
    BY <2>1, <2>3, <2>4
  <2>. QED
    BY <1>1, <1>3, <2>5, Zenon DEF Swept, d, n
<1>4. Led(w)
  <2>1. ASSUME Stale(w), NEW l, NEW k, Live(w, l, k) PROVE FALSE
    <3>1. Cell(w, l, k).exp <= w.late
      BY <2>1, Zenon DEF Stale
    <3>2. Cell(w, l, k).exp \in Nat
      BY <1>1, <2>1, CellType
    <3>. QED
      BY <1>2, <1>3, <2>1, <3>1, <3>2
  <2>2. Stale(w) => Led(w)
    BY <2>1, Zenon DEF Led
  <2>. QED
    BY <1>1, <2>2
<1>. QED
  BY <1>1, <1>3, <1>4, Zenon DEF Done

\* cull's loop resets the predictor, or leaves guesses that wait for a later
\* screen.
LEMMA JudgesAll ==
    ASSUME NEW R, NEW C, NEW s, NEW m, Dims(R, C, s, m), NEW p, Core(p, R, C, s, m),
           Led(p), NEW fb, Fits(fb, R, C), NEW t \in Nat, NEW b,
           b = JudgeCells(p, fb, t)
    PROVE  \/ Ended(p, b, R, C)
           \/ \E w : b = Going(w) /\ Done(p, w, fb, R, C, s, m)
<1>. R \in Nat /\ C \in Nat /\ s \in Nat /\ m \in Nat
  BY DEF Dims
<1>1. p \in PredOf(R, C) /\ p.overlays \in Seq(LineOf(R, C))
  <2>1. p \in PredOf(R, C)
    BY DEF Core
  <2>. QED
    BY <2>1, PredType
<1>2. fb.cols = C /\ C # 0
  BY FrameType
<1>. DEFINE n == Len(p.overlays) * fb.cols
<1>3. n \in Nat /\ Len(p.overlays) \in Nat /\ DOMAIN p.overlays = 1..Len(p.overlays)
  <2>1. Len(p.overlays) \in Nat /\ DOMAIN p.overlays = 1..Len(p.overlays)
    BY <1>1
  <2>. QED
    BY <1>2, <2>1
<1>4. PICK f : /\ JudgeCells(p, fb, t) = f[n] /\ f[0] = [p |-> p, stop |-> FALSE]
               /\ \A i \in 0..(n - 1) :
                      f[i + 1] = JudgeCell(f[i], <<i \div fb.cols + 1, i % fb.cols>>, fb, t)
  BY <1>3, JudgingIs
<1>5. \A i \in 0..(n - 1) : <<i \div fb.cols + 1, i % fb.cols>>[1] \in DOMAIN p.overlays
                            /\ <<i \div fb.cols + 1, i % fb.cols>>[2] \in 0..(C - 1)
  <2>. TAKE i \in 0..(n - 1)
  <2>1. i \div C + 1 \in 1..Len(p.overlays) /\ i % C \in 0..(C - 1)
    BY <1>2, <1>3, Position
  <2>. QED
    BY <1>2, <1>3, <2>1
<1>6. n = Len(p.overlays) * C
  BY <1>2
<1>. HIDE DEF n
<1>. DEFINE Good(i) == \/ Ended(p, f[i], R, C)
                       \/ \E w : /\ f[i] = Going(w) /\ Sweeping(p, w, R, C, s, m, i)
                                 /\ StaysHidden(p, w, fb)
            A == {i \in Nat : i <= n => Good(i)}
<1>7. 0 \in A
  <2>1. Sweeping(p, p, R, C, s, m, 0)
    BY SweepStarts
  <2>2. StaysHidden(p, p, fb)
    BY Zenon DEF StaysHidden
  <2>3. f[0] = Going(p)
    BY <1>4, Zenon DEF Going
  <2>4. Good(0)
    BY <2>1, <2>2, <2>3, Zenon
  <2>. HIDE DEF Good
  <2>. QED
    BY <2>4
<1>8. ASSUME NEW i \in Nat, i \in A PROVE i + 1 \in A
  <2>. SUFFICES ASSUME i + 1 <= n PROVE Good(i + 1)
    BY DEF A
  <2>1. i \in 0..(n - 1) /\ i <= n
    BY <1>3
  <2>2. Good(i)
    BY <1>8, <2>1
  <2>. DEFINE pos == <<i \div fb.cols + 1, i % fb.cols>>
              a == f[i]
              c == f[i + 1]
  <2>3. /\ pos[1] \in DOMAIN p.overlays /\ pos[2] \in 0..(C - 1)
        /\ c = JudgeCell(a, pos, fb, t)
    BY <1>4, <1>5, <2>1, Zenon
  <2>4. AtPos(pos, C, i)
    <3>1. pos = <<i \div C + 1, i % C>>
      BY <1>2
    <3>. HIDE DEF pos
    <3>. QED
      BY <1>2, <3>1, PosAt
  <2>. HIDE DEF pos, c
  <2>5. CASE Ended(p, a, R, C)
    <3>1. a.stop
      BY <2>5 DEF Ended, Stopped
    <3>. HIDE DEF a
    <3>2. c = a
      BY <2>3, <3>1, Zenon DEF JudgeCell
    <3>. QED
      BY <2>5, <3>2, Zenon DEF c
  <2>6. CASE \E z : /\ a = Going(z) /\ Sweeping(p, z, R, C, s, m, i)
                    /\ StaysHidden(p, z, fb)
    <3>1. PICK z : /\ a = Going(z) /\ Sweeping(p, z, R, C, s, m, i)
                   /\ StaysHidden(p, z, fb)
      BY <2>6
    <3>. HIDE DEF a
    <3>2. InLine(z, pos, C)
      BY <2>3, <3>1, Zenon DEF InLine, Sweeping
    <3>3. Ended(p, c, R, C) \/ Continued(p, z, c, fb, R, C, s, m, i)
      BY <2>3, <2>4, <3>1, <3>2, JudgeStep
    <3>4. ASSUME NEW w, c = Going(w), Sweeping(p, w, R, C, s, m, i + 1),
                 StaysHidden(z, w, fb)
          PROVE  Good(i + 1)
      <4>1. StaysHidden(p, w, fb)
        BY <3>1, <3>4, Zenon DEF StaysHidden
      <4>. QED
        BY <3>4, <4>1, Zenon DEF c
    <3>5. Ended(p, c, R, C) => Good(i + 1)
      BY Zenon DEF c
    <3>. HIDE DEF Good
    <3>. QED
      BY <3>3, <3>4, <3>5, Zenon DEF Continued
  <2>. QED
    BY <2>2, <2>5, <2>6, Zenon
<1>. HIDE DEF A
<1>9. n \in A
  BY <1>3, <1>7, <1>8, SetInduction
<1>10. n <= n
  BY <1>3
<1>11. Good(n)
  BY <1>9, <1>10 DEF A
<1>12. b = f[n]
  BY <1>4
<1>13. ASSUME NEW w, f[n] = Going(w), Sweeping(p, w, R, C, s, m, n), StaysHidden(p, w, fb)
       PROVE  Done(p, w, fb, R, C, s, m)
  BY <1>1, <1>6, <1>13, SweepEnds
<1>. QED
  BY <1>11, <1>12, <1>13, Zenon

\* An empty predictor fits frames of any size and says nothing.
LEMMA EmptySound ==
    ASSUME NEW R, NEW C, NEW s, NEW m, Dims(R, C, s, m), NEW Q, NEW D, NEW p,
           Emptied(p, Q, D)
    PROVE  /\ Sound(p, R, C, s, m) /\ Emptied(p, R, C)
           /\ \A odd : Hide(p, odd) /\ Hidden(p, odd)
<1>1. /\ p \in PredOf(Q, D) /\ p.overlays = <<>> /\ p.cursors = <<>>
      /\ p.confirmed < p.epoch
  BY DEF Emptied
<1>2. p \in PredOf(R, C)
  BY <1>1 DEF PredOf
<1>3. \A i, k : ~Live(p, i, k)
  BY <1>1 DEF Live
<1>4. p.epoch \in Nat /\ p.confirmed \in Nat
  BY <1>1 DEF PredOf
<1>5. Unique(p) /\ Clean(p)
  BY <1>1 DEF Unique, Clean
<1>6. Dated(p, s, m)
  <2>1. p.confirmed <= p.epoch
    BY <1>1, <1>4
  <2>2. \A j \in DOMAIN p.cursors : FALSE
    BY <1>1
  <2>. QED
    BY <1>3, <2>1, <2>2, Zenon DEF Dated
<1>7. Ordered(p) /\ Led(p)
  BY <1>3, Zenon DEF Ordered, Led
<1>8. Judged(p)
  <2>1. \A j \in DOMAIN p.cursors : FALSE
    BY <1>1
  <2>. QED
    BY <1>3, <2>1, Zenon DEF Judged
<1>9. \A i, k : ~Secretive(p, i, k) /\ ~Plain(p, i, k)
  BY <1>3, Zenon DEF Secretive, Plain
<1>10. Masked(p) /\ Silent(p) /\ Open(p)
  BY <1>1, <1>3, <1>9, Zenon DEF Masked, Silent, Open
<1>11. \A odd : Hide(p, odd)
  BY <1>10, Zenon DEF Hide
<1>12. \A odd : Hidden(p, odd)
  BY <1>3, <1>9, <1>10, Zenon DEF Hidden
<1>. QED
  BY <1>1, <1>2, <1>5, <1>6, <1>7, <1>8, <1>11, <1>12, Zenon DEF Sound, Core, Emptied

\* After the loop no password is of an epoch that is confident or about to be.
LEMMA DoneHidden ==
    ASSUME NEW R, NEW C, NEW s, NEW m, Dims(R, C, s, m), NEW p, NEW w, NEW fb,
           Done(p, w, fb, R, C, s, m), NEW odd, Hidden(w, odd)
    PROVE  Hide(w, odd)
<1>. R \in Nat /\ C \in Nat
  BY DEF Dims
<1>1. /\ w \in PredOf(R, C) /\ w.late \in Nat
      /\ \A i, k : Live(w, i, k) => w.late < Cell(w, i, k).exp
  <2>1. w \in PredOf(R, C)
    BY DEF Done, Core
  <2>. QED
    BY <2>1, PredType, Zenon DEF Done
<1>2. \A i, k : Live(w, i, k) => ~(Cell(w, i, k).exp <= w.late)
  <2>. TAKE i, k
  <2>. HAVE Live(w, i, k)
  <2>1. Cell(w, i, k).exp \in Nat
    BY <1>1, CellType
  <2>. QED
    BY <1>1, <2>1
<1>3. Masked(w)
  BY <1>2, Zenon DEF Hidden, Masked, Secretive
<1>4. Stale(w) => Open(w)
  BY <1>2, Zenon DEF Stale, Open, Secretive
<1>. QED
  BY <1>3, <1>4, Zenon DEF Hidden, Hide

Pending(w, fb) == {c \in Range(w.cursors) : CursorValidity(w, fb, c) = "pending"}
Misplaced(w, fb) ==
    w.cursors # <<>> /\ CursorValidity(w, fb, Last(w.cursors)) = "incorrect"

\* cull keeps the cursors that wait, the last one with them while there are
\* guesses.
LEMMA CursorsRetained ==
    ASSUME NEW R, NEW C, NEW s, NEW m, Dims(R, C, s, m), NEW p, NEW w, NEW fb,
           Done(p, w, fb, R, C, s, m), Fits(fb, R, C), NEW T,
           T = Pending(w, fb), ~Misplaced(w, fb),
           NEW q, q = WithCursors(w, Retain(w.cursors, T))
    PROVE  /\ Sound(q, R, C, s, m) /\ Kept(w, q)
           /\ \A odd : Hide(w, odd) => Hide(q, odd)
<1>. R \in Nat /\ C \in Nat /\ s \in Nat /\ m \in Nat
  BY DEF Dims
<1>1. /\ Core(w, R, C, s, m) /\ Led(w) /\ w \in PredOf(R, C)
      /\ \A i, k : Live(w, i, k) => w.late < Cell(w, i, k).exp
  BY DEF Done, Core
<1>2. /\ w.cursors \in Seq(CursorOf(R, C)) /\ w.late \in Nat /\ w.sent \in Nat
  BY <1>1, PredType
<1>3. fb.rows = R /\ fb.cols = C
  BY FrameSize
<1>. T = {c \in Range(w.cursors) : CursorValidity(w, fb, c) = "pending"}
  BY DEF Pending
<1>. w.cursors # <<>> => CursorValidity(w, fb, Last(w.cursors)) # "incorrect"
  BY DEF Misplaced
<1>. DEFINE S == CursorOf(R, C)
            U == {c \in S \cap T : \E i \in DOMAIN w.cursors : c = w.cursors[i]}
            new == Retain(w.cursors, T)
<1>4. new \in Seq(U)
  BY <1>2, RetainType
<1>5. \A c \in U : /\ c \in CursorOf(R, C) /\ s < c.exp /\ w.late < c.exp
                   /\ c.exp <= w.sent + 1 /\ c.epoch <= w.epoch
  <2>. TAKE c \in U
  <2>1. PICK i \in DOMAIN w.cursors : c = w.cursors[i]
    OBVIOUS
  <2>2. s < c.exp /\ c.exp <= w.sent + 1 /\ c.epoch <= w.epoch
    BY <1>1, <2>1, Zenon DEF Core, Dated
  <2>3. c \in S /\ CursorValidity(w, fb, c) = "pending"
    OBVIOUS
  <2>4. w.late < c.exp
    <3>. HIDE DEF U
    <3>. DEFINE out == c.row >= R \/ c.col >= C
                late == w.late < c.exp
                right == fb.row = c.row /\ fb.col = c.col
    <3>1. CursorValidity(w, fb, c) = IF out THEN "incorrect"
                                     ELSE IF late THEN "pending"
                                     ELSE IF right THEN "correct" ELSE "incorrect"
      BY <1>3, Zenon DEF CursorValidity
    <3>. HIDE DEF out, right, late
    <3>2. late
      BY <2>3, <3>1
    <3>. QED
      BY <3>2 DEF late
  <2>. QED
    BY <2>2, <2>3, <2>4
<1>. HIDE DEF U, new
<1>6. new \in Seq(CursorOf(R, C)) /\ \A j \in DOMAIN new : new[j] \in U
  <2>1. \A j \in DOMAIN new : new[j] \in U
    BY <1>4
  <2>2. Len(new) \in Nat /\ DOMAIN new = 1..Len(new)
    BY <1>4
  <2>3. \A j \in 1..Len(new) : new[j] \in CursorOf(R, C)
    BY <1>5, <2>1, <2>2, Zenon
  <2>4. new = [j \in 1..Len(new) |-> new[j]]
    BY <1>4
  <2>5. new \in [1..Len(new) -> CursorOf(R, C)]
    BY <2>3, <2>4, Zenon
  <2>. QED
    BY <2>1, <2>2, <2>5
<1>7. q = [w EXCEPT !.cursors = new]
  BY DEF new, WithCursors
<1>8. /\ q \in PredOf(R, C) /\ Kept(w, q) /\ q.overlays = w.overlays /\ q.cursors = new
      /\ q.epoch = w.epoch /\ q.confirmed = w.confirmed /\ q.sent = w.sent /\ q.late = w.late
      /\ q.overwrite = w.overwrite
  BY <1>1, <1>6, <1>7 DEF PredOf, Kept
<1>9. /\ Same(w, q) /\ Unique(q) /\ Clean(q)
      /\ \A i, k : Live(q, i, k) <=> Live(w, i, k)
      /\ \A i, k : Cell(q, i, k) = Cell(w, i, k)
      /\ \A i : Row(q, i) = Row(w, i)
  <2>1. Same(w, q) /\ Unique(q) /\ Clean(q)
    BY <1>1, <1>8, SameOverlays DEF Core
  <2>. QED
    BY <1>8, <2>1, Zenon DEF Live, Cell, Row
\* The last cursor stays while there are guesses.
<1>10. ASSUME NEW i, NEW k, Live(w, i, k)
       PROVE  new # <<>> /\ w.cursors # <<>> /\ Last(new) = Last(w.cursors)
  <2>1. w.cursors # <<>> /\ Cell(w, i, k).exp <= Last(w.cursors).exp
    BY <1>1, <1>10, Zenon DEF Led
  <2>2. /\ Len(w.cursors) \in DOMAIN w.cursors /\ Last(w.cursors) = w.cursors[Len(w.cursors)]
        /\ Last(w.cursors).exp \in Nat
    BY <1>1, <2>1, CursorType
  <2>3. Cell(w, i, k).exp \in Nat /\ w.late < Cell(w, i, k).exp
    BY <1>1, <1>10, CellType
  <2>. DEFINE c == Last(w.cursors)
  <2>4. w.late < c.exp
    BY <1>2, <2>1, <2>2, <2>3
  <2>5. CursorValidity(w, fb, c) # "incorrect"
    BY <2>1
  <2>6. c \in Range(w.cursors)
    BY <2>2, Zenon DEF Range
  <2>. HIDE DEF c
  <2>7. CursorValidity(w, fb, c) = "pending"
    <3>. DEFINE out == c.row >= R \/ c.col >= C
                late == w.late < c.exp
                right == fb.row = c.row /\ fb.col = c.col
    <3>1. CursorValidity(w, fb, c) = IF out THEN "incorrect"
                                     ELSE IF late THEN "pending"
                                     ELSE IF right THEN "correct" ELSE "incorrect"
      BY <1>3, Zenon DEF CursorValidity
    <3>. QED
      BY <2>4, <2>5, <3>1, Zenon
  <2>8. c \in T
    BY <2>6, <2>7
  <2>9. Last(w.cursors) \in T
    BY <2>8 DEF c
  <2>10. Retain(w.cursors, T) # <<>> /\ Last(Retain(w.cursors, T)) = Last(w.cursors)
    BY <1>2, <2>1, <2>9, RetainLast
  <2>. QED
    BY <2>1, <2>10 DEF new
<1>11. Dated(q, s, m)
  <2>1. \A i, k : Live(q, i, k) =>
           /\ s < Cell(q, i, k).exp /\ Cell(q, i, k).exp <= m
           /\ Cell(q, i, k).exp <= q.sent + 1 /\ Cell(q, i, k).epoch <= q.epoch
           /\ Cell(q, i, k).unknown => Cell(q, i, k).text = Blank
    <3>. TAKE i, k
    <3>. HAVE Live(q, i, k)
    <3>1. Live(w, i, k) /\ Cell(q, i, k) = Cell(w, i, k)
      BY <1>9
    <3>2. /\ s < Cell(w, i, k).exp /\ Cell(w, i, k).exp <= m
          /\ Cell(w, i, k).exp <= w.sent + 1 /\ Cell(w, i, k).epoch <= w.epoch
          /\ Cell(w, i, k).unknown => Cell(w, i, k).text = Blank
      BY <1>1, <3>1, Zenon DEF Core, Dated
    <3>. QED
      BY <1>8, <3>1, <3>2, Zenon
  <2>2. \A j \in DOMAIN q.cursors : /\ s < q.cursors[j].exp /\ q.cursors[j].exp <= q.sent + 1
                                   /\ q.cursors[j].epoch <= q.epoch
    BY <1>5, <1>6, <1>8, Zenon
  <2>3. q.confirmed <= q.epoch
    BY <1>1, <1>8, Zenon DEF Core, Dated
  <2>. QED
    BY <2>1, <2>2, <2>3, Zenon DEF Dated
<1>12. Ordered(q)
  <2>. SUFFICES ASSUME NEW i, NEW k, NEW j, NEW l, Live(q, i, k), Live(q, j, l),
                       Cell(q, i, k).epoch < Cell(q, j, l).epoch
                PROVE  Cell(q, i, k).exp <= Cell(q, j, l).exp
    BY Zenon DEF Ordered
  <2>1. /\ Live(w, i, k) /\ Cell(q, i, k) = Cell(w, i, k)
        /\ Live(w, j, l) /\ Cell(q, j, l) = Cell(w, j, l)
    BY <1>9
  <2>. QED
    BY <1>1, <2>1, Zenon DEF Core, Ordered
<1>13. Led(q)
  BY <1>1, <1>8, <1>9, <1>10, Zenon DEF Led
<1>14. Judged(q)
  <2>1. \A i, k : Live(q, i, k) => q.late < Cell(q, i, k).exp
    BY <1>1, <1>8, <1>9, Zenon
  <2>2. \A j \in DOMAIN q.cursors : q.late < q.cursors[j].exp
    BY <1>5, <1>6, <1>8, Zenon
  <2>. QED
    BY <2>1, <2>2 DEF Judged
<1>15. ASSUME NEW odd, Hide(w, odd) PROVE Hide(q, odd)
  <2>1. \A i, k : /\ Secretive(q, i, k) <=> Secretive(w, i, k)
                  /\ Plain(q, i, k) <=> Plain(w, i, k)
    BY <1>9, Zenon DEF Secretive, Plain
  <2>2. \A i, k : Witness(w, i, k) => Witness(q, i, k)
    BY <1>8, <1>9, <2>1, Zenon DEF Witness
  <2>3. ASSUME Masked(w) PROVE Masked(q)
    <3>1. ASSUME NEW i, NEW k, NEW j, NEW l, Plain(q, i, k), Secretive(q, j, l),
                 Cell(q, i, k).epoch = Cell(q, j, l).epoch
          PROVE  Witness(q, i, k)
      <4>1. /\ Plain(w, i, k) /\ Secretive(w, j, l)
            /\ Cell(w, i, k).epoch = Cell(w, j, l).epoch
        BY <1>9, <2>1, <3>1, Zenon
      <4>. QED
        BY <2>2, <2>3, <4>1, Zenon DEF Masked
    <3>2. \A i, k : Secretive(q, i, k) => q.confirmed < Cell(q, i, k).epoch
      <4>. TAKE i, k
      <4>. HAVE Secretive(q, i, k)
      <4>1. w.confirmed < Cell(w, i, k).epoch
        BY <2>1, <2>3, Zenon DEF Masked
      <4>. QED
        BY <1>8, <1>9, <4>1
    <3>3. \A i, k : Live(q, i, k) => Cell(q, i, k).text # Linked
      BY <1>9, <2>3, Zenon DEF Masked
    <3>. QED
      BY <3>1, <3>2, <3>3, Zenon DEF Masked
  <2>4. Silent(w) => Silent(q)
    BY <1>8, <1>9, <2>1, <2>2, Zenon DEF Silent
  <2>5. ASSUME Open(w) PROVE Open(q)
    <3>. SUFFICES ASSUME NEW i, NEW k, Secretive(q, i, k)
                  PROVE  Cell(q, i, k).epoch < q.epoch /\ Row(q, i) < Last(q.cursors).row
      BY Zenon DEF Open
    <3>1. Secretive(w, i, k) /\ Live(w, i, k)
      BY <2>1, Zenon DEF Secretive
    <3>2. Cell(w, i, k).epoch < w.epoch /\ Row(w, i) < Last(w.cursors).row
      BY <2>5, <3>1, Zenon DEF Open
    <3>3. Last(q.cursors) = Last(w.cursors)
      BY <1>8, <1>10, <3>1
    <3>. QED
      BY <1>8, <1>9, <3>2, <3>3, Zenon
  <2>. QED
    BY <1>15, <2>3, <2>4, <2>5, Zenon DEF Hide
<1>. QED
  BY <1>8, <1>9, <1>11, <1>12, <1>13, <1>14, <1>15, Zenon DEF Sound, Core

\* A predictor that a screen of R rows and C columns has judged.
Settled(p, q, fb, R, C, s, m) ==
    /\ Sound(q, R, C, s, m) /\ Kept(p, q)
    /\ Tame(fb) => \A odd : Hidden(p, odd) => Hide(q, odd)

\* The end of cull: a misplaced cursor resets, the others that are judged go.
LEMMA CursorsJudged ==
    ASSUME NEW R, NEW C, NEW s, NEW m, Dims(R, C, s, m), NEW p, NEW w, NEW fb,
           Done(p, w, fb, R, C, s, m), Fits(fb, R, C), NEW q, q = JudgeCursors(w, fb)
    PROVE  Settled(p, q, fb, R, C, s, m)
<1>1. w \in PredOf(R, C) /\ w.confirmed <= w.epoch /\ Kept(p, w)
  BY DEF Done, Core, Dated
<1>. DEFINE T == Pending(w, fb)
            wrong == Misplaced(w, fb)
<1>2. q = IF wrong THEN reset(w) ELSE WithCursors(w, Retain(w.cursors, T))
  BY Zenon DEF JudgeCursors, Pending, Misplaced, WithCursors
<1>3. CASE wrong
  <2>1. q = reset(w)
    BY <1>2, <1>3
  <2>2. Emptied(q, R, C) /\ Kept(w, q) /\ q.epoch = w.epoch + 1 /\ q.confirmed = w.confirmed
    BY <1>1, <2>1, ResetOutcome DEF Dims
  <2>3. /\ Sound(q, R, C, s, m) /\ Emptied(q, R, C)
        /\ \A odd : Hide(q, odd) /\ Hidden(q, odd)
    BY <2>2, EmptySound
  <2>4. Kept(p, q)
    BY <1>1, <2>2, KeptTrans
  <2>. QED
    BY <2>3, <2>4, Zenon DEF Settled
<1>4. CASE ~wrong
  <2>1. q = WithCursors(w, Retain(w.cursors, T))
    BY <1>2, <1>4, Zenon
  <2>2. ~Misplaced(w, fb)
    BY <1>4
  <2>3. T = Pending(w, fb)
    OBVIOUS
  <2>. HIDE DEF T
  <2>4. /\ Sound(q, R, C, s, m) /\ Kept(w, q)
        /\ \A odd : Hide(w, odd) => Hide(q, odd)
    BY <2>1, <2>2, <2>3, CursorsRetained
  <2>5. Kept(p, q)
    BY <1>1, <2>4, KeptTrans
  <2>6. ASSUME Tame(fb), NEW odd, Hidden(p, odd) PROVE Hide(q, odd)
    <3>1. Hidden(w, odd)
      BY <2>6, Zenon DEF Done, StaysHidden
    <3>2. Hide(w, odd)
      BY <3>1, DoneHidden
    <3>. QED
      BY <2>4, <3>2
  <2>. QED
    BY <2>4, <2>5, <2>6, Zenon DEF Settled
<1>. QED
  BY <1>3, <1>4

\* The send interval's trigger matters to no guess.
LEMMA TriggeredCore ==
    ASSUME NEW R, NEW C, NEW s, NEW m, Dims(R, C, s, m), NEW p, Core(p, R, C, s, m),
           Led(p), NEW q, q = SrttTrigger(p)
    PROVE  /\ Core(q, R, C, s, m) /\ Led(q) /\ Kept(p, q)
           /\ \A odd : Hidden(p, odd) => Hidden(q, odd)
<1>. R \in Nat /\ C \in Nat
  BY DEF Dims
<1>1. CursorsDated(p, s) /\ p \in PredOf(R, C) /\ Clean(p) /\ p.confirmed <= p.epoch
  BY CoreCursorsDated
<1>. DEFINE slow == p.interval > SrttTriggerHigh
            fast == p.srtt /\ p.interval <= SrttTriggerLow /\ ~active(p)
<1>2. q = IF slow THEN [p EXCEPT !.srtt = TRUE]
          ELSE IF fast THEN [p EXCEPT !.srtt = FALSE] ELSE p
  BY Zenon DEF SrttTrigger
<1>. HIDE DEF slow, fast
<1>3. /\ q \in PredOf(R, C) /\ Kept(p, q) /\ q.overlays = p.overlays
      /\ q.cursors = p.cursors /\ q.epoch = p.epoch /\ q.confirmed = p.confirmed
      /\ q.sent = p.sent
  <2>1. ASSUME NEW x \in BOOLEAN, q = [p EXCEPT !.srtt = x]
        PROVE  /\ q \in PredOf(R, C) /\ Kept(p, q) /\ q.overlays = p.overlays
               /\ q.cursors = p.cursors /\ q.epoch = p.epoch /\ q.confirmed = p.confirmed
               /\ q.sent = p.sent
    BY <1>1, <2>1 DEF PredOf, Kept
  <2>2. CASE q = p
    BY <1>1, <2>2 DEF Kept
  <2>. QED
    BY <1>2, <2>1, <2>2, Zenon
<1>4. Same(p, q) /\ Clean(q)
  BY <1>1, <1>3, SameOverlays
<1>5. Fewer(p, q)
  BY <1>3, <1>4, Zenon DEF Fewer, Same, Row
<1>6. CursorsDated(q, s) /\ q.confirmed <= q.epoch
  BY <1>1, <1>3, Zenon DEF CursorsDated
<1>7. p.epoch <= q.epoch
  <2>1. p.epoch \in Nat
    BY <1>1, PredType
  <2>. QED
    BY <1>3, <2>1
<1>8. Turned(p, q, R, C, s)
  BY <1>3, <1>4, <1>5, <1>6, <1>7, Zenon DEF Turned
<1>9. Core(q, R, C, s, m) /\ Led(q)
  <2>1. /\ Core(q, R, C, s, m) /\ (Stale(p) => Stale(q))
        /\ \A i : Swept(p, C, i) => Swept(q, C, i)
        /\ (Led(p) /\ q.cursors = p.cursors) => Led(q)
    BY <1>8, OutcomeCore
  <2>. QED
    BY <1>3, <2>1
<1>10. ASSUME NEW odd, Hidden(p, odd) PROVE Hidden(q, odd)
  <2>1. Discreet(p, q, odd)
    BY <1>3, <1>10, NothingConfirmed
  <2>2. Steady(p, q)
    BY <1>3, <1>4, Zenon DEF Steady, Same, Secretive
  <2>. QED
    BY <1>8, <1>10, <2>1, <2>2, DiscreetStays
<1>. QED
  BY <1>3, <1>9, <1>10

\* cull of a screen of the predictor's size leaves it sound, and passwords
\* hidden.
LEMMA CullSized ==
    ASSUME NEW R, NEW C, NEW s, NEW m, Dims(R, C, s, m), NEW p, Core(p, R, C, s, m),
           Led(p), NEW fb, Fits(fb, R, C), NEW t \in Nat, p.size = <<R, C>>,
           p.pref # "Never", NEW r, r = cull(p, fb, t)
    PROVE  Settled(p, r, fb, R, C, s, m)
<1>. R \in Nat /\ C \in Nat
  BY DEF Dims
<1>. DEFINE q == SrttTrigger(p)
            b == JudgeCells(q, fb, t)
<1>1. /\ Core(q, R, C, s, m) /\ Led(q) /\ Kept(p, q)
      /\ \A odd : Hidden(p, odd) => Hidden(q, odd)
  <2>. HIDE DEF q
  <2>1. q = SrttTrigger(p)
    BY DEF q
  <2>. QED
    BY <2>1, TriggeredCore
<1>2. Resized(p, fb) = p
  <2>1. fb.rows = R /\ fb.cols = C
    BY FrameSize
  <2>. QED
    BY <2>1, Zenon DEF Resized
<1>3. r = IF b.stop THEN b.p ELSE JudgeCursors(b.p, fb)
  <2>1. [q EXCEPT !.overlays = Retain(@, {line \in Range(@) : line.row < fb.rows})] = q
    <3>1. q \in PredOf(R, C)
      BY <1>1 DEF Core
    <3>. HIDE DEF q
    <3>. QED
      BY <3>1, LinesRetained
  <2>2. cull(p, fb, t) = IF p.pref = "Never" THEN p
                         ELSE IF b.stop THEN b.p ELSE JudgeCursors(b.p, fb)
    BY <1>2, <2>1, Zenon DEF cull
  <2>. HIDE DEF b
  <2>. QED
    BY <2>2, Zenon
<1>. HIDE DEF q
<1>4. b = JudgeCells(q, fb, t)
  OBVIOUS
<1>. HIDE DEF b
<1>5. \/ Ended(q, b, R, C)
      \/ \E w : b = Going(w) /\ Done(q, w, fb, R, C, s, m)
  BY <1>1, <1>4, JudgesAll
<1>6. CASE Ended(q, b, R, C)
  <2>1. PICK w : b = Stopped(w) /\ Emptied(w, R, C) /\ Kept(q, w)
    BY <1>6 DEF Ended
  <2>2. r = w
    BY <1>3, <2>1 DEF Stopped
  <2>3. /\ Sound(w, R, C, s, m) /\ Emptied(w, R, C)
        /\ \A odd : Hide(w, odd) /\ Hidden(w, odd)
    BY <2>1, EmptySound
  <2>4. Kept(p, w)
    BY <1>1, <2>1, KeptTrans
  <2>. QED
    BY <2>2, <2>3, <2>4, Zenon DEF Settled
<1>7. CASE \E w : b = Going(w) /\ Done(q, w, fb, R, C, s, m)
  <2>1. PICK w : b = Going(w) /\ Done(q, w, fb, R, C, s, m)
    BY <1>7
  <2>2. r = JudgeCursors(w, fb)
    BY <1>3, <2>1 DEF Going
  <2>3. Settled(q, r, fb, R, C, s, m)
    BY <2>1, <2>2, CursorsJudged
  <2>4. Kept(p, r)
    BY <1>1, <2>3, KeptTrans DEF Settled
  <2>. QED
    BY <1>1, <2>3, <2>4, Zenon DEF Settled
<1>. QED
  BY <1>5, <1>6, <1>7

\* A predictor for frames of R rows and C columns: one that predicts knows
\* their size, one that must not has nothing.
Fitted(p, R, C, s, m) ==
    /\ Sound(p, R, C, s, m)
    /\ p.pref = "Never" => Emptied(p, R, C)
    /\ p.pref # "Never" => p.size = <<R, C>>

\* Its settings and what it knows of the session are those of p.
Settings(p, q) ==
    /\ q.sent = p.sent /\ q.late = p.late /\ q.interval = p.interval
    /\ q.pref = p.pref /\ q.overwrite = p.overwrite

Veiled(q, fb) == Tame(fb) => \A odd : Hide(q, odd)

\* A predictor that is reset for another size is empty.
LEMMA ResizedEmpty ==
    ASSUME NEW R, NEW C, R \in Nat, C \in Nat, NEW Q, NEW D, Q \in Nat, D \in Nat, NEW p,
           p \in PredOf(Q, D), p.confirmed <= p.epoch, NEW q,
           q = reset([p EXCEPT !.size = <<R, C>>])
    PROVE  /\ Emptied(q, R, C) /\ Settings(p, q) /\ q.size = <<R, C>>
<1>. DEFINE x == [p EXCEPT !.size = <<R, C>>]
<1>1. /\ x \in PredOf(Q, D) /\ Settings(p, x) /\ x.size = <<R, C>>
      /\ x.confirmed = p.confirmed /\ x.epoch = p.epoch
  BY DEF PredOf, Settings
<1>2. q = reset(x)
  OBVIOUS
<1>. HIDE DEF x
<1>3. Emptied(q, Q, D) /\ Kept(x, q) /\ q.epoch = x.epoch + 1 /\ q.confirmed = x.confirmed
  BY <1>1, <1>2, ResetOutcome
<1>4. Dims(R, C, 0, 0)
  BY DEF Dims
<1>5. /\ Sound(q, R, C, 0, 0) /\ Emptied(q, R, C)
      /\ \A odd : Hide(q, odd) /\ Hidden(q, odd)
  BY <1>3, <1>4, EmptySound
<1>6. Settings(p, q) /\ q.size = <<R, C>>
  BY <1>1, <1>3, Zenon DEF Kept, Settings
<1>. QED
  BY <1>5, <1>6

\* An empty predictor whose size is that of the frame.
LEMMA CullEmptySized ==
    ASSUME NEW R, NEW C, NEW s, NEW m, Dims(R, C, s, m), NEW p, Emptied(p, R, C),
           p.size = <<R, C>>, p.pref # "Never", NEW fb, Fits(fb, R, C), NEW t \in Nat,
           NEW r, r = cull(p, fb, t)
    PROVE  Fitted(r, R, C, s, m) /\ Settings(p, r) /\ Veiled(r, fb)
<1>1. /\ Sound(p, R, C, s, m) /\ Emptied(p, R, C)
      /\ \A odd : Hide(p, odd) /\ Hidden(p, odd)
  BY EmptySound
<1>2. Core(p, R, C, s, m) /\ Led(p)
  BY <1>1 DEF Sound
<1>3. Settled(p, r, fb, R, C, s, m)
  BY <1>2, CullSized
<1>4. Kept(p, r)
  BY <1>3 DEF Settled
<1>. QED
  BY <1>1, <1>3, <1>4, Zenon DEF Settled, Fitted, Settings, Veiled, Kept

\* A frame of another size.
LEMMA CullResized ==
    ASSUME NEW R, NEW C, NEW s, NEW m, Dims(R, C, s, m), NEW Q, NEW D, Q \in Nat, D \in Nat,
           NEW p, p \in PredOf(Q, D), p.confirmed <= p.epoch, p.size # <<R, C>>,
           p.pref # "Never", NEW fb, Fits(fb, R, C), NEW t \in Nat,
           NEW r, r = cull(p, fb, t)
    PROVE  Fitted(r, R, C, s, m) /\ Settings(p, r) /\ Veiled(r, fb)
<1>. R \in Nat /\ C \in Nat
  BY DEF Dims
<1>. DEFINE q == reset([p EXCEPT !.size = <<R, C>>])
<1>1. /\ Emptied(q, R, C) /\ Settings(p, q) /\ q.size = <<R, C>>
  <2>1. q = reset([p EXCEPT !.size = <<R, C>>])
    OBVIOUS
  <2>. HIDE DEF q
  <2>. QED
    BY <2>1, ResizedEmpty
<1>2. fb.rows = R /\ fb.cols = C
  BY FrameSize
<1>3. Resized(p, fb) = q
  BY <1>2, Zenon DEF Resized
<1>. HIDE DEF q
<1>4. Resized(q, fb) = q
  BY <1>1, <1>2, Zenon DEF Resized
<1>5. q.pref # "Never"
  BY <1>1 DEF Settings
<1>6. r = cull(q, fb, t)
  BY <1>3, <1>4, <1>5, Zenon DEF cull
<1>7. Fitted(r, R, C, s, m) /\ Settings(q, r) /\ Veiled(r, fb)
  BY <1>1, <1>5, <1>6, CullEmptySized
<1>. QED
  BY <1>1, <1>7, Zenon DEF Settings

\* cull does nothing for a predictor that must not predict.
LEMMA CullNever ==
    ASSUME NEW R, NEW C, NEW s, NEW m, Dims(R, C, s, m), NEW Q, NEW D,
           NEW p, Emptied(p, Q, D), p.pref = "Never", NEW fb, NEW t,
           NEW r, r = cull(p, fb, t)
    PROVE  Fitted(r, R, C, s, m) /\ Settings(p, r) /\ Veiled(r, fb)
<1>1. r = p
  BY Zenon DEF cull
<1>2. /\ Sound(p, R, C, s, m) /\ Emptied(p, R, C)
      /\ \A odd : Hide(p, odd) /\ Hidden(p, odd)
  BY EmptySound
<1>. QED
  BY <1>1, <1>2, Zenon DEF Fitted, Settings, Veiled

\* An empty predictor of any size.
LEMMA CullEmpty ==
    ASSUME NEW R, NEW C, NEW s, NEW m, Dims(R, C, s, m), NEW Q, NEW D, Q \in Nat, D \in Nat,
           NEW p, Emptied(p, Q, D), NEW fb, Fits(fb, R, C), NEW t \in Nat,
           NEW r, r = cull(p, fb, t)
    PROVE  Fitted(r, R, C, s, m) /\ Settings(p, r) /\ Veiled(r, fb)
<1>. R \in Nat /\ C \in Nat
  BY DEF Dims
<1>1. CASE p.pref = "Never"
  BY <1>1, CullNever
<1>2. CASE p.pref # "Never" /\ p.size = <<R, C>>
  <2>1. /\ Sound(p, R, C, s, m) /\ Emptied(p, R, C)
        /\ \A odd : Hide(p, odd) /\ Hidden(p, odd)
    BY EmptySound
  <2>. QED
    BY <1>2, <2>1, CullEmptySized
<1>3. CASE p.pref # "Never" /\ p.size # <<R, C>>
  <2>1. p \in PredOf(Q, D) /\ p.confirmed <= p.epoch
    BY DEF Emptied, PredOf
  <2>. QED
    BY <1>3, <2>1, CullResized
<1>. QED
  BY <1>1, <1>2, <1>3

\* A new echo checkpoint: every guess may be due, and every password may be
\* wrong.
LEMMA LateCore ==
    ASSUME NEW R, NEW C, NEW s, NEW m, Dims(R, C, s, m), NEW p, Sound(p, R, C, s, m),
           NEW a \in Nat, NEW q, q = [p EXCEPT !.late = a]
    PROVE  /\ Core(q, R, C, s, m) /\ Led(q) /\ q.late = a /\ q.sent = p.sent
           /\ q.size = p.size /\ q.pref = p.pref /\ q.overwrite = p.overwrite
           /\ q.interval = p.interval
           /\ \A odd : Hide(p, odd) => Hidden(q, odd)
<1>1. p \in PredOf(R, C) /\ Core(p, R, C, s, m) /\ Led(p)
  BY DEF Sound, Core
<1>2. /\ q \in PredOf(R, C) /\ q.late = a /\ q.sent = p.sent /\ q.epoch = p.epoch
      /\ q.size = p.size /\ q.pref = p.pref /\ q.overwrite = p.overwrite
      /\ q.interval = p.interval /\ q.overlays = p.overlays /\ q.cursors = p.cursors
      /\ q.confirmed = p.confirmed
  BY <1>1 DEF PredOf
<1>3. /\ Same(p, q) /\ Unique(q) /\ Clean(q)
      /\ \A i, k : Live(q, i, k) <=> Live(p, i, k)
      /\ \A i, k : Cell(q, i, k) = Cell(p, i, k)
      /\ \A i : Row(q, i) = Row(p, i)
  <2>1. Same(p, q) /\ Unique(q) /\ Clean(q)
    BY <1>1, <1>2, SameOverlays DEF Core
  <2>. QED
    BY <1>2, <2>1, Zenon DEF Live, Cell, Row
<1>4. Dated(q, s, m)
  <2>1. \A i, k : Live(q, i, k) =>
           /\ s < Cell(q, i, k).exp /\ Cell(q, i, k).exp <= m
           /\ Cell(q, i, k).exp <= q.sent + 1 /\ Cell(q, i, k).epoch <= q.epoch
           /\ Cell(q, i, k).unknown => Cell(q, i, k).text = Blank
    <3>. TAKE i, k
    <3>. HAVE Live(q, i, k)
    <3>1. /\ s < Cell(p, i, k).exp /\ Cell(p, i, k).exp <= m
          /\ Cell(p, i, k).exp <= p.sent + 1 /\ Cell(p, i, k).epoch <= p.epoch
          /\ Cell(p, i, k).unknown => Cell(p, i, k).text = Blank
      BY <1>1, <1>3, Zenon DEF Core, Dated
    <3>2. Cell(q, i, k) = Cell(p, i, k)
      BY <1>3
    <3>. QED
      BY <1>2, <3>1, <3>2, Zenon
  <2>2. \A j \in DOMAIN q.cursors : /\ s < q.cursors[j].exp /\ q.cursors[j].exp <= q.sent + 1
                                   /\ q.cursors[j].epoch <= q.epoch
    BY <1>1, <1>2, Zenon DEF Core, Dated
  <2>3. q.confirmed <= q.epoch
    BY <1>1, <1>2, Zenon DEF Core, Dated
  <2>. QED
    BY <2>1, <2>2, <2>3, Zenon DEF Dated
<1>5. Ordered(q)
  <2>. SUFFICES ASSUME NEW i, NEW k, NEW j, NEW l, Live(q, i, k), Live(q, j, l),
                       Cell(q, i, k).epoch < Cell(q, j, l).epoch
                PROVE  Cell(q, i, k).exp <= Cell(q, j, l).exp
    BY Zenon DEF Ordered
  <2>1. /\ Live(p, i, k) /\ Cell(q, i, k) = Cell(p, i, k)
        /\ Live(p, j, l) /\ Cell(q, j, l) = Cell(p, j, l)
    BY <1>3
  <2>. QED
    BY <1>1, <2>1, Zenon DEF Core, Ordered
<1>6. Led(q)
  <2>. SUFFICES ASSUME NEW i, NEW k, Live(q, i, k)
                PROVE  /\ q.cursors # <<>> /\ Cell(q, i, k).exp <= Last(q.cursors).exp
                       /\ Row(q, i) <= Last(q.cursors).row
    BY Zenon DEF Led
  <2>1. /\ Live(p, i, k) /\ Cell(q, i, k) = Cell(p, i, k) /\ Row(q, i) = Row(p, i)
    BY <1>3
  <2>2. /\ p.cursors # <<>> /\ Cell(p, i, k).exp <= Last(p.cursors).exp
        /\ Row(p, i) <= Last(p.cursors).row
    BY <1>1, <2>1, Zenon DEF Led
  <2>. QED
    BY <1>2, <2>1, <2>2, Zenon
<1>7. ASSUME NEW odd, Hide(p, odd) PROVE Hidden(q, odd)
  <2>1. \A i, k : /\ Secretive(q, i, k) <=> Secretive(p, i, k)
                  /\ Plain(q, i, k) <=> Plain(p, i, k)
                  /\ Witness(q, i, k) <=> Witness(p, i, k)
    <3>1. \A i, k : /\ Secretive(q, i, k) <=> Secretive(p, i, k)
                    /\ Plain(q, i, k) <=> Plain(p, i, k)
      BY <1>2, Zenon DEF Secretive, Plain, Live, Cell
    <3>2. ASSUME NEW i, NEW k PROVE Witness(q, i, k) <=> Witness(p, i, k)
      <4>. DEFINE W(z) == \E j : /\ Secretive(p, i, j) /\ j < k
                                 /\ Cell(z, i, j).epoch = Cell(z, i, k).epoch
                                 /\ Cell(z, i, j).exp <= Cell(z, i, k).exp
      <4>1. Witness(q, i, k) <=> (~p.overwrite /\ W(q))
        BY <1>2, <3>1, Zenon DEF Witness
      <4>2. Witness(p, i, k) <=> (~p.overwrite /\ W(p))
        BY Zenon DEF Witness
      <4>3. W(q) <=> W(p)
        BY <1>3
      <4>. QED
        BY <4>1, <4>2, <4>3, Zenon
    <3>. QED
      BY <3>1, <3>2, Zenon
  <2>2. Masked(p)
    BY <1>7 DEF Hide
  <2>3. ASSUME NEW i, NEW k, NEW j, NEW l, Plain(q, i, k), Secretive(q, j, l),
               Cell(q, i, k).epoch = Cell(q, j, l).epoch
        PROVE  Witness(q, i, k)
    <3>1. /\ Plain(p, i, k) /\ Secretive(p, j, l)
          /\ Cell(p, i, k).epoch = Cell(p, j, l).epoch
      BY <1>3, <2>1, <2>3, Zenon
    <3>. QED
      BY <2>1, <2>2, <3>1, Zenon DEF Masked
  <2>4. ASSUME NEW i, NEW k, Secretive(q, i, k) PROVE q.confirmed < Cell(q, i, k).epoch
    <3>1. p.confirmed < Cell(p, i, k).epoch
      BY <2>1, <2>2, <2>4, Zenon DEF Masked
    <3>. QED
      BY <1>2, <1>3, <3>1
  <2>5. ASSUME NEW i, NEW k, Live(q, i, k) PROVE Cell(q, i, k).text # Linked
    <3>1. Cell(p, i, k).text # Linked
      BY <1>3, <2>2, <2>5, Zenon DEF Masked
    <3>. QED
      BY <1>3, <3>1
  <2>6. ASSUME odd PROVE Silent(q)
    <3>1. Silent(p)
      BY <1>7, <2>6 DEF Hide
    <3>2. ASSUME NEW i, NEW k, Plain(q, i, k), Cell(q, i, k).epoch = q.epoch
          PROVE  Witness(q, i, k)
      <4>1. Plain(p, i, k) /\ Cell(p, i, k).epoch = p.epoch
        BY <1>2, <1>3, <2>1, <3>2
      <4>. QED
        BY <2>1, <3>1, <4>1, Zenon DEF Silent
    <3>. QED
      BY <1>2, <3>1, <3>2, Zenon DEF Silent
  <2>7. ASSUME ~odd PROVE Open(q)
    <3>. SUFFICES ASSUME NEW i, NEW k, Secretive(q, i, k)
                  PROVE  Cell(q, i, k).epoch < q.epoch /\ Row(q, i) < Last(q.cursors).row
      BY Zenon DEF Open
    <3>1. Cell(p, i, k).epoch < p.epoch /\ Row(p, i) < Last(p.cursors).row
      BY <1>7, <2>1, <2>7, Zenon DEF Hide, Open
    <3>2. Cell(q, i, k) = Cell(p, i, k) /\ Row(q, i) = Row(p, i)
      BY <1>3
    <3>. QED
      BY <1>2, <3>1, <3>2, Zenon
  <2>. QED
    BY <2>3, <2>4, <2>5, <2>6, <2>7, Zenon DEF Hidden
<1>. QED
  BY <1>2, <1>3, <1>4, <1>5, <1>6, <1>7, Zenon DEF Core

\* A screen of any size with a new echo checkpoint.
LEMMA ScreenApplied ==
    ASSUME NEW Q, NEW D, NEW R, NEW C, NEW s, NEW m, Dims(Q, D, s, m), Dims(R, C, s, m),
           NEW p, Fitted(p, Q, D, s, m), NEW fb, Fits(fb, R, C), NEW t \in Nat,
           NEW a \in Nat, NEW q, q = [p EXCEPT !.late = a], NEW r, r = cull(q, fb, t)
    PROVE  /\ Fitted(r, R, C, s, m) /\ Settings(q, r) /\ q.late = a /\ q.sent = p.sent
           /\ q.pref = p.pref /\ q.overwrite = p.overwrite /\ q.interval = p.interval
           /\ \A odd : (Tame(fb) /\ Hide(p, odd)) => Hide(r, odd)
<1>. Q \in Nat /\ D \in Nat /\ R \in Nat /\ C \in Nat
  BY DEF Dims
<1>1. /\ Core(q, Q, D, s, m) /\ Led(q) /\ q.late = a /\ q.sent = p.sent
      /\ q.size = p.size /\ q.pref = p.pref /\ q.overwrite = p.overwrite
      /\ q.interval = p.interval
      /\ \A odd : Hide(p, odd) => Hidden(q, odd)
  BY LateCore DEF Fitted
<1>2. CASE p.pref = "Never"
  <2>1. Emptied(p, Q, D)
    BY <1>2 DEF Fitted
  <2>2. Emptied(q, Q, D)
    BY <1>1, <2>1 DEF Emptied, Core, PredOf
  <2>3. Fitted(r, R, C, s, m) /\ Settings(q, r) /\ Veiled(r, fb)
    BY <1>1, <1>2, <2>2, CullNever
  <2>. QED
    BY <1>1, <2>3, Zenon DEF Veiled
<1>3. CASE p.pref # "Never" /\ q.size = <<R, C>>
  <2>1. Q = R /\ D = C
    BY <1>1, <1>3 DEF Fitted
  <2>2. Core(q, R, C, s, m)
    BY <1>1, <2>1
  <2>3. Settled(q, r, fb, R, C, s, m)
    BY <1>1, <1>3, <2>2, CullSized
  <2>4. Sound(r, R, C, s, m) /\ r.size = <<R, C>> /\ r.pref # "Never" /\ Settings(q, r)
    BY <1>1, <1>3, <2>3, Zenon DEF Settled, Kept, Settings
  <2>. QED
    BY <1>1, <2>3, <2>4, Zenon DEF Settled, Fitted
<1>4. CASE p.pref # "Never" /\ q.size # <<R, C>>
  <2>1. q \in PredOf(Q, D) /\ q.confirmed <= q.epoch
    BY <1>1 DEF Core, Dated
  <2>2. Fitted(r, R, C, s, m) /\ Settings(q, r) /\ Veiled(r, fb)
    BY <1>1, <1>4, <2>1, CullResized
  <2>. QED
    BY <1>1, <2>2, Zenon DEF Veiled
<1>. QED
  BY <1>2, <1>3, <1>4

-----------------------------------------------------------------------------
(* Feeding a message.                                                      *)

\* Guesses come from the messages up to a later one too.
LEMMA MoreMessages ==
    ASSUME NEW R, NEW C, NEW s, NEW m, Dims(R, C, s, m), NEW p, Fitted(p, R, C, s, m),
           NEW n, Dims(R, C, s, n), m <= n
    PROVE  Fitted(p, R, C, s, n)
<1>. R \in Nat /\ C \in Nat /\ s \in Nat /\ m \in Nat /\ n \in Nat
  BY DEF Dims
<1>1. p \in PredOf(R, C) /\ Dated(p, s, m)
  BY DEF Fitted, Sound, Core
<1>2. Dated(p, s, n)
  <2>1. \A i, k : Live(p, i, k) => Cell(p, i, k).exp <= n
    <3>. TAKE i, k
    <3>. HAVE Live(p, i, k)
    <3>1. Cell(p, i, k).exp \in Nat
      BY <1>1, CellType
    <3>2. Cell(p, i, k).exp <= m
      BY <1>1, Zenon DEF Dated
    <3>. QED
      BY <3>1, <3>2
  <2>. QED
    BY <1>1, <2>1, Zenon DEF Dated
<1>. QED
  BY <1>2, Zenon DEF Fitted, Sound, Core

\* What is hidden depends on the guesses and the epochs only.
Alike(p, q) ==
    /\ q.overlays = p.overlays /\ q.cursors = p.cursors /\ q.epoch = p.epoch
    /\ q.confirmed = p.confirmed /\ q.overwrite = p.overwrite

\* Predictors with the same guesses and epochs hide the same.
LEMMA AlikeHide ==
    ASSUME NEW p, NEW q, Alike(p, q), NEW odd, Hide(p, odd)
    PROVE  Hide(q, odd)
<1>8. /\ q.overlays = p.overlays /\ q.cursors = p.cursors /\ q.epoch = p.epoch
      /\ q.confirmed = p.confirmed /\ q.overwrite = p.overwrite
  BY DEF Alike
<1>1. \A i, k : /\ Secretive(q, i, k) <=> Secretive(p, i, k)
                /\ Plain(q, i, k) <=> Plain(p, i, k)
                /\ Live(q, i, k) <=> Live(p, i, k)
  <2>. TAKE i, k
  <2>1. Live(q, i, k) <=> Live(p, i, k)
    BY <1>8, Zenon DEF Live, Cell
  <2>2. Cell(q, i, k) = Cell(p, i, k)
    BY <1>8, Zenon DEF Cell
  <2>. QED
    BY <2>1, <2>2, Zenon DEF Secretive, Plain
<1>2. \A i, k : Cell(q, i, k) = Cell(p, i, k)
  BY <1>8, Zenon DEF Cell
<1>3. \A i : Row(q, i) = Row(p, i)
  BY <1>8, Zenon DEF Row
<1>4. ASSUME NEW i, NEW k, Witness(p, i, k) PROVE Witness(q, i, k)
  <2>1. PICK j : /\ Secretive(p, i, j) /\ j < k
                 /\ Cell(p, i, j).epoch = Cell(p, i, k).epoch
                 /\ Cell(p, i, j).exp <= Cell(p, i, k).exp
    BY <1>4, Zenon DEF Witness
  <2>2. /\ Secretive(q, i, j) /\ Cell(q, i, j).epoch = Cell(q, i, k).epoch
        /\ Cell(q, i, j).exp <= Cell(q, i, k).exp
    BY <1>1, <1>2, <2>1
  <2>. QED
    BY <1>4, <1>8, <2>1, <2>2, Zenon DEF Witness
<1>5. ASSUME Masked(p) PROVE Masked(q)
  <2>1. ASSUME NEW i, NEW k, NEW j, NEW l, Plain(q, i, k), Secretive(q, j, l),
               Cell(q, i, k).epoch = Cell(q, j, l).epoch
        PROVE  Witness(q, i, k)
    <3>1. /\ Plain(p, i, k) /\ Secretive(p, j, l)
          /\ Cell(p, i, k).epoch = Cell(p, j, l).epoch
      BY <1>1, <1>2, <2>1
    <3>. QED
      BY <1>4, <1>5, <3>1, Zenon DEF Masked
  <2>2. ASSUME NEW i, NEW k, Secretive(q, i, k) PROVE q.confirmed < Cell(q, i, k).epoch
    <3>1. p.confirmed < Cell(p, i, k).epoch
      BY <1>1, <1>5, <2>2, Zenon DEF Masked
    <3>. QED
      BY <1>2, <1>8, <3>1
  <2>3. ASSUME NEW i, NEW k, Live(q, i, k) PROVE Cell(q, i, k).text # Linked
    <3>1. Cell(p, i, k).text # Linked
      BY <1>1, <1>5, <2>3, Zenon DEF Masked
    <3>. QED
      BY <1>2, <3>1
  <2>. QED
    BY <2>1, <2>2, <2>3, Zenon DEF Masked
<1>6. ASSUME Silent(p) PROVE Silent(q)
  <2>1. ASSUME NEW i, NEW k, Plain(q, i, k), Cell(q, i, k).epoch = q.epoch
        PROVE  Witness(q, i, k)
    <3>1. Plain(p, i, k) /\ Cell(p, i, k).epoch = p.epoch
      BY <1>1, <1>2, <1>8, <2>1
    <3>. QED
      BY <1>4, <1>6, <3>1, Zenon DEF Silent
  <2>. QED
    BY <1>6, <1>8, <2>1, Zenon DEF Silent
<1>7. ASSUME Open(p) PROVE Open(q)
  <2>. SUFFICES ASSUME NEW i, NEW k, Secretive(q, i, k)
                PROVE  Cell(q, i, k).epoch < q.epoch /\ Row(q, i) < Last(q.cursors).row
    BY Zenon DEF Open
  <2>1. Cell(p, i, k).epoch < p.epoch /\ Row(p, i) < Last(p.cursors).row
    BY <1>1, <1>7, Zenon DEF Open
  <2>. QED
    BY <1>2, <1>3, <1>8, <2>1
<1>. QED
  BY <1>5, <1>6, <1>7, Zenon DEF Hide

\* local_frame_sent becomes the message before this one.
LEMMA SentFitted ==
    ASSUME NEW R, NEW C, NEW s, NEW m, Dims(R, C, s, m), NEW p, Fitted(p, R, C, s, m),
           NEW a \in Nat, p.sent <= a, NEW q, q = [p EXCEPT !.sent = a]
    PROVE  /\ Fitted(q, R, C, s, m) /\ q.sent = a /\ q.late = p.late
           /\ q.size = p.size /\ q.pref = p.pref /\ q.overwrite = p.overwrite
           /\ q.interval = p.interval
           /\ \A odd : Hide(p, odd) => Hide(q, odd)
<1>. R \in Nat /\ C \in Nat /\ s \in Nat /\ m \in Nat
  BY DEF Dims
<1>1. p \in PredOf(R, C) /\ Sound(p, R, C, s, m)
  BY DEF Fitted, Sound, Core
<1>2. /\ q \in PredOf(R, C) /\ q.sent = a /\ q.late = p.late /\ q.epoch = p.epoch
      /\ q.size = p.size /\ q.pref = p.pref /\ q.overwrite = p.overwrite
      /\ q.interval = p.interval /\ q.overlays = p.overlays /\ q.cursors = p.cursors
      /\ q.confirmed = p.confirmed
  BY <1>1 DEF PredOf
<1>3. p.sent \in Nat
  BY <1>1, PredType
<1>4. Unique(q) /\ Clean(q)
  BY <1>1, <1>2, SameOverlays DEF Sound, Core
<1>5. Dated(q, s, m)
  <2>1. \A i, k : Live(q, i, k) =>
           /\ s < Cell(q, i, k).exp /\ Cell(q, i, k).exp <= m
           /\ Cell(q, i, k).exp <= q.sent + 1 /\ Cell(q, i, k).epoch <= q.epoch
           /\ Cell(q, i, k).unknown => Cell(q, i, k).text = Blank
    <3>. TAKE i, k
    <3>. HAVE Live(q, i, k)
    <3>1. Live(p, i, k) /\ Cell(q, i, k) = Cell(p, i, k)
      BY <1>2, Zenon DEF Live, Cell
    <3>2. /\ s < Cell(p, i, k).exp /\ Cell(p, i, k).exp <= m
          /\ Cell(p, i, k).exp <= p.sent + 1 /\ Cell(p, i, k).epoch <= p.epoch
          /\ Cell(p, i, k).unknown => Cell(p, i, k).text = Blank
      BY <1>1, <3>1, Zenon DEF Sound, Core, Dated
    <3>3. Cell(p, i, k).exp \in Nat
      BY <1>1, <3>1, CellType
    <3>4. Cell(p, i, k).exp <= a + 1
      BY <1>3, <3>2, <3>3
    <3>. QED
      BY <1>2, <3>1, <3>2, <3>4, Zenon
  <2>2. \A j \in DOMAIN q.cursors : /\ s < q.cursors[j].exp /\ q.cursors[j].exp <= q.sent + 1
                                   /\ q.cursors[j].epoch <= q.epoch
    <3>. SUFFICES ASSUME NEW j \in DOMAIN p.cursors
                  PROVE  /\ s < p.cursors[j].exp /\ p.cursors[j].exp <= a + 1
                         /\ p.cursors[j].epoch <= p.epoch
      BY <1>2, Zenon
    <3>1. /\ s < p.cursors[j].exp /\ p.cursors[j].exp <= p.sent + 1
          /\ p.cursors[j].epoch <= p.epoch
      BY <1>1, Zenon DEF Sound, Core, Dated
    <3>2. p.cursors[j].exp \in Nat
      BY <1>1, CursorType
    <3>. QED
      BY <1>3, <3>1, <3>2
  <2>3. q.confirmed <= q.epoch
    BY <1>1, <1>2, Zenon DEF Sound, Core, Dated
  <2>. QED
    BY <2>1, <2>2, <2>3, Zenon DEF Dated
<1>6. Ordered(q)
  BY <1>1, <1>2, Zenon DEF Sound, Core, Ordered, Live, Cell
<1>7. Led(q)
  BY <1>1, <1>2, Zenon DEF Sound, Led, Live, Cell, Row
<1>8. Judged(q)
  BY <1>1, <1>2, Zenon DEF Sound, Judged, Live, Cell
<1>9. Fitted(q, R, C, s, m)
  <2>1. q.pref = "Never" => Emptied(q, R, C)
    BY <1>2, Zenon DEF Fitted, Emptied
  <2>. QED
    BY <1>2, <1>4, <1>5, <1>6, <1>7, <1>8, <2>1, Zenon DEF Fitted, Sound, Core
<1>10. \A odd : Hide(p, odd) => Hide(q, odd)
  <2>1. Alike(p, q)
    BY <1>2, Zenon DEF Alike
  <2>. QED
    BY <2>1, AlikeHide, Zenon
<1>. QED
  BY <1>2, <1>9, <1>10

KeyHidden(p, r, key, fb) ==
    /\ \A odd \in BOOLEAN :
           (Hide(p, odd) /\ Tame(fb) /\ KeyAllowed(key, odd)) => Hide(r, odd)
    /\ (key = "Enter" /\ Masked(p) /\ Tame(fb)) => \A odd \in BOOLEAN : Hide(r, odd)

\* new_user_byte culls by the display and handles the key.
LEMMA ByteFed ==
    ASSUME NEW R, NEW C, NEW s, NEW m, Dims(R, C, s, m), NEW p, Fitted(p, R, C, s, m),
           NEW fb, Fits(fb, R, C), Ready(p, s), p.sent + 1 <= m,
           NEW key \in Keys, NEW t \in Nat, NEW r, r = new_user_byte(p, key, fb, t)
    PROVE  Fitted(r, R, C, s, m) /\ Kept(p, r) /\ KeyHidden(p, r, key, fb)
<1>1. CASE p.pref = "Never"
  <2>1. r = p
    BY <1>1, Zenon DEF new_user_byte
  <2>2. Emptied(p, R, C)
    BY <1>1 DEF Fitted
  <2>3. /\ Sound(p, R, C, s, m) /\ Emptied(p, R, C)
        /\ \A odd : Hide(p, odd) /\ Hidden(p, odd)
    BY <2>2, EmptySound
  <2>. QED
    BY <2>1, <2>3, Zenon DEF Kept, KeyHidden
<1>2. CASE p.pref # "Never"
  <2>1. Sound(p, R, C, s, m) /\ p.size = <<R, C>>
    BY <1>2 DEF Fitted
  <2>2. PICK x \in BOOLEAN, g \in Nat : cull(p, fb, t) = Triggered(p, x, g)
    <3>1. \E x \in BOOLEAN, g \in Nat :
               /\ cull(p, fb, t) = Triggered(p, x, g)
               /\ p.glitch > 0 => g > 0
               /\ (p.srtt /\ active(p)) => x
      BY <1>2, <2>1, CullQuiet
    <3>. QED
      BY <3>1, Zenon
  <2>. DEFINE q == Triggered(p, x, g)
  <2>3. r = HandleKey(q, key, fb, t) /\ q = Triggered(p, x, g)
    BY <1>2, <2>2, Zenon DEF new_user_byte
  <2>. HIDE DEF q
  <2>4. /\ Sound(q, R, C, s, m) /\ Kept(p, q)
        /\ \A odd : Hide(p, odd) => Hide(q, odd)
        /\ q.overlays = p.overlays /\ q.cursors = p.cursors /\ q.epoch = p.epoch
        /\ q.confirmed = p.confirmed /\ q.srtt = x /\ q.glitch = g
    BY <2>1, <2>3, TriggeredSound
  <2>5. Ready(q, s) /\ q.sent + 1 <= m
    BY <2>4, KeptReady DEF Kept
  <2>6. /\ Sound(r, R, C, s, m) /\ Kept(q, r)
        /\ \A odd \in BOOLEAN :
               (Hide(q, odd) /\ Tame(fb) /\ KeyAllowed(key, odd)) => Hide(r, odd)
        /\ (key = "Enter" /\ Masked(q) /\ Tame(fb)) => \A odd \in BOOLEAN : Hide(r, odd)
    BY <2>3, <2>4, <2>5, Handled
  <2>7. Kept(p, r)
    BY <2>4, <2>6, KeptTrans
  <2>8. Fitted(r, R, C, s, m)
    BY <1>2, <2>1, <2>6, <2>7 DEF Fitted, Kept
  <2>9. Masked(p) => Masked(q)
    <3>1. \A i, k : /\ Secretive(q, i, k) <=> Secretive(p, i, k)
                    /\ Plain(q, i, k) <=> Plain(p, i, k)
                    /\ Live(q, i, k) <=> Live(p, i, k)
      BY <2>4, Zenon DEF Secretive, Plain, Live, Cell
    <3>2. \A i, k : Cell(q, i, k) = Cell(p, i, k)
      BY <2>4, Zenon DEF Cell
    <3>. SUFFICES ASSUME Masked(p) PROVE Masked(q)
      OBVIOUS
    <3>3. ASSUME NEW i, NEW k, NEW j, NEW l, Plain(q, i, k), Secretive(q, j, l),
                 Cell(q, i, k).epoch = Cell(q, j, l).epoch
          PROVE  Witness(q, i, k)
      <4>1. /\ Plain(p, i, k) /\ Secretive(p, j, l)
            /\ Cell(p, i, k).epoch = Cell(p, j, l).epoch
        BY <3>1, <3>2, <3>3
      <4>2. Witness(p, i, k)
        BY <4>1, Zenon DEF Masked
      <4>3. PICK h : /\ Secretive(p, i, h) /\ h < k
                     /\ Cell(p, i, h).epoch = Cell(p, i, k).epoch
                     /\ Cell(p, i, h).exp <= Cell(p, i, k).exp
        BY <4>2, Zenon DEF Witness
      <4>4. /\ Secretive(q, i, h) /\ Cell(q, i, h).epoch = Cell(q, i, k).epoch
            /\ Cell(q, i, h).exp <= Cell(q, i, k).exp
        BY <3>1, <3>2, <4>3
      <4>. QED
        BY <2>4, <4>2, <4>3, <4>4, Zenon DEF Witness, Kept
    <3>4. ASSUME NEW i, NEW k, Secretive(q, i, k) PROVE q.confirmed < Cell(q, i, k).epoch
      <4>1. p.confirmed < Cell(p, i, k).epoch
        BY <3>1, <3>4, Zenon DEF Masked
      <4>. QED
        BY <2>4, <3>2, <4>1
    <3>5. ASSUME NEW i, NEW k, Live(q, i, k) PROVE Cell(q, i, k).text # Linked
      <4>1. Cell(p, i, k).text # Linked
        BY <3>1, <3>5, Zenon DEF Masked
      <4>. QED
        BY <3>2, <4>1
    <3>. QED
      BY <3>3, <3>4, <3>5, Zenon DEF Masked
  <2>. QED
    BY <2>4, <2>6, <2>7, <2>8, <2>9, Zenon DEF KeyHidden
<1>. QED
  BY <1>1, <1>2

IsMessage(keys) == keys \in Seq(Keys)
IsEnter(keys) == keys = <<"Enter">>
Allowed(keys, odd) == \A i \in DOMAIN keys : KeyAllowed(keys[i], odd)

\* The bytes of a message, one by one.
LEMMA KeysFed ==
    ASSUME NEW R, NEW C, NEW s, NEW m, Dims(R, C, s, m), NEW p, Fitted(p, R, C, s, m),
           NEW fb, Fits(fb, R, C), Ready(p, s), p.sent + 1 <= m,
           NEW keys, IsMessage(keys), now \in Nat, NEW r, r = Fed(p, keys, fb)
    PROVE  /\ Fitted(r, R, C, s, m) /\ Kept(p, r)
           /\ \A odd \in BOOLEAN :
                  (Hide(p, odd) /\ Tame(fb) /\ Allowed(keys, odd)) => Hide(r, odd)
           /\ (IsEnter(keys) /\ Masked(p) /\ Tame(fb)) =>
                  \A odd \in BOOLEAN : Hide(r, odd)
<1>. DEFINE n == Len(keys)
<1>1. n \in Nat /\ DOMAIN keys = 1..n /\ \A i \in 1..n : keys[i] \in Keys
  BY DEF IsMessage
<1>2. PICK f : /\ Fed(p, keys, fb) = f[n] /\ f[0] = p
               /\ \A i \in 0..(n - 1) :
                      f[i + 1] = new_user_byte(f[i], keys[i + 1], fb, now)
  BY <1>1, FeedingIs
<1>3. IsEnter(keys) => n = 1 /\ keys[1] = "Enter"
  BY DEF IsEnter
<1>. HIDE DEF n
<1>. DEFINE Good(i) == /\ Fitted(f[i], R, C, s, m) /\ Kept(p, f[i])
                       /\ \A odd \in BOOLEAN :
                              (Hide(p, odd) /\ Tame(fb) /\ Allowed(keys, odd)) => Hide(f[i], odd)
            A == {i \in Nat : i <= n => Good(i)}
<1>4. ASSUME NEW i \in 0..(n - 1), Good(i)
      PROVE  Good(i + 1) /\ KeyHidden(f[i], f[i + 1], keys[i + 1], fb)
  <2>. DEFINE q == f[i]
              r2 == f[i + 1]
              key == keys[i + 1]
  <2>1. /\ Fitted(q, R, C, s, m) /\ Kept(p, q)
        /\ \A odd \in BOOLEAN :
               (Hide(p, odd) /\ Tame(fb) /\ Allowed(keys, odd)) => Hide(q, odd)
    BY <1>4
  <2>2. i + 1 \in 1..n
    BY <1>1
  <2>3. key \in Keys /\ r2 = new_user_byte(q, key, fb, now) /\ i + 1 \in DOMAIN keys
    BY <1>1, <1>2, <2>2
  <2>4. \A odd : Allowed(keys, odd) => KeyAllowed(key, odd)
    BY <2>3, Zenon DEF Allowed
  <2>. HIDE DEF q, r2, key
  <2>5. Ready(q, s) /\ q.sent + 1 <= m
    BY <2>1, KeptReady DEF Kept
  <2>6. Fitted(r2, R, C, s, m) /\ Kept(q, r2) /\ KeyHidden(q, r2, key, fb)
    BY <2>1, <2>3, <2>5, ByteFed
  <2>7. Kept(p, r2)
    BY <2>1, <2>6, KeptTrans
  <2>8. \A odd \in BOOLEAN :
            (Hide(p, odd) /\ Tame(fb) /\ Allowed(keys, odd)) => Hide(r2, odd)
    BY <2>1, <2>4, <2>6, Zenon DEF KeyHidden
  <2>. QED
    BY <2>6, <2>7, <2>8, Zenon DEF q, r2, key
<1>5. Good(0)
  <2>1. Kept(p, p)
    BY Zenon DEF Kept
  <2>. QED
    BY <1>2, <2>1, Zenon
<1>6. 0 \in A
  <2>. HIDE DEF Good
  <2>. QED
    BY <1>5
<1>7. ASSUME NEW i \in Nat, i \in A PROVE i + 1 \in A
  <2>. HIDE DEF Good
  <2>. SUFFICES ASSUME i + 1 <= n PROVE Good(i + 1)
    BY DEF A
  <2>1. i \in 0..(n - 1) /\ i <= n
    BY <1>1
  <2>2. Good(i)
    BY <1>7, <2>1
  <2>. QED
    BY <1>4, <2>1, <2>2
<1>. HIDE DEF A
<1>8. n \in A
  BY <1>1, <1>6, <1>7, SetInduction
<1>9. Good(n)
  <2>. HIDE DEF Good
  <2>1. n <= n
    BY <1>1
  <2>. QED
    BY <1>8, <2>1 DEF A
<1>10. r = f[n]
  BY <1>2
<1>11. ASSUME IsEnter(keys), Masked(p), Tame(fb), NEW odd \in BOOLEAN
       PROVE  Hide(r, odd)
  <2>1. n = 1 /\ keys[1] = "Enter" /\ f[0] = p
    BY <1>2, <1>3, <1>11
  <2>2. 0 \in 0..(n - 1)
    BY <2>1
  <2>3. KeyHidden(f[0], f[0 + 1], keys[0 + 1], fb)
    BY <1>4, <1>5, <2>2, Zenon
  <2>4. KeyHidden(p, r, "Enter", fb)
    BY <1>10, <2>1, <2>3
  <2>. QED
    BY <1>11, <2>4, Zenon DEF KeyHidden
<1>. QED
  BY <1>9, <1>10, <1>11, Zenon

\* feed_predict: the message n is fed, its guesses wait for screen n.
LEMMA MessageFed ==
    ASSUME NEW R, NEW C, NEW s, NEW m, Dims(R, C, s, m), NEW p, Fitted(p, R, C, s, m),
           NEW fb, Fits(fb, R, C), p.sent <= m, p.late <= m, s <= m,
           NEW keys, IsMessage(keys), now \in Nat,
           NEW r, r = feed_predict(p, m + 1, keys, fb)
    PROVE  /\ Fitted(r, R, C, s, m + 1) /\ r.sent = m /\ r.late = p.late /\ r.pref = p.pref
           /\ r.overwrite = p.overwrite /\ r.interval = p.interval
           /\ \A odd \in BOOLEAN :
                  (Hide(p, odd) /\ Tame(fb) /\ Allowed(keys, odd)) => Hide(r, odd)
           /\ \A odd \in BOOLEAN : (IsEnter(keys) /\ Hide(p, odd) /\ Tame(fb)) =>
                  \A e \in BOOLEAN : Hide(r, e)
<1>. R \in Nat /\ C \in Nat /\ s \in Nat /\ m \in Nat
  BY DEF Dims
<1>. DEFINE q == [p EXCEPT !.sent = m]
            n == m + 1
<1>1. q = [p EXCEPT !.sent = m] /\ r = Fed(q, keys, fb)
  <2>1. m + 1 - 1 = m
    OBVIOUS
  <2>. QED
    BY <2>1 DEF feed_predict
<1>. HIDE DEF q
<1>2. Dims(R, C, s, n) /\ m <= n /\ n = m + 1
  BY DEF Dims
<1>. HIDE DEF n
<1>3. Fitted(p, R, C, s, n)
  BY <1>2, MoreMessages
<1>4. /\ Fitted(q, R, C, s, n) /\ q.sent = m /\ q.late = p.late
      /\ q.size = p.size /\ q.pref = p.pref /\ q.overwrite = p.overwrite
      /\ q.interval = p.interval
      /\ \A odd : Hide(p, odd) => Hide(q, odd)
  BY <1>1, <1>2, <1>3, SentFitted
<1>5. Ready(q, s) /\ q.sent + 1 <= n
  BY <1>2, <1>4 DEF Ready
<1>6. /\ Fitted(r, R, C, s, n) /\ Kept(q, r)
      /\ \A odd \in BOOLEAN :
             (Hide(q, odd) /\ Tame(fb) /\ Allowed(keys, odd)) => Hide(r, odd)
      /\ (IsEnter(keys) /\ Masked(q) /\ Tame(fb)) =>
             \A odd \in BOOLEAN : Hide(r, odd)
  <2>1. /\ Dims(R, C, s, n) /\ Fitted(q, R, C, s, n) /\ Ready(q, s) /\ q.sent + 1 <= n
        /\ r = Fed(q, keys, fb)
    BY <1>1, <1>2, <1>4, <1>5
  <2>. QED
    BY <2>1, KeysFed, ZenonT(60)
<1>7. /\ r.sent = m /\ r.late = p.late /\ r.pref = p.pref /\ r.overwrite = p.overwrite
      /\ r.interval = p.interval
  BY <1>4, <1>6 DEF Kept
<1>. QED
  BY <1>2, <1>4, <1>6, <1>7, Zenon DEF Hide

-----------------------------------------------------------------------------
(* What is on display.                                                     *)

\* What is shown of a cell is a glyph, and no password character.
LEMMA ShownText ==
    ASSUME NEW R, NEW C, NEW s, NEW m, Dims(R, C, s, m), NEW p, Sound(p, R, C, s, m),
           NEW row, NEW k, Shown(p, row, k), NEW g,
           g = p.overlays[LineIndex(p, row)].cells[k].text
    PROVE  g \in Glyphs /\ (Masked(p) => g \notin {Secret, Linked})
<1>. R \in Nat /\ C \in Nat
  BY DEF Dims
<1>1. p \in PredOf(R, C) /\ Unique(p) /\ p.confirmed \in Nat
  <2>1. p \in PredOf(R, C) /\ Unique(p)
    BY DEF Sound, Core
  <2>. QED
    BY <2>1, PredType
<1>2. PICK i \in DOMAIN p.overlays :
          /\ p.overlays[i].row = row /\ k \in DOMAIN p.overlays[i].cells
          /\ p.overlays[i].cells[k].active /\ Confident(p, p.overlays[i].cells[k])
  BY Zenon DEF Shown
<1>3. LineIndex(p, row) = i
  <2>1. \E j \in DOMAIN p.overlays : p.overlays[j].row = row
    BY <1>2
  <2>2. \A j \in DOMAIN p.overlays : p.overlays[j].row = row => j = i
    BY <1>1, <1>2, Zenon DEF Unique, Row
  <2>. QED
    BY <2>1, <2>2, Zenon DEF LineIndex
<1>4. Live(p, i, k) /\ g = Cell(p, i, k).text /\ Cell(p, i, k).epoch <= p.confirmed
  BY <1>2, <1>3, Zenon DEF Live, Cell, Confident
<1>5. g \in Glyphs /\ Cell(p, i, k).epoch \in Nat
  BY <1>1, <1>4, CellType
<1>6. ASSUME Masked(p) PROVE g # Secret
  <2>. SUFFICES ASSUME g = Secret PROVE FALSE
    OBVIOUS
  <2>1. Secretive(p, i, k)
    BY <1>4, Zenon DEF Secretive
  <2>2. p.confirmed < Cell(p, i, k).epoch
    BY <1>6, <2>1, Zenon DEF Masked
  <2>. QED
    BY <1>1, <1>4, <1>5, <2>2
<1>7. Masked(p) => g # Linked
  BY <1>4, Zenon DEF Masked
<1>. QED
  BY <1>5, <1>6, <1>7

\* apply draws the guesses into the frame, and no password.
LEMMA Applied ==
    ASSUME NEW R, NEW C, NEW s, NEW m, Dims(R, C, s, m), NEW p, Sound(p, R, C, s, m),
           NEW fb, Fits(fb, R, C), NEW d, d = apply(p, fb)
    PROVE  Fits(d, R, C) /\ (Tame(fb) /\ Masked(p) => Tame(d))
<1>. R \in Nat /\ C \in Nat
  BY DEF Dims
<1>1. p \in PredOf(R, C) /\ p.cursors \in Seq(CursorOf(R, C))
  <2>1. p \in PredOf(R, C)
    BY DEF Sound, Core
  <2>. QED
    BY <2>1, PredType
<1>2. /\ fb.rows = R /\ fb.cols = C /\ fb.row \in 0..(R - 1) /\ fb.col \in 0..(C - 1)
      /\ R # 0 /\ C # 0 /\ Columns(fb) = 0..(C - 1) /\ RowNumbers(fb) = 0..(R - 1)
      /\ \A r \in 0..(R - 1), k \in 0..(C - 1) : fb.cell[r][k] \in Glyphs
  BY FrameType
<1>3. fb.cell \in [0..(R - 1) -> [0..(C - 1) -> Glyphs]]
  BY DEF Fits, Frames
<1>. DEFINE T == {c \in Range(p.cursors) :
                     Confident(p, c) /\ c.row < fb.rows /\ c.col < fb.cols}
            cs == Retain(p.cursors, T)
            guess(row, col) == p.overlays[LineIndex(p, row)].cells[col].text
            cells == [r \in DOMAIN fb.cell |-> [k \in DOMAIN fb.cell[r] |->
                         IF Shown(p, r, k) THEN guess(r, k) ELSE fb.cell[r][k]]]
            x == IF cs = <<>> THEN fb.row ELSE Last(cs).row
            y == IF cs = <<>> THEN fb.col ELSE Last(cs).col
<1>4. d = IF ~Displays(p) THEN fb ELSE [fb EXCEPT !.row = x, !.col = y, !.cell = cells]
  BY Zenon DEF apply
<1>5. x \in 0..(R - 1) /\ y \in 0..(C - 1)
  <2>. HIDE DEF T
  <2>1. cs \in Seq({c \in CursorOf(R, C) \cap T : \E i \in DOMAIN p.cursors : c = p.cursors[i]})
    BY <1>1, RetainType
  <2>. HIDE DEF cs
  <2>2. cs \in Seq(CursorOf(R, C))
    BY <2>1
  <2>3. cs # <<>> => Last(cs) \in CursorOf(R, C)
    BY <2>2 DEF Last
  <2>4. cs # <<>> => Last(cs).row \in 0..(R - 1) /\ Last(cs).col \in 0..(C - 1)
    BY <2>3 DEF CursorOf
  <2>. QED
    BY <1>2, <2>4
<1>6. \A r \in 0..(R - 1), k \in 0..(C - 1) : Shown(p, r, k) =>
          guess(r, k) \in Glyphs /\ (Masked(p) => guess(r, k) \notin {Secret, Linked})
  <2>. TAKE r \in 0..(R - 1), k \in 0..(C - 1)
  <2>. HAVE Shown(p, r, k)
  <2>. DEFINE g == p.overlays[LineIndex(p, r)].cells[k].text
  <2>1. g = p.overlays[LineIndex(p, r)].cells[k].text
    OBVIOUS
  <2>. HIDE DEF g
  <2>2. g \in Glyphs /\ (Masked(p) => g \notin {Secret, Linked})
    BY <2>1, ShownText
  <2>. QED
    BY <2>2 DEF g
<1>. HIDE DEF x, y, cs, T, guess
<1>7. cells = [r \in 0..(R - 1) |-> [k \in 0..(C - 1) |->
                  IF Shown(p, r, k) THEN guess(r, k) ELSE fb.cell[r][k]]]
  BY <1>3
<1>8. \A r \in 0..(R - 1), k \in 0..(C - 1) :
          cells[r][k] = IF Shown(p, r, k) THEN guess(r, k) ELSE fb.cell[r][k]
  <2>. HIDE DEF cells
  <2>. QED
    BY <1>7, Zenon
<1>9. cells \in [0..(R - 1) -> [0..(C - 1) -> Glyphs]]
  <2>. HIDE DEF cells
  <2>. QED
    BY <1>2, <1>6, <1>7
<1>. HIDE DEF cells
<1>10. CASE ~Displays(p)
  BY <1>4, <1>10
<1>11. CASE Displays(p)
  <2>1. d = [fb EXCEPT !.row = x, !.col = y, !.cell = cells]
    BY <1>4, <1>11
  <2>2. Fits(d, R, C) /\ d.cell = cells
    BY <1>5, <1>9, <2>1 DEF Fits, Frames
  <2>3. ASSUME Tame(fb), Masked(p) PROVE Tame(d)
    <3>1. RowNumbers(d) = 0..(R - 1) /\ Columns(d) = 0..(C - 1)
      <4>1. Fits(d, R, C)
        BY <2>2
      <4>. QED
        BY <4>1, FrameSize
    <3>. SUFFICES ASSUME NEW r \in 0..(R - 1), NEW k \in 0..(C - 1)
                  PROVE  cells[r][k] \notin {Secret, Linked}
      BY <2>2, <3>1, Zenon DEF Tame
    <3>2. fb.cell[r][k] \notin {Secret, Linked}
      BY <1>2, <2>3, Zenon DEF Tame
    <3>3. Shown(p, r, k) => guess(r, k) \notin {Secret, Linked}
      BY <1>6, <2>3
    <3>. QED
      BY <1>8, <3>2, <3>3
  <2>. QED
    BY <2>2, <2>3
<1>. QED
  BY <1>10, <1>11

-----------------------------------------------------------------------------
(* The program's terminal.                                                 *)

Rewritten(f, cells, R, C) ==
    /\ cells \in [0..(C - 1) -> Glyphs]
    /\ Tame(f) => \A k \in 0..(C - 1) : cells[k] \notin {Secret, Linked}

LineAt(f, line, col) == [f EXCEPT !.cell[f.row] = line, !.col = col]
FrameAt(f, row, col, cell) == [f EXCEPT !.row = row, !.col = col, !.cell = cell]

Screenful(cell, R, C) == cell \in [0..(R - 1) -> [0..(C - 1) -> Glyphs]]
Quiet(cell, R, C) ==
    \A r \in 0..(R - 1), k \in 0..(C - 1) : cell[r][k] \notin {Secret, Linked}

\* A frame whose cursor and cells are set.
LEMMA FrameOf ==
    ASSUME NEW R \in Nat, NEW C \in Nat, NEW f, Fits(f, R, C), NEW row, NEW col,
           InFrame(row, col, R, C), NEW cell, Screenful(cell, R, C),
           NEW g, g = FrameAt(f, row, col, cell)
    PROVE  /\ Fits(g, R, C) /\ g.row = row /\ g.col = col /\ g.cell = cell
           /\ Tame(g) <=> Quiet(cell, R, C)
<1>1. Fits(g, R, C) /\ g.row = row /\ g.col = col /\ g.cell = cell
  BY DEF FrameAt, Fits, Frames, InFrame, Screenful
<1>2. RowNumbers(g) = 0..(R - 1) /\ Columns(g) = 0..(C - 1)
  <2>1. Fits(g, R, C)
    BY <1>1
  <2>. QED
    BY <2>1, FrameType
<1>. QED
  BY <1>1, <1>2, Zenon DEF Tame, Quiet

\* One line of a frame is written, and the cursor moves in it.
LEMMA LineWritten ==
    ASSUME NEW R \in Nat, NEW C \in Nat, NEW f, Fits(f, R, C), NEW col \in 0..(C - 1),
           NEW new, Rewritten(f, new, R, C), NEW g,
           g = LineAt(f, new, col)
    PROVE  Fits(g, R, C) /\ (Tame(f) => Tame(g))
<1>1. /\ f.rows = R /\ f.cols = C /\ f.row \in 0..(R - 1) /\ f.col \in 0..(C - 1)
      /\ R # 0 /\ C # 0 /\ Columns(f) = 0..(C - 1) /\ RowNumbers(f) = 0..(R - 1)
      /\ \A r \in 0..(R - 1), k \in 0..(C - 1) : f.cell[r][k] \in Glyphs
  BY FrameType
<1>2. f.cell \in [0..(R - 1) -> [0..(C - 1) -> Glyphs]]
  BY DEF Fits, Frames
<1>3. new \in [0..(C - 1) -> Glyphs]
  BY DEF Rewritten
<1>. DEFINE cell == [f.cell EXCEPT ![f.row] = new]
<1>4. /\ cell \in [0..(R - 1) -> [0..(C - 1) -> Glyphs]]
      /\ \A r \in 0..(R - 1) : cell[r] = IF r = f.row THEN new ELSE f.cell[r]
  BY <1>1, <1>2, <1>3
<1>5. g = FrameAt(f, f.row, col, cell)
  BY DEF LineAt, FrameAt, Fits, Frames
<1>. HIDE DEF cell
<1>6. /\ Fits(g, R, C) /\ g.row = f.row /\ g.col = col /\ g.cell = cell
      /\ Tame(g) <=> Quiet(cell, R, C)
  <2>1. InFrame(f.row, col, R, C) /\ Screenful(cell, R, C)
    BY <1>1, <1>4 DEF InFrame, Screenful
  <2>. QED
    BY <1>5, <2>1, FrameOf
<1>7. ASSUME Tame(f), NEW r \in 0..(R - 1), NEW k \in 0..(C - 1)
      PROVE  cell[r][k] \notin {Secret, Linked}
  <2>1. f.cell[r][k] \notin {Secret, Linked}
    BY <1>1, <1>7, Zenon DEF Tame
  <2>2. new[k] \notin {Secret, Linked}
    BY <1>7, Zenon DEF Rewritten
  <2>. QED
    BY <1>4, <2>1, <2>2
<1>. QED
  BY <1>6, <1>7, Zenon DEF Quiet

\* A character that is echoed.
LEMMA EchoedFits ==
    ASSUME NEW R \in Nat, NEW C \in Nat, NEW f, Fits(f, R, C), NEW ch \in Glyphs,
           NEW g, g = Echoed(f, ch)
    PROVE  Fits(g, R, C) /\ ((Tame(f) /\ ch \notin {Secret, Linked}) => Tame(g))
<1>1. /\ f.rows = R /\ f.cols = C /\ f.row \in 0..(R - 1) /\ f.col \in 0..(C - 1)
      /\ R # 0 /\ C # 0 /\ Columns(f) = 0..(C - 1) /\ RowNumbers(f) = 0..(R - 1)
      /\ \A r \in 0..(R - 1), k \in 0..(C - 1) : f.cell[r][k] \in Glyphs
  BY FrameType
<1>. DEFINE line == f.cell[f.row]
            inserts == ~bound.overwrite
            new == [k \in Columns(f) |->
                        IF k = f.col THEN ch
                        ELSE IF k > f.col /\ inserts THEN line[k - 1] ELSE line[k]]
            col == IF f.col < f.cols - 1 THEN f.col + 1 ELSE f.col
<1>2. g = LineAt(f, new, col)
  BY Zenon DEF Echoed, LineAt
<1>3. col \in 0..(C - 1)
  BY <1>1
<1>4. \A k \in 0..(C - 1) : line[k] \in Glyphs
  BY <1>1
<1>5. Tame(f) => \A k \in 0..(C - 1) : line[k] \notin {Secret, Linked}
  BY <1>1, Zenon DEF Tame
<1>. HIDE DEF line, inserts
<1>6. \A k \in 0..(C - 1) : \/ new[k] = ch
                            \/ \E j \in 0..(C - 1) : new[k] = line[j]
  <2>. TAKE k \in 0..(C - 1)
  <2>1. new[k] = IF k = f.col THEN ch
                 ELSE IF k > f.col /\ inserts THEN line[k - 1] ELSE line[k]
    BY <1>1
  <2>2. k > f.col => k - 1 \in 0..(C - 1)
    BY <1>1
  <2>. HIDE DEF new
  <2>. QED
    BY <2>1, <2>2
<1>7. new \in [0..(C - 1) -> Glyphs]
  <2>1. new = [k \in 0..(C - 1) |-> new[k]]
    BY <1>1
  <2>2. \A k \in 0..(C - 1) : new[k] \in Glyphs
    BY <1>4, <1>6
  <2>. HIDE DEF new
  <2>. QED
    BY <2>1, <2>2, Zenon
<1>. HIDE DEF new, col
<1>8. CASE ch \notin {Secret, Linked}
  <2>1. Tame(f) => \A k \in 0..(C - 1) : new[k] \notin {Secret, Linked}
    BY <1>5, <1>6, <1>8
  <2>2. Rewritten(f, new, R, C)
    BY <1>7, <2>1 DEF Rewritten
  <2>. QED
    BY <1>2, <1>3, <2>2, LineWritten
<1>9. CASE ch \in {Secret, Linked}
  <2>. DEFINE cell == [f.cell EXCEPT ![f.row] = new]
  <2>1. f.cell \in [0..(R - 1) -> [0..(C - 1) -> Glyphs]]
    BY DEF Fits, Frames
  <2>2. cell \in [0..(R - 1) -> [0..(C - 1) -> Glyphs]]
    BY <1>1, <1>7, <2>1
  <2>3. g = FrameAt(f, f.row, col, cell)
    BY <1>2 DEF LineAt, FrameAt, Fits, Frames
  <2>. HIDE DEF cell
  <2>4. /\ Fits(g, R, C) /\ g.row = f.row /\ g.col = col /\ g.cell = cell
        /\ Tame(g) <=> Quiet(cell, R, C)
    <3>1. InFrame(f.row, col, R, C) /\ Screenful(cell, R, C)
      BY <1>1, <1>3, <2>2 DEF InFrame, Screenful
    <3>. QED
      BY <2>3, <3>1, FrameOf
  <2>. QED
    BY <1>9, <2>4
<1>. QED
  BY <1>8, <1>9

\* A character that is erased.
LEMMA ErasedFits ==
    ASSUME NEW R \in Nat, NEW C \in Nat, NEW f, Fits(f, R, C), NEW g, g = Erased(f)
    PROVE  Fits(g, R, C) /\ (Tame(f) => Tame(g))
<1>1. /\ f.rows = R /\ f.cols = C /\ f.row \in 0..(R - 1) /\ f.col \in 0..(C - 1)
      /\ R # 0 /\ C # 0 /\ Columns(f) = 0..(C - 1) /\ RowNumbers(f) = 0..(R - 1)
      /\ \A r \in 0..(R - 1), k \in 0..(C - 1) : f.cell[r][k] \in Glyphs
  BY FrameType
<1>. DEFINE line == f.cell[f.row]
            stays(k) == k < f.col - 1 \/ (bound.overwrite /\ k > f.col - 1)
            moves(k) == ~bound.overwrite /\ k < f.cols - 1
            new == [k \in Columns(f) |->
                        IF stays(k) THEN line[k] ELSE IF moves(k) THEN line[k + 1] ELSE Blank]
<1>2. CASE f.col = 0
  <2>1. g = f
    BY <1>2, Zenon DEF Erased
  <2>. QED
    BY <2>1
<1>3. CASE f.col # 0
  <2>1. g = LineAt(f, new, f.col - 1)
    BY <1>3, Zenon DEF Erased, LineAt
  <2>. DEFINE col == f.col - 1
  <2>2. col \in 0..(C - 1)
    BY <1>1, <1>3
  <2>3. \A k \in 0..(C - 1) : line[k] \in Glyphs
    BY <1>1
  <2>4. Tame(f) => \A k \in 0..(C - 1) : line[k] \notin {Secret, Linked}
    BY <1>1, Zenon DEF Tame
  <2>5. \A k : moves(k) => k < C - 1
    BY <1>1
  <2>. HIDE DEF line, stays, moves
  <2>6. \A k \in 0..(C - 1) : \/ new[k] = Blank
                              \/ \E j \in 0..(C - 1) : new[k] = line[j]
    <3>. TAKE k \in 0..(C - 1)
    <3>1. new[k] = IF stays(k) THEN line[k] ELSE IF moves(k) THEN line[k + 1] ELSE Blank
      BY <1>1
    <3>2. moves(k) => k + 1 \in 0..(C - 1)
      BY <2>5
    <3>. HIDE DEF new
    <3>. QED
      BY <3>1, <3>2
  <2>7. new \in [0..(C - 1) -> Glyphs]
    <3>1. new = [k \in 0..(C - 1) |-> new[k]]
      BY <1>1
    <3>2. \A k \in 0..(C - 1) : new[k] \in Glyphs
      BY <2>3, <2>6, BlankGlyph
    <3>. HIDE DEF new
    <3>. QED
      BY <3>1, <3>2, Zenon
  <2>8. g = LineAt(f, new, col)
    BY <2>1
  <2>. HIDE DEF new, col
  <2>9. Tame(f) => \A k \in 0..(C - 1) : new[k] \notin {Secret, Linked}
    BY <2>4, <2>6, BlankGlyph
  <2>10. Rewritten(f, new, R, C)
    BY <2>7, <2>9 DEF Rewritten
  <2>. QED
    BY <2>2, <2>8, <2>10, LineWritten
<1>. QED
  BY <1>2, <1>3

\* Output in the cursor's line.
LEMMA PutFits ==
    ASSUME NEW R \in Nat, NEW C \in Nat, NEW f, Fits(f, R, C), NEW col \in 0..(C - 1),
           NEW ch \in Glyphs, NEW g, g = Put(f, col, ch)
    PROVE  Fits(g, R, C) /\ ((Tame(f) /\ ch \notin {Secret, Linked}) => Tame(g))
<1>1. /\ f.rows = R /\ f.cols = C /\ f.row \in 0..(R - 1) /\ f.col \in 0..(C - 1)
      /\ R # 0 /\ C # 0 /\ Columns(f) = 0..(C - 1) /\ RowNumbers(f) = 0..(R - 1)
      /\ \A r \in 0..(R - 1), k \in 0..(C - 1) : f.cell[r][k] \in Glyphs
  BY FrameType
<1>2. f.cell \in [0..(R - 1) -> [0..(C - 1) -> Glyphs]] /\ f \in Frames(R, C)
  BY DEF Fits, Frames
<1>. DEFINE old == f.cell[f.row]
            new == [old EXCEPT ![col] = ch]
            cell == [f.cell EXCEPT ![f.row] = new]
<1>3. old \in [0..(C - 1) -> Glyphs]
  BY <1>1, <1>2
<1>4. /\ new \in [0..(C - 1) -> Glyphs]
      /\ \A k \in 0..(C - 1) : new[k] = IF k = col THEN ch ELSE old[k]
  <2>. HIDE DEF old
  <2>. QED
    BY <1>3
<1>5. g = [f EXCEPT !.cell = cell]
  BY Zenon DEF Put
<1>. HIDE DEF new, old
<1>6. /\ cell \in [0..(R - 1) -> [0..(C - 1) -> Glyphs]]
      /\ \A r \in 0..(R - 1) : cell[r] = IF r = f.row THEN new ELSE f.cell[r]
  BY <1>1, <1>2, <1>4
<1>. HIDE DEF cell
<1>7. g = FrameAt(f, f.row, f.col, cell)
  BY <1>2, <1>5 DEF FrameAt, Frames
<1>8. InFrame(f.row, f.col, R, C) /\ Screenful(cell, R, C)
  BY <1>1, <1>6 DEF InFrame, Screenful
<1>9. /\ Fits(g, R, C) /\ g.row = f.row /\ g.col = f.col /\ g.cell = cell
      /\ Tame(g) <=> Quiet(cell, R, C)
  BY <1>7, <1>8, FrameOf
<1>10. ASSUME Tame(f), ch \notin {Secret, Linked}, NEW r \in 0..(R - 1), NEW k \in 0..(C - 1)
       PROVE  cell[r][k] \notin {Secret, Linked}
  <2>1. \A i \in 0..(R - 1) : f.cell[i][k] \notin {Secret, Linked}
    BY <1>1, <1>10, Zenon DEF Tame
  <2>2. new[k] \notin {Secret, Linked}
    BY <1>1, <1>4, <1>10, <2>1 DEF old
  <2>. QED
    BY <1>6, <2>1, <2>2
<1>. QED
  BY <1>9, <1>10, Zenon DEF Quiet

\* The cursor moves.
LEMMA CursorPut ==
    ASSUME NEW R \in Nat, NEW C \in Nat, NEW f, Fits(f, R, C), NEW row, NEW col,
           InFrame(row, col, R, C), NEW g, g = FrameAt(f, row, col, f.cell)
    PROVE  Fits(g, R, C) /\ (Tame(f) => Tame(g)) /\ g.row = row /\ g.col = col
<1>1. Columns(f) = 0..(C - 1) /\ RowNumbers(f) = 0..(R - 1) /\ Screenful(f.cell, R, C)
  <2>1. Screenful(f.cell, R, C)
    BY DEF Screenful, Fits, Frames
  <2>. QED
    BY <2>1, FrameType
<1>. DEFINE cell == f.cell
<1>2. g = FrameAt(f, row, col, cell) /\ Screenful(cell, R, C)
  BY <1>1
<1>. HIDE DEF cell
<1>3. /\ Fits(g, R, C) /\ g.row = row /\ g.col = col /\ g.cell = cell
      /\ Tame(g) <=> Quiet(cell, R, C)
  BY <1>2, FrameOf
<1>4. Tame(f) => Quiet(cell, R, C)
  BY <1>1, Zenon DEF Tame, Quiet, cell
<1>. QED
  BY <1>3, <1>4

\* The cursor goes to the next line, or the frame scrolls.
LEMMA NextLineFits ==
    ASSUME NEW R \in Nat, NEW C \in Nat, NEW f, Fits(f, R, C), NEW g, g = NextLine(f)
    PROVE  Fits(g, R, C) /\ (Tame(f) => Tame(g))
<1>1. /\ f.rows = R /\ f.cols = C /\ f.row \in 0..(R - 1) /\ f.col \in 0..(C - 1)
      /\ R # 0 /\ C # 0 /\ Columns(f) = 0..(C - 1) /\ RowNumbers(f) = 0..(R - 1)
      /\ \A r \in 0..(R - 1), k \in 0..(C - 1) : f.cell[r][k] \in Glyphs
  BY FrameType
<1>2. f.cell \in [0..(R - 1) -> [0..(C - 1) -> Glyphs]] /\ f \in Frames(R, C)
  BY DEF Fits, Frames
<1>3. CASE f.row < f.rows - 1
  <2>1. g = [f EXCEPT !.row = f.row + 1, !.col = 0]
    BY <1>3, Zenon DEF NextLine
  <2>. DEFINE row == f.row + 1
              col == 0
  <2>2. g = FrameAt(f, row, col, f.cell)
    BY <1>2, <2>1 DEF FrameAt, Frames
  <2>3. InFrame(row, col, R, C)
    BY <1>1, <1>3 DEF InFrame
  <2>. HIDE DEF row, col
  <2>. QED
    BY <2>2, <2>3, CursorPut
<1>4. CASE ~(f.row < f.rows - 1)
  <2>. DEFINE blanks == [k \in Columns(f) |-> Blank]
              cell == [r \in RowNumbers(f) |-> IF r < f.rows - 1 THEN f.cell[r + 1] ELSE blanks]
              col == 0
  <2>1. g = [f EXCEPT !.col = col, !.cell = cell]
    BY <1>4, Zenon DEF NextLine
  <2>2. blanks \in [0..(C - 1) -> Glyphs] /\ \A k \in 0..(C - 1) : blanks[k] = Blank
    BY <1>1, BlankGlyph
  <2>. HIDE DEF blanks
  <2>3. /\ cell \in [0..(R - 1) -> [0..(C - 1) -> Glyphs]]
        /\ \A r \in 0..(R - 1) : cell[r] = IF r < R - 1 THEN f.cell[r + 1] ELSE blanks
    BY <1>1, <1>2, <2>2
  <2>. HIDE DEF cell
  <2>4. g = FrameAt(f, f.row, col, cell)
    BY <1>2, <2>1 DEF FrameAt, Frames
  <2>5. InFrame(f.row, col, R, C) /\ Screenful(cell, R, C)
    BY <1>1, <2>3 DEF InFrame, Screenful
  <2>. HIDE DEF col
  <2>6. /\ Fits(g, R, C) /\ g.row = f.row /\ g.col = col /\ g.cell = cell
        /\ Tame(g) <=> Quiet(cell, R, C)
    BY <2>4, <2>5, FrameOf
  <2>7. ASSUME Tame(f), NEW r \in 0..(R - 1), NEW k \in 0..(C - 1)
        PROVE  cell[r][k] \notin {Secret, Linked}
    <3>1. \A i \in 0..(R - 1) : f.cell[i][k] \notin {Secret, Linked}
      BY <1>1, <2>7, Zenon DEF Tame
    <3>2. r < R - 1 => r + 1 \in 0..(R - 1)
      OBVIOUS
    <3>3. blanks[k] \notin {Secret, Linked}
      BY <2>2, BlankGlyph
    <3>. QED
      BY <2>3, <3>1, <3>2, <3>3
  <2>. QED
    BY <2>6, <2>7, Zenon DEF Quiet
<1>. QED
  BY <1>3, <1>4

\* A prompt is written at the cursor.
LEMMA PromptedFits ==
    ASSUME NEW R \in Nat, NEW C \in Nat, NEW f, Fits(f, R, C), NEW prompt \in Glyphs,
           NEW g, g = Prompted(f, prompt)
    PROVE  Fits(g, R, C) /\ ((Tame(f) /\ prompt \notin {Secret, Linked}) => Tame(g))
<1>1. /\ f.rows = R /\ f.cols = C /\ f.row \in 0..(R - 1) /\ f.col \in 0..(C - 1)
      /\ R # 0 /\ C # 0 /\ Columns(f) = 0..(C - 1) /\ RowNumbers(f) = 0..(R - 1)
      /\ \A r \in 0..(R - 1), k \in 0..(C - 1) : f.cell[r][k] \in Glyphs
  BY FrameType
<1>2. f \in Frames(R, C)
  BY DEF Fits
<1>. DEFINE zero == 0
            home == FrameAt(f, f.row, zero, f.cell)
            put == Put(home, zero, prompt)
            to == IF f.cols > 1 THEN 1 ELSE 0
<1>3. InFrame(f.row, zero, R, C) /\ InFrame(f.row, to, R, C) /\ zero \in 0..(C - 1)
  BY <1>1 DEF InFrame
<1>4. Fits(home, R, C) /\ (Tame(f) => Tame(home)) /\ home.row = f.row /\ home.col = zero
  <2>1. home = FrameAt(f, f.row, zero, f.cell)
    OBVIOUS
  <2>. HIDE DEF home, zero
  <2>. QED
    BY <1>3, <2>1, CursorPut
<1>5. home = [f EXCEPT !.col = 0]
  BY <1>2 DEF FrameAt, Frames
<1>6. g = [put EXCEPT !.col = to]
  <2>. HIDE DEF home
  <2>. QED
    BY <1>5, Zenon DEF Prompted
<1>7. put.row = f.row
  <2>. HIDE DEF home
  <2>1. put = [home EXCEPT !.cell = [home.cell EXCEPT ![home.row] =
                  [home.cell[home.row] EXCEPT ![zero] = prompt]]]
    BY Zenon DEF Put
  <2>. DEFINE c == [home.cell EXCEPT ![home.row] = [home.cell[home.row] EXCEPT ![zero] = prompt]]
  <2>2. put = [home EXCEPT !.cell = c]
    BY <2>1
  <2>. HIDE DEF c, put
  <2>. QED
    BY <1>4, <2>2 DEF Fits, Frames
<1>. HIDE DEF home, zero, to
<1>8. Fits(put, R, C) /\ ((Tame(home) /\ prompt \notin {Secret, Linked}) => Tame(put))
  <2>1. put = Put(home, zero, prompt)
    OBVIOUS
  <2>. HIDE DEF put
  <2>. QED
    BY <1>3, <1>4, <2>1, PutFits
<1>. HIDE DEF put
<1>9. g = FrameAt(put, put.row, to, put.cell)
  BY <1>6, <1>8 DEF FrameAt, Fits, Frames
<1>10. Fits(g, R, C) /\ (Tame(put) => Tame(g)) /\ g.row = put.row /\ g.col = to
  <2>. DEFINE row == put.row
  <2>1. InFrame(row, to, R, C) /\ g = FrameAt(put, row, to, put.cell)
    BY <1>3, <1>7, <1>9
  <2>. HIDE DEF row
  <2>2. Fits(g, R, C) /\ (Tame(put) => Tame(g)) /\ g.row = row /\ g.col = to
    BY <1>8, <2>1, CursorPut
  <2>. QED
    BY <2>2 DEF row
<1>. QED
  BY <1>4, <1>8, <1>10

Terminal(t, R, C) ==
    t \in [frame : Frames(R, C), echo : BOOLEAN, line : Nat, output : Nat]

\* A login program's terminal shows no password, and echoes every other line.
Discloses(t) == ~Tame(t.frame) \/ ~(t.echo <=> t.line % 2 = 0)

WithFrame(t, f) == [t EXCEPT !.frame = f]

\* The parts of a terminal.
LEMMA TerminalType ==
    ASSUME NEW R, NEW C, NEW t, Terminal(t, R, C)
    PROVE  Fits(t.frame, R, C) /\ t.echo \in BOOLEAN /\ t.line \in Nat /\ t.output \in Nat
BY DEF Terminal, Fits

\* The terminal's frame becomes another without passwords.
LEMMA FrameSet ==
    ASSUME NEW R, NEW C, NEW t, Terminal(t, R, C), NEW f, Fits(f, R, C),
           Tame(t.frame) => Tame(f), NEW r, r = WithFrame(t, f)
    PROVE  /\ Terminal(r, R, C) /\ r.line = t.line
           /\ ~Discloses(t) => ~Discloses(r)
<1>1. /\ Terminal(r, R, C) /\ r.line = t.line /\ r.echo = t.echo /\ r.frame = f
  BY DEF Terminal, WithFrame, Fits
<1>. QED
  BY <1>1, Zenon DEF Discloses

\* Enter begins a line; a login program turns its echo on or off.
LEMMA EnteredFits ==
    ASSUME NEW R \in Nat, NEW C \in Nat, NEW t, Terminal(t, R, C), NEW prompt \in Glyphs,
           NEW r, r = Entered(t, prompt)
    PROVE  /\ Terminal(r, R, C) /\ r.line = t.line + 1
           /\ (bound.program = "login" /\ ~Discloses(t) /\ prompt \notin {Secret, Linked}) =>
                  ~Discloses(r)
<1>1. Fits(t.frame, R, C) /\ t.echo \in BOOLEAN /\ t.line \in Nat /\ t.output \in Nat
  BY TerminalType
<1>. DEFINE f == NextLine(t.frame)
            silent == bound.program = "login" /\ t.line % 2 = 0
            g == IF silent THEN Prompted(f, prompt) ELSE f
            e == ~silent
<1>2. Fits(f, R, C) /\ (Tame(t.frame) => Tame(f))
  <2>1. f = NextLine(t.frame)
    OBVIOUS
  <2>. HIDE DEF f
  <2>. QED
    BY <1>1, <2>1, NextLineFits
<1>. HIDE DEF f
<1>3. Fits(g, R, C) /\ ((Tame(t.frame) /\ prompt \notin {Secret, Linked}) => Tame(g))
  <2>. DEFINE h == Prompted(f, prompt)
  <2>1. h = Prompted(f, prompt)
    OBVIOUS
  <2>. HIDE DEF h
  <2>2. Fits(h, R, C) /\ ((Tame(f) /\ prompt \notin {Secret, Linked}) => Tame(h))
    BY <1>2, <2>1, PromptedFits
  <2>3. g = h \/ g = f
    BY <2>1
  <2>. HIDE DEF g
  <2>. QED
    BY <1>2, <2>2, <2>3, Zenon
<1>4. r = [t EXCEPT !.line = t.line + 1, !.echo = e, !.frame = g]
  BY Zenon DEF Entered, f
<1>5. e \in BOOLEAN
  OBVIOUS
<1>6. bound.program = "login" => (e <=> (t.line + 1) % 2 = 0)
  BY <1>1
<1>. HIDE DEF g, e
<1>. DEFINE n == t.line + 1
<1>8. n \in Nat
  BY <1>1
<1>9. r = [t EXCEPT !.line = n, !.echo = e, !.frame = g]
  BY <1>4
<1>10. Fits(g, R, C)
  BY <1>3
<1>. HIDE DEF n
<1>11. Terminal(r, R, C) /\ r.line = n /\ r.echo = e /\ r.frame = g
  BY <1>5, <1>8, <1>9, <1>10 DEF Terminal, Fits
<1>7. Terminal(r, R, C) /\ r.line = t.line + 1 /\ r.echo = e /\ r.frame = g
  BY <1>11 DEF n
<1>. QED
  BY <1>3, <1>6, <1>7, Zenon DEF Discloses

\* A program reads a key, and shows no password it did not echo.
LEMMA KeyRead ==
    ASSUME NEW R \in Nat, NEW C \in Nat, NEW t, Terminal(t, R, C), NEW prompt \in Glyphs,
           NEW key \in Keys, NEW r, r = ReadKey(t, key, prompt)
    PROVE  /\ Terminal(r, R, C)
           /\ key # "Enter" => r.line = t.line
           /\ key = "Enter" => r.line = t.line + 1
           /\ (bound.program = "login" /\ ~Discloses(t) /\ prompt \notin {Secret, Linked}
               /\ (key = Secret => ~t.echo)) => ~Discloses(r)
<1>1. Fits(t.frame, R, C) /\ t.echo \in BOOLEAN /\ t.line \in Nat /\ t.output \in Nat
  BY TerminalType
<1>. DEFINE f == t.frame
<1>2. /\ f.rows = R /\ f.cols = C /\ f.row \in 0..(R - 1) /\ f.col \in 0..(C - 1)
      /\ R # 0 /\ C # 0 /\ Columns(f) = 0..(C - 1) /\ RowNumbers(f) = 0..(R - 1)
      /\ \A i \in 0..(R - 1), k \in 0..(C - 1) : f.cell[i][k] \in Glyphs
  <2>. HIDE DEF f
  <2>1. Fits(f, R, C)
    BY <1>1 DEF f
  <2>. QED
    BY <2>1, FrameType
<1>. DEFINE isEnter == key = "Enter"
            prints == key \in Letters /\ t.echo
            erases == key = "Backspace" /\ t.echo
            left == key = "Left" /\ t.echo /\ f.col > 0
            right == key = "Right" /\ t.echo /\ f.col < f.cols - 1
<1>3. r = CASE isEnter -> Entered(t, prompt)
            [] prints -> [t EXCEPT !.frame = Echoed(f, key)]
            [] erases -> [t EXCEPT !.frame = Erased(f)]
            [] left -> [t EXCEPT !.frame.col = @ - 1]
            [] right -> [t EXCEPT !.frame.col = @ + 1]
            [] OTHER -> t
  BY Zenon DEF ReadKey
<1>4. /\ isEnter => ~prints /\ ~erases /\ ~left /\ ~right
      /\ prints => ~erases /\ ~left /\ ~right
      /\ erases => ~left /\ ~right
      /\ left => ~right
  BY PredictorAssumption DEF Controls, Unprinted
<1>. HIDE DEF isEnter, prints, erases, left, right
<1>5. CASE isEnter
  <2>1. r = Entered(t, prompt)
    BY <1>3, <1>4, <1>5
  <2>. QED
    BY <1>5, <2>1, EnteredFits DEF isEnter
<1>6. CASE prints
  <2>1. r = WithFrame(t, Echoed(f, key))
    BY <1>3, <1>4, <1>6 DEF WithFrame
  <2>2. key \in Glyphs /\ key # Linked /\ key # "Enter" /\ t.echo
    BY <1>6, PredictorAssumption DEF prints, Glyphs, Controls
  <2>. DEFINE g == Echoed(f, key)
  <2>3. g = Echoed(f, key) /\ r = WithFrame(t, g) /\ Fits(f, R, C)
    BY <1>1, <2>1
  <2>. HIDE DEF g, f
  <2>4. Fits(g, R, C) /\ ((Tame(f) /\ key \notin {Secret, Linked}) => Tame(g))
    BY <2>2, <2>3, EchoedFits
  <2>5. CASE Tame(t.frame) => Tame(g)
    <3>1. /\ Terminal(r, R, C) /\ r.line = t.line
          /\ ~Discloses(t) => ~Discloses(r)
      BY <2>3, <2>4, <2>5, FrameSet
    <3>. QED
      BY <2>2, <3>1
  <2>6. CASE ~(Tame(t.frame) => Tame(g))
    <3>1. Terminal(r, R, C) /\ r.line = t.line
      BY <2>3, <2>4 DEF Terminal, WithFrame, Fits
    <3>2. key = Secret
      BY <2>2, <2>4, <2>6 DEF f
    <3>. QED
      BY <2>2, <3>1, <3>2
  <2>. QED
    BY <2>5, <2>6
<1>7. CASE erases
  <2>1. r = WithFrame(t, Erased(f))
    BY <1>3, <1>4, <1>7 DEF WithFrame
  <2>. DEFINE g == Erased(f)
  <2>2. g = Erased(f) /\ r = WithFrame(t, g) /\ Fits(f, R, C) /\ key # "Enter"
    BY <1>1, <1>7, <2>1 DEF erases
  <2>. HIDE DEF g, f
  <2>3. Fits(g, R, C) /\ (Tame(f) => Tame(g))
    BY <2>2, ErasedFits
  <2>4. /\ Terminal(r, R, C) /\ r.line = t.line
        /\ ~Discloses(t) => ~Discloses(r)
    BY <2>2, <2>3, FrameSet DEF f
  <2>. QED
    BY <2>2, <2>4
<1>8. ASSUME NEW col \in 0..(C - 1), r = WithFrame(t, [f EXCEPT !.col = col]), key # "Enter"
      PROVE  /\ Terminal(r, R, C) /\ r.line = t.line
             /\ ~Discloses(t) => ~Discloses(r)
  <2>. DEFINE g == FrameAt(f, f.row, col, f.cell)
  <2>1. g = FrameAt(f, f.row, col, f.cell) /\ Fits(f, R, C) /\ InFrame(f.row, col, R, C)
    BY <1>1, <1>2 DEF InFrame
  <2>2. r = WithFrame(t, g)
    BY <1>8, <2>1 DEF FrameAt, Fits, Frames
  <2>. DEFINE row == f.row
  <2>3. g = FrameAt(f, row, col, f.cell) /\ InFrame(row, col, R, C)
    BY <2>1
  <2>. HIDE DEF g, f, row
  <2>4. Fits(g, R, C) /\ (Tame(f) => Tame(g)) /\ g.row = row /\ g.col = col
    BY <2>1, <2>3, CursorPut
  <2>. QED
    BY <2>2, <2>4, FrameSet DEF f
<1>9. CASE left
  <2>1. r = [t EXCEPT !.frame.col = @ - 1]
    BY <1>3, <1>4, <1>9
  <2>2. key # "Enter" /\ f.col > 0
    BY <1>9 DEF left
  <2>. DEFINE col == f.col - 1
  <2>3. col \in 0..(C - 1)
    BY <1>2, <2>2
  <2>4. r = WithFrame(t, [f EXCEPT !.col = col])
    BY <2>1, Zenon DEF WithFrame
  <2>. HIDE DEF col, f
  <2>. QED
    BY <1>8, <2>2, <2>3, <2>4
<1>10. CASE right
  <2>1. r = [t EXCEPT !.frame.col = @ + 1]
    BY <1>3, <1>4, <1>10
  <2>2. key # "Enter" /\ f.col < f.cols - 1
    BY <1>10 DEF right
  <2>. DEFINE col == f.col + 1
  <2>3. col \in 0..(C - 1)
    BY <1>2, <2>2
  <2>4. r = WithFrame(t, [f EXCEPT !.col = col])
    BY <2>1, Zenon DEF WithFrame
  <2>. HIDE DEF col, f
  <2>. QED
    BY <1>8, <2>2, <2>3, <2>4
<1>11. CASE ~isEnter /\ ~prints /\ ~erases /\ ~left /\ ~right
  <2>1. r = t
    BY <1>3, <1>11
  <2>. QED
    BY <1>11, <2>1 DEF isEnter
<1>. QED
  BY <1>5, <1>6, <1>7, <1>9, <1>10, <1>11

-----------------------------------------------------------------------------
(* A program reads a message.                                              *)

OneLine(keys) == IsEnter(keys) \/ "Enter" \notin Range(keys)
Lines(keys) == IF IsEnter(keys) THEN 1 ELSE 0
Confides(keys) == Secret \in Range(keys)
Secretly(t, keys) == Confides(keys) => t.line % 2 = 1

\* A program reads a message, and shows no password typed where its echo is off.
LEMMA MessageRead ==
    ASSUME NEW R \in Nat, NEW C \in Nat, NEW t, Terminal(t, R, C), NEW prompt \in Glyphs,
           NEW keys, IsMessage(keys), NEW r, r = ReadKeys(t, keys, prompt)
    PROVE  /\ Terminal(r, R, C)
           /\ OneLine(keys) => r.line = t.line + Lines(keys)
           /\ (/\ bound.program = "login" /\ prompt \notin {Secret, Linked} /\ OneLine(keys)
               /\ Secretly(t, keys) /\ ~Discloses(t)) => ~Discloses(r)
<1>. DEFINE n == Len(keys)
<1>1. n \in Nat /\ DOMAIN keys = 1..n /\ \A i \in 1..n : keys[i] \in Keys
  BY DEF IsMessage
<1>2. PICK f : /\ ReadKeys(t, keys, prompt) = f[n] /\ f[0] = t
               /\ \A i \in 0..(n - 1) : f[i + 1] = ReadKey(f[i], keys[i + 1], prompt)
  <2>1. Len(keys) \in Nat
    BY <1>1
  <2>2. PICK f : Reads(t, keys, prompt, f)
    BY <2>1, ReadsSome
  <2>. QED
    BY <2>2, Zenon DEF Reads
<1>3. IsEnter(keys) => n = 1 /\ keys[1] = "Enter" /\ ~Confides(keys)
  BY DEF IsEnter, Confides, Secret, Range
<1>4. \A i \in 1..n : ("Enter" \notin Range(keys) => keys[i] # "Enter")
                      /\ (keys[i] = Secret => Confides(keys))
  BY <1>1, Zenon DEF Range, Confides
<1>5. t.line \in Nat
  BY TerminalType
<1>. DEFINE clean == bound.program = "login" /\ prompt \notin {Secret, Linked}
                     /\ OneLine(keys) /\ Secretly(t, keys) /\ ~Discloses(t)
            Good(i) == /\ Terminal(f[i], R, C)
                       /\ "Enter" \notin Range(keys) =>
                              f[i].line = t.line /\ (clean => ~Discloses(f[i]))
            A == {i \in Nat : i <= n => Good(i)}
<1>. HIDE DEF n
<1>6. ASSUME NEW i \in 0..(n - 1), Terminal(f[i], R, C)
      PROVE  /\ Terminal(f[i + 1], R, C)
             /\ f[i + 1].line = f[i].line + (IF keys[i + 1] = "Enter" THEN 1 ELSE 0)
             /\ (clean /\ f[i].line = t.line /\ ~Discloses(f[i])) => ~Discloses(f[i + 1])
  <2>. DEFINE q == f[i]
              w == f[i + 1]
              key == keys[i + 1]
  <2>1. i + 1 \in 1..n
    BY <1>1
  <2>2. key \in Keys /\ w = ReadKey(q, key, prompt) /\ Terminal(q, R, C)
    BY <1>1, <1>2, <1>6, <2>1
  <2>3. key = Secret => Confides(keys)
    BY <1>4, <2>1
  <2>4. (clean /\ key = Secret /\ q.line = t.line /\ ~Discloses(q)) => ~q.echo
    <3>. SUFFICES ASSUME clean, key = Secret, q.line = t.line, ~Discloses(q) PROVE ~q.echo
      OBVIOUS
    <3>1. t.line % 2 = 1
      BY <2>3 DEF Secretly
    <3>2. q.echo <=> t.line % 2 = 0
      BY Zenon DEF Discloses
    <3>. QED
      BY <3>1, <3>2
  <2>6. clean => bound.program = "login" /\ prompt \notin {Secret, Linked}
    OBVIOUS
  <2>. HIDE DEF q, w, key, clean
  <2>7. /\ Terminal(w, R, C)
        /\ key # "Enter" => w.line = q.line
        /\ key = "Enter" => w.line = q.line + 1
        /\ (bound.program = "login" /\ ~Discloses(q) /\ prompt \notin {Secret, Linked}
            /\ (key = Secret => ~q.echo)) => ~Discloses(w)
    BY <2>2, KeyRead
  <2>8. q.line \in Nat
    BY <2>2, TerminalType
  <2>9. w.line = q.line + (IF key = "Enter" THEN 1 ELSE 0)
    BY <2>7, <2>8
  <2>10. (clean /\ q.line = t.line /\ ~Discloses(q)) => ~Discloses(w)
    BY <2>4, <2>6, <2>7, Zenon
  <2>. QED
    BY <2>7, <2>9, <2>10 DEF q, w, key
<1>. HIDE DEF clean
<1>7. Good(0)
  BY <1>2 DEF clean
<1>8. 0 \in A
  <2>. HIDE DEF Good
  <2>. QED
    BY <1>7
<1>9. ASSUME NEW i \in Nat, i \in A PROVE i + 1 \in A
  <2>. SUFFICES ASSUME i + 1 <= n PROVE Good(i + 1)
    BY DEF A
  <2>1. i \in 0..(n - 1) /\ i <= n /\ i + 1 \in 1..n
    BY <1>1
  <2>2. Good(i)
    <3>. HIDE DEF Good
    <3>. QED
      BY <1>9, <2>1
  <2>3. /\ Terminal(f[i + 1], R, C)
        /\ f[i + 1].line = f[i].line + (IF keys[i + 1] = "Enter" THEN 1 ELSE 0)
        /\ (clean /\ f[i].line = t.line /\ ~Discloses(f[i])) => ~Discloses(f[i + 1])
    BY <1>6, <2>1, <2>2
  <2>4. ASSUME "Enter" \notin Range(keys)
        PROVE  f[i + 1].line = t.line /\ (clean => ~Discloses(f[i + 1]))
    <3>1. keys[i + 1] # "Enter"
      BY <1>4, <2>1, <2>4
    <3>2. f[i].line = t.line /\ (clean => ~Discloses(f[i]))
      BY <2>2, <2>4
    <3>. QED
      BY <1>5, <2>3, <3>1, <3>2
  <2>. QED
    BY <2>3, <2>4
<1>. HIDE DEF A
<1>10. n \in A
  <2>1. \A i \in Nat : i \in A => i + 1 \in A
    BY <1>9
  <2>. QED
    BY <1>1, <1>8, <2>1, SetInduction
<1>11. Good(n) /\ r = f[n]
  <2>. HIDE DEF Good
  <2>1. n <= n
    BY <1>1
  <2>. QED
    BY <1>2, <1>10, <2>1 DEF A, n
<1>12. CASE "Enter" \notin Range(keys)
  <2>1. ~IsEnter(keys)
    BY <1>1, <1>3, <1>4, <1>12 DEF n
  <2>2. r.line = t.line + Lines(keys)
    BY <1>5, <1>11, <1>12, <2>1 DEF Lines
  <2>. QED
    BY <1>11, <1>12, <2>2, Zenon DEF clean
<1>13. CASE IsEnter(keys)
  <2>1. n = 1 /\ keys[1] = "Enter" /\ f[0] = t /\ r = f[1]
    BY <1>2, <1>3, <1>11, <1>13 DEF n
  <2>2. 0 \in 0..(n - 1) /\ 0 + 1 = 1
    BY <2>1
  <2>3. /\ Terminal(f[1], R, C)
        /\ f[1].line = f[0].line + (IF keys[1] = "Enter" THEN 1 ELSE 0)
        /\ (clean /\ f[0].line = t.line /\ ~Discloses(f[0])) => ~Discloses(f[1])
    BY <1>6, <1>7, <2>2
  <2>4. r.line = t.line + Lines(keys)
    BY <1>13, <2>1, <2>3 DEF Lines
  <2>5. clean => ~Discloses(r)
    <3>1. clean => ~Discloses(t)
      BY Zenon DEF clean
    <3>. QED
      BY <2>1, <2>3, <3>1
  <2>. QED
    BY <1>11, <2>4, <2>5, Zenon DEF clean
<1>14. ~OneLine(keys) \/ "Enter" \notin Range(keys) \/ IsEnter(keys)
  BY DEF OneLine
<1>. QED
  BY <1>11, <1>12, <1>13, <1>14, Zenon

-----------------------------------------------------------------------------
(* The client's other steps.                                               *)

\* set_send_interval matters to no guess.
LEMMA IntervalFitted ==
    ASSUME NEW R, NEW C, NEW s, NEW m, Dims(R, C, s, m), NEW p, Fitted(p, R, C, s, m),
           NEW a \in Nat, NEW q, q = [p EXCEPT !.interval = a]
    PROVE  /\ Fitted(q, R, C, s, m) /\ q.sent = p.sent /\ q.late = p.late
           /\ q.pref = p.pref /\ q.overwrite = p.overwrite
           /\ \A odd : Hide(p, odd) => Hide(q, odd)
<1>. R \in Nat /\ C \in Nat /\ s \in Nat /\ m \in Nat
  BY DEF Dims
<1>1. p \in PredOf(R, C) /\ Sound(p, R, C, s, m)
  BY DEF Fitted, Sound, Core
<1>2. /\ q \in PredOf(R, C) /\ q.sent = p.sent /\ q.late = p.late /\ q.epoch = p.epoch
      /\ q.size = p.size /\ q.pref = p.pref /\ q.overwrite = p.overwrite
      /\ q.overlays = p.overlays /\ q.cursors = p.cursors /\ q.confirmed = p.confirmed
  BY <1>1 DEF PredOf
<1>3. Unique(q) /\ Clean(q)
  BY <1>1, <1>2, SameOverlays DEF Sound, Core
<1>4. Dated(q, s, m)
  <2>1. Dated(p, s, m)
    BY <1>1 DEF Sound, Core
  <2>2. \A i, k : Live(q, i, k) =>
           /\ s < Cell(q, i, k).exp /\ Cell(q, i, k).exp <= m
           /\ Cell(q, i, k).exp <= q.sent + 1 /\ Cell(q, i, k).epoch <= q.epoch
           /\ Cell(q, i, k).unknown => Cell(q, i, k).text = Blank
    <3>. TAKE i, k
    <3>. HAVE Live(q, i, k)
    <3>1. Live(p, i, k) /\ Cell(q, i, k) = Cell(p, i, k)
      BY <1>2, Zenon DEF Live, Cell
    <3>2. /\ s < Cell(p, i, k).exp /\ Cell(p, i, k).exp <= m
          /\ Cell(p, i, k).exp <= p.sent + 1 /\ Cell(p, i, k).epoch <= p.epoch
          /\ Cell(p, i, k).unknown => Cell(p, i, k).text = Blank
      BY <2>1, <3>1, Zenon DEF Dated
    <3>. QED
      BY <1>2, <3>1, <3>2, Zenon
  <2>3. \A j \in DOMAIN q.cursors : /\ s < q.cursors[j].exp /\ q.cursors[j].exp <= q.sent + 1
                                   /\ q.cursors[j].epoch <= q.epoch
    BY <1>2, <2>1, Zenon DEF Dated
  <2>4. q.confirmed <= q.epoch
    BY <1>2, <2>1, Zenon DEF Dated
  <2>. QED
    BY <2>2, <2>3, <2>4, Zenon DEF Dated
<1>5. Ordered(q)
  BY <1>1, <1>2, Zenon DEF Sound, Core, Ordered, Live, Cell
<1>6. Led(q)
  BY <1>1, <1>2, Zenon DEF Sound, Led, Live, Cell, Row
<1>7. Judged(q)
  BY <1>1, <1>2, Zenon DEF Sound, Judged, Live, Cell
<1>8. Fitted(q, R, C, s, m)
  <2>1. q.pref = "Never" => Emptied(q, R, C)
    BY <1>2, Zenon DEF Fitted, Emptied
  <2>. QED
    BY <1>2, <1>3, <1>4, <1>5, <1>6, <1>7, <2>1, Zenon DEF Fitted, Sound, Core
<1>9. \A odd : Hide(p, odd) => Hide(q, odd)
  <2>1. Alike(p, q)
    BY <1>2, Zenon DEF Alike
  <2>. QED
    BY <2>1, AlikeHide, Zenon
<1>. QED
  BY <1>2, <1>8, <1>9

\* A reset: whatever is guessed from now on comes from a later message.
LEMMA ResetFitted ==
    ASSUME NEW R, NEW C, NEW s, NEW m, Dims(R, C, s, m), NEW p, Fitted(p, R, C, s, m),
           NEW u, NEW n, Dims(R, C, u, n), NEW q, q = reset(p)
    PROVE  /\ Fitted(q, R, C, u, n) /\ Emptied(q, R, C) /\ Kept(p, q)
           /\ \A odd : Hide(q, odd)
<1>1. p \in PredOf(R, C) /\ p.confirmed <= p.epoch
  BY Zenon DEF Fitted, Sound, Core, Dated
<1>2. Emptied(q, R, C) /\ Kept(p, q) /\ q.epoch = p.epoch + 1 /\ q.confirmed = p.confirmed
  BY <1>1, ResetOutcome
<1>3. /\ Sound(q, R, C, u, n) /\ Emptied(q, R, C)
      /\ \A odd : Hide(q, odd) /\ Hidden(q, odd)
  BY <1>2, EmptySound
<1>. QED
  BY <1>2, <1>3, Zenon DEF Fitted, Kept

\* A predictor that must not predict is empty whatever messages there are.
LEMMA NeverFitted ==
    ASSUME NEW R, NEW C, NEW s, NEW m, Dims(R, C, s, m), NEW p, Fitted(p, R, C, s, m),
           p.pref = "Never", NEW u, NEW n, Dims(R, C, u, n)
    PROVE  Fitted(p, R, C, u, n) /\ \A odd : Hide(p, odd)
<1>1. Emptied(p, R, C)
  BY DEF Fitted
<1>2. /\ Sound(p, R, C, u, n) /\ Emptied(p, R, C)
      /\ \A odd : Hide(p, odd) /\ Hidden(p, odd)
  BY <1>1, EmptySound
<1>. QED
  BY <1>2, Zenon DEF Fitted

IsScreen(sc, fb, a) == sc.frame = fb /\ sc.ack = a

\* A shared screen of another context.
LEMMA ContextApplied ==
    ASSUME NEW Q, NEW D, NEW R, NEW C, NEW s, NEW m, Dims(Q, D, s, m),
           NEW p, Fitted(p, Q, D, s, m), NEW u, NEW n, Dims(R, C, u, n),
           NEW fb, Fits(fb, R, C), now \in Nat, NEW a \in Nat, NEW allowed,
           NEW sc, IsScreen(sc, fb, a),
           NEW r, r = apply_screen(Contextual(p, allowed), sc)
    PROVE  /\ Fitted(r, R, C, u, n) /\ r.late = a /\ r.sent = p.sent /\ r.interval = p.interval
           /\ ~allowed => r.pref = "Never"
           /\ Tame(fb) => \A odd : Hide(r, odd)
<1>. R \in Nat /\ C \in Nat /\ Q \in Nat /\ D \in Nat
  BY DEF Dims
<1>. DEFINE w == reset(p)
            pref == IF bound.pref = "Never" \/ ~allowed THEN "Never" ELSE "Adaptive"
            q == [w EXCEPT !.pref = pref]
            x == [q EXCEPT !.late = a]
<1>1. p \in PredOf(Q, D) /\ p.confirmed <= p.epoch
  BY Zenon DEF Fitted, Sound, Core, Dated
<1>2. Emptied(w, Q, D) /\ Kept(p, w) /\ w.epoch = p.epoch + 1 /\ w.confirmed = p.confirmed
  <2>1. w = reset(p)
    OBVIOUS
  <2>. HIDE DEF w
  <2>. QED
    BY <1>1, <2>1, ResetOutcome
<1>3. r = cull(x, fb, now)
  BY DEF apply_screen, Contextual, IsScreen
<1>. HIDE DEF w
<1>4. pref \in {"Never", "Adaptive"} /\ (~allowed => pref = "Never")
  OBVIOUS
<1>. HIDE DEF pref
<1>5. Emptied(x, Q, D) /\ x.late = a /\ x.sent = w.sent /\ x.pref = pref
      /\ x.interval = w.interval
  BY <1>2, <1>4 DEF Emptied, PredOf, Prefs
<1>. HIDE DEF x
<1>6. Fitted(r, R, C, u, n) /\ Settings(x, r) /\ Veiled(r, fb)
  BY <1>3, <1>5, CullEmpty
<1>. QED
  BY <1>2, <1>4, <1>5, <1>6, Zenon DEF Settings, Veiled, Kept
-----------------------------------------------------------------------------
(* The messages the program has not read, and the lines they are part of.  *)

Numbered(f, q, n, last) ==
    /\ f \in [0..Len(q) -> Nat] /\ f[0] = n /\ f[Len(q)] = last
    /\ \A i \in 1..Len(q) : /\ f[i] = f[i - 1] + Lines(q[i])
                            /\ Confides(q[i]) => f[i - 1] % 2 = 1

\* A password is typed on a line that will be read with the echo off.
InTurn(q, n, last) == \E f : Numbered(f, q, n, last)

\* A message is typed after those that wait, on the line that is typed.
LEMMA InTurnAppend ==
    ASSUME NEW S, NEW q \in Seq(S), NEW x \in S, NEW n, NEW last, InTurn(q, n, last),
           Confides(x) => last % 2 = 1, NEW r, r = Append(q, x)
    PROVE  InTurn(r, n, last + Lines(x))
<1>1. PICK f : Numbered(f, q, n, last)
  BY DEF InTurn
<1>. DEFINE k == Len(q)
            e == last + Lines(x)
            g == [i \in 0..(k + 1) |-> IF i = k + 1 THEN e ELSE f[i]]
<1>2. /\ k \in Nat /\ Len(r) = k + 1 /\ r[k + 1] = x /\ \A i \in 1..k : r[i] = q[i]
  OBVIOUS
<1>3. last \in Nat /\ Lines(x) \in Nat /\ e \in Nat
  BY <1>1, <1>2 DEF Numbered, Lines
<1>4. g \in [0..(k + 1) -> Nat] /\ g[0] = n /\ g[k + 1] = e
  <2>. HIDE DEF e
  <2>. QED
    BY <1>1, <1>2, <1>3 DEF Numbered
<1>5. ASSUME NEW i \in 1..(k + 1)
      PROVE  /\ g[i] = g[i - 1] + Lines(r[i])
             /\ Confides(r[i]) => g[i - 1] % 2 = 1
  <2>1. CASE i = k + 1
    <3>1. g[i] = e /\ g[i - 1] = last /\ r[i] = x
      BY <1>1, <1>2, <2>1 DEF Numbered
    <3>. QED
      BY <3>1
  <2>2. CASE i # k + 1
    <3>1. g[i] = f[i] /\ g[i - 1] = f[i - 1] /\ r[i] = q[i] /\ i \in 1..k
      BY <1>2, <2>2
    <3>2. f[i] = f[i - 1] + Lines(q[i]) /\ (Confides(q[i]) => f[i - 1] % 2 = 1)
      BY <1>1, <3>1, Zenon DEF Numbered
    <3>. QED
      BY <3>1, <3>2
  <2>. QED
    BY <2>1, <2>2
<1>. HIDE DEF g, e
<1>6. Numbered(g, r, n, e)
  BY <1>2, <1>4, <1>5 DEF Numbered
<1>. QED
  BY <1>6 DEF InTurn, e

\* The oldest message is read.
LEMMA InTurnTail ==
    ASSUME NEW S, NEW q \in Seq(S), q # <<>>, NEW n, NEW last, InTurn(q, n, last),
           NEW r, r = Tail(q)
    PROVE  InTurn(r, n + Lines(Head(q)), last) /\ (Confides(Head(q)) => n % 2 = 1)
<1>1. PICK f : Numbered(f, q, n, last)
  BY DEF InTurn
<1>7. \A h \in 1..Len(q) : /\ f[h] = f[h - 1] + Lines(q[h])
                           /\ Confides(q[h]) => f[h - 1] % 2 = 1
  BY <1>1, Zenon DEF Numbered
<1>. DEFINE k == Len(q) - 1
            g == [i \in 0..k |-> f[i + 1]]
<1>2. /\ k \in Nat /\ Len(q) = k + 1 /\ Len(r) = k /\ \A i \in 1..k : r[i] = q[i + 1]
      /\ Head(q) = q[1] /\ 1 \in 1..Len(q) /\ 1 - 1 = 0
  OBVIOUS
<1>. HIDE DEF k
<1>3. f[1] = n + Lines(Head(q)) /\ (Confides(Head(q)) => n % 2 = 1)
  <2>1. f[1] = f[1 - 1] + Lines(q[1]) /\ (Confides(q[1]) => f[1 - 1] % 2 = 1)
    BY <1>1, <1>2, Zenon DEF Numbered
  <2>. QED
    BY <1>1, <1>2, <2>1 DEF Numbered
<1>4. g \in [0..k -> Nat] /\ g[0] = f[1] /\ g[k] = last
  BY <1>1, <1>2 DEF Numbered
<1>5. ASSUME NEW i \in 1..k
      PROVE  /\ g[i] = g[i - 1] + Lines(r[i])
             /\ Confides(r[i]) => g[i - 1] % 2 = 1
  <2>1. g[i] = f[i + 1] /\ g[i - 1] = f[i] /\ r[i] = q[i + 1]
        /\ i + 1 \in 1..Len(q) /\ i + 1 - 1 = i
    BY <1>2
  <2>2. f[i + 1] = f[i] + Lines(q[i + 1]) /\ (Confides(q[i + 1]) => f[i] % 2 = 1)
    <3>. DEFINE j == i + 1
    <3>1. j \in 1..Len(q)
      BY <1>2
    <3>3. j - 1 = i
      OBVIOUS
    <3>. HIDE DEF j, g
    <3>2. f[j] = f[j - 1] + Lines(q[j]) /\ (Confides(q[j]) => f[j - 1] % 2 = 1)
      BY <1>7, <3>1
    <3>. QED
      BY <3>2, <3>3, Zenon DEF j
  <2>. QED
    BY <2>1, <2>2
<1>. HIDE DEF g
<1>6. Numbered(g, r, f[1], last)
  BY <1>2, <1>4, <1>5 DEF Numbered
<1>. QED
  BY <1>3, <1>6 DEF InTurn

-----------------------------------------------------------------------------
(* The inductive invariant.                                                *)

Rows == confirmed.frame.rows
Cols == confirmed.frame.cols
TermRows == term.frame.rows
TermCols == term.frame.cols

\* Whether the line that is typed is a password.
OnPassword == LineTyped % 2 = 1

Typed ==
    /\ bound \in Bounds /\ now \in Nat /\ seq \in Nat /\ since \in Nat /\ checkpoint \in Nat
    /\ shared \in [epoch : Int, allowed : BOOLEAN] /\ unread \in Seq(bound.messages)
    /\ Rows \in Nat /\ Cols \in Nat /\ TermRows \in Nat /\ TermCols \in Nat

Acknowledged ==
    /\ pr.late = confirmed.ack /\ confirmed.ack \in Nat /\ confirmed.ack <= checkpoint
    /\ checkpoint <= seq /\ since <= seq /\ pr.sent <= seq

Drawn == Fits(confirmed.frame, Rows, Cols) /\ Terminal(term, TermRows, TermCols)

Guessed ==
    /\ Fitted(pr, Rows, Cols, since, seq)
    /\ ~shared.allowed => pr.pref = "Never"

Hushed ==
    /\ Hide(pr, OnPassword) /\ Tame(confirmed.frame) /\ ~Discloses(term)
    /\ InTurn(unread, term.line, LineTyped)

IInv ==
    /\ Typed /\ Acknowledged /\ Drawn /\ Guessed
    /\ Unmistakable(bound) => Hushed

\* What every bound in Bounds says of the program and the user.
LEMMA Environment ==
    ASSUME NEW b, b \in Bounds
    PROVE  /\ b.program \in Programs /\ IsFrame(b.frame) /\ b.prompts \subseteq Glyphs
           /\ b.messages \subseteq Seq(Keys) /\ b.time \in Nat /\ b.intervals \subseteq Nat
           /\ b.pref \in Prefs /\ b.overwrite \in BOOLEAN
           /\ b.contexts \subseteq [epoch : Nat, allowed : BOOLEAN]
           /\ b.program = "login" => EndsLines(b.messages)
BY PredictionAssumption, Zenon DEF Prefs

\* What a login at which nothing looks like the password is.
LEMMA LoginLooks ==
    ASSUME Unmistakable(bound)
    PROVE  /\ bound.program = "login" /\ Tame(bound.frame)
           /\ \A prompt \in bound.prompts : prompt \notin {Secret, Linked}
BY Zenon DEF Unmistakable, Tame

\* A message to a login program is Enter, or is part of one line.
LEMMA LoginMessages ==
    ASSUME bound \in Bounds, bound.program = "login", NEW keys \in bound.messages
    PROVE  OneLine(keys) /\ IsMessage(keys)
<1>1. bound.messages \subseteq Seq(Keys) /\ EndsLines(bound.messages)
  BY Environment
<1>. QED
  BY <1>1, Zenon DEF EndsLines, OneLine, IsEnter, IsMessage

\* Nothing waits at first.
LEMMA InTurnEmpty ==
    ASSUME NEW n \in Nat
    PROVE  InTurn(<<>>, n, n)
<1>. DEFINE f == [i \in 0..0 |-> n]
<1>1. f \in [0..0 -> Nat] /\ f[0] = n
  OBVIOUS
<1>2. Len(<<>>) = 0 /\ 1..0 = {}
  OBVIOUS
<1>. HIDE DEF f
<1>3. Numbered(f, <<>>, n, n)
  BY <1>1, <1>2 DEF Numbered
<1>. QED
  BY <1>3 DEF InTurn

\* The invariant holds at first.
LEMMA InitInvariant ==
    ASSUME Init
    PROVE  IInv
<1>1. /\ bound.program \in Programs /\ IsFrame(bound.frame)
      /\ bound.pref \in Prefs /\ bound.overwrite \in BOOLEAN
  <2>1. bound \in Bounds
    BY DEF Init
  <2>. QED
    BY <2>1, Environment
<1>. DEFINE p == NewPredictor(bound.pref, bound.overwrite)
            fb == bound.frame
            R == fb.rows
            C == fb.cols
<1>2. R \in Nat /\ C \in Nat /\ Fits(fb, R, C) /\ Dims(R, C, 0, 0)
  BY <1>1 DEF IsFrame, Fits, Dims
<1>3. confirmed.frame = fb /\ term.frame = fb /\ confirmed.ack = 0
  BY DEF Init
<1>4. Emptied(p, 0, 0) /\ p.late = 0 /\ p.sent = 0
  BY <1>1 DEF NewPredictor, Emptied, PredOf
<1>5. pr = cull(p, fb, 0)
  BY DEF Init
<1>. HIDE DEF p, fb, R, C
<1>6. Fitted(pr, R, C, 0, 0) /\ Settings(p, pr) /\ Veiled(pr, fb)
  BY <1>2, <1>4, <1>5, CullEmpty
<1>7. Rows = R /\ Cols = C /\ TermRows = R /\ TermCols = C
  BY <1>3 DEF Rows, Cols, TermRows, TermCols, R, C
<1>8. Len(Retain(unread, {<<"Enter">>})) = 0 /\ unread \in Seq(bound.messages)
  <2>1. unread = <<>> /\ <<>> \in Seq(bound.messages) /\ \A i \in DOMAIN unread : unread[i] \in {<<"Enter">>}
    BY DEF Init
  <2>2. Retain(unread, {<<"Enter">>}) = unread
    BY <2>1, RetainAll
  <2>. QED
    BY <2>1, <2>2
<1>9. LineTyped = 0
  BY <1>8 DEF Init, LineTyped
<1>10. Typed
  BY <1>2, <1>7, <1>8 DEF Init, Typed, NoContext
<1>11. Acknowledged
  BY <1>3, <1>4, <1>6 DEF Init, Acknowledged, Settings
<1>12. Drawn
  <2>1. Terminal(term, R, C)
    BY <1>2, <1>3 DEF Init, Terminal, Fits
  <2>. QED
    BY <1>2, <1>3, <1>7, <2>1, Zenon DEF Drawn
<1>13. Guessed
  BY <1>6, <1>7 DEF Init, Guessed, NoContext
<1>14. ASSUME Unmistakable(bound) PROVE Hushed
  <2>1. Tame(fb)
    BY <1>14, LoginLooks, Zenon DEF fb
  <2>2. Hide(pr, OnPassword)
    BY <1>6, <2>1, Zenon DEF Veiled
  <2>3. ~Discloses(term)
    BY <1>3, <2>1 DEF Init, Discloses
  <2>4. InTurn(unread, term.line, LineTyped)
    <3>1. unread = <<>> /\ term.line = 0
      BY DEF Init
    <3>. QED
      BY <1>9, <3>1, InTurnEmpty
  <2>. QED
    BY <1>3, <2>1, <2>2, <2>3, <2>4, Zenon DEF Hushed
<1>. QED
  BY <1>10, <1>11, <1>12, <1>13, <1>14, Zenon DEF IInv

-----------------------------------------------------------------------------
(* A message is typed.                                                     *)

\* The line that is typed has a number.
LEMMA LineTypedType ==
    ASSUME Typed, NEW q, q = term.line, q \in Nat
    PROVE  LineTyped \in Nat
<1>1. unread \in Seq(bound.messages)
  BY DEF Typed
<1>2. Retain(unread, {<<"Enter">>}) \in
          Seq({x \in bound.messages \cap {<<"Enter">>} : \E i \in DOMAIN unread : x = unread[i]})
  BY <1>1, RetainType
<1>3. Len(Retain(unread, {<<"Enter">>})) \in Nat
  BY <1>2
<1>. QED
  BY <1>3 DEF LineTyped

\* The display, on which what is typed is guessed.
LEMMA DisplayFits ==
    ASSUME IInv
    PROVE  /\ Fits(Display, Rows, Cols) /\ Dims(Rows, Cols, since, seq)
           /\ Unmistakable(bound) => Tame(Display)
<1>1. Dims(Rows, Cols, since, seq)
  BY DEF IInv, Typed, Dims
<1>2. Sound(pr, Rows, Cols, since, seq) /\ Fits(confirmed.frame, Rows, Cols)
  BY DEF IInv, Guessed, Fitted, Drawn
<1>. DEFINE d == Display
<1>3. d = apply(pr, confirmed.frame)
  BY DEF Display
<1>. HIDE DEF d
<1>4. Fits(d, Rows, Cols) /\ (Tame(confirmed.frame) /\ Masked(pr) => Tame(d))
  BY <1>1, <1>2, <1>3, Applied
<1>5. Unmistakable(bound) => Tame(confirmed.frame) /\ Masked(pr)
  BY Zenon DEF IInv, Hushed, Hide
<1>. QED
  BY <1>1, <1>4, <1>5, Zenon DEF d

\* What a user of a login program types is in keeping with the line.
LEMMA SensibleKeys ==
    ASSUME bound \in Bounds, bound.program = "login", NEW keys \in bound.messages, Sensible(keys)
    PROVE  /\ Confides(keys) => OnPassword
           /\ ~IsEnter(keys) => Allowed(keys, OnPassword)
<1>1. OneLine(keys) /\ IsMessage(keys)
  BY LoginMessages
<1>2. \/ IsEnter(keys)
      \/ OnPassword /\ Range(keys) \subseteq {Secret} \cup Unprinted
      \/ LineTyped % 2 = 0 /\ ~Confides(keys)
  BY Zenon DEF Sensible, IsEnter, OnPassword, Confides
<1>3. LineTyped % 2 = 0 => ~OnPassword
  BY DEF OnPassword
<1>4. OnPassword \in BOOLEAN
  BY DEF OnPassword
<1>5. ASSUME IsEnter(keys) PROVE ~Confides(keys)
  BY <1>5 DEF IsEnter, Confides, Secret, Range
<1>6. ASSUME ~IsEnter(keys), NEW i \in DOMAIN keys PROVE KeyAllowed(keys[i], OnPassword)
  <2>1. keys[i] \in Range(keys)
    BY <1>6, Zenon DEF Range
  <2>2. keys[i] # "Enter"
    BY <1>1, <1>6, <2>1, Zenon DEF OneLine
  <2>3. OnPassword => keys[i] \in {Secret} \cup Unprinted
    BY <1>2, <1>3, <1>6, <2>1, Zenon
  <2>4. ~OnPassword => keys[i] # Secret
    BY <1>2, <1>6, <2>1, Zenon DEF Confides
  <2>. QED
    BY <2>2, <2>3, <2>4, Zenon DEF KeyAllowed
<1>. QED
  BY <1>2, <1>5, <1>6, Zenon DEF Allowed

\* The message joins those the program has not read.
LEMMA MessageJoins ==
    ASSUME IInv, NEW keys \in bound.messages, Sensible(keys),
           unread' = Append(unread, keys), UNCHANGED <<term, bound>>
    PROVE  /\ unread' \in Seq(bound.messages) /\ LineTyped' = LineTyped + Lines(keys)
           /\ Unmistakable(bound) => InTurn(unread', term.line, LineTyped')
<1>1. unread \in Seq(bound.messages) /\ bound \in Bounds
  BY DEF IInv, Typed
<1>2. Len(Retain(Append(unread, keys), {<<"Enter">>}))
          = Len(Retain(unread, {<<"Enter">>})) + (IF keys \in {<<"Enter">>} THEN 1 ELSE 0)
      /\ Len(Retain(unread, {<<"Enter">>})) \in Nat
  BY <1>1, RetainAppend
<1>3. (IF keys \in {<<"Enter">>} THEN 1 ELSE 0) = Lines(keys)
  BY DEF Lines, IsEnter
<1>4. term.line \in Nat
  BY TerminalType DEF IInv, Drawn
<1>5. Lines(keys) \in Nat
  BY DEF Lines
<1>6. LineTyped' = LineTyped + Lines(keys)
  <2>. DEFINE n == Len(Retain(unread, {<<"Enter">>}))
              n2 == Len(Retain(unread', {<<"Enter">>}))
  <2>1. n2 = n + Lines(keys) /\ n \in Nat
    BY <1>2, <1>3
  <2>2. LineTyped = term.line + n /\ LineTyped' = term.line + n2
    BY DEF LineTyped
  <2>. HIDE DEF n, n2
  <2>. QED
    BY <1>4, <1>5, <2>1, <2>2
<1>7. ASSUME Unmistakable(bound) PROVE InTurn(unread', term.line, LineTyped')
  <2>1. InTurn(unread, term.line, LineTyped)
    BY <1>7 DEF IInv, Hushed
  <2>2. Confides(keys) => LineTyped % 2 = 1
    BY <1>1, <1>7, LoginLooks, SensibleKeys, Zenon DEF OnPassword
  <2>. DEFINE last == LineTyped
              r == unread'
              n == term.line
  <2>3. /\ InTurn(unread, n, last) /\ (Confides(keys) => last % 2 = 1)
        /\ r = Append(unread, keys) /\ LineTyped' = last + Lines(keys)
    BY <1>6, <2>1, <2>2
  <2>. HIDE DEF last, r, n
  <2>4. InTurn(r, n, last + Lines(keys))
    BY <1>1, <2>3, InTurnAppend
  <2>. QED
    BY <2>3, <2>4 DEF r, n
<1>. QED
  BY <1>1, <1>6, <1>7

\* Typing a message, which is guessed about on the display.
LEMMA TypeInvariant ==
    ASSUME IInv, NEW keys \in bound.messages, Type(keys)
    PROVE  IInv' /\ pr'.interval = pr.interval
<1>1. /\ seq' = seq + 1 /\ unread' = Append(unread, keys) /\ Sensible(keys)
      /\ pr' = IF shared.allowed THEN feed_predict(pr, seq + 1, keys, Display) ELSE pr
      /\ confirmed' = confirmed /\ shared' = shared /\ term' = term /\ checkpoint' = checkpoint
      /\ now' = now /\ since' = since /\ bound' = bound
  BY DEF Type
<1>2. Typed /\ Acknowledged /\ Drawn /\ Guessed /\ (Unmistakable(bound) => Hushed)
  BY Zenon DEF IInv
<1>3. /\ Fits(Display, Rows, Cols) /\ Dims(Rows, Cols, since, seq)
      /\ Unmistakable(bound) => Tame(Display)
  BY DisplayFits
<1>4. /\ unread' \in Seq(bound.messages) /\ LineTyped' = LineTyped + Lines(keys)
      /\ Unmistakable(bound) => InTurn(unread', term.line, LineTyped')
  BY <1>1, MessageJoins
<1>5. Rows' = Rows /\ Cols' = Cols /\ TermRows' = TermRows /\ TermCols' = TermCols
  BY <1>1 DEF Rows, Cols, TermRows, TermCols
<1>6. OnPassword \in BOOLEAN /\ OnPassword' \in BOOLEAN
  BY DEF OnPassword
<1>7. /\ Fitted(pr', Rows, Cols, since, seq + 1) /\ pr'.late = pr.late /\ pr'.sent <= seq + 1
      /\ pr'.pref = pr.pref /\ pr'.interval = pr.interval
      /\ Unmistakable(bound) => Hide(pr', OnPassword')
  <2>1. CASE ~shared.allowed
    <3>1. pr' = pr /\ pr.pref = "Never" /\ Fitted(pr, Rows, Cols, since, seq)
      BY <1>1, <1>2, <2>1 DEF Guessed
    <3>2. Dims(Rows, Cols, since, seq + 1)
      BY <1>3 DEF Dims
    <3>. DEFINE m == seq + 1
    <3>3. Dims(Rows, Cols, since, m)
      BY <3>2
    <3>. HIDE DEF m
    <3>4. Fitted(pr, Rows, Cols, since, m) /\ \A odd : Hide(pr, odd)
      BY <1>3, <3>1, <3>3, NeverFitted
    <3>5. pr.sent \in Nat
      BY <1>3, <3>1, PredType DEF Fitted, Sound, Core, Dims
    <3>6. pr.sent <= seq + 1
      BY <1>2, <3>5 DEF Acknowledged, Typed
    <3>. QED
      BY <3>1, <3>4, <3>6, Zenon DEF m
  <2>2. CASE shared.allowed
    <3>. DEFINE fb == Display
                r == pr'
    <3>1. /\ Fits(fb, Rows, Cols) /\ r = feed_predict(pr, seq + 1, keys, fb)
          /\ Fitted(pr, Rows, Cols, since, seq)
      BY <1>1, <1>2, <1>3, <2>2 DEF Guessed
    <3>2. pr.sent <= seq /\ pr.late <= seq /\ since <= seq /\ now \in Nat /\ seq \in Nat
      BY <1>2 DEF Acknowledged, Typed
    <3>3. IsMessage(keys)
      BY <1>2, Environment, Zenon DEF Typed, IsMessage
    <3>. HIDE DEF fb, r
    <3>4. /\ Fitted(r, Rows, Cols, since, seq + 1) /\ r.sent = seq /\ r.late = pr.late
          /\ r.pref = pr.pref /\ r.overwrite = pr.overwrite /\ r.interval = pr.interval
          /\ \A odd \in BOOLEAN :
                 (Hide(pr, odd) /\ Tame(fb) /\ Allowed(keys, odd)) => Hide(r, odd)
          /\ \A odd \in BOOLEAN : (IsEnter(keys) /\ Hide(pr, odd) /\ Tame(fb)) =>
                 \A e \in BOOLEAN : Hide(r, e)
      BY <1>3, <3>1, <3>2, <3>3, MessageFed
    <3>5. ASSUME Unmistakable(bound) PROVE Hide(r, OnPassword')
      <4>1. Hide(pr, OnPassword) /\ Tame(fb)
        BY <1>2, <1>3, <3>5, Zenon DEF Hushed, fb
      <4>2. CASE IsEnter(keys)
        BY <1>6, <3>4, <4>1, <4>2, Zenon
      <4>3. CASE ~IsEnter(keys)
        <5>1. Allowed(keys, OnPassword)
          BY <1>1, <1>2, <3>5, <4>3, LoginLooks, SensibleKeys, Zenon DEF Typed
        <5>2. OnPassword' = OnPassword
          <6>1. term.line \in Nat
            BY <1>2, TerminalType DEF Drawn
          <6>2. LineTyped \in Nat
            BY <1>2, <6>1, LineTypedType
          <6>3. LineTyped' = LineTyped
            BY <1>4, <4>3, <6>2 DEF Lines
          <6>. QED
            BY <6>3 DEF OnPassword
        <5>. QED
          BY <1>6, <3>4, <4>1, <5>1, <5>2, Zenon
      <4>. QED
        BY <4>2, <4>3
    <3>6. r.sent <= seq + 1
      BY <3>2, <3>4
    <3>. QED
      BY <3>4, <3>5, <3>6, Zenon DEF r
  <2>. QED
    BY <2>1, <2>2
<1>8. Typed'
  BY <1>1, <1>2, <1>4, <1>5 DEF Typed
<1>9. Acknowledged'
  BY <1>1, <1>2, <1>7 DEF Acknowledged, Typed
<1>10. Drawn'
  BY <1>1, <1>2, <1>5 DEF Drawn
<1>11. Guessed'
  BY <1>1, <1>2, <1>5, <1>7 DEF Guessed
<1>12. ASSUME Unmistakable(bound) PROVE Hushed'
  BY <1>1, <1>2, <1>4, <1>7, <1>12 DEF Hushed
<1>. QED
  BY <1>1, <1>7, <1>8, <1>9, <1>10, <1>11, <1>12 DEF IInv

-----------------------------------------------------------------------------
(* A reset, with a message or without.                                     *)

\* A paste resets the predictor, and its message is not guessed about.
LEMMA PasteInvariant ==
    ASSUME IInv, NEW keys \in bound.messages, Paste(keys)
    PROVE  IInv' /\ pr'.interval = pr.interval
<1>1. /\ seq' = seq + 1 /\ unread' = Append(unread, keys) /\ Sensible(keys)
      /\ pr' = IF shared.allowed THEN reset(pr) ELSE pr
      /\ since' = IF shared.allowed THEN seq ELSE since
      /\ confirmed' = confirmed /\ shared' = shared /\ term' = term /\ checkpoint' = checkpoint
      /\ now' = now /\ bound' = bound
  BY DEF Paste
<1>2. Typed /\ Acknowledged /\ Drawn /\ Guessed /\ (Unmistakable(bound) => Hushed)
  BY Zenon DEF IInv
<1>3. Dims(Rows, Cols, since, seq) /\ seq \in Nat /\ since \in Nat
  BY <1>2 DEF Typed, Dims
<1>4. /\ unread' \in Seq(bound.messages) /\ LineTyped' = LineTyped + Lines(keys)
      /\ Unmistakable(bound) => InTurn(unread', term.line, LineTyped')
  BY <1>1, MessageJoins
<1>5. Rows' = Rows /\ Cols' = Cols /\ TermRows' = TermRows /\ TermCols' = TermCols
  BY <1>1 DEF Rows, Cols, TermRows, TermCols
<1>. DEFINE m == seq + 1
            u == since'
<1>6. u \in Nat /\ u <= seq
  BY <1>1, <1>2, <1>3 DEF Acknowledged
<1>7. Dims(Rows, Cols, u, m)
  BY <1>3, <1>6 DEF Dims
<1>8. Fitted(pr, Rows, Cols, since, seq)
  BY <1>2 DEF Guessed
<1>. HIDE DEF m, u
<1>9. /\ Fitted(pr', Rows, Cols, u, m) /\ pr'.late = pr.late /\ pr'.sent = pr.sent
      /\ pr'.pref = pr.pref /\ pr'.interval = pr.interval
      /\ \A odd : Hide(pr', odd)
  <2>1. CASE ~shared.allowed
    <3>1. pr' = pr /\ pr.pref = "Never"
      BY <1>1, <1>2, <2>1 DEF Guessed
    <3>2. Fitted(pr, Rows, Cols, u, m) /\ \A odd : Hide(pr, odd)
      BY <1>3, <1>7, <1>8, <3>1, NeverFitted
    <3>. QED
      BY <3>1, <3>2, Zenon
  <2>2. CASE shared.allowed
    <3>. DEFINE q == pr'
    <3>1. q = reset(pr)
      BY <1>1, <2>2
    <3>. HIDE DEF q
    <3>2. /\ Fitted(q, Rows, Cols, u, m) /\ Emptied(q, Rows, Cols) /\ Kept(pr, q)
          /\ \A odd : Hide(q, odd)
      BY <1>3, <1>7, <1>8, <3>1, ResetFitted
    <3>. QED
      BY <3>2, Zenon DEF Kept, q
  <2>. QED
    BY <2>1, <2>2
<1>10. pr.sent \in Nat
  BY <1>3, <1>8, PredType DEF Fitted, Sound, Core, Dims
<1>11. Typed'
  BY <1>1, <1>2, <1>4, <1>5, <1>6 DEF Typed, u
<1>12. Acknowledged'
  BY <1>1, <1>2, <1>6, <1>9, <1>10 DEF Acknowledged, Typed, u
<1>13. Drawn'
  BY <1>1, <1>2, <1>5 DEF Drawn
<1>14. Guessed'
  BY <1>1, <1>2, <1>5, <1>9 DEF Guessed, m, u
<1>15. ASSUME Unmistakable(bound) PROVE Hushed'
  BY <1>1, <1>2, <1>4, <1>9, <1>15 DEF Hushed
<1>. QED
  BY <1>1, <1>9, <1>11, <1>12, <1>13, <1>14, <1>15 DEF IInv

\* A lost transport resets the predictor.
LEMMA TransportLossInvariant ==
    ASSUME IInv, TransportLoss
    PROVE  IInv' /\ pr'.interval = pr.interval
<1>1. /\ pr' = reset(pr) /\ since' = seq /\ seq' = seq /\ unread' = unread
      /\ confirmed' = confirmed /\ shared' = shared /\ term' = term /\ checkpoint' = checkpoint
      /\ now' = now /\ bound' = bound
  BY DEF TransportLoss
<1>2. Typed /\ Acknowledged /\ Drawn /\ Guessed /\ (Unmistakable(bound) => Hushed)
  BY Zenon DEF IInv
<1>3. Dims(Rows, Cols, since, seq) /\ Dims(Rows, Cols, seq, seq) /\ seq \in Nat
  BY <1>2 DEF Typed, Dims
<1>5. /\ Rows' = Rows /\ Cols' = Cols /\ TermRows' = TermRows /\ TermCols' = TermCols
      /\ LineTyped' = LineTyped
  BY <1>1 DEF Rows, Cols, TermRows, TermCols, LineTyped
<1>. DEFINE q == pr'
<1>6. q = reset(pr) /\ Fitted(pr, Rows, Cols, since, seq)
  BY <1>1, <1>2 DEF Guessed
<1>. HIDE DEF q
<1>7. /\ Fitted(q, Rows, Cols, seq, seq) /\ Emptied(q, Rows, Cols) /\ Kept(pr, q)
      /\ \A odd : Hide(q, odd)
  BY <1>3, <1>6, ResetFitted
<1>8. /\ Fitted(pr', Rows, Cols, seq, seq) /\ pr'.late = pr.late /\ pr'.sent = pr.sent
      /\ pr'.pref = pr.pref /\ pr'.interval = pr.interval
      /\ \A odd : Hide(pr', odd)
  BY <1>7, Zenon DEF Kept, q
<1>11. Typed'
  BY <1>1, <1>2, <1>5 DEF Typed
<1>12. Acknowledged'
  BY <1>1, <1>2, <1>8 DEF Acknowledged, Typed
<1>13. Drawn'
  BY <1>1, <1>2, <1>5 DEF Drawn
<1>14. Guessed'
  BY <1>1, <1>2, <1>5, <1>8 DEF Guessed
<1>15. ASSUME Unmistakable(bound) PROVE Hushed'
  BY <1>1, <1>2, <1>5, <1>8, <1>15 DEF Hushed
<1>. QED
  BY <1>1, <1>8, <1>11, <1>12, <1>13, <1>14, <1>15 DEF IInv
-----------------------------------------------------------------------------
(* Screens, the clock and pongs.                                           *)

\* The screen of a program's terminal is applied.
LEMMA ScreenShown ==
    ASSUME IInv, NEW r, r = apply_screen(pr, Screen)
    PROVE  /\ Fitted(r, TermRows, TermCols, since, seq) /\ r.late = checkpoint
           /\ r.sent = pr.sent /\ r.pref = pr.pref /\ r.interval = pr.interval
           /\ Unmistakable(bound) => Hide(r, OnPassword)
<1>1. Typed /\ Acknowledged /\ Drawn /\ Guessed /\ (Unmistakable(bound) => Hushed)
  BY Zenon DEF IInv
<1>2. Dims(Rows, Cols, since, seq) /\ Dims(TermRows, TermCols, since, seq)
  BY <1>1 DEF Typed, Dims
<1>3. Fitted(pr, Rows, Cols, since, seq) /\ now \in Nat /\ checkpoint \in Nat
  BY <1>1 DEF Guessed, Typed
<1>. DEFINE fb == term.frame
            q == [pr EXCEPT !.late = checkpoint]
<1>4. Fits(fb, TermRows, TermCols)
  BY <1>1, TerminalType DEF Drawn
<1>5. q = [pr EXCEPT !.late = checkpoint] /\ r = cull(q, fb, now)
  BY DEF apply_screen, Screen
<1>. HIDE DEF fb, q
<1>6. /\ Fitted(r, TermRows, TermCols, since, seq) /\ Settings(q, r) /\ q.late = checkpoint
      /\ q.sent = pr.sent /\ q.pref = pr.pref /\ q.overwrite = pr.overwrite
      /\ q.interval = pr.interval
      /\ \A odd : (Tame(fb) /\ Hide(pr, odd)) => Hide(r, odd)
  BY <1>2, <1>3, <1>4, <1>5, ScreenApplied
<1>7. Unmistakable(bound) => Tame(fb) /\ Hide(pr, OnPassword)
  BY <1>1, Zenon DEF Hushed, Discloses, fb
<1>. QED
  BY <1>6, <1>7, Zenon DEF Settings

\* What the next state has in common: the terminal becomes the confirmed frame.
LEMMA ScreenInvariant ==
    ASSUME IInv, confirmed' = Screen, UNCHANGED <<seq, term, unread, checkpoint, now, bound>>,
           shared' \in [epoch : Int, allowed : BOOLEAN], since' \in Nat, since' <= seq,
           Fitted(pr', TermRows, TermCols, since', seq), pr'.late = checkpoint,
           pr'.sent = pr.sent, ~shared'.allowed => pr'.pref = "Never",
           Unmistakable(bound) => Hide(pr', OnPassword)
    PROVE  IInv'
<1>1. /\ seq' = seq /\ term' = term /\ unread' = unread /\ checkpoint' = checkpoint
      /\ now' = now /\ bound' = bound /\ confirmed'.frame = term.frame
      /\ confirmed'.ack = checkpoint
  BY DEF Screen
<1>2. Typed /\ Acknowledged /\ Drawn /\ Guessed /\ (Unmistakable(bound) => Hushed)
  BY Zenon DEF IInv
<1>3. /\ Rows' = TermRows /\ Cols' = TermCols /\ TermRows' = TermRows /\ TermCols' = TermCols
      /\ LineTyped' = LineTyped /\ OnPassword' = OnPassword
  BY <1>1 DEF Rows, Cols, TermRows, TermCols, LineTyped, OnPassword
<1>4. Typed'
  BY <1>1, <1>2, <1>3 DEF Typed
<1>5. Acknowledged'
  BY <1>1, <1>2 DEF Acknowledged, Typed
<1>6. Fits(term.frame, TermRows, TermCols)
  BY <1>2, TerminalType DEF Drawn
<1>7. Drawn'
  BY <1>1, <1>2, <1>3, <1>6 DEF Drawn
<1>8. Guessed'
  BY <1>1, <1>3 DEF Guessed
<1>9. ASSUME Unmistakable(bound) PROVE Hushed'
  <2>1. Tame(term.frame)
    BY <1>2, <1>9, Zenon DEF Hushed, Discloses
  <2>. QED
    BY <1>1, <1>2, <1>3, <1>9, <2>1 DEF Hushed
<1>. QED
  BY <1>1, <1>4, <1>5, <1>7, <1>8, <1>9 DEF IInv

\* A screen judges the guesses by its echo checkpoint.
LEMMA ReceiveScreenInvariant ==
    ASSUME IInv, ReceiveScreen
    PROVE  IInv' /\ pr'.interval = pr.interval
<1>1. /\ confirmed' = Screen /\ pr' = apply_screen(pr, Screen) /\ shared' = shared
      /\ since' = since /\ UNCHANGED <<seq, term, unread, checkpoint, now, bound>>
  BY DEF ReceiveScreen
<1>. DEFINE r == pr'
<1>2. r = apply_screen(pr, Screen)
  BY <1>1
<1>. HIDE DEF r
<1>3. /\ Fitted(r, TermRows, TermCols, since, seq) /\ r.late = checkpoint
      /\ r.sent = pr.sent /\ r.pref = pr.pref /\ r.interval = pr.interval
      /\ Unmistakable(bound) => Hide(r, OnPassword)
  BY <1>2, ScreenShown
<1>4. /\ shared \in [epoch : Int, allowed : BOOLEAN] /\ since \in Nat /\ since <= seq
      /\ ~shared.allowed => pr.pref = "Never"
  BY DEF IInv, Typed, Acknowledged, Guessed
<1>. QED
  BY <1>1, <1>3, <1>4, ScreenInvariant DEF r

\* A screen of a shared session: a new context resets, and may forbid guesses.
LEMMA ReceiveSharedScreenInvariant ==
    ASSUME IInv, NEW context \in bound.contexts, ReceiveSharedScreen(context)
    PROVE  IInv' /\ pr'.interval = pr.interval
<1>1. /\ confirmed' = Screen /\ shared' = context
      /\ pr' = apply_screen(IF context = shared THEN pr
                            ELSE Contextual(pr, context.allowed), Screen)
      /\ since' = IF context = shared THEN since ELSE seq
      /\ UNCHANGED <<seq, term, unread, checkpoint, now, bound>>
  BY DEF ReceiveSharedScreen
<1>2. Typed /\ Acknowledged /\ Drawn /\ Guessed /\ (Unmistakable(bound) => Hushed)
  BY Zenon DEF IInv
<1>3. context \in [epoch : Nat, allowed : BOOLEAN]
  BY <1>2, Environment DEF Typed
<1>. DEFINE r == pr'
<1>4. CASE context = shared
  <2>1. r = apply_screen(pr, Screen) /\ since' = since
    BY <1>1, <1>4
  <2>. HIDE DEF r
  <2>2. /\ Fitted(r, TermRows, TermCols, since, seq) /\ r.late = checkpoint
        /\ r.sent = pr.sent /\ r.pref = pr.pref /\ r.interval = pr.interval
        /\ Unmistakable(bound) => Hide(r, OnPassword)
    BY <2>1, ScreenShown
  <2>3. /\ since \in Nat /\ since <= seq
        /\ ~shared.allowed => pr.pref = "Never"
    BY <1>2 DEF Typed, Acknowledged, Guessed
  <2>. QED
    BY <1>1, <1>3, <1>4, <2>1, <2>2, <2>3, ScreenInvariant DEF r
<1>5. CASE context # shared
  <2>. DEFINE allowed == context.allowed
              sc == Screen
              fb == term.frame
  <2>1. r = apply_screen(Contextual(pr, allowed), sc) /\ since' = seq /\ sc.frame = fb
        /\ sc.ack = checkpoint
    BY <1>1, <1>5 DEF Screen
  <2>2. Dims(Rows, Cols, since, seq) /\ Dims(TermRows, TermCols, seq, seq)
    BY <1>2 DEF Typed, Dims
  <2>3. /\ Fitted(pr, Rows, Cols, since, seq) /\ now \in Nat /\ checkpoint \in Nat
        /\ seq \in Nat /\ seq <= seq
    BY <1>2 DEF Guessed, Typed
  <2>4. Fits(fb, TermRows, TermCols)
    BY <1>2, TerminalType DEF Drawn
  <2>. HIDE DEF r, allowed, sc, fb
  <2>5. /\ Fitted(r, TermRows, TermCols, seq, seq) /\ r.late = checkpoint /\ r.sent = pr.sent /\ r.interval = pr.interval
        /\ ~allowed => r.pref = "Never"
        /\ Tame(fb) => \A odd : Hide(r, odd)
    <3>1. IsScreen(sc, fb, checkpoint) /\ r = apply_screen(Contextual(pr, allowed), sc)
      BY <2>1 DEF IsScreen
    <3>. QED
      BY <2>2, <2>3, <2>4, <3>1, ContextApplied
  <2>6. Unmistakable(bound) => Hide(r, OnPassword)
    BY <1>2, <2>5, Zenon DEF Hushed, Discloses, fb
  <2>. QED
    BY <1>1, <1>3, <2>1, <2>3, <2>5, <2>6, ScreenInvariant DEF r, allowed
<1>. QED
  BY <1>4, <1>5

\* Time passes, and cull runs on the confirmed frame.
LEMMA TickInvariant ==
    ASSUME IInv, Tick
    PROVE  IInv'
<1>1. /\ now' = now + 1 /\ pr' = IF active(pr) THEN cull(pr, confirmed.frame, now + 1) ELSE pr
      /\ seq' = seq /\ confirmed' = confirmed /\ shared' = shared /\ term' = term
      /\ unread' = unread /\ checkpoint' = checkpoint /\ since' = since /\ bound' = bound
  BY DEF Tick
<1>2. Typed /\ Acknowledged /\ Drawn /\ Guessed /\ (Unmistakable(bound) => Hushed)
  BY Zenon DEF IInv
<1>3. Dims(Rows, Cols, since, seq)
  BY <1>2 DEF Typed, Dims
<1>4. /\ Rows' = Rows /\ Cols' = Cols /\ TermRows' = TermRows /\ TermCols' = TermCols
      /\ LineTyped' = LineTyped /\ OnPassword' = OnPassword
  BY <1>1 DEF Rows, Cols, TermRows, TermCols, LineTyped, OnPassword
<1>5. Fitted(pr, Rows, Cols, since, seq) /\ Fits(confirmed.frame, Rows, Cols)
  BY <1>2 DEF Guessed, Drawn
<1>6. /\ Fitted(pr', Rows, Cols, since, seq) /\ pr'.late = pr.late /\ pr'.sent = pr.sent
      /\ pr'.pref = pr.pref
      /\ Unmistakable(bound) => Hide(pr', OnPassword)
  <2>1. CASE ~active(pr)
    <3>1. pr' = pr
      BY <1>1, <2>1
    <3>. QED
      BY <1>2, <1>5, <3>1 DEF Hushed
  <2>2. CASE active(pr)
    <3>. DEFINE r == pr'
                fb == confirmed.frame
                t == now + 1
                a == pr.late
    <3>1. r = cull(pr, fb, t) /\ t \in Nat /\ Fits(fb, Rows, Cols)
      BY <1>1, <1>2, <1>5, <2>2 DEF Typed
    <3>2. pr = [pr EXCEPT !.late = a] /\ a \in Nat
      BY <1>5 DEF Fitted, Sound, Core, PredOf
    <3>. HIDE DEF r, fb, t, a
    <3>3. /\ Fitted(r, Rows, Cols, since, seq) /\ Settings(pr, r) /\ pr.late = a
          /\ pr.sent = pr.sent /\ pr.pref = pr.pref /\ pr.overwrite = pr.overwrite
          /\ pr.interval = pr.interval
          /\ \A odd : (Tame(fb) /\ Hide(pr, odd)) => Hide(r, odd)
      BY <1>3, <1>5, <3>1, <3>2, ScreenApplied
    <3>4. Unmistakable(bound) => Hide(r, OnPassword)
      BY <1>2, <3>3, Zenon DEF Hushed, fb
    <3>. QED
      BY <3>3, <3>4, Zenon DEF Settings, r
  <2>. QED
    BY <2>1, <2>2
<1>7. Typed'
  BY <1>1, <1>2, <1>4 DEF Typed
<1>8. Acknowledged'
  BY <1>1, <1>2, <1>6 DEF Acknowledged
<1>9. Drawn'
  BY <1>1, <1>2, <1>4 DEF Drawn
<1>10. Guessed'
  BY <1>1, <1>2, <1>4, <1>6 DEF Guessed
<1>11. ASSUME Unmistakable(bound) PROVE Hushed'
  BY <1>1, <1>2, <1>4, <1>6, <1>11 DEF Hushed
<1>. QED
  BY <1>1, <1>7, <1>8, <1>9, <1>10, <1>11 DEF IInv

\* A pong sets the send interval.
LEMMA PongInvariant ==
    ASSUME IInv, Pong
    PROVE  IInv'
<1>1. PICK i \in bound.intervals : pr' = [pr EXCEPT !.interval = i]
  BY DEF Pong
<1>2. /\ now' = now /\ seq' = seq /\ confirmed' = confirmed /\ shared' = shared /\ term' = term
      /\ unread' = unread /\ checkpoint' = checkpoint /\ since' = since /\ bound' = bound
  BY DEF Pong
<1>3. Typed /\ Acknowledged /\ Drawn /\ Guessed /\ (Unmistakable(bound) => Hushed)
  BY Zenon DEF IInv
<1>4. Dims(Rows, Cols, since, seq) /\ i \in Nat
  BY <1>3, Environment DEF Typed, Dims
<1>5. /\ Rows' = Rows /\ Cols' = Cols /\ TermRows' = TermRows /\ TermCols' = TermCols
      /\ LineTyped' = LineTyped /\ OnPassword' = OnPassword
  BY <1>2 DEF Rows, Cols, TermRows, TermCols, LineTyped, OnPassword
<1>. DEFINE q == pr'
<1>6. q = [pr EXCEPT !.interval = i] /\ Fitted(pr, Rows, Cols, since, seq)
  BY <1>1, <1>3 DEF Guessed
<1>. HIDE DEF q
<1>7. /\ Fitted(q, Rows, Cols, since, seq) /\ q.sent = pr.sent /\ q.late = pr.late
      /\ q.pref = pr.pref /\ q.overwrite = pr.overwrite
      /\ \A odd : Hide(pr, odd) => Hide(q, odd)
  BY <1>4, <1>6, IntervalFitted
<1>8. /\ Fitted(pr', Rows, Cols, since, seq) /\ pr'.sent = pr.sent /\ pr'.late = pr.late
      /\ pr'.pref = pr.pref
      /\ Unmistakable(bound) => Hide(pr', OnPassword)
  BY <1>3, <1>7, Zenon DEF Hushed, q
<1>9. Typed'
  BY <1>2, <1>3, <1>5 DEF Typed
<1>10. Acknowledged'
  BY <1>2, <1>3, <1>8 DEF Acknowledged
<1>11. Drawn'
  BY <1>2, <1>3, <1>5 DEF Drawn
<1>12. Guessed'
  BY <1>2, <1>3, <1>5, <1>8 DEF Guessed
<1>13. ASSUME Unmistakable(bound) PROVE Hushed'
  BY <1>2, <1>3, <1>5, <1>8, <1>13 DEF Hushed
<1>. QED
  BY <1>2, <1>9, <1>10, <1>11, <1>12, <1>13 DEF IInv
-----------------------------------------------------------------------------
(* The program, its terminal and the owner.                                *)

\* What the client has is left alone.
LEMMA TerminalInvariant ==
    ASSUME IInv,
           UNCHANGED <<pr, seq, confirmed, shared, checkpoint, now, since, bound>>,
           NEW R \in Nat, NEW C \in Nat, Terminal(term', R, C),
           unread' \in Seq(bound.messages),
           Unmistakable(bound) => /\ ~Discloses(term') /\ LineTyped' = LineTyped
                                     /\ InTurn(unread', term'.line, LineTyped)
    PROVE  IInv'
<1>1. /\ pr' = pr /\ now' = now /\ seq' = seq /\ confirmed' = confirmed /\ shared' = shared
      /\ checkpoint' = checkpoint /\ since' = since /\ bound' = bound
  OBVIOUS
<1>2. Typed /\ Acknowledged /\ Drawn /\ Guessed /\ (Unmistakable(bound) => Hushed)
  BY Zenon DEF IInv
<1>. DEFINE t == term'
<1>3. Terminal(t, R, C)
  OBVIOUS
<1>. HIDE DEF t
<1>4. Fits(t.frame, R, C)
  BY <1>3, TerminalType
<1>5. t.frame.rows = R /\ t.frame.cols = C
  BY <1>4 DEF Fits, Frames
<1>6. Rows' = Rows /\ Cols' = Cols /\ TermRows' = R /\ TermCols' = C
  BY <1>1, <1>5 DEF Rows, Cols, TermRows, TermCols, t
<1>7. Typed'
  BY <1>1, <1>2, <1>6 DEF Typed
<1>8. Acknowledged'
  BY <1>1, <1>2 DEF Acknowledged
<1>9. Drawn'
  BY <1>1, <1>2, <1>6 DEF Drawn
<1>10. Guessed'
  BY <1>1, <1>2, <1>6 DEF Guessed
<1>11. ASSUME Unmistakable(bound) PROVE Hushed'
  BY <1>1, <1>2, <1>11 DEF Hushed, OnPassword
<1>. QED
  BY <1>1, <1>7, <1>8, <1>9, <1>10, <1>11 DEF IInv

\* The program reads the oldest message.
LEMMA ReadMessageInvariant ==
    ASSUME IInv, ReadMessage
    PROVE  IInv'
<1>1. PICK prompt \in bound.prompts : term' = ReadKeys(term, Head(unread), prompt)
  BY DEF ReadMessage
<1>2. /\ unread # <<>> /\ unread' = Tail(unread)
      /\ UNCHANGED <<pr, seq, confirmed, shared, checkpoint, now, since, bound>>
  BY DEF ReadMessage
<1>3. Typed /\ Acknowledged /\ Drawn /\ Guessed /\ (Unmistakable(bound) => Hushed)
  BY Zenon DEF IInv
<1>4. /\ bound \in Bounds /\ prompt \in Glyphs /\ TermRows \in Nat /\ TermCols \in Nat
      /\ unread \in Seq(bound.messages) /\ bound.messages \subseteq Seq(Keys)
  BY <1>3, Environment DEF Typed
<1>. DEFINE keys == Head(unread)
            r == term'
<1>5. /\ unread' \in Seq(bound.messages) /\ keys \in bound.messages
      /\ r = ReadKeys(term, keys, prompt)
  BY <1>1, <1>2, <1>4
<1>6. IsMessage(keys)
  BY <1>4, <1>5 DEF IsMessage
<1>7. Len(Retain(unread, {<<"Enter">>}))
          = Len(Retain(Tail(unread), {<<"Enter">>})) + (IF keys \in {<<"Enter">>} THEN 1 ELSE 0)
      /\ Len(Retain(Tail(unread), {<<"Enter">>})) \in Nat
  BY <1>2, <1>4, RetainTail
<1>. HIDE DEF keys, r
<1>8. /\ Terminal(r, TermRows, TermCols)
      /\ OneLine(keys) => r.line = term.line + Lines(keys)
      /\ (/\ bound.program = "login" /\ prompt \notin {Secret, Linked} /\ OneLine(keys)
          /\ Secretly(term, keys) /\ ~Discloses(term)) => ~Discloses(r)
  <2>1. Terminal(term, TermRows, TermCols)
    BY <1>3 DEF Drawn
  <2>. DEFINE t == term
  <2>2. Terminal(t, TermRows, TermCols) /\ r = ReadKeys(t, keys, prompt)
    BY <1>5, <2>1
  <2>. HIDE DEF t
  <2>3. /\ Terminal(r, TermRows, TermCols)
        /\ OneLine(keys) => r.line = t.line + Lines(keys)
        /\ (/\ bound.program = "login" /\ prompt \notin {Secret, Linked} /\ OneLine(keys)
            /\ Secretly(t, keys) /\ ~Discloses(t)) => ~Discloses(r)
    <3>1. prompt \in Glyphs /\ TermRows \in Nat /\ TermCols \in Nat
      BY <1>4
    <3>. QED
      BY <1>6, <2>2, <3>1, MessageRead, SMTT(60)
  <2>. QED
    BY <2>3, Zenon DEF t
<1>9. ASSUME Unmistakable(bound)
      PROVE  /\ ~Discloses(term') /\ LineTyped' = LineTyped
             /\ InTurn(unread', term'.line, LineTyped)
  <2>1. OneLine(keys) /\ prompt \notin {Secret, Linked}
    <3>1. OneLine(keys) /\ IsMessage(keys)
      BY <1>4, <1>5, <1>9, LoginLooks, LoginMessages
    <3>. QED
      BY <1>1, <1>9, <3>1, LoginLooks, Zenon
  <2>2. InTurn(unread, term.line, LineTyped) /\ ~Discloses(term)
    BY <1>3, <1>9 DEF Hushed
  <2>. DEFINE n == term.line
              last == LineTyped
              q == unread
              w == unread'
  <2>3. /\ InTurn(q, n, last) /\ w = Tail(q) /\ q \in Seq(bound.messages) /\ q # <<>>
        /\ keys = Head(q)
    BY <1>2, <1>4, <2>2 DEF keys
  <2>. HIDE DEF n, last, q, w
  <2>4. InTurn(w, n + Lines(Head(q)), last) /\ (Confides(Head(q)) => n % 2 = 1)
    BY <2>3, InTurnTail
  <2>5. Secretly(term, keys)
    BY <2>3, <2>4, Zenon DEF Secretly, n
  <2>6. ~Discloses(r) /\ r.line = n + Lines(keys)
    BY <1>8, <1>9, <2>1, <2>2, <2>5, LoginLooks DEF n
  <2>7. LineTyped' = LineTyped
    <3>. DEFINE a == Len(Retain(unread, {<<"Enter">>}))
                b == Len(Retain(unread', {<<"Enter">>}))
    <3>1. a = b + Lines(keys) /\ b \in Nat
      BY <1>2, <1>7 DEF Lines, IsEnter
    <3>2. LineTyped = n + a /\ LineTyped' = r.line + b
      BY DEF LineTyped, n, r
    <3>3. n \in Nat /\ Lines(keys) \in Nat
      <4>1. Lines(keys) \in Nat
        BY DEF Lines
      <4>. QED
        BY <1>3, <4>1, TerminalType DEF Drawn, n
    <3>. HIDE DEF a, b
    <3>. QED
      BY <2>6, <3>1, <3>2, <3>3
  <2>8. InTurn(w, r.line, last)
    BY <2>3, <2>4, <2>6
  <2>. QED
    BY <2>6, <2>7, <2>8 DEF r, w, last
<1>10. Terminal(term', TermRows, TermCols)
  BY <1>8 DEF r
<1>. QED
  BY <1>2, <1>4, <1>5, <1>9, <1>10, TerminalInvariant

\* The program writes by itself.
LEMMA PrintOutInvariant ==
    ASSUME IInv, NEW ch \in Letters, PrintOut(ch)
    PROVE  IInv'
<1>1. PICK col \in Columns(term.frame) :
          term' = [term EXCEPT !.output = @ + 1, !.frame = Put(term.frame, col, ch)]
  BY DEF PrintOut
<1>2. /\ bound.program # "login" /\ unread' = unread
      /\ UNCHANGED <<pr, seq, confirmed, shared, checkpoint, now, since, bound>>
  BY DEF PrintOut
<1>3. Terminal(term, TermRows, TermCols)
  BY DEF IInv, Drawn
<1>4. TermRows \in Nat /\ TermCols \in Nat /\ unread \in Seq(bound.messages)
  BY DEF IInv, Typed
<1>. DEFINE f == term.frame
            g == Put(f, col, ch)
<1>5. Fits(f, TermRows, TermCols) /\ term.output \in Nat
  BY <1>3, <1>4, TerminalType
<1>6. Columns(f) = 0..(TermCols - 1)
  BY <1>5 DEF Columns, Fits, Frames
<1>7. col \in 0..(TermCols - 1) /\ ch \in Glyphs /\ g = Put(f, col, ch)
  BY <1>6 DEF Glyphs
<1>. HIDE DEF f, g
<1>8. Fits(g, TermRows, TermCols) /\ ((Tame(f) /\ ch \notin {Secret, Linked}) => Tame(g))
  BY <1>4, <1>5, <1>7, PutFits
<1>. DEFINE n == term.output + 1
<1>9. term' = [term EXCEPT !.output = n, !.frame = g] /\ n \in Nat
  BY <1>1, <1>5 DEF f, g
<1>11. Fits(g, TermRows, TermCols)
  BY <1>8
<1>. HIDE DEF n
<1>10. Terminal(term', TermRows, TermCols)
  BY <1>3, <1>9, <1>11 DEF Terminal, Fits
<1>12. ~Unmistakable(bound)
  BY <1>2, LoginLooks, Zenon
<1>. QED
  BY <1>2, <1>4, <1>10, <1>12, TerminalInvariant

\* A blank frame is a frame without passwords.
LEMMA BlankFits ==
    ASSUME NEW R \in 1..4, NEW C \in 1..4, NEW f, f = BlankFrame(R, C)
    PROVE  Fits(f, R, C) /\ Tame(f)
<1>1. /\ 0 \in 0..(R - 1) /\ 0 \in 0..(C - 1) /\ Blank \in Glyphs
      /\ Blank \notin {Secret, Linked}
  BY DEF Glyphs, Blank, Secret, Linked
<1>2. Fits(f, R, C)
  BY <1>1 DEF BlankFrame, Fits, Frames
<1>3. /\ f.rows = R /\ f.cols = C
      /\ \A r \in 0..(R - 1), k \in 0..(C - 1) : f.cell[r][k] = Blank
  BY DEF BlankFrame
<1>4. Tame(f)
  BY <1>1, <1>3 DEF Tame, RowNumbers, Columns
<1>. QED
  BY <1>2, <1>4

\* The terminal becomes a blank frame of another size.
LEMMA ResizeInvariant ==
    ASSUME IInv, NEW r \in 1..4, NEW c \in 1..4, Resize(r, c)
    PROVE  IInv'
<1>1. /\ term' = [term EXCEPT !.output = @ + 1, !.frame = BlankFrame(r, c)]
      /\ unread' = unread
      /\ UNCHANGED <<pr, seq, confirmed, shared, checkpoint, now, since, bound>>
  BY DEF Resize
<1>2. Terminal(term, TermRows, TermCols)
  BY DEF IInv, Drawn
<1>3. unread \in Seq(bound.messages) /\ r \in Nat /\ c \in Nat
  BY DEF IInv, Typed
<1>. DEFINE f == BlankFrame(r, c)
<1>4. f = BlankFrame(r, c)
  OBVIOUS
<1>. HIDE DEF f
<1>5. Fits(f, r, c) /\ Tame(f)
  BY <1>4, BlankFits
<1>6. /\ term.echo \in BOOLEAN /\ term.line \in Nat /\ term.output \in Nat
  BY <1>2, TerminalType
<1>. DEFINE n == term.output + 1
<1>7. term' = [term EXCEPT !.output = n, !.frame = f] /\ n \in Nat
  BY <1>1, <1>6 DEF f
<1>10. Fits(f, r, c)
  BY <1>5
<1>. HIDE DEF n
<1>8. /\ Terminal(term', r, c) /\ term'.frame = f /\ term'.line = term.line
      /\ term'.echo = term.echo
  BY <1>2, <1>6, <1>7, <1>10 DEF Terminal, Fits
<1>9. ASSUME Unmistakable(bound)
      PROVE  /\ ~Discloses(term') /\ LineTyped' = LineTyped
             /\ InTurn(unread', term'.line, LineTyped)
  <2>1. ~Discloses(term) /\ InTurn(unread, term.line, LineTyped)
    BY <1>9 DEF IInv, Hushed
  <2>2. ~Discloses(term')
    BY <1>5, <1>8, <2>1, Zenon DEF Discloses
  <2>3. LineTyped' = LineTyped
    BY <1>1, <1>8 DEF LineTyped
  <2>. QED
    BY <1>1, <1>8, <2>1, <2>2, <2>3
<1>. QED
  BY <1>1, <1>3, <1>8, <1>9, TerminalInvariant

\* The owner takes the messages the program has read for echoed.
LEMMA CheckpointInvariant ==
    ASSUME IInv, Checkpoint
    PROVE  IInv'
<1>1. /\ checkpoint' = checkpoint + 1
      /\ checkpoint < IF bound.program = "any" THEN seq ELSE seq - Len(unread)
      /\ pr' = pr /\ now' = now /\ seq' = seq /\ confirmed' = confirmed /\ shared' = shared
      /\ term' = term /\ unread' = unread /\ since' = since /\ bound' = bound
  BY DEF Checkpoint
<1>2. Typed /\ Acknowledged /\ Drawn /\ Guessed /\ (Unmistakable(bound) => Hushed)
  BY Zenon DEF IInv
<1>3. checkpoint' \in Nat /\ checkpoint' <= seq /\ confirmed.ack <= checkpoint'
  <2>1. Len(unread) \in Nat /\ seq \in Nat /\ checkpoint \in Nat
    BY <1>2 DEF Typed
  <2>. QED
    BY <1>1, <1>2, <2>1 DEF Acknowledged
<1>4. /\ Rows' = Rows /\ Cols' = Cols /\ TermRows' = TermRows /\ TermCols' = TermCols
      /\ LineTyped' = LineTyped /\ OnPassword' = OnPassword
  BY <1>1 DEF Rows, Cols, TermRows, TermCols, LineTyped, OnPassword
<1>5. Typed'
  BY <1>1, <1>2, <1>3, <1>4 DEF Typed
<1>6. Acknowledged'
  BY <1>1, <1>2, <1>3 DEF Acknowledged
<1>7. Drawn'
  BY <1>1, <1>2, <1>4 DEF Drawn
<1>8. Guessed'
  BY <1>1, <1>2, <1>4 DEF Guessed
<1>9. ASSUME Unmistakable(bound) PROVE Hushed'
  BY <1>1, <1>2, <1>4, <1>9 DEF Hushed
<1>. QED
  BY <1>1, <1>5, <1>6, <1>7, <1>8, <1>9 DEF IInv

\* A step that changes nothing.
LEMMA StutterInvariant ==
    ASSUME IInv, UNCHANGED vars
    PROVE  IInv'
<1>1. /\ checkpoint' = checkpoint /\ pr' = pr /\ now' = now /\ seq' = seq
      /\ confirmed' = confirmed /\ shared' = shared /\ term' = term /\ unread' = unread
      /\ since' = since /\ bound' = bound
  BY DEF vars
<1>2. Typed /\ Acknowledged /\ Drawn /\ Guessed /\ (Unmistakable(bound) => Hushed)
  BY Zenon DEF IInv
<1>3. /\ Rows' = Rows /\ Cols' = Cols /\ TermRows' = TermRows /\ TermCols' = TermCols
      /\ LineTyped' = LineTyped /\ OnPassword' = OnPassword
  BY <1>1 DEF Rows, Cols, TermRows, TermCols, LineTyped, OnPassword
<1>4. Typed' /\ Acknowledged' /\ Drawn' /\ Guessed'
  BY <1>1, <1>2, <1>3 DEF Typed, Acknowledged, Drawn, Guessed
<1>5. ASSUME Unmistakable(bound) PROVE Hushed'
  BY <1>1, <1>2, <1>3, <1>5 DEF Hushed
<1>. QED
  BY <1>1, <1>4, <1>5 DEF IInv

\* Every step keeps the invariant.
LEMMA NextInvariant ==
    ASSUME IInv, [Next]_vars
    PROVE  IInv'
<1>1. CASE Next
  <2>1. ASSUME NEW keys \in bound.messages, Type(keys) PROVE IInv'
    BY <2>1, TypeInvariant
  <2>2. ASSUME NEW keys \in bound.messages, Paste(keys) PROVE IInv'
    BY <2>2, PasteInvariant
  <2>3. ASSUME NEW context \in bound.contexts, ReceiveSharedScreen(context) PROVE IInv'
    BY <2>3, ReceiveSharedScreenInvariant
  <2>4. ASSUME NEW ch \in Letters, PrintOut(ch) PROVE IInv'
    BY <2>4, PrintOutInvariant
  <2>5. ASSUME NEW r \in 1..4, NEW c \in 1..4, Resize(r, c) PROVE IInv'
    BY <2>5, ResizeInvariant
  <2>6. CASE TransportLoss
    BY <2>6, TransportLossInvariant
  <2>7. CASE ReceiveScreen
    BY <2>7, ReceiveScreenInvariant
  <2>8. CASE Tick
    BY <2>8, TickInvariant
  <2>9. CASE Pong
    BY <2>9, PongInvariant
  <2>10. CASE ReadMessage
    BY <2>10, ReadMessageInvariant
  <2>11. CASE Checkpoint
    BY <2>11, CheckpointInvariant
  <2>. QED
    BY <1>1, <2>1, <2>2, <2>3, <2>4, <2>5, <2>6, <2>7, <2>8, <2>9, <2>10, <2>11 DEF Next
<1>2. CASE UNCHANGED vars
  BY <1>2, StutterInvariant
<1>. QED
  BY <1>1, <1>2

\* The inductive invariant: what the predictor holds is sound for the
\* confirmed frame and waits for a screen that is still to come, and in a
\* login session every password that is guessed is of an epoch that cannot
\* become confident before it is judged wrong (lib.rs cull, kill_epoch,
\* reset, become_tentative; RowCell validity).
THEOREM InductiveInvariant == Spec => []IInv
<1>1. Init => IInv
  BY InitInvariant
<1>2. IInv /\ [Next]_vars => IInv'
  BY NextInvariant
<1>. QED
  BY <1>1, <1>2, PTL DEF Spec

-----------------------------------------------------------------------------
(* The theorems.                                                           *)

\* The invariant says that no guess outlives the screen that judges it.
LEMMA JudgedLemma ==
    ASSUME IInv
    PROVE  JudgedInTime
<1>1. /\ Fitted(pr, Rows, Cols, since, seq) /\ pr.late = confirmed.ack
      /\ Rows \in Nat /\ Cols \in Nat
  BY DEF IInv, Guessed, Acknowledged, Typed
<1>2. Clean(pr) /\ Dated(pr, since, seq) /\ Judged(pr) /\ pr \in PredOf(Rows, Cols)
  BY <1>1 DEF Fitted, Sound, Core
<1>3. ASSUME NEW g \in Waiting
      PROVE  since < g.exp /\ g.exp <= seq /\ confirmed.ack < g.exp
  <2>1. PICK i \in DOMAIN pr.overlays : \E k \in DOMAIN pr.overlays[i].cells :
            g = pr.overlays[i].cells[k]
    BY <1>3, Zenon DEF Waiting
  <2>2. PICK k \in DOMAIN pr.overlays[i].cells : g = pr.overlays[i].cells[k]
    BY <2>1
  <2>3. g = Cell(pr, i, k) /\ g # Inactive
    <3>1. g \notin {Inactive}
      BY <1>3, Zenon DEF Waiting
    <3>. DEFINE none == Inactive
    <3>2. g # none
      BY <3>1
    <3>. QED
      BY <2>2, <3>2, Zenon DEF Cell
  <2>4. Live(pr, i, k)
    BY <1>2, <2>3, Zenon DEF Clean
  <2>. QED
    BY <1>1, <1>2, <2>3, <2>4, Zenon DEF Dated, Judged
<1>4. ASSUME NEW c \in Range(pr.cursors)
      PROVE  since < c.exp /\ confirmed.ack < c.exp
  <2>1. PICK j \in DOMAIN pr.cursors : c = pr.cursors[j]
    BY <1>4, Zenon DEF Range
  <2>. QED
    BY <1>1, <1>2, <2>1, Zenon DEF Dated, Judged
<1>5. \A n \in AllGuesses : confirmed.ack < n /\ since < n
  BY <1>3, <1>4, Zenon DEF AllGuesses
<1>. QED
  BY <1>3, <1>5, Zenon DEF JudgedInTime

\* The invariant says that no password is on display.
LEMMA HiddenLemma ==
    ASSUME IInv
    PROVE  UnmistakablePasswordHidden
<1>. SUFFICES ASSUME Unmistakable(bound),
                     NEW r \in RowNumbers(confirmed.frame),
                     NEW k \in Columns(confirmed.frame)
              PROVE  Display.cell[r][k] # Secret
  BY Zenon DEF UnmistakablePasswordHidden
<1>1. Fits(Display, Rows, Cols) /\ Tame(Display)
  BY DisplayFits
<1>. DEFINE d == Display
<1>2. d.rows = Rows /\ d.cols = Cols
  BY <1>1 DEF Fits, Frames
<1>. HIDE DEF d
<1>3. RowNumbers(d) = RowNumbers(confirmed.frame) /\ Columns(d) = Columns(confirmed.frame)
  BY <1>2, Zenon DEF RowNumbers, Columns, Rows, Cols
<1>. QED
  BY <1>1, <1>3, Zenon DEF Tame, d

\* Only the clock and the pongs change the time or the send interval.
LEMMA TimePasses ==
    ASSUME IInv, [Next]_vars, now' # now \/ pr'.interval # pr.interval
    PROVE  Tick \/ Pong
<1>. DEFINE still == now' = now /\ pr'.interval = pr.interval
<1>1. ~still
  OBVIOUS
<1>2. ASSUME NEW keys \in bound.messages, Type(keys) \/ Paste(keys) PROVE still
  <2>1. now' = now
    BY <1>2 DEF Type, Paste
  <2>2. CASE Type(keys)
    BY <2>1, <2>2, TypeInvariant
  <2>3. CASE Paste(keys)
    BY <2>1, <2>3, PasteInvariant
  <2>. QED
    BY <1>2, <2>2, <2>3
<1>3. ASSUME NEW context \in bound.contexts, ReceiveSharedScreen(context) PROVE still
  <2>1. now' = now
    BY <1>3 DEF ReceiveSharedScreen
  <2>. QED
    BY <1>3, <2>1, ReceiveSharedScreenInvariant
<1>4. ASSUME NEW ch \in Letters, PrintOut(ch) PROVE still
  BY <1>4 DEF PrintOut
<1>5. ASSUME NEW r \in 1..4, NEW c \in 1..4, Resize(r, c) PROVE still
  BY <1>5 DEF Resize
<1>6. CASE TransportLoss
  <2>1. now' = now
    BY <1>6 DEF TransportLoss
  <2>. QED
    BY <1>1, <1>6, <2>1, TransportLossInvariant
<1>7. CASE ReceiveScreen
  <2>1. now' = now
    BY <1>7 DEF ReceiveScreen
  <2>. QED
    BY <1>1, <1>7, <2>1, ReceiveScreenInvariant
<1>8. ReadMessage \/ Checkpoint => still
  BY DEF ReadMessage, Checkpoint
<1>9. UNCHANGED vars => still
  BY DEF vars
<1>. HIDE DEF still
<1>. QED
  BY <1>1, <1>2, <1>3, <1>4, <1>5, <1>6, <1>7, <1>8, <1>9 DEF Next

\* The same guesses are shown, and more of them at most.
LEMMA ShownStays ==
    ASSUME NEW p, NEW q, q.overlays = p.overlays, q.confirmed = p.confirmed,
           NEW r, NEW k, Shown(p, r, k)
    PROVE  Shown(q, r, k)
BY Zenon DEF Shown, Confident

\* Time takes no guess off the display.
LEMMA TickShows ==
    ASSUME IInv, Tick, Displays(pr), NEW r, NEW k, Shown(pr, r, k)
    PROVE  Displays(pr') /\ Shown(pr', r, k)
<1>1. pr' = IF active(pr) THEN cull(pr, confirmed.frame, now + 1) ELSE pr
  BY DEF Tick
<1>2. Dims(Rows, Cols, since, seq) /\ now + 1 \in Nat
  BY DEF IInv, Typed, Dims
<1>3. /\ Fitted(pr, Rows, Cols, since, seq) /\ Fits(confirmed.frame, Rows, Cols)
      /\ pr.pref # "Never"
  BY DEF IInv, Guessed, Drawn, Displays
<1>4. CASE ~active(pr)
  BY <1>1, <1>4
<1>5. CASE active(pr)
  <2>. DEFINE t == now + 1
              fb == confirmed.frame
              q == pr'
  <2>1. /\ Sound(pr, Rows, Cols, since, seq) /\ pr.size = <<Rows, Cols>> /\ t \in Nat
        /\ Fits(fb, Rows, Cols) /\ q = cull(pr, fb, t)
    BY <1>1, <1>2, <1>3, <1>5 DEF Fitted
  <2>. HIDE DEF t, fb, q
  <2>2. \E x \in BOOLEAN, g \in Nat :
            /\ cull(pr, fb, t) = Triggered(pr, x, g)
            /\ pr.glitch > 0 => g > 0
            /\ (pr.srtt /\ active(pr)) => x
    BY <1>2, <1>3, <2>1, CullQuiet
  <2>3. PICK x \in BOOLEAN, g \in Nat :
            /\ q = Triggered(pr, x, g)
            /\ pr.glitch > 0 => g > 0
            /\ (pr.srtt /\ active(pr)) => x
    BY <2>1, <2>2
  <2>4. /\ Sound(q, Rows, Cols, since, seq) /\ Kept(pr, q)
        /\ \A odd : Hide(pr, odd) => Hide(q, odd)
        /\ q.overlays = pr.overlays /\ q.cursors = pr.cursors /\ q.epoch = pr.epoch
        /\ q.confirmed = pr.confirmed /\ q.srtt = x /\ q.glitch = g
    BY <1>2, <2>1, <2>3, TriggeredSound
  <2>5. Displays(q)
    BY <1>5, <2>3, <2>4, Zenon DEF Displays, Kept
  <2>6. Shown(q, r, k)
    BY <2>4, ShownStays
  <2>. QED
    BY <2>5, <2>6, Zenon DEF q
<1>. QED
  BY <1>4, <1>5

\* A pong takes no guess off the display.
LEMMA PongShows ==
    ASSUME IInv, Pong, Displays(pr), NEW r, NEW k, Shown(pr, r, k)
    PROVE  Displays(pr') /\ Shown(pr', r, k)
<1>1. PICK i \in bound.intervals : pr' = [pr EXCEPT !.interval = i]
  BY DEF Pong
<1>2. pr \in PredOf(Rows, Cols)
  BY DEF IInv, Guessed, Fitted, Sound, Core
<1>. DEFINE q == pr'
<1>3. /\ q.overlays = pr.overlays /\ q.confirmed = pr.confirmed /\ q.pref = pr.pref
      /\ q.srtt = pr.srtt /\ q.glitch = pr.glitch
  BY <1>1, <1>2 DEF PredOf
<1>. HIDE DEF q
<1>4. Displays(q)
  BY <1>3, Zenon DEF Displays
<1>5. Shown(q, r, k)
  BY <1>3, ShownStays
<1>. QED
  BY <1>4, <1>5, Zenon DEF q

StaysShown ==
    (now' # now \/ pr'.interval # pr.interval) =>
        \A r \in RowNumbers(confirmed.frame), k \in Columns(confirmed.frame) :
            (Displays(pr) /\ Shown(pr, r, k)) => (Displays(pr)' /\ Shown(pr, r, k)')

\* A step that changes the time or the send interval takes no guess off the
\* display.
LEMMA ShownLemma ==
    ASSUME IInv, [Next]_vars
    PROVE  StaysShown
<1>. SUFFICES ASSUME now' # now \/ pr'.interval # pr.interval,
                     NEW r \in RowNumbers(confirmed.frame),
                     NEW k \in Columns(confirmed.frame),
                     Displays(pr), Shown(pr, r, k)
              PROVE  Displays(pr') /\ Shown(pr', r, k)
  BY DEF StaysShown
<1>1. Tick \/ Pong
  BY TimePasses
<1>. QED
  BY <1>1, TickShows, PongShows

\* Judged in time: whatever a screen's echo checkpoint could have judged is
\* gone when apply_screen returns, so no guess outlives the screen that shows
\* what became of its key, after any typing, pastes, resizes and resets.
THEOREM JudgedInTimeHolds == Spec => []JudgedInTime
<1>1. IInv => JudgedInTime
  BY JudgedLemma
<1>. QED
  BY <1>1, InductiveInvariant, PTL

\* At a login where nothing looks like the password, it is not drawn: on a
\* line the program reads with its echo off nothing of it is ever part of the
\* display, however fast the user types ahead and wherever the screens, pongs
\* and ticks fall in between.  The condition (Unmistakable) is that neither a
\* prompt nor the first screen has the password's glyph or a link; without it
\* the code does draw one (run prediction_drawn).  Taken for granted is that
\* the user types no password where none is asked for, does not correct it
\* (Sensible) and ends lines by a message of its own (EndsLines).
THEOREM UnmistakablePasswordHiddenHolds == Spec => []UnmistakablePasswordHidden
<1>1. IInv => UnmistakablePasswordHidden
  BY HiddenLemma
<1>. QED
  BY <1>1, InductiveInvariant, PTL

\* Shown until judged: time that passes, and the pongs that change the send
\* interval, take no guess off the display that is on it; only a screen, a
\* key, a paste or a loss of the transport does (cull's triggers).
THEOREM ShownUntilJudgedHolds == Spec => ShownUntilJudged
<1>1. IInv /\ [Next]_vars => [StaysShown]_vars
  BY ShownLemma
<1>2. ShownUntilJudged <=> [][StaysShown]_vars
  BY PTL DEF ShownUntilJudged, StaysShown
<1>. QED
  BY <1>1, <1>2, InductiveInvariant, PTL DEF Spec
=============================================================================
