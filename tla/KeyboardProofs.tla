---------------------------- MODULE KeyboardProofs ---------------------------
(***************************************************************************)
(* The proofs about Keyboard, for any keys and any bounds: what flattening *)
(* and folds do, by induction over the sequence; what is meant for the     *)
(* shell when one more byte is typed; that the escape processor lets       *)
(* through just that, byte by byte; and the invariant, step by step.       *)
(*                                                                         *)
(* At the end are the proofs about QueryFilter (F!), for any chunks and    *)
(* any limits: what a sequence without some of its places is; which        *)
(* sequences are queries; that each byte keeps the filter where the input  *)
(* says it stands; and the theorems.                                       *)
(***************************************************************************)
EXTENDS KeyboardInv, SequenceTheorems, WellFoundedInduction, TLAPS

\* What QueryFilter has besides.
CONSTANTS MaxCsi, MaxString, Pieces, MaxPieces
VARIABLES input, filter, fed

F == INSTANCE QueryFilterInv

-----------------------------------------------------------------------------
(* Induction over numbers, folds and sequences of sequences *)

\* A set that holds 0 and with each number the next one holds them all.
LEMMA NatSetInduction ==
    ASSUME NEW T, 0 \in T, \A n \in Nat : n \in T => n + 1 \in T
    PROVE  Nat \subseteq T
<1> DEFINE B == Nat \ T
           R == OpToRel(<, Nat)
<1>1. SUFFICES ASSUME B # {} PROVE FALSE
  OBVIOUS
<1>2. IsWellFoundedOn(R, Nat)
  BY NatLessThanWellFounded
<1>3. PICK x \in B : \A y \in B : ~ (<<y, x>> \in R)
  <2>. HIDE DEF R
  <2> QED BY <1>2, <1>1, WFMin, Zenon
<1>4. x \in Nat /\ x \notin T
  BY <1>3
<1>5. x # 0
  BY <1>4
<1>6. PICK y \in Nat : x = y + 1
  <2>1. x - 1 \in Nat /\ x = (x - 1) + 1
    BY <1>4, <1>5
  <2> QED BY <2>1
<1>7. <<y, x>> \in R
  <2>1. y < x
    BY <1>6
  <2>2. <<y, x>> \in Nat \X Nat
    BY <1>4, <1>6
  <2> QED BY <2>1, <2>2, <1>4, <1>6 DEF OpToRel
<1>8. y \in T
  <2>. HIDE DEF R
  <2> QED BY <1>3, <1>6, <1>7
<1> QED
  BY <1>4, <1>6, <1>8

\* The largest of the numbers up to k + 1, and what is left without it.
LEMMA MaxOfInterval ==
    ASSUME NEW k \in Nat, NEW s \in SUBSET (1..(k + 1)), k + 1 \in s
    PROVE  Max(s) = k + 1 /\ s \ {Max(s)} \in SUBSET (1..k)
<1>1. \A y \in s : k + 1 >= y
  OBVIOUS
<1>2. \A x \in s : (\A y \in s : x >= y) => x = k + 1
  OBVIOUS
<1>3. Max(s) = k + 1
  BY <1>1, <1>2 DEF Max
<1> QED
  BY <1>3

\* A set of numbers that is not empty has a largest one.
LEMMA IntervalMax ==
    ASSUME NEW n \in Nat, NEW s \in SUBSET (1..n), s # {}
    PROVE  \E x \in s : \A y \in s : x >= y
<1> DEFINE P == {k \in Nat : \A r \in SUBSET (1..k) :
                   r # {} => \E x \in r : \A y \in r : x >= y}
<1>1. 0 \in P
  <2>1. \A r \in SUBSET (1..0) : r = {}
    OBVIOUS
  <2> QED BY <2>1
<1>2. ASSUME NEW k \in Nat, k \in P PROVE k + 1 \in P
  <2> SUFFICES ASSUME NEW r \in SUBSET (1..(k + 1)), r # {}
               PROVE  \E x \in r : \A y \in r : x >= y
    OBVIOUS
  <2>1. CASE k + 1 \in r
    <3>1. \A y \in r : k + 1 >= y
      OBVIOUS
    <3> QED BY <2>1, <3>1
  <2>2. CASE k + 1 \notin r
    <3>1. r \in SUBSET (1..k)
      BY <2>2
    <3> QED BY <1>2, <3>1
  <2> QED BY <2>1, <2>2
<1>3. Nat \subseteq P
  <2> HIDE DEF P
  <2> QED BY <1>1, <1>2, NatSetInduction
<1> QED
  BY <1>3

\* The fold over the initial segments of 1..n.
Folds(T, t, n, G, k, g) ==
    /\ g \in [SUBSET (1..k) -> T]
    /\ g = [s \in SUBSET (1..k) |-> IF s = {} THEN t
                                    ELSE G[<<g[s \ {Max(s)}], Max(s)>>]]

\* A fold over the numbers up to n exists, so that CHOOSE finds it.
LEMMA FoldExists ==
    ASSUME NEW T, NEW t \in T, NEW n \in Nat, NEW G \in [T \X (1..n) -> T]
    PROVE  \E g : Folds(T, t, n, G, n, g)
<1> DEFINE P == {k \in Nat : k <= n => \E g : Folds(T, t, n, G, k, g)}
<1>1. 0 \in P
  <2> DEFINE g0 == [s \in SUBSET (1..0) |-> t]
  <2>1. SUBSET (1..0) = {{}}
    OBVIOUS
  <2>2. Folds(T, t, n, G, 0, g0)
    BY <2>1 DEF Folds
  <2> QED BY <2>2
<1>2. ASSUME NEW k \in Nat, k \in P PROVE k + 1 \in P
  <2>1. SUFFICES ASSUME k + 1 <= n PROVE \E g : Folds(T, t, n, G, k + 1, g)
    OBVIOUS
  <2>2. PICK g : Folds(T, t, n, G, k, g)
    BY <1>2, <2>1
  <2> DEFINE h == [s \in SUBSET (1..(k + 1)) |->
                     IF s \in SUBSET (1..k) THEN g[s] ELSE G[<<g[s \ {k + 1}], k + 1>>]]
  <2>3. ASSUME NEW s \in SUBSET (1..(k + 1))
        PROVE  /\ h[s] \in T
               /\ h[s] = IF s = {} THEN t ELSE G[<<h[s \ {Max(s)}], Max(s)>>]
    <3>1. CASE s \in SUBSET (1..k)
      <4>1. h[s] = g[s] /\ h[s] \in T
        BY <3>1, <2>2 DEF Folds
      <4>2. g[s] = IF s = {} THEN t ELSE G[<<g[s \ {Max(s)}], Max(s)>>]
        BY <3>1, <2>2 DEF Folds
      <4>3. s \ {Max(s)} \in SUBSET (1..k) /\ s \ {Max(s)} \in SUBSET (1..(k + 1))
        BY <3>1
      <4>4. h[s \ {Max(s)}] = g[s \ {Max(s)}]
        BY <4>3
      <4> QED BY <4>1, <4>2, <4>4
    <3>2. CASE s \notin SUBSET (1..k)
      <4>1. k + 1 \in s
        BY <3>2
      <4>2. Max(s) = k + 1 /\ s \ {Max(s)} \in SUBSET (1..k)
        BY <4>1, MaxOfInterval
      <4>3. s \ {k + 1} \in SUBSET (1..k) /\ s \ {k + 1} \in SUBSET (1..(k + 1))
        BY <4>2
      <4>4. h[s \ {k + 1}] = g[s \ {k + 1}] /\ g[s \ {k + 1}] \in T
        BY <4>3, <2>2 DEF Folds
      <4>5. h[s] = G[<<g[s \ {k + 1}], k + 1>>]
        BY <3>2
      <4>6. k + 1 \in 1..n
        BY <2>1
      <4>7. G[<<g[s \ {k + 1}], k + 1>>] \in T
        BY <4>4, <4>6, Zenon
      <4>8. s # {}
        BY <4>1
      <4> QED BY <4>2, <4>4, <4>5, <4>7, <4>8
    <3> QED BY <3>1, <3>2
  <2>4. h \in [SUBSET (1..(k + 1)) -> T]
    BY <2>3
  <2>5. h = [s \in SUBSET (1..(k + 1)) |-> IF s = {} THEN t
                                    ELSE G[<<h[s \ {Max(s)}], Max(s)>>]]
    <3> HIDE DEF h
    <3> QED BY <2>3, <2>4
  <2>6. Folds(T, t, n, G, k + 1, h)
    <3> HIDE DEF h
    <3> QED BY <2>4, <2>5 DEF Folds
  <2> QED BY <2>6
<1>3. Nat \subseteq P
  <2> HIDE DEF P
  <2> QED BY <1>1, <1>2, NatSetInduction
<1> QED
  BY <1>3

\* The concatenation of sequences, step by step.
LEMMA BytesSteps ==
    ASSUME NEW S, NEW w \in Seq(Seq(S)), Len(w) # 0
    PROVE  \E f \in [1..Len(w) -> Seq(S)] :
              /\ f[1] = w[1]
              /\ \A i \in 2..Len(w) : f[i] = f[i - 1] \o w[i]
              /\ FlattenSeq(w) = f[Len(w)]
<1> DEFINE n == Len(w)
           Recurs(g, k) == /\ g \in [1..k -> Seq(S)]
                           /\ g = [i \in 1..k |-> IF i = 1 THEN w[1] ELSE g[i - 1] \o w[i]]
           P == {k \in Nat : k <= n => \E g : Recurs(g, k)}
<1>1. n \in Nat /\ n # 0 /\ \A i \in 1..n : w[i] \in Seq(S)
  OBVIOUS
<1>2. 0 \in P
  <2> DEFINE g == [i \in 1..0 |-> w[1]]
  <2>1. 1..0 = {}
    OBVIOUS
  <2>2. Recurs(g, 0)
    BY <2>1
  <2> QED BY <2>2
<1>3. ASSUME NEW k \in Nat, k \in P PROVE k + 1 \in P
  <2>1. SUFFICES ASSUME k + 1 <= n PROVE \E g : Recurs(g, k + 1)
    <3> HIDE DEF Recurs, n
    <3> QED BY <1>1
  <2>2. PICK g : Recurs(g, k)
    <3> HIDE DEF Recurs, n
    <3> QED BY <1>1, <1>3, <2>1
  <2> DEFINE h == [i \in 1..(k + 1) |-> IF i = 1 THEN w[1]
                                       ELSE IF i = k + 1 THEN g[k] \o w[k + 1] ELSE g[i]]
  <2>3. ASSUME NEW i \in 1..(k + 1)
        PROVE  h[i] \in Seq(S) /\ h[i] = IF i = 1 THEN w[1] ELSE h[i - 1] \o w[i]
    <3>1. CASE i = 1
      BY <3>1, <1>1
    <3>2. CASE i # 1 /\ i = k + 1
      <4>1. k \in 1..k /\ g[k] \in Seq(S) /\ w[k + 1] \in Seq(S)
        BY <3>2, <1>1, <2>1, <2>2
      <4>2. h[i] = g[k] \o w[k + 1]
        BY <3>2
      <4>3. h[k] = g[k]
        <5>1. k = 1 => g[k] = w[1]
          BY <2>2, <4>1
        <5> QED BY <4>1, <5>1
      <4>4. g[k] \o w[k + 1] \in Seq(S)
        BY <4>1
      <4>5. i - 1 = k
        BY <3>2
      <4> HIDE DEF h
      <4> QED BY <3>2, <4>2, <4>3, <4>4, <4>5
    <3>3. CASE i # 1 /\ i # k + 1
      <4>1. i \in 1..k /\ i - 1 \in 1..k
        BY <3>3
      <4>2. h[i] = g[i] /\ g[i] \in Seq(S)
        BY <3>3, <4>1, <2>2
      <4>3. g[i] = g[i - 1] \o w[i]
        BY <3>3, <4>1, <2>2
      <4>4. h[i - 1] = g[i - 1]
        <5>1. i - 1 = 1 => g[i - 1] = w[1]
          BY <2>2, <4>1
        <5> QED BY <4>1, <5>1
      <4> HIDE DEF h
      <4> QED BY <3>3, <4>2, <4>3, <4>4
    <3> QED BY <3>1, <3>2, <3>3
  <2>4. Recurs(h, k + 1)
    <3>1. h = [i \in 1..(k + 1) |-> h[i]]
      OBVIOUS
    <3> HIDE DEF h
    <3>2. h \in [1..(k + 1) -> Seq(S)]
      BY <2>3, <3>1
    <3>3. h = [i \in 1..(k + 1) |-> IF i = 1 THEN w[1] ELSE h[i - 1] \o w[i]]
      BY <2>3, <3>1
    <3> QED BY <3>2, <3>3
  <2> QED BY <2>4
<1>4. PICK g : Recurs(g, n)
  <2>1. n \in P
    <3> HIDE DEF P
    <3> QED BY <1>1, <1>2, <1>3, NatSetInduction
  <2> HIDE DEF Recurs, n
  <2> QED BY <1>1, <2>1
<1> DEFINE Flat(h) == h = [i \in 1..n |-> IF i = 1 THEN w[1] ELSE h[i - 1] \o w[i]]
           flat == CHOOSE h : Flat(h)
<1>5. FlattenSeq(w) = flat[n]
  BY DEF FlattenSeq
<1>6. Flat(flat)
  <2>1. Flat(g)
    BY <1>4
  <2> HIDE DEF Flat
  <2> QED BY <2>1, Zenon
<1> HIDE DEF flat
<1> DEFINE Q1 == {k \in Nat : k + 1 <= n => flat[k + 1] = g[k + 1]}
<1>7. \A i \in 1..n : flat[i] = g[i]
  <2>1. 0 \in Q1
    BY <1>4, <1>6
  <2>2. ASSUME NEW k \in Nat, k \in Q1 PROVE k + 1 \in Q1
    <3>1. SUFFICES ASSUME k + 2 <= n PROVE flat[k + 2] = g[k + 2]
      OBVIOUS
    <3>2. k + 2 \in 1..n /\ k + 2 # 1 /\ (k + 2) - 1 = k + 1
      BY <3>1
    <3>3. flat[k + 1] = g[k + 1]
      BY <2>2, <3>1
    <3>4. flat[k + 2] = flat[k + 1] \o w[k + 2]
      BY <1>6, <3>2
    <3>5. g[k + 2] = g[k + 1] \o w[k + 2]
      BY <1>4, <3>2
    <3> QED BY <3>3, <3>4, <3>5
  <2>3. Nat \subseteq Q1
    <3> HIDE DEF Q1
    <3> QED BY <2>1, <2>2, NatSetInduction
  <2> SUFFICES ASSUME NEW i \in 1..n PROVE flat[i] = g[i]
    OBVIOUS
  <2>4. i - 1 \in Nat /\ (i - 1) + 1 = i /\ i <= n
    OBVIOUS
  <2>5. i - 1 \in Q1
    BY <2>3, <2>4
  <2> QED BY <2>4, <2>5
<1>8. /\ g \in [1..n -> Seq(S)] /\ g[1] = w[1]
      /\ \A i \in 2..n : g[i] = g[i - 1] \o w[i]
  <2>1. 1 \in 1..n /\ \A i \in 2..n : i \in 1..n /\ i # 1
    BY <1>1
  <2> HIDE DEF n
  <2> QED BY <1>4, <2>1
<1>9. FlattenSeq(w) = g[n]
  BY <1>5, <1>7
<1> QED
  BY <1>8, <1>9, Zenon

\* A chunk more is its bytes at the end.
LEMMA BytesAppend ==
    ASSUME NEW S, NEW w \in Seq(Seq(S)), NEW c \in Seq(S)
    PROVE  /\ FlattenSeq(w) \in Seq(S)
           /\ FlattenSeq(Append(w, c)) = FlattenSeq(w) \o c
<1> DEFINE n == Len(w)
           wc == Append(w, c)
<1>1. /\ n \in Nat /\ wc \in Seq(Seq(S)) /\ Len(wc) = n + 1 /\ wc[n + 1] = c
      /\ \A i \in 1..n : wc[i] = w[i]
  OBVIOUS
<1>2. PICK h \in [1..(n + 1) -> Seq(S)] :
        /\ h[1] = wc[1]
        /\ \A i \in 2..(n + 1) : h[i] = h[i - 1] \o wc[i]
        /\ FlattenSeq(wc) = h[n + 1]
  <2>1. Len(wc) # 0 /\ Len(wc) = n + 1 /\ wc \in Seq(Seq(S))
    BY <1>1
  <2>2. \E f \in [1..Len(wc) -> Seq(S)] :
          /\ f[1] = wc[1]
          /\ \A i \in 2..Len(wc) : f[i] = f[i - 1] \o wc[i]
          /\ FlattenSeq(wc) = f[Len(wc)]
    <3> HIDE DEF wc
    <3> QED BY <2>1, BytesSteps, Zenon
  <2> HIDE DEF wc, n
  <2> QED BY <2>1, <2>2, Zenon
<1>3. CASE n = 0
  <2>1. w = <<>> /\ FlattenSeq(w) = w
    BY <1>3 DEF FlattenSeq
  <2>2. FlattenSeq(wc) = c
    BY <1>1, <1>2, <1>3
  <2>3. <<>> \in Seq(S) /\ <<>> \o c = c
    OBVIOUS
  <2> QED BY <2>1, <2>2, <2>3
<1>4. CASE n # 0
  <2>1. PICK f \in [1..n -> Seq(S)] :
          /\ f[1] = w[1]
          /\ \A i \in 2..n : f[i] = f[i - 1] \o w[i]
          /\ FlattenSeq(w) = f[n]
    BY <1>1, <1>4, BytesSteps, Zenon
  <2> DEFINE P == {k \in Nat : k + 1 <= n => h[k + 1] = f[k + 1]}
  <2> HIDE DEF n, wc
  <2>2. 0 \in P
    <3>1. 1 <= n => wc[1] = w[1]
      BY <1>1
    <3> QED BY <1>2, <2>1, <3>1
  <2>3. ASSUME NEW k \in Nat, k \in P PROVE k + 1 \in P
    <3>1. SUFFICES ASSUME k + 2 <= n PROVE h[k + 2] = f[k + 2]
      OBVIOUS
    <3>2. /\ k + 2 \in 2..n /\ k + 2 \in 2..(n + 1) /\ (k + 2) - 1 = k + 1
          /\ wc[k + 2] = w[k + 2]
      BY <1>1, <3>1
    <3>3. h[k + 1] = f[k + 1]
      BY <1>1, <2>3, <3>1
    <3>4. h[k + 2] = h[k + 1] \o wc[k + 2] /\ f[k + 2] = f[k + 1] \o w[k + 2]
      BY <1>2, <2>1, <3>2
    <3> QED BY <3>2, <3>3, <3>4
  <2>4. h[n] = f[n]
    <3>1. Nat \subseteq P
      <4> HIDE DEF P
      <4> QED BY <2>2, <2>3, NatSetInduction
    <3>2. n - 1 \in Nat /\ (n - 1) + 1 = n
      BY <1>1, <1>4
    <3>3. n - 1 \in P
      BY <3>1, <3>2
    <3> QED BY <3>2, <3>3
  <2>5. h[n + 1] = h[n] \o wc[n + 1]
    <3>1. n + 1 \in 2..(n + 1) /\ (n + 1) - 1 = n
      BY <1>1, <1>4
    <3> QED BY <1>2, <3>1
  <2>6. n \in 1..n
    BY <1>1, <1>4
  <2>7. FlattenSeq(wc) = FlattenSeq(w) \o c /\ FlattenSeq(w) \in Seq(S)
    BY <1>1, <1>2, <2>1, <2>4, <2>5, <2>6
  <2> QED BY <2>7 DEF wc
<1> QED
  BY <1>3, <1>4

-----------------------------------------------------------------------------
(* Sequences of places in the order they were typed *)

\* Three sequences joined, in either order.
Grouping(x, y, z) == x \o (y \o z) = (x \o y) \o z

\* Concatenation is associative.
LEMMA Assoc ==
    ASSUME NEW S, NEW x \in Seq(S), NEW y \in Seq(S), NEW z \in Seq(S)
    PROVE  Grouping(x, y, z)
BY DEF Grouping

\* What two sequences one after the other hold.
LEMMA Joined ==
    ASSUME NEW S, NEW a \in Seq(S), NEW c \in Seq(S)
    PROVE  /\ a \o c \in Seq(S) /\ Len(a \o c) = Len(a) + Len(c)
           /\ Range(a \o c) = Range(a) \cup Range(c)
           /\ Range(a) \subseteq S
<1> DEFINE n == Len(a)
           w == a \o c
<1>1. /\ w \in Seq(S) /\ Len(w) = n + Len(c) /\ n \in Nat /\ Len(c) \in Nat
      /\ DOMAIN a = 1..n /\ DOMAIN c = 1..Len(c) /\ DOMAIN w = 1..(n + Len(c))
      /\ \A i \in 1..n : w[i] = a[i] /\ a[i] \in S
      /\ \A i \in 1..Len(c) : w[n + i] = c[i]
  OBVIOUS
<1> HIDE DEF n, w
<1>2. Range(w) \subseteq Range(a) \cup Range(c)
  <2> SUFFICES ASSUME NEW i \in 1..(n + Len(c)) PROVE w[i] \in Range(a) \cup Range(c)
    BY <1>1 DEF Range
  <2>1. CASE i \in 1..n
    BY <1>1, <2>1 DEF Range
  <2>2. CASE i \notin 1..n
    <3>1. i - n \in 1..Len(c) /\ n + (i - n) = i
      BY <1>1, <2>2
    <3>2. w[i] = c[i - n]
      BY <1>1, <3>1
    <3> QED BY <1>1, <3>1, <3>2 DEF Range
  <2> QED BY <2>1, <2>2
<1>3. Range(a) \subseteq Range(w)
  <2> SUFFICES ASSUME NEW i \in 1..n PROVE a[i] \in Range(w)
    BY <1>1 DEF Range
  <2>1. i \in 1..(n + Len(c)) /\ w[i] = a[i]
    BY <1>1
  <2> QED BY <1>1, <2>1 DEF Range
<1>4. Range(c) \subseteq Range(w)
  <2> SUFFICES ASSUME NEW i \in 1..Len(c) PROVE c[i] \in Range(w)
    BY <1>1 DEF Range
  <2>1. n + i \in 1..(n + Len(c)) /\ w[n + i] = c[i]
    BY <1>1
  <2> QED BY <1>1, <2>1 DEF Range
<1>5. Range(a) \subseteq S
  BY <1>1 DEF Range
<1>6. Range(w) = Range(a) \cup Range(c)
  BY <1>2, <1>3, <1>4
<1> QED
  BY <1>1, <1>5, <1>6 DEF w, n

\* Two sequences of places are in order if each is, and the first ends before
\* the second begins.
LEMMA JoinedInOrder ==
    ASSUME NEW a \in Seq(Nat), NEW c \in Seq(Nat)
    PROVE  Increasing(a \o c) <=>
              /\ Increasing(a) /\ Increasing(c)
              /\ \A x \in Range(a), y \in Range(c) : x < y
<1> DEFINE n == Len(a)
           w == a \o c
<1>1. /\ w \in Seq(Nat) /\ Len(w) = n + Len(c) /\ n \in Nat /\ Len(c) \in Nat
      /\ DOMAIN a = 1..n /\ DOMAIN c = 1..Len(c) /\ DOMAIN w = 1..(n + Len(c))
      /\ \A i \in 1..n : w[i] = a[i]
      /\ \A i \in 1..Len(c) : w[n + i] = c[i]
  OBVIOUS
<1> HIDE DEF n, w
<1>2. ASSUME Increasing(w) PROVE Increasing(a)
  <2> SUFFICES ASSUME NEW i \in 1..n, NEW j \in 1..n, i < j PROVE a[i] < a[j]
    BY <1>1 DEF Increasing
  <2>1. i \in 1..(n + Len(c)) /\ j \in 1..(n + Len(c))
    BY <1>1
  <2>2. w[i] < w[j]
    BY <1>1, <1>2, <2>1 DEF Increasing
  <2> QED BY <1>1, <2>2
<1>3. ASSUME Increasing(w) PROVE Increasing(c)
  <2> SUFFICES ASSUME NEW i \in 1..Len(c), NEW j \in 1..Len(c), i < j PROVE c[i] < c[j]
    BY <1>1 DEF Increasing
  <2>1. n + i \in 1..(n + Len(c)) /\ n + j \in 1..(n + Len(c)) /\ n + i < n + j
    BY <1>1
  <2>2. w[n + i] < w[n + j]
    BY <1>1, <1>3, <2>1 DEF Increasing
  <2> QED BY <1>1, <2>2
<1>4. ASSUME Increasing(w), NEW x \in Range(a), NEW y \in Range(c) PROVE x < y
  <2>1. PICK i \in 1..n : x = a[i]
    BY <1>1 DEF Range
  <2>2. PICK j \in 1..Len(c) : y = c[j]
    BY <1>1 DEF Range
  <2>3. i \in 1..(n + Len(c)) /\ n + j \in 1..(n + Len(c)) /\ i < n + j
    BY <1>1
  <2>4. w[i] < w[n + j]
    BY <1>1, <1>4, <2>3 DEF Increasing
  <2> QED BY <1>1, <2>1, <2>2, <2>4
<1>5. ASSUME Increasing(a), Increasing(c), \A x \in Range(a), y \in Range(c) : x < y
      PROVE  Increasing(w)
  <2> SUFFICES ASSUME NEW i \in 1..(n + Len(c)), NEW j \in 1..(n + Len(c)), i < j
               PROVE  w[i] < w[j]
    BY <1>1 DEF Increasing
  <2>1. CASE i \in 1..n /\ j \in 1..n
    <3>1. a[i] < a[j]
      BY <1>1, <1>5, <2>1 DEF Increasing
    <3> QED BY <1>1, <2>1, <3>1
  <2>2. CASE i \in 1..n /\ j \notin 1..n
    <3>1. j - n \in 1..Len(c) /\ n + (j - n) = j
      BY <1>1, <2>2
    <3>2. a[i] \in Range(a) /\ c[j - n] \in Range(c)
      BY <1>1, <2>2, <3>1 DEF Range
    <3>3. w[j] = c[j - n] /\ w[i] = a[i]
      BY <1>1, <2>2, <3>1
    <3> QED BY <1>5, <3>2, <3>3
  <2>3. CASE i \notin 1..n
    <3>1. /\ i - n \in 1..Len(c) /\ j - n \in 1..Len(c) /\ i - n < j - n
          /\ n + (i - n) = i /\ n + (j - n) = j
      BY <1>1, <2>3
    <3>2. c[i - n] < c[j - n]
      BY <1>1, <1>5, <3>1 DEF Increasing
    <3>3. w[i] = c[i - n] /\ w[j] = c[j - n]
      BY <1>1, <3>1
    <3> QED BY <3>2, <3>3
  <2> QED BY <2>1, <2>2, <2>3
<1>6. Increasing(w) <=> /\ Increasing(a) /\ Increasing(c)
                        /\ \A x \in Range(a), y \in Range(c) : x < y
  BY <1>2, <1>3, <1>4, <1>5
<1> QED
  BY <1>6 DEF w

\* What is left when a part in the middle is lost.
LEMMA MiddleLost ==
    ASSUME NEW a \in Seq(Nat), NEW m \in Seq(Nat), NEW c \in Seq(Nat),
           Increasing((a \o m) \o c)
    PROVE  /\ Increasing(a \o c)
           /\ Range(a \o c) = Range((a \o m) \o c) \ Range(m)
<1>1. /\ a \o m \in Seq(Nat) /\ Range(a \o m) = Range(a) \cup Range(m)
      /\ Range((a \o m) \o c) = Range(a \o m) \cup Range(c)
      /\ Range(a \o c) = Range(a) \cup Range(c)
      /\ Range(a) \subseteq Nat /\ Range(m) \subseteq Nat /\ Range(c) \subseteq Nat
  <2>1. a \o m \in Seq(Nat) /\ Range(a \o m) = Range(a) \cup Range(m)
    BY Joined
  <2>2. Range((a \o m) \o c) = Range(a \o m) \cup Range(c)
    <3> DEFINE b == a \o m
    <3>1. b \in Seq(Nat)
      BY <2>1
    <3> HIDE DEF b
    <3>2. Range(b \o c) = Range(b) \cup Range(c)
      BY <3>1, Joined
    <3> QED BY <3>2 DEF b
  <2>3. Range(a \o c) = Range(a) \cup Range(c)
    BY Joined
  <2>4. Range(a) \subseteq Nat /\ Range(m) \subseteq Nat /\ Range(c) \subseteq Nat
    BY Joined
  <2> QED BY <2>1, <2>2, <2>3, <2>4
<1>2. /\ Increasing(a \o m) /\ Increasing(c)
      /\ \A x \in Range(a \o m), y \in Range(c) : x < y
  BY <1>1, JoinedInOrder
<1>3. Increasing(a) /\ \A x \in Range(a), y \in Range(m) : x < y
  BY <1>2, JoinedInOrder
<1>4. Increasing(a \o c)
  <2>1. \A x \in Range(a), y \in Range(c) : x < y
    BY <1>1, <1>2
  <2> QED BY <1>2, <1>3, <2>1, JoinedInOrder
<1>5. Range(a) \cap Range(m) = {} /\ Range(c) \cap Range(m) = {}
  <2>1. \A x \in Nat : ~(x < x)
    OBVIOUS
  <2>2. \A x \in Range(m) : x \in Range(a \o m) /\ x \in Nat
    BY <1>1
  <2>3. \A x \in Range(m) : x \notin Range(a)
    BY <1>3, <2>1, <2>2, Zenon
  <2>4. \A x \in Range(m) : x \notin Range(c)
    BY <1>2, <2>1, <2>2, Zenon
  <2> QED BY <2>3, <2>4
<1>6. Range(a \o c) = Range((a \o m) \o c) \ Range(m)
  BY <1>1, <1>5
<1> QED
  BY <1>4, <1>6

\* The first and the last part of a sequence.
LEMMA CutInTwo ==
    ASSUME NEW S, NEW w \in Seq(S), NEW k \in 0..Len(w)
    PROVE  /\ SubSeq(w, 1, k) \in Seq(S) /\ SubSeq(w, k + 1, Len(w)) \in Seq(S)
           /\ Len(SubSeq(w, 1, k)) = k
           /\ w = SubSeq(w, 1, k) \o SubSeq(w, k + 1, Len(w))
<1> DEFINE a == SubSeq(w, 1, k)
           c == SubSeq(w, k + 1, Len(w))
           v == a \o c
<1>1. /\ a \in Seq(S) /\ c \in Seq(S) /\ Len(a) = k /\ Len(c) = Len(w) - k
      /\ k \in Nat /\ Len(w) \in Nat
      /\ \A i \in 1..k : a[i] = w[i]
      /\ \A i \in 1..(Len(w) - k) : c[i] = w[k + i]
  OBVIOUS
<1> HIDE DEF a, c
<1>2. v \in Seq(S) /\ Len(v) = Len(w)
  BY <1>1
<1>3. \A i \in 1..Len(w) : v[i] = w[i]
  <2> SUFFICES ASSUME NEW i \in 1..Len(w) PROVE v[i] = w[i]
    OBVIOUS
  <2>1. CASE i <= k
    <3>1. i \in 1..k
      BY <1>1, <2>1
    <3>2. v[i] = a[i]
      BY <1>1, <3>1
    <3> QED BY <1>1, <3>1, <3>2
  <2>2. CASE ~(i <= k)
    <3>1. i - k \in 1..(Len(w) - k) /\ k + (i - k) = i
      BY <1>1, <2>2
    <3>2. v[i] = c[i - k]
      BY <1>1, <3>1
    <3> QED BY <1>1, <3>1, <3>2
  <2> QED BY <2>1, <2>2
<1>4. v = w
  <2> HIDE DEF v
  <2> QED BY <1>2, <1>3
<1> QED
  BY <1>1, <1>4 DEF a, c

\* Nothing after, or before, a sequence leaves it as it is; three sequences
\* may be joined in any order.
LEMMA JoinedMore ==
    ASSUME NEW S, NEW a \in Seq(S), NEW c \in Seq(S), NEW d \in Seq(S)
    PROVE  /\ <<>> \in Seq(S) /\ a \o <<>> = a /\ <<>> \o a = a
           /\ (a \o c) \o d = a \o (c \o d)
<1>1. <<>> \in Seq(S)
  OBVIOUS
<1>2. a \o <<>> = a /\ <<>> \o a = a
  OBVIOUS
<1>3. (a \o c) \o d = a \o (c \o d)
  OBVIOUS
<1> QED
  BY <1>1, <1>2, <1>3

\* The bytes of one frame more at the end, of one frame, and of none.
LEMMA FlattenFew ==
    ASSUME NEW S, NEW c \in Seq(S)
    PROVE  FlattenSeq(<<>>) = <<>> /\ FlattenSeq(<<c>>) = c /\ <<c>> \in Seq(Seq(S))
<1>1. FlattenSeq(<<>>) = <<>>
  BY DEF FlattenSeq
<1>2. <<>> \in Seq(Seq(S)) /\ Append(<<>>, c) = <<c>> /\ <<c>> \in Seq(Seq(S))
  OBVIOUS
<1>3. FlattenSeq(Append(<<>>, c)) = FlattenSeq(<<>>) \o c
  BY <1>2, BytesAppend
<1>4. <<>> \o c = c
  OBVIOUS
<1> QED
  BY <1>1, <1>2, <1>3, <1>4

\* The bytes of the frames of two sequences.
LEMMA FlattenJoined ==
    ASSUME NEW S, NEW v \in Seq(Seq(S)), NEW w \in Seq(Seq(S))
    PROVE  /\ FlattenSeq(v) \in Seq(S) /\ FlattenSeq(w) \in Seq(S)
           /\ FlattenSeq(v \o w) = FlattenSeq(v) \o FlattenSeq(w)
<1> DEFINE n == Len(w)
           To(j) == SubSeq(w, 1, j)
           P == {j \in Nat : j <= n =>
                    FlattenSeq(v \o To(j)) = FlattenSeq(v) \o FlattenSeq(To(j))}
<1>1. /\ n \in Nat /\ To(0) = <<>> /\ To(n) = w
      /\ \A j \in 0..n : To(j) \in Seq(Seq(S)) /\ v \o To(j) \in Seq(Seq(S))
      /\ \A j \in 0..(n - 1) :
            /\ To(j + 1) = Append(To(j), w[j + 1]) /\ w[j + 1] \in Seq(S)
            /\ v \o To(j + 1) = Append(v \o To(j), w[j + 1])
  <2>1. n \in Nat /\ To(0) = <<>> /\ To(n) = w
    OBVIOUS
  <2>2. \A j \in 0..n : To(j) \in Seq(Seq(S))
    OBVIOUS
  <2>3. \A j \in 0..n : v \o To(j) \in Seq(Seq(S))
    <3> HIDE DEF To
    <3> QED BY <2>2
  <2>4. \A j \in 0..(n - 1) : To(j + 1) = Append(To(j), w[j + 1]) /\ w[j + 1] \in Seq(S)
    OBVIOUS
  <2>5. ASSUME NEW j \in 0..(n - 1) PROVE v \o To(j + 1) = Append(v \o To(j), w[j + 1])
    <3>1. To(j) \in Seq(Seq(S)) /\ w[j + 1] \in Seq(S)
      BY <2>1, <2>2, <2>4
    <3>2. v \o Append(To(j), w[j + 1]) = Append(v \o To(j), w[j + 1])
      <4> DEFINE Q == Seq(S)
      <4> HIDE DEF To, n
      <4>1. v \in Seq(Q) /\ To(j) \in Seq(Q) /\ w[j + 1] \in Q
        BY <3>1
      <4> HIDE DEF Q
      <4>2. \A x, y \in Seq(Q), e \in Q : x \o Append(y, e) = Append(x \o y, e)
        OBVIOUS
      <4> QED BY <4>1, <4>2
    <3> QED BY <2>4, <3>2
  <2> HIDE DEF To, n
  <2> QED BY <2>1, <2>2, <2>3, <2>4, <2>5
<1>2. FlattenSeq(v) \in Seq(S) /\ FlattenSeq(w) \in Seq(S)
  <2>1. <<>> \in Seq(S)
    OBVIOUS
  <2> QED BY <2>1, BytesAppend, Zenon
<1> HIDE DEF To, n
<1>3. 0 \in P
  <2>1. v \o <<>> = v /\ FlattenSeq(v) \o <<>> = FlattenSeq(v)
    BY <1>2
  <2>2. FlattenSeq(<<>>) = <<>>
    BY DEF FlattenSeq
  <2> QED BY <1>1, <2>1, <2>2
<1>4. ASSUME NEW j \in Nat, j \in P PROVE j + 1 \in P
  <2>1. SUFFICES ASSUME j + 1 <= n
                 PROVE  FlattenSeq(v \o To(j + 1)) = FlattenSeq(v) \o FlattenSeq(To(j + 1))
    OBVIOUS
  <2> DEFINE c == w[j + 1]
             t == To(j)
  <2>2. j \in 0..(n - 1) /\ j \in 0..n /\ j <= n
    BY <1>1, <2>1
  <2>3. /\ To(j + 1) = Append(t, c) /\ c \in Seq(S) /\ t \in Seq(Seq(S))
        /\ v \o To(j + 1) = Append(v \o t, c) /\ v \o t \in Seq(Seq(S))
    BY <1>1, <2>2
  <2>4. FlattenSeq(v \o t) = FlattenSeq(v) \o FlattenSeq(t)
    BY <1>4, <2>2
  <2> HIDE DEF c, t, P
  <2>5. /\ FlattenSeq(Append(t, c)) = FlattenSeq(t) \o c /\ FlattenSeq(t) \in Seq(S)
        /\ FlattenSeq(Append(v \o t, c)) = FlattenSeq(v \o t) \o c
    BY <2>3, BytesAppend, Zenon
  <2>6. (FlattenSeq(v) \o FlattenSeq(t)) \o c = FlattenSeq(v) \o (FlattenSeq(t) \o c)
    <3>1. \A a, b, d \in Seq(S) : (a \o b) \o d = a \o (b \o d)
      OBVIOUS
    <3> QED BY <1>2, <2>3, <2>5, <3>1, Zenon
  <2> QED BY <2>3, <2>4, <2>5, <2>6, Zenon
<1>5. n \in P
  <2> HIDE DEF P
  <2> QED BY <1>1, <1>3, <1>4, NatSetInduction
<1>6. FlattenSeq(v \o w) = FlattenSeq(v) \o FlattenSeq(w)
  BY <1>1, <1>5
<1> QED
  BY <1>2, <1>6

\* The bytes of a sequence of frames are those of its frames.
LEMMA FlattenRange ==
    ASSUME NEW S, NEW w \in Seq(Seq(S))
    PROVE  Range(FlattenSeq(w)) = UNION {Range(w[k]) : k \in DOMAIN w}
<1> DEFINE n == Len(w)
           To(j) == SubSeq(w, 1, j)
           All(j) == UNION {Range(w[k]) : k \in 1..j}
           P == {j \in Nat : j <= n => Range(FlattenSeq(To(j))) = All(j)}
<1>1. /\ n \in Nat /\ To(0) = <<>> /\ To(n) = w /\ DOMAIN w = 1..n
      /\ \A j \in 0..n : To(j) \in Seq(Seq(S))
      /\ \A j \in 0..(n - 1) : To(j + 1) = Append(To(j), w[j + 1]) /\ w[j + 1] \in Seq(S)
  OBVIOUS
<1>2. All(0) = {}
  <2>1. 1..0 = {}
    OBVIOUS
  <2> QED BY <2>1
<1>3. \A j \in Nat : All(j + 1) = All(j) \cup Range(w[j + 1])
  <2> SUFFICES ASSUME NEW j \in Nat PROVE All(j + 1) = All(j) \cup Range(w[j + 1])
    OBVIOUS
  <2>1. 1..(j + 1) = (1..j) \cup {j + 1}
    OBVIOUS
  <2> QED BY <2>1
<1> HIDE DEF To, n, All
<1>4. 0 \in P
  <2>1. FlattenSeq(<<>>) = <<>>
    BY DEF FlattenSeq
  <2>2. Range(<<>>) = {}
    BY DEF Range
  <2> QED BY <1>1, <1>2, <2>1, <2>2
<1>5. ASSUME NEW j \in Nat, j \in P PROVE j + 1 \in P
  <2>1. SUFFICES ASSUME j + 1 <= n PROVE Range(FlattenSeq(To(j + 1))) = All(j + 1)
    OBVIOUS
  <2> DEFINE c == w[j + 1]
             t == To(j)
  <2>2. j \in 0..(n - 1) /\ j \in 0..n /\ j <= n
    BY <1>1, <2>1
  <2>3. To(j + 1) = Append(t, c) /\ c \in Seq(S) /\ t \in Seq(Seq(S))
    BY <1>1, <2>2
  <2>4. Range(FlattenSeq(t)) = All(j) /\ All(j + 1) = All(j) \cup Range(c)
    BY <1>3, <1>5, <2>2
  <2> HIDE DEF c, t, P
  <2>5. FlattenSeq(Append(t, c)) = FlattenSeq(t) \o c /\ FlattenSeq(t) \in Seq(S)
    BY <2>3, BytesAppend, Zenon
  <2>6. Range(FlattenSeq(t) \o c) = Range(FlattenSeq(t)) \cup Range(c)
    BY <2>3, <2>5, Joined
  <2> QED BY <2>3, <2>4, <2>5, <2>6, Zenon
<1>6. n \in P
  <2> HIDE DEF P
  <2> QED BY <1>1, <1>4, <1>5, NatSetInduction
<1>7. Range(FlattenSeq(w)) = All(n)
  BY <1>1, <1>6
<1> QED
  BY <1>1, <1>7 DEF All

-----------------------------------------------------------------------------
(* What is meant for the shell, for any keys t and any places s *)

TildeIn(t, s, k) == t[s[k]] = "~" /\ (k = 1 \/ t[s[k - 1]] = "nl")
MeantIn(t, s, k) ==
    /\ TildeIn(t, s, k) => k < Len(s) /\ t[s[k + 1]] \notin {".", "R", "?", "~"}
    /\ k > 1 /\ TildeIn(t, s, k - 1) => t[s[k]] \notin {".", "R", "?"}
MeantOf(t, s) == {s[k] : k \in {i \in DOMAIN s : MeantIn(t, s, i)}}
AtLineStart(t, s) == s = <<>> \/ t[Last(s)] = "nl"
AtTilde(t, s) == s # <<>> /\ TildeIn(t, s, Len(s))
ToldBy(t, s, state) ==
    /\ state = "AfterNewline" <=> AtLineStart(t, s)
    /\ state = "AfterTilde" <=> AtTilde(t, s)

\* They are those of the model.
LEMMA MeantHere ==
    ASSUME NEW s, NEW state
    PROVE  MeantPlaces(s) = MeantOf(typed, s) /\ StateTold(s, state) = ToldBy(typed, s, state)
BY DEF MeantPlaces, Meant, Tilde, MeantOf, MeantIn, TildeIn, StateTold, ToldBy, AtLineStart,
       AtTilde

\* What one place, i of the byte b, adds to what is meant of s, which becomes u:
\* it may be meant itself, and a tilde before it.
Adds(t, s, i, b, u) ==
    /\ AtLineStart(t, s) /\ b = "~" => MeantOf(t, u) = MeantOf(t, s)
    /\ AtLineStart(t, s) /\ b # "~" => MeantOf(t, u) = MeantOf(t, s) \cup {i}
    /\ AtTilde(t, s) /\ b \in {".", "R", "?"} => MeantOf(t, u) = MeantOf(t, s)
    /\ AtTilde(t, s) /\ b = "~" => MeantOf(t, u) = MeantOf(t, s) \cup {i}
    /\ AtTilde(t, s) /\ b \notin {".", "R", "?", "~"} =>
          MeantOf(t, u) = MeantOf(t, s) \cup {Last(s), i}
    /\ ~AtLineStart(t, s) /\ ~AtTilde(t, s) =>
          MeantOf(t, u) = MeantOf(t, s) \cup {i}

\* The line after it: at its start, or just after a tilde there.
Turns(t, s, i, b, u) ==
    /\ Last(u) = i /\ u # <<>> /\ u \in Seq(Nat)
    /\ AtTilde(t, u) <=> AtLineStart(t, s) /\ b = "~"
    /\ AtLineStart(t, u) <=> b = "nl"

\* One more place, i, makes u of s: what it adds, and where it leaves the line.
LEMMA MeantAppend ==
    ASSUME NEW t, NEW s \in Seq(Nat), NEW i \in Nat,
           NEW u, u = Append(s, i), NEW b, b = t[i]
    PROVE  Adds(t, s, i, b, u) /\ Turns(t, s, i, b, u)
<1> DEFINE n == Len(s)
<1>1. /\ u \in Seq(Nat) /\ Len(u) = n + 1 /\ n \in Nat /\ u[n + 1] = i
      /\ DOMAIN u = 1..(n + 1) /\ DOMAIN s = 1..n
      /\ \A k \in 1..n : u[k] = s[k]
      /\ s = <<>> <=> n = 0
      /\ u # <<>>
  OBVIOUS
<1> HIDE DEF n
<1>2. Last(u) = i /\ (n # 0 => Last(s) = s[n])
  BY <1>1 DEF Last, n
<1>3. \A k \in 1..n : TildeIn(t, u, k) = TildeIn(t, s, k)
  <2> SUFFICES ASSUME NEW k \in 1..n PROVE TildeIn(t, u, k) = TildeIn(t, s, k)
    OBVIOUS
  <2>1. u[k] = s[k] /\ (k # 1 => u[k - 1] = s[k - 1])
    BY <1>1
  <2> QED BY <2>1 DEF TildeIn
<1>4. TildeIn(t, u, n + 1) <=> AtLineStart(t, s) /\ b = "~"
  <2>1. u[n + 1] = i /\ (n + 1 # 1 => u[(n + 1) - 1] = s[n])
    BY <1>1
  <2> QED BY <1>1, <1>2, <2>1 DEF TildeIn, AtLineStart
<1>5. \A k \in 1..(n - 1) : MeantIn(t, u, k) = MeantIn(t, s, k)
  <2> SUFFICES ASSUME NEW k \in 1..(n - 1) PROVE MeantIn(t, u, k) = MeantIn(t, s, k)
    OBVIOUS
  <2>1. /\ k \in 1..n /\ u[k] = s[k] /\ u[k + 1] = s[k + 1] /\ k < Len(u) /\ k < Len(s)
        /\ k > 1 => k - 1 \in 1..n
    BY <1>1 DEF n
  <2>2. /\ TildeIn(t, u, k) = TildeIn(t, s, k)
        /\ k > 1 => TildeIn(t, u, k - 1) = TildeIn(t, s, k - 1)
    BY <1>3, <2>1
  <2> QED BY <2>1, <2>2 DEF MeantIn
<1>6. n # 0 => /\ ~AtTilde(t, s) => MeantIn(t, u, n) = MeantIn(t, s, n)
               /\ AtTilde(t, s) => /\ ~MeantIn(t, s, n)
                                   /\ MeantIn(t, u, n) <=> b \notin {".", "R", "?", "~"}
  <2> SUFFICES ASSUME n # 0
               PROVE  /\ ~AtTilde(t, s) => MeantIn(t, u, n) = MeantIn(t, s, n)
                      /\ AtTilde(t, s) => /\ ~MeantIn(t, s, n)
                                          /\ MeantIn(t, u, n) <=> b \notin {".", "R", "?", "~"}
    OBVIOUS
  <2>1. n \in 1..n /\ u[n] = s[n] /\ n < Len(u) /\ ~(n < Len(s)) /\ (n > 1 => n - 1 \in 1..n)
    <3>1. n = Len(s) /\ n \in 1..n
      BY <1>1 DEF n
    <3>2. n > 1 => n - 1 \in 1..n
      BY <1>1
    <3>3. u[n] = s[n] /\ n < Len(u)
      BY <1>1, <3>1
    <3>4. ~(n < Len(s))
      BY <1>1, <3>1
    <3> QED BY <3>1, <3>2, <3>3, <3>4
  <2>2. /\ TildeIn(t, u, n) = TildeIn(t, s, n)
        /\ n > 1 => TildeIn(t, u, n - 1) = TildeIn(t, s, n - 1)
    BY <1>3, <2>1
  <2>3. AtTilde(t, s) <=> TildeIn(t, s, n)
    BY <1>1 DEF AtTilde, n
  <2>4. ~AtTilde(t, s) => MeantIn(t, u, n) = MeantIn(t, s, n)
    BY <2>1, <2>2, <2>3 DEF MeantIn
  <2>5. AtTilde(t, s) => ~MeantIn(t, s, n)
    BY <2>1, <2>3 DEF MeantIn
  <2>6. ASSUME AtTilde(t, s) PROVE MeantIn(t, u, n) <=> b \notin {".", "R", "?", "~"}
    <3>1. t[s[n]] = "~" /\ u[n + 1] = i
      BY <1>1, <2>3, <2>6 DEF TildeIn
    <3>2. ~(n > 1 /\ TildeIn(t, u, n - 1) /\ t[u[n]] \in {".", "R", "?"})
      BY <2>1, <3>1
    <3> QED BY <2>1, <2>2, <2>3, <2>6, <3>1, <3>2 DEF MeantIn
  <2> QED BY <2>4, <2>5, <2>6
<1>7. /\ AtLineStart(t, s) => (MeantIn(t, u, n + 1) <=> b # "~")
      /\ AtTilde(t, s) => (MeantIn(t, u, n + 1) <=> b \notin {".", "R", "?"})
      /\ ~AtLineStart(t, s) /\ ~AtTilde(t, s) => MeantIn(t, u, n + 1)
  <2>1. ~(n + 1 < Len(u)) /\ u[n + 1] = i /\ (n + 1 > 1 <=> n # 0) /\ (n + 1) - 1 = n
    BY <1>1
  <2>2. n # 0 => (TildeIn(t, u, (n + 1) - 1) <=> AtTilde(t, s))
    <3>1. n # 0 => n \in 1..n
      BY <1>1
    <3> QED BY <1>1, <1>3, <2>1, <3>1 DEF AtTilde, n
  <2>3. AtTilde(t, s) => ~AtLineStart(t, s) /\ n # 0
    BY <1>1, <1>2 DEF AtTilde, AtLineStart, TildeIn, n
  <2>4. MeantIn(t, u, n + 1) <=> /\ ~(AtLineStart(t, s) /\ b = "~")
                                 /\ ~(n # 0 /\ AtTilde(t, s) /\ b \in {".", "R", "?"})
    BY <1>4, <2>1, <2>2 DEF MeantIn
  <2> QED BY <2>3, <2>4
<1> DEFINE Old == {s[k] : k \in {j \in 1..(n - 1) : MeantIn(t, s, j)}}
           AtN(w) == IF n # 0 /\ MeantIn(t, w, n) THEN {Last(s)} ELSE {}
<1>8. MeantOf(t, s) = Old \cup AtN(s)
  <2>1. 1..n = (1..(n - 1)) \cup (IF n = 0 THEN {} ELSE {n})
    BY <1>1
  <2> QED BY <1>1, <1>2, <2>1 DEF MeantOf
<1>9. MeantOf(t, u) = (Old \cup AtN(u)) \cup (IF MeantIn(t, u, n + 1) THEN {i} ELSE {})
  <2>1. 1..(n + 1) = ((1..(n - 1)) \cup (IF n = 0 THEN {} ELSE {n})) \cup {n + 1}
    BY <1>1
  <2>2. {u[k] : k \in {j \in 1..(n - 1) : MeantIn(t, u, j)}} = Old
    <3>1. \A k \in 1..(n - 1) : u[k] = s[k]
      BY <1>1
    <3> QED BY <1>5, <3>1
  <2>3. {u[k] : k \in {j \in (IF n = 0 THEN {} ELSE {n}) : MeantIn(t, u, j)}} = AtN(u)
    <3>1. n # 0 => u[n] = Last(s)
      BY <1>1, <1>2
    <3> QED BY <3>1
  <2>4. {u[k] : k \in {j \in {n + 1} : MeantIn(t, u, j)}}
           = IF MeantIn(t, u, n + 1) THEN {i} ELSE {}
    BY <1>1
  <2>5. MeantOf(t, u) = {u[k] : k \in {j \in 1..(n + 1) : MeantIn(t, u, j)}}
    BY <1>1 DEF MeantOf
  <2> HIDE DEF Old, AtN
  <2> QED BY <2>1, <2>2, <2>3, <2>4, <2>5
<1> HIDE DEF Old
<1>10. AtTilde(t, s) => n # 0
  BY <1>1 DEF AtTilde
<1>11. AtLineStart(t, s) => ~AtTilde(t, s)
  BY <1>1, <1>2 DEF AtTilde, AtLineStart, TildeIn, n
<1>12. /\ AtLineStart(t, s) /\ b = "~" => MeantOf(t, u) = MeantOf(t, s)
       /\ AtLineStart(t, s) /\ b # "~" => MeantOf(t, u) = MeantOf(t, s) \cup {i}
       /\ ~AtLineStart(t, s) /\ ~AtTilde(t, s) => MeantOf(t, u) = MeantOf(t, s) \cup {i}
  BY <1>6, <1>7, <1>8, <1>9, <1>11
<1>13. /\ AtTilde(t, s) /\ b \in {".", "R", "?"} => MeantOf(t, u) = MeantOf(t, s)
       /\ AtTilde(t, s) /\ b = "~" => MeantOf(t, u) = MeantOf(t, s) \cup {i}
       /\ AtTilde(t, s) /\ b \notin {".", "R", "?", "~"} =>
             MeantOf(t, u) = MeantOf(t, s) \cup {Last(s), i}
  BY <1>6, <1>7, <1>8, <1>9, <1>10
<1>14. /\ AtTilde(t, u) <=> AtLineStart(t, s) /\ b = "~"
       /\ AtLineStart(t, u) <=> b = "nl"
  BY <1>1, <1>2, <1>4 DEF AtTilde, AtLineStart
<1> QED
  BY <1>1, <1>2, <1>12, <1>13, <1>14 DEF Adds, Turns

\* A tilde that has just been given is not meant yet.
LEMMA TildeWaits ==
    ASSUME NEW t, NEW s \in Seq(Nat), Increasing(s), AtTilde(t, s)
    PROVE  /\ Last(s) \notin MeantOf(t, s) /\ t[Last(s)] = "~"
           /\ Last(s) \in Range(s) /\ Last(s) \in Nat
           /\ \A x \in Range(s) : x <= Last(s)
           /\ \A x \in MeantOf(t, s) : x < Last(s)
<1> DEFINE n == Len(s)
<1>1. n \in Nat /\ n # 0 /\ DOMAIN s = 1..n /\ \A k \in 1..n : s[k] \in Nat
  BY DEF AtTilde
<1>2. Last(s) = s[n] /\ n \in 1..n /\ ~(n < Len(s)) /\ TildeIn(t, s, n)
  BY <1>1 DEF Last, AtTilde
<1> HIDE DEF n
<1>3. ~MeantIn(t, s, n)
  BY <1>2 DEF MeantIn
<1>4. \A k \in 1..n : k # n => s[k] < s[n]
  BY <1>1, <1>2 DEF Increasing
<1>5. \A x \in MeantOf(t, s) : x < Last(s)
  BY <1>1, <1>2, <1>3, <1>4 DEF MeantOf
<1>6. \A x \in Range(s) : x <= Last(s)
  BY <1>1, <1>2, <1>4 DEF Range
<1>7. Last(s) \in Range(s) /\ Last(s) \in Nat
  BY <1>1, <1>2 DEF Range
<1>8. t[Last(s)] = "~"
  BY <1>2 DEF TildeIn
<1> QED
  BY <1>5, <1>6, <1>7, <1>8

\* What is meant was given.
LEMMA MeantGiven ==
    ASSUME NEW t, NEW s PROVE MeantOf(t, s) \subseteq Range(s)
BY DEF MeantOf, Range

\* A key typed later changes nothing.
LEMMA MeantStays ==
    ASSUME NEW K, NEW t \in Seq(K), NEW b \in K, NEW s \in Seq(1..Len(t))
    PROVE  /\ MeantOf(Append(t, b), s) = MeantOf(t, s)
           /\ \A state : ToldBy(Append(t, b), s, state) = ToldBy(t, s, state)
<1> DEFINE n == Len(s)
           v == Append(t, b)
<1>1. n \in Nat /\ DOMAIN s = 1..n /\ \A k \in 1..n : v[s[k]] = t[s[k]]
  OBVIOUS
<1>2. s = <<>> <=> n = 0
  OBVIOUS
<1> HIDE DEF v
<1>3. \A k \in 1..n : TildeIn(v, s, k) = TildeIn(t, s, k)
  <2> SUFFICES ASSUME NEW k \in 1..n PROVE TildeIn(v, s, k) = TildeIn(t, s, k)
    OBVIOUS
  <2>1. v[s[k]] = t[s[k]] /\ (k # 1 => v[s[k - 1]] = t[s[k - 1]])
    BY <1>1
  <2> QED BY <2>1 DEF TildeIn
<1>4. \A k \in 1..n : MeantIn(v, s, k) = MeantIn(t, s, k)
  <2> SUFFICES ASSUME NEW k \in 1..n PROVE MeantIn(v, s, k) = MeantIn(t, s, k)
    OBVIOUS
  <2>1. /\ v[s[k]] = t[s[k]] /\ (k < n => v[s[k + 1]] = t[s[k + 1]])
        /\ k > 1 => TildeIn(v, s, k - 1) = TildeIn(t, s, k - 1)
        /\ TildeIn(v, s, k) = TildeIn(t, s, k)
    BY <1>1, <1>3
  <2> QED BY <2>1 DEF MeantIn
<1>5. MeantOf(v, s) = MeantOf(t, s)
  BY <1>1, <1>4 DEF MeantOf
<1>6. AtLineStart(v, s) = AtLineStart(t, s) /\ AtTilde(v, s) = AtTilde(t, s)
  BY <1>1, <1>2, <1>3 DEF AtLineStart, AtTilde, Last
<1> QED
  BY <1>5, <1>6 DEF v, ToldBy

-----------------------------------------------------------------------------
(* The escape processor, one byte at a time *)

\* The states of the processor.
States == {"Normal", "AfterNewline", "AfterTilde"}

\* Its records.
Records ==
    [actions : Seq(Seq(Place)), data : Seq(Place), state : States, seen : Seq(Place),
     stop : {"No", "Detach", "Reconnect"}]

\* A processor whose places have been typed; in AfterTilde it has met a tilde.
Processors ==
    {p \in Records :
        p.state = "AfterTilde" => \E i \in Range(p.seen) : typed[i] = "~"}

\* What it has let through.
Flow(p) == FlattenSeq(p.actions) \o p.data

\* The tilde that it waits with.
TheTilde(p) == Max({k \in Range(p.seen) : typed[k] = "~"})

\* A processor that has been given a place, and one that has been told to stop.
Given(p, i) == [p EXCEPT !.seen = Append(@, i)]
Commanded(p, state, stop) == [p EXCEPT !.state = state, !.stop = stop]

\* The state after a byte that is let through.
After(i) == IF typed[i] = "nl" THEN "AfterNewline" ELSE "Normal"

\* A flush moves what was let through and changes nothing else.
LEMMA FlushKeeps ==
    ASSUME NEW p \in Records, NEW q, q = flush_pending(p)
    PROVE  /\ q \in Records
           /\ q.data = <<>> /\ q.seen = p.seen /\ q.state = p.state /\ q.stop = p.stop
           /\ FlattenSeq(q.actions) = Flow(p) /\ Flow(q) = Flow(p)
           /\ Flow(p) \in Seq(Place)
<1> DEFINE acts == IF p.data = <<>> THEN p.actions ELSE Append(p.actions, p.data)
<1>1. /\ acts \in Seq(Seq(Place)) /\ <<>> \in Seq(Place)
      /\ p.actions \in Seq(Seq(Place)) /\ p.data \in Seq(Place)
  BY DEF Records
<1>2. FlattenSeq(p.actions) \in Seq(Place)
  BY <1>1, BytesAppend
<1>3. FlattenSeq(acts) = Flow(p)
  <2>1. CASE p.data = <<>>
    <3>1. FlattenSeq(p.actions) \o <<>> = FlattenSeq(p.actions)
      BY <1>2
    <3> QED BY <2>1, <3>1 DEF Flow
  <2>2. CASE p.data # <<>>
    <3>1. FlattenSeq(Append(p.actions, p.data)) = FlattenSeq(p.actions) \o p.data
      BY <1>1, BytesAppend
    <3> QED BY <2>2, <3>1 DEF Flow
  <2> QED BY <2>1, <2>2
<1>4. Flow(p) \in Seq(Place)
  BY <1>1, <1>2 DEF Flow
<1> HIDE DEF acts
<1>5. q = [p EXCEPT !.actions = acts, !.data = <<>>]
  BY DEF flush_pending, acts
<1>6. /\ q \in Records
      /\ q.actions = acts
      /\ q.data = <<>> /\ q.seen = p.seen /\ q.state = p.state /\ q.stop = p.stop
  <2> QED BY <1>1, <1>5 DEF Records
<1>7. Flow(q) = Flow(p)
  <2>1. FlattenSeq(q.actions) \o <<>> = FlattenSeq(q.actions)
    BY <1>3, <1>4, <1>6
  <2> QED BY <1>3, <1>6, <2>1 DEF Flow
<1> QED
  BY <1>3, <1>4, <1>6, <1>7

\* Places that are let through come after those before them.
LEMMA KeepAdds ==
    ASSUME NEW places \in Seq(Place), NEW state \in States, NEW p \in Records
    PROVE  /\ Keep(p, places, state) \in Records
           /\ Keep(p, places, state).seen = p.seen
           /\ Keep(p, places, state).state = state
           /\ Keep(p, places, state).stop = p.stop
           /\ Flow(Keep(p, places, state)) = Flow(p) \o places
<1> DEFINE d == p.data \o places
           q == Keep(p, places, state)
<1>1. d \in Seq(Place) /\ p.actions \in Seq(Seq(Place)) /\ p.data \in Seq(Place)
  BY DEF Records
<1>2. FlattenSeq(p.actions) \in Seq(Place)
  BY <1>1, BytesAppend
<1>3. FlattenSeq(p.actions) \o d = (FlattenSeq(p.actions) \o p.data) \o places
  <2>1. \A a, b, c \in Seq(Place) : (a \o b) \o c = a \o (b \o c)
    OBVIOUS
  <2> QED BY <1>1, <1>2, <2>1, Zenon
<1> HIDE DEF d
<1>4. q = [p EXCEPT !.data = d, !.state = state]
  BY DEF Keep, d
<1> HIDE DEF q
<1>5. /\ q \in Records
      /\ q.actions = p.actions /\ q.data = d
      /\ q.seen = p.seen /\ q.state = state /\ q.stop = p.stop
  <2> QED BY <1>1, <1>4 DEF Records
<1>6. Flow(q) = Flow(p) \o places
  <2> QED BY <1>3, <1>5 DEF Flow
<1> QED
  BY <1>5, <1>6 DEF q

\* The last tilde among the places given is one of them.
LEMMA TildeThere ==
    ASSUME Len(typed) \in Nat, NEW s \in Seq(Place), \E i \in Range(s) : typed[i] = "~",
           NEW m, m = Max({k \in Range(s) : typed[k] = "~"})
    PROVE  m \in Range(s) /\ m \in Place /\ typed[m] = "~"
           /\ \A k \in Range(s) : typed[k] = "~" => m >= k
<1> DEFINE R == {k \in Range(s) : typed[k] = "~"}
<1>1. R \in SUBSET (1..Len(typed)) /\ R # {}
  BY DEF Range, Place
<1>2. \E x \in R : \A y \in R : x >= y
  <2> HIDE DEF R
  <2> QED BY <1>1, IntervalMax
<1>3. Max(R) \in R /\ \A y \in R : Max(R) >= y
  <2> HIDE DEF R
  <2> QED BY <1>2 DEF Max
<1> QED
  BY <1>1, <1>3 DEF Place

\* The byte is noted as given before it is looked at.
LEMMA GivenFirst ==
    ASSUME NEW p \in Records, NEW i \in Place
    PROVE  /\ Given(p, i) \in Records /\ p.seen \in Seq(Place)
           /\ Given(p, i).seen = Append(p.seen, i)
           /\ Given(p, i).state = p.state /\ Given(p, i).stop = p.stop
           /\ Flow(Given(p, i)) = Flow(p)
           /\ Range(Given(p, i).seen) = Range(p.seen) \cup {i}
<1> DEFINE s == Append(p.seen, i)
           q == Given(p, i)
<1>1. p.seen \in Seq(Place) /\ s \in Seq(Place)
  BY DEF Records
<1>2. Range(s) = Range(p.seen) \cup {i}
  <2> DEFINE one == <<i>>
  <2>1. s = p.seen \o one /\ one \in Seq(Place)
    BY <1>1
  <2>2. Range(one) = {i}
    BY DEF Range
  <2> HIDE DEF one
  <2>3. Range(p.seen \o one) = Range(p.seen) \cup Range(one)
    BY <1>1, <2>1, Joined
  <2> QED BY <2>1, <2>2, <2>3, Zenon
<1>0. q = [p EXCEPT !.seen = s]
  BY DEF Given
<1> HIDE DEF s, q
<1>3. /\ q \in Records /\ q.seen = s /\ q.actions = p.actions /\ q.data = p.data
      /\ q.state = p.state /\ q.stop = p.stop
  BY <1>0, <1>1 DEF Records
<1>4. Flow(q) = Flow(p)
  BY <1>3 DEF Flow
<1> QED
  BY <1>1, <1>2, <1>3, <1>4 DEF s, q

\* A processor with another state or an order to stop.
LEMMA CommandKeeps ==
    ASSUME NEW p \in Records, NEW state \in States,
           NEW stop \in {"No", "Detach", "Reconnect"}
    PROVE  /\ Commanded(p, state, stop) \in Records
           /\ Commanded(p, state, stop).seen = p.seen
           /\ Commanded(p, state, stop).state = state
           /\ Commanded(p, state, stop).stop = stop
           /\ Flow(Commanded(p, state, stop)) = Flow(p)
<1> DEFINE q == Commanded(p, state, stop)
<1>1. /\ q \in Records /\ q.seen = p.seen /\ q.state = state /\ q.stop = stop
      /\ q.actions = p.actions /\ q.data = p.data
  BY DEF Records, Commanded
<1> HIDE DEF q
<1>2. Flow(q) = Flow(p)
  BY <1>1 DEF Flow
<1> QED
  BY <1>1, <1>2 DEF q

\* What a byte does to a processor that goes on: in which state it leaves it,
\* and what it lets through.
Effect(p, i, r) ==
    \/ /\ p.state = "Normal"
       /\ r.state = After(i) /\ r.stop = "No" /\ Flow(r) = Flow(p) \o <<i>>
    \/ /\ p.state = "AfterNewline" /\ typed[i] # "~"
       /\ r.state = After(i) /\ r.stop = "No" /\ Flow(r) = Flow(p) \o <<i>>
    \/ /\ p.state = "AfterNewline" /\ typed[i] = "~"
       /\ r.state = "AfterTilde" /\ r.stop = "No" /\ Flow(r) = Flow(p)
    \/ /\ p.state = "AfterTilde" /\ typed[i] = "."
       /\ r.state = "AfterTilde" /\ r.stop = "Detach" /\ Flow(r) = Flow(p)
    \/ /\ p.state = "AfterTilde" /\ typed[i] \in {"R", "?"}
       /\ r.state = "Normal" /\ r.stop # "Detach" /\ Flow(r) = Flow(p)
    \/ /\ p.state = "AfterTilde" /\ typed[i] = "~"
       /\ r.state = "Normal" /\ r.stop = "No" /\ Flow(r) = Flow(p) \o <<i>>
    \/ /\ p.state = "AfterTilde" /\ typed[i] \notin {".", "R", "?", "~"}
       /\ r.state = After(i) /\ r.stop = "No"
       /\ Flow(r) = Flow(p) \o <<TheTilde(p), i>>

\* A byte is added to those seen and has the effect of its case.
LEMMA ByteStep ==
    ASSUME Len(typed) \in Nat, NEW p \in Processors, NEW i \in Place, p.stop = "No",
           NEW r, r = ProcessByte(p, i)
    PROVE  r \in Processors /\ r.seen = Append(p.seen, i) /\ Effect(p, i, r)
<1> DEFINE m == TheTilde(p)
           q == Given(p, i)
<1>1. p \in Records /\ p.state \in States
  BY DEF Processors, Records
<1>2. /\ q \in Records /\ q.seen = Append(p.seen, i) /\ p.seen \in Seq(Place)
      /\ q.state = p.state /\ q.stop = "No" /\ Flow(q) = Flow(p)
      /\ Range(q.seen) = Range(p.seen) \cup {i}
  BY <1>1, GivenFirst
<1>3. p.state = "AfterTilde" => /\ m \in Place /\ \E k \in Range(q.seen) : typed[k] = "~"
  <2> SUFFICES ASSUME p.state = "AfterTilde"
               PROVE  m \in Place /\ \E k \in Range(q.seen) : typed[k] = "~"
    OBVIOUS
  <2>1. \E k \in Range(p.seen) : typed[k] = "~"
    BY DEF Processors
  <2>2. m \in Place
    BY <1>2, <2>1, TildeThere DEF TheTilde
  <2> QED BY <1>2, <2>1, <2>2
<1>4. r = CASE p.state = "Normal" -> Normal(q, i)
            [] p.state = "AfterNewline" -> AfterNewline(q, i)
            [] p.state = "AfterTilde" -> AfterTilde(q, i, m)
  BY DEF Given, ProcessByte, TheTilde
<1> HIDE DEF m, q
<1>5. After(i) \in States /\ States = {"Normal", "AfterNewline", "AfterTilde"}
  BY DEF After, States
<1>f. PICK f : f = flush_pending(q)
  OBVIOUS
<1>6. /\ f \in Records /\ f.seen = q.seen /\ f.state = q.state /\ f.stop = q.stop
      /\ Flow(f) = Flow(p)
  BY <1>2, <1>f, FlushKeeps
<1>7. <<i>> \in Seq(Place) /\ (m \in Place => <<m, i>> \in Seq(Place))
  OBVIOUS
<1>8. ASSUME NEW places \in Seq(Place), NEW state \in States \ {"AfterTilde"},
             r = Keep(q, places, state)
      PROVE  /\ r \in Processors /\ r.seen = Append(p.seen, i)
             /\ r.state = state /\ r.stop = "No" /\ Flow(r) = Flow(p) \o places
  <2>1. /\ r \in Records /\ r.seen = q.seen /\ r.state = state /\ r.stop = q.stop
        /\ Flow(r) = Flow(q) \o places
    <3>1. state \in States
      OBVIOUS
    <3>2. q \in Records /\ places \in Seq(Place)
      BY <1>2
    <3>3. /\ Keep(q, places, state) \in Records
          /\ Keep(q, places, state).seen = q.seen
          /\ Keep(q, places, state).state = state
          /\ Keep(q, places, state).stop = q.stop
          /\ Flow(Keep(q, places, state)) = Flow(q) \o places
      BY <3>1, <3>2, KeepAdds
    <3>4. r = Keep(q, places, state)
      BY <1>8
    <3> QED BY <3>3, <3>4
  <2> QED BY <1>2, <2>1 DEF Processors
<1>9. ASSUME NEW state \in States, NEW stop \in {"No", "Detach", "Reconnect"},
             state = "AfterTilde" => \E k \in Range(q.seen) : typed[k] = "~",
             r = Commanded(f, state, stop)
      PROVE  /\ r \in Processors /\ r.seen = Append(p.seen, i)
             /\ r.state = state /\ r.stop = stop /\ Flow(r) = Flow(p)
  <2>1. /\ r \in Records /\ r.seen = f.seen /\ r.state = state /\ r.stop = stop
        /\ Flow(r) = Flow(f)
    BY <1>6, <1>9, CommandKeeps
  <2> QED BY <1>2, <1>6, <1>9, <2>1 DEF Processors
<1>10. /\ [f EXCEPT !.state = "AfterTilde"] = Commanded(f, "AfterTilde", f.stop)
       /\ [f EXCEPT !.state = "Normal"] = Commanded(f, "Normal", f.stop)
       /\ [f EXCEPT !.stop = "Detach"] = Commanded(f, f.state, "Detach")
       /\ [f EXCEPT !.stop = "Reconnect", !.state = "Normal"] = Commanded(f, "Normal", "Reconnect")
  BY <1>6 DEF Records, Commanded
<1>11. CASE p.state = "Normal"
  <2>1. r = Keep(q, <<i>>, After(i))
    BY <1>4, <1>11 DEF Normal, After
  <2> QED BY <1>5, <1>7, <1>8, <1>11, <2>1 DEF Effect, After
<1>12. CASE p.state = "AfterNewline"
  <2>1. CASE typed[i] = "~"
    <3>1. r = [f EXCEPT !.state = "AfterTilde"]
      BY <1>4, <1>f, <1>12, <2>1 DEF AfterNewline
    <3>2. i \in Range(q.seen)
      BY <1>2
    <3> QED BY <1>2, <1>5, <1>6, <1>9, <1>10, <1>12, <2>1, <3>1, <3>2 DEF Effect
  <2>2. CASE typed[i] # "~"
    <3>1. r = Keep(q, <<i>>, After(i))
      BY <1>4, <1>12, <2>2 DEF AfterNewline, After
    <3> QED BY <1>5, <1>7, <1>8, <1>12, <2>2, <3>1 DEF Effect, After
  <2> QED BY <2>1, <2>2
<1>13. CASE p.state = "AfterTilde"
  <2>0. r = AfterTilde(q, i, m) /\ m \in Place
    BY <1>3, <1>4, <1>13
  <2>1. CASE typed[i] = "."
    <3>1. r = [f EXCEPT !.stop = "Detach"]
      BY <1>f, <2>0, <2>1 DEF AfterTilde
    <3> QED BY <1>2, <1>3, <1>5, <1>6, <1>9, <1>10, <1>13, <2>1, <3>1 DEF Effect
  <2>2. CASE typed[i] = "R"
    <3>1. r = [f EXCEPT !.stop = "Reconnect", !.state = "Normal"]
      BY <1>f, <2>0, <2>2 DEF AfterTilde
    <3> QED BY <1>5, <1>6, <1>9, <1>10, <1>13, <2>2, <3>1 DEF Effect
  <2>3. CASE typed[i] = "?"
    <3>1. r = [f EXCEPT !.state = "Normal"]
      BY <1>f, <2>0, <2>3 DEF AfterTilde
    <3> QED BY <1>2, <1>5, <1>6, <1>9, <1>10, <1>13, <2>3, <3>1 DEF Effect
  <2>4. CASE typed[i] = "~"
    <3>1. r = Keep(q, <<i>>, "Normal")
      BY <2>0, <2>4 DEF AfterTilde
    <3> QED BY <1>5, <1>7, <1>8, <1>13, <2>4, <3>1 DEF Effect
  <2>5. CASE typed[i] \notin {".", "R", "?", "~"}
    <3>1. r = Keep(q, <<m, i>>, After(i))
      BY <2>0, <2>5 DEF AfterTilde, After
    <3> QED BY <2>0, <1>5, <1>7, <1>8, <1>13, <2>5, <3>1 DEF Effect, After, m
  <2> QED BY <2>1, <2>2, <2>3, <2>4, <2>5
<1> QED
  BY <1>1, <1>11, <1>12, <1>13 DEF States

\* A processor stays one; once stopped it takes no byte.
LEMMA ProcessByteType ==
    ASSUME Len(typed) \in Nat, NEW p \in Processors, NEW i \in Place
    PROVE  ProcessByte(p, i) \in Processors /\ (p.stop # "No" => ProcessByte(p, i) = p)
<1>1. CASE p.stop = "No"
  BY <1>1, ByteStep
<1>2. CASE p.stop # "No"
  BY <1>2 DEF ProcessByte
<1> QED
  BY <1>1, <1>2

\* A read of stdin is given to the processor byte by byte.
LEMMA ProcessSteps ==
    ASSUME Len(typed) \in Nat, NEW t \in Processors, NEW bytes \in Seq(Place)
    PROVE  \E f \in [0..Len(bytes) -> Processors] :
              /\ f[0] = t
              /\ \A i \in 1..Len(bytes) : f[i] = ProcessByte(f[i - 1], bytes[i])
              /\ FoldLeft(ProcessByte, t, bytes) = f[Len(bytes)]
<1> DEFINE n == Len(bytes)
           G == [p \in Processors \X (1..n) |-> ProcessByte(p[1], bytes[p[2]])]
           Recurs(h) == h = [s \in SUBSET (1..n) |-> IF s = {} THEN t
                              ELSE ProcessByte(h[s \ {Max(s)}], bytes[Max(s)])]
           iter == CHOOSE h : Recurs(h)
<1>1. n \in Nat /\ DOMAIN bytes = 1..n
  OBVIOUS
<1>2. FoldLeft(ProcessByte, t, bytes) = iter[1..n]
  BY <1>1 DEF FoldLeft, MapThenFoldSet
<1>3. Recurs(iter)
  <2>1. G \in [Processors \X (1..n) -> Processors]
    BY ProcessByteType
  <2>2. PICK g : Folds(Processors, t, n, G, n, g)
    <3> HIDE DEF G, n
    <3> QED BY <2>1, <1>1, FoldExists
  <2>3. \A s \in SUBSET (1..n) : s # {} => Max(s) \in s
    <3> SUFFICES ASSUME NEW s \in SUBSET (1..n), s # {} PROVE Max(s) \in s
      OBVIOUS
    <3>1. \E x \in s : \A y \in s : x >= y
      BY <1>1, IntervalMax
    <3> QED BY <3>1 DEF Max
  <2>4. \A s \in SUBSET (1..n) : s # {} =>
          G[<<g[s \ {Max(s)}], Max(s)>>] = ProcessByte(g[s \ {Max(s)}], bytes[Max(s)])
    <3> SUFFICES ASSUME NEW s \in SUBSET (1..n), s # {}
                 PROVE  G[<<g[s \ {Max(s)}], Max(s)>>]
                          = ProcessByte(g[s \ {Max(s)}], bytes[Max(s)])
      OBVIOUS
    <3>1. g[s \ {Max(s)}] \in Processors
      BY <2>2 DEF Folds
    <3>2. Max(s) \in 1..n
      BY <2>3
    <3> QED BY <3>1, <3>2
  <2>5. Recurs(g)
    BY <2>2, <2>4, Zenon DEF Folds
  <2> QED BY <2>5, Zenon
<1> DEFINE f == [i \in 0..n |-> iter[1..i]]
<1>4. f[0] = t
  <2>1. 1..0 = {} /\ {} \in SUBSET (1..n)
    OBVIOUS
  <2>2. iter[{}] = t
    <3> HIDE DEF iter
    <3> QED BY <1>3, <2>1
  <2>3. f[0] = iter[1..0]
    BY <1>1
  <2> QED BY <2>1, <2>2, <2>3
<1>5. \A i \in 1..n : f[i] = ProcessByte(f[i - 1], bytes[i])
  <2> SUFFICES ASSUME NEW i \in 1..n PROVE f[i] = ProcessByte(f[i - 1], bytes[i])
    OBVIOUS
  <2>1. Max(1..i) = i /\ (1..i) \ {Max(1..i)} = 1..(i - 1)
    <3>1. i - 1 \in Nat /\ (i - 1) + 1 = i /\ i \in 1..i
      BY <1>1
    <3>2. Max(1..i) = i
      BY <3>1, MaxOfInterval
    <3> QED BY <3>2
  <2>2. iter[1..i] = ProcessByte(iter[1..(i - 1)], bytes[i])
    <3>1. 1..i \in SUBSET (1..n) /\ i \in 1..i
      BY <1>1
    <3> HIDE DEF iter
    <3> QED BY <1>3, <2>1, <3>1
  <2>3. f[i] = iter[1..i] /\ f[i - 1] = iter[1..(i - 1)]
    BY <1>1
  <2> QED BY <2>2, <2>3
<1>6. f \in [0..n -> Processors]
  <2> DEFINE P == {i \in Nat : i <= n => f[i] \in Processors}
  <2>1. 0 \in P
    BY <1>4
  <2>2. ASSUME NEW i \in Nat, i \in P PROVE i + 1 \in P
    <3>1. SUFFICES ASSUME i + 1 <= n PROVE f[i + 1] \in Processors
      OBVIOUS
    <3>2. f[i] \in Processors
      BY <2>2, <3>1
    <3>3. f[i + 1] = ProcessByte(f[i], bytes[i + 1])
      <4>1. i + 1 \in 1..n /\ (i + 1) - 1 = i
        BY <1>1, <3>1
      <4> HIDE DEF f
      <4> QED BY <1>5, <4>1
    <3>4. bytes[i + 1] \in Place
      BY <1>1, <3>1
    <3> HIDE DEF f, n, G, Recurs, P
    <3> QED BY <3>2, <3>3, <3>4, ProcessByteType
  <2>3. Nat \subseteq P
    <3> HIDE DEF P
    <3> QED BY <2>1, <2>2, NatSetInduction
  <2>4. \A i \in 0..n : f[i] \in Processors
    <3> SUFFICES ASSUME NEW i \in 0..n PROVE f[i] \in Processors
      OBVIOUS
    <3>1. i \in Nat /\ i <= n
      BY <1>1
    <3>2. i \in P
      BY <3>1, <2>3
    <3> HIDE DEF f
    <3> QED BY <3>1, <3>2
  <2>5. f = [i \in 0..n |-> f[i]]
    OBVIOUS
  <2> HIDE DEF f
  <2> QED BY <2>4, <2>5
<1>7. FoldLeft(ProcessByte, t, bytes) = f[n]
  BY <1>1, <1>2
<1> HIDE DEF f
<1> QED
  BY <1>4, <1>5, <1>6, <1>7

-----------------------------------------------------------------------------
(* What the processor lets through is what is meant *)

\* One place more, or two.
LEMMA OneMore ==
    ASSUME NEW w \in Seq(Nat), NEW i \in Nat
    PROVE  /\ w \o <<i>> \in Seq(Nat) /\ w \o <<i>> = Append(w, i)
           /\ Range(w \o <<i>>) = Range(w) \cup {i}
           /\ Increasing(w) /\ (\A x \in Range(w) : x < i) => Increasing(w \o <<i>>)
<1> DEFINE one == <<i>>
<1>1. one \in Seq(Nat) /\ Range(one) = {i} /\ w \o one = Append(w, i)
  BY DEF Range
<1>2. Increasing(one)
  BY DEF Increasing
<1> HIDE DEF one
<1>3. w \o one \in Seq(Nat) /\ Range(w \o one) = Range(w) \cup Range(one)
  <2>1. one \in Seq(Nat)
    BY <1>1
  <2> QED BY <2>1, Joined
<1>4. Increasing(w) /\ (\A x \in Range(w) : x < i) => Increasing(w \o one)
  BY <1>1, <1>2, JoinedInOrder
<1> QED
  BY <1>1, <1>3, <1>4 DEF one

\* Two larger numbers at the end leave an increasing sequence increasing.
LEMMA TwoMore ==
    ASSUME NEW w \in Seq(Nat), NEW m \in Nat, NEW i \in Nat, m < i
    PROVE  /\ Range(w \o <<m, i>>) = Range(w) \cup {m, i}
           /\ Increasing(w) /\ (\A x \in Range(w) : x < m) => Increasing(w \o <<m, i>>)
<1> DEFINE two == <<m, i>>
<1>1. two \in Seq(Nat) /\ Range(two) = {m, i}
  <2>1. two \in Seq(Nat) /\ DOMAIN two = {1, 2} /\ two[1] = m /\ two[2] = i
    OBVIOUS
  <2> QED BY <2>1 DEF Range
<1>2. Increasing(two)
  BY DEF Increasing
<1> HIDE DEF two
<1>3. Range(w \o two) = Range(w) \cup Range(two)
  BY <1>1, Joined
<1>4. Increasing(w) /\ (\A x \in Range(w) : x < m) => Increasing(w \o two)
  <2> SUFFICES ASSUME Increasing(w), \A x \in Range(w) : x < m PROVE Increasing(w \o two)
    OBVIOUS
  <2>1. Range(w) \subseteq Nat
    BY Joined
  <2>2. \A x \in Range(w), y \in Range(two) : x < y
    BY <1>1, <2>1
  <2> QED BY <1>1, <1>2, <2>2, JoinedInOrder
<1> QED
  BY <1>1, <1>3, <1>4 DEF two

\* Before it, sent, is what was on its way; gone are the places lost so far.
Good(sent, gone, p) ==
    /\ Increasing(p.seen)
    /\ p.stop # "Detach" =>
          /\ ToldBy(typed, p.seen, p.state)
          /\ p.state = "AfterTilde" => Last(p.seen) \notin gone
    /\ Increasing(sent \o Flow(p))
    /\ Range(sent \o Flow(p)) = MeantOf(typed, p.seen) \ gone

\* What was let through is a sequence of places.
LEMMA FlowType ==
    ASSUME NEW p \in Processors
    PROVE  Flow(p) \in Seq(Place) /\ p \in Records /\ p.seen \in Seq(Place)
<1>1. p \in Records
  BY DEF Processors
<1>2. p.seen \in Seq(Place)
  BY <1>1 DEF Records
<1>3. Flow(p) \in Seq(Place)
  <2> DEFINE q == flush_pending(p)
  <2>1. q = flush_pending(p)
    OBVIOUS
  <2> HIDE DEF q
  <2> QED BY <1>1, <2>1, FlushKeeps
<1> QED
  BY <1>1, <1>2, <1>3

\* Places are numbers.
LEMMA PlaceNat ==
    ASSUME Len(typed) \in Nat, NEW s \in Seq(Place) PROVE s \in Seq(Nat)
BY DEF Place

\* One byte more: the processor still lets through what is meant and not lost.
LEMMA GoodStep ==
    ASSUME Len(typed) \in Nat, NEW sent \in Seq(Place), NEW gone, NEW p \in Processors,
           NEW i \in Place, p.stop = "No", i \notin gone, \A x \in Range(p.seen) : x < i,
           Good(sent, gone, p)
    PROVE  Good(sent, gone, ProcessByte(p, i))
<1> DEFINE s == p.seen
           u == Append(s, i)
           w == sent \o Flow(p)
           b == typed[i]
<1>0. PICK r : r = ProcessByte(p, i)
  OBVIOUS
<1>1. r.seen = u /\ Effect(p, i, r)
  BY <1>0, ByteStep
<1>2. Flow(p) \in Seq(Place) /\ s \in Seq(Place) /\ p.state \in States /\ i \in Nat
  <2>1. i \in Nat
    BY DEF Place
  <2>2. Flow(p) \in Seq(Place) /\ s \in Seq(Place) /\ p \in Records
    BY FlowType
  <2> QED BY <2>1, <2>2 DEF Records
<1>3. w \in Seq(Place) /\ w \in Seq(Nat) /\ s \in Seq(Nat)
  <2>1. w \in Seq(Place)
    BY <1>2
  <2> HIDE DEF w, s
  <2> QED BY <1>2, <2>1, PlaceNat
<1>4. /\ Increasing(s) /\ ToldBy(typed, s, p.state)
      /\ p.state = "AfterTilde" => Last(s) \notin gone
      /\ Increasing(w) /\ Range(w) = MeantOf(typed, s) \ gone
  BY DEF Good
<1>5. \A x \in Range(w) : x < i
  BY <1>4, MeantGiven
<1>6. \A places \in Seq(Place) : sent \o (Flow(p) \o places) = w \o places
  BY <1>2
<1> HIDE DEF s, u, w, b
<1>7. /\ Last(u) = i /\ Increasing(u)
      /\ AtTilde(typed, u) <=> AtLineStart(typed, s) /\ b = "~"
      /\ AtLineStart(typed, u) <=> b = "nl"
  <2>1. u = Append(s, i) /\ b = typed[i]
    BY DEF u, b
  <2>2. s \in Seq(Nat) /\ i \in Nat
    BY <1>2, <1>3
  <2>5. Turns(typed, s, i, b, u)
    BY <2>1, <2>2, MeantAppend
  <2>3. \A x \in Range(s) : x < i
    BY DEF s
  <2>4. Increasing(s \o <<i>>) /\ s \o <<i>> = u
    BY <1>2, <1>3, <1>4, <2>1, <2>3, OneMore
  <2> QED BY <2>4, <2>5 DEF Turns
<1>8. Adds(typed, s, i, b, u)
  <2>1. u = Append(s, i) /\ b = typed[i]
    BY DEF u, b
  <2>2. s \in Seq(Nat) /\ i \in Nat
    BY <1>2, <1>3
  <2> QED BY <2>1, <2>2, MeantAppend
<1>9. /\ p.state = "AfterNewline" <=> AtLineStart(typed, s)
      /\ p.state = "AfterTilde" <=> AtTilde(typed, s)
  BY <1>4 DEF ToldBy
<1>10. ASSUME MeantOf(typed, u) = MeantOf(typed, s), Flow(r) = Flow(p)
       PROVE  /\ Increasing(sent \o Flow(r))
              /\ Range(sent \o Flow(r)) = MeantOf(typed, u) \ gone
  BY <1>4, <1>10 DEF w
<1>11. ASSUME MeantOf(typed, u) = MeantOf(typed, s) \cup {i}, Flow(r) = Flow(p) \o <<i>>
       PROVE  /\ Increasing(sent \o Flow(r))
              /\ Range(sent \o Flow(r)) = MeantOf(typed, u) \ gone
  <2>1. <<i>> \in Seq(Place)
    OBVIOUS
  <2>2. sent \o Flow(r) = w \o <<i>>
    BY <1>6, <1>11, <2>1
  <2>3. Increasing(w \o <<i>>) /\ Range(w \o <<i>>) = Range(w) \cup {i}
    BY <1>2, <1>3, <1>4, <1>5, OneMore
  <2>4. Range(w) \cup {i} = MeantOf(typed, u) \ gone
    BY <1>4, <1>11
  <2> QED BY <2>2, <2>3, <2>4
<1>12. ASSUME AtTilde(typed, s), MeantOf(typed, u) = MeantOf(typed, s) \cup {Last(s), i},
              Flow(r) = Flow(p) \o <<TheTilde(p), i>>
       PROVE  /\ Increasing(sent \o Flow(r))
              /\ Range(sent \o Flow(r)) = MeantOf(typed, u) \ gone
  <2> DEFINE m == Last(s)
  <2>1. /\ m \notin MeantOf(typed, s) /\ typed[m] = "~" /\ m \in Range(s) /\ m \in Nat
        /\ \A x \in Range(s) : x <= m
        /\ \A x \in MeantOf(typed, s) : x < m
    BY <1>3, <1>4, <1>12, TildeWaits
  <2> HIDE DEF m
  <2>2. TheTilde(p) = m /\ m \in Place
    <3>1. \E k \in Range(s) : typed[k] = "~"
      BY <2>1
    <3>2. PICK n : n = TheTilde(p)
      OBVIOUS
    <3>3. n = Max({k \in Range(s) : typed[k] = "~"})
      BY <3>2 DEF TheTilde, s
    <3>4. n \in Range(s) /\ n \in Place /\ \A k \in Range(s) : typed[k] = "~" => n >= k
      BY <1>2, <3>1, <3>3, TildeThere
    <3>5. n \in Nat
      BY <3>4 DEF Place
    <3>6. n <= m /\ n >= m
      BY <2>1, <3>4
    <3>7. n = m
      BY <2>1, <3>5, <3>6
    <3> QED BY <3>2, <3>4, <3>7
  <2>3. <<m, i>> \in Seq(Place)
    BY <2>2
  <2>4. sent \o Flow(r) = w \o <<m, i>>
    BY <1>6, <1>12, <2>2, <2>3
  <2>5. m < i
    BY <2>1 DEF s
  <2>6. \A x \in Range(w) : x < m
    BY <1>4, <2>1
  <2>7. Increasing(w \o <<m, i>>) /\ Range(w \o <<m, i>>) = Range(w) \cup {m, i}
    BY <1>2, <1>3, <1>4, <2>1, <2>5, <2>6, TwoMore
  <2>8. m \notin gone
    BY <1>4, <1>9, <1>12 DEF m
  <2>9. Range(w) \cup {m, i} = MeantOf(typed, u) \ gone
    BY <1>4, <1>12, <2>8 DEF m
  <2> QED BY <2>4, <2>7, <2>9
<1>13. /\ Increasing(sent \o Flow(r))
       /\ Range(sent \o Flow(r)) = MeantOf(typed, u) \ gone
  BY <1>1, <1>8, <1>9, <1>10, <1>11, <1>12 DEF Effect, Adds, b
<1>14. r.stop # "Detach" => ToldBy(typed, u, r.state)
  BY <1>1, <1>2, <1>7, <1>9 DEF Effect, b, ToldBy, After, States
<1>15. Good(sent, gone, r)
  BY <1>1, <1>7, <1>13, <1>14 DEF Good
<1> QED
  BY <1>0, <1>15

\* A prefix grows by its next element.
LEMMA PrefixMore ==
    ASSUME NEW S, NEW q \in Seq(S), NEW j \in Nat, j < Len(q), NEW i, i = q[j + 1],
           NEW a \in Seq(S)
    PROVE  /\ i \in S
           /\ a \o SubSeq(q, 1, j + 1) = Append(a \o SubSeq(q, 1, j), i)
<1> DEFINE one == SubSeq(q, 1, j)
           two == SubSeq(q, 1, j + 1)
<1>1. i \in S /\ j + 1 \in 1..Len(q)
  OBVIOUS
<1>2. one \in Seq(S) /\ two \in Seq(S)
  BY <1>1
<1>3. Len(one) = j /\ Len(two) = j + 1
  BY <1>1
<1>4. /\ \A k \in 1..j : one[k] = q[k]
      /\ \A k \in 1..(j + 1) : two[k] = q[k]
  BY <1>1
<1> HIDE DEF one, two
<1>5. two = Append(one, i)
  BY <1>1, <1>2, <1>3, <1>4
<1>6. a \o Append(one, i) = Append(a \o one, i)
  BY <1>1, <1>2
<1> QED
  BY <1>1, <1>5, <1>6 DEF one, two

\* What is read comes after what has been given: the next place is the highest.
LEMMA NextHighest ==
    ASSUME NEW a \in Seq(Nat), NEW q \in Seq(Nat), Increasing(a \o q),
           NEW j \in Nat, j < Len(q)
    PROVE  /\ \A x \in Range(a \o SubSeq(q, 1, j)) : x < q[j + 1]
           /\ q[j + 1] \in Range(q)
<1>1. Increasing(q) /\ \A x \in Range(a), y \in Range(q) : x < y
  BY JoinedInOrder
<1>2. SubSeq(q, 1, j) \in Seq(Nat) /\ j + 1 \in DOMAIN q
  OBVIOUS
<1>3. q[j + 1] \in Range(q)
  BY <1>2 DEF Range
<1>4. \A x \in Range(SubSeq(q, 1, j)) : x < q[j + 1]
  <2> SUFFICES ASSUME NEW k \in DOMAIN SubSeq(q, 1, j)
               PROVE  SubSeq(q, 1, j)[k] < q[j + 1]
    BY DEF Range
  <2>1. k \in 1..j /\ SubSeq(q, 1, j)[k] = q[k]
    OBVIOUS
  <2>2. k \in DOMAIN q /\ k < j + 1
    BY <2>1
  <2> QED BY <1>1, <1>2, <2>1, <2>2 DEF Increasing
<1>5. \A c \in Seq(Nat) : Range(a \o c) = Range(a) \cup Range(c)
  BY Joined
<1>6. \A x \in Range(a) : x < q[j + 1]
  BY <1>1, <1>3
<1>7. Range(a \o SubSeq(q, 1, j)) = Range(a) \cup Range(SubSeq(q, 1, j))
  BY <1>2, <1>5
<1> QED
  BY <1>3, <1>4, <1>6, <1>7

\* What the processor makes of a read, byte by byte until a command stops it.
Came(t, q, j, p) ==
    /\ \E m \in 0..j : p.seen = t.seen \o SubSeq(q, 1, m)
    /\ p.stop = "No" => p.seen = t.seen \o SubSeq(q, 1, j)

\* One byte more of the read is seen, unless a command has stopped it.
LEMMA CameStep ==
    ASSUME Len(typed) \in Nat, NEW t \in Processors, NEW q \in Seq(Place),
           NEW j \in Nat, j < Len(q), NEW p \in Processors, Came(t, q, j, p),
           NEW r, r = ProcessByte(p, q[j + 1])
    PROVE  Came(t, q, j + 1, r)
<1>0. q[j + 1] \in Place /\ t.seen \in Seq(Place)
  <2>1. t.seen \in Seq(Place)
    BY FlowType
  <2>2. j + 1 \in 1..Len(q)
    OBVIOUS
  <2> QED BY <2>1, <2>2
<1>1. CASE p.stop # "No"
  <2>1. r = p
    BY <1>0, <1>1, ProcessByteType
  <2>2. PICK m \in 0..j : p.seen = t.seen \o SubSeq(q, 1, m)
    BY DEF Came
  <2>3. m \in 0..(j + 1)
    OBVIOUS
  <2> QED BY <1>1, <2>1, <2>2, <2>3 DEF Came
<1>2. CASE p.stop = "No"
  <2>1. r.seen = Append(p.seen, q[j + 1])
    BY <1>0, <1>2, ByteStep
  <2>2. p.seen = t.seen \o SubSeq(q, 1, j)
    BY <1>2 DEF Came
  <2>3. r.seen = t.seen \o SubSeq(q, 1, j + 1)
    <3> DEFINE a == t.seen
               i == q[j + 1]
    <3>1. a \in Seq(Place) /\ i = q[j + 1]
      BY <1>0
    <3>2. r.seen = Append(a \o SubSeq(q, 1, j), i)
      BY <2>1, <2>2
    <3> HIDE DEF a, i
    <3>3. a \o SubSeq(q, 1, j + 1) = Append(a \o SubSeq(q, 1, j), i)
      BY <3>1, PrefixMore
    <3>4. r.seen = a \o SubSeq(q, 1, j + 1)
      BY <3>2, <3>3
    <3> QED BY <3>4 DEF a
  <2>4. j + 1 \in 0..(j + 1)
    OBVIOUS
  <2> QED BY <2>3, <2>4 DEF Came
<1> QED
  BY <1>1, <1>2

\* In a read, each byte keeps what was let through right.
LEMMA GoodStays ==
    ASSUME Len(typed) \in Nat, NEW t \in Processors, NEW q \in Seq(Place),
           NEW j \in Nat, j < Len(q), NEW p \in Processors, Came(t, q, j, p),
           NEW sent \in Seq(Place), NEW gone, Increasing(t.seen \o q),
           Range(q) \cap gone = {}, Good(sent, gone, p),
           NEW r, r = ProcessByte(p, q[j + 1])
    PROVE  Good(sent, gone, r)
<1>0. q[j + 1] \in Place /\ t.seen \in Seq(Place) /\ t.seen \in Seq(Nat) /\ q \in Seq(Nat)
  <2>1. t.seen \in Seq(Place)
    BY FlowType
  <2>2. j + 1 \in 1..Len(q)
    OBVIOUS
  <2>3. t.seen \in Seq(Nat) /\ q \in Seq(Nat)
    BY <2>1, PlaceNat
  <2> QED BY <2>1, <2>2, <2>3
<1>1. CASE p.stop # "No"
  <2>1. r = p
    BY <1>0, <1>1, ProcessByteType
  <2> QED BY <2>1
<1>2. CASE p.stop = "No"
  <2>1. p.seen = t.seen \o SubSeq(q, 1, j)
    BY <1>2 DEF Came
  <2>2. /\ \A x \in Range(p.seen) : x < q[j + 1]
        /\ q[j + 1] \in Range(q)
    BY <1>0, <2>1, NextHighest
  <2>3. q[j + 1] \notin gone
    BY <2>2
  <2>4. Good(sent, gone, ProcessByte(p, q[j + 1]))
    BY <1>0, <1>2, <2>2, <2>3, GoodStep
  <2> QED BY <2>4
<1> QED
  BY <1>1, <1>2

\* What the whole read q makes of the processor t.
Made(t, q, sent, gone, r) ==
    /\ r \in Processors
    /\ \E m \in 0..Len(q) : r.seen = t.seen \o SubSeq(q, 1, m)
    /\ Range(q) \cap gone = {} /\ Good(sent, gone, t) => Good(sent, gone, r)

\* So does the whole read, by induction over its bytes.
LEMMA FoldGood ==
    ASSUME Len(typed) \in Nat, NEW t \in Processors, NEW q \in Seq(Place),
           t.stop = "No", NEW sent \in Seq(Place), NEW gone, Increasing(t.seen \o q),
           NEW r, r = FoldLeft(ProcessByte, t, q)
    PROVE  Made(t, q, sent, gone, r)
<1> DEFINE Fine == Range(q) \cap gone = {} /\ Good(sent, gone, t)
<1>1. PICK f \in [0..Len(q) -> Processors] :
              /\ f[0] = t
              /\ \A i \in 1..Len(q) : f[i] = ProcessByte(f[i - 1], q[i])
              /\ FoldLeft(ProcessByte, t, q) = f[Len(q)]
  BY ProcessSteps
<1> DEFINE T == {j \in Nat : j <= Len(q) =>
                    Came(t, q, j, f[j]) /\ (Fine => Good(sent, gone, f[j]))}
<1>2. 0 \in T
  <2>1. t.seen \in Seq(Place) /\ SubSeq(q, 1, 0) = <<>>
    BY FlowType
  <2>2. t.seen = t.seen \o SubSeq(q, 1, 0)
    BY <2>1
  <2>3. Came(t, q, 0, t)
    BY <2>2 DEF Came
  <2> QED BY <1>1, <2>3
<1>3. \A j \in Nat : j \in T => j + 1 \in T
  <2> SUFFICES ASSUME NEW j \in Nat, j \in T, j + 1 <= Len(q)
               PROVE  /\ Came(t, q, j + 1, f[j + 1])
                      /\ Fine => Good(sent, gone, f[j + 1])
    OBVIOUS
  <2>1. j < Len(q) /\ j \in 0..Len(q) /\ j + 1 \in 1..Len(q)
    OBVIOUS
  <2>2. f[j] \in Processors /\ Came(t, q, j, f[j]) /\ (Fine => Good(sent, gone, f[j]))
    BY <2>1
  <2>3. f[j + 1] = ProcessByte(f[j], q[j + 1])
    BY <1>1, <2>1
  <2>4. Came(t, q, j + 1, f[j + 1])
    BY <2>1, <2>2, <2>3, CameStep
  <2>5. Fine => Good(sent, gone, f[j + 1])
    BY <2>1, <2>2, <2>3, GoodStays
  <2> QED BY <2>4, <2>5
<1> HIDE DEF T
<1>4. Nat \subseteq T
  BY <1>2, <1>3, NatSetInduction
<1>5. Len(q) \in Nat /\ Len(q) \in T
  BY <1>4
<1>6. Came(t, q, Len(q), f[Len(q)]) /\ (Fine => Good(sent, gone, f[Len(q)]))
  BY <1>5 DEF T
<1>7. f[Len(q)] = r /\ r \in Processors
  BY <1>1, <1>5
<1> QED
  BY <1>6, <1>7 DEF Came, Made

\* The processor as a read finds it.
Start == [actions |-> <<>>, data |-> <<>>, state |-> escape, seen |-> seen, stop |-> "No"]

\* What a read must find: all that was meant so far is sent or gone.
StartGood(sent, gone) ==
    /\ Increasing(seen)
    /\ ToldBy(typed, seen, escape)
    /\ escape = "AfterTilde" => Last(seen) \notin gone
    /\ Increasing(sent) /\ Range(sent) = MeantOf(typed, seen) \ gone

\* The processor as a read finds it has let through nothing more.
LEMMA StartThere ==
    ASSUME Len(typed) \in Nat, seen \in Seq(Place), escape \in States,
           escape = "AfterTilde" => \E i \in Range(seen) : typed[i] = "~",
           NEW sent \in Seq(Place), NEW gone
    PROVE  /\ Start \in Processors /\ Start.stop = "No" /\ Start.seen = seen
           /\ StartGood(sent, gone) => Good(sent, gone, Start)
<1> DEFINE t == Start
<1>1. /\ t.actions = <<>> /\ t.data = <<>> /\ t.state = escape /\ t.seen = seen
      /\ t.stop = "No"
  BY DEF Start
<1>2. <<>> \in Seq(Seq(Place)) /\ <<>> \in Seq(Place)
  OBVIOUS
<1>3. t \in Records
  BY <1>2 DEF Start, Records
<1> HIDE DEF t
<1>4. t \in Processors
  BY <1>1, <1>3 DEF Processors
<1>5. sent \o Flow(t) = sent
  <2>1. FlattenSeq(<<>>) = <<>>
    BY <1>2, FlattenFew
  <2>2. Flow(t) = <<>> \o <<>>
    BY <1>1, <2>1 DEF Flow
  <2>3. Flow(t) = <<>>
    BY <2>2
  <2> QED BY <2>3
<1>6. StartGood(sent, gone) => Good(sent, gone, t)
  BY <1>1, <1>5 DEF StartGood, Good
<1> QED
  BY <1>1, <1>4, <1>6 DEF t

\* What is read is sent, but for what the commands take.
Sends(sent, gone, r) ==
    /\ Increasing(r.seen)
    /\ r.stop # "Detach" =>
          /\ ToldBy(typed, r.seen, r.state)
          /\ r.state = "AfterTilde" => Last(r.seen) \notin gone
    /\ Increasing(sent \o FlattenSeq(r.actions))
    /\ Range(sent \o FlattenSeq(r.actions)) = MeantOf(typed, r.seen) \ gone

\* What process returns of the read q.
ReadGives(q, sent, gone, r) ==
    /\ r.actions \in Seq(Seq(Place)) /\ r.state \in States /\ r.seen \in Seq(Place)
    /\ r.stop \in {"No", "Detach", "Reconnect"}
    /\ r.state = "AfterTilde" => \E i \in Range(r.seen) : typed[i] = "~"
    /\ \E m \in 0..Len(q) : r.seen = seen \o SubSeq(q, 1, m)
    /\ Range(q) \cap gone = {} /\ StartGood(sent, gone) => Sends(sent, gone, r)

\* What process returns of a read: its type, how far it has read, and what it sends.
LEMMA ReadGood ==
    ASSUME Len(typed) \in Nat, seen \in Seq(Place), escape \in States,
           escape = "AfterTilde" => \E i \in Range(seen) : typed[i] = "~",
           NEW sent \in Seq(Place), NEW gone,
           NEW q \in Seq(Place), Increasing(seen \o q), NEW r, r = process(q)
    PROVE  ReadGives(q, sent, gone, r)
<1>1. PICK t : t = Start
  OBVIOUS
<1>2. /\ t \in Processors /\ t.stop = "No" /\ t.seen = seen
      /\ StartGood(sent, gone) => Good(sent, gone, t)
  BY <1>1, StartThere
<1>3. PICK p : p = FoldLeft(ProcessByte, t, q)
  OBVIOUS
<1>4. /\ p \in Processors
      /\ \E m \in 0..Len(q) : p.seen = seen \o SubSeq(q, 1, m)
      /\ Range(q) \cap gone = {} /\ Good(sent, gone, t) => Good(sent, gone, p)
  <2>1. Increasing(t.seen \o q)
    BY <1>2
  <2>2. Made(t, q, sent, gone, p)
    BY <1>2, <1>3, <2>1, FoldGood
  <2> QED BY <1>2, <2>2 DEF Made
<1>5. r = flush_pending(p)
  BY <1>1, <1>3 DEF process, Start
<1>6. p \in Records
  BY <1>4 DEF Processors
<1>7. /\ r \in Records
      /\ r.seen = p.seen /\ r.state = p.state /\ r.stop = p.stop
      /\ FlattenSeq(r.actions) = Flow(p)
  BY <1>5, <1>6, FlushKeeps
<1>8. r.state = "AfterTilde" => \E i \in Range(r.seen) : typed[i] = "~"
  BY <1>4, <1>7 DEF Processors
<1>9. Good(sent, gone, p) => Sends(sent, gone, r)
  BY <1>7 DEF Good, Sends
<1>10. /\ r.actions \in Seq(Seq(Place)) /\ r.state \in States /\ r.seen \in Seq(Place)
       /\ r.stop \in {"No", "Detach", "Reconnect"}
  BY <1>7 DEF Records
<1> QED
  BY <1>2, <1>4, <1>7, <1>8, <1>9, <1>10 DEF ReadGives

\* What InputIntact says, part by part.
Arrived ==
    undone \/ (Increasing(OnItsWay) /\ Range(OnItsWay) = MeantOf(typed, seen) \ lost)
Counted == pending_input_bytes = Len(FlattenSeq(pending_input))

\* The invariant in its parts.
LEMMA KeyboardParts ==
    IInv <=> Types /\ InOrder /\ EscapeInv /\ UnreadKept /\ Arrived /\ Counted
<1>1. MeantPlaces(seen) = MeantOf(typed, seen)
  BY MeantHere
<1> QED
  BY <1>1 DEF IInv, InputIntact, Arrived, Counted

\* The types of the sequences on the way.
LEMMA Sequences ==
    ASSUME Types
    PROVE  /\ Len(typed) \in Nat
           /\ stdin \in Seq(Place) /\ seen \in Seq(Place) /\ pty \in Seq(Place)
           /\ shell \in Seq(Place)
           /\ wire \in Seq(Seq(Place)) /\ pending_input \in Seq(Seq(Place))
           /\ FlattenSeq(wire) \in Seq(Place) /\ FlattenSeq(pending_input) \in Seq(Place)
<1>1. /\ Len(typed) \in Nat
      /\ stdin \in Seq(Place) /\ seen \in Seq(Place) /\ pty \in Seq(Place)
      /\ shell \in Seq(Place)
      /\ wire \in Seq(Seq(Place)) /\ pending_input \in Seq(Seq(Place))
  BY DEF Types
<1>2. \A v \in Seq(Seq(Place)) : FlattenSeq(v) \in Seq(Place)
  BY FlattenJoined
<1> QED
  BY <1>1, <1>2

\* All that is on its way to the shell are places.
LEMMA WayType ==
    ASSUME Types PROVE OnItsWay \in Seq(Place)
<1>1. /\ pty \in Seq(Place) /\ shell \in Seq(Place)
      /\ FlattenSeq(wire) \in Seq(Place) /\ FlattenSeq(pending_input) \in Seq(Place)
  BY Sequences
<1>2. \A a, c \in Seq(Place) : a \o c \in Seq(Place)
  OBVIOUS
<1>3. shell \o pty \in Seq(Place)
  BY <1>1, <1>2
<1>4. shell \o pty \o FlattenSeq(pending_input) \in Seq(Place)
  BY <1>1, <1>2, <1>3
<1> QED
  BY <1>1, <1>2, <1>4 DEF OnItsWay

\* What is dropped from the way is not read, and is no tilde that waits.
LEMMA LossKeeps ==
    ASSUME IInv, UNCHANGED <<typed, stdin, escape, seen, undone>>, Obeys' => Obeys,
           NEW X, lost' = lost \cup X, undone \/ X \subseteq MeantOf(typed, seen)
    PROVE  InOrder' /\ EscapeInv' /\ UnreadKept'
<1>1. Types /\ InOrder /\ EscapeInv /\ UnreadKept
  BY DEF IInv
<1>2. seen \in Seq(Nat) /\ stdin \in Seq(Nat) /\ Len(typed) \in Nat
  <2>1. Len(typed) \in Nat /\ seen \in Seq(Place) /\ stdin \in Seq(Place)
    BY <1>1, Sequences
  <2> QED BY <2>1, PlaceNat
<1>3. Increasing(seen) /\ \A x \in Range(seen), y \in Range(stdin) : x < y
  BY <1>1, <1>2, JoinedInOrder DEF InOrder
<1>4. InOrder'
  BY <1>1 DEF InOrder, Increasing
<1>5. MeantOf(typed, seen) \subseteq Range(seen)
  BY MeantGiven
<1>6. UnreadKept'
  <2> SUFFICES ASSUME ~undone PROVE (lost \cup X) \cap Range(stdin) = {}
    BY DEF UnreadKept
  <2>1. Range(seen) \subseteq Nat /\ Range(stdin) \subseteq Nat
    BY <1>2, Joined
  <2>2. \A x \in X : x \in Range(seen)
    BY <1>5
  <2>3. Range(seen) \cap Range(stdin) = {}
    BY <1>3, <2>1
  <2>4. lost \cap Range(stdin) = {}
    BY <1>1 DEF UnreadKept
  <2> QED BY <2>2, <2>3, <2>4
<1>7. EscapeInv'
  <2>2. StateTold(seen, escape)' = StateTold(seen, escape)
    BY DEF StateTold, Tilde
  <2>3. Obeys' => StateTold(seen, escape)'
    BY <1>1, <2>2 DEF EscapeInv
  <2>4. Obeys' /\ escape' = "AfterTilde" => Last(seen') \notin lost'
    <3> SUFFICES ASSUME Obeys, escape = "AfterTilde", ~undone
                 PROVE  Last(seen) \notin lost \cup X
      BY DEF Obeys
    <3>1. ToldBy(typed, seen, escape)
      BY <1>1, MeantHere DEF EscapeInv
    <3>2. AtTilde(typed, seen)
      BY <3>1 DEF ToldBy
    <3>3. Last(seen) \notin MeantOf(typed, seen)
      BY <1>2, <1>3, <3>2, TildeWaits
    <3>4. Last(seen) \notin lost
      BY <1>1 DEF EscapeInv
    <3> QED BY <3>3, <3>4
  <2>5. escape' = "AfterTilde" => \E i \in Range(seen') : typed'[i] = "~"
    BY <1>1 DEF EscapeInv
  <2> QED BY <2>3, <2>4, <2>5 DEF EscapeInv
<1> QED
  BY <1>4, <1>6, <1>7

Shown == InOrder /\ EscapeInv /\ UnreadKept /\ Arrived

\* A step that only moves bytes along the way keeps all that was shown.
LEMMA SameWay ==
    ASSUME IInv, UNCHANGED <<typed, stdin, escape, seen, undone, lost>>, Obeys' => Obeys,
           OnItsWay' = OnItsWay
    PROVE  Shown'
<1>1. InOrder' /\ EscapeInv' /\ UnreadKept'
  <2>1. lost' = lost \cup {}
    OBVIOUS
  <2> QED BY <2>1, LossKeeps
<1>2. Arrived
  BY KeyboardParts
<1>3. Increasing(OnItsWay)' = Increasing(OnItsWay)
  BY DEF Increasing
<1>4. Range(OnItsWay)' = Range(OnItsWay)
  BY DEF Range
<1>5. MeantOf(typed, seen)' = MeantOf(typed, seen)
  BY DEF MeantOf, MeantIn, TildeIn
<1>6. Arrived'
  BY <1>2, <1>3, <1>4, <1>5 DEF Arrived
<1> QED
  BY <1>1, <1>6 DEF Shown

\* So does one that loses a middle part of the way and counts it as lost.
LEMMA LessWay ==
    ASSUME IInv, UNCHANGED <<typed, stdin, escape, seen, undone>>, Obeys' => Obeys,
           NEW a \in Seq(Place), NEW m \in Seq(Place), NEW c \in Seq(Place),
           OnItsWay = (a \o m) \o c, OnItsWay' = a \o c, lost' = lost \cup Range(m)
    PROVE  Shown'
<1>1. Types /\ Arrived
  BY KeyboardParts
<1>2. a \in Seq(Nat) /\ m \in Seq(Nat) /\ c \in Seq(Nat)
  <2>1. Len(typed) \in Nat
    BY <1>1, Sequences
  <2> QED BY <2>1, PlaceNat
<1>3. Range((a \o m) \o c) = (Range(a) \cup Range(m)) \cup Range(c)
  <2>1. \A x, y \in Seq(Nat) : x \o y \in Seq(Nat) /\ Range(x \o y) = Range(x) \cup Range(y)
    BY Joined
  <2>2. a \o m \in Seq(Nat) /\ Range(a \o m) = Range(a) \cup Range(m)
    BY <1>2, <2>1
  <2> QED BY <1>2, <2>1, <2>2
<1>4. undone \/ (Increasing((a \o m) \o c) /\ Range((a \o m) \o c) = MeantOf(typed, seen) \ lost)
  BY <1>1 DEF Arrived
<1>5. undone \/ Range(m) \subseteq MeantOf(typed, seen)
  BY <1>3, <1>4
<1>6. InOrder' /\ EscapeInv' /\ UnreadKept'
  BY <1>5, LossKeeps
<1>7. undone \/ (Increasing(a \o c) /\ Range(a \o c) = MeantOf(typed, seen) \ lost')
  <2> SUFFICES ASSUME ~undone
               PROVE  Increasing(a \o c) /\ Range(a \o c) = MeantOf(typed, seen) \ lost'
    OBVIOUS
  <2>1. Increasing(a \o c) /\ Range(a \o c) = Range((a \o m) \o c) \ Range(m)
    BY <1>2, <1>4, MiddleLost
  <2> QED BY <1>4, <2>1
<1>8. /\ Increasing(OnItsWay)' = Increasing(a \o c)
      /\ Range(OnItsWay)' = Range(a \o c)
  BY DEF Increasing, Range
<1>9. MeantOf(typed, seen)' = MeantOf(typed, seen)
  BY DEF MeantOf, MeantIn, TildeIn
<1>10. Arrived'
  BY <1>7, <1>8, <1>9 DEF Arrived
<1> QED
  BY <1>6, <1>10 DEF Shown

\* The invariant, from what a step shows of it.
LEMMA Whole ==
    ASSUME Types', Shown', Counted' PROVE IInv'
<1>1. MeantPlaces(seen) = MeantOf(typed, seen)
  BY MeantHere
<1>2. MeantPlaces(seen)' = MeantOf(typed, seen)'
  BY DEF MeantPlaces, Meant, Tilde, MeantOf, MeantIn, TildeIn
<1> QED
  BY <1>2 DEF IInv, InputIntact, Shown, Arrived, Counted

\* The groupings of sequences that the steps need.
LEMMA Grouped ==
    ASSUME NEW S, NEW a \in Seq(S), NEW b \in Seq(S), NEW c \in Seq(S), NEW d \in Seq(S)
    PROVE  /\ ((a \o b) \o <<>>) \o c = (a \o b) \o c
           /\ (((a \o b) \o <<>>) \o c) \o d = ((a \o b) \o c) \o d
           /\ (((a \o b) \o (c \o d))) = ((a \o b) \o c) \o d
           /\ a \o (b \o c) = (a \o b) \o c
<1> DEFINE ab == a \o b
<1>1. ab \in Seq(S) /\ ab \o <<>> = ab
  OBVIOUS
<1> HIDE DEF ab
<1>2. Grouping(ab, c, d) /\ Grouping(a, b, c)
  BY <1>1, Assoc
<1>3. (ab \o <<>>) \o c = ab \o c
  BY <1>1
<1> QED
  BY <1>2, <1>3 DEF Grouping, ab

\* The shell reads from the PTY: the bytes move along.
LEMMA ShellReadsKeeps ==
    ASSUME KeyboardAssumption, IInv, ShellReads PROVE IInv'
<1>1. Types /\ Arrived /\ Counted
  BY KeyboardParts
<1>2. UNCHANGED <<typed, stdin, escape, seen, link, wire, pending_input, lost, undone,
                  pending_input_bytes, drops, exited>>
      /\ shell' = shell \o pty /\ pty' = <<>>
  BY DEF ShellReads
<1>3. Types'
  <2>1. Place' = Place
    BY <1>2 DEF Place
  <2>2. shell \o pty \in Seq(Place) /\ <<>> \in Seq(Place) /\ Len(<<>>) = 0
    BY <1>1 DEF Types
  <2> QED BY <1>1, <1>2, <2>1, <2>2 DEF Types, KeyboardAssumption
<1>4. OnItsWay' = OnItsWay
  <2>1. /\ pty \in Seq(Place) /\ shell \in Seq(Place)
        /\ FlattenSeq(wire) \in Seq(Place) /\ FlattenSeq(pending_input) \in Seq(Place)
    BY <1>1, Sequences
  <2>2. FlattenSeq(wire)' = FlattenSeq(wire)
        /\ FlattenSeq(pending_input)' = FlattenSeq(pending_input)
    BY <1>2
  <2>3. OnItsWay' = (((shell \o pty) \o <<>>) \o FlattenSeq(pending_input)) \o FlattenSeq(wire)
    BY <1>2, <2>2 DEF OnItsWay
  <2> QED BY <2>1, <2>3, Grouped DEF OnItsWay
<1>5. Shown'
  <2>1. Obeys' => Obeys
    BY <1>2 DEF Obeys
  <2> QED BY <1>2, <1>4, <2>1, SameWay
<1>6. Counted'
  BY <1>1, <1>2 DEF Counted
<1> QED
  BY <1>3, <1>5, <1>6, Whole

\* No chunks, no bytes.
LEMMA FlattenNone == FlattenSeq(<<>>) = <<>> /\ \A S : <<>> \in Seq(S)
<1>1. <<>> \in Seq(Nat)
  OBVIOUS
<1>2. FlattenSeq(<<>>) = <<>>
  BY <1>1, FlattenFew
<1> QED
  BY <1>2

\* The shell exits; the rest stays where it is.
LEMMA ShellExitsKeeps ==
    ASSUME KeyboardAssumption, IInv, ShellExits PROVE IInv'
<1>1. Types /\ Arrived /\ Counted
  BY KeyboardParts
<1>2. UNCHANGED <<typed, stdin, escape, seen, link, wire, pending_input, lost, undone,
                  pending_input_bytes, drops, pty, shell>>
      /\ exited' = TRUE
  BY DEF ShellExits
<1>3. Types'
  <2>1. Place' = Place
    BY <1>2 DEF Place
  <2> QED BY <1>1, <1>2, <2>1 DEF Types
<1>4. OnItsWay' = OnItsWay
  BY <1>2 DEF OnItsWay
<1>5. Shown'
  <2>1. Obeys' => Obeys
    BY <1>2 DEF Obeys
  <2> QED BY <1>2, <1>4, <2>1, SameWay
<1>6. Counted'
  BY <1>1, <1>2 DEF Counted
<1> QED
  BY <1>3, <1>5, <1>6, Whole

\* After it a write fails: the queue of the session is lost.
LEMMA DrainFailsKeeps ==
    ASSUME KeyboardAssumption, IInv, DrainFails PROVE IInv'
<1>1. Types /\ Arrived /\ Counted
  BY KeyboardParts
<1> DEFINE m == FlattenSeq(pending_input)
           a == shell \o pty
           c == FlattenSeq(wire)
<1>2. /\ UNCHANGED <<typed, stdin, escape, seen, link, wire, undone, drops, exited, pty, shell>>
      /\ pending_input' = <<>> /\ pending_input_bytes' = 0
      /\ lost' = lost \cup UNION {Range(pending_input[k]) : k \in DOMAIN pending_input}
  BY DEF DrainFails
<1>3. /\ pending_input \in Seq(Seq(Place)) /\ m \in Seq(Place) /\ c \in Seq(Place)
      /\ shell \in Seq(Place) /\ pty \in Seq(Place)
  BY <1>1, Sequences
<1>4. a \in Seq(Place)
  BY <1>3
<1>5. lost' = lost \cup Range(m)
  <2>1. Range(m) = UNION {Range(pending_input[k]) : k \in DOMAIN pending_input}
    BY <1>3, FlattenRange
  <2> QED BY <1>2, <2>1
<1>6. FlattenSeq(<<>>) = <<>> /\ <<>> \in Seq(Seq(Place))
  BY FlattenNone
<1>7. Types'
  <2>1. Place' = Place
    BY <1>2 DEF Place
  <2>2. Range(m) \subseteq Place
    BY <1>3, Joined
  <2> QED BY <1>1, <1>2, <1>5, <1>6, <2>1, <2>2 DEF Types, KeyboardAssumption
<1>8. OnItsWay = (a \o m) \o c
  BY DEF OnItsWay
<1>9. OnItsWay' = a \o c
  <2>1. FlattenSeq(pending_input)' = <<>> /\ FlattenSeq(wire)' = c
    BY <1>2, <1>6
  <2>2. OnItsWay' = (a \o <<>>) \o c
    BY <1>2, <2>1 DEF OnItsWay
  <2>3. a \o <<>> = a
    BY <1>4
  <2> QED BY <2>2, <2>3
<1>10. Shown'
  <2>1. Obeys' => Obeys
    BY <1>2 DEF Obeys
  <2> HIDE DEF a, m, c
  <2> QED BY <1>2, <1>3, <1>4, <1>5, <1>8, <1>9, <2>1, LessWay
<1>11. Counted'
  BY <1>2, <1>6 DEF Counted
<1> QED
  BY <1>7, <1>10, <1>11, Whole

\* A new connection: what was on the wire is lost, a middle part of the way.
LEMMA ReconnectedKeeps ==
    ASSUME KeyboardAssumption, IInv, Reconnected PROVE IInv'
<1>1. Types /\ Arrived /\ Counted
  BY KeyboardParts
<1> DEFINE m == FlattenSeq(wire)
           a == shell \o pty \o FlattenSeq(pending_input)
<1>2. /\ UNCHANGED <<typed, stdin, escape, seen, pending_input, pending_input_bytes,
                     undone, drops, exited, pty, shell>>
      /\ link = "down" /\ link' = "up" /\ wire' = <<>>
      /\ lost' = lost \cup UNION {Range(wire[k]) : k \in DOMAIN wire}
  BY DEF Reconnected
<1>3. /\ wire \in Seq(Seq(Place)) /\ m \in Seq(Place) /\ FlattenSeq(pending_input) \in Seq(Place)
      /\ shell \in Seq(Place) /\ pty \in Seq(Place)
  BY <1>1, Sequences
<1>4. a \in Seq(Place) /\ <<>> \in Seq(Place) /\ (a \o m) \o <<>> = a \o m /\ a \o <<>> = a
  <2>1. shell \o pty \in Seq(Place)
    BY <1>3
  <2>2. a \in Seq(Place)
    BY <1>3, <2>1
  <2>3. a \o m \in Seq(Place)
    BY <1>3, <2>2
  <2> HIDE DEF a, m
  <2> QED BY <2>2, <2>3
<1>5. lost' = lost \cup Range(m)
  <2>1. Range(m) = UNION {Range(wire[k]) : k \in DOMAIN wire}
    BY <1>3, FlattenRange
  <2> QED BY <1>2, <2>1
<1>6. FlattenSeq(<<>>) = <<>> /\ <<>> \in Seq(Seq(Place))
  BY FlattenNone
<1>7. Types'
  <2>1. Place' = Place
    BY <1>2 DEF Place
  <2>2. Range(m) \subseteq Place
    BY <1>3, Joined
  <2> QED BY <1>1, <1>2, <1>5, <1>6, <2>1, <2>2 DEF Types
<1>8. OnItsWay = (a \o m) \o <<>>
  BY <1>4 DEF OnItsWay
<1>9. OnItsWay' = a \o <<>>
  <2>1. FlattenSeq(wire)' = <<>> /\ FlattenSeq(pending_input)' = FlattenSeq(pending_input)
    BY <1>2, <1>6
  <2> QED BY <1>2, <2>1 DEF OnItsWay
<1>10. Shown'
  <2>1. Obeys' => Obeys
    BY <1>2 DEF Obeys
  <2> HIDE DEF a, m
  <2> QED BY <1>2, <1>3, <1>4, <1>5, <1>8, <1>9, <2>1, LessWay
<1>11. Counted'
  BY <1>1, <1>2 DEF Counted
<1> QED
  BY <1>7, <1>10, <1>11, Whole

\* The first chunk comes before the bytes of the rest.
LEMMA FlattenHead ==
    ASSUME NEW S, NEW w \in Seq(Seq(S)), w # <<>>
    PROVE  /\ Head(w) \in Seq(S) /\ Tail(w) \in Seq(Seq(S))
           /\ FlattenSeq(Tail(w)) \in Seq(S)
           /\ FlattenSeq(w) = Head(w) \o FlattenSeq(Tail(w))
<1> DEFINE h == Head(w)
           v == Tail(w)
<1>1. h \in Seq(S) /\ v \in Seq(Seq(S)) /\ w = <<h>> \o v
  OBVIOUS
<1> HIDE DEF h, v
<1>2. <<h>> \in Seq(Seq(S)) /\ FlattenSeq(<<h>>) = h
  BY <1>1, FlattenFew
<1> DEFINE one == <<h>>
<1>3. one \in Seq(Seq(S)) /\ FlattenSeq(one) = h /\ w = one \o v
  BY <1>1, <1>2
<1> HIDE DEF one
<1>4. FlattenSeq(v) \in Seq(S) /\ FlattenSeq(one \o v) = FlattenSeq(one) \o FlattenSeq(v)
  BY <1>1, <1>3, FlattenJoined
<1> QED
  BY <1>1, <1>3, <1>4 DEF h, v

\* The session queues a frame, or drops it whole when it is over the cap.
LEMMA QueueKeeps ==
    ASSUME KeyboardAssumption, IInv, Queue PROVE IInv'
<1>1. Types /\ Arrived /\ Counted
  BY KeyboardParts
<1> DEFINE h == Head(wire)
           v == Tail(wire)
           g == FlattenSeq(pending_input)
           a == shell \o pty \o g
           c == FlattenSeq(v)
<1>2. /\ UNCHANGED <<typed, stdin, escape, seen, link, undone, drops, exited, pty, shell>>
      /\ wire # <<>> /\ wire' = v
      /\ \/ /\ lost' = lost \cup Range(h)
            /\ UNCHANGED <<pending_input, pending_input_bytes>>
         \/ /\ pending_input_bytes + Len(h) <= Cap
            /\ pending_input' = Append(pending_input, h)
            /\ pending_input_bytes' = pending_input_bytes + Len(h)
            /\ lost' = lost
  <2>1. wire \in Seq(Seq(Place)) /\ wire # <<>>
    BY <1>1, Sequences DEF Queue
  <2>2. Len(h) \in Nat
    BY <2>1, FlattenHead
  <2>3. pending_input_bytes \in Nat /\ Cap \in Nat
    BY <1>1 DEF Types, KeyboardAssumption
  <2>4. ~(pending_input_bytes + Len(h) > Cap) => pending_input_bytes + Len(h) <= Cap
    BY <2>2, <2>3
  <2> QED BY <2>4 DEF Queue
<1>3. /\ wire \in Seq(Seq(Place)) /\ pending_input \in Seq(Seq(Place)) /\ g \in Seq(Place)
      /\ shell \in Seq(Place) /\ pty \in Seq(Place)
  BY <1>1, Sequences
<1>4. h \in Seq(Place) /\ v \in Seq(Seq(Place)) /\ c \in Seq(Place) /\ FlattenSeq(wire) = h \o c
  BY <1>2, <1>3, FlattenHead
<1>5. a \in Seq(Place)
  <2>1. shell \o pty \in Seq(Place)
    BY <1>3
  <2> QED BY <1>3, <2>1
<1>6. OnItsWay = (a \o h) \o c
  <2>1. OnItsWay = a \o (h \o c)
    BY <1>4 DEF OnItsWay
  <2> HIDE DEF a, h, c
  <2>2. Grouping(a, h, c)
    BY <1>4, <1>5, Assoc
  <2> QED BY <2>1, <2>2 DEF Grouping
<1>7. Place' = Place
  BY <1>2 DEF Place
<1>8. Obeys' => Obeys
  BY <1>2 DEF Obeys
<1>9. CASE lost' = lost \cup Range(h) /\ UNCHANGED <<pending_input, pending_input_bytes>>
  <2>1. Types'
    <3>1. Range(h) \subseteq Place
      BY <1>4, Joined
    <3> HIDE DEF h, v, g, a, c
    <3> QED BY <1>1, <1>2, <1>4, <1>7, <1>9, <3>1 DEF Types
  <2>2. OnItsWay' = a \o c
    BY <1>2, <1>9 DEF OnItsWay
  <2>3. Shown'
    <3> HIDE DEF a, h, c
    <3> QED BY <1>2, <1>4, <1>5, <1>6, <1>8, <1>9, <2>2, LessWay
  <2>4. Counted'
    BY <1>1, <1>9 DEF Counted
  <2> QED BY <2>1, <2>3, <2>4, Whole
<1>10. CASE /\ pending_input_bytes + Len(h) <= Cap
            /\ pending_input' = Append(pending_input, h)
            /\ pending_input_bytes' = pending_input_bytes + Len(h)
            /\ lost' = lost
  <2>1. Types'
    <3>1. Append(pending_input, h) \in Seq(Seq(Place)) /\ Len(h) \in Nat
      BY <1>3, <1>4
    <3>2. pending_input_bytes \in 0..Cap /\ Cap \in Nat
      BY <1>1 DEF Types, KeyboardAssumption
    <3> HIDE DEF h, v, g, a, c
    <3>3. pending_input_bytes' \in 0..Cap
      BY <1>10, <3>1, <3>2
    <3>4. pending_input' \in Seq(Seq(Place)) /\ wire' \in Seq(Seq(Place)) /\ lost' = lost
      BY <1>2, <1>4, <1>10, <3>1
    <3> QED BY <1>1, <1>2, <1>7, <3>3, <3>4 DEF Types
  <2>2. FlattenSeq(pending_input)' = g \o h
    BY <1>3, <1>4, <1>10, BytesAppend
  <2>3. OnItsWay' = OnItsWay
    <3>1. OnItsWay' = ((shell \o pty) \o (g \o h)) \o c
      BY <1>2, <2>2 DEF OnItsWay
    <3>2. shell \o pty \in Seq(Place)
      BY <1>3
    <3>3. Grouping(shell \o pty, g, h)
      BY <1>3, <1>4, <3>2, Assoc
    <3>4. (shell \o pty) \o (g \o h) = a \o h
      BY <3>3 DEF Grouping
    <3> QED BY <1>6, <3>1, <3>4
  <2>4. Shown'
    <3> HIDE DEF a, h, c
    <3> QED BY <1>2, <1>8, <1>10, <2>3, SameWay
  <2>5. Counted'
    <3>1. Len(g \o h) = Len(g) + Len(h)
      BY <1>3, <1>4
    <3> HIDE DEF h
    <3> QED BY <1>1, <1>10, <2>2, <3>1 DEF Counted
  <2> QED BY <2>1, <2>4, <2>5, Whole
<1> QED
  BY <1>2, <1>9, <1>10

\* A drain moves a first part of the queued bytes to the PTY, within its room.
LEMMA DrainCuts ==
    ASSUME PtyRoom \in Nat, Types, Drain
    PROVE  \E taken \in Seq(Place) :
              /\ pty' = pty \o taken /\ Len(pty') <= PtyRoom
              /\ pending_input' \in Seq(Seq(Place))
              /\ FlattenSeq(pending_input) = taken \o FlattenSeq(pending_input')
              /\ pending_input_bytes' = pending_input_bytes - Len(taken)
<1> DEFINE h == Head(pending_input)
           v == Tail(pending_input)
           room == PtyRoom - Len(pty)
           n == Min({Len(h), room})
           taken == SubSeq(h, 1, n)
           left == SubSeq(h, n + 1, Len(h))
<1>1. /\ pending_input # <<>> /\ Len(pty) < PtyRoom
      /\ pty' = pty \o taken
      /\ pending_input' = IF n = Len(h) THEN v
                          ELSE [pending_input EXCEPT ![1] = SubSeq(@, n + 1, Len(@))]
      /\ pending_input_bytes' = pending_input_bytes - n
  BY DEF Drain, drain_front
<1>2. pending_input \in Seq(Seq(Place)) /\ pty \in Seq(Place)
  BY Sequences
<1>3. h \in Seq(Place) /\ v \in Seq(Seq(Place)) /\ FlattenSeq(pending_input) = h \o FlattenSeq(v)
      /\ FlattenSeq(v) \in Seq(Place)
  BY <1>1, <1>2, FlattenHead
<1>4. Len(h) \in Nat /\ room \in Nat /\ Len(pty) \in Nat
  BY <1>1, <1>2, <1>3
<1>5. n \in 0..Len(h) /\ n <= room
  <2> HIDE DEF room, h
  <2>1. \A x, y \in Nat : Min({x, y}) \in {x, y} /\ Min({x, y}) <= x /\ Min({x, y}) <= y
    <3> SUFFICES ASSUME NEW x \in Nat, NEW y \in Nat
                 PROVE  Min({x, y}) \in {x, y} /\ Min({x, y}) <= x /\ Min({x, y}) <= y
      OBVIOUS
    <3>1. \E e \in {x, y} : \A d \in {x, y} : e <= d
      <4>1. x <= y \/ y <= x
        OBVIOUS
      <4> QED BY <4>1
    <3> QED BY <3>1 DEF Min
  <2> QED BY <1>4, <2>1
<1> HIDE DEF n
<1>6. /\ taken \in Seq(Place) /\ left \in Seq(Place) /\ Len(taken) = n
      /\ h = taken \o left
  <2> HIDE DEF h
  <2> QED BY <1>3, <1>5, CutInTwo
<1>7. Len(pty') <= PtyRoom
  <2>1. Len(pty \o taken) = Len(pty) + n
    BY <1>2, <1>6
  <2> QED BY <1>1, <1>4, <1>5, <2>1
<1>8. pending_input' \in Seq(Seq(Place)) /\ FlattenSeq(pending_input') = left \o FlattenSeq(v)
  <2>1. CASE n = Len(h)
    <3>1. left = <<>>
      BY <1>3, <2>1
    <3>2. left \o FlattenSeq(v) = FlattenSeq(v)
      <4>1. \A x \in Seq(Place) : <<>> \o x = x
        OBVIOUS
      <4> HIDE DEF left, v
      <4> QED BY <1>3, <3>1, <4>1
    <3> QED BY <1>1, <1>3, <2>1, <3>2
  <2>2. CASE n # Len(h)
    <3>1. pending_input' = [pending_input EXCEPT ![1] = left]
      <4>1. h = pending_input[1]
        BY <1>1, <1>2
      <4> QED BY <1>1, <2>2, <4>1
    <3>2. pending_input' = <<left>> \o v
      <4>1. \A w \in Seq(Seq(Place)), e \in Seq(Place) :
               w # <<>> => [w EXCEPT ![1] = e] = <<e>> \o Tail(w)
        OBVIOUS
      <4> HIDE DEF left
      <4> QED BY <1>1, <1>2, <1>6, <3>1, <4>1
    <3> DEFINE one == <<left>>
    <3>3. one \in Seq(Seq(Place)) /\ FlattenSeq(one) = left
      <4> HIDE DEF left
      <4> QED BY <1>6, FlattenFew
    <3> HIDE DEF one, v, left
    <3>4. FlattenSeq(one \o v) = FlattenSeq(one) \o FlattenSeq(v)
      BY <1>3, <3>3, FlattenJoined
    <3>5. one \o v \in Seq(Seq(Place))
      BY <1>3, <3>3
    <3>6. pending_input' = one \o v
      BY <3>2 DEF one
    <3> QED BY <3>3, <3>4, <3>5, <3>6
  <2> QED BY <2>1, <2>2
<1> HIDE DEF taken, left, v, h
<1>9. FlattenSeq(pending_input) = taken \o (left \o FlattenSeq(v))
  <2>1. Grouping(taken, left, FlattenSeq(v))
    BY <1>3, <1>6, Assoc
  <2> QED BY <1>3, <1>6, <2>1 DEF Grouping
<1>10. pending_input_bytes' = pending_input_bytes - Len(taken)
  BY <1>1, <1>6
<1> QED
  BY <1>1, <1>6, <1>7, <1>8, <1>9, <1>10

\* A drain keeps the invariant.
LEMMA DrainKeeps ==
    ASSUME KeyboardAssumption, IInv, Drain PROVE IInv'
<1>1. Types /\ Arrived /\ Counted
  BY KeyboardParts
<1>2. PICK taken \in Seq(Place) :
              /\ pty' = pty \o taken /\ Len(pty') <= PtyRoom
              /\ pending_input' \in Seq(Seq(Place))
              /\ FlattenSeq(pending_input) = taken \o FlattenSeq(pending_input')
              /\ pending_input_bytes' = pending_input_bytes - Len(taken)
  BY <1>1, DrainCuts DEF KeyboardAssumption
<1> DEFINE g == FlattenSeq(pending_input')
           c == FlattenSeq(wire)
<1>3. UNCHANGED <<typed, stdin, escape, seen, link, wire, shell, lost, undone, drops, exited>>
  BY DEF Drain
<1>4. /\ pty \in Seq(Place) /\ shell \in Seq(Place) /\ c \in Seq(Place) /\ g \in Seq(Place)
  BY <1>1, <1>2, Sequences, FlattenJoined
<1>5. /\ Len(taken \o g) = Len(taken) + Len(g) /\ Len(taken) \in Nat /\ Len(g) \in Nat
  BY <1>4
<1>6. Counted' /\ pending_input_bytes' \in 0..Cap
  <2>1. pending_input_bytes = Len(taken) + Len(g)
    BY <1>1, <1>2, <1>5 DEF Counted
  <2>2. pending_input_bytes' = Len(g)
    BY <1>2, <1>5, <2>1
  <2>3. Cap \in Nat /\ pending_input_bytes <= Cap
    BY <1>1 DEF KeyboardAssumption, Types
  <2> QED BY <1>5, <2>1, <2>2, <2>3 DEF Counted
<1>7. Types'
  <2>1. Place' = Place
    BY <1>3 DEF Place
  <2>2. pty \o taken \in Seq(Place)
    BY <1>4
  <2> QED BY <1>1, <1>2, <1>3, <1>6, <2>1, <2>2 DEF Types
<1>8. OnItsWay' = OnItsWay
  <2>1. OnItsWay' = ((shell \o (pty \o taken)) \o g) \o c
    BY <1>2, <1>3 DEF OnItsWay
  <2>2. OnItsWay = ((shell \o pty) \o (taken \o g)) \o c
    BY <1>2 DEF OnItsWay
  <2> HIDE DEF g, c
  <2>3. \A x, y \in Seq(Place) : x \o y \in Seq(Place)
    OBVIOUS
  <2>5. (shell \o (pty \o taken)) \o g = (shell \o pty) \o (taken \o g)
    <3>1. Grouping(shell, pty, taken)
      BY <1>4, Assoc
    <3>2. shell \o pty \in Seq(Place)
      BY <1>4, <2>3
    <3>3. Grouping(shell \o pty, taken, g)
      BY <1>4, <3>2, Assoc
    <3> QED BY <3>1, <3>3 DEF Grouping
  <2> QED BY <2>1, <2>2, <2>5
<1>9. Shown'
  <2>1. Obeys' => Obeys
    BY <1>3 DEF Obeys
  <2> QED BY <1>3, <1>8, <2>1, SameWay
<1> QED
  BY <1>6, <1>7, <1>9, Whole

\* A read of stdin: what is read, what was read before and what is left of it
\* have no place in common.
LEMMA Apart ==
    ASSUME Types, InOrder, NEW q \in Seq(Place), NEW rest \in Seq(Place), stdin = q \o rest
    PROVE  /\ seen \in Seq(Nat) /\ q \in Seq(Nat) /\ rest \in Seq(Nat)
           /\ Increasing(seen) /\ Increasing(seen \o q) /\ Increasing((seen \o q) \o rest)
           /\ Increasing(seen \o rest)
           /\ Range(seen) \cap Range(q) = {} /\ Range(seen) \cap Range(rest) = {}
           /\ Range(q) \cap Range(rest) = {}
<1>1. seen \in Seq(Nat) /\ q \in Seq(Nat) /\ rest \in Seq(Nat)
  <2>1. Len(typed) \in Nat /\ seen \in Seq(Place)
    BY Sequences
  <2> QED BY <2>1, PlaceNat
<1>2. Increasing((seen \o q) \o rest)
  <2>1. Grouping(seen, q, rest)
    BY <1>1, Assoc
  <2>2. seen \o stdin = (seen \o q) \o rest
    BY <2>1 DEF Grouping
  <2> QED BY <2>2 DEF InOrder
<1>3. Increasing(seen \o rest)
  BY <1>1, <1>2, MiddleLost
<1>4. seen \o q \in Seq(Nat) /\ Range(seen \o q) = Range(seen) \cup Range(q)
  <2>1. \A x, y \in Seq(Nat) : x \o y \in Seq(Nat) /\ Range(x \o y) = Range(x) \cup Range(y)
    BY Joined
  <2> QED BY <1>1, <2>1
<1>5. Increasing(seen \o q) /\ \A x \in Range(seen \o q), y \in Range(rest) : x < y
  BY <1>1, <1>2, <1>4, JoinedInOrder
<1>6. Increasing(seen) /\ \A x \in Range(seen), y \in Range(q) : x < y
  BY <1>1, <1>5, JoinedInOrder
<1>7. Range(seen) \subseteq Nat /\ Range(q) \subseteq Nat /\ Range(rest) \subseteq Nat
  <2>1. \A x \in Seq(Nat) : Range(x) \subseteq Nat
    BY Joined
  <2> QED BY <1>1, <2>1
<1>8. Range(seen) \cap Range(q) = {}
  BY <1>6, <1>7
<1>9. Range(seen) \cap Range(rest) = {} /\ Range(q) \cap Range(rest) = {}
  BY <1>4, <1>5, <1>7
<1> QED
  BY <1>1, <1>2, <1>3, <1>5, <1>6, <1>8, <1>9

\* What is read and dropped was never given to the processor.
LEMMA SkippedKeeps ==
    ASSUME IInv, UNCHANGED <<typed, escape, seen, undone>>, Obeys' => Obeys,
           OnItsWay' = OnItsWay, NEW q \in Seq(Place), NEW rest \in Seq(Place),
           stdin = q \o rest, stdin' = rest, lost' = lost \cup Range(q)
    PROVE  Shown'
<1>1. Types /\ InOrder /\ EscapeInv /\ UnreadKept /\ Arrived
  BY KeyboardParts
<1>2. /\ Increasing(seen \o rest)
      /\ Range(seen) \cap Range(q) = {} /\ Range(q) \cap Range(rest) = {}
      /\ seen \in Seq(Nat)
  BY <1>1, Apart
<1>3. InOrder'
  <2>1. (seen \o stdin)' = seen \o rest
    OBVIOUS
  <2> QED BY <1>2, <2>1 DEF InOrder, Increasing
<1>4. UnreadKept'
  <2>1. Range(rest) \subseteq Range(stdin)
    <3>1. Range(q \o rest) = Range(q) \cup Range(rest)
      BY Joined
    <3> QED BY <3>1
  <2>2. Range(stdin)' = Range(rest)
    BY DEF Range
  <2>3. undone \/ lost \cap Range(rest) = {}
    BY <1>1, <2>1 DEF UnreadKept
  <2> QED BY <1>2, <2>2, <2>3 DEF UnreadKept
<1>5. EscapeInv'
  <2>1. StateTold(seen, escape)' = StateTold(seen, escape)
    BY DEF StateTold, Tilde
  <2>2. seen # <<>> => Last(seen) \in Range(seen)
    BY <1>2 DEF Last, Range
  <2>3. StateTold(seen, escape) /\ escape = "AfterTilde" => seen # <<>>
    BY DEF StateTold
  <2>4. Obeys' => StateTold(seen, escape)'
    BY <1>1, <2>1 DEF EscapeInv
  <2>5. Obeys' /\ escape' = "AfterTilde" => Last(seen') \notin lost'
    BY <1>1, <1>2, <2>2, <2>3 DEF EscapeInv
  <2>6. escape' = "AfterTilde" => \E i \in Range(seen') : typed'[i] = "~"
    BY <1>1 DEF EscapeInv
  <2> QED BY <2>4, <2>5, <2>6 DEF EscapeInv
<1>6. Arrived'
  <2>1. Increasing(OnItsWay)' = Increasing(OnItsWay) /\ Range(OnItsWay)' = Range(OnItsWay)
    BY DEF Increasing, Range
  <2>2. MeantOf(typed, seen)' = MeantOf(typed, seen)
    BY DEF MeantOf, MeantIn, TildeIn
  <2>3. MeantOf(typed, seen) \subseteq Range(seen)
    BY MeantGiven
  <2>4. MeantOf(typed, seen) \ lost' = MeantOf(typed, seen) \ lost
    BY <1>2, <2>3
  <2> QED BY <1>1, <2>1, <2>2, <2>4 DEF Arrived
<1> QED
  BY <1>3, <1>4, <1>5, <1>6 DEF Shown

\* A read whose connection is already down loses what it has read.
LEMMA ReadStaleKeeps ==
    ASSUME KeyboardAssumption, IInv, NEW n \in 1..MaxTyped, ReadStale(n) PROVE IInv'
<1>1. Types /\ Arrived /\ Counted
  BY KeyboardParts
<1> DEFINE q == SubSeq(stdin, 1, n)
           rest == SubSeq(stdin, n + 1, Len(stdin))
<1>2. /\ UNCHANGED <<typed, escape, seen, wire, pending_input, pending_input_bytes,
                     pty, shell, undone, exited>>
      /\ link = "up" /\ link' = "down" /\ n \in 1..Len(stdin)
      /\ drops < MaxDrops /\ drops' = drops + 1
      /\ lost' = lost \cup Range(q) /\ stdin' = rest
  BY DEF ReadStale
<1>3. q \in Seq(Place) /\ rest \in Seq(Place) /\ stdin = q \o rest
  <2>1. stdin \in Seq(Place) /\ n \in 0..Len(stdin)
    BY <1>1, <1>2, Sequences
  <2> QED BY <2>1, CutInTwo
<1> HIDE DEF q, rest
<1>4. Types'
  <2>1. Place' = Place
    BY <1>2 DEF Place
  <2>2. Range(q) \subseteq Place
    BY <1>3, Joined
  <2>3. drops' \in 0..MaxDrops
    BY <1>1, <1>2 DEF Types, KeyboardAssumption
  <2> QED BY <1>1, <1>2, <1>3, <2>1, <2>2, <2>3 DEF Types
<1>5. OnItsWay' = OnItsWay
  BY <1>2 DEF OnItsWay
<1>6. Shown'
  <2>1. Obeys' => Obeys
    BY <1>2 DEF Obeys
  <2> QED BY <1>2, <1>3, <1>5, <2>1, SkippedKeeps
<1>7. Counted'
  BY <1>1, <1>2 DEF Counted
<1> QED
  BY <1>4, <1>6, <1>7, Whole

\* Bytes read to wait out a lost connection are skipped.
LEMMA ReadWhileDownKeeps ==
    ASSUME KeyboardAssumption, IInv, ReadWhileDown PROVE IInv'
<1>1. Types /\ Arrived /\ Counted
  BY KeyboardParts
<1>2. /\ UNCHANGED <<typed, escape, seen, link, wire, pending_input, pending_input_bytes,
                     pty, shell, undone, drops, exited>>
      /\ lost' = lost \cup Range(stdin) /\ stdin' = <<>>
  BY DEF ReadWhileDown
<1>3. stdin \in Seq(Place) /\ <<>> \in Seq(Place) /\ stdin = stdin \o <<>>
  <2>1. stdin \in Seq(Place)
    BY <1>1, Sequences
  <2> QED BY <2>1
<1>4. Types'
  <2>1. Place' = Place
    BY <1>2 DEF Place
  <2>2. Range(stdin) \subseteq Place
    BY <1>3, Joined
  <2> QED BY <1>1, <1>2, <1>3, <2>1, <2>2 DEF Types
<1>5. OnItsWay' = OnItsWay
  BY <1>2 DEF OnItsWay
<1>6. Shown'
  <2>1. Obeys' => Obeys
    BY <1>2 DEF Obeys
  <2>2. PICK rest : rest = <<>>
    OBVIOUS
  <2>3. PICK q : q = stdin
    OBVIOUS
  <2>4. q \in Seq(Place) /\ rest \in Seq(Place) /\ stdin = q \o rest /\ stdin' = rest
        /\ lost' = lost \cup Range(q)
    BY <1>2, <1>3, <2>2, <2>3
  <2> QED BY <1>2, <1>5, <2>1, <2>4, SkippedKeeps
<1>7. Counted'
  BY <1>1, <1>2 DEF Counted
<1> QED
  BY <1>4, <1>6, <1>7, Whole

\* The user types one more byte, the last in every order.
LEMMA TypeKeeps ==
    ASSUME KeyboardAssumption, IInv, NEW b \in Keys, Type(b) PROVE IInv'
<1>1. Types /\ InOrder /\ EscapeInv /\ UnreadKept /\ Arrived /\ Counted
  BY KeyboardParts
<1> DEFINE i == Len(typed) + 1
<1>2. /\ UNCHANGED <<escape, seen, link, wire, pending_input, pending_input_bytes,
                     pty, shell, exited, lost, undone, drops>>
      /\ typed' = Append(typed, b) /\ stdin' = Append(stdin, i)
  BY DEF Type
<1>3. typed \in Seq(Keys) /\ Len(typed) \in Nat /\ seen \in Seq(Place) /\ stdin \in Seq(Place)
  BY <1>1, Sequences DEF Types
<1>4. Place' = 1..i /\ Place \subseteq Place' /\ i \in Nat /\ i \in Place' /\ i \notin Place
      /\ \A k \in Place : k < i /\ k \in Nat
  BY <1>2, <1>3 DEF Place
<1>5. Seq(Place) \subseteq Seq(Place')
  BY <1>4, SeqMonotonic
<1>6. Seq(Seq(Place)) \subseteq Seq(Seq(Place'))
  <2> DEFINE S == Seq(Place)
             R == Seq(Place')
  <2>1. S \subseteq R
    BY <1>5
  <2> HIDE DEF S, R
  <2>2. Seq(S) \subseteq Seq(R)
    BY <2>1, SeqMonotonic
  <2> QED BY <2>2 DEF S, R
<1> HIDE DEF i
<1>7. Types'
  <2>1. Append(typed, b) \in Seq(Keys)
    BY <1>3
  <2>2. Append(stdin, i) \in Seq(Place')
    BY <1>3, <1>4, <1>5
  <2>3. lost \subseteq Place'
    BY <1>1, <1>4 DEF Types
  <2> QED BY <1>1, <1>2, <1>5, <1>6, <2>1, <2>2, <2>3 DEF Types
<1>8. /\ MeantOf(typed, seen)' = MeantOf(typed, seen)
      /\ ToldBy(typed, seen, escape)' = ToldBy(typed, seen, escape)
  <2>1. /\ MeantOf(Append(typed, b), seen) = MeantOf(typed, seen)
        /\ \A state : ToldBy(Append(typed, b), seen, state) = ToldBy(typed, seen, state)
    BY <1>3, MeantStays DEF Place
  <2> QED BY <1>2, <2>1
<1>9. InOrder'
  <2>1. (seen \o stdin)' = (seen \o stdin) \o <<i>>
    <3>1. \A x, y \in Seq(Nat) : x \o Append(y, i) = (x \o y) \o <<i>>
      BY <1>4
    <3>2. seen \in Seq(Nat) /\ stdin \in Seq(Nat)
      BY <1>3, PlaceNat
    <3> QED BY <1>2, <3>1, <3>2
  <2>2. seen \o stdin \in Seq(Place)
    BY <1>3
  <2>3. seen \o stdin \in Seq(Nat) /\ \A x \in Range(seen \o stdin) : x < i
    <3>1. \A x \in Seq(Place) : Range(x) \subseteq Place /\ x \in Seq(Nat)
      <4>1. \A x \in Seq(Place) : Range(x) \subseteq Place
        BY Joined
      <4>2. \A x \in Seq(Place) : x \in Seq(Nat)
        BY <1>3, PlaceNat
      <4> QED BY <4>1, <4>2
    <3>2. Range(seen \o stdin) \subseteq Place /\ seen \o stdin \in Seq(Nat)
      BY <2>2, <3>1
    <3> QED BY <1>4, <3>2
  <2>4. Increasing((seen \o stdin) \o <<i>>)
    BY <1>1, <1>4, <2>3, OneMore DEF InOrder
  <2> QED BY <2>1, <2>4 DEF InOrder, Increasing
<1>10. UnreadKept'
  <2>1. Range(stdin)' = Range(stdin) \cup {i}
    <3>1. stdin \in Seq(Nat)
      BY <1>3, PlaceNat
    <3>2. Range(Append(stdin, i)) = Range(stdin) \cup {i}
      BY <1>4, <3>1, OneMore
    <3> QED BY <1>2, <3>2 DEF Range
  <2>2. i \notin lost
    BY <1>1, <1>4 DEF Types
  <2> QED BY <1>1, <1>2, <2>1, <2>2 DEF UnreadKept
<1>11. EscapeInv'
  <2>1. Obeys' => ToldBy(typed, seen, escape)'
    BY <1>1, <1>2, <1>8, MeantHere DEF EscapeInv, Obeys
  <2>2. StateTold(seen, escape)' = ToldBy(typed, seen, escape)'
    BY DEF StateTold, Tilde, ToldBy, AtLineStart, AtTilde, TildeIn
  <2>3. Obeys' /\ escape' = "AfterTilde" => Last(seen') \notin lost'
    BY <1>1, <1>2 DEF EscapeInv, Obeys
  <2>4. escape' = "AfterTilde" => \E k \in Range(seen') : typed'[k] = "~"
    <3> SUFFICES ASSUME escape = "AfterTilde" PROVE \E k \in Range(seen) : typed'[k] = "~"
      BY <1>2
    <3>1. PICK k \in Range(seen) : typed[k] = "~"
      BY <1>1 DEF EscapeInv
    <3>2. k \in Place
      BY <1>3, Joined
    <3>3. typed'[k] = typed[k]
      BY <1>2, <1>3, <3>2 DEF Place
    <3> QED BY <3>1, <3>3
  <2> QED BY <2>1, <2>2, <2>3, <2>4 DEF EscapeInv
<1>12. Arrived'
  <2>1. OnItsWay' = OnItsWay
    BY <1>2 DEF OnItsWay
  <2>2. Increasing(OnItsWay)' = Increasing(OnItsWay) /\ Range(OnItsWay)' = Range(OnItsWay)
    BY <2>1 DEF Increasing, Range
  <2> QED BY <1>1, <1>2, <1>8, <2>2 DEF Arrived
<1>13. Counted'
  BY <1>1, <1>2 DEF Counted
<1> QED
  BY <1>7, <1>9, <1>10, <1>11, <1>12, <1>13, Whole DEF Shown

CutAt(S, w, failed, sent, rest) ==
    /\ sent \in Seq(Seq(S)) /\ rest \in Seq(Seq(S)) /\ w = sent \o rest
    /\ Range(FlattenSeq(rest)) = UNION {Range(w[k]) : k \in failed..Len(w)}

\* Frames sent before a failed one, and those from it on.
LEMMA RestOf ==
    ASSUME NEW S, NEW w \in Seq(Seq(S)), NEW failed \in 1..(Len(w) + 1),
           NEW sent, sent = SubSeq(w, 1, failed - 1),
           NEW rest, rest = SubSeq(w, failed, Len(w))
    PROVE  CutAt(S, w, failed, sent, rest)
<1>0. failed - 1 \in 0..Len(w) /\ (failed - 1) + 1 = failed
  OBVIOUS
<1>1. /\ rest \in Seq(Seq(S)) /\ w = SubSeq(w, 1, failed - 1) \o rest
      /\ SubSeq(w, 1, failed - 1) \in Seq(Seq(S))
  <2>1. rest = SubSeq(w, (failed - 1) + 1, Len(w))
    BY <1>0
  <2>2. /\ SubSeq(w, 1, failed - 1) \in Seq(Seq(S))
        /\ SubSeq(w, (failed - 1) + 1, Len(w)) \in Seq(Seq(S))
        /\ w = SubSeq(w, 1, failed - 1) \o SubSeq(w, (failed - 1) + 1, Len(w))
    BY <1>0, CutInTwo
  <2> QED BY <2>1, <2>2
<1>2. Range(FlattenSeq(rest)) = UNION {Range(rest[k]) : k \in DOMAIN rest}
  BY <1>1, FlattenRange
<1>3. /\ DOMAIN rest = 1..(Len(w) - failed + 1)
      /\ \A k \in DOMAIN rest : rest[k] = w[failed + k - 1]
  OBVIOUS
<1>4. {Range(rest[k]) : k \in DOMAIN rest} = {Range(w[k]) : k \in failed..Len(w)}
  <2>1. \A k \in DOMAIN rest : \E l \in failed..Len(w) : rest[k] = w[l]
    <3> SUFFICES ASSUME NEW k \in DOMAIN rest PROVE \E l \in failed..Len(w) : rest[k] = w[l]
      OBVIOUS
    <3>1. failed + k - 1 \in failed..Len(w)
      BY <1>3
    <3> QED BY <1>3, <3>1
  <2>2. \A l \in failed..Len(w) : \E k \in DOMAIN rest : w[l] = rest[k]
    <3> SUFFICES ASSUME NEW l \in failed..Len(w) PROVE \E k \in DOMAIN rest : w[l] = rest[k]
      OBVIOUS
    <3>1. l - failed + 1 \in DOMAIN rest /\ failed + (l - failed + 1) - 1 = l
      BY <1>3
    <3> QED BY <1>3, <3>1
  <2> QED BY <2>1, <2>2
<1> QED
  BY <1>1, <1>2, <1>4 DEF CutAt

\* What a read does, whether a send of it fails or not: of what the processor
\* made of it, sent goes out, and the dropped frames do not.
ReadMakes(q, rest, p, sent, dropped) ==
    /\ UNCHANGED <<typed, pending_input, pending_input_bytes, pty, shell, exited>>
    /\ escape' = p.state /\ seen' = p.seen /\ wire' = wire \o sent /\ stdin' = rest
    /\ p.actions = sent \o dropped
    /\ lost' = lost \cup ((Range(q) \ Range(p.seen)) \cup Range(FlattenSeq(dropped)))
    /\ link = "up" /\ link' \in {"up", "down", "left"} /\ drops' \in 0..MaxDrops
    /\ undone' \in BOOLEAN /\ (undone => undone')
    /\ Obeys' => p.stop # "Detach"

\* What a read makes of standard input, the wire and the lost bytes.
LEMMA ReadEffect ==
    ASSUME KeyboardAssumption, Types, InOrder, EscapeInv, NEW n, NEW failed, Read(n, failed)
    PROVE  \E q \in Seq(Place), rest \in Seq(Place), sent \in Seq(Seq(Place)),
              dropped \in Seq(Seq(Place)) :
              stdin = q \o rest /\ ReadMakes(q, rest, process(q), sent, dropped)
<1> DEFINE q == SubSeq(stdin, 1, n)
           rest == SubSeq(stdin, n + 1, Len(stdin))
           p == process(q)
           sent == SubSeq(p.actions, 1, failed - 1)
           dropped == SubSeq(p.actions, failed, Len(p.actions))
           broken == UNION {Range(p.actions[k]) : k \in failed..Len(p.actions)}
           unseen == Range(q) \ Range(p.seen)
<1>1. n \in 1..Len(stdin) /\ failed \in 1..(Len(p.actions) + 1)
  BY DEF Read
<1>2. q \in Seq(Place) /\ rest \in Seq(Place) /\ stdin = q \o rest
  <2>1. stdin \in Seq(Place) /\ n \in 0..Len(stdin)
    BY <1>1, Sequences
  <2> QED BY <2>1, CutInTwo
<1>3. p.actions \in Seq(Seq(Place)) /\ p.stop \in {"No", "Detach", "Reconnect"}
  <2>1. Len(typed) \in Nat /\ seen \in Seq(Place) /\ escape \in States
    BY Sequences DEF Types, States
  <2>2. escape = "AfterTilde" => \E i \in Range(seen) : typed[i] = "~"
    BY DEF EscapeInv
  <2> HIDE DEF q, rest
  <2>3. Increasing(seen \o q)
    BY <1>2, Apart
  <2>4. p = process(q)
    OBVIOUS
  <2> HIDE DEF p
  <2>5. ReadGives(q, seen, lost, p)
    BY <1>2, <2>1, <2>2, <2>3, <2>4, ReadGood
  <2> QED BY <2>5 DEF ReadGives
<1>4. /\ UNCHANGED <<typed, pending_input, pending_input_bytes, pty, shell, exited>>
      /\ escape' = p.state /\ seen' = p.seen /\ wire' = wire \o sent /\ stdin' = rest
      /\ link = "up"
  BY DEF Read
<1>5. \/ /\ failed <= Len(p.actions)
         /\ drops < MaxDrops /\ link' = "down" /\ drops' = drops + 1
         /\ undone' = (undone \/ p.stop = "Detach")
         /\ lost' = lost \cup unseen \cup broken
      \/ /\ ~(failed <= Len(p.actions))
         /\ link' = CASE p.stop = "Detach" -> "left"
                      [] p.stop = "Reconnect" -> "down"
                      [] OTHER -> "up"
         /\ lost' = lost \cup unseen
         /\ UNCHANGED <<undone, drops>>
  BY DEF Read
<1> HIDE DEF q, rest, p, sent, dropped, broken, unseen
<1>6. /\ sent \in Seq(Seq(Place)) /\ dropped \in Seq(Seq(Place))
      /\ p.actions = sent \o dropped
      /\ Range(FlattenSeq(dropped)) = broken
  <2> DEFINE w == p.actions
  <2>1. w \in Seq(Seq(Place)) /\ failed \in 1..(Len(w) + 1)
        /\ dropped = SubSeq(w, failed, Len(w)) /\ sent = SubSeq(w, 1, failed - 1)
        /\ broken = UNION {Range(w[k]) : k \in failed..Len(w)}
    BY <1>1, <1>3 DEF sent, dropped, broken
  <2> HIDE DEF w
  <2>2. CutAt(Place, w, failed, sent, dropped)
    BY <2>1, RestOf
  <2> QED BY <2>1, <2>2 DEF w, CutAt
<1>7. drops \in 0..MaxDrops /\ MaxDrops \in Nat /\ undone \in BOOLEAN
  BY DEF Types, KeyboardAssumption
<1>8. CASE /\ failed <= Len(p.actions)
           /\ drops < MaxDrops /\ link' = "down" /\ drops' = drops + 1
           /\ undone' = (undone \/ p.stop = "Detach")
           /\ lost' = lost \cup unseen \cup broken
  <2>1. lost' = lost \cup (unseen \cup Range(FlattenSeq(dropped)))
    BY <1>6, <1>8
  <2>2. link' \in {"up", "down", "left"} /\ drops' \in 0..MaxDrops /\ undone' \in BOOLEAN
        /\ (undone => undone')
    BY <1>7, <1>8
  <2>3. Obeys' => p.stop # "Detach"
    BY <1>8 DEF Obeys
  <2>4. ReadMakes(q, rest, p, sent, dropped)
    BY <1>4, <1>6, <2>1, <2>2, <2>3 DEF ReadMakes, unseen
  <2> QED BY <1>2, <1>6, <2>4 DEF p
<1>9. CASE /\ ~(failed <= Len(p.actions))
           /\ link' = CASE p.stop = "Detach" -> "left"
                        [] p.stop = "Reconnect" -> "down"
                        [] OTHER -> "up"
           /\ lost' = lost \cup unseen
           /\ UNCHANGED <<undone, drops>>
  <2>1. broken = {}
    <3>1. Len(p.actions) \in Nat /\ failed \in Nat
      BY <1>1, <1>3
    <3>2. failed..Len(p.actions) = {}
      BY <1>9, <3>1
    <3> QED BY <3>2 DEF broken
  <2>2. lost' = lost \cup (unseen \cup Range(FlattenSeq(dropped)))
    BY <1>6, <1>9, <2>1
  <2>3. link' \in {"up", "down", "left"}
    BY <1>3, <1>9
  <2>4. Obeys' => p.stop # "Detach"
    BY <1>9 DEF Obeys
  <2>5. drops' \in 0..MaxDrops /\ undone' \in BOOLEAN /\ (undone => undone')
    BY <1>7, <1>9
  <2>6. ReadMakes(q, rest, p, sent, dropped)
    BY <1>4, <1>6, <2>2, <2>3, <2>4, <2>5 DEF ReadMakes, unseen
  <2> QED BY <1>2, <1>6, <2>6 DEF p
<1> QED
  BY <1>5, <1>8, <1>9

\* The tail of a sequence dropped.
LEMMA EndLost ==
    ASSUME NEW a \in Seq(Nat), NEW m \in Seq(Nat), Increasing(a \o m)
    PROVE  /\ Increasing(a)
           /\ Range(a) = Range(a \o m) \ Range(m) /\ Range(m) \subseteq Range(a \o m)
<1>1. a \o m \in Seq(Nat) /\ Range(a \o m) = Range(a) \cup Range(m)
  BY Joined
<1>2. Increasing(a) /\ \A x \in Range(a), y \in Range(m) : x < y
  BY JoinedInOrder
<1>3. Range(a) \subseteq Nat
  BY Joined
<1>4. Range(a) \cap Range(m) = {}
  BY <1>2, <1>3
<1> QED
  BY <1>1, <1>2, <1>4

\* What is given to the processor of a read is its beginning.
LEMMA SeenMore ==
    ASSUME Types, InOrder, NEW q \in Seq(Place), NEW rest \in Seq(Place),
           stdin = q \o rest, NEW given \in Seq(Place),
           NEW m \in 0..Len(q), given = seen \o SubSeq(q, 1, m)
    PROVE  /\ Increasing(given \o rest) /\ given \in Seq(Nat)
           /\ Range(given) \subseteq Range(seen) \cup Range(q)
<1> DEFINE one == SubSeq(q, 1, m)
           two == SubSeq(q, m + 1, Len(q))
<1>1. seen \in Seq(Nat) /\ q \in Seq(Nat) /\ rest \in Seq(Nat) /\ Increasing((seen \o q) \o rest)
  BY Apart
<1>2. one \in Seq(Nat) /\ two \in Seq(Nat) /\ q = one \o two
  BY <1>1, CutInTwo
<1>3. given = seen \o one
  OBVIOUS
<1> HIDE DEF one, two
<1>4. \A x, y \in Seq(Nat) : x \o y \in Seq(Nat) /\ Range(x \o y) = Range(x) \cup Range(y)
  BY Joined
<1>5. given \in Seq(Nat)
  <2>1. Len(typed) \in Nat
    BY Sequences
  <2> QED BY <2>1, PlaceNat
<1>6. given \in Seq(Nat) /\ seen \o q = given \o two
  <2>1. Grouping(seen, one, two)
    BY <1>1, <1>2, Assoc
  <2> QED BY <1>2, <1>3, <1>5, <2>1 DEF Grouping
<1>7. Increasing((given \o two) \o rest)
  BY <1>1, <1>6
<1>8. Increasing(given \o rest)
  BY <1>1, <1>2, <1>6, <1>7, MiddleLost
<1>9. Range(given) = Range(seen) \cup Range(one) /\ Range(q) = Range(one) \cup Range(two)
  BY <1>1, <1>2, <1>3, <1>4
<1> QED
  BY <1>6, <1>8, <1>9

\* After a read on a live connection, what it leaves holds of the rest.
LEMMA ReadGoesOn ==
    ASSUME IInv, NEW q \in Seq(Place), NEW rest \in Seq(Place),
           stdin = q \o rest, NEW p, p = process(q), link = "up"
    PROVE  /\ p.actions \in Seq(Seq(Place)) /\ p.state \in States /\ p.seen \in Seq(Place)
           /\ p.state = "AfterTilde" => \E i \in Range(p.seen) : typed[i] = "~"
           /\ Increasing(p.seen \o rest) /\ p.seen \in Seq(Nat)
           /\ Range(p.seen) \subseteq Range(seen) \cup Range(q)
           /\ ~undone => Range(q) \cap lost = {} /\ Sends(OnItsWay, lost, p)
<1>1. Types /\ InOrder /\ EscapeInv /\ UnreadKept /\ Arrived
  BY KeyboardParts
<1>2. Len(typed) \in Nat /\ seen \in Seq(Place) /\ escape \in States
  BY <1>1, Sequences DEF Types, States
<1>3. escape = "AfterTilde" => \E i \in Range(seen) : typed[i] = "~"
  BY <1>1 DEF EscapeInv
<1>4. Increasing(seen \o q) /\ Increasing(seen)
  BY <1>1, Apart
<1>5. OnItsWay \in Seq(Place)
  BY <1>1, WayType
<1>6. ReadGives(q, OnItsWay, lost, p)
  BY <1>2, <1>3, <1>4, <1>5, ReadGood
<1>7. PICK m \in 0..Len(q) : p.seen = seen \o SubSeq(q, 1, m)
  BY <1>6 DEF ReadGives
<1>8. p.seen \in Seq(Place)
  BY <1>6 DEF ReadGives
<1>9. /\ Increasing(p.seen \o rest) /\ p.seen \in Seq(Nat)
      /\ Range(p.seen) \subseteq Range(seen) \cup Range(q)
  BY <1>1, <1>7, <1>8, SeenMore
<1>10. ASSUME ~undone PROVE Range(q) \cap lost = {} /\ StartGood(OnItsWay, lost)
  <2>1. Range(stdin) = Range(q) \cup Range(rest)
    BY Joined
  <2>2. Range(q) \cap lost = {}
    BY <1>1, <1>10, <2>1 DEF UnreadKept
  <2>3. Obeys
    BY <1>10 DEF Obeys
  <2>4. ToldBy(typed, seen, escape)
    BY <1>1, <2>3, MeantHere DEF EscapeInv
  <2>5. escape = "AfterTilde" => Last(seen) \notin lost
    BY <1>1, <2>3 DEF EscapeInv
  <2>6. Increasing(OnItsWay) /\ Range(OnItsWay) = MeantOf(typed, seen) \ lost
    BY <1>1, <1>10 DEF Arrived
  <2> QED BY <1>4, <2>2, <2>4, <2>5, <2>6 DEF StartGood
<1> QED
  BY <1>6, <1>9, <1>10 DEF ReadGives

\* A read, whichever of its frames fails and whatever command it meets.
LEMMA ReadKeeps ==
    ASSUME KeyboardAssumption, IInv, NEW n, NEW failed, Read(n, failed) PROVE IInv'
<1>1. Types /\ InOrder /\ EscapeInv /\ UnreadKept /\ Arrived /\ Counted
  BY KeyboardParts
<1>2. PICK q \in Seq(Place), rest \in Seq(Place), sent \in Seq(Seq(Place)),
           dropped \in Seq(Seq(Place)) :
           stdin = q \o rest /\ ReadMakes(q, rest, process(q), sent, dropped)
  BY <1>1, ReadEffect
<1>3. PICK p : p = process(q)
  OBVIOUS
<1>4. /\ UNCHANGED <<typed, pending_input, pending_input_bytes, pty, shell, exited>>
      /\ escape' = p.state /\ seen' = p.seen /\ wire' = wire \o sent /\ stdin' = rest
      /\ p.actions = sent \o dropped
      /\ lost' = lost \cup ((Range(q) \ Range(p.seen)) \cup Range(FlattenSeq(dropped)))
      /\ link = "up" /\ link' \in {"up", "down", "left"} /\ drops' \in 0..MaxDrops
      /\ undone' \in BOOLEAN /\ (undone => undone')
      /\ Obeys' => p.stop # "Detach"
  BY <1>2, <1>3 DEF ReadMakes
<1>5. /\ p.actions \in Seq(Seq(Place)) /\ p.state \in States /\ p.seen \in Seq(Place)
      /\ p.state = "AfterTilde" => \E i \in Range(p.seen) : typed[i] = "~"
      /\ Increasing(p.seen \o rest) /\ p.seen \in Seq(Nat)
      /\ Range(p.seen) \subseteq Range(seen) \cup Range(q)
      /\ ~undone => Range(q) \cap lost = {} /\ Sends(OnItsWay, lost, p)
  BY <1>2, <1>3, <1>4, ReadGoesOn
<1> DEFINE on == FlattenSeq(sent)
           off == FlattenSeq(dropped)
           w == OnItsWay
           unseen == Range(q) \ Range(p.seen)
<1>6. on \in Seq(Place) /\ off \in Seq(Place) /\ FlattenSeq(p.actions) = on \o off
  <2>1. FlattenSeq(sent \o dropped) = on \o off /\ on \in Seq(Place) /\ off \in Seq(Place)
    BY FlattenJoined
  <2> QED BY <1>4, <2>1
<1>7. w \in Seq(Place) /\ w \o (on \o off) = (w \o on) \o off /\ w \o on \in Seq(Place)
  <2>1. w \in Seq(Place)
    BY <1>1, WayType
  <2> HIDE DEF w, on, off
  <2>3. Grouping(w, on, off)
    BY <1>6, <2>1, Assoc
  <2>4. w \o on \in Seq(Place)
    BY <1>6, <2>1
  <2> QED BY <2>1, <2>3, <2>4 DEF Grouping
<1>8. OnItsWay' = w \o on
  <2>1. FlattenSeq(wire \o sent) = FlattenSeq(wire) \o on /\ FlattenSeq(wire) \in Seq(Place)
    <3>1. wire \in Seq(Seq(Place))
      BY <1>1, Sequences
    <3> QED BY <3>1, FlattenJoined
  <2> DEFINE a == shell \o pty \o FlattenSeq(pending_input)
  <2>2. a \in Seq(Place)
    <3>1. shell \in Seq(Place) /\ pty \in Seq(Place) /\ FlattenSeq(pending_input) \in Seq(Place)
      BY <1>1, Sequences
    <3>2. \A x, y \in Seq(Place) : x \o y \in Seq(Place)
      OBVIOUS
    <3>3. shell \o pty \in Seq(Place)
      BY <3>1, <3>2
    <3> QED BY <3>1, <3>2, <3>3
  <2>3. OnItsWay' = a \o (FlattenSeq(wire) \o on) /\ w = a \o FlattenSeq(wire)
    BY <1>4, <2>1 DEF OnItsWay
  <2> HIDE DEF a, w, on
  <2>4. Grouping(a, FlattenSeq(wire), on)
    BY <1>6, <2>1, <2>2, Assoc
  <2> QED BY <2>3, <2>4 DEF Grouping
<1> HIDE DEF w, on, off
<1>9. ASSUME ~undone
      PROVE  /\ Increasing(w \o on)
             /\ Range(w \o on) = MeantOf(typed, p.seen) \ lost'
             /\ Range(off) \subseteq MeantOf(typed, p.seen)
  <2>1. /\ Increasing((w \o on) \o off)
        /\ Range((w \o on) \o off) = MeantOf(typed, p.seen) \ lost
    BY <1>5, <1>6, <1>7, <1>9 DEF Sends, w
  <2>2. w \o on \in Seq(Nat) /\ off \in Seq(Nat)
    <3>1. Len(typed) \in Nat
      BY <1>1, Sequences
    <3> QED BY <1>6, <1>7, <3>1, PlaceNat
  <2>3. /\ Increasing(w \o on)
        /\ Range(w \o on) = Range((w \o on) \o off) \ Range(off)
        /\ Range(off) \subseteq Range((w \o on) \o off)
    BY <2>1, <2>2, EndLost
  <2>4. MeantOf(typed, p.seen) \subseteq Range(p.seen)
    BY MeantGiven
  <2>5. lost' = lost \cup (unseen \cup Range(off))
    BY <1>4 DEF off
  <2> QED BY <2>1, <2>3, <2>4, <2>5
<1>10. Arrived'
  <2>1. Increasing(OnItsWay)' = Increasing(w \o on) /\ Range(OnItsWay)' = Range(w \o on)
    BY <1>8 DEF Increasing, Range
  <2>2. MeantOf(typed, seen)' = MeantOf(typed, p.seen)
    BY <1>4 DEF MeantOf, MeantIn, TildeIn
  <2>3. undone' \/ (Increasing(w \o on) /\ Range(w \o on) = MeantOf(typed, p.seen) \ lost')
    BY <1>4, <1>9
  <2> QED BY <2>1, <2>2, <2>3 DEF Arrived
<1>11. Counted'
  BY <1>1, <1>4 DEF Counted
<1>12. InOrder'
  <2>1. (seen \o stdin)' = p.seen \o rest
    BY <1>4
  <2> QED BY <1>5, <2>1 DEF InOrder, Increasing
<1>13. UnreadKept'
  <2> SUFFICES ASSUME ~undone' PROVE lost' \cap Range(rest) = {}
    BY <1>4 DEF UnreadKept, Range
  <2>1. ~undone
    BY <1>4
  <2>2. Range(seen) \cap Range(rest) = {} /\ Range(q) \cap Range(rest) = {}
    BY <1>1, <1>2, Apart
  <2>3. Range(off) \subseteq Range(p.seen)
    BY <1>9, <2>1, MeantGiven
  <2>4. lost \cap Range(rest) = {}
    <3>1. Range(stdin) = Range(q) \cup Range(rest)
      BY <1>2, Joined
    <3> QED BY <1>1, <2>1, <3>1 DEF UnreadKept
  <2>5. lost' = lost \cup (unseen \cup Range(off))
    BY <1>4 DEF off
  <2> QED BY <1>5, <2>2, <2>3, <2>4, <2>5
<1>14. EscapeInv'
  <2>1. StateTold(seen, escape)' = ToldBy(typed, p.seen, p.state)
    BY <1>4 DEF StateTold, Tilde, ToldBy, AtLineStart, AtTilde, TildeIn
  <2>2. Obeys' => ~undone /\ p.stop # "Detach"
    BY <1>4 DEF Obeys
  <2>3. Obeys' => StateTold(seen, escape)'
    BY <1>5, <2>1, <2>2 DEF Sends
  <2>4. Obeys' /\ escape' = "AfterTilde" => Last(seen') \notin lost'
    <3> SUFFICES ASSUME Obeys', p.state = "AfterTilde" PROVE Last(p.seen) \notin lost'
      BY <1>4
    <3>1. Sends(OnItsWay, lost, p) /\ ~undone /\ p.stop # "Detach"
      BY <1>5, <2>2
    <3>2. Increasing(p.seen) /\ AtTilde(typed, p.seen) /\ Last(p.seen) \notin lost
      BY <3>1 DEF Sends, ToldBy
    <3>3. Last(p.seen) \notin MeantOf(typed, p.seen) /\ Last(p.seen) \in Range(p.seen)
      BY <1>5, <3>2, TildeWaits
    <3>4. Range(off) \subseteq MeantOf(typed, p.seen)
      BY <1>9, <3>1
    <3>5. lost' = lost \cup (unseen \cup Range(off))
      BY <1>4 DEF off
    <3> QED BY <3>2, <3>3, <3>4, <3>5
  <2>5. escape' = "AfterTilde" => \E i \in Range(seen') : typed'[i] = "~"
    BY <1>4, <1>5
  <2> QED BY <2>3, <2>4, <2>5 DEF EscapeInv
<1>15. Types'
  <2>1. Place' = Place
    BY <1>4 DEF Place
  <2>2. wire \o sent \in Seq(Seq(Place))
    <3>1. wire \in Seq(Seq(Place))
      BY <1>1, Sequences
    <3> QED BY <3>1
  <2>3. lost' \subseteq Place
    <3>1. Range(q) \subseteq Place
      BY Joined
    <3>2. Range(off) \subseteq Place
      BY <1>6, Joined
    <3>3. lost' = lost \cup (unseen \cup Range(off))
      BY <1>4 DEF off
    <3> QED BY <1>1, <3>1, <3>2, <3>3 DEF Types
  <2> QED BY <1>1, <1>2, <1>4, <1>5, <2>1, <2>2, <2>3 DEF Types, States
<1> QED
  BY <1>10, <1>11, <1>12, <1>13, <1>14, <1>15, Whole DEF Shown

\* Nothing is typed at first.
LEMMA KeyboardInit == ASSUME KeyboardAssumption, Init PROVE IInv
<1>1. /\ typed = <<>> /\ stdin = <<>> /\ seen = <<>> /\ escape = "AfterNewline"
      /\ link = "up" /\ wire = <<>> /\ pending_input = <<>> /\ pending_input_bytes = 0
      /\ pty = <<>> /\ shell = <<>> /\ exited = FALSE
      /\ lost = {} /\ undone = FALSE /\ drops = 0
  BY DEF Init
<1>2. /\ FlattenSeq(<<>>) = <<>> /\ \A S : <<>> \in Seq(S)
  BY FlattenNone
<1>3. <<>> \o <<>> = <<>> /\ Len(<<>>) = 0 /\ DOMAIN <<>> = {}
  OBVIOUS
<1>4. Types
  <2>1. <<>> \in Seq(Keys) /\ <<>> \in Seq(Place) /\ <<>> \in Seq(Seq(Place))
    BY <1>2
  <2>2. 0 \in 0..Cap /\ 0 \in 0..MaxDrops /\ Len(<<>>) <= PtyRoom
    BY <1>3 DEF KeyboardAssumption
  <2> QED BY <1>1, <2>1, <2>2 DEF Types
<1>5. InOrder
  <2>1. seen \o stdin = <<>>
    BY <1>1, <1>3
  <2> QED BY <1>3, <2>1 DEF InOrder, Increasing
<1>6. EscapeInv
  BY <1>1 DEF EscapeInv, StateTold
<1>7. UnreadKept
  BY <1>1 DEF UnreadKept
<1>8. Arrived
  <2>1. OnItsWay = <<>>
    BY <1>1, <1>2, <1>3 DEF OnItsWay
  <2>2. Increasing(OnItsWay) /\ Range(OnItsWay) = {}
    BY <1>3, <2>1 DEF Increasing, Range
  <2>3. MeantOf(typed, seen) = {}
    BY <1>1, <1>3 DEF MeantOf
  <2> QED BY <2>2, <2>3 DEF Arrived
<1>9. Counted
  BY <1>1, <1>2, <1>3 DEF Counted
<1> QED
  BY <1>4, <1>5, <1>6, <1>7, <1>8, <1>9, KeyboardParts

\* Every step keeps the invariant.
LEMMA KeyboardNext ==
    ASSUME KeyboardAssumption, IInv, [Next]_vars PROVE IInv'
<1>1. ASSUME NEW b \in Keys, Type(b) PROVE IInv'
  BY <1>1, TypeKeeps
<1>2. ASSUME NEW n \in 1..MaxTyped, ReadStale(n) PROVE IInv'
  BY <1>2, ReadStaleKeeps
<1>3. ASSUME NEW n \in 1..MaxTyped, NEW failed \in 1..(MaxTyped + 1), Read(n, failed)
      PROVE  IInv'
  BY <1>3, ReadKeeps
<1>4. CASE ReadWhileDown
  BY <1>4, ReadWhileDownKeeps
<1>5. CASE Reconnected
  BY <1>5, ReconnectedKeeps
<1>6. CASE Queue
  BY <1>6, QueueKeeps
<1>7. CASE Drain
  BY <1>7, DrainKeeps
<1>8. CASE DrainFails
  BY <1>8, DrainFailsKeeps
<1>9. CASE ShellReads
  BY <1>9, ShellReadsKeeps
<1>10. CASE ShellExits
  BY <1>10, ShellExitsKeeps
<1>11. CASE UNCHANGED vars
  <2>1. UNCHANGED <<typed, stdin, escape, seen, link, wire, pending_input,
                    pending_input_bytes, pty, shell, exited, lost, undone, drops>>
    BY <1>11 DEF vars
  <2>2. Types /\ Counted
    BY KeyboardParts
  <2>3. Types'
    <3>1. Place' = Place
      BY <2>1 DEF Place
    <3> QED BY <2>1, <2>2, <3>1 DEF Types
  <2>4. Shown'
    <3>1. Obeys' => Obeys
      BY <2>1 DEF Obeys
    <3>2. OnItsWay' = OnItsWay
      BY <2>1 DEF OnItsWay
    <3> QED BY <2>1, <3>1, <3>2, SameWay
  <2>5. Counted'
    BY <2>1, <2>2 DEF Counted
  <2> QED BY <2>3, <2>4, <2>5, Whole
<1> QED
  BY <1>1, <1>2, <1>3, <1>4, <1>5, <1>6, <1>7, <1>8, <1>9, <1>10, <1>11 DEF Next

\* What the user types reaches the shell: in order, without a byte repeated, as
\* it was meant, but for what was dropped whole on the way.
THEOREM InputKept == ASSUME KeyboardAssumption PROVE Spec => []InputIntact
<1>1. Init => IInv
  BY KeyboardInit
<1>2. IInv /\ [Next]_vars => IInv'
  BY KeyboardNext
<1>3. IInv => InputIntact
  BY DEF IInv
<1> QED
  BY <1>1, <1>2, <1>3, PTL DEF Spec

\* The queue of the session never counts more than its cap, the PTY holds no more
\* than it has room for, and only what was typed is lost.
THEOREM KeyboardTyped == ASSUME KeyboardAssumption PROVE Spec => []TypeOK
<1>1. Init => IInv
  BY KeyboardInit
<1>2. IInv /\ [Next]_vars => IInv'
  BY KeyboardNext
<1>3. IInv => TypeOK
  <2> SUFFICES ASSUME Types PROVE TypeOK
    BY DEF IInv
  <2>1. Place = DOMAIN typed
    BY DEF Types, Place
  <2> QED BY <2>1 DEF Types, TypeOK
<1> QED
  BY <1>1, <1>2, <1>3, PTL DEF Spec

-----------------------------------------------------------------------------
(* The query filter: a sequence without some of its places *)

\* Without, place by place.
Steps(s, R, m, f) ==
    /\ f[0] = <<>>
    /\ \A k \in 1..m : f[k] = IF k \in R THEN f[k - 1] ELSE Append(f[k - 1], s[k])

LEMMA WithoutSteps ==
    ASSUME NEW S, NEW s \in Seq(S), NEW R
    PROVE  \E f \in [0..Len(s) -> Seq(S)] : Steps(s, R, Len(s), f) /\ F!Without(s, R) = f[Len(s)]
<1> DEFINE n == Len(s)
           Recurs(h) == h = [k \in 0..n |-> IF k = 0 THEN <<>>
                               ELSE IF k \in R THEN h[k - 1] ELSE Append(h[k - 1], s[k])]
           upto == CHOOSE h : Recurs(h)
           P == {m \in Nat : m <= n => \E h \in [0..m -> Seq(S)] : Steps(s, R, m, h)}
<1>1. n \in Nat /\ \A k \in 1..n : s[k] \in S
  OBVIOUS
<1>2. F!Without(s, R) = upto[n]
  BY DEF F!Without
<1>3. 0 \in P
  <2> DEFINE h == [k \in 0..0 |-> <<>>]
  <2>1. h \in [0..0 -> Seq(S)] /\ Steps(s, R, 0, h)
    <3>0. <<>> \in Seq(S)
      OBVIOUS
    <3>1. h \in [0..0 -> Seq(S)] /\ h[0] = <<>>
      BY <3>0
    <3>2. 1..0 = {}
      OBVIOUS
    <3> QED BY <3>1, <3>2 DEF Steps
  <2> QED BY <2>1
<1>4. ASSUME NEW m \in Nat, m \in P PROVE m + 1 \in P
  <2>1. SUFFICES ASSUME m + 1 <= n PROVE \E h \in [0..(m + 1) -> Seq(S)] : Steps(s, R, m + 1, h)
    OBVIOUS
  <2>2. PICK g \in [0..m -> Seq(S)] : Steps(s, R, m, g)
    BY <1>1, <1>4, <2>1
  <2> DEFINE x == IF m + 1 \in R THEN g[m] ELSE Append(g[m], s[m + 1])
             h == [k \in 0..(m + 1) |-> IF k = m + 1 THEN x ELSE g[k]]
  <2>3. x \in Seq(S)
    <3>1. g[m] \in Seq(S)
      OBVIOUS
    <3>2. s[m + 1] \in S
      BY <1>1, <2>1
    <3> QED BY <3>1, <3>2
  <2>4. h \in [0..(m + 1) -> Seq(S)]
    <3> HIDE DEF x
    <3> QED BY <2>2, <2>3
  <2>5. h[0] = <<>>
    BY <2>2 DEF Steps
  <2>6. ASSUME NEW k \in 1..(m + 1)
        PROVE  h[k] = IF k \in R THEN h[k - 1] ELSE Append(h[k - 1], s[k])
    <3>1. CASE k = m + 1
      <4>1. h[k] = x /\ h[k - 1] = g[m]
        BY <3>1
      <4> QED BY <3>1, <4>1
    <3>2. CASE k # m + 1
      <4>1. k \in 1..m /\ k - 1 \in 0..m
        BY <3>2
      <4>2. h[k] = g[k] /\ h[k - 1] = g[k - 1]
        BY <3>2, <4>1
      <4> HIDE DEF h
      <4> QED BY <4>1, <4>2, <2>2 DEF Steps
    <3> QED BY <3>1, <3>2
  <2>7. Steps(s, R, m + 1, h)
    <3> HIDE DEF h
    <3> QED BY <2>5, <2>6 DEF Steps
  <2> QED
    <3> HIDE DEF h
    <3> QED BY <2>4, <2>7
<1>5. PICK g \in [0..n -> Seq(S)] : Steps(s, R, n, g)
  <2>1. Nat \subseteq P
    <3> HIDE DEF P
    <3> QED BY <1>3, <1>4, NatSetInduction
  <2>2. n \in P
    BY <1>1, <2>1
  <2> QED BY <1>1, <2>2
<1>6. Recurs(g)
  <2>1. \A k \in 0..n : g[k] = IF k = 0 THEN <<>>
                               ELSE IF k \in R THEN g[k - 1] ELSE Append(g[k - 1], s[k])
    <3> SUFFICES ASSUME NEW k \in 0..n
                 PROVE  g[k] = IF k = 0 THEN <<>>
                               ELSE IF k \in R THEN g[k - 1] ELSE Append(g[k - 1], s[k])
      OBVIOUS
    <3>1. k = 0 \/ k \in 1..n
      BY <1>1
    <3> QED BY <1>5, <3>1 DEF Steps
  <2>2. g = [k \in 0..n |-> g[k]]
    BY <1>5
  <2> HIDE DEF n
  <2> QED BY <2>1, <2>2
<1>7. Recurs(upto)
  BY <1>6, Zenon
<1>8. upto = g
  <2> DEFINE U == {k \in Nat : k <= n => upto[k] = g[k]}
  <2>1. \A k \in 0..n : upto[k] = IF k = 0 THEN <<>>
                          ELSE IF k \in R THEN upto[k - 1] ELSE Append(upto[k - 1], s[k])
    <3> HIDE DEF upto
    <3> QED BY <1>7
  <2>2. \A k \in 0..n : g[k] = IF k = 0 THEN <<>>
                          ELSE IF k \in R THEN g[k - 1] ELSE Append(g[k - 1], s[k])
    BY <1>6
  <2> HIDE DEF upto
  <2>3. 0 \in U
    BY <1>1, <2>1, <2>2
  <2>4. ASSUME NEW k \in Nat, k \in U PROVE k + 1 \in U
    <3>1. SUFFICES ASSUME k + 1 <= n PROVE upto[k + 1] = g[k + 1]
      OBVIOUS
    <3>2. upto[k] = g[k] /\ k + 1 \in 0..n /\ (k + 1) - 1 = k /\ k + 1 # 0
      BY <1>1, <2>4, <3>1
    <3> HIDE DEF n
    <3> QED BY <2>1, <2>2, <3>2
  <2>5. Nat \subseteq U
    <3> HIDE DEF U
    <3> QED BY <2>3, <2>4, NatSetInduction
  <2>6. \A k \in 0..n : upto[k] = g[k]
    BY <1>1, <2>5
  <2>7. upto = [k \in 0..n |-> upto[k]] /\ g = [k \in 0..n |-> g[k]]
    <3>1. \A h : Recurs(h) => h = [k \in 0..n |-> h[k]]
      OBVIOUS
    <3> HIDE DEF Recurs
    <3> QED BY <1>6, <1>7, <3>1
  <2> HIDE DEF n
  <2> QED BY <2>6, <2>7
<1> HIDE DEF upto, Recurs, P
<1>9. Steps(s, R, n, g)
  BY <1>5
<1> QED
  BY <1>2, <1>5, <1>8, <1>9

\* Two sequences with the same first m places, of which the same are left out.
Alike(s, R, u, Q, m) == \A k \in 1..m : s[k] = u[k] /\ (k \in R <=> k \in Q)

Meet(f, g, m) == f[m] = g[m]

\* The steps of two sequences that begin alike.
LEMMA SameSteps ==
    ASSUME NEW s, NEW u, NEW m \in Nat, NEW R, NEW Q, Alike(s, R, u, Q, m),
           NEW f, NEW g, Steps(s, R, m, f), Steps(u, Q, m, g)
    PROVE  Meet(f, g, m)
<1> DEFINE U == {k \in Nat : k <= m => f[k] = g[k]}
<1>1. 0 \in U
  BY DEF Steps
<1>2. ASSUME NEW k \in Nat, k \in U PROVE k + 1 \in U
  <2>1. SUFFICES ASSUME k + 1 <= m PROVE f[k + 1] = g[k + 1]
    OBVIOUS
  <2>2. f[k] = g[k] /\ k + 1 \in 1..m /\ (k + 1) - 1 = k
    BY <1>2, <2>1
  <2> QED BY <2>2 DEF Steps, Alike
<1>3. Nat \subseteq U
  <2> HIDE DEF U
  <2> QED BY <1>1, <1>2, NatSetInduction
<1> QED
  BY <1>3 DEF Meet

\* The first places of a sequence do not depend on the others.
LEMMA WithoutHead ==
    ASSUME NEW S, NEW s \in Seq(S), NEW j \in 0..Len(s), NEW R, NEW Q,
           \A k \in 1..j : k \in R <=> k \in Q, NEW f, Steps(s, R, Len(s), f)
    PROVE  f[j] = F!Without(SubSeq(s, 1, j), Q)
<1> DEFINE u == SubSeq(s, 1, j)
<1>1. u \in Seq(S) /\ Len(u) = j /\ j \in Nat /\ j <= Len(s) /\ j <= Len(u)
      /\ \A k \in 1..j : s[k] = u[k]
  OBVIOUS
<1>2. u = SubSeq(s, 1, j)
  OBVIOUS
<1> HIDE DEF u
<1>3. PICK g \in [0..Len(u) -> Seq(S)] : Steps(u, Q, Len(u), g) /\ F!Without(u, Q) = g[Len(u)]
  BY <1>1, WithoutSteps
<1>4. Steps(s, R, j, f)
  BY <1>1 DEF Steps
<1>5. Steps(u, Q, j, g)
  BY <1>1, <1>3
<1>6. f[j] = g[j]
  <2>1. j \in Nat /\ Alike(s, R, u, Q, j)
    BY <1>1 DEF Alike
  <2>2. Meet(f, g, j)
    BY <2>1, <1>4, <1>5, SameSteps
  <2> QED BY <2>2 DEF Meet
<1> QED
  BY <1>1, <1>2, <1>3, <1>6

LEMMA WithoutType ==
    ASSUME NEW S, NEW s \in Seq(S), NEW R
    PROVE  F!Without(s, R) \in Seq(S)
<1>1. PICK f \in [0..Len(s) -> Seq(S)] : F!Without(s, R) = f[Len(s)]
  BY WithoutSteps
<1>2. Len(s) \in 0..Len(s)
  OBVIOUS
<1> QED
  BY <1>1, <1>2

LastGroups(a, t, x) == Append(a \o t, x) = a \o Append(t, x)
LEMMA LastGroup ==
    ASSUME NEW S, NEW a \in Seq(S), NEW t \in Seq(S), NEW x \in S
    PROVE  LastGroups(a, t, x)
<1> DEFINE l == Append(a \o t, x)
           r == a \o Append(t, x)
<1>1. l \in Seq(S) /\ r \in Seq(S) /\ Len(l) = Len(r)
  OBVIOUS
<1>2. \A i \in 1..Len(l) : l[i] = r[i]
  OBVIOUS
<1> HIDE DEF l, r
<1>3. l = r
  BY <1>1, <1>2, SeqEqual
<1> QED BY <1>3 DEF l, r, LastGroups

\* Nothing is left out after the place k.
LEMMA WithoutLast ==
    ASSUME NEW S, NEW s \in Seq(S), NEW k \in 0..Len(s), NEW R, R \subseteq 1..k
    PROVE  F!Without(s, R) = F!Without(SubSeq(s, 1, k), R) \o SubSeq(s, k + 1, Len(s))
<1>1. PICK f \in [0..Len(s) -> Seq(S)] : Steps(s, R, Len(s), f) /\ F!Without(s, R) = f[Len(s)]
  BY WithoutSteps
<1>2. f[k] = F!Without(SubSeq(s, 1, k), R)
  BY <1>1, WithoutHead
<1> DEFINE V(m) == f[k + m] = f[k] \o SubSeq(s, k + 1, k + m)
           U == {m \in Nat : k + m <= Len(s) => V(m)}
<1>3. f[k] \in Seq(S) /\ k \in Nat /\ Len(s) \in Nat
  BY <1>1
<1>4. 0 \in U
  <2>1. SubSeq(s, k + 1, k + 0) = <<>>
    BY <1>3
  <2>2. f[k] \o <<>> = f[k] /\ k + 0 = k
    BY <1>3
  <2> QED BY <2>1, <2>2
<1>5. ASSUME NEW m \in Nat, m \in U PROVE m + 1 \in U
  <2>1. SUFFICES ASSUME k + (m + 1) <= Len(s) PROVE V(m + 1)
    <3> HIDE DEF V
    <3> QED OBVIOUS
  <2> DEFINE q == k + (m + 1)
             t == SubSeq(s, k + 1, k + m)
  <2>2. q \in 1..Len(s) /\ q - 1 = k + m /\ k + m <= Len(s) /\ q \notin R
    BY <1>3, <2>1
  <2>3. f[q] = Append(f[k + m], s[q])
    <3> HIDE DEF q
    <3> QED BY <1>1, <2>2 DEF Steps
  <2>4. f[k + m] = f[k] \o t
    BY <1>5, <2>2
  <2>5. t \in Seq(S) /\ s[q] \in S
    BY <1>3, <2>2
  <2>0. f[k] \in Seq(S)
    BY <1>3
  <2>6. SubSeq(s, k + 1, q) = Append(t, s[q])
    BY <1>3, <2>2
  <2>7. Append(f[k] \o t, s[q]) = f[k] \o Append(t, s[q])
    <3> HIDE DEF t, q
    <3>1. LastGroups(f[k], t, s[q])
      BY <2>0, <2>5, LastGroup
    <3> QED BY <3>1 DEF LastGroups
  <2> HIDE DEF t, q
  <2>8. f[q] = f[k] \o SubSeq(s, k + 1, q)
    BY <2>3, <2>4, <2>6, <2>7
  <2> QED BY <2>8 DEF q
<1>6. Nat \subseteq U
  <2> HIDE DEF U
  <2> QED BY <1>4, <1>5, NatSetInduction
<1>7. Len(s) - k \in Nat /\ k + (Len(s) - k) = Len(s)
  OBVIOUS
<1>8. f[Len(s)] = f[k] \o SubSeq(s, k + 1, Len(s))
  <2>1. Len(s) - k \in U
    BY <1>6, <1>7
  <2>2. V(Len(s) - k)
    <3> HIDE DEF V
    <3> QED BY <1>7, <2>1
  <2> QED BY <1>7, <2>2
<1> QED
  BY <1>1, <1>2, <1>8

\* All is left out after the place k.
LEMMA WithoutEnd ==
    ASSUME NEW S, NEW s \in Seq(S), NEW k \in 0..Len(s), NEW R, NEW Q,
           \A i \in 1..k : i \in R <=> i \in Q, (k + 1)..Len(s) \subseteq R
    PROVE  F!Without(s, R) = F!Without(SubSeq(s, 1, k), Q)
<1>1. PICK f \in [0..Len(s) -> Seq(S)] : Steps(s, R, Len(s), f) /\ F!Without(s, R) = f[Len(s)]
  BY WithoutSteps
<1>2. f[k] = F!Without(SubSeq(s, 1, k), Q)
  BY <1>1, WithoutHead
<1> DEFINE U == {m \in Nat : k + m <= Len(s) => f[k + m] = f[k]}
<1>3. k \in Nat /\ Len(s) \in Nat
  OBVIOUS
<1>4. 0 \in U
  BY <1>3
<1>5. ASSUME NEW m \in Nat, m \in U PROVE m + 1 \in U
  <2>1. SUFFICES ASSUME k + (m + 1) <= Len(s) PROVE f[k + (m + 1)] = f[k]
    OBVIOUS
  <2> DEFINE q == k + (m + 1)
  <2>2. q \in 1..Len(s) /\ q - 1 = k + m /\ k + m <= Len(s) /\ q \in R
    BY <1>3, <2>1
  <2>3. f[q] = f[k + m]
    <3> HIDE DEF q
    <3> QED BY <1>1, <2>2 DEF Steps
  <2> QED BY <1>5, <2>2, <2>3
<1>6. Nat \subseteq U
  <2> HIDE DEF U
  <2> QED BY <1>4, <1>5, NatSetInduction
<1>7. Len(s) - k \in Nat /\ k + (Len(s) - k) = Len(s)
  OBVIOUS
<1>8. f[Len(s)] = f[k]
  <2>1. Len(s) - k \in U
    BY <1>6, <1>7
  <2> QED BY <1>7, <2>1, SMTT(30)
<1> QED
  BY <1>1, <1>2, <1>8

\* What follows from the place i on.
Rest(h, i) == SubSeq(h, i, Len(h))

\* A query ends with u, one byte longer than s, that begins at p.
Ends(u, p) == p < Len(u) /\ F!IsQuery(Rest(u, p))

PlacesInside(s) == F!QueryPlaces(s) \subseteq 1..Len(s)
LEMMA PlacesIn ==
    ASSUME NEW S, NEW s \in Seq(S)
    PROVE  PlacesInside(s)
<1>1. ASSUME NEW x \in F!QueryPlaces(s) PROVE x \in 1..Len(s)
  <2>1. PICK p \in (1..Len(s)) \X (1..Len(s)) : x \in p[1]..p[2]
    BY <1>1 DEF F!QueryPlaces
  <2>2. p[1] \in 1..Len(s) /\ p[2] \in 1..Len(s)
    BY <2>1
  <2> QED BY <2>1, <2>2
<1> QED
  BY <1>1 DEF PlacesInside

\* A place is in a query.
LEMMA PlaceOf ==
    ASSUME NEW s, NEW x
    PROVE  x \in F!QueryPlaces(s) <=>
              \E i \in 1..Len(s), j \in 1..Len(s) :
                 i < j /\ F!IsQuery(SubSeq(s, i, j)) /\ x \in i..j
<1>1. ASSUME x \in F!QueryPlaces(s)
      PROVE  \E i \in 1..Len(s), j \in 1..Len(s) :
                i < j /\ F!IsQuery(SubSeq(s, i, j)) /\ x \in i..j
  <2>1. PICK p \in (1..Len(s)) \X (1..Len(s)) :
           p[1] < p[2] /\ F!IsQuery(SubSeq(s, p[1], p[2])) /\ x \in p[1]..p[2]
    BY <1>1 DEF F!QueryPlaces
  <2> QED BY <2>1
<1>2. ASSUME NEW i \in 1..Len(s), NEW j \in 1..Len(s),
             i < j, F!IsQuery(SubSeq(s, i, j)), x \in i..j
      PROVE  x \in F!QueryPlaces(s)
  <2>1. <<i, j>> \in {q \in (1..Len(s)) \X (1..Len(s)) :
                        q[1] < q[2] /\ F!IsQuery(SubSeq(s, q[1], q[2]))}
    BY <1>2
  <2>2. x \in <<i, j>>[1]..<<i, j>>[2]
    BY <1>2
  <2> QED BY <2>1, <2>2 DEF F!QueryPlaces
<1> QED
  BY <1>1, <1>2

\* One byte more leaves the queries that were there.
Longer(s, u) ==
    /\ Len(u) = Len(s) + 1 /\ Len(s) \in Nat
    /\ \A i \in 1..Len(s), j \in 1..Len(s) : SubSeq(u, i, j) = SubSeq(s, i, j)
    /\ \A k \in 0..Len(s), i \in Nat : SubSeq(u, i + 1, k) = SubSeq(s, i + 1, k)

LEMMA LongerHere ==
    ASSUME NEW S, NEW s \in Seq(S), NEW b \in S, NEW u, u = Append(s, b)
    PROVE  Longer(s, u)
<1>1. Len(u) = Len(s) + 1 /\ Len(s) \in Nat /\ u \in Seq(S)
  OBVIOUS
<1>2. \A i \in Nat, k \in 0..Len(s) : SubSeq(u, i + 1, k) = SubSeq(s, i + 1, k)
  <2> SUFFICES ASSUME NEW i \in Nat, NEW k \in 0..Len(s)
               PROVE  SubSeq(u, i + 1, k) = SubSeq(s, i + 1, k)
    OBVIOUS
  <2>1. \A j \in 1..Len(s) : u[j] = s[j]
    OBVIOUS
  <2>2. SubSeq(u, i + 1, k) = [j \in 1..(1 + k - (i + 1)) |-> u[(i + 1) + j - 1]]
    OBVIOUS
  <2>3. SubSeq(s, i + 1, k) = [j \in 1..(1 + k - (i + 1)) |-> s[(i + 1) + j - 1]]
    OBVIOUS
  <2>4. \A j \in 1..(1 + k - (i + 1)) : u[(i + 1) + j - 1] = s[(i + 1) + j - 1]
    BY <2>1
  <2> QED BY <2>2, <2>3, <2>4, SMTT(30)
<1>3. \A i \in 1..Len(s), j \in 1..Len(s) : SubSeq(u, i, j) = SubSeq(s, i, j)
  <2> SUFFICES ASSUME NEW i \in 1..Len(s), NEW j \in 1..Len(s)
               PROVE  SubSeq(u, i, j) = SubSeq(s, i, j)
    OBVIOUS
  <2>1. i - 1 \in Nat /\ j \in 0..Len(s) /\ (i - 1) + 1 = i
    BY <1>1
  <2>2. SubSeq(u, (i - 1) + 1, j) = SubSeq(s, (i - 1) + 1, j)
    BY <1>2, <2>1
  <2> QED BY <2>1, <2>2
<1> QED
  BY <1>1, <1>2, <1>3 DEF Longer

\* No query ends here: the places stay.
LEMMA PlacesStay ==
    ASSUME NEW s, NEW u, Longer(s, u), \A p \in 1..Len(s) : ~Ends(u, p)
    PROVE  F!QueryPlaces(u) = F!QueryPlaces(s)
<1>1. ASSUME NEW x \in F!QueryPlaces(s) PROVE x \in F!QueryPlaces(u)
  <2>1. PICK i \in 1..Len(s), j \in 1..Len(s) :
           i < j /\ F!IsQuery(SubSeq(s, i, j)) /\ x \in i..j
    BY <1>1, PlaceOf
  <2>2. i \in 1..Len(u) /\ j \in 1..Len(u) /\ SubSeq(u, i, j) = SubSeq(s, i, j)
    BY DEF Longer
  <2>3. F!IsQuery(SubSeq(u, i, j))
    BY <2>1, <2>2
  <2> QED BY <2>1, <2>2, <2>3, PlaceOf
<1>2. ASSUME NEW x \in F!QueryPlaces(u) PROVE x \in F!QueryPlaces(s)
  <2>1. PICK i \in 1..Len(u), j \in 1..Len(u) :
           i < j /\ F!IsQuery(SubSeq(u, i, j)) /\ x \in i..j
    BY <1>2, PlaceOf
  <2>2. i \in 1..Len(s)
    BY <2>1 DEF Longer
  <2>3. j # Len(u)
    BY <2>1, <2>2 DEF Ends, Rest
  <2>4. j \in 1..Len(s)
    BY <2>3 DEF Longer
  <2>5. F!IsQuery(SubSeq(s, i, j))
    BY <2>1, <2>2, <2>4 DEF Longer
  <2> QED BY <2>1, <2>2, <2>4, <2>5, PlaceOf
<1> QED
  BY <1>1, <1>2

\* One query ends here, that begins at q: its places are added.
LEMMA PlacesMore ==
    ASSUME NEW s, NEW u, Longer(s, u), NEW q \in 1..Len(s), Ends(u, q),
           \A p \in 1..Len(s) : Ends(u, p) => p = q
    PROVE  F!QueryPlaces(u) = F!QueryPlaces(s) \cup (q..Len(u))
<1>1. ASSUME NEW x \in F!QueryPlaces(s) PROVE x \in F!QueryPlaces(u)
  <2>1. PICK i \in 1..Len(s), j \in 1..Len(s) :
           i < j /\ F!IsQuery(SubSeq(s, i, j)) /\ x \in i..j
    BY <1>1, PlaceOf
  <2>2. i \in 1..Len(u) /\ j \in 1..Len(u) /\ SubSeq(u, i, j) = SubSeq(s, i, j)
    BY DEF Longer
  <2>3. F!IsQuery(SubSeq(u, i, j))
    BY <2>1, <2>2
  <2> QED BY <2>1, <2>2, <2>3, PlaceOf
<1>2. ASSUME NEW x \in q..Len(u) PROVE x \in F!QueryPlaces(u)
  <2>1. q \in 1..Len(u) /\ Len(u) \in 1..Len(u) /\ q < Len(u)
    BY DEF Longer
  <2>2. F!IsQuery(SubSeq(u, q, Len(u)))
    BY DEF Ends, Rest
  <2> QED BY <2>1, <2>2, PlaceOf
<1>3. ASSUME NEW x \in F!QueryPlaces(u), x \notin F!QueryPlaces(s) PROVE x \in q..Len(u)
  <2>1. PICK i \in 1..Len(u), j \in 1..Len(u) :
           i < j /\ F!IsQuery(SubSeq(u, i, j)) /\ x \in i..j
    BY <1>3, PlaceOf
  <2>2. i \in 1..Len(s)
    BY <2>1 DEF Longer
  <2>3. CASE j = Len(u)
    <3>1. Ends(u, i)
      BY <2>1, <2>3 DEF Ends, Rest
    <3>2. i = q
      BY <2>2, <3>1
    <3> QED BY <2>1, <2>3, <3>2
  <2>4. CASE j # Len(u)
    <3>1. j \in 1..Len(s)
      BY <2>4 DEF Longer
    <3>2. F!IsQuery(SubSeq(s, i, j))
      BY <2>1, <2>2, <3>1 DEF Longer
    <3>3. x \in F!QueryPlaces(s)
      BY <2>1, <2>2, <3>1, <3>2, PlaceOf
    <3> QED BY <1>3, <3>3
  <2> QED BY <2>3, <2>4
<1> QED
  BY <1>1, <1>2, <1>3

-----------------------------------------------------------------------------
(* The query filter: the form of a query *)

\* A query that begins like w and is longer would have one of these forms.
LEMMA QueryForms ==
    ASSUME NEW w, F!IsQuery(w)
    PROVE  /\ w[1] = "esc"
           /\ w = <<"esc", "Z">> \/ F!IsCsiQuery(w) \/ F!IsStringQuery(w)
BY DEF F!IsQuery

\* The form of a string query, with its body in place.
Closed(w, n) ==
    /\ n \in 2..MaxString
    /\ \/ n = Len(w) - 1 /\ w[Len(w)] = "bel"
       \/ n = Len(w) - 2 /\ w[Len(w) - 1] = "esc" /\ w[Len(w)] = "\\"
    /\ \A i \in 3..n : w[i] \notin {"esc", "bel"}
    /\ F!StringQuery(w[2], SubSeq(w, 3, n))

OneLast(w, x) == F!IsSuffix(<<x>>, w) <=> Len(w) >= 1 /\ w[Len(w)] = x
TwoLast(w, x, y) ==
    F!IsSuffix(<<x, y>>, w) <=> Len(w) >= 2 /\ w[Len(w) - 1] = x /\ w[Len(w)] = y
TwoFirst(w, x, y) == F!IsPrefix(<<x, y>>, w) <=> Len(w) >= 2 /\ w[1] = x /\ w[2] = y
OneFirst(w, x) == F!IsPrefix(<<x>>, w) <=> Len(w) >= 1 /\ w[1] = x

\* The first elements of a sequence.
LEMMA Firsts ==
    ASSUME NEW S, NEW w \in Seq(S), NEW x, NEW y
    PROVE  OneFirst(w, x) /\ TwoFirst(w, x, y)
<1>1. Len(<<x>>) = 1 /\ Len(<<x, y>>) = 2 /\ Len(w) \in Nat
  OBVIOUS
<1>2. SubSeq(<<x>>, 1, 1) = <<x>> /\ SubSeq(<<x, y>>, 1, 2) = <<x, y>>
  <2>1. <<x>> \in Seq({x, y}) /\ <<x, y>> \in Seq({x, y})
    OBVIOUS
  <2>2. \A v \in Seq({x, y}) : SubSeq(v, 1, Len(v)) = v
    OBVIOUS
  <2> QED BY <1>1, <2>1, <2>2
<1>3. Len(w) >= 1 => SubSeq(w, 1, 1) = <<w[1]>>
  <2> SUFFICES ASSUME Len(w) >= 1 PROVE SubSeq(w, 1, 1) = <<w[1]>>
    OBVIOUS
  <2> DEFINE l == SubSeq(w, 1, 1)  r == <<w[1]>>
  <2>1. l \in Seq(S) /\ Len(l) = 1 /\ l[1] = w[1]
    BY <1>1
  <2>2. r \in Seq(S) /\ Len(r) = 1 /\ r[1] = w[1]
    BY <1>1
  <2> HIDE DEF l, r
  <2>3. l = r
    BY <2>1, <2>2, SeqEqual
  <2> QED BY <2>3 DEF l, r
<1>4. Len(w) >= 2 => SubSeq(w, 1, 2) = <<w[1], w[2]>>
  <2> SUFFICES ASSUME Len(w) >= 2 PROVE SubSeq(w, 1, 2) = <<w[1], w[2]>>
    OBVIOUS
  <2> DEFINE l == SubSeq(w, 1, 2)  r == <<w[1], w[2]>>
  <2>1. l \in Seq(S) /\ Len(l) = 2 /\ l[1] = w[1] /\ l[2] = w[2]
    BY <1>1
  <2>2. r \in Seq(S) /\ Len(r) = 2 /\ r[1] = w[1] /\ r[2] = w[2]
    BY <1>1
  <2>3. \A i \in 1..Len(l) : l[i] = r[i]
    <3> HIDE DEF l, r
    <3> QED BY <2>1, <2>2
  <2> HIDE DEF l, r
  <2>4. l = r
    BY <2>1, <2>2, <2>3, SeqEqual
  <2> QED BY <2>4 DEF l, r
<1>5. OneFirst(w, x)
  BY <1>1, <1>2, <1>3 DEF F!IsPrefix, OneFirst
<1>6. TwoFirst(w, x, y)
  BY <1>1, <1>2, <1>4 DEF F!IsPrefix, TwoFirst
<1> QED
  BY <1>5, <1>6

\* The last ones are the first ones of the reverse.
LEMMA Lasts ==
    ASSUME NEW S, NEW w \in Seq(S), NEW x, NEW y
    PROVE  OneLast(w, x) /\ TwoLast(w, x, y)
<1> DEFINE v == F!Reverse(w)
<1>1. Len(w) \in Nat /\ v = [i \in 1..Len(w) |-> w[(Len(w) - i) + 1]]
  BY DEF F!Reverse
<1>2. v \in Seq(S) /\ Len(v) = Len(w)
  BY <1>1
<1>3. \A i \in 1..Len(w) : v[i] = w[(Len(w) - i) + 1]
  BY <1>1
<1>4. F!Reverse(<<x>>) = <<x>> /\ F!Reverse(<<x, y>>) = <<y, x>>
  BY DEF F!Reverse
<1>5. Len(w) >= 1 => v[1] = w[Len(w)]
  BY <1>1, <1>3
<1>6. Len(w) >= 2 => v[2] = w[Len(w) - 1]
  BY <1>1, <1>3
<1> HIDE DEF v
<1>7. OneFirst(v, x) /\ TwoFirst(v, y, x)
  BY <1>2, Firsts
<1>8. F!IsSuffix(<<x>>, w) <=> F!IsPrefix(<<x>>, v)
  BY <1>4 DEF F!IsSuffix, v
<1>9. F!IsSuffix(<<x, y>>, w) <=> F!IsPrefix(<<y, x>>, v)
  BY <1>4 DEF F!IsSuffix, v
<1>10. OneLast(w, x)
  BY <1>1, <1>2, <1>5, <1>7, <1>8 DEF OneFirst, OneLast
<1>11. TwoLast(w, x, y)
  BY <1>1, <1>2, <1>5, <1>6, <1>7, <1>9 DEF TwoFirst, TwoLast
<1> QED
  BY <1>10, <1>11

LEMMA StringForm ==
    ASSUME MaxString \in Nat, NEW S, NEW w \in Seq(S)
    PROVE  F!IsStringQuery(w) <=> \E n \in Nat : Closed(w, n)
<1>1. Len(w) \in Nat /\ Len(<<"bel">>) = 1 /\ Len(<<"esc", "\\">>) = 2
  OBVIOUS
<1>2. OneLast(w, "bel") /\ TwoLast(w, "esc", "\\")
  BY Lasts
<1>3. ASSUME NEW n \in 2..Len(w)
      PROVE  F!Range(SubSeq(w, 3, n)) \cap {"esc", "bel"} = {}
                <=> \A i \in 3..n : w[i] \notin {"esc", "bel"}
  <2> DEFINE body == SubSeq(w, 3, n)
  <2>1. Len(body) = n - 2 /\ DOMAIN body = 1..(n - 2) /\ n - 2 \in Nat
        /\ \A i \in 1..(n - 2) : body[i] = w[i + 2]
    BY <1>1
  <2>2. F!Range(body) = {body[i] : i \in DOMAIN body}
    BY DEF F!Range
  <2> HIDE DEF body
  <2>3. ASSUME F!Range(body) \cap {"esc", "bel"} = {}, NEW i \in 3..n
        PROVE  w[i] \notin {"esc", "bel"}
    <3>1. i - 2 \in 1..(n - 2) /\ (i - 2) + 2 = i
      BY <2>1
    <3>2. body[i - 2] \in F!Range(body) /\ body[i - 2] = w[i]
      BY <2>1, <2>2, <3>1
    <3> QED BY <2>3, <3>2
  <2>4. ASSUME \A i \in 3..n : w[i] \notin {"esc", "bel"}
        PROVE  F!Range(body) \cap {"esc", "bel"} = {}
    <3>1. \A i \in 1..(n - 2) : i + 2 \in 3..n
      BY <2>1
    <3> QED BY <2>1, <2>2, <2>4, <3>1
  <2> QED BY <2>3, <2>4 DEF body
<1>4. ASSUME F!IsStringQuery(w) PROVE \E n \in Nat : Closed(w, n)
  <2>1. PICK t \in {<<"bel">>, <<"esc", "\\">>} :
           /\ Len(w) - Len(t) \in 2..MaxString
           /\ F!IsSuffix(t, w)
           /\ F!Range(SubSeq(w, 3, Len(w) - Len(t))) \cap {"esc", "bel"} = {}
           /\ F!StringQuery(w[2], SubSeq(w, 3, Len(w) - Len(t)))
    BY <1>4 DEF F!IsStringQuery
  <2> DEFINE n == Len(w) - Len(t)
  <2>2. \/ t = <<"bel">> /\ n = Len(w) - 1 /\ w[Len(w)] = "bel"
        \/ t = <<"esc", "\\">> /\ n = Len(w) - 2 /\ w[Len(w) - 1] = "esc" /\ w[Len(w)] = "\\"
    BY <1>1, <1>2, <2>1 DEF OneLast, TwoLast
  <2>3. n \in 2..Len(w) /\ n \in Nat
    BY <1>1, <2>1, <2>2
  <2>4. Closed(w, n)
    <3> HIDE DEF n
    <3>1. n \in 2..MaxString /\ F!Range(SubSeq(w, 3, n)) \cap {"esc", "bel"} = {}
          /\ F!StringQuery(w[2], SubSeq(w, 3, n))
      BY <2>1 DEF n
    <3>2. \A i \in 3..n : w[i] \notin {"esc", "bel"}
      BY <1>3, <2>3, <3>1
    <3> QED BY <2>2, <3>1, <3>2 DEF Closed
  <2> QED BY <2>3, <2>4
<1>5. ASSUME NEW n \in Nat, Closed(w, n) PROVE F!IsStringQuery(w)
  <2>1. PICK t \in {<<"bel">>, <<"esc", "\\">>} : F!IsSuffix(t, w) /\ n = Len(w) - Len(t)
    BY <1>1, <1>2, <1>5 DEF Closed, OneLast, TwoLast
  <2>2. n \in 2..Len(w)
    BY <1>1, <1>5 DEF Closed
  <2>3. F!Range(SubSeq(w, 3, n)) \cap {"esc", "bel"} = {}
    BY <1>3, <1>5, <2>2 DEF Closed
  <2>4. n \in 2..MaxString /\ F!StringQuery(w[2], SubSeq(w, 3, n))
    BY <1>5 DEF Closed
  <2> QED BY <2>1, <2>3, <2>4 DEF F!IsStringQuery
<1> QED
  BY <1>4, <1>5

\* One byte more.
OneByteMore(w, v) ==
    /\ Len(w) \in Nat /\ Len(w) >= 1 /\ Len(v) = Len(w) + 1
    /\ \A i \in 1..Len(w) : v[i] = w[i]

LEMMA MoreHere ==
    ASSUME NEW S, NEW w \in Seq(S), w # <<>>, NEW b \in S, NEW v, v = Append(w, b)
    PROVE  OneByteMore(w, v)
<1>1. Len(w) \in Nat /\ Len(w) >= 1 /\ Len(v) = Len(w) + 1
  OBVIOUS
<1>2. \A i \in 1..Len(w) : v[i] = w[i]
  OBVIOUS
<1> QED
  BY <1>1, <1>2 DEF OneByteMore

\* The first bytes of a control sequence.
CsiForm(w) ==
    /\ Len(w) \in 3..MaxCsi /\ w[2] = "["
    /\ \A i \in 3..(Len(w) - 1) : w[i] \in F!CsiParameter
    /\ w[Len(w)] \in F!CsiFinal

LEMMA CsiFormOf ==
    ASSUME MaxCsi \in Nat, NEW S, NEW w \in Seq(S)
    PROVE  F!IsCsiQuery(w) <=>
              CsiForm(w) /\ F!is_csi_query(SubSeq(w, 3, Len(w) - 1), w[Len(w)])
<1>1. ASSUME Len(w) \in 3..MaxCsi
      PROVE  F!Range(SubSeq(w, 3, Len(w) - 1)) \subseteq F!CsiParameter
                <=> \A i \in 3..(Len(w) - 1) : w[i] \in F!CsiParameter
  <2> DEFINE n == Len(w) - 1
             body == SubSeq(w, 3, n)
  <2>1. n \in 2..Len(w) /\ n - 2 \in Nat /\ n \in Nat
    BY <1>1
  <2>2. Len(body) = n - 2 /\ DOMAIN body = 1..(n - 2)
        /\ \A i \in 1..(n - 2) : body[i] = w[i + 2]
    <3> HIDE DEF n
    <3> QED BY <2>1
  <2>5. F!Range(body) = {body[i] : i \in DOMAIN body}
    BY DEF F!Range
  <2> HIDE DEF body, n
  <2>3. ASSUME F!Range(body) \subseteq F!CsiParameter, NEW i \in 3..n
        PROVE  w[i] \in F!CsiParameter
    <3>1. i - 2 \in 1..(n - 2) /\ (i - 2) + 2 = i
      BY <2>1
    <3>2. body[i - 2] \in F!Range(body) /\ body[i - 2] = w[i]
      BY <2>1, <2>2, <2>5, <3>1
    <3> QED BY <2>3, <3>2
  <2>4. ASSUME \A i \in 3..n : w[i] \in F!CsiParameter
        PROVE  F!Range(body) \subseteq F!CsiParameter
    <3>1. \A i \in 1..(n - 2) : i + 2 \in 3..n
      BY <2>1
    <3> QED BY <2>1, <2>2, <2>4, <2>5, <3>1
  <2> QED BY <2>3, <2>4 DEF body, n
<1> QED
  BY <1>1 DEF F!IsCsiQuery, CsiForm

\* A sequence without hope stays so, and is no query when it is longer.
LEMMA HopelessStays ==
    ASSUME MaxString \in Nat, MaxCsi \in Nat, NEW w, NEW v, OneByteMore(w, v), F!Hopeless(w)
    PROVE  F!Hopeless(v)
<1>11. Len(w) \in Nat /\ Len(w) >= 1 /\ Len(v) = Len(w) + 1
  BY DEF OneByteMore
<1>1. v[1] = w[1] /\ \A i \in 3..Len(w) : i \in 3..Len(v) /\ i \in 1..Len(w) /\ v[i] = w[i]
  BY DEF OneByteMore
<1>0. Len(w) >= 2 => v[2] = w[2]
  BY <1>11 DEF OneByteMore
<1>2. CASE w[1] # "esc"
  BY <1>1, <1>2 DEF F!Hopeless
<1>3. CASE Len(w) >= 2 /\ w[2] \notin {"["} \cup F!StringKinds
  <2>1. Len(v) >= 2 /\ v[2] = w[2]
    BY <1>11, <1>1, <1>0, <1>3
  <2> QED BY <1>3, <2>1 DEF F!Hopeless
<1>4. CASE /\ F!Begun(w, {"["})
           /\ Len(w) >= MaxCsi \/ \E i \in 3..Len(w) : w[i] \notin F!CsiParameter
  <2>1. F!Begun(v, {"["})
    BY <1>11, <1>1, <1>0, <1>4 DEF F!Begun
  <2>2. CASE Len(w) >= MaxCsi
    <3>1. Len(v) >= MaxCsi
      BY <1>11, <2>2
    <3> QED BY <2>1, <3>1 DEF F!Hopeless
  <2>3. CASE \E i \in 3..Len(w) : w[i] \notin F!CsiParameter
    <3>1. \E i \in 3..Len(v) : v[i] \notin F!CsiParameter
      BY <1>1, <2>3
    <3> QED BY <2>1, <3>1 DEF F!Hopeless
  <2> QED BY <1>4, <2>2, <2>3
<1>5. ASSUME F!Begun(w, F!StringKinds) PROVE F!Begun(v, F!StringKinds) /\ v[2] = w[2]
  BY <1>11, <1>1, <1>0, <1>5 DEF F!Begun
<1>6. CASE /\ F!Begun(w, F!StringKinds)
           /\ \E i \in 3..Len(w) : w[i] = "bel" \/ (w[i] = "esc" /\ i < Len(w))
  <2>1. \E i \in 3..Len(v) : v[i] = "bel" \/ (v[i] = "esc" /\ i < Len(v))
    BY <1>11, <1>1, <1>6
  <2> QED BY <1>5, <1>6, <2>1 DEF F!Hopeless
<1>7. CASE F!Begun(w, F!StringKinds) /\ Len(w) > MaxString /\ w[MaxString + 1] # "esc"
  <2>1. MaxString + 1 \in 1..Len(w)
    BY <1>11, <1>7
  <2>2. Len(v) > MaxString /\ v[MaxString + 1] # "esc"
    BY <1>11, <1>1, <1>7, <2>1 DEF OneByteMore
  <2> QED BY <1>5, <1>7, <2>2 DEF F!Hopeless
<1>8. CASE /\ F!Begun(w, F!StringKinds)
           /\ w[2] = "P" /\ Len(w) >= 4 /\ ~(w[3] = "$" /\ w[4] = "q")
  <2>1. 3 \in 3..Len(w) /\ 4 \in 3..Len(w)
    BY <1>11, <1>8
  <2>2. Len(v) >= 4 /\ v[3] = w[3] /\ v[4] = w[4]
    BY <1>11, <1>1, <1>8, <2>1
  <2> QED BY <1>5, <1>8, <2>2 DEF F!Hopeless
<1>9. CASE F!Begun(w, F!StringKinds) /\ w[2] = "apc" /\ Len(w) >= 3 /\ w[3] # "G"
  <2>1. 3 \in 3..Len(w)
    BY <1>11, <1>9
  <2>2. Len(v) >= 3 /\ v[3] = w[3]
    BY <1>11, <1>1, <1>9, <2>1
  <2> QED BY <1>5, <1>9, <2>2 DEF F!Hopeless
<1>10. CASE /\ F!Begun(w, F!StringKinds) /\ w[2] = "apc"
            /\ \E i \in 3..Len(w) : w[i] = "sep" /\ \A j \in 3..i : w[j] # "k"
  <2>1. PICK i \in 3..Len(w) : w[i] = "sep" /\ \A j \in 3..i : w[j] # "k"
    BY <1>10
  <2>2. ASSUME NEW j \in 3..i PROVE v[j] # "k"
    <3>1. i \in Nat /\ i <= Len(w) /\ j \in Nat /\ j <= i /\ j >= 3
      BY <1>11
    <3>2. j \in 3..Len(w)
      BY <1>11, <3>1
    <3> QED BY <1>1, <2>1, <3>2
  <2>3. i \in 3..Len(v) /\ v[i] = "sep"
    BY <1>1, <2>1
  <2>4. \E m \in 3..Len(v) : v[m] = "sep" /\ \A j \in 3..m : v[j] # "k"
    BY <2>2, <2>3
  <2> QED BY <1>5, <1>10, <2>4 DEF F!Hopeless
<1> QED
  BY <1>2, <1>3, <1>4, <1>6, <1>7, <1>8, <1>9, <1>10 DEF F!Hopeless

\* A control sequence that is hopeless is no query when it is longer.
LEMMA HopelessCsi ==
    ASSUME MaxCsi \in Nat, NEW S, NEW w, NEW v \in Seq(S), OneByteMore(w, v),
           w[1] = "esc", F!Hopeless(w)
    PROVE  ~F!IsCsiQuery(v)
<1> SUFFICES ASSUME CsiForm(v) PROVE FALSE
  BY CsiFormOf
<1>1. Len(w) \in Nat /\ Len(v) = Len(w) + 1 /\ Len(v) - 1 = Len(w)
      /\ \A i \in 1..Len(w) : v[i] = w[i]
  BY DEF OneByteMore
<1>2. Len(w) >= 2 /\ w[2] = "[" /\ Len(w) < MaxCsi
  BY <1>1 DEF CsiForm
<1>3. \A i \in 3..Len(w) : w[i] \in F!CsiParameter
  BY <1>1 DEF CsiForm
<1>4. "[" \notin F!StringKinds
  BY DEF F!StringKinds
<1> QED
  BY <1>2, <1>3, <1>4 DEF F!Hopeless, F!Begun

\* The body of a string, byte by byte.
BodyOf(v, n, body) ==
    /\ body = <<>> <=> n = 2
    /\ Len(body) = n - 2 /\ DOMAIN body = 1..(n - 2)
    /\ \A i \in 3..n : i - 2 \in 1..(n - 2) /\ body[i - 2] = v[i]

LEMMA BodyHere ==
    ASSUME NEW S, NEW v \in Seq(S), NEW n \in 2..Len(v)
    PROVE  BodyOf(v, n, SubSeq(v, 3, n))
<1> DEFINE body == SubSeq(v, 3, n)
<1>1. Len(body) = n - 2 /\ DOMAIN body = 1..(n - 2) /\ body \in Seq(S) /\ n \in Nat
  OBVIOUS
<1>2. \A i \in 3..n : i - 2 \in 1..(n - 2) /\ body[i - 2] = v[i]
  OBVIOUS
<1> HIDE DEF body
<1>3. body = <<>> <=> n = 2
  BY <1>1
<1> QED
  BY <1>1, <1>2, <1>3 DEF BodyOf, body

\* What a string query asks of its bytes.
Asks(v, n, kind) ==
    /\ kind \in F!StringKinds
    /\ kind = "]" => n >= 3 /\ v[n] = "?" /\ (n = 3 \/ v[n - 1] = "sep")
    /\ kind = "P" => n >= 4 /\ v[3] = "$" /\ v[4] = "q"
    /\ kind = "apc" => /\ n >= 3 /\ v[3] = "G"
                       /\ \E i \in 3..n : v[i] = "k" /\ \A j \in 3..i : v[j] # "sep"

LEMMA StringQueryOf ==
    ASSUME NEW v, NEW n \in Nat, n >= 2, NEW body, BodyOf(v, n, body), NEW kind
    PROVE  F!StringQuery(kind, body) <=> Asks(v, n, kind)
<1>1. /\ body = <<>> <=> n = 2
      /\ Len(body) = n - 2 /\ DOMAIN body = 1..(n - 2)
  BY DEF BodyOf
<1>2. \A i \in 3..n : body[i - 2] = v[i]
  BY DEF BodyOf
<1>3. CASE kind = "]"
  <2>1. F!StringQuery(kind, body) <=>
           body # <<>> /\ body[n - 2] = "?" /\ (n - 2 = 1 \/ body[n - 2 - 1] = "sep")
    BY <1>1, <1>3 DEF F!StringQuery, F!Last
  <2>2. n >= 3 => n \in 3..n /\ body[n - 2] = v[n]
    BY <1>2
  <2>3. n >= 4 => body[n - 2 - 1] = v[n - 1]
    <3>1. n >= 4 => n - 1 \in 3..n /\ n - 1 - 2 = n - 2 - 1
      OBVIOUS
    <3> QED BY <1>2, <3>1
  <2>4. Asks(v, n, kind) <=> n >= 3 /\ v[n] = "?" /\ (n = 3 \/ v[n - 1] = "sep")
    BY <1>3 DEF Asks, F!StringKinds
  <2>5. CASE n = 2
    BY <1>1, <2>1, <2>4, <2>5
  <2>6. CASE n = 3
    BY <1>1, <2>1, <2>2, <2>4, <2>6
  <2>7. CASE n >= 4
    <3>1. n # 2 /\ n # 3 /\ n >= 3 /\ n - 2 # 1
      BY <2>7
    <3>2. body # <<>> /\ body[n - 2] = v[n] /\ body[n - 2 - 1] = v[n - 1]
      BY <1>1, <2>2, <2>3, <2>7, <3>1
    <3> QED BY <2>1, <2>4, <3>1, <3>2, Zenon
  <2> QED BY <2>5, <2>6, <2>7
<1>4. CASE kind = "P"
  <2>1. F!StringQuery(kind, body) <=> n - 2 >= 2 /\ body[1] = "$" /\ body[2] = "q"
    BY <1>1, <1>4 DEF F!StringQuery
  <2>2. n >= 4 => body[1] = v[3] /\ body[2] = v[4]
    <3>1. n >= 4 => 3 \in 3..n /\ 4 \in 3..n /\ 3 - 2 = 1 /\ 4 - 2 = 2
      OBVIOUS
    <3> QED BY <1>2, <3>1
  <2>3. Asks(v, n, kind) <=> n >= 4 /\ v[3] = "$" /\ v[4] = "q"
    BY <1>4 DEF Asks, F!StringKinds
  <2>4. n - 2 >= 2 <=> n >= 4
    OBVIOUS
  <2> QED BY <2>1, <2>2, <2>3, <2>4
<1>5. CASE kind = "apc"
  <2> DEFINE K == \E i \in 1..(n - 2) : body[i] = "k" /\ \A j \in 1..i : body[j] # "sep"
             V == \E i \in 3..n : v[i] = "k" /\ \A j \in 3..i : v[j] # "sep"
  <2>1. F!StringQuery(kind, body) <=> body # <<>> /\ body[1] = "G" /\ K
    BY <1>1, <1>5 DEF F!StringQuery
  <2>2. n >= 3 => body[1] = v[3]
    <3>1. n >= 3 => 3 \in 3..n /\ 3 - 2 = 1
      OBVIOUS
    <3> QED BY <1>2, <3>1
  <2>3. K => V
    <3>0. SUFFICES ASSUME NEW i \in 1..(n - 2), body[i] = "k", \A j \in 1..i : body[j] # "sep"
                 PROVE  V
      OBVIOUS
    <3>1. i + 2 \in 3..n /\ (i + 2) - 2 = i
      OBVIOUS
    <3>2. v[i + 2] = "k"
      BY <1>2, <3>0, <3>1
    <3>3. ASSUME NEW j \in 3..(i + 2) PROVE v[j] # "sep"
      <4>1. j - 2 \in 1..i /\ j \in 3..n
        BY <3>1
      <4> QED BY <1>2, <3>0, <4>1
    <3> QED BY <3>1, <3>2, <3>3
  <2>4. V => K
    <3>0. SUFFICES ASSUME NEW i \in 3..n, v[i] = "k", \A j \in 3..i : v[j] # "sep"
                 PROVE  K
      OBVIOUS
    <3>1. i - 2 \in 1..(n - 2)
      OBVIOUS
    <3>2. body[i - 2] = "k"
      BY <1>2, <3>0
    <3>3. ASSUME NEW j \in 1..(i - 2) PROVE body[j] # "sep"
      <4>1. j + 2 \in 3..i /\ j + 2 \in 3..n /\ (j + 2) - 2 = j
        BY <3>1
      <4> QED BY <1>2, <3>0, <4>1
    <3> QED BY <3>1, <3>2, <3>3
  <2>5. Asks(v, n, kind) <=> n >= 3 /\ v[3] = "G" /\ V
    BY <1>5 DEF Asks, F!StringKinds
  <2>6. body # <<>> <=> n >= 3
    BY <1>1
  <2> HIDE DEF K, V
  <2> QED BY <2>1, <2>2, <2>3, <2>4, <2>5, <2>6
<1>6. CASE kind \notin F!StringKinds
  BY <1>6 DEF F!StringQuery, Asks, F!StringKinds
<1> QED
  BY <1>3, <1>4, <1>5, <1>6 DEF F!StringKinds

\* A string that is hopeless is no query when it is longer.
LEMMA HopelessString ==
    ASSUME MaxString \in Nat, NEW S, NEW w, NEW v \in Seq(S), OneByteMore(w, v),
           w[1] = "esc", F!Hopeless(w)
    PROVE  ~F!IsStringQuery(v)
<1> SUFFICES ASSUME NEW n \in Nat, Closed(v, n) PROVE FALSE
  BY StringForm
<1>1. Len(w) \in Nat /\ Len(v) = Len(w) + 1 /\ Len(v) \in Nat
  BY DEF OneByteMore
<1>2. n >= 2 /\ n <= MaxString /\ n <= Len(w)
      /\ (Len(w) = n \/ (Len(w) = n + 1 /\ v[n + 1] = "esc"))
  <2>1. n >= 2 /\ n <= MaxString
    BY DEF Closed
  <2>2. n = Len(v) - 1 \/ (n = Len(v) - 2 /\ v[Len(v) - 1] = "esc")
    BY DEF Closed
  <2>3. Len(w) = n \/ (Len(w) = n + 1 /\ v[n + 1] = "esc")
    BY <1>1, <2>2
  <2> QED BY <1>1, <2>1, <2>3
<1>3. \A i \in 1..Len(w) : v[i] = w[i]
  BY DEF OneByteMore
<1>4. \A i \in 3..n : w[i] \notin {"esc", "bel"} /\ v[i] = w[i]
  <2>1. \A i \in 3..n : i \in 1..Len(w)
    BY <1>1, <1>2
  <2> QED BY <1>3, <2>1 DEF Closed
<1>5. Len(w) = n + 1 => w[n + 1] = "esc"
  <2>1. Len(w) = n + 1 => n + 1 \in 1..Len(w)
    BY <1>1
  <2>2. Len(w) = n + 1 => v[n + 1] = "esc"
    BY <1>1, <1>2
  <2> QED BY <1>3, <2>1, <2>2
<1>6. v[2] = w[2] /\ Len(w) >= 2
  BY <1>1, <1>2, <1>3
<1>7. BodyOf(v, n, SubSeq(v, 3, n))
  <2>1. n \in 2..Len(v)
    BY <1>1, <1>2
  <2> QED BY <2>1, BodyHere
<1>8. F!StringQuery(w[2], SubSeq(v, 3, n))
  BY <1>6 DEF Closed
<1>17. Asks(v, n, w[2])
  <2>1. n >= 2
    BY <1>2
  <2> QED BY <2>1, <1>7, <1>8, StringQueryOf
<1>9. /\ w[2] \in F!StringKinds
      /\ w[2] = "P" => n >= 4 /\ v[3] = "$" /\ v[4] = "q"
      /\ w[2] = "apc" => /\ n >= 3 /\ v[3] = "G"
                         /\ \E i \in 3..n : v[i] = "k" /\ \A j \in 3..i : v[j] # "sep"
  BY <1>17 DEF Asks
<1>10. F!Begun(w, F!StringKinds) /\ ~F!Begun(w, {"["})
  BY <1>6, <1>9 DEF F!Begun, F!StringKinds
<1>11. \/ \E i \in 3..Len(w) : w[i] = "bel" \/ (w[i] = "esc" /\ i < Len(w))
       \/ Len(w) > MaxString /\ w[MaxString + 1] # "esc"
       \/ w[2] = "P" /\ Len(w) >= 4 /\ ~(w[3] = "$" /\ w[4] = "q")
       \/ w[2] = "apc" /\ Len(w) >= 3 /\ w[3] # "G"
       \/ w[2] = "apc" /\ \E i \in 3..Len(w) : w[i] = "sep" /\ \A j \in 3..i : w[j] # "k"
  BY <1>9, <1>10 DEF F!Hopeless
<1>12. CASE \E i \in 3..Len(w) : w[i] = "bel" \/ (w[i] = "esc" /\ i < Len(w))
  <2>1. PICK i \in 3..Len(w) : w[i] = "bel" \/ (w[i] = "esc" /\ i < Len(w))
    BY <1>12
  <2>2. i \in Nat /\ i >= 3 /\ i <= Len(w)
    BY <1>1
  <2>3. i \notin 3..n
    BY <1>4, <2>1
  <2>4. i = n + 1 /\ Len(w) = n + 1
    BY <1>1, <1>2, <2>2, <2>3
  <2>5. w[i] = "esc" /\ ~(i < Len(w))
    BY <1>5, <2>4
  <2> QED BY <2>1, <2>5
<1>13. CASE Len(w) > MaxString /\ w[MaxString + 1] # "esc"
  <2>1. Len(w) = n + 1 /\ n = MaxString
    BY <1>1, <1>2, <1>13
  <2> QED BY <1>5, <1>13, <2>1
<1>14. CASE w[2] = "P" /\ Len(w) >= 4 /\ ~(w[3] = "$" /\ w[4] = "q")
  <2>1. 3 \in 3..n /\ 4 \in 3..n
    BY <1>9, <1>14
  <2> QED BY <1>4, <1>9, <1>14, <2>1
<1>15. CASE w[2] = "apc" /\ Len(w) >= 3 /\ w[3] # "G"
  <2>0. n >= 3
    BY <1>9, <1>15
  <2>1. 3 \in 3..n
    BY <2>0
  <2> QED BY <1>4, <1>9, <1>15, <2>1
<1>16. CASE w[2] = "apc" /\ \E i \in 3..Len(w) : w[i] = "sep" /\ \A j \in 3..i : w[j] # "k"
  <2>1. PICK m \in 3..n : v[m] = "k" /\ \A j \in 3..m : v[j] # "sep"
    BY <1>9, <1>16
  <2>2. PICK i \in 3..Len(w) : w[i] = "sep" /\ \A j \in 3..i : w[j] # "k"
    BY <1>16
  <2>3. i \in Nat /\ i >= 3 /\ m \in Nat /\ m >= 3 /\ m <= n
    BY <1>1
  <2>4. CASE m <= i
    <3>1. m \in 3..i
      BY <2>3, <2>4
    <3> QED BY <1>4, <2>1, <2>2, <3>1
  <2>5. CASE i < m
    <3>1. i \in 3..m /\ i \in 3..n
      BY <2>3, <2>5
    <3> QED BY <1>4, <2>1, <2>2, <3>1
  <2> QED BY <2>3, <2>4, <2>5
<1> QED
  BY <1>11, <1>12, <1>13, <1>14, <1>15, <1>16

\* What is hopeless is no query with one byte more.
LEMMA HopelessNone ==
    ASSUME MaxString \in Nat, MaxCsi \in Nat, NEW S, NEW w, NEW v \in Seq(S),
           OneByteMore(w, v), F!Hopeless(w)
    PROVE  ~F!IsQuery(v)
<1>1. v[1] = w[1] /\ Len(w) \in Nat /\ Len(v) = Len(w) + 1 /\ Len(w) >= 1
  BY DEF OneByteMore
<1>2. CASE w[1] # "esc"
  BY <1>1, <1>2 DEF F!IsQuery
<1>3. CASE w[1] = "esc"
  <2>1. ~F!IsCsiQuery(v) /\ ~F!IsStringQuery(v)
    BY <1>3, HopelessCsi, HopelessString
  <2>2. Len(w) >= 2
    BY <1>1, <1>3 DEF F!Hopeless, F!Begun
  <2>3. Len(<<"esc", "Z">>) = 2
    OBVIOUS
  <2>4. v # <<"esc", "Z">>
    BY <1>1, <2>2, <2>3
  <2> QED BY <2>1, <2>4 DEF F!IsQuery
<1> QED
  BY <1>2, <1>3

-----------------------------------------------------------------------------
(* The query filter: parts of the input *)

\* A part of a part.
PartOfPart(u, a, c, i, j) == SubSeq(SubSeq(u, a, c), i, j) = SubSeq(u, a + i - 1, a + j - 1)
LEMMA Inner ==
    ASSUME NEW S, NEW u \in Seq(S), NEW a \in Nat, NEW c \in Nat, NEW i \in Nat, NEW j \in Nat,
           a >= 1, c <= Len(u), i >= 1, a + j <= c + 1
    PROVE  PartOfPart(u, a, c, i, j)
<1> DEFINE v == SubSeq(u, a, c)
           l == SubSeq(v, i, j)
           r == SubSeq(u, a + i - 1, a + j - 1)
           m == IF i <= j THEN j - i + 1 ELSE 0
<1>1. v \in Seq(S) /\ \A x \in 1..(c - a + 1) : v[x] = u[a + x - 1]
  OBVIOUS
<1>2. \A x \in i..j : x \in 1..(c - a + 1)
  OBVIOUS
<1>3. Len(l) = m /\ \A x \in 1..m : l[x] = v[i + x - 1]
  <2> HIDE DEF v
  <2> QED BY <1>1
<1>4. Len(r) = m /\ \A x \in 1..m : r[x] = u[a + i - 1 + x - 1]
  OBVIOUS
<1>5. r \in Seq(S)
  <2>1. \A x \in (a + i - 1)..(a + j - 1) : x \in 1..Len(u)
    OBVIOUS
  <2> QED BY <2>1
<1>6. m \in Nat
  OBVIOUS
<1>7. ASSUME NEW x \in 1..m PROVE l[x] = r[x]
  <2>1. i + x - 1 \in i..j /\ a + (i + x - 1) - 1 = a + i - 1 + x - 1
    OBVIOUS
  <2>2. i + x - 1 \in 1..(c - a + 1)
    BY <1>2, <2>1
  <2>3. v[i + x - 1] = u[a + i - 1 + x - 1]
    <3> HIDE DEF v, m
    <3> QED BY <1>1, <2>1, <2>2
  <2> HIDE DEF v, l, r, m
  <2> QED BY <1>3, <1>4, <2>3
<1>8. l \in Seq(S)
  <2>1. \A x \in i..j : v[x] \in S
    <3> HIDE DEF v
    <3>1. \A x \in i..j : x \in 1..(c - a + 1) /\ u[a + x - 1] \in S
      BY <1>2
    <3> QED BY <1>1, <3>1
  <2> HIDE DEF v
  <2> QED BY <2>1, SubSeqProperties
<1> HIDE DEF l, r, m
<1>9. l = r
  BY <1>3, <1>4, <1>5, <1>6, <1>7, <1>8, SeqEqual
<1> QED
  BY <1>9 DEF l, r, v, PartOfPart

\* The bytes of a part.
PartBytes(S, u, a, c, r) ==
    /\ r \in Seq(S) /\ Len(r) = c - a + 1
    /\ \A i \in 1..(c - a + 1) : r[i] = u[a + i - 1]
LEMMA PartHere ==
    ASSUME NEW S, NEW u \in Seq(S), NEW a \in Nat, NEW c \in Nat, a >= 1, c <= Len(u), a <= c + 1
    PROVE  PartBytes(S, u, a, c, SubSeq(u, a, c))
<1> DEFINE r == SubSeq(u, a, c)
<1>1. r \in Seq(S) /\ Len(r) = c - a + 1
  OBVIOUS
<1>2. \A i \in 1..(c - a + 1) : r[i] = u[a + i - 1]
  OBVIOUS
<1> QED
  BY <1>1, <1>2 DEF PartBytes

\* What is held back, and the byte that comes, are the end of the longer input.
Window(s, b, k, u, h) ==
    /\ u = Append(s, b) /\ h = Append(SubSeq(s, k + 1, Len(s)), b)
    /\ Len(u) = Len(s) + 1 /\ Len(h) = Len(u) - k
    /\ \A i \in 1..Len(h) : Rest(h, i) = Rest(u, k + i)
    /\ \A j \in 0..Len(h) : /\ SubSeq(h, j + 1, Len(h)) = SubSeq(u, k + j + 1, Len(u))
                            /\ SubSeq(h, 1, j) = SubSeq(u, k + 1, k + j)

Moved(h, u, k, i, j) == SubSeq(h, i, j) = SubSeq(u, k + i, k + j)

LEMMA WindowHere ==
    ASSUME NEW S, NEW s \in Seq(S), NEW b \in S, NEW k \in 0..Len(s), NEW u, NEW h,
           u = Append(s, b), h = Append(SubSeq(s, k + 1, Len(s)), b)
    PROVE  Window(s, b, k, u, h)
<1> DEFINE n == Len(s)
           p == SubSeq(s, k + 1, n)
           r == SubSeq(u, k + 1, n + 1)
<1>1. n \in Nat /\ k \in Nat /\ k <= n /\ u \in Seq(S) /\ Len(u) = n + 1
      /\ (\A i \in 1..n : u[i] = s[i]) /\ u[n + 1] = b
  OBVIOUS
<1>0. h = Append(p, b)
  OBVIOUS
<1>2. p \in Seq(S) /\ Len(p) = n - k /\ \A i \in 1..(n - k) : p[i] = s[k + i]
  BY <1>1
<1> HIDE DEF n, p
<1>3. /\ h \in Seq(S) /\ Len(h) = n - k + 1
      /\ \A i \in 1..(n - k) : h[i] = p[i]
      /\ h[n - k + 1] = b
  <2>1. n - k \in Nat
    BY <1>1
  <2> QED BY <1>0, <1>2, <2>1
<1>4. /\ r \in Seq(S) /\ Len(r) = n - k + 1
      /\ \A i \in 1..(n - k + 1) : r[i] = u[k + i]
  <2>1. k + 1 \in Nat /\ n + 1 \in Nat /\ k + 1 >= 1 /\ n + 1 <= Len(u) /\ k + 1 <= (n + 1) + 1
    BY <1>1
  <2>2. PartBytes(S, u, k + 1, n + 1, r)
    <3>1. u \in Seq(S)
      BY <1>1
    <3> QED BY <2>1, <3>1, PartHere
  <2> HIDE DEF r
  <2>3. (n + 1) - (k + 1) + 1 = n - k + 1 /\ \A i \in Nat : k + 1 + i - 1 = k + i
    BY <1>1
  <2>4. r \in Seq(S) /\ Len(r) = (n + 1) - (k + 1) + 1
    BY <2>2 DEF PartBytes
  <2>5. ASSUME NEW i \in 1..(n - k + 1) PROVE r[i] = u[k + i]
    <3>1. i \in 1..((n + 1) - (k + 1) + 1) /\ i \in Nat
      BY <1>1
    <3>2. r[i] = u[k + 1 + i - 1]
      BY <2>2, <3>1 DEF PartBytes
    <3> QED BY <2>3, <3>1, <3>2
  <2> QED BY <2>3, <2>4, <2>5
<1>5. ASSUME NEW i \in 1..(n - k + 1) PROVE h[i] = r[i]
  <2> HIDE DEF r
  <2>1. CASE i \in 1..(n - k)
    <3>1. k + i \in 1..n
      BY <1>1, <2>1
    <3>2. u[k + i] = s[k + i] /\ p[i] = s[k + i] /\ h[i] = p[i] /\ r[i] = u[k + i]
      BY <1>1, <1>2, <1>3, <1>4, <2>1, <3>1
    <3> QED BY <3>2
  <2>2. CASE i = n - k + 1
    <3>1. k + i = n + 1
      BY <1>1, <2>2
    <3> QED BY <1>1, <1>3, <1>4, <2>2, <3>1
  <2>3. i \in 1..(n - k) \/ i = n - k + 1
    BY <1>1
  <2> QED BY <2>1, <2>2, <2>3
<1>6. h = r
  <2> HIDE DEF r
  <2> QED BY <1>3, <1>4, <1>5, SeqEqual
<1>7. \A i, j \in Nat : i >= 1 /\ j <= Len(h) => Moved(h, u, k, i, j)
  <2> SUFFICES ASSUME NEW i \in Nat, NEW j \in Nat, i >= 1, j <= Len(h)
               PROVE  Moved(h, u, k, i, j)
    OBVIOUS
  <2>1. k + 1 \in Nat /\ n + 1 \in Nat /\ k + 1 >= 1 /\ n + 1 <= Len(u)
        /\ (k + 1) + j <= (n + 1) + 1
    BY <1>1, <1>3
  <2>2. u \in Seq(S)
    BY <1>1
  <2>3. PartOfPart(u, k + 1, n + 1, i, j)
    BY <2>1, <2>2, Inner
  <2>4. SubSeq(r, i, j) = SubSeq(u, k + 1 + i - 1, k + 1 + j - 1)
    BY <2>3 DEF PartOfPart
  <2> HIDE DEF r
  <2>5. k + 1 + i - 1 = k + i /\ k + 1 + j - 1 = k + j
    BY <1>1
  <2> QED BY <1>6, <2>4, <2>5 DEF Moved
<1>8. Len(h) \in Nat /\ Len(u) \in Nat /\ k + Len(h) = Len(u) /\ k \in Nat
      /\ Len(u) = Len(s) + 1 /\ Len(h) = Len(u) - k
  <2>1. \A x, y \in Nat : x - y + 1 = x + 1 - y /\ y + (x - y + 1) = x + 1
    OBVIOUS
  <2>2. Len(h) = Len(u) - k /\ k + Len(h) = Len(u)
    BY <1>1, <1>3, <2>1
  <2>3. Len(h) \in Nat
    <3>1. n - k + 1 \in Nat
      BY <1>1
    <3> QED BY <1>3, <3>1
  <2>4. Len(u) = Len(s) + 1
    BY <1>1 DEF n
  <2>5. Len(u) \in Nat /\ k \in Nat
    BY <1>1
  <2> QED BY <2>2, <2>3, <2>4, <2>5
<1> HIDE DEF r
<1>9. ASSUME NEW i \in 1..Len(h) PROVE Rest(h, i) = Rest(u, k + i)
  <2>1. i \in Nat /\ i >= 1
    BY <1>8
  <2>2. Moved(h, u, k, i, Len(h))
    BY <1>7, <1>8, <2>1
  <2> QED BY <1>8, <2>2 DEF Rest, Moved
<1>10. ASSUME NEW j \in 0..Len(h)
       PROVE  /\ SubSeq(h, j + 1, Len(h)) = SubSeq(u, k + j + 1, Len(u))
              /\ SubSeq(h, 1, j) = SubSeq(u, k + 1, k + j)
  <2>1. j \in Nat /\ j + 1 \in Nat /\ j + 1 >= 1 /\ k + (j + 1) = k + j + 1 /\ j <= Len(h)
    BY <1>8
  <2>2. Moved(h, u, k, j + 1, Len(h)) /\ Moved(h, u, k, 1, j)
    BY <1>7, <1>8, <2>1
  <2> QED BY <1>8, <2>1, <2>2 DEF Moved
<1> QED
  BY <1>8, <1>9, <1>10 DEF Window

-----------------------------------------------------------------------------
(* The query filter: where it stands *)

\* What was hopeless before the byte came.
LEMMA EarlierHopeless ==
    ASSUME MaxString \in Nat, MaxCsi \in Nat, NEW S, NEW s \in Seq(S), NEW b \in S,
           NEW u, u = Append(s, b), NEW p \in 1..Len(s), F!Hopeless(Rest(s, p))
    PROVE  F!Hopeless(Rest(u, p)) /\ ~F!IsQuery(Rest(u, p))
<1> DEFINE w == Rest(s, p)
           v == Append(w, b)
<1>1. w \in Seq(S) /\ Len(w) >= 1 /\ w # <<>> /\ p - 1 \in 0..Len(s) /\ (p - 1) + 1 = p
  <2>1. p \in Nat /\ Len(s) \in Nat /\ p >= 1 /\ Len(s) <= Len(s) /\ p <= Len(s) + 1 /\ p <= Len(s)
    OBVIOUS
  <2>2. PartBytes(S, s, p, Len(s), w)
    BY <2>1, PartHere DEF Rest
  <2> HIDE DEF w
  <2>3. w \in Seq(S) /\ Len(w) = Len(s) - p + 1
    BY <2>2 DEF PartBytes
  <2>4. Len(w) >= 1
    BY <2>1, <2>3
  <2> QED BY <2>1, <2>3, <2>4
<1>2. v \in Seq(S)
  <2> HIDE DEF w
  <2> QED BY <1>1
<1>3. Rest(v, 1) = v
  <2> HIDE DEF v
  <2> QED BY <1>2, SubSeqFull DEF Rest
<1>4. Window(s, b, p - 1, u, v)
  <2>1. v = Append(SubSeq(s, (p - 1) + 1, Len(s)), b)
    BY <1>1 DEF Rest
  <2> HIDE DEF v
  <2> QED BY <1>1, <2>1, WindowHere
<1>5. OneByteMore(w, v)
  <2> HIDE DEF w
  <2> QED BY <1>1, MoreHere
<1> HIDE DEF w, v
<1>6. F!Hopeless(v) /\ ~F!IsQuery(v)
  <2>1. F!Hopeless(w)
    BY DEF w
  <2> QED BY <1>2, <1>5, <2>1, HopelessStays, HopelessNone
<1>7. 1 \in 1..Len(v)
  <2>1. Len(w) \in Nat /\ Len(v) = Len(w) + 1
    BY <1>5 DEF OneByteMore
  <2> QED BY <2>1
<1>8. Rest(v, 1) = Rest(u, (p - 1) + 1)
  BY <1>4, <1>7 DEF Window
<1> QED
  BY <1>1, <1>3, <1>6, <1>8

\* What is known where the filter stands.
Standing(s, b, pending, out, u, h, k) ==
    /\ k \in 0..Len(s) /\ k \in Nat /\ Len(s) \in Nat /\ Len(pending) = Len(s) - k
    /\ Window(s, b, k, u, h)
    /\ F!QueryPlaces(s) \subseteq 1..k
    /\ out = F!Without(SubSeq(s, 1, k), F!QueryPlaces(s))
    /\ \A p \in 1..k : F!Hopeless(Rest(s, p))

LEMMA StandsAt ==
    ASSUME NEW S, NEW s \in Seq(S), NEW b \in S, NEW pending, NEW out, F!Stands(s, pending, out),
           NEW u, u = Append(s, b), NEW h, h = Append(pending, b),
           NEW k, k = Len(s) - Len(pending)
    PROVE  Standing(s, b, pending, out, u, h, k)
<1>1. k \in 0..Len(s) /\ Len(s) \in Nat
  BY DEF F!Stands
<1>2. pending = SubSeq(s, k + 1, Len(s))
  BY DEF F!Stands
<1>3. Window(s, b, k, u, h)
  <2>1. h = Append(SubSeq(s, k + 1, Len(s)), b)
    BY <1>2
  <2> QED BY <1>1, <2>1, WindowHere
<1>4. F!QueryPlaces(s) \subseteq 1..k /\ out = F!Without(SubSeq(s, 1, k), F!QueryPlaces(s))
  BY DEF F!Stands
<1>5. \A p \in 1..k : F!Hopeless(Rest(s, p))
  BY DEF F!Stands, Rest
<1>6. k \in Nat /\ Len(pending) = Len(s) - k
  <2>1. Len(h) = Len(s) + 1 - k
    BY <1>3 DEF Window
  <2>2. PartBytes(S, s, k + 1, Len(s), pending)
    <3>1. k + 1 \in Nat /\ k + 1 >= 1 /\ Len(s) <= Len(s) /\ k + 1 <= Len(s) + 1
      BY <1>1
    <3> QED BY <1>1, <1>2, <3>1, PartHere
  <2>3. Len(pending) = Len(s) - (k + 1) + 1
    BY <2>2 DEF PartBytes
  <2> QED BY <1>1, <2>3
<1> QED
  BY <1>1, <1>3, <1>4, <1>5, <1>6 DEF Standing

\* Bytes that are let through follow those that were.
OutGrows(s, out, u, h, k, j) ==
    out \o SubSeq(h, 1, j) = F!Without(SubSeq(u, 1, k + j), F!QueryPlaces(s))
LEMMA OutMore ==
    ASSUME NEW S, NEW s \in Seq(S), NEW b \in S, NEW pending, NEW out, NEW h, NEW k,
           NEW u, u = Append(s, b), Standing(s, b, pending, out, u, h, k), NEW j \in 0..Len(h)
    PROVE  OutGrows(s, out, u, h, k, j)
<1> DEFINE R == F!QueryPlaces(s)
           k2 == k + j
           v == SubSeq(u, 1, k2)
<1> HIDE DEF R
<1>1. /\ k \in 0..Len(s) /\ k \in Nat /\ Len(s) \in Nat
      /\ Window(s, b, k, u, h)
      /\ R \subseteq 1..k
      /\ out = F!Without(SubSeq(s, 1, k), R)
  BY DEF Standing, R
<1>2. u \in Seq(S) /\ Len(u) = Len(s) + 1
  OBVIOUS
<1>3. Longer(s, u)
  BY LongerHere
<1>4. k2 \in Nat /\ k <= k2 /\ k2 <= Len(u)
  <2>1. Len(h) = Len(u) - k
    BY <1>1 DEF Window
  <2> QED BY <1>1, <1>2, <2>1
<1>5. SubSeq(h, 1, j) = SubSeq(u, k + 1, k2)
  BY <1>1 DEF Window
<1> HIDE DEF v, k2
<1>6. v \in Seq(S) /\ Len(v) = k2
  <2>1. 1 \in Nat /\ 1 >= 1 /\ 1 <= k2 + 1
    BY <1>4
  <2>2. PartBytes(S, u, 1, k2, v)
    BY <1>2, <1>4, <2>1, PartHere DEF v
  <2> QED BY <1>4, <2>2 DEF PartBytes
<1>7. SubSeq(v, 1, k) = SubSeq(u, 1, k) /\ SubSeq(v, k + 1, k2) = SubSeq(u, k + 1, k2)
  <2>1. 1 \in Nat /\ 1 >= 1 /\ 1 + k <= k2 + 1 /\ 1 + k2 <= k2 + 1 /\ k + 1 >= 1 /\ k + 1 \in Nat
        /\ 1 + 1 - 1 = 1 /\ 1 + k - 1 = k /\ 1 + (k + 1) - 1 = k + 1 /\ 1 + k2 - 1 = k2
    BY <1>1, <1>4
  <2>2. PartOfPart(u, 1, k2, 1, k)
    BY <1>1, <1>2, <1>4, <2>1, Inner
  <2>3. PartOfPart(u, 1, k2, k + 1, k2)
    BY <1>1, <1>2, <1>4, <2>1, Inner
  <2> QED BY <2>1, <2>2, <2>3 DEF PartOfPart, v
<1>8. SubSeq(u, 1, k) = SubSeq(s, 1, k)
  <2>1. \A i \in Nat, m \in 0..Len(s) : SubSeq(u, i + 1, m) = SubSeq(s, i + 1, m)
    BY <1>3 DEF Longer
  <2>2. 0 \in Nat /\ 0 + 1 = 1
    OBVIOUS
  <2> QED BY <1>1, <2>1, <2>2
<1>9. F!Without(v, R) = F!Without(SubSeq(v, 1, k), R) \o SubSeq(v, k + 1, Len(v))
  <2>1. k \in 0..Len(v)
    BY <1>1, <1>4, <1>6
  <2> QED BY <1>1, <1>6, <2>1, WithoutLast
<1>10. out \o SubSeq(h, 1, j) = F!Without(v, R)
  BY <1>1, <1>5, <1>6, <1>7, <1>8, <1>9
<1> QED
  BY <1>10 DEF OutGrows, v, k2, R

\* What begins earlier is hopeless, and the rest is in the window.
Elsewhere(u, h, k) ==
    /\ \A p \in 1..k : F!Hopeless(Rest(u, p)) /\ ~F!IsQuery(Rest(u, p))
    /\ \A p \in 1..Len(u) : p > k => p - k \in 1..Len(h) /\ Rest(u, p) = Rest(h, p - k)
LEMMA ElsewhereHere ==
    ASSUME MaxString \in Nat, MaxCsi \in Nat, NEW S, NEW s \in Seq(S), NEW b \in S,
           NEW pending, NEW out, NEW h, NEW k,
           NEW u, u = Append(s, b), Standing(s, b, pending, out, u, h, k)
    PROVE  Elsewhere(u, h, k)
<1>1. /\ k \in 0..Len(s) /\ k \in Nat /\ Len(s) \in Nat
      /\ Window(s, b, k, u, h)
      /\ \A p \in 1..k : F!Hopeless(Rest(s, p))
  BY DEF Standing
<1>2. \A p \in 1..k : F!Hopeless(Rest(u, p)) /\ ~F!IsQuery(Rest(u, p))
  <2> SUFFICES ASSUME NEW p \in 1..k PROVE F!Hopeless(Rest(u, p)) /\ ~F!IsQuery(Rest(u, p))
    OBVIOUS
  <2>1. p \in 1..Len(s) /\ F!Hopeless(Rest(s, p))
    BY <1>1
  <2> QED BY <2>1, EarlierHopeless
<1>3. ASSUME NEW p \in 1..Len(u), p > k PROVE p - k \in 1..Len(h) /\ Rest(u, p) = Rest(h, p - k)
  <2>1. Len(u) = Len(s) + 1 /\ Len(h) = Len(u) - k
    BY <1>1 DEF Window
  <2>2. p - k \in 1..Len(h) /\ k + (p - k) = p
    BY <1>1, <1>3, <2>1
  <2>3. Rest(h, p - k) = Rest(u, k + (p - k))
    BY <1>1, <2>2 DEF Window
  <2> QED BY <2>2, <2>3
<1> QED
  BY <1>2, <1>3 DEF Elsewhere

\* Where no query ends, j bytes of what is held back may be let through once
\* nothing that begins with them can be one.
LEMMA KeepsOn ==
    ASSUME MaxString \in Nat, MaxCsi \in Nat,
           NEW S, NEW s \in Seq(S), NEW b \in S, NEW pending, NEW out, F!Stands(s, pending, out),
           NEW h, h = Append(pending, b), NEW j \in 0..Len(h),
           \A i \in 1..Len(pending) : ~F!IsQuery(Rest(h, i)),
           \A i \in 1..j : F!Hopeless(Rest(h, i))
    PROVE  F!Stands(Append(s, b), SubSeq(h, j + 1, Len(h)), out \o SubSeq(h, 1, j))
<1> DEFINE u == Append(s, b)
           k == Len(s) - Len(pending)
           p2 == SubSeq(h, j + 1, Len(h))
           k2 == k + j
<1> HIDE DEF u, k
<1>0. u = Append(s, b) /\ k = Len(s) - Len(pending)
  BY DEF u, k
<1>1. Standing(s, b, pending, out, u, h, k)
  BY <1>0, StandsAt
<1>2. /\ k \in Nat /\ k <= Len(s) /\ Len(s) \in Nat /\ Len(pending) = Len(s) - k
      /\ F!QueryPlaces(s) \subseteq 1..k
  BY <1>1 DEF Standing
<1>3. Window(s, b, k, u, h)
  BY <1>1 DEF Standing
<1>4. u \in Seq(S)
  BY <1>0
<1>5. Len(u) = Len(s) + 1 /\ Len(h) = Len(u) - k
  BY <1>3 DEF Window
<1>6. Elsewhere(u, h, k)
  BY <1>0, <1>1, ElsewhereHere
<1>7. k2 \in 0..Len(u) /\ k2 \in Nat /\ k <= k2 /\ k2 <= Len(u) /\ Len(u) \in Nat
  BY <1>2, <1>5
<1>8. F!QueryPlaces(u) = F!QueryPlaces(s)
  <2>1. ASSUME NEW p \in 1..Len(s) PROVE ~Ends(u, p)
    <3>1. CASE p \in 1..k
      BY <1>6, <3>1 DEF Ends, Elsewhere
    <3>2. CASE p > k
      <4>1. p \in 1..Len(u) /\ p - k \in 1..Len(pending)
        BY <1>2, <1>5, <3>2
      <4>2. Rest(u, p) = Rest(h, p - k)
        BY <1>6, <3>2, <4>1 DEF Elsewhere
      <4> QED BY <4>1, <4>2 DEF Ends
    <3>3. p \in 1..k \/ p > k
      BY <1>2
    <3> QED BY <3>1, <3>2, <3>3
  <2>2. Longer(s, u)
    BY <1>0, LongerHere
  <2> QED BY <2>1, <2>2, PlacesStay
<1>9. p2 = SubSeq(u, k2 + 1, Len(u))
  BY <1>3 DEF Window
<1>10. out \o SubSeq(h, 1, j) = F!Without(SubSeq(u, 1, k2), F!QueryPlaces(s))
  <2>1. OutGrows(s, out, u, h, k, j)
    BY <1>0, <1>1, OutMore
  <2> QED BY <2>1 DEF OutGrows
<1>11. \A p \in 1..k2 : F!Hopeless(SubSeq(u, p, Len(u)))
  <2> SUFFICES ASSUME NEW p \in 1..k2 PROVE F!Hopeless(Rest(u, p))
    BY DEF Rest
  <2>1. CASE p \in 1..k
    BY <1>6, <2>1 DEF Elsewhere
  <2>2. CASE p > k
    <3>1. p \in 1..Len(u) /\ p - k \in 1..j
      BY <1>2, <1>5, <1>7, <2>2
    <3>2. Rest(u, p) = Rest(h, p - k)
      BY <1>6, <2>2, <3>1 DEF Elsewhere
    <3> QED BY <3>1, <3>2
  <2>3. p \in 1..k \/ p > k
    BY <1>2, <1>7
  <2> QED BY <2>1, <2>2, <2>3
<1> HIDE DEF p2, k2
<1>12. Len(u) - Len(p2) = k2
  <2>1. k2 + 1 \in Nat /\ k2 + 1 >= 1 /\ Len(u) <= Len(u) /\ k2 + 1 <= Len(u) + 1
    BY <1>7
  <2>2. PartBytes(S, u, k2 + 1, Len(u), p2)
    BY <1>4, <1>7, <1>9, <2>1, PartHere
  <2>3. Len(p2) = Len(u) - (k2 + 1) + 1
    BY <2>2 DEF PartBytes
  <2> QED BY <1>7, <2>3
<1>13. F!QueryPlaces(s) \subseteq 1..k2
  BY <1>2, <1>7
<1>14. F!Stands(u, p2, out \o SubSeq(h, 1, j))
  BY <1>7, <1>8, <1>9, <1>10, <1>11, <1>12, <1>13 DEF F!Stands
<1> QED
  BY <1>14 DEF u, p2

\* Where one query ends, that begins at q, it is all that is left out.
LEMMA TakesOut ==
    ASSUME MaxString \in Nat, MaxCsi \in Nat,
           NEW S, NEW s \in Seq(S), NEW b \in S, NEW pending, NEW out, F!Stands(s, pending, out),
           NEW h, h = Append(pending, b), NEW q \in 1..Len(pending), F!IsQuery(Rest(h, q)),
           \A i \in 1..Len(pending) : F!IsQuery(Rest(h, i)) => i = q,
           \A i \in 1..Len(h) : F!Hopeless(Rest(h, i))
    PROVE  F!Stands(Append(s, b), <<>>, out \o SubSeq(h, 1, q - 1))
<1> DEFINE u == Append(s, b)
           k == Len(s) - Len(pending)
           j == q - 1
           k2 == k + j
           R == F!QueryPlaces(u)
<1> HIDE DEF u, k
<1>0. u = Append(s, b) /\ k = Len(s) - Len(pending)
  BY DEF u, k
<1>1. Standing(s, b, pending, out, u, h, k)
  BY <1>0, StandsAt
<1>2. /\ k \in Nat /\ k <= Len(s) /\ Len(s) \in Nat /\ Len(pending) = Len(s) - k
      /\ F!QueryPlaces(s) \subseteq 1..k
  BY <1>1 DEF Standing
<1>3. Window(s, b, k, u, h)
  BY <1>1 DEF Standing
<1>4. u \in Seq(S)
  BY <1>0
<1>5. Len(u) = Len(s) + 1 /\ Len(h) = Len(u) - k
  BY <1>3 DEF Window
<1>6. Elsewhere(u, h, k)
  BY <1>0, <1>1, ElsewhereHere
<1>7. /\ k2 \in 0..Len(u) /\ k2 \in Nat /\ k <= k2 /\ k2 <= Len(u) /\ Len(u) \in Nat
      /\ k + q = k2 + 1 /\ k + q \in 1..Len(s) /\ k + q \in 1..Len(u) /\ k + q < Len(u)
      /\ j \in 0..Len(h)
  BY <1>2, <1>5
<1>8. R = F!QueryPlaces(s) \cup ((k + q)..Len(u))
  <2>1. Ends(u, k + q)
    <3>1. q \in 1..Len(h)
      BY <1>2, <1>5
    <3>2. Rest(h, q) = Rest(u, k + q)
      BY <1>3, <3>1 DEF Window
    <3> QED BY <1>7, <3>2 DEF Ends
  <2>2. ASSUME NEW p \in 1..Len(s), Ends(u, p) PROVE p = k + q
    <3>1. CASE p \in 1..k
      BY <1>6, <2>2, <3>1 DEF Ends, Elsewhere
    <3>2. CASE p > k
      <4>1. p \in 1..Len(u) /\ p - k \in 1..Len(pending)
        BY <1>2, <1>5, <3>2
      <4>2. Rest(u, p) = Rest(h, p - k)
        BY <1>6, <3>2, <4>1 DEF Elsewhere
      <4>3. p - k = q
        BY <2>2, <4>1, <4>2 DEF Ends
      <4> QED BY <1>2, <4>3
    <3>3. p \in 1..k \/ p > k
      BY <1>2
    <3> QED BY <3>1, <3>2, <3>3
  <2>3. Longer(s, u)
    BY <1>0, LongerHere
  <2> HIDE DEF k2, j
  <2> QED BY <1>7, <2>1, <2>2, <2>3, PlacesMore
<1>9. out \o SubSeq(h, 1, j) = F!Without(SubSeq(u, 1, k2), F!QueryPlaces(s))
  <2>1. OutGrows(s, out, u, h, k, j)
    BY <1>0, <1>1, <1>7, OutMore
  <2> QED BY <2>1 DEF OutGrows
<1> HIDE DEF k2, j, R
<1>10. F!Without(u, R) = F!Without(SubSeq(u, 1, k2), F!QueryPlaces(s))
  <2>1. \A i \in 1..k2 : i \in R <=> i \in F!QueryPlaces(s)
    BY <1>7, <1>8
  <2>2. (k2 + 1)..Len(u) \subseteq R
    BY <1>7, <1>8
  <2> QED BY <1>4, <1>7, <2>1, <2>2, WithoutEnd
<1>11. SubSeq(u, 1, Len(u)) = u
  BY <1>4, SubSeqFull
<1>12. \A p \in 1..Len(u) : F!Hopeless(SubSeq(u, p, Len(u)))
  <2> SUFFICES ASSUME NEW p \in 1..Len(u) PROVE F!Hopeless(Rest(u, p))
    BY DEF Rest
  <2>1. CASE p \in 1..k
    BY <1>6, <2>1 DEF Elsewhere
  <2>2. CASE p > k
    <3>1. p - k \in 1..Len(h) /\ Rest(u, p) = Rest(h, p - k)
      BY <1>6, <2>2 DEF Elsewhere
    <3> QED BY <3>1
  <2>3. p \in 1..k \/ p > k
    BY <1>2, <1>7
  <2> QED BY <2>1, <2>2, <2>3
<1>13. PlacesInside(u)
  BY <1>4, PlacesIn
<1>14. R \subseteq 1..Len(u)
  BY <1>13 DEF PlacesInside, R
<1>15. Len(u) - Len(<<>>) = Len(u) /\ Len(u) \in 0..Len(u)
  BY <1>7
<1>16. <<>> = SubSeq(u, Len(u) + 1, Len(u))
  <2>1. Len(u) + 1 \in Int /\ Len(u) \in Int /\ Len(u) < Len(u) + 1
    BY <1>7
  <2> QED BY <2>1, SubSeqEmpty
<1>17. F!Stands(u, <<>>, out \o SubSeq(h, 1, j))
  <2>1. out \o SubSeq(h, 1, j) = F!Without(SubSeq(u, 1, Len(u)), R)
    BY <1>9, <1>10, <1>11
  <2> QED BY <1>12, <1>14, <1>15, <1>16, <2>1 DEF F!Stands, R
<1> QED
  BY <1>17 DEF u, j

\* What begins with another byte than ESC is no query and will not be one.
LEMMA Headless ==
    ASSUME NEW S, NEW h \in Seq(S), NEW i \in 1..Len(h), h[i] # "esc"
    PROVE  F!Hopeless(Rest(h, i)) /\ ~F!IsQuery(Rest(h, i))
<1>1. Rest(h, i)[1] = h[i]
  BY DEF Rest
<1> QED
  BY <1>1 DEF F!Hopeless, F!IsQuery

\* What stands where the filter stood: the byte is held back,
Steady(s, b, pending, out, h) ==
    /\ MaxString \in Nat /\ MaxCsi \in Nat
    /\ s \in Seq(F!Bytes) /\ b \in F!Bytes /\ pending \in Seq(F!Bytes) /\ out \in Seq(F!Bytes)
    /\ F!Stands(s, pending, out)
    /\ h = Append(pending, b)

Quiet(h, n) == \A i \in 1..n : ~F!IsQuery(Rest(h, i))
Spent(h, n) == \A i \in 1..n : F!Hopeless(Rest(h, i))

LEMMA Sizes ==
    ASSUME NEW s, NEW b, NEW pending, NEW out, NEW h, Steady(s, b, pending, out, h)
    PROVE  /\ Len(pending) \in Nat /\ Len(h) = Len(pending) + 1 /\ h \in Seq(F!Bytes)
           /\ h[Len(h)] = b /\ \A i \in 1..Len(pending) : h[i] = pending[i]
<1>1. pending \in Seq(F!Bytes) /\ b \in F!Bytes /\ h = Append(pending, b)
  BY DEF Steady
<1> QED
  BY <1>1

LEMMA Pushed ==
    ASSUME NEW s, NEW b, NEW pending, NEW out, NEW h, Steady(s, b, pending, out, h),
           Quiet(h, Len(pending))
    PROVE  F!Stands(Append(s, b), h, out)
<1>1. Len(pending) \in Nat /\ Len(h) = Len(pending) + 1 /\ h \in Seq(F!Bytes)
  BY Sizes
<1>2. 0 \in 0..Len(h)
  BY <1>1
<1>3. \A i \in 1..0 : F!Hopeless(Rest(h, i))
  OBVIOUS
<1>4. F!Stands(Append(s, b), SubSeq(h, 0 + 1, Len(h)), out \o SubSeq(h, 1, 0))
  BY <1>2, <1>3, KeepsOn DEF Steady, Quiet
<1>5. SubSeq(h, 0 + 1, Len(h)) = h
  BY <1>1, SubSeqFull
<1>6. SubSeq(h, 1, 0) = <<>>
  BY SubSeqEmpty
<1>7. out \o <<>> = out
  BY DEF Steady
<1> QED
  BY <1>4, <1>5, <1>6, <1>7

\* all is let through,
LEMMA Flushed ==
    ASSUME NEW s, NEW b, NEW pending, NEW out, NEW h, Steady(s, b, pending, out, h),
           Quiet(h, Len(pending)), Spent(h, Len(h))
    PROVE  F!Stands(Append(s, b), <<>>, out \o h)
<1>1. Len(pending) \in Nat /\ Len(h) = Len(pending) + 1 /\ h \in Seq(F!Bytes)
  BY Sizes
<1>2. Len(h) \in 0..Len(h)
  BY <1>1
<1>4. F!Stands(Append(s, b), SubSeq(h, Len(h) + 1, Len(h)), out \o SubSeq(h, 1, Len(h)))
  BY <1>2, KeepsOn DEF Steady, Quiet, Spent
<1>5. SubSeq(h, 1, Len(h)) = h
  BY <1>1, SubSeqFull
<1>6. SubSeq(h, Len(h) + 1, Len(h)) = <<>>
  BY <1>1, SubSeqEmpty
<1> QED
  BY <1>4, <1>5, <1>6

\* all that came before it is let through,
LEMMA Grounded ==
    ASSUME NEW s, NEW b, NEW pending, NEW out, NEW h, Steady(s, b, pending, out, h),
           Quiet(h, Len(pending)), Spent(h, Len(pending))
    PROVE  /\ b = "esc" => F!Stands(Append(s, b), <<b>>, out \o pending)
           /\ b # "esc" => F!Stands(Append(s, b), <<>>, Append(out \o pending, b))
<1>1. /\ Len(pending) \in Nat /\ Len(h) = Len(pending) + 1 /\ h \in Seq(F!Bytes)
      /\ h[Len(h)] = b
  BY Sizes
<1>0. pending \in Seq(F!Bytes) /\ b \in F!Bytes /\ out \in Seq(F!Bytes) /\ h = Append(pending, b)
  BY DEF Steady
<1>2. ASSUME b = "esc" PROVE F!Stands(Append(s, b), <<b>>, out \o pending)
  <2>1. Len(pending) \in 0..Len(h)
    BY <1>1
  <2>2. F!Stands(Append(s, b), SubSeq(h, Len(pending) + 1, Len(h)),
                out \o SubSeq(h, 1, Len(pending)))
    BY <2>1, KeepsOn DEF Steady, Quiet, Spent
  <2>3. SubSeq(h, Len(pending) + 1, Len(h)) = <<b>>
    <3> DEFINE l == SubSeq(h, Len(pending) + 1, Len(h))
               r == <<b>>
    <3>1. l \in Seq(F!Bytes) /\ Len(l) = 1 /\ l[1] = b
      BY <1>1
    <3>2. r \in Seq(F!Bytes) /\ Len(r) = 1 /\ r[1] = b
      BY <1>0
    <3> HIDE DEF l, r
    <3>3. l = r
      BY <3>1, <3>2, SeqEqual
    <3> QED BY <3>3 DEF l, r
  <2>4. SubSeq(h, 1, Len(pending)) = pending
    <3> DEFINE l == SubSeq(h, 1, Len(pending))
    <3>1. l \in Seq(F!Bytes) /\ Len(l) = Len(pending) /\ \A i \in 1..Len(l) : l[i] = pending[i]
      BY <1>0, <1>1
    <3> HIDE DEF l
    <3>2. l = pending
      BY <1>0, <3>1, SeqEqual
    <3> QED BY <3>2 DEF l
  <2> QED BY <2>2, <2>3, <2>4
<1>3. ASSUME b # "esc" PROVE F!Stands(Append(s, b), <<>>, Append(out \o pending, b))
  <2>1. F!Hopeless(Rest(h, Len(h)))
    <3>1. Len(h) \in 1..Len(h) /\ h[Len(h)] # "esc"
      BY <1>1, <1>3
    <3> QED BY <1>1, <3>1, Headless
  <2>2. Spent(h, Len(h))
    <3>1. \A i \in 1..Len(h) : i \in 1..Len(pending) \/ i = Len(h)
      BY <1>1
    <3> QED BY <2>1, <3>1 DEF Spent
  <2>3. F!Stands(Append(s, b), <<>>, out \o h)
    BY <2>2, Flushed
  <2>4. LastGroups(out, pending, b)
    BY <1>0, LastGroup
  <2> QED BY <1>0, <2>3, <2>4 DEF LastGroups
<1> QED
  BY <1>2, <1>3

\* or all is taken out.
LEMMA Dropped ==
    ASSUME NEW s, NEW b, NEW pending, NEW out, NEW h, Steady(s, b, pending, out, h),
           pending # <<>>, F!IsQuery(h), \A i \in 2..Len(pending) : ~F!IsQuery(Rest(h, i)),
           Spent(h, Len(h))
    PROVE  F!Stands(Append(s, b), <<>>, out)
<1>1. Len(pending) \in Nat /\ Len(h) = Len(pending) + 1 /\ h \in Seq(F!Bytes)
  BY Sizes
<1>2. 1 \in 1..Len(pending)
  <2>1. Len(pending) # 0
    BY DEF Steady
  <2> QED BY <1>1, <2>1
<1>3. Rest(h, 1) = h
  BY <1>1, SubSeqFull DEF Rest
<1>4. \A i \in 1..Len(pending) : F!IsQuery(Rest(h, i)) => i = 1
  <2>1. \A i \in 1..Len(pending) : i = 1 \/ i \in 2..Len(pending)
    BY <1>1
  <2> QED BY <2>1
<1>5. F!Stands(Append(s, b), <<>>, out \o SubSeq(h, 1, 1 - 1))
  BY <1>2, <1>3, <1>4, TakesOut DEF Steady, Spent
<1>6. SubSeq(h, 1, 1 - 1) = <<>>
  BY SubSeqEmpty
<1>7. out \o <<>> = out
  BY DEF Steady
<1> QED
  BY <1>5, <1>6, <1>7

-----------------------------------------------------------------------------
(* The query filter: its steps *)

Sound(s, f) == f \in F!Filters /\ F!Shape(f) /\ F!Stands(s, f.pending, f.out)

\* The filter, and what its small steps make of it.
Record(st, kd, p, o) == [state |-> st, kind |-> kd, pending |-> p, out |-> o]

Kinds == F!StringKinds \cup {"None"}
FilterStates == {"Ground", "Esc", "Csi", "StringBody", "StringEsc"}

Holds(f, st, kd, p, o) == f.state = st /\ f.kind = kd /\ f.pending = p /\ f.out = o

LEMMA FilterFields ==
    ASSUME NEW st, NEW kd, NEW p, NEW o
    PROVE  Holds(Record(st, kd, p, o), st, kd, p, o)
BY DEF Holds, Record

LEMMA FilterType ==
    ASSUME NEW st \in FilterStates, NEW kd \in Kinds,
           NEW p \in Seq(F!Bytes), NEW o \in Seq(F!Bytes)
    PROVE  Record(st, kd, p, o) \in F!Filters
BY DEF Record, F!Filters, FilterStates, Kinds

LEMMA FilterWhole ==
    ASSUME NEW f \in F!Filters
    PROVE  /\ f = Record(f.state, f.kind, f.pending, f.out)
           /\ f.state \in FilterStates /\ f.kind \in Kinds
           /\ f.pending \in Seq(F!Bytes) /\ f.out \in Seq(F!Bytes)
BY DEF Record, F!Filters, FilterStates, Kinds

SetState(f, x) == [f EXCEPT !.state = x]
SetKind(f, x) == [f EXCEPT !.kind = x]
SetPending(f, x) == [f EXCEPT !.pending = x]
SetOut(f, x) == [f EXCEPT !.out = x]

LEMMA Setting ==
    \A st, kd, p, o, x :
       /\ SetState(Record(st, kd, p, o), x) = Record(x, kd, p, o)
       /\ SetKind(Record(st, kd, p, o), x) = Record(st, x, p, o)
       /\ SetPending(Record(st, kd, p, o), x) = Record(st, kd, x, o)
       /\ SetOut(Record(st, kd, p, o), x) = Record(st, kd, p, x)
BY DEF Record, SetState, SetKind, SetPending, SetOut

\* What drop, flush_raw, Push and Ground make of a filter.
Effects(st, kd, p, o, b) ==
    /\ F!drop(Record(st, kd, p, o)) = Record("Ground", "None", <<>>, o)
    /\ F!flush_raw(Record(st, kd, p, o)) = Record("Ground", "None", <<>>, o \o p)
    /\ F!Push(Record(st, kd, p, o), b) = Record(st, kd, Append(p, b), o)
    /\ b = "esc" => F!Ground(Record(st, kd, p, o), b) = Record("Esc", kd, Append(p, b), o)
    /\ b # "esc" => F!Ground(Record(st, kd, p, o), b) = Record(st, kd, p, Append(o, b))

LEMMA EffectsHere ==
    ASSUME NEW st, NEW kd, NEW p, NEW o, NEW b
    PROVE  Effects(st, kd, p, o, b)
<1> DEFINE f == Record(st, kd, p, o)
<1>1. Holds(f, st, kd, p, o)
  BY FilterFields
<1>2. F!drop(f) = SetPending(SetKind(SetState(f, "Ground"), "None"), <<>>)
  BY DEF F!drop, SetState, SetKind, SetPending
<1>3. F!drop(f) = Record("Ground", "None", <<>>, o)
  BY <1>2, Setting
<1>4. F!flush_raw(f) = SetOut(F!drop(f), F!drop(f).out \o f.pending)
  BY DEF F!flush_raw, SetOut
<1>5. F!flush_raw(f) = Record("Ground", "None", <<>>, o \o p)
  <2>1. Holds(Record("Ground", "None", <<>>, o), "Ground", "None", <<>>, o)
    BY FilterFields
  <2>2. F!drop(f).out = o /\ f.pending = p
    BY <1>1, <1>3, <2>1 DEF Holds
  <2>3. F!flush_raw(f) = SetOut(Record("Ground", "None", <<>>, o), o \o p)
    BY <1>3, <1>4, <2>2
  <2> QED BY <2>3, Setting
<1>6. F!Push(f, b) = Record(st, kd, Append(p, b), o)
  <2>1. F!Push(f, b) = SetPending(f, Append(f.pending, b))
    BY DEF F!Push, SetPending
  <2>2. F!Push(f, b) = SetPending(f, Append(p, b))
    BY <1>1, <2>1 DEF Holds
  <2> QED BY <2>2, Setting
<1>7. ASSUME b = "esc" PROVE F!Ground(f, b) = Record("Esc", kd, Append(p, b), o)
  <2>1. F!Ground(f, b) = SetState(F!Push(f, b), "Esc")
    BY <1>7 DEF F!Ground, SetState
  <2>2. F!Ground(f, b) = SetState(Record(st, kd, Append(p, b), o), "Esc")
    BY <1>6, <2>1
  <2> QED BY <2>2, Setting
<1>8. ASSUME b # "esc" PROVE F!Ground(f, b) = Record(st, kd, p, Append(o, b))
  <2>1. F!Ground(f, b) = SetOut(f, Append(f.out, b))
    BY <1>8 DEF F!Ground, SetOut
  <2>2. F!Ground(f, b) = SetOut(f, Append(o, b))
    BY <1>1, <2>1 DEF Holds
  <2> QED BY <2>2, Setting
<1> HIDE DEF f
<1>9. /\ F!drop(f) = Record("Ground", "None", <<>>, o)
      /\ F!flush_raw(f) = Record("Ground", "None", <<>>, o \o p)
      /\ F!Push(f, b) = Record(st, kd, Append(p, b), o)
      /\ b = "esc" => F!Ground(f, b) = Record("Esc", kd, Append(p, b), o)
      /\ b # "esc" => F!Ground(f, b) = Record(st, kd, p, Append(o, b))
  BY <1>3, <1>5, <1>6, <1>7, <1>8
<1> QED
  BY <1>9, Zenon DEF Effects, f

\* The bytes before this one go through, and it is met anew.
LEMMA GroundGood ==
    ASSUME NEW s, NEW b, NEW pending, NEW out, NEW h, Steady(s, b, pending, out, h),
           Quiet(h, Len(pending)), Spent(h, Len(pending)),
           NEW g, g = Record("Ground", "None", <<>>, out \o pending)
    PROVE  Sound(Append(s, b), F!Ground(g, b))
<1>1. pending \in Seq(F!Bytes) /\ out \in Seq(F!Bytes) /\ b \in F!Bytes
  BY DEF Steady
<1>2. out \o pending \in Seq(F!Bytes) /\ <<>> \in Seq(F!Bytes) /\ <<b>> \in Seq(F!Bytes)
      /\ Append(out \o pending, b) \in Seq(F!Bytes) /\ Append(<<>>, b) = <<b>>
  BY <1>1
<1>3. "None" \in Kinds /\ "Ground" \in FilterStates /\ "Esc" \in FilterStates
  BY DEF Kinds, FilterStates
<1>4. CASE b = "esc"
  <2> DEFINE f == Record("Esc", "None", <<b>>, out \o pending)
  <2>0. Effects("Ground", "None", <<>>, out \o pending, b)
    BY EffectsHere
  <2>1. F!Ground(g, b) = f
    BY <1>2, <1>4, <2>0 DEF Effects
  <2>2. Holds(f, "Esc", "None", <<b>>, out \o pending)
    BY FilterFields
  <2>3. f \in F!Filters
    BY <1>2, <1>3, FilterType
  <2> HIDE DEF f
  <2>4. F!Shape(f)
    BY <1>4, <2>2 DEF F!Shape, Holds
  <2>5. F!Stands(Append(s, b), <<b>>, out \o pending)
    BY <1>4, Grounded
  <2> QED BY <2>1, <2>2, <2>3, <2>4, <2>5 DEF Sound, Holds
<1>5. CASE b # "esc"
  <2> DEFINE f == Record("Ground", "None", <<>>, Append(out \o pending, b))
  <2>0. Effects("Ground", "None", <<>>, out \o pending, b)
    BY EffectsHere
  <2>1. F!Ground(g, b) = f
    BY <1>5, <2>0 DEF Effects
  <2>2. Holds(f, "Ground", "None", <<>>, Append(out \o pending, b))
    BY FilterFields
  <2>3. f \in F!Filters
    BY <1>2, <1>3, FilterType
  <2> HIDE DEF f
  <2>4. F!Shape(f)
    BY <2>2 DEF F!Shape, Holds
  <2>5. F!Stands(Append(s, b), <<>>, Append(out \o pending, b))
    BY <1>5, Grounded
  <2> QED BY <2>1, <2>2, <2>3, <2>4, <2>5 DEF Sound, Holds
<1> QED
  BY <1>4, <1>5

\* All goes through, or is taken out, and the filter starts again.
LEMMA Started ==
    ASSUME NEW s, NEW o \in Seq(F!Bytes), F!Stands(s, <<>>, o)
    PROVE  Sound(s, Record("Ground", "None", <<>>, o))
<1> DEFINE f == Record("Ground", "None", <<>>, o)
<1>1. "None" \in Kinds /\ "Ground" \in FilterStates /\ <<>> \in Seq(F!Bytes)
  BY DEF Kinds, FilterStates
<1>2. Holds(f, "Ground", "None", <<>>, o)
  BY FilterFields
<1>3. f \in F!Filters
  BY <1>1, FilterType
<1> HIDE DEF f
<1>4. F!Shape(f)
  BY <1>2 DEF F!Shape, Holds
<1>5. Sound(s, f)
  BY <1>2, <1>3, <1>4 DEF Sound, Holds
<1> QED
  BY <1>5 DEF f

\* Two bytes that begin with ESC.
LEMMA TwoBytes ==
    ASSUME MaxCsi \in Nat, MaxString \in Nat,
           NEW S, NEW w \in Seq(S), Len(w) = 2, w[1] = "esc"
    PROVE  /\ F!IsQuery(w) <=> w[2] = "Z"
           /\ w[2] \notin {"["} \cup F!StringKinds => F!Hopeless(w)
<1>1. ~F!IsCsiQuery(w)
  BY CsiFormOf DEF CsiForm
<1>2. ~F!IsStringQuery(w)
  <2> SUFFICES ASSUME NEW n \in Nat, Closed(w, n) PROVE FALSE
    BY StringForm
  <2>1. n >= 2 /\ (n = 2 - 1 \/ n = 2 - 2)
    BY DEF Closed
  <2> QED BY <2>1
<1>3. w = <<"esc", "Z">> <=> w[2] = "Z"
  <2> DEFINE z == <<"esc", "Z">>
  <2>1. Len(z) = 2 /\ z[1] = "esc" /\ z[2] = "Z" /\ z \in Seq({"esc", "Z"})
    OBVIOUS
  <2>2. w[2] = "Z" => w \in Seq({"esc", "Z"})
    <3> SUFFICES ASSUME w[2] = "Z" PROVE w \in Seq({"esc", "Z"})
      OBVIOUS
    <3>1. \A i \in 1..2 : w[i] \in {"esc", "Z"}
      <4>1. \A i \in 1..2 : i = 1 \/ i = 2
        OBVIOUS
      <4> QED BY <4>1
    <3>2. w = [i \in 1..2 |-> w[i]]
      OBVIOUS
    <3> QED BY <3>1, <3>2
  <2>3. w[2] = "Z" => \A i \in 1..Len(w) : w[i] = z[i]
    <3> HIDE DEF z
    <3>1. \A i \in 1..2 : i = 1 \/ i = 2
      OBVIOUS
    <3> QED BY <2>1, <3>1
  <2> HIDE DEF z
  <2>4. w[2] = "Z" => w = z
    BY <2>1, <2>2, <2>3, SeqEqual
  <2> QED BY <2>1, <2>4 DEF z
<1>4. w[2] \notin {"["} \cup F!StringKinds => F!Hopeless(w)
  BY DEF F!Hopeless
<1> QED
  BY <1>1, <1>2, <1>3, <1>4 DEF F!IsQuery

\* What a byte makes of a filter that has just met an ESC.
EscOf(st, kd, p, o, b) ==
    /\ b = "[" => F!Esc(Record(st, kd, p, o), b) = Record("Csi", kd, Append(p, b), o)
    /\ b \in F!StringKinds =>
          F!Esc(Record(st, kd, p, o), b) = Record("StringBody", b, Append(p, b), o)
    /\ b = "Z" => F!Esc(Record(st, kd, p, o), b) = Record("Ground", "None", <<>>, o)
    /\ b \notin {"[", "Z"} \cup F!StringKinds =>
          F!Esc(Record(st, kd, p, o), b) = F!Ground(Record("Ground", "None", <<>>, o \o p), b)

LEMMA EscHere ==
    ASSUME NEW st, NEW kd, NEW p, NEW o, NEW b
    PROVE  EscOf(st, kd, p, o, b)
<1> DEFINE f == Record(st, kd, p, o)
<1> HIDE DEF f
<1>1. /\ F!drop(f) = Record("Ground", "None", <<>>, o)
      /\ F!flush_raw(f) = Record("Ground", "None", <<>>, o \o p)
      /\ F!Push(f, b) = Record(st, kd, Append(p, b), o)
  BY EffectsHere DEF Effects, f
<1>2. ASSUME b = "[" PROVE F!Esc(f, b) = Record("Csi", kd, Append(p, b), o)
  <2>1. F!Esc(f, b) = SetState(F!Push(f, b), "Csi")
    BY <1>2 DEF F!Esc, SetState
  <2>2. F!Esc(f, b) = SetState(Record(st, kd, Append(p, b), o), "Csi")
    BY <1>1, <2>1
  <2> QED BY <2>2, Setting
<1>3. ASSUME b \in F!StringKinds PROVE F!Esc(f, b) = Record("StringBody", b, Append(p, b), o)
  <2>1. F!Esc(f, b) = SetKind(SetState(F!Push(f, b), "StringBody"), b)
    BY <1>3 DEF F!Esc, SetState, SetKind, F!StringKinds
  <2>2. F!Esc(f, b) = SetKind(SetState(Record(st, kd, Append(p, b), o), "StringBody"), b)
    BY <1>1, <2>1
  <2> QED BY <2>2, Setting
<1>4. ASSUME b = "Z" PROVE F!Esc(f, b) = Record("Ground", "None", <<>>, o)
  <2>1. F!Esc(f, b) = F!drop(f)
    BY <1>4 DEF F!Esc
  <2> QED BY <1>1, <2>1
<1>5. ASSUME b \notin {"[", "Z"} \cup F!StringKinds
      PROVE  F!Esc(f, b) = F!Ground(Record("Ground", "None", <<>>, o \o p), b)
  <2>1. F!Esc(f, b) = F!Ground(F!flush_raw(f), b)
    BY <1>5 DEF F!Esc, F!StringKinds
  <2> QED BY <1>1, <2>1
<1> QED
  BY <1>2, <1>3, <1>4, <1>5 DEF EscOf, f

\* An ESC ends what is held back: what the next byte makes of it.
LEMMA EscEnded ==
    ASSUME F!QueryFilterAssumption,
           NEW s, NEW b, NEW pending, NEW out, NEW h, Steady(s, b, pending, out, h),
           NEW n \in Nat, Len(pending) = n + 1, pending[n + 1] = "esc",
           Quiet(h, n), Spent(h, n), NEW kd \in Kinds,
           NEW f, f = Record("Esc", kd, <<"esc">>, out \o SubSeq(h, 1, n))
    PROVE  Sound(Append(s, b), F!Esc(f, b))
<1> DEFINE o == out \o SubSeq(h, 1, n)
           u == Append(s, b)
           w == Rest(h, n + 1)
<1>0. MaxCsi \in Nat /\ MaxString \in Nat /\ MaxCsi >= 2 /\ MaxString >= 2
  BY DEF F!QueryFilterAssumption
<1>1. /\ s \in Seq(F!Bytes) /\ pending \in Seq(F!Bytes) /\ out \in Seq(F!Bytes) /\ b \in F!Bytes
      /\ F!Stands(s, pending, out) /\ h = Append(pending, b)
  BY DEF Steady
<1>2. /\ Len(h) = n + 2 /\ h \in Seq(F!Bytes) /\ h[n + 2] = b /\ h[n + 1] = "esc"
  BY <1>1
<1>3. "esc" \in F!Bytes /\ SubSeq(h, 1, n) \in Seq(F!Bytes)
  <2>1. n + 1 \in 1..Len(pending)
    OBVIOUS
  <2>2. "esc" \in F!Bytes
    BY <1>1, <2>1
  <2>3. SubSeq(h, 1, n) \in Seq(F!Bytes)
    BY <1>2
  <2> QED BY <2>2, <2>3
<1>4. o \in Seq(F!Bytes) /\ <<>> \in Seq(F!Bytes)
  BY <1>1, <1>3
<1>5. Len(w) = 2 /\ w[1] = "esc" /\ w[2] = b /\ w \in Seq(F!Bytes)
  BY <1>2 DEF Rest
<1>6. SubSeq(h, n + 1, Len(h)) = w
  BY DEF Rest
<1>7. Append(<<"esc">>, b) = w
  <2> DEFINE l == Append(<<"esc">>, b)
  <2>1. l \in Seq(F!Bytes) /\ Len(l) = 2 /\ l[1] = "esc" /\ l[2] = b
    BY <1>1, <1>3
  <2> HIDE DEF l, w
  <2>2. \A i \in 1..Len(l) : l[i] = w[i]
    <3>1. \A i \in 1..2 : i = 1 \/ i = 2
      OBVIOUS
    <3> QED BY <1>5, <2>1, <3>1
  <2>3. l = w
    BY <1>5, <2>1, <2>2, SeqEqual
  <2> QED BY <2>3 DEF l
<1> HIDE DEF w, o, u
<1>8. /\ F!IsQuery(w) <=> b = "Z"
      /\ b \notin {"["} \cup F!StringKinds => F!Hopeless(w)
  BY <1>0, <1>5, TwoBytes
<1>9. b # "Z" => Quiet(h, n + 1)
  <2>1. \A i \in 1..(n + 1) : i \in 1..n \/ i = n + 1
    OBVIOUS
  <2> QED BY <1>8, <2>1 DEF Quiet, w
<1>10. b \notin {"["} \cup F!StringKinds => Spent(h, n + 1)
  <2>1. \A i \in 1..(n + 1) : i \in 1..n \/ i = n + 1
    OBVIOUS
  <2> QED BY <1>8, <2>1 DEF Spent, w
<1>11. EscOf("Esc", kd, <<"esc">>, o, b) /\ f = Record("Esc", kd, <<"esc">>, o)
  BY EscHere DEF o
<1>12. b # "Z" => F!Stands(u, w, o)
  <2> SUFFICES ASSUME b # "Z" PROVE F!Stands(u, w, o)
    OBVIOUS
  <2>1. n \in 0..Len(h)
    BY <1>2
  <2>2. F!Stands(Append(s, b), SubSeq(h, n + 1, Len(h)), out \o SubSeq(h, 1, n))
    BY <1>0, <1>1, <1>9, <2>1, KeepsOn DEF Quiet, Spent
  <2> QED BY <1>6, <2>2 DEF u, o
<1>13. F!Begun(w, {w[2]}) /\ \A i \in 3..Len(w) : FALSE
  BY <1>5 DEF F!Begun
<1>14. CASE b = "["
  <2> DEFINE g == Record("Csi", kd, w, o)
  <2>1. F!Esc(f, b) = g
    BY <1>7, <1>11, <1>14 DEF EscOf
  <2>2. Holds(g, "Csi", kd, w, o)
    BY FilterFields
  <2>3. g \in F!Filters
    <3>1. "Csi" \in FilterStates
      BY DEF FilterStates
    <3> QED BY <1>4, <1>5, <3>1, FilterType
  <2> HIDE DEF g
  <2>4. F!Shape(g)
    BY <1>0, <1>5, <1>13, <1>14, <2>2 DEF F!Shape, Holds
  <2>5. b # "Z"
    BY <1>14
  <2> QED BY <1>12, <2>1, <2>2, <2>3, <2>4, <2>5 DEF Sound, Holds, u
<1>15. CASE b \in F!StringKinds
  <2> DEFINE g == Record("StringBody", b, w, o)
  <2>1. F!Esc(f, b) = g
    BY <1>7, <1>11, <1>15 DEF EscOf
  <2>2. Holds(g, "StringBody", b, w, o)
    BY FilterFields
  <2>3. g \in F!Filters
    <3>1. "StringBody" \in FilterStates /\ b \in Kinds
      BY <1>15 DEF FilterStates, Kinds
    <3> QED BY <1>4, <1>5, <3>1, FilterType
  <2>6. F!OpenString(w)
    BY <1>0, <1>5, <1>13, <1>15 DEF F!OpenString, F!Begun
  <2> HIDE DEF g
  <2>4. F!Shape(g)
    BY <1>5, <2>2, <2>6 DEF F!Shape, Holds
  <2>5. b # "Z"
    BY <1>15 DEF F!StringKinds
  <2> QED BY <1>12, <2>1, <2>2, <2>3, <2>4, <2>5 DEF Sound, Holds, u
<1>16. CASE b = "Z"
  <2>1. F!Esc(f, b) = Record("Ground", "None", <<>>, o)
    BY <1>11, <1>16 DEF EscOf
  <2>2. b \notin {"["} \cup F!StringKinds /\ b # "esc"
    BY <1>16 DEF F!StringKinds
  <2>3. n + 1 \in 1..Len(pending) /\ F!IsQuery(Rest(h, n + 1))
    BY <1>8, <1>16 DEF w
  <2>4. \A i \in 1..Len(pending) : F!IsQuery(Rest(h, i)) => i = n + 1
    <3>1. \A i \in 1..(n + 1) : i \in 1..n \/ i = n + 1
      OBVIOUS
    <3> QED BY <3>1 DEF Quiet
  <2>5. \A i \in 1..Len(h) : F!Hopeless(Rest(h, i))
    <3>1. \A i \in 1..Len(h) : i \in 1..(n + 1) \/ i = n + 2
      BY <1>2
    <3>2. n + 2 \in 1..Len(h) /\ h[n + 2] # "esc"
      BY <1>2, <2>2
    <3>3. F!Hopeless(Rest(h, n + 2))
      BY <1>2, <3>2, Headless
    <3> QED BY <1>10, <2>2, <3>1, <3>3 DEF Spent
  <2>6. F!Stands(Append(s, b), <<>>, out \o SubSeq(h, 1, (n + 1) - 1))
    BY <1>0, <1>1, <2>3, <2>4, <2>5, TakesOut
  <2>7. F!Stands(u, <<>>, o)
    <3>1. (n + 1) - 1 = n
      OBVIOUS
    <3> QED BY <2>6, <3>1 DEF u, o
  <2> QED BY <1>4, <2>1, <2>7, Started DEF u
<1>17. CASE b \notin {"[", "Z"} \cup F!StringKinds
  <2>1. F!Esc(f, b) = F!Ground(Record("Ground", "None", <<>>, o \o <<"esc">>), b)
    BY <1>11, <1>17 DEF EscOf
  <2>2. o \o <<"esc">> = out \o pending
    <3> DEFINE t == SubSeq(h, 1, n)
    <3>1. LastGroups(out, t, "esc")
      BY <1>1, <1>3, LastGroup
    <3>2. Append(t, "esc") = pending
      <4> DEFINE l == Append(t, "esc")
      <4>1. t \in Seq(F!Bytes) /\ Len(t) = n /\ \A i \in 1..n : t[i] = pending[i]
        BY <1>1
      <4> HIDE DEF t
      <4>2. l \in Seq(F!Bytes) /\ Len(l) = n + 1
        BY <1>3, <4>1
      <4>3. \A i \in 1..(n + 1) : l[i] = pending[i]
        BY <4>1
      <4> HIDE DEF l
      <4>4. l = pending
        BY <1>1, <4>2, <4>3, SeqEqual
      <4> QED BY <4>4 DEF l
    <3>3. Append(out \o t, "esc") = (out \o t) \o <<"esc">>
      <4>1. out \o t \in Seq(F!Bytes)
        BY <1>1, <1>3
      <4> HIDE DEF t
      <4> QED BY <1>3, <4>1
    <3> QED BY <3>1, <3>2, <3>3 DEF LastGroups, o
  <2>3. b # "Z" /\ b \notin {"["} \cup F!StringKinds
    BY <1>17
  <2>4. Quiet(h, Len(pending)) /\ Spent(h, Len(pending))
    BY <1>9, <1>10, <2>3
  <2> QED BY <2>1, <2>2, <2>4, GroundGood
<1> QED
  BY <1>14, <1>15, <1>16, <1>17

\* The filter as it is found.
LEMMA FoundSteady ==
    ASSUME F!QueryFilterAssumption, NEW s \in Seq(F!Bytes), NEW b \in F!Bytes,
           NEW f, Sound(s, f),
           NEW h, h = Append(f.pending, b)
    PROVE  Steady(s, b, f.pending, f.out, h)
<1>1. f \in F!Filters /\ F!Stands(s, f.pending, f.out)
  BY DEF Sound
<1>2. f.pending \in Seq(F!Bytes) /\ f.out \in Seq(F!Bytes)
  BY <1>1, FilterWhole
<1> QED
  BY <1>1, <1>2 DEF Steady, F!QueryFilterAssumption

LEMMA GroundStep ==
    ASSUME F!QueryFilterAssumption, NEW s \in Seq(F!Bytes), NEW b \in F!Bytes,
           NEW f, Sound(s, f),
           f.state = "Ground"
    PROVE  Sound(Append(s, b), F!Ground(f, b))
<1> DEFINE h == Append(f.pending, b)
<1>1. f \in F!Filters /\ f.pending = <<>> /\ f.kind = "None"
  BY DEF Sound, F!Shape
<1>2. f = Record("Ground", "None", <<>>, f.out) /\ f.out \in Seq(F!Bytes)
  BY <1>1, FilterWhole
<1>3. f.out \o f.pending = f.out
  BY <1>1, <1>2
<1>4. Steady(s, b, f.pending, f.out, h)
  BY FoundSteady
<1>5. Quiet(h, Len(f.pending)) /\ Spent(h, Len(f.pending))
  <2>1. 1..Len(f.pending) = {}
    BY <1>1
  <2> QED BY <2>1 DEF Quiet, Spent
<1> HIDE DEF h
<1> QED
  BY <1>2, <1>3, <1>4, <1>5, GroundGood

LEMMA EscStep ==
    ASSUME F!QueryFilterAssumption, NEW s \in Seq(F!Bytes), NEW b \in F!Bytes,
           NEW f, Sound(s, f),
           f.state = "Esc"
    PROVE  Sound(Append(s, b), F!Esc(f, b))
<1> DEFINE h == Append(f.pending, b)
<1>1. f \in F!Filters /\ f.pending = <<"esc">>
  BY DEF Sound, F!Shape
<1>2. f = Record("Esc", f.kind, <<"esc">>, f.out) /\ f.out \in Seq(F!Bytes) /\ f.kind \in Kinds
  BY <1>1, FilterWhole
<1>3. Steady(s, b, f.pending, f.out, h)
  BY FoundSteady
<1>4. Quiet(h, 0) /\ Spent(h, 0)
  BY DEF Quiet, Spent
<1>5. Len(f.pending) = 0 + 1 /\ f.pending[0 + 1] = "esc" /\ 0 \in Nat
  BY <1>1
<1> HIDE DEF h
<1>6. f.out \o SubSeq(h, 1, 0) = f.out
  <2>1. SubSeq(h, 1, 0) = <<>>
    BY SubSeqEmpty
  <2> QED BY <1>2, <2>1
<1>7. f = Record("Esc", f.kind, <<"esc">>, f.out \o SubSeq(h, 1, 0))
  BY <1>2, <1>6
<1> QED
  BY <1>2, <1>3, <1>4, <1>5, <1>7, EscEnded

\* Only the first byte of what is held back is an ESC: the rest is no query.
LEMMA OneHead ==
    ASSUME NEW S, NEW h \in Seq(S), NEW n \in 0..Len(h), \A i \in 2..n : h[i] # "esc",
           n >= 1
    PROVE  /\ Rest(h, 1) = h
           /\ \A i \in 2..n : ~F!IsQuery(Rest(h, i))
           /\ ~F!IsQuery(h) => Quiet(h, n)
           /\ F!Hopeless(h) => Spent(h, n)
<1>1. Rest(h, 1) = h
  BY SubSeqFull DEF Rest
<1>2. ASSUME NEW i \in 2..n PROVE F!Hopeless(Rest(h, i)) /\ ~F!IsQuery(Rest(h, i))
  <2>1. i \in 1..Len(h) /\ h[i] # "esc"
    OBVIOUS
  <2> QED BY <2>1, Headless
<1>3. \A i \in 1..n : i = 1 \/ i \in 2..n
  OBVIOUS
<1> QED
  BY <1>1, <1>2, <1>3 DEF Quiet, Spent

LEMMA CsiStep ==
    ASSUME F!QueryFilterAssumption, NEW s \in Seq(F!Bytes), NEW b \in F!Bytes,
           NEW f, Sound(s, f),
           f.state = "Csi"
    PROVE  Sound(Append(s, b), F!Csi(f, b))
<1> DEFINE h == Append(f.pending, b)
           p == f.pending
           o == f.out
           n == Len(f.pending)
<1>0. MaxCsi \in Nat /\ MaxString \in Nat /\ MaxCsi >= 2 /\ MaxString >= 2
  BY DEF F!QueryFilterAssumption
<1>1. f \in F!Filters /\ F!Begun(p, {"["}) /\ Len(p) <= MaxCsi
      /\ \A i \in 3..Len(p) : p[i] \in F!CsiParameter
  BY DEF Sound, F!Shape
<1>2. f = Record("Csi", f.kind, p, o) /\ o \in Seq(F!Bytes) /\ p \in Seq(F!Bytes) /\ f.kind \in Kinds
  BY <1>1, FilterWhole
<1>3. Steady(s, b, p, o, h)
  BY FoundSteady
<1> HIDE DEF h, p, o, n
<1>4. /\ n \in Nat /\ n >= 2 /\ n <= MaxCsi /\ Len(h) = n + 1 /\ h \in Seq(F!Bytes) /\ h[n + 1] = b
      /\ Len(p) = n /\ p # <<>> /\ Len(h) - 1 = n
  <2>1. Len(p) \in Nat /\ Len(h) = Len(p) + 1 /\ h \in Seq(F!Bytes) /\ h[Len(h)] = b
    BY <1>3, Sizes
  <2>2. Len(p) >= 2
    BY <1>1 DEF F!Begun
  <2>3. p # <<>>
    BY <2>2
  <2>4. n = Len(p)
    BY DEF n, p
  <2> QED BY <1>1, <2>1, <2>2, <2>3, <2>4
<1>5. /\ h[1] = "esc" /\ h[2] = "[" /\ \A i \in 3..n : h[i] \in F!CsiParameter
  <2>1. \A i \in 1..n : h[i] = p[i]
    BY <1>3, <1>4, Sizes
  <2>2. 1 \in 1..n /\ 2 \in 1..n /\ \A i \in 3..n : i \in 1..n
    BY <1>4
  <2> QED BY <1>1, <1>4, <2>1, <2>2 DEF F!Begun
<1>6. F!Begun(h, {"["}) /\ "[" \notin F!StringKinds
  BY <1>4, <1>5 DEF F!Begun, F!StringKinds
<1>7. "esc" \notin F!CsiParameter /\ F!CsiParameter \cap F!CsiFinal = {} /\ "esc" \notin F!CsiFinal
  BY DEF F!CsiParameter, F!CsiFinal, F!CsiIntermediate
<1>8. \A i \in 2..n : h[i] # "esc"
  <2>1. \A i \in 2..n : i = 2 \/ i \in 3..n
    BY <1>4
  <2> QED BY <1>5, <1>7, <2>1
<1>9. /\ ~F!IsQuery(h) => Quiet(h, n)
      /\ F!Hopeless(h) => Spent(h, n)
      /\ \A i \in 2..n : ~F!IsQuery(Rest(h, i))
  <2>1. n \in 0..Len(h) /\ n >= 1
    BY <1>4
  <2> QED BY <1>4, <1>8, <2>1, OneHead
<1>10. F!Hopeless(h) /\ b # "esc" => Spent(h, n + 1)
  <2>1. ASSUME b # "esc" PROVE \A i \in 2..(n + 1) : h[i] # "esc"
    <3>1. \A i \in 2..(n + 1) : i \in 2..n \/ i = n + 1
      BY <1>4
    <3> QED BY <1>4, <1>8, <2>1, <3>1
  <2>2. n + 1 \in 0..Len(h) /\ n + 1 >= 1
    BY <1>4
  <2> QED BY <1>4, <2>1, <2>2, OneHead
<1>11. F!IsQuery(h) <=> CsiForm(h) /\ F!is_csi_query(SubSeq(h, 3, n), b)
  <2>1. F!IsCsiQuery(h) <=> CsiForm(h) /\ F!is_csi_query(SubSeq(h, 3, n), b)
    BY <1>0, <1>4, CsiFormOf
  <2>2. ~F!IsStringQuery(h)
    <3> SUFFICES ASSUME NEW m \in Nat, Closed(h, m) PROVE FALSE
      BY <1>0, <1>4, StringForm
    <3>1. m >= 2 /\ F!StringQuery(h[2], SubSeq(h, 3, m))
      BY DEF Closed
    <3>2. h[2] \in F!StringKinds
      BY <3>1 DEF F!StringQuery, F!StringKinds
    <3> QED BY <1>5, <1>6, <3>2
  <2>3. h # <<"esc", "Z">>
    BY <1>5
  <2> QED BY <1>5, <2>1, <2>2, <2>3 DEF F!IsQuery
<1>12. SubSeq(h, 3, n) = F!Body(f)
  <2>1. Longer(p, h)
    <3>1. b \in F!Bytes /\ h = Append(p, b)
      BY DEF h, p
    <3> QED BY <1>2, <3>1, LongerHere
  <2>2. \A i \in Nat, k \in 0..Len(p) : SubSeq(h, i + 1, k) = SubSeq(p, i + 1, k)
    BY <2>1 DEF Longer
  <2>3. 2 \in Nat /\ 2 + 1 = 3 /\ n \in 0..Len(p)
    BY <1>4
  <2>4. SubSeq(h, 3, n) = SubSeq(p, 3, n)
    BY <2>2, <2>3
  <2> QED BY <1>4, <2>4 DEF F!Body, p
<1>13. CsiForm(h) <=> n < MaxCsi /\ b \in F!CsiFinal
  BY <1>0, <1>4, <1>5 DEF CsiForm
<1>14. /\ F!drop(f) = Record("Ground", "None", <<>>, o)
       /\ F!flush_raw(f) = Record("Ground", "None", <<>>, o \o p)
       /\ F!Push(f, b) = Record("Csi", f.kind, h, o)
  <2>1. Effects("Csi", f.kind, p, o, b)
    BY EffectsHere
  <2>2. h = Append(p, b)
    BY DEF h, p
  <2> QED BY <1>2, <2>1, <2>2, Zenon DEF Effects
<1>15. CASE n >= MaxCsi
  <2>1. F!Csi(f, b) = F!Ground(F!flush_raw(f), b)
    BY <1>15 DEF F!Csi, n
  <2>2. ~F!IsQuery(h) /\ F!Hopeless(h)
    <3>1. Len(h) >= MaxCsi /\ ~(n < MaxCsi)
      BY <1>0, <1>4, <1>15
    <3>2. F!Hopeless(h)
      BY <1>6, <3>1 DEF F!Hopeless
    <3> QED BY <1>11, <1>13, <3>1, <3>2
  <2> QED BY <1>3, <1>4, <1>9, <1>14, <2>1, <2>2, GroundGood
<1>16. CASE n < MaxCsi /\ b \in F!CsiParameter
  <2> DEFINE g == Record("Csi", f.kind, h, o)
  <2>1. F!Csi(f, b) = g
    <3>1. ~(Len(f.pending) >= MaxCsi)
      BY <1>0, <1>4, <1>16 DEF n
    <3>2. b \notin F!CsiFinal
      BY <1>7, <1>16
    <3>3. F!Csi(f, b) = F!Push(f, b)
      BY <1>16, <3>1, <3>2 DEF F!Csi
    <3> QED BY <1>14, <3>3
  <2>2. ~F!IsQuery(h)
    BY <1>7, <1>11, <1>13, <1>16
  <2>3. F!Stands(Append(s, b), h, o)
    BY <1>3, <1>4, <1>9, <2>2, Pushed
  <2>4. Holds(g, "Csi", f.kind, h, o)
    BY FilterFields
  <2>5. g \in F!Filters
    <3>1. "Csi" \in FilterStates
      BY DEF FilterStates
    <3> QED BY <1>2, <1>4, <3>1, FilterType
  <2> HIDE DEF g
  <2>6. F!Shape(g)
    <3>1. \A i \in 3..Len(h) : h[i] \in F!CsiParameter
      <4>1. \A i \in 3..(n + 1) : i \in 3..n \/ i = n + 1
        BY <1>4
      <4> QED BY <1>4, <1>5, <1>16, <4>1
    <3>2. Len(h) <= MaxCsi
      BY <1>0, <1>4, <1>16
    <3> QED BY <1>6, <2>4, <3>1, <3>2 DEF F!Shape, Holds
  <2> QED BY <2>1, <2>3, <2>4, <2>5, <2>6 DEF Sound, Holds
<1>17. CASE n < MaxCsi /\ b \in F!CsiFinal
  <2>1. F!Csi(f, b) = IF F!is_csi_query(F!Body(f), b) THEN F!drop(f) ELSE F!flush_raw(F!Push(f, b))
    <3>1. ~(Len(f.pending) >= MaxCsi)
      BY <1>0, <1>4, <1>17 DEF n
    <3>2. b \notin F!CsiParameter
      BY <1>7, <1>17
    <3> QED BY <1>17, <3>1, <3>2 DEF F!Csi
  <2>2. F!IsQuery(h) <=> F!is_csi_query(F!Body(f), b)
    BY <1>11, <1>12, <1>13, <1>17
  <2>3. F!Hopeless(h) /\ b # "esc"
    <3>1. n + 1 \in 3..Len(h) /\ h[n + 1] \notin F!CsiParameter
      BY <1>4, <1>7, <1>17
    <3> QED BY <1>6, <1>7, <1>17, <3>1 DEF F!Hopeless
  <2>4. Spent(h, Len(h))
    BY <1>4, <1>10, <2>3
  <2>5. CASE F!is_csi_query(F!Body(f), b)
    <3>1. F!Csi(f, b) = Record("Ground", "None", <<>>, o)
      BY <1>14, <2>1, <2>5
    <3>2. F!Stands(Append(s, b), <<>>, o)
      BY <1>3, <1>4, <1>9, <2>2, <2>4, <2>5, Dropped
    <3> QED BY <1>2, <3>1, <3>2, Started
  <2>6. CASE ~F!is_csi_query(F!Body(f), b)
    <3>0. Effects("Csi", f.kind, h, o, b)
      BY EffectsHere
    <3>1. F!flush_raw(Record("Csi", f.kind, h, o)) = Record("Ground", "None", <<>>, o \o h)
      BY <3>0 DEF Effects
    <3>2. F!Csi(f, b) = Record("Ground", "None", <<>>, o \o h)
      BY <1>14, <2>1, <2>6, <3>1
    <3>3. F!Stands(Append(s, b), <<>>, o \o h)
      BY <1>3, <1>4, <1>9, <2>2, <2>4, <2>6, Flushed
    <3>4. o \o h \in Seq(F!Bytes)
      BY <1>2, <1>4
    <3> QED BY <3>2, <3>3, <3>4, Started
  <2> QED BY <2>5, <2>6
<1>18. CASE n < MaxCsi /\ b \notin F!CsiParameter /\ b \notin F!CsiFinal
  <2>1. F!Csi(f, b) = F!Ground(F!flush_raw(f), b)
    <3>1. ~(Len(f.pending) >= MaxCsi)
      BY <1>0, <1>4, <1>18 DEF n
    <3> QED BY <1>18, <3>1 DEF F!Csi
  <2>2. ~F!IsQuery(h)
    BY <1>11, <1>13, <1>18
  <2>3. F!Hopeless(h)
    <3>1. n + 1 \in 3..Len(h) /\ h[n + 1] \notin F!CsiParameter
      BY <1>4, <1>18
    <3> QED BY <1>6, <3>1 DEF F!Hopeless
  <2> QED BY <1>3, <1>4, <1>9, <1>14, <2>1, <2>2, <2>3, GroundGood
<1>19. n >= MaxCsi \/ n < MaxCsi
  BY <1>0, <1>4
<1> QED
  BY <1>15, <1>16, <1>17, <1>18, <1>19

\* The first place of a sequence where a byte stands.
LEMMA FirstPlace ==
    ASSUME NEW n \in Nat, NEW s \in SUBSET (1..n), s # {}
    PROVE  F!Min(s) \in s /\ \A y \in s : F!Min(s) <= y
<1> DEFINE t == {n + 1 - x : x \in s}
<1>1. t \in SUBSET (1..n) /\ t # {}
  <2>1. ASSUME NEW x \in s PROVE n + 1 - x \in 1..n
    <3>1. x \in 1..n
      OBVIOUS
    <3> QED BY <3>1
  <2>2. PICK x \in s : TRUE
    OBVIOUS
  <2>3. n + 1 - x \in t
    OBVIOUS
  <2>4. \A y \in t : y \in 1..n
    BY <2>1
  <2> HIDE DEF t
  <2> QED BY <2>3, <2>4
<1> HIDE DEF t
<1>2. PICK m \in t : \A y \in t : m >= y
  BY <1>1, IntervalMax
<1>3. PICK x \in s : m = n + 1 - x
  BY DEF t
<1>4. \A y \in s : x <= y
  <2> SUFFICES ASSUME NEW y \in s PROVE x <= y
    OBVIOUS
  <2>1. n + 1 - y \in t
    BY DEF t
  <2>2. n + 1 - x >= n + 1 - y
    BY <1>2, <1>3, <2>1
  <2>3. x \in Nat /\ y \in Nat
    OBVIOUS
  <2> QED BY <2>2, <2>3
<1> QED
  BY <1>4 DEF F!Min

\* What the kitty parameters say, up to the first semicolon.
Kitty(t) == \E i \in 1..Len(t) : t[i] = "k" /\ \A j \in 1..i : t[j] # "sep"
LEMMA KittyOf ==
    ASSUME NEW S, NEW t \in Seq(S)
    PROVE  F!kitty_is_query(F!Upto(t, {"sep"})) <=> Kitty(t)
<1> DEFINE hits == {i \in DOMAIN t : t[i] \in {"sep"}}
           n == Len(t)
<1>1. n \in Nat /\ DOMAIN t = 1..n
  OBVIOUS
<1>2. hits = {i \in 1..n : t[i] = "sep"}
  BY <1>1
<1>3. F!Upto(t, {"sep"}) = IF hits = {} THEN t ELSE SubSeq(t, 1, F!Min(hits) - 1)
  BY DEF F!Upto
<1> HIDE DEF hits, n
<1>4. CASE hits = {}
  <2>1. F!kitty_is_query(F!Upto(t, {"sep"})) <=> \E i \in 1..n : t[i] = "k"
    BY <1>1, <1>3, <1>4 DEF F!kitty_is_query, F!Range
  <2>2. \A i \in 1..n : t[i] # "sep"
    BY <1>2, <1>4
  <2>3. ASSUME NEW i \in 1..n, NEW j \in 1..i PROVE j \in 1..n
    BY <1>1
  <2>4. Kitty(t) <=> \E i \in 1..n : t[i] = "k"
    BY <2>2, <2>3 DEF Kitty, n
  <2> QED BY <2>1, <2>4
<1>5. CASE hits # {}
  <2> DEFINE m == F!Min(hits)
             v == SubSeq(t, 1, m - 1)
  <2>1. m \in hits /\ \A y \in hits : m <= y
    <3>1. hits \in SUBSET (1..n)
      BY <1>2
    <3> HIDE DEF m
    <3>2. F!Min(hits) \in hits /\ \A y \in hits : F!Min(hits) <= y
      BY <1>1, <1>5, <3>1, FirstPlace
    <3> QED BY <3>2 DEF m
  <2> HIDE DEF m
  <2>2. m \in 1..n /\ m \in Nat /\ t[m] = "sep"
    BY <1>1, <1>2, <2>1
  <2>3. \A j \in 1..(m - 1) : j \in 1..n /\ t[j] # "sep"
    <3> SUFFICES ASSUME NEW j \in 1..(m - 1) PROVE j \in 1..n /\ t[j] # "sep"
      OBVIOUS
    <3>1. j \in 1..n /\ ~(m <= j)
      BY <1>1, <2>2
    <3> QED BY <1>2, <2>1, <3>1
  <2>4. DOMAIN v = 1..(m - 1) /\ \A j \in 1..(m - 1) : v[j] = t[j]
    <3>1. m - 1 \in Nat /\ m - 1 <= Len(t)
      BY <1>1, <2>2 DEF n
    <3>2. Len(v) = m - 1 /\ DOMAIN v = 1..(m - 1)
      BY <3>1
    <3>3. \A j \in 1..(m - 1) : v[j] = t[j]
      BY <3>1
    <3> QED BY <3>2, <3>3
  <2>5. F!kitty_is_query(F!Upto(t, {"sep"})) <=> \E i \in 1..(m - 1) : t[i] = "k"
    <3> HIDE DEF v
    <3>1. F!Upto(t, {"sep"}) = v
      BY <1>3, <1>5 DEF v, m
    <3>2. F!Range(v) = {v[j] : j \in 1..(m - 1)}
      BY <2>4 DEF F!Range
    <3> QED BY <2>4, <3>1, <3>2 DEF F!kitty_is_query
  <2>6. ASSUME NEW i \in 1..(m - 1), t[i] = "k" PROVE Kitty(t)
    <3>1. \A j \in 1..i : j \in 1..(m - 1)
      BY <2>2
    <3> QED BY <2>3, <2>6, <3>1 DEF Kitty, n
  <2>7. ASSUME NEW i \in 1..n, t[i] = "k", \A j \in 1..i : t[j] # "sep" PROVE i \in 1..(m - 1)
    <3>1. m \notin 1..i
      BY <2>2, <2>7
    <3> QED BY <1>1, <2>2, <3>1
  <2> QED BY <2>5, <2>6, <2>7 DEF Kitty, n
<1> QED
  BY <1>4, <1>5

\* The kitty parameters are the body without its first byte, a G.
LEMMA KittyBody ==
    ASSUME NEW S, NEW body \in Seq(S), NEW h, NEW n \in Nat, n >= 3, BodyOf(h, n, body),
           h[3] = "G"
    PROVE  /\ Tail(body) \in Seq(S)
           /\ Kitty(Tail(body)) <=> \E i \in 3..n : h[i] = "k" /\ \A j \in 3..i : h[j] # "sep"
<1> DEFINE t == Tail(body)
<1>1. /\ Len(body) = n - 2 /\ body # <<>>
      /\ \A i \in 3..n : i - 2 \in 1..(n - 2) /\ body[i - 2] = h[i]
  BY DEF BodyOf
<1>2. t \in Seq(S) /\ Len(t) = n - 3 /\ \A i \in 1..(n - 3) : t[i] = body[i + 1]
  BY <1>1, HeadTailProperties
<1> HIDE DEF t
<1>3. \A i \in 4..n : i - 3 \in 1..(n - 3) /\ t[i - 3] = h[i]
  <2> SUFFICES ASSUME NEW i \in 4..n PROVE i - 3 \in 1..(n - 3) /\ t[i - 3] = h[i]
    OBVIOUS
  <2>1. i - 3 \in 1..(n - 3) /\ (i - 3) + 1 = i - 2 /\ i \in 3..n
    OBVIOUS
  <2> QED BY <1>1, <1>2, <2>1
<1>4. ASSUME NEW i \in 1..(n - 3), t[i] = "k", \A j \in 1..i : t[j] # "sep"
      PROVE  \E m \in 3..n : h[m] = "k" /\ \A j \in 3..m : h[j] # "sep"
  <2>1. i + 3 \in 4..n /\ i + 3 \in 3..n /\ (i + 3) - 3 = i
    OBVIOUS
  <2>2. h[i + 3] = "k"
    BY <1>3, <1>4, <2>1
  <2>3. ASSUME NEW j \in 3..(i + 3) PROVE h[j] # "sep"
    <3>1. CASE j = 3
      BY <3>1
    <3>2. CASE j # 3
      <4>1. j \in 4..n /\ j - 3 \in 1..i
        BY <3>2
      <4> QED BY <1>3, <1>4, <4>1
    <3> QED BY <3>1, <3>2
  <2> QED BY <2>1, <2>2, <2>3
<1>5. ASSUME NEW i \in 3..n, h[i] = "k", \A j \in 3..i : h[j] # "sep"
      PROVE  \E m \in 1..(n - 3) : t[m] = "k" /\ \A j \in 1..m : t[j] # "sep"
  <2>1. i # 3
    BY <1>5
  <2>2. i \in 4..n /\ i - 3 \in 1..(n - 3)
    BY <2>1
  <2>3. t[i - 3] = "k"
    BY <1>3, <1>5, <2>2
  <2>4. ASSUME NEW j \in 1..(i - 3) PROVE t[j] # "sep"
    <3>1. j + 3 \in 4..n /\ j + 3 \in 3..i /\ (j + 3) - 3 = j
      BY <2>2
    <3> QED BY <1>3, <1>5, <3>1
  <2> QED BY <2>2, <2>3, <2>4
<1>6. Kitty(t) <=> \E i \in 3..n : h[i] = "k" /\ \A j \in 3..i : h[j] # "sep"
  BY <1>2, <1>4, <1>5 DEF Kitty
<1> QED
  BY <1>2, <1>6 DEF t

\* How a string ends whose introducer and body are the first n bytes.
Terminated(h, n) ==
    /\ n >= 2
    /\ \/ n = Len(h) - 1 /\ h[Len(h)] = "bel"
       \/ n = Len(h) - 2 /\ h[Len(h) - 1] = "esc" /\ h[Len(h)] = "\\"

LEMMA StripOf ==
    ASSUME NEW S, NEW h \in Seq(S), NEW n \in Nat, Terminated(h, n)
    PROVE  F!strip_terminator(SubSeq(h, 3, Len(h))) = SubSeq(h, 3, n)
<1> DEFINE body == SubSeq(h, 3, Len(h))
           m == Len(h)
<1>1. m \in Nat /\ m >= 3
  BY DEF Terminated
<1> HIDE DEF m
<1>2. PartBytes(S, h, 3, m, SubSeq(h, 3, m))
  <2>1. 3 \in Nat /\ 3 >= 1 /\ m <= Len(h) /\ 3 <= m + 1
    BY <1>1 DEF m
  <2> QED BY <1>1, <2>1, PartHere
<1>3. body \in Seq(S) /\ Len(body) = m - 2
  <2>1. m - 3 + 1 = m - 2
    BY <1>1
  <2> QED BY <1>2, <2>1 DEF PartBytes, m
<1>4. \A i \in 1..(m - 2) : body[i] = h[i + 2]
  <2> SUFFICES ASSUME NEW i \in 1..(m - 2) PROVE body[i] = h[i + 2]
    OBVIOUS
  <2>1. i \in 1..(m - 3 + 1) /\ 3 + i - 1 = i + 2
    BY <1>1
  <2>2. body[i] = h[3 + i - 1]
    BY <1>2, <2>1 DEF PartBytes, m
  <2> QED BY <2>1, <2>2
<1>5. \A j \in Nat : j <= m - 2 => SubSeq(body, 1, j) = SubSeq(h, 3, j + 2)
  <2>0. SUFFICES ASSUME NEW j \in Nat, j <= m - 2 PROVE SubSeq(body, 1, j) = SubSeq(h, 3, j + 2)
    OBVIOUS
  <2>1. 3 \in Nat /\ 3 >= 1 /\ m <= Len(h) /\ 1 >= 1 /\ 3 + j <= m + 1 /\ 1 \in Nat
    BY <1>1, <2>0 DEF m
  <2>2. PartOfPart(h, 3, m, 1, j)
    BY <1>1, <2>1, Inner
  <2>3. 3 + 1 - 1 = 3 /\ 3 + j - 1 = j + 2
    OBVIOUS
  <2> QED BY <2>2, <2>3 DEF PartOfPart, m
<1> HIDE DEF body
<1>6. F!IsSuffix(<<"esc", "\\">>, body) <=>
         m - 2 >= 2 /\ body[m - 2 - 1] = "esc" /\ body[m - 2] = "\\"
  BY <1>3, Lasts DEF TwoLast
<1>7. CASE n = m - 1 /\ h[m] = "bel"
  <2>1. m - 2 \in 1..(m - 2) /\ (m - 2) + 2 = m /\ m - 2 - 1 \in Nat /\ m - 2 - 1 <= m - 2
        /\ m - 2 - 1 + 2 = n
    BY <1>1, <1>7
  <2>2. body[m - 2] = "bel"
    BY <1>4, <1>7, <2>1
  <2>3. F!strip_terminator(body) = SubSeq(body, 1, m - 2 - 1)
    BY <1>3, <1>6, <2>2 DEF F!strip_terminator
  <2>4. SubSeq(body, 1, m - 2 - 1) = SubSeq(h, 3, m - 2 - 1 + 2)
    BY <1>5, <2>1
  <2> QED BY <2>1, <2>3, <2>4 DEF body, m
<1>8. CASE n = m - 2 /\ h[m - 1] = "esc" /\ h[m] = "\\"
  <2>0. n >= 2
    BY DEF Terminated
  <2>1. m - 2 \in 1..(m - 2) /\ (m - 2) + 2 = m /\ m - 2 - 1 \in 1..(m - 2) /\ m - 2 - 1 + 2 = m - 1
        /\ m - 2 >= 2 /\ m - 2 - 2 \in Nat /\ m - 2 - 2 <= m - 2 /\ m - 2 - 2 + 2 = n
    BY <1>1, <1>8, <2>0
  <2>2. body[m - 2] = "\\" /\ body[m - 2 - 1] = "esc"
    BY <1>4, <1>8, <2>1
  <2>3. F!strip_terminator(body) = SubSeq(body, 1, m - 2 - 2)
    BY <1>3, <1>6, <2>1, <2>2 DEF F!strip_terminator
  <2>4. SubSeq(body, 1, m - 2 - 2) = SubSeq(h, 3, m - 2 - 2 + 2)
    BY <1>5, <2>1
  <2> QED BY <2>1, <2>3, <2>4 DEF body, m
<1> QED
  BY <1>7, <1>8 DEF Terminated, m

\* What end_string asks of a body.
Answers(kind, body) ==
    CASE kind = "]" -> body = <<"?">> \/ F!IsSuffix(<<"sep", "?">>, body)
      [] kind = "P" -> F!IsPrefix(<<"$", "q">>, body)
      [] kind = "apc" -> /\ F!IsPrefix(<<"G">>, body)
                         /\ F!kitty_is_query(F!Upto(Tail(body), {"sep"}))

LEMMA AnswersAsks ==
    ASSUME NEW S, NEW h, NEW n \in Nat, n >= 2, NEW body \in Seq(S), BodyOf(h, n, body),
           NEW kind \in F!StringKinds
    PROVE  Answers(kind, body) <=> Asks(h, n, kind)
<1>1. Len(body) = n - 2
  BY DEF BodyOf
<1>2. \A i \in 3..n : i - 2 \in 1..(n - 2) /\ body[i - 2] = h[i]
  BY DEF BodyOf
<1>3. n >= 3 => body[1] = h[3]
  <2>1. n >= 3 => 3 \in 3..n /\ 3 - 2 = 1
    OBVIOUS
  <2> QED BY <1>2, <2>1
<1>4. n >= 4 => body[2] = h[4]
  <2>1. n >= 4 => 4 \in 3..n /\ 4 - 2 = 2
    OBVIOUS
  <2> QED BY <1>2, <2>1
<1>5. CASE kind = "]"
  <2>1. Answers(kind, body) <=> body = <<"?">> \/ F!IsSuffix(<<"sep", "?">>, body)
    BY <1>5 DEF Answers
  <2>2. Asks(h, n, kind) <=> n >= 3 /\ h[n] = "?" /\ (n = 3 \/ h[n - 1] = "sep")
    BY <1>5 DEF Asks, F!StringKinds
  <2>3. body = <<"?">> <=> n = 3 /\ body[1] = "?"
    <3> DEFINE r == <<"?">>
    <3>1. r \in Seq({"?"}) /\ Len(r) = 1 /\ r[1] = "?"
      OBVIOUS
    <3>2. ASSUME n = 3, body[1] = "?" PROVE body = r
      <4>1. n - 2 = 1
        BY <3>2
      <4>2. Len(body) = 1
        BY <1>1, <4>1
      <4>3. r \in Seq({"?"} \cup S) /\ body \in Seq({"?"} \cup S)
        OBVIOUS
      <4> HIDE DEF r
      <4>4. \A i \in 1..Len(r) : body[i] = r[i]
        BY <3>1, <3>2
      <4> QED BY <3>1, <4>2, <4>3, <4>4, SeqEqual
    <3> HIDE DEF r
    <3>3. body = r => n = 3 /\ body[1] = "?"
      <4>1. SUFFICES ASSUME body = r PROVE n = 3 /\ body[1] = "?"
        OBVIOUS
      <4>2. n - 2 = 1 /\ body[1] = "?"
        BY <1>1, <3>1, <4>1
      <4> QED BY <4>2
    <3>4. body = r <=> n = 3 /\ body[1] = "?"
      BY <3>2, <3>3
    <3> QED BY <3>4 DEF r
  <2>4. F!IsSuffix(<<"sep", "?">>, body) <=>
           n - 2 >= 2 /\ body[n - 2 - 1] = "sep" /\ body[n - 2] = "?"
    BY <1>1, Lasts DEF TwoLast
  <2>5. n >= 4 => body[n - 2 - 1] = h[n - 1] /\ body[n - 2] = h[n]
    <3>1. n >= 4 => n - 1 \in 3..n /\ n - 1 - 2 = n - 2 - 1 /\ n \in 3..n
      OBVIOUS
    <3> QED BY <1>2, <3>1
  <2>6. CASE n = 2
    BY <2>1, <2>2, <2>3, <2>4, <2>6
  <2>7. CASE n = 3
    <3>1. body[1] = h[n] /\ ~(n - 2 >= 2) /\ n >= 3
      BY <1>3, <2>7
    <3> QED BY <2>1, <2>2, <2>3, <2>4, <2>7, <3>1
  <2>8. CASE n >= 4
    <3>1. n - 2 >= 2 /\ n # 3 /\ n >= 3
      BY <2>8
    <3>2. body[n - 2 - 1] = h[n - 1] /\ body[n - 2] = h[n]
      BY <2>5, <2>8
    <3> QED BY <2>1, <2>2, <2>3, <2>4, <3>1, <3>2
  <2>9. n = 2 \/ n = 3 \/ n >= 4
    OBVIOUS
  <2> QED BY <2>6, <2>7, <2>8, <2>9
<1>6. CASE kind = "P"
  <2>1. Answers(kind, body) <=> F!IsPrefix(<<"$", "q">>, body)
    BY <1>6 DEF Answers
  <2>2. Asks(h, n, kind) <=> n >= 4 /\ h[3] = "$" /\ h[4] = "q"
    BY <1>6 DEF Asks, F!StringKinds
  <2>3. F!IsPrefix(<<"$", "q">>, body) <=> n - 2 >= 2 /\ body[1] = "$" /\ body[2] = "q"
    BY <1>1, Firsts DEF TwoFirst
  <2>4. n - 2 >= 2 <=> n >= 4
    OBVIOUS
  <2>5. n >= 4 => n >= 3
    OBVIOUS
  <2> QED BY <1>3, <1>4, <2>1, <2>2, <2>3, <2>4, <2>5
<1>7. CASE kind = "apc"
  <2> DEFINE V == \E i \in 3..n : h[i] = "k" /\ \A j \in 3..i : h[j] # "sep"
  <2>1. Answers(kind, body) <=>
           F!IsPrefix(<<"G">>, body) /\ F!kitty_is_query(F!Upto(Tail(body), {"sep"}))
    BY <1>7 DEF Answers
  <2>2. Asks(h, n, kind) <=> n >= 3 /\ h[3] = "G" /\ V
    BY <1>7 DEF Asks, F!StringKinds
  <2>3. F!IsPrefix(<<"G">>, body) <=> n - 2 >= 1 /\ body[1] = "G"
    BY <1>1, Firsts DEF OneFirst
  <2>4. n - 2 >= 1 <=> n >= 3
    OBVIOUS
  <2>5. ASSUME n >= 3, h[3] = "G" PROVE F!kitty_is_query(F!Upto(Tail(body), {"sep"})) <=> V
    <3>1. Tail(body) \in Seq(S) /\ (Kitty(Tail(body)) <=> V)
      BY <2>5, KittyBody
    <3> QED BY <3>1, KittyOf
  <2> HIDE DEF V
  <2> QED BY <1>3, <2>1, <2>2, <2>3, <2>4, <2>5
<1> QED
  BY <1>5, <1>6, <1>7 DEF F!StringKinds

\* What cannot become a query is hopeless.
LEMMA MayBe ==
    ASSUME NEW S, NEW h \in Seq(S), F!Begun(h, F!StringKinds), NEW f,
           f.pending = h, f.kind = h[2], ~F!string_may_be_query(f)
    PROVE  F!Hopeless(h)
<1> DEFINE n == Len(h)
           body == SubSeq(h, 3, n)
<1>1. n \in Nat /\ n >= 2 /\ n \in 2..Len(h)
  BY DEF F!Begun
<1>2. BodyOf(h, n, body)
  <2> HIDE DEF n
  <2> QED BY <1>1, BodyHere
<1>3. body \in Seq(S) /\ F!Body(f) = body
  BY DEF F!Body
<1> HIDE DEF body, n
<1>4. /\ body = <<>> <=> n = 2
      /\ Len(body) = n - 2 /\ DOMAIN body = 1..(n - 2)
  BY <1>2 DEF BodyOf
<1>0. \A i \in 3..n : i - 2 \in 1..(n - 2) /\ body[i - 2] = h[i]
  BY <1>2 DEF BodyOf
<1>5. CASE h[2] = "P"
  <2>1. ~(Len(body) < 2) /\ ~F!IsPrefix(<<"$", "q">>, body)
    BY <1>3, <1>5 DEF F!string_may_be_query
  <2>2. n >= 4
    BY <1>1, <1>4, <2>1
  <2>3. 3 \in 3..n /\ 4 \in 3..n /\ 3 - 2 = 1 /\ 4 - 2 = 2
    BY <1>1, <2>2
  <2>4. body[1] = h[3] /\ body[2] = h[4]
    BY <1>0, <2>3
  <2>5. F!IsPrefix(<<"$", "q">>, body) <=> Len(body) >= 2 /\ body[1] = "$" /\ body[2] = "q"
    BY <1>3, Firsts DEF TwoFirst
  <2>6. Len(body) >= 2
    BY <1>1, <1>4, <2>2
  <2> QED BY <1>5, <2>1, <2>2, <2>4, <2>5, <2>6 DEF F!Hopeless, n
<1>6. CASE h[2] = "apc"
  <2>1. body # <<>>
    BY <1>3, <1>6 DEF F!string_may_be_query
  <2>2. n >= 3
    BY <1>1, <1>4, <2>1
  <2>3. 3 \in 3..n /\ 3 - 2 = 1
    BY <1>1, <2>2
  <2>4. body[1] = h[3]
    BY <1>0, <2>3
  <2>5. CASE h[3] # "G"
    BY <1>6, <2>2, <2>5 DEF F!Hopeless, n
  <2>6. CASE h[3] = "G"
    <3> DEFINE hits == {i \in 3..n : h[i] = "sep"}
    <3>1. "sep" \in F!Range(body) /\ ~F!kitty_is_query(F!Upto(Tail(body), {"sep"}))
      BY <1>3, <1>6, <2>1, <2>4, <2>6 DEF F!string_may_be_query
    <3>2. PICK j \in 1..(n - 2) : body[j] = "sep"
      BY <1>4, <3>1 DEF F!Range
    <3>3. j + 2 \in 3..n /\ (j + 2) - 2 = j
      BY <1>1
    <3>4. j + 2 \in hits
      BY <1>0, <3>2, <3>3
    <3>5. hits \in SUBSET (1..n)
      <4>1. \A i \in 3..n : i \in 1..n
        BY <1>1
      <4> QED BY <4>1
    <3>6. PICK i \in hits : \A y \in hits : i <= y
      <4> HIDE DEF hits
      <4>1. hits # {}
        BY <3>4
      <4>2. F!Min(hits) \in hits /\ \A y \in hits : F!Min(hits) <= y
        BY <1>1, <3>5, <4>1, FirstPlace
      <4> QED BY <4>2
    <3>7. i \in 3..n /\ h[i] = "sep"
      OBVIOUS
    <3>8. ~Kitty(Tail(body)) /\ (Kitty(Tail(body)) <=>
             \E x \in 3..n : h[x] = "k" /\ \A y \in 3..x : h[y] # "sep")
      <4>1. Tail(body) \in Seq(S) /\ (Kitty(Tail(body)) <=>
               \E x \in 3..n : h[x] = "k" /\ \A y \in 3..x : h[y] # "sep")
        BY <1>1, <1>2, <1>3, <2>2, <2>6, KittyBody
      <4>2. F!kitty_is_query(F!Upto(Tail(body), {"sep"})) <=> Kitty(Tail(body))
        BY <4>1, KittyOf
      <4> QED BY <3>1, <4>1, <4>2
    <3>9. ASSUME NEW x \in 3..i, h[x] = "k" PROVE FALSE
      <4>1. x \in 3..n
        BY <1>1, <3>7
      <4>2. PICK y \in 3..x : h[y] = "sep"
        BY <3>8, <3>9, <4>1
      <4>3. y \in 3..n
        BY <1>1, <4>1
      <4>4. y \in hits
        BY <4>2, <4>3
      <4>5. i <= y
        BY <3>6, <4>4
      <4>6. x = i
        BY <1>1, <3>7, <4>1, <4>3, <4>5
      <4> QED BY <3>7, <3>9, <4>6
    <3> QED BY <1>6, <3>7, <3>9 DEF F!Hopeless, n
  <2> QED BY <2>5, <2>6
<1>7. CASE h[2] = "]"
  BY <1>7 DEF F!string_may_be_query
<1>8. h[2] \in {"]", "P", "apc"}
  BY DEF F!Begun, F!StringKinds
<1> QED
  BY <1>5, <1>6, <1>7, <1>8

\* A string query that ends here.
LEMMA EndIsQuery ==
    ASSUME MaxString \in Nat, MaxCsi \in Nat, NEW S, NEW h \in Seq(S), NEW n \in Nat,
           Terminated(h, n), n <= MaxString, F!Begun(h, F!StringKinds),
           \A i \in 3..n : h[i] \notin {"esc", "bel"}
    PROVE  /\ F!IsQuery(h) <=> Asks(h, n, h[2])
           /\ F!Hopeless(h)
<1>1. Len(h) \in Nat /\ Len(h) >= 3 /\ n >= 2 /\ n \in 2..MaxString /\ n \in 2..Len(h)
  BY DEF Terminated
<1>2. h[1] = "esc" /\ h[2] \in F!StringKinds /\ h[2] # "["
  BY DEF F!Begun, F!StringKinds
<1>3. ~F!IsCsiQuery(h)
  BY <1>2, CsiFormOf DEF CsiForm
<1>4. h # <<"esc", "Z">>
  <2>1. SUFFICES ASSUME h = <<"esc", "Z">> PROVE FALSE
    OBVIOUS
  <2>2. Len(h) = 2
    <3>1. Len(<<"esc", "Z">>) = 2
      OBVIOUS
    <3> QED BY <2>1, <3>1, Zenon
  <2> QED BY <1>1, <2>2
<1>5. F!IsQuery(h) <=> \E m \in Nat : Closed(h, m)
  BY <1>2, <1>3, <1>4, StringForm DEF F!IsQuery
<1>6. Closed(h, n) <=> Asks(h, n, h[2])
  <2>1. BodyOf(h, n, SubSeq(h, 3, n))
    BY <1>1, BodyHere
  <2>2. F!StringQuery(h[2], SubSeq(h, 3, n)) <=> Asks(h, n, h[2])
    BY <1>1, <2>1, StringQueryOf
  <2> QED BY <1>1, <2>2 DEF Closed, Terminated
<1>7. ASSUME NEW m \in Nat, Closed(h, m) PROVE m = n
  <2>1. \/ m = Len(h) - 1 /\ h[Len(h)] = "bel"
        \/ m = Len(h) - 2 /\ h[Len(h)] = "\\"
    BY <1>7 DEF Closed
  <2>2. \/ n = Len(h) - 1 /\ h[Len(h)] = "bel"
        \/ n = Len(h) - 2 /\ h[Len(h)] = "\\"
    BY DEF Terminated
  <2> QED BY <2>1, <2>2
<1>8. F!Hopeless(h)
  <2>1. CASE h[Len(h)] = "bel"
    <3>1. Len(h) \in 3..Len(h)
      BY <1>1
    <3> QED BY <2>1, <3>1 DEF F!Hopeless
  <2>2. CASE n = Len(h) - 2 /\ h[Len(h) - 1] = "esc"
    <3>1. Len(h) - 1 \in 3..Len(h) /\ Len(h) - 1 < Len(h)
      BY <1>1, <2>2
    <3> QED BY <2>2, <3>1 DEF F!Hopeless
  <2> QED BY <2>1, <2>2 DEF Terminated
<1> QED
  BY <1>5, <1>6, <1>7, <1>8

\* Where nothing else may begin in a string that ends.
LEMMA EndElsewhere ==
    ASSUME MaxString \in Nat, MaxCsi \in Nat, NEW S, NEW h \in Seq(S), NEW n \in Nat,
           Terminated(h, n), F!Begun(h, F!StringKinds),
           \A i \in 3..n : h[i] \notin {"esc", "bel"}
    PROVE  /\ \A i \in 2..Len(h) : F!Hopeless(Rest(h, i)) /\ ~F!IsQuery(Rest(h, i))
           /\ Rest(h, 1) = h
<1>1. Len(h) \in Nat /\ Len(h) >= 3 /\ n >= 2 /\ n <= Len(h)
  BY DEF Terminated
<1>2. h[2] # "esc"
  BY DEF F!Begun, F!StringKinds
<1>3. \A i \in 2..n : h[i] # "esc"
  <2>1. \A i \in 2..n : i = 2 \/ i \in 3..n
    OBVIOUS
  <2> QED BY <1>2, <2>1
<1>4. ASSUME NEW i \in 2..Len(h), h[i] # "esc"
      PROVE  F!Hopeless(Rest(h, i)) /\ ~F!IsQuery(Rest(h, i))
  <2>1. i \in 1..Len(h)
    OBVIOUS
  <2> QED BY <1>4, <2>1, Headless
<1>5. CASE n = Len(h) - 1 /\ h[Len(h)] = "bel"
  <2>1. \A i \in 2..Len(h) : i \in 2..n \/ i = Len(h)
    BY <1>1, <1>5
  <2>2. \A i \in 2..Len(h) : h[i] # "esc"
    BY <1>3, <1>5, <2>1
  <2> QED BY <1>4, <2>2, SubSeqFull DEF Rest
<1>6. CASE n = Len(h) - 2 /\ h[Len(h) - 1] = "esc" /\ h[Len(h)] = "\\"
  <2> DEFINE m == Len(h) - 1
             w == Rest(h, m)
  <2>1. m \in Nat /\ m >= 1 /\ Len(h) <= Len(h) /\ m <= Len(h) + 1 /\ Len(h) - m + 1 = 2
        /\ m + 1 - 1 = m /\ m + 2 - 1 = Len(h)
    BY <1>1
  <2>2. PartBytes(S, h, m, Len(h), w)
    <3> HIDE DEF m
    <3> QED BY <1>1, <2>1, PartHere DEF Rest
  <2> HIDE DEF m, w
  <2>3. w \in Seq(S) /\ Len(w) = 2
    BY <2>1, <2>2 DEF PartBytes
  <2>4. w[1] = h[m] /\ w[2] = h[Len(h)]
    <3>1. 1 \in 1..(Len(h) - m + 1) /\ 2 \in 1..(Len(h) - m + 1)
      BY <2>1
    <3>2. w[1] = h[m + 1 - 1] /\ w[2] = h[m + 2 - 1]
      BY <2>2, <3>1 DEF PartBytes
    <3> QED BY <2>1, <3>2
  <2>5. w[1] = "esc" /\ w[2] = "\\"
    BY <1>6, <2>4 DEF m
  <2>6. F!Hopeless(w) /\ ~F!IsQuery(w)
    <3>1. "\\" \notin {"["} \cup F!StringKinds /\ "\\" # "Z"
      BY DEF F!StringKinds
    <3> QED BY <2>3, <2>5, <3>1, TwoBytes
  <2>7. \A i \in 2..Len(h) : i \in 2..n \/ i = m \/ i = Len(h)
    BY <1>1, <1>6 DEF m
  <2>8. ASSUME NEW i \in 2..Len(h) PROVE F!Hopeless(Rest(h, i)) /\ ~F!IsQuery(Rest(h, i))
    <3>1. CASE i = m
      BY <2>6, <3>1 DEF w
    <3>2. CASE i # m
      <4>1. h[i] # "esc"
        BY <1>3, <1>6, <2>7, <3>2
      <4> QED BY <1>4, <4>1
    <3> QED BY <3>1, <3>2
  <2> QED BY <2>8, SubSeqFull DEF Rest
<1> QED
  BY <1>5, <1>6 DEF Terminated

\* A string that ends is taken out when it is a query, and let through when not.
LEMMA StringEnds ==
    ASSUME F!QueryFilterAssumption,
           NEW s, NEW b, NEW pending, NEW out, NEW h, Steady(s, b, pending, out, h),
           NEW n \in Nat, Terminated(h, n), n <= MaxString, F!Begun(h, F!StringKinds),
           \A i \in 3..n : h[i] \notin {"esc", "bel"},
           NEW st, NEW f, f = Record(st, h[2], h, out)
    PROVE  Sound(Append(s, b), F!end_string(f))
<1>0. MaxCsi \in Nat /\ MaxString \in Nat
  BY DEF F!QueryFilterAssumption
<1>1. h \in Seq(F!Bytes) /\ Len(h) = Len(pending) + 1 /\ Len(pending) \in Nat
  BY Sizes
<1>2. /\ F!IsQuery(h) <=> Asks(h, n, h[2])
      /\ F!Hopeless(h)
  BY <1>0, <1>1, EndIsQuery
<1>3. /\ \A i \in 2..Len(h) : F!Hopeless(Rest(h, i)) /\ ~F!IsQuery(Rest(h, i))
      /\ Rest(h, 1) = h
  BY <1>0, <1>1, EndElsewhere
<1>4. Spent(h, Len(h))
  <2>1. \A i \in 1..Len(h) : i = 1 \/ i \in 2..Len(h)
    BY <1>1
  <2> QED BY <1>2, <1>3, <2>1 DEF Spent
<1>5. \A i \in 2..Len(pending) : ~F!IsQuery(Rest(h, i))
  <2>1. \A i \in 2..Len(pending) : i \in 2..Len(h)
    BY <1>1
  <2> QED BY <1>3, <2>1
<1>6. ~F!IsQuery(h) => Quiet(h, Len(pending))
  <2>1. \A i \in 1..Len(pending) : i = 1 \/ i \in 2..Len(pending)
    BY <1>1
  <2> QED BY <1>3, <1>5, <2>1 DEF Quiet
<1>7. pending # <<>>
  <2>1. Len(h) >= 3
    BY <1>1 DEF Terminated
  <2>2. Len(pending) # 0
    BY <1>1, <2>1
  <2> QED BY <2>2
<1>8. Holds(f, st, h[2], h, out)
  BY FilterFields
<1>9. Effects(st, h[2], h, out, b)
  BY EffectsHere
<1>10. /\ F!drop(f) = Record("Ground", "None", <<>>, out)
       /\ F!flush_raw(f) = Record("Ground", "None", <<>>, out \o h)
  BY <1>9 DEF Effects
<1>11. F!end_string(f) = IF Asks(h, n, h[2]) THEN F!drop(f) ELSE F!flush_raw(f)
  <2> DEFINE body == SubSeq(h, 3, n)
  <2>1. F!strip_terminator(F!Body(f)) = body
    <3>1. F!strip_terminator(SubSeq(h, 3, Len(h))) = SubSeq(h, 3, n)
      BY <1>1, StripOf
    <3> QED BY <1>8, <3>1 DEF F!Body, Holds
  <2>2. n \in 2..Len(h)
    BY <1>1 DEF Terminated
  <2>3. BodyOf(h, n, body) /\ body \in Seq(F!Bytes) /\ n >= 2
    <3>1. body \in Seq(F!Bytes) /\ n >= 2
      BY <1>1, <2>2
    <3>2. BodyOf(h, n, body)
      BY <1>1, <2>2, BodyHere
    <3> QED BY <3>1, <3>2
  <2>4. h[2] \in F!StringKinds
    BY DEF F!Begun
  <2> HIDE DEF body
  <2>5. Answers(h[2], body) <=> Asks(h, n, h[2])
    BY <2>3, <2>4, AnswersAsks
  <2>6. F!end_string(f) = IF Answers(h[2], body) THEN F!drop(f) ELSE F!flush_raw(f)
    BY <1>8, <2>1 DEF F!end_string, Answers, Holds
  <2> QED BY <2>5, <2>6
<1>12. out \in Seq(F!Bytes) /\ out \o h \in Seq(F!Bytes)
  <2>1. out \in Seq(F!Bytes)
    BY DEF Steady
  <2> QED BY <1>1, <2>1
<1>13. CASE Asks(h, n, h[2])
  <2>1. F!end_string(f) = Record("Ground", "None", <<>>, out)
    BY <1>10, <1>11, <1>13
  <2>2. F!Stands(Append(s, b), <<>>, out)
    BY <1>2, <1>4, <1>5, <1>7, <1>13, Dropped
  <2> QED BY <1>12, <2>1, <2>2, Started
<1>14. CASE ~Asks(h, n, h[2])
  <2>1. F!end_string(f) = Record("Ground", "None", <<>>, out \o h)
    BY <1>10, <1>11, <1>14
  <2>2. F!Stands(Append(s, b), <<>>, out \o h)
    BY <1>2, <1>4, <1>6, <1>14, Flushed
  <2> QED BY <1>12, <2>1, <2>2, Started
<1> QED
  BY <1>13, <1>14

\* The bytes of an open string, and one more.
Opened(p, b, h, n) ==
    /\ n \in Nat /\ n >= 2 /\ n <= MaxString /\ Len(p) = n /\ Len(h) = n + 1
    /\ h \in Seq(F!Bytes) /\ h = Append(p, b) /\ h[n + 1] = b
    /\ F!Begun(h, F!StringKinds) /\ h[2] = p[2]
    /\ \A i \in 3..n : h[i] \notin {"esc", "bel"}
    /\ \A i \in 2..n : h[i] # "esc"

LEMMA OpenedHere ==
    ASSUME F!QueryFilterAssumption, NEW p \in Seq(F!Bytes), F!OpenString(p), NEW b \in F!Bytes,
           NEW h, h = Append(p, b)
    PROVE  Opened(p, b, h, Len(p))
<1> DEFINE n == Len(p)
<1>1. n \in Nat /\ n >= 2 /\ n <= MaxString /\ p[1] = "esc" /\ p[2] \in F!StringKinds
  BY DEF F!OpenString, F!Begun
<1>2. Len(h) = n + 1 /\ h \in Seq(F!Bytes) /\ h[n + 1] = b /\ \A i \in 1..n : h[i] = p[i]
  OBVIOUS
<1> HIDE DEF n
<1>3. 1 \in 1..n /\ 2 \in 1..n /\ Len(h) >= 2 /\ \A i \in 3..n : i \in 1..n
  BY <1>1, <1>2
<1>4. F!Begun(h, F!StringKinds) /\ h[2] = p[2]
  BY <1>1, <1>2, <1>3 DEF F!Begun
<1>5. \A i \in 3..n : p[i] \notin {"esc", "bel"}
  BY DEF F!OpenString, n
<1>6. \A i \in 3..n : h[i] \notin {"esc", "bel"}
  BY <1>2, <1>3, <1>5
<1>7. \A i \in 2..n : h[i] # "esc"
  <2>1. \A i \in 2..n : i = 2 \/ i \in 3..n
    BY <1>1
  <2>2. h[2] # "esc"
    BY <1>4 DEF F!Begun, F!StringKinds
  <2> QED BY <1>6, <2>1, <2>2
<1>8. n = Len(p)
  BY DEF n
<1> QED
  BY <1>1, <1>2, <1>4, <1>6, <1>7, <1>8 DEF Opened

\* An open string is no query yet.
LEMMA OpenNoQuery ==
    ASSUME MaxString \in Nat, MaxCsi \in Nat, NEW h \in Seq(F!Bytes), F!Begun(h, F!StringKinds),
           Len(h) >= 3, h[Len(h)] # "bel",
           h[Len(h)] = "\\" => h[Len(h) - 1] # "esc"
    PROVE  ~F!IsQuery(h)
<1>1. ~F!IsCsiQuery(h)
  BY CsiFormOf DEF CsiForm, F!Begun, F!StringKinds
<1>2. ~F!IsStringQuery(h)
  BY StringForm DEF Closed
<1>3. h # <<"esc", "Z">>
  <2>1. Len(<<"esc", "Z">>) = 2
    OBVIOUS
  <2> QED BY <2>1
<1> QED
  BY <1>1, <1>2, <1>3 DEF F!IsQuery

\* What StringBody makes of a byte.
LEMMA StringBodyStep ==
    ASSUME F!QueryFilterAssumption, NEW s \in Seq(F!Bytes), NEW b \in F!Bytes,
           NEW f, Sound(s, f),
           f.state = "StringBody"
    PROVE  Sound(Append(s, b), F!StringBody(f, b))
<1> DEFINE h == Append(f.pending, b)
           p == f.pending
           o == f.out
           n == Len(f.pending)
           kd == f.kind
           g == Record("StringBody", kd, h, o)
<1>0. MaxCsi \in Nat /\ MaxString \in Nat /\ MaxCsi >= 2 /\ MaxString >= 2
  BY DEF F!QueryFilterAssumption
<1>1. f \in F!Filters /\ F!OpenString(p) /\ kd = p[2]
  BY DEF Sound, F!Shape
<1>2. f = Record("StringBody", kd, p, o) /\ o \in Seq(F!Bytes) /\ p \in Seq(F!Bytes) /\ kd \in Kinds
  BY <1>1, FilterWhole
<1>3. Steady(s, b, p, o, h)
  BY FoundSteady
<1>4. h = Append(p, b) /\ n = Len(p)
  OBVIOUS
<1> HIDE DEF h, p, o, n, kd
<1>5. Opened(p, b, h, n)
  BY <1>1, <1>2, <1>4, OpenedHere
<1>6. /\ n \in Nat /\ n >= 2 /\ n <= MaxString /\ Len(p) = n /\ Len(h) = n + 1
      /\ h \in Seq(F!Bytes) /\ h[n + 1] = b
      /\ F!Begun(h, F!StringKinds) /\ h[2] = kd
  BY <1>1, <1>5 DEF Opened
<1>7. /\ \A i \in 3..n : h[i] \notin {"esc", "bel"}
      /\ \A i \in 2..n : h[i] # "esc"
  BY <1>5 DEF Opened
<1>8. Effects("StringBody", kd, p, o, b) /\ Effects("StringBody", kd, h, o, b)
  BY EffectsHere
<1>9. /\ F!Push(f, b) = g
      /\ F!flush_raw(g) = Record("Ground", "None", <<>>, o \o h)
  BY <1>2, <1>4, <1>8 DEF Effects
<1>10. Holds(g, "StringBody", kd, h, o)
  BY FilterFields
<1>11. o \o h \in Seq(F!Bytes)
  BY <1>2, <1>6
<1> HIDE DEF g
<1>12. b # "bel" => ~F!IsQuery(h) /\ Quiet(h, n)
  <2>0. SUFFICES ASSUME b # "bel" PROVE ~F!IsQuery(h) /\ Quiet(h, n)
    OBVIOUS
  <2>1. Len(h) >= 3 /\ Len(h) - 1 = n /\ n \in 2..n /\ n \in 0..Len(h) /\ n >= 1
    BY <1>6
  <2>2. h[Len(h)] = b /\ h[Len(h) - 1] # "esc"
    BY <1>6, <1>7, <2>1
  <2>3. ~F!IsQuery(h)
    BY <1>0, <1>6, <2>0, <2>1, <2>2, OpenNoQuery
  <2>4. ~F!IsQuery(h) => Quiet(h, n)
    BY <1>6, <1>7, <2>1, OneHead
  <2> QED BY <2>3, <2>4
<1>13. CASE b = "esc"
  <2> DEFINE e == Record("StringEsc", kd, h, o)
  <2>1. F!StringBody(f, b) = SetState(F!Push(f, b), "StringEsc")
    BY <1>13 DEF F!StringBody, SetState
  <2>2. F!StringBody(f, b) = e
    BY <1>9, <2>1, Setting DEF g
  <2>3. Holds(e, "StringEsc", kd, h, o)
    BY FilterFields
  <2>4. e \in F!Filters
    <3>1. "StringEsc" \in FilterStates
      BY DEF FilterStates
    <3> QED BY <1>2, <1>6, <3>1, FilterType
  <2> HIDE DEF e
  <2>5. Len(h) >= 3 /\ F!Last(h) = "esc" /\ F!Front(h) = p
    <3>1. Len(h) >= 3
      BY <1>6
    <3>2. F!Last(h) = "esc"
      BY <1>6, <1>13 DEF F!Last
    <3>3. F!Front(h) = p
      <4> DEFINE l == F!Front(h)
      <4>1. l = SubSeq(h, 1, n)
        BY <1>6 DEF F!Front
      <4>2. l \in Seq(F!Bytes) /\ Len(l) = n /\ \A i \in 1..n : l[i] = h[i]
        <5> HIDE DEF l
        <5> QED BY <1>6, <4>1
      <4>3. \A i \in 1..n : h[i] = p[i]
        BY <1>2, <1>4
      <4> HIDE DEF l
      <4>4. \A i \in 1..Len(l) : l[i] = p[i]
        BY <4>2, <4>3
      <4>5. l = p
        BY <1>2, <1>6, <4>2, <4>4, SeqEqual
      <4> QED BY <4>5 DEF l
    <3> QED BY <3>1, <3>2, <3>3
  <2>6. F!Shape(e)
    BY <1>1, <1>6, <2>3, <2>5 DEF F!Shape, Holds
  <2>7. F!Stands(Append(s, b), h, o)
    BY <1>3, <1>4, <1>12, <1>13, Pushed
  <2> QED BY <2>2, <2>3, <2>4, <2>6, <2>7 DEF Sound, Holds
<1>14. CASE b = "bel"
  <2>1. F!StringBody(f, b) = F!end_string(g)
    BY <1>9, <1>14 DEF F!StringBody
  <2>2. Terminated(h, n)
    <3>1. n = Len(h) - 1
      BY <1>6
    <3> QED BY <1>6, <1>14, <3>1 DEF Terminated
  <2>3. g = Record("StringBody", h[2], h, o)
    BY <1>6 DEF g
  <2> QED BY <1>3, <1>6, <1>7, <2>1, <2>2, <2>3, StringEnds
<1>15. CASE b \notin {"esc", "bel"}
  <2>1. F!StringBody(f, b) =
           IF Len(h) > MaxString \/ ~F!string_may_be_query(g) THEN F!flush_raw(g) ELSE g
    BY <1>9, <1>10, <1>15 DEF F!StringBody, Holds
  <2>2. CASE Len(h) > MaxString \/ ~F!string_may_be_query(g)
    <3>1. F!Hopeless(h)
      <4>1. CASE Len(h) > MaxString
        <5>1. MaxString + 1 = n + 1
          BY <1>0, <1>6, <4>1
        <5> QED BY <1>6, <1>15, <4>1, <5>1 DEF F!Hopeless
      <4>2. CASE ~F!string_may_be_query(g)
        BY <1>6, <1>10, <4>2, MayBe DEF Holds
      <4> QED BY <2>2, <4>1, <4>2
    <3>2. Spent(h, Len(h))
      <4>1. \A i \in 2..(n + 1) : i \in 2..n \/ i = n + 1
        BY <1>6
      <4>2. \A i \in 2..Len(h) : h[i] # "esc"
        BY <1>6, <1>7, <1>15, <4>1
      <4>3. Len(h) \in 0..Len(h) /\ Len(h) >= 1
        BY <1>6
      <4> QED BY <1>6, <3>1, <4>2, <4>3, OneHead
    <3>3. F!Stands(Append(s, b), <<>>, o \o h)
      BY <1>3, <1>6, <1>12, <1>15, <3>2, Flushed
    <3>4. F!StringBody(f, b) = Record("Ground", "None", <<>>, o \o h)
      BY <1>9, <2>1, <2>2
    <3> QED BY <1>11, <3>3, <3>4, Started
  <2>3. CASE ~(Len(h) > MaxString) /\ F!string_may_be_query(g)
    <3>1. F!StringBody(f, b) = g
      BY <2>1, <2>3
    <3>2. g \in F!Filters
      <4>1. "StringBody" \in FilterStates
        BY DEF FilterStates
      <4> QED BY <1>2, <1>6, <4>1, FilterType DEF g
    <3>3. F!OpenString(h)
      <4>1. \A i \in 3..Len(h) : h[i] \notin {"esc", "bel"}
        <5>1. \A i \in 3..(n + 1) : i \in 3..n \/ i = n + 1
          BY <1>6
        <5> QED BY <1>6, <1>7, <1>15, <5>1
      <4>2. Len(h) <= MaxString
        BY <1>0, <1>6, <2>3
      <4> QED BY <1>6, <4>1, <4>2 DEF F!OpenString
    <3>4. F!Shape(g)
      BY <1>6, <1>10, <3>3 DEF F!Shape, Holds
    <3>5. F!Stands(Append(s, b), h, o)
      BY <1>3, <1>4, <1>12, <1>15, Pushed
    <3> QED BY <1>10, <3>1, <3>2, <3>4, <3>5 DEF Sound, Holds
  <2> QED BY <2>2, <2>3
<1> QED
  BY <1>13, <1>14, <1>15

\* A string that an ESC interrupts, and one more byte.
Broken(p, b, h, n, kd) ==
    /\ n \in Nat /\ n >= 2 /\ n <= MaxString /\ Len(p) = n + 1 /\ Len(h) = n + 2
    /\ h \in Seq(F!Bytes) /\ h = Append(p, b) /\ h[n + 2] = b /\ h[n + 1] = "esc" /\ p[n + 1] = "esc"
    /\ F!Begun(h, F!StringKinds) /\ h[2] = kd
    /\ F!Front(p) = SubSeq(h, 1, n)
    /\ \A i \in 3..n : h[i] \notin {"esc", "bel"}
    /\ \A i \in 2..n : h[i] # "esc"

LEMMA BrokenHere ==
    ASSUME F!QueryFilterAssumption, NEW p \in Seq(F!Bytes), Len(p) >= 3, F!Last(p) = "esc",
           F!OpenString(F!Front(p)), NEW b \in F!Bytes, NEW h, h = Append(p, b)
    PROVE  Broken(p, b, h, Len(p) - 1, p[2])
<1> DEFINE n == Len(p) - 1
           t == F!Front(p)
<1>1. n \in Nat /\ n >= 2 /\ Len(p) = n + 1
  OBVIOUS
<1>2. t = SubSeq(p, 1, n) /\ p[Len(p)] = "esc"
  BY DEF F!Front, F!Last
<1> HIDE DEF n
<1>3. t \in Seq(F!Bytes) /\ Len(t) = n /\ \A i \in 1..n : t[i] = p[i]
  <2> HIDE DEF t
  <2> QED BY <1>1, <1>2
<1> HIDE DEF t
<1>4. /\ Len(h) = n + 2 /\ h \in Seq(F!Bytes) /\ h[n + 2] = b
      /\ \A i \in 1..(n + 1) : h[i] = p[i]
  BY <1>1
<1>5. h[n + 1] = "esc" /\ p[n + 1] = "esc"
  <2>1. n + 1 \in 1..(n + 1)
    BY <1>1
  <2> QED BY <1>1, <1>2, <1>4, <2>1
<1>6. \A i \in 1..n : h[i] = t[i]
  <2>1. \A i \in 1..n : i \in 1..(n + 1)
    BY <1>1
  <2> QED BY <1>3, <1>4, <2>1
<1>7. n <= MaxString /\ t[1] = "esc" /\ t[2] \in F!StringKinds
      /\ \A i \in 3..n : t[i] \notin {"esc", "bel"}
  BY <1>3 DEF F!OpenString, F!Begun, t
<1>8. 1 \in 1..n /\ 2 \in 1..n /\ Len(h) >= 2 /\ \A i \in 3..n : i \in 1..n
  BY <1>1, <1>4
<1>9. F!Begun(h, F!StringKinds) /\ h[2] = p[2]
  BY <1>3, <1>6, <1>7, <1>8 DEF F!Begun
<1>10. \A i \in 3..n : h[i] \notin {"esc", "bel"}
  BY <1>6, <1>7, <1>8
<1>11. \A i \in 2..n : h[i] # "esc"
  <2>1. \A i \in 2..n : i = 2 \/ i \in 3..n
    BY <1>1
  <2>2. h[2] # "esc"
    BY <1>9 DEF F!Begun, F!StringKinds
  <2> QED BY <1>10, <2>1, <2>2
<1>12. t = SubSeq(h, 1, n)
  <2> DEFINE r == SubSeq(h, 1, n)
  <2>1. r \in Seq(F!Bytes) /\ Len(r) = n /\ \A i \in 1..n : r[i] = h[i]
    BY <1>1, <1>4
  <2> HIDE DEF r
  <2>2. \A i \in 1..Len(t) : t[i] = r[i]
    BY <1>3, <1>6, <2>1
  <2>3. t = r
    BY <1>3, <2>1, <2>2, SeqEqual
  <2> QED BY <2>3 DEF r
<1> QED
  BY <1>1, <1>4, <1>5, <1>7, <1>9, <1>10, <1>11, <1>12 DEF Broken, t, n

\* What StringEsc makes of a byte.
LEMMA StringEscStep ==
    ASSUME F!QueryFilterAssumption, NEW s \in Seq(F!Bytes), NEW b \in F!Bytes,
           NEW f, Sound(s, f),
           f.state = "StringEsc"
    PROVE  Sound(Append(s, b), F!StringEsc(f, b))
<1> DEFINE h == Append(f.pending, b)
           p == f.pending
           o == f.out
           n == Len(f.pending) - 1
           kd == f.kind
<1>0. MaxCsi \in Nat /\ MaxString \in Nat /\ MaxCsi >= 2 /\ MaxString >= 2
  BY DEF F!QueryFilterAssumption
<1>1. f \in F!Filters /\ Len(p) >= 3 /\ F!Last(p) = "esc" /\ F!OpenString(F!Front(p)) /\ kd = p[2]
  BY DEF Sound, F!Shape
<1>2. f = Record("StringEsc", kd, p, o) /\ o \in Seq(F!Bytes) /\ p \in Seq(F!Bytes) /\ kd \in Kinds
  BY <1>1, FilterWhole
<1>3. Steady(s, b, p, o, h)
  BY FoundSteady
<1>4. h = Append(p, b) /\ n = Len(p) - 1
  OBVIOUS
<1> HIDE DEF h, p, o, n, kd
<1>5. Broken(p, b, h, n, kd)
  BY <1>1, <1>2, <1>4, BrokenHere
<1>6. /\ n \in Nat /\ n >= 2 /\ n <= MaxString /\ Len(p) = n + 1 /\ Len(h) = n + 2
      /\ h \in Seq(F!Bytes) /\ h[n + 2] = b /\ h[n + 1] = "esc" /\ p[n + 1] = "esc"
      /\ F!Begun(h, F!StringKinds) /\ h[2] = kd
      /\ F!Front(p) = SubSeq(h, 1, n)
  BY <1>5 DEF Broken
<1>7. /\ \A i \in 3..n : h[i] \notin {"esc", "bel"}
      /\ \A i \in 2..n : h[i] # "esc"
  BY <1>5 DEF Broken
<1>8. CASE b = "\\"
  <2> DEFINE g == Record("StringEsc", kd, h, o)
  <2>1. Effects("StringEsc", kd, p, o, b)
    BY EffectsHere
  <2>2. F!Push(f, b) = g
    BY <1>2, <1>4, <2>1 DEF Effects
  <2>3. F!StringEsc(f, b) = F!end_string(g)
    BY <1>8, <2>2 DEF F!StringEsc
  <2>4. g = Record("StringEsc", h[2], h, o)
    BY <1>6
  <2> HIDE DEF g
  <2>5. Terminated(h, n)
    <3>1. n = Len(h) - 2 /\ Len(h) - 1 = n + 1
      BY <1>6
    <3> QED BY <1>6, <1>8, <3>1 DEF Terminated
  <2> QED BY <1>3, <1>6, <1>7, <2>3, <2>4, <2>5, StringEnds
<1>9. CASE b # "\\"
  <2> DEFINE t == SubSeq(h, 1, n)
             q == o \o t
             e == Record("Esc", "None", <<"esc">>, q)
  <2> HIDE DEF t
  <2>1. SetPending(f, F!Front(f.pending)) = Record("StringEsc", kd, t, o)
    <3>1. SetPending(f, F!Front(f.pending)) = SetPending(Record("StringEsc", kd, p, o), t)
      BY <1>2, <1>6 DEF p, t
    <3> QED BY <3>1, Setting
  <2>2. F!flush_raw(SetPending(f, F!Front(f.pending))) = Record("Ground", "None", <<>>, q)
    <3>1. Effects("StringEsc", kd, t, o, b)
      BY EffectsHere
    <3> QED BY <2>1, <3>1 DEF Effects
  <2>3. F!Push(Record("Ground", "None", <<>>, q), "esc") = Record("Ground", "None", <<"esc">>, q)
    <3>1. Effects("Ground", "None", <<>>, q, "esc")
      BY EffectsHere
    <3>2. Append(<<>>, "esc") = <<"esc">>
      OBVIOUS
    <3> QED BY <3>1, <3>2 DEF Effects
  <2>4. F!StringEsc(f, b) =
           F!Esc(SetState(F!Push(F!flush_raw(SetPending(f, F!Front(f.pending))), "esc"), "Esc"), b)
    BY <1>9 DEF F!StringEsc, SetState, SetPending
  <2>5. F!StringEsc(f, b) = F!Esc(e, b)
    <3>1. SetState(Record("Ground", "None", <<"esc">>, q), "Esc") = e
      BY Setting
    <3> QED BY <2>2, <2>3, <2>4, <3>1
  <2>6. ~F!IsQuery(h) /\ F!Hopeless(h)
    <3>1. ~F!IsCsiQuery(h)
      BY <1>0, <1>6, CsiFormOf DEF CsiForm, F!Begun, F!StringKinds
    <3>2. ~F!IsStringQuery(h)
      <4>0. SUFFICES ASSUME NEW m \in Nat, Closed(h, m) PROVE FALSE
        BY <1>0, <1>6, StringForm
      <4>1. m = Len(h) - 1
        BY <1>6, <1>9, <4>0 DEF Closed
      <4>2. n + 1 \in 3..m
        BY <1>6, <4>1
      <4> QED BY <1>6, <4>0, <4>2 DEF Closed
    <3>3. h # <<"esc", "Z">>
      <4>1. SUFFICES ASSUME h = <<"esc", "Z">> PROVE FALSE
        OBVIOUS
      <4>2. Len(h) = 2
        <5>1. Len(<<"esc", "Z">>) = 2
          OBVIOUS
        <5> QED BY <4>1, <5>1, Zenon
      <4> QED BY <1>6, <4>2
    <3>4. n + 1 \in 3..Len(h) /\ n + 1 < Len(h)
      BY <1>6
    <3> QED BY <1>6, <3>1, <3>2, <3>3, <3>4 DEF F!IsQuery, F!Hopeless
  <2>7. Quiet(h, n) /\ Spent(h, n)
    <3>1. n \in 0..Len(h) /\ n >= 1
      BY <1>6
    <3> QED BY <1>6, <1>7, <2>6, <3>1, OneHead
  <2>8. "None" \in Kinds /\ e = Record("Esc", "None", <<"esc">>, o \o SubSeq(h, 1, n))
    BY DEF Kinds, t
  <2> HIDE DEF q, e
  <2>9. Sound(Append(s, b), F!Esc(e, b))
    BY <1>3, <1>6, <2>7, <2>8, EscEnded
  <2> QED BY <2>5, <2>9
<1> QED
  BY <1>8, <1>9

\* Every byte keeps the filter where it stands.
LEMMA StepKeeps ==
    ASSUME F!QueryFilterAssumption, NEW s \in Seq(F!Bytes), NEW b \in F!Bytes,
           NEW f, Sound(s, f)
    PROVE  Sound(Append(s, b), F!step(f, b))
<1>1. f.state \in FilterStates
  BY FilterWhole DEF Sound
<1>2. CASE f.state = "Ground"
  BY <1>2, GroundStep DEF F!step
<1>3. CASE f.state = "Esc"
  BY <1>3, EscStep DEF F!step
<1>4. CASE f.state = "Csi"
  BY <1>4, CsiStep DEF F!step
<1>5. CASE f.state = "StringBody"
  BY <1>5, StringBodyStep DEF F!step
<1>6. CASE f.state = "StringEsc"
  BY <1>6, StringEscStep DEF F!step
<1> QED
  BY <1>1, <1>2, <1>3, <1>4, <1>5, <1>6 DEF FilterStates

-----------------------------------------------------------------------------
(* The query filter: a chunk, byte by byte *)

\* Whatever is held back, a step makes a filter of a filter.
AllBytes == F!Bytes \cup {"esc"}
AnyFilters == [state : FilterStates, kind : Kinds, pending : Seq(AllBytes), out : Seq(AllBytes)]

LEMMA SmallSteps ==
    ASSUME NEW f \in AnyFilters, NEW b \in AllBytes
    PROVE  /\ F!drop(f) \in AnyFilters /\ F!flush_raw(f) \in AnyFilters
           /\ F!Push(f, b) \in AnyFilters /\ F!Ground(f, b) \in AnyFilters
<1>1. /\ f.state \in FilterStates /\ f.kind \in Kinds
      /\ f.pending \in Seq(AllBytes) /\ f.out \in Seq(AllBytes)
  BY DEF AnyFilters
<1>2. "None" \in Kinds /\ "Ground" \in FilterStates /\ "Esc" \in FilterStates
  BY DEF Kinds, FilterStates
<1>3. /\ f.out \o f.pending \in Seq(AllBytes) /\ Append(f.pending, b) \in Seq(AllBytes)
      /\ Append(f.out, b) \in Seq(AllBytes) /\ <<>> \in Seq(AllBytes)
  BY <1>1
<1>4. F!drop(f) \in AnyFilters
  BY <1>2, <1>3 DEF F!drop, AnyFilters
<1>5. F!flush_raw(f) \in AnyFilters
  <2>1. F!drop(f).out = f.out
    BY DEF F!drop, AnyFilters
  <2> QED BY <1>3, <1>4, <2>1 DEF F!flush_raw, AnyFilters
<1>6. F!Push(f, b) \in AnyFilters
  BY <1>3 DEF F!Push, AnyFilters
<1>7. F!Ground(f, b) \in AnyFilters
  BY <1>2, <1>3, <1>6 DEF F!Ground, AnyFilters
<1> QED
  BY <1>4, <1>5, <1>6, <1>7

LEMMA StateSteps ==
    ASSUME NEW f \in AnyFilters
    PROVE  /\ \A st \in FilterStates : SetState(f, st) \in AnyFilters
           /\ \A st \in FilterStates, kd \in Kinds : SetKind(SetState(f, st), kd) \in AnyFilters
           /\ \A p \in Seq(AllBytes) : SetPending(f, p) \in AnyFilters
BY DEF AnyFilters, SetState, SetKind, SetPending

LEMMA EscType ==
    ASSUME NEW f \in AnyFilters, NEW b \in AllBytes
    PROVE  F!Esc(f, b) \in AnyFilters
<1>1. /\ F!drop(f) \in AnyFilters /\ F!flush_raw(f) \in AnyFilters /\ F!Push(f, b) \in AnyFilters
  BY SmallSteps
<1>2. F!Ground(F!flush_raw(f), b) \in AnyFilters
  BY <1>1, SmallSteps
<1>3. CASE b = "["
  <2>1. F!Esc(f, b) = SetState(F!Push(f, b), "Csi")
    BY <1>3 DEF F!Esc, SetState
  <2>2. "Csi" \in FilterStates
    BY DEF FilterStates
  <2> QED BY <1>1, <2>1, <2>2, StateSteps
<1>4. CASE b \in F!StringKinds
  <2>1. F!Esc(f, b) = SetKind(SetState(F!Push(f, b), "StringBody"), b)
    BY <1>4 DEF F!Esc, SetState, SetKind, F!StringKinds
  <2>2. "StringBody" \in FilterStates /\ b \in Kinds
    BY <1>4 DEF FilterStates, Kinds
  <2> QED BY <1>1, <2>1, <2>2, StateSteps
<1>5. CASE b = "Z"
  BY <1>1, <1>5 DEF F!Esc
<1>6. CASE b \notin {"[", "Z"} \cup F!StringKinds
  <2>1. F!Esc(f, b) = F!Ground(F!flush_raw(f), b)
    BY <1>6 DEF F!Esc, F!StringKinds
  <2> QED BY <1>2, <2>1
<1> QED
  BY <1>3, <1>4, <1>5, <1>6

LEMMA CsiType ==
    ASSUME NEW f \in AnyFilters, NEW b \in AllBytes
    PROVE  F!Csi(f, b) \in AnyFilters
<1>1. /\ F!drop(f) \in AnyFilters /\ F!flush_raw(f) \in AnyFilters /\ F!Push(f, b) \in AnyFilters
  BY SmallSteps
<1>2. F!Ground(F!flush_raw(f), b) \in AnyFilters /\ F!flush_raw(F!Push(f, b)) \in AnyFilters
  BY <1>1, SmallSteps
<1>3. F!CsiParameter \cap F!CsiFinal = {}
  BY DEF F!CsiParameter, F!CsiFinal, F!CsiIntermediate
<1>4. CASE Len(f.pending) >= MaxCsi
  BY <1>2, <1>4 DEF F!Csi
<1>5. CASE ~(Len(f.pending) >= MaxCsi)
  <2>1. CASE b \in F!CsiParameter
    <3>1. F!Csi(f, b) = F!Push(f, b)
      BY <1>3, <1>5, <2>1 DEF F!Csi
    <3> QED BY <1>1, <3>1
  <2>2. CASE b \in F!CsiFinal
    <3>1. F!Csi(f, b) = IF F!is_csi_query(F!Body(f), b) THEN F!drop(f) ELSE F!flush_raw(F!Push(f, b))
      BY <1>3, <1>5, <2>2 DEF F!Csi
    <3> QED BY <1>1, <1>2, <3>1
  <2>3. CASE b \notin F!CsiParameter /\ b \notin F!CsiFinal
    <3>1. F!Csi(f, b) = F!Ground(F!flush_raw(f), b)
      BY <1>5, <2>3 DEF F!Csi
    <3> QED BY <1>2, <3>1
  <2> QED BY <2>1, <2>2, <2>3
<1> QED
  BY <1>4, <1>5

LEMMA StringType ==
    ASSUME NEW f \in AnyFilters, NEW b \in AllBytes
    PROVE  F!StringBody(f, b) \in AnyFilters /\ F!StringEsc(f, b) \in AnyFilters
<1>1. ASSUME NEW g \in AnyFilters PROVE F!end_string(g) \in AnyFilters
  <2>1. F!drop(g) \in AnyFilters /\ F!flush_raw(g) \in AnyFilters
    <3>1. "esc" \in AllBytes
      BY DEF AllBytes
    <3> QED BY <3>1, SmallSteps
  <2>2. F!end_string(g) = F!drop(g) \/ F!end_string(g) = F!flush_raw(g)
    BY DEF F!end_string
  <2> QED BY <2>1, <2>2
<1>2. F!Push(f, b) \in AnyFilters
  BY SmallSteps
<1>3. F!flush_raw(F!Push(f, b)) \in AnyFilters
  BY <1>2, SmallSteps
<1>4. F!StringBody(f, b) \in AnyFilters
  <2>1. CASE b = "esc"
    <3>1. F!StringBody(f, b) = SetState(F!Push(f, b), "StringEsc")
      BY <2>1 DEF F!StringBody, SetState
    <3>2. "StringEsc" \in FilterStates
      BY DEF FilterStates
    <3> QED BY <1>2, <3>1, <3>2, StateSteps
  <2>2. CASE b = "bel"
    BY <1>1, <1>2, <2>2 DEF F!StringBody
  <2>3. CASE b \notin {"esc", "bel"}
    BY <1>2, <1>3, <2>3 DEF F!StringBody
  <2> QED BY <2>1, <2>2, <2>3
<1>5. F!StringEsc(f, b) \in AnyFilters
  <2> DEFINE g == F!flush_raw(SetPending(f, F!Front(f.pending)))
  <2>1. g \in AnyFilters /\ "esc" \in AllBytes
    <3>1. F!Front(f.pending) \in Seq(AllBytes)
      <4>1. f.pending \in Seq(AllBytes)
        BY DEF AnyFilters
      <4> QED BY <4>1 DEF F!Front
    <3>2. SetPending(f, F!Front(f.pending)) \in AnyFilters
      BY <3>1, StateSteps
    <3>3. "esc" \in AllBytes
      BY DEF AllBytes
    <3> QED BY <3>2, <3>3, SmallSteps
  <2> HIDE DEF g
  <2>2. SetState(F!Push(g, "esc"), "Esc") \in AnyFilters
    <3>1. F!Push(g, "esc") \in AnyFilters
      BY <2>1, SmallSteps
    <3>2. "Esc" \in FilterStates
      BY DEF FilterStates
    <3> QED BY <3>1, <3>2, StateSteps
  <2>3. F!Esc(SetState(F!Push(g, "esc"), "Esc"), b) \in AnyFilters
    BY <2>2, EscType
  <2>4. CASE b = "\\"
    <3>1. F!StringEsc(f, b) = F!end_string(F!Push(f, b))
      BY <2>4 DEF F!StringEsc
    <3> QED BY <1>1, <1>2, <3>1
  <2>5. CASE b # "\\"
    <3>1. F!StringEsc(f, b) = F!Esc(SetState(F!Push(g, "esc"), "Esc"), b)
      BY <2>5 DEF F!StringEsc, SetState, SetPending, g
    <3> QED BY <2>3, <3>1
  <2> QED BY <2>4, <2>5
<1> QED
  BY <1>4, <1>5

LEMMA StepType ==
    ASSUME NEW f \in AnyFilters, NEW b \in AllBytes
    PROVE  F!step(f, b) \in AnyFilters
<1>1. f.state \in FilterStates
  BY DEF AnyFilters
<1>2. CASE f.state = "Ground"
  BY <1>2, SmallSteps DEF F!step
<1>3. CASE f.state = "Esc"
  BY <1>3, EscType DEF F!step
<1>4. CASE f.state = "Csi"
  BY <1>4, CsiType DEF F!step
<1>5. CASE f.state = "StringBody"
  BY <1>5, StringType DEF F!step
<1>6. CASE f.state = "StringEsc"
  BY <1>6, StringType DEF F!step
<1> QED
  BY <1>1, <1>2, <1>3, <1>4, <1>5, <1>6 DEF FilterStates

\* A chunk is given to the filter byte by byte.
LEMMA ScrubSteps ==
    ASSUME NEW t \in AnyFilters, NEW bytes \in Seq(AllBytes)
    PROVE  \E f \in [0..Len(bytes) -> AnyFilters] :
              /\ f[0] = t
              /\ \A i \in 1..Len(bytes) : f[i] = F!step(f[i - 1], bytes[i])
              /\ F!scrub(t, bytes) = f[Len(bytes)]
<1> DEFINE n == Len(bytes)
           G == [p \in AnyFilters \X (1..n) |-> F!step(p[1], bytes[p[2]])]
           Recurs(h) == h = [s \in SUBSET (1..n) |-> IF s = {} THEN t
                              ELSE F!step(h[s \ {F!Max(s)}], bytes[F!Max(s)])]
           iter == CHOOSE h : Recurs(h)
<1>1. n \in Nat /\ DOMAIN bytes = 1..n
  OBVIOUS
<1>2. F!scrub(t, bytes) = iter[1..n]
  BY <1>1 DEF F!scrub, F!FoldLeft, F!MapThenFoldSet
<1>3. Recurs(iter)
  <2>1. G \in [AnyFilters \X (1..n) -> AnyFilters]
    <3> SUFFICES ASSUME NEW p \in AnyFilters \X (1..n)
                 PROVE  F!step(p[1], bytes[p[2]]) \in AnyFilters
      OBVIOUS
    <3>1. p[1] \in AnyFilters /\ bytes[p[2]] \in AllBytes
      BY <1>1
    <3> QED BY <3>1, StepType
  <2>2. PICK g : Folds(AnyFilters, t, n, G, n, g)
    <3> HIDE DEF G, n
    <3> QED BY <2>1, <1>1, FoldExists
  <2>3. \A s \in SUBSET (1..n) : s # {} => Max(s) \in s
    <3> SUFFICES ASSUME NEW s \in SUBSET (1..n), s # {} PROVE Max(s) \in s
      OBVIOUS
    <3>1. \E x \in s : \A y \in s : x >= y
      BY <1>1, IntervalMax
    <3> QED BY <3>1 DEF Max
  <2>4. \A s \in SUBSET (1..n) : s # {} =>
          G[<<g[s \ {Max(s)}], Max(s)>>] = F!step(g[s \ {F!Max(s)}], bytes[F!Max(s)])
    <3> SUFFICES ASSUME NEW s \in SUBSET (1..n), s # {}
                 PROVE  G[<<g[s \ {Max(s)}], Max(s)>>]
                          = F!step(g[s \ {F!Max(s)}], bytes[F!Max(s)])
      OBVIOUS
    <3>1. g[s \ {Max(s)}] \in AnyFilters
      BY <2>2 DEF Folds
    <3>2. Max(s) \in 1..n /\ F!Max(s) = Max(s)
      BY <2>3 DEF Max, F!Max
    <3> QED BY <3>1, <3>2
  <2>5. Recurs(g)
    BY <2>2, <2>4, Zenon DEF Folds
  <2> QED BY <2>5, Zenon
<1> DEFINE f == [i \in 0..n |-> iter[1..i]]
<1>4. f[0] = t
  <2>1. 1..0 = {} /\ {} \in SUBSET (1..n)
    OBVIOUS
  <2>2. iter[{}] = t
    <3> HIDE DEF iter
    <3> QED BY <1>3, <2>1
  <2>3. f[0] = iter[1..0]
    BY <1>1
  <2> QED BY <2>1, <2>2, <2>3
<1>5. \A i \in 1..n : f[i] = F!step(f[i - 1], bytes[i])
  <2> SUFFICES ASSUME NEW i \in 1..n PROVE f[i] = F!step(f[i - 1], bytes[i])
    OBVIOUS
  <2>1. F!Max(1..i) = i /\ (1..i) \ {F!Max(1..i)} = 1..(i - 1)
    <3>1. i - 1 \in Nat /\ (i - 1) + 1 = i /\ i \in 1..i
      BY <1>1
    <3>2. F!Max(1..i) = i
      BY <3>1, MaxOfInterval DEF Max, F!Max
    <3> QED BY <3>2
  <2>2. iter[1..i] = F!step(iter[1..(i - 1)], bytes[i])
    <3>1. 1..i \in SUBSET (1..n) /\ i \in 1..i
      BY <1>1
    <3> HIDE DEF iter
    <3> QED BY <1>3, <2>1, <3>1
  <2>3. f[i] = iter[1..i] /\ f[i - 1] = iter[1..(i - 1)]
    BY <1>1
  <2> QED BY <2>2, <2>3
<1>6. f \in [0..n -> AnyFilters]
  <2> DEFINE P == {i \in Nat : i <= n => f[i] \in AnyFilters}
  <2>1. 0 \in P
    BY <1>4
  <2>2. ASSUME NEW i \in Nat, i \in P PROVE i + 1 \in P
    <3>1. SUFFICES ASSUME i + 1 <= n PROVE f[i + 1] \in AnyFilters
      OBVIOUS
    <3>2. f[i] \in AnyFilters
      BY <1>1, <2>2, <3>1
    <3>3. f[i + 1] = F!step(f[i], bytes[i + 1])
      <4>1. i + 1 \in 1..n /\ (i + 1) - 1 = i
        BY <1>1, <3>1
      <4> HIDE DEF f
      <4> QED BY <1>5, <4>1
    <3>4. bytes[i + 1] \in AllBytes
      BY <1>1, <3>1
    <3> HIDE DEF f, n, G, Recurs, P
    <3> QED BY <3>2, <3>3, <3>4, StepType
  <2>3. Nat \subseteq P
    <3> HIDE DEF P
    <3> QED BY <2>1, <2>2, NatSetInduction
  <2>4. \A i \in 0..n : f[i] \in AnyFilters
    <3> SUFFICES ASSUME NEW i \in 0..n PROVE f[i] \in AnyFilters
      OBVIOUS
    <3>1. i \in Nat /\ i <= n
      BY <1>1
    <3>2. i \in P
      BY <3>1, <2>3
    <3> HIDE DEF f
    <3> QED BY <3>1, <3>2
  <2> QED BY <2>4
<1>7. F!scrub(t, bytes) = f[n]
  BY <1>1, <1>2
<1> HIDE DEF f
<1> QED BY <1>4, <1>5, <1>6, <1>7

\* The input up to the byte j of the chunk.
LEMMA OneMoreByte ==
    ASSUME NEW s \in Seq(F!Bytes), NEW chunk \in Seq(F!Bytes), NEW j \in Nat, j < Len(chunk)
    PROVE  s \o SubSeq(chunk, 1, j + 1) = Append(s \o SubSeq(chunk, 1, j), chunk[j + 1])
<1> DEFINE t == SubSeq(chunk, 1, j)
           l == s \o SubSeq(chunk, 1, j + 1)
           r == Append(s \o t, chunk[j + 1])
           n == Len(s)
<1>1. n \in Nat /\ Len(chunk) \in Nat /\ j + 1 \in 1..Len(chunk) /\ chunk[j + 1] \in F!Bytes
  OBVIOUS
<1>2. t \in Seq(F!Bytes) /\ Len(t) = j /\ \A i \in 1..j : t[i] = chunk[i]
  OBVIOUS
<1>3. l \in Seq(F!Bytes) /\ Len(l) = n + j + 1
      /\ (\A i \in 1..n : l[i] = s[i]) /\ \A i \in 1..(j + 1) : l[n + i] = chunk[i]
  <2> DEFINE v == SubSeq(chunk, 1, j + 1)
  <2>1. v \in Seq(F!Bytes) /\ Len(v) = j + 1 /\ \A i \in 1..(j + 1) : v[i] = chunk[i]
    BY <1>1
  <2> HIDE DEF v
  <2>2. s \o v \in Seq(F!Bytes) /\ Len(s \o v) = n + j + 1
        /\ (\A i \in 1..n : (s \o v)[i] = s[i]) /\ \A i \in 1..(j + 1) : (s \o v)[n + i] = v[i]
    BY <1>1, <2>1
  <2> QED BY <2>1, <2>2 DEF v
<1>4. r \in Seq(F!Bytes) /\ Len(r) = n + j + 1 /\ r[n + j + 1] = chunk[j + 1]
      /\ (\A i \in 1..n : r[i] = s[i]) /\ \A i \in 1..j : r[n + i] = chunk[i]
  <2> HIDE DEF t
  <2>1. s \o t \in Seq(F!Bytes) /\ Len(s \o t) = n + j
        /\ (\A i \in 1..n : (s \o t)[i] = s[i]) /\ \A i \in 1..j : (s \o t)[n + i] = t[i]
    BY <1>1, <1>2
  <2> DEFINE q == s \o t
  <2> HIDE DEF q
  <2>2. Append(q, chunk[j + 1]) \in Seq(F!Bytes) /\ Len(Append(q, chunk[j + 1])) = n + j + 1
        /\ Append(q, chunk[j + 1])[n + j + 1] = chunk[j + 1]
        /\ \A i \in 1..(n + j) : Append(q, chunk[j + 1])[i] = q[i]
    <3>1. q \in Seq(F!Bytes) /\ Len(q) = n + j /\ n + j \in Nat /\ chunk[j + 1] \in F!Bytes
      BY <1>1, <2>1 DEF q
    <3> HIDE DEF n
    <3> QED BY <3>1
  <2>3. (\A i \in 1..n : i \in 1..(n + j)) /\ \A i \in 1..j : n + i \in 1..(n + j)
    BY <1>1
  <2>4. \A i \in 1..n : Append(q, chunk[j + 1])[i] = s[i]
    BY <2>1, <2>2, <2>3 DEF q
  <2>5. \A i \in 1..j : Append(q, chunk[j + 1])[n + i] = chunk[i]
    BY <1>2, <2>1, <2>2, <2>3 DEF q
  <2> QED BY <2>2, <2>4, <2>5 DEF q
<1> HIDE DEF l, r, t, n
<1>5. ASSUME NEW i \in 1..(n + j + 1) PROVE l[i] = r[i]
  <2>1. CASE i <= n
    <3>1. i \in 1..n
      BY <1>1, <2>1
    <3> QED BY <1>3, <1>4, <3>1
  <2>2. CASE i > n
    <3>1. i - n \in 1..(j + 1) /\ n + (i - n) = i
      BY <1>1, <2>2
    <3>2. l[i] = chunk[i - n]
      BY <1>3, <3>1
    <3>3. CASE i - n \in 1..j
      <4>1. r[i] = chunk[i - n]
        BY <1>4, <3>1, <3>3
      <4> QED BY <3>2, <4>1
    <3>4. CASE i - n = j + 1
      <4>1. i = n + j + 1
        BY <1>1, <3>4
      <4> QED BY <1>4, <3>2, <3>4, <4>1
    <3>5. i - n \in 1..j \/ i - n = j + 1
      BY <3>1
    <3> QED BY <3>3, <3>4, <3>5
  <2>3. i <= n \/ i > n
    BY <1>1
  <2> QED BY <2>1, <2>2, <2>3
<1>6. l = r
  BY <1>3, <1>4, <1>5, SeqEqual
<1> QED
  BY <1>6 DEF l, r, t

\* A whole chunk keeps the filter where it stands.
LEMMA ScrubKeeps ==
    ASSUME F!QueryFilterAssumption, NEW s \in Seq(F!Bytes), NEW chunk \in Seq(F!Bytes),
           NEW t, Sound(s, t)
    PROVE  Sound(s \o chunk, F!scrub(t, chunk))
<1>1. t \in AnyFilters /\ chunk \in Seq(AllBytes)
  <2>1. /\ t = Record(t.state, t.kind, t.pending, t.out)
        /\ t.state \in FilterStates /\ t.kind \in Kinds
        /\ t.pending \in Seq(F!Bytes) /\ t.out \in Seq(F!Bytes)
    BY FilterWhole DEF Sound
  <2>2. \A q \in Seq(F!Bytes) : q \in Seq(AllBytes)
    BY DEF AllBytes
  <2>3. t.pending \in Seq(AllBytes) /\ t.out \in Seq(AllBytes)
    BY <2>1, <2>2
  <2>4. Record(t.state, t.kind, t.pending, t.out) \in AnyFilters
    BY <2>1, <2>3 DEF AnyFilters, Record
  <2> QED BY <2>1, <2>2, <2>4
<1>2. PICK f \in [0..Len(chunk) -> AnyFilters] :
         /\ f[0] = t
         /\ \A i \in 1..Len(chunk) : f[i] = F!step(f[i - 1], chunk[i])
         /\ F!scrub(t, chunk) = f[Len(chunk)]
  BY <1>1, ScrubSteps
<1> DEFINE P == {j \in Nat : j <= Len(chunk) => Sound(s \o SubSeq(chunk, 1, j), f[j])}
<1>3. 0 \in P
  <2>1. SubSeq(chunk, 1, 0) = <<>>
    BY SubSeqEmpty
  <2>2. s \o SubSeq(chunk, 1, 0) = s
    BY <2>1
  <2> QED BY <1>2, <2>2
<1>4. \A j \in Nat : j \in P => j + 1 \in P
  <2>0. SUFFICES ASSUME NEW j \in Nat, j \in P, j + 1 <= Len(chunk)
                 PROVE  Sound(s \o SubSeq(chunk, 1, j + 1), f[j + 1])
    OBVIOUS
  <2>1. j < Len(chunk) /\ j + 1 \in 1..Len(chunk) /\ (j + 1) - 1 = j /\ j <= Len(chunk)
    BY <2>0
  <2>2. Sound(s \o SubSeq(chunk, 1, j), f[j])
    BY <2>0, <2>1
  <2>3. f[j + 1] = F!step(f[j], chunk[j + 1])
    BY <1>2, <2>1
  <2>4. s \o SubSeq(chunk, 1, j) \in Seq(F!Bytes) /\ chunk[j + 1] \in F!Bytes
    BY <2>1
  <2>5. s \o SubSeq(chunk, 1, j + 1) = Append(s \o SubSeq(chunk, 1, j), chunk[j + 1])
    BY <2>1, OneMoreByte
  <2>6. Sound(Append(s \o SubSeq(chunk, 1, j), chunk[j + 1]), F!step(f[j], chunk[j + 1]))
    BY <2>2, <2>4, StepKeeps
  <2> QED BY <2>3, <2>5, <2>6
<1> HIDE DEF P
<1>5. Nat \subseteq P
  BY <1>3, <1>4, NatSetInduction
<1>6. Len(chunk) \in Nat /\ Len(chunk) \in P
  BY <1>5
<1>7. Sound(s \o SubSeq(chunk, 1, Len(chunk)), f[Len(chunk)])
  BY <1>6 DEF P
<1>8. SubSeq(chunk, 1, Len(chunk)) = chunk
  BY SubSeqFull
<1> QED
  BY <1>2, <1>7, <1>8

-----------------------------------------------------------------------------
(* The query filter: the theorems *)

\* Nothing is held back of nothing.
LEMMA StartsGood ==
    ASSUME F!QueryFilterAssumption
    PROVE  Sound(<<>>, F!new)
<1> DEFINE e == <<>>
<1>1. F!new = Record("Ground", "None", e, e)
  BY DEF F!new, Record
<1>2. e \in Seq(F!Bytes) /\ Len(e) = 0
  OBVIOUS
<1>3. PlacesInside(e)
  BY <1>2, PlacesIn
<1>4. F!QueryPlaces(e) = {}
  <2>1. F!QueryPlaces(e) \subseteq 1..Len(e)
    BY <1>3 DEF PlacesInside
  <2> HIDE DEF e
  <2>2. 1..Len(e) = {}
    BY <1>2
  <2> QED BY <2>1, <2>2
<1>5. F!Without(e, {}) = e
  <2> HIDE DEF e
  <2>1. PICK f \in [0..Len(e) -> Seq(F!Bytes)] : Steps(e, {}, Len(e), f) /\ F!Without(e, {}) = f[Len(e)]
    BY <1>2, WithoutSteps
  <2>2. f[0] = <<>>
    BY <1>2, <2>1 DEF Steps
  <2>3. F!Without(e, {}) = <<>>
    BY <1>2, <2>1, <2>2
  <2> QED BY <2>3 DEF e
<1>6. SubSeq(e, 0 + 1, Len(e)) = e /\ SubSeq(e, 1, 0) = e
  <2>1. SubSeq(e, 1, 0) = <<>>
    BY SubSeqEmpty
  <2>2. 0 + 1 = 1
    OBVIOUS
  <2> QED BY <1>2, <2>1, <2>2
<1>7. F!Stands(e, e, e)
  <2>1. Len(e) - Len(e) = 0 /\ 0 \in 0..Len(e) /\ 1..0 = {}
    BY <1>2
  <2> HIDE DEF e
  <2> QED BY <1>4, <1>5, <1>6, <2>1 DEF F!Stands
<1> QED
  BY <1>1, <1>2, <1>7, Started

\* The filter keeps its shape, and stands where the input says.
THEOREM FilterStands == ASSUME F!QueryFilterAssumption PROVE F!Spec => []F!IInv
<1>1. F!Init => F!IInv
  <2> SUFFICES ASSUME F!Init PROVE F!IInv
    OBVIOUS
  <2>1. Sound(<<>>, F!new) /\ input = <<>> /\ filter = F!new /\ fed = 0
    BY StartsGood DEF F!Init
  <2>2. fed \in 0..MaxPieces
    BY <2>1 DEF F!QueryFilterAssumption
  <2> QED BY <2>1, <2>2 DEF F!IInv, F!Types, Sound
<1>2. F!IInv /\ [F!Next]_(F!vars) => F!IInv'
  <2> SUFFICES ASSUME F!IInv, [F!Next]_(F!vars) PROVE F!IInv'
    OBVIOUS
  <2>1. input \in Seq(F!Bytes) /\ Sound(input, filter) /\ fed \in 0..MaxPieces
    BY DEF F!IInv, F!Types, Sound
  <2>2. ASSUME NEW chunk \in Pieces, F!Scrub(chunk) PROVE F!IInv'
    <3>1. chunk \in Seq(F!Bytes)
      BY DEF F!QueryFilterAssumption
    <3>2. input' = input \o chunk /\ filter' = F!scrub(filter, chunk) /\ fed' = fed + 1
          /\ fed < MaxPieces
      BY <2>2 DEF F!Scrub
    <3>3. Sound(input \o chunk, F!scrub(filter, chunk))
      BY <2>1, <3>1, ScrubKeeps
    <3>4. Sound(input', filter')
      BY <3>2, <3>3
    <3>5. input' \in Seq(F!Bytes)
      BY <2>1, <3>1, <3>2
    <3>6. fed' \in 0..MaxPieces
      BY <2>1, <3>2 DEF F!QueryFilterAssumption
    <3> QED BY <3>4, <3>5, <3>6 DEF F!IInv, F!Types, Sound
  <2>3. CASE UNCHANGED F!vars
    BY <2>3 DEF F!IInv, F!Types, F!vars
  <2> QED BY <2>2, <2>3 DEF F!Next
<1> QED
  BY <1>1, <1>2, PTL DEF F!Spec

\* What is let through, and what is held back after it, leave out the queries.
LEMMA FinishWhole ==
    ASSUME F!IInv
    PROVE  F!InputMinusQueries
<1> DEFINE p == filter.pending
           k == Len(input) - Len(p)
           R == F!QueryPlaces(input)
<1>1. input \in Seq(F!Bytes) /\ F!Stands(input, p, filter.out)
  BY DEF F!IInv, F!Types
<1> HIDE DEF p, k, R
<1>2. k \in 0..Len(input) /\ p = SubSeq(input, k + 1, Len(input))
      /\ R \subseteq 1..k /\ filter.out = F!Without(SubSeq(input, 1, k), R)
  BY <1>1 DEF F!Stands, k, R
<1>3. F!Without(input, R) = F!Without(SubSeq(input, 1, k), R) \o SubSeq(input, k + 1, Len(input))
  BY <1>1, <1>2, WithoutLast
<1>4. F!finish(filter) = F!Without(input, R)
  BY <1>2, <1>3 DEF F!finish, p
<1> QED
  BY <1>4 DEF F!InputMinusQueries, F!QueriesRemoved, R

\* However the history is cut into chunks, the filter lets through all of it
\* but its complete queries (scrub, finish).
THEOREM QueriesTakenOut ==
    ASSUME F!QueryFilterAssumption PROVE F!Spec => []F!InputMinusQueries
<1>1. F!IInv => F!InputMinusQueries
  BY FinishWhole
<1> QED
  BY <1>1, FilterStands, PTL

\* The filter keeps its type, and never holds back more than a sequence it can
\* tell may have (MAX_CSI_BYTES, MAX_STRING_BYTES).
THEOREM QueryFilterTyped ==
    ASSUME F!QueryFilterAssumption PROVE F!Spec => []F!TypeOK
<1>1. F!IInv => F!TypeOK
  <2> SUFFICES ASSUME F!IInv PROVE F!TypeOK
    OBVIOUS
  <2> DEFINE p == filter.pending
  <2>1. filter \in F!Filters /\ F!Shape(filter) /\ fed \in 0..MaxPieces
    BY DEF F!IInv, F!Types
  <2>2. filter.state \in FilterStates /\ p \in Seq(F!Bytes)
    BY <2>1, FilterWhole
  <2>3. MaxCsi \in Nat /\ MaxCsi >= 2 /\ MaxString \in Nat /\ MaxString >= 2
    BY DEF F!QueryFilterAssumption
  <2>4. Len(p) \in Nat /\ (p = <<>> <=> Len(p) = 0)
    BY <2>2
  <2> HIDE DEF p
  <2>5. /\ (filter.state = "Ground") = (p = <<>>)
        /\ Len(p) <= MaxCsi \/ Len(p) <= MaxString + 1
    <3>1. CASE filter.state = "Ground"
      <4>1. p = <<>>
        BY <2>1, <3>1 DEF F!Shape, p
      <4>2. Len(p) <= MaxCsi
        BY <2>3, <2>4, <4>1
      <4> QED BY <3>1, <4>1, <4>2
    <3>2. CASE filter.state = "Esc"
      <4>1. p = <<"esc">>
        BY <2>1, <3>2 DEF F!Shape, p
      <4>2. Len(p) = 1
        BY <4>1
      <4>3. p # <<>> /\ Len(p) <= MaxCsi
        BY <2>3, <2>4, <4>2
      <4> QED BY <3>2, <4>3
    <3>3. CASE filter.state = "Csi"
      <4>1. Len(p) >= 2 /\ Len(p) <= MaxCsi
        BY <2>1, <3>3 DEF F!Shape, F!Begun, p
      <4>2. p # <<>>
        BY <2>4, <4>1
      <4> QED BY <3>3, <4>1, <4>2
    <3>4. CASE filter.state = "StringBody"
      <4>1. Len(p) >= 2 /\ Len(p) <= MaxString
        BY <2>1, <3>4 DEF F!Shape, F!OpenString, F!Begun, p
      <4>2. p # <<>> /\ Len(p) <= MaxString + 1
        BY <2>3, <2>4, <4>1
      <4> QED BY <3>4, <4>2
    <3>5. CASE filter.state = "StringEsc"
      <4>1. Len(p) >= 3 /\ Len(F!Front(p)) <= MaxString
        BY <2>1, <3>5 DEF F!Shape, F!OpenString, p
      <4>2. Len(F!Front(p)) = Len(p) - 1
        BY <2>2, <2>4, <4>1 DEF F!Front, p
      <4>3. p # <<>> /\ Len(p) <= MaxString + 1
        BY <2>3, <2>4, <4>1, <4>2
      <4> QED BY <3>5, <4>3
    <3> QED BY <2>2, <3>1, <3>2, <3>3, <3>4, <3>5 DEF FilterStates
  <2>6. filter.state \in {"Ground", "Esc", "Csi", "StringBody", "StringEsc"}
    BY <2>2 DEF FilterStates
  <2> QED BY <2>1, <2>5, <2>6 DEF F!TypeOK, p
<1> QED
  BY <1>1, FilterStands, PTL

=============================================================================
