-------------------------- MODULE TerminalSyncProofs --------------------------
(***************************************************************************)
(* The proofs about TerminalSync, for any chunks of any bytes, any history *)
(* and any bounds: what a scan does, by induction over the bytes; what the *)
(* sequences that the session sends do to a terminal in any state; that a  *)
(* terminal which sees only the end of the stream ends where the stream    *)
(* does; and the invariants.                                               *)
(*                                                                         *)
(* At the end are the proofs about LineShadow (LS!), for a terminal of any *)
(* width: what a scan of few bytes does, step by step; what the shadow     *)
(* makes of the bytes of each operation; that a terminal and a shadow      *)
(* which stand in the same column stay in step, and so do their            *)
(* attributes; that the rest of a sequence whose beginning is lost puts    *)
(* the shadow nowhere it matters; and the invariant.                       *)
(***************************************************************************)
EXTENDS TerminalSyncInv, SequenceTheorems, WellFoundedInduction, TLAPS

\* What LineShadow has besides.
CONSTANTS Cols, MaxSgr, MaxCsi, Ops, MaxOps
VARIABLES screen, shadow, reading, placed, painted, marked, operations

LS == INSTANCE LineShadow WITH term <- screen, written <- operations

\* What a byte does to a scanner, and the numbers of the sequence that it ends.
ScannerAfter(s, b) ==
    IF b = "esc" THEN [s EXCEPT !.state = "Esc"]
    ELSE IF s.state = "Esc" /\ b = "[" THEN [s EXCEPT !.state = "Csi"]
    ELSE IF s.state = "Csi" /\ b = "?" THEN [NewScanner EXCEPT !.state = "Params"]
    ELSE IF s.state = "Params" /\ b \in DOMAIN Digit THEN push_digit(s, Digit[b])
    ELSE IF s.state = "Params" /\ b = ";" THEN end_mode_number(s)
    ELSE [s EXCEPT !.state = "Ground"]

Listed(s, b) ==
    IF s.state = "Params" /\ b \in {"h", "l"} /\ end_mode_number(s).state = "Params"
    THEN Range(end_mode_number(s).modes) ELSE {}

SetAfter(s, b, set) ==
    IF s.state = "Esc" /\ b = "c" THEN Defaults
    ELSE IF b = "h" THEN set \cup (Listed(s, b) \cap Tracked)
                    ELSE set \ (Listed(s, b) \cap Tracked)

AltAfter(s, b, alt) == IF Listed(s, b) \cap AltModes # {} THEN b = "h" ELSE alt


\* A set that holds 0 and with each number the next one holds them all.
LEMMA NatSetInduction ==
    ASSUME NEW T, 0 \in T, \A n \in Nat : n \in T => n + 1 \in T
    PROVE  Nat \subseteq T
<1> DEFINE B == Nat \ T
           R == OpToRel(<, Nat)
<1>1. SUFFICES ASSUME B # {} PROVE FALSE
  OBVIOUS
<1>2. IsWellFoundedOn(R, Nat)
  BY NatLessThanWellFounded
<1>3. PICK x \in B : \A y \in B : ~ (<<y, x>> \in R)
  <2>. HIDE DEF R
  <2> QED BY <1>2, <1>1, WFMin, Zenon
<1>4. x \in Nat /\ x \notin T
  BY <1>3
<1>5. x # 0
  BY <1>4
<1>6. PICK y \in Nat : x = y + 1
  <2>1. x - 1 \in Nat /\ x = (x - 1) + 1
    BY <1>4, <1>5
  <2> QED BY <2>1
<1>7. <<y, x>> \in R
  <2>1. y < x
    BY <1>6
  <2>2. <<y, x>> \in Nat \X Nat
    BY <1>4, <1>6
  <2> QED BY <2>1, <2>2, <1>4, <1>6 DEF OpToRel
<1>8. y \in T
  <2>. HIDE DEF R
  <2> QED BY <1>3, <1>6, <1>7
<1> QED
  BY <1>4, <1>6, <1>8

\* The largest of the numbers up to k + 1, and what is left without it.
LEMMA MaxOfInterval ==
    ASSUME NEW k \in Nat, NEW s \in SUBSET (1..(k + 1)), k + 1 \in s
    PROVE  Max(s) = k + 1 /\ s \ {Max(s)} \in SUBSET (1..k)
<1>1. \A y \in s : k + 1 >= y
  OBVIOUS
<1>2. \A x \in s : (\A y \in s : x >= y) => x = k + 1
  OBVIOUS
<1>3. Max(s) = k + 1
  BY <1>1, <1>2 DEF Max
<1> QED
  BY <1>3

\* A set of numbers that is not empty has a largest one.
LEMMA IntervalMax ==
    ASSUME NEW n \in Nat, NEW s \in SUBSET (1..n), s # {}
    PROVE  \E x \in s : \A y \in s : x >= y
<1> DEFINE P == {k \in Nat : \A r \in SUBSET (1..k) :
                   r # {} => \E x \in r : \A y \in r : x >= y}
<1>1. 0 \in P
  <2>1. \A r \in SUBSET (1..0) : r = {}
    OBVIOUS
  <2> QED BY <2>1
<1>2. ASSUME NEW k \in Nat, k \in P PROVE k + 1 \in P
  <2> SUFFICES ASSUME NEW r \in SUBSET (1..(k + 1)), r # {}
               PROVE  \E x \in r : \A y \in r : x >= y
    OBVIOUS
  <2>1. CASE k + 1 \in r
    <3>1. \A y \in r : k + 1 >= y
      OBVIOUS
    <3> QED BY <2>1, <3>1
  <2>2. CASE k + 1 \notin r
    <3>1. r \in SUBSET (1..k)
      BY <2>2
    <3> QED BY <1>2, <3>1
  <2> QED BY <2>1, <2>2
<1>3. Nat \subseteq P
  <2> HIDE DEF P
  <2> QED BY <1>1, <1>2, NatSetInduction
<1> QED
  BY <1>3

\* The fold over the initial segments of 1..n.
Folds(T, t, n, G, k, g) ==
    /\ g \in [SUBSET (1..k) -> T]
    /\ g = [s \in SUBSET (1..k) |-> IF s = {} THEN t
                                    ELSE G[<<g[s \ {Max(s)}], Max(s)>>]]

\* A fold over the numbers up to n exists, so that CHOOSE finds it.
LEMMA FoldExists ==
    ASSUME NEW T, NEW t \in T, NEW n \in Nat, NEW G \in [T \X (1..n) -> T]
    PROVE  \E g : Folds(T, t, n, G, n, g)
<1> DEFINE P == {k \in Nat : k <= n => \E g : Folds(T, t, n, G, k, g)}
<1>1. 0 \in P
  <2> DEFINE g0 == [s \in SUBSET (1..0) |-> t]
  <2>1. SUBSET (1..0) = {{}}
    OBVIOUS
  <2>2. Folds(T, t, n, G, 0, g0)
    BY <2>1 DEF Folds
  <2> QED BY <2>2
<1>2. ASSUME NEW k \in Nat, k \in P PROVE k + 1 \in P
  <2>1. SUFFICES ASSUME k + 1 <= n PROVE \E g : Folds(T, t, n, G, k + 1, g)
    OBVIOUS
  <2>2. PICK g : Folds(T, t, n, G, k, g)
    BY <1>2, <2>1
  <2> DEFINE h == [s \in SUBSET (1..(k + 1)) |->
                     IF s \in SUBSET (1..k) THEN g[s] ELSE G[<<g[s \ {k + 1}], k + 1>>]]
  <2>3. ASSUME NEW s \in SUBSET (1..(k + 1))
        PROVE  /\ h[s] \in T
               /\ h[s] = IF s = {} THEN t ELSE G[<<h[s \ {Max(s)}], Max(s)>>]
    <3>1. CASE s \in SUBSET (1..k)
      <4>1. h[s] = g[s] /\ h[s] \in T
        BY <3>1, <2>2 DEF Folds
      <4>2. g[s] = IF s = {} THEN t ELSE G[<<g[s \ {Max(s)}], Max(s)>>]
        BY <3>1, <2>2 DEF Folds
      <4>3. s \ {Max(s)} \in SUBSET (1..k) /\ s \ {Max(s)} \in SUBSET (1..(k + 1))
        BY <3>1
      <4>4. h[s \ {Max(s)}] = g[s \ {Max(s)}]
        BY <4>3
      <4> QED BY <4>1, <4>2, <4>4
    <3>2. CASE s \notin SUBSET (1..k)
      <4>1. k + 1 \in s
        BY <3>2
      <4>2. Max(s) = k + 1 /\ s \ {Max(s)} \in SUBSET (1..k)
        BY <4>1, MaxOfInterval
      <4>3. s \ {k + 1} \in SUBSET (1..k) /\ s \ {k + 1} \in SUBSET (1..(k + 1))
        BY <4>2
      <4>4. h[s \ {k + 1}] = g[s \ {k + 1}] /\ g[s \ {k + 1}] \in T
        BY <4>3, <2>2 DEF Folds
      <4>5. h[s] = G[<<g[s \ {k + 1}], k + 1>>]
        BY <3>2
      <4>6. k + 1 \in 1..n
        BY <2>1
      <4>7. G[<<g[s \ {k + 1}], k + 1>>] \in T
        BY <4>4, <4>6, Zenon
      <4>8. s # {}
        BY <4>1
      <4> QED BY <4>2, <4>4, <4>5, <4>7, <4>8
    <3> QED BY <3>1, <3>2
  <2>4. h \in [SUBSET (1..(k + 1)) -> T]
    BY <2>3
  <2>5. h = [s \in SUBSET (1..(k + 1)) |-> IF s = {} THEN t
                                    ELSE G[<<h[s \ {Max(s)}], Max(s)>>]]
    <3> HIDE DEF h
    <3> QED BY <2>3, <2>4
  <2>6. Folds(T, t, n, G, k + 1, h)
    <3> HIDE DEF h
    <3> QED BY <2>4, <2>5 DEF Folds
  <2> QED BY <2>6
<1>3. Nat \subseteq P
  <2> HIDE DEF P
  <2> QED BY <1>1, <1>2, NatSetInduction
<1> QED
  BY <1>3

\* The digits that the tracked modes are written with.
LEMMA DigitDomain == DOMAIN Digit = {"1", "4", "7"}
BY DEF Digit

\* What each byte does, one arm of the scanner at a time.
LEMMA ScanByteArms ==
    ASSUME NEW t, NEW b
    PROVE  /\ b = "esc" => ScanByte(t, b) = [t EXCEPT !.scan.state = "Esc"]
           /\ t.scan.state = "Esc" /\ b = "[" =>
                 ScanByte(t, b) = [t EXCEPT !.scan.state = "Csi"]
           /\ t.scan.state = "Esc" /\ b = "c" =>
                 ScanByte(t, b) = FullReset([t EXCEPT !.scan.state = "Ground"])
           /\ t.scan.state = "Csi" /\ b = "?" =>
                 ScanByte(t, b) = [t EXCEPT !.scan = [NewScanner EXCEPT !.state = "Params"]]
           /\ t.scan.state = "Params" /\ b \in DOMAIN Digit =>
                 ScanByte(t, b) = [t EXCEPT !.scan = push_digit(t.scan, Digit[b])]
           /\ t.scan.state = "Params" /\ b = ";" =>
                 ScanByte(t, b) = [t EXCEPT !.scan = end_mode_number(t.scan)]
           /\ t.scan.state = "Params" /\ b \in {"h", "l"} =>
                 ScanByte(t, b) =
                    IF end_mode_number(t.scan).state = "Params"
                    THEN Changed([t EXCEPT !.scan.state = "Ground"],
                                 Range(end_mode_number(t.scan).modes), b = "h")
                    ELSE [t EXCEPT !.scan.state = "Ground"]
           /\ /\ b # "esc"
              /\ t.scan.state = "Esc" => b \notin {"[", "c"}
              /\ t.scan.state = "Csi" => b # "?"
              /\ t.scan.state = "Params" => b \notin {"1", "4", "7", ";", "h", "l"}
              => ScanByte(t, b) = [t EXCEPT !.scan.state = "Ground"]
<1> DEFINE d == DOMAIN Digit
           p == push_digit(t.scan, Digit[b])
           ended == end_mode_number(t.scan)
           es == ended.state
           z == Changed([t EXCEPT !.scan.state = "Ground"], Range(ended.modes), b = "h")
           y == FullReset([t EXCEPT !.scan.state = "Ground"])
<1>1. d = {"1", "4", "7"}
  BY DigitDomain
<1>2. ScanByte(t, b) =
        CASE b = "esc" -> [t EXCEPT !.scan.state = "Esc"]
          [] t.scan.state = "Esc" /\ b = "[" -> [t EXCEPT !.scan.state = "Csi"]
          [] t.scan.state = "Esc" /\ b = "c" -> y
          [] t.scan.state = "Csi" /\ b = "?" ->
                [t EXCEPT !.scan = [NewScanner EXCEPT !.state = "Params"]]
          [] t.scan.state = "Params" /\ b \in d -> [t EXCEPT !.scan = p]
          [] t.scan.state = "Params" /\ b = ";" -> [t EXCEPT !.scan = ended]
          [] t.scan.state = "Params" /\ b \in {"h", "l"} ->
                IF es = "Params" THEN z ELSE [t EXCEPT !.scan.state = "Ground"]
          [] OTHER -> [t EXCEPT !.scan.state = "Ground"]
  BY Zenon DEF ScanByte
<1>3. /\ b = "esc" => ScanByte(t, b) = [t EXCEPT !.scan.state = "Esc"]
      /\ t.scan.state = "Esc" /\ b = "[" => ScanByte(t, b) = [t EXCEPT !.scan.state = "Csi"]
      /\ t.scan.state = "Esc" /\ b = "c" => ScanByte(t, b) = y
      /\ t.scan.state = "Csi" /\ b = "?" =>
            ScanByte(t, b) = [t EXCEPT !.scan = [NewScanner EXCEPT !.state = "Params"]]
      /\ t.scan.state = "Params" /\ b \in d => ScanByte(t, b) = [t EXCEPT !.scan = p]
      /\ t.scan.state = "Params" /\ b = ";" => ScanByte(t, b) = [t EXCEPT !.scan = ended]
      /\ t.scan.state = "Params" /\ b \in {"h", "l"} =>
            ScanByte(t, b) = IF es = "Params" THEN z ELSE [t EXCEPT !.scan.state = "Ground"]
      /\ /\ b # "esc"
         /\ t.scan.state = "Esc" => b \notin {"[", "c"}
         /\ t.scan.state = "Csi" => b # "?"
         /\ t.scan.state = "Params" => b \notin {"1", "4", "7", ";", "h", "l"}
         => ScanByte(t, b) = [t EXCEPT !.scan.state = "Ground"]
  <2> HIDE DEF d, p, ended, es, z, y
  <2> QED BY <1>1, <1>2
<1> QED
  BY <1>3, Zenon

\* A scanner with other numbers is a scanner.
LEMMA ScannerFields ==
    ASSUME NEW s \in Scanner, NEW p \in Nat \cup {NoNumber}
    PROVE  /\ s.state \in {"Ground", "Esc", "Csi", "Params"}
           /\ s.modes \in Seq(Nat) /\ s.partial \in Nat \cup {NoNumber}
           /\ [s EXCEPT !.partial = p] \in Scanner
           /\ [s EXCEPT !.partial = p, !.state = "Ground"] \in Scanner
           /\ \A ms \in Seq(Nat) : [s EXCEPT !.partial = p, !.modes = ms] \in Scanner
BY DEF Scanner

\* end_mode_number keeps the type.
LEMMA EndType ==
    ASSUME NEW s \in Scanner
    PROVE  end_mode_number(s) \in Scanner
<1>1. s.partial # NoNumber => Append(s.modes, s.partial) \in Seq(Nat)
  BY DEF Scanner
<1> QED
  BY <1>1, ScannerFields DEF end_mode_number

\* push_digit keeps the type.
LEMMA PushType ==
    ASSUME NEW s \in Scanner, NEW d \in Nat
    PROVE  push_digit(s, d) \in Scanner
<1> DEFINE widened == (IF s.partial = NoNumber THEN 0 ELSE s.partial) * 10 + d
<1>1. widened \in Nat
  BY DEF Scanner
<1> HIDE DEF widened
<1>2. [s EXCEPT !.partial = widened] \in Scanner
  BY <1>1, ScannerFields
<1>3. [s EXCEPT !.partial = NoNumber, !.state = "Ground"] \in Scanner
  BY ScannerFields
<1> QED
  BY <1>2, <1>3, Zenon DEF push_digit, widened

\* A change of modes keeps the type.
LEMMA ChangedType ==
    ASSUME NEW u \in Terminal, NEW ms, NEW b
    PROVE  Changed(u, ms, b = "h") \in Terminal
<1> DEFINE S == IF b = "h" THEN u.set \cup (ms \cap Tracked)
                           ELSE u.set \ (ms \cap Tracked)
           A == IF ms \cap AltModes # {} THEN b = "h" ELSE u.alt
<1>1. S \in SUBSET Tracked /\ A \in BOOLEAN
  BY DEF Terminal
<1>2. \A x \in SUBSET Tracked, y \in BOOLEAN : [u EXCEPT !.set = x, !.alt = y] \in Terminal
  BY DEF Terminal
<1>3. [u EXCEPT !.set = S, !.alt = A] \in Terminal
  <2> HIDE DEF S, A
  <2> QED BY <1>1, <1>2
<1>4. Changed(u, ms, b = "h") = [u EXCEPT !.set = S, !.alt = A]
  BY Zenon DEF Changed
<1> QED
  BY <1>3, <1>4, Zenon

\* A byte keeps the type.
LEMMA ScanByteType ==
    ASSUME NEW t \in Terminal, NEW b
    PROVE  ScanByte(t, b) \in Terminal
<1> DEFINE s == t.scan
           ended == end_mode_number(s)
<1>1. s \in Scanner /\ ended \in Scanner
  BY EndType DEF Terminal
<1>2. \A state \in {"Ground", "Esc", "Csi", "Params"} :
        [t EXCEPT !.scan.state = state] \in Terminal
  BY DEF Terminal, Scanner
<1>4. \A u \in Terminal : FullReset(u) \in Terminal
  BY DEF Terminal, FullReset, Defaults, Tracked
<1>5. [t EXCEPT !.scan = [NewScanner EXCEPT !.state = "Params"]] \in Terminal
  <2>1. [NewScanner EXCEPT !.state = "Params"] \in Scanner
    <3>1. <<>> \in Seq(Nat)
      OBVIOUS
    <3> QED BY <3>1 DEF NewScanner, Scanner
  <2> QED BY <2>1 DEF Terminal
<1>6. b \in DOMAIN Digit => [t EXCEPT !.scan = push_digit(s, Digit[b])] \in Terminal
  <2>1. b \in DOMAIN Digit => Digit[b] \in Nat
    BY DEF Digit
  <2>2. b \in DOMAIN Digit => push_digit(s, Digit[b]) \in Scanner
    BY <2>1, <1>1, PushType
  <2> QED BY <2>2 DEF Terminal
<1>7. [t EXCEPT !.scan = ended] \in Terminal
  BY <1>1 DEF Terminal
<1>8. Changed([t EXCEPT !.scan.state = "Ground"], Range(ended.modes), b = "h") \in Terminal
  <2>1. [t EXCEPT !.scan.state = "Ground"] \in Terminal
    BY <1>2
  <2> QED BY <2>1, ChangedType, Zenon
<1> HIDE DEF s, ended
<1> QED
  BY <1>2, <1>4, <1>5, <1>6, <1>7, <1>8 DEF ScanByte, s, ended

\* A scan is one step for each byte.
LEMMA ScanSteps ==
    ASSUME NEW t \in Terminal, NEW bytes \in Seq(Byte)
    PROVE  \E f \in [0..Len(bytes) -> Terminal] :
              /\ f[0] = t
              /\ \A i \in 1..Len(bytes) : f[i] = ScanByte(f[i - 1], bytes[i])
              /\ Scan(t, bytes) = f[Len(bytes)]
<1> DEFINE n == Len(bytes)
           G == [p \in Terminal \X (1..n) |-> ScanByte(p[1], bytes[p[2]])]
           Recurs(h) == h = [s \in SUBSET (1..n) |-> IF s = {} THEN t
                              ELSE ScanByte(h[s \ {Max(s)}], bytes[Max(s)])]
           iter == CHOOSE h : Recurs(h)
<1>1. n \in Nat /\ DOMAIN bytes = 1..n
  OBVIOUS
<1>2. Scan(t, bytes) = iter[1..n]
  BY <1>1 DEF Scan, FoldLeft, MapThenFoldSet
<1>3. Recurs(iter)
  <2>1. G \in [Terminal \X (1..n) -> Terminal]
    BY ScanByteType
  <2>2. PICK g : Folds(Terminal, t, n, G, n, g)
    <3> HIDE DEF G, n
    <3> QED BY <2>1, <1>1, FoldExists
  <2>3. \A s \in SUBSET (1..n) : s # {} => Max(s) \in s
    <3> SUFFICES ASSUME NEW s \in SUBSET (1..n), s # {} PROVE Max(s) \in s
      OBVIOUS
    <3>1. \E x \in s : \A y \in s : x >= y
      BY <1>1, IntervalMax
    <3> QED BY <3>1 DEF Max
  <2>4. \A s \in SUBSET (1..n) : s # {} =>
          G[<<g[s \ {Max(s)}], Max(s)>>] = ScanByte(g[s \ {Max(s)}], bytes[Max(s)])
    <3> SUFFICES ASSUME NEW s \in SUBSET (1..n), s # {}
                 PROVE  G[<<g[s \ {Max(s)}], Max(s)>>]
                          = ScanByte(g[s \ {Max(s)}], bytes[Max(s)])
      OBVIOUS
    <3>1. g[s \ {Max(s)}] \in Terminal
      BY <2>2 DEF Folds
    <3>2. Max(s) \in 1..n
      BY <2>3
    <3> QED BY <3>1, <3>2
  <2>5. Recurs(g)
    BY <2>2, <2>4, Zenon DEF Folds
  <2> QED BY <2>5, Zenon
<1> DEFINE f == [i \in 0..n |-> iter[1..i]]
<1>4. f[0] = t
  <2>1. 1..0 = {} /\ {} \in SUBSET (1..n)
    OBVIOUS
  <2>2. iter[{}] = t
    <3> HIDE DEF iter
    <3> QED BY <1>3, <2>1
  <2>3. f[0] = iter[1..0]
    BY <1>1
  <2> QED BY <2>1, <2>2, <2>3
<1>5. \A i \in 1..n : f[i] = ScanByte(f[i - 1], bytes[i])
  <2> SUFFICES ASSUME NEW i \in 1..n PROVE f[i] = ScanByte(f[i - 1], bytes[i])
    OBVIOUS
  <2>1. Max(1..i) = i /\ (1..i) \ {Max(1..i)} = 1..(i - 1)
    <3>1. i - 1 \in Nat /\ (i - 1) + 1 = i /\ i \in 1..i
      BY <1>1
    <3>2. Max(1..i) = i
      BY <3>1, MaxOfInterval
    <3> QED BY <3>2
  <2>2. iter[1..i] = ScanByte(iter[1..(i - 1)], bytes[i])
    <3>1. 1..i \in SUBSET (1..n) /\ i \in 1..i
      BY <1>1
    <3> HIDE DEF iter
    <3> QED BY <1>3, <2>1, <3>1
  <2>3. f[i] = iter[1..i] /\ f[i - 1] = iter[1..(i - 1)]
    BY <1>1
  <2> QED BY <2>2, <2>3
<1>6. f \in [0..n -> Terminal]
  <2> DEFINE P == {i \in Nat : i <= n => f[i] \in Terminal}
  <2>1. 0 \in P
    BY <1>4
  <2>2. ASSUME NEW i \in Nat, i \in P PROVE i + 1 \in P
    <3>1. SUFFICES ASSUME i + 1 <= n PROVE f[i + 1] \in Terminal
      OBVIOUS
    <3>2. f[i] \in Terminal
      BY <2>2, <3>1
    <3>3. f[i + 1] = ScanByte(f[i], bytes[i + 1])
      <4>1. i + 1 \in 1..n /\ (i + 1) - 1 = i
        BY <1>1, <3>1
      <4> HIDE DEF f
      <4> QED BY <1>5, <4>1
    <3> QED BY <3>2, <3>3, ScanByteType
  <2>3. Nat \subseteq P
    <3> HIDE DEF P
    <3> QED BY <2>1, <2>2, NatSetInduction
  <2>4. \A i \in 0..n : f[i] \in Terminal
    <3> SUFFICES ASSUME NEW i \in 0..n PROVE f[i] \in Terminal
      OBVIOUS
    <3>1. i \in Nat /\ i <= n
      BY <1>1
    <3>2. i \in P
      BY <3>1, <2>3
    <3> HIDE DEF f
    <3> QED BY <3>1, <3>2
  <2>5. f = [i \in 0..n |-> f[i]]
    OBVIOUS
  <2> HIDE DEF f
  <2> QED BY <2>4, <2>5
<1>7. Scan(t, bytes) = f[n]
  BY <1>1, <1>2
<1> HIDE DEF f
<1> QED
  BY <1>4, <1>5, <1>6, <1>7

\* A scan keeps the type.
LEMMA ScanType ==
    ASSUME NEW t \in Terminal, NEW bytes \in Seq(Byte)
    PROVE  Scan(t, bytes) \in Terminal
<1>1. PICK f \in [0..Len(bytes) -> Terminal] : Scan(t, bytes) = f[Len(bytes)]
  BY ScanSteps
<1>2. Len(bytes) \in 0..Len(bytes)
  OBVIOUS
<1> QED
  BY <1>1, <1>2

\* No byte does nothing.
LEMMA ScanEmpty ==
    ASSUME NEW t \in Terminal
    PROVE  Scan(t, <<>>) = t
<1>1. <<>> \in Seq(Byte) /\ Len(<<>>) = 0
  OBVIOUS
<1>2. PICK f \in [0..Len(<<>>) -> Terminal] : f[0] = t /\ Scan(t, <<>>) = f[Len(<<>>)]
  BY <1>1, ScanSteps
<1> QED
  BY <1>1, <1>2

\* What two terminals have in common, if every byte keeps it, a scan keeps.
LEMMA ScanKeeps ==
    ASSUME NEW K, NEW r \in Terminal, NEW s \in Terminal, NEW bytes \in Seq(Byte),
           <<r, s>> \in K,
           \A x, y \in Terminal, b \in Byte :
              <<x, y>> \in K => <<ScanByte(x, b), ScanByte(y, b)>> \in K
    PROVE  <<Scan(r, bytes), Scan(s, bytes)>> \in K
<1> DEFINE n == Len(bytes)
<1>1. PICK f \in [0..n -> Terminal] :
        /\ f[0] = r
        /\ \A i \in 1..n : f[i] = ScanByte(f[i - 1], bytes[i])
        /\ Scan(r, bytes) = f[n]
  BY ScanSteps
<1>2. PICK g \in [0..n -> Terminal] :
        /\ g[0] = s
        /\ \A i \in 1..n : g[i] = ScanByte(g[i - 1], bytes[i])
        /\ Scan(s, bytes) = g[n]
  BY ScanSteps
<1>3. n \in Nat /\ \A i \in 1..n : bytes[i] \in Byte
  OBVIOUS
<1> DEFINE P == {i \in Nat : i <= n => <<f[i], g[i]>> \in K}
<1> HIDE DEF n
<1>4. 0 \in P
  BY <1>1, <1>2
<1>5. ASSUME NEW i \in Nat, i \in P PROVE i + 1 \in P
  <2>1. SUFFICES ASSUME i + 1 <= n PROVE <<f[i + 1], g[i + 1]>> \in K
    OBVIOUS
  <2>2. i + 1 \in 1..n /\ (i + 1) - 1 = i /\ i \in 0..n
    BY <2>1, <1>3
  <2>3. <<f[i], g[i]>> \in K
    BY <1>5, <2>2
  <2>4. f[i] \in Terminal /\ g[i] \in Terminal /\ bytes[i + 1] \in Byte
    BY <2>2, <1>3
  <2>5. f[i + 1] = ScanByte(f[i], bytes[i + 1]) /\ g[i + 1] = ScanByte(g[i], bytes[i + 1])
    BY <2>2, <1>1, <1>2
  <2> QED BY <2>3, <2>4, <2>5
<1>6. n \in P
  <2> HIDE DEF P
  <2> QED BY <1>3, <1>4, <1>5, NatSetInduction
<1> QED
  BY <1>1, <1>2, <1>3, <1>6

\* A scan goes on where the one before it ended: chunks may be cut anywhere.
LEMMA ScanConcat ==
    ASSUME NEW t \in Terminal, NEW a \in Seq(Byte), NEW c \in Seq(Byte)
    PROVE  Scan(t, a \o c) = Scan(Scan(t, a), c)
<1> DEFINE n == Len(a)
           m == Len(c)
           ac == a \o c
<1>1. /\ n \in Nat /\ m \in Nat /\ ac \in Seq(Byte) /\ Len(ac) = n + m
      /\ \A i \in 1..n : ac[i] = a[i]
      /\ \A i \in 1..m : ac[n + i] = c[i]
  OBVIOUS
<1>2. PICK f \in [0..n -> Terminal] :
        /\ f[0] = t
        /\ \A i \in 1..n : f[i] = ScanByte(f[i - 1], a[i])
        /\ Scan(t, a) = f[n]
  BY ScanSteps
<1>3. Scan(t, a) \in Terminal
  BY ScanType
<1>4. PICK g \in [0..m -> Terminal] :
        /\ g[0] = Scan(t, a)
        /\ \A i \in 1..m : g[i] = ScanByte(g[i - 1], c[i])
        /\ Scan(Scan(t, a), c) = g[m]
  BY <1>3, ScanSteps
<1> HIDE DEF ac
<1>5. PICK h \in [0..Len(ac) -> Terminal] :
        /\ h[0] = t
        /\ \A i \in 1..Len(ac) : h[i] = ScanByte(h[i - 1], ac[i])
        /\ Scan(t, ac) = h[Len(ac)]
  BY <1>1, ScanSteps
<1> HIDE DEF n, m
<1> DEFINE P == {i \in Nat : i <= n => h[i] = f[i]}
           R == {i \in Nat : i <= m => h[n + i] = g[i]}
<1>6. n \in P
  <2>1. 0 \in P
    BY <1>2, <1>5
  <2>2. ASSUME NEW i \in Nat, i \in P PROVE i + 1 \in P
    <3>1. SUFFICES ASSUME i + 1 <= n PROVE h[i + 1] = f[i + 1]
      OBVIOUS
    <3>2. i + 1 \in 1..n /\ i + 1 \in 1..Len(ac) /\ (i + 1) - 1 = i
      BY <3>1, <1>1
    <3>3. h[i] = f[i]
      BY <1>1, <2>2, <3>1
    <3>4. h[i + 1] = ScanByte(h[i], ac[i + 1]) /\ f[i + 1] = ScanByte(f[i], a[i + 1])
      BY <3>2, <1>2, <1>5
    <3> QED BY <3>2, <3>3, <3>4, <1>1
  <2> HIDE DEF P
  <2> QED BY <2>1, <2>2, <1>1, NatSetInduction
<1>7. m \in R
  <2>1. 0 \in R
    <3>1. h[n] = f[n] /\ n + 0 = n
      BY <1>1, <1>6
    <3> QED BY <3>1, <1>2, <1>4
  <2>2. ASSUME NEW i \in Nat, i \in R PROVE i + 1 \in R
    <3>1. SUFFICES ASSUME i + 1 <= m PROVE h[n + (i + 1)] = g[i + 1]
      OBVIOUS
    <3>2. /\ i + 1 \in 1..m /\ n + (i + 1) \in 1..Len(ac)
          /\ (i + 1) - 1 = i /\ (n + (i + 1)) - 1 = n + i
      <4>1. n \in Nat /\ m \in Nat /\ Len(ac) = n + m
        BY <1>1
      <4> QED BY <3>1, <4>1
    <3>3. h[n + i] = g[i]
      BY <1>1, <2>2, <3>1
    <3>4. /\ h[n + (i + 1)] = ScanByte(h[n + i], ac[n + (i + 1)])
          /\ g[i + 1] = ScanByte(g[i], c[i + 1])
      BY <3>2, <1>4, <1>5
    <3> QED BY <3>2, <3>3, <3>4, <1>1
  <2> HIDE DEF R
  <2> QED BY <2>1, <2>2, <1>1, NatSetInduction
<1>8. Scan(t, ac) = Scan(Scan(t, a), c)
  BY <1>1, <1>4, <1>5, <1>7
<1> QED
  BY <1>8 DEF ac

\* A sequence of one.
LEMMA OneElement ==
    ASSUME NEW S, NEW b \in S
    PROVE  <<b>> \in Seq(S) /\ Len(<<b>>) = 1 /\ <<b>>[1] = b
OBVIOUS

\* A sequence of three.
LEMMA ThreeElements ==
    ASSUME NEW S, NEW a \in S, NEW b \in S, NEW c \in S
    PROVE  <<a, b, c>> \in Seq(S)
OBVIOUS

\* A scan of one byte.
LEMMA ScanOne ==
    ASSUME NEW t \in Terminal, NEW b \in Byte
    PROVE  Scan(t, <<b>>) = ScanByte(t, b)
<1> DEFINE q == <<b>>
<1>1. q \in Seq(Byte) /\ Len(q) = 1 /\ q[1] = b
  BY OneElement, Zenon
<1> HIDE DEF q
<1>2. PICK f \in [0..Len(q) -> Terminal] :
        /\ f[0] = t
        /\ \A i \in 1..Len(q) : f[i] = ScanByte(f[i - 1], q[i])
        /\ Scan(t, q) = f[Len(q)]
  BY <1>1, ScanSteps
<1>3. f[1] = ScanByte(f[0], q[1])
  BY <1>1, <1>2
<1>4. Scan(t, q) = ScanByte(t, b)
  BY <1>1, <1>2, <1>3
<1> QED
  BY <1>4 DEF q

\* A scan that begins with byte b goes on from where b leads.
LEMMA ScanCons ==
    ASSUME NEW t \in Terminal, NEW b \in Byte, NEW rest \in Seq(Byte)
    PROVE  Scan(t, <<b>> \o rest) = Scan(ScanByte(t, b), rest)
<1>1. <<b>> \in Seq(Byte)
  BY OneElement, Zenon
<1>2. Scan(t, <<b>> \o rest) = Scan(Scan(t, <<b>>), rest)
  BY <1>1, ScanConcat
<1>3. Scan(t, <<b>>) = ScanByte(t, b)
  BY ScanOne, Zenon
<1> QED
  BY <1>2, <1>3, Zenon

-----------------------------------------------------------------------------

\* A terminal whose scanner is among the numbers of a sequence, and one whose
\* scanner has come back from there.
Within(ms, p, set, alt) ==
    [scan |-> [state |-> "Params", modes |-> ms, partial |-> p], set |-> set, alt |-> alt]
Back(ms, p, set, alt) ==
    [scan |-> [state |-> "Ground", modes |-> ms, partial |-> p], set |-> set, alt |-> alt]

\* A terminal within a sequence, and back from one.
LEMMA WithinType ==
    ASSUME NEW ms \in Seq(Nat), NEW p \in Nat \cup {NoNumber},
           NEW set \in SUBSET Tracked, NEW alt \in BOOLEAN
    PROVE  Within(ms, p, set, alt) \in Terminal /\ Back(ms, p, set, alt) \in Terminal
BY DEF Within, Back, Terminal, Scanner

\* The fields of a terminal.
LEMMA TerminalFields ==
    ASSUME NEW t \in Terminal
    PROVE  /\ t.scan \in Scanner /\ t.set \in SUBSET Tracked /\ t.alt \in BOOLEAN
           /\ t = [scan |-> t.scan, set |-> t.set, alt |-> t.alt]
           /\ t.scan = [state |-> t.scan.state, modes |-> t.scan.modes,
                        partial |-> t.scan.partial]
BY DEF Terminal, Scanner

\* Whatever the scanner was in, an introducer begins anew.
LEMMA Introduced ==
    ASSUME NEW t \in Terminal
    PROVE  Scan(t, <<"esc", "[", "?">>) = Within(<<>>, NoNumber, t.set, t.alt)
<1> DEFINE q == <<"esc", "[", "?">>
<1>1. q \in Seq(Byte) /\ Len(q) = 3 /\ q[1] = "esc" /\ q[2] = "[" /\ q[3] = "?"
  <2>1. q \in Seq(Byte) /\ Len(q) = 3
    <3>1. {"esc", "[", "?"} \subseteq Byte
      BY DEF Byte
    <3> QED BY <3>1
  <2>2. q[1] = "esc" /\ q[2] = "[" /\ q[3] = "?"
    OBVIOUS
  <2> QED BY <2>1, <2>2
<1> HIDE DEF q
<1>2. PICK f \in [0..Len(q) -> Terminal] :
        /\ f[0] = t
        /\ \A i \in 1..Len(q) : f[i] = ScanByte(f[i - 1], q[i])
        /\ Scan(t, q) = f[Len(q)]
  BY <1>1, ScanSteps
<1>3. /\ f[1] = ScanByte(t, "esc") /\ f[2] = ScanByte(f[1], "[")
      /\ f[3] = ScanByte(f[2], "?") /\ Scan(t, q) = f[3]
      /\ f[1] \in Terminal /\ f[2] \in Terminal
  BY <1>1, <1>2
<1>4. f[1].scan.state = "Esc" /\ f[1].set = t.set /\ f[1].alt = t.alt
  <2>1. f[1] = [t EXCEPT !.scan.state = "Esc"]
    BY <1>3, ScanByteArms
  <2> QED BY <2>1 DEF Terminal, Scanner
<1>5. f[2].scan.state = "Csi" /\ f[2].set = t.set /\ f[2].alt = t.alt
  <2>1. f[2] = [f[1] EXCEPT !.scan.state = "Csi"]
    BY <1>3, <1>4, ScanByteArms
  <2> QED BY <2>1, <1>3, <1>4 DEF Terminal, Scanner
<1>6. f[3] = [f[2] EXCEPT !.scan = [NewScanner EXCEPT !.state = "Params"]]
  BY <1>3, <1>5, ScanByteArms
<1>7. [NewScanner EXCEPT !.state = "Params"]
        = [state |-> "Params", modes |-> <<>>, partial |-> NoNumber]
  BY DEF NewScanner
<1>8. f[3] = Within(<<>>, NoNumber, t.set, t.alt)
  BY <1>3, <1>5, <1>6, <1>7, TerminalFields DEF Within
<1> QED
  BY <1>3, <1>8 DEF q

\* A digit widens the number.
LEMMA AfterDigit ==
    ASSUME TerminalSyncAssumption, NEW ms \in Seq(Nat), NEW p \in Nat \cup {NoNumber},
           NEW set \in SUBSET Tracked, NEW alt \in BOOLEAN,
           NEW b \in DOMAIN Digit, NEW n \in Nat,
           n = (IF p = NoNumber THEN 0 ELSE p) * 10 + Digit[b], n <= MaxNumber
    PROVE  ScanByte(Within(ms, p, set, alt), b) = Within(ms, n, set, alt)
<1> DEFINE t == Within(ms, p, set, alt)
<1>1. t.scan.state = "Params" /\ t.scan.partial = p
  BY DEF Within
<1>2. b \in DOMAIN Digit
  OBVIOUS
<1>3. push_digit(t.scan, Digit[b]) = [t.scan EXCEPT !.partial = n]
  BY <1>1 DEF push_digit, TerminalSyncAssumption
<1>4. ScanByte(t, b) = [t EXCEPT !.scan = push_digit(t.scan, Digit[b])]
  <2> HIDE DEF t
  <2> QED BY <1>1, ScanByteArms
<1>5. [t EXCEPT !.scan = [t.scan EXCEPT !.partial = n]] = Within(ms, n, set, alt)
  BY DEF Within
<1> QED
  BY <1>3, <1>4, <1>5

\* A number that ends joins the others.
LEMMA Ended ==
    ASSUME NEW ms \in Seq(Nat), NEW p \in Nat, Len(ms) # MaxModes, NEW state
    PROVE  end_mode_number([state |-> state, modes |-> ms, partial |-> p])
             = [state |-> state, modes |-> Append(ms, p), partial |-> NoNumber]
<1>1. p # NoNumber
  BY DEF NoNumber
<1> QED
  BY <1>1 DEF end_mode_number

\* A semicolon ends a number.
LEMMA AfterSemicolon ==
    ASSUME NEW ms \in Seq(Nat), NEW p \in Nat, Len(ms) # MaxModes,
           NEW set \in SUBSET Tracked, NEW alt \in BOOLEAN
    PROVE  ScanByte(Within(ms, p, set, alt), ";") = Within(Append(ms, p), NoNumber, set, alt)
<1> DEFINE t == Within(ms, p, set, alt)
<1>1. t.scan = [state |-> "Params", modes |-> ms, partial |-> p]
  BY DEF Within
<1>2. end_mode_number(t.scan)
        = [state |-> "Params", modes |-> Append(ms, p), partial |-> NoNumber]
  BY <1>1, Ended
<1>4. ScanByte(t, ";") = [t EXCEPT !.scan = end_mode_number(t.scan)]
  <2>1. t.scan.state = "Params"
    BY <1>1
  <2> HIDE DEF t
  <2> QED BY <2>1, ScanByteArms
<1> QED
  BY <1>2, <1>4 DEF Within

\* The final byte applies the numbers.
LEMMA AfterFinal ==
    ASSUME NEW ms \in Seq(Nat), NEW p \in Nat, Len(ms) # MaxModes,
           NEW set \in SUBSET Tracked, NEW alt \in BOOLEAN
    PROVE  /\ Range(Append(ms, p)) \cap AltModes = {} =>
                /\ ScanByte(Within(ms, p, set, alt), "h")
                     = Back(ms, p, set \cup (Range(Append(ms, p)) \cap Tracked), alt)
                /\ ScanByte(Within(ms, p, set, alt), "l")
                     = Back(ms, p, set \ (Range(Append(ms, p)) \cap Tracked), alt)
           /\ Range(Append(ms, p)) \cap AltModes # {} =>
                /\ ScanByte(Within(ms, p, set, alt), "h")
                     = Back(ms, p, set \cup (Range(Append(ms, p)) \cap Tracked), TRUE)
                /\ ScanByte(Within(ms, p, set, alt), "l")
                     = Back(ms, p, set \ (Range(Append(ms, p)) \cap Tracked), FALSE)
<1> DEFINE t == Within(ms, p, set, alt)
           modes == Range(Append(ms, p))
           ended == end_mode_number(t.scan)
           u == [t EXCEPT !.scan.state = "Ground"]
<1>1. t.scan = [state |-> "Params", modes |-> ms, partial |-> p]
  BY DEF Within
<1>2. ended = [state |-> "Params", modes |-> Append(ms, p), partial |-> NoNumber]
  BY <1>1, Ended
<1>3. ended.state = "Params" /\ ended.modes = Append(ms, p) /\ Range(ended.modes) = modes
  BY <1>2
<1>4. u = Back(ms, p, set, alt)
  BY DEF Within, Back
<1>5. t.scan.state = "Params"
  BY <1>1
<1> HIDE DEF t
<1>6. ASSUME NEW b \in {"h", "l"} PROVE ScanByte(t, b) = Changed(u, modes, b = "h")
  <2>1. ScanByte(t, b) =
          IF end_mode_number(t.scan).state = "Params"
          THEN Changed([t EXCEPT !.scan.state = "Ground"],
                       Range(end_mode_number(t.scan).modes), b = "h")
          ELSE [t EXCEPT !.scan.state = "Ground"]
    BY <1>5, <1>6, ScanByteArms, Zenon
  <2> HIDE DEF ended, u
  <2> QED BY <2>1, <1>3, Zenon DEF ended, u
<1> HIDE DEF ended, u, modes
<1>7. ASSUME NEW b \in {"h", "l"}
      PROVE  ScanByte(t, b) =
          [u EXCEPT !.set = IF b = "h" THEN @ \cup (modes \cap Tracked)
                                       ELSE @ \ (modes \cap Tracked),
                    !.alt = IF modes \cap AltModes # {} THEN b = "h" ELSE @]
  BY <1>6, Zenon DEF Changed
<1>8. /\ ScanByte(t, "h") = [u EXCEPT !.set = @ \cup (modes \cap Tracked),
                                    !.alt = IF modes \cap AltModes # {} THEN TRUE ELSE @]
      /\ ScanByte(t, "l") = [u EXCEPT !.set = @ \ (modes \cap Tracked),
                                    !.alt = IF modes \cap AltModes # {} THEN FALSE ELSE @]
  BY <1>7
<1>9. modes \cap AltModes = {} =>
        /\ ScanByte(t, "h") = Back(ms, p, set \cup (modes \cap Tracked), alt)
        /\ ScanByte(t, "l") = Back(ms, p, set \ (modes \cap Tracked), alt)
  BY <1>4, <1>8 DEF Back
<1>10. modes \cap AltModes # {} =>
        /\ ScanByte(t, "h") = Back(ms, p, set \cup (modes \cap Tracked), TRUE)
        /\ ScanByte(t, "l") = Back(ms, p, set \ (modes \cap Tracked), FALSE)
  BY <1>4, <1>8 DEF Back
<1> QED
  BY <1>9, <1>10, Zenon DEF t, modes

\* A scan of three bytes.
LEMMA ScanThree ==
    ASSUME NEW t \in Terminal, NEW a \in Byte, NEW b \in Byte, NEW c \in Byte
    PROVE  Scan(t, <<a, b, c>>) = ScanByte(ScanByte(ScanByte(t, a), b), c)
<1> DEFINE q == <<a, b, c>>
<1>1. q \in Seq(Byte) /\ Len(q) = 3 /\ q[1] = a /\ q[2] = b /\ q[3] = c
  OBVIOUS
<1> HIDE DEF q
<1>2. PICK f \in [0..Len(q) -> Terminal] :
        /\ f[0] = t
        /\ \A i \in 1..Len(q) : f[i] = ScanByte(f[i - 1], q[i])
        /\ Scan(t, q) = f[Len(q)]
  BY <1>1, ScanSteps
<1>3. /\ f[1] = ScanByte(f[0], a) /\ f[2] = ScanByte(f[1], b) /\ f[3] = ScanByte(f[2], c)
      /\ f[0] = t /\ Scan(t, q) = f[3]
  BY <1>1, <1>2
<1> QED
  BY <1>3, Zenon DEF q

\* The bytes of the sequences that are sent.
LEMMA ProtocolBytes ==
    {"esc", "[", "?", ";", "1", "4", "7", "h", "l", "m"} \subseteq Byte
BY DEF Byte

\* What the digits stand for.
LEMMA DigitValues == Digit["1"] = 1 /\ Digit["4"] = 4 /\ Digit["7"] = 7
BY DEF Digit

\* The numbers of a set of modes leave the scanner with that set.
LEMMA ScanNumbers ==
    ASSUME TerminalSyncAssumption, NEW set \in SUBSET Tracked, set # {}
    PROVE  \E ms \in Seq(Nat), p \in Nat :
              /\ Len(ms) # MaxModes
              /\ Range(Append(ms, p)) = set
              /\ \A S \in SUBSET Tracked, a \in BOOLEAN :
                    Scan(Within(<<>>, NoNumber, S, a), Numbers(set)) = Within(ms, p, S, a)
<1>1. <<>> \in Seq(Nat) /\ Len(<<>>) = 0 /\ Len(<<>>) # MaxModes
  BY DEF TerminalSyncAssumption
<1>2. "1" \in Byte /\ "7" \in Byte /\ ";" \in Byte
  BY ProtocolBytes
<1>3. "1" \in DOMAIN Digit /\ "7" \in DOMAIN Digit
  BY DigitDomain
<1>4. ASSUME NEW ms \in Seq(Nat), NEW S \in SUBSET Tracked, NEW a \in BOOLEAN
      PROVE  /\ ScanByte(Within(ms, NoNumber, S, a), "1") = Within(ms, 1, S, a)
             /\ ScanByte(Within(ms, NoNumber, S, a), "7") = Within(ms, 7, S, a)
  <2>1. /\ NoNumber \in Nat \cup {NoNumber} /\ 1 \in Nat /\ 7 \in Nat
        /\ 1 = (IF NoNumber = NoNumber THEN 0 ELSE NoNumber) * 10 + Digit["1"]
        /\ 1 <= MaxNumber
        /\ 7 = (IF NoNumber = NoNumber THEN 0 ELSE NoNumber) * 10 + Digit["7"]
        /\ 7 <= MaxNumber
    BY DigitValues DEF TerminalSyncAssumption
  <2>2. ScanByte(Within(ms, NoNumber, S, a), "1") = Within(ms, 1, S, a)
    BY <1>3, <2>1, AfterDigit, ZenonT(60)
  <2>3. ScanByte(Within(ms, NoNumber, S, a), "7") = Within(ms, 7, S, a)
    BY <1>3, <2>1, AfterDigit, ZenonT(60)
  <2> QED BY <2>2, <2>3
<1>5. CASE set = {1}
  <2>1. Numbers(set) = <<"1">>
    <3>1. 7 \in Tracked /\ 7 \notin set /\ 1 \in set
      BY <1>5 DEF Tracked
    <3>2. set # Tracked
      BY <3>1
    <3> QED BY <3>1, <3>2 DEF Numbers
  <2>2. \A S \in SUBSET Tracked, a \in BOOLEAN :
          Scan(Within(<<>>, NoNumber, S, a), Numbers(set)) = Within(<<>>, 1, S, a)
    <3> SUFFICES ASSUME NEW S \in SUBSET Tracked, NEW a \in BOOLEAN
                 PROVE  Scan(Within(<<>>, NoNumber, S, a), Numbers(set)) = Within(<<>>, 1, S, a)
      OBVIOUS
    <3>1. Within(<<>>, NoNumber, S, a) \in Terminal
      BY <1>1, WithinType
    <3>2. ScanByte(Within(<<>>, NoNumber, S, a), "1") = Within(<<>>, 1, S, a)
      BY <1>1, <1>4, Zenon
    <3>3. Scan(Within(<<>>, NoNumber, S, a), <<"1">>) =
            ScanByte(Within(<<>>, NoNumber, S, a), "1")
      BY <1>2, <3>1, ScanOne, Zenon
    <3> QED BY <2>1, <3>2, <3>3, Zenon
  <2>3. Range(Append(<<>>, 1)) = set
    BY <1>5 DEF Range
  <2> QED BY <1>1, <2>2, <2>3
<1>6. CASE set = {7}
  <2>1. Numbers(set) = <<"7">>
    <3>1. 1 \in Tracked /\ 1 \notin set
      BY <1>6 DEF Tracked
    <3>2. set # Tracked
      BY <3>1
    <3> QED BY <3>1, <3>2 DEF Numbers
  <2>2. \A S \in SUBSET Tracked, a \in BOOLEAN :
          Scan(Within(<<>>, NoNumber, S, a), Numbers(set)) = Within(<<>>, 7, S, a)
    <3> SUFFICES ASSUME NEW S \in SUBSET Tracked, NEW a \in BOOLEAN
                 PROVE  Scan(Within(<<>>, NoNumber, S, a), Numbers(set)) = Within(<<>>, 7, S, a)
      OBVIOUS
    <3>1. Within(<<>>, NoNumber, S, a) \in Terminal
      BY <1>1, WithinType
    <3>2. ScanByte(Within(<<>>, NoNumber, S, a), "7") = Within(<<>>, 7, S, a)
      BY <1>1, <1>4, Zenon
    <3>3. Scan(Within(<<>>, NoNumber, S, a), <<"7">>) =
            ScanByte(Within(<<>>, NoNumber, S, a), "7")
      BY <1>2, <3>1, ScanOne, Zenon
    <3> QED BY <2>1, <3>2, <3>3, Zenon
  <2>3. Range(Append(<<>>, 7)) = set
    BY <1>6 DEF Range
  <2> QED BY <1>1, <2>2, <2>3
<1>7. CASE set = {1, 7}
  <2>1. Numbers(set) = <<"1", ";", "7">>
    BY <1>7 DEF Numbers, Tracked
  <2>2. <<1>> \in Seq(Nat) /\ Len(<<1>>) # MaxModes /\ Append(<<>>, 1) = <<1>>
    BY DEF TerminalSyncAssumption
  <2>3. \A S \in SUBSET Tracked, a \in BOOLEAN :
          Scan(Within(<<>>, NoNumber, S, a), Numbers(set)) = Within(<<1>>, 7, S, a)
    <3> SUFFICES ASSUME NEW S \in SUBSET Tracked, NEW a \in BOOLEAN
                 PROVE  Scan(Within(<<>>, NoNumber, S, a), Numbers(set)) = Within(<<1>>, 7, S, a)
      OBVIOUS
    <3>1. ScanByte(Within(<<>>, NoNumber, S, a), "1") = Within(<<>>, 1, S, a)
      BY <1>1, <1>4
    <3>2. ScanByte(Within(<<>>, 1, S, a), ";") = Within(<<1>>, NoNumber, S, a)
      <4>1. ScanByte(Within(<<>>, 1, S, a), ";") = Within(Append(<<>>, 1), NoNumber, S, a)
        BY <1>1, AfterSemicolon
      <4> QED BY <2>2, <4>1, Zenon
    <3>3. ScanByte(Within(<<1>>, NoNumber, S, a), "7") = Within(<<1>>, 7, S, a)
      BY <2>2, <1>4
    <3>4. Within(<<>>, NoNumber, S, a) \in Terminal
      BY <1>1, WithinType
    <3>5. Scan(Within(<<>>, NoNumber, S, a), <<"1", ";", "7">>) =
            ScanByte(ScanByte(ScanByte(Within(<<>>, NoNumber, S, a), "1"), ";"), "7")
      BY <1>2, <3>4, ScanThree, Zenon
    <3> QED BY <2>1, <3>1, <3>2, <3>3, <3>5, Zenon
  <2>4. Range(Append(<<1>>, 7)) = set
    BY <1>7 DEF Range
  <2> QED BY <2>2, <2>3, <2>4
<1> QED
  BY <1>5, <1>6, <1>7 DEF Tracked

\* A list of modes sets them, or resets them, and nothing else, whatever the
\* scanner was in the middle of.
LEMMA ScanNamed ==
    ASSUME TerminalSyncAssumption, NEW set \in SUBSET Tracked, set # {}, NEW final \in {"h", "l"}
    PROVE  /\ Named(set, final) \in Seq(Byte)
           /\ \E ms \in Seq(Nat), p \in Nat : \A t \in Terminal :
                 Scan(t, Named(set, final)) =
                    Back(ms, p, IF final = "h" THEN t.set \cup set ELSE t.set \ set, t.alt)
<1> DEFINE intro == <<"esc", "[", "?">>
           nums == Numbers(set)
           last == <<final>>
<1>1. final \in Byte /\ "1" \in Byte /\ "7" \in Byte /\ ";" \in Byte
  BY ProtocolBytes
<1>2. intro \in Seq(Byte)
  <2>1. {"esc", "[", "?"} \subseteq Byte
    BY ProtocolBytes
  <2> QED BY <2>1
<1>3. nums \in Seq(Byte)
  <2>1. <<"1">> \in Seq(Byte) /\ <<"7">> \in Seq(Byte)
    BY <1>1, OneElement, Zenon
  <2>2. <<"1", ";", "7">> \in Seq(Byte)
    BY <1>1, ThreeElements, Zenon
  <2> QED BY <2>1, <2>2, Zenon DEF Numbers
<1>4. last \in Seq(Byte)
  BY <1>1, OneElement, Zenon
<1>5. Named(set, final) = (intro \o nums) \o last
  BY Zenon DEF Named
<1> HIDE DEF intro, nums, last
<1>6. Named(set, final) \in Seq(Byte)
  BY <1>2, <1>3, <1>4, <1>5
<1>7. PICK ms \in Seq(Nat), p \in Nat :
        /\ Len(ms) # MaxModes
        /\ Range(Append(ms, p)) = set
        /\ \A S \in SUBSET Tracked, a \in BOOLEAN :
              Scan(Within(<<>>, NoNumber, S, a), nums) = Within(ms, p, S, a)
  BY ScanNumbers, Zenon DEF nums
<1>8. ASSUME NEW t \in Terminal
      PROVE  Scan(t, Named(set, final)) =
               Back(ms, p, IF final = "h" THEN t.set \cup set ELSE t.set \ set, t.alt)
  <2>1. t.set \in SUBSET Tracked /\ t.alt \in BOOLEAN
    BY TerminalFields
  <2>2. Scan(t, (intro \o nums) \o last) = Scan(Scan(Scan(t, intro), nums), last)
    <3>1. intro \o nums \in Seq(Byte)
      BY <1>2, <1>3
    <3>2. Scan(t, (intro \o nums) \o last) = Scan(Scan(t, intro \o nums), last)
      BY <3>1, <1>4, ScanConcat
    <3>3. Scan(t, intro \o nums) = Scan(Scan(t, intro), nums)
      BY <1>2, <1>3, ScanConcat
    <3> QED BY <3>2, <3>3
  <2>3. Scan(t, intro) = Within(<<>>, NoNumber, t.set, t.alt)
    BY Introduced DEF intro
  <2>4. Scan(Scan(t, intro), nums) = Within(ms, p, t.set, t.alt)
    BY <1>7, <2>1, <2>3
  <2>5. Scan(Within(ms, p, t.set, t.alt), last) = ScanByte(Within(ms, p, t.set, t.alt), final)
    BY <1>1, <2>1, WithinType, ScanOne DEF last
  <2>6. /\ ScanByte(Within(ms, p, t.set, t.alt), "h") =
              Back(ms, p, t.set \cup (set \cap Tracked), t.alt)
        /\ ScanByte(Within(ms, p, t.set, t.alt), "l") =
              Back(ms, p, t.set \ (set \cap Tracked), t.alt)
    <3>1. Range(Append(ms, p)) = set /\ Len(ms) # MaxModes
      BY <1>7
    <3>2. set \cap AltModes = {}
      <4>1. 47 \notin Tracked
        BY DEF Tracked
      <4> QED BY <4>1 DEF AltModes
    <3>3. Range(Append(ms, p)) \cap AltModes = {}
      BY <3>1, <3>2
    <3>4. /\ ScanByte(Within(ms, p, t.set, t.alt), "h") =
                Back(ms, p, t.set \cup (Range(Append(ms, p)) \cap Tracked), t.alt)
          /\ ScanByte(Within(ms, p, t.set, t.alt), "l") =
                Back(ms, p, t.set \ (Range(Append(ms, p)) \cap Tracked), t.alt)
      BY <3>1, <3>3, <2>1, AfterFinal, ZenonT(60)
    <3> QED BY <3>1, <3>4
  <2>7. set \cap Tracked = set
    OBVIOUS
  <2> QED BY <1>5, <2>2, <2>4, <2>5, <2>6, <2>7
<1> QED
  BY <1>6, <1>7, <1>8

\* The sync puts a terminal into the modes it names, wherever its scanner was.
LEMMA ScanSync ==
    ASSUME TerminalSyncAssumption, NEW S \in SUBSET Tracked
    PROVE  /\ sync_sequence(S) \in Seq(Byte)
           /\ \E ms \in Seq(Nat), p \in Nat : \A t \in Terminal :
                 Scan(t, sync_sequence(S)) = Back(ms, p, S, t.alt)
<1> DEFINE off == Tracked \ S
           down == Named(off, "l")
           up == Named(S, "h")
<1>1. sync_sequence(S) = down \o up
  BY Zenon DEF sync_sequence
<1>2. off \in SUBSET Tracked
  OBVIOUS
<1>3. off = {} => down = <<>>
  BY DEF Named
<1>4. S = {} => up = <<>>
  BY DEF Named
<1>5. off # {} => /\ down \in Seq(Byte)
                  /\ \E ms \in Seq(Nat), p \in Nat : \A t \in Terminal :
                        Scan(t, down) = Back(ms, p, t.set \ off, t.alt)
  <2>1. SUFFICES ASSUME off # {}
                 PROVE  /\ down \in Seq(Byte)
                        /\ \E ms \in Seq(Nat), p \in Nat : \A t \in Terminal :
                              Scan(t, down) = Back(ms, p, t.set \ off, t.alt)
    OBVIOUS
  <2> DEFINE L == "l"
  <2>2. L \in {"h", "l"} /\ L # "h"
    OBVIOUS
  <2> HIDE DEF off, L
  <2>3. /\ Named(off, L) \in Seq(Byte)
        /\ \E ms \in Seq(Nat), p \in Nat : \A t \in Terminal :
              Scan(t, Named(off, L)) =
                 Back(ms, p, IF L = "h" THEN t.set \cup off ELSE t.set \ off, t.alt)
    BY <1>2, <2>1, <2>2, TerminalSyncAssumption, ScanNamed
  <2>4. /\ Named(off, L) \in Seq(Byte)
        /\ \E ms \in Seq(Nat), p \in Nat : \A t \in Terminal :
              Scan(t, Named(off, L)) = Back(ms, p, t.set \ off, t.alt)
    BY <2>2, <2>3
  <2> QED BY <2>4 DEF L
<1>6. S # {} => /\ up \in Seq(Byte)
                /\ \E ms \in Seq(Nat), p \in Nat : \A t \in Terminal :
                      Scan(t, up) = Back(ms, p, t.set \cup S, t.alt)
  BY ScanNamed
<1>7. down \in Seq(Byte) /\ up \in Seq(Byte)
  <2>1. <<>> \in Seq(Byte)
    OBVIOUS
  <2> HIDE DEF down, up
  <2> QED BY <1>3, <1>4, <1>5, <1>6, <2>1
<1> HIDE DEF down, up
<1>8. sync_sequence(S) \in Seq(Byte)
  BY <1>1, <1>7
<1>9. ASSUME NEW t \in Terminal
      PROVE  Scan(t, sync_sequence(S)) = Scan(Scan(t, down), up)
  BY <1>1, <1>7, ScanConcat
<1>10. \A t \in Terminal : t.set \in SUBSET Tracked /\ Scan(t, down) \in Terminal
  BY <1>7, ScanType, TerminalFields
<1>11. \E ms \in Seq(Nat), p \in Nat : \A t \in Terminal :
         Scan(t, sync_sequence(S)) = Back(ms, p, S, t.alt)
  <2>1. CASE S = {}
    <3>1. PICK ms \in Seq(Nat), p \in Nat : \A t \in Terminal :
            Scan(t, down) = Back(ms, p, t.set \ off, t.alt)
      <4>1. off # {}
        BY <2>1 DEF Tracked
      <4> QED BY <1>5, <4>1
    <3>2. ASSUME NEW t \in Terminal
          PROVE  Scan(t, sync_sequence(S)) = Back(ms, p, S, t.alt)
      <4>1. Scan(Scan(t, down), up) = Scan(t, down)
        BY <1>4, <2>1, <1>10, ScanEmpty
      <4>2. t.set \ off = S
        BY <1>10, <2>1
      <4> QED BY <1>9, <3>1, <4>1, <4>2
    <3> QED BY <3>2
  <2>2. CASE S # {}
    <3>1. PICK ms \in Seq(Nat), p \in Nat : \A t \in Terminal :
            Scan(t, up) = Back(ms, p, t.set \cup S, t.alt)
      BY <1>6, <2>2
    <3>2. ASSUME NEW t \in Terminal
          PROVE  Scan(t, sync_sequence(S)) = Back(ms, p, S, t.alt)
      <4>1. Scan(Scan(t, down), up)
              = Back(ms, p, Scan(t, down).set \cup S, Scan(t, down).alt)
        BY <1>10, <3>1
      <4>2. Scan(t, down).set \cup S = S /\ Scan(t, down).alt = t.alt
        <5>1. CASE off = {}
          <6>1. Scan(t, down) = t
            BY <1>3, <5>1, ScanEmpty
          <6> QED BY <1>10, <5>1, <6>1
        <5>2. CASE off # {}
          <6>1. PICK ns \in Seq(Nat), q \in Nat :
                  Scan(t, down) = Back(ns, q, t.set \ off, t.alt)
            BY <1>5, <5>2
          <6>2. Scan(t, down).set = t.set \ off /\ Scan(t, down).alt = t.alt
            BY <6>1 DEF Back
          <6> QED BY <1>10, <6>2
        <5> QED BY <5>1, <5>2
      <4> QED BY <1>9, <4>1, <4>2
    <3> QED BY <3>2
  <2> QED BY <2>1, <2>2
<1> QED
  BY <1>8, <1>11

\* The alternate screen is left and entered, wherever the scanner was.
LEMMA ScanScreen ==
    ASSUME TerminalSyncAssumption
    PROVE  /\ LeaveAlt \in Seq(Byte) /\ EnterAlt \in Seq(Byte)
           /\ \A t \in Terminal :
                 /\ Scan(t, LeaveAlt) = Back(<<>>, 47, t.set, FALSE)
                 /\ Scan(t, EnterAlt) = Back(<<>>, 47, t.set, TRUE)
<1> DEFINE intro == <<"esc", "[", "?">>
           out == <<"4", "7", "l">>
           in == <<"4", "7", "h">>
<1>1. {"esc", "[", "?", "4", "7", "h", "l"} \subseteq Byte
  BY ProtocolBytes
<1>2. intro \in Seq(Byte) /\ out \in Seq(Byte) /\ in \in Seq(Byte)
  BY <1>1, ThreeElements
<1>3. LeaveAlt = intro \o out /\ EnterAlt = intro \o in
  BY DEF LeaveAlt, EnterAlt
<1>4. LeaveAlt \in Seq(Byte) /\ EnterAlt \in Seq(Byte)
  <2> HIDE DEF intro, out, in
  <2> QED BY <1>2, <1>3
<1>5. ASSUME NEW t \in Terminal
      PROVE  /\ Scan(t, LeaveAlt) = Back(<<>>, 47, t.set, FALSE)
             /\ Scan(t, EnterAlt) = Back(<<>>, 47, t.set, TRUE)
  <2>1. t.set \in SUBSET Tracked /\ t.alt \in BOOLEAN
    BY TerminalFields
  <2> DEFINE w == Within(<<>>, NoNumber, t.set, t.alt)
  <2>2. Scan(t, intro) = w
    BY Introduced
  <2>3. w \in Terminal
    <3>1. <<>> \in Seq(Nat) /\ NoNumber \in Nat \cup {NoNumber}
      OBVIOUS
    <3> QED BY <2>1, <3>1, WithinType
  <2>4. Scan(t, LeaveAlt) = Scan(w, out) /\ Scan(t, EnterAlt) = Scan(w, in)
    <3> HIDE DEF intro, out, in, w
    <3> QED BY <1>2, <1>3, <2>2, ScanConcat
  <2>5. /\ Scan(w, out) = ScanByte(ScanByte(ScanByte(w, "4"), "7"), "l")
        /\ Scan(w, in) = ScanByte(ScanByte(ScanByte(w, "4"), "7"), "h")
    <3> HIDE DEF w
    <3> QED BY <1>1, <2>3, ScanThree
  <2>6. <<>> \in Seq(Nat) /\ Len(<<>>) = 0 /\ Len(<<>>) # MaxModes
    BY DEF TerminalSyncAssumption
  <2>7. "4" \in DOMAIN Digit /\ "7" \in DOMAIN Digit
    BY DigitDomain
  <2>8. ScanByte(w, "4") = Within(<<>>, 4, t.set, t.alt)
    <3>1. /\ NoNumber \in Nat \cup {NoNumber} /\ 4 \in Nat
          /\ 4 = (IF NoNumber = NoNumber THEN 0 ELSE NoNumber) * 10 + Digit["4"]
          /\ 4 <= MaxNumber
      BY DigitValues DEF TerminalSyncAssumption
    <3> QED BY <2>1, <2>6, <2>7, <3>1, AfterDigit
  <2>9. ScanByte(Within(<<>>, 4, t.set, t.alt), "7") = Within(<<>>, 47, t.set, t.alt)
    <3>1. /\ 4 \in Nat \cup {NoNumber} /\ 47 \in Nat
          /\ 47 = (IF 4 = NoNumber THEN 0 ELSE 4) * 10 + Digit["7"] /\ 47 <= MaxNumber
      BY DigitValues DEF NoNumber, TerminalSyncAssumption
    <3> QED BY <2>1, <2>6, <2>7, <3>1, AfterDigit
  <2>10. {47} \cap AltModes # {} /\ {47} \cap Tracked = {}
    BY DEF AltModes, Tracked
  <2>11. /\ ScanByte(Within(<<>>, 47, t.set, t.alt), "h") = Back(<<>>, 47, t.set, TRUE)
         /\ ScanByte(Within(<<>>, 47, t.set, t.alt), "l") = Back(<<>>, 47, t.set, FALSE)
    <3>1. PICK ms \in Seq(Nat), p \in Nat : ms = <<>> /\ p = 47
      BY <2>6
    <3>2. Range(Append(ms, p)) = {47} /\ Len(ms) # MaxModes
      BY <2>6, <3>1 DEF Range
    <3>3. Range(Append(ms, p)) \cap AltModes # {}
      BY <2>10, <3>2
    <3>4. /\ ScanByte(Within(ms, p, t.set, t.alt), "h")
               = Back(ms, p, t.set \cup (Range(Append(ms, p)) \cap Tracked), TRUE)
          /\ ScanByte(Within(ms, p, t.set, t.alt), "l")
               = Back(ms, p, t.set \ (Range(Append(ms, p)) \cap Tracked), FALSE)
      BY <2>1, <3>2, <3>3, AfterFinal, ZenonT(60)
    <3>5. /\ t.set \cup (Range(Append(ms, p)) \cap Tracked) = t.set
          /\ t.set \ (Range(Append(ms, p)) \cap Tracked) = t.set
      BY <2>10, <3>2
    <3> QED BY <3>1, <3>4, <3>5, Zenon
  <2> HIDE DEF w, out, in
  <2> QED BY <2>4, <2>5, <2>8, <2>9, <2>11
<1> QED
  BY <1>4, <1>5, Zenon

\* A color sequence changes neither the modes nor the screen.
LEMMA ScanPlain ==
    /\ <<"esc", "[", "m">> \in Seq(Byte)
    /\ \A t \in Terminal :
          LET u == Scan(t, <<"esc", "[", "m">>)
          IN  u \in Terminal /\ u.set = t.set /\ u.alt = t.alt
<1>1. {"esc", "[", "m"} \subseteq Byte
  BY ProtocolBytes
<1>2. <<"esc", "[", "m">> \in Seq(Byte)
  BY <1>1, ThreeElements
<1>3. ASSUME NEW t \in Terminal
      PROVE  /\ Scan(t, <<"esc", "[", "m">>) \in Terminal
             /\ Scan(t, <<"esc", "[", "m">>).set = t.set
             /\ Scan(t, <<"esc", "[", "m">>).alt = t.alt
  <2> DEFINE u == ScanByte(t, "esc")
             v == ScanByte(u, "[")
             w == ScanByte(v, "m")
  <2>1. Scan(t, <<"esc", "[", "m">>) = w
    BY <1>1, ScanThree
  <2>2. u = [t EXCEPT !.scan.state = "Esc"]
    BY ScanByteArms
  <2>3. u \in Terminal /\ u.scan.state = "Esc" /\ u.set = t.set /\ u.alt = t.alt
    BY <2>2 DEF Terminal, Scanner
  <2> HIDE DEF u
  <2>4. v = [u EXCEPT !.scan.state = "Csi"]
    BY <2>3, ScanByteArms
  <2>5. v \in Terminal /\ v.scan.state = "Csi" /\ v.set = t.set /\ v.alt = t.alt
    BY <2>3, <2>4, SMTT(30) DEF Terminal, Scanner
  <2> HIDE DEF v
  <2>6. w = [v EXCEPT !.scan.state = "Ground"]
    BY <2>5, ScanByteArms
  <2>7. w \in Terminal /\ w.set = t.set /\ w.alt = t.alt
    BY <2>5, <2>6, SMTT(30) DEF Terminal, Scanner
  <2> QED BY <2>1, <2>7
<1> QED
  BY <1>2, <1>3

-----------------------------------------------------------------------------

\* What a byte does to a terminal: its scanner goes on without a look at the
\* rest, a reset puts the modes back, the end of a sequence sets what it lists.
LEMMA ByteEffect ==
    ASSUME NEW t \in Terminal, NEW b
    PROVE  /\ ScanByte(t, b).scan = ScannerAfter(t.scan, b)
           /\ ScanByte(t, b).set = SetAfter(t.scan, b, t.set)
           /\ ScanByte(t, b).alt = AltAfter(t.scan, b, t.alt)
<1> DEFINE u == ScanByte(t, b)
           g == [t EXCEPT !.scan.state = "Ground"]
           e == [t EXCEPT !.scan.state = "Esc"]
           c == [t EXCEPT !.scan.state = "Csi"]
           n == [NewScanner EXCEPT !.state = "Params"]
           w == [t EXCEPT !.scan = n]
           y == FullReset(g)
           p == push_digit(t.scan, Digit[b])
           pt == [t EXCEPT !.scan = p]
           ended == end_mode_number(t.scan)
           et == [t EXCEPT !.scan = ended]
           es == ended.state
           modes == Range(ended.modes)
           z == Changed(g, modes, b = "h")
           d == DOMAIN Digit
<1>1. /\ b = "esc" => u = e
      /\ t.scan.state = "Esc" /\ b = "[" => u = c
      /\ t.scan.state = "Esc" /\ b = "c" => u = y
      /\ t.scan.state = "Csi" /\ b = "?" => u = w
      /\ t.scan.state = "Params" /\ b \in d => u = pt
      /\ t.scan.state = "Params" /\ b = ";" => u = et
      /\ t.scan.state = "Params" /\ b \in {"h", "l"} => u = IF es = "Params" THEN z ELSE g
      /\ /\ b # "esc"
         /\ t.scan.state = "Esc" => b \notin {"[", "c"}
         /\ t.scan.state = "Csi" => b # "?"
         /\ t.scan.state = "Params" => b \notin {"1", "4", "7", ";", "h", "l"}
         => u = g
  BY ScanByteArms, Zenon
<1>2. /\ g.scan = [t.scan EXCEPT !.state = "Ground"] /\ g.set = t.set /\ g.alt = t.alt
      /\ g \in Terminal
  BY DEF Terminal, Scanner
<1>3. e.scan = [t.scan EXCEPT !.state = "Esc"] /\ e.set = t.set /\ e.alt = t.alt
  BY DEF Terminal, Scanner
<1>4. c.scan = [t.scan EXCEPT !.state = "Csi"] /\ c.set = t.set /\ c.alt = t.alt
  BY DEF Terminal, Scanner
<1>5. w.scan = n /\ w.set = t.set /\ w.alt = t.alt
  <2> HIDE DEF n
  <2> QED BY DEF Terminal
<1>6. pt.scan = p /\ pt.set = t.set /\ pt.alt = t.alt
  <2> HIDE DEF p
  <2> QED BY DEF Terminal
<1>7. et.scan = ended /\ et.set = t.set /\ et.alt = t.alt
  <2> HIDE DEF ended
  <2> QED BY DEF Terminal
<1>8. y.scan = g.scan /\ y.set = Defaults /\ y.alt = g.alt
  <2> HIDE DEF g
  <2> QED BY <1>2 DEF FullReset, Terminal
<1>9. /\ z.scan = g.scan
      /\ z.set = IF b = "h" THEN g.set \cup (modes \cap Tracked) ELSE g.set \ (modes \cap Tracked)
      /\ modes \cap AltModes # {} => z.alt = (b = "h")
      /\ modes \cap AltModes = {} => z.alt = g.alt
  <2> HIDE DEF g, modes
  <2>1. z = [g EXCEPT !.set = IF b = "h" THEN @ \cup (modes \cap Tracked)
                                         ELSE @ \ (modes \cap Tracked),
                      !.alt = IF modes \cap AltModes # {} THEN b = "h" ELSE @]
    BY Zenon DEF Changed
  <2> HIDE DEF z
  <2> QED BY <1>2, <2>1 DEF Terminal
<1>10. d = {"1", "4", "7"}
  BY DigitDomain
<1> DEFINE listed == Listed(t.scan, b)
           after == ScannerAfter(t.scan, b)
<1>11. listed = IF t.scan.state = "Params" /\ b \in {"h", "l"} /\ es = "Params"
                THEN modes ELSE {}
  BY Zenon DEF Listed
<1>12. after = IF b = "esc" THEN [t.scan EXCEPT !.state = "Esc"]
               ELSE IF t.scan.state = "Esc" /\ b = "[" THEN [t.scan EXCEPT !.state = "Csi"]
               ELSE IF t.scan.state = "Csi" /\ b = "?" THEN n
               ELSE IF t.scan.state = "Params" /\ b \in d THEN p
               ELSE IF t.scan.state = "Params" /\ b = ";" THEN ended
               ELSE [t.scan EXCEPT !.state = "Ground"]
  BY Zenon DEF ScannerAfter
<1> HIDE DEF u, g, e, c, n, w, y, p, pt, ended, et, es, modes, z, d, listed, after
<1>13. u.scan = after
  BY <1>1, <1>2, <1>3, <1>4, <1>5, <1>6, <1>7, <1>8, <1>9, <1>10, <1>12
<1>14. /\ t.scan.state = "Esc" /\ b = "c" => u.set = Defaults
       /\ ~ (t.scan.state = "Esc" /\ b = "c") =>
             u.set = IF b = "h" THEN t.set \cup (listed \cap Tracked)
                                ELSE t.set \ (listed \cap Tracked)
  BY <1>1, <1>2, <1>3, <1>4, <1>5, <1>6, <1>7, <1>8, <1>9, <1>10, <1>11
<1>15. /\ listed \cap AltModes # {} => u.alt = (b = "h")
       /\ listed \cap AltModes = {} => u.alt = t.alt
  BY <1>1, <1>2, <1>3, <1>4, <1>5, <1>6, <1>7, <1>8, <1>9, <1>10, <1>11
<1>16. u.set = SetAfter(t.scan, b, t.set)
  BY <1>14 DEF SetAfter, listed
<1>17. u.alt = AltAfter(t.scan, b, t.alt)
  BY <1>15 DEF AltAfter, listed
<1> QED
  BY <1>13, <1>16, <1>17, Zenon DEF u, after

\* Scanners that are at the same place stay so, and what a byte changes in one
\* terminal it changes alike in the other.
LEMMA SyncStep ==
    ASSUME NEW r \in Terminal, NEW s \in Terminal, Sync(r.scan, s.scan), NEW b
    PROVE  /\ Sync(ScanByte(r, b).scan, ScanByte(s, b).scan)
           /\ \A m \in Tracked :
                 \/ m \in ScanByte(r, b).set <=> m \in ScanByte(s, b).set
                 \/ /\ m \in ScanByte(r, b).set <=> m \in r.set
                    /\ m \in ScanByte(s, b).set <=> m \in s.set
           /\ \/ ScanByte(r, b).alt = ScanByte(s, b).alt
              \/ ScanByte(r, b).alt = r.alt /\ ScanByte(s, b).alt = s.alt
<1> DEFINE u == ScanByte(r, b)
           v == ScanByte(s, b)
           listed == Listed(r.scan, b)
<1>1. r.scan.state = s.scan.state /\ (r.scan.state = "Params" => r.scan = s.scan)
  BY DEF Sync
<1>2. listed = Listed(s.scan, b)
  <2>1. r.scan.state # "Params" => listed = {} /\ Listed(s.scan, b) = {}
    BY <1>1 DEF Listed
  <2> QED BY <1>1, <2>1
<1>3. u.scan = ScannerAfter(r.scan, b) /\ v.scan = ScannerAfter(s.scan, b)
  BY ByteEffect
<1>4. Sync(ScannerAfter(r.scan, b), ScannerAfter(s.scan, b))
  <2> DEFINE x == r.scan
             y == s.scan
             p == push_digit(x, Digit[b])
             ended == end_mode_number(x)
             n == [NewScanner EXCEPT !.state = "Params"]
             d == DOMAIN Digit
  <2>1. x \in Scanner /\ y \in Scanner
    BY TerminalFields
  <2>2. x.state = y.state /\ (x.state = "Params" => x = y)
    BY <1>1
  <2>3. CASE x.state = "Params"
    BY <2>2, <2>3 DEF Sync
  <2>4. CASE x.state # "Params"
    <3>1. /\ ScannerAfter(x, b) = IF b = "esc" THEN [x EXCEPT !.state = "Esc"]
               ELSE IF x.state = "Esc" /\ b = "[" THEN [x EXCEPT !.state = "Csi"]
               ELSE IF x.state = "Csi" /\ b = "?" THEN n
               ELSE [x EXCEPT !.state = "Ground"]
          /\ ScannerAfter(y, b) = IF b = "esc" THEN [y EXCEPT !.state = "Esc"]
               ELSE IF x.state = "Esc" /\ b = "[" THEN [y EXCEPT !.state = "Csi"]
               ELSE IF x.state = "Csi" /\ b = "?" THEN n
               ELSE [y EXCEPT !.state = "Ground"]
      BY <2>2, <2>4 DEF ScannerAfter
    <3> HIDE DEF n
    <3> QED BY <2>1, <3>1 DEF Sync, Scanner
  <2> QED BY <2>3, <2>4
<1>5. u.set = SetAfter(r.scan, b, r.set) /\ u.alt = AltAfter(r.scan, b, r.alt)
  BY ByteEffect
<1>6. v.set = SetAfter(s.scan, b, s.set) /\ v.alt = AltAfter(s.scan, b, s.alt)
  BY ByteEffect
<1> HIDE DEF u, v, listed
<1>7. \A m \in Tracked : \/ m \in u.set <=> m \in v.set
                         \/ (m \in u.set <=> m \in r.set) /\ (m \in v.set <=> m \in s.set)
  BY <1>1, <1>2, <1>5, <1>6 DEF SetAfter, listed
<1>8. u.alt = v.alt \/ (u.alt = r.alt /\ v.alt = s.alt)
  BY <1>2, <1>5, <1>6 DEF AltAfter, listed
<1> QED
  BY <1>3, <1>4, <1>7, <1>8, Zenon DEF u, v

\* In Ground nothing but an escape has an effect.
LEMMA GroundStep ==
    ASSUME NEW r \in Terminal, r.scan.state = "Ground", NEW b, b # "esc"
    PROVE  ScanByte(r, b) = r
<1>1. ScanByte(r, b) = [r EXCEPT !.scan.state = "Ground"]
  BY ScanByteArms
<1> QED
  BY <1>1 DEF Terminal, Scanner

\* The scanner does not look at what it drives.
LEMMA ScanStep ==
    ASSUME NEW r \in Terminal, NEW s \in Terminal, r.scan = s.scan, NEW b
    PROVE  ScanByte(r, b).scan = ScanByte(s, b).scan
<1>1. ScanByte(r, b).scan = ScannerAfter(r.scan, b)
  BY ByteEffect
<1>2. ScanByte(s, b).scan = ScannerAfter(s.scan, b)
  BY ByteEffect
<1> QED
  BY <1>1, <1>2

\* What the terminal was in before does not move the scanner.
LEMMA ScanSame ==
    ASSUME NEW r \in Terminal, NEW s \in Terminal, r.scan = s.scan, NEW bytes \in Seq(Byte)
    PROVE  Scan(r, bytes).scan = Scan(s, bytes).scan
<1> DEFINE K == {p \in Terminal \X Terminal : p[1].scan = p[2].scan}
<1>1. <<r, s>> \in K
  OBVIOUS
<1>2. ASSUME NEW x \in Terminal, NEW y \in Terminal, NEW b \in Byte, <<x, y>> \in K
      PROVE  <<ScanByte(x, b), ScanByte(y, b)>> \in K
  <2>1. x.scan = y.scan
    BY <1>2
  <2>2. ScanByte(x, b).scan = ScanByte(y, b).scan
    BY <2>1, ScanStep
  <2> QED BY <2>2, ScanByteType
<1>3. <<Scan(r, bytes), Scan(s, bytes)>> \in K
  <2> HIDE DEF K
  <2> QED BY <1>1, <1>2, ScanKeeps
<1> QED
  BY <1>3

\* Scanners at the same place stay together over any bytes, and so do the modes
\* and the screens that they drive.
LEMMA ScanTogether ==
    ASSUME NEW r \in Terminal, NEW s \in Terminal, Sync(r.scan, s.scan),
           NEW bytes \in Seq(Byte)
    PROVE  /\ Sync(Scan(r, bytes).scan, Scan(s, bytes).scan)
           /\ r.set = s.set => Scan(r, bytes).set = Scan(s, bytes).set
           /\ r.alt = s.alt => Scan(r, bytes).alt = Scan(s, bytes).alt
<1> DEFINE K == {p \in Terminal \X Terminal :
                   /\ Sync(p[1].scan, p[2].scan)
                   /\ r.set = s.set => p[1].set = p[2].set
                   /\ r.alt = s.alt => p[1].alt = p[2].alt}
<1>1. <<r, s>> \in K
  OBVIOUS
<1>2. ASSUME NEW x \in Terminal, NEW y \in Terminal, NEW b \in Byte, <<x, y>> \in K
      PROVE  <<ScanByte(x, b), ScanByte(y, b)>> \in K
  <2> DEFINE u == ScanByte(x, b)
             v == ScanByte(y, b)
  <2>1. /\ Sync(x.scan, y.scan)
        /\ r.set = s.set => x.set = y.set
        /\ r.alt = s.alt => x.alt = y.alt
    BY <1>2
  <2>2. /\ Sync(u.scan, v.scan)
        /\ \A m \in Tracked : \/ m \in u.set <=> m \in v.set
                              \/ (m \in u.set <=> m \in x.set) /\ (m \in v.set <=> m \in y.set)
        /\ u.alt = v.alt \/ (u.alt = x.alt /\ v.alt = y.alt)
    BY <2>1, SyncStep
  <2>3. u \in Terminal /\ v \in Terminal
    BY ScanByteType
  <2> HIDE DEF u, v
  <2>4. u.set \in SUBSET Tracked /\ v.set \in SUBSET Tracked
    BY <2>3, TerminalFields
  <2>5. r.set = s.set => u.set = v.set
    BY <2>1, <2>2, <2>4
  <2>6. r.alt = s.alt => u.alt = v.alt
    BY <2>1, <2>2
  <2>7. <<u, v>> \in K
    BY <2>2, <2>3, <2>5, <2>6
  <2> QED BY <2>7 DEF u, v
<1>3. <<Scan(r, bytes), Scan(s, bytes)>> \in K
  <2> HIDE DEF K
  <2> QED BY <1>1, <1>2, ScanKeeps
<1> QED
  BY <1>3

\* The last one that wrote wins.  A terminal that is in the modes that hold at
\* the end of the stream, and sees only a last part of it that ends where the
\* stream is in a sequence, has them at the end again: what the part sets last
\* it sets as the whole stream does, and what it does not touch was right from
\* the start.
THEOREM LastWriterWins ==
    ASSUME NEW r \in Terminal, r.scan.state = "Ground", NEW s \in Terminal,
           NEW tail \in Seq(Byte),
           Scan(r, tail).scan.state = Scan(s, tail).scan.state,
           Scan(s, tail).set = r.set
    PROVE  /\ Scan(r, tail).set = r.set
           /\ Sync(Scan(r, tail).scan, Scan(s, tail).scan)
           /\ Scan(r, tail).alt = Scan(s, tail).alt \/ Scan(r, tail).alt = r.alt
<1> DEFINE Agree(x, y) ==
             /\ \A m \in Tracked : \/ m \in x.set <=> m \in y.set
                                   \/ m \in x.set <=> m \in r.set
             /\ x.alt = y.alt \/ x.alt = r.alt
             /\ \/ Sync(x.scan, y.scan)
                \/ x.scan.state = "Ground" /\ x.set = r.set /\ x.alt = r.alt
           K == {p \in Terminal \X Terminal : Agree(p[1], p[2])}
<1>1. <<r, s>> \in K
  OBVIOUS
<1>2. ASSUME NEW x \in Terminal, NEW y \in Terminal, NEW b \in Byte, <<x, y>> \in K
      PROVE  <<ScanByte(x, b), ScanByte(y, b)>> \in K
  <2> DEFINE u == ScanByte(x, b)
             v == ScanByte(y, b)
  <2>1. Agree(x, y)
    BY <1>2
  <2>2. u \in Terminal /\ v \in Terminal
    BY ScanByteType
  <2>3. CASE Sync(x.scan, y.scan)
    <3>1. /\ Sync(u.scan, v.scan)
          /\ \A m \in Tracked : \/ m \in u.set <=> m \in v.set
                                \/ (m \in u.set <=> m \in x.set) /\ (m \in v.set <=> m \in y.set)
          /\ u.alt = v.alt \/ (u.alt = x.alt /\ v.alt = y.alt)
      BY <2>3, SyncStep
    <3> HIDE DEF u, v
    <3>2. Agree(u, v)
      BY <2>1, <3>1
    <3> QED BY <2>2, <3>2 DEF u, v
  <2>4. CASE /\ x.scan.state = "Ground" /\ x.set = r.set /\ x.alt = r.alt
             /\ b = "esc"
    <3>1. u = [x EXCEPT !.scan.state = "Esc"] /\ v = [y EXCEPT !.scan.state = "Esc"]
      BY <2>4, ScanByteArms
    <3>2. u.scan.state = "Esc" /\ v.scan.state = "Esc" /\ u.set = x.set /\ u.alt = x.alt
      BY <3>1 DEF Terminal, Scanner
    <3> HIDE DEF u, v
    <3>3. Agree(u, v)
      BY <2>4, <3>2 DEF Sync
    <3> QED BY <2>2, <3>3 DEF u, v
  <2>5. CASE /\ x.scan.state = "Ground" /\ x.set = r.set /\ x.alt = r.alt
             /\ b # "esc"
    <3>1. u = x
      BY <2>5, GroundStep
    <3> HIDE DEF u, v
    <3>2. Agree(u, v)
      BY <2>5, <3>1
    <3> QED BY <2>2, <3>2 DEF u, v
  <2> QED BY <2>1, <2>3, <2>4, <2>5
<1>3. <<Scan(r, tail), Scan(s, tail)>> \in K
  <2> HIDE DEF K
  <2> QED BY <1>1, <1>2, ScanKeeps
<1>4. Agree(Scan(r, tail), Scan(s, tail))
  BY <1>3
<1>5. Scan(r, tail) \in Terminal /\ Scan(s, tail) \in Terminal
  BY ScanType
<1> DEFINE u == Scan(r, tail)
           v == Scan(s, tail)
<1>6. u.set \in SUBSET Tracked /\ v.set \in SUBSET Tracked /\ r.set \in SUBSET Tracked
  BY <1>5, TerminalFields
<1>7. v.set = r.set /\ u.scan.state = v.scan.state
  OBVIOUS
<1> HIDE DEF u, v
<1>8. Agree(u, v)
  BY <1>4 DEF u, v
<1>9. u.set = r.set
  BY <1>6, <1>7, <1>8
<1>10. Sync(u.scan, v.scan)
  BY <1>7, <1>8 DEF Sync
<1>11. u.alt = v.alt \/ u.alt = r.alt
  BY <1>8
<1> QED
  BY <1>9, <1>10, <1>11, Zenon DEF u, v

\* The concatenation of sequences, step by step.
LEMMA BytesSteps ==
    ASSUME NEW S, NEW w \in Seq(Seq(S)), Len(w) # 0
    PROVE  \E f \in [1..Len(w) -> Seq(S)] :
              /\ f[1] = w[1]
              /\ \A i \in 2..Len(w) : f[i] = f[i - 1] \o w[i]
              /\ FlattenSeq(w) = f[Len(w)]
<1> DEFINE n == Len(w)
           Recurs(g, k) == /\ g \in [1..k -> Seq(S)]
                           /\ g = [i \in 1..k |-> IF i = 1 THEN w[1] ELSE g[i - 1] \o w[i]]
           P == {k \in Nat : k <= n => \E g : Recurs(g, k)}
<1>1. n \in Nat /\ n # 0 /\ \A i \in 1..n : w[i] \in Seq(S)
  OBVIOUS
<1>2. 0 \in P
  <2> DEFINE g == [i \in 1..0 |-> w[1]]
  <2>1. 1..0 = {}
    OBVIOUS
  <2>2. Recurs(g, 0)
    BY <2>1
  <2> QED BY <2>2
<1>3. ASSUME NEW k \in Nat, k \in P PROVE k + 1 \in P
  <2>1. SUFFICES ASSUME k + 1 <= n PROVE \E g : Recurs(g, k + 1)
    <3> HIDE DEF Recurs, n
    <3> QED BY <1>1
  <2>2. PICK g : Recurs(g, k)
    <3> HIDE DEF Recurs, n
    <3> QED BY <1>1, <1>3, <2>1
  <2> DEFINE h == [i \in 1..(k + 1) |-> IF i = 1 THEN w[1]
                                       ELSE IF i = k + 1 THEN g[k] \o w[k + 1] ELSE g[i]]
  <2>3. ASSUME NEW i \in 1..(k + 1)
        PROVE  h[i] \in Seq(S) /\ h[i] = IF i = 1 THEN w[1] ELSE h[i - 1] \o w[i]
    <3>1. CASE i = 1
      BY <3>1, <1>1
    <3>2. CASE i # 1 /\ i = k + 1
      <4>1. k \in 1..k /\ g[k] \in Seq(S) /\ w[k + 1] \in Seq(S)
        BY <3>2, <1>1, <2>1, <2>2
      <4>2. h[i] = g[k] \o w[k + 1]
        BY <3>2
      <4>3. h[k] = g[k]
        <5>1. k = 1 => g[k] = w[1]
          BY <2>2, <4>1
        <5> QED BY <4>1, <5>1
      <4>4. g[k] \o w[k + 1] \in Seq(S)
        BY <4>1
      <4>5. i - 1 = k
        BY <3>2
      <4> HIDE DEF h
      <4> QED BY <3>2, <4>2, <4>3, <4>4, <4>5
    <3>3. CASE i # 1 /\ i # k + 1
      <4>1. i \in 1..k /\ i - 1 \in 1..k
        BY <3>3
      <4>2. h[i] = g[i] /\ g[i] \in Seq(S)
        BY <3>3, <4>1, <2>2
      <4>3. g[i] = g[i - 1] \o w[i]
        BY <3>3, <4>1, <2>2
      <4>4. h[i - 1] = g[i - 1]
        <5>1. i - 1 = 1 => g[i - 1] = w[1]
          BY <2>2, <4>1
        <5> QED BY <4>1, <5>1
      <4> HIDE DEF h
      <4> QED BY <3>3, <4>2, <4>3, <4>4
    <3> QED BY <3>1, <3>2, <3>3
  <2>4. Recurs(h, k + 1)
    <3>1. h = [i \in 1..(k + 1) |-> h[i]]
      OBVIOUS
    <3> HIDE DEF h
    <3>2. h \in [1..(k + 1) -> Seq(S)]
      BY <2>3, <3>1
    <3>3. h = [i \in 1..(k + 1) |-> IF i = 1 THEN w[1] ELSE h[i - 1] \o w[i]]
      BY <2>3, <3>1
    <3> QED BY <3>2, <3>3
  <2> QED BY <2>4
<1>4. PICK g : Recurs(g, n)
  <2>1. n \in P
    <3> HIDE DEF P
    <3> QED BY <1>1, <1>2, <1>3, NatSetInduction
  <2> HIDE DEF Recurs, n
  <2> QED BY <1>1, <2>1
<1> DEFINE Flat(h) == h = [i \in 1..n |-> IF i = 1 THEN w[1] ELSE h[i - 1] \o w[i]]
           flat == CHOOSE h : Flat(h)
<1>5. FlattenSeq(w) = flat[n]
  BY DEF FlattenSeq
<1>6. Flat(flat)
  <2>1. Flat(g)
    BY <1>4
  <2> HIDE DEF Flat
  <2> QED BY <2>1, Zenon
<1> HIDE DEF flat
<1> DEFINE Q1 == {k \in Nat : k + 1 <= n => flat[k + 1] = g[k + 1]}
<1>7. \A i \in 1..n : flat[i] = g[i]
  <2>1. 0 \in Q1
    BY <1>4, <1>6
  <2>2. ASSUME NEW k \in Nat, k \in Q1 PROVE k + 1 \in Q1
    <3>1. SUFFICES ASSUME k + 2 <= n PROVE flat[k + 2] = g[k + 2]
      OBVIOUS
    <3>2. k + 2 \in 1..n /\ k + 2 # 1 /\ (k + 2) - 1 = k + 1
      BY <3>1
    <3>3. flat[k + 1] = g[k + 1]
      BY <2>2, <3>1
    <3>4. flat[k + 2] = flat[k + 1] \o w[k + 2]
      BY <1>6, <3>2
    <3>5. g[k + 2] = g[k + 1] \o w[k + 2]
      BY <1>4, <3>2
    <3> QED BY <3>3, <3>4, <3>5
  <2>3. Nat \subseteq Q1
    <3> HIDE DEF Q1
    <3> QED BY <2>1, <2>2, NatSetInduction
  <2> SUFFICES ASSUME NEW i \in 1..n PROVE flat[i] = g[i]
    OBVIOUS
  <2>4. i - 1 \in Nat /\ (i - 1) + 1 = i /\ i <= n
    OBVIOUS
  <2>5. i - 1 \in Q1
    BY <2>3, <2>4
  <2> QED BY <2>4, <2>5
<1>8. /\ g \in [1..n -> Seq(S)] /\ g[1] = w[1]
      /\ \A i \in 2..n : g[i] = g[i - 1] \o w[i]
  <2>1. 1 \in 1..n /\ \A i \in 2..n : i \in 1..n /\ i # 1
    BY <1>1
  <2> HIDE DEF n
  <2> QED BY <1>4, <2>1
<1>9. FlattenSeq(w) = g[n]
  BY <1>5, <1>7
<1> QED
  BY <1>8, <1>9, Zenon

\* A chunk more is its bytes at the end.
LEMMA BytesAppend ==
    ASSUME NEW S, NEW w \in Seq(Seq(S)), NEW c \in Seq(S)
    PROVE  /\ FlattenSeq(w) \in Seq(S)
           /\ FlattenSeq(Append(w, c)) = FlattenSeq(w) \o c
<1> DEFINE n == Len(w)
           wc == Append(w, c)
<1>1. /\ n \in Nat /\ wc \in Seq(Seq(S)) /\ Len(wc) = n + 1 /\ wc[n + 1] = c
      /\ \A i \in 1..n : wc[i] = w[i]
  OBVIOUS
<1>2. PICK h \in [1..(n + 1) -> Seq(S)] :
        /\ h[1] = wc[1]
        /\ \A i \in 2..(n + 1) : h[i] = h[i - 1] \o wc[i]
        /\ FlattenSeq(wc) = h[n + 1]
  <2>1. Len(wc) # 0 /\ Len(wc) = n + 1 /\ wc \in Seq(Seq(S))
    BY <1>1
  <2>2. \E f \in [1..Len(wc) -> Seq(S)] :
          /\ f[1] = wc[1]
          /\ \A i \in 2..Len(wc) : f[i] = f[i - 1] \o wc[i]
          /\ FlattenSeq(wc) = f[Len(wc)]
    <3> HIDE DEF wc
    <3> QED BY <2>1, BytesSteps, Zenon
  <2> HIDE DEF wc, n
  <2> QED BY <2>1, <2>2, Zenon
<1>3. CASE n = 0
  <2>1. w = <<>> /\ FlattenSeq(w) = w
    BY <1>3 DEF FlattenSeq
  <2>2. FlattenSeq(wc) = c
    BY <1>1, <1>2, <1>3
  <2>3. <<>> \in Seq(S) /\ <<>> \o c = c
    OBVIOUS
  <2> QED BY <2>1, <2>2, <2>3
<1>4. CASE n # 0
  <2>1. PICK f \in [1..n -> Seq(S)] :
          /\ f[1] = w[1]
          /\ \A i \in 2..n : f[i] = f[i - 1] \o w[i]
          /\ FlattenSeq(w) = f[n]
    BY <1>1, <1>4, BytesSteps, Zenon
  <2> DEFINE P == {k \in Nat : k + 1 <= n => h[k + 1] = f[k + 1]}
  <2> HIDE DEF n, wc
  <2>2. 0 \in P
    <3>1. 1 <= n => wc[1] = w[1]
      BY <1>1
    <3> QED BY <1>2, <2>1, <3>1
  <2>3. ASSUME NEW k \in Nat, k \in P PROVE k + 1 \in P
    <3>1. SUFFICES ASSUME k + 2 <= n PROVE h[k + 2] = f[k + 2]
      OBVIOUS
    <3>2. /\ k + 2 \in 2..n /\ k + 2 \in 2..(n + 1) /\ (k + 2) - 1 = k + 1
          /\ wc[k + 2] = w[k + 2]
      BY <1>1, <3>1
    <3>3. h[k + 1] = f[k + 1]
      BY <1>1, <2>3, <3>1
    <3>4. h[k + 2] = h[k + 1] \o wc[k + 2] /\ f[k + 2] = f[k + 1] \o w[k + 2]
      BY <1>2, <2>1, <3>2
    <3> QED BY <3>2, <3>3, <3>4
  <2>4. h[n] = f[n]
    <3>1. Nat \subseteq P
      <4> HIDE DEF P
      <4> QED BY <2>2, <2>3, NatSetInduction
    <3>2. n - 1 \in Nat /\ (n - 1) + 1 = n
      BY <1>1, <1>4
    <3>3. n - 1 \in P
      BY <3>1, <3>2
    <3> QED BY <3>2, <3>3
  <2>5. h[n + 1] = h[n] \o wc[n + 1]
    <3>1. n + 1 \in 2..(n + 1) /\ (n + 1) - 1 = n
      BY <1>1, <1>4
    <3> QED BY <1>2, <3>1
  <2>6. n \in 1..n
    BY <1>1, <1>4
  <2>7. FlattenSeq(wc) = FlattenSeq(w) \o c /\ FlattenSeq(w) \in Seq(S)
    BY <1>1, <1>2, <2>1, <2>4, <2>5, <2>6
  <2> QED BY <2>7 DEF wc
<1> QED
  BY <1>3, <1>4

\* The first chunks make a first part of the bytes.
LEMMA BytesPrefix ==
    ASSUME NEW S, NEW w \in Seq(Seq(S)), NEW k \in 0..Len(w)
    PROVE  /\ SubSeq(w, 1, k) \in Seq(Seq(S))
           /\ \E rest \in Seq(S) : FlattenSeq(w) = FlattenSeq(SubSeq(w, 1, k)) \o rest
<1> DEFINE n == Len(w)
           To(j) == SubSeq(w, 1, j)
           First(j, rest) == FlattenSeq(To(j)) = FlattenSeq(To(k)) \o rest
           P == {j \in Nat : k + j <= n =>
                    (\E rest \in Seq(S) : First(k + j, rest))}
<1>1. /\ n \in Nat /\ k \in 0..n
      /\ \A j \in 0..n : To(j) \in Seq(Seq(S))
      /\ \A j \in 0..(n - 1) : To(j + 1) = Append(To(j), w[j + 1]) /\ w[j + 1] \in Seq(S)
      /\ To(n) = w
  OBVIOUS
<1>0. FlattenSeq(To(k)) \in Seq(S)
  <2> HIDE DEF To, n
  <2>1. To(k) \in Seq(Seq(S)) /\ <<>> \in Seq(S)
    BY <1>1
  <2> QED BY <2>1, BytesAppend, Zenon
<1> HIDE DEF To, n
<1>2. 0 \in P
  <2>1. <<>> \in Seq(S) /\ First(k, <<>>) /\ k + 0 = k
    BY <1>0, <1>1
  <2> HIDE DEF First
  <2> QED BY <2>1
<1>3. ASSUME NEW j \in Nat, j \in P PROVE j + 1 \in P
  <2>1. SUFFICES ASSUME k + (j + 1) <= n
                 PROVE  \E rest \in Seq(S) : First(k + (j + 1), rest)
    <3> HIDE DEF First
    <3> QED OBVIOUS
  <2>2. k + j \in 0..(n - 1) /\ k + j \in 0..n /\ k + (j + 1) = (k + j) + 1 /\ k + j <= n
    BY <1>1, <2>1
  <2>3. PICK rest \in Seq(S) : First(k + j, rest)
    <3> HIDE DEF First
    <3> QED BY <1>3, <2>2
  <2> DEFINE c == w[(k + j) + 1]
  <2>4. c \in Seq(S) /\ To((k + j) + 1) = Append(To(k + j), c) /\ To(k + j) \in Seq(Seq(S))
    BY <1>1, <2>2
  <2> HIDE DEF c
  <2>5. FlattenSeq(Append(To(k + j), c)) = FlattenSeq(To(k + j)) \o c
    BY <2>4, BytesAppend, Zenon
  <2>6. (FlattenSeq(To(k)) \o rest) \o c = FlattenSeq(To(k)) \o (rest \o c) /\ rest \o c \in Seq(S)
    <3>1. \A a, b, d \in Seq(S) : (a \o b) \o d = a \o (b \o d) /\ b \o d \in Seq(S)
      OBVIOUS
    <3> HIDE DEF First, P
    <3> QED BY <1>0, <2>4, <3>1, Zenon
  <2>7. First((k + j) + 1, rest \o c)
    BY <2>3, <2>4, <2>5, <2>6
  <2> HIDE DEF First
  <2> QED BY <2>2, <2>6, <2>7
<1>4. n - k \in Nat /\ k + (n - k) = n /\ k + (n - k) <= n
  BY <1>1
<1>5. n - k \in P
  <2> HIDE DEF P
  <2> QED BY <1>2, <1>3, <1>4, NatSetInduction
<1>6. \E rest \in Seq(S) : First(n, rest)
  <2> HIDE DEF First
  <2> QED BY <1>4, <1>5
<1>7. \E rest \in Seq(S) : FlattenSeq(w) = FlattenSeq(To(k)) \o rest
  BY <1>1, <1>6
<1>8. To(k) \in Seq(Seq(S))
  BY <1>1
<1> QED
  BY <1>7, <1>8 DEF To

-----------------------------------------------------------------------------
(* Replays without their queries are bytes too *)

Filter == [state : {"Ground", "Esc", "Csi", "StringBody", "StringEsc"},
           kind : Byte \cup {"None"}, pending : Seq(Byte), out : Seq(Byte)]

\* A filter with another field.
LEMMA FilterWith ==
    ASSUME NEW f \in Filter
    PROVE  /\ f.pending \in Seq(Byte) /\ f.out \in Seq(Byte)
           /\ \A s \in {"Ground", "Esc", "Csi", "StringBody", "StringEsc"} :
                 [f EXCEPT !.state = s] \in Filter
           /\ \A k \in Byte \cup {"None"} : [f EXCEPT !.kind = k] \in Filter
           /\ \A p \in Seq(Byte) : [f EXCEPT !.pending = p] \in Filter
           /\ \A o \in Seq(Byte) : [f EXCEPT !.out = o] \in Filter
BY DEF Filter

\* What is held back is dropped, or let through, or grows by a byte.
LEMMA FilterMoves ==
    ASSUME NEW f \in Filter
    PROVE  /\ Q!drop(f) \in Filter /\ Q!flush_raw(f) \in Filter
           /\ \A b \in Byte : Q!Push(f, b) \in Filter /\ Q!Ground(f, b) \in Filter
           /\ [f EXCEPT !.pending = Q!Front(@)] \in Filter
<1>1. f.pending \in Seq(Byte) /\ f.out \in Seq(Byte)
  BY FilterWith
<1>2. Q!drop(f) \in Filter
  <2>1. [f EXCEPT !.state = "Ground"] \in Filter
    BY FilterWith
  <2> DEFINE g == [f EXCEPT !.state = "Ground"]
  <2> HIDE DEF g
  <2>2. [g EXCEPT !.kind = "None"] \in Filter
    BY <2>1, FilterWith DEF g
  <2> DEFINE h == [g EXCEPT !.kind = "None"]
  <2> HIDE DEF h
  <2>3. [h EXCEPT !.pending = <<>>] \in Filter
    <3>1. <<>> \in Seq(Byte)
      OBVIOUS
    <3> QED BY <2>2, <3>1, FilterWith, Zenon DEF h
  <2>4. Q!drop(f) = [h EXCEPT !.pending = <<>>]
    BY DEF Q!drop, g, h
  <2> QED BY <2>3, <2>4
<1>3. Q!flush_raw(f) \in Filter
  <2>1. f.out \o f.pending \in Seq(Byte)
    BY <1>1
  <2>2. Q!drop(f).out = f.out
    BY DEF Q!drop, Filter
  <2> QED BY <1>2, <2>1, <2>2, FilterWith DEF Q!flush_raw
<1>4. ASSUME NEW b \in Byte PROVE Q!Push(f, b) \in Filter /\ Q!Ground(f, b) \in Filter
  <2>1. Append(f.pending, b) \in Seq(Byte) /\ Append(f.out, b) \in Seq(Byte)
    BY <1>1
  <2>2. Q!Push(f, b) \in Filter
    BY <2>1, FilterWith DEF Q!Push
  <2>3. [Q!Push(f, b) EXCEPT !.state = "Esc"] \in Filter
    BY <2>2, FilterWith
  <2>4. [f EXCEPT !.out = Append(@, b)] \in Filter
    BY <2>1, FilterWith
  <2> QED BY <2>2, <2>3, <2>4 DEF Q!Ground
<1>5. Q!Front(f.pending) \in Seq(Byte)
  BY <1>1 DEF Q!Front
<1>6. [f EXCEPT !.pending = Q!Front(@)] \in Filter
  BY <1>5, FilterWith
<1> QED
  BY <1>2, <1>3, <1>4, <1>6

\* The byte after ESC keeps the type of the filter.
LEMMA FilterEsc ==
    ASSUME NEW f \in Filter, NEW b \in Byte
    PROVE  Q!Esc(f, b) \in Filter
<1>1. Q!Push(f, b) \in Filter /\ Q!drop(f) \in Filter /\ Q!flush_raw(f) \in Filter
  BY FilterMoves
<1>2. Q!Ground(Q!flush_raw(f), b) \in Filter
  BY <1>1, FilterMoves
<1> DEFINE g == Q!Push(f, b)
<1> HIDE DEF g
<1>3. [g EXCEPT !.state = "Csi"] \in Filter
  BY <1>1, FilterWith DEF g
<1>4. [g EXCEPT !.state = "StringBody", !.kind = b] \in Filter
  BY <1>1 DEF Filter, g
<1> QED
  BY <1>1, <1>2, <1>3, <1>4 DEF Q!Esc, g

\* A byte keeps the type of the filter.
LEMMA FilterStep ==
    ASSUME NEW f \in Filter, NEW b \in Byte
    PROVE  Q!step(f, b) \in Filter
<1> DEFINE g == Q!Push(f, b)
<1>1. g \in Filter /\ Q!drop(f) \in Filter /\ Q!flush_raw(f) \in Filter /\ Q!Ground(f, b) \in Filter
  BY FilterMoves
<1>2. Q!Ground(Q!flush_raw(f), b) \in Filter
  BY <1>1, FilterMoves
<1>3. Q!drop(g) \in Filter /\ Q!flush_raw(g) \in Filter
  BY <1>1, FilterMoves
<1>4. Q!Csi(f, b) \in Filter
  BY <1>1, <1>2, <1>3 DEF Q!Csi
<1>5. Q!end_string(g) \in Filter
  BY <1>3 DEF Q!end_string
<1>6. Q!StringBody(f, b) \in Filter
  <2> HIDE DEF g
  <2>1. [g EXCEPT !.state = "StringEsc"] \in Filter
    BY <1>1, FilterWith
  <2> QED BY <1>1, <1>3, <1>5, <2>1 DEF Q!StringBody, g
<1>7. Q!StringEsc(f, b) \in Filter
  <2> DEFINE h == Q!flush_raw([f EXCEPT !.pending = Q!Front(@)])
             k == Q!Push(h, "esc")
  <2>1. "esc" \in Byte
    BY ProtocolBytes
  <2>2. [f EXCEPT !.pending = Q!Front(@)] \in Filter
    BY FilterMoves
  <2>3. h \in Filter
    BY <2>2, FilterMoves
  <2> HIDE DEF h
  <2>4. k \in Filter
    BY <2>1, <2>3, FilterMoves
  <2> HIDE DEF k
  <2>5. [k EXCEPT !.state = "Esc"] \in Filter
    BY <2>4, FilterWith
  <2>6. Q!Esc([k EXCEPT !.state = "Esc"], b) \in Filter
    BY <2>5, FilterEsc
  <2> QED BY <1>5, <2>6 DEF Q!StringEsc, h, k
<1>8. Q!Esc(f, b) \in Filter
  BY FilterEsc
<1>9. f.state \in {"Ground", "Esc", "Csi", "StringBody", "StringEsc"}
  BY DEF Filter
<1> QED
  BY <1>1, <1>4, <1>6, <1>7, <1>8, <1>9 DEF Q!step

\* The replay without its queries is a sequence of bytes as well.
LEMMA ScrubbedType ==
    ASSUME NEW bytes \in Seq(Byte)
    PROVE  send_scrubbed(bytes) \in Seq(Byte)
<1> DEFINE n == Len(bytes)
           G == [p \in Filter \X (1..n) |-> Q!step(p[1], bytes[p[2]])]
           Recurs(h) == h = [s \in SUBSET (1..n) |-> IF s = {} THEN Q!new
                              ELSE Q!step(h[s \ {Q!Max(s)}], bytes[Q!Max(s)])]
           iter == CHOOSE h : Recurs(h)
<1>1. n \in Nat /\ DOMAIN bytes = 1..n
  OBVIOUS
<1>2. Q!scrub(Q!new, bytes) = iter[1..n]
  BY <1>1 DEF Q!scrub, Q!FoldLeft, Q!MapThenFoldSet
<1>3. Q!new \in Filter
  BY DEF Q!new, Filter
<1>0. \A s : Q!Max(s) = Max(s)
  BY DEF Q!Max, Max
<1>4. Recurs(iter)
  <2>1. G \in [Filter \X (1..n) -> Filter]
    BY FilterStep
  <2>2. PICK g : Folds(Filter, Q!new, n, G, n, g)
    <3> HIDE DEF G, n
    <3> QED BY <1>1, <1>3, <2>1, FoldExists
  <2>3. \A s \in SUBSET (1..n) : s # {} => Max(s) \in s
    <3> SUFFICES ASSUME NEW s \in SUBSET (1..n), s # {} PROVE Max(s) \in s
      OBVIOUS
    <3>1. \E x \in s : \A y \in s : x >= y
      BY <1>1, IntervalMax
    <3> QED BY <3>1 DEF Max
  <2>4. \A s \in SUBSET (1..n) : s # {} =>
          G[<<g[s \ {Max(s)}], Max(s)>>] = Q!step(g[s \ {Q!Max(s)}], bytes[Q!Max(s)])
    <3> SUFFICES ASSUME NEW s \in SUBSET (1..n), s # {}
                 PROVE  G[<<g[s \ {Max(s)}], Max(s)>>]
                          = Q!step(g[s \ {Q!Max(s)}], bytes[Q!Max(s)])
      OBVIOUS
    <3>1. g[s \ {Max(s)}] \in Filter
      BY <2>2 DEF Folds
    <3>2. Max(s) \in 1..n
      BY <2>3
    <3> QED BY <1>0, <3>1, <3>2
  <2>5. Recurs(g)
    BY <2>2, <2>4, Zenon DEF Folds
  <2> QED BY <2>5, Zenon
<1> HIDE DEF iter
<1> DEFINE P == {i \in Nat : i <= n => iter[1..i] \in Filter}
<1>5. 0 \in P
  <2>1. 1..0 = {} /\ {} \in SUBSET (1..n)
    OBVIOUS
  <2>2. iter[{}] = Q!new
    BY <1>4, <2>1
  <2> QED BY <1>3, <2>1, <2>2
<1>6. ASSUME NEW i \in Nat, i \in P PROVE i + 1 \in P
  <2>1. SUFFICES ASSUME i + 1 <= n PROVE iter[1..(i + 1)] \in Filter
    OBVIOUS
  <2>2. Max(1..(i + 1)) = i + 1 /\ (1..(i + 1)) \ {Max(1..(i + 1))} = 1..i
    <3>1. 1..(i + 1) \in SUBSET (1..(i + 1)) /\ i + 1 \in 1..(i + 1)
      OBVIOUS
    <3>2. Max(1..(i + 1)) = i + 1
      BY <3>1, MaxOfInterval
    <3> QED BY <3>2
  <2>3. iter[1..(i + 1)] = Q!step(iter[1..i], bytes[i + 1])
    <3>1. 1..(i + 1) \in SUBSET (1..n) /\ 1..(i + 1) # {}
      BY <1>1, <2>1, SMTT(30)
    <3> QED BY <1>0, <1>4, <2>2, <3>1
  <2>4. iter[1..i] \in Filter /\ bytes[i + 1] \in Byte
    BY <1>1, <1>6, <2>1
  <2> QED BY <2>3, <2>4, FilterStep
<1>7. n \in P
  <2> HIDE DEF P
  <2> QED BY <1>1, <1>5, <1>6, NatSetInduction
<1>8. iter[1..n] \in Filter
  BY <1>1, <1>7
<1>9. iter[1..n].out \o iter[1..n].pending \in Seq(Byte)
  <2> DEFINE e == iter[1..n]
  <2>1. e \in Filter
    BY <1>8
  <2> HIDE DEF e
  <2>2. e.out \in Seq(Byte) /\ e.pending \in Seq(Byte)
    BY <2>1, FilterWith
  <2>3. e.out \o e.pending \in Seq(Byte)
    BY <2>2
  <2> QED BY <2>3 DEF e
<1> QED
  BY <1>2, <1>9 DEF send_scrubbed, Q!strip_queries, Q!finish

-----------------------------------------------------------------------------
(* The scrollback *)

\* A sequence over a set is one over a larger set.
LEMMA SeqWithin ==
    ASSUME NEW S, NEW T, S \subseteq T, NEW q \in Seq(S)
    PROVE  q \in Seq(T)
OBVIOUS

\* The scrollback of a stream is one of a longer stream.
LEMMA KeptGrows ==
    ASSUME NEW n \in Nat, NEW k \in Nat, n <= k, NEW sb \in Kept(n)
    PROVE  sb \in Kept(k)
<1>1. 1..n \subseteq 1..k
  OBVIOUS
<1>2. Seq(1..n) \subseteq Seq(1..k)
  BY <1>1, SeqWithin
<1>3. sb.lines \in Seq(Seq(1..n)) /\ sb.partial \in Seq(1..n)
      /\ sb = [lines |-> sb.lines, partial |-> sb.partial]
  BY DEF Kept
<1>4. sb.lines \in Seq(Seq(1..k)) /\ sb.partial \in Seq(1..k)
  BY <1>2, <1>3, SeqWithin
<1> QED
  BY <1>3, <1>4 DEF Kept

\* A byte keeps the type of the scrollback.
LEMMA ScrollbackByteType ==
    ASSUME NEW n \in Nat, NEW sb \in Kept(n), NEW b, NEW position \in 1..n
    PROVE  ScrollbackByte(sb, b, position) \in Kept(n)
<1> DEFINE line == Append(sb.partial, position)
           lines == Append(sb.lines, line)
<1>1. sb.lines \in Seq(Seq(1..n)) /\ sb.partial \in Seq(1..n)
  BY DEF Kept
<1>2. line \in Seq(1..n)
  BY <1>1
<1>3. lines \in Seq(Seq(1..n)) /\ lines # <<>> /\ Tail(lines) \in Seq(Seq(1..n))
  <2> DEFINE S == Seq(1..n)
  <2> HIDE DEF line, S
  <2>1. lines \in Seq(S) /\ lines # <<>>
    BY <1>1, <1>2, AppendProperties DEF S
  <2> HIDE DEF lines
  <2>2. Tail(lines) \in Seq(S)
    BY <2>1
  <2> QED BY <2>1, <2>2 DEF S
<1>5. [sb EXCEPT !.partial = line] \in Kept(n)
  BY <1>2 DEF Kept
<1>6. <<>> \in Seq(1..n)
  OBVIOUS
<1> HIDE DEF line, lines
<1>7. \A x \in Seq(Seq(1..n)) : [lines |-> x, partial |-> <<>>] \in Kept(n)
  BY <1>6 DEF Kept
<1> QED
  BY <1>3, <1>5, <1>7 DEF ScrollbackByte, line, lines

\* What the session keeps for a fresh viewer are bytes of the stream.
LEMMA ScrollbackPushType ==
    ASSUME NEW n \in Nat, n = Len(Stream), NEW chunk \in Seq(Byte), NEW sb \in Kept(n)
    PROVE  ScrollbackPush(sb, chunk) \in Kept(n + Len(chunk))
<1> DEFINE m == Len(chunk)
           T == Kept(n + m)
           Byte1(acc, i) == ScrollbackByte(acc, chunk[i], n + i)
           G == [p \in T \X (1..m) |-> Byte1(p[1], p[2])]
           idx == [i \in DOMAIN chunk |-> i]
           Recurs(h) == h = [s \in SUBSET (1..m) |-> IF s = {} THEN sb
                              ELSE Byte1(h[s \ {Max(s)}], idx[Max(s)])]
           iter == CHOOSE h : Recurs(h)
<1>1. m \in Nat /\ DOMAIN chunk = 1..m /\ DOMAIN idx = 1..m /\ \A i \in 1..m : idx[i] = i
  OBVIOUS
<1>2. ScrollbackPush(sb, chunk) = iter[1..m]
  BY <1>1 DEF ScrollbackPush, FoldLeft, MapThenFoldSet
<1>3. sb \in T
  <2>1. n + m \in Nat /\ n <= n + m
    BY <1>1
  <2> QED BY <2>1, KeptGrows
<1>4. \A x \in T, i \in 1..m : Byte1(x, i) \in T
  <2> SUFFICES ASSUME NEW x \in T, NEW i \in 1..m PROVE Byte1(x, i) \in T
    OBVIOUS
  <2>1. n + m \in Nat /\ n + i \in 1..(n + m)
    BY <1>1
  <2> QED BY <2>1, ScrollbackByteType
<1> HIDE DEF Byte1, T
<1>5. Recurs(iter)
  <2>1. G \in [T \X (1..m) -> T]
    BY <1>4
  <2>2. PICK g : Folds(T, sb, m, G, m, g)
    <3> HIDE DEF G, m
    <3> QED BY <1>1, <1>3, <2>1, FoldExists
  <2>3. \A s \in SUBSET (1..m) : s # {} => Max(s) \in s
    <3> SUFFICES ASSUME NEW s \in SUBSET (1..m), s # {} PROVE Max(s) \in s
      OBVIOUS
    <3>1. \E x \in s : \A y \in s : x >= y
      BY <1>1, IntervalMax
    <3> QED BY <3>1 DEF Max
  <2>4. \A s \in SUBSET (1..m) : s # {} =>
          G[<<g[s \ {Max(s)}], Max(s)>>] = Byte1(g[s \ {Max(s)}], idx[Max(s)])
    <3> SUFFICES ASSUME NEW s \in SUBSET (1..m), s # {}
                 PROVE  G[<<g[s \ {Max(s)}], Max(s)>>] = Byte1(g[s \ {Max(s)}], idx[Max(s)])
      OBVIOUS
    <3>1. g[s \ {Max(s)}] \in T
      BY <2>2 DEF Folds
    <3>2. Max(s) \in 1..m /\ idx[Max(s)] = Max(s)
      BY <1>1, <2>3
    <3> QED BY <3>1, <3>2
  <2>5. Recurs(g)
    <3> HIDE DEF G, idx, m
    <3> QED BY <2>2, <2>4, Zenon DEF Folds
  <2> QED BY <2>5, Zenon
<1> HIDE DEF iter
<1> DEFINE P == {i \in Nat : i <= m => iter[1..i] \in T}
<1>6. 0 \in P
  <2>1. 1..0 = {} /\ {} \in SUBSET (1..m)
    OBVIOUS
  <2>2. iter[{}] = sb
    BY <1>5, <2>1
  <2> QED BY <1>3, <2>1, <2>2
<1>7. ASSUME NEW i \in Nat, i \in P PROVE i + 1 \in P
  <2>1. SUFFICES ASSUME i + 1 <= m PROVE iter[1..(i + 1)] \in T
    OBVIOUS
  <2>2. Max(1..(i + 1)) = i + 1 /\ (1..(i + 1)) \ {Max(1..(i + 1))} = 1..i
    <3>1. 1..(i + 1) \in SUBSET (1..(i + 1)) /\ i + 1 \in 1..(i + 1)
      OBVIOUS
    <3>2. Max(1..(i + 1)) = i + 1
      BY <3>1, MaxOfInterval
    <3> QED BY <3>2
  <2>3. iter[1..(i + 1)] = Byte1(iter[1..i], idx[i + 1])
    <3>1. 1..(i + 1) \in SUBSET (1..m) /\ 1..(i + 1) # {}
      BY <1>1, <2>1
    <3> QED BY <1>5, <2>2, <3>1
  <2>4. iter[1..i] \in T /\ i + 1 \in 1..m /\ idx[i + 1] = i + 1
    BY <1>1, <1>7, <2>1
  <2> QED BY <1>4, <2>3, <2>4
<1>8. m \in P
  <2> HIDE DEF P
  <2> QED BY <1>1, <1>6, <1>7, NatSetInduction
<1>9. iter[1..m] \in T
  BY <1>1, <1>8
<1> QED
  BY <1>2, <1>9 DEF T

\* What is shown to a fresh viewer.
LEMMA KeptShown ==
    ASSUME NEW n \in Nat, scrollback \in Kept(n)
    PROVE  lines_and_partial \in Seq(1..n)
<1>1. scrollback.lines \in Seq(Seq(1..n)) /\ scrollback.partial \in Seq(1..n)
  BY DEF Kept
<1>2. FlattenSeq(scrollback.lines) \in Seq(1..n)
  <2>1. <<>> \in Seq(1..n)
    OBVIOUS
  <2> QED BY <1>1, <2>1, BytesAppend
<1> QED
  BY <1>1, <1>2 DEF lines_and_partial

-----------------------------------------------------------------------------
(* The replay to a client that comes back *)

\* What the frames after Resume do to a terminal in any state.
LEMMA HandoffScan ==
    ASSUME TerminalSyncAssumption, server \in Terminal, NEW tail \in Seq(Byte)
    PROVE  /\ \A plan \in {"AltRedraw", "Fresh", "Truncated", "Clean"} :
                 Handoff(plan, tail) \in Seq(Byte)
           /\ \A t \in Terminal : Scan(t, Handoff("AltRedraw", tail))
                                    = Back(<<>>, 47, server.set, TRUE)
           /\ \A t \in Terminal : Scan(t, Handoff("Truncated", tail))
                = Scan(Back(<<>>, 47, server.set, FALSE), send_scrubbed(tail))
           /\ \E ms \in Seq(Nat), p \in Nat :
                \A t \in Terminal, plan \in {"Fresh", "Clean"} :
                   Scan(t, Handoff(plan, tail))
                     = Scan(Back(ms, p, server.set, t.alt), send_scrubbed(tail))
<1> DEFINE F == server.set
           sync == sync_sequence(F)
           bytes == send_scrubbed(tail)
<1>1. F \in SUBSET Tracked
  BY TerminalFields
<1>2. PICK ms \in Seq(Nat), p \in Nat :
        \A t \in Terminal : Scan(t, sync) = Back(ms, p, F, t.alt)
  BY <1>1, TerminalSyncAssumption, ScanSync
<1>3. sync \in Seq(Byte)
  BY <1>1, TerminalSyncAssumption, ScanSync
<1>4. bytes \in Seq(Byte)
  BY ScrubbedType
<1>5. /\ LeaveAlt \in Seq(Byte) /\ EnterAlt \in Seq(Byte)
      /\ \A t \in Terminal : /\ Scan(t, LeaveAlt) = Back(<<>>, 47, t.set, FALSE)
                             /\ Scan(t, EnterAlt) = Back(<<>>, 47, t.set, TRUE)
  BY TerminalSyncAssumption, ScanScreen
<1>6. /\ Handoff("AltRedraw", tail) = sync \o EnterAlt
      /\ Handoff("Truncated", tail) = sync \o LeaveAlt \o bytes
      /\ \A plan \in {"Fresh", "Clean"} : Handoff(plan, tail) = sync \o bytes
  <2>1. Handoff("AltRedraw", tail) = sync \o EnterAlt
    BY DEF Handoff
  <2>2. Handoff("Truncated", tail) = sync \o LeaveAlt \o bytes
    BY DEF Handoff
  <2>3. Handoff("Fresh", tail) = sync \o bytes
    BY DEF Handoff
  <2>4. Handoff("Clean", tail) = sync \o bytes
    BY DEF Handoff
  <2> HIDE DEF sync, bytes
  <2> QED BY <2>1, <2>2, <2>3, <2>4
<1> HIDE DEF F, sync, bytes
<1>7. /\ sync \o EnterAlt \in Seq(Byte) /\ sync \o LeaveAlt \in Seq(Byte)
      /\ sync \o LeaveAlt \o bytes \in Seq(Byte) /\ sync \o bytes \in Seq(Byte)
  BY <1>3, <1>4, <1>5
<1>8. ASSUME NEW t \in Terminal
      PROVE  /\ Scan(t, sync \o EnterAlt) = Back(<<>>, 47, F, TRUE)
             /\ Scan(t, sync \o LeaveAlt \o bytes) = Scan(Back(<<>>, 47, F, FALSE), bytes)
             /\ Scan(t, sync \o bytes) = Scan(Back(ms, p, F, t.alt), bytes)
  <2> DEFINE u == Scan(t, sync)
  <2>1. u = Back(ms, p, F, t.alt) /\ u \in Terminal
    BY <1>2, <1>3, ScanType
  <2>2. u.set = F
    BY <2>1 DEF Back
  <2>3. Scan(t, sync \o EnterAlt) = Scan(u, EnterAlt)
    BY <1>3, <1>5, ScanConcat
  <2>4. Scan(t, sync \o LeaveAlt) = Scan(u, LeaveAlt)
    BY <1>3, <1>5, ScanConcat
  <2>5. Scan(t, (sync \o LeaveAlt) \o bytes) = Scan(Scan(t, sync \o LeaveAlt), bytes)
    BY <1>4, <1>7, ScanConcat
  <2>6. Scan(t, sync \o bytes) = Scan(u, bytes)
    BY <1>3, <1>4, ScanConcat
  <2> HIDE DEF u
  <2>7. Scan(u, EnterAlt) = Back(<<>>, 47, F, TRUE) /\ Scan(u, LeaveAlt) = Back(<<>>, 47, F, FALSE)
    BY <1>5, <2>1, <2>2
  <2>8. Scan(t, sync \o EnterAlt) = Back(<<>>, 47, F, TRUE)
    BY <2>3, <2>7
  <2>9. Scan(t, sync \o LeaveAlt \o bytes) = Scan(Back(<<>>, 47, F, FALSE), bytes)
    BY <2>4, <2>5, <2>7
  <2>10. Scan(t, sync \o bytes) = Scan(Back(ms, p, F, t.alt), bytes)
    BY <2>1, <2>6
  <2> QED BY <2>8, <2>9, <2>10
<1>9. \A plan \in {"AltRedraw", "Fresh", "Truncated", "Clean"} : Handoff(plan, tail) \in Seq(Byte)
  BY <1>6, <1>7
<1>10. \A t \in Terminal : Scan(t, Handoff("AltRedraw", tail)) = Back(<<>>, 47, F, TRUE)
  BY <1>6, <1>8
<1>11. \A t \in Terminal : Scan(t, Handoff("Truncated", tail)) = Scan(Back(<<>>, 47, F, FALSE), bytes)
  BY <1>6, <1>8
<1>12. \A t \in Terminal, plan \in {"Fresh", "Clean"} :
          Scan(t, Handoff(plan, tail)) = Scan(Back(ms, p, F, t.alt), bytes)
  BY <1>6, <1>8
<1> QED
  BY <1>2, <1>9, <1>10, <1>11, <1>12, Zenon DEF F, bytes

\* A new terminal.
LEMMA NewTerminalType ==
    /\ NewTerminal \in Terminal /\ NewTerminal.scan.state = "Ground"
    /\ NewTerminal.set = Defaults /\ NewTerminal.alt = FALSE
    /\ NewScanner \in Scanner
<1>1. <<>> \in Seq(Nat)
  OBVIOUS
<1> QED
  BY <1>1 DEF NewTerminal, NewScanner, Terminal, Scanner, Defaults, Tracked

\* The queries in the bytes mean nothing: a terminal takes the rest alike.
MeantAlike(bytes) ==
    \A set \in SUBSET Tracked, alt \in BOOLEAN :
        LET t == [NewTerminal EXCEPT !.set = set, !.alt = alt]
        IN  Scan(t, bytes) = Scan(t, send_scrubbed(bytes))

\* A replay that is meant the same without its queries and ends where the
\* stream is in a sequence: the terminal that was put in the modes of the end
\* of the stream before it has them after it.
LEMMA ReplayAgrees ==
    ASSUME NEW q \in Terminal, q.scan.state = "Ground",
           NEW from \in Terminal, NEW v \in Terminal, NEW tail \in Seq(Byte),
           Scan(from, tail) = v, q.set = v.set,
           Scan(NewTerminal, tail).scan.state = v.scan.state,
           MeantAlike(tail),
           NEW u, u = Scan(q, send_scrubbed(tail))
    PROVE  /\ u.set = v.set /\ Sync(u.scan, v.scan)
           /\ u.alt = v.alt \/ u.alt = q.alt
           /\ from.scan.state = "Ground" /\ from.alt = q.alt => u.alt = v.alt
<1> DEFINE r == [NewTerminal EXCEPT !.set = q.set, !.alt = q.alt]
           bytes == send_scrubbed(tail)
           w == Scan(r, tail)
<1>1. bytes \in Seq(Byte)
  BY ScrubbedType
<1>2. NewTerminal \in Terminal /\ NewTerminal.scan.state = "Ground"
  BY NewTerminalType
<1>3. q.set \in SUBSET Tracked /\ q.alt \in BOOLEAN
  BY TerminalFields
<1>4. /\ r \in Terminal /\ r.scan = NewTerminal.scan /\ r.set = q.set /\ r.alt = q.alt
  BY <1>2, <1>3 DEF Terminal
<1>5. w = Scan(r, bytes)
  BY <1>3 DEF MeantAlike
<1> HIDE DEF r, bytes
<1>6. w \in Terminal /\ w.scan = Scan(NewTerminal, tail).scan
  BY <1>2, <1>4, ScanType, ScanSame
<1>7. /\ w.set = r.set /\ Sync(w.scan, v.scan)
      /\ w.alt = v.alt \/ w.alt = r.alt
  <2>1. Scan(r, tail).scan.state = Scan(from, tail).scan.state /\ Scan(from, tail).set = r.set
    BY <1>4, <1>6
  <2>2. r.scan.state = "Ground"
    BY <1>2, <1>4
  <2>3. /\ Scan(r, tail).set = r.set
        /\ Sync(Scan(r, tail).scan, Scan(from, tail).scan)
        /\ Scan(r, tail).alt = Scan(from, tail).alt \/ Scan(r, tail).alt = r.alt
    BY <1>4, <2>1, <2>2, LastWriterWins
  <2> QED BY <2>3
<1>8. Sync(q.scan, r.scan)
  BY <1>2, <1>4 DEF Sync
<1>9. /\ Sync(Scan(q, bytes).scan, Scan(r, bytes).scan)
      /\ Scan(q, bytes).set = Scan(r, bytes).set
      /\ Scan(q, bytes).alt = Scan(r, bytes).alt
  BY <1>1, <1>4, <1>8, ScanTogether
<1>10. u.set = w.set /\ u.alt = w.alt /\ Sync(u.scan, w.scan)
  BY <1>5, <1>9 DEF bytes
<1>11. from.scan.state = "Ground" /\ from.alt = q.alt => w.alt = v.alt
  <2> SUFFICES ASSUME from.scan.state = "Ground", from.alt = q.alt PROVE w.alt = v.alt
    OBVIOUS
  <2>1. Sync(r.scan, from.scan) /\ r.alt = from.alt
    BY <1>2, <1>4 DEF Sync
  <2>2. Scan(r, tail).alt = Scan(from, tail).alt
    BY <1>4, <2>1, ScanTogether
  <2> QED BY <2>2
<1> HIDE DEF w
<1>12. Sync(u.scan, v.scan)
  BY <1>7, <1>10 DEF Sync
<1> QED
  BY <1>4, <1>7, <1>10, <1>11, <1>12

\* Sequences with the same elements are the same.
LEMMA SameElements ==
    ASSUME NEW S, NEW x \in Seq(S), NEW y \in Seq(S), Len(x) = Len(y),
           \A i \in 1..Len(x) : x[i] = y[i]
    PROVE  x = y
OBVIOUS

\* A sequence is its first part and the rest of it.
LEMMA Parts ==
    ASSUME NEW q \in Seq(Byte), NEW k \in 0..Len(q)
    PROVE  LET rest == [i \in 1..(Len(q) - k) |-> q[k + i]]
           IN  /\ SubSeq(q, 1, k) \in Seq(Byte) /\ rest \in Seq(Byte)
               /\ q = SubSeq(q, 1, k) \o rest
<1> DEFINE n == Len(q)
           first == SubSeq(q, 1, k)
           rest == [i \in 1..(n - k) |-> q[k + i]]
<1>1. n \in Nat /\ n - k \in Nat /\ k \in Nat /\ k <= n
  OBVIOUS
<1>2. first \in Seq(Byte) /\ Len(first) = k /\ \A i \in 1..k : first[i] = q[i]
  BY <1>1
<1>3. \A i \in 1..(n - k) : k + i \in 1..n
  BY <1>1
<1>4. rest \in Seq(Byte) /\ Len(rest) = n - k /\ \A i \in 1..(n - k) : rest[i] = q[k + i]
  <2>1. \A i \in 1..(n - k) : q[k + i] \in Byte
    BY <1>3
  <2>2. rest \in [1..(n - k) -> Byte]
    BY <2>1
  <2>3. DOMAIN rest = 1..(n - k)
    OBVIOUS
  <2>4. rest \in Seq(Byte)
    BY <1>1, <2>2
  <2> QED BY <1>1, <2>3, <2>4
<1>5. q = first \o rest
  <2> HIDE DEF first, rest
  <2>1. first \o rest \in Seq(Byte) /\ Len(first \o rest) = n
    BY <1>1, <1>2, <1>4
  <2>2. \A i \in 1..n : (first \o rest)[i] = q[i]
    <3> SUFFICES ASSUME NEW i \in 1..n PROVE (first \o rest)[i] = q[i]
      OBVIOUS
    <3>1. CASE i <= k
      BY <1>1, <1>2, <1>4, <3>1
    <3>2. CASE i > k
      <4>1. i - k \in 1..(n - k) /\ k + (i - k) = i
        BY <1>1, <3>2
      <4>2. (first \o rest)[i] = rest[i - k]
        BY <1>1, <1>2, <1>4, <3>2, <4>1
      <4> QED BY <1>4, <4>1, <4>2
    <3>3. i <= k \/ i > k
      BY <1>1
    <3> QED BY <3>1, <3>2, <3>3
  <2> DEFINE both == first \o rest
  <2> HIDE DEF both
  <2>3. \A i \in 1..Len(q) : q[i] = both[i]
    BY <2>2 DEF both
  <2>4. q = both
    BY <2>1, <2>3, SameElements DEF both
  <2> QED BY <2>4 DEF both
<1> QED
  BY <1>2, <1>4, <1>5

\* A function on the first numbers is a sequence.
LEMMA AsSequence ==
    ASSUME NEW S, NEW m \in Nat, NEW f \in [1..m -> S]
    PROVE  f \in Seq(S) /\ <<>> \in Seq(S)
OBVIOUS

\* The stream is a sequence of bytes.
LEMMA WrittenBytes ==
    ASSUME TerminalSyncAssumption, written \in Seq(Chunks)
    PROVE  written \in Seq(Seq(Byte)) /\ Stream \in Seq(Byte)
<1>1. written \in Seq(Seq(Byte))
  <2>1. Chunks \subseteq Seq(Byte)
    BY DEF TerminalSyncAssumption
  <2> QED BY <2>1, SeqWithin
<1>2. <<>> \in Seq(Byte)
  OBVIOUS
<1>3. FlattenSeq(written) \in Seq(Byte)
  BY <1>1, <1>2, BytesAppend
<1> QED
  BY <1>1, <1>3 DEF Stream, Bytes

\* The history begins at a chunk that was written.
LEMMA BaseRange ==
    ASSUME TerminalSyncAssumption, written \in Seq(Chunks)
    PROVE  base \in 0..Len(written)
<1>1. Len(written) \in Nat /\ Cap \in Nat
  BY DEF TerminalSyncAssumption
<1> DEFINE x == Len(written) - Cap
           s == {0, x}
<1>2. x \in Int /\ x <= Len(written)
  BY <1>1
<1> HIDE DEF x
<1>3. \E m \in s : \A y \in s : m >= y
  <2>1. CASE x >= 0
    BY <1>2, <2>1
  <2>2. CASE ~ (x >= 0)
    BY <1>2, <2>2
  <2> QED BY <2>1, <2>2
<1>4. Max(s) \in s /\ \A y \in s : Max(s) >= y
  BY <1>3 DEF Max
<1>5. Max(s) >= 0 /\ Max(s) \in Int /\ Max(s) <= Len(written)
  BY <1>1, <1>2, <1>4
<1>6. base = Max(s)
  BY DEF base, s, x
<1> QED
  BY <1>1, <1>5, <1>6

\* What a terminal that has seen all of the stream but a last part makes of
\* that part.
LEMMA RestOfStream ==
    ASSUME TerminalSyncAssumption, written \in Seq(Chunks), SessionHasAll,
           NEW k \in 0..Len(Stream),
           NEW tail, tail = [i \in 1..(Len(Stream) - k) |-> Stream[k + i]]
    PROVE  /\ tail \in Seq(Byte) /\ SubSeq(Stream, 1, k) \in Seq(Byte)
           /\ Scan(NewTerminal, SubSeq(Stream, 1, k)) \in Terminal
           /\ Scan(Scan(NewTerminal, SubSeq(Stream, 1, k)), tail) = server
<1>1. Stream \in Seq(Byte)
  BY TerminalSyncAssumption, WrittenBytes
<1>2. /\ tail \in Seq(Byte) /\ SubSeq(Stream, 1, k) \in Seq(Byte)
      /\ Stream = SubSeq(Stream, 1, k) \o tail
  BY <1>1, Parts
<1>3. SubSeq(written, 1, Len(written)) = written
  OBVIOUS
<1>4. server = Scan(NewTerminal, Stream)
  BY <1>3 DEF SessionHasAll, Told, Stream
<1>5. NewTerminal \in Terminal
  BY NewTerminalType
<1> DEFINE first == SubSeq(Stream, 1, k)
<1> HIDE DEF first
<1>6. first \in Seq(Byte)
  BY <1>2 DEF first
<1>7. Scan(NewTerminal, first \o tail) = Scan(Scan(NewTerminal, first), tail)
  BY <1>2, <1>5, <1>6, ScanConcat
<1>8. Scan(NewTerminal, first) \in Terminal
  BY <1>5, <1>6, ScanType
<1> QED
  BY <1>2, <1>4, <1>7, <1>8 DEF first

\* The bytes of the first chunks are the first bytes.
LEMMA SeenOfStream ==
    ASSUME TerminalSyncAssumption, written \in Seq(Chunks), NEW n \in 0..Len(written)
    PROVE  /\ Bytes(SubSeq(written, 1, n)) \in Seq(Byte)
           /\ Len(Bytes(SubSeq(written, 1, n))) \in 0..Len(Stream)
           /\ Bytes(SubSeq(written, 1, n))
                = SubSeq(Stream, 1, Len(Bytes(SubSeq(written, 1, n))))
<1> DEFINE w == SubSeq(written, 1, n)
<1>1. written \in Seq(Seq(Byte))
  BY TerminalSyncAssumption, WrittenBytes
<1>2. w \in Seq(Seq(Byte)) /\ \E rest \in Seq(Byte) : FlattenSeq(written) = FlattenSeq(w) \o rest
  BY <1>1, BytesPrefix
<1>3. PICK rest \in Seq(Byte) : FlattenSeq(written) = FlattenSeq(w) \o rest
  BY <1>2
<1> HIDE DEF w
<1>4. <<>> \in Seq(Byte)
  OBVIOUS
<1>5. FlattenSeq(w) \in Seq(Byte)
  BY <1>2, <1>4, BytesAppend
<1> DEFINE a == FlattenSeq(w)
           q == FlattenSeq(written)
<1> HIDE DEF a, q
<1>6. a \in Seq(Byte) /\ q = a \o rest
  BY <1>3, <1>5 DEF a, q
<1>7. Len(a) \in 0..Len(q) /\ SubSeq(q, 1, Len(a)) \in Seq(Byte) /\ Len(SubSeq(q, 1, Len(a))) = Len(a)
  BY <1>6
<1>8. \A i \in 1..Len(a) : a[i] = SubSeq(q, 1, Len(a))[i]
  BY <1>6
<1>9. a = SubSeq(q, 1, Len(a))
  BY <1>6, <1>7, <1>8, SameElements
<1> QED
  BY <1>6, <1>7, <1>9 DEF a, q, w, Bytes, Stream

\* What is shown of the stream, and how the result was judged.
ShownOf(plan, tail) ==
    /\ plan \in {"AltRedraw", "Fresh", "Truncated", "Clean"} /\ tail \in Seq(Byte)
    /\ plan = "AltRedraw" <=> server.alt
    /\ plan = "AltRedraw" => tail = <<>>
    /\ aligned' =>
          /\ Scan(NewTerminal, tail).scan.state = server.scan.state
          /\ MeantAlike(tail)
    /\ aligned' /\ plan # "AltRedraw" => \E from \in Terminal : Scan(from, tail) = server
    /\ aligned' /\ whole' /\ plan = "Clean" =>
          /\ whole /\ aligned
          /\ Told(rendered) \in Terminal /\ Told(rendered).scan.state = "Ground"
          /\ Scan(Told(rendered), tail) = server

\* send_reconnect_replay, as a plan and the part of the stream that it shows.
LEMMA ReplayShown ==
    ASSUME TerminalSyncAssumption, Types, SessionHasAll, NEW is_fresh \in BOOLEAN,
           NEW terminal \in Terminal, NEW tracker \in Terminal,
           send_reconnect_replay(is_fresh, terminal, tracker)
    PROVE  /\ rendered' = Len(written) /\ scrollback' \in Kept(Len(Stream))
           /\ aligned' \in BOOLEAN /\ whole' \in BOOLEAN
           /\ \E plan, tail :
                 /\ ShownOf(plan, tail)
                 /\ is_fresh => plan # "Clean"
                 /\ plan = "Fresh" => is_fresh
                 /\ term' = Scan(terminal, Handoff(plan, tail))
                 /\ alt_screen' = Scan(tracker, Handoff(plan, tail))
<1> DEFINE plan == CASE server.alt -> "AltRedraw"
                     [] ~server.alt /\ is_fresh -> "Fresh"
                     [] ~server.alt /\ ~is_fresh /\ rendered < base -> "Truncated"
                     [] OTHER -> "Clean"
           total == Len(Stream)
           seen == Bytes(SubSeq(written, 1, IF plan = "Truncated" THEN base ELSE rendered))
           shown == CASE plan = "AltRedraw" -> <<>>
                      [] plan = "Fresh" -> lines_and_partial
                      [] OTHER -> [i \in 1..(total - Len(seen)) |-> Len(seen) + i]
           tail == [i \in DOMAIN shown |-> Stream[shown[i]]]
           Meant == MeantAlike(tail)
           Ends == Scan(NewTerminal, tail).scan.state = server.scan.state
           NoGap == \A i \in DOMAIN shown : shown[i] = total - Len(shown) + i
           Uncut == whole /\ aligned /\ Scan(NewTerminal, seen).scan.state = "Ground"
<1>1. /\ term' = Scan(terminal, Handoff(plan, tail))
      /\ alt_screen' = Scan(tracker, Handoff(plan, tail))
      /\ rendered' = Len(written)
      /\ scrollback' = IF plan = "Fresh" THEN [scrollback EXCEPT !.lines = <<>>]
                                         ELSE scrollback
      /\ aligned' = (Ends /\ Meant /\ NoGap)
      /\ whole' = (plan = "Clean" => Uncut)
  BY DEF send_reconnect_replay, MeantAlike
<1>2. /\ written \in Seq(Chunks) /\ server \in Terminal /\ scrollback \in Kept(total)
      /\ rendered \in 0..Len(written) /\ total \in Nat /\ Stream \in Seq(Byte)
  <2>1. written \in Seq(Chunks) /\ server \in Terminal /\ scrollback \in Kept(total)
        /\ rendered \in 0..Len(written)
    BY DEF Types
  <2> QED BY <2>1, TerminalSyncAssumption, WrittenBytes
<1>3. server.alt \in BOOLEAN
  BY <1>2, TerminalFields
<1>4. /\ plan \in {"AltRedraw", "Fresh", "Truncated", "Clean"}
      /\ plan = "AltRedraw" <=> server.alt
      /\ is_fresh => plan # "Clean"
      /\ plan = "Fresh" => is_fresh
  BY <1>3
<1> HIDE DEF plan
<1>5. shown \in Seq(1..total)
  <2>1. CASE plan = "AltRedraw"
    <3>1. shown = <<>>
      BY <2>1
    <3> HIDE DEF shown, total
    <3> QED BY <3>1, EmptySeq
  <2>2. CASE plan = "Fresh"
    <3>1. shown = lines_and_partial
      BY <2>2
    <3>2. lines_and_partial \in Seq(1..total)
      BY <1>2, KeptShown
    <3> QED BY <3>1, <3>2
  <2>3. CASE plan \in {"Truncated", "Clean"}
    <3>1. shown = [i \in 1..(total - Len(seen)) |-> Len(seen) + i]
      BY <2>3
    <3>2. Len(seen) \in 0..total
      BY <1>2, TerminalSyncAssumption, BaseRange, SeenOfStream
    <3> HIDE DEF seen, shown
    <3> DEFINE m == total - Len(seen)
    <3>3. m \in Nat /\ \A i \in 1..m : Len(seen) + i \in 1..total
      BY <1>2, <3>2
    <3>4. shown \in [1..m -> 1..total]
      BY <3>1, <3>3
    <3> HIDE DEF m, total, shown
    <3> QED BY <3>3, <3>4, AsSequence
  <2> QED BY <1>4, <2>1, <2>2, <2>3
<1>6. tail \in Seq(Byte)
  <2> HIDE DEF shown
  <2>1. DOMAIN shown = 1..Len(shown) /\ Len(shown) \in Nat /\ \A i \in DOMAIN shown : shown[i] \in 1..total
    BY <1>5
  <2>2. \A i \in DOMAIN shown : Stream[shown[i]] \in Byte
    BY <1>2, <2>1
  <2>3. tail \in [1..Len(shown) -> Byte]
    BY <2>1, <2>2
  <2> HIDE DEF tail
  <2> QED BY <2>1, <2>3
<1>7. scrollback' \in Kept(total)
  <2>1. [scrollback EXCEPT !.lines = <<>>] \in Kept(total)
    <3>1. <<>> \in Seq(Seq(1..total))
      OBVIOUS
    <3> QED BY <1>2, <3>1 DEF Kept
  <2> HIDE DEF tail, shown
  <2> QED BY <1>1, <1>2, <2>1
<1>8. plan = "Clean" => /\ tail = [i \in 1..(total - Len(seen)) |-> Stream[Len(seen) + i]]
                        /\ seen = Bytes(SubSeq(written, 1, rendered))
  <2> SUFFICES ASSUME plan = "Clean"
               PROVE  /\ tail = [i \in 1..(total - Len(seen)) |-> Stream[Len(seen) + i]]
                      /\ seen = Bytes(SubSeq(written, 1, rendered))
    OBVIOUS
  <2>1. shown = [i \in 1..(total - Len(seen)) |-> Len(seen) + i]
    OBVIOUS
  <2>2. seen = Bytes(SubSeq(written, 1, rendered))
    OBVIOUS
  <2> HIDE DEF seen, shown
  <2>3. tail = [i \in 1..(total - Len(seen)) |-> Stream[Len(seen) + i]]
    BY <2>1
  <2> QED BY <2>2, <2>3
<1>9. ASSUME NoGap
      PROVE  \E k \in 0..total : tail = [i \in 1..(total - k) |-> Stream[k + i]]
  <2> HIDE DEF shown
  <2> DEFINE k == total - Len(shown)
  <2>1. DOMAIN shown = 1..Len(shown) /\ Len(shown) \in Nat
    BY <1>5
  <2>2. k \in 0..total
    <3>1. CASE Len(shown) = 0
      BY <1>2, <3>1
    <3>2. CASE Len(shown) # 0
      <4>1. 1 \in DOMAIN shown
        BY <2>1, <3>2
      <4>2. shown[1] \in 1..total /\ shown[1] = total - Len(shown) + 1
        BY <1>5, <1>9, <4>1
      <4> QED BY <1>2, <2>1, <4>2
    <3> QED BY <3>1, <3>2
  <2>3. total - k = Len(shown)
    BY <1>2, <2>1
  <2>4. \A i \in DOMAIN shown : shown[i] = k + i
    BY <1>9
  <2>5. tail = [i \in 1..(total - k) |-> Stream[k + i]]
    <3> HIDE DEF k
    <3> QED BY <2>1, <2>3, <2>4
  <2> QED BY <2>2, <2>5
<1>10. aligned' => \E from \in Terminal : Scan(from, tail) = server
  <2> SUFFICES ASSUME aligned' PROVE \E from \in Terminal : Scan(from, tail) = server
    OBVIOUS
  <2>1. NoGap
    BY <1>1
  <2>2. PICK k \in 0..total : tail = [i \in 1..(total - k) |-> Stream[k + i]]
    BY <1>9, <2>1
  <2> HIDE DEF tail
  <2>3. /\ Scan(NewTerminal, SubSeq(Stream, 1, k)) \in Terminal
        /\ Scan(Scan(NewTerminal, SubSeq(Stream, 1, k)), tail) = server
    BY <1>2, <2>2, TerminalSyncAssumption, RestOfStream
  <2> QED BY <2>3
<1>11. aligned' /\ whole' /\ plan = "Clean" =>
          /\ whole /\ aligned
          /\ Told(rendered) \in Terminal /\ Told(rendered).scan.state = "Ground"
          /\ Scan(Told(rendered), tail) = server
  <2> SUFFICES ASSUME whole', plan = "Clean"
               PROVE  /\ whole /\ aligned
                      /\ Told(rendered) \in Terminal /\ Told(rendered).scan.state = "Ground"
                      /\ Scan(Told(rendered), tail) = server
    OBVIOUS
  <2>1. Uncut
    BY <1>1
  <2> HIDE DEF tail, seen
  <2>2. seen = Bytes(SubSeq(written, 1, rendered))
        /\ tail = [i \in 1..(total - Len(seen)) |-> Stream[Len(seen) + i]]
    BY <1>8
  <2>3. Len(seen) \in 0..total /\ seen = SubSeq(Stream, 1, Len(seen))
    BY <1>2, <2>2, TerminalSyncAssumption, SeenOfStream
  <2>4. /\ Scan(NewTerminal, SubSeq(Stream, 1, Len(seen))) \in Terminal
        /\ Scan(Scan(NewTerminal, SubSeq(Stream, 1, Len(seen))), tail) = server
    BY <1>2, <2>2, <2>3, TerminalSyncAssumption, RestOfStream
  <2>5. Told(rendered) = Scan(NewTerminal, seen)
    BY <2>2 DEF Told
  <2> QED BY <2>1, <2>3, <2>4, <2>5
<1>18. plan = "AltRedraw" => tail = <<>>
  <2> SUFFICES ASSUME plan = "AltRedraw" PROVE tail = <<>>
    OBVIOUS
  <2>1. shown = <<>>
    OBVIOUS
  <2> HIDE DEF shown
  <2>2. DOMAIN shown = {} /\ DOMAIN tail = {}
    BY <2>1
  <2>3. Len(tail) = 0
    BY <1>6, <2>2
  <2> HIDE DEF tail
  <2> QED BY <1>6, <2>3, EmptySeq
<1>12. aligned' => Ends /\ Meant
  BY <1>1
<1>13. aligned' \in BOOLEAN /\ whole' \in BOOLEAN
  BY <1>1
<1> HIDE DEF tail, shown
<1>14. ShownOf(plan, tail)
  <2> HIDE DEF seen
  <2> QED BY <1>4, <1>6, <1>10, <1>11, <1>12, <1>18, Zenon DEF ShownOf
<1>15. /\ is_fresh => plan # "Clean"
       /\ plan = "Fresh" => is_fresh
       /\ term' = Scan(terminal, Handoff(plan, tail))
       /\ alt_screen' = Scan(tracker, Handoff(plan, tail))
  BY <1>1, <1>4, <1>14
<1>16. rendered' = Len(written) /\ scrollback' \in Kept(Len(Stream))
  BY <1>1, <1>7
<1> HIDE DEF total
<1> QED
  BY <1>13, <1>14, <1>15, <1>16, Zenon

\* What a replay leaves, in a terminal and in the tracker of its client.
LEMMA ReplayEnds ==
    ASSUME TerminalSyncAssumption, Types, SessionHasAll, NEW is_fresh \in BOOLEAN,
           NEW terminal \in Terminal, NEW tracker \in Terminal,
           send_reconnect_replay(is_fresh, terminal, tracker)
    PROVE  /\ term' \in Terminal /\ alt_screen' \in Terminal
           /\ term'.scan = alt_screen'.scan
           /\ terminal.alt = tracker.alt => term'.alt = alt_screen'.alt
           /\ aligned' => term'.set = server.set /\ Sync(term'.scan, server.scan)
           /\ /\ aligned' /\ whole'
              /\ is_fresh => terminal.alt = FALSE
              /\ ~is_fresh /\ whole /\ aligned => terminal.alt = Told(rendered).alt
              => term'.alt = server.alt
<1>1. PICK plan, tail :
        /\ ShownOf(plan, tail)
        /\ is_fresh => plan # "Clean"
        /\ plan = "Fresh" => is_fresh
        /\ term' = Scan(terminal, Handoff(plan, tail))
        /\ alt_screen' = Scan(tracker, Handoff(plan, tail))
  BY TerminalSyncAssumption, ReplayShown, Zenon
<1>2. server \in Terminal
  BY DEF Types
<1>3. /\ plan \in {"AltRedraw", "Fresh", "Truncated", "Clean"} /\ tail \in Seq(Byte)
      /\ plan = "AltRedraw" <=> server.alt
      /\ plan = "AltRedraw" => tail = <<>>
  BY <1>1 DEF ShownOf
<1>4. server.set \in SUBSET Tracked /\ server.alt \in BOOLEAN
      /\ terminal.alt \in BOOLEAN /\ tracker.alt \in BOOLEAN
  BY <1>2, TerminalFields
<1> DEFINE bytes == send_scrubbed(tail)
<1>5. bytes \in Seq(Byte)
  BY <1>3, ScrubbedType
<1>6. /\ \A t \in Terminal : Scan(t, Handoff("AltRedraw", tail)) = Back(<<>>, 47, server.set, TRUE)
      /\ \A t \in Terminal : Scan(t, Handoff("Truncated", tail))
                               = Scan(Back(<<>>, 47, server.set, FALSE), bytes)
      /\ \E ms \in Seq(Nat), p \in Nat :
           \A t \in Terminal, kind \in {"Fresh", "Clean"} :
              Scan(t, Handoff(kind, tail)) = Scan(Back(ms, p, server.set, t.alt), bytes)
  BY <1>2, <1>3, TerminalSyncAssumption, HandoffScan, Zenon
<1>7. CASE plan = "AltRedraw"
  <2> DEFINE e == <<>>
  <2>1. e \in Seq(Nat) /\ 47 \in Nat
    BY EmptySeq
  <2>2. /\ term' = Back(e, 47, server.set, TRUE)
        /\ alt_screen' = Back(e, 47, server.set, TRUE)
    BY <1>1, <1>6, <1>7
  <2> HIDE DEF e
  <2>3. Back(e, 47, server.set, TRUE) \in Terminal
    BY <1>4, <2>1, WithinType
  <2>4. /\ term' \in Terminal /\ alt_screen' = term'
        /\ term'.scan.state = "Ground" /\ term'.set = server.set /\ term'.alt = TRUE
    BY <2>2, <2>3 DEF Back
  <2>5. aligned' => Sync(term'.scan, server.scan)
    <3> SUFFICES ASSUME aligned' PROVE Sync(term'.scan, server.scan)
      OBVIOUS
    <3>1. Scan(NewTerminal, tail).scan.state = server.scan.state
      BY <1>1 DEF ShownOf
    <3>2. Scan(NewTerminal, <<>>) = NewTerminal /\ NewTerminal.scan.state = "Ground"
      BY NewTerminalType, ScanEmpty
    <3>3. server.scan.state = "Ground"
      BY <1>3, <1>7, <3>1, <3>2
    <3> QED BY <2>4, <3>3 DEF Sync
  <2>6. server.alt = TRUE
    BY <1>3, <1>4, <1>7
  <2> QED BY <2>4, <2>5, <2>6
\* The modes, when the replay is judged: the same for the three other plans.
<1>8. ASSUME aligned', plan # "AltRedraw", NEW q \in Terminal, q.scan.state = "Ground",
             q.set = server.set, term' = Scan(q, bytes)
      PROVE  /\ term'.set = server.set /\ Sync(term'.scan, server.scan)
             /\ term'.alt = server.alt \/ term'.alt = q.alt
             /\ /\ whole' /\ plan = "Clean" /\ Told(rendered).alt = q.alt
                => term'.alt = server.alt
  <2>1. /\ Scan(NewTerminal, tail).scan.state = server.scan.state
        /\ MeantAlike(tail)
    BY <1>1, <1>8, Zenon DEF ShownOf
  <2>2. PICK from \in Terminal : Scan(from, tail) = server
    BY <1>1, <1>8, Zenon DEF ShownOf
  <2> DEFINE u == term'
  <2>3. u = Scan(q, send_scrubbed(tail))
    BY <1>8
  <2> HIDE DEF u
  <2>4. ASSUME NEW f \in Terminal, Scan(f, tail) = server
        PROVE  /\ u.set = server.set /\ Sync(u.scan, server.scan)
               /\ u.alt = server.alt \/ u.alt = q.alt
               /\ f.scan.state = "Ground" /\ f.alt = q.alt => u.alt = server.alt
    <3>1. q \in Terminal /\ q.scan.state = "Ground" /\ q.set = server.set /\ tail \in Seq(Byte)
      BY <1>3, <1>8
    <3> QED BY <1>2, <2>1, <2>3, <2>4, <3>1, ReplayAgrees
  <2>5. /\ u.set = server.set /\ Sync(u.scan, server.scan)
        /\ u.alt = server.alt \/ u.alt = q.alt
    BY <2>2, <2>4
  <2>6. whole' /\ plan = "Clean" /\ Told(rendered).alt = q.alt => u.alt = server.alt
    <3> SUFFICES ASSUME whole', plan = "Clean", Told(rendered).alt = q.alt PROVE u.alt = server.alt
      OBVIOUS
    <3> DEFINE f == Told(rendered)
    <3>1. f \in Terminal /\ f.scan.state = "Ground" /\ Scan(f, tail) = server
      BY <1>1, <1>8 DEF ShownOf
    <3> HIDE DEF f
    <3>2. f.alt = q.alt
      BY DEF f
    <3> QED BY <2>4, <3>1, <3>2
  <2> QED BY <2>5, <2>6 DEF u
<1>9. CASE plan = "Truncated"
  <2> DEFINE e == <<>>
             q == Back(e, 47, server.set, FALSE)
  <2>1. e \in Seq(Nat) /\ 47 \in Nat
    BY EmptySeq
  <2>2. term' = Scan(q, bytes) /\ alt_screen' = Scan(q, bytes)
    BY <1>1, <1>6, <1>9
  <2> HIDE DEF e
  <2>3. q \in Terminal
    BY <1>4, <2>1, WithinType
  <2>4. q.scan.state = "Ground" /\ q.set = server.set /\ q.alt = FALSE
    BY DEF Back
  <2> HIDE DEF q, bytes
  <2>5. term' \in Terminal /\ alt_screen' = term'
    BY <1>5, <2>2, <2>3, ScanType
  <2>6. aligned' => /\ term'.set = server.set /\ Sync(term'.scan, server.scan)
                    /\ term'.alt = server.alt \/ term'.alt = FALSE
    BY <1>8, <1>9, <2>2, <2>3, <2>4
  <2>7. server.alt = FALSE
    BY <1>3, <1>4, <1>9
  <2> QED BY <2>5, <2>6, <2>7
<1>10. CASE plan \in {"Fresh", "Clean"}
  <2>1. PICK ms \in Seq(Nat), p \in Nat :
           \A t \in Terminal, kind \in {"Fresh", "Clean"} :
              Scan(t, Handoff(kind, tail)) = Scan(Back(ms, p, server.set, t.alt), bytes)
    BY <1>6
  <2> DEFINE q == Back(ms, p, server.set, terminal.alt)
             k == Back(ms, p, server.set, tracker.alt)
  <2>2. term' = Scan(q, bytes) /\ alt_screen' = Scan(k, bytes)
    BY <1>1, <1>10, <2>1
  <2>3. q \in Terminal /\ k \in Terminal
    BY <1>4, WithinType
  <2>4. /\ q.scan.state = "Ground" /\ q.set = server.set /\ q.alt = terminal.alt
        /\ q.scan = k.scan
        /\ terminal.alt = tracker.alt => q = k
    BY DEF Back
  <2> HIDE DEF q, k, bytes
  <2>5. term' \in Terminal /\ alt_screen' \in Terminal /\ term'.scan = alt_screen'.scan
    BY <1>5, <2>2, <2>3, <2>4, ScanType, ScanSame
  <2>6. terminal.alt = tracker.alt => term'.alt = alt_screen'.alt
    BY <2>2, <2>4
  <2>7. plan # "AltRedraw"
    BY <1>10
  <2>8. aligned' => /\ term'.set = server.set /\ Sync(term'.scan, server.scan)
                    /\ term'.alt = server.alt \/ term'.alt = terminal.alt
                    /\ /\ whole' /\ plan = "Clean" /\ Told(rendered).alt = terminal.alt
                       => term'.alt = server.alt
    BY <1>8, <2>2, <2>3, <2>4, <2>7
  <2>9. server.alt = FALSE
    BY <1>3, <1>4, <1>10
  <2>10. aligned' /\ whole' /\ plan = "Clean" => whole /\ aligned
    BY <1>1 DEF ShownOf
  <2>11. /\ aligned' /\ whole'
         /\ is_fresh => terminal.alt = FALSE
         /\ ~is_fresh /\ whole /\ aligned => terminal.alt = Told(rendered).alt
         => term'.alt = server.alt
    <3>1. CASE plan = "Fresh"
      BY <1>1, <2>8, <2>9, <3>1
    <3>2. CASE plan = "Clean"
      BY <1>1, <2>8, <2>10, <3>2
    <3> QED BY <1>10, <3>1, <3>2
  <2> QED BY <2>5, <2>6, <2>8, <2>11
<1> QED
  BY <1>3, <1>7, <1>9, <1>10

-----------------------------------------------------------------------------
(* The invariant *)

\* It holds at the start.
LEMMA InitInvariant ==
    ASSUME TerminalSyncAssumption, Init
    PROVE  IInv
<1>1. written = <<>> /\ Len(written) = 0 /\ SubSeq(written, 1, 0) = <<>>
  BY DEF Init
<1>2. Bytes(<<>>) = <<>>
  BY DEF Bytes, FlattenSeq
<1>3. NewTerminal \in Terminal
  BY NewTerminalType
<1>4. Told(0) = NewTerminal
  BY <1>1, <1>2, <1>3, ScanEmpty DEF Told
<1>5. scrollback \in Kept(Len(Stream))
  <2>1. Stream = <<>> /\ Len(Stream) = 0
    BY <1>1, <1>2 DEF Stream
  <2>2. scrollback = [lines |-> <<>>, partial |-> <<>>]
    BY DEF Init
  <2>3. <<>> \in Seq(Seq(1..Len(Stream))) /\ <<>> \in Seq(1..Len(Stream))
    BY EmptySeq
  <2> QED BY <2>2, <2>3 DEF Kept
<1>6. written \in Seq(Chunks)
  BY <1>1, EmptySeq
<1>7. Types
  <2>1. turns \in 0..MaxTurns
    BY DEF Init, TerminalSyncAssumption
  <2>2. rendered \in 0..Len(written)
    BY <1>1 DEF Init
  <2> QED BY <1>3, <1>5, <1>6, <2>1, <2>2 DEF Init, Types
<1>8. SessionHasAll /\ ClientHasAll /\ TrackerIsRight
  BY <1>1, <1>4 DEF Init, SessionHasAll, ClientHasAll, TrackerIsRight
<1>9. ModesAgree
  BY DEF Init, ModesAgree, Sync
<1>10. ScreenAgrees
  BY <1>4 DEF Init, ScreenAgrees
<1>11. HandedBack
  BY DEF Init, HandedBack
<1> QED
  BY <1>7, <1>8, <1>9, <1>10, <1>11 DEF IInv

\* Nothing is written: what has been told stays.
LEMMA ToldStays ==
    ASSUME UNCHANGED written
    PROVE  /\ \A n : Told(n)' = Told(n)
           /\ Stream' = Stream
BY DEF Told, Stream

\* Output takes the session, and the terminal of an attached client, on alike.
LEMMA OutputStep ==
    ASSUME TerminalSyncAssumption, IInv, NEW chunk \in Chunks, Output(chunk)
    PROVE  IInv'
<1> DEFINE n == Len(written)
           To(w, k) == Scan(NewTerminal, Bytes(SubSeq(w, 1, k)))
<1>1. /\ written \in Seq(Chunks) /\ server \in Terminal /\ term \in Terminal
      /\ alt_screen \in Terminal /\ scrollback \in Kept(Len(Stream)) /\ rendered \in 0..n
      /\ link \in {"attached", "detached", "exited", "killed"}
      /\ {stray, inherited, aligned, whole} \subseteq BOOLEAN /\ turns \in 0..MaxTurns
  BY DEF IInv, Types
<1>2. chunk \in Seq(Byte)
  BY DEF TerminalSyncAssumption
<1>3. written \in Seq(Seq(Byte)) /\ Stream \in Seq(Byte) /\ <<>> \in Seq(Byte)
  BY <1>1, TerminalSyncAssumption, WrittenBytes, EmptySeq
<1>4. /\ written' = Append(written, chunk) /\ written' \in Seq(Chunks) /\ Len(written') = n + 1
      /\ n \in Nat
      /\ \A k \in 0..n : SubSeq(written', 1, k) = SubSeq(written, 1, k)
      /\ SubSeq(written', 1, n + 1) = written' /\ SubSeq(written, 1, n) = written
  <2>1. written' = Append(written, chunk)
    BY DEF Output
  <2>2. written' \in Seq(Chunks) /\ Len(written') = n + 1 /\ n \in Nat
    BY <1>1, <2>1
  <2>3. \A k \in 0..n : SubSeq(written', 1, k) = SubSeq(written, 1, k)
    BY <1>1, <2>1
  <2>4. SubSeq(written', 1, n + 1) = written' /\ SubSeq(written, 1, n) = written
    BY <1>1, <2>2
  <2> QED BY <2>1, <2>2, <2>3, <2>4
<1>5. Stream' = Stream \o chunk
  BY <1>2, <1>3, <1>4, BytesAppend DEF Stream, Bytes
<1>6. /\ \A k \in 0..n : To(written', k) = To(written, k)
      /\ To(written', n + 1) = server' /\ To(written, n) = server
  <2>1. \A k \in 0..n : To(written', k) = To(written, k)
    BY <1>4
  <2>2. To(written, n) = server
    BY DEF IInv, SessionHasAll, Told
  <2>3. server = Scan(NewTerminal, Stream)
    BY <1>4, <2>2 DEF Stream
  <2>4. To(written', n + 1) = Scan(NewTerminal, Stream')
    BY <1>4 DEF Stream
  <2>5. Scan(NewTerminal, Stream \o chunk) = Scan(Scan(NewTerminal, Stream), chunk)
    BY <1>2, <1>3, NewTerminalType, ScanConcat
  <2>6. server' = Scan(server, chunk)
    BY DEF Output
  <2> QED BY <1>5, <2>1, <2>2, <2>3, <2>4, <2>5, <2>6
<1>0. Told(rendered) = To(written, rendered) /\ Told(rendered)' = To(written', rendered')
  BY DEF Told
<1>19. Told(Len(written))' = To(written', Len(written'))
  BY DEF Told
<1>7. server' = Scan(server, chunk) /\ server' \in Terminal
  BY <1>1, <1>2, ScanType DEF Output
<1>8. /\ link = "attached" => /\ term' = Scan(term, chunk) /\ alt_screen' = Scan(alt_screen, chunk)
                              /\ rendered' = rendered + 1
      /\ link # "attached" => term' = term /\ alt_screen' = alt_screen /\ rendered' = rendered
      /\ UNCHANGED <<link, stray, inherited, aligned, whole, turns>>
  BY DEF Output
<1>9. /\ term' \in Terminal /\ alt_screen' \in Terminal
  BY <1>1, <1>2, <1>8, ScanType
<1>10. scrollback' \in Kept(Len(Stream'))
  <2>1. Len(Stream') = Len(Stream) + Len(chunk) /\ Len(Stream) \in Nat /\ Len(chunk) \in Nat
    BY <1>2, <1>3, <1>5
  <2>2. ScrollbackPush(scrollback, chunk) \in Kept(Len(Stream) + Len(chunk))
    BY <1>1, <1>2, <2>1, ScrollbackPushType
  <2>3. scrollback \in Kept(Len(Stream) + Len(chunk))
    BY <1>1, <2>1, KeptGrows
  <2>4. scrollback' \in {scrollback, ScrollbackPush(scrollback, chunk)}
    BY DEF Output
  <2> QED BY <2>1, <2>2, <2>3, <2>4
<1>11. link = "attached" => rendered = n
  BY DEF IInv, ClientHasAll
<1> HIDE DEF n, To
<1>12. Types'
  <2>1. rendered' \in 0..Len(written')
    BY <1>1, <1>4, <1>8, <1>11
  <2> QED BY <1>1, <1>4, <1>7, <1>8, <1>9, <1>10, <2>1 DEF Types
<1>13. SessionHasAll'
  BY <1>19, <1>4, <1>6 DEF SessionHasAll
<1>14. ClientHasAll'
  <2> SUFFICES ASSUME link' = "attached"
               PROVE  rendered' = Len(written') /\ term'.scan = alt_screen'.scan
    BY DEF ClientHasAll
  <2>1. link = "attached" /\ term.scan = alt_screen.scan
    BY <1>8 DEF IInv, ClientHasAll
  <2>2. Scan(term, chunk).scan = Scan(alt_screen, chunk).scan
    BY <1>1, <1>2, <2>1, ScanSame
  <2> QED BY <1>4, <1>8, <1>11, <2>1, <2>2
<1>15. TrackerIsRight'
  <2> SUFFICES ASSUME HasClient', ~inherited' PROVE term'.alt = alt_screen'.alt
    BY DEF TrackerIsRight
  <2>1. HasClient /\ ~inherited /\ term.alt = alt_screen.alt
    BY <1>8 DEF HasClient, IInv, TrackerIsRight
  <2>2. CASE link = "attached"
    <3>1. term.scan = alt_screen.scan
      BY <2>2 DEF IInv, ClientHasAll
    <3>2. Sync(term.scan, alt_screen.scan)
      BY <3>1 DEF Sync
    <3>3. Scan(term, chunk).alt = Scan(alt_screen, chunk).alt
      BY <1>1, <1>2, <2>1, <3>2, ScanTogether
    <3> QED BY <1>8, <2>2, <3>3
  <2>3. CASE link # "attached"
    BY <1>8, <2>1, <2>3
  <2> QED BY <2>2, <2>3
<1>16. ModesAgree'
  <2> SUFFICES ASSUME link' = "attached", aligned'
               PROVE  term'.set = server'.set /\ Sync(term'.scan, server'.scan)
    BY DEF ModesAgree
  <2>1. link = "attached" /\ term.set = server.set /\ Sync(term.scan, server.scan)
    BY <1>8 DEF IInv, ModesAgree
  <2>2. /\ Sync(Scan(term, chunk).scan, Scan(server, chunk).scan)
        /\ Scan(term, chunk).set = Scan(server, chunk).set
    BY <1>1, <1>2, <2>1, ScanTogether
  <2> QED BY <1>7, <1>8, <2>1, <2>2
<1>17. ScreenAgrees'
  <2> SUFFICES ASSUME HasClient', whole', aligned', ~inherited'
               PROVE  term'.alt = To(written', rendered').alt
    BY <1>0 DEF ScreenAgrees
  <2>1. HasClient /\ aligned /\ term.alt = To(written, rendered).alt
    BY <1>0, <1>8 DEF HasClient, IInv, ScreenAgrees
  <2>2. CASE link = "attached"
    <3>1. To(written, rendered) = server /\ term.alt = server.alt
      BY <1>6, <1>11, <2>1, <2>2
    <3>2. Sync(term.scan, server.scan)
      BY <2>1, <2>2 DEF IInv, ModesAgree
    <3>3. Scan(term, chunk).alt = Scan(server, chunk).alt
      BY <1>1, <1>2, <3>1, <3>2, ScanTogether
    <3>4. rendered' = n + 1
      BY <1>8, <1>11, <2>2
    <3>5. term'.alt = server'.alt
      BY <1>7, <1>8, <2>2, <3>3
    <3> QED BY <1>6, <3>4, <3>5
  <2>3. CASE link # "attached"
    <3>1. rendered \in 0..n /\ rendered' = rendered /\ term' = term
      BY <1>1, <1>8, <2>3 DEF n
    <3> QED BY <1>6, <2>1, <3>1
  <2> QED BY <2>2, <2>3
<1>18. HandedBack'
  <2> SUFFICES ASSUME link' = "exited"
               PROVE  term'.set = Defaults /\ (~inherited' => ~term'.alt /\ ~stray')
    BY DEF HandedBack
  <2>1. link = "exited" /\ term.set = Defaults /\ (~inherited => ~term.alt /\ ~stray)
    BY <1>8 DEF IInv, HandedBack
  <2> QED BY <1>8, <2>1
<1> QED
  BY <1>12, <1>13, <1>14, <1>15, <1>16, <1>17, <1>18 DEF IInv

\* The link drops, the client shows its status line, or it is killed: nothing
\* is written and the screen stays.
LEMMA QuietStep ==
    ASSUME TerminalSyncAssumption, IInv,
           UNCHANGED <<written, server, scrollback, rendered, alt_screen, stray,
                       inherited, aligned, whole, turns>>,
           term' \in Terminal, term'.alt = term.alt,
           \/ link' = "detached" /\ HasClient
           \/ link' = "killed"
           \/ link' = link /\ term' = term
    PROVE  IInv'
<1>1. Told(rendered)' = Told(rendered) /\ Told(Len(written))' = Told(Len(written))
      /\ Stream' = Stream
  BY DEF Told, Stream
<1>2. Types'
  BY <1>1 DEF IInv, Types
<1>3. SessionHasAll'
  BY <1>1 DEF IInv, SessionHasAll
<1>4. ClientHasAll'
  BY DEF IInv, ClientHasAll
<1>5. HasClient' => HasClient
  BY DEF HasClient
<1>6. TrackerIsRight'
  BY <1>5 DEF IInv, TrackerIsRight
<1>7. ModesAgree'
  BY DEF IInv, ModesAgree
<1>8. ScreenAgrees'
  BY <1>1, <1>5 DEF IInv, ScreenAgrees
<1>9. HandedBack'
  BY DEF IInv, HandedBack
<1> QED
  BY <1>2, <1>3, <1>4, <1>6, <1>7, <1>8, <1>9 DEF IInv

\* A replay ends with an attached client.
LEMMA AttachedStep ==
    ASSUME TerminalSyncAssumption, IInv, NEW is_fresh \in BOOLEAN,
           NEW terminal \in Terminal, NEW tracker \in Terminal,
           send_reconnect_replay(is_fresh, terminal, tracker),
           UNCHANGED <<written, server>>, link' = "attached",
           stray' \in BOOLEAN, inherited' \in BOOLEAN, turns' \in 0..MaxTurns,
           ~inherited' => terminal.alt = tracker.alt,
           is_fresh /\ ~inherited' => terminal.alt = FALSE,
           ~is_fresh /\ whole /\ aligned /\ ~inherited' => terminal.alt = Told(rendered).alt
    PROVE  IInv'
<1>1. Types /\ SessionHasAll /\ written \in Seq(Chunks) /\ server \in Terminal
  BY DEF IInv, Types
<1>2. /\ rendered' = Len(written) /\ scrollback' \in Kept(Len(Stream))
      /\ aligned' \in BOOLEAN /\ whole' \in BOOLEAN
  BY <1>1, TerminalSyncAssumption, ReplayShown
<1>3. /\ term' \in Terminal /\ alt_screen' \in Terminal
      /\ term'.scan = alt_screen'.scan
      /\ terminal.alt = tracker.alt => term'.alt = alt_screen'.alt
      /\ aligned' => term'.set = server.set /\ Sync(term'.scan, server.scan)
      /\ /\ aligned' /\ whole'
         /\ is_fresh => terminal.alt = FALSE
         /\ ~is_fresh /\ whole /\ aligned => terminal.alt = Told(rendered).alt
         => term'.alt = server.alt
  BY <1>1, TerminalSyncAssumption, ReplayEnds, Zenon
<1>4. /\ Stream' = Stream /\ Told(Len(written))' = Told(Len(written))
      /\ Told(Len(written)) = server
  BY <1>1 DEF Told, Stream, SessionHasAll
<1>5. Told(rendered)' = server
  BY <1>2, <1>4 DEF Told
<1>6. Types'
  <2>1. rendered' \in 0..Len(written')
    BY <1>1, <1>2
  <2> QED BY <1>1, <1>2, <1>3, <1>4, <2>1 DEF Types
<1>7. SessionHasAll'
  BY <1>4 DEF SessionHasAll
<1>8. ClientHasAll'
  BY <1>2, <1>3 DEF ClientHasAll
<1>9. TrackerIsRight'
  BY <1>3 DEF TrackerIsRight
<1>10. ModesAgree'
  BY <1>3 DEF ModesAgree
<1>11. ScreenAgrees'
  BY <1>3, <1>5 DEF ScreenAgrees
<1>12. HandedBack'
  BY DEF HandedBack
<1> QED
  BY <1>6, <1>7, <1>8, <1>9, <1>10, <1>11, <1>12 DEF IInv

\* The same client comes back to its own terminal and tracker.
LEMMA ReconnectStep ==
    ASSUME TerminalSyncAssumption, IInv, Reconnect
    PROVE  IInv'
<1>1. /\ term \in Terminal /\ alt_screen \in Terminal /\ HasClient
      /\ stray \in BOOLEAN /\ inherited \in BOOLEAN
      /\ ~inherited => term.alt = alt_screen.alt
      /\ whole /\ aligned /\ ~inherited => term.alt = Told(rendered).alt
  BY DEF Reconnect, IInv, Types, HasClient, TrackerIsRight, ScreenAgrees
<1>2. /\ send_reconnect_replay(FALSE, term, alt_screen)
      /\ UNCHANGED <<written, server>> /\ link' = "attached"
      /\ stray' = stray /\ inherited' = inherited
  BY DEF Reconnect
<1>3. turns' \in 0..MaxTurns
  BY DEF Reconnect, IInv, Types, TerminalSyncAssumption
<1> DEFINE fresh == FALSE
<1>4. fresh \in BOOLEAN /\ send_reconnect_replay(fresh, term, alt_screen) /\ ~fresh
  BY <1>2
<1> HIDE DEF fresh
<1>5. /\ fresh /\ ~inherited' => term.alt = FALSE
      /\ ~fresh /\ whole /\ aligned /\ ~inherited' => term.alt = Told(rendered).alt
      /\ ~inherited' => term.alt = alt_screen.alt
      /\ stray' \in BOOLEAN /\ inherited' \in BOOLEAN
  BY <1>1, <1>2, <1>4
<1> QED
  BY <1>1, <1>2, <1>3, <1>4, <1>5, TerminalSyncAssumption, AttachedStep

\* Another client begins with a tracker that knows nothing.
LEMMA AttachStep ==
    ASSUME TerminalSyncAssumption, IInv, NEW terminal \in Terminal, Attach(terminal)
    PROVE  IInv'
<1>1. /\ NewTerminal \in Terminal /\ NewTerminal.alt = FALSE
      /\ terminal.alt \in BOOLEAN
  BY NewTerminalType, TerminalFields
<1>2. /\ send_reconnect_replay(TRUE, terminal, NewTerminal)
      /\ UNCHANGED <<written, server>> /\ link' = "attached"
      /\ stray' = FALSE /\ inherited' = terminal.alt
  BY DEF Attach
<1>3. turns' \in 0..MaxTurns
  BY DEF Attach, IInv, Types, TerminalSyncAssumption
<1> DEFINE fresh == TRUE
<1>4. fresh \in BOOLEAN /\ send_reconnect_replay(fresh, terminal, NewTerminal) /\ fresh
  BY <1>2
<1> HIDE DEF fresh
<1>5. /\ fresh /\ ~inherited' => terminal.alt = FALSE
      /\ ~fresh /\ whole /\ aligned /\ ~inherited' => terminal.alt = Told(rendered).alt
      /\ ~inherited' => terminal.alt = NewTerminal.alt
      /\ stray' \in BOOLEAN /\ inherited' \in BOOLEAN
  BY <1>1, <1>2, <1>4
<1> QED
  BY <1>1, <1>2, <1>3, <1>4, <1>5, TerminalSyncAssumption, AttachedStep

\* What the client sends when it ends leaves the main screen and the default
\* modes.
LEMMA HandbackScan ==
    ASSUME TerminalSyncAssumption, NEW t \in Terminal, NEW in_alt_screen \in BOOLEAN,
           NEW u, u = Scan(t, terminal_handback_sequence(in_alt_screen))
    PROVE  /\ u \in Terminal /\ u.set = Defaults
           /\ in_alt_screen \/ ~t.alt => ~u.alt
<1> DEFINE leave == IF in_alt_screen THEN LeaveAlt ELSE <<>>
           plain == <<"esc", "[", "m">>
           sync == sync_sequence(Defaults)
           t1 == Scan(t, leave)
           t2 == Scan(t1, plain)
<1>1. LeaveAlt \in Seq(Byte) /\ plain \in Seq(Byte) /\ sync \in Seq(Byte) /\ leave \in Seq(Byte)
  <2>1. Defaults \in SUBSET Tracked
    BY DEF Defaults, Tracked
  <2>2. sync \in Seq(Byte)
    BY <2>1, TerminalSyncAssumption, ScanSync
  <2> QED BY <2>2, TerminalSyncAssumption, ScanScreen, ScanPlain, EmptySeq
<1>2. PICK ms \in Seq(Nat), p \in Nat : \A x \in Terminal : Scan(x, sync) = Back(ms, p, Defaults, x.alt)
  <2>1. Defaults \in SUBSET Tracked
    BY DEF Defaults, Tracked
  <2> QED BY <2>1, TerminalSyncAssumption, ScanSync
<1>3. terminal_handback_sequence(in_alt_screen) = leave \o plain \o sync
  BY Zenon DEF terminal_handback_sequence
<1>4. t1 \in Terminal /\ t2 \in Terminal
  BY <1>1, ScanType
<1>5. t2.alt = t1.alt
  <2> HIDE DEF t1
  <2> QED BY <1>4, ScanPlain
<1>6. in_alt_screen \/ ~t.alt => ~t1.alt
  <2>1. CASE in_alt_screen
    <3>1. t1 = Back(<<>>, 47, t.set, FALSE)
      BY <2>1, TerminalSyncAssumption, ScanScreen
    <3> QED BY <3>1 DEF Back
  <2>2. CASE ~in_alt_screen
    <3>1. t1 = t
      BY <2>2, ScanEmpty
    <3> QED BY <2>2, <3>1
  <2> QED BY <2>1, <2>2
<1> HIDE DEF leave, plain, sync
<1>7. u = Scan(t2, sync)
  <2>1. leave \o plain \in Seq(Byte)
    BY <1>1
  <2>2. Scan(t, (leave \o plain) \o sync) = Scan(Scan(t, leave \o plain), sync)
    BY <1>1, <2>1, ScanConcat
  <2>3. Scan(t, leave \o plain) = t2
    BY <1>1, ScanConcat
  <2> QED BY <1>3, <2>2, <2>3
<1> HIDE DEF t1, t2
<1>8. u = Back(ms, p, Defaults, t2.alt)
  BY <1>2, <1>4, <1>7
<1>9. u \in Terminal
  BY <1>1, <1>4, <1>7, ScanType
<1>10. u.set = Defaults /\ u.alt = t2.alt
  BY <1>8 DEF Back
<1> QED
  BY <1>5, <1>6, <1>9, <1>10

\* The client ends: what is left behind is the main screen.
LEMMA ExitStep ==
    ASSUME TerminalSyncAssumption, IInv, NEW goodbye \in BOOLEAN, Exit(goodbye)
    PROVE  IInv'
<1> DEFINE left == leave_prefix(goodbye)
           told == Scan(term, left.bytes)
<1>1. /\ term \in Terminal /\ alt_screen \in Terminal /\ alt_screen.alt \in BOOLEAN
      /\ term.alt \in BOOLEAN /\ inherited \in BOOLEAN
      /\ HasClient /\ (~inherited => term.alt = alt_screen.alt)
  BY TerminalFields DEF Exit, IInv, Types, HasClient, TrackerIsRight
<1>2. /\ term' = Scan(told, terminal_handback_sequence(left.after.alt))
      /\ alt_screen' = left.after
      /\ stray' = \/ left.bytes # <<>> /\ ~term.alt
                  \/ left.after.alt /\ ~told.alt
      /\ link' = "exited"
      /\ UNCHANGED <<written, server, scrollback, rendered, inherited, aligned, whole, turns>>
  BY DEF Exit
<1>3. /\ left.after \in Terminal /\ told \in Terminal /\ left.after.alt \in BOOLEAN
      /\ ~inherited => /\ left.after.alt \/ ~told.alt
                       /\ ~(left.bytes # <<>> /\ ~term.alt)
                       /\ ~(left.after.alt /\ ~told.alt)
  <2>1. CASE goodbye /\ alt_screen.alt
    <3>1. left.bytes = LeaveAlt /\ left.after = [alt_screen EXCEPT !.alt = FALSE, !.scan = NewScanner]
      BY <2>1 DEF leave_prefix
    <3>2. left.after \in Terminal /\ left.after.alt = FALSE
      BY <1>1, <3>1, NewTerminalType DEF Terminal
    <3>3. told = Back(<<>>, 47, term.set, FALSE) /\ told \in Terminal
      BY <1>1, <3>1, TerminalSyncAssumption, ScanScreen, ScanType
    <3>4. told.alt = FALSE
      BY <3>3 DEF Back
    <3> HIDE DEF told, left
    <3> QED BY <1>1, <2>1, <3>2, <3>3, <3>4
  <2>2. CASE ~(goodbye /\ alt_screen.alt)
    <3>1. left.bytes = <<>> /\ left.after = alt_screen
      BY <2>2 DEF leave_prefix
    <3>2. told = term
      BY <1>1, <3>1, ScanEmpty
    <3> HIDE DEF told, left
    <3> QED BY <1>1, <3>1, <3>2
  <2> QED BY <2>1, <2>2
<1> HIDE DEF told, left
<1> DEFINE on == left.after.alt
<1>4. /\ term' \in Terminal /\ term'.set = Defaults
      /\ on \/ ~told.alt => ~term'.alt
  <2>1. on \in BOOLEAN
    BY <1>3
  <2> DEFINE u == term'
  <2>2. u = Scan(told, terminal_handback_sequence(on))
    BY <1>2
  <2> HIDE DEF on, u
  <2>3. /\ u \in Terminal /\ u.set = Defaults
        /\ on \/ ~told.alt => ~u.alt
    BY <1>3, <2>1, <2>2, TerminalSyncAssumption, HandbackScan
  <2> QED BY <2>3 DEF u
<1>5. Told(rendered)' = Told(rendered) /\ Told(Len(written))' = Told(Len(written))
      /\ Stream' = Stream
  BY <1>2 DEF Told, Stream
<1>6. stray' \in BOOLEAN
  BY <1>2
<1>7. Types'
  BY <1>2, <1>3, <1>4, <1>5, <1>6 DEF IInv, Types
<1>8. SessionHasAll'
  BY <1>2, <1>5 DEF IInv, SessionHasAll
<1>9. ClientHasAll' /\ TrackerIsRight' /\ ModesAgree' /\ ScreenAgrees'
  BY <1>2 DEF ClientHasAll, TrackerIsRight, ModesAgree, ScreenAgrees, HasClient
<1>10. HandedBack'
  <2> SUFFICES ASSUME TRUE PROVE term'.set = Defaults /\ (~inherited' => ~term'.alt /\ ~stray')
    BY DEF HandedBack
  <2>1. inherited' = inherited
    BY <1>2
  <2>2. ~inherited => ~stray'
    BY <1>2, <1>3
  <2>3. ~inherited => ~term'.alt
    BY <1>3, <1>4
  <2> QED BY <1>4, <2>1, <2>2, <2>3
<1> QED
  BY <1>7, <1>8, <1>9, <1>10 DEF IInv

\* Every step keeps it.
LEMMA NextInvariant ==
    ASSUME TerminalSyncAssumption, IInv, [Next]_vars
    PROVE  IInv'
<1>1. /\ term \in Terminal /\ NewTerminal \in Terminal
  BY NewTerminalType DEF IInv, Types
<1>2. ASSUME NEW chunk \in Chunks, Output(chunk) PROVE IInv'
  BY <1>2, TerminalSyncAssumption, OutputStep
<1>3. CASE LinkDrops
  BY <1>1, <1>3, TerminalSyncAssumption, QuietStep DEF LinkDrops, HasClient
<1>4. CASE StatusLine
  <2>1. /\ UNCHANGED <<written, server, scrollback, link, rendered, alt_screen,
                       stray, inherited, aligned, whole, turns>>
        /\ link = "detached" /\ term' = Scan(term, <<"esc", "[", "m">>)
    BY <1>4 DEF StatusLine
  <2>2. term' \in Terminal /\ term'.alt = term.alt
    BY <1>1, <2>1, ScanPlain
  <2> QED BY <2>1, <2>2, TerminalSyncAssumption, QuietStep DEF HasClient
<1>5. CASE Killed
  BY <1>1, <1>5, TerminalSyncAssumption, QuietStep DEF Killed
<1>6. CASE Reconnect
  BY <1>6, TerminalSyncAssumption, ReconnectStep
<1>7. CASE Attach(term) \/ Attach(NewTerminal)
  BY <1>1, <1>7, TerminalSyncAssumption, AttachStep
<1>8. CASE Exit(TRUE) \/ Exit(FALSE)
  BY <1>8, TerminalSyncAssumption, ExitStep
<1>9. CASE UNCHANGED vars
  BY <1>1, <1>9, TerminalSyncAssumption, QuietStep DEF vars
<1> QED
  BY <1>2, <1>3, <1>4, <1>5, <1>6, <1>7, <1>8, <1>9 DEF Next

\* What the run checks follows from it.
LEMMA InvariantImplies ==
    ASSUME IInv
    PROVE  TypeOK /\ TerminalAgrees /\ HandedBack
<1>1. server \in Terminal /\ written \in Seq(Chunks)
  BY DEF IInv, Types
<1>2. SubSeq(written, 1, Len(written)) = written
  BY <1>1
<1>3. TypeOK
  <2>1. \A t \in Terminal : t.set \in SUBSET Tracked
    BY TerminalFields
  <2> QED BY <2>1 DEF IInv, Types, TypeOK
<1>4. TerminalAgrees
  <2> SUFFICES ASSUME link = "attached", aligned
               PROVE  term.set = server.set /\ (whole /\ ~inherited => term.alt = server.alt)
    BY DEF TerminalAgrees
  <2>1. term.set = server.set
    BY DEF IInv, ModesAgree
  <2>2. rendered = Len(written) /\ Told(Len(written)) = server /\ HasClient
    BY DEF IInv, ClientHasAll, SessionHasAll, HasClient
  <2>3. whole /\ ~inherited => term.alt = server.alt
    BY <2>2 DEF IInv, ScreenAgrees
  <2> QED BY <2>1, <2>3
<1> QED
  BY <1>3, <1>4 DEF IInv

\* The inductive invariant.
LEMMA Invariant ==
    ASSUME TerminalSyncAssumption
    PROVE  Spec => []IInv
<1>1. Init => IInv
  BY TerminalSyncAssumption, InitInvariant
<1>2. IInv /\ [Next]_vars => IInv'
  BY TerminalSyncAssumption, NextInvariant
<1> QED
  BY <1>1, <1>2, PTL DEF Spec

\* The terminal of an attached client has the modes that the program has asked
\* for, and the screen it is on, for any chunks of any bytes, whatever part of
\* the stream the terminal has missed (send_resume).
THEOREM TerminalSynced ==
    ASSUME TerminalSyncAssumption
    PROVE  Spec => [](TypeOK /\ TerminalAgrees)
<1>1. IInv => TypeOK /\ TerminalAgrees
  BY InvariantImplies
<1> QED
  BY <1>1, Invariant, PTL

\* A client that exits leaves the terminal on the main screen, in its default
\* modes, wherever the stream was cut (TerminalResetGuard).
THEOREM TerminalHandedBack ==
    ASSUME TerminalSyncAssumption
    PROVE  Spec => []HandedBack
<1>1. IInv => HandedBack
  BY InvariantImplies
<1> QED
  BY <1>1, Invariant, PTL

-----------------------------------------------------------------------------
(* The line shadow: folds, and numbers in digits *)

\* The smaller and the larger of two numbers.
LEMMA PairMin ==
    ASSUME NEW a \in Int, NEW b \in Int
    PROVE  /\ LS!Min({a, b}) = IF a <= b THEN a ELSE b
           /\ LS!Max({a, b}) = IF a >= b THEN a ELSE b
<1>1. \A x \in {a, b} : (\A y \in {a, b} : x <= y) <=> x = IF a <= b THEN a ELSE b
  OBVIOUS
<1>2. \A x \in {a, b} : (\A y \in {a, b} : x >= y) <=> x = IF a >= b THEN a ELSE b
  OBVIOUS
<1>3. (IF a <= b THEN a ELSE b) \in {a, b} /\ (IF a >= b THEN a ELSE b) \in {a, b}
  OBVIOUS
<1>4. LS!Min({a, b}) = IF a <= b THEN a ELSE b
  BY <1>1, <1>3 DEF LS!Min
<1>5. LS!Max({a, b}) = IF a >= b THEN a ELSE b
  BY <1>2, <1>3 DEF LS!Max
<1> QED BY <1>4, <1>5

\* What a fold computes by steps of G from t.
Steps(T, t, n, G, f) ==
    /\ f \in [0..n -> T]
    /\ f[0] = t
    /\ \A i \in 1..n : f[i] = G[<<f[i - 1], i>>]

\* The values of a recursive function at the initial segments are those steps.
LEMMA FoldSteps ==
    ASSUME NEW T, NEW t \in T, NEW n \in Nat, NEW G \in [T \X (1..n) -> T],
           NEW h, h[{}] = t,
           \A i \in 1..n : h[1..(i - 1)] \in T => h[1..i] = G[<<h[1..(i - 1)], i>>],
           NEW f, f = [i \in 0..n |-> h[1..i]]
    PROVE  Steps(T, t, n, G, f)
<1> DEFINE P == {i \in Nat : i <= n => h[1..i] \in T}
<1>1. h[1..0] = t
  <2>1. 1..0 = {}
    OBVIOUS
  <2> QED BY <2>1
<1>2. ASSUME NEW i \in Nat, i \in P PROVE i + 1 \in P
  <2>1. SUFFICES ASSUME i + 1 <= n PROVE h[1..(i + 1)] \in T
    OBVIOUS
  <2>2. i + 1 \in 1..n /\ (i + 1) - 1 = i /\ h[1..i] \in T
    BY <1>2, <2>1
  <2>3. h[1..(i + 1)] = G[<<h[1..i], i + 1>>]
    BY <2>2
  <2>4. <<h[1..i], i + 1>> \in T \X (1..n)
    BY <2>2
  <2> QED BY <2>3, <2>4, Zenon
<1>3. Nat \subseteq P
  <2>1. 0 \in P
    BY <1>1
  <2> HIDE DEF P
  <2> QED BY <1>2, <2>1, NatSetInduction
<1>4. \A i \in 0..n : h[1..i] \in T
  BY <1>3
<1>5. f \in [0..n -> T]
  BY <1>4
<1>6. f[0] = t
  BY <1>1
<1>7. ASSUME NEW i \in 1..n PROVE f[i] = G[<<f[i - 1], i>>]
  <2>1. i - 1 \in 0..n /\ i \in 0..n
    OBVIOUS
  <2>2. h[1..i] = G[<<h[1..(i - 1)], i>>]
    BY <1>4, <2>1
  <2>3. f[i] = h[1..i] /\ f[i - 1] = h[1..(i - 1)]
    BY <2>1
  <2> QED BY <2>2, <2>3
<1> QED
  BY <1>5, <1>6, <1>7 DEF Steps

\* The initial segments, as a fold takes them.
LEMMA Initial ==
    ASSUME NEW n \in Nat, NEW i \in 1..n
    PROVE  /\ 1..i \in SUBSET (1..n) /\ 1..i # {}
           /\ LS!Max(1..i) = i /\ (1..i) \ {LS!Max(1..i)} = 1..(i - 1)
<1>1. i - 1 \in Nat /\ (i - 1) + 1 = i /\ i \in 1..i
  OBVIOUS
<1>2. LS!Max(1..i) = i
  <2>1. Max(1..i) = i
    BY <1>1, MaxOfInterval
  <2> QED BY <2>1 DEF Max, LS!Max
<1> QED
  BY <1>2

\* A recursive function that a fold may go by.
Found(T, t, n, G, g) ==
    /\ \A s \in SUBSET (1..n) : s # {} => LS!Max(s) \in 1..n /\ g[s \ {LS!Max(s)}] \in T
    /\ g = [s \in SUBSET (1..n) |-> IF s = {} THEN t ELSE G[<<g[s \ {LS!Max(s)}], LS!Max(s)>>]]

\* There is one.
LEMMA FoldFound ==
    ASSUME NEW T, NEW t \in T, NEW n \in Nat, NEW G \in [T \X (1..n) -> T]
    PROVE  \E g : Found(T, t, n, G, g)
<1>1. PICK g : Folds(T, t, n, G, n, g)
  BY FoldExists
<1>2. ASSUME NEW s \in SUBSET (1..n), s # {}
      PROVE  LS!Max(s) \in 1..n /\ g[s \ {LS!Max(s)}] \in T
  <2>1. \E x \in s : \A y \in s : x >= y
    BY <1>2, IntervalMax
  <2>2. LS!Max(s) \in s
    BY <2>1 DEF LS!Max
  <2>3. s \ {LS!Max(s)} \in SUBSET (1..n)
    OBVIOUS
  <2> QED BY <1>1, <2>2, <2>3 DEF Folds
<1>3. \A s : LS!Max(s) = Max(s)
  BY DEF Max, LS!Max
<1> QED
  BY <1>1, <1>2, <1>3 DEF Folds, Found

\* The number that digits write.
LEMMA ValueSteps ==
    ASSUME NEW w \in Seq(DOMAIN LS!Digits)
    PROVE  \E f \in [0..Len(w) -> Nat] :
              /\ f[0] = 0
              /\ \A i \in 1..Len(w) : f[i] = 10 * f[i - 1] + LS!Digits[w[i]]
              /\ LS!Value(w) = f[Len(w)]
<1> DEFINE n == Len(w)
           G == [p \in Nat \X (1..n) |-> 10 * p[1] + LS!Digits[w[p[2]]]]
           Recurs(h) == h = [s \in SUBSET (1..n) |-> IF s = {} THEN 0
                              ELSE 10 * h[s \ {LS!Max(s)}] + LS!Digits[w[LS!Max(s)]]]
           iter == CHOOSE h : Recurs(h)
<1>1. n \in Nat /\ DOMAIN w = 1..n
  OBVIOUS
<1>2. LS!Value(w) = iter[1..n]
  BY <1>1 DEF LS!Value, LS!FoldLeft, LS!MapThenFoldSet
<1>3. \A i \in 1..n : LS!Digits[w[i]] \in Nat
  <2>1. \A d \in DOMAIN LS!Digits : LS!Digits[d] \in Nat
    BY DEF LS!Digits
  <2> QED BY <2>1, <1>1
<1>4. G \in [Nat \X (1..n) -> Nat]
  BY <1>3
<1>5. \A p \in Nat, i \in 1..n : G[<<p, i>>] = 10 * p + LS!Digits[w[i]]
  OBVIOUS
<1> HIDE DEF G
<1>6. PICK g : Found(Nat, 0, n, G, g)
  <2>1. 0 \in Nat
    OBVIOUS
  <2> HIDE DEF n, Recurs, iter
  <2> QED BY <1>1, <1>4, <2>1, FoldFound
<1>7. Recurs(g)
  <2>1. ASSUME NEW s \in SUBSET (1..n), s # {}
        PROVE  G[<<g[s \ {LS!Max(s)}], LS!Max(s)>>]
                  = 10 * g[s \ {LS!Max(s)}] + LS!Digits[w[LS!Max(s)]]
    BY <1>5, <1>6, <2>1 DEF Found
  <2> QED BY <1>6, <2>1, Zenon DEF Found
<1>8. Recurs(iter)
  BY <1>7, Zenon
<1> HIDE DEF iter
<1>9. iter[{}] = 0
  <2>1. {} \in SUBSET (1..n)
    OBVIOUS
  <2> QED BY <1>8, <2>1
<1>10. ASSUME NEW i \in 1..n PROVE iter[1..i] = 10 * iter[1..(i - 1)] + LS!Digits[w[i]]
  <2>1. /\ 1..i \in SUBSET (1..n) /\ 1..i # {}
        /\ LS!Max(1..i) = i /\ (1..i) \ {LS!Max(1..i)} = 1..(i - 1)
    <3> HIDE DEF n
    <3> QED BY <1>1, Initial
  <2> QED BY <1>8, <2>1
<1> DEFINE f == [i \in 0..n |-> iter[1..i]]
<1>11. Steps(Nat, 0, n, G, f)
  <2>1. \A i \in 1..n : iter[1..(i - 1)] \in Nat => iter[1..i] = G[<<iter[1..(i - 1)], i>>]
    BY <1>5, <1>10
  <2>2. 0 \in Nat
    OBVIOUS
  <2>3. f = [i \in 0..n |-> iter[1..i]]
    OBVIOUS
  <2> HIDE DEF Recurs, n, f
  <2> QED BY <1>1, <1>4, <1>9, <2>1, <2>2, <2>3, FoldSteps
<1>12. f[n] = iter[1..n]
  BY <1>1
<1>13. \A i \in 1..n : f[i] = 10 * f[i - 1] + LS!Digits[w[i]]
  <2>1. \A i \in 1..n : i - 1 \in 0..n /\ i \in 0..n
    OBVIOUS
  <2> QED BY <1>10, <2>1
<1> HIDE DEF f
<1> QED
  BY <1>2, <1>11, <1>12, <1>13 DEF Steps

-----------------------------------------------------------------------------
(* The line shadow: fields and segments *)

FieldLists == Seq(Seq(LS!CsiBytes)) \ {<<>>}
Accounts == [sgr : LS!Segments, next : Nat]

\* A byte more in the fields.
LEMMA SplitType ==
    ASSUME NEW fs \in FieldLists, NEW b \in LS!CsiBytes
    PROVE  LS!Split(fs, b) \in FieldLists
<1>1. fs \in Seq(Seq(LS!CsiBytes)) /\ Len(fs) \in Nat \ {0} /\ Len(fs) \in 1..Len(fs)
  BY DEF FieldLists
<1>2. fs[Len(fs)] \in Seq(LS!CsiBytes)
  BY <1>1
<1>3. Append(fs[Len(fs)], b) \in Seq(LS!CsiBytes)
  BY <1>2
<1>4. Append(fs, <<>>) \in FieldLists
  <2>1. <<>> \in Seq(LS!CsiBytes)
    OBVIOUS
  <2>2. Append(fs, <<>>) \in Seq(Seq(LS!CsiBytes)) /\ Len(Append(fs, <<>>)) = Len(fs) + 1
    BY <1>1, <2>1
  <2> QED BY <1>1, <2>2 DEF FieldLists
<1>5. [fs EXCEPT ![Len(fs)] = Append(@, b)] \in FieldLists
  <2> DEFINE S == Seq(LS!CsiBytes)
             gs == [fs EXCEPT ![Len(fs)] = Append(@, b)]
  <2>1. fs \in Seq(S) /\ Append(fs[Len(fs)], b) \in S
    BY <1>1, <1>3
  <2>2. gs \in Seq(S) /\ Len(gs) = Len(fs)
    <3> HIDE DEF S
    <3> QED BY <1>1, <2>1
  <2> HIDE DEF gs
  <2> QED BY <1>1, <2>2 DEF FieldLists
<1> QED
  BY <1>4, <1>5 DEF LS!Split

\* The fields of parameters.
LEMMA FieldsSteps ==
    ASSUME NEW w \in Seq(LS!CsiBytes)
    PROVE  \E f \in [0..Len(w) -> FieldLists] :
              /\ f[0] = <<<<>>>>
              /\ \A i \in 1..Len(w) : f[i] = LS!Split(f[i - 1], w[i])
              /\ LS!Fields(w) = f[Len(w)]
<1> DEFINE n == Len(w)
           G == [p \in FieldLists \X (1..n) |-> LS!Split(p[1], w[p[2]])]
           Recurs(h) == h = [s \in SUBSET (1..n) |-> IF s = {} THEN <<<<>>>>
                              ELSE LS!Split(h[s \ {LS!Max(s)}], w[LS!Max(s)])]
           iter == CHOOSE h : Recurs(h)
<1>1. n \in Nat /\ DOMAIN w = 1..n
  OBVIOUS
<1>2. LS!Fields(w) = iter[1..n]
  BY <1>1 DEF LS!Fields, LS!FoldLeft, LS!MapThenFoldSet
<1>3. \A p \in FieldLists, i \in 1..n : LS!Split(p, w[i]) \in FieldLists
  BY <1>1, SplitType
<1>4. G \in [FieldLists \X (1..n) -> FieldLists]
  BY <1>3
<1>5. \A p \in FieldLists, i \in 1..n : G[<<p, i>>] = LS!Split(p, w[i])
  OBVIOUS
<1> HIDE DEF G
<1>6. <<<<>>>> \in FieldLists
  BY DEF FieldLists
<1>7. PICK g : Found(FieldLists, <<<<>>>>, n, G, g)
  <2> HIDE DEF n, Recurs, iter
  <2> QED BY <1>1, <1>4, <1>6, FoldFound
<1>8. Recurs(g)
  <2>1. ASSUME NEW s \in SUBSET (1..n), s # {}
        PROVE  G[<<g[s \ {LS!Max(s)}], LS!Max(s)>>]
                  = LS!Split(g[s \ {LS!Max(s)}], w[LS!Max(s)])
    BY <1>5, <1>7, <2>1 DEF Found
  <2> QED BY <1>7, <2>1, Zenon DEF Found
<1>9. Recurs(iter)
  BY <1>8, Zenon
<1> HIDE DEF iter
<1>10. iter[{}] = <<<<>>>>
  <2>1. {} \in SUBSET (1..n)
    OBVIOUS
  <2> QED BY <1>9, <2>1
<1>11. ASSUME NEW i \in 1..n PROVE iter[1..i] = LS!Split(iter[1..(i - 1)], w[i])
  <2>1. /\ 1..i \in SUBSET (1..n) /\ 1..i # {}
        /\ LS!Max(1..i) = i /\ (1..i) \ {LS!Max(1..i)} = 1..(i - 1)
    <3> HIDE DEF n
    <3> QED BY <1>1, Initial
  <2> QED BY <1>9, <2>1
<1> DEFINE f == [i \in 0..n |-> iter[1..i]]
<1>12. Steps(FieldLists, <<<<>>>>, n, G, f)
  <2>1. \A i \in 1..n : iter[1..(i - 1)] \in FieldLists
                            => iter[1..i] = G[<<iter[1..(i - 1)], i>>]
    BY <1>5, <1>11
  <2>2. f = [i \in 0..n |-> iter[1..i]]
    OBVIOUS
  <2> HIDE DEF Recurs, n, f
  <2> QED BY <1>1, <1>4, <1>10, <1>6, <2>1, <2>2, FoldSteps
<1>13. f[n] = iter[1..n]
  BY <1>1
<1>14. \A i \in 1..n : f[i] = LS!Split(f[i - 1], w[i])
  <2>1. \A i \in 1..n : i - 1 \in 0..n /\ i \in 0..n
    OBVIOUS
  <2> QED BY <1>11, <2>1
<1> HIDE DEF f
<1> QED
  BY <1>2, <1>12, <1>13, <1>14 DEF Steps

\* Keeping a segment leaves segments, at most as many as the limit.
LEMMA PushSgrType ==
    ASSUME NEW sgr \in LS!Segments, NEW e \in Seq(Seq(LS!CsiBytes)), MaxSgr \in Nat \ {0}
    PROVE  /\ LS!push_sgr(sgr, e) \in LS!Segments
           /\ Len(sgr) <= MaxSgr => Len(LS!push_sgr(sgr, e)) <= MaxSgr
<1> DEFINE S == Seq(Seq(LS!CsiBytes))
<1>1. sgr \in Seq(S) /\ e \in S
  BY DEF LS!Segments
<1> HIDE DEF S
<1>2. <<>> \in Seq(S) /\ Append(<<>>, e) \in Seq(S) /\ Append(sgr, e) \in Seq(S)
  BY <1>1
<1>3. Len(Append(<<>>, e)) = 1 /\ Len(Append(sgr, e)) = Len(sgr) + 1 /\ Len(sgr) \in Nat
  BY <1>1
<1>4. LS!Segments = Seq(S)
  BY DEF LS!Segments, S
<1> QED
  BY <1>2, <1>3, <1>4 DEF LS!push_sgr

\* A field more of attributes.
LEMMA TakeType ==
    ASSUME MaxSgr \in Nat \ {0}, NEW fs \in FieldLists, NEW acc \in Accounts,
           NEW i \in 1..Len(fs)
    PROVE  /\ LS!Take(fs, acc, i) \in Accounts
           /\ Len(acc.sgr) <= MaxSgr => Len(LS!Take(fs, acc, i).sgr) <= MaxSgr
<1>1. fs \in Seq(Seq(LS!CsiBytes)) /\ Len(fs) \in Nat /\ i \in Nat /\ i <= Len(fs)
  BY DEF FieldLists
<1> DEFINE m == LS!Segment(fs, i)
<1>2. m \in Nat /\ m >= 1 /\ i + m - 1 <= Len(fs)
  <2> DEFINE length == CASE i = Len(fs) -> 1
                    [] i < Len(fs) /\ fs[i + 1] = <<"5">> -> 3
                    [] i < Len(fs) /\ fs[i + 1] = <<"2">> -> 5
                    [] OTHER -> 1
  <2>1. length \in {1, 3, 5}
    OBVIOUS
  <2>2. m = IF LS!Value(fs[i]) \in {38, 48, 58} THEN LS!Min({length, Len(fs) - i + 1}) ELSE 1
    BY DEF LS!Segment
  <2> HIDE DEF length, m
  <2>3. LS!Min({length, Len(fs) - i + 1})
              = IF length <= Len(fs) - i + 1 THEN length ELSE Len(fs) - i + 1
    <3>1. length \in Int /\ Len(fs) - i + 1 \in Int
      BY <1>1, <2>1
    <3> QED BY <3>1, PairMin
  <2> QED BY <1>1, <2>1, <2>2, <2>3
<1>3. LS!Segment(fs, i) = m
  OBVIOUS
<1> HIDE DEF m
<1>4. SubSeq(fs, i, i + m - 1) \in Seq(Seq(LS!CsiBytes))
  BY <1>1, <1>2
<1>5. acc.sgr \in LS!Segments /\ acc.next \in Nat
  BY DEF Accounts
<1>6. /\ LS!push_sgr(acc.sgr, SubSeq(fs, i, i + m - 1)) \in LS!Segments
      /\ Len(acc.sgr) <= MaxSgr => Len(LS!push_sgr(acc.sgr, SubSeq(fs, i, i + m - 1))) <= MaxSgr
  BY <1>4, <1>5, PushSgrType
<1>7. <<>> \in LS!Segments /\ Len(<<>>) = 0
  BY DEF LS!Segments
<1>8. [acc EXCEPT !.next = i + 1] \in Accounts /\ [acc EXCEPT !.next = i + 1].sgr = acc.sgr
  BY <1>1 DEF Accounts
<1>9. \A x \in LS!Segments, k \in Nat : /\ [sgr |-> x, next |-> k] \in Accounts
                                        /\ [sgr |-> x, next |-> k].sgr = x
  BY DEF Accounts
<1>10. i + 1 \in Nat /\ i + m \in Nat
  BY <1>1, <1>2
<1> QED
  BY <1>3, <1>6, <1>7, <1>8, <1>9, <1>10 DEF LS!Take

\* The attributes after the parameters of a sequence.
LEMMA SgrSteps ==
    ASSUME MaxSgr \in Nat \ {0}, NEW sgr \in LS!Segments,
           NEW params, LS!Fields(params) \in FieldLists
    PROVE  \E f \in [0..Len(LS!Fields(params)) -> Accounts] :
              /\ f[0] = [sgr |-> sgr, next |-> 1]
              /\ \A i \in 1..Len(LS!Fields(params)) : f[i] = LS!Take(LS!Fields(params), f[i - 1], i)
              /\ LS!apply_sgr(sgr, params) = f[Len(LS!Fields(params))].sgr
<1> DEFINE n == Len(LS!Fields(params))
           G == [p \in Accounts \X (1..n) |-> LS!Take(LS!Fields(params), p[1], p[2])]
           Recurs(h) == h = [s \in SUBSET (1..n) |-> IF s = {} THEN [sgr |-> sgr, next |-> 1]
                              ELSE LS!Take(LS!Fields(params), h[s \ {LS!Max(s)}],
                                           [k \in DOMAIN LS!Fields(params) |-> k][LS!Max(s)])]
           iter == CHOOSE h : Recurs(h)
<1>1. n \in Nat /\ DOMAIN LS!Fields(params) = 1..n
  BY DEF FieldLists
<1>2. LS!apply_sgr(sgr, params) = iter[1..n].sgr
  BY <1>1 DEF LS!apply_sgr, LS!FoldLeft, LS!MapThenFoldSet
<1>3. \A p \in Accounts, i \in 1..n : LS!Take(LS!Fields(params), p, i) \in Accounts
  BY <1>1, TakeType
<1>4. G \in [Accounts \X (1..n) -> Accounts]
  BY <1>3
<1>5. \A p \in Accounts, i \in 1..n : G[<<p, i>>] = LS!Take(LS!Fields(params), p, i)
  OBVIOUS
<1> HIDE DEF G
<1>6. [sgr |-> sgr, next |-> 1] \in Accounts
  BY DEF Accounts
<1>7. PICK g : Found(Accounts, [sgr |-> sgr, next |-> 1], n, G, g)
  <2> HIDE DEF n, Recurs, iter
  <2> QED BY <1>1, <1>4, <1>6, FoldFound
<1>8. Recurs(g)
  <2>1. ASSUME NEW s \in SUBSET (1..n), s # {}
        PROVE  G[<<g[s \ {LS!Max(s)}], LS!Max(s)>>]
                  = LS!Take(LS!Fields(params), g[s \ {LS!Max(s)}], LS!Max(s))
    BY <1>5, <1>7, <2>1 DEF Found
  <2>2. ASSUME NEW s \in SUBSET (1..n), s # {}
        PROVE  [k \in DOMAIN LS!Fields(params) |-> k][LS!Max(s)] = LS!Max(s)
    BY <1>1, <1>7, <2>2 DEF Found
  <2> QED BY <1>7, <2>1, <2>2, Zenon DEF Found
<1>9. Recurs(iter)
  BY <1>8, Zenon
<1> HIDE DEF iter
<1>10. iter[{}] = [sgr |-> sgr, next |-> 1]
  <2>1. {} \in SUBSET (1..n)
    OBVIOUS
  <2> QED BY <1>9, <2>1
<1>11. ASSUME NEW i \in 1..n PROVE iter[1..i] = LS!Take(LS!Fields(params), iter[1..(i - 1)], i)
  <2>1. /\ 1..i \in SUBSET (1..n) /\ 1..i # {}
        /\ LS!Max(1..i) = i /\ (1..i) \ {LS!Max(1..i)} = 1..(i - 1)
    <3> HIDE DEF n
    <3> QED BY <1>1, Initial
  <2>2. [k \in DOMAIN LS!Fields(params) |-> k][i] = i
    BY <1>1
  <2> QED BY <1>9, <2>1, <2>2
<1> DEFINE f == [i \in 0..n |-> iter[1..i]]
<1>12. Steps(Accounts, [sgr |-> sgr, next |-> 1], n, G, f)
  <2>1. \A i \in 1..n : iter[1..(i - 1)] \in Accounts
                            => iter[1..i] = G[<<iter[1..(i - 1)], i>>]
    BY <1>5, <1>11
  <2>2. f = [i \in 0..n |-> iter[1..i]]
    OBVIOUS
  <2> HIDE DEF Recurs, n, f
  <2> QED BY <1>1, <1>4, <1>10, <1>6, <2>1, <2>2, FoldSteps
<1>13. f[n] = iter[1..n]
  BY <1>1
<1>14. \A i \in 1..n : f[i] = LS!Take(LS!Fields(params), f[i - 1], i)
  <2>1. \A i \in 1..n : i - 1 \in 0..n /\ i \in 0..n
    OBVIOUS
  <2> QED BY <1>11, <2>1
<1> HIDE DEF f
<1> QED
  BY <1>2, <1>12, <1>13, <1>14 DEF Steps

-----------------------------------------------------------------------------
(* The line shadow: what a byte leaves *)

ShadowStates == {"Ground", "Esc", "EscIntermediate", "Csi", "StringBody", "StringEsc"}

\* What a shadow is made of, and what it is with one part changed.
LEMMA ShadowFields ==
    ASSUME NEW s \in LS!Shadows
    PROVE  /\ s.col \in Nat /\ s.autowrap \in BOOLEAN /\ s.sgr \in LS!Segments
           /\ s.saved \in {<<>>} \cup (Nat \X LS!Segments) /\ s.state \in ShadowStates
           /\ s.csi \in Seq(LS!CsiBytes) /\ s.overflow \in BOOLEAN /\ s.utf8 \in Nat
           /\ \A c \in Nat : [s EXCEPT !.col = c] \in LS!Shadows
           /\ \A x \in BOOLEAN : [s EXCEPT !.autowrap = x] \in LS!Shadows
           /\ \A x \in LS!Segments : [s EXCEPT !.sgr = x] \in LS!Shadows
           /\ \A x \in {<<>>} \cup (Nat \X LS!Segments) : [s EXCEPT !.saved = x] \in LS!Shadows
           /\ \A x \in ShadowStates : [s EXCEPT !.state = x] \in LS!Shadows
           /\ \A x \in Seq(LS!CsiBytes) : [s EXCEPT !.csi = x] \in LS!Shadows
           /\ \A x \in BOOLEAN : [s EXCEPT !.overflow = x] \in LS!Shadows
           /\ \A x \in Nat : [s EXCEPT !.utf8 = x] \in LS!Shadows
  BY DEF LS!Shadows, ShadowStates

\* A parameter is a number.
LEMMA ParamType ==
    ASSUME NEW params \in Seq(LS!CsiBytes), NEW k, NEW d \in Nat
    PROVE  LS!Fields(params) \in FieldLists /\ LS!nth_param(params, k, d) \in Nat
<1>1. LS!Fields(params) \in FieldLists
  <2>1. PICK f \in [0..Len(params) -> FieldLists] : LS!Fields(params) = f[Len(params)]
    BY FieldsSteps
  <2>2. Len(params) \in 0..Len(params)
    OBVIOUS
  <2> QED BY <2>1, <2>2
<1>2. ASSUME NEW w \in Seq(LS!CsiBytes), LS!IsNumber(w) PROVE LS!Value(w) \in Nat
  <2>1. LS!Range(w) \subseteq DOMAIN LS!Digits
    BY <1>2 DEF LS!IsNumber
  <2>2. w \in Seq(DOMAIN LS!Digits)
    <3>1. \A i \in 1..Len(w) : w[i] \in DOMAIN LS!Digits
      BY <2>1 DEF LS!Range
    <3> HIDE DEF LS!Digits
    <3> QED BY <3>1
  <2>3. PICK f \in [0..Len(w) -> Nat] : LS!Value(w) = f[Len(w)]
    BY <2>2, ValueSteps
  <2>4. Len(w) \in 0..Len(w)
    OBVIOUS
  <2> QED BY <2>3, <2>4
<1>3. \A i \in DOMAIN LS!Fields(params) : LS!Fields(params)[i] \in Seq(LS!CsiBytes)
  BY <1>1 DEF FieldLists
<1> QED
  BY <1>1, <1>2, <1>3 DEF LS!nth_param

\* Columns stay numbers.
LEMMA ColumnType ==
    ASSUME Cols \in Nat \ {0}, NEW c \in Nat, NEW m \in Nat
    PROVE  /\ LS!Clamp(c) = IF c <= Cols - 1 THEN c ELSE Cols - 1
           /\ LS!Clamp(c) \in Nat
           /\ LS!Back(c, m) = IF c >= m THEN c - m ELSE 0
           /\ LS!Back(c, m) \in Nat
<1>1. LS!Min({c, Cols - 1}) = IF c <= Cols - 1 THEN c ELSE Cols - 1
  BY PairMin
<1>2. LS!Max({0, c - m}) = IF 0 >= c - m THEN 0 ELSE c - m
  <2>1. 0 \in Int /\ c - m \in Int
    OBVIOUS
  <2> QED BY <2>1, PairMin
<1> QED
  BY <1>1, <1>2 DEF LS!Clamp, LS!Back

\* What a glyph does.
LEMMA AdvanceIs ==
    ASSUME Cols \in Nat \ {0}, NEW s \in LS!Shadows, NEW w \in Nat
    PROVE  LET c == IF s.autowrap
                    THEN LET from == IF s.col + w > Cols THEN 0 ELSE s.col
                         IN  IF from + w <= Cols THEN from + w ELSE Cols
                    ELSE IF s.col + w <= Cols - 1 THEN s.col + w ELSE Cols - 1
           IN  LS!advance(s, w) = [s EXCEPT !.col = c] /\ c \in Nat
<1>1. s.col \in Nat /\ s.autowrap \in BOOLEAN
  BY ShadowFields
<1>2. Cols > 0 /\ Cols # 0
  OBVIOUS
<1> DEFINE from == IF s.col + w > Cols THEN 0 ELSE s.col
<1>3. LS!Min({from + w, Cols}) = IF from + w <= Cols THEN from + w ELSE Cols
  <2>1. from + w \in Int /\ Cols \in Int
    BY <1>1
  <2> HIDE DEF from
  <2> QED BY <2>1, PairMin
<1>4. LS!Min({s.col + w, Cols - 1}) = IF s.col + w <= Cols - 1 THEN s.col + w ELSE Cols - 1
  <2>1. s.col + w \in Int /\ Cols - 1 \in Int
    BY <1>1
  <2> QED BY <2>1, PairMin
<1>5. CASE s.autowrap
  <2>1. LS!advance(s, w) = [s EXCEPT !.col = LS!Min({from + w, Cols})]
    BY <1>2, <1>5 DEF LS!advance
  <2> QED BY <1>1, <1>3, <1>5, <2>1
<1>6. CASE ~s.autowrap
  <2>1. LS!advance(s, w) = [s EXCEPT !.col = LS!Min({s.col + w, Cols - 1})]
    BY <1>2, <1>6 DEF LS!advance
  <2> QED BY <1>1, <1>4, <1>6, <2>1
<1> QED
  BY <1>5, <1>6

\* A byte outside a sequence leaves a shadow.
LEMMA GroundType ==
    ASSUME Cols \in Nat \ {0}, NEW s \in LS!Shadows, NEW b
    PROVE  LS!ground(s, b) \in LS!Shadows
<1>1. \A t \in LS!Shadows, w \in Nat : LS!advance(t, w) \in LS!Shadows
  BY AdvanceIs, ShadowFields
<1>2. LS!printable(s, b) \in LS!Shadows
  <2>1. [s EXCEPT !.utf8 = 0] \in LS!Shadows /\ [s EXCEPT !.utf8 = 2] \in LS!Shadows
    BY ShadowFields
  <2>2. s.utf8 > 1 => [s EXCEPT !.utf8 = @ - 1] \in LS!Shadows
    BY ShadowFields
  <2>3. 1 \in Nat /\ 2 \in Nat
    OBVIOUS
  <2>4. LS!advance([s EXCEPT !.utf8 = 0], 2) \in LS!Shadows
        /\ LS!advance([s EXCEPT !.utf8 = 0], 1) \in LS!Shadows
    BY <1>1, <2>1, <2>3
  <2> QED BY <2>1, <2>2, <2>4 DEF LS!printable
<1> DEFINE t == [s EXCEPT !.utf8 = 0]
<1>3. t \in LS!Shadows
  BY ShadowFields
<1>4. t.col \in Nat
  BY <1>3, ShadowFields
<1>5. LS!Back(t.col, 1) \in Nat /\ LS!Clamp((t.col \div 8) * 8 + 8) \in Nat
  <2>1. (t.col \div 8) * 8 + 8 \in Nat
    BY <1>4
  <2> QED BY <1>4, <2>1, ColumnType
<1>6. /\ [t EXCEPT !.state = "Esc"] \in LS!Shadows /\ [t EXCEPT !.col = 0] \in LS!Shadows
      /\ [t EXCEPT !.col = LS!Back(@, 1)] \in LS!Shadows
      /\ [t EXCEPT !.col = LS!Clamp((@ \div 8) * 8 + 8)] \in LS!Shadows
  <2>1. "Esc" \in ShadowStates
    BY DEF ShadowStates
  <2> HIDE DEF t
  <2> QED BY <1>3, <1>5, <2>1, ShadowFields
<1> QED
  BY <1>2, <1>3, <1>6, Zenon DEF LS!ground

\* So does one after an escape,
LEMMA EscType ==
    ASSUME NEW s \in LS!Shadows, NEW b
    PROVE  LS!esc(s, b) \in LS!Shadows
<1> DEFINE t == [s EXCEPT !.state = "Ground"]
<1>1. t \in LS!Shadows
  BY ShadowFields DEF ShadowStates
<1>2. /\ s.col \in Nat /\ s.sgr \in LS!Segments
      /\ s.saved # <<>> => s.saved[1] \in Nat /\ s.saved[2] \in LS!Segments
  BY ShadowFields
<1>3. [t EXCEPT !.csi = <<>>, !.overflow = FALSE, !.state = "Csi"] \in LS!Shadows
  <2>1. <<>> \in Seq(LS!CsiBytes)
    OBVIOUS
  <2> HIDE DEF t
  <2> QED BY <1>1, <2>1 DEF LS!Shadows
<1>4. /\ [t EXCEPT !.state = "StringBody"] \in LS!Shadows
      /\ [t EXCEPT !.state = "EscIntermediate"] \in LS!Shadows
      /\ [t EXCEPT !.col = 0] \in LS!Shadows
      /\ [t EXCEPT !.saved = <<s.col, s.sgr>>] \in LS!Shadows
  <2>1. <<s.col, s.sgr>> \in Nat \X LS!Segments
    BY <1>2
  <2> HIDE DEF t
  <2> QED BY <1>1, <2>1, ShadowFields DEF ShadowStates
<1>5. s.saved # <<>> => [t EXCEPT !.col = s.saved[1], !.sgr = s.saved[2]] \in LS!Shadows
  <2> HIDE DEF t
  <2> QED BY <1>1, <1>2 DEF LS!Shadows
<1>6. [t EXCEPT !.col = 0, !.autowrap = TRUE, !.sgr = <<>>, !.saved = <<>>] \in LS!Shadows
  <2>1. <<>> \in LS!Segments
    BY DEF LS!Segments
  <2> HIDE DEF t
  <2> QED BY <1>1, <2>1 DEF LS!Shadows
<1> QED
  <2> HIDE DEF t
  <2>1. /\ \A x \in {t} : TRUE
    OBVIOUS
  <2> QED BY <1>1, <1>3, <1>4, <1>5, <1>6 DEF LS!esc, t

\* one that ends a control sequence,
LEMMA DispatchType ==
    ASSUME Cols \in Nat \ {0}, MaxSgr \in Nat \ {0}, NEW s \in LS!Shadows, NEW final
    PROVE  LS!csi_dispatch(s, final) \in LS!Shadows
<1> DEFINE t == [s EXCEPT !.csi = <<>>]
           p == s.csi
<1>1. t \in LS!Shadows /\ p \in Seq(LS!CsiBytes) /\ t.col \in Nat /\ t.sgr \in LS!Segments
  <2>1. <<>> \in Seq(LS!CsiBytes)
    OBVIOUS
  <2>2. t \in LS!Shadows
    BY <2>1, ShadowFields
  <2> HIDE DEF t
  <2> QED BY <2>2, ShadowFields
<1>2. LS!Fields(p) \in FieldLists /\ LS!nth_param(p, 1, 1) \in Nat
      /\ LS!nth_param(p, 2, 1) \in Nat
  BY <1>1, ParamType
<1>3. LS!apply_sgr(t.sgr, p) \in LS!Segments
  <2>1. PICK f \in [0..Len(LS!Fields(p)) -> Accounts] :
              LS!apply_sgr(t.sgr, p) = f[Len(LS!Fields(p))].sgr
    <3> HIDE DEF t, p
    <3> QED BY <1>1, <1>2, SgrSteps
  <2>2. Len(LS!Fields(p)) \in 0..Len(LS!Fields(p))
    BY <1>2 DEF FieldLists
  <2> QED BY <2>1, <2>2 DEF Accounts
<1> DEFINE m1 == LS!Max({1, LS!nth_param(p, 1, 1)})
<1>4. m1 \in Nat
  <2> DEFINE k == LS!nth_param(p, 1, 1)
  <2>1. 1 \in Int /\ k \in Int /\ k >= 0
    BY <1>2
  <2> HIDE DEF k
  <2>2. LS!Max({1, k}) = IF 1 >= k THEN 1 ELSE k
    BY <2>1, PairMin
  <2> QED BY <2>1, <2>2 DEF k
<1>5. /\ LS!Clamp(LS!Back(LS!nth_param(p, 1, 1), 1)) \in Nat
      /\ LS!Clamp(LS!Back(LS!nth_param(p, 2, 1), 1)) \in Nat
      /\ LS!Clamp(t.col + m1) \in Nat /\ LS!Back(t.col, m1) \in Nat
  <2>1. t.col + m1 \in Nat /\ 1 \in Nat
    BY <1>1, <1>4
  <2> HIDE DEF m1, t, p
  <2>2. LS!Back(LS!nth_param(p, 1, 1), 1) \in Nat /\ LS!Back(LS!nth_param(p, 2, 1), 1) \in Nat
    BY <1>2, <2>1, ColumnType
  <2> QED BY <1>1, <1>4, <2>1, <2>2, ColumnType
<1>6. /\ \A x \in BOOLEAN : [t EXCEPT !.autowrap = x] \in LS!Shadows
      /\ \A c \in Nat : [t EXCEPT !.col = c] \in LS!Shadows
      /\ \A x \in LS!Segments : [t EXCEPT !.sgr = x] \in LS!Shadows
  <2> HIDE DEF t
  <2> QED BY <1>1, ShadowFields
<1>7. /\ [t EXCEPT !.autowrap = (final = "h")] \in LS!Shadows
      /\ [t EXCEPT !.sgr = LS!apply_sgr(@, p)] \in LS!Shadows
      /\ [t EXCEPT !.col = LS!Clamp(LS!Back(LS!nth_param(p, 1, 1), 1))] \in LS!Shadows
      /\ [t EXCEPT !.col = LS!Clamp(LS!Back(LS!nth_param(p, 2, 1), 1))] \in LS!Shadows
      /\ [t EXCEPT !.col = LS!Clamp(@ + m1)] \in LS!Shadows
      /\ [t EXCEPT !.col = LS!Back(@, m1)] \in LS!Shadows
      /\ [t EXCEPT !.col = 0] \in LS!Shadows
  <2>1. (final = "h") \in BOOLEAN
    OBVIOUS
  <2> HIDE DEF t, m1, p
  <2> QED BY <1>3, <1>5, <1>6, <2>1, Zenon
<1> QED
  BY <1>1, <1>7, Zenon DEF LS!csi_dispatch

\* and any byte at all.
LEMMA StepType ==
    ASSUME Cols \in Nat \ {0}, MaxSgr \in Nat \ {0}, NEW s \in LS!Shadows, NEW b
    PROVE  LS!step(s, b) \in LS!Shadows
<1>1. /\ [s EXCEPT !.state = "Ground"] \in LS!Shadows /\ [s EXCEPT !.state = "Esc"] \in LS!Shadows
      /\ \A x \in ShadowStates : [s EXCEPT !.state = x] \in LS!Shadows
      /\ s.state \in ShadowStates /\ s.csi \in Seq(LS!CsiBytes)
  BY ShadowFields DEF ShadowStates
<1>2. LS!csi_byte(s, b) \in LS!Shadows
  <2>1. LS!csi_dispatch(s, b) \in LS!Shadows
    BY DispatchType
  <2>2. \A t \in LS!Shadows : [t EXCEPT !.state = "Ground"] \in LS!Shadows
    BY ShadowFields DEF ShadowStates
  <2>3. /\ b \in LS!CsiBytes => [s EXCEPT !.csi = Append(@, b)] \in LS!Shadows
        /\ [s EXCEPT !.overflow = TRUE] \in LS!Shadows
    <3>1. b \in LS!CsiBytes => Append(s.csi, b) \in Seq(LS!CsiBytes)
      BY <1>1
    <3> QED BY <3>1, ShadowFields
  <2> QED BY <1>1, <2>1, <2>2, <2>3, Zenon DEF LS!csi_byte
<1>3. LS!ground(s, b) \in LS!Shadows /\ LS!esc(s, b) \in LS!Shadows
  BY GroundType, EscType
<1> DEFINE body == CASE b = "bel" -> "Ground" [] b = "esc" -> "StringEsc" [] OTHER -> "StringBody"
           str == IF b = "\\" THEN "Ground" ELSE "StringBody"
<1>4. [s EXCEPT !.state = body] \in LS!Shadows /\ [s EXCEPT !.state = str] \in LS!Shadows
  <2>1. body \in ShadowStates /\ str \in ShadowStates
    BY DEF ShadowStates
  <2> HIDE DEF body, str
  <2> QED BY <1>1, <2>1
<1>5. /\ s.state = "Ground" => LS!step(s, b) = LS!ground(s, b)
      /\ s.state = "Esc" => LS!step(s, b) = LS!esc(s, b)
      /\ s.state = "EscIntermediate" => LS!step(s, b) = [s EXCEPT !.state = "Ground"]
      /\ s.state = "Csi" => LS!step(s, b) = LS!csi_byte(s, b)
      /\ s.state = "StringBody" => LS!step(s, b) = [s EXCEPT !.state = body]
      /\ s.state = "StringEsc" => LS!step(s, b) = [s EXCEPT !.state = str]
  BY DEF LS!step
<1> HIDE DEF body, str
<1> QED
  BY <1>1, <1>2, <1>3, <1>4, <1>5 DEF ShadowStates

\* A scan is one step for each byte.
LEMMA ReadSteps ==
    ASSUME Cols \in Nat \ {0}, MaxSgr \in Nat \ {0},
           NEW s \in LS!Shadows, NEW X, NEW w \in Seq(X)
    PROVE  \E f \in [0..Len(w) -> LS!Shadows] :
              /\ f[0] = s
              /\ \A i \in 1..Len(w) : f[i] = LS!step(f[i - 1], w[i])
              /\ LS!scan(s, w) = f[Len(w)]
<1> DEFINE n == Len(w)
           G == [p \in LS!Shadows \X (1..n) |-> LS!step(p[1], w[p[2]])]
           Recurs(h) == h = [r \in SUBSET (1..n) |-> IF r = {} THEN s
                              ELSE LS!step(h[r \ {LS!Max(r)}], w[LS!Max(r)])]
           iter == CHOOSE h : Recurs(h)
<1>1. n \in Nat /\ DOMAIN w = 1..n
  OBVIOUS
<1>2. LS!scan(s, w) = iter[1..n]
  BY <1>1 DEF LS!scan, LS!FoldLeft, LS!MapThenFoldSet
<1>3. \A p \in LS!Shadows, i \in 1..n : LS!step(p, w[i]) \in LS!Shadows
  BY <1>1, StepType
<1>4. G \in [LS!Shadows \X (1..n) -> LS!Shadows]
  BY <1>3
<1>5. \A p \in LS!Shadows, i \in 1..n : G[<<p, i>>] = LS!step(p, w[i])
  OBVIOUS
<1> HIDE DEF G
<1>6. s \in LS!Shadows
  OBVIOUS
<1>7. PICK g : Found(LS!Shadows, s, n, G, g)
  <2> HIDE DEF n, Recurs, iter
  <2> QED BY <1>1, <1>4, <1>6, FoldFound
<1>8. Recurs(g)
  <2>1. ASSUME NEW r \in SUBSET (1..n), r # {}
        PROVE  G[<<g[r \ {LS!Max(r)}], LS!Max(r)>>]
                  = LS!step(g[r \ {LS!Max(r)}], w[LS!Max(r)])
    BY <1>5, <1>7, <2>1 DEF Found
  <2> QED BY <1>7, <2>1, Zenon DEF Found
<1>9. Recurs(iter)
  BY <1>8, Zenon
<1> HIDE DEF iter
<1>10. iter[{}] = s
  <2>1. {} \in SUBSET (1..n)
    OBVIOUS
  <2> QED BY <1>9, <2>1
<1>11. ASSUME NEW i \in 1..n PROVE iter[1..i] = LS!step(iter[1..(i - 1)], w[i])
  <2>1. /\ 1..i \in SUBSET (1..n) /\ 1..i # {}
        /\ LS!Max(1..i) = i /\ (1..i) \ {LS!Max(1..i)} = 1..(i - 1)
    <3> HIDE DEF n
    <3> QED BY <1>1, Initial
  <2> QED BY <1>9, <2>1
<1> DEFINE f == [i \in 0..n |-> iter[1..i]]
<1>12. Steps(LS!Shadows, s, n, G, f)
  <2>1. \A i \in 1..n : iter[1..(i - 1)] \in LS!Shadows
                            => iter[1..i] = G[<<iter[1..(i - 1)], i>>]
    BY <1>5, <1>11
  <2>2. f = [i \in 0..n |-> iter[1..i]]
    OBVIOUS
  <2> HIDE DEF Recurs, n, f
  <2> QED BY <1>1, <1>4, <1>10, <1>6, <2>1, <2>2, FoldSteps
<1>13. f[n] = iter[1..n]
  BY <1>1
<1>14. \A i \in 1..n : f[i] = LS!step(f[i - 1], w[i])
  <2>1. \A i \in 1..n : i - 1 \in 0..n /\ i \in 0..n
    OBVIOUS
  <2> QED BY <1>11, <2>1
<1> HIDE DEF f
<1> QED
  BY <1>2, <1>12, <1>13, <1>14 DEF Steps

-----------------------------------------------------------------------------
(* The line shadow: sequences of a few bytes *)

\* The shadow between two operations, and what is left of it after one.
Between(s) == s \in LS!Shadows /\ s.state = "Ground" /\ s.utf8 = 0
After(r, col, autowrap, sgr, saved) ==
    /\ Between(r)
    /\ r.col = col /\ r.autowrap = autowrap /\ r.sgr = sgr /\ r.saved = saved

\* The shadow inside the parameters c of a sequence.
Inside(s, c) == [s EXCEPT !.state = "Csi", !.csi = c, !.overflow = FALSE]

\* A few bytes are read one after the other.
LEMMA ReadOne ==
    ASSUME Cols \in Nat \ {0}, MaxSgr \in Nat \ {0}, NEW s \in LS!Shadows,
           NEW a
    PROVE  LS!scan(s, <<a>>) = LS!step(s, a)
<1> DEFINE X == {a}
           w == <<a>>
<1>1. w \in Seq(X) /\ Len(w) = 1 /\ w[1] = a
  OBVIOUS
<1>2. PICK f : /\ f[0] = s /\ \A i \in 1..Len(w) : f[i] = LS!step(f[i - 1], w[i])
               /\ LS!scan(s, w) = f[Len(w)]
  <2> HIDE DEF w, X
  <2> QED BY <1>1, ReadSteps
<1>3. f[1] = LS!step(f[0], a)
  BY <1>1, <1>2
<1> QED
  BY <1>1, <1>2, <1>3

\* A scan of two bytes is two steps,
LEMMA ReadTwo ==
    ASSUME Cols \in Nat \ {0}, MaxSgr \in Nat \ {0}, NEW s \in LS!Shadows,
           NEW a, NEW b
    PROVE  LS!scan(s, <<a, b>>) = LS!step(LS!step(s, a), b)
<1> DEFINE X == {a, b}
           w == <<a, b>>
<1>1. w \in Seq(X) /\ Len(w) = 2 /\ w[1] = a /\ w[2] = b
  OBVIOUS
<1>2. PICK f : /\ f[0] = s /\ \A i \in 1..Len(w) : f[i] = LS!step(f[i - 1], w[i])
               /\ LS!scan(s, w) = f[Len(w)]
  <2> HIDE DEF w, X
  <2> QED BY <1>1, ReadSteps
<1>3. f[1] = LS!step(f[0], a) /\ f[2] = LS!step(f[1], b)
  BY <1>1, <1>2
<1> QED
  BY <1>1, <1>2, <1>3

\* of three bytes three,
LEMMA ReadThree ==
    ASSUME Cols \in Nat \ {0}, MaxSgr \in Nat \ {0}, NEW s \in LS!Shadows,
           NEW a, NEW b, NEW c
    PROVE  LS!scan(s, <<a, b, c>>) = LS!step(LS!step(LS!step(s, a), b), c)
<1> DEFINE X == {a, b, c}
           w == <<a, b, c>>
<1>1. w \in Seq(X) /\ Len(w) = 3 /\ w[1] = a /\ w[2] = b /\ w[3] = c
  OBVIOUS
<1>2. PICK f : /\ f[0] = s /\ \A i \in 1..Len(w) : f[i] = LS!step(f[i - 1], w[i])
               /\ LS!scan(s, w) = f[Len(w)]
  <2> HIDE DEF w, X
  <2> QED BY <1>1, ReadSteps
<1>3. f[1] = LS!step(f[0], a) /\ f[2] = LS!step(f[1], b) /\ f[3] = LS!step(f[2], c)
  BY <1>1, <1>2
<1> QED
  BY <1>1, <1>2, <1>3

\* of five bytes five.
LEMMA ReadFive ==
    ASSUME Cols \in Nat \ {0}, MaxSgr \in Nat \ {0}, NEW s \in LS!Shadows,
           NEW a, NEW b, NEW c, NEW d, NEW e
    PROVE  LS!scan(s, <<a, b, c, d, e>>) = LS!step(LS!step(LS!step(LS!step(LS!step(s, a), b), c), d), e)
<1> DEFINE X == {a, b, c, d, e}
           w == <<a, b, c, d, e>>
<1>1. w \in Seq(X) /\ Len(w) = 5 /\ w[1] = a /\ w[2] = b /\ w[3] = c /\ w[4] = d /\ w[5] = e
  OBVIOUS
<1>2. PICK f : /\ f[0] = s /\ \A i \in 1..Len(w) : f[i] = LS!step(f[i - 1], w[i])
               /\ LS!scan(s, w) = f[Len(w)]
  <2> HIDE DEF w, X
  <2> QED BY <1>1, ReadSteps
<1>3. f[1] = LS!step(f[0], a) /\ f[2] = LS!step(f[1], b) /\ f[3] = LS!step(f[2], c)
      /\ f[4] = LS!step(f[3], d) /\ f[5] = LS!step(f[4], e)
  BY <1>1, <1>2
<1> QED
  BY <1>1, <1>2, <1>3

\* An ESC, then.
LEMMA StepEsc ==
    ASSUME NEW s \in LS!Shadows, Between(s)
    PROVE  LS!step(s, "esc") = [s EXCEPT !.state = "Esc"] /\ [s EXCEPT !.utf8 = 0] = s
<1>1. [s EXCEPT !.utf8 = 0] = s
  BY DEF Between, LS!Shadows
<1>2. LS!step(s, "esc") = LS!ground(s, "esc")
  BY DEF LS!step, Between
<1> QED
  BY <1>1, <1>2 DEF LS!ground

\* A control sequence is dispatched with its parameters.
LEMMA ReadCsi ==
    ASSUME Cols \in Nat \ {0}, MaxSgr \in Nat \ {0}, MaxCsi \in Nat,
           NEW s \in LS!Shadows, Between(s),
           NEW p \in Seq(LS!CsiBytes), Len(p) <= MaxCsi, NEW final \in LS!Finals
    PROVE  LS!scan(s, LS!Csi(p, final))
              = [LS!csi_dispatch(Inside(s, p), final) EXCEPT !.state = "Ground"]
<1> DEFINE w == LS!Csi(p, final)
           n == Len(p)
           X == {"esc", "["} \cup LS!CsiBytes \cup {final}
<1>1. /\ w \in Seq(X) /\ Len(w) = n + 3 /\ n \in Nat /\ w[1] = "esc" /\ w[2] = "["
      /\ \A i \in 1..n : w[i + 2] = p[i]
      /\ w[n + 3] = final
  <2>1. p \in Seq(X)
    OBVIOUS
  <2>2. <<"esc", "[">> \in Seq(X) /\ <<final>> \in Seq(X)
    OBVIOUS
  <2> HIDE DEF X
  <2> QED BY <2>1, <2>2 DEF LS!Csi
<1> HIDE DEF w, n, X
<1>2. PICK f : /\ f[0] = s /\ \A i \in 1..Len(w) : f[i] = LS!step(f[i - 1], w[i])
               /\ LS!scan(s, w) = f[Len(w)]
  <2>1. w \in Seq(X)
    BY <1>1
  <2> QED BY <2>1, ReadSteps
<1>3. f[1] = [s EXCEPT !.state = "Esc"]
  BY <1>1, <1>2, StepEsc
<1>4. f[2] = Inside(s, <<>>)
  <2>1. f[2] = LS!step(f[1], "[")
    BY <1>1, <1>2
  <2>2. LS!step(f[1], "[") = LS!esc(f[1], "[")
    BY <1>3 DEF LS!step, LS!Shadows
  <2>3. LS!esc(f[1], "[") = [[f[1] EXCEPT !.state = "Ground"] EXCEPT !.csi = <<>>,
                                                     !.overflow = FALSE, !.state = "Csi"]
    BY DEF LS!esc
  <2> QED BY <1>3, <2>1, <2>2, <2>3 DEF Inside, LS!Shadows
<1> DEFINE P == {k \in Nat : k <= n => f[k + 2] = Inside(s, SubSeq(p, 1, k))}
<1>5. 0 \in P
  <2>1. SubSeq(p, 1, 0) = <<>>
    OBVIOUS
  <2>2. f[0 + 2] = Inside(s, SubSeq(p, 1, 0))
    <3>1. 0 + 2 = 2
      OBVIOUS
    <3> QED BY <1>4, <2>1, <3>1, Zenon
  <2> QED BY <2>2
<1>6. ASSUME NEW k \in Nat, k \in P PROVE k + 1 \in P
  <2>1. SUFFICES ASSUME k + 1 <= n PROVE f[k + 3] = Inside(s, SubSeq(p, 1, k + 1))
    OBVIOUS
  <2>2. k <= n /\ f[k + 2] = Inside(s, SubSeq(p, 1, k))
    BY <1>1, <1>6, <2>1
  <2>3. f[k + 3] = LS!step(f[k + 2], p[k + 1])
    <3>1. k + 3 \in 1..Len(w) /\ (k + 3) - 1 = k + 2 /\ k + 1 \in 1..n /\ (k + 1) + 2 = k + 3
      BY <1>1, <2>1
    <3> QED BY <1>1, <1>2, <3>1
  <2> DEFINE g == f[k + 2]
             c == SubSeq(p, 1, k)
  <2>4. /\ p[k + 1] \in LS!CsiBytes /\ c \in Seq(LS!CsiBytes) /\ Len(c) = k /\ k < MaxCsi
        /\ SubSeq(p, 1, k + 1) = Append(c, p[k + 1])
    BY <1>1, <2>1 DEF n
  <2>5. g = Inside(s, c)
    BY <2>2
  <2> HIDE DEF g, c, P
  <2>6. /\ g.state = "Csi" /\ g.csi = c
        /\ [g EXCEPT !.csi = Append(@, p[k + 1])] = Inside(s, Append(c, p[k + 1]))
    BY <2>5 DEF Inside, LS!Shadows
  <2>7. LS!step(g, p[k + 1]) = LS!csi_byte(g, p[k + 1])
    BY <2>6 DEF LS!step
  <2>8. LS!csi_byte(g, p[k + 1]) = [g EXCEPT !.csi = Append(@, p[k + 1])]
    <3>1. p[k + 1] \in LS!CsiBytes /\ Len(g.csi) < MaxCsi
      BY <2>4, <2>6
    <3> DEFINE b == p[k + 1]
    <3>2. b \in LS!CsiBytes /\ b # "esc" /\ b \notin (LS!Controls \ {"esc"}) \cup {"u", "cont"}
      BY <3>1 DEF LS!CsiBytes, LS!Controls, LS!Digits
    <3> HIDE DEF b
    <3>3. LS!csi_byte(g, b) = IF Len(g.csi) < MaxCsi THEN [g EXCEPT !.csi = Append(@, b)]
                                                     ELSE [g EXCEPT !.overflow = TRUE]
      BY <3>2 DEF LS!csi_byte
    <3> QED BY <3>1, <3>3 DEF b
  <2> QED BY <2>3, <2>4, <2>6, <2>7, <2>8 DEF g
<1>7. n \in P
  <2> HIDE DEF P
  <2> QED BY <1>1, <1>5, <1>6, NatSetInduction
<1>8. f[n + 2] = Inside(s, p)
  <2>1. SubSeq(p, 1, n) = p
    BY DEF n
  <2>2. n <= n
    BY <1>1
  <2>3. f[n + 2] = Inside(s, SubSeq(p, 1, n))
    BY <1>7, <2>2
  <2> QED BY <2>1, <2>3
<1>9. f[n + 3] = LS!step(f[n + 2], final)
  <2>1. n + 3 \in 1..Len(w) /\ (n + 3) - 1 = n + 2
    BY <1>1
  <2> QED BY <1>1, <1>2, <2>1
<1> DEFINE g == Inside(s, p)
<1>10. g.state = "Csi" /\ ~g.overflow
  BY DEF Inside, LS!Shadows
<1>11. LS!step(g, final) = LS!csi_byte(g, final)
  BY <1>10 DEF LS!step
<1>12. final \notin LS!CsiBytes /\ final # "esc"
       /\ final \notin (LS!Controls \ {"esc"}) \cup {"u", "cont"}
  BY DEF LS!Finals, LS!CsiBytes, LS!Controls, LS!Digits
<1>13. LS!csi_byte(g, final) = [LS!csi_dispatch(g, final) EXCEPT !.state = "Ground"]
  <2> HIDE DEF g
  <2> QED BY <1>10, <1>12 DEF LS!csi_byte
<1>14. LS!scan(s, w) = f[n + 3]
  BY <1>1, <1>2
<1> QED
  BY <1>8, <1>9, <1>11, <1>13, <1>14 DEF w

-----------------------------------------------------------------------------
(* The line shadow: the parameters of the operations *)

Black == <<"3", "5", "sep", "3", "8", "sep", "5", "sep", "0">>
BlackFields == <<<<"3", "5">>, <<"3", "8">>, <<"5">>, <<"0">>>>

\* The digits and their numbers.
LEMMA DigitsAre ==
    /\ DOMAIN LS!Digits = {"0", "1", "2", "3", "5", "7", "8"}
    /\ LS!Digits["0"] = 0 /\ LS!Digits["1"] = 1 /\ LS!Digits["2"] = 2 /\ LS!Digits["3"] = 3
    /\ LS!Digits["5"] = 5 /\ LS!Digits["7"] = 7 /\ LS!Digits["8"] = 8
  BY DEF LS!Digits

\* An element at the end, and another one in its place.
LEMMA AtTheEnd ==
    ASSUME NEW S, NEW s \in Seq(S), NEW x \in S
    PROVE  /\ Append(s, x) \in Seq(S) /\ Len(Append(s, x)) = Len(s) + 1
           /\ \A i \in 1..Len(s) : Append(s, x)[i] = s[i]
           /\ Append(s, x)[Len(s) + 1] = x
           /\ Len(s) >= 1 =>
                 /\ [s EXCEPT ![Len(s)] = x] \in Seq(S)
                 /\ Len([s EXCEPT ![Len(s)] = x]) = Len(s)
                 /\ \A i \in 1..(Len(s) - 1) : [s EXCEPT ![Len(s)] = x][i] = s[i]
                 /\ [s EXCEPT ![Len(s)] = x][Len(s)] = x
<1>1. /\ Append(s, x) \in Seq(S) /\ Len(Append(s, x)) = Len(s) + 1
      /\ \A i \in 1..Len(s) : Append(s, x)[i] = s[i]
      /\ Append(s, x)[Len(s) + 1] = x
  OBVIOUS
<1>2. ASSUME Len(s) >= 1
      PROVE  /\ [s EXCEPT ![Len(s)] = x] \in Seq(S)
             /\ Len([s EXCEPT ![Len(s)] = x]) = Len(s)
             /\ \A i \in 1..(Len(s) - 1) : [s EXCEPT ![Len(s)] = x][i] = s[i]
             /\ [s EXCEPT ![Len(s)] = x][Len(s)] = x
  <2> DEFINE n == Len(s)
             r == [s EXCEPT ![n] = x]
  <2>1. n \in Nat /\ n >= 1 /\ DOMAIN s = 1..n /\ \A i \in 1..n : s[i] \in S
    BY <1>2
  <2> HIDE DEF n
  <2>2. n \in 1..n /\ \A i \in 1..(n - 1) : i \in 1..n /\ i # n
    BY <2>1
  <2>3. r = [i \in 1..n |-> IF i = n THEN x ELSE s[i]]
    BY <2>1
  <2>4. r \in [1..n -> S]
    BY <2>1, <2>3
  <2>5. r[n] = x /\ \A i \in 1..(n - 1) : r[i] = s[i]
    BY <2>1, <2>2, <2>3
  <2> HIDE DEF r
  <2>6. r \in Seq(S) /\ Len(r) = n
    BY <2>1, <2>4
  <2> QED BY <2>5, <2>6 DEF n, r
<1> QED
  BY <1>1, <1>2

\* A byte goes to the last field, a semicolon begins another.
LEMMA SplitIs ==
    ASSUME NEW fs \in FieldLists, NEW b \in LS!CsiBytes
    PROVE  /\ Len(fs) \in Nat \ {0} /\ LS!Split(fs, b) \in FieldLists
           /\ b = "sep" => /\ Len(LS!Split(fs, b)) = Len(fs) + 1
                           /\ \A i \in 1..Len(fs) : LS!Split(fs, b)[i] = fs[i]
                           /\ LS!Split(fs, b)[Len(fs) + 1] = <<>>
           /\ b # "sep" => /\ Len(LS!Split(fs, b)) = Len(fs)
                           /\ \A i \in 1..(Len(fs) - 1) : LS!Split(fs, b)[i] = fs[i]
                           /\ LS!Split(fs, b)[Len(fs)] = Append(fs[Len(fs)], b)
<1> DEFINE Qs == Seq(LS!CsiBytes)
           e == <<>>
           x == Append(fs[Len(fs)], b)
<1>1. fs \in Seq(Qs) /\ Len(fs) \in Nat \ {0}
  BY DEF FieldLists
<1>2. e \in Qs /\ x \in Qs
  <2>1. fs[Len(fs)] \in Seq(LS!CsiBytes)
    BY <1>1
  <2> QED BY <2>1
<1>3. b = "sep" => LS!Split(fs, b) = Append(fs, e)
  BY DEF LS!Split
<1>4. b # "sep" => LS!Split(fs, b) = [fs EXCEPT ![Len(fs)] = x]
  BY DEF LS!Split
<1>5. LS!Split(fs, b) \in FieldLists
  BY SplitType
<1> HIDE DEF Qs, e, x
<1>6. /\ Len(Append(fs, e)) = Len(fs) + 1
      /\ \A i \in 1..Len(fs) : Append(fs, e)[i] = fs[i]
      /\ Append(fs, e)[Len(fs) + 1] = e
  BY <1>1, <1>2, AtTheEnd
<1>7. /\ Len([fs EXCEPT ![Len(fs)] = x]) = Len(fs)
      /\ \A i \in 1..(Len(fs) - 1) : [fs EXCEPT ![Len(fs)] = x][i] = fs[i]
      /\ [fs EXCEPT ![Len(fs)] = x][Len(fs)] = x
  <2>1. Len(fs) >= 1
    BY <1>1
  <2> QED BY <1>1, <1>2, <2>1, AtTheEnd
<1>8. b = "sep" => /\ Len(LS!Split(fs, b)) = Len(fs) + 1
                   /\ \A i \in 1..Len(fs) : LS!Split(fs, b)[i] = fs[i]
                   /\ LS!Split(fs, b)[Len(fs) + 1] = e
  BY <1>3, <1>6, Zenon
<1>9. b # "sep" => /\ Len(LS!Split(fs, b)) = Len(fs)
                   /\ \A i \in 1..(Len(fs) - 1) : LS!Split(fs, b)[i] = fs[i]
                   /\ LS!Split(fs, b)[Len(fs)] = x
  BY <1>4, <1>7, Zenon
<1> QED
  BY <1>1, <1>5, <1>8, <1>9 DEF e, x

\* Two short sequences with the same elements.
LEMMA ShortEqual ==
    ASSUME NEW S, NEW l \in Seq(S), NEW r \in Seq(S)
    PROVE  /\ Len(l) = 1 /\ Len(r) = 1 /\ l[1] = r[1] => l = r
           /\ Len(l) = 2 /\ Len(r) = 2 /\ l[1] = r[1] /\ l[2] = r[2] => l = r
           /\ Len(l) = 3 /\ Len(r) = 3 /\ l[1] = r[1] /\ l[2] = r[2] /\ l[3] = r[3] => l = r
           /\ Len(l) = 4 /\ Len(r) = 4 /\ l[1] = r[1] /\ l[2] = r[2] /\ l[3] = r[3]
              /\ l[4] = r[4] => l = r
<1>1. /\ \A i \in 1..1 : i = 1
      /\ \A i \in 1..2 : i = 1 \/ i = 2
      /\ \A i \in 1..3 : i = 1 \/ i = 2 \/ i = 3
      /\ \A i \in 1..4 : i = 1 \/ i = 2 \/ i = 3 \/ i = 4
  OBVIOUS
<1>2. Len(l) = 1 /\ Len(r) = 1 /\ l[1] = r[1] => l = r
  BY <1>1, SeqEqual
<1>3. Len(l) = 2 /\ Len(r) = 2 /\ l[1] = r[1] /\ l[2] = r[2] => l = r
  BY <1>1, SeqEqual
<1>4. Len(l) = 3 /\ Len(r) = 3 /\ l[1] = r[1] /\ l[2] = r[2] /\ l[3] = r[3] => l = r
  BY <1>1, SeqEqual
<1>5. Len(l) = 4 /\ Len(r) = 4 /\ l[1] = r[1] /\ l[2] = r[2] /\ l[3] = r[3] /\ l[4] = r[4]
      => l = r
  BY <1>1, SeqEqual
<1> QED
  BY <1>2, <1>3, <1>4, <1>5

\* Sequences of few elements.
LEMMA FewElements ==
    ASSUME NEW a, NEW b
    PROVE  /\ Append(<<>>, a) = <<a>> /\ Append(Append(<<>>, a), b) = <<a, b>>
           /\ <<a>> # <<>> /\ <<a, b>> # <<>>
           /\ Len(<<a>>) = 1 /\ <<a>>[1] = a /\ SubSeq(<<a>>, 1, 1) = <<a>>
<1> DEFINE S == {a, b}
           e == <<>>
           one == <<a>>
           two == <<a, b>>
<1>1. /\ e \in Seq(S) /\ Len(e) = 0
      /\ one \in Seq(S) /\ Len(one) = 1 /\ one[1] = a
      /\ two \in Seq(S) /\ Len(two) = 2 /\ two[1] = a /\ two[2] = b
      /\ a \in S /\ b \in S
  OBVIOUS
<1>2. <<a>> # <<>> /\ <<a, b>> # <<>>
  OBVIOUS
<1>7. /\ one \in Seq(S) /\ Len(one) = 1 /\ one[1] = a /\ a \in S /\ b \in S
      /\ e \in Seq(S) /\ Len(e) = 0
  BY <1>1
<1>8. two \in Seq(S) /\ Len(two) = 2 /\ two[1] = a /\ two[2] = b
  BY <1>1
<1> HIDE DEF S, e, one, two
<1>3. Append(e, a) = one
  <2>1. Append(e, a) \in Seq(S) /\ Len(Append(e, a)) = 1 /\ Append(e, a)[1] = a
    BY <1>7
  <2> QED BY <1>7, <2>1, ShortEqual
<1>4. Append(one, b) = two
  <2>1. /\ Append(one, b) \in Seq(S) /\ Len(Append(one, b)) = Len(one) + 1
        /\ \A i \in 1..Len(one) : Append(one, b)[i] = one[i]
        /\ Append(one, b)[Len(one) + 1] = b
    <3>1. one \in Seq(S) /\ b \in S
      BY <1>7
    <3> QED BY <3>1, AtTheEnd
  <2> DEFINE r == Append(one, b)
  <2> HIDE DEF r
  <2>2. r \in Seq(S) /\ Len(r) = 2 /\ r[1] = a /\ r[2] = b
    BY <1>7, <2>1 DEF r
  <2> QED BY <1>8, <2>2, ShortEqual DEF r
<1>5. SubSeq(one, 1, 1) = one
  <2>1. SubSeq(one, 1, 1) \in Seq(S) /\ Len(SubSeq(one, 1, 1)) = 1 /\ SubSeq(one, 1, 1)[1] = a
    BY <1>7
  <2> QED BY <1>7, <2>1, ShortEqual
<1>6. Append(Append(e, a), b) = two
  BY <1>3, <1>4
<1> QED
  BY <1>2, <1>3, <1>5, <1>6, <1>7, Zenon DEF e, one, two

\* The two cases apart: a field is begun, the last field has a byte more.
Begun(fs, r) ==
    /\ r \in FieldLists /\ Len(r) = Len(fs) + 1
    /\ \A i \in 1..Len(fs) : r[i] = fs[i]
    /\ r[Len(fs) + 1] = <<>>
Grown(fs, b, r) ==
    /\ r \in FieldLists /\ Len(r) = Len(fs)
    /\ \A i \in 1..(Len(fs) - 1) : r[i] = fs[i]
    /\ r[Len(fs)] = Append(fs[Len(fs)], b)

\* What a semicolon and another byte make of the fields, by these names.
LEMMA SplitApart ==
    ASSUME NEW fs \in FieldLists
    PROVE  /\ Begun(fs, LS!Split(fs, "sep"))
           /\ \A b \in LS!CsiBytes : b # "sep" => Grown(fs, b, LS!Split(fs, b))
<1>1. "sep" \in LS!CsiBytes
  BY DEF LS!CsiBytes
<1>2. Begun(fs, LS!Split(fs, "sep"))
  BY <1>1, SplitIs DEF Begun
<1>3. ASSUME NEW b \in LS!CsiBytes, b # "sep" PROVE Grown(fs, b, LS!Split(fs, b))
  BY <1>3, SplitIs DEF Grown
<1> QED
  BY <1>2, <1>3

\* The fields of the parameters that the operations have.
LEMMA FieldsOf ==
    /\ LS!Fields(<<>>) = <<<<>>>>
    /\ \A d \in DOMAIN LS!Digits : LS!Fields(<<d>>) = <<<<d>>>>
    /\ LS!Fields(Black) = BlackFields
<1>1. LS!Fields(<<>>) = <<<<>>>>
  <2>1. <<>> \in Seq(LS!CsiBytes) /\ Len(<<>>) = 0
    OBVIOUS
  <2>2. PICK f \in [0..Len(<<>>) -> FieldLists] : f[0] = <<<<>>>>
        /\ LS!Fields(<<>>) = f[Len(<<>>)]
    BY <2>1, FieldsSteps
  <2> QED BY <2>1, <2>2
<1>2. ASSUME NEW d \in DOMAIN LS!Digits PROVE LS!Fields(<<d>>) = <<<<d>>>>
  <2> DEFINE w == <<d>>
  <2>1. w \in Seq(LS!CsiBytes) /\ Len(w) = 1 /\ w[1] = d /\ d # "sep"
    BY DigitsAre DEF LS!CsiBytes
  <2> HIDE DEF w
  <2>2. PICK f : /\ f[0] = <<<<>>>> /\ \A i \in 1..Len(w) : f[i] = LS!Split(f[i - 1], w[i])
                 /\ LS!Fields(w) = f[Len(w)]
    BY <2>1, FieldsSteps
  <2>3. f[1] = LS!Split(f[0], d)
    BY <2>1, <2>2
  <2>4. f[0] \in FieldLists /\ Len(f[0]) = 1 /\ f[0][1] = <<>> /\ d \in LS!CsiBytes
    BY <2>1, <2>2 DEF FieldLists, LS!CsiBytes
  <2>5. f[1] \in FieldLists /\ Len(f[1]) = 1 /\ f[1][1] = Append(<<>>, d)
    <3>1. Grown(f[0], d, f[1])
      BY <2>1, <2>3, <2>4, SplitApart
    <3> QED BY <2>4, <3>1 DEF Grown
  <2> DEFINE v == f[1]
             u == <<<<d>>>>
  <2>6. u \in Seq(Seq(LS!CsiBytes)) /\ Len(u) = 1 /\ u[1] = Append(<<>>, d)
    <3>1. <<d>> \in Seq(LS!CsiBytes) /\ Append(<<>>, d) = <<d>>
      BY <2>4
    <3> DEFINE x == <<d>>
    <3> HIDE DEF x
    <3>2. x \in Seq(LS!CsiBytes) => <<x>> \in Seq(Seq(LS!CsiBytes)) /\ Len(<<x>>) = 1
          /\ <<x>>[1] = x
      OBVIOUS
    <3> QED BY <3>1, <3>2 DEF x
  <2>7. v = u
    <3> HIDE DEF u
    <3> QED BY <2>5, <2>6, SeqEqual DEF FieldLists
  <2> QED BY <2>1, <2>2, <2>7 DEF w
<1>3. LS!Fields(Black) = BlackFields
  <2> DEFINE w == Black
  <2>1. /\ w \in Seq(LS!CsiBytes) /\ Len(w) = 9
        /\ w[1] = "3" /\ w[2] = "5" /\ w[3] = "sep" /\ w[4] = "3" /\ w[5] = "8"
        /\ w[6] = "sep" /\ w[7] = "5" /\ w[8] = "sep" /\ w[9] = "0"
    BY DigitsAre DEF LS!CsiBytes, Black
  <2> HIDE DEF w
  <2>2. PICK f : /\ f[0] = <<<<>>>> /\ \A i \in 1..Len(w) : f[i] = LS!Split(f[i - 1], w[i])
                 /\ LS!Fields(w) = f[Len(w)]
    BY <2>1, FieldsSteps
  <2>3. /\ f[1] = LS!Split(f[0], "3") /\ f[2] = LS!Split(f[1], "5")
        /\ f[3] = LS!Split(f[2], "sep")
        /\ f[4] = LS!Split(f[3], "3") /\ f[5] = LS!Split(f[4], "8")
        /\ f[6] = LS!Split(f[5], "sep")
        /\ f[7] = LS!Split(f[6], "5") /\ f[8] = LS!Split(f[7], "sep")
        /\ f[9] = LS!Split(f[8], "0")
    <3>1. \A i \in 1..9 : f[i] = LS!Split(f[i - 1], w[i])
      BY <2>1, <2>2
    <3>2. /\ f[1] = LS!Split(f[0], w[1]) /\ f[2] = LS!Split(f[1], w[2])
          /\ f[3] = LS!Split(f[2], w[3])
          /\ f[4] = LS!Split(f[3], w[4]) /\ f[5] = LS!Split(f[4], w[5])
          /\ f[6] = LS!Split(f[5], w[6])
          /\ f[7] = LS!Split(f[6], w[7]) /\ f[8] = LS!Split(f[7], w[8])
          /\ f[9] = LS!Split(f[8], w[9])
      BY <3>1
    <3> QED BY <2>1, <3>2
  <2>4. {"3", "5", "8", "0", "sep"} \subseteq LS!CsiBytes
    BY DigitsAre DEF LS!CsiBytes
  <2> DEFINE e == <<>>
             A == Append(Append(e, "3"), "5")
             B == Append(Append(e, "3"), "8")
             C == Append(e, "5")
             D == Append(e, "0")
  <2>5. f[0] \in FieldLists /\ Len(f[0]) = 1 /\ f[0][1] = e
    <3>1. <<<<>>>> \in Seq(Seq(LS!CsiBytes)) /\ Len(<<<<>>>>) = 1 /\ <<<<>>>>[1] = <<>>
      OBVIOUS
    <3>2. <<<<>>>> # <<>>
      OBVIOUS
    <3> QED BY <2>2, <3>1, <3>2 DEF FieldLists
  <2> HIDE DEF e
  <2>17. "3" \in LS!CsiBytes
    BY <2>4
  <2>18. "3" # "sep" /\ "5" # "sep" /\ "8" # "sep" /\ "0" # "sep"
    OBVIOUS
  <2>6. f[1] \in FieldLists /\ Len(f[1]) = 1 /\ f[1][1] = Append(e, "3")
    <3>1. /\ f[1] = LS!Split(f[0], "3") /\ "3" \in LS!CsiBytes /\ Len(f[0]) = 1
          /\ f[0] \in FieldLists
      BY <2>3, <2>4, <2>5
    <3>2. Grown(f[0], "3", f[1])
      BY <2>18, <3>1, SplitApart
    <3> QED BY <2>5, <3>1, <3>2 DEF Begun, Grown, e
  <2>7. f[2] \in FieldLists /\ Len(f[2]) = 1 /\ f[2][1] = A
    <3>1. /\ f[2] = LS!Split(f[1], "5") /\ "5" \in LS!CsiBytes /\ Len(f[1]) = 1
          /\ f[1] \in FieldLists
      BY <2>3, <2>4, <2>6
    <3>2. Grown(f[1], "5", f[2])
      BY <2>18, <3>1, SplitApart
    <3> QED BY <2>6, <3>1, <3>2 DEF Begun, Grown, e, A
  <2> HIDE DEF A
  <2>8. f[3] \in FieldLists /\ Len(f[3]) = 2 /\ f[3][1] = A /\ f[3][2] = e
    <3>1. /\ f[3] = LS!Split(f[2], "sep") /\ "sep" \in LS!CsiBytes /\ Len(f[2]) = 1
          /\ f[2] \in FieldLists
      BY <2>3, <2>4, <2>7
    <3>2. Begun(f[2], f[3])
      BY <2>18, <3>1, SplitApart
    <3> QED BY <2>7, <3>1, <3>2 DEF Begun, Grown, e
  <2>9. f[4] \in FieldLists /\ Len(f[4]) = 2 /\ f[4][1] = A /\ f[4][2] = Append(e, "3")
    <3>1. /\ f[4] = LS!Split(f[3], "3") /\ "3" \in LS!CsiBytes /\ Len(f[3]) = 2
          /\ f[3] \in FieldLists
      BY <2>3, <2>4, <2>8
    <3>2. Grown(f[3], "3", f[4])
      BY <2>18, <3>1, SplitApart
    <3> QED BY <2>8, <3>1, <3>2 DEF Begun, Grown, e
  <2>10. f[5] \in FieldLists /\ Len(f[5]) = 2 /\ f[5][1] = A /\ f[5][2] = B
    <3>1. /\ f[5] = LS!Split(f[4], "8") /\ "8" \in LS!CsiBytes /\ Len(f[4]) = 2
          /\ f[4] \in FieldLists
      BY <2>3, <2>4, <2>9
    <3>2. Grown(f[4], "8", f[5])
      BY <2>18, <3>1, SplitApart
    <3> QED BY <2>9, <3>1, <3>2 DEF Begun, Grown, e, B
  <2> HIDE DEF B
  <2>11. f[6] \in FieldLists /\ Len(f[6]) = 3 /\ f[6][1] = A /\ f[6][2] = B /\ f[6][3] = e
    <3>1. /\ f[6] = LS!Split(f[5], "sep") /\ "sep" \in LS!CsiBytes /\ Len(f[5]) = 2
          /\ f[5] \in FieldLists
      BY <2>3, <2>4, <2>10
    <3>2. Begun(f[5], f[6])
      BY <2>18, <3>1, SplitApart
    <3> QED BY <2>10, <3>1, <3>2 DEF Begun, Grown, e
  <2>12. f[7] \in FieldLists /\ Len(f[7]) = 3 /\ f[7][1] = A /\ f[7][2] = B /\ f[7][3] = C
    <3>1. /\ f[7] = LS!Split(f[6], "5") /\ "5" \in LS!CsiBytes /\ Len(f[6]) = 3
          /\ f[6] \in FieldLists
      BY <2>3, <2>4, <2>11
    <3>2. Grown(f[6], "5", f[7])
      BY <2>18, <3>1, SplitApart
    <3> QED BY <2>11, <3>1, <3>2 DEF Begun, Grown, e, C
  <2> HIDE DEF C
  <2>13. f[8] \in FieldLists /\ Len(f[8]) = 4 /\ f[8][1] = A /\ f[8][2] = B /\ f[8][3] = C
         /\ f[8][4] = e
    <3>1. /\ f[8] = LS!Split(f[7], "sep") /\ "sep" \in LS!CsiBytes /\ Len(f[7]) = 3
          /\ f[7] \in FieldLists
      BY <2>3, <2>4, <2>12
    <3>2. Begun(f[7], f[8])
      BY <2>18, <3>1, SplitApart
    <3> QED BY <2>12, <3>1, <3>2 DEF Begun, Grown, e
  <2>14. f[9] \in FieldLists /\ Len(f[9]) = 4 /\ f[9][1] = A /\ f[9][2] = B /\ f[9][3] = C
         /\ f[9][4] = D
    <3>1. /\ f[9] = LS!Split(f[8], "0") /\ "0" \in LS!CsiBytes /\ Len(f[8]) = 4
          /\ f[8] \in FieldLists
      BY <2>3, <2>4, <2>13
    <3>2. Grown(f[8], "0", f[9])
      BY <2>18, <3>1, SplitApart
    <3> QED BY <2>13, <3>1, <3>2 DEF Begun, Grown, e, D
  <2> HIDE DEF D
  <2>15. /\ BlackFields \in Seq(Seq(LS!CsiBytes)) /\ Len(BlackFields) = 4
         /\ BlackFields[1] = A /\ BlackFields[2] = B /\ BlackFields[3] = C /\ BlackFields[4] = D
    <3>1. /\ <<"3", "5">> \in Seq(LS!CsiBytes) /\ <<"3", "8">> \in Seq(LS!CsiBytes)
          /\ <<"5">> \in Seq(LS!CsiBytes) /\ <<"0">> \in Seq(LS!CsiBytes)
      BY <2>4
    <3>2. A = <<"3", "5">> /\ B = <<"3", "8">> /\ C = <<"5">> /\ D = <<"0">>
      BY FewElements, Zenon DEF A, B, C, D, e
    <3>3. ASSUME NEW a \in Seq(LS!CsiBytes), NEW b \in Seq(LS!CsiBytes), NEW c \in Seq(LS!CsiBytes),
                 NEW d \in Seq(LS!CsiBytes)
          PROVE  /\ <<a, b, c, d>> \in Seq(Seq(LS!CsiBytes)) /\ Len(<<a, b, c, d>>) = 4
                 /\ <<a, b, c, d>>[1] = a /\ <<a, b, c, d>>[2] = b /\ <<a, b, c, d>>[3] = c
                 /\ <<a, b, c, d>>[4] = d
      OBVIOUS
    <3> QED BY <3>1, <3>2, <3>3, Zenon DEF BlackFields
  <2>16. f[9] = BlackFields
    <3> DEFINE v == f[9]
    <3>1. v \in Seq(Seq(LS!CsiBytes)) /\ Len(v) = 4
      BY <2>14 DEF FieldLists
    <3>2. \A i \in 1..4 : v[i] = BlackFields[i]
      <4>1. \A i \in 1..4 : i = 1 \/ i = 2 \/ i = 3 \/ i = 4
        OBVIOUS
      <4> QED BY <2>14, <2>15, <4>1
    <3> HIDE DEF v
    <3>3. v = BlackFields
      BY <2>15, <3>1, <3>2, SeqEqual
    <3> QED BY <3>3 DEF v
  <2> QED BY <2>1, <2>2, <2>16 DEF w
<1> QED
  BY <1>1, <1>2, <1>3

\* Numbers of one and of two digits.
LEMMA ValueOf ==
    ASSUME NEW a \in DOMAIN LS!Digits, NEW b \in DOMAIN LS!Digits
    PROVE  /\ LS!IsNumber(<<a>>) /\ LS!Value(<<a>>) = LS!Digits[a]
           /\ LS!IsNumber(<<a, b>>) /\ LS!Value(<<a, b>>) = 10 * LS!Digits[a] + LS!Digits[b]
           /\ ~LS!IsNumber(<<>>)
<1>1. LS!Digits[a] \in Nat /\ LS!Digits[b] \in Nat
  BY DEF LS!Digits
<1>2. LS!IsNumber(<<a>>) /\ LS!IsNumber(<<a, b>>) /\ ~LS!IsNumber(<<>>)
  BY DEF LS!IsNumber, LS!Range
<1>3. LS!Value(<<a>>) = LS!Digits[a]
  <2> DEFINE w == <<a>>
  <2>1. w \in Seq(DOMAIN LS!Digits) /\ Len(w) = 1 /\ w[1] = a
    OBVIOUS
  <2> HIDE DEF w
  <2>2. PICK f \in [0..Len(w) -> Nat] :
              /\ f[0] = 0 /\ \A i \in 1..Len(w) : f[i] = 10 * f[i - 1] + LS!Digits[w[i]]
              /\ LS!Value(w) = f[Len(w)]
    BY <2>1, ValueSteps
  <2>3. f[1] = 10 * 0 + LS!Digits[a]
    BY <2>1, <2>2
  <2> QED BY <1>1, <2>1, <2>2, <2>3 DEF w
<1>4. LS!Value(<<a, b>>) = 10 * LS!Digits[a] + LS!Digits[b]
  <2> DEFINE w == <<a, b>>
  <2>1. w \in Seq(DOMAIN LS!Digits) /\ Len(w) = 2 /\ w[1] = a /\ w[2] = b
    OBVIOUS
  <2> HIDE DEF w
  <2>2. PICK f \in [0..Len(w) -> Nat] :
              /\ f[0] = 0 /\ \A i \in 1..Len(w) : f[i] = 10 * f[i - 1] + LS!Digits[w[i]]
              /\ LS!Value(w) = f[Len(w)]
    BY <2>1, ValueSteps
  <2>3. f[1] = 10 * 0 + LS!Digits[a] /\ f[2] = 10 * f[1] + LS!Digits[b]
    BY <2>1, <2>2
  <2>4. f[1] = LS!Digits[a]
    BY <1>1, <2>3
  <2> QED BY <1>1, <2>1, <2>2, <2>3, <2>4 DEF w
<1> QED
  BY <1>2, <1>3, <1>4

\* Their numbers.
LEMMA ParamsOf ==
    /\ LS!nth_param(<<>>, 1, 1) = 1 /\ LS!nth_param(<<>>, 2, 1) = 1
    /\ LS!nth_param(<<"2">>, 1, 1) = 2
<1>1. LS!Fields(<<>>) = <<<<>>>> /\ LS!Fields(<<"2">>) = <<<<"2">>>>
  BY FieldsOf, DigitsAre
<1>2. ~LS!IsNumber(<<>>) /\ LS!IsNumber(<<"2">>) /\ LS!Value(<<"2">>) = 2
  BY ValueOf, DigitsAre
<1>3. /\ 1 \in DOMAIN <<<<>>>> /\ 2 \notin DOMAIN <<<<>>>> /\ <<<<>>>>[1] = <<>>
      /\ 1 \in DOMAIN <<<<"2">>>> /\ <<<<"2">>>>[1] = <<"2">>
  OBVIOUS
<1> QED
  BY <1>1, <1>2, <1>3 DEF LS!nth_param

\* Four elements, and two parts of them.
FourOf(F, a, b, c, d) ==
    /\ Len(F) = 4 /\ F[1] = a /\ F[2] = b /\ F[3] = c /\ F[4] = d
    /\ SubSeq(F, 1, 1) = <<a>> /\ SubSeq(F, 2, 4) = <<b, c, d>>

\* What a sequence of four elements is made of.
LEMMA FourElements ==
    ASSUME NEW a, NEW b, NEW c, NEW d, NEW F, F = <<a, b, c, d>>
    PROVE  FourOf(F, a, b, c, d)
<1> DEFINE S == {a, b, c, d}
           one == <<a>>
           three == <<b, c, d>>
<1>1. /\ F \in Seq(S) /\ Len(F) = 4 /\ F[1] = a /\ F[2] = b /\ F[3] = c
      /\ F[4] = d /\ \A i \in 1..4 : F[i] \in S
  OBVIOUS
<1>2. three \in Seq(S) /\ Len(three) = 3 /\ three[1] = b /\ three[2] = c /\ three[3] = d
  OBVIOUS
<1>3. one \in Seq(S) /\ Len(one) = 1 /\ one[1] = a
  OBVIOUS
<1> HIDE DEF S, one, three
<1>4. SubSeq(F, 1, 1) = one
  <2>1. SubSeq(F, 1, 1) \in Seq(S) /\ Len(SubSeq(F, 1, 1)) = 1 /\ SubSeq(F, 1, 1)[1] = a
    BY <1>1
  <2> QED BY <1>3, <2>1, ShortEqual
<1>5. SubSeq(F, 2, 4) = three
  <2> DEFINE l == SubSeq(F, 2, 4)
  <2>1. l \in Seq(S) /\ Len(l) = 3 /\ \A i \in 1..3 : l[i] = F[2 + i - 1]
    <3>1. \A i \in 2..4 : F[i] \in S
      BY <1>1
    <3> QED BY <3>1, SubSeqProperties
  <2>2. l[1] = F[2] /\ l[2] = F[3] /\ l[3] = F[4]
    <3> HIDE DEF l
    <3> QED BY <2>1
  <2> HIDE DEF l
  <2>3. l = three
    BY <1>1, <1>2, <2>1, <2>2, ShortEqual
  <2> QED BY <2>3 DEF l
<1> QED
  BY <1>1, <1>4, <1>5 DEF one, three, FourOf

\* The attributes that the operations set.
LEMMA SgrOf ==
    ASSUME MaxSgr \in Nat \ {0}, NEW sgr \in LS!Segments
    PROVE  /\ LS!apply_sgr(sgr, <<>>) = <<>>
           /\ LS!apply_sgr(sgr, <<"1">>) = LS!push_sgr(sgr, <<<<"1">>>>)
           /\ LS!apply_sgr(sgr, Black) = LS!push_sgr(LS!push_sgr(sgr, <<<<"3", "5">>>>),
                                                     <<<<"3", "8">>, <<"5">>, <<"0">>>>)
<1> DEFINE t == [sgr |-> sgr, next |-> 1]
<1>1. t.sgr = sgr /\ t.next = 1
  OBVIOUS
<1> HIDE DEF t
<1>2. LS!apply_sgr(sgr, <<>>) = <<>>
  <2> DEFINE F == LS!Fields(<<>>)
  <2>1. F = <<<<>>>> /\ F \in FieldLists /\ Len(F) = 1 /\ F[1] = <<>>
    <3>1. F \in FieldLists
      <4>1. <<>> \in Seq(LS!CsiBytes) /\ 1 \in Nat
        OBVIOUS
      <4> QED BY <4>1, ParamType
    <3> QED BY <3>1, FieldsOf, FewElements
  <2> HIDE DEF F
  <2>2. PICK f : /\ f[0] = [sgr |-> sgr, next |-> 1]
                 /\ \A i \in 1..Len(F) : f[i] = LS!Take(F, f[i - 1], i)
                 /\ LS!apply_sgr(sgr, <<>>) = f[Len(F)].sgr
    BY <2>1, SgrSteps DEF F
  <2>3. f[1] = LS!Take(F, t, 1)
    BY <2>1, <2>2 DEF t
  <2>4. LS!Take(F, t, 1).sgr = <<>>
    <3>1. LS!Take(F, t, 1) = [sgr |-> <<>>, next |-> 1 + 1]
      BY <1>1, <2>1 DEF LS!Take, LS!IsReset
    <3> QED BY <3>1
  <2> QED BY <2>1, <2>2, <2>3, <2>4
<1>3. LS!apply_sgr(sgr, <<"1">>) = LS!push_sgr(sgr, <<<<"1">>>>)
  <2> DEFINE F == LS!Fields(<<"1">>)
  <2>1. F = <<<<"1">>>> /\ F \in FieldLists /\ Len(F) = 1 /\ F[1] = <<"1">>
    <3>1. F \in FieldLists
      <4>1. <<"1">> \in Seq(LS!CsiBytes) /\ 1 \in Nat
        BY DigitsAre DEF LS!CsiBytes
      <4> QED BY <4>1, ParamType
    <3> QED BY <3>1, FieldsOf, DigitsAre, FewElements
  <2> HIDE DEF F
  <2>2. PICK f : /\ f[0] = [sgr |-> sgr, next |-> 1]
                 /\ \A i \in 1..Len(F) : f[i] = LS!Take(F, f[i - 1], i)
                 /\ LS!apply_sgr(sgr, <<"1">>) = f[Len(F)].sgr
    BY <2>1, SgrSteps DEF F
  <2>3. f[1] = LS!Take(F, t, 1)
    BY <2>1, <2>2 DEF t
  <2>4. LS!IsNumber(F[1]) /\ LS!Value(F[1]) = 1 /\ ~LS!IsReset(F[1])
    BY <2>1, ValueOf, DigitsAre DEF LS!IsReset
  <2>5. LS!Segment(F, 1) = 1
    BY <2>4 DEF LS!Segment
  <2>6. SubSeq(F, 1, 1) = <<<<"1">>>>
    BY <2>1, FewElements
  <2>7. LS!Take(F, t, 1).sgr = LS!push_sgr(sgr, <<<<"1">>>>)
    <3>1. LS!Take(F, t, 1) = [sgr |-> LS!push_sgr(t.sgr, SubSeq(F, 1, 1 + LS!Segment(F, 1) - 1)),
                              next |-> 1 + LS!Segment(F, 1)]
      BY <1>1, <2>4 DEF LS!Take
    <3>2. 1 + LS!Segment(F, 1) - 1 = 1
      BY <2>5
    <3>3. LS!Take(F, t, 1).sgr = LS!push_sgr(t.sgr, SubSeq(F, 1, 1 + LS!Segment(F, 1) - 1))
      BY <3>1
    <3>4. LS!push_sgr(t.sgr, SubSeq(F, 1, 1 + LS!Segment(F, 1) - 1)) = LS!push_sgr(sgr, <<<<"1">>>>)
      BY <1>1, <2>6, <3>2
    <3> QED BY <3>3, <3>4, Zenon
  <2> QED BY <2>1, <2>2, <2>3, <2>7
<1>4. LS!apply_sgr(sgr, Black) = LS!push_sgr(LS!push_sgr(sgr, <<<<"3", "5">>>>),
                                             <<<<"3", "8">>, <<"5">>, <<"0">>>>)
  <2> DEFINE F == LS!Fields(Black)
             one == LS!push_sgr(sgr, <<<<"3", "5">>>>)
             two == LS!push_sgr(one, <<<<"3", "8">>, <<"5">>, <<"0">>>>)
  <2>1. F = BlackFields
    BY FieldsOf
  <2>15. /\ Len(BlackFields) = 4 /\ BlackFields[1] = <<"3", "5">>
         /\ BlackFields[2] = <<"3", "8">> /\ BlackFields[3] = <<"5">>
         /\ SubSeq(BlackFields, 1, 1) = <<<<"3", "5">>>>
         /\ SubSeq(BlackFields, 2, 4) = <<<<"3", "8">>, <<"5">>, <<"0">>>>
    <3> DEFINE a == <<"3", "5">>
               b == <<"3", "8">>
               c == <<"5">>
               d == <<"0">>
    <3>1. BlackFields = <<a, b, c, d>>
      BY DEF BlackFields
    <3> HIDE DEF a, b, c, d
    <3>2. FourOf(BlackFields, a, b, c, d)
      BY <3>1, FourElements
    <3>3. /\ Len(BlackFields) = 4 /\ BlackFields[1] = a /\ BlackFields[2] = b
          /\ BlackFields[3] = c /\ SubSeq(BlackFields, 1, 1) = <<a>>
          /\ SubSeq(BlackFields, 2, 4) = <<b, c, d>>
      BY <3>2 DEF FourOf
    <3> QED BY <3>3 DEF a, b, c, d
  <2>2. Len(F) = 4 /\ F[1] = <<"3", "5">> /\ F[2] = <<"3", "8">> /\ F[3] = <<"5">>
    BY <2>1, <2>15, Zenon
  <2>3. F \in FieldLists
    <3>1. /\ {"3", "5", "8", "0"} \subseteq LS!CsiBytes
      BY DigitsAre DEF LS!CsiBytes
    <3>2. /\ <<"3", "5">> \in Seq(LS!CsiBytes) /\ <<"3", "8">> \in Seq(LS!CsiBytes)
          /\ <<"5">> \in Seq(LS!CsiBytes) /\ <<"0">> \in Seq(LS!CsiBytes)
      BY <3>1
    <3>3. BlackFields \in Seq(Seq(LS!CsiBytes)) /\ BlackFields # <<>>
      BY <3>2 DEF BlackFields
    <3> QED BY <2>1, <3>3 DEF FieldLists
  <2> HIDE DEF F, one, two
  <2>4. PICK f : /\ f[0] = [sgr |-> sgr, next |-> 1]
                 /\ \A i \in 1..Len(F) : f[i] = LS!Take(F, f[i - 1], i)
                 /\ LS!apply_sgr(sgr, Black) = f[Len(F)].sgr
    BY <2>3, SgrSteps DEF F
  <2>5. /\ f[1] = LS!Take(F, t, 1) /\ f[2] = LS!Take(F, f[1], 2) /\ f[3] = LS!Take(F, f[2], 3)
        /\ f[4] = LS!Take(F, f[3], 4)
    BY <2>2, <2>4 DEF t
  <2>6. /\ LS!IsNumber(F[1]) /\ LS!Value(F[1]) = 35 /\ ~LS!IsReset(F[1])
        /\ LS!IsNumber(F[2]) /\ LS!Value(F[2]) = 38 /\ ~LS!IsReset(F[2])
    <3>1. /\ LS!IsNumber(<<"3", "5">>)
          /\ LS!Value(<<"3", "5">>) = 10 * LS!Digits["3"] + LS!Digits["5"]
          /\ LS!IsNumber(<<"3", "8">>)
          /\ LS!Value(<<"3", "8">>) = 10 * LS!Digits["3"] + LS!Digits["8"]
      BY ValueOf, DigitsAre
    <3>2. LS!Value(F[1]) = 35 /\ LS!Value(F[2]) = 38
      BY <2>2, <3>1, DigitsAre
    <3>3. F[1] # <<>> /\ F[2] # <<>>
      BY <2>2, FewElements
    <3> QED BY <2>2, <3>1, <3>2, <3>3 DEF LS!IsReset
  <2>7. LS!Segment(F, 1) = 1
    BY <2>6 DEF LS!Segment
  <2>8. LS!Segment(F, 2) = 3
    <3>1. 2 < Len(F) /\ 2 # Len(F) /\ F[2 + 1] = <<"5">> /\ F[2 + 1] # <<"2">>
      BY <2>2
    <3>2. LS!Min({3, 4 - 2 + 1}) = 3
      BY PairMin
    <3> QED BY <2>2, <2>6, <3>1, <3>2 DEF LS!Segment
  <2>9. SubSeq(F, 1, 1) = <<<<"3", "5">>>>
    BY <2>1, <2>15, Zenon
  <2>10. SubSeq(F, 2, 4) = <<<<"3", "8">>, <<"5">>, <<"0">>>>
    BY <2>1, <2>15, Zenon
  <2>11. LS!Take(F, t, 1) = [sgr |-> one, next |-> 2]
    <3>1. LS!Take(F, t, 1) = [sgr |-> LS!push_sgr(t.sgr, SubSeq(F, 1, 1 + LS!Segment(F, 1) - 1)),
                              next |-> 1 + LS!Segment(F, 1)]
      BY <1>1, <2>6 DEF LS!Take
    <3>2. 1 + LS!Segment(F, 1) - 1 = 1 /\ 1 + LS!Segment(F, 1) = 2
      BY <2>7
    <3> QED BY <1>1, <2>9, <3>1, <3>2, Zenon DEF one
  <2>12. LS!Take(F, [sgr |-> one, next |-> 2], 2) = [sgr |-> two, next |-> 5]
    <3> DEFINE u == [sgr |-> one, next |-> 2]
    <3>1. u.sgr = one /\ u.next = 2
      OBVIOUS
    <3> HIDE DEF u
    <3>2. LS!Take(F, u, 2) = [sgr |-> LS!push_sgr(u.sgr, SubSeq(F, 2, 2 + LS!Segment(F, 2) - 1)),
                              next |-> 2 + LS!Segment(F, 2)]
      BY <3>1, <2>6 DEF LS!Take
    <3>3. 2 + LS!Segment(F, 2) - 1 = 4 /\ 2 + LS!Segment(F, 2) = 5
      BY <2>8
    <3>4. LS!Take(F, u, 2) = [sgr |-> two, next |-> 5]
      BY <2>10, <3>1, <3>2, <3>3, Zenon DEF two
    <3> QED BY <3>4 DEF u
  <2>13. \A i \in {3, 4} : LS!Take(F, [sgr |-> two, next |-> 5], i) = [sgr |-> two, next |-> 5]
    BY DEF LS!Take
  <2>14. f[4] = [sgr |-> two, next |-> 5]
    BY <2>5, <2>11, <2>12, <2>13
  <2> QED BY <2>2, <2>4, <2>14 DEF one, two
<1> QED
  BY <1>2, <1>3, <1>4

\* The column after a character of width w.
Advanced(col, autowrap, w) ==
    IF autowrap
    THEN LET from == IF col + w > Cols THEN 0 ELSE col
         IN  IF from + w <= Cols THEN from + w ELSE Cols
    ELSE IF col + w <= Cols - 1 THEN col + w ELSE Cols - 1

\* One field of the shadow changes, and it reads on from the ground.
LEMMA OneChange ==
    ASSUME NEW t \in LS!Shadows, t.utf8 = 0
    PROVE  /\ \A c \in Nat : After([[t EXCEPT !.col = c] EXCEPT !.state = "Ground"],
                                   c, t.autowrap, t.sgr, t.saved)
           /\ \A x \in BOOLEAN : After([[t EXCEPT !.autowrap = x] EXCEPT !.state = "Ground"],
                                       t.col, x, t.sgr, t.saved)
           /\ \A x \in LS!Segments : After([[t EXCEPT !.sgr = x] EXCEPT !.state = "Ground"],
                                           t.col, t.autowrap, x, t.saved)
           /\ After([t EXCEPT !.state = "Ground"], t.col, t.autowrap, t.sgr, t.saved)
  BY DEF LS!Shadows, After, Between

\* Parameters that are neither private nor hold an intermediate byte.
LEMMA PlainParameters ==
    /\ \A p \in {<<>>, <<"1">>, <<"2">>, Black} :
          /\ p \in Seq(LS!CsiBytes) /\ Len(p) <= 9
          /\ "$" \notin LS!Range(p) /\ ~LS!IsPrefix(<<"?">>, p)
    /\ LET p == <<"?", "7">>
       IN  /\ p \in Seq(LS!CsiBytes) /\ Len(p) = 2 /\ "$" \notin LS!Range(p)
           /\ LS!IsPrefix(<<"?">>, p) /\ Tail(p) = <<"7">>
<1>1. {"?", "0", "1", "2", "3", "5", "7", "8", "sep"} \subseteq LS!CsiBytes
  BY DigitsAre DEF LS!CsiBytes
<1>2. ASSUME NEW p \in Seq(LS!CsiBytes), Len(p) >= 1 => p[1] # "?"
      PROVE  ~LS!IsPrefix(<<"?">>, p)
  <2>1. SUFFICES ASSUME Len(p) >= 1, SubSeq(<<"?">>, 1, 1) = SubSeq(p, 1, 1) PROVE FALSE
    BY DEF LS!IsPrefix
  <2>2. SubSeq(p, 1, 1)[1] = p[1]
    BY <2>1
  <2>3. SubSeq(<<"?">>, 1, 1)[1] = "?"
    BY FewElements
  <2> QED BY <1>2, <2>1, <2>2, <2>3
<1>3. /\ <<>> \in Seq(LS!CsiBytes) /\ Len(<<>>) = 0 /\ "$" \notin LS!Range(<<>>)
  BY DEF LS!Range
<1>4. ASSUME NEW a \in {"1", "2"}
      PROVE  <<a>> \in Seq(LS!CsiBytes) /\ Len(<<a>>) = 1 /\ "$" \notin LS!Range(<<a>>)
             /\ <<a>>[1] # "?"
  BY <1>1 DEF LS!Range
<1>5. /\ Black \in Seq(LS!CsiBytes) /\ Len(Black) = 9 /\ "$" \notin LS!Range(Black)
      /\ Black[1] # "?"
  BY <1>1 DEF LS!Range, Black
<1>6. \A p \in {<<>>, <<"1">>, <<"2">>, Black} :
          /\ p \in Seq(LS!CsiBytes) /\ Len(p) <= 9
          /\ "$" \notin LS!Range(p) /\ ~LS!IsPrefix(<<"?">>, p)
  <2> DEFINE Ok(p) == /\ p \in Seq(LS!CsiBytes) /\ Len(p) <= 9
                      /\ "$" \notin LS!Range(p) /\ ~LS!IsPrefix(<<"?">>, p)
  <2>1. Ok(<<>>)
    <3> DEFINE q == <<>>
    <3>1. q \in Seq(LS!CsiBytes) /\ Len(q) = 0 /\ "$" \notin LS!Range(q)
      BY <1>3
    <3> HIDE DEF q
    <3>3. ~LS!IsPrefix(<<"?">>, q)
      <4>1. Len(q) >= 1 => q[1] # "?"
        BY <3>1
      <4> QED BY <1>2, <3>1, <4>1
    <3>2. Ok(q)
      BY <3>1, <3>3
    <3> QED BY <3>2 DEF q
  <2>2. ASSUME NEW a \in {"1", "2"} PROVE Ok(<<a>>)
    <3> DEFINE q == <<a>>
    <3>1. q \in Seq(LS!CsiBytes) /\ Len(q) = 1 /\ "$" \notin LS!Range(q) /\ q[1] # "?"
      BY <1>4
    <3> HIDE DEF q
    <3>2. Ok(q)
      BY <1>2, <3>1
    <3> QED BY <3>2 DEF q
  <2>3. Ok(Black)
    BY <1>2, <1>5
  <2>4. Ok(<<"1">>) /\ Ok(<<"2">>)
    <3> HIDE DEF Ok
    <3> QED BY <2>2
  <2>5. \A p \in {<<>>, <<"1">>, <<"2">>, Black} : Ok(p)
    <3> HIDE DEF Ok
    <3> QED BY <2>1, <2>3, <2>4, Zenon
  <2> QED BY <2>5
<1> DEFINE p == <<"?", "7">>
<1>7. p \in Seq(LS!CsiBytes) /\ Len(p) = 2 /\ p[1] = "?" /\ p[2] = "7" /\ "$" \notin LS!Range(p)
  BY <1>1 DEF LS!Range
<1>8. Tail(p) = <<"7">>
  <2>1. Tail(p) \in Seq(LS!CsiBytes) /\ Len(Tail(p)) = 1 /\ Tail(p)[1] = "7"
    <3>1. p \in Seq(LS!CsiBytes) /\ Len(p) = 2 /\ p[2] = "7" /\ p # <<>>
      BY <1>7
    <3> HIDE DEF p
    <3>2. /\ Tail(p) \in Seq(LS!CsiBytes) /\ Len(Tail(p)) = Len(p) - 1
          /\ \A i \in 1..Len(Tail(p)) : Tail(p)[i] = p[i + 1]
      BY <3>1, HeadTailProperties
    <3> DEFINE q == Tail(p)
    <3>3. q \in Seq(LS!CsiBytes) /\ Len(q) = 1 /\ \A i \in 1..1 : q[i] = p[i + 1]
      <4>1. Len(p) - 1 = 1
        BY <3>1
      <4> QED BY <3>2, <4>1
    <3> HIDE DEF q
    <3>4. q[1] = "7"
      <4>1. 1 \in 1..1 /\ 1 + 1 = 2
        OBVIOUS
      <4> QED BY <3>3, <3>1, <4>1
    <3> QED BY <3>3, <3>4 DEF q
  <2>2. <<"7">> \in Seq(LS!CsiBytes) /\ Len(<<"7">>) = 1 /\ <<"7">>[1] = "7"
    BY <1>1
  <2> QED BY <2>1, <2>2, ShortEqual
<1>9. LS!IsPrefix(<<"?">>, p)
  <2>1. SubSeq(<<"?">>, 1, 1) = <<"?">> /\ Len(<<"?">>) = 1
    BY FewElements
  <2>2. SubSeq(p, 1, 1) = <<"?">>
    <3>1. SubSeq(p, 1, 1) \in Seq(LS!CsiBytes) /\ Len(SubSeq(p, 1, 1)) = 1
          /\ SubSeq(p, 1, 1)[1] = "?"
      <4> HIDE DEF p
      <4> QED BY <1>7
    <3>2. <<"?">> \in Seq(LS!CsiBytes) /\ Len(<<"?">>) = 1 /\ <<"?">>[1] = "?"
      BY <1>1
    <3> QED BY <3>1, <3>2, ShortEqual
  <2> HIDE DEF p
  <2>3. SubSeq(<<"?">>, 1, Len(<<"?">>)) = SubSeq(p, 1, Len(<<"?">>)) /\ Len(<<"?">>) <= Len(p)
    BY <1>7, <2>1, <2>2
  <2> QED BY <2>3 DEF LS!IsPrefix
<1> QED
  BY <1>6, <1>7, <1>8, <1>9

-----------------------------------------------------------------------------
(* The line shadow: what each sequence does *)

\* What each of the sequences makes of the shadow.
LEMMA CsiEffects ==
    ASSUME Cols \in Nat \ {0}, MaxSgr \in Nat \ {0}, MaxCsi \in Nat, MaxCsi >= 9,
           NEW s \in LS!Shadows, Between(s)
    PROVE  /\ After(LS!scan(s, LS!Csi(<<>>, "m")), s.col, s.autowrap, <<>>, s.saved)
           /\ After(LS!scan(s, LS!Csi(<<"1">>, "m")),
                    s.col, s.autowrap, LS!push_sgr(s.sgr, <<<<"1">>>>), s.saved)
           /\ After(LS!scan(s, LS!Csi(Black, "m")), s.col, s.autowrap,
                    LS!push_sgr(LS!push_sgr(s.sgr, <<<<"3", "5">>>>),
                                <<<<"3", "8">>, <<"5">>, <<"0">>>>), s.saved)
           /\ After(LS!scan(s, LS!Csi(<<"2">>, "G")), LS!Clamp(1), s.autowrap, s.sgr, s.saved)
           /\ After(LS!scan(s, LS!Csi(<<"2">>, "C")), LS!Clamp(s.col + 2), s.autowrap, s.sgr, s.saved)
           /\ After(LS!scan(s, LS!Csi(<<>>, "D")), LS!Back(s.col, 1), s.autowrap, s.sgr, s.saved)
           /\ After(LS!scan(s, LS!Csi(<<>>, "H")), LS!Clamp(0), s.autowrap, s.sgr, s.saved)
           /\ After(LS!scan(s, LS!Csi(<<"?", "7">>, "h")), s.col, TRUE, s.sgr, s.saved)
           /\ After(LS!scan(s, LS!Csi(<<"?", "7">>, "l")), s.col, FALSE, s.sgr, s.saved)
<1> DEFINE t(p) == [Inside(s, p) EXCEPT !.csi = <<>>]
<1>1. ASSUME NEW p \in Seq(LS!CsiBytes)
      PROVE  /\ t(p) \in LS!Shadows /\ t(p).utf8 = 0 /\ t(p).col = s.col
             /\ t(p).autowrap = s.autowrap /\ t(p).sgr = s.sgr /\ t(p).saved = s.saved
             /\ Inside(s, p) \in LS!Shadows /\ Inside(s, p).csi = p
  <2>1. <<>> \in Seq(LS!CsiBytes)
    OBVIOUS
  <2> DEFINE e == <<>>
  <2> HIDE DEF e
  <2>2. /\ [Inside(s, p) EXCEPT !.csi = e] \in LS!Shadows
        /\ LET r == [Inside(s, p) EXCEPT !.csi = e]
           IN  /\ r.utf8 = 0 /\ r.col = s.col
               /\ r.autowrap = s.autowrap /\ r.sgr = s.sgr /\ r.saved = s.saved
        /\ Inside(s, p) \in LS!Shadows /\ Inside(s, p).csi = p
    BY <2>1 DEF Inside, LS!Shadows, Between, e
  <2> QED BY <2>2 DEF e
<1>2. ASSUME NEW p \in Seq(LS!CsiBytes), Len(p) <= 9, NEW final \in LS!Finals
      PROVE  LS!scan(s, LS!Csi(p, final))
                = [LS!csi_dispatch(Inside(s, p), final) EXCEPT !.state = "Ground"]
  <2>1. Len(p) <= MaxCsi
    BY <1>2
  <2> QED BY <2>1, ReadCsi
<1>3. {"m", "G", "C", "D", "H", "h", "l"} \subseteq LS!Finals
  BY DEF LS!Finals
<1>4. s.col \in Nat /\ s.autowrap \in BOOLEAN /\ s.sgr \in LS!Segments
  BY ShadowFields
<1> HIDE DEF t
<1>5. ASSUME NEW p \in {<<>>, <<"1">>, <<"2">>, Black}, NEW final \in {"m", "G", "C", "D", "H"}
      PROVE  /\ LS!scan(s, LS!Csi(p, final))
                  = [LS!csi_dispatch(Inside(s, p), final) EXCEPT !.state = "Ground"]
             /\ LS!csi_dispatch(Inside(s, p), final) =
                  CASE final = "m" -> [t(p) EXCEPT !.sgr = LS!apply_sgr(@, p)]
                    [] final = "G" -> [t(p) EXCEPT !.col = LS!Clamp(LS!Back(LS!nth_param(p, 1, 1), 1))]
                    [] final = "C" -> [t(p) EXCEPT !.col = LS!Clamp(@ + LS!Max({1, LS!nth_param(p, 1, 1)}))]
                    [] final = "D" -> [t(p) EXCEPT !.col = LS!Back(@, LS!Max({1, LS!nth_param(p, 1, 1)}))]
                    [] final = "H" -> [t(p) EXCEPT !.col = LS!Clamp(LS!Back(LS!nth_param(p, 2, 1), 1))]
                    [] final = "E" -> [t(p) EXCEPT !.col = 0]
                    [] OTHER -> t(p)
  <2>1. /\ p \in Seq(LS!CsiBytes) /\ Len(p) <= 9
        /\ "$" \notin LS!Range(p) /\ ~LS!IsPrefix(<<"?">>, p)
    BY PlainParameters
  <2>2. Inside(s, p).csi = p
    BY <1>1, <2>1
  <2>3. final \in LS!Finals
    BY <1>3
  <2> QED BY <1>2, <2>1, <2>2, <2>3 DEF LS!csi_dispatch, t
<1>6. /\ <<>> \in {<<>>, <<"1">>, <<"2">>, Black} /\ <<"1">> \in {<<>>, <<"1">>, <<"2">>, Black}
      /\ <<"2">> \in {<<>>, <<"1">>, <<"2">>, Black} /\ Black \in {<<>>, <<"1">>, <<"2">>, Black}
  BY Zenon
<1>7. /\ <<>> \in Seq(LS!CsiBytes) /\ <<"1">> \in Seq(LS!CsiBytes) /\ <<"2">> \in Seq(LS!CsiBytes)
      /\ Black \in Seq(LS!CsiBytes)
  BY <1>6, PlainParameters, Zenon
\* The attributes.
<1>8. ASSUME NEW p \in {<<>>, <<"1">>, <<"2">>, Black}, LS!apply_sgr(s.sgr, p) \in LS!Segments
      PROVE  After(LS!scan(s, LS!Csi(p, "m")), s.col, s.autowrap, LS!apply_sgr(s.sgr, p), s.saved)
  <2>1. LS!csi_dispatch(Inside(s, p), "m") = [t(p) EXCEPT !.sgr = LS!apply_sgr(@, p)]
    BY <1>5
  <2>2. LS!scan(s, LS!Csi(p, "m")) = [LS!csi_dispatch(Inside(s, p), "m") EXCEPT !.state = "Ground"]
    BY <1>5
  <2>3. p \in Seq(LS!CsiBytes)
    BY PlainParameters
  <2> DEFINE u == t(p)
             x == LS!apply_sgr(s.sgr, p)
  <2>4. /\ u \in LS!Shadows /\ u.utf8 = 0 /\ u.col = s.col
        /\ u.autowrap = s.autowrap /\ u.sgr = s.sgr /\ u.saved = s.saved
    BY <1>1, <2>3
  <2>5. LS!csi_dispatch(Inside(s, p), "m") = [u EXCEPT !.sgr = x]
    BY <2>1, <2>4
  <2> HIDE DEF u, x
  <2>6. x \in LS!Segments
    BY <1>8 DEF x
  <2>7. After([[u EXCEPT !.sgr = x] EXCEPT !.state = "Ground"], u.col, u.autowrap, x, u.saved)
    BY <2>4, <2>6, OneChange
  <2> QED BY <2>2, <2>4, <2>5, <2>7 DEF x
\* The columns.
<1>9. ASSUME NEW p \in {<<>>, <<"1">>, <<"2">>, Black}, NEW final \in {"G", "C", "D", "H"}, NEW c \in Nat,
             LS!csi_dispatch(Inside(s, p), final) = [t(p) EXCEPT !.col = c]
      PROVE  After(LS!scan(s, LS!Csi(p, final)), c, s.autowrap, s.sgr, s.saved)
  <2>2. LS!scan(s, LS!Csi(p, final)) = [LS!csi_dispatch(Inside(s, p), final) EXCEPT !.state = "Ground"]
    BY <1>5
  <2>3. p \in Seq(LS!CsiBytes)
    BY PlainParameters
  <2> DEFINE u == t(p)
  <2>4. /\ u \in LS!Shadows /\ u.utf8 = 0 /\ u.col = s.col
        /\ u.autowrap = s.autowrap /\ u.sgr = s.sgr /\ u.saved = s.saved
    BY <1>1, <2>3
  <2>5. LS!csi_dispatch(Inside(s, p), final) = [u EXCEPT !.col = c]
    BY <1>9
  <2> HIDE DEF u
  <2>7. After([[u EXCEPT !.col = c] EXCEPT !.state = "Ground"], c, u.autowrap, u.sgr, u.saved)
    BY <2>4, OneChange
  <2> QED BY <2>2, <2>4, <2>5, <2>7
<1>10. After(LS!scan(s, LS!Csi(<<>>, "m")), s.col, s.autowrap, <<>>, s.saved)
  <2>1. LS!apply_sgr(s.sgr, <<>>) = <<>>
    BY <1>4, SgrOf
  <2>2. <<>> \in LS!Segments
    BY DEF LS!Segments
  <2>3. LS!apply_sgr(s.sgr, <<>>) \in LS!Segments
    BY <2>1, <2>2
  <2>4. After(LS!scan(s, LS!Csi(<<>>, "m")), s.col, s.autowrap, LS!apply_sgr(s.sgr, <<>>), s.saved)
    BY <1>6, <1>8, <2>3
  <2> QED BY <2>1, <2>4
<1>11. After(LS!scan(s, LS!Csi(<<"1">>, "m")), s.col, s.autowrap, LS!push_sgr(s.sgr, <<<<"1">>>>), s.saved)
  <2>1. LS!apply_sgr(s.sgr, <<"1">>) = LS!push_sgr(s.sgr, <<<<"1">>>>)
    BY <1>4, SgrOf
  <2>2. LS!push_sgr(s.sgr, <<<<"1">>>>) \in LS!Segments
    <3>1. <<<<"1">>>> \in Seq(Seq(LS!CsiBytes))
      BY <1>7
    <3> QED BY <1>4, <3>1, PushSgrType
  <2>3. LS!apply_sgr(s.sgr, <<"1">>) \in LS!Segments
    BY <2>1, <2>2
  <2>4. After(LS!scan(s, LS!Csi(<<"1">>, "m")), s.col, s.autowrap, LS!apply_sgr(s.sgr, <<"1">>), s.saved)
    BY <1>6, <1>8, <2>3
  <2> QED BY <2>1, <2>4
<1>12. After(LS!scan(s, LS!Csi(Black, "m")), s.col, s.autowrap,
             LS!push_sgr(LS!push_sgr(s.sgr, <<<<"3", "5">>>>), <<<<"3", "8">>, <<"5">>, <<"0">>>>), s.saved)
  <2> DEFINE one == LS!push_sgr(s.sgr, <<<<"3", "5">>>>)
             two == LS!push_sgr(one, <<<<"3", "8">>, <<"5">>, <<"0">>>>)
  <2>1. LS!apply_sgr(s.sgr, Black) = two
    BY <1>4, SgrOf
  <2>2. one \in LS!Segments
    <3>1. <<<<"3", "5">>>> \in Seq(Seq(LS!CsiBytes))
      BY DigitsAre DEF LS!CsiBytes
    <3> QED BY <1>4, <3>1, PushSgrType
  <2>3. two \in LS!Segments
    <3>1. <<<<"3", "8">>, <<"5">>, <<"0">>>> \in Seq(Seq(LS!CsiBytes))
      BY DigitsAre DEF LS!CsiBytes
    <3> HIDE DEF one
    <3> QED BY <2>2, <3>1, PushSgrType
  <2> HIDE DEF one, two
  <2>4. After(LS!scan(s, LS!Csi(Black, "m")), s.col, s.autowrap, LS!apply_sgr(s.sgr, Black), s.saved)
    BY <1>6, <1>8, <2>1, <2>3
  <2>5. After(LS!scan(s, LS!Csi(Black, "m")), s.col, s.autowrap, two, s.saved)
    BY <2>1, <2>4
  <2> QED BY <2>5 DEF one, two
<1>13. After(LS!scan(s, LS!Csi(<<"2">>, "G")), LS!Clamp(1), s.autowrap, s.sgr, s.saved)
  <2>1. LS!csi_dispatch(Inside(s, <<"2">>), "G") = [t(<<"2">>) EXCEPT !.col = LS!Clamp(LS!Back(2, 1))]
    <3>1. LS!csi_dispatch(Inside(s, <<"2">>), "G")
             = [t(<<"2">>) EXCEPT !.col = LS!Clamp(LS!Back(LS!nth_param(<<"2">>, 1, 1), 1))]
      BY <1>5, <1>6
    <3> QED BY <3>1, ParamsOf
  <2>2. LS!Back(2, 1) = 1 /\ LS!Clamp(1) \in Nat
    BY ColumnType
  <2> QED BY <1>6, <1>9, <2>1, <2>2
<1>14. After(LS!scan(s, LS!Csi(<<"2">>, "C")), LS!Clamp(s.col + 2), s.autowrap, s.sgr, s.saved)
  <2>1. LS!csi_dispatch(Inside(s, <<"2">>), "C") = [t(<<"2">>) EXCEPT !.col = LS!Clamp(s.col + 2)]
    <3>1. LS!csi_dispatch(Inside(s, <<"2">>), "C")
             = [t(<<"2">>) EXCEPT !.col = LS!Clamp(@ + LS!Max({1, LS!nth_param(<<"2">>, 1, 1)}))]
      BY <1>5, <1>6
    <3>2. LS!Max({1, LS!nth_param(<<"2">>, 1, 1)}) = 2
      <4>1. LS!nth_param(<<"2">>, 1, 1) = 2
        BY ParamsOf
      <4>2. LS!Max({1, 2}) = 2
        BY PairMin
      <4> QED BY <4>1, <4>2
    <3>3. t(<<"2">>).col = s.col
      BY <1>1, <1>7
    <3> QED BY <3>1, <3>2, <3>3
  <2>2. LS!Clamp(s.col + 2) \in Nat
    BY <1>4, ColumnType
  <2> QED BY <1>6, <1>9, <2>1, <2>2
<1>15. After(LS!scan(s, LS!Csi(<<>>, "D")), LS!Back(s.col, 1), s.autowrap, s.sgr, s.saved)
  <2>1. LS!csi_dispatch(Inside(s, <<>>), "D") = [t(<<>>) EXCEPT !.col = LS!Back(s.col, 1)]
    <3>1. LS!csi_dispatch(Inside(s, <<>>), "D")
             = [t(<<>>) EXCEPT !.col = LS!Back(@, LS!Max({1, LS!nth_param(<<>>, 1, 1)}))]
      BY <1>5, <1>6
    <3>2. LS!Max({1, LS!nth_param(<<>>, 1, 1)}) = 1
      <4>1. LS!nth_param(<<>>, 1, 1) = 1
        BY ParamsOf
      <4>2. LS!Max({1, 1}) = 1
        BY PairMin
      <4> QED BY <4>1, <4>2
    <3>3. t(<<>>).col = s.col
      BY <1>1, <1>7
    <3> QED BY <3>1, <3>2, <3>3
  <2>2. LS!Back(s.col, 1) \in Nat
    BY <1>4, ColumnType
  <2> QED BY <1>6, <1>9, <2>1, <2>2
<1>16. After(LS!scan(s, LS!Csi(<<>>, "H")), LS!Clamp(0), s.autowrap, s.sgr, s.saved)
  <2>1. LS!csi_dispatch(Inside(s, <<>>), "H") = [t(<<>>) EXCEPT !.col = LS!Clamp(LS!Back(1, 1))]
    <3>1. LS!csi_dispatch(Inside(s, <<>>), "H")
             = [t(<<>>) EXCEPT !.col = LS!Clamp(LS!Back(LS!nth_param(<<>>, 2, 1), 1))]
      BY <1>5, <1>6
    <3> QED BY <3>1, ParamsOf
  <2>2. LS!Back(1, 1) = 0 /\ LS!Clamp(0) \in Nat
    BY ColumnType
  <2> QED BY <1>6, <1>9, <2>1, <2>2
\* The wrap at the margin.
<1>17. ASSUME NEW final \in {"h", "l"}
       PROVE  After(LS!scan(s, LS!Csi(<<"?", "7">>, final)), s.col, final = "h", s.sgr, s.saved)
  <2> DEFINE p == <<"?", "7">>
             u == t(p)
             x == (final = "h")
  <2>1. /\ p \in Seq(LS!CsiBytes) /\ Len(p) <= 9 /\ "$" \notin LS!Range(p)
        /\ LS!IsPrefix(<<"?">>, p) /\ Tail(p) = <<"7">>
    BY PlainParameters
  <2>2. <<"7">> \in LS!Range(LS!Fields(Tail(p)))
    <3>1. LS!Fields(Tail(p)) = <<<<"7">>>>
      BY <2>1, FieldsOf, DigitsAre
    <3>2. <<"7">> \in LS!Range(<<<<"7">>>>)
      BY DEF LS!Range
    <3> QED BY <3>1, <3>2
  <2>3. final \in LS!Finals
    BY <1>3
  <2>4. LS!scan(s, LS!Csi(p, final)) = [LS!csi_dispatch(Inside(s, p), final) EXCEPT !.state = "Ground"]
    <3> HIDE DEF p
    <3> QED BY <1>2, <2>1, <2>3
  <2>5. /\ u \in LS!Shadows /\ u.utf8 = 0 /\ u.col = s.col /\ Inside(s, p).csi = p
        /\ u.autowrap = s.autowrap /\ u.sgr = s.sgr /\ u.saved = s.saved
    <3> HIDE DEF p
    <3> QED BY <1>1, <2>1
  <2>6. LS!csi_dispatch(Inside(s, p), final) = [u EXCEPT !.autowrap = x]
    <3> HIDE DEF p
    <3> QED BY <2>1, <2>2, <2>5 DEF LS!csi_dispatch, t
  <2> HIDE DEF u, x, p
  <2>7. x \in BOOLEAN
    BY DEF x
  <2>8. After([[u EXCEPT !.autowrap = x] EXCEPT !.state = "Ground"], u.col, x, u.sgr, u.saved)
    BY <2>5, <2>7, OneChange
  <2>9. After(LS!scan(s, LS!Csi(p, final)), s.col, x, s.sgr, s.saved)
    BY <2>4, <2>5, <2>6, <2>8
  <2> QED BY <2>9 DEF p, x
<1>18. /\ After(LS!scan(s, LS!Csi(<<"?", "7">>, "h")), s.col, TRUE, s.sgr, s.saved)
       /\ After(LS!scan(s, LS!Csi(<<"?", "7">>, "l")), s.col, FALSE, s.sgr, s.saved)
  <2>1. ("h" = "h") = TRUE /\ ("l" = "h") = FALSE
    OBVIOUS
  <2>2. /\ After(LS!scan(s, LS!Csi(<<"?", "7">>, "h")), s.col, "h" = "h", s.sgr, s.saved)
        /\ After(LS!scan(s, LS!Csi(<<"?", "7">>, "l")), s.col, "l" = "h", s.sgr, s.saved)
    BY <1>17
  <2> QED BY <2>1, <2>2, Zenon
<1> QED
  BY <1>10, <1>11, <1>12, <1>13, <1>14, <1>15, <1>16, <1>18

\* What a byte in the ground makes of the shadow, but for an ESC and the lead
\* of a wide character.
LEMMA GroundEffects ==
    ASSUME Cols \in Nat \ {0}, NEW s \in LS!Shadows, Between(s)
    PROVE  /\ After(LS!step(s, "cr"), 0, s.autowrap, s.sgr, s.saved)
           /\ After(LS!step(s, "bs"), LS!Back(s.col, 1), s.autowrap, s.sgr, s.saved)
           /\ After(LS!step(s, "tab"), LS!Clamp((s.col \div 8) * 8 + 8), s.autowrap, s.sgr, s.saved)
           /\ After(LS!step(s, "lf"), s.col, s.autowrap, s.sgr, s.saved)
           /\ \A b : b \notin LS!Controls \cup {"u"} =>
                 After(LS!step(s, b), Advanced(s.col, s.autowrap, 1), s.autowrap, s.sgr, s.saved)
           /\ \A b : b \notin {"esc", "u"} =>
                 \E c \in Nat : /\ After(LS!step(s, b), c, s.autowrap, s.sgr, s.saved)
                                /\ s.col <= Cols => c <= Cols
<1>1. [s EXCEPT !.utf8 = 0] = s
  BY DEF Between, LS!Shadows
<1>2. \A b : LS!step(s, b) = LS!ground(s, b)
  BY DEF LS!step, Between
<1>3. s.col \in Nat /\ s.autowrap \in BOOLEAN /\ s.utf8 = 0 /\ s.state = "Ground"
  BY ShadowFields DEF Between
<1>4. ASSUME NEW c \in Nat PROVE After([s EXCEPT !.col = c], c, s.autowrap, s.sgr, s.saved)
  BY <1>3 DEF After, Between, LS!Shadows
<1>5. After(LS!step(s, "cr"), 0, s.autowrap, s.sgr, s.saved)
  <2>1. LS!ground(s, "cr") = [s EXCEPT !.col = 0]
    BY <1>1 DEF LS!ground
  <2> QED BY <1>2, <1>4, <2>1
<1>6. After(LS!step(s, "bs"), LS!Back(s.col, 1), s.autowrap, s.sgr, s.saved)
  <2>1. LS!ground(s, "bs") = [s EXCEPT !.col = LS!Back(s.col, 1)]
    BY <1>1 DEF LS!ground
  <2>2. LS!Back(s.col, 1) \in Nat
    BY <1>3, ColumnType
  <2> QED BY <1>2, <1>4, <2>1, <2>2
<1>7. /\ After(LS!step(s, "tab"), LS!Clamp((s.col \div 8) * 8 + 8), s.autowrap, s.sgr, s.saved)
      /\ LS!Clamp((s.col \div 8) * 8 + 8) \in Nat
  <2>1. LS!ground(s, "tab") = [s EXCEPT !.col = LS!Clamp((s.col \div 8) * 8 + 8)]
    BY <1>1 DEF LS!ground
  <2>2. (s.col \div 8) * 8 + 8 \in Nat
    BY <1>3
  <2>3. LS!Clamp((s.col \div 8) * 8 + 8) \in Nat
    BY <2>2, ColumnType
  <2> QED BY <1>2, <1>4, <2>1, <2>3
<1>8. \A b \in LS!Controls \ {"esc", "cr", "bs", "tab"} :
         After(LS!step(s, b), s.col, s.autowrap, s.sgr, s.saved)
  <2>1. \A b \in LS!Controls \ {"esc", "cr", "bs", "tab"} : LS!ground(s, b) = s
    BY <1>1 DEF LS!ground
  <2>2. After(s, s.col, s.autowrap, s.sgr, s.saved)
    BY DEF After
  <2> QED BY <1>2, <2>1, <2>2
<1>9. ASSUME NEW b, b \notin LS!Controls \cup {"u"}
      PROVE  After(LS!step(s, b), Advanced(s.col, s.autowrap, 1), s.autowrap, s.sgr, s.saved)
  <2>1. LS!ground(s, b) = LS!printable(s, b)
    BY <1>1, <1>9 DEF LS!ground, LS!Controls
  <2>2. LS!printable(s, b) = LS!advance(s, 1)
    BY <1>1, <1>3, <1>9 DEF LS!printable
  <2>3. /\ LS!advance(s, 1) = [s EXCEPT !.col = Advanced(s.col, s.autowrap, 1)]
        /\ Advanced(s.col, s.autowrap, 1) \in Nat
    <3>1. 1 \in Nat
      OBVIOUS
    <3> QED BY <3>1, AdvanceIs DEF Advanced
  <2> QED BY <1>2, <1>4, <2>1, <2>2, <2>3
<1>10. ASSUME NEW b, b \notin {"esc", "u"}
       PROVE  \E c \in Nat : /\ After(LS!step(s, b), c, s.autowrap, s.sgr, s.saved)
                             /\ s.col <= Cols => c <= Cols
  <2>1. CASE b = "cr"
    BY <1>5, <2>1
  <2>2. CASE b = "bs"
    <3>1. LS!Back(s.col, 1) \in Nat /\ LS!Back(s.col, 1) <= s.col
      <4>1. LS!Back(s.col, 1) = IF s.col >= 1 THEN s.col - 1 ELSE 0
        BY <1>3, ColumnType
      <4> QED BY <1>3, <4>1
    <3> QED BY <1>3, <1>6, <2>2, <3>1
  <2>3. CASE b = "tab"
    <3>1. (s.col \div 8) * 8 + 8 \in Nat
      BY <1>3
    <3> DEFINE d == (s.col \div 8) * 8 + 8
    <3> HIDE DEF d
    <3>2. LS!Clamp(d) <= Cols
      <4>1. d \in Nat
        BY <3>1 DEF d
      <4>2. LS!Clamp(d) = IF d <= Cols - 1 THEN d ELSE Cols - 1
        BY <4>1, ColumnType
      <4> QED BY <4>1, <4>2
    <3> QED BY <1>7, <2>3, <3>2 DEF d
  <2>4. CASE b \in LS!Controls \ {"esc", "cr", "bs", "tab"}
    BY <1>3, <1>8, <2>4
  <2>5. CASE b \notin LS!Controls \cup {"u"}
    <3>1. Advanced(s.col, s.autowrap, 1) \in Nat /\ Advanced(s.col, s.autowrap, 1) <= Cols
      BY <1>3 DEF Advanced
    <3> QED BY <1>9, <2>5, <3>1
  <2> QED BY <1>10, <2>1, <2>2, <2>3, <2>4, <2>5
<1>11. After(LS!step(s, "lf"), s.col, s.autowrap, s.sgr, s.saved)
  BY <1>8 DEF LS!Controls
<1> QED
  BY <1>5, <1>6, <1>7, <1>9, <1>10, <1>11

\* What the sequences without parameters, and a wide character, make of it.
LEMMA EscEffects ==
    ASSUME Cols \in Nat \ {0}, MaxSgr \in Nat \ {0}, NEW s \in LS!Shadows, Between(s)
    PROVE  /\ After(LS!scan(s, <<"u", "cont", "cont">>),
                    Advanced(s.col, s.autowrap, 2), s.autowrap, s.sgr, s.saved)
           /\ After(LS!scan(s, <<"esc", "E">>), 0, s.autowrap, s.sgr, s.saved)
           /\ After(LS!scan(s, <<"esc", "7">>), s.col, s.autowrap, s.sgr, <<s.col, s.sgr>>)
           /\ s.saved = <<>> =>
                 After(LS!scan(s, <<"esc", "8">>), s.col, s.autowrap, s.sgr, s.saved)
           /\ s.saved # <<>> =>
                 After(LS!scan(s, <<"esc", "8">>), s.saved[1], s.autowrap, s.saved[2], s.saved)
           /\ After(LS!scan(s, <<"esc", "c">>), 0, TRUE, <<>>, <<>>)
           /\ After(LS!scan(s, <<"esc", "]", "x", "cr", "bel">>), s.col, s.autowrap, s.sgr, s.saved)
           /\ After(LS!scan(s, <<"esc", "(", "x">>), s.col, s.autowrap, s.sgr, s.saved)
<1>1. /\ s.col \in Nat /\ s.autowrap \in BOOLEAN /\ s.utf8 = 0 /\ s.state = "Ground"
      /\ s.sgr \in LS!Segments /\ s.saved \in {<<>>} \cup (Nat \X LS!Segments)
  BY ShadowFields DEF Between
<1> DEFINE e == [s EXCEPT !.state = "Esc"]
<1>2. LS!step(s, "esc") = e
  BY StepEsc
<1>3. e \in LS!Shadows /\ e.state = "Esc" /\ [e EXCEPT !.state = "Ground"] = s
  BY <1>1 DEF LS!Shadows
<1>4. \A b : LS!step(e, b) = LS!esc(e, b)
  <2> HIDE DEF e
  <2> QED BY <1>3 DEF LS!step
<1>5. /\ e.col = s.col /\ e.sgr = s.sgr /\ e.saved = s.saved
  BY DEF LS!Shadows
<1> HIDE DEF e
<1>6. After(LS!scan(s, <<"u", "cont", "cont">>),
            Advanced(s.col, s.autowrap, 2), s.autowrap, s.sgr, s.saved)
  <2> DEFINE a == [s EXCEPT !.utf8 = 2]
             b == [s EXCEPT !.utf8 = 1]
  <2>1. LS!step(s, "u") = a
    <3>1. [s EXCEPT !.utf8 = 0] = s
      BY <1>1 DEF LS!Shadows
    <3>2. LS!step(s, "u") = LS!ground(s, "u")
      BY <1>1 DEF LS!step
    <3>3. LS!ground(s, "u") = LS!printable(s, "u")
      BY DEF LS!ground, LS!Controls
    <3> QED BY <3>2, <3>3 DEF LS!printable
  <2>2. /\ a \in LS!Shadows /\ a.state = "Ground" /\ a.utf8 = 2 /\ [a EXCEPT !.utf8 = 1] = b
        /\ b \in LS!Shadows /\ b.state = "Ground" /\ b.utf8 = 1 /\ [b EXCEPT !.utf8 = 0] = s
    BY <1>1 DEF LS!Shadows
  <2> HIDE DEF a, b
  <2>3. LS!step(a, "cont") = b
    <3>1. LS!step(a, "cont") = LS!ground(a, "cont")
      BY <2>2 DEF LS!step
    <3>2. LS!ground(a, "cont") = LS!printable(a, "cont")
      BY DEF LS!ground, LS!Controls
    <3>3. LS!printable(a, "cont") = [a EXCEPT !.utf8 = 1]
      BY <2>2 DEF LS!printable
    <3> QED BY <2>2, <3>1, <3>2, <3>3
  <2>4. LS!step(b, "cont") = LS!advance(s, 2)
    <3>1. LS!step(b, "cont") = LS!ground(b, "cont")
      BY <2>2 DEF LS!step
    <3>2. LS!ground(b, "cont") = LS!printable(b, "cont")
      BY DEF LS!ground, LS!Controls
    <3> QED BY <2>2, <3>1, <3>2 DEF LS!printable
  <2>5. /\ LS!advance(s, 2) = [s EXCEPT !.col = Advanced(s.col, s.autowrap, 2)]
        /\ Advanced(s.col, s.autowrap, 2) \in Nat
    <3>1. 2 \in Nat
      OBVIOUS
    <3> QED BY <3>1, AdvanceIs DEF Advanced
  <2>6. LS!scan(s, <<"u", "cont", "cont">>) = LS!step(LS!step(LS!step(s, "u"), "cont"), "cont")
    BY ReadThree
  <2>7. LS!scan(s, <<"u", "cont", "cont">>) = [s EXCEPT !.col = Advanced(s.col, s.autowrap, 2)]
    BY <2>1, <2>3, <2>4, <2>5, <2>6
  <2> DEFINE c == Advanced(s.col, s.autowrap, 2)
             r == LS!scan(s, <<"u", "cont", "cont">>)
  <2>8. r = [s EXCEPT !.col = c] /\ c \in Nat
    BY <2>5, <2>7
  <2> HIDE DEF c, r
  <2>9. After(r, c, s.autowrap, s.sgr, s.saved)
    BY <1>1, <2>8 DEF After, Between, LS!Shadows
  <2> QED BY <2>9 DEF c, r
<1>7. ASSUME NEW b PROVE LS!scan(s, <<"esc", b>>) = LS!esc(e, b)
  <2>1. LS!scan(s, <<"esc", b>>) = LS!step(LS!step(s, "esc"), b)
    BY ReadTwo
  <2> QED BY <1>2, <1>4, <2>1
<1>8. After(LS!scan(s, <<"esc", "E">>), 0, s.autowrap, s.sgr, s.saved)
  <2>1. LS!esc(e, "E") = [s EXCEPT !.col = 0]
    BY <1>3 DEF LS!esc
  <2>2. After([s EXCEPT !.col = 0], 0, s.autowrap, s.sgr, s.saved)
    BY <1>1 DEF After, Between, LS!Shadows
  <2> QED BY <1>7, <2>1, <2>2
<1>9. After(LS!scan(s, <<"esc", "7">>), s.col, s.autowrap, s.sgr, <<s.col, s.sgr>>)
  <2>1. LS!esc(e, "7") = [s EXCEPT !.saved = <<s.col, s.sgr>>]
    BY <1>3, <1>5 DEF LS!esc
  <2>2. After([s EXCEPT !.saved = <<s.col, s.sgr>>], s.col, s.autowrap, s.sgr, <<s.col, s.sgr>>)
    <3> DEFINE x == <<s.col, s.sgr>>
    <3>1. x \in Nat \X LS!Segments
      BY <1>1
    <3> HIDE DEF x
    <3>2. After([s EXCEPT !.saved = x], s.col, s.autowrap, s.sgr, x)
      BY <1>1, <3>1 DEF After, Between, LS!Shadows
    <3> QED BY <3>2 DEF x
  <2> QED BY <1>7, <2>1, <2>2
<1>10. s.saved = <<>> => After(LS!scan(s, <<"esc", "8">>), s.col, s.autowrap, s.sgr, s.saved)
  <2>1. s.saved = <<>> => LS!esc(e, "8") = s
    BY <1>3, <1>5 DEF LS!esc
  <2>2. After(s, s.col, s.autowrap, s.sgr, s.saved)
    BY DEF After
  <2> QED BY <1>7, <2>1, <2>2
<1>11. ASSUME s.saved # <<>>
       PROVE  After(LS!scan(s, <<"esc", "8">>), s.saved[1], s.autowrap, s.saved[2], s.saved)
  <2> DEFINE c == s.saved[1]
             x == s.saved[2]
  <2>1. LS!esc(e, "8") = [s EXCEPT !.col = c, !.sgr = x]
    BY <1>3, <1>5, <1>11 DEF LS!esc
  <2>2. c \in Nat /\ x \in LS!Segments
    BY <1>1, <1>11
  <2> HIDE DEF c, x
  <2>3. After([s EXCEPT !.col = c, !.sgr = x], c, s.autowrap, x, s.saved)
    BY <1>1, <2>2 DEF After, Between, LS!Shadows
  <2> QED BY <1>7, <2>1, <2>3 DEF c, x
<1>12. After(LS!scan(s, <<"esc", "c">>), 0, TRUE, <<>>, <<>>)
  <2> DEFINE x == <<>>
  <2>1. LS!esc(e, "c") = [s EXCEPT !.col = 0, !.autowrap = TRUE, !.sgr = x, !.saved = x]
    BY <1>3 DEF LS!esc
  <2>2. x \in LS!Segments /\ x \in {<<>>} \cup (Nat \X LS!Segments)
    BY DEF LS!Segments
  <2> HIDE DEF x
  <2>3. After([s EXCEPT !.col = 0, !.autowrap = TRUE, !.sgr = x, !.saved = x], 0, TRUE, x, x)
    BY <1>1, <2>2 DEF After, Between, LS!Shadows
  <2> QED BY <1>7, <2>1, <2>3 DEF x
<1>13. After(LS!scan(s, <<"esc", "(", "x">>), s.col, s.autowrap, s.sgr, s.saved)
  <2> DEFINE a == [s EXCEPT !.state = "EscIntermediate"]
  <2>1. LS!esc(e, "(") = a
    BY <1>3 DEF LS!esc
  <2>2. a.state = "EscIntermediate" /\ [a EXCEPT !.state = "Ground"] = s
    BY <1>1 DEF LS!Shadows
  <2> HIDE DEF a
  <2>3. LS!step(a, "x") = s
    BY <2>2 DEF LS!step
  <2>4. LS!scan(s, <<"esc", "(", "x">>) = LS!step(LS!step(LS!step(s, "esc"), "("), "x")
    BY ReadThree
  <2>5. LS!scan(s, <<"esc", "(", "x">>) = s
    BY <1>2, <1>4, <2>1, <2>3, <2>4
  <2> QED BY <2>5 DEF After
<1>14. After(LS!scan(s, <<"esc", "]", "x", "cr", "bel">>), s.col, s.autowrap, s.sgr, s.saved)
  <2> DEFINE a == [s EXCEPT !.state = "StringBody"]
  <2>1. LS!esc(e, "]") = a
    BY <1>3 DEF LS!esc
  <2>2. /\ a.state = "StringBody" /\ [a EXCEPT !.state = "Ground"] = s
        /\ [a EXCEPT !.state = "StringBody"] = a
    BY <1>1 DEF LS!Shadows
  <2> HIDE DEF a
  <2>3. LS!step(a, "x") = a /\ LS!step(a, "cr") = a /\ LS!step(a, "bel") = s
    BY <2>2 DEF LS!step
  <2>4. LS!scan(s, <<"esc", "]", "x", "cr", "bel">>)
           = LS!step(LS!step(LS!step(LS!step(LS!step(s, "esc"), "]"), "x"), "cr"), "bel")
    BY ReadFive
  <2>5. LS!scan(s, <<"esc", "]", "x", "cr", "bel">>) = s
    BY <1>2, <1>4, <2>1, <2>3, <2>4
  <2> QED BY <2>5 DEF After
<1> QED
  BY <1>6, <1>7, <1>8, <1>9, <1>10, <1>11, <1>12, <1>13, <1>14

-----------------------------------------------------------------------------
(* The line shadow: the terminal, and both in step *)

\* A terminal with these.
Stands(r, col, wrap, autowrap, attrs, count, saved) ==
    /\ r \in LS!Terminals
    /\ r.col = col /\ r.wrap = wrap /\ r.autowrap = autowrap /\ r.attrs = attrs
    /\ r.count = count /\ r.saved = saved

\* A terminal that has a wrap pending in its last column only, and has saved no other.
Tidy(t) ==
    /\ t \in LS!Terminals
    /\ t.wrap => t.col = Cols - 1
    /\ t.saved # <<>> /\ t.saved[2] => t.saved[1] = Cols - 1

\* The parts of a terminal.
LEMMA ScreenFields ==
    ASSUME Cols \in Nat \ {0}, NEW t \in LS!Terminals
    PROVE  /\ t.col \in 0..(Cols - 1) /\ t.wrap \in BOOLEAN /\ t.autowrap \in BOOLEAN
           /\ t.attrs \in LS!Attributes /\ t.count \in Nat /\ t.saved \in {<<>>} \cup LS!Positions
           /\ \A c \in 0..(Cols - 1), w \in BOOLEAN :
                 Stands([t EXCEPT !.col = c, !.wrap = w],
                        c, w, t.autowrap, t.attrs, t.count, t.saved)
           /\ \A x \in BOOLEAN : Stands([t EXCEPT !.autowrap = x],
                                        t.col, t.wrap, x, t.attrs, t.count, t.saved)
           /\ \A a \in LS!Attributes, n \in Nat :
                 Stands([t EXCEPT !.attrs = a, !.count = n],
                        t.col, t.wrap, t.autowrap, a, n, t.saved)
           /\ \A p \in {<<>>} \cup LS!Positions :
                 Stands([t EXCEPT !.saved = p],
                        t.col, t.wrap, t.autowrap, t.attrs, t.count, p)
           /\ Stands(t, t.col, t.wrap, t.autowrap, t.attrs, t.count, t.saved)
  BY DEF Stands, LS!Terminals

\* A movement ends within the line, and no wrap is pending.
LEMMA MoveIs ==
    ASSUME Cols \in Nat \ {0}, NEW t \in LS!Terminals, NEW c \in Int
    PROVE  LET d == IF c < 0 THEN 0 ELSE IF c <= Cols - 1 THEN c ELSE Cols - 1
           IN  /\ d \in 0..(Cols - 1)
               /\ Stands(LS!Move(t, c), d, FALSE, t.autowrap, t.attrs, t.count, t.saved)
<1> DEFINE m == IF c < 0 THEN 0 ELSE c
           d == IF c < 0 THEN 0 ELSE IF c <= Cols - 1 THEN c ELSE Cols - 1
<1>1. LS!Max({0, c}) = m /\ m \in Nat
  <2>1. LS!Max({0, c}) = IF 0 >= c THEN 0 ELSE c
    BY PairMin
  <2> QED BY <2>1
<1>2. LS!Min({m, Cols - 1}) = IF m <= Cols - 1 THEN m ELSE Cols - 1
  <2> HIDE DEF m
  <2>1. m \in Int /\ Cols - 1 \in Int
    BY <1>1
  <2> QED BY <2>1, PairMin
<1>3. LS!Min({LS!Max({0, c}), Cols - 1}) = d /\ d \in 0..(Cols - 1)
  <2>1. (IF m <= Cols - 1 THEN m ELSE Cols - 1) = d /\ d \in 0..(Cols - 1)
    OBVIOUS
  <2> HIDE DEF m, d
  <2> QED BY <1>1, <1>2, <2>1
<1>4. LS!Move(t, c) = [t EXCEPT !.col = d, !.wrap = FALSE]
  <2> HIDE DEF d
  <2> QED BY <1>3 DEF LS!Move
<1> HIDE DEF d
<1>5. Stands(LS!Move(t, c), d, FALSE, t.autowrap, t.attrs, t.count, t.saved)
  BY <1>3, <1>4, ScreenFields
<1> QED
  BY <1>3, <1>5 DEF d

\* A character ends within the line, and a wrap is pending only at its end.
LEMMA GlyphIs ==
    ASSUME Cols \in Nat \ {0}, NEW t \in LS!Terminals, NEW w \in {1, 2}
    PROVE  LET from == IF t.autowrap /\ (t.wrap \/ t.col + w > Cols) THEN 0 ELSE t.col
               d == IF from + w <= Cols - 1 THEN from + w ELSE Cols - 1
               pending == t.autowrap /\ from + w >= Cols
           IN  /\ d \in 0..(Cols - 1) /\ pending \in BOOLEAN
               /\ pending => d = Cols - 1
               /\ Stands(LS!Glyph(t, w), d, pending, t.autowrap, t.attrs, t.count, t.saved)
<1> DEFINE from == IF t.autowrap /\ (t.wrap \/ t.col + w > Cols) THEN 0 ELSE t.col
           d == IF from + w <= Cols - 1 THEN from + w ELSE Cols - 1
           pending == (t.autowrap /\ from + w >= Cols)
<1>1. t.col \in 0..(Cols - 1) /\ t.autowrap \in BOOLEAN /\ t.wrap \in BOOLEAN
  BY ScreenFields
<1>2. from \in 0..(Cols - 1) /\ w \in Nat
  BY <1>1
<1>3. LS!Glyph(t, w) = [t EXCEPT !.col = LS!Min({from + w, Cols - 1}), !.wrap = pending]
  BY DEF LS!Glyph
<1> HIDE DEF from
<1>4. LS!Min({from + w, Cols - 1}) = d
  <2>1. from + w \in Int /\ Cols - 1 \in Int
    BY <1>2
  <2> QED BY <2>1, PairMin
<1>5. d \in 0..(Cols - 1) /\ pending \in BOOLEAN /\ (pending => d = Cols - 1)
  BY <1>1, <1>2
<1> HIDE DEF d, pending
<1>6. Stands(LS!Glyph(t, w), d, pending, t.autowrap, t.attrs, t.count, t.saved)
  <2>1. LS!Glyph(t, w) = [t EXCEPT !.col = d, !.wrap = pending]
    BY <1>3, <1>4
  <2>2. \A c \in 0..(Cols - 1), x \in BOOLEAN :
           Stands([t EXCEPT !.col = c, !.wrap = x], c, x, t.autowrap, t.attrs, t.count, t.saved)
    BY ScreenFields
  <2>3. Stands([t EXCEPT !.col = d, !.wrap = pending],
               d, pending, t.autowrap, t.attrs, t.count, t.saved)
    BY <1>5, <2>2, Zenon
  <2> QED BY <2>1, <2>3, Zenon
<1> QED
  BY <1>5, <1>6 DEF d, pending, from

ColumnOps == {"print", "wide", "return", "backspace", "tab", "newline", "next_line",
              "column2", "home", "right2", "left", "title", "charset"}

\* The shadow's column and the terminal's, if they were the same, still are.
StaysSame(s, t, op, c, d, pending) ==
    \/ op \in LS!Places
    \/ /\ LS!SameColumn(s.col, t.col, t.wrap) /\ s.autowrap = t.autowrap
       /\ ~(op \in {"backspace", "left"} /\ t.wrap)
    => LS!SameColumn(c, d, pending)

\* One operation of those, read and performed.
InStep(s, t, op) ==
    \E c \in Nat, d \in 0..(Cols - 1), pending \in BOOLEAN :
       /\ After(LS!scan(s, LS!Encode(op)), c, s.autowrap, s.sgr, s.saved)
       /\ s.col <= Cols => c <= Cols
       /\ Stands(LS!Perform(t, op), d, pending, t.autowrap, t.attrs, t.count, t.saved)
       /\ (t.wrap => t.col = Cols - 1) => (pending => d = Cols - 1)
       /\ (t.wrap => t.col = Cols - 1) => StaysSame(s, t, op, c, d, pending)

\* A character: both wrap at the same place, and stop at the same margin.
LEMMA CharacterInStep ==
    ASSUME Cols \in Nat \ {0}, MaxSgr \in Nat \ {0}, NEW s \in LS!Shadows, Between(s),
           NEW t \in LS!Terminals, NEW op \in {"print", "wide"}
    PROVE  InStep(s, t, op)
<1> DEFINE w == IF op = "print" THEN 1 ELSE 2
           from == IF t.autowrap /\ (t.wrap \/ t.col + w > Cols) THEN 0 ELSE t.col
           d == IF from + w <= Cols - 1 THEN from + w ELSE Cols - 1
           pending == (t.autowrap /\ from + w >= Cols)
           c == Advanced(s.col, s.autowrap, w)
<1>1. /\ t.col \in 0..(Cols - 1) /\ t.autowrap \in BOOLEAN /\ t.wrap \in BOOLEAN
      /\ s.col \in Nat /\ s.autowrap \in BOOLEAN
  BY ScreenFields, ShadowFields
<1>2. w \in {1, 2}
  OBVIOUS
<1>3. After(LS!scan(s, LS!Encode(op)), c, s.autowrap, s.sgr, s.saved)
  <2>1. CASE op = "print"
    <3>1. LS!scan(s, <<"x">>) = LS!step(s, "x")
      BY ReadOne
    <3>2. "x" \notin LS!Controls \cup {"u"}
      BY DEF LS!Controls
    <3>3. After(LS!step(s, "x"), Advanced(s.col, s.autowrap, 1), s.autowrap, s.sgr, s.saved)
      BY <3>2, GroundEffects
    <3> QED BY <2>1, <3>1, <3>3 DEF LS!Encode
  <2>2. CASE op = "wide"
    <3>1. LS!Encode(op) = <<"u", "cont", "cont">>
      BY <2>2 DEF LS!Encode
    <3>2. After(LS!scan(s, <<"u", "cont", "cont">>),
                Advanced(s.col, s.autowrap, 2), s.autowrap, s.sgr, s.saved)
      BY EscEffects
    <3> QED BY <2>2, <3>1, <3>2
  <2> QED BY <2>1, <2>2
<1>4. c \in Nat /\ c <= Cols
  BY <1>1, <1>2 DEF Advanced
<1>5. LS!Perform(t, op) = LS!Glyph(t, w)
  BY DEF LS!Perform
<1> HIDE DEF w
<1>6. /\ d \in 0..(Cols - 1) /\ pending \in BOOLEAN /\ (pending => d = Cols - 1)
      /\ Stands(LS!Perform(t, op), d, pending, t.autowrap, t.attrs, t.count, t.saved)
  BY <1>2, <1>5, GlyphIs
<1>7. (t.wrap => t.col = Cols - 1) => StaysSame(s, t, op, c, d, pending)
  <2> SUFFICES ASSUME t.wrap => t.col = Cols - 1, LS!SameColumn(s.col, t.col, t.wrap),
                      s.autowrap = t.autowrap
               PROVE  LS!SameColumn(c, d, pending)
    BY DEF StaysSame, LS!Places
  <2>1. /\ t.col \in 0..(Cols - 1) /\ t.wrap \in BOOLEAN /\ t.autowrap \in BOOLEAN
        /\ w \in {1, 2}
    BY <1>1, <1>2
  <2>2. CASE t.wrap
    <3>1. s.col = Cols /\ t.col = Cols - 1
      BY <2>2 DEF LS!SameColumn
    <3> QED BY <2>1, <2>2, <3>1 DEF LS!SameColumn, Advanced
  <2>3. CASE ~t.wrap
    <3>1. s.col = t.col
      BY <2>3 DEF LS!SameColumn
    <3> QED BY <2>1, <2>3, <3>1 DEF LS!SameColumn, Advanced
  <2> QED BY <2>2, <2>3
<1> HIDE DEF c, d, pending
<1> QED
  BY <1>3, <1>4, <1>6, <1>7 DEF InStep

\* A movement.
LEMMA MoveInStep ==
    ASSUME Cols \in Nat \ {0}, NEW s \in LS!Shadows, NEW t \in LS!Terminals, NEW op,
           NEW c \in Nat, NEW m \in Int,
           After(LS!scan(s, LS!Encode(op)), c, s.autowrap, s.sgr, s.saved),
           s.col <= Cols => c <= Cols, LS!Perform(t, op) = LS!Move(t, m),
           LET d == IF m < 0 THEN 0 ELSE IF m <= Cols - 1 THEN m ELSE Cols - 1
           IN  (t.wrap => t.col = Cols - 1) => StaysSame(s, t, op, c, d, FALSE)
    PROVE  InStep(s, t, op)
<1> DEFINE d == IF m < 0 THEN 0 ELSE IF m <= Cols - 1 THEN m ELSE Cols - 1
<1>1. /\ d \in 0..(Cols - 1)
      /\ Stands(LS!Move(t, m), d, FALSE, t.autowrap, t.attrs, t.count, t.saved)
  BY MoveIs
<1>2. (t.wrap => t.col = Cols - 1) => StaysSame(s, t, op, c, d, FALSE)
  OBVIOUS
<1> HIDE DEF d
<1> QED
  BY <1>1, <1>2 DEF InStep

\* So every operation that moves the cursor keeps both in step.
LEMMA ColumnInStep ==
    ASSUME Cols \in Nat \ {0}, MaxSgr \in Nat \ {0}, MaxCsi \in Nat, MaxCsi >= 9,
           NEW s \in LS!Shadows, Between(s), NEW t \in LS!Terminals, NEW op \in ColumnOps
    PROVE  InStep(s, t, op)
<1>1. /\ t.col \in 0..(Cols - 1) /\ t.autowrap \in BOOLEAN /\ t.wrap \in BOOLEAN
      /\ s.col \in Nat /\ s.autowrap \in BOOLEAN
  BY ScreenFields, ShadowFields
<1> DEFINE Read(c) == After(LS!scan(s, LS!Encode(op)), c, s.autowrap, s.sgr, s.saved)
           Held(m) == IF m < 0 THEN 0 ELSE IF m <= Cols - 1 THEN m ELSE Cols - 1
<1>2. CASE op \in {"print", "wide"}
  BY <1>2, CharacterInStep
<1>3. ASSUME NEW c \in Nat, NEW m \in Int, Read(c), s.col <= Cols => c <= Cols,
             LS!Perform(t, op) = LS!Move(t, m),
             op \in LS!Places \/ (LS!SameColumn(s.col, t.col, t.wrap) /\ (t.wrap => t.col = Cols - 1)
                                  /\ ~(op \in {"backspace", "left"} /\ t.wrap)) => c = Held(m)
      PROVE  InStep(s, t, op)
  <2>1. (t.wrap => t.col = Cols - 1) => StaysSame(s, t, op, c, Held(m), FALSE)
    <3> SUFFICES ASSUME t.wrap => t.col = Cols - 1,
                        \/ op \in LS!Places
                        \/ /\ LS!SameColumn(s.col, t.col, t.wrap)
                           /\ ~(op \in {"backspace", "left"} /\ t.wrap)
                 PROVE  LS!SameColumn(c, Held(m), FALSE)
      BY DEF StaysSame
    <3> HIDE DEF Held
    <3>1. c = Held(m)
      BY <1>3, Zenon
    <3> QED BY <3>1 DEF LS!SameColumn
  <2> QED BY <1>3, <2>1, MoveInStep
<1>4. CASE op \in {"return", "next_line", "home"}
  <2>1. Read(0)
    <3>1. CASE op = "return"
      <4>1. LS!scan(s, <<"cr">>) = LS!step(s, "cr") /\ LS!Encode(op) = <<"cr">>
        BY <3>1, ReadOne DEF LS!Encode
      <4> QED BY <4>1, GroundEffects
    <3>2. CASE op = "next_line"
      <4>1. LS!Encode(op) = <<"esc", "E">>
        BY <3>2 DEF LS!Encode
      <4>2. After(LS!scan(s, <<"esc", "E">>), 0, s.autowrap, s.sgr, s.saved)
        BY EscEffects
      <4> QED BY <4>1, <4>2
    <3>3. CASE op = "home"
      <4>1. LS!Encode(op) = LS!Csi(<<>>, "H")
        BY <3>3 DEF LS!Encode
      <4>2. After(LS!scan(s, LS!Csi(<<>>, "H")), LS!Clamp(0), s.autowrap, s.sgr, s.saved)
        BY CsiEffects
      <4>3. LS!Clamp(0) = 0
        BY ColumnType
      <4> QED BY <4>1, <4>2, <4>3
    <3> QED BY <1>4, <3>1, <3>2, <3>3
  <2>2. LS!Perform(t, op) = LS!Move(t, 0)
    BY <1>4 DEF LS!Perform
  <2>3. Held(0) = 0 /\ 0 \in Nat /\ 0 \in Int /\ 0 <= Cols
    OBVIOUS
  <2> HIDE DEF Read, Held
  <2> QED BY <1>3, <2>1, <2>2, <2>3
<1>5. CASE op \in {"backspace", "left"}
  <2> DEFINE c == LS!Back(s.col, 1)
  <2>1. Read(c)
    <3>1. CASE op = "backspace"
      <4>1. LS!scan(s, <<"bs">>) = LS!step(s, "bs") /\ LS!Encode(op) = <<"bs">>
        BY <3>1, ReadOne DEF LS!Encode
      <4> QED BY <4>1, GroundEffects
    <3>2. CASE op = "left"
      <4>1. LS!Encode(op) = LS!Csi(<<>>, "D")
        BY <3>2 DEF LS!Encode
      <4>2. After(LS!scan(s, LS!Csi(<<>>, "D")), LS!Back(s.col, 1), s.autowrap, s.sgr, s.saved)
        BY CsiEffects
      <4> QED BY <4>1, <4>2
    <3> QED BY <1>5, <3>1, <3>2
  <2>2. LS!Perform(t, op) = LS!Move(t, t.col - 1)
    BY <1>5 DEF LS!Perform
  <2>3. c = IF s.col >= 1 THEN s.col - 1 ELSE 0
    BY <1>1, ColumnType
  <2> HIDE DEF c, Read
  <2>4. c \in Nat /\ (s.col <= Cols => c <= Cols) /\ t.col - 1 \in Int
    BY <1>1, <2>3
  <2>5. LS!SameColumn(s.col, t.col, t.wrap) /\ ~t.wrap => c = Held(t.col - 1)
    BY <1>1, <2>3 DEF LS!SameColumn
  <2>6. op \notin LS!Places
    BY <1>5 DEF LS!Places
  <2>7. op \in LS!Places \/ (LS!SameColumn(s.col, t.col, t.wrap) /\ (t.wrap => t.col = Cols - 1)
                             /\ ~(op \in {"backspace", "left"} /\ t.wrap)) => c = Held(t.col - 1)
    BY <1>5, <2>5, <2>6
  <2> HIDE DEF Held
  <2> QED BY <1>3, <2>1, <2>2, <2>4, <2>7
<1>6. CASE op = "tab"
  <2> DEFINE from == (s.col \div 8) * 8 + 8
             to == (t.col \div 8) * 8 + 8
             c == LS!Clamp(from)
  <2>1. Read(c)
    <3>1. LS!scan(s, <<"tab">>) = LS!step(s, "tab") /\ LS!Encode(op) = <<"tab">>
      BY <1>6, ReadOne DEF LS!Encode
    <3> QED BY <3>1, GroundEffects
  <2>2. LS!Perform(t, op) = LS!Move(t, to)
    BY <1>6 DEF LS!Perform
  <2>3. from \in Nat /\ to \in Nat /\ from >= s.col + 1 /\ to >= t.col + 1
    BY <1>1
  <2>4. s.col = t.col => from = to
    OBVIOUS
  <2> HIDE DEF from, to
  <2>5. c = IF from <= Cols - 1 THEN from ELSE Cols - 1
    BY <2>3, ColumnType
  <2> HIDE DEF c, Read
  <2>6. c \in Nat /\ c <= Cols /\ to \in Int
    BY <2>3, <2>5
  <2>7. LS!SameColumn(s.col, t.col, t.wrap) /\ (t.wrap => t.col = Cols - 1) => c = Held(to)
    BY <1>1, <2>3, <2>4, <2>5 DEF LS!SameColumn
  <2>8. op \notin LS!Places
    BY <1>6 DEF LS!Places
  <2>9. op \in LS!Places \/ (LS!SameColumn(s.col, t.col, t.wrap) /\ (t.wrap => t.col = Cols - 1)
                             /\ ~(op \in {"backspace", "left"} /\ t.wrap)) => c = Held(to)
    BY <2>7, <2>8
  <2> HIDE DEF Held
  <2> QED BY <1>3, <2>1, <2>2, <2>6, <2>9
<1>7. CASE op = "column2"
  <2>1. Read(LS!Clamp(1))
    <3>1. LS!Encode(op) = LS!Csi(<<"2">>, "G")
      BY <1>7 DEF LS!Encode
    <3>2. After(LS!scan(s, LS!Csi(<<"2">>, "G")), LS!Clamp(1), s.autowrap, s.sgr, s.saved)
      BY CsiEffects
    <3> QED BY <3>1, <3>2
  <2>2. LS!Perform(t, op) = LS!Move(t, 1)
    BY <1>7 DEF LS!Perform
  <2>3. LS!Clamp(1) = IF 1 <= Cols - 1 THEN 1 ELSE Cols - 1
    BY ColumnType
  <2>4. LS!Clamp(1) = Held(1) /\ LS!Clamp(1) \in Nat /\ LS!Clamp(1) <= Cols /\ 1 \in Int
    BY <2>3
  <2> HIDE DEF Read, Held
  <2> QED BY <1>3, <2>1, <2>2, <2>4
<1>8. CASE op = "right2"
  <2> DEFINE c == LS!Clamp(s.col + 2)
  <2>1. Read(c)
    <3>1. LS!Encode(op) = LS!Csi(<<"2">>, "C")
      BY <1>8 DEF LS!Encode
    <3>2. After(LS!scan(s, LS!Csi(<<"2">>, "C")), LS!Clamp(s.col + 2), s.autowrap, s.sgr, s.saved)
      BY CsiEffects
    <3> QED BY <3>1, <3>2
  <2>2. LS!Perform(t, op) = LS!Move(t, t.col + 2)
    BY <1>8 DEF LS!Perform
  <2>3. c = IF s.col + 2 <= Cols - 1 THEN s.col + 2 ELSE Cols - 1
    <3>1. s.col + 2 \in Nat
      BY <1>1
    <3> QED BY <3>1, ColumnType
  <2> HIDE DEF c, Read
  <2>4. c \in Nat /\ c <= Cols /\ t.col + 2 \in Int
    BY <1>1, <2>3
  <2>5. LS!SameColumn(s.col, t.col, t.wrap) /\ (t.wrap => t.col = Cols - 1) => c = Held(t.col + 2)
    BY <1>1, <2>3 DEF LS!SameColumn
  <2>6. op \notin LS!Places
    BY <1>8 DEF LS!Places
  <2>7. op \in LS!Places \/ (LS!SameColumn(s.col, t.col, t.wrap) /\ (t.wrap => t.col = Cols - 1)
                             /\ ~(op \in {"backspace", "left"} /\ t.wrap)) => c = Held(t.col + 2)
    BY <2>5, <2>6
  <2> HIDE DEF Held
  <2> QED BY <1>3, <2>1, <2>2, <2>4, <2>7
<1>9. CASE op \in {"newline", "title", "charset"}
  <2>1. Read(s.col)
    <3>1. CASE op = "newline"
      <4>1. LS!scan(s, <<"lf">>) = LS!step(s, "lf") /\ LS!Encode(op) = <<"lf">>
        BY <3>1, ReadOne DEF LS!Encode
      <4> QED BY <4>1, GroundEffects
    <3>2. CASE op = "title"
      <4>1. LS!Encode(op) = <<"esc", "]", "x", "cr", "bel">>
        BY <3>2 DEF LS!Encode
      <4>2. After(LS!scan(s, <<"esc", "]", "x", "cr", "bel">>), s.col, s.autowrap, s.sgr, s.saved)
        BY EscEffects
      <4> QED BY <4>1, <4>2
    <3>3. CASE op = "charset"
      <4>1. LS!Encode(op) = <<"esc", "(", "x">>
        BY <3>3 DEF LS!Encode
      <4>2. After(LS!scan(s, <<"esc", "(", "x">>), s.col, s.autowrap, s.sgr, s.saved)
        BY EscEffects
      <4> QED BY <4>1, <4>2
    <3> QED BY <1>9, <3>1, <3>2, <3>3
  <2>2. LS!Perform(t, op) = t
    BY <1>9 DEF LS!Perform
  <2>3. Stands(t, t.col, t.wrap, t.autowrap, t.attrs, t.count, t.saved)
    BY ScreenFields
  <2>4. StaysSame(s, t, op, s.col, t.col, t.wrap)
    BY <1>9 DEF StaysSame, LS!Places
  <2> QED BY <1>1, <2>1, <2>2, <2>3, <2>4 DEF InStep
<1> QED
  BY <1>2, <1>4, <1>5, <1>6, <1>7, <1>8, <1>9 DEF ColumnOps

\* A segment more, kept and painted with.
LEMMA PushPaints ==
    ASSUME MaxSgr \in Nat \ {0}, NEW sgr \in LS!Segments, NEW x \in Seq(Seq(LS!CsiBytes)),
           NEW attrs \in LS!Attributes, NEW n \in Nat, LS!SamePaint(sgr, attrs, n)
    PROVE  LS!SamePaint(LS!push_sgr(sgr, x), attrs \cup {x}, n + 1)
<1> SUFFICES ASSUME n + 1 <= MaxSgr
             PROVE  Len(LS!push_sgr(sgr, x)) = n + 1
                    /\ LS!Painted(LS!push_sgr(sgr, x)) = attrs \cup {x}
  BY DEF LS!SamePaint
<1> DEFINE S == Seq(Seq(LS!CsiBytes))
           r == Append(sgr, x)
<1>1. Len(sgr) = n /\ LS!Painted(sgr) = attrs
  BY DEF LS!SamePaint
<1>2. LS!push_sgr(sgr, x) = r
  BY <1>1 DEF LS!push_sgr
<1>3. sgr \in Seq(S) /\ x \in S
  BY DEF LS!Segments
<1> HIDE DEF S
<1>4. /\ r \in Seq(S) /\ Len(r) = Len(sgr) + 1 /\ r[Len(sgr) + 1] = x
      /\ \A i \in 1..Len(sgr) : r[i] = sgr[i]
  BY <1>3, AtTheEnd
<1> HIDE DEF r
<1>5. DOMAIN sgr = 1..n /\ DOMAIN r = 1..(n + 1)
  BY <1>1, <1>3, <1>4
<1>6. LS!Painted(r) = {sgr[i] : i \in 1..n} \cup {x}
  <2>1. \A i \in 1..(n + 1) : r[i] = IF i = n + 1 THEN x ELSE sgr[i]
    BY <1>1, <1>4
  <2>2. 1..(n + 1) = (1..n) \cup {n + 1} /\ n + 1 \notin 1..n
    OBVIOUS
  <2> QED BY <1>5, <2>1, <2>2 DEF LS!Painted
<1> QED
  BY <1>1, <1>2, <1>4, <1>5, <1>6 DEF LS!Painted

\* The attributes that the terminal adds.
Bold == <<<<"1">>>>
Ansi == <<<<"3", "5">>>>
Extended == <<<<"3", "8">>, <<"5">>, <<"0">>>>

\* What the other operations do to either.
LEMMA OtherEffects ==
    ASSUME Cols \in Nat \ {0}, MaxSgr \in Nat \ {0}, MaxCsi \in Nat, MaxCsi >= 9,
           NEW s \in LS!Shadows, Between(s), NEW t \in LS!Terminals
    PROVE  /\ \A op \in {"wrap_off", "wrap_on"} :
                 /\ After(LS!scan(s, LS!Encode(op)), s.col, op = "wrap_on", s.sgr, s.saved)
                 /\ Stands(LS!Perform(t, op), t.col, t.wrap, op = "wrap_on", t.attrs, t.count, t.saved)
           /\ After(LS!scan(s, LS!Encode("save")), s.col, s.autowrap, s.sgr, <<s.col, s.sgr>>)
           /\ Stands(LS!Perform(t, "save"), t.col, t.wrap, t.autowrap, t.attrs, t.count,
                     <<t.col, t.wrap, t.attrs, t.count>>)
           /\ s.saved = <<>> =>
                 After(LS!scan(s, LS!Encode("restore")), s.col, s.autowrap, s.sgr, s.saved)
           /\ s.saved # <<>> =>
                 After(LS!scan(s, LS!Encode("restore")), s.saved[1], s.autowrap, s.saved[2], s.saved)
           /\ t.saved = <<>> =>
                 Stands(LS!Perform(t, "restore"), t.col, t.wrap, t.autowrap, t.attrs, t.count, t.saved)
           /\ t.saved # <<>> =>
                 Stands(LS!Perform(t, "restore"), t.saved[1], t.saved[2], t.autowrap, t.saved[3],
                        t.saved[4], t.saved)
           /\ After(LS!scan(s, LS!Encode("reset")), 0, TRUE, <<>>, <<>>)
           /\ Stands(LS!Perform(t, "reset"), 0, FALSE, TRUE, {}, 0, <<>>)
           /\ After(LS!scan(s, LS!Encode("plain")), s.col, s.autowrap, <<>>, s.saved)
           /\ Stands(LS!Perform(t, "plain"), t.col, t.wrap, t.autowrap, {}, 0, t.saved)
           /\ After(LS!scan(s, LS!Encode("bold")), s.col, s.autowrap, LS!push_sgr(s.sgr, Bold), s.saved)
           /\ Stands(LS!Perform(t, "bold"), t.col, t.wrap, t.autowrap, t.attrs \cup {Bold},
                     t.count + 1, t.saved)
           /\ After(LS!scan(s, LS!Encode("black")), s.col, s.autowrap,
                    LS!push_sgr(LS!push_sgr(s.sgr, Ansi), Extended), s.saved)
           /\ Stands(LS!Perform(t, "black"), t.col, t.wrap, t.autowrap,
                     t.attrs \cup {Ansi, Extended}, t.count + 2, t.saved)
           /\ Bold \in Seq(Seq(LS!CsiBytes)) /\ Ansi \in Seq(Seq(LS!CsiBytes))
           /\ Extended \in Seq(Seq(LS!CsiBytes))
<1>1. /\ t.col \in 0..(Cols - 1) /\ t.autowrap \in BOOLEAN /\ t.wrap \in BOOLEAN
      /\ t.attrs \in LS!Attributes /\ t.count \in Nat /\ t.saved \in {<<>>} \cup LS!Positions
  BY ScreenFields
<1>2. /\ Bold \in Seq(Seq(LS!CsiBytes)) /\ Ansi \in Seq(Seq(LS!CsiBytes))
      /\ Extended \in Seq(Seq(LS!CsiBytes))
  <2>1. {"0", "1", "3", "5", "8"} \subseteq LS!CsiBytes
    BY DigitsAre DEF LS!CsiBytes
  <2> QED BY <2>1 DEF Bold, Ansi, Extended
<1>3. ASSUME NEW op \in {"wrap_off", "wrap_on"}
      PROVE  /\ After(LS!scan(s, LS!Encode(op)), s.col, op = "wrap_on", s.sgr, s.saved)
             /\ Stands(LS!Perform(t, op), t.col, t.wrap, op = "wrap_on", t.attrs, t.count, t.saved)
  <2>1. CASE op = "wrap_off"
    <3>1. LS!Encode(op) = LS!Csi(<<"?", "7">>, "l") /\ (op = "wrap_on") = FALSE
      BY <2>1 DEF LS!Encode
    <3>2. LS!Perform(t, op) = [t EXCEPT !.autowrap = FALSE]
      BY <2>1 DEF LS!Perform
    <3>3. After(LS!scan(s, LS!Csi(<<"?", "7">>, "l")), s.col, FALSE, s.sgr, s.saved)
      BY CsiEffects
    <3>4. Stands([t EXCEPT !.autowrap = FALSE], t.col, t.wrap, FALSE, t.attrs, t.count, t.saved)
      BY ScreenFields
    <3> QED BY <3>1, <3>2, <3>3, <3>4, Zenon
  <2>2. CASE op = "wrap_on"
    <3>1. LS!Encode(op) = LS!Csi(<<"?", "7">>, "h") /\ (op = "wrap_on") = TRUE
      BY <2>2 DEF LS!Encode
    <3>2. LS!Perform(t, op) = [t EXCEPT !.autowrap = TRUE]
      BY <2>2 DEF LS!Perform
    <3>3. After(LS!scan(s, LS!Csi(<<"?", "7">>, "h")), s.col, TRUE, s.sgr, s.saved)
      BY CsiEffects
    <3>4. Stands([t EXCEPT !.autowrap = TRUE], t.col, t.wrap, TRUE, t.attrs, t.count, t.saved)
      BY ScreenFields
    <3> QED BY <3>1, <3>2, <3>3, <3>4, Zenon
  <2> QED BY <2>1, <2>2
<1>4. /\ After(LS!scan(s, LS!Encode("save")), s.col, s.autowrap, s.sgr, <<s.col, s.sgr>>)
      /\ Stands(LS!Perform(t, "save"), t.col, t.wrap, t.autowrap, t.attrs, t.count,
                <<t.col, t.wrap, t.attrs, t.count>>)
  <2>1. LS!Encode("save") = <<"esc", "7">>
    BY DEF LS!Encode
  <2>2. After(LS!scan(s, <<"esc", "7">>), s.col, s.autowrap, s.sgr, <<s.col, s.sgr>>)
    BY EscEffects
  <2> DEFINE p == <<t.col, t.wrap, t.attrs, t.count>>
  <2>3. LS!Perform(t, "save") = [t EXCEPT !.saved = p]
    BY DEF LS!Perform
  <2>4. p \in LS!Positions
    BY <1>1 DEF LS!Positions
  <2> HIDE DEF p
  <2>5. Stands([t EXCEPT !.saved = p], t.col, t.wrap, t.autowrap, t.attrs, t.count, p)
    BY <2>4, ScreenFields
  <2>6. Stands(LS!Perform(t, "save"), t.col, t.wrap, t.autowrap, t.attrs, t.count, p)
    BY <2>3, <2>5
  <2> QED BY <2>1, <2>2, <2>6 DEF p
<1>5. /\ s.saved = <<>> =>
            After(LS!scan(s, LS!Encode("restore")), s.col, s.autowrap, s.sgr, s.saved)
      /\ s.saved # <<>> =>
            After(LS!scan(s, LS!Encode("restore")), s.saved[1], s.autowrap, s.saved[2], s.saved)
  <2>1. LS!Encode("restore") = <<"esc", "8">>
    BY DEF LS!Encode
  <2> QED BY <2>1, EscEffects
<1>6. t.saved = <<>> =>
         Stands(LS!Perform(t, "restore"), t.col, t.wrap, t.autowrap, t.attrs, t.count, t.saved)
  <2>1. t.saved = <<>> => LS!Perform(t, "restore") = t
    BY DEF LS!Perform
  <2> QED BY <2>1, ScreenFields
<1>7. ASSUME t.saved # <<>>
      PROVE  Stands(LS!Perform(t, "restore"), t.saved[1], t.saved[2], t.autowrap, t.saved[3],
                    t.saved[4], t.saved)
  <2>1. t.saved \in LS!Positions
    BY <1>1, <1>7
  <2> DEFINE c == t.saved[1]  w == t.saved[2]  a == t.saved[3]  n == t.saved[4]
  <2>2. c \in 0..(Cols - 1) /\ w \in BOOLEAN /\ a \in LS!Attributes /\ n \in Nat
    BY <2>1 DEF LS!Positions
  <2>3. LS!Perform(t, "restore") = [t EXCEPT !.col = c, !.wrap = w, !.attrs = a, !.count = n]
    BY <1>7 DEF LS!Perform
  <2> HIDE DEF c, w, a, n
  <2>4. Stands(LS!Perform(t, "restore"), c, w, t.autowrap, a, n, t.saved)
    BY <1>1, <2>2, <2>3 DEF Stands, LS!Terminals
  <2> QED BY <2>4 DEF c, w, a, n
<1>8. /\ After(LS!scan(s, LS!Encode("reset")), 0, TRUE, <<>>, <<>>)
      /\ Stands(LS!Perform(t, "reset"), 0, FALSE, TRUE, {}, 0, <<>>)
  <2>1. LS!Encode("reset") = <<"esc", "c">>
    BY DEF LS!Encode
  <2>2. LS!Perform(t, "reset") = [col |-> 0, wrap |-> FALSE, autowrap |-> TRUE, attrs |-> {},
                                  count |-> 0, saved |-> <<>>]
    BY DEF LS!Perform, LS!Plain
  <2>3. Stands(LS!Perform(t, "reset"), 0, FALSE, TRUE, {}, 0, <<>>)
    <3>1. {} \in LS!Attributes /\ 0 \in 0..(Cols - 1)
      BY DEF LS!Attributes
    <3> DEFINE e == <<>>
    <3>2. e \in {<<>>} \cup LS!Positions
      OBVIOUS
    <3>3. LS!Perform(t, "reset") = [col |-> 0, wrap |-> FALSE, autowrap |-> TRUE, attrs |-> {},
                                    count |-> 0, saved |-> e]
      BY <2>2
    <3> HIDE DEF e
    <3>4. Stands(LS!Perform(t, "reset"), 0, FALSE, TRUE, {}, 0, e)
      <4>1. LS!Perform(t, "reset") \in LS!Terminals
        <5>1. ASSUME NEW c \in 0..(Cols - 1), NEW a \in LS!Attributes, NEW n \in Nat
              PROVE  [col |-> c, wrap |-> FALSE, autowrap |-> TRUE, attrs |-> a,
                      count |-> n, saved |-> e] \in LS!Terminals
          BY <3>2 DEF LS!Terminals
        <5>2. 0 \in Nat
          OBVIOUS
        <5> QED BY <3>1, <3>3, <5>1, <5>2, Zenon
      <4>2. LET r == LS!Perform(t, "reset")
            IN  /\ r.col = 0 /\ r.wrap = FALSE /\ r.autowrap = TRUE /\ r.attrs = {}
                /\ r.count = 0 /\ r.saved = e
        BY <3>3
      <4> QED BY <4>1, <4>2 DEF Stands
    <3> QED BY <3>4 DEF e
  <2> QED BY <2>1, <2>3, EscEffects
<1>9. /\ After(LS!scan(s, LS!Encode("plain")), s.col, s.autowrap, <<>>, s.saved)
      /\ Stands(LS!Perform(t, "plain"), t.col, t.wrap, t.autowrap, {}, 0, t.saved)
  <2>1. LS!Encode("plain") = LS!Csi(<<>>, "m")
    BY DEF LS!Encode
  <2>2. After(LS!scan(s, LS!Csi(<<>>, "m")), s.col, s.autowrap, <<>>, s.saved)
    BY CsiEffects
  <2>3. LS!Perform(t, "plain") = [t EXCEPT !.attrs = {}, !.count = 0]
    BY DEF LS!Perform, LS!Plain
  <2>4. {} \in LS!Attributes /\ 0 \in Nat
    BY DEF LS!Attributes
  <2> DEFINE a == {}
             n == 0
  <2>5. LS!Perform(t, "plain") = [t EXCEPT !.attrs = a, !.count = n]
    BY <2>3
  <2>6. a \in LS!Attributes /\ n \in Nat
    BY <2>4
  <2> HIDE DEF a, n
  <2>7. Stands(LS!Perform(t, "plain"), t.col, t.wrap, t.autowrap, a, n, t.saved)
    <3>1. \A x \in LS!Attributes, k \in Nat :
             Stands([t EXCEPT !.attrs = x, !.count = k],
                    t.col, t.wrap, t.autowrap, x, k, t.saved)
      BY ScreenFields
    <3>2. Stands([t EXCEPT !.attrs = a, !.count = n],
                 t.col, t.wrap, t.autowrap, a, n, t.saved)
      BY <2>6, <3>1, Zenon
    <3> QED BY <2>5, <3>2, Zenon
  <2>8. After(LS!scan(s, LS!Encode("plain")), s.col, s.autowrap, <<>>, s.saved)
    BY <2>1, <2>2
  <2> QED BY <2>7, <2>8 DEF a, n
<1>10. /\ After(LS!scan(s, LS!Encode("bold")), s.col, s.autowrap, LS!push_sgr(s.sgr, Bold), s.saved)
       /\ Stands(LS!Perform(t, "bold"), t.col, t.wrap, t.autowrap, t.attrs \cup {Bold},
                 t.count + 1, t.saved)
  <2>1. LS!Encode("bold") = LS!Csi(<<"1">>, "m")
    BY DEF LS!Encode
  <2>2. After(LS!scan(s, LS!Csi(<<"1">>, "m")), s.col, s.autowrap, LS!push_sgr(s.sgr, Bold), s.saved)
    BY CsiEffects DEF Bold
  <2>3. LS!Perform(t, "bold") = [t EXCEPT !.attrs = t.attrs \cup {Bold}, !.count = t.count + 1]
    BY DEF LS!Perform, Bold
  <2>4. t.attrs \cup {Bold} \in LS!Attributes /\ t.count + 1 \in Nat
    BY <1>1, <1>2 DEF LS!Attributes
  <2> DEFINE a == t.attrs \cup {Bold}
             n == t.count + 1
  <2>5. LS!Perform(t, "bold") = [t EXCEPT !.attrs = a, !.count = n]
    BY <2>3
  <2>6. a \in LS!Attributes /\ n \in Nat
    BY <2>4
  <2> HIDE DEF a, n
  <2>7. Stands(LS!Perform(t, "bold"), t.col, t.wrap, t.autowrap, a, n, t.saved)
    <3>1. \A x \in LS!Attributes, k \in Nat :
             Stands([t EXCEPT !.attrs = x, !.count = k],
                    t.col, t.wrap, t.autowrap, x, k, t.saved)
      BY ScreenFields
    <3>2. Stands([t EXCEPT !.attrs = a, !.count = n],
                 t.col, t.wrap, t.autowrap, a, n, t.saved)
      BY <2>6, <3>1, Zenon
    <3> QED BY <2>5, <3>2, Zenon
  <2>8. After(LS!scan(s, LS!Encode("bold")), s.col, s.autowrap, LS!push_sgr(s.sgr, Bold), s.saved)
    BY <2>1, <2>2
  <2> QED BY <2>7, <2>8 DEF a, n
<1>11. /\ After(LS!scan(s, LS!Encode("black")), s.col, s.autowrap,
                LS!push_sgr(LS!push_sgr(s.sgr, Ansi), Extended), s.saved)
       /\ Stands(LS!Perform(t, "black"), t.col, t.wrap, t.autowrap,
                 t.attrs \cup {Ansi, Extended}, t.count + 2, t.saved)
  <2>1. LS!Encode("black") = LS!Csi(Black, "m")
    BY DEF LS!Encode, Black
  <2>2. After(LS!scan(s, LS!Csi(Black, "m")), s.col, s.autowrap,
              LS!push_sgr(LS!push_sgr(s.sgr, Ansi), Extended), s.saved)
    BY CsiEffects DEF Ansi, Extended
  <2>3. LS!Perform(t, "black")
           = [t EXCEPT !.attrs = t.attrs \cup {Ansi, Extended}, !.count = t.count + 2]
    BY DEF LS!Perform, Ansi, Extended
  <2>4. t.attrs \cup {Ansi, Extended} \in LS!Attributes /\ t.count + 2 \in Nat
    BY <1>1, <1>2 DEF LS!Attributes
  <2> DEFINE a == t.attrs \cup {Ansi, Extended}
             n == t.count + 2
  <2>5. LS!Perform(t, "black") = [t EXCEPT !.attrs = a, !.count = n]
    BY <2>3
  <2>6. a \in LS!Attributes /\ n \in Nat
    BY <2>4
  <2> HIDE DEF a, n
  <2>7. Stands(LS!Perform(t, "black"), t.col, t.wrap, t.autowrap, a, n, t.saved)
    <3>1. \A x \in LS!Attributes, k \in Nat :
             Stands([t EXCEPT !.attrs = x, !.count = k],
                    t.col, t.wrap, t.autowrap, x, k, t.saved)
      BY ScreenFields
    <3>2. Stands([t EXCEPT !.attrs = a, !.count = n],
                 t.col, t.wrap, t.autowrap, a, n, t.saved)
      BY <2>6, <3>1, Zenon
    <3> QED BY <2>5, <3>2, Zenon
  <2>8. After(LS!scan(s, LS!Encode("black")), s.col, s.autowrap, 
              LS!push_sgr(LS!push_sgr(s.sgr, Ansi), Extended), s.saved)
    BY <2>1, <2>2
  <2> QED BY <2>7, <2>8 DEF a, n
<1> QED
  BY <1>2, <1>3, <1>4, <1>5, <1>6, <1>7, <1>8, <1>9, <1>10, <1>11

-----------------------------------------------------------------------------
(* The line shadow: beginning inside a sequence *)

\* The shadow that has read nothing.
LEMMA NewShadow ==
    /\ LS!new \in LS!Shadows /\ Between(LS!new) /\ LS!new.col = 0 /\ LS!new.sgr = <<>>
    /\ LS!new.saved = <<>>
    /\ Len(LS!new.sgr) = 0 /\ LS!new.state = "Ground" /\ LS!new.utf8 = 0
<1> DEFINE e == <<>>
<1>1. e \in LS!Segments /\ e \in {<<>>} \cup (Nat \X LS!Segments) /\ e \in Seq(LS!CsiBytes)
      /\ Len(e) = 0
  BY DEF LS!Segments
<1>2. LS!new = [col |-> 0, autowrap |-> TRUE, sgr |-> e, saved |-> e, state |-> "Ground",
                csi |-> e, overflow |-> FALSE, utf8 |-> 0]
  BY DEF LS!new
<1> HIDE DEF e
<1>3. ASSUME NEW n, n = [col |-> 0, autowrap |-> TRUE, sgr |-> e, saved |-> e, state |-> "Ground",
                         csi |-> e, overflow |-> FALSE, utf8 |-> 0]
      PROVE  /\ n \in LS!Shadows /\ n.col = 0 /\ n.sgr = e /\ n.saved = e
             /\ n.state = "Ground" /\ n.utf8 = 0
  BY <1>1, <1>3 DEF LS!Shadows
<1>4. /\ LS!new \in LS!Shadows /\ LS!new.col = 0 /\ LS!new.sgr = e /\ LS!new.saved = e
      /\ LS!new.state = "Ground" /\ LS!new.utf8 = 0
  BY <1>2, <1>3, Zenon
<1> QED
  BY <1>1, <1>4 DEF Between, e

\* A terminal stays tidy.
LEMMA PerformTidy ==
    ASSUME Cols \in Nat \ {0}, MaxSgr \in Nat \ {0}, MaxCsi \in Nat, MaxCsi >= 9,
           NEW t, Tidy(t), NEW op \in LS!Operations
    PROVE  Tidy(LS!Perform(t, op))
<1>1. t \in LS!Terminals /\ (t.wrap => t.col = Cols - 1) /\ t.wrap \in BOOLEAN
  BY ScreenFields DEF Tidy
<1>2. CASE op \in ColumnOps
  <2>1. InStep(LS!new, t, op)
    BY <1>1, <1>2, NewShadow, ColumnInStep
  <2>2. PICK c \in Nat, d \in 0..(Cols - 1), pending \in BOOLEAN :
           /\ Stands(LS!Perform(t, op), d, pending, t.autowrap, t.attrs, t.count, t.saved)
           /\ pending => d = Cols - 1
    BY <1>1, <2>1 DEF InStep
  <2> QED BY <2>2 DEF Tidy, Stands
<1>3. CASE op \in {"wrap_off", "wrap_on"}
  <2>1. Stands(LS!Perform(t, op), t.col, t.wrap, op = "wrap_on", t.attrs, t.count, t.saved)
    BY <1>1, <1>3, NewShadow, OtherEffects
  <2> QED BY <1>1, <2>1 DEF Tidy, Stands
<1>4. CASE op = "save"
  <2> DEFINE p == <<t.col, t.wrap, t.attrs, t.count>>
  <2>1. Stands(LS!Perform(t, "save"), t.col, t.wrap, t.autowrap, t.attrs, t.count, p)
    BY <1>1, NewShadow, OtherEffects
  <2>2. p[1] = t.col /\ p[2] = t.wrap
    OBVIOUS
  <2> HIDE DEF p
  <2> QED BY <1>1, <1>4, <2>1, <2>2 DEF Tidy, Stands
<1>5. CASE op = "restore"
  <2>1. CASE t.saved = <<>>
    <3>1. Stands(LS!Perform(t, "restore"), t.col, t.wrap, t.autowrap, t.attrs, t.count, t.saved)
      BY <1>1, <2>1, NewShadow, OtherEffects
    <3> QED BY <1>1, <1>5, <2>1, <3>1 DEF Tidy, Stands
  <2>2. CASE t.saved # <<>>
    <3>1. Stands(LS!Perform(t, "restore"), t.saved[1], t.saved[2], t.autowrap, t.saved[3],
                 t.saved[4], t.saved)
      BY <1>1, <2>2, NewShadow, OtherEffects
    <3> QED BY <1>1, <1>5, <2>2, <3>1 DEF Tidy, Stands
  <2> QED BY <2>1, <2>2
<1>6. CASE op = "reset"
  <2>1. Stands(LS!Perform(t, "reset"), 0, FALSE, TRUE, {}, 0, <<>>)
    BY <1>1, NewShadow, OtherEffects
  <2> QED BY <1>6, <2>1 DEF Tidy, Stands
<1>7. CASE op \in {"plain", "bold", "black"}
  <2>1. PICK a, n : Stands(LS!Perform(t, op), t.col, t.wrap, t.autowrap, a, n, t.saved)
    <3>1. /\ Stands(LS!Perform(t, "plain"), t.col, t.wrap, t.autowrap, {}, 0, t.saved)
          /\ Stands(LS!Perform(t, "bold"), t.col, t.wrap, t.autowrap, t.attrs \cup {Bold},
                    t.count + 1, t.saved)
          /\ Stands(LS!Perform(t, "black"), t.col, t.wrap, t.autowrap,
                    t.attrs \cup {Ansi, Extended}, t.count + 2, t.saved)
      BY <1>1, NewShadow, OtherEffects
    <3> QED BY <1>7, <3>1
  <2> QED BY <1>1, <2>1 DEF Tidy, Stands
<1> QED
  BY <1>2, <1>3, <1>4, <1>5, <1>6, <1>7 DEF LS!Operations, ColumnOps

-----------------------------------------------------------------------------
\* An operation whose beginning is lost.

LineBytes == LS!Controls \cup LS!CsiBytes \cup LS!Finals \cup {"[", "]", "(", "x", "u", "cont", "c"}

\* The last bytes of more begin nothing.
Ends(w) ==
    /\ w \in Seq(LineBytes)
    /\ Len(w) >= 2 => w[Len(w)] \notin {"esc", "u"}
    /\ Len(w) >= 3 => w[Len(w) - 1] \notin {"esc", "u"}

\* A control sequence ends in a byte that ends it,
LEMMA CsiEnds ==
    ASSUME NEW p \in Seq(LS!CsiBytes), NEW final \in LS!Finals
    PROVE  Ends(LS!Csi(p, final))
<1> DEFINE w == LS!Csi(p, final)
           n == Len(p)
<1>1. p \in Seq(LineBytes) /\ <<"esc", "[">> \in Seq(LineBytes) /\ <<final>> \in Seq(LineBytes)
  BY DEF LineBytes, LS!Controls
<1>2. /\ w \in Seq(LineBytes) /\ Len(w) = n + 3 /\ n \in Nat /\ w[1] = "esc" /\ w[2] = "["
      /\ \A i \in 1..n : w[i + 2] = p[i]
      /\ w[n + 3] = final
  <2> HIDE DEF n
  <2> QED BY <1>1 DEF LS!Csi, n
<1>3. \A b \in LS!CsiBytes \cup LS!Finals : b \notin {"esc", "u"}
  BY DEF LS!CsiBytes, LS!Finals, LS!Digits
<1>4. w[n + 2] \notin {"esc", "u"}
  <2>1. CASE n = 0
    BY <1>2, <2>1
  <2>2. CASE n >= 1
    <3>1. n \in 1..n /\ p[n] \in LS!CsiBytes
      BY <2>2
    <3>2. w[n + 2] = p[n]
      BY <1>2, <3>1
    <3> QED BY <1>3, <3>1, <3>2
  <2> QED BY <1>2, <2>1, <2>2
<1> HIDE DEF w, n
<1>5. w[Len(w)] \notin {"esc", "u"} /\ w[Len(w) - 1] \notin {"esc", "u"}
  BY <1>2, <1>3, <1>4
<1> QED
  BY <1>2, <1>5 DEF Ends, w

\* and so does every operation.
LEMMA EncodeEnds ==
    ASSUME NEW op \in LS!Operations
    PROVE  Ends(LS!Encode(op))
<1>1. ASSUME NEW a \in LineBytes PROVE Ends(<<a>>)
  BY DEF Ends
<1>2. ASSUME NEW a \in LineBytes, NEW b \in LineBytes \ {"esc", "u"} PROVE Ends(<<a, b>>)
  BY DEF Ends
<1>3. ASSUME NEW a \in LineBytes, NEW b \in LineBytes \ {"esc", "u"}, NEW c \in LineBytes \ {"esc", "u"}
      PROVE  Ends(<<a, b, c>>)
  BY DEF Ends
<1>4. {"x", "u", "cont", "cr", "bs", "tab", "lf", "esc", "E", "7", "8", "c", "(", "]", "bel"}
         \subseteq LineBytes
  BY DigitsAre DEF LineBytes, LS!Controls, LS!CsiBytes, LS!Finals
<1>5. /\ Ends(<<"x">>) /\ Ends(<<"u", "cont", "cont">>) /\ Ends(<<"cr">>) /\ Ends(<<"bs">>)
      /\ Ends(<<"tab">>) /\ Ends(<<"lf">>) /\ Ends(<<"esc", "E">>) /\ Ends(<<"esc", "7">>)
      /\ Ends(<<"esc", "8">>) /\ Ends(<<"esc", "c">>) /\ Ends(<<"esc", "(", "x">>)
  BY <1>1, <1>2, <1>3, <1>4
<1>6. Ends(<<"esc", "]", "x", "cr", "bel">>)
  BY <1>4 DEF Ends
<1>7. /\ <<>> \in Seq(LS!CsiBytes) /\ <<"1">> \in Seq(LS!CsiBytes) /\ <<"2">> \in Seq(LS!CsiBytes)
      /\ Black \in Seq(LS!CsiBytes) /\ <<"?", "7">> \in Seq(LS!CsiBytes)
  <2>1. \A p \in {<<>>, <<"1">>, <<"2">>, Black} : p \in Seq(LS!CsiBytes)
    BY PlainParameters
  <2>2. <<"?", "7">> \in Seq(LS!CsiBytes)
    BY PlainParameters
  <2> QED BY <2>1, <2>2, Zenon
<1>8. {"m", "G", "C", "D", "H", "h", "l"} \subseteq LS!Finals
  BY DEF LS!Finals
<1>9. /\ Ends(LS!Csi(<<"2">>, "G")) /\ Ends(LS!Csi(<<>>, "H")) /\ Ends(LS!Csi(<<"2">>, "C"))
      /\ Ends(LS!Csi(<<>>, "D")) /\ Ends(LS!Csi(<<"?", "7">>, "l"))
      /\ Ends(LS!Csi(<<"?", "7">>, "h"))
      /\ Ends(LS!Csi(<<>>, "m")) /\ Ends(LS!Csi(<<"1">>, "m")) /\ Ends(LS!Csi(Black, "m"))
  <2>1. \A final \in {"m", "G", "C", "D", "H", "h", "l"}, p \in Seq(LS!CsiBytes) : Ends(LS!Csi(p, final))
    BY <1>8, CsiEnds
  <2> QED BY <1>7, <2>1
<1>10. op \in {"print", "wide", "return", "backspace", "tab", "newline", "next_line", "save",
               "restore", "reset", "title", "charset"} => Ends(LS!Encode(op))
  BY <1>5, <1>6 DEF LS!Encode
<1>11. op \in {"column2", "home", "right2", "left", "wrap_off", "wrap_on", "plain", "bold", "black"}
         => Ends(LS!Encode(op))
  BY <1>9 DEF LS!Encode, Black
<1> QED
  BY <1>10, <1>11 DEF LS!Operations

\* The rest of it leaves the shadow with nothing but a column.
LEMMA RestRead ==
    ASSUME Cols \in Nat \ {0}, MaxSgr \in Nat \ {0}, NEW w, Ends(w), NEW kept \in {1, 2},
           kept < Len(w), NEW r, r = LS!scan(LS!new, SubSeq(w, Len(w) - kept + 1, Len(w)))
    PROVE  Between(r) /\ r.col <= Cols /\ r.sgr = <<>> /\ r.saved = <<>>
<1> DEFINE n == Len(w)
           x == w[n]
           y == w[n - 1]
<1>1. w \in Seq(LineBytes) /\ n \in Nat /\ n > kept
  BY DEF Ends
<1>2. x \notin {"esc", "u"} /\ (kept = 2 => y \notin {"esc", "u"})
  BY <1>1 DEF Ends
<1>3. ASSUME NEW s, Between(s), s.col <= Cols, s.sgr = <<>>, s.saved = <<>>,
             NEW b, b \notin {"esc", "u"}
      PROVE  LET u == LS!step(s, b)
             IN  Between(u) /\ u.col <= Cols /\ u.sgr = <<>> /\ u.saved = <<>>
  <2>1. s \in LS!Shadows
    BY <1>3 DEF Between
  <2>2. PICK c \in Nat : After(LS!step(s, b), c, s.autowrap, s.sgr, s.saved) /\ c <= Cols
    BY <1>3, <2>1, GroundEffects
  <2> QED BY <1>3, <2>2 DEF After
<1>4. Between(LS!new) /\ LS!new.col <= Cols /\ LS!new.sgr = <<>> /\ LS!new.saved = <<>>
      /\ LS!new \in LS!Shadows
  BY NewShadow
<1>5. CASE kept = 1
  <2>1. SubSeq(w, n, n) = <<x>>
    <3>1. x \in LineBytes
      BY <1>1
    <3>2. SubSeq(w, n, n) \in Seq(LineBytes) /\ Len(SubSeq(w, n, n)) = 1 /\ SubSeq(w, n, n)[1] = x
      BY <1>1
    <3>3. <<x>> \in Seq(LineBytes) /\ Len(<<x>>) = 1 /\ <<x>>[1] = x
      BY <3>1
    <3> QED BY <3>2, <3>3, ShortEqual
  <2>2. n - kept + 1 = n
    BY <1>1, <1>5
  <2> HIDE DEF x, n
  <2>3. r = LS!step(LS!new, x)
    <3>1. LS!scan(LS!new, <<x>>) = LS!step(LS!new, x)
      BY <1>4, ReadOne
    <3> QED BY <2>1, <2>2, <3>1 DEF n
  <2> QED BY <1>2, <1>3, <1>4, <2>3
<1>6. CASE kept = 2
  <2>1. SubSeq(w, n - 1, n) = <<y, x>>
    <3>1. x \in LineBytes /\ y \in LineBytes
      BY <1>1, <1>6
    <3> DEFINE l == SubSeq(w, n - 1, n)
    <3>2. l \in Seq(LineBytes) /\ Len(l) = 2 /\ l[1] = y /\ l[2] = x
      <4>1. \A i \in (n - 1)..n : w[i] \in LineBytes
        BY <1>1, <1>6
      <4>2. l \in Seq(LineBytes) /\ Len(l) = n - (n - 1) + 1
            /\ \A i \in 1..(n - (n - 1) + 1) : l[i] = w[(n - 1) + i - 1]
        BY <1>1, <4>1, SubSeqProperties
      <4>3. n - (n - 1) + 1 = 2 /\ (n - 1) + 1 - 1 = n - 1 /\ (n - 1) + 2 - 1 = n
        BY <1>1
      <4> HIDE DEF l, n
      <4>4. \A i \in 1..2 : l[i] = w[(n - 1) + i - 1]
        BY <4>2, <4>3
      <4> QED BY <4>2, <4>3, <4>4
    <3>3. <<y, x>> \in Seq(LineBytes) /\ Len(<<y, x>>) = 2 /\ <<y, x>>[1] = y /\ <<y, x>>[2] = x
      BY <3>1
    <3> QED BY <3>2, <3>3, ShortEqual
  <2>2. n - kept + 1 = n - 1
    BY <1>1, <1>6
  <2> HIDE DEF x, y, n
  <2>3. r = LS!step(LS!step(LS!new, y), x)
    <3>1. LS!scan(LS!new, <<y, x>>) = LS!step(LS!step(LS!new, y), x)
      BY <1>4, ReadTwo
    <3> QED BY <2>1, <2>2, <3>1 DEF n
  <2> DEFINE u == LS!step(LS!new, y)
  <2>4. Between(u) /\ u.col <= Cols /\ u.sgr = <<>> /\ u.saved = <<>>
    BY <1>2, <1>3, <1>4, <1>6
  <2> HIDE DEF u
  <2>5. LET v == LS!step(u, x)
        IN  Between(v) /\ v.col <= Cols /\ v.sgr = <<>> /\ v.saved = <<>>
    BY <1>2, <1>3, <2>4
  <2> QED BY <2>3, <2>5 DEF u
<1> QED
  BY <1>5, <1>6

-----------------------------------------------------------------------------
(* The line shadow: the invariant *)

\* What has been saved by both agrees, as far as is known of it.
SavedAgree(sv, tv, m) ==
    /\ tv = <<>> => sv = <<>>
    /\ tv # <<>> /\ m[1] => sv # <<>> /\ LS!SameColumn(sv[1], tv[1], tv[2])
    /\ tv # <<>> /\ m[2] => sv # <<>> /\ LS!SamePaint(sv[2], tv[3], tv[4])

\* The shadow's side of the invariant while it reads.
Sound(s) ==
    /\ Between(s) /\ s.col <= Cols /\ Len(s.sgr) <= MaxSgr
    /\ s.saved # <<>> => s.saved[1] <= Cols /\ Len(s.saved[2]) <= MaxSgr

\* The invariant while the shadow reads, in those words.
LEMMA WhileReading ==
    ASSUME reading = TRUE
    PROVE  LS!IInv <=> /\ Tidy(screen) /\ Sound(shadow)
                       /\ placed \in BOOLEAN /\ painted \in BOOLEAN
                       /\ marked \in BOOLEAN \X BOOLEAN
                       /\ operations \in 0..MaxOps
                       /\ placed => /\ LS!SameColumn(shadow.col, screen.col, screen.wrap)
                                    /\ shadow.autowrap = screen.autowrap
                       /\ painted => LS!SamePaint(shadow.sgr, screen.attrs, screen.count)
                       /\ SavedAgree(shadow.saved, screen.saved, marked)
  BY DEF LS!IInv, LS!Types, LS!ShadowHere, LS!WrapHere, LS!PlaceHere, LS!PaintHere,
       LS!SavedHere, Tidy, Sound, Between,
         SavedAgree

\* The same of the next state.
LEMMA WhileReadingNext ==
    ASSUME reading' = TRUE, Tidy(screen'), Sound(shadow'), placed' \in BOOLEAN, painted' \in BOOLEAN,
           marked' \in BOOLEAN \X BOOLEAN, operations' \in 0..MaxOps,
           placed' => /\ LS!SameColumn(shadow'.col, screen'.col, screen'.wrap)
                      /\ shadow'.autowrap = screen'.autowrap,
           painted' => LS!SamePaint(shadow'.sgr, screen'.attrs, screen'.count),
           SavedAgree(shadow'.saved, screen'.saved, marked')
    PROVE  LS!IInv'
  BY DEF LS!IInv, LS!Types, LS!ShadowHere, LS!WrapHere, LS!PlaceHere, LS!PaintHere,
       LS!SavedHere, Tidy, Sound, Between,
         SavedAgree

\* One operation written and read.
LEMMA WriteKeeps ==
    ASSUME LS!LineShadowAssumption, LS!IInv, NEW op \in Ops, LS!Write(op)
    PROVE  LS!IInv'
<1> DEFINE s == shadow
           t == screen
           u == LS!scan(s, LS!Encode(op))
           v == LS!Perform(t, op)
<1>1. /\ Cols \in Nat \ {0} /\ MaxSgr \in Nat \ {0} /\ MaxCsi \in Nat /\ MaxCsi >= 9
      /\ op \in LS!Operations /\ MaxOps \in Nat
  BY DEF LS!LineShadowAssumption
<1>2. /\ reading = TRUE /\ reading' = TRUE /\ operations' = operations + 1 /\ operations < MaxOps
      /\ screen' = v /\ shadow' = u
  BY DEF LS!Write, LS!IInv, LS!Types
<1>3. /\ Tidy(t) /\ Sound(s) /\ placed \in BOOLEAN /\ painted \in BOOLEAN
      /\ marked \in BOOLEAN \X BOOLEAN /\ operations \in 0..MaxOps
      /\ placed => LS!SameColumn(s.col, t.col, t.wrap) /\ s.autowrap = t.autowrap
      /\ painted => LS!SamePaint(s.sgr, t.attrs, t.count)
      /\ SavedAgree(s.saved, t.saved, marked)
  BY <1>2, WhileReading
<1>4. t \in LS!Terminals /\ (t.wrap => t.col = Cols - 1) /\ s \in LS!Shadows /\ Between(s)
  BY <1>3 DEF Tidy, Sound, Between
<1>5. Tidy(v)
  BY <1>1, <1>3, PerformTidy
<1>6. /\ placed' = (/\ \/ op \in LS!Places
                       \/ IF LS!Restores(op) THEN marked[1] ELSE placed /\ ~LS!OneOff(op)
                    /\ u.autowrap = v.autowrap)
      /\ painted' = (op \in LS!Paints \/ IF LS!Restores(op) THEN marked[2] ELSE painted)
      /\ marked' = IF op = "save" THEN <<placed, painted>> ELSE marked
  BY <1>2 DEF LS!Write
<1>7. /\ placed' \in BOOLEAN /\ painted' \in BOOLEAN /\ marked' \in BOOLEAN \X BOOLEAN
      /\ operations' \in 0..MaxOps
  <2>1. placed' \in BOOLEAN
    BY <1>6
  <2>2. marked[2] \in BOOLEAN
    BY <1>3
  <2>3. painted' \in BOOLEAN
    BY <1>3, <1>6, <2>2
  <2>4. marked' \in BOOLEAN \X BOOLEAN
    BY <1>3, <1>6
  <2>5. operations' \in 0..MaxOps
    BY <1>1, <1>2, <1>3
  <2> QED BY <2>1, <2>3, <2>4, <2>5
<1>8. /\ t.col \in 0..(Cols - 1) /\ t.wrap \in BOOLEAN /\ t.attrs \in LS!Attributes
      /\ t.count \in Nat
      /\ s.col \in Nat /\ s.sgr \in LS!Segments /\ s.saved \in {<<>>} \cup (Nat \X LS!Segments)
      /\ t.autowrap \in BOOLEAN /\ s.autowrap \in BOOLEAN
  BY <1>1, <1>4, ScreenFields, ShadowFields
<1> HIDE DEF s, t, u, v
\* It is enough to follow the columns, the attributes and what is saved.
<1>9. SUFFICES /\ Sound(u)
               /\ placed' => LS!SameColumn(u.col, v.col, v.wrap) /\ u.autowrap = v.autowrap
               /\ painted' => LS!SamePaint(u.sgr, v.attrs, v.count)
               /\ SavedAgree(u.saved, v.saved, marked')
  <2>1. (Sound(u) /\ Tidy(v)) => Sound(shadow') /\ Tidy(screen')
    BY <1>2
  <2> QED BY <1>2, <1>5, <1>7, WhileReadingNext
<1>10. ASSUME NEW c \in Nat, NEW aw, u.autowrap = aw,
              After(u, c, aw, s.sgr, s.saved), c <= Cols
       PROVE  Sound(u)
  BY <1>3, <1>10 DEF Sound, After
<1>11. CASE op \in ColumnOps
  <2>1. PICK c \in Nat, d \in 0..(Cols - 1), pending \in BOOLEAN :
           /\ After(u, c, s.autowrap, s.sgr, s.saved)
           /\ c <= Cols
           /\ Stands(v, d, pending, t.autowrap, t.attrs, t.count, t.saved)
           /\ StaysSame(s, t, op, c, d, pending)
    <3>1. InStep(s, t, op)
      BY <1>1, <1>4, <1>11, ColumnInStep
    <3>2. s.col <= Cols
      BY <1>3 DEF Sound
    <3> QED BY <1>4, <3>1, <3>2 DEF InStep, u, v
  <2>2. op \notin LS!Paints /\ ~LS!Restores(op) /\ op # "save"
    BY <1>11 DEF ColumnOps, LS!Paints, LS!Restores
  <2>3. marked' = marked /\ painted' = painted
    BY <1>3, <1>6, <2>2
  <2>4. Sound(u)
    BY <1>10, <2>1 DEF After
  <2>5. placed' => LS!SameColumn(u.col, v.col, v.wrap) /\ u.autowrap = v.autowrap
    <3> SUFFICES ASSUME placed' PROVE LS!SameColumn(c, d, pending) /\ u.autowrap = v.autowrap
      BY <2>1 DEF After, Stands
    <3>1. u.autowrap = v.autowrap /\ u.autowrap = s.autowrap /\ v.autowrap = t.autowrap
      BY <1>6, <2>1 DEF After, Stands
    <3>2. op \in LS!Places \/ (placed /\ ~(op \in {"backspace", "left"} /\ t.wrap))
      BY <1>6, <2>2 DEF LS!OneOff, t
    <3> QED BY <1>3, <2>1, <3>1, <3>2 DEF StaysSame
  <2>6. painted' => LS!SamePaint(u.sgr, v.attrs, v.count)
    BY <1>3, <2>1, <2>3 DEF After, Stands
  <2>7. SavedAgree(u.saved, v.saved, marked')
    BY <1>3, <2>1, <2>3 DEF After, Stands
  <2> QED BY <2>4, <2>5, <2>6, <2>7
<1>12. CASE op \in {"wrap_off", "wrap_on"}
  <2>1. /\ After(u, s.col, op = "wrap_on", s.sgr, s.saved)
        /\ Stands(v, t.col, t.wrap, op = "wrap_on", t.attrs, t.count, t.saved)
    BY <1>1, <1>4, <1>12, OtherEffects DEF u, v
  <2>2. op \notin LS!Paints /\ op \notin LS!Places /\ ~LS!Restores(op) /\ op # "save"
        /\ ~LS!OneOff(op)
    BY <1>12 DEF LS!Paints, LS!Places, LS!Restores, LS!OneOff
  <2>3. marked' = marked /\ painted' = painted /\ (placed' => placed)
    BY <1>3, <1>6, <2>2
  <2>4. Sound(u)
    BY <1>3, <1>8, <1>10, <2>1 DEF After, Sound
  <2>5. placed' => LS!SameColumn(u.col, v.col, v.wrap) /\ u.autowrap = v.autowrap
    BY <1>3, <1>6, <2>1, <2>3 DEF After, Stands
  <2>6. painted' => LS!SamePaint(u.sgr, v.attrs, v.count)
    BY <1>3, <2>1, <2>3 DEF After, Stands
  <2>7. SavedAgree(u.saved, v.saved, marked')
    BY <1>3, <2>1, <2>3 DEF After, Stands
  <2> QED BY <2>4, <2>5, <2>6, <2>7
<1>13. CASE op = "save"
  <2> DEFINE sv == <<s.col, s.sgr>>
             tv == <<t.col, t.wrap, t.attrs, t.count>>
             mv == <<placed, painted>>
  <2>1. /\ After(u, s.col, s.autowrap, s.sgr, sv)
        /\ Stands(v, t.col, t.wrap, t.autowrap, t.attrs, t.count, tv)
    BY <1>1, <1>4, <1>13, OtherEffects DEF u, v
  <2>2. op \notin LS!Paints /\ op \notin LS!Places /\ ~LS!Restores(op) /\ ~LS!OneOff(op)
    BY <1>13 DEF LS!Paints, LS!Places, LS!Restores, LS!OneOff
  <2>3. marked' = mv /\ painted' = painted /\ (placed' => placed)
    BY <1>3, <1>6, <1>13, <2>2
  <2>4. /\ sv # <<>> /\ sv[1] = s.col /\ sv[2] = s.sgr
        /\ tv # <<>> /\ tv[1] = t.col /\ tv[2] = t.wrap /\ tv[3] = t.attrs /\ tv[4] = t.count
        /\ mv[1] = placed /\ mv[2] = painted
    OBVIOUS
  <2> HIDE DEF sv, tv, mv
  <2>5. Sound(u)
    BY <1>3, <2>1, <2>4 DEF After, Sound
  <2>6. placed' => LS!SameColumn(u.col, v.col, v.wrap) /\ u.autowrap = v.autowrap
    BY <1>3, <2>1, <2>3 DEF After, Stands
  <2>7. painted' => LS!SamePaint(u.sgr, v.attrs, v.count)
    BY <1>3, <2>1, <2>3 DEF After, Stands
  <2>8. SavedAgree(sv, tv, mv)
    BY <1>3, <2>4 DEF SavedAgree
  <2>9. SavedAgree(u.saved, v.saved, marked')
    BY <2>1, <2>3, <2>8 DEF After, Stands
  <2> QED BY <2>5, <2>6, <2>7, <2>9
<1>14. CASE op = "restore" /\ t.saved = <<>>
  <2>1. s.saved = <<>>
    BY <1>3, <1>14 DEF SavedAgree
  <2>2. /\ After(u, s.col, s.autowrap, s.sgr, s.saved)
        /\ Stands(v, t.col, t.wrap, t.autowrap, t.attrs, t.count, t.saved)
    BY <1>1, <1>4, <1>14, <2>1, OtherEffects DEF u, v
  <2>3. op \notin LS!Paints /\ op \notin LS!Places /\ ~LS!Restores(op) /\ ~LS!OneOff(op)
        /\ op # "save"
    BY <1>14 DEF LS!Paints, LS!Places, LS!Restores, LS!OneOff, t
  <2>4. marked' = marked /\ painted' = painted /\ (placed' => placed)
    BY <1>3, <1>6, <2>3
  <2>5. Sound(u)
    BY <1>3, <1>8, <1>10, <2>2 DEF After, Sound
  <2>6. placed' => LS!SameColumn(u.col, v.col, v.wrap) /\ u.autowrap = v.autowrap
    BY <1>3, <2>2, <2>4 DEF After, Stands
  <2>7. painted' => LS!SamePaint(u.sgr, v.attrs, v.count)
    BY <1>3, <2>2, <2>4 DEF After, Stands
  <2>8. SavedAgree(u.saved, v.saved, marked')
    BY <1>3, <2>2, <2>4 DEF After, Stands
  <2> QED BY <2>5, <2>6, <2>7, <2>8
<1>15. CASE op = "restore" /\ t.saved # <<>>
  <2>1. Stands(v, t.saved[1], t.saved[2], t.autowrap, t.saved[3], t.saved[4], t.saved)
    BY <1>1, <1>4, <1>15, OtherEffects DEF u, v
  <2>2. op \notin LS!Paints /\ op \notin LS!Places /\ LS!Restores(op) /\ op # "save"
    BY <1>15 DEF LS!Paints, LS!Places, LS!Restores, LS!OneOff, t
  <2>3. /\ marked' = marked /\ painted' = marked[2]
        /\ placed' => marked[1] /\ u.autowrap = v.autowrap
    BY <1>3, <1>6, <2>2
  <2>4. CASE s.saved = <<>>
    <3>1. After(u, s.col, s.autowrap, s.sgr, s.saved)
      BY <1>1, <1>4, <1>15, <2>4, OtherEffects DEF u, v
    <3>2. ~marked[1] /\ ~marked[2]
      BY <1>3, <1>15, <2>4 DEF SavedAgree
    <3>3. Sound(u)
      BY <1>3, <1>8, <1>10, <3>1 DEF After, Sound
    <3>4. SavedAgree(u.saved, v.saved, marked')
      BY <1>3, <2>1, <2>3, <3>1 DEF After, Stands
    <3> QED BY <2>3, <3>2, <3>3, <3>4
  <2>5. CASE s.saved # <<>>
    <3>1. After(u, s.saved[1], s.autowrap, s.saved[2], s.saved)
      BY <1>1, <1>4, <1>15, <2>5, OtherEffects DEF u, v
    <3>2. /\ marked[1] => LS!SameColumn(s.saved[1], t.saved[1], t.saved[2])
          /\ marked[2] => LS!SamePaint(s.saved[2], t.saved[3], t.saved[4])
      BY <1>3, <1>15 DEF SavedAgree
    <3>3. Sound(u)
      BY <1>3, <2>5, <3>1 DEF After, Sound
    <3>4. SavedAgree(u.saved, v.saved, marked')
      BY <1>3, <2>1, <2>3, <3>1 DEF After, Stands
    <3>5. placed' => LS!SameColumn(u.col, v.col, v.wrap) /\ u.autowrap = v.autowrap
      BY <2>1, <2>3, <3>1, <3>2 DEF After, Stands
    <3>6. painted' => LS!SamePaint(u.sgr, v.attrs, v.count)
      BY <2>1, <2>3, <3>1, <3>2 DEF After, Stands
    <3> QED BY <3>3, <3>4, <3>5, <3>6
  <2> QED BY <2>4, <2>5
<1>16. CASE op = "reset"
  <2> DEFINE e == <<>>
  <2>1. After(u, 0, TRUE, e, e) /\ Stands(v, 0, FALSE, TRUE, {}, 0, e)
    BY <1>1, <1>4, <1>16, OtherEffects DEF u, v
  <2>2. Len(e) = 0 /\ LS!Painted(e) = {} /\ e = <<>>
    BY DEF LS!Painted
  <2> HIDE DEF e
  <2>3. Sound(u)
    BY <1>1, <2>1, <2>2 DEF After, Sound
  <2>4. LS!SameColumn(u.col, v.col, v.wrap) /\ u.autowrap = v.autowrap
    BY <2>1 DEF After, Stands, LS!SameColumn
  <2>5. LS!SamePaint(u.sgr, v.attrs, v.count)
    BY <2>1, <2>2 DEF After, Stands, LS!SamePaint
  <2>6. SavedAgree(u.saved, v.saved, marked')
    BY <2>1, <2>2 DEF After, Stands, SavedAgree
  <2> QED BY <2>3, <2>4, <2>5, <2>6
<1>17. CASE op \in {"plain", "bold", "black"}
  <2>1. PICK r, a, n :
           /\ r \in LS!Segments
           /\ After(u, s.col, s.autowrap, r, s.saved) /\ Len(r) <= MaxSgr
           /\ Stands(v, t.col, t.wrap, t.autowrap, a, n, t.saved)
           /\ op = "plain" \/ LS!SamePaint(s.sgr, t.attrs, t.count) => LS!SamePaint(r, a, n)
    <3>1. Len(s.sgr) <= MaxSgr
      BY <1>3 DEF Sound
    <3>2. /\ Bold \in Seq(Seq(LS!CsiBytes)) /\ Ansi \in Seq(Seq(LS!CsiBytes))
          /\ Extended \in Seq(Seq(LS!CsiBytes))
      BY <1>1, <1>4, OtherEffects
    <3>3. CASE op = "plain"
      <4> DEFINE e == <<>>
      <4>1. /\ After(u, s.col, s.autowrap, e, s.saved)
            /\ Stands(v, t.col, t.wrap, t.autowrap, {}, 0, t.saved)
        BY <1>1, <1>4, <3>3, OtherEffects DEF u, v
      <4>2. e \in LS!Segments /\ Len(e) = 0 /\ LS!Painted(e) = {}
        BY DEF LS!Painted, LS!Segments
      <4> HIDE DEF e
      <4>3. LS!SamePaint(e, {}, 0) /\ Len(e) <= MaxSgr
        BY <1>1, <4>2 DEF LS!SamePaint
      <4> QED BY <4>1, <4>2, <4>3
    <3>4. CASE op = "bold"
      <4> DEFINE r == LS!push_sgr(s.sgr, Bold)
      <4>1. /\ After(u, s.col, s.autowrap, r, s.saved)
            /\ Stands(v, t.col, t.wrap, t.autowrap, t.attrs \cup {Bold}, t.count + 1, t.saved)
        BY <1>1, <1>4, <3>4, OtherEffects DEF u, v
      <4>2. r \in LS!Segments /\ Len(r) <= MaxSgr
        BY <1>1, <1>8, <3>1, <3>2, PushSgrType
      <4>3. LS!SamePaint(s.sgr, t.attrs, t.count)
               => LS!SamePaint(r, t.attrs \cup {Bold}, t.count + 1)
        BY <1>1, <1>8, <3>2, PushPaints
      <4> HIDE DEF r
      <4>4. op # "plain"
        BY <3>4
      <4> QED BY <4>1, <4>2, <4>3, <4>4
    <3>5. CASE op = "black"
      <4> DEFINE q == LS!push_sgr(s.sgr, Ansi)
                 r == LS!push_sgr(q, Extended)
                 b == t.attrs \cup {Ansi}
      <4>1. /\ After(u, s.col, s.autowrap, r, s.saved)
            /\ Stands(v, t.col, t.wrap, t.autowrap, t.attrs \cup {Ansi, Extended},
                      t.count + 2, t.saved)
        BY <1>1, <1>4, <3>5, OtherEffects DEF u, v
      <4>2. q \in LS!Segments /\ Len(q) <= MaxSgr
        BY <1>1, <1>8, <3>1, <3>2, PushSgrType
      <4>3. b \in LS!Attributes /\ t.count + 1 \in Nat /\ t.count + 2 = (t.count + 1) + 1
            /\ t.attrs \cup {Ansi, Extended} = b \cup {Extended}
        <5>1. b \in LS!Attributes
          BY <1>8, <3>2 DEF LS!Attributes
        <5>2. t.count + 1 \in Nat /\ t.count + 2 = (t.count + 1) + 1
          BY <1>8
        <5>3. t.attrs \cup {Ansi, Extended} = b \cup {Extended}
          BY Zenon
        <5> QED BY <5>1, <5>2, <5>3
      <4>4. LS!SamePaint(s.sgr, t.attrs, t.count) => LS!SamePaint(q, b, t.count + 1)
        BY <1>1, <1>8, <3>2, PushPaints
      <4> HIDE DEF q, b
      <4>5. r \in LS!Segments /\ Len(r) <= MaxSgr
        BY <1>1, <3>2, <4>2, PushSgrType
      <4>6. LS!SamePaint(q, b, t.count + 1) => LS!SamePaint(r, b \cup {Extended}, (t.count + 1) + 1)
        BY <1>1, <3>2, <4>2, <4>3, PushPaints
      <4> HIDE DEF r
      <4>7. LS!SamePaint(s.sgr, t.attrs, t.count)
              => LS!SamePaint(r, t.attrs \cup {Ansi, Extended}, t.count + 2)
        BY <4>3, <4>4, <4>6
      <4>8. op # "plain"
        BY <3>5
      <4> QED BY <4>1, <4>5, <4>7, <4>8
    <3> QED BY <1>17, <3>3, <3>4, <3>5
  <2>2. op \notin LS!Places /\ ~LS!Restores(op) /\ op # "save" /\ ~LS!OneOff(op)
        /\ (op \in LS!Paints => op = "plain")
    BY <1>17 DEF LS!Paints, LS!Places, LS!Restores, LS!OneOff
  <2>3. marked' = marked /\ (painted' => op = "plain" \/ painted) /\ (placed' => placed)
    BY <1>3, <1>6, <2>2
  <2>4. Sound(u)
    BY <1>3, <2>1 DEF After, Sound
  <2>5. placed' => LS!SameColumn(u.col, v.col, v.wrap) /\ u.autowrap = v.autowrap
    BY <1>3, <2>1, <2>3 DEF After, Stands
  <2>6. painted' => LS!SamePaint(u.sgr, v.attrs, v.count)
    BY <1>3, <2>1, <2>3 DEF After, Stands
  <2>7. SavedAgree(u.saved, v.saved, marked')
    BY <1>3, <2>1, <2>3 DEF After, Stands
  <2> QED BY <2>4, <2>5, <2>6, <2>7
<1> QED
  BY <1>1, <1>11, <1>12, <1>13, <1>14, <1>15, <1>16, <1>17 DEF LS!Operations, ColumnOps

\* The invariant holds at the start,
LEMMA StartsSound ==
    ASSUME LS!LineShadowAssumption, LS!Init
    PROVE  LS!IInv
<1>1. Cols \in Nat \ {0} /\ MaxSgr \in Nat \ {0} /\ MaxOps \in Nat
  BY DEF LS!LineShadowAssumption
<1> DEFINE e == <<>>
<1>2. screen = [col |-> 0, wrap |-> FALSE, autowrap |-> TRUE, attrs |-> {}, count |-> 0, saved |-> e]
  BY DEF LS!Init, LS!NewTerminal, LS!Perform, LS!Plain
<1>3. {} \in LS!Attributes /\ LS!Painted(e) = {} /\ Len(e) = 0 /\ e \in {<<>>} \cup LS!Positions
      /\ e = <<>>
  BY DEF LS!Attributes, LS!Painted
<1> HIDE DEF e
<1>4. ASSUME NEW a \in LS!Attributes, NEW t, NEW n \in Nat,
             t = [col |-> 0, wrap |-> FALSE, autowrap |-> TRUE, attrs |-> a, count |-> n, saved |-> e]
      PROVE  /\ t \in LS!Terminals /\ t.col = 0 /\ t.wrap = FALSE /\ t.attrs = a /\ t.count = n
             /\ t.saved = e /\ t.autowrap = TRUE
  BY <1>1, <1>3, <1>4 DEF LS!Terminals
<1>5. /\ screen \in LS!Terminals /\ screen.col = 0 /\ screen.wrap = FALSE /\ screen.attrs = {}
      /\ screen.count = 0 /\ screen.saved = e /\ screen.autowrap = TRUE
  <2>1. 0 \in Nat
    OBVIOUS
  <2> QED BY <1>2, <1>3, <1>4, <2>1
<1>6. /\ shadow = LS!new /\ shadow \in LS!Shadows /\ shadow.col = 0 /\ shadow.sgr = e
      /\ shadow.saved = e /\ shadow.state = "Ground" /\ shadow.utf8 = 0
      /\ shadow.autowrap = TRUE
  BY NewShadow DEF LS!Init, e, LS!new
<1>7. /\ reading \in BOOLEAN /\ placed = reading /\ painted = reading
      /\ marked = <<reading, reading>> /\ operations = 0
  BY DEF LS!Init
<1>8. LS!Types
  <2>1. marked \in BOOLEAN \X BOOLEAN
    BY <1>7
  <2>2. operations \in 0..MaxOps
    BY <1>1, <1>7
  <2> QED BY <1>5, <1>6, <1>7, <2>1, <2>2 DEF LS!Types
<1>9. LS!ShadowHere
  <2>1. ~reading => ~placed /\ ~painted /\ marked = <<FALSE, FALSE>>
    BY <1>7
  <2>2. ~reading => shadow = LS!new
    BY <1>6
  <2>3. shadow.col <= Cols /\ Len(shadow.sgr) <= MaxSgr
    BY <1>1, <1>3, <1>6
  <2>4. shadow.saved = <<>>
    BY <1>3, <1>6
  <2> QED BY <1>6, <2>1, <2>2, <2>3, <2>4 DEF LS!ShadowHere
<1>10. LS!WrapHere /\ LS!PlaceHere
  BY <1>3, <1>5, <1>6 DEF LS!WrapHere, LS!PlaceHere, LS!SameColumn
<1>11. LS!PaintHere
  BY <1>3, <1>5, <1>6 DEF LS!PaintHere, LS!SamePaint
<1>12. LS!SavedHere
  BY <1>3, <1>5, <1>6 DEF LS!SavedHere
<1> QED
  BY <1>8, <1>9, <1>10, <1>11, <1>12 DEF LS!IInv

\* An operation whose beginning, or all of it, the history has lost.
LEMMA EvictedKeeps ==
    ASSUME LS!LineShadowAssumption, LS!IInv, NEW op \in Ops, NEW kept \in 0..2, LS!Evicted(op, kept)
    PROVE  LS!IInv'
<1>1. /\ Cols \in Nat \ {0} /\ MaxSgr \in Nat \ {0} /\ MaxCsi \in Nat /\ MaxCsi >= 9
      /\ op \in LS!Operations /\ MaxOps \in Nat
  BY DEF LS!LineShadowAssumption
<1>2. /\ ~reading /\ screen' = LS!Perform(screen, op) /\ operations' = operations + 1
      /\ operations < MaxOps
      /\ placed' = placed /\ painted' = painted /\ marked' = marked
  BY DEF LS!Evicted
<1>3. /\ shadow = LS!new /\ ~placed /\ ~painted /\ marked = <<FALSE, FALSE>>
      /\ placed \in BOOLEAN /\ painted \in BOOLEAN /\ operations \in 0..MaxOps
      /\ ~marked[1] /\ ~marked[2]
  <2>1. /\ shadow = LS!new /\ ~placed /\ ~painted /\ marked = <<FALSE, FALSE>>
        /\ placed \in BOOLEAN /\ painted \in BOOLEAN /\ operations \in 0..MaxOps
    BY <1>2 DEF LS!IInv, LS!Types, LS!ShadowHere
  <2>2. ~marked[1] /\ ~marked[2]
    BY <2>1
  <2> QED BY <2>1, <2>2
<1>4. Tidy(screen')
  <2>1. Tidy(screen)
    BY DEF LS!IInv, LS!Types, LS!WrapHere, Tidy
  <2> QED BY <1>1, <1>2, <2>1, PerformTidy
<1>5. /\ reading' \in BOOLEAN /\ (~reading' => shadow' = LS!new)
      /\ Between(shadow') /\ shadow'.col <= Cols /\ shadow'.sgr = <<>> /\ shadow'.saved = <<>>
  <2>1. CASE kept > 0
    <3> DEFINE w == LS!Encode(op)
    <3>1. /\ kept \in {1, 2} /\ kept < Len(w) /\ reading' = TRUE
          /\ shadow' = LS!scan(LS!new, SubSeq(w, Len(w) - kept + 1, Len(w)))
      BY <1>3, <2>1 DEF LS!Evicted
    <3>2. Ends(w)
      BY <1>1, EncodeEnds
    <3> HIDE DEF w
    <3>3. Between(shadow') /\ shadow'.col <= Cols /\ shadow'.sgr = <<>> /\ shadow'.saved = <<>>
      BY <1>1, <3>1, <3>2, RestRead
    <3> QED BY <3>1, <3>3
  <2>2. CASE ~(kept > 0)
    <3>1. reading' \in BOOLEAN /\ shadow' = shadow
      BY <2>2 DEF LS!Evicted
    <3> QED BY <1>1, <1>3, <3>1, NewShadow
  <2> QED BY <2>1, <2>2
<1>6. /\ ~placed' /\ ~painted' /\ marked' = <<FALSE, FALSE>> /\ ~(marked'[1]) /\ ~(marked'[2])
      /\ placed' \in BOOLEAN /\ painted' \in BOOLEAN /\ marked' \in BOOLEAN \X BOOLEAN
      /\ operations' \in 0..MaxOps
  <2>1. operations' \in 0..MaxOps
    BY <1>1, <1>2, <1>3
  <2>2. <<FALSE, FALSE>> \in BOOLEAN \X BOOLEAN
    OBVIOUS
  <2> QED BY <1>2, <1>3, <2>1, <2>2
<1>7. LS!Types'
  BY <1>4, <1>5, <1>6 DEF LS!Types, Tidy, Between
<1>8. LS!ShadowHere'
  <2>1. Len(shadow'.sgr) <= MaxSgr
    <3>1. Len(<<>>) = 0
      OBVIOUS
    <3> QED BY <1>1, <1>5, <3>1
  <2> QED BY <1>5, <1>6, <2>1 DEF LS!ShadowHere, Between
<1>9. LS!WrapHere' /\ LS!PlaceHere' /\ LS!PaintHere' /\ LS!SavedHere'
  BY <1>4, <1>5, <1>6 DEF LS!WrapHere, LS!PlaceHere, LS!PaintHere, LS!SavedHere, Tidy
<1> QED
  BY <1>7, <1>8, <1>9 DEF LS!IInv

\* and every step keeps it.
LEMMA LineInductive ==
    ASSUME LS!LineShadowAssumption, LS!IInv, [LS!Next]_(LS!vars)
    PROVE  LS!IInv'
<1>1. ASSUME NEW op \in Ops, LS!Write(op) PROVE LS!IInv'
  BY <1>1, WriteKeeps
<1>2. ASSUME NEW op \in Ops, NEW kept \in 0..2, LS!Evicted(op, kept) PROVE LS!IInv'
  BY <1>2, EvictedKeeps
<1>3. CASE UNCHANGED LS!vars
  <2>1. /\ screen' = screen /\ shadow' = shadow /\ reading' = reading /\ placed' = placed
        /\ painted' = painted /\ marked' = marked /\ operations' = operations
    BY <1>3 DEF LS!vars
  <2> QED BY <2>1 DEF LS!IInv, LS!Types, LS!ShadowHere, LS!WrapHere, LS!PlaceHere,
       LS!PaintHere, LS!SavedHere
<1> QED
  BY <1>1, <1>2, <1>3 DEF LS!Next

\* The column and the attributes that the client's cursor gets back are those
\* of the terminal.
LEMMA InvariantRestores ==
    ASSUME LS!LineShadowAssumption, LS!IInv
    PROVE  LS!CursorRestored /\ LS!TypeOK
<1>1. /\ Cols \in Nat \ {0} /\ screen \in LS!Terminals /\ shadow \in LS!Shadows
      /\ shadow.col <= Cols /\ shadow.col \in Nat /\ screen.col \in 0..(Cols - 1)
      /\ (screen.wrap => screen.col = Cols - 1)
  <2>1. /\ Cols \in Nat \ {0} /\ screen \in LS!Terminals /\ shadow \in LS!Shadows
        /\ shadow.col <= Cols /\ (screen.wrap => screen.col = Cols - 1)
    BY DEF LS!LineShadowAssumption, LS!IInv, LS!Types, LS!ShadowHere, LS!WrapHere
  <2> QED BY <2>1, ScreenFields, ShadowFields
<1>2. placed => LS!restore_column = screen.col
  <2> SUFFICES ASSUME placed PROVE LS!restore_column = screen.col
    OBVIOUS
  <2>1. LS!SameColumn(shadow.col, screen.col, screen.wrap)
    BY DEF LS!IInv, LS!PlaceHere
  <2>2. LS!Clamp(shadow.col) = IF shadow.col <= Cols - 1 THEN shadow.col ELSE Cols - 1
    BY <1>1, ColumnType
  <2>3. CASE screen.wrap
    BY <1>1, <2>1, <2>2, <2>3 DEF LS!SameColumn, LS!restore_column
  <2>4. CASE ~screen.wrap
    BY <1>1, <2>1, <2>2, <2>4 DEF LS!SameColumn, LS!restore_column
  <2> QED BY <2>3, <2>4
<1>3. painted /\ screen.count <= MaxSgr => LS!Painted(shadow.sgr) = screen.attrs
  BY DEF LS!IInv, LS!PaintHere, LS!SamePaint
<1>4. LS!TypeOK
  <2>1. shadow.col \in 0..(Cols + 8)
    BY <1>1
  <2>2. Len(shadow.sgr) <= MaxSgr
    BY DEF LS!IInv, LS!ShadowHere
  <2>3. {reading, placed, painted} \subseteq BOOLEAN
    BY DEF LS!IInv, LS!Types
  <2> QED BY <2>1, <2>2, <2>3 DEF LS!TypeOK
<1> QED
  BY <1>2, <1>3, <1>4 DEF LS!CursorRestored

\* So it holds always.
LEMMA LineInvariant ==
    ASSUME LS!LineShadowAssumption PROVE LS!Spec => []LS!IInv
<1>1. LS!Init => LS!IInv
  BY StartsSound
<1>2. LS!IInv /\ [LS!Next]_(LS!vars) => LS!IInv'
  BY LineInductive
<1> QED
  BY <1>1, <1>2, PTL DEF LS!Spec

\* The cursor goes back to the column the terminal had it in and to the
\* attributes it painted with, for every width, every number of attributes
\* kept and every order of the operations, even when the reading began in the
\* middle of the output (restore_sequence, cursor_restore).
THEOREM CursorComesBack ==
    ASSUME LS!LineShadowAssumption PROVE LS!Spec => []LS!CursorRestored
<1>1. LS!IInv => LS!CursorRestored
  BY InvariantRestores
<1> QED
  BY <1>1, LineInvariant, PTL

\* The shadow's column stays in its line, and its attributes are never more
\* than it may keep (MAX_SGR_SEGMENTS).
THEOREM LineShadowTyped ==
    ASSUME LS!LineShadowAssumption PROVE LS!Spec => []LS!TypeOK
<1>1. LS!IInv => LS!TypeOK
  BY InvariantRestores
<1> QED
  BY <1>1, LineInvariant, PTL

=============================================================================
