---------------------------- MODULE BundleProofs ----------------------------
(***************************************************************************)
(* Proofs about Bundle for any sources, titles and bodies of any length,   *)
(* any number of units and any further tokens.                             *)
(*                                                                         *)
(* What Build renders is a sequence of closed pieces.  A text of Tidy(F)   *)
(* holds no "](" but before files of F, one of Tame(F) reads, from each of *)
(* its positions the scanner may start at, as a link to a file of F or not *)
(* at all, and one of Calm leaves the scanner where it would be without    *)
(* it.  Whole lines of each kind can be joined: so index.md, whose pieces  *)
(* are ours, reads as the links that were meant whatever its titles are,   *)
(* and the scanner reads the footer of a concept whatever its body is.     *)
(***************************************************************************)
EXTENDS Bundle, FiniteSetTheorems, WellFoundedInduction, SequenceTheorems, TLAPS

-----------------------------------------------------------------------------
(* Numbers: greatest members of a set, counting up and counting down.       *)

LEMMA LeastNumber ==
  ASSUME NEW S \in SUBSET Nat, S # {}
  PROVE  \E x \in S : \A y \in S : x <= y
<1>1. IsWellFoundedOn(OpToRel(<, Nat), Nat)
  BY NatLessThanWellFounded
<1>2. PICK x \in S : \A y \in S : ~(<<y, x>> \in OpToRel(<, Nat))
  BY <1>1, WFMin
<1>3. \A y \in S : ~(y < x)
  BY <1>2 DEF OpToRel
<1> QED
  BY <1>3

LEMMA GreatestNumber ==
  ASSUME NEW n \in Nat, NEW S \in SUBSET (0..n), S # {}
  PROVE  Max(S) \in S
<1> DEFINE D == {d \in 0..n : n - d \in S}
<1>1. D \in SUBSET Nat /\ D # {}
  <2>1. PICK x \in S : TRUE
    OBVIOUS
  <2>2. x \in 0..n
    BY <2>1
  <2>3. n - x \in 0..n /\ n - (n - x) = x
    BY <2>2
  <2>4. n - x \in D
    BY <2>1, <2>3
  <2>5. \A d \in D : d \in Nat
    OBVIOUS
  <2> HIDE DEF D
  <2> QED
    BY <2>4, <2>5
<1>2. PICK d \in D : \A e \in D : d <= e
  BY <1>1, LeastNumber
<1>3. \A y \in S : n - y \in D
  <2> TAKE y \in S
  <2>1. n - y \in 0..n /\ n - (n - y) = y
    OBVIOUS
  <2> QED
    BY <2>1
<1>4. n - d \in S /\ \A y \in S : n - d >= y
  BY <1>2, <1>3
<1> QED
  BY <1>4 DEF Max

LEMMA Counting ==
  ASSUME NEW T, 0 \in T, \A n \in Nat : n \in T => n + 1 \in T
  PROVE  Nat \subseteq T
<1>1. SUFFICES ASSUME Nat \ T # {}
               PROVE  FALSE
  OBVIOUS
<1>2. PICK n \in Nat \ T : \A m \in Nat \ T : n <= m
  BY <1>1, LeastNumber
<1>3. n # 0
  BY <1>2
<1>4. n - 1 \in Nat /\ n - 1 \in T
  BY <1>2, <1>3
<1>5. (n - 1) + 1 \in T
  BY <1>4
<1> QED
  BY <1>2, <1>5

(* From n down: each number of 1..n, once those above it are in T.          *)
LEMMA CountingDown ==
  ASSUME NEW n \in Nat, NEW T,
         \A k \in 1..n : (\A j \in (k + 1)..n : j \in T) => k \in T
  PROVE  1..n \subseteq T
<1> DEFINE U == {m \in Nat : \A j \in 1..n : n - j < m => j \in T}
<1>1. 0 \in U
  OBVIOUS
<1>2. ASSUME NEW m \in Nat, m \in U
      PROVE  m + 1 \in U
  <2>1. SUFFICES ASSUME NEW j \in 1..n, n - j < m + 1
                 PROVE  j \in T
    OBVIOUS
  <2>2. \A i \in (j + 1)..n : i \in T
    BY <1>2, <2>1
  <2> QED
    BY <2>2
<1>3. n \in U
  <2> HIDE DEF U
  <2> QED
    BY <1>1, <1>2, Counting
<1> QED
  BY <1>3

-----------------------------------------------------------------------------
(* The scanner: what the functions it is written with compute.              *)

EndStep(text, end, j) ==
  IF j > Len(text) THEN 0
  ELSE IF text[j] = "]" THEN j
  ELSE IF text[j] # "\\" THEN end[j + 1]
  ELSE IF j = Len(text) \/ text[j + 1] = "nl" THEN 0
  ELSE end[j + 2]

LEMMA EndRuns ==
  ASSUME NEW text \in Text
  PROVE  \E f : f = [j \in 1..(Len(text) + 1) |-> EndStep(text, f, j)]
<1> DEFINE n == Len(text) + 1
           T == {k \in 1..n : \E f : f = [j \in k..n |-> EndStep(text, f, j)]}
<1>1. n \in Nat /\ n >= 1 /\ n = Len(text) + 1 /\ Len(text) \in Nat
  BY DEF Text
<1> HIDE DEF n
<1>2. ASSUME NEW k \in 1..n, \A j \in (k + 1)..n : j \in T
      PROVE  k \in T
  <2>1. PICK f : f = [j \in (k + 1)..n |-> EndStep(text, f, j)]
    <3>1. CASE k = n
      <4> DEFINE f == [j \in (k + 1)..n |-> 0]
      <4>1. f = [j \in (k + 1)..n |-> EndStep(text, f, j)]
        BY <1>1, <3>1
      <4> HIDE DEF f
      <4> QED
        BY <4>1
    <3>2. CASE k < n
      <4>1. k + 1 \in T
        BY <1>1, <1>2, <3>2
      <4> QED
        BY <4>1
    <3> QED
      BY <3>1, <3>2, <1>1
  <2> DEFINE g == [j \in k..n |-> IF j = k THEN EndStep(text, f, k) ELSE f[j]]
  <2>2. ASSUME NEW j \in k..n
        PROVE  g[j] = EndStep(text, g, j)
    <3>1. \A i \in (k + 1)..n : g[i] = f[i]
      BY <1>1
    <3>2. EndStep(text, g, j) = EndStep(text, f, j)
      <4>1. j <= Len(text) => g[j + 1] = f[j + 1]
        BY <3>1, <1>1
      <4>2. j < Len(text) => g[j + 2] = f[j + 2]
        BY <3>1, <1>1
      <4> HIDE DEF g
      <4> QED
        BY <4>1, <4>2, <1>1 DEF EndStep
    <3>3. CASE j = k
      BY <3>2, <3>3
    <3>4. CASE j \in (k + 1)..n
      <4>1. f[j] = EndStep(text, f, j)
        BY <2>1, <3>4
      <4>2. j # k
        BY <3>4, <1>1
      <4> QED
        BY <4>1, <4>2, <3>2
    <3> QED
      BY <3>3, <3>4, <1>1
  <2>3. g = [j \in k..n |-> EndStep(text, g, j)]
    BY <2>2
  <2> HIDE DEF g
  <2> QED
    BY <2>3
<1>3. 1..n \subseteq T
  <2> HIDE DEF T
  <2> QED
    BY <1>1, <1>2, CountingDown
<1>4. 1 \in T
  BY <1>1, <1>3
<1> QED
  BY <1>4 DEF n

LEMMA TextEndIs ==
  ASSUME NEW text \in Text, NEW k \in 1..(Len(text) + 1)
  PROVE  TextEnd(text, k) =
           IF k > Len(text) THEN 0
           ELSE IF text[k] = "]" THEN k
           ELSE IF text[k] # "\\" THEN TextEnd(text, k + 1)
           ELSE IF k = Len(text) \/ text[k + 1] = "nl" THEN 0
           ELSE TextEnd(text, k + 2)
<1> DEFINE F == CHOOSE f : f = [j \in 1..(Len(text) + 1) |-> EndStep(text, f, j)]
<1>1. F = [j \in 1..(Len(text) + 1) |-> EndStep(text, F, j)]
  BY EndRuns
<1>2. \A j : TextEnd(text, j) = F[j]
  BY DEF TextEnd, EndStep
<1> HIDE DEF F
<1>3. F[k] = EndStep(text, F, k)
  BY <1>1
<1> QED
  BY <1>2, <1>3 DEF EndStep

(* An end is at a bracket, from the position on.                            *)
LEMMA TextEndFrom ==
  ASSUME NEW text \in Text, NEW k \in 1..(Len(text) + 1)
  PROVE  \/ TextEnd(text, k) = 0
         \/ TextEnd(text, k) \in k..Len(text) /\ text[TextEnd(text, k)] = "]"
<1> DEFINE n == Len(text) + 1
           Fine(j) == \/ TextEnd(text, j) = 0
                      \/ /\ TextEnd(text, j) \in j..Len(text)
                         /\ text[TextEnd(text, j)] = "]"
           T == {j \in 1..n : Fine(j)}
<1>1. n \in Nat /\ Len(text) \in Nat
  BY DEF Text
<1>2. ASSUME NEW j \in 1..n, \A i \in (j + 1)..n : i \in T
      PROVE  j \in T
  <2>1. j <= Len(text) => Fine(j + 1)
    BY <1>1, <1>2
  <2>2. j < Len(text) => Fine(j + 2)
    BY <1>1, <1>2
  <2>3. Fine(j)
    BY <2>1, <2>2, <1>1, TextEndIs
  <2> QED
    BY <2>3
<1>3. 1..n \subseteq T
  <2> HIDE DEF T
  <2> QED
    BY <1>1, <1>2, CountingDown
<1> QED
  BY <1>3

Stops == {")", "sp", "nl"}

(* A target is the tokens up to the next stop.                              *)
LEMMA TargetIs ==
  ASSUME NEW text \in Text, NEW k \in 1..(Len(text) + 1)
  PROVE  /\ Target(text, k) \in Text
         /\ k + Len(Target(text, k)) <= Len(text) + 1
         /\ \A j \in 1..Len(Target(text, k)) :
              /\ Target(text, k)[j] = text[k + j - 1]
              /\ text[k + j - 1] \notin Stops
         /\ k + Len(Target(text, k)) <= Len(text) =>
              text[k + Len(Target(text, k))] \in Stops
<1> DEFINE stops == {j \in k..Len(text) : text[j] \in {")", "sp", "nl"}}
           to == IF stops = {} THEN Len(text) ELSE Min(stops) - 1
<1>1. Len(text) \in Nat /\ text \in Seq(Tokens)
  BY DEF Text
<1>2. Target(text, k) = SubSeq(text, k, to)
  BY DEF Target
<1>3. /\ to \in (k - 1)..Len(text)
      /\ \A j \in k..to : text[j] \notin Stops
      /\ to < Len(text) => text[to + 1] \in Stops
  <2>1. CASE stops = {}
    <3>1. to = Len(text)
      BY <2>1
    <3> QED
      BY <2>1, <3>1, <1>1 DEF Stops
  <2>2. CASE stops # {}
    <3>1. stops \in SUBSET Nat
      BY <1>1
    <3>2. PICK m \in stops : \A j \in stops : m <= j
      BY <2>2, <3>1, LeastNumber
    <3>3. Min(stops) \in stops /\ \A j \in stops : Min(stops) <= j
      BY <3>2 DEF Min
    <3>4. to = Min(stops) - 1
      BY <2>2
    <3>5. Min(stops) \in k..Len(text) /\ text[Min(stops)] \in Stops
      BY <3>3 DEF Stops
    <3>6. \A j \in k..(Min(stops) - 1) : j \notin stops
      BY <3>3, <3>5, <1>1
    <3>7. \A j \in k..(Min(stops) - 1) : text[j] \notin Stops
      BY <3>6, <3>5, <1>1 DEF Stops
    <3> HIDE DEF to, stops
    <3> QED
      BY <3>4, <3>5, <3>7, <1>1
  <2> QED
    BY <2>1, <2>2
<1> HIDE DEF to
<1>4. /\ SubSeq(text, k, to) \in Seq(Tokens)
      /\ Len(SubSeq(text, k, to)) = to - k + 1
      /\ \A j \in 1..(to - k + 1) : SubSeq(text, k, to)[j] = text[k + j - 1]
  BY <1>1, <1>3
<1> QED
  BY <1>1, <1>2, <1>3, <1>4 DEF Text

(* What the scanner finds at position k.                                    *)
EndOf(text, k) == IF text[k] = "[" THEN TextEnd(text, k + 1) ELSE 0

TargetAt(text, k) ==
  IF EndOf(text, k) # 0 /\ EndOf(text, k) < Len(text)
       /\ text[EndOf(text, k) + 1] = "("
    THEN Target(text, EndOf(text, k) + 2) ELSE <<>>

After(text, k) == EndOf(text, k) + 2 + Len(TargetAt(text, k))

FromStep(text, from, k) ==
  IF k > Len(text) THEN {}
  ELSE IF TargetAt(text, k) # <<>>
         THEN {TargetAt(text, k)} \cup from[After(text, k)]
         ELSE from[k + 1]

LEMMA TargetAtIs ==
  ASSUME NEW text \in Text, NEW k \in 1..Len(text)
  PROVE  /\ TargetAt(text, k) \in Text
         /\ TargetAt(text, k) # <<>> =>
              /\ text[k] = "["
              /\ EndOf(text, k) = TextEnd(text, k + 1)
              /\ EndOf(text, k) \in (k + 1)..(Len(text) - 1)
              /\ text[EndOf(text, k)] = "]" /\ text[EndOf(text, k) + 1] = "("
              /\ TargetAt(text, k) = Target(text, EndOf(text, k) + 2)
              /\ After(text, k) \in (k + 4)..(Len(text) + 1)
<1>1. Len(text) \in Nat
  BY DEF Text
<1>2. <<>> \in Text
  BY DEF Text
<1> DEFINE e == EndOf(text, k)
<1>3. e = 0 \/ (e \in (k + 1)..Len(text) /\ text[e] = "]")
  BY <1>1, TextEndFrom DEF EndOf
<1>4. e \in Nat
  BY <1>1, <1>3
<1> HIDE DEF e
<1>5. CASE ~(e # 0 /\ e < Len(text) /\ text[e + 1] = "(")
  BY <1>2, <1>5 DEF TargetAt, e
<1>6. CASE e # 0 /\ e < Len(text) /\ text[e + 1] = "("
  <2>1. e + 2 \in 1..(Len(text) + 1)
    BY <1>1, <1>4, <1>6
  <2>2. TargetAt(text, k) = Target(text, e + 2)
    BY <1>6 DEF TargetAt, e
  <2>3. Target(text, e + 2) \in Text
    BY <2>1, TargetIs
  <2>4. e + 2 + Len(Target(text, e + 2)) <= Len(text) + 1
    BY <2>1, TargetIs
  <2>5. Target(text, e + 2) # <<>> => Len(Target(text, e + 2)) \in Nat \ {0}
    BY <2>3 DEF Text
  <2>6. After(text, k) = e + 2 + Len(Target(text, e + 2))
    BY <2>2 DEF After, e
  <2>7. text[k] = "["
    BY <1>6 DEF EndOf, e
  <2>8. EndOf(text, k) = e /\ e = TextEnd(text, k + 1)
    BY <2>7 DEF EndOf, e
  <2>9. Target(text, e + 2) # <<>> => After(text, k) \in (k + 4)..(Len(text) + 1)
    BY <2>4, <2>5, <2>6, <1>3, <1>4, <1>6, <1>1
  <2> QED
    BY <2>2, <2>3, <2>7, <2>8, <2>9, <1>3, <1>6, <1>1
<1> QED
  BY <1>5, <1>6

LEMMA FromRuns ==
  ASSUME NEW text \in Text
  PROVE  \E f : f = [k \in 1..(Len(text) + 1) |-> FromStep(text, f, k)]
<1> DEFINE n == Len(text) + 1
           T == {k \in 1..n : \E f : f = [j \in k..n |-> FromStep(text, f, j)]}
<1>1. n \in Nat /\ n >= 1 /\ n = Len(text) + 1 /\ Len(text) \in Nat
  BY DEF Text
<1> HIDE DEF n
<1>2. ASSUME NEW k \in 1..n, \A j \in (k + 1)..n : j \in T
      PROVE  k \in T
  <2>1. PICK f : f = [j \in (k + 1)..n |-> FromStep(text, f, j)]
    <3>1. CASE k = n
      <4> DEFINE f == [j \in (k + 1)..n |-> {}]
      <4>1. f = [j \in (k + 1)..n |-> FromStep(text, f, j)]
        BY <1>1, <3>1
      <4> HIDE DEF f
      <4> QED
        BY <4>1
    <3>2. CASE k < n
      <4>1. k + 1 \in T
        BY <1>1, <1>2, <3>2
      <4> QED
        BY <4>1
    <3> QED
      BY <3>1, <3>2, <1>1
  <2> DEFINE g == [j \in k..n |-> IF j = k THEN FromStep(text, f, k) ELSE f[j]]
  <2>2. ASSUME NEW j \in k..n
        PROVE  g[j] = FromStep(text, g, j)
    <3>1. \A i \in (k + 1)..n : g[i] = f[i]
      BY <1>1
    <3>2. FromStep(text, g, j) = FromStep(text, f, j)
      <4>1. j <= Len(text) => g[j + 1] = f[j + 1]
        BY <3>1, <1>1
      <4>2. j <= Len(text) /\ TargetAt(text, j) # <<>> =>
              g[After(text, j)] = f[After(text, j)]
        <5>1. j <= Len(text) /\ TargetAt(text, j) # <<>> =>
                After(text, j) \in (k + 1)..n
          <6> SUFFICES ASSUME j <= Len(text), TargetAt(text, j) # <<>>
                       PROVE  After(text, j) \in (k + 1)..n
            OBVIOUS
          <6>1. j \in 1..Len(text)
            BY <1>1
          <6>2. After(text, j) \in (j + 4)..(Len(text) + 1)
            BY <6>1, TargetAtIs
          <6> QED
            BY <6>2, <1>1
        <5> HIDE DEF g
        <5> QED
          BY <5>1, <3>1
      <4> HIDE DEF g
      <4>3. j \in Nat
        BY <1>1
      <4>4. CASE j > Len(text)
        BY <4>4 DEF FromStep
      <4>5. CASE j <= Len(text) /\ TargetAt(text, j) # <<>>
        BY <4>2, <4>5 DEF FromStep
      <4>6. CASE j <= Len(text) /\ TargetAt(text, j) = <<>>
        BY <4>1, <4>6 DEF FromStep
      <4> QED
        BY <4>3, <4>4, <4>5, <4>6, <1>1
    <3>3. CASE j = k
      BY <3>2, <3>3
    <3>4. CASE j \in (k + 1)..n
      <4>1. f[j] = FromStep(text, f, j)
        BY <2>1, <3>4
      <4>2. j # k
        BY <3>4, <1>1
      <4> QED
        BY <4>1, <4>2, <3>2
    <3> QED
      BY <3>3, <3>4, <1>1
  <2>3. g = [j \in k..n |-> FromStep(text, g, j)]
    BY <2>2
  <2> HIDE DEF g
  <2> QED
    BY <2>3
<1>3. 1..n \subseteq T
  <2> HIDE DEF T
  <2> QED
    BY <1>1, <1>2, CountingDown
<1>4. 1 \in T
  BY <1>1, <1>3
<1> QED
  BY <1>4 DEF n

LEMMA TargetsFromIs ==
  ASSUME NEW text \in Text, NEW k \in 1..(Len(text) + 1)
  PROVE  TargetsFrom(text, k) =
           IF k > Len(text) THEN {}
           ELSE IF TargetAt(text, k) # <<>>
                  THEN {TargetAt(text, k)} \cup TargetsFrom(text, After(text, k))
                  ELSE TargetsFrom(text, k + 1)
<1> DEFINE F == CHOOSE f : f = [j \in 1..(Len(text) + 1) |-> FromStep(text, f, j)]
<1>1. F = [j \in 1..(Len(text) + 1) |-> FromStep(text, F, j)]
  BY FromRuns
<1>2. \A j : TargetsFrom(text, j) = F[j]
  BY DEF TargetsFrom, FromStep, TargetAt, EndOf, After
<1> HIDE DEF F
<1>3. F[k] = FromStep(text, F, k)
  BY <1>1
<1> QED
  BY <1>2, <1>3 DEF FromStep

-----------------------------------------------------------------------------
(* Texts put together.                                                      *)

LEMMA Joined ==
  ASSUME NEW A \in Text, NEW B \in Text
  PROVE  /\ A \o B \in Text
         /\ Len(A) \in Nat /\ Len(B) \in Nat
         /\ Len(A \o B) = Len(A) + Len(B)
         /\ \A i \in 1..Len(A) : (A \o B)[i] = A[i]
         /\ \A i \in 1..Len(B) : (A \o B)[Len(A) + i] = B[i]
<1>1. A \in Seq(Tokens) /\ B \in Seq(Tokens)
  BY DEF Text
<1> QED
  BY <1>1, ConcatProperties DEF Text

LEMMA Rejoined ==
  ASSUME NEW A \in Text, NEW B \in Text, NEW C \in Text
  PROVE  (A \o B) \o C = A \o (B \o C)
BY ConcatAssociative DEF Text

LEMMA IsText ==
  /\ Marks \cup Wording \subseteq Tokens
  /\ \A s \in Tokens : <<s>> \in Text /\ Len(<<s>>) = 1 /\ <<s>>[1] = s
  /\ \A s, t \in Tokens :
       <<s, t>> \in Text /\ Len(<<s, t>>) = 2 /\ <<s, t>>[1] = s /\ <<s, t>>[2] = t
  /\ <<>> \in Text /\ Len(<<>>) = 0
BY BundleAssumption DEF Text

(* Whole lines.                                                             *)
Lines == {t \in Text : t # <<>> => t[Len(t)] = "nl"}

LEMMA LinesJoined ==
  ASSUME NEW A \in Text, NEW B \in Lines, B # <<>> \/ A \in Lines
  PROVE  A \o B \in Lines
<1>1. B \in Text /\ A \in Seq(Tokens) /\ B \in Seq(Tokens)
  BY DEF Lines, Text
<1>2. CASE B = <<>>
  <2>1. A \o B = A
    BY <1>1, <1>2, ConcatEmptySeq
  <2> QED
    BY <2>1, <1>2
<1>3. CASE B # <<>>
  <2>1. Len(B) \in 1..Len(B) /\ B[Len(B)] = "nl"
    BY <1>1, <1>3 DEF Lines
  <2>2. (A \o B)[Len(A) + Len(B)] = "nl"
    BY <2>1, <1>1, Joined
  <2> QED
    BY <2>2, <1>1, Joined DEF Lines
<1> QED
  BY <1>2, <1>3

LEMMA LineIs ==
  ASSUME NEW A \in Text
  PROVE  /\ Line(A) \in Lines /\ Line(A) \in Text /\ Line(A) # <<>>
         /\ Len(Line(A)) = Len(A) + 1
         /\ \A i \in 1..Len(A) : Line(A)[i] = A[i]
         /\ Line(A)[Len(A) + 1] = "nl"
<1>1. <<"nl">> \in Text /\ Len(<<"nl">>) = 1 /\ <<"nl">>[1] = "nl" /\ 1 \in 1..1
  BY IsText DEF Marks
<1>2. Len(A) \in Nat
  BY DEF Text
<1>3. /\ Line(A) \in Text
      /\ Len(Line(A)) = Len(A) + 1
      /\ \A i \in 1..Len(A) : Line(A)[i] = A[i]
      /\ Line(A)[Len(A) + 1] = "nl"
  BY <1>1, Joined DEF Line
<1>4. Line(A) # <<>>
  BY <1>2, <1>3
<1> QED
  BY <1>3, <1>4 DEF Lines

(* The end of a label never steps over a line break: an end before it, none, *)
(* or the one seen from the break.                                          *)
LEMMA EndAtBreak ==
  ASSUME NEW text \in Text, NEW p \in 1..Len(text), text[p] = "nl",
         NEW k \in 1..p
  PROVE  \/ TextEnd(text, k) = 0
         \/ TextEnd(text, k) \in k..(p - 1)
         \/ TextEnd(text, k) = TextEnd(text, p + 1)
<1> DEFINE Fine(j) == \/ TextEnd(text, j) = 0
                      \/ TextEnd(text, j) \in j..(p - 1)
                      \/ TextEnd(text, j) = TextEnd(text, p + 1)
           T == {j \in 1..p : Fine(j)}
<1>1. p \in Nat /\ Len(text) \in Nat
  BY DEF Text
<1>2. ASSUME NEW j \in 1..p, \A i \in (j + 1)..p : i \in T
      PROVE  j \in T
  <2>1. j < p => Fine(j + 1)
    BY <1>1, <1>2
  <2>2. j + 1 < p => Fine(j + 2)
    BY <1>1, <1>2
  <2>3. Fine(j)
    BY <2>1, <2>2, <1>1, TextEndIs
  <2> QED
    BY <2>3
<1>3. 1..p \subseteq T
  <2> HIDE DEF T
  <2> QED
    BY <1>1, <1>2, CountingDown
<1> QED
  BY <1>3

Shifted(e, by) == IF e = 0 THEN 0 ELSE e + by

(* What comes before a text does not change where its labels end.           *)
LEMMA EndBeyond ==
  ASSUME NEW A \in Text, NEW B \in Text, NEW k \in 1..(Len(B) + 1)
  PROVE  TextEnd(A \o B, Len(A) + k) = Shifted(TextEnd(B, k), Len(A))
<1> DEFINE n == Len(B) + 1
           a == Len(A)
           T == {j \in 1..n : TextEnd(A \o B, a + j) = Shifted(TextEnd(B, j), a)}
<1>1. a \in Nat /\ Len(B) \in Nat /\ Len(A \o B) = a + Len(B) /\ A \o B \in Text
  BY Joined
<1>2. \A j \in 1..Len(B) : (A \o B)[a + j] = B[j]
  BY Joined
<1>3. ASSUME NEW j \in 1..n, \A i \in (j + 1)..n : i \in T
      PROVE  j \in T
  <2>1. j <= Len(B) => TextEnd(A \o B, a + (j + 1)) = Shifted(TextEnd(B, j + 1), a)
    BY <1>1, <1>3
  <2>2. j < Len(B) => TextEnd(A \o B, a + (j + 2)) = Shifted(TextEnd(B, j + 2), a)
    BY <1>1, <1>3
  <2>3. a + j \in 1..(Len(A \o B) + 1)
    BY <1>1
  <2>4. j < Len(B) => (A \o B)[(a + j) + 1] = B[j + 1]
    <3>1. j < Len(B) => (A \o B)[a + (j + 1)] = B[j + 1]
      BY <1>1, <1>2
    <3> QED
      BY <3>1, <1>1
  <2>5. (a + j) + 1 = a + (j + 1) /\ (a + j) + 2 = a + (j + 2)
    BY <1>1
  <2> DEFINE C == A \o B
  <2>6. TextEnd(C, a + j) =
           IF a + j > Len(C) THEN 0
           ELSE IF C[a + j] = "]" THEN a + j
           ELSE IF C[a + j] # "\\" THEN TextEnd(C, a + (j + 1))
           ELSE IF a + j = Len(C) \/ C[(a + j) + 1] = "nl" THEN 0
           ELSE TextEnd(C, a + (j + 2))
    BY <1>1, <2>3, <2>5, TextEndIs
  <2>7. TextEnd(B, j) =
           IF j > Len(B) THEN 0
           ELSE IF B[j] = "]" THEN j
           ELSE IF B[j] # "\\" THEN TextEnd(B, j + 1)
           ELSE IF j = Len(B) \/ B[j + 1] = "nl" THEN 0
           ELSE TextEnd(B, j + 2)
    BY TextEndIs
  <2>8. j <= Len(B) => C[a + j] = B[j]
    BY <1>2, <1>1
  <2>9. Len(C) = a + Len(B)
    BY <1>1
  <2> HIDE DEF C
  <2>10. TextEnd(C, a + j) = Shifted(TextEnd(B, j), a)
    <3>1. CASE j > Len(B)
      BY <3>1, <2>6, <2>7, <2>9, <1>1 DEF Shifted
    <3>2. CASE j <= Len(B) /\ B[j] = "]"
      BY <3>2, <2>6, <2>7, <2>8, <2>9, <1>1 DEF Shifted
    <3>3. CASE j <= Len(B) /\ B[j] \notin {"]", "\\"}
      <4>1. TextEnd(C, a + (j + 1)) = Shifted(TextEnd(B, j + 1), a)
        BY <2>1, <3>3 DEF C
      <4> QED
        BY <4>1, <3>3, <2>6, <2>7, <2>8, <2>9, <1>1
    <3>4. CASE j <= Len(B) /\ B[j] = "\\"
      <4>1. CASE j = Len(B)
        BY <4>1, <3>4, <2>6, <2>7, <2>8, <2>9, <1>1 DEF Shifted
      <4>2. CASE j < Len(B) /\ B[j + 1] = "nl"
        <5>1. C[(a + j) + 1] = B[j + 1]
          BY <2>4, <4>2 DEF C
        <5> QED
          BY <5>1, <4>2, <3>4, <2>6, <2>7, <2>8, <2>9, <1>1 DEF Shifted
      <4>3. CASE j < Len(B) /\ B[j + 1] # "nl"
        <5>1. C[(a + j) + 1] = B[j + 1]
          BY <2>4, <4>3 DEF C
        <5>2. TextEnd(C, a + (j + 2)) = Shifted(TextEnd(B, j + 2), a)
          BY <2>2, <4>3 DEF C
        <5> QED
          BY <5>1, <5>2, <4>3, <3>4, <2>6, <2>7, <2>8, <2>9, <1>1
      <4> QED
        BY <4>1, <4>2, <4>3, <3>4, <1>1
    <3> QED
      BY <3>1, <3>2, <3>3, <3>4, <1>1
  <2> QED
    BY <2>10 DEF C
<1>4. 1..n \subseteq T
  <2>1. n \in Nat
    BY <1>1
  <2> HIDE DEF T, n
  <2> QED
    BY <2>1, <1>3, CountingDown
<1> QED
  BY <1>4

(* A label of whole lines ends where it would without what follows them, or *)
(* not in them.                                                             *)
LEMMA EndWithin ==
  ASSUME NEW A \in Lines, NEW B \in Text, NEW k \in 1..(Len(A) + 1)
  PROVE  /\ TextEnd(A, k) # 0 => TextEnd(A \o B, k) = TextEnd(A, k)
         /\ TextEnd(A, k) = 0 =>
              TextEnd(A \o B, k) \in {0, Shifted(TextEnd(B, 1), Len(A))}
<1> DEFINE C == A \o B
           n == Len(A) + 1
           beyond == Shifted(TextEnd(B, 1), Len(A))
           Fine(j) == /\ TextEnd(A, j) # 0 => TextEnd(C, j) = TextEnd(A, j)
                      /\ TextEnd(A, j) = 0 => TextEnd(C, j) \in {0, beyond}
           T == {j \in 1..n : Fine(j)}
<1>1. A \in Text
  BY DEF Lines
<1>2. Len(A) \in Nat /\ Len(B) \in Nat /\ Len(C) = Len(A) + Len(B) /\ C \in Text
  BY <1>1, Joined
<1>3. \A j \in 1..Len(A) : C[j] = A[j]
  BY <1>1, Joined
<1>4. TextEnd(C, Len(A) + 1) = beyond
  BY <1>1, <1>2, EndBeyond
<1>5. A = <<>> \/ A[Len(A)] = "nl"
  BY DEF Lines
<1> HIDE DEF C, beyond
<1>6. ASSUME NEW j \in 1..n, \A i \in (j + 1)..n : i \in T
      PROVE  j \in T
  <2>1. j <= Len(A) => Fine(j + 1)
    BY <1>2, <1>6
  <2>2. j < Len(A) => Fine(j + 2)
    BY <1>2, <1>6
  <2>3. TextEnd(C, j) =
           IF j > Len(C) THEN 0
           ELSE IF C[j] = "]" THEN j
           ELSE IF C[j] # "\\" THEN TextEnd(C, j + 1)
           ELSE IF j = Len(C) \/ C[j + 1] = "nl" THEN 0
           ELSE TextEnd(C, j + 2)
    BY <1>2, TextEndIs
  <2>4. TextEnd(A, j) =
           IF j > Len(A) THEN 0
           ELSE IF A[j] = "]" THEN j
           ELSE IF A[j] # "\\" THEN TextEnd(A, j + 1)
           ELSE IF j = Len(A) \/ A[j + 1] = "nl" THEN 0
           ELSE TextEnd(A, j + 2)
    BY <1>1, TextEndIs
  <2>5. j <= Len(A) => C[j] = A[j]
    BY <1>3, <1>2
  <2>6. j < Len(A) => C[j + 1] = A[j + 1]
    BY <1>3, <1>2
  <2>7. Fine(j)
    <3>1. CASE j = Len(A) + 1
      BY <3>1, <2>4, <1>4, <1>2
    <3>2. CASE j <= Len(A) /\ A[j] = "]"
      BY <3>2, <2>3, <2>4, <2>5, <1>2
    <3>3. CASE j <= Len(A) /\ A[j] \notin {"]", "\\"}
      BY <3>3, <2>1, <2>3, <2>4, <2>5, <1>2
    <3>4. CASE j <= Len(A) /\ A[j] = "\\"
      <4>1. j < Len(A)
        BY <3>4, <1>5, <1>2
      <4> QED
        BY <4>1, <3>4, <2>2, <2>3, <2>4, <2>5, <2>6, <1>2
    <3> QED
      BY <3>1, <3>2, <3>3, <3>4, <1>2
  <2> QED
    BY <2>7
<1>7. 1..n \subseteq T
  <2>1. n \in Nat
    BY <1>2
  <2> HIDE DEF T, n
  <2> QED
    BY <2>1, <1>6, CountingDown
<1> QED
  BY <1>7 DEF C, beyond

-----------------------------------------------------------------------------
(* The targets of a text.                                                   *)

LEMMA TargetIsThat ==
  ASSUME NEW text \in Text, NEW k \in 1..(Len(text) + 1), NEW t \in Text,
         k + Len(t) <= Len(text),
         \A j \in 1..Len(t) : t[j] = text[k + j - 1] /\ t[j] \notin Stops,
         text[k + Len(t)] \in Stops
  PROVE  Target(text, k) = t
<1> DEFINE u == Target(text, k)
<1>1. /\ u \in Text
      /\ k + Len(u) <= Len(text) + 1
      /\ \A j \in 1..Len(u) : u[j] = text[k + j - 1] /\ text[k + j - 1] \notin Stops
      /\ k + Len(u) <= Len(text) => text[k + Len(u)] \in Stops
  BY TargetIs
<1> HIDE DEF u
<1>2. Len(u) \in Nat /\ Len(t) \in Nat /\ Len(text) \in Nat
  BY <1>1 DEF Text
<1>3. ~(Len(u) > Len(t))
  <2> SUFFICES ASSUME Len(u) > Len(t)
               PROVE  FALSE
    OBVIOUS
  <2>1. Len(t) + 1 \in 1..Len(u) /\ k + (Len(t) + 1) - 1 = k + Len(t)
    BY <1>2
  <2> QED
    BY <2>1, <1>1
<1>4. ~(Len(u) < Len(t))
  <2> SUFFICES ASSUME Len(u) < Len(t)
               PROVE  FALSE
    OBVIOUS
  <2>1. Len(u) + 1 \in 1..Len(t) /\ k + (Len(u) + 1) - 1 = k + Len(u)
    BY <1>2
  <2>2. text[k + Len(u)] \in Stops
    BY <1>1, <1>2
  <2>3. t[Len(u) + 1] = text[k + Len(u)]
    BY <2>1
  <2> QED
    BY <2>1, <2>2, <2>3
<1>5. Len(u) = Len(t)
  BY <1>2, <1>3, <1>4
<1>6. \A j \in 1..Len(t) : u[j] = t[j]
  BY <1>1, <1>5
<1>7. u \in Seq(Tokens) /\ t \in Seq(Tokens)
  BY <1>1 DEF Text
<1> QED
  BY <1>5, <1>6, <1>7, SeqEqual DEF u

(* Whatever holds of the target at each position holds of them all.         *)
LEMMA AllTargets ==
  ASSUME NEW text \in Text, NEW k \in 1..(Len(text) + 1), NEW U,
         \A i \in k..Len(text) : TargetAt(text, i) # <<>> => TargetAt(text, i) \in U
  PROVE  TargetsFrom(text, k) \subseteq U
<1> DEFINE n == Len(text) + 1
           T == {j \in 1..n : j >= k => TargetsFrom(text, j) \subseteq U}
<1>1. n \in Nat /\ n = Len(text) + 1 /\ Len(text) \in Nat /\ k \in 1..n
  BY DEF Text
<1> HIDE DEF n
<1>2. ASSUME NEW j \in 1..n, \A i \in (j + 1)..n : i \in T
      PROVE  j \in T
  <2> SUFFICES ASSUME j >= k
               PROVE  TargetsFrom(text, j) \subseteq U
    OBVIOUS
  <2>1. CASE j > Len(text)
    BY <2>1, <1>1, TargetsFromIs
  <2>2. CASE j <= Len(text) /\ TargetAt(text, j) = <<>>
    <3>1. TargetsFrom(text, j) = TargetsFrom(text, j + 1)
      BY <2>2, <1>1, TargetsFromIs
    <3>2. j + 1 \in T
      BY <2>2, <1>1, <1>2
    <3> QED
      BY <3>1, <3>2, <1>1
  <2>3. CASE j <= Len(text) /\ TargetAt(text, j) # <<>>
    <3>1. TargetsFrom(text, j)
            = {TargetAt(text, j)} \cup TargetsFrom(text, After(text, j))
      BY <2>3, <1>1, TargetsFromIs
    <3>2. After(text, j) \in (j + 4)..(Len(text) + 1)
      BY <2>3, <1>1, TargetAtIs
    <3>3. After(text, j) \in (j + 1)..n /\ After(text, j) >= k
      BY <3>2, <1>1
    <3>4. TargetsFrom(text, After(text, j)) \subseteq U
      BY <3>3, <1>2
    <3>5. TargetAt(text, j) \in U
      BY <2>3, <1>1
    <3> QED
      BY <3>1, <3>4, <3>5
  <2> QED
    BY <2>1, <2>2, <2>3, <1>1
<1>3. 1..n \subseteq T
  <2> HIDE DEF T
  <2> QED
    BY <1>1, <1>2, CountingDown
<1> QED
  BY <1>1, <1>3

LEMMA TargetsFinite ==
  ASSUME NEW text \in Text, NEW k \in 1..(Len(text) + 1)
  PROVE  IsFiniteSet(TargetsFrom(text, k))
<1> DEFINE n == Len(text) + 1
           T == {j \in 1..n : IsFiniteSet(TargetsFrom(text, j))}
<1>1. n \in Nat /\ n = Len(text) + 1 /\ Len(text) \in Nat /\ k \in 1..n
  BY DEF Text
<1> HIDE DEF n
<1>2. ASSUME NEW j \in 1..n, \A i \in (j + 1)..n : i \in T
      PROVE  j \in T
  <2>1. CASE j > Len(text)
    <3>1. TargetsFrom(text, j) = {}
      BY <2>1, <1>1, TargetsFromIs
    <3> QED
      BY <3>1, FS_EmptySet
  <2>2. CASE j <= Len(text) /\ TargetAt(text, j) = <<>>
    <3>1. TargetsFrom(text, j) = TargetsFrom(text, j + 1)
      BY <2>2, <1>1, TargetsFromIs
    <3>2. j + 1 \in T
      BY <2>2, <1>1, <1>2
    <3> QED
      BY <3>1, <3>2
  <2>3. CASE j <= Len(text) /\ TargetAt(text, j) # <<>>
    <3>1. TargetsFrom(text, j)
            = TargetsFrom(text, After(text, j)) \cup {TargetAt(text, j)}
      BY <2>3, <1>1, TargetsFromIs
    <3>2. After(text, j) \in (j + 4)..(Len(text) + 1)
      BY <2>3, <1>1, TargetAtIs
    <3>3. After(text, j) \in (j + 1)..n
      BY <3>2, <1>1
    <3>4. IsFiniteSet(TargetsFrom(text, After(text, j)))
      BY <3>3, <1>2
    <3>5. IsFiniteSet(TargetsFrom(text, After(text, j)) \cup {TargetAt(text, j)})
      BY <3>4, FS_AddElement
    <3> QED
      BY <3>1, <3>5
  <2> QED
    BY <2>1, <2>2, <2>3, <1>1
<1>3. 1..n \subseteq T
  <2> HIDE DEF T
  <2> QED
    BY <1>1, <1>2, CountingDown
<1> QED
  BY <1>1, <1>3

(* A link at the beginning of a line is found, whatever the lines before it *)
(* hold, and so is all that is found behind it.                             *)
LinkAt(text, b, m, f) ==
  /\ b \in 1..Len(text) /\ text[b] = "["
  /\ TextEnd(text, b + 1) = m /\ m \in (b + 1)..(Len(text) - 3)
  /\ text[m + 1] = "(" /\ text[m + 2] = f /\ text[m + 3] = ")"

LEMMA LinkIsTarget ==
  ASSUME NEW text \in Text, NEW b, NEW m, NEW f \in Tokens \ Stops,
         LinkAt(text, b, m, f)
  PROVE  /\ Target(text, m + 2) = <<f>>
         /\ TargetAt(text, b) = <<f>>
         /\ TargetsFrom(text, b) = {<<f>>} \cup TargetsFrom(text, m + 4)
<1>1. Len(text) \in Nat /\ b \in 1..Len(text) /\ m \in (b + 1)..(Len(text) - 3)
  BY DEF LinkAt, Text
<1>2. m \in Nat /\ b \in Nat
  BY <1>1
<1>3. <<f>> \in Text /\ Len(<<f>>) = 1 /\ <<f>>[1] = f
  BY IsText
<1>4. m + 2 \in 1..(Len(text) + 1) /\ (m + 2) + 1 <= Len(text)
  BY <1>1, <1>2
<1>5. \A j \in 1..1 : <<f>>[j] = text[(m + 2) + j - 1] /\ <<f>>[j] \notin Stops
  BY <1>2, <1>3 DEF LinkAt
<1>6. text[(m + 2) + 1] \in Stops
  BY <1>2 DEF LinkAt, Stops
<1>7. Target(text, m + 2) = <<f>>
  BY <1>3, <1>4, <1>5, <1>6, TargetIsThat
<1>8. EndOf(text, b) = m
  BY DEF EndOf, LinkAt
<1>9. TargetAt(text, b) = <<f>>
  BY <1>1, <1>2, <1>7, <1>8 DEF TargetAt, LinkAt
<1>10. After(text, b) = m + 3
  BY <1>2, <1>3, <1>8, <1>9 DEF After
<1>11. <<f>> # <<>>
  BY <1>3
<1>12. TargetsFrom(text, b) = {<<f>>} \cup TargetsFrom(text, m + 3)
  <2>1. b \in 1..(Len(text) + 1) /\ ~(b > Len(text)) /\ TargetAt(text, b) # <<>>
    BY <1>1, <1>9, <1>11
  <2>2. TargetsFrom(text, b)
          = {TargetAt(text, b)} \cup TargetsFrom(text, After(text, b))
    BY <2>1, TargetsFromIs
  <2> QED
    BY <2>2, <1>9, <1>10
<1>13. m + 3 \in 1..Len(text) /\ text[m + 3] # "["
  BY <1>1, <1>2 DEF LinkAt
<1>14. TargetAt(text, m + 3) = <<>>
  BY <1>13 DEF TargetAt, EndOf
<1>15. TargetsFrom(text, m + 3) = TargetsFrom(text, m + 4)
  BY <1>13, <1>14, <1>2, <1>1, TargetsFromIs
<1> QED
  BY <1>7, <1>9, <1>12, <1>15

LEMMA LinkFound ==
  ASSUME NEW text \in Text, NEW b, NEW m, NEW f \in Tokens \ Stops,
         LinkAt(text, b, m, f), b = 1 \/ text[b - 1] = "nl",
         NEW k \in 1..b
  PROVE  {<<f>>} \cup TargetsFrom(text, m + 4) \subseteq TargetsFrom(text, k)
<1> DEFINE U == {<<f>>} \cup TargetsFrom(text, m + 4)
           T == {j \in 1..b : U \subseteq TargetsFrom(text, j)}
<1>1. /\ Len(text) \in Nat /\ b \in 1..Len(text) /\ m \in (b + 1)..(Len(text) - 3)
      /\ b \in Nat /\ m \in Nat
  BY DEF LinkAt, Text
<1>2. ASSUME NEW j \in 1..b, \A i \in (j + 1)..b : i \in T
      PROVE  j \in T
  <2>1. CASE j = b
    BY <2>1, LinkIsTarget
  <2>2. CASE j < b /\ TargetAt(text, j) = <<>>
    <3>1. TargetsFrom(text, j) = TargetsFrom(text, j + 1)
      BY <2>2, <1>1, TargetsFromIs
    <3>2. j + 1 \in T
      BY <2>2, <1>1, <1>2
    <3> QED
      BY <3>1, <3>2
  <2>3. CASE j < b /\ TargetAt(text, j) # <<>>
    <3> DEFINE e == EndOf(text, j)
    <3>1. /\ e = TextEnd(text, j + 1) /\ e \in (j + 1)..(Len(text) - 1)
          /\ text[e] = "]" /\ text[e + 1] = "("
          /\ TargetAt(text, j) = Target(text, e + 2)
          /\ After(text, j) \in (j + 4)..(Len(text) + 1)
      BY <2>3, <1>1, TargetAtIs
    <3>2. TargetsFrom(text, j)
            = {TargetAt(text, j)} \cup TargetsFrom(text, After(text, j))
      BY <2>3, <1>1, TargetsFromIs
    <3>3. After(text, j) = e + 2 + Len(Target(text, e + 2))
      BY <3>1 DEF After
    <3> HIDE DEF e
    <3>4. e \in Nat /\ e >= j + 1
      <4>1. e \in (j + 1)..(Len(text) - 1)
        BY <3>1
      <4> QED
        BY <4>1, <1>1
    <3>5. b - 1 \in 1..Len(text) /\ text[b - 1] = "nl" /\ j + 1 \in 1..b
      BY <2>3, <1>1
    <3>6. \/ e \in 1..(b - 2)
          \/ e = TextEnd(text, b)
      <4>1. CASE j + 1 = b
        BY <4>1, <3>1
      <4>2. CASE j + 1 \in 1..(b - 1)
        <5>1. \/ TextEnd(text, j + 1) \in (j + 1)..((b - 1) - 1)
              \/ TextEnd(text, j + 1) = TextEnd(text, (b - 1) + 1)
              \/ TextEnd(text, j + 1) = 0
          BY <4>2, <3>5, EndAtBreak
        <5> QED
          BY <5>1, <3>1, <3>4, <1>1
      <4> QED
        BY <4>1, <4>2, <3>5, <1>1
    <3>7. CASE e \in 1..(b - 2)
      <4>1. e + 2 \in 1..(b - 1)
        <5>1. e + 1 # b - 1
          BY <3>1, <3>5
        <5> QED
          BY <5>1, <3>7, <3>4, <1>1
      <4> DEFINE t == Target(text, e + 2)
      <4>2. /\ t \in Text
            /\ \A i \in 1..Len(t) : text[(e + 2) + i - 1] \notin Stops
        BY <4>1, <1>1, TargetIs
      <4> HIDE DEF t
      <4>3. Len(t) \in Nat
        BY <4>2 DEF Text
      <4>4. e + 2 + Len(t) <= b - 1
        <5> SUFFICES ASSUME e + 2 + Len(t) > b - 1
                     PROVE  FALSE
          BY <4>3, <3>4, <1>1
        <5> DEFINE i == (b - 1) - (e + 2) + 1
        <5>1. i \in 1..Len(t) /\ (e + 2) + i - 1 = b - 1
          BY <4>1, <4>3, <3>4, <1>1
        <5>2. text[b - 1] \notin Stops
          BY <5>1, <4>2
        <5> QED
          BY <5>2, <3>5 DEF Stops
      <4>5. After(text, j) \in (j + 1)..b
        <5>1. After(text, j) = e + 2 + Len(t)
          BY <3>3 DEF t
        <5>2. e + 2 + Len(t) \in Nat /\ e >= j + 1
          BY <4>3, <3>4
        <5> QED
          BY <5>1, <5>2, <4>3, <4>4, <3>4, <1>1
      <4>6. After(text, j) \in T
        BY <4>5, <1>2
      <4> QED
        BY <4>6, <3>2
    <3>8. CASE e = TextEnd(text, b)
      <4>1. TextEnd(text, b) = TextEnd(text, b + 1)
        BY <1>1, TextEndIs DEF LinkAt
      <4>2. e = m
        BY <4>1, <3>8 DEF LinkAt
      <4>3. Target(text, m + 2) = <<f>>
        BY LinkIsTarget
      <4>4. Len(<<f>>) = 1
        BY IsText
      <4>5. After(text, j) = m + 3
        <5>1. Len(Target(text, e + 2)) = 1
          BY <4>2, <4>3, <4>4
        <5>2. After(text, j) = e + 2 + 1
          BY <5>1, <3>3
        <5> QED
          BY <5>2, <4>2, <1>1
      <4>6. TargetAt(text, m + 3) = <<>>
        BY DEF TargetAt, EndOf, LinkAt
      <4>7. m + 3 \in 1..Len(text)
        BY <1>1
      <4>8. TargetsFrom(text, m + 3) = TargetsFrom(text, m + 4)
        BY <4>6, <4>7, <1>1, TargetsFromIs
      <4> QED
        BY <4>2, <4>3, <4>5, <4>8, <3>1, <3>2
    <3> QED
      BY <3>6, <3>7, <3>8
  <2> QED
    BY <2>1, <2>2, <2>3, <1>1
<1>3. 1..b \subseteq T
  <2> HIDE DEF T
  <2> QED
    BY <1>1, <1>2, CountingDown
<1> QED
  BY <1>3

-----------------------------------------------------------------------------
(* FlattenSeq, by the texts it goes through.                                *)

JoinStep(g, h, i) == IF i = 1 THEN g[i] ELSE h[i - 1] \o g[i]

LEMMA JoinRuns ==
  ASSUME NEW n \in Nat, NEW g
  PROVE  \E h : h = [i \in 1..n |-> JoinStep(g, h, i)]
<1> DEFINE T == {m \in Nat : \E h : h = [i \in 1..m |-> JoinStep(g, h, i)]}
<1>1. 0 \in T
  <2> DEFINE h == [i \in 1..0 |-> 0]
  <2>1. h = [i \in 1..0 |-> JoinStep(g, h, i)]
    OBVIOUS
  <2> HIDE DEF h
  <2> QED
    BY <2>1
<1>2. ASSUME NEW m \in Nat, m \in T
      PROVE  m + 1 \in T
  <2>1. PICK h : h = [i \in 1..m |-> JoinStep(g, h, i)]
    BY <1>2
  <2> DEFINE k == [i \in 1..(m + 1) |->
                     IF i = m + 1 THEN JoinStep(g, h, i) ELSE h[i]]
  <2>2. ASSUME NEW i \in 1..(m + 1)
        PROVE  k[i] = JoinStep(g, k, i)
    <3>1. i # 1 => k[i - 1] = h[i - 1]
      OBVIOUS
    <3>2. JoinStep(g, k, i) = JoinStep(g, h, i)
      <4> HIDE DEF k
      <4> QED
        BY <3>1 DEF JoinStep
    <3>3. CASE i = m + 1
      BY <3>2, <3>3
    <3>4. CASE i \in 1..m
      <4>1. h[i] = JoinStep(g, h, i)
        BY <2>1, <3>4
      <4>2. i # m + 1
        BY <3>4
      <4> QED
        BY <4>1, <4>2, <3>2
    <3> QED
      BY <3>3, <3>4
  <2>3. k = [i \in 1..(m + 1) |-> JoinStep(g, k, i)]
    BY <2>2
  <2> HIDE DEF k
  <2> QED
    BY <2>3
<1>3. Nat \subseteq T
  <2> HIDE DEF T
  <2> QED
    BY <1>1, <1>2, Counting
<1> QED
  BY <1>3

(* What holds of the empty text and is kept as each text is added holds of  *)
(* them all put together.                                                   *)
LEMMA Flattened ==
  ASSUME NEW n \in Nat, NEW g \in [1..n -> Text], NEW W,
         <<>> \in W[0],
         \A i \in 1..n : \A A \in W[i - 1] : A \in Text => A \o g[i] \in W[i]
  PROVE  FlattenSeq(g) \in W[n] /\ FlattenSeq(g) \in Text
<1>1. g \in Seq(Text) /\ Len(g) = n
  BY IsASeq, LenProperties
<1>2. CASE n = 0
  <2>1. g = <<>>
    BY <1>1, <1>2, EmptySeq
  <2> QED
    BY <2>1, <1>1, <1>2, IsText DEF FlattenSeq
<1>3. CASE n # 0
  <2> DEFINE F == CHOOSE h : h = [i \in 1..n |-> JoinStep(g, h, i)]
             T == {m \in Nat : m + 1 <= n => F[m + 1] \in W[m + 1] /\ F[m + 1] \in Text}
  <2>1. F = [i \in 1..n |-> JoinStep(g, F, i)]
    BY JoinRuns
  <2>2. FlattenSeq(g) = F[n]
    BY <1>1, <1>3 DEF FlattenSeq, JoinStep
  <2> HIDE DEF F
  <2>3. 0 \in T
    <3>1. 1 \in 1..n /\ 0 = 1 - 1
      BY <1>3
    <3>2. F[1] = g[1]
      BY <2>1, <3>1 DEF JoinStep
    <3>3. g[1] \in Text /\ <<>> \in Text
      BY <3>1, IsText
    <3>4. <<>> \o g[1] = g[1]
      BY <3>3, ConcatEmptySeq DEF Text
    <3>5. <<>> \o g[1] \in W[1]
      BY <3>1, <3>3
    <3> QED
      BY <3>2, <3>3, <3>4, <3>5
  <2>4. ASSUME NEW m \in Nat, m \in T
        PROVE  m + 1 \in T
    <3> SUFFICES ASSUME (m + 1) + 1 <= n
                 PROVE  F[(m + 1) + 1] \in W[(m + 1) + 1] /\ F[(m + 1) + 1] \in Text
      OBVIOUS
    <3> DEFINE i == (m + 1) + 1
    <3>1. i \in 1..n /\ i # 1 /\ i - 1 = m + 1
      OBVIOUS
    <3>2. F[m + 1] \in W[i - 1] /\ F[m + 1] \in Text
      BY <2>4, <3>1
    <3>3. F[i] = F[i - 1] \o g[i]
      BY <2>1, <3>1 DEF JoinStep
    <3> HIDE DEF i
    <3>4. g[i] \in Text
      BY <3>1
    <3>5. F[i] = F[m + 1] \o g[i]
      BY <3>1, <3>3
    <3>6. F[i] \in W[i]
      BY <3>1, <3>2, <3>5
    <3>7. F[i] \in Text
      BY <3>2, <3>4, <3>5, Joined
    <3> QED
      BY <3>6, <3>7 DEF i
  <2>5. Nat \subseteq T
    <3> HIDE DEF T
    <3> QED
      BY <2>3, <2>4, Counting
  <2>6. n - 1 \in T
    BY <1>3, <2>5
  <2>7. (n - 1) + 1 = n
    OBVIOUS
  <2> QED
    BY <2>2, <2>6, <2>7
<1> QED
  BY <1>2, <1>3

(* Whole lines, each kept by what is known of lines: of all of them.        *)
LEMMA FlattenedLines ==
  ASSUME NEW n \in Nat, NEW g \in [1..n -> Text], NEW W, <<>> \in W,
         \A i \in 1..n : \A A \in W : A \in Text => A \o g[i] \in W
  PROVE  FlattenSeq(g) \in W
<1> DEFINE V == [i \in 0..n |-> W]
<1>1. <<>> \in V[0]
  OBVIOUS
<1>2. \A i \in 1..n : \A A \in V[i - 1] : A \in Text => A \o g[i] \in V[i]
  OBVIOUS
<1>3. V[n] = W
  OBVIOUS
<1> HIDE DEF V
<1>4. FlattenSeq(g) \in V[n]
  BY <1>1, <1>2, Flattened
<1> QED
  BY <1>3, <1>4

-----------------------------------------------------------------------------
(* Texts whose links, if there are any, are to the files of a set.          *)

Starts(text) == {s \in 1..(Len(text) + 1) : s = 1 \/ text[s - 1] = "["}

LinkAfter(text, e, F) ==
  e + 3 <= Len(text) /\ text[e + 2] \in F /\ text[e + 3] = ")"

(* Wherever a label of the text, or one opened before it, ends in it.       *)
Tame(F) ==
  {t \in Lines : \A s \in Starts(t) :
     TextEnd(t, s) # 0 /\ t[TextEnd(t, s) + 1] = "("
       => LinkAfter(t, TextEnd(t, s), F)}

LEMMA TameJoined ==
  ASSUME NEW F, NEW A \in Tame(F), NEW B \in Tame(F)
  PROVE  A \o B \in Tame(F)
<1> DEFINE C == A \o B
<1>1. A \in Lines /\ B \in Lines /\ A \in Text /\ B \in Text
  BY DEF Tame, Lines
<1>2. /\ Len(A) \in Nat /\ Len(B) \in Nat /\ Len(C) = Len(A) + Len(B) /\ C \in Text
      /\ \A j \in 1..Len(A) : C[j] = A[j]
      /\ \A j \in 1..Len(B) : C[Len(A) + j] = B[j]
  BY <1>1, Joined
<1>3. C \in Lines
  BY <1>1, LinesJoined
<1> HIDE DEF C
<1>4. ASSUME NEW s \in Starts(A), TextEnd(A, s) # 0, C[TextEnd(A, s) + 1] = "("
      PROVE  LinkAfter(C, TextEnd(A, s), F)
  <2> DEFINE e == TextEnd(A, s)
  <2>1. s \in 1..(Len(A) + 1)
    BY DEF Starts
  <2>2. e \in s..Len(A) /\ A[e] = "]"
    BY <2>1, <1>1, <1>4, TextEndFrom
  <2>3. (e # 0 /\ A[e + 1] = "(") => LinkAfter(A, e, F)
    BY DEF Tame
  <2>5. C[e + 1] = "(" /\ e # 0
    BY <1>4
  <2> HIDE DEF e
  <2>4. e \in Nat /\ e < Len(A)
    <3>1. e # Len(A)
      BY <2>2, <2>1, <1>1, <1>2 DEF Lines
    <3> QED
      BY <3>1, <2>1, <2>2, <1>2
  <2>6. A[e + 1] = "("
    BY <2>4, <2>5, <1>2
  <2>7. e + 3 <= Len(A) /\ A[e + 2] \in F /\ A[e + 3] = ")"
    BY <2>3, <2>5, <2>6 DEF LinkAfter
  <2>8. C[e + 2] = A[e + 2] /\ C[e + 3] = A[e + 3]
    BY <2>4, <2>7, <1>2
  <2>9. LinkAfter(C, e, F)
    BY <2>4, <2>7, <2>8, <1>2 DEF LinkAfter
  <2> QED
    BY <2>9 DEF e
<1>5. ASSUME NEW s \in Starts(B), NEW e, e = TextEnd(B, s), e # 0,
             C[Len(A) + e + 1] = "("
      PROVE  LinkAfter(C, Len(A) + e, F)
  <2>1. s \in 1..(Len(B) + 1)
    BY DEF Starts
  <2>2. e \in s..Len(B) /\ B[e] = "]"
    BY <2>1, <1>1, <1>5, TextEndFrom
  <2>3. (e # 0 /\ B[e + 1] = "(") => LinkAfter(B, e, F)
    BY <1>5 DEF Tame
  <2>4. e \in Nat /\ e < Len(B)
    <3>1. e # Len(B)
      BY <2>2, <2>1, <1>1, <1>2 DEF Lines
    <3> QED
      BY <3>1, <2>1, <2>2, <1>2
  <2>5. C[Len(A) + (e + 1)] = B[e + 1] /\ Len(A) + (e + 1) = Len(A) + e + 1
    BY <2>4, <1>2
  <2>6. B[e + 1] = "("
    BY <2>5, <1>5
  <2>7. e + 3 <= Len(B) /\ B[e + 2] \in F /\ B[e + 3] = ")"
    BY <2>3, <2>6, <1>5 DEF LinkAfter
  <2>8. /\ C[Len(A) + (e + 2)] = B[e + 2] /\ Len(A) + (e + 2) = (Len(A) + e) + 2
        /\ C[Len(A) + (e + 3)] = B[e + 3] /\ Len(A) + (e + 3) = (Len(A) + e) + 3
    BY <2>4, <2>7, <1>2
  <2>9. (Len(A) + e) + 3 <= Len(C)
    BY <2>4, <2>7, <1>2
  <2> QED
    BY <2>7, <2>8, <2>9 DEF LinkAfter
<1>6. ASSUME NEW s \in Starts(C), TextEnd(C, s) # 0, C[TextEnd(C, s) + 1] = "("
      PROVE  LinkAfter(C, TextEnd(C, s), F)
  <2>1. s \in 1..(Len(C) + 1) /\ (s = 1 \/ C[s - 1] = "[")
    BY DEF Starts
  <2>2. CASE s <= Len(A) + 1
    <3>1. s \in Starts(A) /\ s \in 1..(Len(A) + 1)
      BY <2>1, <2>2, <1>2 DEF Starts
    <3>2. CASE TextEnd(A, s) # 0
      <4>1. TextEnd(C, s) = TextEnd(A, s)
        BY <3>1, <3>2, <1>1, EndWithin DEF C
      <4> QED
        BY <4>1, <3>1, <3>2, <1>4, <1>6
    <3>3. CASE TextEnd(A, s) = 0
      <4> DEFINE e == TextEnd(B, 1)
      <4>1. TextEnd(C, s) = Shifted(e, Len(A))
        BY <3>1, <3>3, <1>1, <1>6, EndWithin DEF C
      <4>2. 1 \in Starts(B)
        BY <1>2 DEF Starts
      <4>3. e \in Nat
        BY <1>1, <1>2, TextEndFrom
      <4> HIDE DEF e
      <4>4. e # 0 /\ TextEnd(C, s) = Len(A) + e
        BY <4>1, <4>3, <1>2, <1>6 DEF Shifted
      <4>5. LinkAfter(C, Len(A) + e, F)
        BY <4>2, <4>4, <1>5, <1>6 DEF e
      <4> QED
        BY <4>4, <4>5
    <3> QED
      BY <3>2, <3>3
  <2>3. CASE s > Len(A) + 1
    <3> DEFINE r == s - Len(A)
               e == TextEnd(B, r)
    <3>1. r \in 1..(Len(B) + 1) /\ s = Len(A) + r
      BY <2>1, <2>3, <1>2
    <3>2. r - 1 \in 1..Len(B) /\ C[s - 1] = B[r - 1]
      <4>1. r - 1 \in 1..Len(B) /\ s - 1 = Len(A) + (r - 1)
        BY <2>1, <2>3, <1>2
      <4> QED
        BY <4>1, <1>2
    <3>3. r \in Starts(B)
      BY <3>1, <3>2, <2>1, <2>3, <1>2 DEF Starts
    <3>4. TextEnd(C, s) = Shifted(e, Len(A))
      BY <3>1, <1>1, EndBeyond DEF C
    <3>5. e \in Nat
      BY <3>1, <1>1, <1>2, TextEndFrom
    <3>6. r \in Starts(B) /\ e = TextEnd(B, r)
      BY <3>3
    <3> HIDE DEF r, e
    <3>7. e # 0 /\ TextEnd(C, s) = Len(A) + e
      BY <3>4, <3>5, <1>2, <1>6 DEF Shifted
    <3>8. LinkAfter(C, Len(A) + e, F)
      BY <3>6, <3>7, <1>5, <1>6
    <3> QED
      BY <3>7, <3>8
  <2> QED
    BY <2>2, <2>3, <2>1, <1>2
<1>7. C \in Tame(F)
  BY <1>3, <1>6 DEF Tame
<1> QED
  BY <1>7 DEF C

LEMMA TameWider ==
  ASSUME NEW F, NEW G, F \subseteq G
  PROVE  Tame(F) \subseteq Tame(G)
BY DEF Tame, LinkAfter

LEMMA TameEmpty ==
  ASSUME NEW F
  PROVE  <<>> \in Tame(F)
<1>1. <<>> \in Lines /\ <<>> \in Text /\ Len(<<>>) = 0
  BY IsText DEF Lines
<1>2. \A s \in Starts(<<>>) : TextEnd(<<>>, s) = 0
  <2>1. \A s \in Starts(<<>>) : s = 1 /\ s \in 1..(Len(<<>>) + 1) /\ s > Len(<<>>)
    BY <1>1 DEF Starts
  <2> QED
    BY <2>1, <1>1, TextEndIs
<1> QED
  BY <1>1, <1>2 DEF Tame

LEMMA TameTargets ==
  ASSUME NEW F \in SUBSET (Tokens \ Stops), NEW t \in Tame(F)
  PROVE  Targets(t) \subseteq {<<f>> : f \in F}
<1> DEFINE U == {<<f>> : f \in F}
<1>1. t \in Text /\ Len(t) \in Nat /\ 1 \in 1..(Len(t) + 1)
  BY DEF Tame, Lines, Text
<1>2. ASSUME NEW i \in 1..Len(t), TargetAt(t, i) # <<>>
      PROVE  TargetAt(t, i) \in U
  <2> DEFINE e == EndOf(t, i)
  <2>1. /\ t[i] = "[" /\ e = TextEnd(t, i + 1)
        /\ e \in (i + 1)..(Len(t) - 1)
        /\ t[e + 1] = "(" /\ TargetAt(t, i) = Target(t, e + 2)
    BY <1>1, <1>2, TargetAtIs
  <2>2. i + 1 \in Starts(t)
    BY <1>1, <2>1 DEF Starts
  <2>3. e # 0
    BY <2>1, <1>1
  <2>4. LinkAfter(t, e, F)
    BY <2>1, <2>2, <2>3 DEF Tame
  <2> HIDE DEF e
  <2> DEFINE f == t[e + 2]
  <2>5. f \in F /\ f \in Tokens \ Stops /\ e \in Nat
    BY <2>1, <2>4, <1>1 DEF LinkAfter
  <2>6. <<f>> \in Text /\ Len(<<f>>) = 1 /\ <<f>>[1] = f
    BY <2>5, IsText
  <2>7. e + 2 \in 1..(Len(t) + 1) /\ (e + 2) + 1 <= Len(t) /\ t[(e + 2) + 1] \in Stops
    BY <2>4, <2>5, <1>1 DEF LinkAfter, Stops
  <2>8. \A j \in 1..1 : <<f>>[j] = t[(e + 2) + j - 1] /\ <<f>>[j] \notin Stops
    BY <2>5, <2>6
  <2>9. Target(t, e + 2) = <<f>>
    <3> HIDE DEF f
    <3> QED
      BY <2>6, <2>7, <2>8, <1>1, TargetIsThat
  <2> QED
    BY <2>1, <2>5, <2>9
<1>3. TargetsFrom(t, 1) \subseteq U
  <2> HIDE DEF U
  <2> QED
    BY <1>1, <1>2, AllTargets
<1> QED
  BY <1>3 DEF Targets

-----------------------------------------------------------------------------
(* Texts in which every "](" begins a link to a file of F; none does in a   *)
(* text of Tidy({}).                                                        *)
Tidy(F) ==
  {t \in Text : \A k \in 1..(Len(t) - 1) :
     t[k] = "]" /\ t[k + 1] = "(" => LinkAfter(t, k, F)}

(* Texts that make no "](" where they meet.                                 *)
Apart(A, B) == A = <<>> \/ B = <<>> \/ A[Len(A)] # "]" \/ B[1] # "("

LEMMA TidyIsClear ==
  ASSUME NEW t \in Text
  PROVE  t \in Tidy({}) <=> ~HoldsLink(t)
BY DEF Tidy, LinkAfter, HoldsLink

LEMMA TidyWider ==
  ASSUME NEW F, NEW G, F \subseteq G
  PROVE  Tidy(F) \subseteq Tidy(G)
BY DEF Tidy, LinkAfter

LEMMA TidyJoined ==
  ASSUME NEW F, NEW A \in Tidy(F), NEW B \in Tidy(F), Apart(A, B)
  PROVE  A \o B \in Tidy(F)
<1> DEFINE C == A \o B
<1>1. A \in Text /\ B \in Text
  BY DEF Tidy
<1>2. /\ Len(A) \in Nat /\ Len(B) \in Nat /\ Len(C) = Len(A) + Len(B) /\ C \in Text
      /\ \A j \in 1..Len(A) : C[j] = A[j]
      /\ \A j \in 1..Len(B) : C[Len(A) + j] = B[j]
  BY <1>1, Joined
<1>3. (A = <<>> => Len(A) = 0) /\ (B = <<>> => Len(B) = 0)
  OBVIOUS
<1> HIDE DEF C
<1>4. ASSUME NEW k \in 1..(Len(C) - 1), C[k] = "]", C[k + 1] = "("
      PROVE  LinkAfter(C, k, F)
  <2>1. CASE k < Len(A)
    <3>1. A[k] = "]" /\ A[k + 1] = "("
      BY <2>1, <1>2, <1>4
    <3>2. LinkAfter(A, k, F)
      BY <2>1, <3>1, <1>2 DEF Tidy
    <3>3. k + 3 <= Len(A) /\ A[k + 2] \in F /\ A[k + 3] = ")"
      BY <3>2 DEF LinkAfter
    <3>4. C[k + 2] = A[k + 2] /\ C[k + 3] = A[k + 3] /\ k + 3 <= Len(C)
      BY <3>3, <1>2
    <3> QED
      BY <3>3, <3>4 DEF LinkAfter
  <2>2. CASE k = Len(A)
    <3>1. 1 \in 1..Len(B) /\ Len(A) \in 1..Len(A)
      BY <2>2, <1>2
    <3>2. A[Len(A)] = "]" /\ B[1] = "("
      BY <2>2, <3>1, <1>2, <1>4
    <3> QED
      BY <3>1, <3>2, <1>3 DEF Apart
  <2>3. CASE k > Len(A)
    <3> DEFINE j == k - Len(A)
    <3>1. j \in 1..(Len(B) - 1) /\ k = Len(A) + j
      BY <2>3, <1>2
    <3> HIDE DEF j
    <3>2. C[Len(A) + j] = B[j] /\ C[Len(A) + (j + 1)] = B[j + 1]
      BY <3>1, <1>2
    <3>3. B[j] = "]" /\ B[j + 1] = "("
      BY <3>1, <3>2, <1>2, <1>4
    <3>4. LinkAfter(B, j, F)
      BY <3>1, <3>3 DEF Tidy
    <3>5. /\ j + 3 <= Len(B) /\ B[j + 2] \in F /\ B[j + 3] = ")"
      BY <3>4 DEF LinkAfter
    <3>6. C[Len(A) + (j + 2)] = B[j + 2] /\ C[Len(A) + (j + 3)] = B[j + 3]
      BY <3>1, <3>5, <1>2
    <3> QED
      BY <3>1, <3>5, <3>6, <1>2 DEF LinkAfter
  <2> QED
    BY <2>1, <2>2, <2>3, <1>2
<1> QED
  BY <1>2, <1>4 DEF Tidy, C

LEMMA TidyShort ==
  ASSUME NEW F
  PROVE  /\ \A s \in Tokens : <<s>> \in Tidy(F)
         /\ \A s, u \in Tokens : s # "]" \/ u # "(" => <<s, u>> \in Tidy(F)
         /\ <<>> \in Tidy(F)
<1>1. ASSUME NEW s \in Tokens
      PROVE  <<s>> \in Tidy(F)
  <2>1. <<s>> \in Text /\ Len(<<s>>) = 1
    BY IsText
  <2>2. \A k \in 1..(Len(<<s>>) - 1) : FALSE
    BY <2>1
  <2> QED
    BY <2>1, <2>2 DEF Tidy
<1>2. ASSUME NEW s \in Tokens, NEW u \in Tokens, s # "]" \/ u # "("
      PROVE  <<s, u>> \in Tidy(F)
  <2>1. <<s, u>> \in Text /\ Len(<<s, u>>) = 2 /\ <<s, u>>[1] = s /\ <<s, u>>[2] = u
    BY IsText
  <2>2. \A k \in 1..(Len(<<s, u>>) - 1) : k = 1
    BY <2>1
  <2> QED
    BY <2>1, <2>2, <1>2 DEF Tidy
<1>3. <<>> \in Tidy(F)
  BY IsText DEF Tidy
<1> QED
  BY <1>1, <1>2, <1>3

(* What surrounds a tidy text, as long as it is no "(" behind it.           *)
LEMMA TidyBetween ==
  ASSUME NEW F, NEW A \in Tidy(F), NEW s \in Tokens \ {"]"}, NEW u \in Tokens \ {"("}
  PROVE  <<s>> \o A \o <<u>> \in Tidy(F) /\ A \o <<u>> \in Tidy(F)
<1>1. <<s>> \in Tidy(F) /\ <<u>> \in Tidy(F)
  BY TidyShort
<1>2. <<s>>[Len(<<s>>)] = s /\ <<u>>[1] = u
  OBVIOUS
<1>3. <<s>> \o A \in Tidy(F)
  BY <1>1, <1>2, TidyJoined DEF Apart
<1>4. <<s>> \o A \o <<u>> \in Tidy(F)
  BY <1>1, <1>2, <1>3, TidyJoined DEF Apart
<1>5. A \o <<u>> \in Tidy(F)
  BY <1>1, <1>2, TidyJoined DEF Apart
<1> QED
  BY <1>4, <1>5

LEMMA TidyIsTame ==
  ASSUME NEW F
  PROVE  Tidy(F) \cap Lines \subseteq Tame(F)
<1> SUFFICES ASSUME NEW t \in Tidy(F), t \in Lines, NEW s \in Starts(t),
                    TextEnd(t, s) # 0, t[TextEnd(t, s) + 1] = "("
             PROVE  LinkAfter(t, TextEnd(t, s), F)
  BY DEF Tame
<1> DEFINE e == TextEnd(t, s)
<1>1. t \in Text /\ Len(t) \in Nat /\ s \in 1..(Len(t) + 1)
  BY DEF Lines, Text, Starts
<1>2. e \in s..Len(t) /\ t[e] = "]"
  BY <1>1, TextEndFrom
<1>3. t[e + 1] = "("
  OBVIOUS
<1> HIDE DEF e
<1>4. e \in Nat /\ e < Len(t) /\ e >= 1
  <2>1. e # Len(t)
    BY <1>1, <1>2 DEF Lines
  <2> QED
    BY <2>1, <1>1, <1>2
<1>5. LinkAfter(t, e, F)
  BY <1>1, <1>2, <1>3, <1>4 DEF Tidy
<1> QED
  BY <1>5 DEF e

LEMMA TidyLine ==
  ASSUME NEW F, NEW A \in Tidy(F)
  PROVE  Line(A) \in Tidy(F) \cap Lines
<1>1. A \in Text
  BY DEF Tidy
<1>2. "nl" \in Tokens \ {"("} /\ "x" \in Tokens \ {"]"}
  BY IsText DEF Marks, Wording
<1>3. Line(A) \in Tidy(F)
  BY <1>2, TidyBetween DEF Line
<1> QED
  BY <1>1, <1>3, LineIs

LEMMA TidyLines ==
  ASSUME NEW F, NEW A \in Tidy(F) \cap Lines, NEW B \in Tidy(F) \cap Lines
  PROVE  A \o B \in Tidy(F) \cap Lines
<1>1. Apart(A, B)
  BY DEF Apart, Lines
<1>2. A \o B \in Tidy(F)
  BY <1>1, TidyJoined
<1>3. A \in Text
  BY DEF Lines
<1> QED
  BY <1>2, <1>3, LinesJoined

-----------------------------------------------------------------------------
(* What is escaped.                                                         *)

Escaped(c, S) == IF c \in S THEN <<"\\", c>> ELSE <<c>>

LEMMA EscapePieces ==
  ASSUME NEW t \in Text, NEW S
  PROVE  /\ Escape(t, S) = FlattenSeq([k \in 1..Len(t) |-> Escaped(t[k], S)])
         /\ [k \in 1..Len(t) |-> Escaped(t[k], S)] \in [1..Len(t) -> Text]
         /\ Len(t) \in Nat
<1>1. DOMAIN t = 1..Len(t) /\ Len(t) \in Nat /\ \A k \in 1..Len(t) : t[k] \in Tokens
  BY DEF Text
<1>2. Escape(t, S) = FlattenSeq([k \in 1..Len(t) |-> Escaped(t[k], S)])
  BY <1>1 DEF Escape, Escaped
<1>3. \A c \in Tokens : Escaped(c, S) \in Text
  BY IsText DEF Escaped, Marks
<1> QED
  BY <1>1, <1>2, <1>3

LEMMA EscapeIsText ==
  ASSUME NEW t \in Text, NEW S
  PROVE  Escape(t, S) \in Text
<1> DEFINE g == [k \in 1..Len(t) |-> Escaped(t[k], S)]
           n == Len(t)
<1>1. Escape(t, S) = FlattenSeq(g) /\ g \in [1..n -> Text] /\ n \in Nat
  BY EscapePieces
<1> HIDE DEF g, n
<1>2. \A i \in 1..n : \A A \in Text : A \in Text => A \o g[i] \in Text
  BY <1>1, Joined
<1>3. FlattenSeq(g) \in Text
  BY <1>1, <1>2, IsText, FlattenedLines
<1> QED
  BY <1>1, <1>3

(* Escaping makes no link: the last token escaped is the last of the text.  *)
LEMMA EscapeIsTidy ==
  ASSUME NEW t \in Tidy({}), NEW S
  PROVE  Escape(t, S) \in Tidy({})
<1> DEFINE g == [k \in 1..Len(t) |-> Escaped(t[k], S)]
           n == Len(t)
           W == [i \in 0..n |->
                   {A \in Tidy({}) : IF i = 0 THEN A = <<>>
                                     ELSE A # <<>> /\ A[Len(A)] = t[i]}]
<1>1. t \in Text
  BY DEF Tidy
<1>2. Escape(t, S) = FlattenSeq(g) /\ g \in [1..n -> Text] /\ n \in Nat
  BY <1>1, EscapePieces
<1>3. \A i \in 1..n : t[i] \in Tokens
  BY <1>1 DEF Text
<1>4. <<>> \in W[0]
  BY <1>2, TidyShort
<1>5. ASSUME NEW i \in 1..n, NEW A \in W[i - 1]
      PROVE  A \o g[i] \in W[i]
  <2>1. A \in Tidy({}) /\ A \in Text
    BY <1>2 DEF Tidy
  <2>2. i = 1 => A = <<>>
    BY <1>2
  <2>3. i # 1 => A # <<>> /\ A[Len(A)] = t[i - 1]
    BY <1>2
  <2>4. g[i] = Escaped(t[i], S)
    OBVIOUS
  <2>5. t[i] \in Tokens /\ "\\" \in Tokens
    BY <1>3, IsText DEF Marks
  <2>6. /\ g[i] \in Tidy({}) /\ g[i] \in Text /\ Len(g[i]) \in 1..Len(g[i])
        /\ g[i][Len(g[i])] = t[i] /\ g[i][1] \in {"\\", t[i]}
    <3>1. CASE t[i] \in S
      <4>1. g[i] = <<"\\", t[i]>>
        BY <2>4, <3>1 DEF Escaped
      <4> HIDE DEF g
      <4>2. g[i] \in Tidy({})
        BY <4>1, <2>5, TidyShort
      <4> QED
        BY <4>1, <4>2, <2>5, IsText
    <3>2. CASE t[i] \notin S
      <4>1. g[i] = <<t[i]>>
        BY <2>4, <3>2 DEF Escaped
      <4> HIDE DEF g
      <4>2. g[i] \in Tidy({})
        BY <4>1, <2>5, TidyShort
      <4> QED
        BY <4>1, <4>2, <2>5, IsText
    <3> QED
      BY <3>1, <3>2
  <2> HIDE DEF g
  <2>7. Apart(A, g[i])
    <3>1. CASE i = 1
      BY <3>1, <2>2 DEF Apart
    <3>2. CASE i # 1
      <4>1. i - 1 \in 1..(Len(t) - 1)
        BY <3>2, <1>2
      <4>2. ~(t[i - 1] = "]" /\ t[(i - 1) + 1] = "(")
        BY <4>1, <1>1, TidyIsClear DEF HoldsLink
      <4>3. (i - 1) + 1 = i
        BY <1>2
      <4> QED
        BY <4>2, <4>3, <2>3, <2>6, <3>2 DEF Apart
    <3> QED
      BY <3>1, <3>2
  <2>8. A \o g[i] \in Tidy({})
    BY <2>1, <2>6, <2>7, TidyJoined
  <2>9. /\ Len(A \o g[i]) = Len(A) + Len(g[i]) /\ Len(A) \in Nat /\ Len(g[i]) \in Nat
        /\ (A \o g[i])[Len(A) + Len(g[i])] = g[i][Len(g[i])]
    BY <2>1, <2>6, Joined
  <2>10. A \o g[i] # <<>> /\ (A \o g[i])[Len(A \o g[i])] = t[i]
    BY <2>6, <2>9
  <2> QED
    BY <2>8, <2>10, <1>2
<1>6. FlattenSeq(g) \in W[n]
  <2> HIDE DEF W, g, n
  <2> QED
    BY <1>2, <1>4, <1>5, Flattened
<1>7. W[n] \subseteq Tidy({})
  BY <1>2
<1> QED
  BY <1>2, <1>6, <1>7

(* A text through which every label that is open stays open.                *)
Calm ==
  {t \in Text : \A s \in Starts(t) : \A V \in Text :
     TextEnd(t \o V, s) = Shifted(TextEnd(V, 1), Len(t))}

LEMMA CalmJoined ==
  ASSUME NEW A \in Calm, NEW B \in Calm
  PROVE  A \o B \in Calm
<1> DEFINE C == A \o B
<1>1. A \in Text /\ B \in Text
  BY DEF Calm
<1>2. /\ Len(A) \in Nat /\ Len(B) \in Nat /\ Len(C) = Len(A) + Len(B) /\ C \in Text
      /\ \A j \in 1..Len(A) : C[j] = A[j]
      /\ \A j \in 1..Len(B) : C[Len(A) + j] = B[j]
  BY <1>1, Joined
<1>3. 1 \in Starts(B)
  BY <1>2 DEF Starts
<1>4. ASSUME NEW s \in Starts(C), NEW V \in Text
      PROVE  TextEnd(C \o V, s) = Shifted(TextEnd(V, 1), Len(C))
  <2>1. C \o V = A \o (B \o V) /\ B \o V \in Text
    <3>1. B \o V \in Text
      BY <1>1, Joined
    <3>2. (A \o B) \o V = A \o (B \o V)
      BY <1>1, Rejoined
    <3> QED
      BY <3>1, <3>2
  <2>2. TextEnd(B \o V, 1) = Shifted(TextEnd(V, 1), Len(B))
    BY <1>3 DEF Calm
  <2>3. TextEnd(V, 1) \in Nat
    <3>1. Len(V) \in Nat /\ 1 \in 1..(Len(V) + 1)
      BY DEF Text
    <3> QED
      BY <3>1, TextEndFrom
  <2> HIDE DEF C
  <2>4. s \in 1..(Len(C) + 1) /\ (s = 1 \/ C[s - 1] = "[")
    BY DEF Starts
  <2>5. CASE s <= Len(A) + 1
    <3>1. s \in Starts(A)
      BY <2>4, <2>5, <1>2 DEF Starts
    <3>2. TextEnd(A \o (B \o V), s) = Shifted(TextEnd(B \o V, 1), Len(A))
      BY <2>1, <3>1 DEF Calm
    <3> QED
      BY <2>1, <2>2, <2>3, <3>2, <1>2 DEF Shifted
  <2>6. CASE s > Len(A) + 1
    <3> DEFINE r == s - Len(A)
    <3>1. r \in 1..(Len(B) + 1) /\ s = Len(A) + r /\ r - 1 \in 1..Len(B)
          /\ s - 1 = Len(A) + (r - 1)
      BY <2>4, <2>6, <1>2
    <3> HIDE DEF r
    <3>2. B[r - 1] = "["
      BY <3>1, <2>4, <2>6, <1>2
    <3>3. r \in Starts(B)
      BY <3>1, <3>2 DEF Starts
    <3>4. r \in 1..(Len(B \o V) + 1)
      <4>1. Len(B \o V) = Len(B) + Len(V) /\ Len(V) \in Nat
        BY <1>1, Joined
      <4> QED
        BY <4>1, <3>1, <1>2
    <3>5. TextEnd(A \o (B \o V), s) = Shifted(TextEnd(B \o V, r), Len(A))
      BY <2>1, <3>1, <3>4, <1>1, EndBeyond
    <3>6. TextEnd(B \o V, r) = Shifted(TextEnd(V, 1), Len(B))
      BY <3>3 DEF Calm
    <3> QED
      BY <2>1, <2>3, <3>5, <3>6, <1>2 DEF Shifted
  <2> QED
    BY <2>4, <2>5, <2>6, <1>2
<1> QED
  BY <1>2, <1>4 DEF Calm

LEMMA CalmShort ==
  /\ <<>> \in Calm
  /\ \A c \in Tokens \ {"[", "]", "\\"} : <<c>> \in Calm
  /\ \A c \in {"[", "]"} : <<"\\", c>> \in Calm
<1>1. <<>> \in Calm
  <2>1. <<>> \in Text /\ Len(<<>>) = 0 /\ Starts(<<>>) \subseteq {1}
    BY IsText DEF Starts
  <2>2. ASSUME NEW V \in Text
        PROVE  TextEnd(<<>> \o V, 1) = Shifted(TextEnd(V, 1), Len(<<>>))
    <3>1. 1 \in 1..(Len(V) + 1)
      BY DEF Text
    <3>2. TextEnd(<<>> \o V, Len(<<>>) + 1) = Shifted(TextEnd(V, 1), Len(<<>>))
      BY <2>1, <3>1, EndBeyond
    <3> QED
      BY <2>1, <3>2
  <2> QED
    BY <2>1, <2>2 DEF Calm
<1>2. ASSUME NEW c \in Tokens \ {"[", "]", "\\"}
      PROVE  <<c>> \in Calm
  <2>1. <<c>> \in Text /\ Len(<<c>>) = 1 /\ <<c>>[1] = c
    BY IsText
  <2>2. ASSUME NEW s \in Starts(<<c>>)
        PROVE  s = 1
    <3>1. s \in 1..2 /\ (s = 1 \/ <<c>>[s - 1] = "[")
      BY <2>1 DEF Starts
    <3> QED
      BY <3>1, <2>1
  <2>3. ASSUME NEW V \in Text
        PROVE  TextEnd(<<c>> \o V, 1) = Shifted(TextEnd(V, 1), 1)
    <3> DEFINE C == <<c>> \o V
    <3>1. C \in Text /\ Len(C) = 1 + Len(V) /\ Len(V) \in Nat /\ C[1] = c
      <4>1. 1 \in 1..1
        OBVIOUS
      <4> QED
        BY <4>1, <2>1, Joined
    <3>2. TextEnd(C, 1 + 1) = Shifted(TextEnd(V, 1), 1)
      <4>1. 1 \in 1..(Len(V) + 1)
        BY <3>1
      <4> QED
        BY <4>1, <2>1, EndBeyond
    <3> HIDE DEF C
    <3>3. TextEnd(C, 1) = TextEnd(C, 1 + 1)
      <4>1. 1 \in 1..(Len(C) + 1) /\ ~(1 > Len(C))
        BY <3>1
      <4> QED
        BY <4>1, <3>1, TextEndIs
    <3>4. TextEnd(C, 1) = Shifted(TextEnd(V, 1), 1)
      BY <3>2, <3>3
    <3> QED
      BY <3>4 DEF C
  <2> QED
    BY <2>1, <2>2, <2>3 DEF Calm
<1>3. ASSUME NEW c \in {"[", "]"}
      PROVE  <<"\\", c>> \in Calm
  <2> DEFINE p == <<"\\", c>>
  <2>1. p \in Text /\ Len(p) = 2 /\ p[1] = "\\" /\ p[2] = c
    BY IsText DEF Marks
  <2> HIDE DEF p
  <2>2. ASSUME NEW s \in Starts(p)
        PROVE  s = 1 \/ s = 3
    <3>1. s \in 1..3 /\ (s = 1 \/ p[s - 1] = "[")
      BY <2>1 DEF Starts
    <3> QED
      BY <3>1, <2>1
  <2>3. ASSUME NEW V \in Text
        PROVE  /\ TextEnd(p \o V, 1) = Shifted(TextEnd(V, 1), 2)
               /\ TextEnd(p \o V, 3) = Shifted(TextEnd(V, 1), 2)
    <3> DEFINE C == p \o V
    <3>1. C \in Text /\ Len(C) = 2 + Len(V) /\ Len(V) \in Nat /\ C[1] = "\\" /\ C[2] = c
      <4>1. 1 \in 1..2 /\ 2 \in 1..2
        OBVIOUS
      <4>2. /\ C \in Text /\ Len(C) = Len(p) + Len(V) /\ Len(V) \in Nat
            /\ \A i \in 1..Len(p) : C[i] = p[i]
        BY <2>1, Joined
      <4> QED
        BY <4>1, <4>2, <2>1
    <3>2. TextEnd(C, 2 + 1) = Shifted(TextEnd(V, 1), 2)
      <4>1. 1 \in 1..(Len(V) + 1)
        BY <3>1
      <4> QED
        BY <4>1, <2>1, EndBeyond
    <3> HIDE DEF C
    <3>3. TextEnd(C, 1) = TextEnd(C, 1 + 2)
      <4>1. 1 \in 1..(Len(C) + 1) /\ ~(1 > Len(C)) /\ 1 # Len(C) /\ C[1 + 1] # "nl"
        BY <3>1
      <4> QED
        BY <4>1, <3>1, TextEndIs
    <3>4. TextEnd(C, 1) = Shifted(TextEnd(V, 1), 2) /\ TextEnd(C, 3) = Shifted(TextEnd(V, 1), 2)
      BY <3>2, <3>3
    <3> QED
      BY <3>4 DEF C
  <2>4. p \in Calm
    BY <2>1, <2>2, <2>3 DEF Calm
  <2> QED
    BY <2>4 DEF p
<1> QED
  BY <1>1, <1>2, <1>3

LEMMA EscapeIsCalm ==
  ASSUME NEW t \in Text, "\\" \notin Range(t)
  PROVE  EscapeLinkText(t) \in Calm
<1> DEFINE S == {"[", "]"}
           g == [k \in 1..Len(t) |-> Escaped(t[k], S)]
           n == Len(t)
<1>1. EscapeLinkText(t) = FlattenSeq(g) /\ g \in [1..n -> Text] /\ n \in Nat
  BY EscapePieces DEF EscapeLinkText
<1>2. \A i \in 1..n : t[i] \in Tokens \ {"\\"}
  BY DEF Text, Range
<1>3. \A i \in 1..n : g[i] \in Calm
  BY <1>2, CalmShort DEF Escaped
<1> HIDE DEF g, n
<1>4. \A i \in 1..n : \A A \in Calm : A \in Text => A \o g[i] \in Calm
  BY <1>3, CalmJoined
<1>5. FlattenSeq(g) \in Calm
  BY <1>1, <1>4, CalmShort, FlattenedLines
<1> QED
  BY <1>1, <1>5

-----------------------------------------------------------------------------
(* The links that are rendered.                                             *)

Close(f) == <<"]", "(", f, ")">>

LEMMA CloseIs ==
  ASSUME NEW f \in Tokens, NEW B \in Text
  PROVE  /\ Close(f) \in Text /\ Len(Close(f)) = 4
         /\ Close(f)[1] = "]" /\ Close(f)[2] = "(" /\ Close(f)[3] = f /\ Close(f)[4] = ")"
         /\ Close(f) \o B \in Text /\ Len(Close(f) \o B) = 4 + Len(B)
         /\ (Close(f) \o B)[1] = "]" /\ (Close(f) \o B)[2] = "("
         /\ (Close(f) \o B)[3] = f /\ (Close(f) \o B)[4] = ")"
         /\ TextEnd(Close(f) \o B, 1) = 1
<1> DEFINE p == Close(f)
           V == p \o B
<1>1. /\ p \in Text /\ Len(p) = 4
      /\ p[1] = "]" /\ p[2] = "(" /\ p[3] = f /\ p[4] = ")"
  <2>1. "]" \in Tokens /\ "(" \in Tokens /\ ")" \in Tokens
    BY IsText DEF Marks
  <2> QED
    BY <2>1 DEF Close, Text
<1> HIDE DEF p
<1>2. /\ V \in Text /\ Len(V) = 4 + Len(B) /\ Len(B) \in Nat
      /\ \A i \in 1..4 : V[i] = p[i]
  <2>1. /\ V \in Text /\ Len(V) = Len(p) + Len(B) /\ Len(B) \in Nat
        /\ \A i \in 1..Len(p) : V[i] = p[i]
    BY <1>1, Joined
  <2> QED
    BY <2>1, <1>1
<1>3. V[1] = "]" /\ V[2] = "(" /\ V[3] = f /\ V[4] = ")"
  <2>1. 1 \in 1..4 /\ 2 \in 1..4 /\ 3 \in 1..4 /\ 4 \in 1..4
    OBVIOUS
  <2> QED
    BY <2>1, <1>1, <1>2
<1> HIDE DEF V
<1>4. TextEnd(V, 1) = 1
  <2>1. 1 \in 1..(Len(V) + 1) /\ ~(1 > Len(V))
    BY <1>2
  <2> QED
    BY <2>1, <1>2, <1>3, TextEndIs
<1> QED
  BY <1>1, <1>2, <1>3, <1>4 DEF V, p

LEMMA LinkIsText ==
  ASSUME NEW t \in Text, NEW f \in Tokens
  PROVE  /\ EscapeLinkText(t) \in Text /\ Len(EscapeLinkText(t)) \in Nat
         /\ Link(t, f) \in Text
         /\ Len(Link(t, f)) = Len(EscapeLinkText(t)) + 5
         /\ Link(t, f)[Len(Link(t, f))] = ")" /\ Link(t, f)[1] = "["
<1> DEFINE E == EscapeLinkText(t)
           O == <<"[">> \o E
<1>1. E \in Text
  BY EscapeIsText DEF EscapeLinkText
<1> HIDE DEF E
<1>2. <<"[">> \in Text /\ Len(<<"[">>) = 1 /\ <<"[">>[1] = "["
  BY IsText DEF Marks
<1>3. O \in Text /\ Len(O) = 1 + Len(E) /\ Len(E) \in Nat /\ O[1] = "["
  <2>1. 1 \in 1..1
    OBVIOUS
  <2> QED
    BY <2>1, <1>1, <1>2, Joined
<1>4. Close(f) \in Text /\ Len(Close(f)) = 4 /\ Close(f)[4] = ")"
  BY CloseIs, IsText
<1> HIDE DEF O
<1>5. /\ O \o Close(f) \in Text /\ Len(O \o Close(f)) = Len(O) + 4
      /\ (O \o Close(f))[Len(O) + 4] = ")" /\ (O \o Close(f))[1] = "["
  <2> DEFINE c == Close(f)
             C == O \o c
  <2>1. 4 \in 1..4 /\ 1 \in 1..Len(O)
    BY <1>3
  <2>2. c \in Text /\ Len(c) = 4 /\ c[4] = ")"
    BY <1>4
  <2> HIDE DEF c
  <2>3. /\ C \in Text /\ Len(C) = Len(O) + Len(c)
        /\ \A i \in 1..Len(O) : C[i] = O[i]
        /\ \A i \in 1..Len(c) : C[Len(O) + i] = c[i]
    BY <2>2, <1>3, Joined
  <2> HIDE DEF C
  <2>4. C \in Text /\ Len(C) = Len(O) + 4 /\ C[Len(O) + 4] = ")" /\ C[1] = "["
    BY <2>1, <2>2, <2>3, <1>3
  <2> QED
    BY <2>4 DEF C, c
<1>6. Link(t, f) = O \o Close(f)
  BY DEF Link, Close, O, E
<1>7. (Len(E) + 1) + 4 = Len(E) + 5
  BY <1>3
<1> QED
  BY <1>1, <1>3, <1>5, <1>6, <1>7 DEF E

LEMMA LinkSplit ==
  ASSUME NEW t \in Text, NEW f \in Tokens, NEW B \in Text
  PROVE  Link(t, f) \o B = <<"[">> \o (EscapeLinkText(t) \o (Close(f) \o B))
<1> DEFINE E == EscapeLinkText(t)
           o == <<"[">>
           c == Close(f)
           O == o \o E
           V == c \o B
<1>1. E \in Text /\ o \in Text /\ c \in Text /\ V \in Text
  BY LinkIsText, CloseIs, IsText DEF Marks
<1>2. Link(t, f) = O \o c
  BY DEF Link, Close
<1> HIDE DEF E, o, c
<1>3. O \in Text
  BY <1>1, Joined
<1>4. O \o V = o \o (E \o V)
  <2> HIDE DEF V
  <2> QED
    BY <1>1, Rejoined
<1> HIDE DEF O
<1>5. (O \o c) \o B = O \o V
  BY <1>1, <1>3, Rejoined
<1> QED
  BY <1>2, <1>4, <1>5 DEF E, o, c, V

LEMMA LinkPlace ==
  ASSUME NEW A \in Text, NEW B \in Text, NEW t \in Text, "\\" \notin Range(t),
         NEW f \in Tokens
  PROVE  LinkAt(A \o (Link(t, f) \o B), Len(A) + 1,
                Len(A) + Len(EscapeLinkText(t)) + 2, f)
<1> DEFINE E == EscapeLinkText(t)
           V == Close(f) \o B
           R == <<"[">> \o (E \o V)
           C == A \o R
           m == Len(A) + Len(E) + 2
<1>1. Link(t, f) \o B = R
  BY LinkSplit
<1>2. E \in Calm /\ E \in Text /\ Len(E) \in Nat
  BY EscapeIsCalm, LinkIsText
<1>3. /\ V \in Text /\ Len(V) = 4 + Len(B) /\ Len(B) \in Nat
      /\ V[2] = "(" /\ V[3] = f /\ V[4] = ")"
      /\ TextEnd(V, 1) = 1
  BY CloseIs DEF Text
<1> HIDE DEF E, V
<1>4. /\ E \o V \in Text /\ Len(E \o V) = Len(E) + Len(V)
      /\ \A i \in 1..Len(V) : (E \o V)[Len(E) + i] = V[i]
  BY <1>2, <1>3, Joined
<1>5. <<"[">> \in Text /\ Len(<<"[">>) = 1 /\ <<"[">>[1] = "["
  BY IsText DEF Marks
<1>6. /\ R \in Text /\ Len(R) = 1 + Len(E \o V)
      /\ R[1] = "[" /\ \A i \in 1..Len(E \o V) : R[1 + i] = (E \o V)[i]
  <2>1. 1 \in 1..1
    OBVIOUS
  <2> QED
    BY <2>1, <1>4, <1>5, Joined
<1>7. TextEnd(E \o V, 1) = Len(E) + 1
  <2>1. 1 \in Starts(E)
    BY <1>2 DEF Starts
  <2> QED
    BY <2>1, <1>2, <1>3 DEF Calm, Shifted
<1>8. TextEnd(R, 2) = Len(E) + 2
  <2>1. 1 \in 1..(Len(E \o V) + 1)
    BY <1>2, <1>3, <1>4
  <2>2. TextEnd(R, 1 + 1) = Shifted(TextEnd(E \o V, 1), 1)
    BY <2>1, <1>4, <1>5, EndBeyond
  <2> QED
    BY <2>2, <1>2, <1>7 DEF Shifted
<1> HIDE DEF R
<1>9. /\ C \in Text /\ Len(C) = Len(A) + Len(R) /\ Len(A) \in Nat
      /\ \A i \in 1..Len(R) : C[Len(A) + i] = R[i]
  BY <1>6, Joined
<1>10. TextEnd(C, (Len(A) + 1) + 1) = m
  <2>1. 2 \in 1..(Len(R) + 1)
    BY <1>2, <1>3, <1>4, <1>6
  <2>2. TextEnd(C, Len(A) + 2) = Shifted(TextEnd(R, 2), Len(A))
    BY <2>1, <1>6, EndBeyond
  <2>3. (Len(A) + 1) + 1 = Len(A) + 2
    BY <1>9
  <2> QED
    BY <2>2, <2>3, <1>2, <1>8, <1>9 DEF Shifted
<1>11. \A j \in 2..4 : C[m + j - 1] = V[j]
  <2> SUFFICES ASSUME NEW j \in 2..4
               PROVE  C[m + j - 1] = V[j]
    OBVIOUS
  <2>1. j \in 1..Len(V) /\ Len(E) + j \in 1..Len(E \o V)
    BY <1>2, <1>3, <1>4
  <2>2. 1 + (Len(E) + j) \in 1..Len(R)
    BY <2>1, <1>6, <1>2
  <2>3. Len(A) + (1 + (Len(E) + j)) = m + j - 1
    BY <1>2, <1>9
  <2> QED
    BY <2>1, <2>2, <2>3, <1>4, <1>6, <1>9
<1>12. C[m + 1] = "(" /\ C[m + 2] = f /\ C[m + 3] = ")"
  <2>1. 2 \in 2..4 /\ 3 \in 2..4 /\ 4 \in 2..4
    OBVIOUS
  <2>2. m + 2 - 1 = m + 1 /\ m + 3 - 1 = m + 2 /\ m + 4 - 1 = m + 3
    BY <1>2, <1>9
  <2> HIDE DEF m, C
  <2> QED
    BY <2>1, <2>2, <1>3, <1>11
<1>13. C[Len(A) + 1] = "[" /\ Len(A) + 1 \in 1..Len(C)
       /\ m \in ((Len(A) + 1) + 1)..(Len(C) - 3)
  <2>1. 1 \in 1..Len(R)
    BY <1>2, <1>3, <1>4, <1>6
  <2> QED
    BY <2>1, <1>2, <1>3, <1>4, <1>6, <1>9
<1>14. LinkAt(C, Len(A) + 1, m, f)
  <2> HIDE DEF C, m
  <2> QED
    BY <1>10, <1>12, <1>13 DEF LinkAt
<1> QED
  BY <1>1, <1>14 DEF E

(* A link is found where it stands, and at the beginning of a line it is    *)
(* found from the beginning of the text; what is found next is what stands  *)
(* behind it.                                                               *)
(* The targets found in text behind its part A.                             *)
From(text, A) == TargetsFrom(text, Len(A) + 1)

Around(A, t, f, B) == A \o (Link(t, f) \o B)

LEMMA LinkRead ==
  ASSUME NEW A \in Text, NEW B \in Text, NEW t \in Text, "\\" \notin Range(t),
         NEW f \in Tokens \ Stops
  PROVE  /\ Around(A, t, f, B) \in Text
         /\ Around(A, t, f, B) = (A \o Link(t, f)) \o B
         /\ A \o Link(t, f) \in Text
         /\ <<f>> \in From(Around(A, t, f, B), A)
         /\ From(Around(A, t, f, B), A \o Link(t, f)) \subseteq From(Around(A, t, f, B), A)
         /\ A \in Lines =>
              From(Around(A, t, f, B), A) \subseteq Targets(Around(A, t, f, B))
<1> DEFINE L == Link(t, f)
           C == Around(A, t, f, B)
           m == Len(A) + Len(EscapeLinkText(t)) + 2
<1>1. L \in Text /\ Len(L) = Len(EscapeLinkText(t)) + 5 /\ Len(EscapeLinkText(t)) \in Nat
  BY LinkIsText
<1>2. L \o B \in Text /\ A \o L \in Text /\ Len(A \o L) = Len(A) + Len(L) /\ Len(A) \in Nat
  BY <1>1, Joined
<1>3. C \in Text
  BY <1>2, Joined DEF Around
<1>4. C = (A \o L) \o B
  BY <1>1, Rejoined DEF Around
<1>5. LinkAt(C, Len(A) + 1, m, f)
  BY LinkPlace DEF Around
<1>9. C = A \o (L \o B)
  BY DEF Around
<1> HIDE DEF C
<1>6. m + 4 = Len(A \o L) + 1
  BY <1>1, <1>2
<1>7. TargetsFrom(C, Len(A) + 1) = {<<f>>} \cup TargetsFrom(C, m + 4)
  <2> HIDE DEF m
  <2> QED
    BY <1>3, <1>5, LinkIsTarget
<1>8. ASSUME A \in Lines
      PROVE  {<<f>>} \cup TargetsFrom(C, m + 4) \subseteq TargetsFrom(C, 1)
  <2>1. Len(A) + 1 = 1 \/ C[(Len(A) + 1) - 1] = "nl"
    <3>1. CASE A = <<>>
      BY <3>1, <1>2
    <3>2. CASE A # <<>>
      <4>1. Len(A) \in 1..Len(A) /\ A[Len(A)] = "nl"
        BY <3>2, <1>2, <1>8 DEF Lines
      <4>2. C[Len(A)] = A[Len(A)]
        BY <4>1, <1>2, <1>9, Joined
      <4> QED
        BY <4>1, <4>2, <1>2
    <3> QED
      BY <3>1, <3>2
  <2>2. 1 \in 1..(Len(A) + 1)
    BY <1>2
  <2> DEFINE b == Len(A) + 1
  <2> HIDE DEF m, b
  <2>3. LinkAt(C, b, m, f) /\ (b = 1 \/ C[b - 1] = "nl") /\ 1 \in 1..b
    BY <2>1, <2>2, <1>5 DEF b
  <2> QED
    BY <2>3, <1>3, LinkFound
<1> QED
  BY <1>2, <1>3, <1>4, <1>6, <1>7, <1>8 DEF Targets, From, C

LEMMA LinkIsTame ==
  ASSUME NEW t \in Text, "\\" \notin Range(t), NEW f \in Tokens \ Marks
  PROVE  Line(Link(t, f)) \in Tame({f})
<1> DEFINE E == EscapeLinkText(t)
           V == Close(f) \o <<"nl">>
           T == <<"[">> \o (E \o V)
           m == Len(E) + 2
<1>1. Line(Link(t, f)) = T /\ Line(Link(t, f)) \in Lines
  <2>1. <<"nl">> \in Text
    BY IsText DEF Marks
  <2>2. Link(t, f) \o <<"nl">> = T
    BY <2>1, LinkSplit
  <2>3. Link(t, f) \in Text
    BY LinkIsText
  <2> QED
    BY <2>2, <2>3, LineIs DEF Line
<1>2. E \in Calm /\ E \in Text /\ Len(E) \in Nat
  BY EscapeIsCalm, LinkIsText
<1>3. /\ V \in Text /\ Len(V) = 5
      /\ V[1] = "]" /\ V[2] = "(" /\ V[3] = f /\ V[4] = ")" /\ V[5] = "nl"
      /\ TextEnd(V, 1) = 1
  <2>1. <<"nl">> \in Text /\ Len(<<"nl">>) = 1 /\ <<"nl">>[1] = "nl"
    BY IsText DEF Marks
  <2>2. V \in Text /\ Len(V) = 5 /\ TextEnd(V, 1) = 1
        /\ V[1] = "]" /\ V[2] = "(" /\ V[3] = f /\ V[4] = ")"
    BY <2>1, CloseIs
  <2>3. V[4 + 1] = "nl"
    <3> DEFINE c == Close(f)
               r == <<"nl">>
    <3>1. c \in Text /\ Len(c) = 4 /\ 1 \in 1..1
      BY <2>1, CloseIs
    <3>2. r \in Text /\ Len(r) = 1 /\ r[1] = "nl"
      BY <2>1
    <3> HIDE DEF c, r
    <3>3. \A i \in 1..Len(r) : (c \o r)[Len(c) + i] = r[i]
      BY <3>1, <3>2, Joined
    <3>4. (c \o r)[4 + 1] = "nl"
      BY <3>1, <3>2, <3>3
    <3> QED
      BY <3>4 DEF c, r
  <2> QED
    BY <2>2, <2>3
<1> HIDE DEF E, V
<1>4. /\ E \o V \in Text /\ Len(E \o V) = Len(E) + 5
      /\ \A i \in 1..5 : (E \o V)[Len(E) + i] = V[i]
      /\ \A i \in 1..Len(E) : (E \o V)[i] = E[i]
  <2>1. /\ E \o V \in Text /\ Len(E \o V) = Len(E) + Len(V)
        /\ \A i \in 1..Len(V) : (E \o V)[Len(E) + i] = V[i]
        /\ \A i \in 1..Len(E) : (E \o V)[i] = E[i]
    BY <1>2, <1>3, Joined
  <2> QED
    BY <2>1, <1>3
<1>5. <<"[">> \in Text /\ Len(<<"[">>) = 1 /\ <<"[">>[1] = "["
  BY IsText DEF Marks
<1>6. /\ T \in Text /\ Len(T) = Len(E) + 6
      /\ T[1] = "["
      /\ \A i \in 1..(Len(E) + 5) : T[1 + i] = (E \o V)[i]
  <2>1. /\ T \in Text /\ Len(T) = 1 + Len(E \o V)
        /\ \A i \in 1..1 : T[i] = <<"[">>[i]
        /\ \A i \in 1..(Len(E \o V)) : T[1 + i] = (E \o V)[i]
    BY <1>4, <1>5, Joined
  <2>2. 1 \in 1..1 /\ 1 + (Len(E) + 5) = Len(E) + 6
    BY <1>2
  <2> QED
    BY <2>1, <2>2, <1>4, <1>5
<1>7. \A i \in 1..5 : T[m + i - 1] = V[i]
  <2> SUFFICES ASSUME NEW i \in 1..5
               PROVE  T[m + i - 1] = V[i]
    OBVIOUS
  <2>1. Len(E) + i \in 1..(Len(E) + 5) /\ 1 + (Len(E) + i) = m + i - 1
    BY <1>2
  <2> QED
    BY <2>1, <1>4, <1>6
<1>8. \A s \in Starts(E) : TextEnd(T, s + 1) = m
  <2> SUFFICES ASSUME NEW s \in Starts(E)
               PROVE  TextEnd(T, s + 1) = m
    OBVIOUS
  <2>1. TextEnd(E \o V, s) = Len(E) + 1
    BY <1>2, <1>3 DEF Calm, Shifted
  <2>2. s \in 1..(Len(E \o V) + 1)
    BY <1>2, <1>4 DEF Starts
  <2>3. TextEnd(T, 1 + s) = Shifted(TextEnd(E \o V, s), 1)
    BY <2>2, <1>4, <1>5, EndBeyond
  <2>4. 1 + s = s + 1
    BY <2>2
  <2> QED
    BY <2>1, <2>3, <2>4, <1>2 DEF Shifted
<1> HIDE DEF T
<1>9. ASSUME NEW s \in Starts(T)
      PROVE  TextEnd(T, s) = m
  <2>1. s \in 1..(Len(T) + 1) /\ (s = 1 \/ T[s - 1] = "[")
    BY DEF Starts
  <2>2. CASE s = 1
    <3>1. TextEnd(T, 1) = TextEnd(T, 1 + 1)
      BY <2>1, <2>2, <1>2, <1>6, TextEndIs
    <3>2. 1 \in Starts(E)
      BY <1>2 DEF Starts
    <3> QED
      BY <2>2, <3>1, <3>2, <1>8
  <2>3. CASE s \in 2..(Len(E) + 2)
    <3> DEFINE r == s - 1
    <3>1. r \in 1..(Len(E) + 1) /\ s = r + 1
      BY <2>3, <1>2
    <3> HIDE DEF r
    <3>2. r # 1 => E[r - 1] = "["
      <4> SUFFICES ASSUME r # 1
                   PROVE  E[r - 1] = "["
        OBVIOUS
      <4>1. r - 1 \in 1..Len(E) /\ s - 1 = 1 + (r - 1) /\ s # 1
            /\ r - 1 \in 1..(Len(E) + 5)
        BY <3>1, <1>2
      <4> QED
        BY <4>1, <2>1, <1>4, <1>6
    <3>3. r \in Starts(E)
      BY <3>1, <3>2 DEF Starts
    <3> QED
      BY <3>1, <3>3, <1>8
  <2>4. CASE s > Len(E) + 2
    <3> DEFINE i == s - 1 - m + 1
    <3>1. i \in 1..5 /\ m + i - 1 = s - 1
      BY <2>1, <2>4, <1>2, <1>6
    <3> HIDE DEF i
    <3>2. T[s - 1] = V[i] /\ s # 1
      BY <3>1, <1>7, <2>4, <1>2
    <3>3. V[i] # "["
      <4>1. i = 1 \/ i = 2 \/ i = 3 \/ i = 4 \/ i = 5
        BY <3>1
      <4> QED
        BY <4>1, <1>3 DEF Marks
    <3> QED
      BY <3>2, <3>3, <2>1
  <2> QED
    BY <2>1, <2>2, <2>3, <2>4, <1>2
<1>10. LinkAfter(T, m, {f})
  <2>1. T[m + 3 - 1] = f /\ T[m + 4 - 1] = ")"
    <3>1. 3 \in 1..5 /\ 4 \in 1..5
      OBVIOUS
    <3> QED
      BY <3>1, <1>3, <1>7
  <2>2. m + 3 - 1 = m + 2 /\ m + 4 - 1 = m + 3 /\ m + 3 <= Len(T)
    BY <1>2, <1>6
  <2> QED
    BY <2>1, <2>2 DEF LinkAfter
<1> HIDE DEF m
<1>11. T \in Lines
  BY <1>1 DEF T
<1>12. T \in Tame({f})
  BY <1>9, <1>10, <1>11 DEF Tame
<1> QED
  BY <1>1, <1>12 DEF T

LEMMA LinkIsTidy ==
  ASSUME NEW t \in Tidy({}), NEW f \in Tokens \ Marks
  PROVE  Link(t, f) \in Tidy({f})
<1> DEFINE E == EscapeLinkText(t)
           c == Close(f)
           o == <<"[">>
<1>1. t \in Text
  BY DEF Tidy
<1>2. E \in Tidy({f})
  <2>1. E \in Tidy({})
    BY EscapeIsTidy DEF EscapeLinkText
  <2> QED
    BY <2>1, TidyWider
<1>3. c \in Text /\ Len(c) = 4 /\ c[1] = "]" /\ c[2] = "(" /\ c[3] = f /\ c[4] = ")"
  BY CloseIs, IsText
<1>4. c \in Tidy({f})
  <2>1. \A k \in 1..(Len(c) - 1) : c[k] = "]" => k = 1
    <3> SUFFICES ASSUME NEW k \in 1..3, c[k] = "]"
                 PROVE  k = 1
      BY <1>3
    <3>1. k = 1 \/ k = 2 \/ k = 3
      OBVIOUS
    <3> HIDE DEF c
    <3> QED
      BY <3>1, <1>3 DEF Marks
  <2>2. LinkAfter(c, 1, {f})
    BY <1>3 DEF LinkAfter
  <2> HIDE DEF c
  <2> QED
    BY <2>1, <2>2, <1>3 DEF Tidy
<1>5. o \in Tidy({f}) /\ o[Len(o)] = "["
  <2>1. "[" \in Tokens
    BY IsText DEF Marks
  <2> QED
    BY <2>1, TidyShort
<1> HIDE DEF E, c, o
<1>6. o \o E \in Tidy({f})
  BY <1>2, <1>5, TidyJoined DEF Apart
<1>7. (o \o E) \o c \in Tidy({f})
  BY <1>3, <1>4, <1>6, TidyJoined DEF Apart
<1> QED
  BY <1>7 DEF Link, Close, E, c, o

-----------------------------------------------------------------------------
(* What is rendered: text, and tidy text when the source is.                *)

Kinds == {Text, Tidy({})}

(* What is kept when tokens become spaces and when text is cut.             *)
Spaced(t, S) == [k \in DOMAIN t |-> IF t[k] \in S THEN "sp" ELSE t[k]]

LEMMA YamlIs ==
  ASSUME NEW t
  PROVE  YamlString(t) =
           <<"quote">> \o Escape(Spaced(t, {"nl"}), {"\\", "quote"}) \o <<"quote">>
<1>1. Spaced(t, {"nl"}) = [k \in DOMAIN t |-> IF t[k] = "nl" THEN "sp" ELSE t[k]]
  BY DEF Spaced
<1> QED
  BY <1>1 DEF YamlString

LEMMA SpacedIs ==
  ASSUME NEW X \in Kinds, NEW t \in X, NEW S, S \cap {"]", "("} = {}
  PROVE  Spaced(t, S) \in X
<1>1. t \in Text /\ t \in Seq(Tokens) /\ Len(t) \in Nat /\ DOMAIN t = 1..Len(t)
  BY DEF Kinds, Tidy, Text
<1>2. \A k \in 1..Len(t) : t[k] \in Tokens
  BY <1>1, ElementOfSeq
<1>3. "sp" \in Tokens
  BY IsText DEF Marks
<1> DEFINE u == Spaced(t, S)
<1>4. u = [k \in 1..Len(t) |-> IF t[k] \in S THEN "sp" ELSE t[k]]
  BY <1>1 DEF Spaced
<1> HIDE DEF u
<1>5. u \in [1..Len(t) -> Tokens]
  BY <1>2, <1>3, <1>4
<1>6. u \in Seq(Tokens) /\ Len(u) = Len(t)
  BY <1>1, <1>5
<1>7. u \in Text
  BY <1>6 DEF Text
<1>8. HoldsLink(u) => HoldsLink(t)
  <2> SUFFICES ASSUME NEW k \in 1..(Len(u) - 1), u[k] = "]", u[k + 1] = "("
               PROVE  t[k] = "]" /\ t[k + 1] = "("
    BY <1>6 DEF HoldsLink
  <2>1. k \in 1..Len(t) /\ k + 1 \in 1..Len(t)
    BY <1>1, <1>6
  <2> QED
    BY <2>1, <1>4
<1>9. X = Text \/ X = Tidy({})
  BY DEF Kinds
<1> QED
  BY <1>1, <1>7, <1>8, <1>9, TidyIsClear DEF u

LEMMA SubSeqIs ==
  ASSUME NEW X \in Kinds, NEW t \in X, NEW m \in 1..(Len(t) + 1), NEW n \in 0..Len(t)
  PROVE  SubSeq(t, m, n) \in X
<1>1. t \in Text /\ t \in Seq(Tokens) /\ Len(t) \in Nat
  BY DEF Kinds, Tidy, Text
<1> DEFINE u == SubSeq(t, m, n)
<1>2. X = Text \/ X = Tidy({})
  BY DEF Kinds
<1>3. CASE m > n
  <2>1. u = <<>>
    BY <1>1, <1>3
  <2>2. <<>> \in Text /\ ~HoldsLink(<<>>)
    BY DEF Text, HoldsLink
  <2> QED
    BY <1>2, <2>1, <2>2, TidyIsClear
<1>4. CASE m <= n
  <2>1. /\ u \in Seq(Tokens) /\ Len(u) = n - m + 1
        /\ \A j \in 1..(n - m + 1) : u[j] = t[m + j - 1]
    BY <1>1, <1>4
  <2> HIDE DEF u
  <2>2. u \in Text
    BY <2>1 DEF Text
  <2>3. HoldsLink(u) => HoldsLink(t)
    <3> SUFFICES ASSUME NEW k \in 1..(Len(u) - 1), u[k] = "]", u[k + 1] = "("
                 PROVE  HoldsLink(t)
      BY DEF HoldsLink
    <3>1. k \in 1..(n - m + 1) /\ k + 1 \in 1..(n - m + 1)
      BY <1>1, <1>4, <2>1
    <3> DEFINE j == m + k - 1
    <3>2. j \in 1..(Len(t) - 1) /\ t[j] = u[k] /\ t[j + 1] = u[k + 1]
      <4>1. u[k] = t[m + k - 1] /\ u[k + 1] = t[m + (k + 1) - 1]
        BY <2>1, <3>1
      <4>2. m + (k + 1) - 1 = j + 1 /\ j \in 1..(Len(t) - 1)
        BY <1>1, <1>4, <3>1
      <4> QED
        BY <4>1, <4>2
    <3> QED
      BY <3>2 DEF HoldsLink
  <2> QED
    BY <1>1, <1>2, <2>2, <2>3, TidyIsClear DEF u
<1> QED
  BY <1>1, <1>3, <1>4

LEMMA TrimIs ==
  ASSUME NEW X \in Kinds, NEW t \in X, NEW S
  PROVE  Trim(t, S) \in X
<1> DEFINE kept == {k \in DOMAIN t : t[k] \notin S}
<1>1. t \in Text /\ Len(t) \in Nat /\ DOMAIN t = 1..Len(t)
  BY DEF Kinds, Tidy, Text
<1>2. kept \subseteq 1..Len(t)
  BY <1>1
<1> HIDE DEF kept
<1>3. kept = {} => Trim(t, S) = <<>>
  BY DEF Trim, kept
<1>4. kept # {} => Trim(t, S) = SubSeq(t, Min(kept), Max(kept))
  BY DEF Trim, kept
<1>5. CASE kept = {}
  <2>1. SubSeq(t, 1, 0) = <<>> /\ SubSeq(t, 1, 0) \in X
    <3>1. SubSeq(t, 1, 0) \in X
      BY <1>1, SubSeqIs
    <3> QED
      BY <3>1, <1>1 DEF Text
  <2> QED
    BY <1>3, <1>5, <2>1
<1>6. CASE kept # {}
  <2>1. kept \in SUBSET Nat
    BY <1>1, <1>2
  <2>2. PICK m \in kept : \A j \in kept : m <= j
    BY <1>6, <2>1, LeastNumber
  <2>3. Min(kept) \in kept
    BY <2>2 DEF Min
  <2>4. Max(kept) \in kept
    <3>1. kept \in SUBSET (0..Len(t))
      BY <1>1, <1>2
    <3> QED
      BY <3>1, <1>1, <1>6, GreatestNumber
  <2>5. Min(kept) \in 1..(Len(t) + 1) /\ Max(kept) \in 0..Len(t)
    <3> DEFINE a == Min(kept)
               b == Max(kept)
    <3>1. a \in 1..Len(t) /\ b \in 1..Len(t)
      BY <1>2, <2>3, <2>4
    <3> HIDE DEF a, b
    <3>2. a \in 1..(Len(t) + 1) /\ b \in 0..Len(t)
      BY <1>1, <3>1
    <3> QED
      BY <3>2 DEF a, b
  <2> QED
    BY <1>4, <1>6, <2>5, SubSeqIs
<1> QED
  BY <1>5, <1>6

LEMMA LastOfIs ==
  ASSUME NEW t \in Text, NEW c
  PROVE  LastOf(t, c) \in 0..Len(t)
<1> DEFINE S == {0} \cup {k \in DOMAIN t : t[k] = c}
<1>1. Len(t) \in Nat /\ DOMAIN t = 1..Len(t)
  BY DEF Text
<1>2. S \subseteq 0..Len(t) /\ S # {}
  BY <1>1
<1>3. LastOf(t, c) = Max(S)
  BY DEF LastOf
<1> HIDE DEF S
<1>4. Max(S) \in S
  BY <1>1, <1>2, GreatestNumber
<1> QED
  BY <1>2, <1>3, <1>4

LEMMA Closed ==
  ASSUME NEW X \in Kinds
  PROVE  /\ X \subseteq Text
         /\ \A s \in Tokens : <<s>> \in X
         /\ <<"[", "x", "]">> \in X
         /\ \A t \in X : /\ Line(t) \in X \cap Lines
                         /\ YamlString(t) \in X /\ Code(t) \in X
         /\ \A A, B \in X \cap Lines : A \o B \in X \cap Lines
<1>1. "quote" \in Tokens \ {"(", "]"} /\ "tick" \in Tokens \ {"(", "]"}
      /\ "x" \in Tokens \ {"]"} /\ "nl" \in Tokens
      /\ "[" \in Tokens /\ "]" \in Tokens \ {"("}
  BY IsText DEF Marks, Wording
<1>2. \A t \in Text, s \in Tokens : <<s>> \o t \in Text /\ t \o <<s>> \in Text
  BY IsText, Joined
<1>3. CASE X = Text
  <2>1. \A t \in Text : Line(t) \in Lines /\ Line(t) \in Text
    BY LineIs
  <2>2. \A t \in Text : Code(t) \in Text
    BY <1>1, <1>2 DEF Code
  <2>3. \A t \in Text : YamlString(t) \in Text
    <3> TAKE t \in Text
    <3>1. Spaced(t, {"nl"}) \in Text
      BY <1>3, SpacedIs DEF Kinds
    <3>2. Escape(Spaced(t, {"nl"}), {"\\", "quote"}) \in Text
      BY <3>1, EscapeIsText
    <3> QED
      BY <3>2, <1>1, <1>2, YamlIs
  <2>4. \A A, B \in Text \cap Lines : A \o B \in Text \cap Lines
    BY LinesJoined, Joined
  <2>5. \A s \in Tokens : <<s>> \in Text
    BY IsText
  <2>6. <<"[", "x", "]">> \in Text
    BY <1>1 DEF Text
  <2> QED
    BY <1>3, <2>1, <2>2, <2>3, <2>4, <2>5, <2>6
<1>4. CASE X = Tidy({})
  <2>1. \A t \in Tidy({}) : Line(t) \in Tidy({}) \cap Lines
    BY TidyLine
  <2>2. \A t \in Tidy({}) : Code(t) \in Tidy({})
    BY <1>1, TidyBetween DEF Code
  <2>3. \A t \in Tidy({}) : YamlString(t) \in Tidy({})
    <3> TAKE t \in Tidy({})
    <3>1. Spaced(t, {"nl"}) \in Tidy({})
      BY <1>4, SpacedIs DEF Kinds
    <3>2. Escape(Spaced(t, {"nl"}), {"\\", "quote"}) \in Tidy({})
      BY <3>1, EscapeIsTidy
    <3> QED
      BY <3>2, <1>1, TidyBetween, YamlIs
  <2>4. \A A, B \in Tidy({}) \cap Lines : A \o B \in Tidy({}) \cap Lines
    BY TidyLines
  <2>5. \A s \in Tokens : <<s>> \in Tidy({})
    BY TidyShort
  <2>6. <<"[", "x", "]">> \in Tidy({})
    <3> DEFINE t == <<"[", "x", "]">>
    <3>1. t \in Text /\ Len(t) = 3 /\ t[1] = "[" /\ t[2] = "x"
      BY <1>1 DEF Text
    <3> HIDE DEF t
    <3>2. \A j \in 1..(Len(t) - 1) : j = 1 \/ j = 2
      BY <3>1
    <3>3. \A j \in 1..(Len(t) - 1) : t[j] # "]"
      BY <3>1, <3>2
    <3>4. t \in Tidy({})
      BY <3>1, <3>3 DEF Tidy
    <3> QED
      BY <3>4 DEF t
  <2> QED
    BY <1>4, <2>1, <2>2, <2>3, <2>4, <2>5, <2>6 DEF Tidy
<1> QED
  BY <1>3, <1>4 DEF Kinds

(* What is shown of the source.                                             *)
SourceIn(X) == src.originalName \in X /\ src.contentType \in X

LEMMA OursIs ==
  ASSUME NEW X \in Kinds, NEW t \in X
  PROVE  OrOurs(t) \in X
<1>1. <<"x">> \in X
  BY Closed, IsText DEF Wording
<1> QED
  BY <1>1 DEF OrOurs

LEMMA DocumentTitleIs ==
  ASSUME NEW X \in Kinds, SourceIn(X)
  PROVE  DocumentTitle \in X
<1> DEFINE path == Trim(Trim(src.originalName, Spaces), {"/"})
           slash == LastOf(path, "/")
           base == SubSeq(path, slash + 1, Len(path))
           dot == LastOf(base, ".")
           stem == IF dot > 1 THEN SubSeq(base, 1, dot - 1) ELSE base
           words == [k \in DOMAIN stem |->
                       IF stem[k] \in {".", "nl"} THEN "sp" ELSE stem[k]]
<1>1. DocumentTitle = OrOurs(Trim(words, {"sp"}))
  BY DEF DocumentTitle
<1>2. path \in X
  <2>1. Trim(src.originalName, Spaces) \in X
    BY TrimIs DEF SourceIn
  <2> QED
    BY <2>1, TrimIs
<1>3. words = Spaced(stem, {".", "nl"})
  BY DEF Spaced
<1> HIDE DEF path, words
<1>4. path \in Text /\ Len(path) \in Nat
  BY <1>2, Closed DEF Text
<1>5. slash \in 0..Len(path)
  BY <1>4, LastOfIs
<1>6. base \in X
  <2>1. slash + 1 \in 1..(Len(path) + 1) /\ Len(path) \in 0..Len(path)
    BY <1>4, <1>5
  <2> QED
    BY <1>2, <2>1, SubSeqIs
<1> HIDE DEF base
<1>7. base \in Text /\ Len(base) \in Nat
  BY <1>6, Closed DEF Text
<1>8. dot \in 0..Len(base)
  BY <1>7, LastOfIs
<1> HIDE DEF dot
<1>9. stem \in X
  <2>1. dot > 1 => SubSeq(base, 1, dot - 1) \in X
    <3> SUFFICES ASSUME dot > 1
                 PROVE  SubSeq(base, 1, dot - 1) \in X
      OBVIOUS
    <3>1. 1 \in 1..(Len(base) + 1) /\ dot - 1 \in 0..Len(base)
      BY <1>7, <1>8
    <3> QED
      BY <3>1, <1>6, SubSeqIs
  <2> QED
    BY <2>1, <1>6
<1> HIDE DEF stem
<1>10. words \in X
  BY <1>3, <1>9, SpacedIs
<1> QED
  BY <1>1, <1>10, TrimIs, OursIs

LEMMA ObjectKeyIs ==
  ASSUME NEW X \in Kinds, SourceIn(X)
  PROVE  ObjectKey \in X
<1> DEFINE t == src.originalName
           dot == LastOf(t, ".")
           ext == IF dot = 0 \/ dot = Len(t) THEN <<>> ELSE SubSeq(t, dot, Len(t))
           x == <<"x">>
<1>1. ObjectKey = x \o ext
  BY DEF ObjectKey
<1>2. t \in X /\ t \in Text /\ Len(t) \in Nat
  BY Closed DEF SourceIn, Text
<1>3. dot \in 0..Len(t)
  BY <1>2, LastOfIs
<1>4. SubSeq(t, 1, 0) \in X /\ SubSeq(t, 1, 0) = <<>>
  <2>1. SubSeq(t, 1, 0) \in X
    BY <1>2, SubSeqIs
  <2> QED
    BY <2>1, <1>2 DEF Text
<1>5. ext \in X
  <2>1. dot # 0 => SubSeq(t, dot, Len(t)) \in X
    <3> SUFFICES ASSUME dot # 0
                 PROVE  SubSeq(t, dot, Len(t)) \in X
      OBVIOUS
    <3>1. dot \in 1..(Len(t) + 1) /\ Len(t) \in 0..Len(t)
      BY <1>2, <1>3
    <3> HIDE DEF dot
    <3> QED
      BY <3>1, <1>2, SubSeqIs
  <2>2. <<>> \in X
    BY <1>4
  <2> HIDE DEF dot, t
  <2> QED
    BY <2>1, <2>2
<1>6. x \in X /\ Len(x) = 1 /\ x[1] = "x"
  BY Closed, IsText DEF Wording
<1> HIDE DEF ext, x
<1>7. CASE X = Text
  BY <1>1, <1>5, <1>6, <1>7, Joined
<1>8. CASE X = Tidy({})
  <2>1. Apart(x, ext)
    BY <1>6 DEF Apart
  <2> QED
    BY <1>1, <1>5, <1>6, <1>8, <2>1, TidyJoined
<1> QED
  BY <1>7, <1>8 DEF Kinds

LEMMA ContentTypeIs ==
  ASSUME NEW X \in Kinds, SourceIn(X)
  PROVE  ContentType \in X
<1>1. <<"x">> \in X
  BY Closed, IsText DEF Wording
<1> QED
  BY <1>1 DEF ContentType, SourceIn

LEMMA FrontmatterIs ==
  ASSUME NEW X \in Kinds, SourceIn(X), NEW t \in X
  PROVE  Frontmatter(t) \in X \cap Lines
<1> DEFINE o == src.originalName
<1>1. o \in X
  BY DEF SourceIn
<1>2. Line(YamlString(t)) \in X \cap Lines /\ Line(YamlString(o)) \in X \cap Lines
      /\ Line(<<"[", "x", "]">>) \in X \cap Lines
  BY <1>1, Closed
<1>3. Line(YamlString(t)) \o Line(YamlString(o)) \in X \cap Lines
  BY <1>2, Closed
<1>4. Line(YamlString(t)) \o Line(YamlString(o))
        \o Line(<<"[", "x", "]">>) \in X \cap Lines
  BY <1>2, <1>3, Closed
<1>5. Line(YamlString(t)) \o Line(YamlString(o))
        \o Line(<<"[", "x", "]">>) \o Line(YamlString(o)) \in X \cap Lines
  BY <1>2, <1>4, Closed
<1> QED
  BY <1>5 DEF Frontmatter

(* What the document is, while it is rendered.                              *)
Units ==
  /\ SourceIn(Text)
  /\ units \in Seq([title : Text, body : Text])
  /\ Len(units) \in 1..Len(FileName)

LEMMA UnitsAre ==
  ASSUME Units
  PROVE  /\ Len(units) \in Nat \ {0} /\ DOMAIN units = 1..Len(units)
         /\ \A k \in DOMAIN units :
              /\ units[k].title \in Text /\ units[k].body \in Text
              /\ k \in DOMAIN FileName
              /\ FileName[k] \in Tokens \ (Marks \cup Wording)
         /\ \A j, k \in DOMAIN units : FileName[j] = FileName[k] => j = k
         /\ IndexFile \in Tokens \ Marks /\ LogFile \in Tokens \ Marks
         /\ IndexFile # LogFile
         /\ IndexFile \notin Concepts /\ LogFile \notin Concepts
         /\ \A k \in DOMAIN units : FileName[k] \in Concepts
         /\ \A f \in Concepts : \E k \in DOMAIN units : f = FileName[k]
         /\ Concepts \subseteq Tokens \ Marks
<1>1. FileName \in Seq(Tokens) /\ Len(FileName) \in Nat /\ DOMAIN FileName = 1..Len(FileName)
  BY BundleAssumption DEF Text
<1>2. Len(units) \in Nat \ {0} /\ DOMAIN units = 1..Len(units)
  BY <1>1 DEF Units
<1>3. \A k \in DOMAIN units : units[k] \in [title : Text, body : Text]
  BY <1>2, ElementOfSeq DEF Units
<1>4. \A k \in DOMAIN units : k \in DOMAIN FileName
  BY <1>1, <1>2 DEF Units
<1>5. \A k \in DOMAIN units : FileName[k] \in Tokens \ (Marks \cup Wording)
  BY <1>1, <1>4, BundleAssumption
<1>6. IndexFile \in Tokens \ Marks /\ LogFile \in Tokens \ Marks /\ IndexFile # LogFile
      /\ IndexFile \in Wording /\ LogFile \in Wording
  BY IsText DEF IndexFile, LogFile, Marks, Wording
<1>7. \A j, k \in DOMAIN units : FileName[j] = FileName[k] => j = k
  BY <1>4, BundleAssumption
<1> QED
  BY <1>2, <1>3, <1>4, <1>5, <1>6, <1>7 DEF Concepts

BodyText(k) == OrOurs(Trim(units[k].body, Spaces))

ConceptHead(k) ==
  Frontmatter(units[k].title) \o Line(units[k].title) \o Line(BodyText(k))

LEMMA ConceptHeadIs ==
  ASSUME Units, NEW k \in DOMAIN units,
         NEW X \in Kinds, SourceIn(X), units[k].title \in X, units[k].body \in X
  PROVE  ConceptHead(k) \in X \cap Lines
<1>1. BodyText(k) \in X
  BY TrimIs, OursIs DEF BodyText
<1>2. Frontmatter(units[k].title) \in X \cap Lines
  BY FrontmatterIs
<1>3. Line(units[k].title) \in X \cap Lines /\ Line(BodyText(k)) \in X \cap Lines
  BY <1>1, Closed
<1>4. Frontmatter(units[k].title) \o Line(units[k].title) \in X \cap Lines
  BY <1>2, <1>3, Closed
<1> QED
  BY <1>3, <1>4, Closed DEF ConceptHead

(* The three links of a footer, the last two only where there is a concept  *)
(* before or behind.                                                        *)
ToIndex == Link(<<"x">>, IndexFile)
ToLast(k) == IF k > 1 THEN Link(units[k - 1].title, FileName[k - 1]) ELSE <<>>
ToNext(k) ==
  IF k < Len(units) THEN Link(units[k + 1].title, FileName[k + 1]) ELSE <<>>

LEMMA FooterIs ==
  ASSUME Units, NEW k \in DOMAIN units
  PROVE  /\ Footer(k) = ToIndex \o ToLast(k) \o ToNext(k)
         /\ ToIndex \in Text /\ ToLast(k) \in Text /\ ToNext(k) \in Text
         /\ Footer(k) \in Text /\ Line(Footer(k)) \in Lines
         /\ ConceptHead(k) \in Lines
         /\ RenderConcept(k).text = ConceptHead(k) \o Line(Footer(k))
         /\ RenderConcept(k).text \in Text /\ RenderConcept(k).text # <<>>
<1>1. Footer(k) = ToIndex \o ToLast(k) \o ToNext(k)
  BY DEF Footer, ToIndex, ToLast, ToNext
<1>2. k \in 1..Len(units) /\ Len(units) \in Nat
  BY UnitsAre
<1>3. ToIndex \in Text
  <2>1. <<"x">> \in Text /\ IndexFile \in Tokens
    BY IsText, UnitsAre DEF Wording
  <2> QED
    BY <2>1, LinkIsText DEF ToIndex
<1>4. ToLast(k) \in Text
  <2>1. k > 1 => k - 1 \in DOMAIN units
    BY <1>2, UnitsAre
  <2> QED
    BY <2>1, UnitsAre, LinkIsText, IsText DEF ToLast
<1>5. ToNext(k) \in Text
  <2>1. k < Len(units) => k + 1 \in DOMAIN units
    BY <1>2, UnitsAre
  <2> QED
    BY <2>1, UnitsAre, LinkIsText, IsText DEF ToNext
<1>6. Footer(k) \in Text
  <2>1. ToIndex \o ToLast(k) \in Text
    BY <1>3, <1>4, Joined
  <2> QED
    BY <2>1, <1>1, <1>5, Joined
<1>7. Line(Footer(k)) \in Lines /\ Line(Footer(k)) \in Text
      /\ Len(Line(Footer(k))) = Len(Footer(k)) + 1 /\ Len(Footer(k)) \in Nat
  BY <1>6, LineIs DEF Text
<1>8. ConceptHead(k) \in Lines /\ ConceptHead(k) \in Text
  <2>1. Text \in Kinds /\ SourceIn(Text) /\ units[k].title \in Text /\ units[k].body \in Text
    BY UnitsAre DEF Kinds, Units
  <2> QED
    BY <2>1, ConceptHeadIs
<1>9. RenderConcept(k).text = ConceptHead(k) \o Line(Footer(k))
  BY DEF RenderConcept, ConceptHead, BodyText
<1>10. ConceptHead(k) \o Line(Footer(k)) \in Text
       /\ Len(ConceptHead(k) \o Line(Footer(k)))
            = Len(ConceptHead(k)) + Len(Line(Footer(k)))
       /\ Len(ConceptHead(k)) \in Nat
  BY <1>7, <1>8, Joined
<1>11. ConceptHead(k) \o Line(Footer(k)) # <<>>
  <2>1. Len(ConceptHead(k) \o Line(Footer(k))) # 0
    BY <1>7, <1>10
  <2> QED
    BY <2>1
<1> QED
  BY <1>1, <1>3, <1>4, <1>5, <1>6, <1>7, <1>8, <1>9, <1>10, <1>11

(* A footer is tidy when the titles it shows are.                           *)
LEMMA ConceptIsTidy ==
  ASSUME Units, SourceIn(Tidy({})),
         \A j \in DOMAIN units : units[j].title \in Tidy({}) /\ units[j].body \in Tidy({}),
         NEW k \in DOMAIN units
  PROVE  RenderConcept(k).text \in Tame(Concepts \cup {IndexFile})
<1> DEFINE F == Concepts \cup {IndexFile}
           Good == {t \in Tidy(F) : t # <<>> => t[1] = "[" /\ t[Len(t)] = ")"}
<1>1. k \in 1..Len(units) /\ Len(units) \in Nat
  BY UnitsAre
<1>2. ASSUME NEW t \in Tidy({}), NEW f \in F
      PROVE  Link(t, f) \in Good
  <2>1. f \in Tokens \ Marks
    BY UnitsAre
  <2>2. Link(t, f) \in Tidy({f})
    BY <2>1, LinkIsTidy
  <2>3. Link(t, f) \in Tidy(F)
    BY <2>2, TidyWider
  <2>4. Link(t, f)[1] = "[" /\ Link(t, f)[Len(Link(t, f))] = ")"
    BY <2>1, LinkIsText DEF Tidy
  <2> HIDE DEF F
  <2> QED
    BY <2>3, <2>4
<1>3. <<>> \in Good
  BY TidyShort
<1>4. ToIndex \in Good
  <2>1. <<"x">> \in Tidy({})
    BY TidyShort, IsText DEF Wording
  <2> QED
    BY <2>1, <1>2 DEF ToIndex
<1>5. ToLast(k) \in Good
  <2>1. k > 1 => k - 1 \in DOMAIN units
    BY <1>1, UnitsAre
  <2>2. k > 1 => FileName[k - 1] \in F
    BY <2>1, UnitsAre
  <2>3. CASE k > 1
    BY <2>1, <2>2, <2>3, <1>2 DEF ToLast
  <2>4. CASE ~(k > 1)
    BY <2>4, <1>3 DEF ToLast
  <2> QED
    BY <2>3, <2>4
<1>6. ToNext(k) \in Good
  <2>1. k < Len(units) => k + 1 \in DOMAIN units
    BY <1>1, UnitsAre
  <2>2. k < Len(units) => FileName[k + 1] \in F
    BY <2>1, UnitsAre
  <2>3. CASE k < Len(units)
    BY <2>1, <2>2, <2>3, <1>2 DEF ToNext
  <2>4. CASE ~(k < Len(units))
    BY <2>4, <1>3 DEF ToNext
  <2> QED
    BY <2>3, <2>4
<1>7. ASSUME NEW A \in Tidy(F), NEW B \in Good
      PROVE  A \o B \in Tidy(F)
  BY <1>7, TidyJoined DEF Apart
<1>8. Footer(k) \in Tidy(F)
  <2>1. ToIndex \o ToLast(k) \in Tidy(F)
    BY <1>4, <1>5, <1>7
  <2>2. ToIndex \o ToLast(k) \o ToNext(k) \in Tidy(F)
    BY <2>1, <1>6, <1>7
  <2> QED
    BY <2>2, FooterIs
<1>9. Line(Footer(k)) \in Tidy(F) \cap Lines
  BY <1>8, TidyLine
<1>10. ConceptHead(k) \in Tidy({}) \cap Lines
  <2>1. Tidy({}) \in Kinds
    BY DEF Kinds
  <2> QED
    BY <2>1, ConceptHeadIs
<1>11. ConceptHead(k) \in Tidy(F) \cap Lines
  BY <1>10, TidyWider
<1>12. ConceptHead(k) \o Line(Footer(k)) \in Tidy(F) \cap Lines
  BY <1>9, <1>11, TidyLines
<1> QED
  BY <1>12, FooterIs, TidyIsTame

(* The footer is read as it is meant.                                       *)
LEMMA FooterRead ==
  ASSUME Units, ~TitleHoldsBackslash, NEW k \in DOMAIN units
  PROVE  /\ <<IndexFile>> \in Targets(RenderConcept(k).text)
         /\ \A j \in DOMAIN units \cap {k - 1, k + 1} :
              <<FileName[j]>> \in Targets(RenderConcept(k).text)
<1> DEFINE P == ConceptHead(k)
           L == ToIndex
           M == ToLast(k)
           N == ToNext(k)
           z == <<"nl">>
           C == RenderConcept(k).text
           PL == P \o L
           PM == PL \o M
           LM == L \o M
           LN == LM \o N
           Nz == N \o z
           B == M \o Nz
<1>1. /\ P \in Text /\ P \in Lines /\ L \in Text /\ M \in Text /\ N \in Text
      /\ z \in Text /\ C \in Text
  BY FooterIs, IsText DEF Marks, Lines
<1>2. C = P \o ((L \o M \o N) \o z)
  BY FooterIs DEF Line
<1>3. k \in 1..Len(units) /\ Len(units) \in Nat
  BY UnitsAre
<1>4. \A j \in DOMAIN units :
        units[j].title \in Text /\ "\\" \notin Range(units[j].title)
        /\ FileName[j] \in Tokens \ Stops
  BY UnitsAre DEF TitleHoldsBackslash, Marks, Stops
<1>5. L = Link(<<"x">>, IndexFile) /\ IndexFile \in Tokens \ Stops
      /\ <<"x">> \in Text /\ "\\" \notin Range(<<"x">>)
  BY UnitsAre, IsText DEF ToIndex, Marks, Wording, Stops, Range
<1>6. k > 1 => k - 1 \in DOMAIN units /\ M = Link(units[k - 1].title, FileName[k - 1])
  BY <1>3, UnitsAre DEF ToLast
<1>7. ~(k > 1) => M = <<>>
  BY DEF ToLast
<1>8. k < Len(units) => k + 1 \in DOMAIN units /\ N = Link(units[k + 1].title, FileName[k + 1])
  BY <1>3, UnitsAre DEF ToNext
<1>9. \A j \in DOMAIN units \cap {k - 1, k + 1} :
        (k > 1 /\ j = k - 1) \/ (k < Len(units) /\ j = k + 1)
  BY <1>3, UnitsAre
<1>21. PL = P \o L /\ PM = PL \o M /\ LM = L \o M /\ LN = LM \o N
       /\ Nz = N \o z /\ B = M \o Nz
  OBVIOUS
<1>22. C = P \o (LN \o z)
  BY <1>2
<1> HIDE DEF P, L, M, N, z, C, PL, PM, LM, LN, Nz, B
<1>10. /\ Nz \in Text /\ PL \in Text /\ LM \in Text
       /\ PM \in Text /\ B \in Text /\ LN \in Text
  <2>1. Nz \in Text /\ PL \in Text /\ LM \in Text
    BY <1>1, <1>21, Joined
  <2> QED
    BY <2>1, <1>1, <1>21, Joined
<1>11. C = P \o (L \o B)
  <2>2. (LM \o N) \o z = LM \o (N \o z)
    <3>1. LM \in Text /\ N \in Text /\ z \in Text
      BY <1>1, <1>10
    <3> QED
      BY <3>1, Rejoined
  <2>3. (L \o M) \o Nz = L \o (M \o Nz)
    <3>1. L \in Text /\ M \in Text /\ Nz \in Text
      BY <1>1, <1>10
    <3> QED
      BY <3>1, Rejoined
  <2> QED
    BY <2>2, <2>3, <1>21, <1>22
<1>12. /\ C = PL \o B
       /\ <<IndexFile>> \in Targets(C) /\ From(C, PL) \subseteq Targets(C)
  <2> DEFINE t == <<"x">>
             f == IndexFile
  <2>1. /\ t \in Text /\ "\\" \notin Range(t) /\ f \in Tokens \ Stops
        /\ L = Link(t, f)
    BY <1>5
  <2> HIDE DEF t, f
  <2>2. C = Around(P, t, f, B)
    BY <2>1, <1>11 DEF Around
  <2>3. /\ C = (P \o Link(t, f)) \o B
        /\ <<f>> \in From(C, P) /\ From(C, P \o Link(t, f)) \subseteq From(C, P)
        /\ From(C, P) \subseteq Targets(C)
    <3>1. P \in Text /\ P \in Lines /\ B \in Text
      BY <1>1, <1>10
    <3>2. C = (P \o Link(t, f)) \o B
      <4>1. L \in Text
        BY <1>1
      <4>2. (P \o L) \o B = P \o (L \o B)
        BY <3>1, <4>1, Rejoined
      <4> QED
        BY <4>2, <2>1, <1>11
    <3>3. <<f>> \in From(C, P) /\ From(C, P \o Link(t, f)) \subseteq From(C, P)
      BY <3>1, <2>1, <2>2, LinkRead
    <3>4. From(C, P) \subseteq Targets(C)
      BY <3>1, <2>1, <2>2, LinkRead
    <3> QED
      BY <3>2, <3>3, <3>4
  <2> QED
    BY <2>1, <2>3, <1>21 DEF f
<1>13. C = PM \o Nz
  <2>1. PL \in Text /\ M \in Text /\ Nz \in Text
    BY <1>1, <1>10
  <2>2. (PL \o M) \o Nz = PL \o (M \o Nz)
    BY <2>1, Rejoined
  <2> QED
    BY <2>2, <1>12, <1>21
<1>14. k > 1 => /\ <<FileName[k - 1]>> \in From(C, PL)
                /\ From(C, PM) \subseteq From(C, PL)
  <2> SUFFICES ASSUME k > 1
               PROVE  /\ <<FileName[k - 1]>> \in From(C, PL)
                      /\ From(C, PM) \subseteq From(C, PL)
    OBVIOUS
  <2> DEFINE t == units[k - 1].title
             f == FileName[k - 1]
  <2>1. /\ t \in Text /\ "\\" \notin Range(t) /\ f \in Tokens \ Stops
        /\ M = Link(t, f)
    BY <1>4, <1>6
  <2> HIDE DEF t, f
  <2>2. C = Around(PL, t, f, Nz)
    BY <2>1, <1>12, <1>21 DEF Around
  <2>3. <<f>> \in From(C, PL) /\ From(C, PL \o Link(t, f)) \subseteq From(C, PL)
    <3>1. PL \in Text /\ Nz \in Text
      BY <1>10
    <3> QED
      BY <3>1, <2>1, <2>2, LinkRead
  <2> QED
    BY <2>1, <2>3, <1>21 DEF f
<1>15. ~(k > 1) => PM = PL
  BY <1>7, <1>10, <1>21, ConcatEmptySeq DEF Text
<1>16. k < Len(units) => <<FileName[k + 1]>> \in From(C, PM)
  <2> SUFFICES ASSUME k < Len(units)
               PROVE  <<FileName[k + 1]>> \in From(C, PM)
    OBVIOUS
  <2> DEFINE t == units[k + 1].title
             f == FileName[k + 1]
  <2>1. /\ t \in Text /\ "\\" \notin Range(t) /\ f \in Tokens \ Stops
        /\ N = Link(t, f)
    BY <1>4, <1>8
  <2> HIDE DEF t, f
  <2>2. C = Around(PM, t, f, z)
    BY <2>1, <1>13, <1>21 DEF Around
  <2>3. <<f>> \in From(C, PM)
    <3>1. PM \in Text /\ z \in Text
      BY <1>1, <1>10
    <3> QED
      BY <3>1, <2>1, <2>2, LinkRead
  <2> QED
    BY <2>3 DEF f
<1>17. <<IndexFile>> \in Targets(C) /\ From(C, PL) \subseteq Targets(C)
  BY <1>12
<1>18. From(C, PM) \subseteq From(C, PL)
  BY <1>14, <1>15
<1>19. k > 1 => <<FileName[k - 1]>> \in Targets(C)
  BY <1>14, <1>17
<1>20. k < Len(units) => <<FileName[k + 1]>> \in Targets(C)
  BY <1>16, <1>17, <1>18
<1>23. \A j \in DOMAIN units \cap {k - 1, k + 1} : <<FileName[j]>> \in Targets(C)
  BY <1>9, <1>19, <1>20
<1> QED
  BY <1>17, <1>23 DEF C

(* The index: what it shows of the document, an entry for each concept, and *)
(* the link to the log.                                                     *)
IndexHead ==
  Frontmatter(DocumentTitle) \o Line(DocumentTitle)
    \o Line(Code(src.originalName)) \o Line(Code(src.originalName))
    \o Line(ContentType \o <<"sp">>)

Entries == [k \in DOMAIN units |-> IndexEntry(k)]

ToLog == Link(<<LogFile>>, LogFile)

(* Before what is known of each file, log.md shows name and content type.   *)
LogSource == Code(src.originalName) \o <<"(">> \o ContentType \o <<"x", ")">>

LogHead == Frontmatter(DocumentTitle) \o Line(DocumentTitle) \o Line(LogSource)

LEMMA JoinedApart ==
  ASSUME NEW X \in Kinds, NEW A \in X, NEW B \in X, Apart(A, B)
  PROVE  A \o B \in X
<1>1. CASE X = Text
  BY <1>1, Joined
<1>2. CASE X = Tidy({})
  BY <1>2, TidyJoined
<1> QED
  BY <1>1, <1>2 DEF Kinds

LEMMA CodeIs ==
  ASSUME NEW t \in Text
  PROVE  Code(t) \in Text /\ Len(Code(t)) \in Nat \ {0} /\ Code(t)[Len(Code(t))] = "tick"
<1> DEFINE q == <<"tick">>
           A == q \o t
<1>1. q \in Text /\ Len(q) = 1 /\ q[1] = "tick"
  BY IsText DEF Wording
<1>2. Code(t) = A \o q
  BY DEF Code
<1> HIDE DEF q
<1>3. A \in Text /\ Len(A) \in Nat
  BY <1>1, Joined DEF Text
<1> HIDE DEF A
<1>4. /\ A \o q \in Text /\ Len(A \o q) = Len(A) + Len(q)
      /\ (A \o q)[Len(A) + 1] = q[1]
  <2>1. 1 \in 1..Len(q)
    BY <1>1
  <2> QED
    BY <1>1, <1>3, <2>1, Joined
<1>5. Len(A \o q) \in Nat \ {0} /\ Len(A \o q) = Len(A) + 1
  BY <1>1, <1>3, <1>4
<1> QED
  BY <1>1, <1>2, <1>4, <1>5

LEMMA LogSourceIs ==
  ASSUME NEW X \in Kinds, SourceIn(X)
  PROVE  LogSource \in X
<1> DEFINE A == Code(src.originalName)
           o == <<"(">>
           c == <<"x", ")">>
           Ao == A \o o
           AoC == Ao \o ContentType
<1>1. A \in X /\ A \in Text /\ Len(A) \in Nat \ {0} /\ A[Len(A)] = "tick"
  BY Closed, CodeIs DEF SourceIn
<1>2. o \in X /\ o \in Text /\ Len(o) = 1 /\ o[1] = "("
  BY Closed, IsText DEF Marks
<1>3. c \in X /\ c[1] = "x"
  <2>1. "x" \in Tokens /\ ")" \in Tokens
    BY IsText DEF Marks, Wording
  <2>2. c \in Tidy({}) /\ c \in Text
    BY <2>1, TidyShort DEF Tidy
  <2> QED
    BY <2>2 DEF Kinds
<1>4. LogSource = AoC \o c
  BY DEF LogSource
<1>5. ContentType \in X
  BY ContentTypeIs
<1> HIDE DEF A, o, c
<1>6. Ao \in X /\ Ao \in Text /\ Ao[Len(Ao)] = "("
  <2>1. Apart(A, o)
    BY <1>1 DEF Apart
  <2>2. Ao \in X
    BY <1>1, <1>2, <2>1, JoinedApart
  <2>3. /\ Ao \in Text /\ Len(Ao) = Len(A) + Len(o)
        /\ Ao[Len(A) + 1] = o[1]
    <3>1. 1 \in 1..Len(o)
      BY <1>2
    <3> QED
      BY <1>1, <1>2, <3>1, Joined
  <2>4. Len(Ao) = Len(A) + 1
    BY <1>2, <2>3
  <2> QED
    BY <1>2, <2>2, <2>3, <2>4
<1> HIDE DEF Ao
<1>7. AoC \in X
  <2>1. Apart(Ao, ContentType)
    BY <1>6 DEF Apart
  <2> QED
    BY <1>5, <1>6, <2>1, JoinedApart
<1> HIDE DEF AoC
<1>8. Apart(AoC, c)
  BY <1>3 DEF Apart
<1> QED
  BY <1>3, <1>4, <1>7, <1>8, JoinedApart

LEMMA NamesAre ==
  ASSUME NEW X \in Kinds, SourceIn(X)
  PROVE  LogHead \in X \cap Lines /\ IndexHead \in X \cap Lines
<1> DEFINE o == Code(src.originalName)
           c == ContentType \o <<"sp">>
           A == Frontmatter(DocumentTitle) \o Line(DocumentTitle)
<1>1. DocumentTitle \in X
  BY DocumentTitleIs
<1>2. o \in X
  BY Closed DEF SourceIn
<1>3. c \in X
  <2> DEFINE z == <<"sp">>
  <2>1. z \in X /\ z[1] = "sp"
    BY Closed, IsText DEF Marks
  <2>2. ContentType \in X /\ Apart(ContentType, z)
    BY <2>1, ContentTypeIs DEF Apart
  <2> HIDE DEF z
  <2>3. ContentType \o z \in X
    BY <2>1, <2>2, JoinedApart
  <2> QED
    BY <2>3 DEF z
<1>4. LogHead = A \o Line(LogSource)
  BY DEF LogHead
<1>5. IndexHead = A \o Line(o) \o Line(o) \o Line(c)
  BY DEF IndexHead
<1> HIDE DEF o, c
<1>6. Frontmatter(DocumentTitle) \in X \cap Lines /\ Line(DocumentTitle) \in X \cap Lines
  BY <1>1, FrontmatterIs, Closed
<1>7. A \in X \cap Lines
  BY <1>6, Closed
<1> HIDE DEF A
<1>8. /\ Line(o) \in X \cap Lines /\ Line(c) \in X \cap Lines
      /\ Line(LogSource) \in X \cap Lines
  BY <1>2, <1>3, LogSourceIs, Closed
<1>9. LogHead \in X \cap Lines
  BY <1>4, <1>7, <1>8, Closed
<1>10. A \o Line(o) \in X \cap Lines
  BY <1>7, <1>8, Closed
<1>11. A \o Line(o) \o Line(o) \in X \cap Lines
  BY <1>8, <1>10, Closed
<1>12. A \o Line(o) \o Line(o) \o Line(c) \in X \cap Lines
  BY <1>8, <1>11, Closed
<1> QED
  BY <1>5, <1>9, <1>12

LEMMA EntriesAre ==
  ASSUME Units
  PROVE  /\ Entries \in [1..Len(units) -> Text]
         /\ \A k \in 1..Len(units) :
              /\ Entries[k] = Line(Link(units[k].title, FileName[k]))
              /\ Entries[k] \in Lines
         /\ FlattenSeq(Entries) \in Text /\ FlattenSeq(Entries) \in Lines
         /\ ToLog \in Text /\ Line(ToLog) \in Lines /\ Line(ToLog) \in Text
<1>1. DOMAIN units = 1..Len(units) /\ Len(units) \in Nat
  BY UnitsAre
<1>2. ASSUME NEW k \in 1..Len(units)
      PROVE  /\ Entries[k] = Line(Link(units[k].title, FileName[k]))
             /\ Entries[k] \in Lines /\ Entries[k] \in Text
  <2>1. Link(units[k].title, FileName[k]) \in Text
    BY <1>1, UnitsAre, LinkIsText
  <2>2. Entries[k] = Line(Link(units[k].title, FileName[k]))
    BY <1>1 DEF Entries, IndexEntry
  <2> QED
    BY <2>1, <2>2, LineIs
<1>3. Entries \in [1..Len(units) -> Text]
  BY <1>1, <1>2 DEF Entries
<1>4. FlattenSeq(Entries) \in Lines
  <2>1. <<>> \in Lines
    BY IsText DEF Lines
  <2>2. \A i \in 1..Len(units) : \A A \in Lines : A \in Text => A \o Entries[i] \in Lines
    BY <1>2, LinesJoined
  <2> QED
    BY <2>1, <2>2, <1>1, <1>3, FlattenedLines
<1>5. ToLog \in Text
  <2>1. <<LogFile>> \in Text /\ LogFile \in Tokens
    BY UnitsAre, IsText
  <2> QED
    BY <2>1, LinkIsText DEF ToLog
<1>6. FlattenSeq(Entries) \in Text
  BY <1>4 DEF Lines
<1> QED
  BY <1>2, <1>3, <1>4, <1>5, <1>6, LineIs

LEMMA IndexIs ==
  ASSUME Units
  PROVE  /\ IndexHead \in Lines /\ IndexHead \in Text
         /\ RenderIndex.text = (IndexHead \o FlattenSeq(Entries)) \o Line(ToLog)
         /\ RenderIndex.text \in Text /\ RenderIndex.text # <<>>
<1>1. IndexHead \in Text /\ IndexHead \in Lines
  <2>1. Text \in Kinds /\ SourceIn(Text)
    BY DEF Kinds, Units
  <2> QED
    BY <2>1, NamesAre
<1>2. RenderIndex.text = (IndexHead \o FlattenSeq(Entries)) \o Line(ToLog)
  BY DEF RenderIndex, IndexHead, Entries, ToLog
<1>3. FlattenSeq(Entries) \in Text /\ Line(ToLog) \in Text
  BY EntriesAre
<1>4. IndexHead \o FlattenSeq(Entries) \in Text
  BY <1>1, <1>3, Joined
<1>5. Len(Line(ToLog)) = Len(ToLog) + 1 /\ Len(ToLog) \in Nat
  BY EntriesAre, LineIs DEF Text
<1> DEFINE A == IndexHead \o FlattenSeq(Entries)
           B == Line(ToLog)
<1> HIDE DEF A, B
<1>6. A \o B \in Text /\ Len(A \o B) = Len(A) + Len(B) /\ Len(A) \in Nat
  <2>1. A \in Text /\ B \in Text
    BY <1>3, <1>4 DEF A, B
  <2> QED
    BY <2>1, Joined
<1>7. Len(B) \in Nat \ {0}
  BY <1>5 DEF B
<1>8. A \o B # <<>>
  <2>1. Len(A \o B) # 0
    BY <1>6, <1>7
  <2> QED
    BY <2>1
<1> QED
  BY <1>1, <1>2, <1>6, <1>8 DEF A, B

(* No link of the index but its own, if what the client said makes none.    *)
LEMMA IndexIsTame ==
  ASSUME Units, ~TitleHoldsBackslash, SourceIn(Tidy({}))
  PROVE  RenderIndex.text \in Tame(Concepts \cup {LogFile})
<1> DEFINE F == Concepts \cup {LogFile}
<1>1. IndexHead \in Tame(F)
  <2>1. Tidy({}) \in Kinds
    BY DEF Kinds
  <2>2. IndexHead \in Tidy({}) \cap Lines
    BY <2>1, NamesAre
  <2>3. IndexHead \in Tidy(F) \cap Lines
    BY <2>2, TidyWider
  <2> QED
    BY <2>3, TidyIsTame
<1>2. ASSUME NEW t \in Text, "\\" \notin Range(t), NEW f \in F
      PROVE  Line(Link(t, f)) \in Tame(F)
  <2>1. f \in Tokens \ Marks
    BY UnitsAre
  <2>2. Line(Link(t, f)) \in Tame({f})
    BY <2>1, <1>2, LinkIsTame
  <2> HIDE DEF F
  <2> QED
    BY <2>2, TameWider
<1>3. \A k \in 1..Len(units) : Entries[k] \in Tame(F)
  <2> SUFFICES ASSUME NEW k \in 1..Len(units)
               PROVE  Entries[k] \in Tame(F)
    OBVIOUS
  <2>1. k \in DOMAIN units
    BY UnitsAre
  <2>2. units[k].title \in Text /\ "\\" \notin Range(units[k].title) /\ FileName[k] \in F
    BY <2>1, UnitsAre DEF TitleHoldsBackslash
  <2> HIDE DEF F
  <2>3. Line(Link(units[k].title, FileName[k])) \in Tame(F)
    BY <2>2, <1>2
  <2> QED
    BY <2>3, EntriesAre
<1>4. FlattenSeq(Entries) \in Tame(F)
  <2> HIDE DEF F
  <2>1. \A i \in 1..Len(units) : \A A \in Tame(F) : A \in Text => A \o Entries[i] \in Tame(F)
    BY <1>3, TameJoined
  <2>2. Entries \in [1..Len(units) -> Text] /\ Len(units) \in Nat
    BY EntriesAre, UnitsAre
  <2> QED
    BY <2>1, <2>2, TameEmpty, FlattenedLines
<1>5. Line(ToLog) \in Tame(F)
  <2>1. <<LogFile>> \in Text /\ "\\" \notin Range(<<LogFile>>)
    BY UnitsAre, IsText DEF Range, LogFile
  <2> QED
    BY <2>1, <1>2 DEF ToLog
<1> HIDE DEF F
<1>6. IndexHead \o FlattenSeq(Entries) \in Tame(F)
  BY <1>1, <1>4, TameJoined
<1>7. (IndexHead \o FlattenSeq(Entries)) \o Line(ToLog) \in Tame(F)
  BY <1>5, <1>6, TameJoined
<1> QED
  BY <1>7, IndexIs DEF F

(* Each concept's entry is read, whatever the entries before it hold.       *)
InTwo(e, C) == \E A \in Lines, B \in Text : C = A \o (e \o B)

LEMMA SplitFurther ==
  ASSUME NEW e \in Text, NEW g \in Text, NEW C, InTwo(e, C)
  PROVE  InTwo(e, C \o g)
<1>1. PICK A \in Lines, B \in Text : C = A \o (e \o B)
  BY DEF InTwo
<1>2. A \in Text
  BY DEF Lines
<1> DEFINE eB == e \o B
           Bg == B \o g
<1>3. eB \in Text /\ Bg \in Text
  BY Joined
<1>4. eB \o g = e \o Bg
  BY Rejoined
<1> HIDE DEF eB
<1>5. (A \o eB) \o g = A \o (eB \o g)
  BY <1>2, <1>3, Rejoined
<1>6. C \o g = A \o (e \o Bg)
  BY <1>1, <1>4, <1>5 DEF eB
<1> HIDE DEF Bg
<1> QED
  BY <1>3, <1>6 DEF InTwo

LEMMA EntrySplit ==
  ASSUME Units, NEW j \in DOMAIN units
  PROVE  \E A \in Lines, B \in Text :
           FlattenSeq(Entries) = A \o (Entries[j] \o B)
<1> DEFINE n == Len(units)
           g == Entries
           Reached(i) == {C \in Text : IF i < j THEN C \in Lines ELSE InTwo(g[j], C)}
           W == [i \in 0..n |-> Reached(i)]
<1>1. n \in Nat /\ j \in 1..n
  BY UnitsAre
<1>2. g \in [1..n -> Text] /\ \A i \in 1..n : g[i] \in Lines /\ g[i] \in Text
  BY EntriesAre
<1> HIDE DEF n, g
<1>3. \A i \in 0..n : W[i] = Reached(i)
  OBVIOUS
<1>4. <<>> \in W[0]
  <2>1. <<>> \in Text /\ <<>> \in Lines /\ 0 < j
    BY <1>1, IsText DEF Lines
  <2>2. <<>> \in Reached(0)
    BY <2>1
  <2> QED
    BY <2>2, <1>1, <1>3
<1>5. ASSUME NEW i \in 1..n, NEW A \in Reached(i - 1)
      PROVE  A \o g[i] \in Reached(i)
  <2>1. A \in Text /\ g[i] \in Text /\ g[i] \in Lines /\ g[j] \in Text
    BY <1>1, <1>2
  <2>2. A \o g[i] \in Text
    BY <2>1, Joined
  <2>3. CASE i < j
    <3>1. A \in Lines
      BY <2>3, <1>1
    <3>2. A \o g[i] \in Lines
      BY <2>1, <3>1, LinesJoined
    <3> QED
      BY <2>2, <2>3, <3>2
  <2>4. CASE i = j
    <3>1. A \in Lines
      BY <2>4, <1>1
    <3>2. <<>> \in Text
      BY IsText
    <3>3. g[i] \o <<>> = g[i]
      BY <2>1, ConcatEmptySeq DEF Text
    <3>4. InTwo(g[j], A \o g[i])
      BY <2>4, <3>1, <3>2, <3>3 DEF InTwo
    <3> QED
      BY <2>2, <2>4, <3>4, <1>1
  <2>5. CASE i > j
    <3>1. InTwo(g[j], A)
      BY <2>5, <1>1
    <3>2. InTwo(g[j], A \o g[i])
      BY <2>1, <3>1, SplitFurther
    <3> QED
      BY <2>2, <2>5, <3>2, <1>1
  <2> QED
    BY <2>3, <2>4, <2>5, <1>1
<1>6. \A i \in 1..n : \A A \in W[i - 1] : A \in Text => A \o g[i] \in W[i]
  <2>1. \A i \in 1..n : i - 1 \in 0..n /\ i \in 0..n
    BY <1>1
  <2> QED
    BY <2>1, <1>3, <1>5
<1>7. FlattenSeq(g) \in W[n]
  <2> HIDE DEF W
  <2> QED
    BY <1>1, <1>2, <1>4, <1>6, Flattened
<1>8. InTwo(g[j], FlattenSeq(g))
  <2>1. n \in 0..n /\ ~(n < j)
    BY <1>1
  <2>2. FlattenSeq(g) \in Reached(n)
    BY <2>1, <1>3, <1>7
  <2> QED
    BY <2>1, <2>2
<1> QED
  BY <1>8 DEF InTwo, g

LEMMA LinkInLines ==
  ASSUME NEW A \in Lines, NEW B \in Text, NEW t \in Text, "\\" \notin Range(t),
         NEW f \in Tokens \ Stops
  PROVE  <<f>> \in Targets(Around(A, t, f, B))
<1>1. A \in Text
  BY DEF Lines
<1>2. <<f>> \in From(Around(A, t, f, B), A)
  BY <1>1, LinkRead
<1>3. From(Around(A, t, f, B), A) \subseteq Targets(Around(A, t, f, B))
  BY <1>1, LinkRead
<1> QED
  BY <1>2, <1>3

LEMMA IndexRead ==
  ASSUME Units, ~TitleHoldsBackslash
  PROVE  \A f \in Concepts \cup {LogFile} : <<f>> \in Targets(RenderIndex.text)
<1> DEFINE C == RenderIndex.text
           H == IndexHead
           E == FlattenSeq(Entries)
           z == <<"nl">>
           L == ToLog
<1>1. /\ H \in Lines /\ H \in Text /\ E \in Text /\ E \in Lines
      /\ L \in Text /\ L \o z \in Text /\ z \in Text
  <2>1. z \in Text
    BY IsText DEF Marks
  <2> QED
    BY <2>1, IndexIs, EntriesAre DEF Line
<1>2. C = (H \o E) \o (L \o z)
  BY IndexIs DEF Line
<1> HIDE DEF C, H, E, z, L
<1>3. <<LogFile>> \in Targets(C)
  <2> DEFINE t == <<LogFile>>
             f == LogFile
             A == H \o E
  <2>1. /\ t \in Text /\ "\\" \notin Range(t) /\ f \in Tokens \ Stops
        /\ L = Link(t, f)
    BY UnitsAre, IsText DEF Range, LogFile, L, ToLog, Marks, Stops
  <2>2. A \in Lines
    BY <1>1, LinesJoined
  <2> HIDE DEF t, f, A
  <2>3. C = Around(A, t, f, z)
    BY <2>1, <1>2 DEF Around, A
  <2>4. <<f>> \in Targets(Around(A, t, f, z))
    BY <2>1, <2>2, <1>1, LinkInLines
  <2> QED
    BY <2>3, <2>4 DEF f
<1>4. ASSUME NEW j \in DOMAIN units
      PROVE  <<FileName[j]>> \in Targets(C)
  <2> DEFINE t == units[j].title
             f == FileName[j]
             e == Entries[j]
             K == Link(t, f)
             r == L \o z
  <2>1. t \in Text /\ "\\" \notin Range(t) /\ f \in Tokens \ Stops
    BY UnitsAre DEF TitleHoldsBackslash, Marks, Stops
  <2>2. PICK A \in Lines, B \in Text : E = A \o (e \o B)
    BY EntrySplit DEF E
  <2>3. e = K \o z
    BY UnitsAre, EntriesAre DEF Line, z
  <2> HIDE DEF e
  <2>4. K \in Text /\ A \in Text /\ r \in Text
    BY <2>1, <2>2, <1>1, LinkIsText DEF Lines
  <2> HIDE DEF t, f, K, r
  <2> DEFINE zB == z \o B
             X == zB \o r
             HA == H \o A
             eB == e \o B
  <2>5. e \in Text /\ zB \in Text
    BY <2>2, <2>3, <2>4, <1>1, Joined
  <2>6. HA \in Lines /\ HA \in Text
    <3>1. HA \in Lines
      BY <2>2, <1>1, LinesJoined
    <3> QED
      BY <3>1 DEF Lines
  <2>7. eB = K \o zB
    <3>0. K \in Text /\ z \in Text /\ B \in Text
      BY <2>4, <1>1
    <3>1. (K \o z) \o B = K \o (z \o B)
      BY <3>0, Rejoined
    <3> QED
      BY <3>1, <2>3
  <2>8. eB \in Text
    BY <2>2, <2>5, Joined
  <2> HIDE DEF zB, HA, eB
  <2>9. X \in Text
    BY <2>4, <2>5, Joined
  <2>10. H \o E = HA \o eB
    <3>0. H \in Text /\ A \in Text /\ eB \in Text
      BY <2>4, <2>8, <1>1
    <3>1. (H \o A) \o eB = H \o (A \o eB)
      BY <3>0, Rejoined
    <3> QED
      BY <3>1, <2>2 DEF HA, eB
  <2>11. (HA \o eB) \o r = HA \o (eB \o r)
    <3>1. HA \in Text /\ eB \in Text /\ r \in Text
      BY <2>4, <2>6, <2>8
    <3> QED
      BY <3>1, Rejoined
  <2>12. (K \o zB) \o r = K \o (zB \o r)
    <3>1. K \in Text /\ zB \in Text /\ r \in Text
      BY <2>4, <2>5
    <3> QED
      BY <3>1, Rejoined
  <2> HIDE DEF X
  <2>13. C = Around(HA, t, f, X)
    BY <1>2, <2>7, <2>10, <2>11, <2>12 DEF Around, X, K, r
  <2>14. <<f>> \in Targets(Around(HA, t, f, X))
    BY <2>1, <2>6, <2>9, LinkInLines
  <2> QED
    BY <2>13, <2>14 DEF f
<1>5. \A f \in Concepts : <<f>> \in Targets(C)
  BY <1>4, UnitsAre
<1> QED
  BY <1>3, <1>5 DEF C

(* log.md: its head, the object's key, the steps and, after the entries of  *)
(* the units, the listing that a validation adds to it.                     *)
KeyLine == Line(Code(ObjectKey))

StepLines(d) ==
  FlattenSeq([r \in DOMAIN d |-> IF d[r] = <<>> THEN <<>> ELSE Line(FlattenSeq(d[r]))])

LogEntries == [k \in DOMAIN units |-> LogEntry(k)]

LEMMA LogSplit ==
  ASSUME NEW d
  PROVE  RenderLog(d).text =
           ((LogHead \o (KeyLine \o StepLines(d))) \o FlattenSeq(LogEntries)) \o Listing(d)
<1>1. Steps(d) = KeyLine \o StepLines(d)
  BY DEF Steps, KeyLine, StepLines
<1> QED
  BY <1>1 DEF RenderLog, LogHead, LogSource, LogEntries

LEMMA FlatIsText ==
  ASSUME NEW n \in Nat, NEW g \in [1..n -> Text]
  PROVE  FlattenSeq(g) \in Text
<1> DEFINE W == [i \in 0..n |-> Text]
<1>1. <<>> \in W[0]
  BY IsText
<1>2. \A i \in 1..n : \A A \in W[i - 1] : A \in Text => A \o g[i] \in W[i]
  BY Joined
<1> HIDE DEF W
<1> QED
  BY <1>1, <1>2, Flattened

LEMMA FlatOfNothing ==
  ASSUME NEW n \in Nat, NEW g \in [1..n -> {<<>>}]
  PROVE  FlattenSeq(g) = <<>>
<1> DEFINE W == [i \in 0..n |-> {<<>>}]
<1>1. g \in [1..n -> Text] /\ <<>> \in Text
  BY IsText
<1>2. <<>> \in W[0]
  OBVIOUS
<1>3. \A i \in 1..n : \A A \in W[i - 1] : A \in Text => A \o g[i] \in W[i]
  <2>1. <<>> \o <<>> = <<>>
    BY <1>1, ConcatEmptySeq DEF Text
  <2> QED
    BY <2>1
<1>4. n \in 0..n /\ W[n] = {<<>>}
  OBVIOUS
<1> HIDE DEF W
<1>5. FlattenSeq(g) \in W[n]
  BY <1>1, <1>2, <1>3, Flattened
<1> QED
  BY <1>4, <1>5

LEMMA LogEntriesAre ==
  ASSUME Units, NEW X \in Kinds, \A k \in DOMAIN units : units[k].title \in X
  PROVE  FlattenSeq(LogEntries) \in X \cap Lines
<1> DEFINE n == Len(units)
           W == X \cap Lines
<1>1. DOMAIN units = 1..n /\ n \in Nat
  BY UnitsAre
<1>2. ASSUME NEW k \in 1..n
      PROVE  LogEntry(k) \in W
  <2> DEFINE t == units[k].title
             z == <<"sp">>
             c == Code(<<FileName[k]>>)
  <2>1. t \in X /\ <<FileName[k]>> \in X
    BY <1>1, UnitsAre, Closed
  <2>2. z \in X /\ z \in Text /\ Len(z) = 1 /\ z[1] = "sp"
    BY Closed, IsText DEF Marks
  <2>3. c \in X
    BY <2>1, Closed
  <2>4. LogEntry(k) = Line((t \o z) \o c)
    BY DEF LogEntry
  <2> HIDE DEF t, z, c
  <2>5. t \o z \in X
    <3>1. Apart(t, z)
      BY <2>2 DEF Apart
    <3> QED
      BY <2>1, <2>2, <3>1, JoinedApart
  <2>6. Len(t) \in Nat /\ Len(t \o z) = Len(t) + Len(z) /\ (t \o z)[Len(t) + 1] = z[1]
    <3>1. t \in Text /\ Len(t) \in Nat
      BY <2>1, Closed DEF Text
    <3>2. 1 \in 1..Len(z)
      BY <2>2
    <3> QED
      BY <3>1, <3>2, <2>2, Joined
  <2>7. (t \o z)[Len(t \o z)] = "sp"
    BY <2>2, <2>6
  <2>8. (t \o z) \o c \in X
    <3>1. Apart(t \o z, c)
      BY <2>7 DEF Apart
    <3> QED
      BY <2>3, <2>5, <3>1, JoinedApart
  <2> QED
    BY <2>4, <2>8, Closed
<1>3. LogEntries \in [1..n -> Text] /\ \A k \in 1..n : LogEntries[k] \in W
  BY <1>1, <1>2, Closed DEF LogEntries
<1>4. <<>> \in W
  BY IsText, TidyShort DEF Lines, Kinds
<1>5. \A i \in 1..n : \A A \in W : A \in Text => A \o LogEntries[i] \in W
  BY <1>3, Closed
<1> HIDE DEF W, n
<1> QED
  BY <1>1, <1>3, <1>4, <1>5, FlattenedLines DEF W

(* Where nothing was found, nothing is added.                               *)
LEMMA NothingLogged ==
  ASSUME NEW d \in Seq({<<>>})
  PROVE  StepLines(d) = <<>> /\ Listing(d) = <<>>
<1> DEFINE n == Len(d)
           g == [r \in DOMAIN d |-> IF d[r] = <<>> THEN <<>> ELSE Line(FlattenSeq(d[r]))]
           q(r) == [k \in DOMAIN d[r] |-> Line(d[r][k])]
           h == [r \in DOMAIN d |-> FlattenSeq(q(r))]
<1>1. n \in Nat /\ DOMAIN d = 1..n /\ \A r \in 1..n : d[r] = <<>>
  BY ElementOfSeq
<1>2. g \in [1..n -> {<<>>}]
  BY <1>1
<1>3. ASSUME NEW r \in 1..n
      PROVE  FlattenSeq(q(r)) = <<>>
  <2>1. q(r) \in [1..0 -> {<<>>}]
    BY <1>1
  <2> HIDE DEF q
  <2> QED
    BY <2>1, FlatOfNothing
<1>4. h \in [1..n -> {<<>>}]
  <2> HIDE DEF q, n
  <2> QED
    BY <1>1, <1>3
<1>5. StepLines(d) = FlattenSeq(g) /\ Listing(d) = FlattenSeq(h)
  BY DEF StepLines, Listing
<1> HIDE DEF g, h, n
<1> QED
  BY <1>1, <1>2, <1>4, <1>5, FlatOfNothing

(* The first rendering: nothing is found yet.                               *)
LEMMA FirstLogIs ==
  ASSUME Units, NEW X \in Kinds, SourceIn(X), \A k \in DOMAIN units : units[k].title \in X
  PROVE  RenderLog(<<>>).text \in X \cap Lines
<1> DEFINE none == <<>>
           E == FlattenSeq(LogEntries)
<1>1. StepLines(none) = <<>> /\ Listing(none) = <<>>
  <2>1. none \in Seq({<<>>})
    OBVIOUS
  <2> HIDE DEF none
  <2> QED
    BY <2>1, NothingLogged
<1>2. LogHead \in X \cap Lines /\ KeyLine \in X \cap Lines /\ E \in X \cap Lines
  BY NamesAre, ObjectKeyIs, Closed, LogEntriesAre DEF KeyLine
<1>3. RenderLog(none).text = ((LogHead \o (KeyLine \o <<>>)) \o E) \o <<>>
  BY <1>1, LogSplit
<1> HIDE DEF none, E
<1>4. KeyLine \o <<>> = KeyLine
  BY <1>2, Closed, ConcatEmptySeq DEF Text
<1>5. LogHead \o KeyLine \in X \cap Lines
  BY <1>2, Closed
<1>6. (LogHead \o KeyLine) \o E \in X \cap Lines
  BY <1>2, <1>5, Closed
<1>7. ((LogHead \o KeyLine) \o E) \o <<>> = (LogHead \o KeyLine) \o E
  BY <1>6, Closed, ConcatEmptySeq DEF Text
<1> QED
  BY <1>3, <1>4, <1>6, <1>7 DEF none

(* Any rendering, with whatever was found.                                  *)
LEMMA LogTextIs ==
  ASSUME Units, NEW d \in Seq(Seq(Text))
  PROVE  RenderLog(d).text \in Text /\ RenderLog(d).text # <<>>
<1> DEFINE K == KeyLine \o StepLines(d)
           H == LogHead \o K
           E == FlattenSeq(LogEntries)
           L == Listing(d)
           n == Len(d)
<1>1. /\ n \in Nat /\ DOMAIN d = 1..n
      /\ \A r \in 1..n : d[r] \in Seq(Text) /\ Len(d[r]) \in Nat
           /\ d[r] \in [1..Len(d[r]) -> Text] /\ DOMAIN d[r] = 1..Len(d[r])
  <2>1. n \in Nat /\ DOMAIN d = 1..n /\ \A r \in 1..n : d[r] \in Seq(Text)
    BY ElementOfSeq
  <2>2. \A q \in Seq(Text) : Len(q) \in Nat /\ q \in [1..Len(q) -> Text] /\ DOMAIN q = 1..Len(q)
    BY ElementOfSeq, LenProperties
  <2> QED
    BY <2>1, <2>2
<1> HIDE DEF n
<1>2. Text \in Kinds /\ SourceIn(Text) /\ \A k \in DOMAIN units : units[k].title \in Text
  BY UnitsAre DEF Kinds, Units
<1>3. LogHead \in Text /\ E \in Text /\ ObjectKey \in Text
  BY <1>2, NamesAre, LogEntriesAre, ObjectKeyIs
<1>4. KeyLine \in Text /\ Len(KeyLine) \in Nat \ {0}
  <2> DEFINE c == Code(ObjectKey)
  <2>1. c \in Text /\ Len(c) \in Nat
    BY <1>3, CodeIs
  <2>2. KeyLine = Line(c)
    BY DEF KeyLine
  <2> HIDE DEF c
  <2>3. Line(c) \in Text /\ Len(Line(c)) = Len(c) + 1
    BY <2>1, LineIs
  <2> QED
    BY <2>1, <2>2, <2>3
<1>5. StepLines(d) \in Text
  <2> DEFINE g == [r \in 1..n |-> IF d[r] = <<>> THEN <<>> ELSE Line(FlattenSeq(d[r]))]
  <2>1. StepLines(d) = FlattenSeq(g)
    BY <1>1 DEF StepLines
  <2>2. \A r \in 1..n : FlattenSeq(d[r]) \in Text
    BY <1>1, FlatIsText
  <2>3. g \in [1..n -> Text]
    BY <2>2, LineIs, IsText
  <2> HIDE DEF g
  <2> QED
    BY <2>1, <2>3, <1>1, FlatIsText
<1>6. L \in Text
  <2> DEFINE q(r) == [k \in DOMAIN d[r] |-> Line(d[r][k])]
             g == [r \in 1..n |-> FlattenSeq(q(r))]
  <2>1. L = FlattenSeq(g)
    BY <1>1 DEF Listing
  <2>2. ASSUME NEW r \in 1..n
        PROVE  FlattenSeq(q(r)) \in Text
    <3>1. \A k \in 1..Len(d[r]) : Line(d[r][k]) \in Text
      BY <1>1, LineIs
    <3>2. q(r) \in [1..Len(d[r]) -> Text]
      BY <1>1, <3>1
    <3> HIDE DEF q
    <3> QED
      BY <1>1, <3>2, FlatIsText
  <2>3. g \in [1..n -> Text]
    <3> HIDE DEF q
    <3> QED
      BY <2>2
  <2> HIDE DEF g
  <2> QED
    BY <2>1, <2>3, <1>1, FlatIsText
<1>7. RenderLog(d).text = (H \o E) \o L
  BY LogSplit
<1>8. K \in Text /\ Len(K) = Len(KeyLine) + Len(StepLines(d)) /\ Len(StepLines(d)) \in Nat
  BY <1>4, <1>5, Joined DEF Text
<1> HIDE DEF K, L, E
<1>9. H \in Text /\ Len(H) = Len(LogHead) + Len(K) /\ Len(LogHead) \in Nat
  BY <1>3, <1>8, Joined DEF Text
<1> HIDE DEF H
<1>10. H \o E \in Text /\ Len(H \o E) = Len(H) + Len(E) /\ Len(E) \in Nat
  BY <1>3, <1>9, Joined DEF Text
<1>11. (H \o E) \o L \in Text /\ Len((H \o E) \o L) = Len(H \o E) + Len(L) /\ Len(L) \in Nat
  BY <1>6, <1>10, Joined DEF Text
<1>12. Len((H \o E) \o L) # 0
  BY <1>4, <1>8, <1>9, <1>10, <1>11
<1>13. (H \o E) \o L # <<>>
  BY <1>12
<1> QED
  BY <1>7, <1>11, <1>13

-----------------------------------------------------------------------------
(* The links of a file, from the targets of its text.                       *)

InBundle(t) == t[1] \notin {"#", "/"} /\ "http" \notin Range(t)

PathOf(t) ==
  IF \E k \in DOMAIN t : t[k] = "#"
    THEN SubSeq(t, 1, Min({k \in DOMAIN t : t[k] = "#"}) - 1)
    ELSE t

FileOf(t) ==
  IF IsPrefix(<<".", "/">>, PathOf(t)) THEN SubSeq(PathOf(t), 3, Len(PathOf(t)))
  ELSE PathOf(t)

LEMMA LinksFromTargets ==
  ASSUME NEW text
  PROVE  RelativeLinks(text) =
           {FileOf(t) : t \in {u \in Targets(text) : InBundle(u)}} \ {<<>>}
BY DEF RelativeLinks, FileOf, PathOf, InBundle

LEMMA PlainLink ==
  ASSUME NEW f, f \notin {"#", "http", "/"}
  PROVE  InBundle(<<f>>) /\ FileOf(<<f>>) = <<f>>
<1> DEFINE t == <<f>>
<1>1. InBundle(t)
  BY DEF InBundle, Range
<1>2. PathOf(t) = t
  BY DEF PathOf
<1>3. Len(t) = 1 /\ Len(<<".", "/">>) = 2
  OBVIOUS
<1>4. ~IsPrefix(<<".", "/">>, t)
  <2> HIDE DEF t
  <2> QED
    BY <1>3 DEF IsPrefix
<1> QED
  BY <1>1, <1>2, <1>4 DEF FileOf

LEMMA LinkSeen ==
  ASSUME NEW text, NEW f, f \notin {"#", "http", "/"}, <<f>> \in Targets(text)
  PROVE  <<f>> \in RelativeLinks(text)
<1>1. InBundle(<<f>>) /\ FileOf(<<f>>) = <<f>>
  BY PlainLink
<1> QED
  BY <1>1, LinksFromTargets

LEMMA LinksOnly ==
  ASSUME NEW F \in SUBSET (Tokens \ Marks), NEW text \in Tame(F), NEW l \in RelativeLinks(text)
  PROVE  \E f \in F : l = <<f>>
<1>1. PICK t \in Targets(text) : InBundle(t) /\ l = FileOf(t)
  BY LinksFromTargets
<1>2. F \in SUBSET (Tokens \ Stops)
  BY DEF Stops, Marks
<1>3. PICK f \in F : t = <<f>>
  BY <1>1, <1>2, TameTargets
<1>4. f \notin {"#", "http", "/"}
  BY DEF Marks
<1>5. FileOf(t) = <<f>>
  BY <1>3, <1>4, PlainLink
<1> QED
  BY <1>1, <1>5

(* Whatever the text, its links are text, and they are finitely many.       *)
LEMMA LinksAreText ==
  ASSUME NEW text \in Text
  PROVE  RelativeLinks(text) \subseteq Text /\ IsFiniteSet(RelativeLinks(text))
<1> DEFINE S == {u \in Targets(text) : InBundle(u)}
           R == RelativeLinks(text)
           Q == {FileOf(t) : t \in S}
           m == [t \in S |-> FileOf(t)]
<1>1. 1 \in 1..(Len(text) + 1) /\ Len(text) \in Nat
  BY DEF Text
<1>2. ASSUME NEW t \in Text
      PROVE  PathOf(t) \in Text
  <2> DEFINE H == {k \in DOMAIN t : t[k] = "#"}
  <2>1. CASE H = {}
    <3>1. PathOf(t) = t
      BY <2>1 DEF PathOf
    <3> QED
      BY <3>1
  <2>2. CASE H # {}
    <3>1. H \in SUBSET Nat /\ \A k \in H : k \in 1..Len(t) /\ Len(t) \in Nat
      BY DEF Text
    <3>2. PICK x \in H : \A y \in H : x <= y
      BY <2>2, <3>1, LeastNumber
    <3>3. Min(H) \in H
      BY <3>2 DEF Min
    <3>4. PathOf(t) = SubSeq(t, 1, Min(H) - 1)
      BY <2>2 DEF PathOf
    <3> HIDE DEF H
    <3>7. Min(H) \in 1..Len(t)
      BY <3>1, <3>3
    <3>8. Len(t) \in Nat /\ t \in Seq(Tokens)
      BY DEF Text
    <3>5. Min(H) - 1 \in 0..Len(t)
      BY <3>7, <3>8
    <3> DEFINE e == Min(H) - 1
    <3> HIDE DEF e
    <3>6. SubSeq(t, 1, e) \in Seq(Tokens)
      <4>1. e \in 0..Len(t) /\ Len(t) \in Nat /\ t \in Seq(Tokens)
        BY <3>5, <3>8 DEF e
      <4>2. \A i \in 1..e : t[i] \in Tokens
        BY <4>1
      <4> QED
        BY <4>1, <4>2
    <3> QED
      BY <3>4, <3>6 DEF e, Text
  <2> QED
    BY <2>1, <2>2
<1>3. Targets(text) \subseteq Text
  <2>1. \A i \in 1..Len(text) : TargetAt(text, i) # <<>> => TargetAt(text, i) \in Text
    BY TargetAtIs
  <2>2. TargetsFrom(text, 1) \subseteq Text
    BY <2>1, <1>1, AllTargets
  <2> QED
    BY <2>2 DEF Targets
<1>4. R = Q \ {<<>>}
  BY LinksFromTargets
<1>5. ASSUME NEW t \in Text
      PROVE  FileOf(t) \in Text
  <2> DEFINE p == PathOf(t)
  <2>1. p \in Text /\ Len(p) \in Nat
    BY <1>2 DEF Text
  <2> HIDE DEF p
  <2>2. ASSUME IsPrefix(<<".", "/">>, p)
        PROVE  SubSeq(p, 3, Len(p)) \in Text
    <3>1. Len(<<".", "/">>) = 2
      OBVIOUS
    <3>2. 2 <= Len(p)
      BY <2>2, <3>1 DEF IsPrefix
    <3>3. 3 \in 1..(Len(p) + 1) /\ Len(p) \in 0..Len(p)
      BY <2>1, <3>2
    <3> QED
      BY <2>1, <3>3, SubSeqIs DEF Kinds
  <2> QED
    BY <2>1, <2>2 DEF FileOf, p
<1>6. R \subseteq Text
  BY <1>3, <1>4, <1>5
<1>7. IsFiniteSet(S)
  <2>1. IsFiniteSet(Targets(text))
    BY <1>1, TargetsFinite DEF Targets
  <2>2. S \in SUBSET Targets(text)
    OBVIOUS
  <2> HIDE DEF S
  <2> QED
    BY <2>1, <2>2, FS_Subset
<1>8. m \in Surjection(S, Q)
  <2> HIDE DEF S
  <2> QED
    BY DEF Surjection
<1>9. IsFiniteSet(R)
  <2> HIDE DEF S, R, Q, m
  <2>1. IsFiniteSet(Q)
    BY <1>7, <1>8, FS_Surjection
  <2> QED
    BY <2>1, <1>4, FS_Subset
<1> QED
  BY <1>6, <1>9

-----------------------------------------------------------------------------
(* The findings of a validation, as lines of the log.                       *)

LinksFrom(f) == {f} \X LinksOf(f)

LEMMA BrokenLinksAre ==
  ASSUME IsFiniteSet(DOMAIN files), DOMAIN files \subseteq Tokens,
         \A f \in DOMAIN files : files[f].text \in Text
  PROVE  /\ IsFiniteSet(BrokenLinks)
         /\ \A b \in BrokenLinks : b[1] \in Tokens /\ b[2] \in Text
<1> DEFINE D == DOMAIN files \ {IndexFile}
           S == {LinksFrom(f) : f \in D}
           U == UNION S
           m == [f \in D |-> LinksFrom(f)]
<1>1. \A f \in D : LinksOf(f) \subseteq Text /\ IsFiniteSet(LinksOf(f))
  BY LinksAreText DEF LinksOf
<1>2. BrokenLinks = {b \in U : ~Resolves(b[2])}
  BY DEF BrokenLinks, LinksFrom
<1>3. IsFiniteSet(D)
  BY FS_Subset
<1>4. IsFiniteSet(S)
  <2>1. m \in Surjection(D, S)
    BY DEF Surjection
  <2> HIDE DEF D, S, m
  <2> QED
    BY <2>1, <1>3, FS_Surjection
<1>5. \A T \in S : IsFiniteSet(T)
  <2> SUFFICES ASSUME NEW f \in D
               PROVE  IsFiniteSet(LinksFrom(f))
    OBVIOUS
  <2>1. IsFiniteSet({f}) /\ IsFiniteSet(LinksOf(f))
    BY <1>1, FS_Singleton
  <2> QED
    BY <2>1, FS_Product DEF LinksFrom
<1>6. IsFiniteSet(U)
  <2> HIDE DEF S
  <2> QED
    BY <1>4, <1>5, FS_UNION
<1>7. IsFiniteSet(BrokenLinks)
  <2>1. BrokenLinks \in SUBSET U
    BY <1>2
  <2> HIDE DEF U
  <2> QED
    BY <2>1, <1>6, FS_Subset
<1>8. ASSUME NEW b \in BrokenLinks
      PROVE  b[1] \in Tokens /\ b[2] \in Text
  <2>1. PICK f \in D : b \in LinksFrom(f)
    BY <1>2
  <2>2. b[1] = f /\ b[2] \in LinksOf(f)
    BY <2>1 DEF LinksFrom
  <2> QED
    BY <2>2, <1>1
<1> QED
  BY <1>7, <1>8

LEMMA ListedOf ==
  ASSUME NEW S, IsFiniteSet(S), S \subseteq Text
  PROVE  SetToSeq(S) \in Seq(Text) /\ (S = {} => SetToSeq(S) \in {<<>>})
<1> DEFINE n == Cardinality(S)
           s == SetToSeq(S)
<1>1. n \in Nat /\ ExistsBijection(1..n, S)
  BY FS_CardinalityType
<1>2. s \in [1..n -> S]
  <2>1. \E f \in [1..n -> S] : IsInjective(f)
    BY <1>1 DEF ExistsBijection, Bijection, Injection
  <2> QED
    BY <2>1 DEF SetToSeq
<1>3. S = {} => n = 0
  BY FS_EmptySet DEF n
<1> HIDE DEF n, s
<1>4. s \in Seq(Text) /\ Len(s) = n
  <2>1. s \in [1..n -> Text]
    BY <1>2
  <2> QED
    BY <2>1, <1>1, IsASeq, LenProperties
<1>5. n = 0 => s = <<>>
  BY <1>4, EmptySeq
<1> QED
  BY <1>3, <1>4, <1>5 DEF s

(* What is found, as text, and nothing where every rule about links passes. *)
LEMMA FindingsAre ==
  ASSUME IsFiniteSet(DOMAIN files), DOMAIN files \subseteq Tokens, IndexFile \in DOMAIN files,
         \A f \in DOMAIN files : files[f].text \in Text
  PROVE  /\ Findings \in Seq(Seq(Text))
         /\ IndexLinksResolve /\ EveryConceptIsIndexed /\ BrokenLinks = {}
              => Findings \in Seq({<<>>})
<1> DEFINE O == {l \in LinksOf(IndexFile) : ~Resolves(l)}
           U == Unindexed
           B == BrokenLinks
           Of(l) == Code(<<IndexFile>>) \o Code(l)
           Not(f) == Code(<<f>>)
           In(b) == Code(<<b[1]>>) \o Code(b[2])
           o == {Of(l) : l \in O}
           u == {Not(f) : f \in U}
           b == {In(c) : c \in B}
<1>1. Findings = <<SetToSeq(o), SetToSeq(u), SetToSeq(b)>>
  BY DEF Findings
<1>2. \A t \in Text : Code(t) \in Text
  BY CodeIs
<1>3. /\ IsFiniteSet(O) /\ IsFiniteSet(U) /\ IsFiniteSet(B)
      /\ O \subseteq Text /\ U \subseteq Tokens
      /\ \A c \in B : c[1] \in Tokens /\ c[2] \in Text
  <2>1. LinksOf(IndexFile) \subseteq Text /\ IsFiniteSet(LinksOf(IndexFile))
    BY LinksAreText DEF LinksOf
  <2>2. IsFiniteSet(O) /\ O \subseteq Text
    BY <2>1, FS_Subset
  <2>3. U \subseteq DOMAIN files
    BY DEF Unindexed
  <2>4. IsFiniteSet(U)
    BY <2>3, FS_Subset
  <2> QED
    BY <2>2, <2>3, <2>4, BrokenLinksAre
<1>4. o \subseteq Text /\ u \subseteq Text /\ b \subseteq Text
  <2>1. \A l \in O : Of(l) \in Text
    BY <1>2, <1>3, IsText, Joined DEF IndexFile, Wording
  <2>2. \A f \in U : Not(f) \in Text
    BY <1>2, <1>3, IsText
  <2>3. ASSUME NEW c \in B
        PROVE  In(c) \in Text
    <3>1. <<c[1]>> \in Text /\ c[2] \in Text
      BY <1>3, IsText
    <3>2. Code(<<c[1]>>) \in Text /\ Code(c[2]) \in Text
      BY <3>1, <1>2
    <3> QED
      BY <3>2, Joined
  <2> HIDE DEF O, U, B, Of, Not, In
  <2> QED
    BY <2>1, <2>2, <2>3
<1>5. IsFiniteSet(o) /\ IsFiniteSet(u) /\ IsFiniteSet(b)
  <2> DEFINE mo == [l \in O |-> Of(l)]
             mu == [f \in U |-> Not(f)]
             mb == [c \in B |-> In(c)]
  <2> HIDE DEF O, U, B, Of, Not, In
  <2>1. mo \in Surjection(O, o) /\ mu \in Surjection(U, u) /\ mb \in Surjection(B, b)
    BY DEF Surjection
  <2> HIDE DEF mo, mu, mb, o, u, b
  <2> QED
    BY <2>1, <1>3, FS_Surjection
<1>6. (O = {} => o = {}) /\ (U = {} => u = {}) /\ (B = {} => b = {})
  OBVIOUS
<1>7. (IndexLinksResolve => O = {}) /\ (EveryConceptIsIndexed => U = {})
  BY DEF IndexLinksResolve, EveryConceptIsIndexed
<1> HIDE DEF O, U, o, u, b
<1>8. SetToSeq(o) \in Seq(Text) /\ SetToSeq(u) \in Seq(Text) /\ SetToSeq(b) \in Seq(Text)
  BY <1>4, <1>5, ListedOf
<1>9. IndexLinksResolve /\ EveryConceptIsIndexed /\ B = {} =>
        SetToSeq(o) \in {<<>>} /\ SetToSeq(u) \in {<<>>} /\ SetToSeq(b) \in {<<>>}
  BY <1>4, <1>5, <1>6, <1>7, ListedOf
<1>10. \A S : \A x, y, z \in S : <<x, y, z>> \in Seq(S)
  OBVIOUS
<1> QED
  BY <1>1, <1>8, <1>9, <1>10

-----------------------------------------------------------------------------
(* What is in the bundle at each step.                                      *)

Stage(index, log, details) ==
  /\ DOMAIN files = Concepts \cup (IF index THEN {IndexFile} ELSE {})
                             \cup (IF log THEN {LogFile} ELSE {})
  /\ \A k \in DOMAIN units : files[FileName[k]] = RenderConcept(k)
  /\ index => files[IndexFile] = RenderIndex
  /\ log => files[LogFile] = RenderLog(details)

Complete == \E d \in Seq(Seq(Text)) : Stage(TRUE, TRUE, d)

LEMMA CompleteIs ==
  ASSUME Units, NEW d \in Seq(Seq(Text)), Stage(TRUE, TRUE, d)
  PROVE  /\ DOMAIN files = Concepts \cup {IndexFile, LogFile}
         /\ \A f \in Concepts : \E k \in DOMAIN units :
              f = FileName[k] /\ files[f] = RenderConcept(k)
         /\ files[IndexFile] = RenderIndex /\ files[LogFile] = RenderLog(d)
         /\ RenderLog(d).text \in Text /\ RenderLog(d).text # <<>>
         /\ RenderIndex.text \in Text /\ RenderIndex.text # <<>>
         /\ \A f \in DOMAIN files : files[f].text \in Text /\ files[f].text # <<>>
         /\ \A f \in DOMAIN files :
              files[f].type = (IF f = IndexFile THEN "index"
                               ELSE IF f = LogFile THEN "log" ELSE "concept")
<1>1. DOMAIN files = Concepts \cup {IndexFile, LogFile}
  BY DEF Stage
<1>2. \A f \in Concepts : \E k \in DOMAIN units :
        f = FileName[k] /\ files[f] = RenderConcept(k)
  BY UnitsAre DEF Stage
<1>3. files[IndexFile] = RenderIndex /\ files[LogFile] = RenderLog(d)
  BY DEF Stage
<1>4. RenderLog(d).text \in Text /\ RenderLog(d).text # <<>>
  BY LogTextIs
<1>5. RenderIndex.text \in Text /\ RenderIndex.text # <<>>
  BY IndexIs
<1>6. \A k \in DOMAIN units : RenderConcept(k).text \in Text /\ RenderConcept(k).text # <<>>
  BY FooterIs
<1>7. \A f \in DOMAIN files : files[f].text \in Text /\ files[f].text # <<>>
  BY <1>1, <1>2, <1>3, <1>4, <1>5, <1>6
<1>8. ASSUME NEW f \in DOMAIN files
      PROVE  files[f].type = (IF f = IndexFile THEN "index"
                              ELSE IF f = LogFile THEN "log" ELSE "concept")
  <2>1. CASE f \in Concepts
    <3>1. f # IndexFile /\ f # LogFile
      BY <2>1, UnitsAre
    <3>2. PICK k \in DOMAIN units : files[f] = RenderConcept(k)
      BY <2>1, <1>2
    <3>3. files[f].type = "concept"
      BY <3>2 DEF RenderConcept
    <3> QED
      BY <3>1, <3>3
  <2>2. CASE f = IndexFile
    BY <2>2, <1>3 DEF RenderIndex
  <2>3. CASE f = LogFile
    BY <2>3, <1>3, UnitsAre DEF RenderLog
  <2> QED
    BY <2>1, <2>2, <2>3, <1>1
<1> QED
  BY <1>1, <1>2, <1>3, <1>4, <1>5, <1>7, <1>8

(* What a complete bundle never fails.                                      *)
LEMMA CompletePasses ==
  ASSUME Units, Complete
  PROVE  /\ MinimumStructure /\ TypeFieldPresent /\ ReservedTypesMatch
         /\ ~TitleHoldsBackslash => EveryConceptIsIndexed
         /\ ~TitleHoldsBackslash /\ SourceIn(Tidy({})) => IndexLinksResolve
<1>1. PICK d \in Seq(Seq(Text)) : Stage(TRUE, TRUE, d)
  BY DEF Complete
<1>2. /\ DOMAIN files = Concepts \cup {IndexFile, LogFile}
      /\ files[IndexFile] = RenderIndex
      /\ \A f \in DOMAIN files : files[f].text # <<>>
      /\ \A f \in DOMAIN files :
           files[f].type = (IF f = IndexFile THEN "index"
                            ELSE IF f = LogFile THEN "log" ELSE "concept")
  BY <1>1, CompleteIs
<1>3. MinimumStructure
  <2>1. 1 \in DOMAIN units
    BY UnitsAre
  <2>2. FileName[1] \in Concepts /\ IndexFile \notin Concepts /\ LogFile \notin Concepts
    BY <2>1, UnitsAre
  <2>3. FileName[1] \in DOMAIN files \ {IndexFile, LogFile}
    BY <2>2, <1>2
  <2> QED
    BY <2>3, <1>2 DEF MinimumStructure
<1>4. TypeFieldPresent
  BY <1>2 DEF TypeFieldPresent
<1>5. ReservedTypesMatch
  BY <1>2 DEF ReservedTypesMatch
<1>6. ASSUME ~TitleHoldsBackslash
      PROVE  EveryConceptIsIndexed
  <2> SUFFICES ASSUME NEW f \in DOMAIN files \ {IndexFile, LogFile}
               PROVE  <<f>> \in LinksOf(IndexFile)
    BY <1>2 DEF EveryConceptIsIndexed, Unindexed
  <2>1. f \in Concepts
    BY <1>2
  <2>2. <<f>> \in Targets(RenderIndex.text)
    BY <2>1, <1>6, IndexRead
  <2>3. f \notin {"#", "http", "/"}
    BY <2>1, UnitsAre DEF Marks
  <2> QED
    BY <2>2, <2>3, <1>2, LinkSeen DEF LinksOf
<1>7. ASSUME ~TitleHoldsBackslash, SourceIn(Tidy({}))
      PROVE  IndexLinksResolve
  <2> SUFFICES ASSUME NEW l \in RelativeLinks(RenderIndex.text)
               PROVE  Resolves(l)
    BY <1>2 DEF IndexLinksResolve, LinksOf
  <2> DEFINE F == Concepts \cup {LogFile}
  <2>1. RenderIndex.text \in Tame(F)
    BY <1>7, IndexIsTame
  <2>2. F \in SUBSET (Tokens \ Marks)
    BY UnitsAre
  <2>3. F \subseteq DOMAIN files
    BY <1>2
  <2> HIDE DEF F
  <2>4. PICK f \in F : l = <<f>>
    BY <2>1, <2>2, LinksOnly
  <2> QED
    BY <2>3, <2>4 DEF Resolves
<1> QED
  BY <1>3, <1>4, <1>5, <1>6, <1>7

(* Before the validation adds to it, a bundle of a source without anything  *)
(* like a link holds no broken one.                                         *)
LEMMA NothingBroken ==
  ASSUME Units, Stage(TRUE, TRUE, <<>>), SourceIn(Tidy({})),
         \A k \in DOMAIN units : units[k].title \in Tidy({}) /\ units[k].body \in Tidy({})
  PROVE  BrokenLinks = {}
<1>1. <<>> \in Seq(Seq(Text))
  OBVIOUS
<1>2. /\ DOMAIN files = Concepts \cup {IndexFile, LogFile}
      /\ \A f \in Concepts : \E k \in DOMAIN units :
           f = FileName[k] /\ files[f] = RenderConcept(k)
      /\ files[LogFile] = RenderLog(<<>>)
  BY <1>1, CompleteIs
<1>3. ASSUME NEW f \in Concepts, NEW l \in LinksOf(f)
      PROVE  Resolves(l)
  <2> DEFINE F == Concepts \cup {IndexFile}
  <2>1. PICK k \in DOMAIN units : files[f] = RenderConcept(k)
    BY <1>2
  <2>2. RenderConcept(k).text \in Tame(F)
    BY ConceptIsTidy
  <2>3. F \in SUBSET (Tokens \ Marks) /\ F \subseteq DOMAIN files
    BY <1>2, UnitsAre
  <2> HIDE DEF F
  <2>4. l \in RelativeLinks(RenderConcept(k).text)
    BY <2>1 DEF LinksOf
  <2>5. PICK g \in F : l = <<g>>
    BY <2>2, <2>3, <2>4, LinksOnly
  <2> QED
    BY <2>3, <2>5 DEF Resolves
<1>4. ASSUME NEW l \in LinksOf(LogFile)
      PROVE  FALSE
  <2>1. Tidy({}) \in Kinds
    BY DEF Kinds
  <2>2. RenderLog(<<>>).text \in Tidy({}) \cap Lines
    BY <2>1, FirstLogIs
  <2>4. RenderLog(<<>>).text \in Tame({})
    BY <2>2, TidyIsTame
  <2>5. l \in RelativeLinks(RenderLog(<<>>).text)
    BY <1>2, <1>4 DEF LinksOf
  <2>6. \E g \in {} : l = <<g>>
    <3> DEFINE F == {}
    <3>1. F \in SUBSET (Tokens \ Marks) /\ RenderLog(<<>>).text \in Tame(F)
      BY <2>4
    <3> HIDE DEF F
    <3>2. \E g \in F : l = <<g>>
      BY <3>1, <2>5, LinksOnly
    <3> QED
      BY <3>2 DEF F
  <2> QED
    BY <2>6
<1>5. ASSUME NEW b \in BrokenLinks
      PROVE  FALSE
  <2>1. PICK f \in DOMAIN files \ {IndexFile} : b \in {f} \X LinksOf(f) /\ ~Resolves(b[2])
    BY DEF BrokenLinks
  <2>2. b[2] \in LinksOf(f) /\ ~Resolves(b[2])
    BY <2>1
  <2>3. f \in Concepts \/ f = LogFile
    BY <2>1, <1>2
  <2> QED
    BY <2>2, <2>3, <1>3, <1>4
<1> QED
  BY <1>5

(* The verdict, from the rules that fail.                                   *)
LEMMA FailedIs ==
  /\ "minimum-structure" \in Failed <=> ~MinimumStructure
  /\ "index-links" \in Failed <=> ~IndexLinksResolve
  /\ "concepts-indexed" \in Failed <=> ~EveryConceptIsIndexed
  /\ "okf-type" \in Failed <=> ~TypeFieldPresent
  /\ "concept-links" \in Failed <=> BrokenLinks # {}
  /\ "okf-reserved-types" \in Failed <=> ~ReservedTypesMatch
  /\ Failed \subseteq Errors \cup {"concept-links", "okf-reserved-types"}
BY DEF Failed, Errors

LEMMA WhenWarned ==
  ASSUME Units, Complete, VerdictFor(Failed) = "valid_with_warnings"
  PROVE  BrokenLinks # {}
<1>1. Failed # {} /\ Failed \cap Errors = {}
  BY DEF VerdictFor
<1>2. "okf-reserved-types" \notin Failed
  BY CompletePasses, FailedIs
<1>3. "concept-links" \in Failed
  BY <1>1, <1>2, FailedIs
<1> QED
  BY <1>3, FailedIs

LEMMA WhenClean ==
  ASSUME Units, Complete, ~TitleHoldsBackslash, SourceIn(Tidy({}))
  PROVE  VerdictFor(Failed) # "invalid"
<1>1. Failed \cap Errors = {}
  BY CompletePasses, FailedIs DEF Errors
<1> QED
  BY <1>1 DEF VerdictFor

-----------------------------------------------------------------------------
(* The steps.                                                               *)

Contents ==
  /\ phase \in {"concepts", "index", "log", "validate", "attach", "done"}
  /\ phase = "index" => Stage(FALSE, FALSE, <<>>)
  /\ phase = "log" => Stage(TRUE, FALSE, <<>>)
  /\ phase \in {"validate", "attach"} => Stage(TRUE, TRUE, <<>>)
  /\ phase = "done" => Complete

Reported ==
  /\ ~Validated => report = NoReport
  /\ phase = "attach" => report = [verdict |-> VerdictFor(Failed), failed |-> Failed]
  /\ ReportStillHolds

Inv == Units /\ Contents /\ Reported /\ WarningsAreInherited

LEMMA SourceKept ==
  ASSUME src' = src, units' = units
  PROVE  /\ Units' = Units /\ Concepts' = Concepts
         /\ \A k : RenderConcept(k)' = RenderConcept(k)
         /\ RenderIndex' = RenderIndex
         /\ \A d : RenderLog(d)' = RenderLog(d)
<1>1. /\ DocumentTitle' = DocumentTitle /\ ContentType' = ContentType
      /\ ObjectKey' = ObjectKey
  BY DEF DocumentTitle, ContentType, ObjectKey
<1>2. \A t : Frontmatter(t)' = Frontmatter(t)
  BY DEF Frontmatter
<1>3. \A k : Footer(k)' = Footer(k)
  BY DEF Footer
<1>4. \A k : IndexEntry(k)' = IndexEntry(k) /\ LogEntry(k)' = LogEntry(k)
  BY DEF IndexEntry, LogEntry
<1>5. Units' = Units /\ Concepts' = Concepts
  BY DEF Units, Concepts, SourceIn
<1>6. \A k : RenderConcept(k)' = RenderConcept(k)
  BY <1>2, <1>3 DEF RenderConcept
<1>7. RenderIndex' = RenderIndex
  BY <1>1, <1>2, <1>4 DEF RenderIndex
<1>8. \A d : RenderLog(d)' = RenderLog(d)
  <2>1. \A d : Steps(d)' = Steps(d)
    BY <1>1 DEF Steps
  <2> QED
    BY <2>1, <1>1, <1>2, <1>4 DEF RenderLog
<1> QED
  BY <1>5, <1>6, <1>7, <1>8

LEMMA FailedKept ==
  ASSUME files' = files
  PROVE  Failed' = Failed
<1>1. BrokenLinks' = BrokenLinks
  BY DEF BrokenLinks, LinksOf, Resolves
<1>2. MinimumStructure' = MinimumStructure /\ TypeFieldPresent' = TypeFieldPresent
      /\ ReservedTypesMatch' = ReservedTypesMatch
  BY DEF MinimumStructure, TypeFieldPresent, ReservedTypesMatch
<1>3. IndexLinksResolve' = IndexLinksResolve
  BY DEF IndexLinksResolve, LinksOf, Resolves
<1>4. EveryConceptIsIndexed' = EveryConceptIsIndexed
  BY DEF EveryConceptIsIndexed, Unindexed, LinksOf
<1> QED
  BY <1>1, <1>2, <1>3, <1>4 DEF Failed

LEMMA InvInit ==
  ASSUME Init
  PROVE  Inv
<1>1. SourceIn(Text)
  BY BundleAssumption DEF Init, SourceIn
<1>2. PICK d \in Documents : units = Named(d)
  BY DEF Init
<1>3. d \in Seq([title : Seq(Tokens \ {"nl"}), body : Text]) /\ Len(d) \in 1..Len(FileName)
  BY BundleAssumption
<1>4. Units
  <2> DEFINE R == [title : Text, body : Text]
             n == Len(d)
  <2>1. n \in Nat /\ DOMAIN d = 1..n
        /\ \A k \in 1..n : d[k] \in [title : Seq(Tokens \ {"nl"}), body : Text]
    BY <1>3, ElementOfSeq, LenProperties
  <2>2. ASSUME NEW k \in 1..n
        PROVE  Named(d)[k] \in R
    <3> DEFINE t == OrOurs(Trim(d[k].title, Spaces))
    <3>1. Named(d)[k] = [d[k] EXCEPT !.title = t]
      BY <2>1 DEF Named
    <3>2. d[k].title \in Seq(Tokens \ {"nl"})
      BY <2>1
    <3>3. d[k].title \in Text
      BY <3>2 DEF Text
    <3>4. t \in Text
      BY <3>3, TrimIs, OursIs DEF Kinds
    <3> HIDE DEF t
    <3> QED
      BY <2>1, <3>1, <3>4
  <2>3. Named(d) \in [1..n -> R]
    BY <2>1, <2>2 DEF Named
  <2>4. Named(d) \in Seq(R) /\ Len(Named(d)) = n
    <3> HIDE DEF R, n
    <3> QED
      BY <2>1, <2>3, IsASeq, LenProperties
  <2> QED
    BY <2>4, <1>1, <1>2, <1>3 DEF Units
<1>5. phase = "concepts" /\ report = NoReport
  BY DEF Init
<1>6. WarningsAreInherited
  BY <1>5 DEF WarningsAreInherited, NoReport
<1> QED
  BY <1>4, <1>5, <1>6 DEF Inv, Contents, Reported, ReportStillHolds, Validated

LEMMA WithIs ==
  ASSUME NEW f, NEW c, files' = With(f, c)
  PROVE  /\ DOMAIN files' = DOMAIN files \cup {f}
         /\ files'[f] = c
         /\ \A g \in DOMAIN files : g # f => files'[g] = files[g]
BY DEF With

LEMMA InvConcepts ==
  ASSUME Inv, BuildConcepts
  PROVE  Inv'
<1>1. /\ src' = src /\ units' = units /\ report' = report
      /\ phase = "concepts" /\ phase' = "index"
      /\ files' = [f \in Concepts |-> RenderConcept(CHOOSE k \in DOMAIN units : FileName[k] = f)]
  BY DEF BuildConcepts
<1>2. Units /\ report = NoReport
  BY <1>1 DEF Inv, Reported, Validated
<1>3. ASSUME NEW k \in DOMAIN units
      PROVE  files'[FileName[k]] = RenderConcept(k)
  <2>1. FileName[k] \in Concepts
    BY <1>2, UnitsAre
  <2>2. (CHOOSE j \in DOMAIN units : FileName[j] = FileName[k]) = k
    BY <1>2, UnitsAre
  <2> QED
    BY <2>1, <2>2, <1>1
<1>4. Stage(FALSE, FALSE, <<>>)'
  <2>1. Concepts' = Concepts /\ \A k : RenderConcept(k)' = RenderConcept(k)
    BY <1>1, SourceKept
  <2> QED
    BY <2>1, <1>1, <1>3 DEF Stage
<1>5. Units'
  BY <1>1, <1>2, SourceKept
<1>6. WarningsAreInherited'
  BY <1>1, <1>2 DEF WarningsAreInherited, NoReport
<1> QED
  BY <1>1, <1>2, <1>4, <1>5, <1>6 DEF Inv, Contents, Reported, ReportStillHolds, Validated

LEMMA InvIndex ==
  ASSUME Inv, BuildIndex
  PROVE  Inv'
<1>1. /\ src' = src /\ units' = units /\ report' = report
      /\ phase = "index" /\ phase' = "log" /\ files' = With(IndexFile, RenderIndex)
  BY DEF BuildIndex
<1>2. Units /\ report = NoReport /\ Stage(FALSE, FALSE, <<>>)
  BY <1>1 DEF Inv, Reported, Validated, Contents
<1>3. /\ DOMAIN files' = DOMAIN files \cup {IndexFile} /\ files'[IndexFile] = RenderIndex
      /\ \A g \in DOMAIN files : g # IndexFile => files'[g] = files[g]
  BY <1>1, WithIs
<1>4. Stage(TRUE, FALSE, <<>>)'
  <2>1. /\ Concepts' = Concepts /\ \A k : RenderConcept(k)' = RenderConcept(k)
        /\ RenderIndex' = RenderIndex
    BY <1>1, SourceKept
  <2>2. \A k \in DOMAIN units : FileName[k] \in Concepts /\ FileName[k] # IndexFile
    BY <1>2, UnitsAre
  <2> QED
    BY <2>1, <2>2, <1>1, <1>2, <1>3 DEF Stage
<1>5. Units'
  BY <1>1, <1>2, SourceKept
<1>6. WarningsAreInherited'
  BY <1>1, <1>2 DEF WarningsAreInherited, NoReport
<1> QED
  BY <1>1, <1>2, <1>4, <1>5, <1>6 DEF Inv, Contents, Reported, ReportStillHolds, Validated

LEMMA InvLog ==
  ASSUME Inv, BuildLog
  PROVE  Inv'
<1>1. /\ src' = src /\ units' = units /\ report' = report
      /\ phase = "log" /\ phase' = "validate" /\ files' = With(LogFile, RenderLog(<<>>))
  BY DEF BuildLog
<1>2. Units /\ report = NoReport /\ Stage(TRUE, FALSE, <<>>)
  BY <1>1 DEF Inv, Reported, Validated, Contents
<1>3. /\ DOMAIN files' = DOMAIN files \cup {LogFile} /\ files'[LogFile] = RenderLog(<<>>)
      /\ \A g \in DOMAIN files : g # LogFile => files'[g] = files[g]
  BY <1>1, WithIs
<1>4. Stage(TRUE, TRUE, <<>>)'
  <2>1. /\ Concepts' = Concepts /\ \A k : RenderConcept(k)' = RenderConcept(k)
        /\ RenderIndex' = RenderIndex /\ \A d : RenderLog(d)' = RenderLog(d)
    BY <1>1, SourceKept
  <2>2. \A k \in DOMAIN units : FileName[k] \in Concepts /\ FileName[k] # LogFile
    BY <1>2, UnitsAre
  <2>3. IndexFile # LogFile
    BY <1>2, UnitsAre
  <2> QED
    BY <2>1, <2>2, <2>3, <1>1, <1>2, <1>3 DEF Stage
<1>5. Units'
  BY <1>1, <1>2, SourceKept
<1>6. WarningsAreInherited'
  BY <1>1, <1>2 DEF WarningsAreInherited, NoReport
<1> QED
  BY <1>1, <1>2, <1>4, <1>5, <1>6 DEF Inv, Contents, Reported, ReportStillHolds, Validated

LEMMA InvValidate ==
  ASSUME Inv, Validate
  PROVE  Inv'
<1>1. /\ src' = src /\ units' = units /\ files' = files
      /\ phase = "validate" /\ phase' = "attach"
      /\ report' = [verdict |-> VerdictFor(Failed), failed |-> Failed]
  BY DEF Validate
<1>2. Units /\ Stage(TRUE, TRUE, <<>>)
  BY <1>1 DEF Inv, Contents
<1>3. Complete
  <2>1. <<>> \in Seq(Seq(Text))
    OBVIOUS
  <2> QED
    BY <2>1, <1>2 DEF Complete
<1>4. Stage(TRUE, TRUE, <<>>)'
  <2>1. /\ Concepts' = Concepts /\ \A k : RenderConcept(k)' = RenderConcept(k)
        /\ RenderIndex' = RenderIndex /\ \A d : RenderLog(d)' = RenderLog(d)
    BY <1>1, SourceKept
  <2> QED
    BY <2>1, <1>1, <1>2 DEF Stage
<1>5. Units'
  BY <1>1, <1>2, SourceKept
<1>6. WarningsAreInherited'
  <2> SUFFICES ASSUME VerdictFor(Failed) = "valid_with_warnings",
                      ~HoldsLink(src.originalName), ~HoldsLink(src.contentType),
                      \A k \in DOMAIN units :
                        ~HoldsLink(units[k].title) /\ ~HoldsLink(units[k].body)
               PROVE  FALSE
    BY <1>1 DEF WarningsAreInherited
  <2>1. SourceIn(Tidy({}))
    BY <1>2, TidyIsClear DEF Units, SourceIn
  <2>2. \A k \in DOMAIN units : units[k].title \in Tidy({}) /\ units[k].body \in Tidy({})
    BY <1>2, TidyIsClear, UnitsAre
  <2>3. BrokenLinks = {}
    BY <2>1, <2>2, <1>2, NothingBroken
  <2> QED
    BY <2>3, <1>2, <1>3, WhenWarned
<1>7. Reported'
  <2>1. Failed' = Failed
    BY <1>1, FailedKept
  <2> QED
    BY <2>1, <1>1 DEF Reported, ReportStillHolds, Validated
<1> QED
  BY <1>1, <1>4, <1>5, <1>6, <1>7 DEF Inv, Contents

LEMMA InvAttach ==
  ASSUME Inv, SetValidation
  PROVE  Inv'
<1>1. /\ src' = src /\ units' = units /\ report' = report
      /\ phase = "attach" /\ phase' = "done" /\ files' = With(LogFile, RenderLog(Findings))
  BY DEF SetValidation
<1>2. Units /\ Stage(TRUE, TRUE, <<>>)
  BY <1>1 DEF Inv, Contents
<1>3. report = [verdict |-> VerdictFor(Failed), failed |-> Failed]
  BY <1>1 DEF Inv, Reported
<1>4. <<>> \in Seq(Seq(Text))
  OBVIOUS
<1>5. /\ DOMAIN files = Concepts \cup {IndexFile, LogFile}
      /\ files[IndexFile] = RenderIndex /\ files[LogFile] = RenderLog(<<>>)
      /\ \A f \in DOMAIN files : files[f].text \in Text /\ files[f].text # <<>>
  BY <1>2, <1>4, CompleteIs
<1>6. IsFiniteSet(DOMAIN files) /\ DOMAIN files \subseteq Tokens
  <2>1. IsFiniteSet(Concepts)
    <3> DEFINE n == Len(units)
               m == [k \in 1..n |-> FileName[k]]
    <3>1. n \in Nat /\ DOMAIN units = 1..n
      BY <1>2, UnitsAre
    <3>2. m \in Surjection(1..n, Concepts)
      BY <3>1 DEF Concepts, Surjection
    <3>3. IsFiniteSet(1..n)
      BY <3>1, FS_Interval
    <3> HIDE DEF n, m
    <3> QED
      BY <3>2, <3>3, FS_Surjection
  <2>2. IsFiniteSet((Concepts \cup {IndexFile}) \cup {LogFile})
    BY <2>1, FS_AddElement
  <2>3. DOMAIN files = (Concepts \cup {IndexFile}) \cup {LogFile}
    BY <1>5
  <2> QED
    BY <2>2, <2>3, <1>2, UnitsAre
<1>7. /\ Findings \in Seq(Seq(Text))
      /\ IndexLinksResolve /\ EveryConceptIsIndexed /\ BrokenLinks = {}
           => Findings \in Seq({<<>>})
  BY <1>5, <1>6, FindingsAre
<1>8. PICK d \in Seq(Seq(Text)) : d = Findings
  BY <1>7
<1>9. /\ DOMAIN files' = DOMAIN files /\ files'[LogFile] = RenderLog(d)
      /\ \A f \in DOMAIN files : f # LogFile => files'[f] = files[f]
  BY <1>1, <1>5, <1>8, WithIs
<1>10. RenderLog(d).text \in Text /\ RenderLog(d).text # <<>>
  BY <1>2, LogTextIs
<1>11. Stage(TRUE, TRUE, d)'
  <2>1. /\ Concepts' = Concepts /\ \A k : RenderConcept(k)' = RenderConcept(k)
        /\ RenderIndex' = RenderIndex /\ \A e : RenderLog(e)' = RenderLog(e)
    BY <1>1, SourceKept
  <2>2. \A k \in DOMAIN units : FileName[k] \in Concepts /\ FileName[k] # LogFile
    BY <1>2, UnitsAre
  <2>3. IndexFile # LogFile
    BY <1>2, UnitsAre
  <2> QED
    BY <2>1, <2>2, <2>3, <1>1, <1>2, <1>5, <1>9 DEF Stage
<1>12. Complete'
  BY <1>11 DEF Complete
<1>13. \A f \in DOMAIN files : files'[f].type = files[f].type /\ files'[f].text # <<>>
  <2>1. files'[LogFile].type = files[LogFile].type
    BY <1>5, <1>9 DEF RenderLog
  <2> QED
    BY <2>1, <1>5, <1>9, <1>10
<1>14. /\ MinimumStructure' = MinimumStructure /\ TypeFieldPresent' = TypeFieldPresent
       /\ ReservedTypesMatch' = ReservedTypesMatch
       /\ IndexLinksResolve' = IndexLinksResolve
       /\ EveryConceptIsIndexed' = EveryConceptIsIndexed
  <2>1. MinimumStructure' = MinimumStructure
    BY <1>5, <1>9, <1>13 DEF MinimumStructure
  <2>2. TypeFieldPresent' = TypeFieldPresent
    BY <1>5, <1>9, <1>13 DEF TypeFieldPresent
  <2>3. ReservedTypesMatch' = ReservedTypesMatch
    BY <1>9, <1>13 DEF ReservedTypesMatch
  <2>4. \A l : Resolves(l)' = Resolves(l)
    BY <1>9 DEF Resolves
  <2>5. LinksOf(IndexFile)' = LinksOf(IndexFile)
    BY <1>2, <1>5, <1>9, UnitsAre DEF LinksOf
  <2>6. IndexLinksResolve' = IndexLinksResolve
    BY <2>4, <2>5, <1>9 DEF IndexLinksResolve
  <2>7. EveryConceptIsIndexed' = EveryConceptIsIndexed
    BY <2>5, <1>9 DEF EveryConceptIsIndexed, Unindexed
  <2> QED
    BY <2>1, <2>2, <2>3, <2>6, <2>7
<1>15. Failed' \cap Errors = Failed \cap Errors
  <2>1. /\ "minimum-structure" \in Failed' <=> "minimum-structure" \in Failed
        /\ "index-links" \in Failed' <=> "index-links" \in Failed
        /\ "concepts-indexed" \in Failed' <=> "concepts-indexed" \in Failed
        /\ "okf-type" \in Failed' <=> "okf-type" \in Failed
    BY <1>14 DEF Failed, Errors
  <2> QED
    BY <2>1 DEF Errors
<1>16. ASSUME Failed \cap Errors = {}, BrokenLinks = {}
       PROVE  Failed' = Failed
  <2>1. d \in Seq({<<>>})
    BY <1>7, <1>8, <1>16, FailedIs DEF Errors
  <2>2. <<>> \in Seq({<<>>})
    OBVIOUS
  <2>3. StepLines(d) = StepLines(<<>>) /\ Listing(d) = Listing(<<>>)
    BY <2>1, <2>2, NothingLogged
  <2>4. RenderLog(d).text = RenderLog(<<>>).text
    BY <2>3, LogSplit
  <2>5. RenderLog(d) = RenderLog(<<>>)
    BY <2>4 DEF RenderLog
  <2>7. \A f \in DOMAIN files : files'[f] = files[f]
    BY <1>9, <2>5, <1>5
  <2>8. BrokenLinks' = BrokenLinks
    BY <2>7, <1>9 DEF BrokenLinks, LinksOf, Resolves
  <2> QED
    BY <2>8, <1>14 DEF Failed
<1>17. ReportStillHolds'
  <2>1. CASE Failed \cap Errors # {}
    <3>1. VerdictFor(Failed) = "invalid" /\ VerdictFor(Failed)' = "invalid"
      BY <2>1, <1>15 DEF VerdictFor
    <3> QED
      BY <3>1, <1>1, <1>3 DEF ReportStillHolds
  <2>2. CASE Failed \cap Errors = {} /\ BrokenLinks = {}
    <3>1. VerdictFor(Failed)' = VerdictFor(Failed)
      BY <2>2, <1>16 DEF VerdictFor
    <3> QED
      BY <3>1, <1>1, <1>3 DEF ReportStillHolds
  <2>3. CASE Failed \cap Errors = {} /\ BrokenLinks # {}
    <3>1. VerdictFor(Failed) = "valid_with_warnings"
      BY <2>3, FailedIs DEF VerdictFor
    <3>2. VerdictFor(Failed)' \in {"valid", "valid_with_warnings"}
      BY <2>3, <1>15 DEF VerdictFor
    <3> QED
      BY <3>1, <3>2, <1>1, <1>3 DEF ReportStillHolds
  <2> QED
    BY <2>1, <2>2, <2>3
<1>18. Units'
  BY <1>1, <1>2, SourceKept
<1>19. WarningsAreInherited'
  BY <1>1 DEF WarningsAreInherited, Inv
<1>20. Reported'
  BY <1>1, <1>17 DEF Reported, Validated
<1> QED
  BY <1>1, <1>12, <1>18, <1>19, <1>20 DEF Inv, Contents

LEMMA InvStutters ==
  ASSUME Inv, UNCHANGED vars
  PROVE  Inv'
<1>1. /\ src' = src /\ units' = units /\ files' = files
      /\ phase' = phase /\ report' = report
  BY DEF vars
<1>2. Units' = Units
  BY <1>1, SourceKept
<1>3. \A i, l, d : Stage(i, l, d)' = Stage(i, l, d)
  <2>1. /\ Concepts' = Concepts /\ \A k : RenderConcept(k)' = RenderConcept(k)
        /\ RenderIndex' = RenderIndex /\ \A d : RenderLog(d)' = RenderLog(d)
    BY <1>1, SourceKept
  <2> QED
    BY <2>1, <1>1 DEF Stage
<1>4. Contents' = Contents
  BY <1>1, <1>3 DEF Contents, Complete
<1>5. Reported' = Reported
  <2>1. Failed' = Failed
    BY <1>1, FailedKept
  <2> QED
    BY <2>1, <1>1 DEF Reported, ReportStillHolds, Validated
<1>6. WarningsAreInherited' = WarningsAreInherited
  BY <1>1 DEF WarningsAreInherited
<1> QED
  BY <1>2, <1>4, <1>5, <1>6 DEF Inv

(* The bundle holds, at each step of Build and of the validation, exactly   *)
(* what has been rendered of the units, and the report is the verdict of    *)
(* what the bundle holds.                                                   *)
THEOREM InvAlways == Spec => []Inv
<1>1. Inv /\ [Next]_vars => Inv'
  BY InvConcepts, InvIndex, InvLog, InvValidate, InvAttach, InvStutters DEF Next
<1> QED
  BY <1>1, InvInit, PTL DEF Spec

(* A bundle whose titles hold no backslash, and whose original name and     *)
(* content type no "](", is never kept from being published, whatever the   *)
(* bodies hold (bundle.go, validate.go).                                    *)
THEOREM CleanSourceIsPublishableAlways == Spec => []CleanSourceIsPublishable
<1>1. Inv => CleanSourceIsPublishable
  <2> SUFFICES ASSUME Inv, Validated, ~TitleHoldsBackslash,
                      ~HoldsLink(src.originalName), ~HoldsLink(src.contentType)
               PROVE  report.verdict # "invalid"
    BY DEF CleanSourceIsPublishable, Publishable
  <2>1. Units
    BY DEF Inv
  <2>2. Complete
    <3>1. <<>> \in Seq(Seq(Text))
      OBVIOUS
    <3> QED
      BY <3>1 DEF Inv, Contents, Validated, Complete
  <2>3. SourceIn(Tidy({}))
    BY <2>1, TidyIsClear DEF Units, SourceIn
  <2>4. VerdictFor(Failed) # "invalid"
    BY <2>1, <2>2, <2>3, WhenClean
  <2> QED
    BY <2>4 DEF Inv, Reported, ReportStillHolds, Validated
<1> QED
  BY <1>1, InvAlways, PTL

(* The validator reads every link a reader navigates by, whatever stands    *)
(* around them: each concept's to the index and to its neighbours, the      *)
(* index's to every concept and to the log.                                 *)
THEOREM NavigationChainAlways == Spec => []NavigationChain
<1>1. Inv => NavigationChain
  <2> SUFFICES ASSUME Inv, phase = "done", ~TitleHoldsBackslash
               PROVE  /\ \A k \in DOMAIN units :
                           {<<IndexFile>>}
                             \cup {<<FileName[j]>> : j \in DOMAIN units \cap {k - 1, k + 1}}
                             \subseteq LinksOf(FileName[k])
                      /\ \A f \in Concepts \cup {LogFile} : <<f>> \in LinksOf(IndexFile)
    BY DEF NavigationChain
  <2>1. Units /\ Complete
    BY DEF Inv, Contents
  <2>2. PICK d \in Seq(Seq(Text)) : Stage(TRUE, TRUE, d)
    BY <2>1 DEF Complete
  <2>3. \A f \in Concepts \cup {IndexFile, LogFile} : f \notin {"#", "http", "/"}
    BY <2>1, UnitsAre DEF Marks
  <2>4. ASSUME NEW f \in Concepts \cup {LogFile}
        PROVE  <<f>> \in LinksOf(IndexFile)
    <3>1. <<f>> \in Targets(RenderIndex.text)
      BY <2>1, IndexRead
    <3>2. <<f>> \in RelativeLinks(RenderIndex.text)
      BY <3>1, <2>3, LinkSeen
    <3> QED
      BY <3>2, <2>2 DEF LinksOf, Stage
  <2>5. ASSUME NEW k \in DOMAIN units
        PROVE  /\ <<IndexFile>> \in LinksOf(FileName[k])
               /\ \A j \in DOMAIN units \cap {k - 1, k + 1} :
                    <<FileName[j]>> \in LinksOf(FileName[k])
    <3>1. files[FileName[k]] = RenderConcept(k)
      BY <2>2 DEF Stage
    <3>2. /\ <<IndexFile>> \in Targets(RenderConcept(k).text)
          /\ \A j \in DOMAIN units \cap {k - 1, k + 1} :
               <<FileName[j]>> \in Targets(RenderConcept(k).text)
      BY <2>1, FooterRead
    <3>3. \A j \in DOMAIN units : FileName[j] \in Concepts
      BY <2>1, UnitsAre
    <3>4. /\ <<IndexFile>> \in RelativeLinks(RenderConcept(k).text)
          /\ \A j \in DOMAIN units \cap {k - 1, k + 1} :
               <<FileName[j]>> \in RelativeLinks(RenderConcept(k).text)
      BY <2>3, <3>2, <3>3, LinkSeen
    <3> QED
      BY <3>1, <3>4 DEF LinksOf
  <2> QED
    BY <2>4, <2>5
<1> QED
  BY <1>1, InvAlways, PTL

(* Nothing that is generated around a document reads as a broken link: a    *)
(* warning is always of something the source holds.                         *)
THEOREM WarningsAreInheritedAlways == Spec => []WarningsAreInherited
<1>1. Inv => WarningsAreInherited
  BY DEF Inv
<1> QED
  BY <1>1, InvAlways, PTL

(* What is stored reads no worse than what was validated: rewriting log.md  *)
(* with the findings never adds a reason to fail, and takes none away but   *)
(* the warning about a broken link of log.md's own (SetValidation).         *)
THEOREM ReportStillHoldsAlways == Spec => []ReportStillHolds
<1>1. Inv => ReportStillHolds
  BY DEF Inv, Reported
<1> QED
  BY <1>1, InvAlways, PTL
=============================================================================
