------------------------- MODULE SegmentationProofs -------------------------
(***************************************************************************)
(* What the scan and the division of Segmentation promise, for every       *)
(* document and every page of Documents, whatever their length, the kinds  *)
(* of line they hold and the size of a block.                              *)
(*                                                                         *)
(* The division is a function of what was scanned, so most of this is about *)
(* operators: Ascending says what InOrder returns, Holds what a section or  *)
(* the preamble holds of its lines, Whole what the units hold of the        *)
(* document.  The invariant IInv says what the scan has to have found for   *)
(* that: headings in the order of the document on lines that are neither    *)
(* blank nor underlines, marked in markup by their own line or the next     *)
(* (HeadingsInOrder, TitlesAreMarked), none of them at an odd count of      *)
(* fences (Parity), and one unit per row of a CSV document (Rows).          *)
(*                                                                         *)
(* A page takes two more.  PInv says what the one name and the one number   *)
(* of htmlToText are to the stack of open elements they stand for, while    *)
(* the page closes its elements in turn: the outermost dropped element, and *)
(* a level only inside a heading (Elements); and that the words written are *)
(* the texts of the document proper (TextsKept).  HInv says which blocks    *)
(* begin with the text of a heading element (Begun), that the lines scanned *)
(* are the page's (LinesGiven), and what detectHeadings finds in lines with *)
(* ATX marks only (AtxScanned).                                             *)
(*                                                                         *)
(* Induction is over a set of numbers (Counting), which the provers can     *)
(* instantiate.                                                             *)
(***************************************************************************)
EXTENDS Documents, FiniteSetTheorems, WellFoundedInduction, TLAPS

-----------------------------------------------------------------------------
(* Numbers: least and greatest members of a set, and counting up from 0.    *)

LEMMA LeastNumber ==
  ASSUME NEW S \in SUBSET Nat, S # {}
  PROVE  \E x \in S : \A y \in S : x <= y
<1>1. IsWellFoundedOn(OpToRel(<, Nat), Nat)
  BY NatLessThanWellFounded
<1>2. PICK x \in S : \A y \in S : ~(<<y, x>> \in OpToRel(<, Nat))
  BY <1>1, WFMin
<1>3. \A y \in S : ~(y < x)
  BY <1>2 DEF OpToRel
<1> QED
  BY <1>3

LEMMA MinIs ==
  ASSUME NEW S \in SUBSET Nat, S # {}
  PROVE  /\ Min(S) \in S
         /\ \A y \in S : Min(S) <= y
  BY LeastNumber DEF Min

LEMMA MaxIs ==
  ASSUME NEW n \in Nat, NEW S \in SUBSET (0..n), S # {}
  PROVE  /\ Max(S) \in S
         /\ \A y \in S : Max(S) >= y
<1> DEFINE T == {x \in Nat : x <= n /\ n - x \in S}
<1>1. PICK y \in S : TRUE
  OBVIOUS
<1>2. n - y \in T
  BY <1>1
<1>3. PICK x \in T : \A z \in T : x <= z
  BY <1>2, LeastNumber
<1>4. n - x \in S
  BY <1>3
<1>5. ASSUME NEW z \in S
      PROVE  n - x >= z
  <2>1. n - z \in T
    OBVIOUS
  <2>2. x <= n - z
    BY <1>3, <2>1
  <2> QED
    BY <2>2, <1>3
<1> QED
  BY <1>4, <1>5 DEF Max

LEMMA Counting ==
  ASSUME NEW T, 0 \in T, \A n \in Nat : n \in T => n + 1 \in T
  PROVE  Nat \subseteq T
<1>1. SUFFICES ASSUME Nat \ T # {}
               PROVE  FALSE
  OBVIOUS
<1>2. PICK n \in Nat \ T : \A m \in Nat \ T : n <= m
  BY <1>1, LeastNumber
<1>3. n # 0
  BY <1>2
<1>4. n - 1 \in Nat /\ n - 1 \in T
  BY <1>2, <1>3
<1>5. (n - 1) + 1 \in T
  BY <1>4
<1> QED
  BY <1>2, <1>5

-----------------------------------------------------------------------------

(* One step of the loop of InOrder.                                         *)
Loop(S, f, k) ==
  IF k = 0 THEN <<>>
  ELSE IF k \in S THEN Append(f[k - 1], k)
  ELSE f[k - 1]

(* The function InOrder is written with exists.                             *)
LEMMA LoopRuns ==
  ASSUME NEW S, NEW n \in Nat
  PROVE  \E f : f = [k \in 0..n |-> Loop(S, f, k)]
<1> DEFINE T == {m \in Nat : \E f : f = [k \in 0..m |-> Loop(S, f, k)]}
<1>1. 0 \in T
  <2> DEFINE f == [k \in 0..0 |-> <<>>]
  <2>1. f = [k \in 0..0 |-> Loop(S, f, k)]
    BY DEF Loop
  <2> QED
    BY <2>1
<1>2. ASSUME NEW m \in Nat, m \in T
      PROVE  m + 1 \in T
  <2>1. PICK f : f = [k \in 0..m |-> Loop(S, f, k)]
    BY <1>2
  <2> DEFINE g == [k \in 0..(m + 1) |->
                     IF k = m + 1 THEN Loop(S, f, k) ELSE f[k]]
  <2>2. ASSUME NEW k \in 0..(m + 1)
        PROVE  g[k] = Loop(S, g, k)
    <3>1. k # 0 => k - 1 \in 0..m /\ g[k - 1] = f[k - 1]
      OBVIOUS
    <3>2. Loop(S, g, k) = Loop(S, f, k)
      BY <3>1 DEF Loop
    <3>3. CASE k = m + 1
      BY <3>2, <3>3
    <3>4. CASE k \in 0..m
      <4>1. f[k] = Loop(S, f, k)
        BY <2>1, <3>4
      <4>2. k # m + 1
        BY <3>4
      <4> QED
        BY <4>1, <4>2, <3>2
    <3> QED
      BY <3>3, <3>4
  <2>3. g = [k \in 0..(m + 1) |-> Loop(S, g, k)]
    BY <2>2
  <2>4. m + 1 \in Nat
    OBVIOUS
  <2> HIDE DEF g
  <2> QED
    BY <2>3, <2>4
<1>3. Nat \subseteq T
  <2> HIDE DEF T
  <2> QED
    BY <1>1, <1>2, Counting
<1> QED
  BY <1>3

(* What InOrder returns: numbers of S, all of them up to n, ascending.      *)
Ascending(q, S, n) ==
  /\ q \in Seq(S \cap (1..n))
  /\ \A i, j \in DOMAIN q : i < j => q[i] < q[j]
  /\ \A k \in S \cap (1..n) : \E i \in DOMAIN q : q[i] = k

LEMMA AscendingOn ==
  ASSUME NEW S, NEW n \in Nat, NEW q, Ascending(q, S, n)
  PROVE  Ascending(IF n + 1 \in S THEN Append(q, n + 1) ELSE q, S, n + 1)
<1>1. CASE n + 1 \notin S
  <2>1. S \cap (1..(n + 1)) = S \cap (1..n)
    BY <1>1
  <2> QED
    BY <1>1, <2>1 DEF Ascending
<1>2. CASE n + 1 \in S
  <2> DEFINE r == Append(q, n + 1)
  <2>1. S \cap (1..(n + 1)) = (S \cap (1..n)) \cup {n + 1}
    BY <1>2
  <2>2. q \in Seq(S \cap (1..n)) /\ q \in Seq(S \cap (1..(n + 1)))
    BY <2>1 DEF Ascending
  <2>3. r \in Seq(S \cap (1..(n + 1)))
    BY <2>1, <2>2
  <2>4. /\ Len(r) = Len(q) + 1
        /\ \A i \in 1..Len(q) : r[i] = q[i]
        /\ r[Len(q) + 1] = n + 1
    BY <2>2
  <2>5. ASSUME NEW i \in DOMAIN r, NEW j \in DOMAIN r, i < j
        PROVE  r[i] < r[j]
    <3>1. i \in 1..Len(q) /\ j \in 1..(Len(q) + 1)
      BY <2>2, <2>3, <2>4, <2>5
    <3>2. r[i] = q[i] /\ q[i] \in 1..n
      BY <3>1, <2>2, <2>4
    <3>3. CASE j = Len(q) + 1
      BY <3>2, <3>3, <2>4
    <3>4. CASE j \in 1..Len(q)
      <4>1. q[i] < q[j]
        BY <3>1, <3>4, <2>2, <2>5 DEF Ascending
      <4> QED
        BY <4>1, <3>2, <3>4, <2>4
    <3> QED
      BY <3>1, <3>3, <3>4, <2>2
  <2>6. ASSUME NEW k \in S \cap (1..(n + 1))
        PROVE  \E i \in DOMAIN r : r[i] = k
    <3>1. CASE k = n + 1
      BY <3>1, <2>2, <2>3, <2>4
    <3>2. CASE k \in S \cap (1..n)
      <4>1. PICK i \in DOMAIN q : q[i] = k
        BY <3>2 DEF Ascending
      <4> QED
        BY <4>1, <2>2, <2>3, <2>4
    <3> QED
      BY <3>1, <3>2, <2>1
  <2> QED
    BY <1>2, <2>3, <2>5, <2>6 DEF Ascending
<1> QED
  BY <1>1, <1>2

LEMMA InOrderAscends ==
  ASSUME NEW S, NEW n \in Nat
  PROVE  Ascending(InOrder(S, n), S, n)
<1> DEFINE F == CHOOSE f : f = [k \in 0..n |-> Loop(S, f, k)]
<1>1. F = [k \in 0..n |-> Loop(S, F, k)]
  BY LoopRuns
<1>2. InOrder(S, n) = F[n]
  BY DEF InOrder, Loop
<1> DEFINE T == {m \in Nat : m <= n => Ascending(F[m], S, m)}
<1> HIDE DEF F
<1>3. 0 \in T
  <2>1. F[0] = <<>>
    BY <1>1 DEF Loop
  <2>2. Ascending(<<>>, S, 0)
    BY DEF Ascending
  <2> QED
    BY <2>1, <2>2
<1>4. ASSUME NEW m \in Nat, m \in T
      PROVE  m + 1 \in T
  <2>1. SUFFICES ASSUME m + 1 <= n
                 PROVE  Ascending(F[m + 1], S, m + 1)
    OBVIOUS
  <2>2. Ascending(F[m], S, m)
    BY <1>4, <2>1
  <2>3. m + 1 \in 0..n /\ m + 1 # 0 /\ (m + 1) - 1 = m
    BY <2>1
  <2>4. F[m + 1] = IF m + 1 \in S THEN Append(F[m], m + 1) ELSE F[m]
    <3>1. F[m + 1] = Loop(S, F, m + 1)
      BY <1>1, <2>3
    <3> QED
      BY <3>1, <2>3 DEF Loop
  <2> QED
    BY <2>2, <2>4, AscendingOn
<1>5. Nat \subseteq T
  <2> HIDE DEF T
  <2> QED
    BY <1>3, <1>4, Counting
<1> QED
  BY <1>2, <1>5

(* What Chosen returns.                                                     *)
LEMMA ChosenIs ==
  ASSUME NEW A, NEW s \in Seq(A), NEW S \in SUBSET (DOMAIN s)
  PROVE  LET q == InOrder(S, Len(s))
         IN  /\ Ascending(q, S, Len(s))
             /\ Chosen(s, S) \in Seq(A)
             /\ Len(Chosen(s, S)) = Len(q)
             /\ \A n \in 1..Len(q) :
                  q[n] \in S /\ Chosen(s, S)[n] = s[q[n]]
<1> DEFINE q == InOrder(S, Len(s))
<1>1. Ascending(q, S, Len(s))
  BY InOrderAscends
<1>2. q \in Seq(S) /\ \A n \in 1..Len(q) : q[n] \in S
  BY <1>1 DEF Ascending
<1>3. Chosen(s, S) = [n \in DOMAIN q |-> s[q[n]]]
  BY DEF Chosen
<1> HIDE DEF q
<1>4. \A n \in 1..Len(q) : s[q[n]] \in A
  BY <1>2
<1> QED
  BY <1>1, <1>2, <1>3, <1>4 DEF q

-----------------------------------------------------------------------------
(* The scan.                                                                *)

Kinds == LineKinds \cup {"blank", "text"}

Heading == [level : 1..7, line : Nat \ {0}]

Scanning ==
  /\ format \in Formats
  /\ doc \in Seq(Kinds)
  /\ inFence \in BOOLEAN
  /\ headings \in Seq(Heading)
  /\ phase \in {"scan", "done", "failed"}
  /\ format = "csv" => headings = <<>>

(* What is recorded under a line: a heading on it, or on the one above.     *)
OnThisLine(kind, line) ==
  /\ line = Len(doc) + 1
  /\ kind \notin Underlines \cup {"blank"}
  /\ kind \in DOMAIN AtxLevel \/ Style = "plain"

OnTheLineAbove(kind, line) ==
  /\ line = Len(doc) /\ line # 0
  /\ kind \in Underlines
  /\ doc[line] \notin Underlines \cup {"blank"}
  /\ headings # <<>> => headings[Len(headings)].line # line

FindsHeading(kind) ==
  /\ ~inFence /\ kind \notin Fences
  /\ \E level \in 1..7, line \in Nat \ {0} :
       /\ headings' = Append(headings, [level |-> level, line |-> line])
       /\ OnThisLine(kind, line) \/ OnTheLineAbove(kind, line)

(* The kinds of line and the levels they stand for.                         *)
LEMMA AtxLevels ==
  ASSUME NEW kind \in DOMAIN AtxLevel
  PROVE  /\ AtxLevel[kind] \in 1..7
         /\ kind \notin Underlines \cup Fences \cup {"blank"}
BY DEF AtxLevel, Underlines, Fences

LEMMA PlainLevels ==
  ASSUME NEW kind \in DOMAIN PlainLevel
  PROVE  PlainLevel[kind] \in 1..7
BY DEF PlainLevel

LEMMA UnderlinesAreText ==
  ASSUME NEW kind \in Underlines
  PROVE  kind \notin Fences \cup {"blank"} /\ kind \notin DOMAIN AtxLevel
BY DEF Underlines, Fences, AtxLevel

LEMMA FencesAreText ==
  ASSUME NEW kind \in Fences
  PROVE  kind # "blank"
BY DEF Fences

(* What one line does to the scan of a document that is not CSV.            *)
LEMMA LineIsScanned ==
  ASSUME Scanning, NEW kind, ScanLine(kind), format # "csv"
  PROVE  /\ phase = "scan"
         /\ doc' = Append(doc, kind)
         /\ UNCHANGED <<format, units, phase>>
         /\ inFence' = IF kind \in Fences THEN ~inFence ELSE inFence
         /\ \/ UNCHANGED headings
            \/ FindsHeading(kind)
<1> USE DEF Scanning
<1>1. Len(doc) \in Nat
  OBVIOUS
<1>2. CASE ToggleFence(kind)
  BY <1>2 DEF ToggleFence, NextLine
<1>3. CASE SkipLine(kind)
  BY <1>3 DEF SkipLine, NextLine
<1>4. CASE AtxHeading(kind)
  <2>1. /\ kind \in DOMAIN AtxLevel /\ AtxLevel[kind] \in 1..7
        /\ kind \notin Underlines \cup Fences \cup {"blank"}
        /\ ~inFence
    BY <1>4, AtxLevels DEF AtxHeading, Readable
  <2>2. headings' = Append(headings, [level |-> AtxLevel[kind], line |-> Len(doc) + 1])
    BY <1>4 DEF AtxHeading, Record, Here
  <2>3. OnThisLine(kind, Len(doc) + 1) /\ Len(doc) + 1 \in Nat \ {0}
    BY <2>1, <1>1 DEF OnThisLine
  <2>4. FindsHeading(kind)
    BY <2>1, <2>2, <2>3 DEF FindsHeading
  <2> QED
    BY <1>4, <2>1, <2>4 DEF AtxHeading, NextLine
<1>5. CASE SetextUnderline(kind)
  <2>1. kind \in Underlines /\ kind \notin Fences /\ ~inFence
    BY <1>5 DEF SetextUnderline, Readable
  <2>2. CASE HeadingAbove
    <3>1. PICK level \in 1..7 :
            headings' = Append(headings, [level |-> level, line |-> Len(doc)])
      BY <1>5, <2>2 DEF SetextUnderline, Record
    <3>2. OnTheLineAbove(kind, Len(doc)) /\ Len(doc) \in Nat \ {0}
      BY <2>1, <2>2, <1>1 DEF OnTheLineAbove, HeadingAbove, Last
    <3>3. FindsHeading(kind)
      BY <2>1, <3>1, <3>2 DEF FindsHeading
    <3> QED
      BY <1>5, <2>1, <3>3 DEF SetextUnderline, NextLine
  <2>3. CASE ~HeadingAbove
    BY <1>5, <2>1, <2>3 DEF SetextUnderline, NextLine
  <2> QED
    BY <2>2, <2>3
<1>6. CASE PlainLine(kind)
  <2>1. kind \notin Underlines \cup Fences \cup {"blank"} /\ ~inFence
    BY <1>6 DEF PlainLine, Readable
  <2>2. CASE Style = "plain" /\ kind \in DOMAIN PlainLevel
    <3>1. /\ headings' = Append(headings, [level |-> PlainLevel[kind], line |-> Len(doc) + 1])
          /\ PlainLevel[kind] \in 1..7
      BY <1>6, <2>2, PlainLevels DEF PlainLine, Record, Here
    <3>2. OnThisLine(kind, Len(doc) + 1) /\ Len(doc) + 1 \in Nat \ {0}
      BY <2>1, <2>2, <1>1 DEF OnThisLine
    <3>3. FindsHeading(kind)
      BY <2>1, <3>1, <3>2 DEF FindsHeading
    <3> QED
      BY <1>6, <2>1, <3>3 DEF PlainLine, NextLine
  <2>3. CASE ~(Style = "plain" /\ kind \in DOMAIN PlainLevel)
    BY <1>6, <2>1, <2>3 DEF PlainLine, NextLine
  <2> QED
    BY <2>2, <2>3
<1>7. ~CsvRow(kind)
  BY DEF CsvRow
<1> QED
  BY <1>2, <1>3, <1>4, <1>5, <1>6, <1>7 DEF ScanLine

LEMMA RowIsScanned ==
  ASSUME Scanning, NEW kind, ScanLine(kind), format = "csv"
  PROVE  CsvRow(kind)
BY DEF ScanLine, ToggleFence, SkipLine, AtxHeading, SetextUnderline, PlainLine,
       NextLine

LEMMA ScanningOn ==
  ASSUME Scanning, NEW kind \in Kinds, ScanLine(kind)
  PROVE  Scanning'
<1>1. CASE format = "csv"
  <2>1. CsvRow(kind)
    BY <1>1, RowIsScanned
  <2> QED
    BY <2>1 DEF CsvRow, Scanning
<1>2. CASE format # "csv"
  <2>1. /\ phase = "scan"
        /\ doc' = Append(doc, kind)
        /\ UNCHANGED <<format, units, phase>>
        /\ inFence' = IF kind \in Fences THEN ~inFence ELSE inFence
        /\ UNCHANGED headings \/ FindsHeading(kind)
    BY <1>2, LineIsScanned
  <2>2. headings' \in Seq(Heading)
    <3>1. CASE UNCHANGED headings
      BY <3>1 DEF Scanning
    <3>2. CASE FindsHeading(kind)
      BY <3>2 DEF Scanning, FindsHeading, Heading
    <3> QED
      BY <2>1, <3>1, <3>2
  <2>3. doc' \in Seq(Kinds)
    BY <2>1 DEF Scanning
  <2>4. inFence' \in BOOLEAN
    BY <2>1 DEF Scanning
  <2> QED
    BY <1>2, <2>1, <2>2, <2>3, <2>4 DEF Scanning
<1> QED
  BY <1>1, <1>2

-----------------------------------------------------------------------------
(* Headings come in the order of the document, on lines that hold a title;  *)
(* in markup such a line has marks of its own or an underline.              *)
HeadingsInOrder ==
  /\ \A k \in DOMAIN headings :
       /\ headings[k].line \in 1..Len(doc)
       /\ doc[headings[k].line] \notin Underlines \cup {"blank"}
  /\ \A i, j \in DOMAIN headings : i < j => headings[i].line < headings[j].line

TitlesAreMarked ==
  Style = "markup" =>
    \A k \in DOMAIN headings :
      \/ doc[headings[k].line] \in DOMAIN AtxLevel
      \/ /\ headings[k].line + 1 \in 1..Len(doc)
         /\ doc[headings[k].line + 1] \in Underlines

(* inFence is the parity of the fences scanned, and it was even at every    *)
(* heading.                                                                 *)
FencesIn(lines, n) == {l \in 1..n : lines[l] \in Fences}

OddFences(lines, n) == Cardinality(FencesIn(lines, n)) % 2 = 1

Parity ==
  format # "csv" =>
    /\ inFence <=> OddFences(doc, Len(doc))
    /\ \A k \in DOMAIN headings : ~OddFences(doc, headings[k].line)

(* Scanning a line leaves the lines above it, and their fences, as they     *)
(* were, and counts its own.                                                *)
LEMMA LinesStay ==
  ASSUME NEW lines \in Seq(Kinds), NEW kind \in Kinds
  PROVE  /\ Append(lines, kind) \in Seq(Kinds)
         /\ Len(Append(lines, kind)) = Len(lines) + 1
         /\ \A l \in 1..Len(lines) : Append(lines, kind)[l] = lines[l]
         /\ Append(lines, kind)[Len(lines) + 1] = kind
OBVIOUS

LEMMA FencesStay ==
  ASSUME NEW lines \in Seq(Kinds), NEW kind \in Kinds, NEW n \in 1..Len(lines)
  PROVE  OddFences(Append(lines, kind), n) = OddFences(lines, n)
<1>1. FencesIn(Append(lines, kind), n) = FencesIn(lines, n)
  BY LinesStay DEF FencesIn
<1> QED
  BY <1>1 DEF OddFences

LEMMA FencesCounted ==
  ASSUME NEW lines \in Seq(Kinds), NEW kind \in Kinds
  PROVE  LET n == Len(lines)
         IN  /\ kind \in Fences =>
                  (OddFences(Append(lines, kind), n + 1) <=> ~OddFences(lines, n))
             /\ kind \notin Fences =>
                  (OddFences(Append(lines, kind), n + 1) <=> OddFences(lines, n))
<1> DEFINE n == Len(lines)
           S == FencesIn(lines, n)
<1>1. n \in Nat /\ n + 1 \in Nat
  OBVIOUS
<1>2. IsFiniteSet(S) /\ Cardinality(S) \in Nat
  <2>1. IsFiniteSet(1..n)
    BY <1>1, FS_Interval
  <2>2. S \subseteq 1..n
    BY DEF FencesIn
  <2> QED
    BY <2>1, <2>2, FS_Subset, FS_CardinalityType
<1>3. n + 1 \notin S
  BY <1>1 DEF FencesIn
<1>4. CASE kind \in Fences
  <2>1. FencesIn(Append(lines, kind), n + 1) = S \cup {n + 1}
    BY <1>1, <1>4, LinesStay DEF FencesIn
  <2>2. Cardinality(S \cup {n + 1}) = Cardinality(S) + 1
    BY <1>2, <1>3, FS_AddElement
  <2> HIDE DEF S
  <2>3. (Cardinality(S) + 1) % 2 = 1 <=> ~(Cardinality(S) % 2 = 1)
    BY <1>2
  <2> QED
    BY <1>4, <2>1, <2>2, <2>3 DEF OddFences, S
<1>5. CASE kind \notin Fences
  <2>1. FencesIn(Append(lines, kind), n + 1) = S
    BY <1>1, <1>5, LinesStay DEF FencesIn
  <2> QED
    BY <1>5, <2>1 DEF OddFences
<1> QED
  BY <1>4, <1>5

(* A heading is recorded outside fences: on the line scanned, which is no   *)
(* fence, or on the one above, where the count is that of the whole scan.   *)
LEMMA ParityKept ==
  ASSUME Scanning, HeadingsInOrder, Parity,
         NEW kind \in Kinds, ScanLine(kind), format # "csv"
  PROVE  Parity'
<1>1. /\ doc' = Append(doc, kind)
      /\ inFence' = IF kind \in Fences THEN ~inFence ELSE inFence
      /\ UNCHANGED headings \/ FindsHeading(kind)
  BY LineIsScanned
<1>2. doc \in Seq(Kinds) /\ Len(doc) \in Nat /\ inFence \in BOOLEAN
      /\ headings \in Seq(Heading)
  BY DEF Scanning
<1>3. Len(doc') = Len(doc) + 1
  BY <1>1, <1>2, LinesStay
<1>4. inFence' <=> OddFences(doc', Len(doc'))
  <2>1. inFence <=> OddFences(doc, Len(doc))
    BY DEF Parity
  <2>2. OddFences(doc', Len(doc')) <=>
          IF kind \in Fences THEN ~OddFences(doc, Len(doc)) ELSE OddFences(doc, Len(doc))
    BY <1>1, <1>2, <1>3, FencesCounted
  <2> QED
    BY <1>1, <1>2, <2>1, <2>2
<1>5. ASSUME NEW k \in DOMAIN headings
      PROVE  ~OddFences(doc', headings[k].line)
  <2>1. headings[k].line \in 1..Len(doc) /\ ~OddFences(doc, headings[k].line)
    BY DEF HeadingsInOrder, Parity
  <2> QED
    BY <2>1, <1>1, <1>2, FencesStay
<1>6. \A k \in DOMAIN headings' : ~OddFences(doc', headings'[k].line)
  <2>1. CASE UNCHANGED headings
    BY <2>1, <1>5
  <2>2. CASE FindsHeading(kind)
    <3>1. ~inFence /\ kind \notin Fences
      BY <2>2 DEF FindsHeading
    <3>2. PICK level \in 1..7, line \in Nat \ {0} :
            /\ headings' = Append(headings, [level |-> level, line |-> line])
            /\ OnThisLine(kind, line) \/ OnTheLineAbove(kind, line)
      BY <2>2 DEF FindsHeading
    <3>3. line = Len(doc) + 1 \/ line = Len(doc)
      BY <3>2 DEF OnThisLine, OnTheLineAbove
    <3>4. ~OddFences(doc, Len(doc))
      BY <3>1 DEF Parity
    <3>5. ~OddFences(doc', line)
      <4>1. CASE line = Len(doc) + 1
        BY <4>1, <3>1, <3>4, <1>1, <1>2, FencesCounted
      <4>2. CASE line = Len(doc)
        <5>1. line \in 1..Len(doc)
          BY <4>2, <1>2
        <5> QED
          BY <4>2, <5>1, <3>4, <1>1, <1>2, FencesStay
      <4> QED
        BY <3>3, <4>1, <4>2
    <3>6. ASSUME NEW k \in DOMAIN headings'
          PROVE  ~OddFences(doc', headings'[k].line)
      <4>1. [level |-> level, line |-> line] \in Heading
        BY DEF Heading
      <4>2. CASE k \in DOMAIN headings
        <5>1. headings'[k] = headings[k]
          BY <4>1, <4>2, <3>2, <1>2
        <5> QED
          BY <5>1, <4>2, <1>5
      <4>3. CASE k = Len(headings) + 1
        <5>1. headings'[k].line = line
          BY <4>1, <4>3, <3>2, <1>2
        <5> QED
          BY <5>1, <3>5
      <4>4. k \in DOMAIN headings \/ k = Len(headings) + 1
        BY <4>1, <3>2, <1>2
      <4> QED
        BY <4>2, <4>3, <4>4
    <3> QED
      BY <3>6
  <2> QED
    BY <1>1, <2>1, <2>2
<1> QED
  BY <1>4, <1>6 DEF Parity

(* The line above is taken for a heading only when it is not one already,   *)
(* so that a heading is never recorded out of order.                        *)
LEMMA HeadingsKept ==
  ASSUME Scanning, HeadingsInOrder, TitlesAreMarked,
         NEW kind \in Kinds, ScanLine(kind), format # "csv"
  PROVE  HeadingsInOrder' /\ TitlesAreMarked'
<1>1. /\ doc' = Append(doc, kind)
      /\ format' = format
      /\ UNCHANGED headings \/ FindsHeading(kind)
  BY LineIsScanned
<1>2. doc \in Seq(Kinds) /\ Len(doc) \in Nat /\ headings \in Seq(Heading)
      /\ Len(headings) \in Nat
  BY DEF Scanning
<1>3. /\ Len(doc') = Len(doc) + 1
      /\ \A l \in 1..Len(doc) : doc'[l] = doc[l]
      /\ doc'[Len(doc) + 1] = kind
  BY <1>1, <1>2, LinesStay
<1>4. Style' = Style
  BY <1>1 DEF Style
<1> DEFINE Titled(h) ==
             /\ h.line \in 1..Len(doc')
             /\ doc'[h.line] \notin Underlines \cup {"blank"}
             /\ \/ Style = "plain"
                \/ doc'[h.line] \in DOMAIN AtxLevel
                \/ /\ h.line + 1 \in 1..Len(doc')
                   /\ doc'[h.line + 1] \in Underlines
<1>5. Style \in {"plain", "markup"}
  BY DEF Style
<1>6. ASSUME NEW k \in DOMAIN headings
      PROVE  headings[k].line \in 1..Len(doc) /\ Titled(headings[k])
  <2>1. /\ headings[k].line \in 1..Len(doc)
        /\ doc[headings[k].line] \notin Underlines \cup {"blank"}
    BY DEF HeadingsInOrder
  <2>2. \/ Style = "plain"
        \/ doc[headings[k].line] \in DOMAIN AtxLevel
        \/ /\ headings[k].line + 1 \in 1..Len(doc)
           /\ doc[headings[k].line + 1] \in Underlines
    BY <1>5 DEF TitlesAreMarked
  <2> QED
    BY <2>1, <2>2, <1>2, <1>3
<1>7. CASE UNCHANGED headings
  BY <1>4, <1>5, <1>6, <1>7 DEF HeadingsInOrder, TitlesAreMarked
<1>8. CASE FindsHeading(kind)
  <2>1. PICK level \in 1..7, line \in Nat \ {0} :
          /\ headings' = Append(headings, [level |-> level, line |-> line])
          /\ OnThisLine(kind, line) \/ OnTheLineAbove(kind, line)
    BY <1>8 DEF FindsHeading
  <2> DEFINE h == [level |-> level, line |-> line]
  <2>2. h \in Heading /\ h.line = line
    BY DEF Heading
  <2>3. Titled(h) /\ \A k \in DOMAIN headings : headings[k].line < line
    <3>1. CASE OnThisLine(kind, line)
      BY <3>1, <2>2, <1>2, <1>3, <1>6 DEF OnThisLine
    <3>2. CASE OnTheLineAbove(kind, line)
      <4>1. Titled(h)
        BY <3>2, <2>2, <1>2, <1>3 DEF OnTheLineAbove
      <4>2. ASSUME NEW k \in DOMAIN headings
            PROVE  headings[k].line < line
        <5>1. headings # <<>> /\ Len(headings) \in DOMAIN headings
          BY <1>2
        <5>2. headings[Len(headings)].line # Len(doc) /\ line = Len(doc)
          BY <3>2, <5>1 DEF OnTheLineAbove
        <5>3. headings[Len(headings)].line \in 1..Len(doc)
          BY <5>1, <1>6
        <5>4. headings[Len(headings)].line < line
          BY <5>2, <5>3, <1>2
        <5>5. k = Len(headings) \/ headings[k].line < headings[Len(headings)].line
          BY <5>1, <1>2 DEF HeadingsInOrder
        <5>6. headings[k].line \in 1..Len(doc)
          BY <1>6
        <5> QED
          BY <5>3, <5>4, <5>5, <5>6, <1>2
      <4> QED
        BY <4>1, <4>2
    <3> QED
      BY <2>1, <3>1, <3>2
  <2> HIDE DEF h
  <2>4. /\ DOMAIN headings' = 1..(Len(headings) + 1)
        /\ \A k \in 1..Len(headings) : headings'[k] = headings[k]
        /\ headings'[Len(headings) + 1] = h
    BY <2>1, <2>2, <1>2 DEF h
  <2> HIDE DEF Titled
  <2>5. \A k \in DOMAIN headings' : Titled(headings'[k])
    BY <2>3, <2>4, <1>2, <1>6
  <2>6. \A i, j \in DOMAIN headings' : i < j => headings'[i].line < headings'[j].line
    <3> SUFFICES ASSUME NEW i \in DOMAIN headings', NEW j \in DOMAIN headings', i < j
                 PROVE  headings'[i].line < headings'[j].line
      OBVIOUS
    <3>1. i \in 1..Len(headings) /\ headings'[i] = headings[i]
      BY <2>4, <1>2
    <3>2. CASE j \in 1..Len(headings)
      BY <3>1, <3>2, <2>4, <1>2 DEF HeadingsInOrder
    <3>3. CASE j = Len(headings) + 1
      BY <3>1, <3>3, <2>2, <2>3, <2>4, <1>2
    <3> QED
      BY <3>2, <3>3, <2>4, <1>2
  <2> QED
    BY <2>5, <2>6, <1>4, <1>5 DEF HeadingsInOrder, TitlesAreMarked, Titled
<1> QED
  BY <1>1, <1>7, <1>8

-----------------------------------------------------------------------------
(* The page.                                                                *)

BlockOfPage ==
  [level : {0} \cup {AtxLevel[tag] : tag \in HeadingTags},
   words : Seq(Nat \ {0}), glued : SUBSET (Nat \ {0})]

Reading ==
  /\ page \in Seq({"open", "close", "text"} \X (Tags \cup Words))
  /\ blocks \in Seq(BlockOfPage) /\ blocks # <<>>
  /\ \A b \in DOMAIN blocks :
       blocks[b].words # <<>> =>
         blocks[b].words[1] \in DOMAIN page /\ page[blocks[b].words[1]][2] \in Words

(* What a token leaves of the page and of what is written.                  *)
LEMMA BlockIsEmpty ==
  ASSUME NEW level \in {0} \cup {AtxLevel[tag] : tag \in HeadingTags}
  PROVE  Block(level) \in BlockOfPage /\ Block(level).words = <<>>
BY DEF Block, BlockOfPage

LEMMA TokenIsRead ==
  ASSUME Reading, NEW kind \in {"open", "close", "text"}, NEW x \in Tags \cup Words,
         Token(<<kind, x>>)
  PROVE  /\ page' \in Seq({"open", "close", "text"} \X (Tags \cup Words))
         /\ Len(page') = Len(page) + 1
         /\ \A n \in DOMAIN page : n \in DOMAIN page' /\ page'[n] = page[n]
         /\ Len(page) + 1 \in DOMAIN page' /\ page'[Len(page) + 1] = <<kind, x>>
         /\ UNCHANGED vars
BY DEF Reading, Token

LEMMA BlocksStay ==
  ASSUME Reading, NEW kind \in {"open", "close", "text"}, NEW x \in Tags \cup Words,
         Token(<<kind, x>>),
         \/ UNCHANGED blocks
         \/ \E level \in {0} \cup {AtxLevel[tag] : tag \in HeadingTags} : Write(level)
  PROVE  Reading'
<1>1. /\ page' \in Seq({"open", "close", "text"} \X (Tags \cup Words))
      /\ \A n \in DOMAIN page : n \in DOMAIN page' /\ page'[n] = page[n]
  BY TokenIsRead
<1>2. CASE UNCHANGED blocks
  BY <1>1, <1>2 DEF Reading
<1>3. CASE \E level \in {0} \cup {AtxLevel[tag] : tag \in HeadingTags} : Write(level)
  <2>1. PICK level \in {0} \cup {AtxLevel[tag] : tag \in HeadingTags} : Write(level)
    BY <1>3
  <2> DEFINE b == Block(level)
  <2>2. b \in BlockOfPage /\ b.words = <<>>
    BY BlockIsEmpty
  <2>3. blocks' = Append(blocks, b)
    BY <2>1 DEF Write
  <2> HIDE DEF b
  <2>4. /\ blocks' \in Seq(BlockOfPage) /\ blocks' # <<>>
        /\ \A n \in DOMAIN blocks' :
             \/ n \in DOMAIN blocks /\ blocks'[n] = blocks[n]
             \/ blocks'[n] = b
    BY <2>2, <2>3 DEF Reading
  <2> QED
    BY <1>1, <2>2, <2>4 DEF Reading
<1> QED
  BY <1>2, <1>3

LEMMA BlockIsWritten ==
  ASSUME NEW b \in BlockOfPage, NEW w, NEW g
  PROVE  [b EXCEPT !.words = w, !.glued = g]
           = [level |-> b.level, words |-> w, glued |-> g]
<1> DEFINE c == [b EXCEPT !.words = w, !.glued = g]
           d == [level |-> b.level, words |-> w, glued |-> g]
<1>1. /\ DOMAIN b = {"level", "words", "glued"}
      /\ b = [f \in DOMAIN b |-> b[f]]
  BY DEF BlockOfPage
<1>2. /\ DOMAIN c = {"level", "words", "glued"}
      /\ c = [f \in DOMAIN c |-> c[f]]
      /\ c["level"] = b.level /\ c["words"] = w /\ c["glued"] = g
  BY <1>1
<1>3. /\ DOMAIN d = {"level", "words", "glued"}
      /\ d = [f \in DOMAIN d |-> d[f]]
      /\ d["level"] = b.level /\ d["words"] = w /\ d["glued"] = g
  OBVIOUS
<1> HIDE DEF c, d
<1>4. c = d
  BY <1>2, <1>3
<1> QED
  BY <1>4 DEF c, d

LEMMA TextIsRead ==
  ASSUME Reading, NEW word \in Words, Text(word)
  PROVE  Reading'
<1> DEFINE here == Len(page) + 1
           last == Len(blocks)
           old == blocks[last]
           together == NeedsSpace /\ headingLevel # 0
           new == [level |-> old.level,
                   words |-> Append(old.words, here),
                   glued |-> IF together THEN old.glued \cup {here} ELSE old.glued]
<1>1. Token(<<"text", word>>)
  BY DEF Text
<1>2. /\ page' \in Seq({"open", "close", "text"} \X (Tags \cup Words))
      /\ \A n \in DOMAIN page : n \in DOMAIN page' /\ page'[n] = page[n]
      /\ here \in DOMAIN page' /\ page'[here] = <<"text", word>>
      /\ here \in Nat \ {0}
  <2>1. here \in Nat \ {0}
    BY DEF Reading
  <2> QED
    BY <1>1, <2>1, TokenIsRead
<1>3. blocks \in Seq(BlockOfPage) /\ last \in DOMAIN blocks /\ old \in BlockOfPage
  BY DEF Reading
<1>4. blocks' = [blocks EXCEPT ![last] = new]
  <2>1. blocks' = [blocks EXCEPT
                     ![last].words = Append(@, here),
                     ![last].glued = IF together THEN @ \cup {here} ELSE @]
    BY DEF Text
  <2> HIDE DEF here, last, together
  <2> DEFINE w == Append(old.words, here)
             g == IF together THEN old.glued \cup {here} ELSE old.glued
  <2>3. blocks' = [blocks EXCEPT ![last] = [old EXCEPT !.words = w, !.glued = g]]
    <3>1. DOMAIN old = {"level", "words", "glued"}
      BY <1>3 DEF BlockOfPage
    <3> QED
      BY <1>3, <2>1, <3>1
  <2>4. [old EXCEPT !.words = w, !.glued = g] = new
    <3> HIDE DEF w, g, old
    <3>1. [old EXCEPT !.words = w, !.glued = g]
            = [level |-> old.level, words |-> w, glued |-> g]
      BY <1>3, BlockIsWritten
    <3> QED
      BY <3>1 DEF w, g
  <2> QED
    BY <2>3, <2>4
<1> HIDE DEF here, last, together
<1>5. new \in BlockOfPage /\ new.words # <<>>
  <2>1. /\ old.words \in Seq(Nat \ {0})
        /\ old.glued \in SUBSET (Nat \ {0})
        /\ old.level \in {0} \cup {AtxLevel[tag] : tag \in HeadingTags}
    BY <1>3 DEF BlockOfPage
  <2> HIDE DEF old
  <2>2. Append(old.words, here) \in Seq(Nat \ {0}) /\ Append(old.words, here) # <<>>
    BY <2>1, <1>2
  <2>3. (IF together THEN old.glued \cup {here} ELSE old.glued) \in SUBSET (Nat \ {0})
    BY <2>1, <1>2
  <2> QED
    BY <2>1, <2>2, <2>3 DEF BlockOfPage
<1>6. new.words[1] = IF old.words = <<>> THEN here ELSE old.words[1]
  <2>1. old.words \in Seq(Nat \ {0})
    BY <1>3 DEF BlockOfPage
  <2> HIDE DEF old
  <2>2. CASE old.words = <<>>
    BY <2>1, <2>2, <1>2
  <2>3. CASE old.words # <<>>
    <3>1. 1 \in 1..Len(old.words)
      BY <2>1, <2>3
    <3> QED
      BY <2>1, <2>3, <3>1, <1>2
  <2> QED
    BY <2>2, <2>3
<1>7. new.words[1] \in DOMAIN page' /\ page'[new.words[1]][2] \in Words
  <2>1. CASE old.words = <<>>
    BY <2>1, <1>2, <1>6
  <2>2. CASE old.words # <<>>
    <3>1. old.words[1] \in DOMAIN page /\ page[old.words[1]][2] \in Words
      BY <2>2, <1>3 DEF Reading
    <3> QED
      BY <2>2, <3>1, <1>2, <1>6
  <2> QED
    BY <2>1, <2>2
<1> HIDE DEF new, old
<1>8. /\ blocks' \in Seq(BlockOfPage) /\ blocks' # <<>>
      /\ DOMAIN blocks' = DOMAIN blocks
      /\ \A b \in DOMAIN blocks : blocks'[b] = IF b = last THEN new ELSE blocks[b]
  BY <1>3, <1>4, <1>5
<1>9. ASSUME NEW b \in DOMAIN blocks', blocks'[b].words # <<>>
      PROVE  blocks'[b].words[1] \in DOMAIN page' /\ page'[blocks'[b].words[1]][2] \in Words
  <2>1. CASE b = last
    BY <2>1, <1>7, <1>8, <1>3
  <2>2. CASE b # last
    <3>1. blocks'[b] = blocks[b]
      BY <2>2, <1>8
    <3>2. blocks[b].words[1] \in DOMAIN page /\ page[blocks[b].words[1]][2] \in Words
      BY <3>1, <1>8, <1>9 DEF Reading
    <3> QED
      BY <3>1, <3>2, <1>2
  <2> QED
    BY <2>1, <2>2
<1> QED
  BY <1>2, <1>8, <1>9 DEF Reading

(* The lines made of a page are lines a document may hold.                  *)
LEMMA LinesOfPage ==
  ASSUME Reading, NEW k \in DOMAIN TextLines
  PROVE  TextLines[k] \in Kinds
<1> DEFINE S == {b \in DOMAIN blocks : blocks[b].level > 0 \/ blocks[b].words # <<>>}
<1>1. blocks \in Seq(BlockOfPage) /\ S \in SUBSET (DOMAIN blocks)
  BY DEF Reading
<1>2. Written = Chosen(blocks, S)
  BY DEF Written
<1> HIDE DEF S
<1>3. /\ Written \in Seq(BlockOfPage)
      /\ \A n \in 1..Len(Written) : \E b \in DOMAIN blocks : Written[n] = blocks[b]
  BY <1>1, <1>2, ChosenIs
<1>4. DOMAIN TextLines = 1..(2 * Len(Written) - 1)
  BY DEF TextLines
<1>5. CASE k % 2 = 0
  BY <1>5 DEF TextLines, Kinds
<1>6. CASE k % 2 # 0
  <2> DEFINE n == (k + 1) \div 2
  <2>1. n \in 1..Len(Written)
    BY <1>3, <1>4, <1>6
  <2>2. TextLines[k] = KindOf(Written[n])
    BY <1>6 DEF TextLines
  <2>3. PICK b \in DOMAIN blocks : Written[n] = blocks[b]
    BY <1>3, <2>1
  <2>4. blocks[b] \in BlockOfPage
    BY <1>1
  <2>5. KindOf(blocks[b]) \in Kinds
    <3>1. CASE blocks[b].words = <<>>
      BY <3>1 DEF KindOf, Kinds
    <3>2. CASE blocks[b].words # <<>> /\ blocks[b].level = 0
      <4>1. page[blocks[b].words[1]][2] \in Words
        BY <3>2 DEF Reading
      <4> QED
        BY <4>1, <3>2, DocumentsAssumption DEF KindOf, Kinds
    <3>3. CASE blocks[b].words # <<>> /\ blocks[b].level # 0
      <4>1. PICK tag \in HeadingTags : AtxLevel[tag] = blocks[b].level
        BY <3>3, <2>4 DEF BlockOfPage
      <4> DEFINE chosen == CHOOSE t \in HeadingTags : AtxLevel[t] = blocks[b].level
      <4>2. chosen \in HeadingTags
        BY <4>1
      <4>3. KindOf(blocks[b]) = chosen
        BY <3>3 DEF KindOf
      <4> QED
        BY <4>2, <4>3, DocumentsAssumption DEF Kinds
    <3> QED
      BY <3>1, <3>2, <3>3
  <2> QED
    BY <2>2, <2>3, <2>5
<1> QED
  BY <1>5, <1>6

-----------------------------------------------------------------------------
(* Lines and their trimming.                                                *)

LEMMA TrimmedIs ==
  ASSUME Scanning, NEW from \in Nat \ {0}, NEW to \in Nat
  PROVE  /\ NonBlank(from, to) \subseteq Trimmed(from, to)
         /\ Trimmed(from, to) \subseteq from..to
         /\ NonBlank(from, to) = {} <=> Trimmed(from, to) = {}
         /\ NonBlank(from, to) # {} =>
              /\ Min(Trimmed(from, to)) \in NonBlank(from, to)
              /\ \A k \in Trimmed(from, to) : Min(Trimmed(from, to)) <= k
<1> DEFINE lines == NonBlank(from, to)
<1>1. lines \subseteq from..to /\ lines \in SUBSET Nat /\ lines \in SUBSET (0..to)
  BY DEF NonBlank
<1>2. CASE lines = {}
  BY <1>2 DEF Trimmed
<1>3. CASE lines # {}
  <2> HIDE DEF lines
  <2> DEFINE first == Min(lines)
             last == Max(lines)
  <2>1. first \in lines /\ \A k \in lines : first <= k
    BY <1>1, <1>3, MinIs
  <2>2. last \in lines /\ \A k \in lines : last >= k
    BY <1>1, <1>3, MaxIs
  <2>3. Trimmed(from, to) = first..last
    BY <1>3 DEF Trimmed, lines
  <2> HIDE DEF first, last
  <2>4. first \in first..last /\ \A k \in first..last : first <= k
    BY <2>1, <2>2, <1>1
  <2>5. first..last \in SUBSET Nat
    BY <2>1, <2>2, <1>1
  <2>6. Min(first..last) = first
    <3>1. Min(first..last) \in first..last /\ \A k \in first..last : Min(first..last) <= k
      BY <2>4, <2>5, MinIs
    <3> QED
      BY <3>1, <2>1, <2>2, <2>4, <1>1
  <2>7. lines \subseteq first..last /\ first..last \subseteq from..to
    BY <2>1, <2>2, <1>1
  <2> QED
    BY <1>3, <2>1, <2>3, <2>4, <2>6, <2>7 DEF lines
<1> QED
  BY <1>2, <1>3

-----------------------------------------------------------------------------
(* The level a document is divided at, and its headings.                    *)

AtLevel(l) == {k \in DOMAIN headings : headings[k].level = l}

(* A level that occurs more than once has two headings.                     *)
LEMMA OccursTwice ==
  ASSUME Scanning, NEW l
  PROVE  /\ Occurrences(l) > 1 =>
              \E i, j \in AtLevel(l) : i # j
         /\ Occurrences(l) > 1 \/ ~(Occurrences(l) > 1)
<1>1. SUFFICES ASSUME \A i, j \in AtLevel(l) : i = j
               PROVE  ~(Occurrences(l) > 1)
  OBVIOUS
<1>2. Occurrences(l) = Cardinality(AtLevel(l))
  BY DEF Occurrences, AtLevel
<1>3. CASE AtLevel(l) = {}
  BY <1>2, <1>3, FS_EmptySet
<1>4. CASE AtLevel(l) # {}
  <2>1. PICK k \in AtLevel(l) : AtLevel(l) = {k}
    BY <1>1, <1>4
  <2>2. Cardinality({k}) = 1
    BY FS_Singleton
  <2>3. Occurrences(l) = 1
    BY <1>2, <2>1, <2>2
  <2> QED
    BY <2>3
<1> QED
  BY <1>3, <1>4

(* The level chosen has headings, and two of them when any level has.       *)
LEMMA SplitLevelIs ==
  ASSUME Scanning, headings # <<>>
  PROVE  /\ AtLevel(SplitLevel) # {}
         /\ (\E l \in 1..DeepestLevel : Occurrences(l) > 1) =>
              \E i, j \in AtLevel(SplitLevel) : i # j
<1> DEFINE levels == {headings[k].level : k \in DOMAIN headings}
           shallowest == Min(levels)
           dividing == {l \in shallowest..DeepestLevel : Occurrences(l) > 1}
<1>1. levels \in SUBSET Nat /\ levels # {} /\ \A l \in levels : AtLevel(l) # {}
  <2>1. headings \in Seq(Heading) /\ headings # <<>>
    BY DEF Scanning
  <2>2. \A k \in DOMAIN headings : headings[k].level \in Nat
    <3>1. \A k \in DOMAIN headings : headings[k] \in Heading
      BY <2>1
    <3> QED
      BY <3>1 DEF Heading
  <2>3. 1 \in DOMAIN headings
    BY <2>1
  <2>4. \A l \in levels : AtLevel(l) # {}
    BY DEF AtLevel
  <2> QED
    BY <2>2, <2>3, <2>4
<1>2. shallowest \in levels /\ \A l \in levels : shallowest <= l
  <2> HIDE DEF levels
  <2> QED
    BY <1>1, MinIs
<1>3. SplitLevel = IF dividing = {} THEN shallowest ELSE Min(dividing)
  BY DEF SplitLevel
<1>4. dividing \in SUBSET Nat
  <2>1. shallowest \in Nat
    BY <1>1, <1>2
  <2> HIDE DEF shallowest
  <2> QED
    BY <2>1 DEF DeepestLevel
<1>5. (\E l \in 1..DeepestLevel : Occurrences(l) > 1) => dividing # {}
  <2> SUFFICES ASSUME NEW l \in 1..DeepestLevel, Occurrences(l) > 1
               PROVE  l \in dividing
    OBVIOUS
  <2>1. l \in levels
    BY OccursTwice DEF AtLevel
  <2>2. shallowest <= l /\ shallowest \in Nat
    BY <2>1, <1>1, <1>2
  <2> QED
    BY <2>2 DEF DeepestLevel
<1>6. CASE dividing = {}
  BY <1>1, <1>2, <1>3, <1>5, <1>6
<1>7. CASE dividing # {}
  <2> DEFINE chosen == Min(dividing)
  <2>1. chosen \in dividing
    <3> HIDE DEF dividing
    <3> QED
      BY <1>4, <1>7, MinIs
  <2>2. Occurrences(chosen) > 1
    BY <2>1
  <2>3. \E i, j \in AtLevel(chosen) : i # j
    BY <2>2, OccursTwice
  <2>4. SplitLevel = chosen
    BY <1>3, <1>7
  <2> QED
    BY <2>3, <2>4
<1> QED
  BY <1>6, <1>7

LEMMA SplitsAre ==
  ASSUME Scanning, HeadingsInOrder, headings # <<>>
  PROVE  /\ Splits \in Seq(Heading) /\ Len(Splits) \in Nat \ {0}
         /\ \A n \in 1..Len(Splits) : \E k \in DOMAIN headings : Splits[n] = headings[k]
         /\ \A m, n \in 1..Len(Splits) : m < n => Splits[m].line < Splits[n].line
         /\ (\E l \in 1..DeepestLevel : Occurrences(l) > 1) => Len(Splits) > 1
<1> DEFINE S == AtLevel(SplitLevel)
           q == InOrder(S, Len(headings))
<1>1. headings \in Seq(Heading) /\ S \in SUBSET (DOMAIN headings)
  BY DEF Scanning, AtLevel
<1>2. Splits = Chosen(headings, S)
  BY DEF Splits, AtLevel
<1>3. S # {} /\ ((\E l \in 1..DeepestLevel : Occurrences(l) > 1) => \E i, j \in S : i # j)
  BY SplitLevelIs
<1> HIDE DEF S
<1>4. /\ Ascending(q, S, Len(headings))
      /\ Splits \in Seq(Heading)
      /\ Len(Splits) = Len(q)
      /\ \A n \in 1..Len(q) : q[n] \in S /\ Splits[n] = headings[q[n]]
  BY <1>1, <1>2, ChosenIs
<1> HIDE DEF q
<1>5. /\ q \in Seq(S) /\ Len(q) \in Nat /\ DOMAIN q = 1..Len(q)
      /\ \A i, j \in 1..Len(q) : i < j => q[i] < q[j]
      /\ \A k \in S : \E i \in 1..Len(q) : q[i] = k
  <2>1. S \cap (1..Len(headings)) = S
    BY <1>1
  <2>2. q \in Seq(S)
    BY <1>4, <2>1 DEF Ascending
  <2>3. DOMAIN q = 1..Len(q) /\ Len(q) \in Nat
    BY <2>2
  <2>4. \A i, j \in 1..Len(q) : i < j => q[i] < q[j]
    BY <1>4, <2>3 DEF Ascending
  <2>5. \A k \in S : \E i \in 1..Len(q) : q[i] = k
    BY <1>4, <2>1, <2>3 DEF Ascending
  <2> QED
    BY <2>2, <2>3, <2>4, <2>5
<1>6. Len(q) # 0
  BY <1>3, <1>5
<1>7. (\E i, j \in S : i # j) => Len(q) > 1
  <2> SUFFICES ASSUME NEW i \in S, NEW j \in S, i # j
               PROVE  Len(q) > 1
    OBVIOUS
  <2>1. PICK m \in 1..Len(q) : q[m] = i
    BY <1>5
  <2>2. PICK n \in 1..Len(q) : q[n] = j
    BY <1>5
  <2>3. m # n
    BY <2>1, <2>2
  <2> QED
    BY <2>3, <1>5
<1>8. ASSUME NEW m \in 1..Len(q), NEW n \in 1..Len(q), m < n
      PROVE  Splits[m].line < Splits[n].line
  <2>1. q[m] \in DOMAIN headings /\ q[n] \in DOMAIN headings /\ q[m] < q[n]
    BY <1>1, <1>4, <1>5, <1>8
  <2> QED
    BY <2>1, <1>4 DEF HeadingsInOrder
<1> QED
  BY <1>1, <1>3, <1>4, <1>5, <1>6, <1>7, <1>8

-----------------------------------------------------------------------------
(* Blocks of a document without headings.                                   *)

(* The arithmetic of cutting a run every MaxBlock lines.                    *)
LEMMA Multiples ==
  ASSUME NEW m \in Nat \ {0}, NEW a \in Nat
  PROVE  /\ a % m \in 0..(m - 1)
         /\ a - (a % m) \in Nat
         /\ (a - (a % m)) % m = 0
OBVIOUS

LEMMA MultiplesApart ==
  ASSUME NEW m \in Nat \ {0}, NEW a \in Nat, NEW b \in Nat,
         a < b, a % m = 0, b % m = 0
  PROVE  a + m <= b
<1>1. a \div m \in Nat /\ b \div m \in Nat
  OBVIOUS
<1>2. a = m * (a \div m) + (a % m) /\ b = m * (b \div m) + (b % m)
  OBVIOUS
<1>3. ASSUME NEW p \in Nat, NEW q \in Nat, m * p < m * q
      PROVE  m * q >= m * p + m
  BY <1>3
<1>4. m * (a \div m) < m * (b \div m)
  BY <1>2
<1>5. m * (b \div m) >= m * (a \div m) + m
  BY <1>1, <1>3, <1>4
<1> QED
  BY <1>2, <1>5

(* The first line of the run of lines that are not blank k belongs to.      *)
RunStart(k) ==
  LET blanks == {b \in 1..k : doc[b] = "blank"}
  IN  IF blanks = {} THEN 1 ELSE Max(blanks) + 1

StartsRun(r, k) ==
  /\ r \in 1..k
  /\ \A l \in r..k : doc[l] # "blank"
  /\ r = 1 \/ doc[r - 1] = "blank"

(* A run has one first line, whichever of its lines it is asked from.       *)
LEMMA RunStartIs ==
  ASSUME Scanning, NEW k \in NonBlank(1, Len(doc))
  PROVE  StartsRun(RunStart(k), k)
<1> DEFINE blanks == {b \in 1..k : doc[b] = "blank"}
<1>1. k \in 1..Len(doc) /\ k \in Nat \ {0} /\ doc[k] # "blank"
  BY DEF NonBlank, Scanning
<1>2. CASE blanks = {}
  BY <1>1, <1>2 DEF RunStart, StartsRun
<1>3. CASE blanks # {}
  <2> DEFINE last == Max(blanks)
  <2>1. blanks \in SUBSET (0..k)
    BY <1>1
  <2>2. last \in blanks /\ \A b \in blanks : last >= b
    <3> HIDE DEF blanks
    <3> QED
      BY <1>1, <1>3, <2>1, MaxIs
  <2>3. RunStart(k) = last + 1
    BY <1>3 DEF RunStart
  <2> HIDE DEF last
  <2>4. last \in 1..k /\ doc[last] = "blank" /\ last # k
    BY <2>2, <1>1
  <2>5. \A l \in (last + 1)..k : doc[l] # "blank"
    BY <2>2, <2>4, <1>1
  <2> QED
    BY <2>3, <2>4, <2>5, <1>1 DEF StartsRun
<1> QED
  BY <1>2, <1>3

LEMMA OneRun ==
  ASSUME NEW k \in Nat \ {0}, NEW m \in Nat \ {0}, NEW r, NEW s,
         StartsRun(r, k), StartsRun(s, m), r <= m, m <= k
  PROVE  r = s
<1>1. r \in 1..k /\ s \in 1..m
  BY DEF StartsRun
<1>2. ~(r < s)
  <2> SUFFICES ASSUME r < s
               PROVE  FALSE
    OBVIOUS
  <2>1. s - 1 \in r..k /\ s # 1
    BY <1>1
  <2> QED
    BY <2>1 DEF StartsRun
<1>3. ~(s < r)
  <2> SUFFICES ASSUME s < r
               PROVE  FALSE
    OBVIOUS
  <2>1. r - 1 \in s..m /\ r # 1
    BY <1>1
  <2> QED
    BY <2>1 DEF StartsRun
<1> QED
  BY <1>1, <1>2, <1>3

(* Blocks cover every line that is not blank, and do not overlap: two cuts  *)
(* of one run are MaxBlock lines apart, two runs have a blank between them. *)
LEMMA BlockStartsAre ==
  BlockStarts = {k \in NonBlank(1, Len(doc)) : (k - RunStart(k)) % MaxBlock = 0}
BY DEF BlockStarts, RunStart

LEMMA BlockFromIs ==
  ASSUME Scanning, NEW s \in 1..Len(doc)
  PROVE  BlockFrom(s) = {k \in s..Len(doc) :
                           /\ k < s + MaxBlock
                           /\ \A l \in s..k : doc[l] # "blank"}
<1>1. Len(doc) \in Nat /\ MaxBlock \in Nat \ {0}
  BY SegmentationAssumption DEF Scanning
<1> DEFINE ends == {s + MaxBlock - 1, Len(doc)}
<1>2. ends \in SUBSET Nat /\ ends # {}
  BY <1>1
<1>3. Min(ends) \in ends /\ \A e \in ends : Min(ends) <= e
  <2> HIDE DEF ends
  <2> QED
    BY <1>2, MinIs
<1> DEFINE end == Min(ends)
<1>4. BlockFrom(s) = {k \in s..end : \A l \in s..k : doc[l] # "blank"}
  BY DEF BlockFrom
<1> HIDE DEF end
<1>5. s..end = {k \in s..Len(doc) : k < s + MaxBlock}
  BY <1>1, <1>3 DEF end
<1> QED
  BY <1>4, <1>5

LEMMA BlocksCover ==
  ASSUME Scanning, NEW k \in NonBlank(1, Len(doc))
  PROVE  \E s \in BlockStarts : k \in BlockFrom(s)
<1> DEFINE r == RunStart(k)
           d == (k - r) % MaxBlock
           s == k - d
<1>1. MaxBlock \in Nat \ {0} /\ Len(doc) \in Nat /\ k \in 1..Len(doc)
  BY SegmentationAssumption DEF Scanning, NonBlank
<1>2. StartsRun(r, k) /\ r \in 1..k
  BY RunStartIs DEF StartsRun
<1> HIDE DEF r
<1>3. /\ d \in 0..(MaxBlock - 1)
      /\ (k - r) - d \in Nat
      /\ ((k - r) - d) % MaxBlock = 0
  <2>1. k - r \in Nat
    BY <1>1, <1>2
  <2> QED
    BY <1>1, <2>1, Multiples
<1> HIDE DEF d
<1>4. s \in r..k /\ s - r = (k - r) - d /\ s \in 1..Len(doc)
  BY <1>1, <1>2, <1>3
<1> HIDE DEF s
<1>5. s \in NonBlank(1, Len(doc))
  BY <1>2, <1>4 DEF StartsRun, NonBlank
<1>6. RunStart(s) = r
  <2>1. StartsRun(RunStart(s), s)
    BY <1>5, RunStartIs
  <2>2. k \in Nat \ {0} /\ s \in Nat \ {0} /\ r <= s /\ s <= k
    BY <1>1, <1>2, <1>4
  <2> QED
    BY <1>2, <2>1, <2>2, OneRun
<1>7. s \in BlockStarts
  BY <1>3, <1>4, <1>5, <1>6, BlockStartsAre
<1>8. k \in BlockFrom(s)
  <2>1. k \in s..Len(doc) /\ k < s + MaxBlock
    BY <1>1, <1>3, <1>4 DEF s
  <2>2. \A l \in s..k : doc[l] # "blank"
    BY <1>1, <1>2, <1>4 DEF StartsRun
  <2> QED
    BY <1>4, <2>1, <2>2, BlockFromIs
<1> QED
  BY <1>7, <1>8

LEMMA BlocksApart ==
  ASSUME Scanning, NEW s \in BlockStarts, NEW t \in BlockStarts, s < t,
         NEW k \in BlockFrom(s), NEW l \in BlockFrom(t)
  PROVE  k < l
<1>1. MaxBlock \in Nat \ {0} /\ Len(doc) \in Nat
  BY SegmentationAssumption DEF Scanning
<1>2. /\ s \in NonBlank(1, Len(doc)) /\ (s - RunStart(s)) % MaxBlock = 0
      /\ t \in NonBlank(1, Len(doc)) /\ (t - RunStart(t)) % MaxBlock = 0
  BY BlockStartsAre
<1>3. s \in 1..Len(doc) /\ t \in 1..Len(doc)
  BY <1>2 DEF NonBlank
<1>4. /\ k \in s..Len(doc) /\ k < s + MaxBlock
      /\ \A n \in s..k : doc[n] # "blank"
      /\ l \in t..Len(doc)
  BY <1>3, BlockFromIs
<1>5. ASSUME t <= k
      PROVE  FALSE
  <2> DEFINE r == RunStart(s)
  <2>1. StartsRun(r, s) /\ StartsRun(RunStart(t), t)
    BY <1>2, RunStartIs
  <2>2. r \in 1..s
    BY <2>1 DEF StartsRun
  <2> HIDE DEF r
  <2>3. StartsRun(r, t)
    <3>1. ASSUME NEW n \in r..t
          PROVE  doc[n] # "blank"
      <4>1. n \in r..s \/ n \in s..k
        BY <1>1, <1>3, <1>4, <1>5, <2>2
      <4> QED
        BY <4>1, <1>4, <2>1 DEF StartsRun
    <3>2. r \in 1..t /\ (r = 1 \/ doc[r - 1] = "blank")
      BY <1>3, <2>1, <2>2 DEF StartsRun
    <3> QED
      BY <3>1, <3>2 DEF StartsRun
  <2>4. RunStart(t) = r
    <3>1. t \in Nat \ {0} /\ r <= t /\ t <= t
      BY <1>3, <2>2
    <3> QED
      BY <2>1, <2>3, <3>1, OneRun
  <2>5. s - r \in Nat /\ t - r \in Nat /\ s - r < t - r
    BY <1>3, <2>2
  <2>6. (s - r) + MaxBlock <= t - r
    <3>1. (s - r) % MaxBlock = 0 /\ (t - r) % MaxBlock = 0
      BY <1>2, <2>4 DEF r
    <3> QED
      BY <1>1, <2>5, <3>1, MultiplesApart
  <2> QED
    BY <2>6, <1>1, <1>3, <1>4, <1>5, <2>2
<1> QED
  BY <1>1, <1>3, <1>4, <1>5

-----------------------------------------------------------------------------
(* Units, and the lines they hold.                                          *)

Unit == [title : Nat, body : SUBSET Nat]

LinesIn(u) == u.body \cup IF u.title = 0 THEN {} ELSE HeadingLines(u.title)

(* A unit made of the lines from..to, and of nothing else.                  *)
Holds(u, from, to) ==
  /\ u \in Unit
  /\ LinesIn(u) \subseteq from..to
  /\ NonBlank(from, to) \subseteq LinesIn(u)

(* The last line of the n-th section.                                       *)
SectionEnd(n) == IF n = Len(Splits) THEN Len(doc) ELSE Splits[n + 1].line - 1

LEMMA HeadingLinesAre ==
  ASSUME NEW t
  PROVE  /\ t \in HeadingLines(t)
         /\ HeadingLines(t) \subseteq {t, t + 1}
         /\ t + 1 \in HeadingLines(t) /\ t \in Nat =>
              t < Len(doc) /\ doc[t] \notin DOMAIN AtxLevel /\ doc[t + 1] \in Underlines
BY DEF HeadingLines

LEMMA SplitLines ==
  ASSUME Scanning, HeadingsInOrder, headings # <<>>, NEW n \in 1..Len(Splits)
  PROVE  /\ Splits[n].line \in 1..Len(doc)
         /\ doc[Splits[n].line] \notin Underlines \cup {"blank"}
<1>1. PICK k \in DOMAIN headings : Splits[n] = headings[k]
  BY SplitsAre
<1> QED
  BY <1>1 DEF HeadingsInOrder

(* A section holds the lines from its heading to the next one, and no       *)
(* underline of its own reaches past them: a heading is no underline.       *)
LEMMA SectionIs ==
  ASSUME Scanning, HeadingsInOrder, headings # <<>>, NEW n \in 1..Len(Splits)
  PROVE  /\ SectionEnd(n) \in Splits[n].line..Len(doc)
         /\ Holds(Section(n), Splits[n].line, SectionEnd(n))
<1> DEFINE s == Splits[n].line
           e == SectionEnd(n)
<1>1. Len(doc) \in Nat /\ s \in 1..Len(doc) /\ Len(Splits) \in Nat
  BY SplitLines, SplitsAre DEF Scanning
<1>2. n # Len(Splits) =>
        /\ n + 1 \in 1..Len(Splits)
        /\ Splits[n + 1].line \in 1..Len(doc)
        /\ s < Splits[n + 1].line
        /\ doc[Splits[n + 1].line] \notin Underlines
  <2> SUFFICES ASSUME n # Len(Splits)
               PROVE  /\ n + 1 \in 1..Len(Splits)
                      /\ Splits[n + 1].line \in 1..Len(doc)
                      /\ s < Splits[n + 1].line
                      /\ doc[Splits[n + 1].line] \notin Underlines
    OBVIOUS
  <2>1. n + 1 \in 1..Len(Splits) /\ n < n + 1
    BY <1>1
  <2> QED
    BY <2>1, SplitLines, SplitsAre
<1>3. e \in s..Len(doc)
  BY <1>1, <1>2 DEF SectionEnd
<1>4. Section(n) = [title |-> s, body |-> Trimmed(s + 1, e)]
  BY DEF Section, SectionEnd
<1>5. /\ NonBlank(s + 1, e) \subseteq Trimmed(s + 1, e)
      /\ Trimmed(s + 1, e) \subseteq (s + 1)..e
  <2>1. s + 1 \in Nat \ {0} /\ e \in Nat
    BY <1>1, <1>3
  <2> HIDE DEF s, e
  <2> QED
    BY <2>1, TrimmedIs
<1>6. HeadingLines(s) \subseteq s..e /\ s \in HeadingLines(s)
  <2>1. s \in HeadingLines(s) /\ HeadingLines(s) \subseteq {s, s + 1}
    BY HeadingLinesAre
  <2>2. ASSUME s + 1 \in HeadingLines(s)
        PROVE  s + 1 <= e
    <3>1. s < Len(doc) /\ doc[s + 1] \in Underlines
      BY <1>1, <2>2, HeadingLinesAre
    <3>2. CASE n = Len(Splits)
      BY <3>1, <3>2, <1>1 DEF SectionEnd
    <3>3. CASE n # Len(Splits)
      <4>1. Splits[n + 1].line # s + 1
        BY <3>1, <3>3, <1>2
      <4>2. e = Splits[n + 1].line - 1
        BY <3>3 DEF SectionEnd
      <4> QED
        BY <4>1, <4>2, <3>3, <1>1, <1>2
    <3> QED
      BY <3>2, <3>3
  <2> QED
    BY <1>1, <1>3, <2>1, <2>2
<1> HIDE DEF s, e
<1>7. Section(n) \in Unit /\ LinesIn(Section(n)) = Trimmed(s + 1, e) \cup HeadingLines(s)
  BY <1>1, <1>3, <1>4, <1>5 DEF Unit, LinesIn
<1>8. NonBlank(s, e) \subseteq NonBlank(s + 1, e) \cup {s}
  BY <1>1, <1>3 DEF NonBlank
<1>9. Holds(Section(n), s, e)
  <2>1. Trimmed(s + 1, e) \subseteq s..e
    BY <1>1, <1>3, <1>5
  <2> QED
    BY <2>1, <1>5, <1>6, <1>7, <1>8 DEF Holds
<1> QED
  BY <1>3, <1>9 DEF s, e

(* Sections follow one another, and every line from the first on is one's.  *)
LEMMA SectionsFollow ==
  ASSUME Scanning, HeadingsInOrder, headings # <<>>
  PROVE  /\ \A m, n \in 1..Len(Splits) : m < n => SectionEnd(m) < Splits[n].line
         /\ \A k \in Splits[1].line..Len(doc) :
              \E n \in 1..Len(Splits) : k \in Splits[n].line..SectionEnd(n)
<1>1. /\ Len(doc) \in Nat /\ Len(Splits) \in Nat \ {0}
      /\ \A n \in 1..Len(Splits) : Splits[n].line \in 1..Len(doc)
      /\ \A m, n \in 1..Len(Splits) : m < n => Splits[m].line < Splits[n].line
  BY SplitLines, SplitsAre DEF Scanning
<1>2. ASSUME NEW m \in 1..Len(Splits), NEW n \in 1..Len(Splits), m < n
      PROVE  SectionEnd(m) < Splits[n].line
  <2>1. m + 1 \in 1..Len(Splits) /\ m # Len(Splits)
    BY <1>1, <1>2
  <2>2. Splits[m + 1].line <= Splits[n].line
    <3>1. m + 1 = n \/ m + 1 < n
      BY <1>1, <1>2
    <3> QED
      BY <1>1, <2>1, <3>1
  <2>3. SectionEnd(m) = Splits[m + 1].line - 1
    BY <2>1 DEF SectionEnd
  <2>4. Splits[m + 1].line \in Nat /\ Splits[n].line \in Nat
    BY <1>1, <2>1
  <2> QED
    BY <2>2, <2>3, <2>4
<1>3. ASSUME NEW k \in Splits[1].line..Len(doc)
      PROVE  \E n \in 1..Len(Splits) : k \in Splits[n].line..SectionEnd(n)
  <2> DEFINE before == {n \in 1..Len(Splits) : Splits[n].line <= k}
             n == Max(before)
  <2>1. 1 \in before /\ before \in SUBSET (0..Len(Splits))
    BY <1>1, <1>3
  <2>2. n \in before /\ \A m \in before : n >= m
    <3> HIDE DEF before
    <3> QED
      BY <1>1, <2>1, MaxIs
  <2>3. n \in 1..Len(Splits) /\ Splits[n].line <= k
    BY <2>2
  <2> HIDE DEF n
  <2>4. CASE n = Len(Splits)
    <3>1. SectionEnd(n) = Len(doc) /\ Splits[n].line \in Nat
      BY <1>1, <2>3, <2>4 DEF SectionEnd
    <3>2. k \in Nat /\ k <= Len(doc)
      BY <1>1, <1>3
    <3>3. k \in Splits[n].line..SectionEnd(n)
      BY <1>1, <2>3, <3>1, <3>2
    <3> QED
      BY <2>3, <3>3
  <2>5. CASE n # Len(Splits)
    <3>1. n + 1 \in 1..Len(Splits)
      BY <1>1, <2>3, <2>5
    <3>2. ~(Splits[n + 1].line <= k)
      <4>1. ~(n >= n + 1)
        BY <2>3
      <4> QED
        BY <2>2, <3>1, <4>1
    <3>3. SectionEnd(n) = Splits[n + 1].line - 1
      BY <2>5 DEF SectionEnd
    <3>4. Splits[n + 1].line \in Nat /\ Splits[n].line \in Nat /\ k \in Nat
      BY <1>1, <1>3, <2>3, <3>1
    <3>5. k \in Splits[n].line..SectionEnd(n)
      BY <2>3, <3>2, <3>3, <3>4
    <3> QED
      BY <2>3, <3>5
  <2> QED
    BY <2>4, <2>5
<1> QED
  BY <1>2, <1>3

(* The lines of a document title with nothing under it.                     *)
LoneTitle(lines) ==
  \E t \in lines : NonBlank(1, t - 1) = {} /\ lines = HeadingLines(t)

(* What splitLeadingHeading leaves without a body is a title and nothing    *)
(* else; otherwise it has kept every line.                                  *)
LEMMA LeadingHeadingIs ==
  ASSUME Scanning, NEW to \in Nat, to < Len(doc), NonBlank(1, to) # {}
  PROVE  /\ LeadingHeading(to).body # {} => Holds(LeadingHeading(to), 1, to)
         /\ LeadingHeading(to).body = {} => LoneTitle(NonBlank(1, to))
<1> DEFINE text == Trimmed(1, to)
           first == Min(text)
           u == LeadingHeading(to)
<1>1. /\ NonBlank(1, to) \subseteq text
      /\ text \subseteq 1..to
      /\ text # {}
      /\ first \in NonBlank(1, to)
      /\ \A k \in text : first <= k
  BY TrimmedIs
<1>2. Len(doc) \in Nat /\ first \in 1..to /\ first \in Nat \ {0}
  BY <1>1 DEF Scanning
<1>3. \A from \in Nat \ {0} :
        /\ NonBlank(from, to) \subseteq Trimmed(from, to)
        /\ Trimmed(from, to) \subseteq from..to
        /\ Trimmed(from, to) = {} => NonBlank(from, to) = {}
  BY TrimmedIs
<1>4. u = IF doc[first] \in DOMAIN AtxLevel
            THEN [title |-> first, body |-> Trimmed(first + 1, to)]
          ELSE IF first + 1 \in text /\ doc[first + 1] \in Underlines
            THEN [title |-> first, body |-> Trimmed(first + 2, to)]
          ELSE [title |-> 0, body |-> text]
  BY DEF LeadingHeading
<1> HIDE DEF text, first, u
<1>5. NonBlank(1, first - 1) = {}
  <2> SUFFICES ASSUME NEW k \in NonBlank(1, first - 1)
               PROVE  FALSE
    OBVIOUS
  <2>1. k \in NonBlank(1, to) /\ k < first
    BY <1>2 DEF NonBlank
  <2> QED
    BY <2>1, <1>1, <1>2
<1>6. CASE doc[first] \in DOMAIN AtxLevel
  <2>1. u = [title |-> first, body |-> Trimmed(first + 1, to)]
    BY <1>4, <1>6
  <2>2. HeadingLines(first) = {first}
    BY <1>6 DEF HeadingLines
  <2>3. NonBlank(1, to) \subseteq {first} \cup NonBlank(first + 1, to)
    <3> SUFFICES ASSUME NEW k \in NonBlank(1, to), k # first
                 PROVE  k \in NonBlank(first + 1, to)
      OBVIOUS
    <3>1. k \in 1..to /\ doc[k] # "blank" /\ first <= k
      BY <1>1 DEF NonBlank
    <3> QED
      BY <3>1, <1>2 DEF NonBlank
  <2>4. /\ NonBlank(first + 1, to) \subseteq Trimmed(first + 1, to)
        /\ Trimmed(first + 1, to) \subseteq 1..to
        /\ Trimmed(first + 1, to) \in SUBSET Nat
        /\ Trimmed(first + 1, to) = {} => NonBlank(first + 1, to) = {}
    <3>1. first + 1 \in Nat \ {0} /\ (first + 1)..to \subseteq 1..to
      BY <1>2
    <3> QED
      BY <3>1, <1>3
  <2>5. u \in Unit /\ LinesIn(u) = Trimmed(first + 1, to) \cup {first}
    BY <1>2, <2>1, <2>2, <2>4 DEF Unit, LinesIn
  <2>6. Holds(u, 1, to)
    BY <1>2, <2>3, <2>4, <2>5 DEF Holds
  <2>7. u.body = {} => LoneTitle(NonBlank(1, to))
    <3> SUFFICES ASSUME u.body = {}
                 PROVE  LoneTitle(NonBlank(1, to))
      OBVIOUS
    <3>1. NonBlank(1, to) = HeadingLines(first)
      BY <1>1, <2>1, <2>2, <2>3, <2>4
    <3> QED
      BY <3>1, <1>1, <1>5 DEF LoneTitle
  <2> QED
    BY <2>6, <2>7 DEF u
<1>7. CASE /\ doc[first] \notin DOMAIN AtxLevel
           /\ first + 1 \in text /\ doc[first + 1] \in Underlines
  <2>1. u = [title |-> first, body |-> Trimmed(first + 2, to)]
    BY <1>4, <1>7
  <2>2. HeadingLines(first) = {first, first + 1} /\ first + 1 \in 1..to
    BY <1>1, <1>2, <1>7 DEF HeadingLines
  <2>3. NonBlank(1, to) \subseteq {first, first + 1} \cup NonBlank(first + 2, to)
    <3> SUFFICES ASSUME NEW k \in NonBlank(1, to), k # first, k # first + 1
                 PROVE  k \in NonBlank(first + 2, to)
      OBVIOUS
    <3>1. k \in 1..to /\ doc[k] # "blank" /\ first <= k
      BY <1>1 DEF NonBlank
    <3> QED
      BY <3>1, <1>2 DEF NonBlank
  <2>4. /\ NonBlank(first + 2, to) \subseteq Trimmed(first + 2, to)
        /\ Trimmed(first + 2, to) \subseteq 1..to
        /\ Trimmed(first + 2, to) \in SUBSET Nat
        /\ Trimmed(first + 2, to) = {} => NonBlank(first + 2, to) = {}
    <3>1. first + 2 \in Nat \ {0} /\ (first + 2)..to \subseteq 1..to
      BY <1>2
    <3> QED
      BY <3>1, <1>3
  <2>5. u \in Unit /\ LinesIn(u) = Trimmed(first + 2, to) \cup {first, first + 1}
    BY <1>2, <2>1, <2>2, <2>4 DEF Unit, LinesIn
  <2>6. Holds(u, 1, to)
    BY <1>2, <2>2, <2>3, <2>4, <2>5 DEF Holds
  <2>7. u.body = {} => LoneTitle(NonBlank(1, to))
    <3> SUFFICES ASSUME u.body = {}
                 PROVE  LoneTitle(NonBlank(1, to))
      OBVIOUS
    <3>1. first + 1 \in NonBlank(1, to)
      BY <2>2, <1>7, UnderlinesAreText DEF NonBlank
    <3>2. NonBlank(1, to) = HeadingLines(first)
      BY <1>1, <2>1, <2>2, <2>3, <2>4, <3>1
    <3> QED
      BY <3>2, <1>1, <1>5 DEF LoneTitle
  <2> QED
    BY <2>6, <2>7 DEF u
<1>8. CASE /\ doc[first] \notin DOMAIN AtxLevel
           /\ ~(first + 1 \in text /\ doc[first + 1] \in Underlines)
  <2>1. u = [title |-> 0, body |-> text]
    BY <1>4, <1>8
  <2>2. u \in Unit /\ LinesIn(u) = text
    BY <1>1, <2>1 DEF Unit, LinesIn
  <2>3. Holds(u, 1, to) /\ u.body # {}
    BY <1>1, <2>1, <2>2 DEF Holds
  <2> QED
    BY <2>3 DEF u
<1> QED
  BY <1>6, <1>7, <1>8

LEMMA PreambleIs ==
  ASSUME Scanning, HeadingsInOrder, headings # <<>>
  PROVE  LET to == Splits[1].line - 1
         IN  \/ /\ Preamble = <<>>
                /\ NonBlank(1, to) = {} \/ LoneTitle(NonBlank(1, to))
             \/ \E u \in Unit : Preamble = <<u>> /\ Holds(u, 1, to)
<1> DEFINE to == Splits[1].line - 1
<1>1. to \in Nat /\ to < Len(doc)
  <2>1. 1 \in 1..Len(Splits)
    BY SplitsAre
  <2>2. Splits[1].line \in 1..Len(doc) /\ Len(doc) \in Nat
    BY <2>1, SplitLines DEF Scanning
  <2> QED
    BY <2>2
<1>2. Preamble = IF NonBlank(1, to) = {} \/ LeadingHeading(to).body = {}
                   THEN <<>> ELSE <<LeadingHeading(to)>>
  BY DEF Preamble
<1> HIDE DEF to
<1>3. CASE NonBlank(1, to) = {}
  BY <1>2, <1>3 DEF to
<1>4. CASE NonBlank(1, to) # {} /\ LeadingHeading(to).body = {}
  BY <1>1, <1>2, <1>4, LeadingHeadingIs DEF to
<1>5. CASE NonBlank(1, to) # {} /\ LeadingHeading(to).body # {}
  <2>1. Holds(LeadingHeading(to), 1, to)
    BY <1>1, <1>5, LeadingHeadingIs
  <2>2. Preamble = <<LeadingHeading(to)>> /\ LeadingHeading(to) \in Unit
    BY <1>2, <1>5, <2>1 DEF Holds
  <2> QED
    BY <2>1, <2>2 DEF to
<1> QED
  BY <1>3, <1>4, <1>5

-----------------------------------------------------------------------------
(* What the division of a document promises of its units.                   *)
Whole(us) ==
  /\ LET lost == NonBlank(1, Len(doc)) \ UNION {LinesIn(us[n]) : n \in DOMAIN us}
     IN  lost = {} \/ LoneTitle(lost)
  /\ \A m, n \in DOMAIN us : m < n =>
       \A k \in LinesIn(us[m]), l \in LinesIn(us[n]) : k < l

LEMMA SectionsAre ==
  ASSUME Scanning, HeadingsInOrder, headings # <<>>
  PROVE  LET us == [k \in DOMAIN Splits |-> Section(k)]
         IN  /\ us \in Seq(Unit) /\ Len(us) = Len(Splits) /\ Len(us) \in Nat \ {0}
             /\ \A n \in 1..Len(us) : LinesIn(us[n]) \subseteq Splits[1].line..Len(doc)
             /\ \A m, n \in 1..Len(us) : m < n =>
                  \A k \in LinesIn(us[m]), l \in LinesIn(us[n]) : k < l
             /\ NonBlank(Splits[1].line, Len(doc))
                  \subseteq UNION {LinesIn(us[n]) : n \in 1..Len(us)}
<1> DEFINE us == [k \in DOMAIN Splits |-> Section(k)]
<1>1. /\ Splits \in Seq(Heading) /\ Len(Splits) \in Nat \ {0}
      /\ Len(doc) \in Nat
      /\ \A n \in 1..Len(Splits) : Splits[n].line \in 1..Len(doc)
      /\ \A m, n \in 1..Len(Splits) : m < n => Splits[m].line < Splits[n].line
  BY SplitLines, SplitsAre DEF Scanning
<1>2. \A n \in 1..Len(Splits) :
        /\ SectionEnd(n) \in Splits[n].line..Len(doc)
        /\ Holds(Section(n), Splits[n].line, SectionEnd(n))
  BY SectionIs
<1>3. us \in Seq(Unit) /\ Len(us) = Len(Splits)
      /\ \A n \in 1..Len(us) : us[n] = Section(n)
  BY <1>1, <1>2 DEF Holds
<1> HIDE DEF us
<1>4. ASSUME NEW n \in 1..Len(us)
      PROVE  LinesIn(us[n]) \subseteq Splits[n].line..SectionEnd(n)
  BY <1>2, <1>3 DEF Holds
<1>5. ASSUME NEW n \in 1..Len(us)
      PROVE  LinesIn(us[n]) \subseteq Splits[1].line..Len(doc)
  <2>1. Splits[1].line <= Splits[n].line
    <3>1. 1 \in 1..Len(Splits) /\ n \in 1..Len(Splits) /\ (n = 1 \/ 1 < n)
      BY <1>1, <1>3
    <3> QED
      BY <3>1, <1>1
  <2>2. /\ SectionEnd(n) \in Splits[n].line..Len(doc)
        /\ Splits[n].line \in 1..Len(doc) /\ Splits[1].line \in 1..Len(doc)
    BY <1>1, <1>2, <1>3
  <2>3. Splits[n].line..SectionEnd(n) \subseteq Splits[1].line..Len(doc)
    BY <2>1, <2>2, <1>1
  <2> QED
    BY <2>3, <1>4
<1>6. ASSUME NEW m \in 1..Len(us), NEW n \in 1..Len(us), m < n,
             NEW k \in LinesIn(us[m]), NEW l \in LinesIn(us[n])
      PROVE  k < l
  <2>1. k \in Splits[m].line..SectionEnd(m) /\ l \in Splits[n].line..SectionEnd(n)
    BY <1>4
  <2>2. SectionEnd(m) < Splits[n].line
    BY <1>3, <1>6, SectionsFollow
  <2>3. /\ SectionEnd(m) \in Splits[m].line..Len(doc) /\ Splits[m].line \in 1..Len(doc)
        /\ SectionEnd(n) \in Splits[n].line..Len(doc) /\ Splits[n].line \in 1..Len(doc)
    BY <1>1, <1>2, <1>3
  <2> QED
    BY <2>1, <2>2, <2>3, <1>1
<1>7. ASSUME NEW k \in NonBlank(Splits[1].line, Len(doc))
      PROVE  k \in UNION {LinesIn(us[n]) : n \in 1..Len(us)}
  <2>1. k \in Splits[1].line..Len(doc) /\ doc[k] # "blank"
    BY DEF NonBlank
  <2>2. PICK n \in 1..Len(Splits) : k \in Splits[n].line..SectionEnd(n)
    BY <2>1, SectionsFollow
  <2>3. k \in NonBlank(Splits[n].line, SectionEnd(n))
    BY <2>1, <2>2 DEF NonBlank
  <2>4. k \in LinesIn(us[n]) /\ n \in 1..Len(us)
    BY <2>2, <2>3, <1>2, <1>3 DEF Holds
  <2> QED
    BY <2>4
<1> QED
  BY <1>1, <1>3, <1>5, <1>6, <1>7 DEF us

(* The preamble and the sections, the blocks, and the short document.       *)
LEMMA WithHeadings ==
  ASSUME Scanning, HeadingsInOrder, headings # <<>>
  PROVE  /\ Whole(SegmentText) /\ SegmentText \in Seq(Unit)
         /\ Len(SegmentText) = Len(Preamble) + Len(Splits)
         /\ Len(Preamble) \in Nat /\ Len(Splits) \in Nat \ {0}
<1> DEFINE us == [k \in DOMAIN Splits |-> Section(k)]
           s == Splits[1].line
           to == s - 1
           all == NonBlank(1, Len(doc))
<1>1. /\ us \in Seq(Unit) /\ Len(us) = Len(Splits) /\ Len(us) \in Nat \ {0}
      /\ \A n \in 1..Len(us) : LinesIn(us[n]) \subseteq s..Len(doc)
      /\ \A m, n \in 1..Len(us) : m < n =>
           \A k \in LinesIn(us[m]), l \in LinesIn(us[n]) : k < l
      /\ NonBlank(s, Len(doc)) \subseteq UNION {LinesIn(us[n]) : n \in 1..Len(us)}
  BY SectionsAre
<1>2. SegmentText = Preamble \o us
  BY DEF SegmentText
<1>3. \/ /\ Preamble = <<>>
         /\ NonBlank(1, to) = {} \/ LoneTitle(NonBlank(1, to))
      \/ \E u \in Unit : Preamble = <<u>> /\ Holds(u, 1, to)
  BY PreambleIs
<1>4. s \in 1..Len(doc) /\ Len(doc) \in Nat
  <2>1. 1 \in 1..Len(Splits)
    BY SplitsAre
  <2> QED
    BY <2>1, SplitLines DEF Scanning
<1>5. all = NonBlank(1, to) \cup NonBlank(s, Len(doc))
  BY <1>4 DEF NonBlank
<1> HIDE DEF us, s, to
<1>6. to \in Nat /\ to < s
  BY <1>4 DEF to
<1>7. CASE /\ Preamble = <<>>
           /\ NonBlank(1, to) = {} \/ LoneTitle(NonBlank(1, to))
  <2>1. SegmentText = us
    BY <1>1, <1>2, <1>7
  <2> DEFINE held == UNION {LinesIn(us[n]) : n \in DOMAIN us}
  <2>2. DOMAIN us = 1..Len(us)
    BY <1>1
  <2>3. held \subseteq s..Len(doc) /\ NonBlank(s, Len(doc)) \subseteq held
    BY <1>1, <2>2
  <2> HIDE DEF held
  <2>4. all \ held = NonBlank(1, to)
    <3>1. NonBlank(1, to) \cap (s..Len(doc)) = {}
      BY <1>4, <1>6 DEF NonBlank
    <3> QED
      BY <1>5, <2>3, <3>1
  <2>5. Whole(us)
    BY <1>1, <1>7, <2>2, <2>4 DEF Whole, held
  <2>6. Len(Preamble) = 0
    BY <1>7
  <2> QED
    BY <1>1, <2>1, <2>5, <2>6
<1>8. CASE \E u \in Unit : Preamble = <<u>> /\ Holds(u, 1, to)
  <2>1. PICK u \in Unit : Preamble = <<u>> /\ Holds(u, 1, to)
    BY <1>8
  <2> DEFINE seg == <<u>> \o us
  <2>2. /\ seg \in Seq(Unit) /\ Len(seg) = 1 + Len(us) /\ DOMAIN seg = 1..(1 + Len(us))
        /\ seg[1] = u
        /\ \A n \in 1..Len(us) : seg[n + 1] = us[n]
    BY <1>1
  <2>3. SegmentText = seg /\ Len(Preamble) = 1
    BY <1>2, <2>1
  <2> HIDE DEF seg
  <2>4. \A n \in DOMAIN seg : n = 1 \/ (n - 1 \in 1..Len(us) /\ seg[n] = us[n - 1])
    <3> SUFFICES ASSUME NEW n \in DOMAIN seg, n # 1
                 PROVE  n - 1 \in 1..Len(us) /\ seg[n] = us[n - 1]
      OBVIOUS
    <3>1. n - 1 \in 1..Len(us) /\ (n - 1) + 1 = n
      BY <1>1, <2>2
    <3> QED
      BY <3>1, <2>2
  <2>5. LinesIn(u) \subseteq 1..to /\ NonBlank(1, to) \subseteq LinesIn(u)
    BY <2>1 DEF Holds
  <2>6. ASSUME NEW k \in all
        PROVE  \E n \in DOMAIN seg : k \in LinesIn(seg[n])
    <3>1. CASE k \in NonBlank(1, to)
      <4>1. 1 \in DOMAIN seg /\ k \in LinesIn(seg[1])
        BY <3>1, <1>1, <2>2, <2>5
      <4> QED
        BY <4>1
    <3>2. CASE k \in NonBlank(s, Len(doc))
      <4>1. PICK n \in 1..Len(us) : k \in LinesIn(us[n])
        BY <3>2, <1>1
      <4>2. n + 1 \in DOMAIN seg /\ seg[n + 1] = us[n]
        BY <1>1, <2>2
      <4> QED
        BY <4>1, <4>2
    <3> QED
      BY <3>1, <3>2, <1>5
  <2>7. ASSUME NEW m \in DOMAIN seg, NEW n \in DOMAIN seg, m < n,
               NEW k \in LinesIn(seg[m]), NEW l \in LinesIn(seg[n])
        PROVE  k < l
    <3>1. n - 1 \in 1..Len(us) /\ seg[n] = us[n - 1]
      BY <2>2, <2>4, <2>7
    <3>2. l \in s..Len(doc)
      BY <3>1, <1>1, <2>7
    <3>3. CASE m = 1
      <4>1. k \in 1..to
        BY <3>3, <2>2, <2>5, <2>7
      <4> QED
        BY <4>1, <3>2, <1>4, <1>6
    <3>4. CASE m # 1
      <4>1. m - 1 \in 1..Len(us) /\ seg[m] = us[m - 1]
        BY <3>4, <2>4
      <4>2. m - 1 < n - 1
        BY <2>2, <2>7
      <4> QED
        BY <4>1, <4>2, <3>1, <1>1, <2>7
    <3> QED
      BY <3>3, <3>4
  <2>8. Whole(seg)
    <3>1. all \ UNION {LinesIn(seg[n]) : n \in DOMAIN seg} = {}
      BY <2>6
    <3> QED
      BY <3>1, <2>7 DEF Whole
  <2> QED
    BY <1>1, <2>2, <2>3, <2>8
<1> QED
  BY <1>3, <1>7, <1>8

LEMMA BlocksAre ==
  ASSUME Scanning
  PROVE  /\ Blocks \in Seq(Unit) /\ Whole(Blocks)
         /\ NonBlank(1, Len(doc)) # {} => Blocks # <<>>
<1> DEFINE q == InOrder(BlockStarts, Len(doc))
<1>1. Len(doc) \in Nat
  BY DEF Scanning
<1>2. BlockStarts \subseteq 1..Len(doc)
  BY BlockStartsAre DEF NonBlank
<1>3. Ascending(q, BlockStarts, Len(doc)) /\ BlockStarts \cap (1..Len(doc)) = BlockStarts
  BY <1>1, <1>2, InOrderAscends
<1>4. Blocks = [n \in DOMAIN q |-> [title |-> 0, body |-> BlockFrom(q[n])]]
  BY DEF Blocks
<1> HIDE DEF q
<1>5. /\ q \in Seq(BlockStarts)
      /\ \A m, n \in DOMAIN q : m < n => q[m] < q[n]
      /\ \A k \in BlockStarts : \E n \in DOMAIN q : q[n] = k
  BY <1>3 DEF Ascending
<1>6. DOMAIN q = 1..Len(q) /\ Len(q) \in Nat /\ \A n \in 1..Len(q) : q[n] \in BlockStarts
  BY <1>5
<1>7. \A s \in BlockStarts : BlockFrom(s) \in SUBSET Nat
  <2> SUFFICES ASSUME NEW s \in BlockStarts
               PROVE  BlockFrom(s) \in SUBSET Nat
    OBVIOUS
  <2>1. s \in 1..Len(doc)
    BY <1>2
  <2> QED
    BY <1>1, <2>1, BlockFromIs
<1>8. /\ Blocks \in Seq(Unit) /\ DOMAIN Blocks = 1..Len(q)
      /\ \A n \in DOMAIN Blocks : LinesIn(Blocks[n]) = BlockFrom(q[n])
  BY <1>4, <1>6, <1>7 DEF Unit, LinesIn
<1>9. ASSUME NEW k \in NonBlank(1, Len(doc))
      PROVE  \E n \in DOMAIN Blocks : k \in LinesIn(Blocks[n])
  <2>1. PICK s \in BlockStarts : k \in BlockFrom(s)
    BY BlocksCover
  <2>2. PICK n \in DOMAIN q : q[n] = s
    BY <1>5
  <2> QED
    BY <1>6, <1>8, <2>1, <2>2
<1>10. ASSUME NEW m \in DOMAIN Blocks, NEW n \in DOMAIN Blocks, m < n,
              NEW k \in LinesIn(Blocks[m]), NEW l \in LinesIn(Blocks[n])
       PROVE  k < l
  <2>1. q[m] \in BlockStarts /\ q[n] \in BlockStarts /\ q[m] < q[n]
    BY <1>5, <1>6, <1>8, <1>10
  <2>2. k \in BlockFrom(q[m]) /\ l \in BlockFrom(q[n])
    BY <1>8
  <2> QED
    BY <2>1, <2>2, BlocksApart
<1>11. Whole(Blocks)
  <2>1. NonBlank(1, Len(doc)) \ UNION {LinesIn(Blocks[n]) : n \in DOMAIN Blocks} = {}
    BY <1>9
  <2> QED
    BY <2>1, <1>10 DEF Whole
<1>12. NonBlank(1, Len(doc)) # {} => Blocks # <<>>
  <2> SUFFICES ASSUME NonBlank(1, Len(doc)) # {}, Blocks = <<>>
               PROVE  FALSE
    OBVIOUS
  <2>1. DOMAIN Blocks = {}
    OBVIOUS
  <2> QED
    BY <2>1, <1>9
<1> QED
  BY <1>8, <1>11, <1>12

LEMMA WithoutHeadingsIs ==
  ASSUME Scanning
  PROVE  /\ WithoutHeadings \in Seq(Unit) /\ Whole(WithoutHeadings)
         /\ WithoutHeadings = <<>> <=> NonBlank(1, Len(doc)) = {}
<1> DEFINE text == Trimmed(1, Len(doc))
           u == [title |-> 0, body |-> text]
<1>1. /\ NonBlank(1, Len(doc)) \subseteq text
      /\ text \subseteq 1..Len(doc)
      /\ NonBlank(1, Len(doc)) = {} <=> text = {}
  <2>1. 1 \in Nat \ {0} /\ Len(doc) \in Nat
    BY DEF Scanning
  <2> QED
    BY <2>1, TrimmedIs
<1>2. WithoutHeadings = IF text = {} THEN <<>>
                        ELSE IF Cardinality(text) <= MaxBlock THEN <<u>> ELSE Blocks
  BY DEF WithoutHeadings
<1>3. u \in Unit /\ LinesIn(u) = text
  <2>1. Len(doc) \in Nat
    BY DEF Scanning
  <2>2. text \in SUBSET Nat
    BY <1>1, <2>1
  <2> QED
    BY <2>2 DEF Unit, LinesIn
<1> HIDE DEF text, u
<1>4. CASE text = {}
  <2>1. WithoutHeadings = <<>>
    BY <1>2, <1>4
  <2>2. Whole(<<>>)
    BY <1>1, <1>4 DEF Whole
  <2> QED
    BY <1>1, <1>4, <2>1, <2>2
<1>5. CASE text # {} /\ Cardinality(text) <= MaxBlock
  <2>1. WithoutHeadings = <<u>>
    BY <1>2, <1>5
  <2>2. <<u>> \in Seq(Unit) /\ <<u>> # <<>> /\ DOMAIN <<u>> = {1} /\ <<u>>[1] = u
    BY <1>3
  <2>3. Whole(<<u>>)
    BY <1>1, <1>3, <2>2 DEF Whole
  <2> QED
    BY <1>1, <1>5, <2>1, <2>2, <2>3
<1>6. CASE text # {} /\ ~(Cardinality(text) <= MaxBlock)
  BY <1>1, <1>2, <1>6, BlocksAre
<1> QED
  BY <1>4, <1>5, <1>6

LEMMA SegmentTextIs ==
  ASSUME Scanning, HeadingsInOrder
  PROVE  /\ SegmentText \in Seq(Unit) /\ Whole(SegmentText)
         /\ SegmentText = <<>> <=> NonBlank(1, Len(doc)) = {}
<1>1. CASE headings = <<>>
  BY <1>1, WithoutHeadingsIs DEF SegmentText
<1>2. CASE headings # <<>>
  <2>1. SegmentText # <<>>
    <3>1. Len(SegmentText) # 0
      BY <1>2, WithHeadings
    <3> QED
      BY <3>1
  <2>2. NonBlank(1, Len(doc)) # {}
    <3>1. 1 \in DOMAIN headings
      BY <1>2 DEF Scanning
    <3>2. headings[1].line \in NonBlank(1, Len(doc))
      BY <3>1 DEF HeadingsInOrder, NonBlank
    <3> QED
      BY <3>2
  <2> QED
    BY <1>2, <2>1, <2>2, WithHeadings
<1> QED
  BY <1>1, <1>2

-----------------------------------------------------------------------------
(* The invariant.                                                           *)

(* The rows of a CSV document scanned so far, one unit for each.            *)
Row(k) == [title |-> 0, body |-> {k}]

Rows ==
  format = "csv" =>
    /\ units \in Seq(Unit)
    /\ \A n \in DOMAIN units : \E k \in NonBlank(1, Len(doc)) : units[n] = Row(k)
    /\ \A k \in NonBlank(1, Len(doc)) : \E n \in DOMAIN units : units[n] = Row(k)
    /\ \A m, n \in DOMAIN units : m < n =>
         \A k \in units[m].body, l \in units[n].body : k < l

Divided ==
  phase # "scan" =>
    /\ phase = "failed" <=> units = <<>>
    /\ format # "csv" => units = SegmentText

IInv ==
  /\ Scanning /\ HeadingsInOrder /\ TitlesAreMarked /\ Parity
  /\ Rows /\ Divided
  /\ Reading

(* The division depends on the scan alone.                                  *)
LEMMA TextDivided ==
  ASSUME UNCHANGED <<format, doc, headings>>
  PROVE  SegmentText' = SegmentText
BY DEF SegmentText, WithoutHeadings, Blocks, BlockFrom, BlockStarts, Trimmed,
       NonBlank, Preamble, LeadingHeading, Section, Splits, SplitLevel, Occurrences

LEMMA NothingScanned ==
  ASSUME IInv, UNCHANGED vars
  PROVE  /\ Scanning' /\ HeadingsInOrder' /\ TitlesAreMarked' /\ Parity'
         /\ Rows' /\ Divided'
<1>1. UNCHANGED <<format, doc, inFence, headings, units, phase>>
  BY DEF vars
<1>2. Scanning'
  BY <1>1 DEF IInv, Scanning
<1>3. HeadingsInOrder' /\ TitlesAreMarked'
  BY <1>1 DEF IInv, HeadingsInOrder, TitlesAreMarked, Style
<1>4. Parity'
  BY <1>1 DEF IInv, Parity
<1>5. Rows'
  BY <1>1 DEF IInv, Rows, NonBlank
<1>6. Divided'
  BY <1>1, TextDivided DEF IInv, Divided
<1> QED
  BY <1>2, <1>3, <1>4, <1>5, <1>6

(* Each step of the scan, of the page and of the end keeps the invariant.   *)
LEMMA RowsKept ==
  ASSUME Scanning, Rows, NEW kind, CsvRow(kind)
  PROVE  Rows' /\ phase' = "scan"
<1>1. /\ format = "csv" /\ format' = format
      /\ phase = "scan" /\ phase' = phase
      /\ kind \in {"blank", "text"} /\ kind \in Kinds
      /\ doc' = Append(doc, kind)
      /\ units' = IF kind = "blank" THEN units ELSE Append(units, Row(Len(doc) + 1))
  BY DEF CsvRow, Row, Here, Kinds
<1>2. doc \in Seq(Kinds) /\ Len(doc) \in Nat
  BY DEF Scanning
<1>3. /\ Len(doc') = Len(doc) + 1
      /\ \A l \in 1..Len(doc) : doc'[l] = doc[l]
      /\ doc'[Len(doc) + 1] = kind
  BY <1>1, <1>2, LinesStay
<1> DEFINE new == NonBlank(1, Len(doc))'
<1>4. /\ units \in Seq(Unit)
      /\ \A n \in DOMAIN units : \E k \in NonBlank(1, Len(doc)) : units[n] = Row(k)
      /\ \A k \in NonBlank(1, Len(doc)) : \E n \in DOMAIN units : units[n] = Row(k)
      /\ \A m, n \in DOMAIN units : m < n =>
           \A k \in units[m].body, l \in units[n].body : k < l
  BY <1>1 DEF Rows
<1>5. CASE kind = "blank"
  <2>1. new = NonBlank(1, Len(doc))
    BY <1>2, <1>3, <1>5 DEF NonBlank
  <2> QED
    BY <1>1, <1>4, <1>5, <2>1 DEF Rows
<1>6. CASE kind # "blank"
  <2> DEFINE here == Len(doc) + 1
  <2>1. new = NonBlank(1, Len(doc)) \cup {here}
    BY <1>2, <1>3, <1>6 DEF NonBlank
  <2>2. units' = Append(units, Row(here))
    BY <1>1, <1>6
  <2>3. here \in Nat /\ \A k \in NonBlank(1, Len(doc)) : k \in Nat /\ k < here
    BY <1>2 DEF NonBlank
  <2> HIDE DEF here, new
  <2>4. Row(here) \in Unit /\ Row(here).body = {here}
    BY <2>3 DEF Row, Unit
  <2>5. /\ units' \in Seq(Unit) /\ Len(units) \in Nat
        /\ DOMAIN units' = 1..(Len(units) + 1) /\ DOMAIN units = 1..Len(units)
        /\ \A n \in DOMAIN units : units'[n] = units[n]
        /\ units'[Len(units) + 1] = Row(here)
    BY <1>4, <2>2, <2>4
  <2>6. \A n \in DOMAIN units' : \E k \in new : units'[n] = Row(k)
    <3> SUFFICES ASSUME NEW n \in DOMAIN units'
                 PROVE  \E k \in new : units'[n] = Row(k)
      OBVIOUS
    <3>1. CASE n = Len(units) + 1
      BY <3>1, <2>1, <2>5
    <3>2. CASE n \in DOMAIN units
      BY <3>2, <1>4, <2>1, <2>5
    <3> QED
      BY <3>1, <3>2, <2>5
  <2>7. \A k \in new : \E n \in DOMAIN units' : units'[n] = Row(k)
    <3> SUFFICES ASSUME NEW k \in new
                 PROVE  \E n \in DOMAIN units' : units'[n] = Row(k)
      OBVIOUS
    <3>1. CASE k = here
      <4>1. Len(units) + 1 \in DOMAIN units'
        BY <2>5
      <4> QED
        BY <4>1, <3>1, <2>5
    <3>2. CASE k \in NonBlank(1, Len(doc))
      <4>1. PICK n \in DOMAIN units : units[n] = Row(k)
        BY <3>2, <1>4
      <4>2. n \in DOMAIN units'
        BY <2>5
      <4> QED
        BY <4>1, <4>2, <2>5
    <3> QED
      BY <3>1, <3>2, <2>1
  <2>8. ASSUME NEW m \in DOMAIN units', NEW n \in DOMAIN units', m < n,
               NEW k \in units'[m].body, NEW l \in units'[n].body
        PROVE  k < l
    <3>1. m \in DOMAIN units /\ units'[m] = units[m]
      BY <2>5, <2>8
    <3>2. CASE n \in DOMAIN units
      BY <3>1, <3>2, <1>4, <2>5, <2>8
    <3>3. CASE n = Len(units) + 1
      <4>1. PICK j \in NonBlank(1, Len(doc)) : units[m] = Row(j)
        BY <3>1, <1>4
      <4>2. k = j /\ l = here
        BY <4>1, <3>1, <3>3, <2>4, <2>5, <2>8 DEF Row
      <4> QED
        BY <4>2, <2>3
    <3> QED
      BY <3>2, <3>3, <2>5
  <2> QED
    BY <1>1, <2>5, <2>6, <2>7, <2>8 DEF Rows, new
<1> QED
  BY <1>1, <1>5, <1>6

LEMMA LineKept ==
  ASSUME IInv, NEW kind \in Kinds, ScanLine(kind), UNCHANGED pageVars
  PROVE  IInv'
<1> USE DEF IInv
<1>1. Scanning'
  BY ScanningOn
<1>2. Reading'
  BY DEF Reading, pageVars
<1>3. CASE format = "csv"
  <2>1. CsvRow(kind)
    BY <1>3, RowIsScanned
  <2>2. Rows' /\ phase' = "scan" /\ format' = "csv"
    BY <1>3, <2>1, RowsKept DEF CsvRow
  <2>3. headings' = <<>>
    BY <1>1, <2>2 DEF Scanning
  <2>4. HeadingsInOrder' /\ TitlesAreMarked'
    <3>1. DOMAIN headings' = {}
      BY <2>3
    <3> QED
      BY <3>1 DEF HeadingsInOrder, TitlesAreMarked
  <2> QED
    BY <1>1, <1>2, <2>2, <2>4 DEF Parity, Divided
<1>4. CASE format # "csv"
  <2>1. phase' = "scan" /\ format' = format
    BY <1>4, LineIsScanned
  <2>2. HeadingsInOrder' /\ TitlesAreMarked'
    BY <1>4, HeadingsKept
  <2>3. Parity'
    BY <1>4, ParityKept
  <2> QED
    BY <1>1, <1>2, <1>4, <2>1, <2>2, <2>3 DEF Rows, Divided
<1> QED
  BY <1>3, <1>4

LEMMA EndKept ==
  ASSUME IInv, EndOfText, UNCHANGED pageVars
  PROVE  IInv'
<1> USE DEF IInv
<1>1. /\ UNCHANGED <<format, doc, inFence, headings>>
      /\ units' = IF format = "csv" THEN units ELSE SegmentText
      /\ phase' = IF units' = <<>> THEN "failed" ELSE "done"
  BY DEF EndOfText
<1>2. Scanning'
  BY <1>1 DEF Scanning
<1>3. HeadingsInOrder' /\ TitlesAreMarked'
  BY <1>1 DEF HeadingsInOrder, TitlesAreMarked, Style
<1>4. Parity'
  BY <1>1 DEF Parity
<1>5. Rows'
  BY <1>1 DEF Rows, NonBlank
<1>6. Divided'
  BY <1>1, TextDivided DEF Divided
<1>7. Reading'
  BY DEF Reading, pageVars
<1> QED
  BY <1>2, <1>3, <1>4, <1>5, <1>6, <1>7

LEMMA Begins ==
  ASSUME Documented
  PROVE  IInv
<1> USE DEF Documented, Init
<1>1. Scanning
  <2>1. <<>> \in Seq(Kinds) /\ <<>> \in Seq(Heading)
    OBVIOUS
  <2>2. inFence \in BOOLEAN
    OBVIOUS
  <2>3. phase \in {"scan", "done", "failed"}
    OBVIOUS
  <2> QED
    BY <2>1, <2>2, <2>3 DEF Scanning
<1>2. HeadingsInOrder /\ TitlesAreMarked
  BY DEF HeadingsInOrder, TitlesAreMarked
<1>3. Parity
  <2>1. FencesIn(doc, Len(doc)) = {}
    BY DEF FencesIn
  <2>2. Cardinality(FencesIn(doc, Len(doc))) = 0
    BY <2>1, FS_EmptySet
  <2>3. ~OddFences(doc, Len(doc))
    BY <2>2 DEF OddFences
  <2> QED
    BY <2>3 DEF Parity
<1>4. Rows
  BY DEF Rows, NonBlank
<1>5. Divided
  BY DEF Divided
<1>6. Reading
  <2>1. Block(0) \in BlockOfPage /\ Block(0).words = <<>>
    BY BlockIsEmpty
  <2> QED
    BY <2>1 DEF Reading
<1> QED
  BY <1>1, <1>2, <1>3, <1>4, <1>5, <1>6 DEF IInv

LEMMA PageKept ==
  ASSUME IInv, NEW kind \in {"open", "close", "text"}, NEW x \in Tags \cup Words,
         Token(<<kind, x>>),
         \/ UNCHANGED blocks
         \/ \E level \in {0} \cup {AtxLevel[tag] : tag \in HeadingTags} : Write(level)
  PROVE  IInv'
<1>1. Reading'
  BY BlocksStay DEF IInv
<1>2. UNCHANGED vars
  BY DEF Token
<1> QED
  BY <1>1, <1>2, NothingScanned DEF IInv

LEMMA StepsKeep ==
  ASSUME IInv, [Next]_docVars
  PROVE  IInv'
<1>1. CASE \E token \in Tokens : SkipToken(token)
  <2>1. PICK token \in Tokens : SkipToken(token)
    BY <1>1
  <2>2. PICK kind \in {"open", "close", "text"}, x \in Tags \cup Words : token = <<kind, x>>
    BY DEF Tokens
  <2> QED
    BY <2>1, <2>2, PageKept DEF SkipToken
<1>2. ASSUME NEW tag \in Tags, EndSkipping(tag)
      PROVE  IInv'
  BY <1>2, PageKept DEF EndSkipping
<1>3. ASSUME NEW tag \in Tags, DropElement(tag)
      PROVE  IInv'
  BY <1>3, PageKept DEF DropElement
<1>4. ASSUME NEW tag \in Tags, StrayEnd(tag)
      PROVE  IInv'
  BY <1>4, PageKept DEF StrayEnd
<1>5. ASSUME NEW tag \in Tags, OpenHeading(tag)
      PROVE  IInv'
  BY <1>5, PageKept DEF OpenHeading
<1>6. ASSUME NEW tag \in Tags, CloseHeading(tag)
      PROVE  IInv'
  BY <1>6, PageKept DEF CloseHeading
<1>7. ASSUME NEW tag \in Tags, EndLine(tag)
      PROVE  IInv'
  BY <1>7, PageKept DEF EndLine
<1>8. ASSUME NEW word \in Words, Text(word)
      PROVE  IInv'
  <2>1. Reading'
    BY <1>8, TextIsRead DEF IInv
  <2>2. UNCHANGED vars
    BY <1>8 DEF Text, Token
  <2> QED
    BY <2>1, <2>2, NothingScanned DEF IInv
<1>9. CASE EndOfPage
  <2>1. UNCHANGED vars /\ Reading'
    BY <1>9 DEF EndOfPage, IInv, Reading
  <2> QED
    BY <2>1, NothingScanned DEF IInv
<1>10. CASE ScanDocument
  <2>1. PICK kind \in Kinds : ScanLine(kind)
    <3>1. CASE format = "html"
      <4>1. Here \in DOMAIN TextLines /\ ScanLine(TextLines[Here])
        BY <1>10, <3>1 DEF ScanDocument
      <4>2. TextLines[Here] \in Kinds
        BY <4>1, LinesOfPage DEF IInv
      <4> QED
        BY <4>1, <4>2
    <3>2. CASE format # "html"
      BY <1>10, <3>2 DEF ScanDocument, Kinds
    <3> QED
      BY <3>1, <3>2
  <2> QED
    BY <1>10, <2>1, LineKept DEF ScanDocument
<1>11. CASE EndOfDocument
  BY <1>11, EndKept DEF EndOfDocument
<1>12. CASE UNCHANGED docVars
  <2>1. UNCHANGED vars /\ Reading'
    BY <1>12 DEF docVars, pageVars, IInv, Reading
  <2> QED
    BY <2>1, NothingScanned DEF IInv
<1> QED
  BY <1>1, <1>2, <1>3, <1>4, <1>5, <1>6, <1>7, <1>8, <1>9, <1>10, <1>11, <1>12 DEF Next

-----------------------------------------------------------------------------
(* Theorems.                                                                *)

(* What is scanned are lines and headings at levels 1 to 7, and what        *)
(* htmlToText writes are blocks whose first word is a text of the page, so  *)
(* that every line given to detectHeadings is one it knows.                 *)
THEOREM TypeCorrect == Spec => [](Scanning /\ Reading)
<1>1. Documented => IInv
  BY Begins
<1>2. IInv /\ [Next]_docVars => IInv'
  BY StepsKeep
<1>3. IInv => Scanning /\ Reading
  BY DEF IInv
<1> QED
  BY <1>1, <1>2, <1>3, PTL DEF Spec

(* In a document whose fences all use one marker detectHeadings finds no    *)
(* heading in code: the fences down to a heading are even in number, for a  *)
(* heading the underline test takes from the line above as for any other.   *)
(* With both markers they are even too, and that no longer keeps headings   *)
(* out of code: a fence of the other marker, inside a block, is counted.    *)
THEOREM FencesHoldNoHeading == Spec => []FencedIsCode
<1>1. Documented => IInv
  BY Begins
<1>2. IInv /\ [Next]_docVars => IInv'
  BY StepsKeep
<1>3. IInv => FencedIsCode
  <2> SUFFICES ASSUME IInv, NEW k \in DOMAIN headings
               PROVE  LET above == {l \in 1..headings[k].line : doc[l] \in Fences}
                      IN  ~(Cardinality(above) % 2 = 1)
    BY DEF FencedIsCode
  <2>1. format # "csv"
    BY DEF IInv, Scanning
  <2>2. ~OddFences(doc, headings[k].line)
    BY <2>1 DEF IInv, Parity
  <2> QED
    BY <2>2 DEF OddFences, FencesIn
<1> QED
  BY <1>1, <1>2, <1>3, PTL DEF Spec

(* The units of a document divided, of CSV or of text.                      *)
LEMMA UnitsAreWhole ==
  ASSUME IInv, phase # "scan"
  PROVE  /\ Whole(units)
         /\ units = <<>> <=> NonBlank(1, Len(doc)) = {}
         /\ phase = "failed" <=> units = <<>>
<1>1. phase = "failed" <=> units = <<>>
  BY DEF IInv, Divided
<1>2. CASE format # "csv"
  <2>1. units = SegmentText
    BY <1>2 DEF IInv, Divided
  <2> QED
    BY <1>1, <2>1, SegmentTextIs DEF IInv
<1>3. CASE format = "csv"
  <2> DEFINE all == NonBlank(1, Len(doc))
  <2>1. /\ units \in Seq(Unit)
        /\ \A n \in DOMAIN units : \E k \in all : units[n] = Row(k)
        /\ \A k \in all : \E n \in DOMAIN units : units[n] = Row(k)
        /\ \A m, n \in DOMAIN units : m < n =>
             \A k \in units[m].body, l \in units[n].body : k < l
    BY <1>3 DEF IInv, Rows
  <2>2. \A k \in all : LinesIn(Row(k)) = {k} /\ Row(k).body = {k}
    BY DEF LinesIn, Row
  <2> HIDE DEF all
  <2>3. \A n \in DOMAIN units : LinesIn(units[n]) = units[n].body
    BY <2>1, <2>2
  <2>4. all \ UNION {LinesIn(units[n]) : n \in DOMAIN units} = {}
    BY <2>1, <2>2
  <2>5. Whole(units)
    BY <2>1, <2>3, <2>4 DEF Whole, all
  <2>6. units = <<>> <=> all = {}
    BY <2>1
  <2> QED
    BY <1>1, <2>5, <2>6 DEF all
<1> QED
  BY <1>2, <1>3

(* segmentText, splitParagraphs and csvUnits lose no line that is not       *)
(* blank, but for a lone title, and keep the lines in order, in a document  *)
(* of any length with headings at any levels.                               *)
THEOREM TextIsWhole == Spec => []NothingLostOrMoved
<1>1. Documented => IInv
  BY Begins
<1>2. IInv /\ [Next]_docVars => IInv'
  BY StepsKeep
<1>3. IInv => NothingLostOrMoved
  <2> SUFFICES ASSUME IInv, phase # "scan"
               PROVE  NothingLostOrMoved
    BY DEF NothingLostOrMoved
  <2>1. Whole(units)
    BY UnitsAreWhole
  <2>2. \A n \in DOMAIN units : LinesOf(n) = LinesIn(units[n])
    BY DEF LinesOf, LinesIn
  <2>3. UNION {LinesOf(n) : n \in DOMAIN units} = UNION {LinesIn(units[n]) : n \in DOMAIN units}
    BY <2>2
  <2> QED
    BY <2>1, <2>2, <2>3 DEF NothingLostOrMoved, Whole, LoneTitle
<1> QED
  BY <1>1, <1>2, <1>3, PTL DEF Spec

(* extractUnits answers that there is no text exactly when every line is    *)
(* blank: a document with headings has sections, one without has a block.   *)
THEOREM BlankAloneFails == Spec => []OnlyBlankFails
<1>1. Documented => IInv
  BY Begins
<1>2. IInv /\ [Next]_docVars => IInv'
  BY StepsKeep
<1>3. IInv => OnlyBlankFails
  BY UnitsAreWhole DEF OnlyBlankFails
<1> QED
  BY <1>1, <1>2, <1>3, PTL DEF Spec

(* splitLevel passes over lone headings: when any level down to the sixth   *)
(* occurs twice, so does the one it chooses, and there are two sections.    *)
THEOREM HeadingsDivide == Spec => []DividesWhenItCan
<1>1. Documented => IInv
  BY Begins
<1>2. IInv /\ [Next]_docVars => IInv'
  BY StepsKeep
<1>3. IInv => DividesWhenItCan
  <2> SUFFICES ASSUME IInv, phase = "done", NEW l \in 1..DeepestLevel, Occurrences(l) > 1
               PROVE  Len(units) > 1
    BY DEF DividesWhenItCan
  <2>1. headings # <<>>
    <3>1. \E i, j \in AtLevel(l) : i # j
      BY OccursTwice DEF IInv
    <3> QED
      BY <3>1 DEF AtLevel
  <2>2. units = SegmentText
    BY <2>1 DEF IInv, Scanning, Divided
  <2>3. Len(Splits) > 1
    BY <2>1, SplitsAre DEF IInv
  <2>4. /\ Len(SegmentText) = Len(Preamble) + Len(Splits)
        /\ Len(Preamble) \in Nat /\ Len(Splits) \in Nat
    BY <2>1, WithHeadings DEF IInv
  <2> QED
    BY <2>2, <2>3, <2>4
<1> QED
  BY <1>1, <1>2, <1>3, PTL DEF Spec

(* In markup a heading recorded is one splitLeadingHeading knows, so that   *)
(* alone above the sections it leaves no body.                              *)
LEMMA TitleHasNoBody ==
  ASSUME Scanning, HeadingsInOrder, TitlesAreMarked, Style = "markup",
         NEW k \in DOMAIN headings, NEW to \in Nat,
         NonBlank(1, to) = HeadingLines(headings[k].line)
  PROVE  LeadingHeading(to).body = {}
<1> DEFINE t == headings[k].line
           text == Trimmed(1, to)
           first == Min(text)
<1>1. t \in NonBlank(1, to) /\ NonBlank(1, to) \subseteq {t, t + 1}
  BY HeadingLinesAre
<1>2. t \in 1..Len(doc) /\ Len(doc) \in Nat /\ t \in Nat
  BY DEF HeadingsInOrder, Scanning
<1>3. /\ NonBlank(1, to) \subseteq text
      /\ first \in NonBlank(1, to)
      /\ \A l \in text : first <= l
  BY <1>1, TrimmedIs
<1>4. first = t
  BY <1>1, <1>2, <1>3
<1>5. \/ doc[t] \in DOMAIN AtxLevel
      \/ t + 1 \in 1..Len(doc) /\ doc[t + 1] \in Underlines
  BY DEF TitlesAreMarked
<1>6. \A from \in Nat \ {0} : NonBlank(from, to) = {} => Trimmed(from, to) = {}
  BY TrimmedIs
<1>7. LeadingHeading(to)
        = IF doc[first] \in DOMAIN AtxLevel
            THEN [title |-> first, body |-> Trimmed(first + 1, to)]
          ELSE IF first + 1 \in text /\ doc[first + 1] \in Underlines
            THEN [title |-> first, body |-> Trimmed(first + 2, to)]
          ELSE [title |-> 0, body |-> text]
  BY DEF LeadingHeading
<1> HIDE DEF t, text, first
<1>8. CASE doc[t] \in DOMAIN AtxLevel
  <2>1. HeadingLines(t) = {t}
    BY <1>8 DEF HeadingLines
  <2>2. NonBlank(t + 1, to) = {}
    <3>1. NonBlank(1, to) = {t}
      BY <2>1 DEF t
    <3>2. NonBlank(t + 1, to) \subseteq NonBlank(1, to) \ {t}
      BY <1>2 DEF NonBlank
    <3> QED
      BY <3>1, <3>2
  <2>3. Trimmed(t + 1, to) = {}
    BY <1>2, <1>6, <2>2
  <2> QED
    BY <1>4, <1>7, <1>8, <2>3
<1>9. CASE doc[t] \notin DOMAIN AtxLevel
  <2>1. t < Len(doc) /\ doc[t + 1] \in Underlines
    BY <1>2, <1>5, <1>9
  <2>2. NonBlank(1, to) = {t, t + 1}
    BY <1>9, <2>1 DEF HeadingLines, t
  <2>3. NonBlank(t + 2, to) = {}
    <3>1. NonBlank(t + 2, to) \subseteq NonBlank(1, to) \ {t, t + 1}
      BY <1>2 DEF NonBlank
    <3> QED
      BY <2>2, <3>1
  <2>4. Trimmed(t + 2, to) = {}
    BY <1>2, <1>6, <2>3
  <2>5. t + 1 \in text
    BY <1>3, <2>2
  <2> QED
    BY <1>4, <1>7, <1>9, <2>1, <2>4, <2>5
<1> QED
  BY <1>8, <1>9

(* segmentText makes no unit of a lone title in Markdown or HTML, whichever *)
(* of its two forms it has and wherever it stands above the sections.       *)
THEOREM TitleIsNoConcept == Spec => []LoneTitleIsNoConcept
<1>1. Documented => IInv
  BY Begins
<1>2. IInv /\ [Next]_docVars => IInv'
  BY StepsKeep
<1>3. IInv => LoneTitleIsNoConcept
  <2> DEFINE to == Splits[1].line - 1
  <2> SUFFICES ASSUME IInv, phase = "done", Style = "markup", headings # <<>>,
                      NEW k \in DOMAIN headings,
                      NonBlank(1, to) = HeadingLines(headings[k].line)
               PROVE  Len(units) = Len(Splits)
    BY DEF LoneTitleIsNoConcept
  <2>1. units = SegmentText
    BY DEF IInv, Scanning, Divided
  <2>2. /\ Len(SegmentText) = Len(Preamble) + Len(Splits)
        /\ Len(Preamble) \in Nat /\ Len(Splits) \in Nat
    BY WithHeadings DEF IInv
  <2>3. Preamble = <<>>
    <3>1. to \in Nat
      <4>1. 1 \in 1..Len(Splits)
        BY SplitsAre DEF IInv
      <4>2. Splits[1].line \in 1..Len(doc)
        BY <4>1, SplitLines DEF IInv
      <4> QED
        BY <4>2 DEF IInv, Scanning
    <3>2. LeadingHeading(to).body = {}
      BY <3>1, TitleHasNoBody DEF IInv
    <3> QED
      BY <3>2 DEF Preamble
  <2> QED
    BY <2>1, <2>2, <2>3
<1> QED
  BY <1>1, <1>2, <1>3, PTL DEF Spec

-----------------------------------------------------------------------------
(* One set of numbers has one ascending sequence.                           *)
LEMMA AscendingIsOne ==
  ASSUME NEW S, NEW n \in Nat, NEW q, NEW r, Ascending(q, S, n), Ascending(r, S, n)
  PROVE  q = r
<1>1. ASSUME NEW a, NEW b, Ascending(a, S, n), Ascending(b, S, n), NEW m \in Nat,
             \A i \in 1..m : i \in DOMAIN a /\ i \in DOMAIN b => a[i] = b[i],
             m + 1 \in DOMAIN a
      PROVE  \E j \in DOMAIN b : j >= m + 1 /\ b[j] = a[m + 1]
  <2>1. a \in Seq(S \cap (1..n)) /\ b \in Seq(S \cap (1..n))
    BY <1>1 DEF Ascending
  <2>2. a[m + 1] \in S \cap (1..n)
    BY <1>1, <2>1
  <2>3. PICK j \in DOMAIN b : b[j] = a[m + 1]
    BY <1>1, <2>2 DEF Ascending
  <2>4. j \in Nat /\ j >= 1
    BY <2>1
  <2>5. CASE j <= m
    <3>1. j \in 1..m /\ j \in DOMAIN a
      BY <1>1, <2>1, <2>4, <2>5
    <3>2. a[j] = a[m + 1] /\ a[j] < a[m + 1]
      BY <1>1, <2>3, <2>5, <3>1 DEF Ascending
    <3>3. a[m + 1] \in Nat
      BY <2>2
    <3> QED
      BY <3>2, <3>3
  <2> QED
    BY <2>3, <2>4, <2>5
<1> DEFINE Same(i) == /\ i \in DOMAIN q <=> i \in DOMAIN r
                      /\ i \in DOMAIN q => q[i] = r[i]
           T == {m \in Nat : \A i \in 1..m : Same(i)}
<1>2. 0 \in T
  OBVIOUS
<1>3. ASSUME NEW m \in Nat, m \in T
      PROVE  m + 1 \in T
  <2>1. \A i \in 1..m : Same(i)
    BY <1>3
  <2>2. ASSUME NEW a, NEW b, Ascending(a, S, n), Ascending(b, S, n),
               \A i \in 1..m : i \in DOMAIN a /\ i \in DOMAIN b => a[i] = b[i],
               m + 1 \in DOMAIN a
        PROVE  m + 1 \in DOMAIN b /\ b[m + 1] <= a[m + 1]
    <3>1. PICK j \in DOMAIN b : j >= m + 1 /\ b[j] = a[m + 1]
      BY <1>1, <2>2
    <3>2. b \in Seq(S \cap (1..n))
      BY <2>2 DEF Ascending
    <3>3. m + 1 \in DOMAIN b
      BY <3>1, <3>2
    <3>4. b[m + 1] \in Nat /\ b[j] \in Nat
      BY <3>1, <3>2, <3>3
    <3>5. m + 1 < j => b[m + 1] < b[j]
      BY <2>2, <3>1, <3>3 DEF Ascending
    <3>6. m + 1 < j \/ m + 1 = j
      BY <3>1, <3>2
    <3> QED
      BY <3>1, <3>3, <3>4, <3>5, <3>6
  <2>3. m + 1 \in DOMAIN q => m + 1 \in DOMAIN r /\ r[m + 1] <= q[m + 1]
    BY <2>1, <2>2
  <2>4. m + 1 \in DOMAIN r => m + 1 \in DOMAIN q /\ q[m + 1] <= r[m + 1]
    BY <2>1, <2>2
  <2>5. \A i \in DOMAIN q : q[i] \in Nat
    BY DEF Ascending
  <2>6. \A i \in DOMAIN r : r[i] \in Nat
    BY DEF Ascending
  <2>7. Same(m + 1)
    BY <2>3, <2>4, <2>5, <2>6
  <2>8. \A i \in 1..(m + 1) : i \in 1..m \/ i = m + 1
    OBVIOUS
  <2> HIDE DEF Same
  <2> QED
    BY <2>1, <2>7, <2>8
<1>4. Nat \subseteq T
  <2> HIDE DEF T
  <2> QED
    BY <1>2, <1>3, Counting
<1>5. q \in Seq(S \cap (1..n)) /\ r \in Seq(S \cap (1..n))
  BY DEF Ascending
<1>6. \A i \in Nat \ {0} : Same(i)
  <2> TAKE i \in Nat \ {0}
  <2>1. i \in T /\ i \in 1..i
    BY <1>4
  <2> QED
    BY <2>1
<1>7. DOMAIN q = DOMAIN r /\ \A i \in DOMAIN q : q[i] = r[i]
  BY <1>5, <1>6
<1> QED
  BY <1>5, <1>7

-----------------------------------------------------------------------------
(* The elements that are open.                                              *)

OpenStep(stack, token) ==
  IF token[1] = "text" \/ token[2] \in BlockTags THEN stack
  ELSE IF token[1] = "open" THEN Append(stack, token[2])
  ELSE IF stack # <<>> /\ Last(stack) = token[2] THEN Front(stack)
  ELSE <<None>> \o stack

Opens(tokens, open, k) ==
  IF k = 0 THEN <<>> ELSE OpenStep(open[k - 1], tokens[k])

(* The function OpenIn is written with exists, and any two agree as far as  *)
(* their tokens do.                                                         *)
LEMMA OpenRuns ==
  ASSUME NEW p, NEW n \in Nat
  PROVE  \E f : f = [k \in 0..n |-> Opens(p, f, k)]
<1> DEFINE T == {m \in Nat : \E f : f = [k \in 0..m |-> Opens(p, f, k)]}
<1>1. 0 \in T
  <2> DEFINE f == [k \in 0..0 |-> <<>>]
  <2>1. f = [k \in 0..0 |-> Opens(p, f, k)]
    BY DEF Opens
  <2> QED
    BY <2>1
<1>2. ASSUME NEW m \in Nat, m \in T
      PROVE  m + 1 \in T
  <2>1. PICK f : f = [k \in 0..m |-> Opens(p, f, k)]
    BY <1>2
  <2> DEFINE g == [k \in 0..(m + 1) |->
                     IF k = m + 1 THEN Opens(p, f, k) ELSE f[k]]
  <2>2. ASSUME NEW k \in 0..(m + 1)
        PROVE  g[k] = Opens(p, g, k)
    <3>1. k # 0 => k - 1 \in 0..m /\ g[k - 1] = f[k - 1]
      OBVIOUS
    <3>2. Opens(p, g, k) = Opens(p, f, k)
      BY <3>1 DEF Opens
    <3>3. CASE k = m + 1
      BY <3>2, <3>3
    <3>4. CASE k \in 0..m
      <4>1. f[k] = Opens(p, f, k)
        BY <2>1, <3>4
      <4>2. k # m + 1
        BY <3>4
      <4> QED
        BY <4>1, <4>2, <3>2
    <3> QED
      BY <3>3, <3>4
  <2>3. g = [k \in 0..(m + 1) |-> Opens(p, g, k)]
    BY <2>2
  <2>4. m + 1 \in Nat
    OBVIOUS
  <2> HIDE DEF g
  <2> QED
    BY <2>3, <2>4
<1>3. Nat \subseteq T
  <2> HIDE DEF T
  <2> QED
    BY <1>1, <1>2, Counting
<1> QED
  BY <1>3

Alike(p, q, n) == \A k \in 1..n : p[k] = q[k]

OpensTo(p, n, f) == f = [k \in 0..n |-> Opens(p, f, k)]

LEMMA OpensAgree ==
  ASSUME NEW p, NEW q, NEW n \in Nat, NEW m \in Nat, NEW f, NEW g,
         OpensTo(p, n, f), OpensTo(q, m, g),
         NEW l \in Nat, l <= n, l <= m, Alike(p, q, l)
  PROVE  f[l] = g[l]
<1> DEFINE T == {k \in Nat : k <= l => f[k] = g[k]}
<1>1. 0 \in T
  <2>1. 0 \in 0..n /\ 0 \in 0..m
    OBVIOUS
  <2>2. f[0] = Opens(p, f, 0) /\ g[0] = Opens(q, g, 0)
    BY <2>1 DEF OpensTo
  <2> QED
    BY <2>2 DEF Opens
<1>2. ASSUME NEW k \in Nat, k \in T
      PROVE  k + 1 \in T
  <2> SUFFICES ASSUME k + 1 <= l
               PROVE  f[k + 1] = g[k + 1]
    OBVIOUS
  <2>1. k + 1 \in 0..n /\ k + 1 \in 0..m /\ (k + 1) - 1 = k /\ k + 1 # 0
    OBVIOUS
  <2>2. f[k + 1] = Opens(p, f, k + 1) /\ g[k + 1] = Opens(q, g, k + 1)
    BY <2>1 DEF OpensTo
  <2>3. f[k] = g[k] /\ p[k + 1] = q[k + 1]
    BY <1>2 DEF Alike
  <2> QED
    BY <2>1, <2>2, <2>3 DEF Opens
<1>3. Nat \subseteq T
  <2> HIDE DEF T
  <2> QED
    BY <1>1, <1>2, Counting
<1>4. l \in T /\ l <= l
  BY <1>3
<1> QED
  BY <1>4

LEMMA OpenInIs ==
  ASSUME NEW p, NEW n \in Nat
  PROVE  \E f : OpensTo(p, n, f) /\ OpenIn(p, n) = f[n]
<1> DEFINE F == CHOOSE f : f = [k \in 0..n |-> Opens(p, f, k)]
<1>1. F = [k \in 0..n |-> Opens(p, F, k)]
  BY OpenRuns
<1>2. OpenIn(p, n) = F[n]
  BY DEF OpenIn, Opens, OpenStep
<1> HIDE DEF F
<1> QED
  BY <1>1, <1>2 DEF OpensTo

LEMMA OpenKept ==
  ASSUME NEW p, NEW q, NEW n \in Nat, \A k \in 1..n : p[k] = q[k]
  PROVE  OpenIn(p, n) = OpenIn(q, n)
<1>1. PICK f : OpensTo(p, n, f) /\ OpenIn(p, n) = f[n]
  BY OpenInIs
<1>2. PICK g : OpensTo(q, n, g) /\ OpenIn(q, n) = g[n]
  BY OpenInIs
<1>3. n <= n /\ Alike(p, q, n)
  BY DEF Alike
<1>4. OpensTo(p, n, f) /\ OpensTo(q, n, g)
  BY <1>1, <1>2
<1>5. f[n] = g[n]
  BY <1>3, <1>4, OpensAgree
<1> QED
  BY <1>1, <1>2, <1>5

LEMMA OpenNext ==
  ASSUME NEW p, NEW n \in Nat
  PROVE  /\ OpenIn(p, 0) = <<>>
         /\ OpenIn(p, n + 1) = OpenStep(OpenIn(p, n), p[n + 1])
<1>1. OpenIn(p, 0) = <<>>
  <2>1. PICK f : OpensTo(p, 0, f) /\ OpenIn(p, 0) = f[0]
    BY OpenInIs
  <2>2. 0 \in 0..0 /\ f[0] = Opens(p, f, 0)
    BY <2>1 DEF OpensTo
  <2> QED
    BY <2>1, <2>2 DEF Opens
<1>2. n + 1 \in Nat /\ n + 1 # 0 /\ (n + 1) - 1 = n
  OBVIOUS
<1>3. PICK f : OpensTo(p, n, f) /\ OpenIn(p, n) = f[n]
  BY OpenInIs
<1>4. PICK g : OpensTo(p, n + 1, g) /\ OpenIn(p, n + 1) = g[n + 1]
  BY <1>2, OpenInIs
<1>5. f[n] = g[n]
  <2>1. n <= n /\ n <= n + 1 /\ Alike(p, p, n)
    BY DEF Alike
  <2> QED
    BY <1>2, <1>3, <1>4, <2>1, OpensAgree
<1>6. g[n + 1] = OpenStep(g[n], p[n + 1])
  <2> DEFINE m == n + 1
  <2>1. m \in Nat /\ m \in 0..m /\ OpensTo(p, m, g)
    BY <1>2, <1>4
  <2> HIDE DEF m
  <2>2. g[m] = Opens(p, g, m)
    BY <2>1 DEF OpensTo
  <2> QED
    BY <2>2, <1>2 DEF Opens, m
<1> QED
  BY <1>1, <1>3, <1>4, <1>5, <1>6

Stacks == Seq(Tags \cup {None})

(* An element was closed out of turn.                                       *)
Broken(s) == s # <<>> /\ s[1] = None

Once(s) ==
  \A i, j \in DOMAIN s : s[i] = s[j] /\ s[i] \in DroppedTags => i = j

LEMMA TokenKinds ==
  ASSUME NEW token \in Tokens
  PROVE  \/ token[1] = "text" /\ token[2] \in Words
         \/ token[1] = "open" /\ token[2] \in Tags
         \/ token[1] = "close" /\ token[2] \in Tags \ BlockTags
BY DEF Tokens

LEMMA TagsAre ==
  /\ \A t \in HeadingTags : t \in Tags \ (BlockTags \cup DroppedTags)
  /\ \A t \in BlockTags : t \in Tags \ (HeadingTags \cup DroppedTags)
  /\ \A t \in DroppedTags : t \in Tags \ (HeadingTags \cup BlockTags)
  /\ None \notin Tags
  /\ Words \cap DroppedTags = {}
BY DocumentsAssumption DEF Tags

LEMMA Pushed ==
  ASSUME NEW s \in Stacks, NEW token \in Tokens,
         token[1] = "open", token[2] \notin BlockTags
  PROVE  LET r == OpenStep(s, token)
         IN  /\ r \in Stacks /\ Len(r) = Len(s) + 1
             /\ \A i \in 1..Len(s) : r[i] = s[i]
             /\ r[Len(s) + 1] = token[2]
<1>1. OpenStep(s, token) = Append(s, token[2])
  BY DEF OpenStep
<1>2. token[2] \in Tags \cup {None}
  BY TokenKinds
<1> QED
  BY <1>1, <1>2 DEF Stacks

LEMMA Popped ==
  ASSUME NEW s \in Stacks, NEW token \in Tokens,
         token[1] = "close", s # <<>>, s[Len(s)] = token[2]
  PROVE  LET r == OpenStep(s, token)
         IN  /\ r \in Stacks /\ Len(r) = Len(s) - 1
             /\ \A i \in 1..(Len(s) - 1) : r[i] = s[i]
<1>1. token[2] \notin BlockTags
  BY TokenKinds
<1>2. OpenStep(s, token) = SubSeq(s, 1, Len(s) - 1)
  BY <1>1 DEF OpenStep, Last, Front
<1> DEFINE T == Tags \cup {None}
           n == Len(s) - 1
           r == SubSeq(s, 1, n)
<1>3. s \in Seq(T) /\ n \in Nat /\ n <= Len(s) /\ Len(s) \in Nat
  BY DEF Stacks
<1> HIDE DEF T, n
<1>4. \A i \in 1..n : s[i] \in T
  BY <1>3
<1>5. r \in Seq(T) /\ Len(r) = n /\ \A i \in 1..n : r[i] = s[i]
  BY <1>3, <1>4
<1> QED
  BY <1>2, <1>5 DEF Stacks, T, n

LEMMA OutOfTurn ==
  ASSUME NEW s \in Stacks, NEW token \in Tokens,
         token[1] = "close", ~(s # <<>> /\ s[Len(s)] = token[2])
  PROVE  OpenStep(s, token) \in Stacks /\ Broken(OpenStep(s, token))
<1>1. token[2] \notin BlockTags
  BY TokenKinds
<1>2. OpenStep(s, token) = <<None>> \o s
  BY <1>1 DEF OpenStep, Last
<1>3. <<None>> \in Stacks /\ Len(<<None>>) = 1 /\ <<None>>[1] = None
  BY DEF Stacks
<1>4. /\ <<None>> \o s \in Stacks /\ Len(<<None>> \o s) = 1 + Len(s)
      /\ (<<None>> \o s)[1] = None
  BY <1>3 DEF Stacks
<1>5. Len(s) \in Nat
  BY DEF Stacks
<1>6. <<None>> \o s # <<>>
  BY <1>4, <1>5
<1> QED
  BY <1>2, <1>4, <1>6 DEF Broken

LEMMA Unmoved ==
  ASSUME NEW s, NEW token, token[1] = "text" \/ token[2] \in BlockTags
  PROVE  OpenStep(s, token) = s
BY DEF OpenStep

(* Once an element was closed out of turn, the page has been.               *)
LEMMA BrokenStays ==
  ASSUME NEW s \in Stacks, NEW token \in Tokens
  PROVE  /\ OpenStep(s, token) \in Stacks
         /\ Broken(s) => Broken(OpenStep(s, token))
<1>1. CASE token[1] = "text" \/ token[2] \in BlockTags
  BY <1>1, Unmoved
<1>2. CASE token[1] = "open" /\ token[2] \notin BlockTags
  <2>1. LET r == OpenStep(s, token)
        IN  /\ r \in Stacks /\ Len(r) = Len(s) + 1
            /\ \A i \in 1..Len(s) : r[i] = s[i]
    BY <1>2, Pushed
  <2>2. Broken(s) => 1 \in 1..Len(s)
    BY DEF Broken, Stacks
  <2>3. Len(s) \in Nat
    BY DEF Stacks
  <2>4. OpenStep(s, token) # <<>>
    BY <2>1, <2>3
  <2> QED
    BY <2>1, <2>2, <2>4 DEF Broken
<1>3. CASE token[1] = "close" /\ ~(s # <<>> /\ s[Len(s)] = token[2])
  BY <1>3, OutOfTurn
<1>4. CASE token[1] = "close" /\ s # <<>> /\ s[Len(s)] = token[2]
  <2>1. LET r == OpenStep(s, token)
        IN  /\ r \in Stacks /\ Len(r) = Len(s) - 1
            /\ \A i \in 1..(Len(s) - 1) : r[i] = s[i]
    BY <1>4, Popped
  <2>2. token[2] \in Tags /\ token[2] # None
    BY <1>4, TokenKinds, TagsAre
  <2>3. Len(s) \in Nat \ {0}
    BY <1>4 DEF Stacks
  <2>4. Broken(s) => Len(s) # 1
    BY <1>4, <2>2 DEF Broken
  <2>5. Broken(s) => 1 \in 1..(Len(s) - 1) /\ Len(s) - 1 # 0
    BY <2>3, <2>4
  <2>6. Len(s) - 1 # 0 => OpenStep(s, token) # <<>>
    BY <2>1
  <2> QED
    BY <2>1, <2>5, <2>6 DEF Broken
<1> QED
  BY <1>1, <1>2, <1>3, <1>4, TokenKinds

-----------------------------------------------------------------------------
(* A page that closes its elements in turn, as far as it is read.           *)

InTurn ==
  \A n \in 0..Len(page) : ~Broken(OpenAfter(n)) /\ Once(OpenAfter(n))

Open == OpenAfter(Len(page))

LEMMA StacksAre ==
  ASSUME page \in Seq(Tokens)
  PROVE  \A n \in 0..Len(page) :
           /\ OpenAfter(n) \in Stacks
           /\ n # 0 => OpenAfter(n) = OpenStep(OpenAfter(n - 1), page[n])
<1> DEFINE T == {m \in Nat : m <= Len(page) => OpenAfter(m) \in Stacks}
<1>1. Len(page) \in Nat
  OBVIOUS
<1>2. \A n \in Nat : OpenAfter(n + 1) = OpenStep(OpenAfter(n), page[n + 1])
  BY OpenNext DEF OpenAfter
<1>3. 0 \in T
  <2>1. OpenAfter(0) = <<>>
    BY OpenNext DEF OpenAfter
  <2>2. <<>> \in Stacks
    BY DEF Stacks
  <2> QED
    BY <2>1, <2>2
<1>4. ASSUME NEW m \in Nat, m \in T
      PROVE  m + 1 \in T
  <2> SUFFICES ASSUME m + 1 <= Len(page)
               PROVE  OpenAfter(m + 1) \in Stacks
    OBVIOUS
  <2>1. OpenAfter(m) \in Stacks
    BY <1>1, <1>4
  <2>2. page[m + 1] \in Tokens
    BY <1>1
  <2> QED
    BY <2>1, <2>2, <1>2, BrokenStays
<1>5. Nat \subseteq T
  <2> HIDE DEF T
  <2> QED
    BY <1>3, <1>4, Counting
<1> SUFFICES ASSUME NEW n \in 0..Len(page)
             PROVE  /\ OpenAfter(n) \in Stacks
                    /\ n # 0 => OpenAfter(n) = OpenStep(OpenAfter(n - 1), page[n])
  OBVIOUS
<1>6. OpenAfter(n) \in Stacks
  BY <1>1, <1>5
<1>7. n # 0 => n - 1 \in Nat /\ (n - 1) + 1 = n
  BY <1>1
<1> QED
  BY <1>2, <1>6, <1>7

LEMMA WellFormedInTurn ==
  ASSUME page \in Seq(Tokens), WellFormed
  PROVE  InTurn
<1>1. Len(page) \in Nat
  OBVIOUS
<1>2. SUFFICES ASSUME NEW n \in 0..Len(page)
               PROVE  ~Broken(OpenAfter(n)) /\ Once(OpenAfter(n))
  BY DEF InTurn
<1>3. Once(OpenAfter(n))
  <2>1. CASE n = 0
    <3>1. OpenAfter(0) = <<>>
      BY OpenNext DEF OpenAfter
    <3> QED
      BY <2>1, <3>1 DEF Once
  <2>2. CASE n # 0
    <3>1. n \in DOMAIN page
      BY <1>1, <2>2
    <3> QED
      BY <3>1 DEF WellFormed, Once
  <2> QED
    BY <2>1, <2>2
<1>4. ASSUME Broken(OpenAfter(n))
      PROVE  FALSE
  <2> DEFINE T == {m \in Nat : n + m <= Len(page) => Broken(OpenAfter(n + m))}
  <2>1. 0 \in T
    <3>1. n + 0 = n
      OBVIOUS
    <3> QED
      BY <1>4, <3>1
  <2>2. ASSUME NEW m \in Nat, m \in T
        PROVE  m + 1 \in T
    <3> DEFINE k == n + m
    <3> SUFFICES ASSUME n + (m + 1) <= Len(page)
                 PROVE  Broken(OpenAfter(n + (m + 1)))
      OBVIOUS
    <3>1. k \in Nat /\ k + 1 = n + (m + 1) /\ k + 1 \in 0..Len(page) /\ k \in 0..Len(page)
      BY <1>1
    <3>2. Broken(OpenAfter(k))
      BY <2>2, <1>1, <3>1
    <3> HIDE DEF k
    <3>3. OpenAfter(k) \in Stacks /\ page[k + 1] \in Tokens
      BY <3>1, StacksAre
    <3>4. OpenAfter(k + 1) = OpenStep(OpenAfter(k), page[k + 1])
      BY <3>1, OpenNext DEF OpenAfter
    <3>5. Broken(OpenAfter(k + 1))
      BY <3>2, <3>3, <3>4, BrokenStays
    <3> QED
      BY <3>1, <3>5
  <2>3. Nat \subseteq T
    <3> HIDE DEF T
    <3> QED
      BY <2>1, <2>2, Counting
  <2> DEFINE d == Len(page) - n
  <2>4. d \in Nat /\ n + d = Len(page) /\ n + d <= Len(page)
    BY <1>1
  <2> HIDE DEF d
  <2>5. Broken(OpenAfter(n + d))
    BY <2>3, <2>4
  <2> QED
    BY <2>4, <2>5 DEF WellFormed, Broken
<1> QED
  BY <1>3, <1>4

(* A token leaves what was open before it, and opens or closes its element. *)
LEMMA Goes ==
  ASSUME page \in Seq(Tokens), NEW token \in Tokens, Token(token)
  PROVE  /\ page' \in Seq(Tokens) /\ Len(page') = Len(page) + 1
         /\ \A n \in 1..Len(page) : page'[n] = page[n]
         /\ page'[Len(page) + 1] = token
         /\ \A n \in 0..Len(page) : OpenAfter(n)' = OpenAfter(n)
         /\ Open \in Stacks /\ Open' = OpenStep(Open, token)
<1>1. page' = Append(page, token)
  BY DEF Token
<1>2. /\ page' \in Seq(Tokens) /\ Len(page') = Len(page) + 1 /\ Len(page) \in Nat
      /\ \A n \in 1..Len(page) : page'[n] = page[n]
      /\ page'[Len(page) + 1] = token
  BY <1>1
<1>3. ASSUME NEW n \in 0..Len(page)
      PROVE  OpenAfter(n)' = OpenAfter(n)
  <2>1. n \in Nat /\ \A k \in 1..n : page'[k] = page[k]
    BY <1>2
  <2>2. OpenIn(page', n) = OpenIn(page, n)
    BY <2>1, OpenKept
  <2> QED
    BY <2>2 DEF OpenAfter
<1>4. Open \in Stacks
  BY <1>2, StacksAre DEF Open
<1>5. Open' = OpenStep(Open, token)
  <2>1. OpenIn(page', Len(page) + 1) = OpenStep(OpenIn(page', Len(page)), page'[Len(page) + 1])
    BY <1>2, OpenNext
  <2>2. OpenIn(page', Len(page)) = Open
    BY <1>2, <1>3 DEF OpenAfter, Open
  <2>3. Open' = OpenIn(page', Len(page) + 1)
    BY <1>2 DEF Open, OpenAfter
  <2> QED
    BY <1>2, <2>1, <2>2, <2>3
<1> QED
  BY <1>2, <1>3, <1>4, <1>5

LEMMA GoesInTurn ==
  ASSUME page \in Seq(Tokens), NEW token \in Tokens, Token(token), InTurn'
  PROVE  /\ InTurn /\ Once(Open)
         /\ token[1] = "close" => Open # <<>> /\ Open[Len(Open)] = token[2]
<1>1. /\ Len(page') = Len(page) + 1 /\ Len(page) \in Nat
      /\ \A n \in 0..Len(page) : OpenAfter(n)' = OpenAfter(n)
      /\ Open \in Stacks /\ Open' = OpenStep(Open, token)
  BY Goes
<1>2. \A n \in 0..(Len(page) + 1) : ~Broken(OpenAfter(n)') /\ Once(OpenAfter(n)')
  BY <1>1 DEF InTurn, Broken, Once
<1>3. InTurn
  BY <1>1, <1>2 DEF InTurn
<1>4. Once(Open)
  BY <1>1, <1>3 DEF InTurn, Open
<1>5. ~Broken(Open')
  BY <1>1, <1>2 DEF Open
<1>6. token[1] = "close" => Open # <<>> /\ Open[Len(Open)] = token[2]
  BY <1>1, <1>5, OutOfTurn
<1> QED
  BY <1>3, <1>4, <1>6

-----------------------------------------------------------------------------
(* skipping and headingLevel, one name and one number, say of the elements  *)
(* that are open what htmlToText has to know.                               *)

Clear(s, p) == \A q \in 1..p : s[q] \notin DroppedTags

(* skipping is the outermost element of those that are dropped.             *)
SkippingIs(s, k) ==
  IF k = None THEN Clear(s, Len(s))
  ELSE \E p \in 1..Len(s) : s[p] = k /\ Clear(s, p - 1)

InHeading(s) == \E p \in 1..Len(s) : s[p] \in HeadingTags /\ Clear(s, p)

Elements ==
  /\ page \in Seq(Tokens)
  /\ skipping \in DroppedTags \cup {None}
  /\ InTurn => SkippingIs(Open, skipping) /\ (headingLevel # 0 => InHeading(Open))

LEMMA ElementsPushed ==
  ASSUME NEW s \in Stacks, NEW r \in Stacks, Len(r) = Len(s) + 1,
         \A i \in 1..Len(s) : r[i] = s[i]
  PROVE  /\ \A k : k # None /\ SkippingIs(s, k) => SkippingIs(r, k)
         /\ InHeading(s) => InHeading(r)
         /\ Clear(s, Len(s)) /\ r[Len(r)] \in DroppedTags => SkippingIs(r, r[Len(r)])
         /\ Clear(s, Len(s)) /\ r[Len(r)] \in HeadingTags =>
              SkippingIs(r, None) /\ InHeading(r)
<1>1. Len(s) \in Nat /\ Len(r) \in Nat /\ Len(r) - 1 = Len(s) /\ Len(r) \in 1..Len(r)
  BY DEF Stacks
<1>2. \A p \in 0..Len(s) : Clear(s, p) => Clear(r, p)
  BY <1>1 DEF Clear
<1>3. ASSUME NEW k, k # None, SkippingIs(s, k)
      PROVE  SkippingIs(r, k)
  <2>1. PICK p \in 1..Len(s) : s[p] = k /\ Clear(s, p - 1)
    BY <1>3 DEF SkippingIs
  <2>2. p \in 1..Len(r) /\ r[p] = k /\ p - 1 \in 0..Len(s)
    BY <1>1, <2>1
  <2> QED
    BY <1>2, <1>3, <2>1, <2>2 DEF SkippingIs
<1>4. ASSUME InHeading(s)
      PROVE  InHeading(r)
  <2>1. PICK p \in 1..Len(s) : s[p] \in HeadingTags /\ Clear(s, p)
    BY <1>4 DEF InHeading
  <2>2. p \in 1..Len(r) /\ r[p] = s[p] /\ p \in 0..Len(s)
    BY <1>1
  <2> QED
    BY <1>2, <2>1, <2>2 DEF InHeading
<1>5. ASSUME Clear(s, Len(s)), r[Len(r)] \in DroppedTags
      PROVE  SkippingIs(r, r[Len(r)])
  <2>1. r[Len(r)] # None
    BY <1>5, TagsAre
  <2>2. Clear(r, Len(r) - 1)
    BY <1>1, <1>2, <1>5
  <2> QED
    BY <1>1, <2>1, <2>2 DEF SkippingIs
<1>6. ASSUME Clear(s, Len(s)), r[Len(r)] \in HeadingTags
      PROVE  SkippingIs(r, None) /\ InHeading(r)
  <2>1. Clear(r, Len(s)) /\ r[Len(r)] \notin DroppedTags
    BY <1>1, <1>2, <1>6, TagsAre
  <2>2. \A q \in 1..Len(r) : q \in 1..Len(s) \/ q = Len(r)
    BY <1>1
  <2>3. Clear(r, Len(r))
    BY <2>1, <2>2 DEF Clear
  <2> QED
    BY <1>1, <1>6, <2>3 DEF SkippingIs, InHeading
<1> QED
  BY <1>3, <1>4, <1>5, <1>6

LEMMA ElementsPopped ==
  ASSUME NEW s \in Stacks, s # <<>>, NEW r \in Stacks, Len(r) = Len(s) - 1,
         \A i \in 1..(Len(s) - 1) : r[i] = s[i]
  PROVE  /\ \A k : k # None /\ k # s[Len(s)] /\ SkippingIs(s, k) => SkippingIs(r, k)
         /\ \A k : k \in DroppedTags /\ SkippingIs(s, k) /\ InHeading(s) => InHeading(r)
         /\ \A k : k \in DroppedTags /\ k = s[Len(s)] /\ Once(s) /\ SkippingIs(s, k)
              => SkippingIs(r, None)
         /\ Clear(s, Len(s)) => SkippingIs(r, None)
<1>1. /\ Len(s) \in Nat \ {0} /\ Len(r) \in Nat /\ DOMAIN s = 1..Len(s)
      /\ \A p \in 0..Len(r) : p \in 0..Len(s)
  BY DEF Stacks
<1>2. \A p \in 0..Len(r) : Clear(s, p) => Clear(r, p)
  BY <1>1 DEF Clear
<1>3. ASSUME NEW k, k # None, k # s[Len(s)], SkippingIs(s, k)
      PROVE  SkippingIs(r, k)
  <2>1. PICK p \in 1..Len(s) : s[p] = k /\ Clear(s, p - 1)
    BY <1>3 DEF SkippingIs
  <2>2. p # Len(s)
    BY <1>3, <2>1
  <2>3. p \in 1..Len(r) /\ r[p] = k /\ p - 1 \in 0..Len(r)
    BY <1>1, <2>1, <2>2
  <2> QED
    BY <1>2, <1>3, <2>1, <2>3 DEF SkippingIs
<1>4. ASSUME NEW k, k \in DroppedTags, SkippingIs(s, k), InHeading(s)
      PROVE  InHeading(r)
  <2>1. k # None
    BY <1>4, TagsAre
  <2>2. PICK p \in 1..Len(s) : s[p] = k
    BY <1>4, <2>1 DEF SkippingIs
  <2>3. PICK h \in 1..Len(s) : s[h] \in HeadingTags /\ Clear(s, h)
    BY <1>4 DEF InHeading
  <2>4. ~(p \in 1..h)
    BY <1>4, <2>2, <2>3 DEF Clear
  <2>5. h \in 1..Len(r) /\ r[h] = s[h] /\ h \in 0..Len(r)
    BY <1>1, <2>4
  <2> QED
    BY <1>2, <2>3, <2>5 DEF InHeading
<1>5. ASSUME NEW k, k \in DroppedTags, k = s[Len(s)], Once(s), SkippingIs(s, k)
      PROVE  SkippingIs(r, None)
  <2>1. k # None
    BY <1>5, TagsAre
  <2>2. PICK p \in 1..Len(s) : s[p] = k /\ Clear(s, p - 1)
    BY <1>5, <2>1 DEF SkippingIs
  <2>3. Len(s) \in DOMAIN s /\ p \in DOMAIN s
    BY <1>1
  <2>4. p = Len(s)
    BY <1>5, <2>2, <2>3 DEF Once
  <2>5. Clear(r, Len(r))
    BY <1>1, <1>2, <2>2, <2>4
  <2> QED
    BY <2>5 DEF SkippingIs
<1>6. ASSUME Clear(s, Len(s))
      PROVE  SkippingIs(r, None)
  <2>1. Clear(s, Len(r))
    BY <1>1, <1>6 DEF Clear
  <2> QED
    BY <1>1, <1>2, <2>1 DEF SkippingIs
<1> QED
  BY <1>3, <1>4, <1>5, <1>6

(* Tokens that do not concern what is open, and those read while skipping. *)
LEMMA ElementsUnmoved ==
  ASSUME Elements, NEW token \in Tokens, Token(token),
         token[1] = "text" \/ token[2] \in BlockTags,
         UNCHANGED <<skipping, headingLevel>>
  PROVE  Elements'
<1>1. page' \in Seq(Tokens) /\ Open' = OpenStep(Open, token)
  BY Goes DEF Elements
<1>2. Open' = Open
  BY <1>1, Unmoved
<1>3. InTurn' => InTurn
  BY GoesInTurn DEF Elements
<1> QED
  BY <1>1, <1>2, <1>3 DEF Elements, SkippingIs, InHeading, Clear

LEMMA ElementsSkipped ==
  ASSUME Elements, NEW token \in Tokens, SkipToken(token)
  PROVE  Elements'
<1>1. /\ Token(token) /\ UNCHANGED <<skipping, headingLevel>>
      /\ skipping \in DroppedTags /\ token # <<"close", skipping>>
  BY DEF SkipToken, Elements
<1>2. CASE token[1] = "text" \/ token[2] \in BlockTags
  BY <1>1, <1>2, ElementsUnmoved
<1>3. CASE ~(token[1] = "text" \/ token[2] \in BlockTags)
  <2>1. page' \in Seq(Tokens) /\ Open \in Stacks /\ Open' = OpenStep(Open, token)
    BY <1>1, Goes DEF Elements
  <2>2. SUFFICES ASSUME InTurn'
                 PROVE  SkippingIs(Open', skipping) /\ (headingLevel # 0 => InHeading(Open'))
    BY <1>1, <2>1 DEF Elements, SkippingIs, InHeading, Clear
  <2>3. /\ InTurn
        /\ token[1] = "close" => Open # <<>> /\ Open[Len(Open)] = token[2]
    BY <1>1, <2>2, GoesInTurn DEF Elements
  <2>4. /\ SkippingIs(Open, skipping) /\ (headingLevel # 0 => InHeading(Open))
        /\ skipping # None
    BY <1>1, <2>3, TagsAre DEF Elements
  <2>5. CASE token[1] = "open"
    BY <1>3, <2>1, <2>4, <2>5, Pushed, ElementsPushed
  <2>6. CASE token[1] = "close"
    <3>1. token = <<"close", token[2]>>
      BY <2>6 DEF Tokens
    <3>2. Open[Len(Open)] # skipping
      BY <1>1, <2>3, <2>6, <3>1
    <3>3. Open # <<>> /\ Open[Len(Open)] = token[2]
      BY <2>3, <2>6
    <3>4. /\ Open' \in Stacks /\ Len(Open') = Len(Open) - 1
          /\ \A i \in 1..(Len(Open) - 1) : Open'[i] = Open[i]
      BY <2>1, <2>6, <3>3, Popped
    <3> QED
      BY <1>1, <2>1, <2>4, <3>2, <3>3, <3>4, ElementsPopped
  <2> QED
    BY <1>3, <2>5, <2>6, TokenKinds
<1> QED
  BY <1>2, <1>3

LEMMA ElementsClosed ==
  ASSUME Elements, NEW tag \in Tags,
         EndSkipping(tag) \/ CloseHeading(tag) \/ StrayEnd(tag)
  PROVE  Elements'
<1> DEFINE token == <<"close", tag>>
<1>1. tag \in HeadingTags \cup DroppedTags
  BY TagsAre DEF EndSkipping, CloseHeading, StrayEnd, Elements
<1>2. token \in Tokens /\ token[1] = "close" /\ token[2] = tag /\ Token(token)
  BY <1>1, TagsAre DEF EndSkipping, CloseHeading, StrayEnd, Tokens
<1>3. skipping' = None
  BY DEF EndSkipping, CloseHeading, StrayEnd
<1> HIDE DEF token
<1>4. page' \in Seq(Tokens) /\ Open \in Stacks /\ Open' = OpenStep(Open, token)
  BY <1>2, Goes DEF Elements
<1>5. SUFFICES ASSUME InTurn'
               PROVE  SkippingIs(Open', None) /\ (headingLevel' # 0 => InHeading(Open'))
  BY <1>3, <1>4 DEF Elements, SkippingIs, InHeading, Clear
<1>6. InTurn /\ Once(Open) /\ Open # <<>> /\ Open[Len(Open)] = tag
  BY <1>2, <1>5, GoesInTurn DEF Elements
<1>7. SkippingIs(Open, skipping) /\ (headingLevel # 0 => InHeading(Open))
  BY <1>6 DEF Elements
<1>8. /\ Open' \in Stacks /\ Len(Open') = Len(Open) - 1
      /\ \A i \in 1..(Len(Open) - 1) : Open'[i] = Open[i]
  BY <1>2, <1>4, <1>6, Popped
<1>9. CASE EndSkipping(tag)
  <2>1. skipping = tag /\ tag \in DroppedTags /\ headingLevel' = headingLevel
    BY <1>9, TagsAre DEF EndSkipping, Elements
  <2> QED
    BY <1>4, <1>6, <1>7, <1>8, <2>1, ElementsPopped
<1>10. CASE CloseHeading(tag)
  <2>1. skipping = None /\ headingLevel' = 0
    BY <1>10 DEF CloseHeading
  <2>2. Clear(Open, Len(Open))
    BY <1>7, <2>1 DEF SkippingIs
  <2> QED
    BY <1>4, <1>6, <1>8, <2>1, <2>2, ElementsPopped
<1>11. CASE StrayEnd(tag)
  <2>1. skipping = None /\ tag \in DroppedTags
    BY <1>11 DEF StrayEnd
  <2>2. Clear(Open, Len(Open))
    BY <1>7, <2>1 DEF SkippingIs
  <2>3. Len(Open) \in 1..Len(Open)
    BY <1>4, <1>6 DEF Stacks
  <2> QED
    BY <1>6, <2>1, <2>2, <2>3 DEF Clear
<1> QED
  BY <1>9, <1>10, <1>11

LEMMA ElementsOpened ==
  ASSUME Elements, NEW tag \in Tags, DropElement(tag) \/ OpenHeading(tag)
  PROVE  Elements'
<1> DEFINE token == <<"open", tag>>
<1>1. tag \in HeadingTags \cup DroppedTags /\ skipping = None
  BY DEF DropElement, OpenHeading
<1>2. /\ token \in Tokens /\ token[1] = "open" /\ token[2] = tag /\ Token(token)
      /\ tag \notin BlockTags
  BY <1>1, TagsAre DEF DropElement, OpenHeading, Tokens
<1> HIDE DEF token
<1>3. page' \in Seq(Tokens) /\ Open \in Stacks /\ Open' = OpenStep(Open, token)
  BY <1>2, Goes DEF Elements
<1>4. skipping' \in DroppedTags \cup {None}
  BY <1>1 DEF DropElement, OpenHeading
<1>5. SUFFICES ASSUME InTurn'
               PROVE  /\ SkippingIs(Open', skipping')
                      /\ headingLevel' # 0 => InHeading(Open')
  BY <1>3, <1>4 DEF Elements, SkippingIs, InHeading, Clear
<1>6. InTurn
  BY <1>2, <1>5, GoesInTurn DEF Elements
<1>7. Clear(Open, Len(Open)) /\ (headingLevel # 0 => InHeading(Open))
  BY <1>1, <1>6 DEF Elements, SkippingIs
<1>8. /\ Open' \in Stacks /\ Len(Open') = Len(Open) + 1
      /\ \A i \in 1..Len(Open) : Open'[i] = Open[i]
      /\ Open'[Len(Open')] = tag
  BY <1>2, <1>3, Pushed
<1>9. CASE DropElement(tag)
  <2>1. tag \in DroppedTags /\ skipping' = tag /\ headingLevel' = headingLevel
    BY <1>9 DEF DropElement
  <2> QED
    BY <1>3, <1>7, <1>8, <2>1, ElementsPushed
<1>10. CASE OpenHeading(tag)
  <2>1. tag \in HeadingTags /\ skipping' = None
    BY <1>1, <1>10 DEF OpenHeading
  <2> QED
    BY <1>3, <1>7, <1>8, <2>1, ElementsPushed
<1> QED
  BY <1>9, <1>10

-----------------------------------------------------------------------------
(* The tokens of the document proper, one more at most for each token.      *)

TextTokens == {n \in DocumentTokens : page[n][1] = "text"}

LEMMA ShownNow ==
  ASSUME Elements, InTurn
  PROVE  Shown(Len(page) + 1) <=> skipping = None
<1>1. /\ Len(page) \in Nat /\ (Len(page) + 1) - 1 = Len(page)
      /\ SkippingIs(Open, skipping) /\ Open \in Stacks
      /\ skipping \in DroppedTags \cup {None}
  BY StacksAre DEF Elements, Open
<1>2. Shown(Len(page) + 1) <=> Range(Open) \cap DroppedTags = {}
  BY <1>1 DEF Shown, Open
<1>3. DOMAIN Open = 1..Len(Open)
  BY <1>1 DEF Stacks
<1>4. Shown(Len(page) + 1) <=> \A q \in 1..Len(Open) : Open[q] \notin DroppedTags
  BY <1>2, <1>3 DEF Range
<1>5. CASE skipping = None
  BY <1>1, <1>4, <1>5 DEF SkippingIs, Clear
<1>6. CASE skipping # None
  BY <1>1, <1>4, <1>6 DEF SkippingIs
<1> QED
  BY <1>5, <1>6

LEMMA DocumentGrows ==
  ASSUME Elements, NEW token \in Tokens, Token(token), InTurn'
  PROVE  /\ DocumentTokens \subseteq 1..Len(page)
         /\ DocumentTokens' =
              IF skipping = None /\ token[2] \notin DroppedTags
                THEN DocumentTokens \cup {Len(page) + 1} ELSE DocumentTokens
<1> DEFINE here == Len(page) + 1
<1>1. /\ page' \in Seq(Tokens) /\ Len(page') = here /\ Len(page) \in Nat
      /\ \A n \in 1..Len(page) : page'[n] = page[n]
      /\ page'[here] = token /\ page \in Seq(Tokens)
      /\ \A n \in 0..Len(page) : OpenAfter(n)' = OpenAfter(n)
  BY Goes DEF Elements
<1>2. InTurn
  BY GoesInTurn DEF Elements
<1>3. DOMAIN page = 1..Len(page) /\ DOMAIN page' = 1..here
  BY <1>1
<1>4. \A n \in 1..here : n - 1 \in 0..Len(page)
  BY <1>1
<1>5. \A n \in 1..here : Shown(n)' = Shown(n)
  BY <1>1, <1>4 DEF Shown
<1>6. Shown(here) <=> skipping = None
  BY <1>2, ShownNow
<1> HIDE DEF here
<1>7. \A n : n \in 1..here <=> n \in 1..Len(page) \/ n = here
  BY <1>1 DEF here
<1>8. here \notin 1..Len(page)
  BY <1>1 DEF here
<1>9. ASSUME NEW n
      PROVE  n \in DocumentTokens' <=>
               \/ n \in DocumentTokens
               \/ n = here /\ skipping = None /\ token[2] \notin DroppedTags
  <2>1. n \in DocumentTokens' <=> n \in 1..here /\ Shown(n) /\ page'[n][2] \notin DroppedTags
    BY <1>3, <1>5 DEF DocumentTokens
  <2>2. n \in DocumentTokens <=> n \in 1..Len(page) /\ Shown(n) /\ page[n][2] \notin DroppedTags
    BY <1>3 DEF DocumentTokens
  <2>3. CASE n \in 1..Len(page)
    BY <2>1, <2>2, <2>3, <1>1, <1>7, <1>8
  <2>4. CASE n = here
    BY <2>1, <2>2, <2>4, <1>1, <1>6, <1>7, <1>8
  <2>5. CASE n \notin 1..Len(page) /\ n # here
    BY <2>1, <2>2, <2>5, <1>7
  <2> QED
    BY <2>3, <2>4, <2>5
<1>10. DocumentTokens \subseteq 1..Len(page)
  BY <1>3 DEF DocumentTokens
<1> QED
  BY <1>9, <1>10 DEF here

LEMMA TextTokensGrow ==
  ASSUME Elements, NEW token \in Tokens, Token(token), InTurn'
  PROVE  /\ TextTokens \subseteq 1..Len(page)
         /\ TextTokens' =
              IF skipping = None /\ token[1] = "text"
                THEN TextTokens \cup {Len(page) + 1} ELSE TextTokens
<1> DEFINE here == Len(page) + 1
<1>1. /\ Len(page) \in Nat /\ \A n \in 1..Len(page) : page'[n] = page[n]
      /\ page'[here] = token
  BY Goes DEF Elements
<1>2. here \notin 1..Len(page)
  BY <1>1
<1> HIDE DEF here
<1>3. /\ DocumentTokens \subseteq 1..Len(page)
      /\ DocumentTokens' =
           IF skipping = None /\ token[2] \notin DroppedTags
             THEN DocumentTokens \cup {here} ELSE DocumentTokens
  BY DocumentGrows DEF here
<1>4. token[1] = "text" => token[2] \notin DroppedTags
  BY TokenKinds, TagsAre
<1>5. ASSUME NEW n
      PROVE  n \in TextTokens' <=>
               \/ n \in TextTokens
               \/ n = here /\ skipping = None /\ token[1] = "text"
  <2>1. n \in TextTokens' <=> n \in DocumentTokens' /\ page'[n][1] = "text"
    BY DEF TextTokens
  <2>2. n \in TextTokens <=> n \in DocumentTokens /\ page[n][1] = "text"
    BY DEF TextTokens
  <2>3. CASE n = here
    BY <2>1, <2>2, <2>3, <1>1, <1>2, <1>3, <1>4
  <2>4. CASE n # here
    <3>1. n \in DocumentTokens' <=> n \in DocumentTokens
      BY <2>4, <1>3
    <3>2. n \in DocumentTokens => page'[n] = page[n]
      BY <1>1, <1>3
    <3> QED
      BY <2>1, <2>2, <2>4, <3>1, <3>2
  <2> QED
    BY <2>3, <2>4
<1>6. TextTokens \subseteq 1..Len(page)
  BY <1>3 DEF TextTokens
<1> QED
  BY <1>5, <1>6 DEF here

-----------------------------------------------------------------------------
(* FlattenSeq, sequence by sequence.                                        *)

JoinStep(g, h, i) == IF i = 1 THEN g[i] ELSE h[i - 1] \o g[i]

JoinsTo(g, n, h) == h = [i \in 1..n |-> JoinStep(g, h, i)]

LEMMA JoinRuns ==
  ASSUME NEW g, NEW n \in Nat
  PROVE  \E h : JoinsTo(g, n, h)
<1> DEFINE T == {m \in Nat : \E h : h = [i \in 1..m |-> JoinStep(g, h, i)]}
<1>1. 0 \in T
  <2> DEFINE h == [i \in 1..0 |-> 0]
  <2>1. h = [i \in 1..0 |-> JoinStep(g, h, i)]
    OBVIOUS
  <2> HIDE DEF h
  <2> QED
    BY <2>1
<1>2. ASSUME NEW m \in Nat, m \in T
      PROVE  m + 1 \in T
  <2>1. PICK h : h = [i \in 1..m |-> JoinStep(g, h, i)]
    BY <1>2
  <2> DEFINE k == [i \in 1..(m + 1) |->
                     IF i = m + 1 THEN JoinStep(g, h, i) ELSE h[i]]
  <2>2. ASSUME NEW i \in 1..(m + 1)
        PROVE  k[i] = JoinStep(g, k, i)
    <3>1. i # 1 => k[i - 1] = h[i - 1]
      OBVIOUS
    <3>2. JoinStep(g, k, i) = JoinStep(g, h, i)
      <4> HIDE DEF k
      <4> QED
        BY <3>1 DEF JoinStep
    <3>3. CASE i = m + 1
      BY <3>2, <3>3
    <3>4. CASE i \in 1..m
      <4>1. h[i] = JoinStep(g, h, i)
        BY <2>1, <3>4
      <4>2. i # m + 1
        BY <3>4
      <4> QED
        BY <4>1, <4>2, <3>2
    <3> QED
      BY <3>3, <3>4
  <2>3. k = [i \in 1..(m + 1) |-> JoinStep(g, k, i)]
    BY <2>2
  <2> HIDE DEF k
  <2> QED
    BY <2>3
<1>3. Nat \subseteq T
  <2> HIDE DEF T
  <2> QED
    BY <1>1, <1>2, Counting
<1> QED
  BY <1>3 DEF JoinsTo

LEMMA JoinsAgree ==
  ASSUME NEW f, NEW g, NEW n \in Nat, NEW m \in Nat, NEW h, NEW k,
         JoinsTo(f, n, h), JoinsTo(g, m, k),
         NEW l \in 1..n, l <= m, Alike(f, g, l)
  PROVE  h[l] = k[l]
<1> DEFINE T == {i \in Nat : i + 1 <= l => h[i + 1] = k[i + 1]}
<1>1. 0 \in T
  <2>1. 1 \in 1..n /\ 1 \in 1..m /\ 1 \in 1..l
    OBVIOUS
  <2>2. h[1] = JoinStep(f, h, 1) /\ k[1] = JoinStep(g, k, 1)
    BY <2>1 DEF JoinsTo
  <2>3. h[1] = k[1]
    BY <2>1, <2>2 DEF JoinStep, Alike
  <2> QED
    BY <2>3
<1>2. ASSUME NEW i \in Nat, i \in T
      PROVE  i + 1 \in T
  <2> DEFINE j == (i + 1) + 1
  <2> SUFFICES ASSUME j <= l
               PROVE  h[j] = k[j]
    OBVIOUS
  <2>1. j \in 1..n /\ j \in 1..m /\ j \in 1..l /\ j - 1 = i + 1 /\ j # 1 /\ i + 1 <= l
    OBVIOUS
  <2>2. h[i + 1] = k[i + 1]
    BY <1>2, <2>1
  <2> HIDE DEF j
  <2>3. h[j] = JoinStep(f, h, j) /\ k[j] = JoinStep(g, k, j)
    BY <2>1 DEF JoinsTo
  <2>4. f[j] = g[j]
    BY <2>1 DEF Alike
  <2> QED
    BY <2>1, <2>2, <2>3, <2>4 DEF JoinStep
<1>3. Nat \subseteq T
  <2> HIDE DEF T
  <2> QED
    BY <1>1, <1>2, Counting
<1>4. l - 1 \in T /\ (l - 1) + 1 = l
  BY <1>3
<1> QED
  BY <1>4

LEMMA FlattenIs ==
  ASSUME NEW n \in Nat \ {0}, NEW g, Len(g) = n
  PROVE  \E h : JoinsTo(g, n, h) /\ FlattenSeq(g) = h[n]
<1> DEFINE F == CHOOSE h : h = [i \in 1..n |-> JoinStep(g, h, i)]
<1>1. F = [i \in 1..n |-> JoinStep(g, F, i)]
  BY JoinRuns DEF JoinsTo
<1>2. FlattenSeq(g) = F[n]
  BY DEF FlattenSeq, JoinStep
<1> HIDE DEF F
<1> QED
  BY <1>1, <1>2 DEF JoinsTo

LEMMA SequenceIs ==
  ASSUME NEW A, NEW n \in Nat, NEW g, g = [b \in 1..n |-> g[b]],
         \A b \in 1..n : g[b] \in A
  PROVE  g \in Seq(A) /\ Len(g) = n
OBVIOUS

(* The sequence at the end is put at the end.                               *)
LEMMA FlattenNext ==
  ASSUME NEW n \in Nat, NEW f \in Seq(Seq(Nat)), NEW g \in Seq(Seq(Nat)),
         Len(f) = n, Len(g) = n + 1, Alike(f, g, n), FlattenSeq(f) \in Seq(Nat)
  PROVE  FlattenSeq(g) = FlattenSeq(f) \o g[n + 1] /\ FlattenSeq(g) \in Seq(Nat)
<1> DEFINE m == n + 1
<1>1. m \in Nat \ {0} /\ m \in 1..m /\ Len(g) = m /\ g[m] \in Seq(Nat)
  OBVIOUS
<1>2. PICK k : JoinsTo(g, m, k) /\ FlattenSeq(g) = k[m]
  BY <1>1, FlattenIs
<1>3. n # 0 => m # 1 /\ m - 1 = n
  OBVIOUS
<1> HIDE DEF m
<1>4. k[m] = JoinStep(g, k, m)
  BY <1>1, <1>2 DEF JoinsTo
<1>5. CASE n = 0
  <2>1. FlattenSeq(f) = <<>>
    BY <1>5 DEF FlattenSeq
  <2>2. m = 1
    BY <1>5 DEF m
  <2>3. FlattenSeq(g) = g[m]
    BY <1>2, <1>4, <2>2 DEF JoinStep
  <2>4. <<>> \o g[m] = g[m]
    BY <1>1
  <2> QED
    BY <1>1, <2>1, <2>3, <2>4 DEF m
<1>6. CASE n # 0
  <2>1. PICK h : JoinsTo(f, n, h) /\ FlattenSeq(f) = h[n]
    BY <1>6, FlattenIs
  <2>2. n \in 1..n /\ n <= m
    BY <1>6 DEF m
  <2>3. h[n] = k[n]
    BY <1>1, <1>2, <2>1, <2>2, JoinsAgree
  <2>4. FlattenSeq(g) = FlattenSeq(f) \o g[m]
    BY <1>2, <1>3, <1>4, <1>6, <2>1, <2>3 DEF JoinStep
  <2> QED
    BY <1>1, <2>4 DEF m
<1> QED
  BY <1>5, <1>6

-----------------------------------------------------------------------------
(* What is written is the text tokens, in order.                            *)

WordsOf == [b \in DOMAIN blocks |-> blocks[b].words]

Flat == FlattenSeq(WordsOf)

InHeadingAt(n) == Range(OpenAfter(n - 1)) \cap HeadingTags # {}

TextsKept ==
  /\ Flat \in Seq(Nat)
  /\ \A b \in DOMAIN blocks : blocks[b].glued \subseteq DOMAIN page
  /\ InTurn =>
       /\ Ascending(Flat, TextTokens, Len(page))
       /\ \A b \in DOMAIN blocks : \A n \in blocks[b].glued : InHeadingAt(n)

LEMMA WordsAre ==
  ASSUME Reading
  PROVE  /\ WordsOf \in Seq(Seq(Nat)) /\ Len(WordsOf) = Len(blocks)
         /\ DOMAIN blocks = 1..Len(blocks) /\ Len(blocks) \in Nat \ {0}
         /\ \A b \in 1..Len(blocks) :
              WordsOf[b] = blocks[b].words /\ blocks[b].words \in Seq(Nat)
<1>1. /\ blocks \in Seq(BlockOfPage) /\ DOMAIN blocks = 1..Len(blocks)
      /\ Len(blocks) \in Nat \ {0}
  BY DEF Reading
<1>2. \A b \in 1..Len(blocks) : blocks[b].words \in Seq(Nat)
  <2> SUFFICES ASSUME NEW b \in 1..Len(blocks)
               PROVE  blocks[b].words \in Seq(Nat)
    OBVIOUS
  <2>0. blocks[b] \in BlockOfPage
    BY <1>1
  <2>1. blocks[b].words \in Seq(Nat \ {0})
    BY <2>0 DEF BlockOfPage
  <2> DEFINE w == blocks[b].words
  <2> HIDE DEF w
  <2>2. w \in Seq(Nat \ {0}) => w \in Seq(Nat)
    OBVIOUS
  <2> QED
    BY <2>1, <2>2 DEF w
<1> QED
  BY <1>1, <1>2 DEF WordsOf

LEMMA AscendingSame ==
  ASSUME NEW S, NEW R, NEW n \in Nat, NEW q, Ascending(q, S, n),
         S \cap (1..n) = R \cap (1..n)
  PROVE  Ascending(q, R, n)
BY DEF Ascending

LEMMA AppendIsConcat ==
  ASSUME NEW F \in Seq(Nat), NEW w \in Seq(Nat), NEW x \in Nat
  PROVE  /\ F \o Append(w, x) = Append(F \o w, x)
         /\ F \o <<>> = F
         /\ Append(F, x) \in Seq(Nat) /\ F \o w \in Seq(Nat)
<1>1. /\ F \o w \in Seq(Nat) /\ Append(w, x) \in Seq(Nat)
      /\ Len(F \o w) = Len(F) + Len(w) /\ Len(Append(w, x)) = Len(w) + 1
  OBVIOUS
<1>2. F \o Append(w, x) = Append(F \o w, x)
  <2> DEFINE a == F \o Append(w, x)
             b == Append(F \o w, x)
  <2>1. a \in Seq(Nat) /\ b \in Seq(Nat) /\ Len(a) = Len(b)
    BY <1>1
  <2>2. ASSUME NEW i \in 1..Len(a)
        PROVE  a[i] = b[i]
    BY <1>1
  <2> HIDE DEF a, b
  <2>3. a = b
    BY <2>1, <2>2
  <2> QED
    BY <2>3 DEF a, b
<1>3. F \o <<>> = F
  OBVIOUS
<1> QED
  BY <1>1, <1>2, <1>3

(* The numbers of an ascending sequence, with or without the next.          *)
LEMMA AscendingGrows ==
  ASSUME NEW S, NEW n \in Nat, NEW q, Ascending(q, S, n), S \subseteq 1..n
  PROVE  /\ Ascending(q, S, n + 1)
         /\ Ascending(Append(q, n + 1), S \cup {n + 1}, n + 1)
<1>1. n + 1 \notin S
  OBVIOUS
<1>2. Ascending(q, S, n + 1)
  BY <1>1, AscendingOn
<1>3. Ascending(q, S \cup {n + 1}, n)
  <2>1. S \cap (1..n) = (S \cup {n + 1}) \cap (1..n)
    OBVIOUS
  <2> QED
    BY <2>1, AscendingSame
<1>4. Ascending(Append(q, n + 1), S \cup {n + 1}, n + 1)
  BY <1>3, AscendingOn
<1> QED
  BY <1>2, <1>4

(* A block without words adds none.                                         *)
LEMMA FlatStays ==
  ASSUME Reading, Flat \in Seq(Nat),
         \/ UNCHANGED blocks
         \/ \E level \in {0} \cup {AtxLevel[tag] : tag \in HeadingTags} : Write(level)
  PROVE  /\ Flat' = Flat
         /\ \A b \in DOMAIN blocks' :
              \/ b \in DOMAIN blocks /\ blocks'[b] = blocks[b]
              \/ blocks'[b].words = <<>> /\ blocks'[b].glued = {}
<1>1. CASE UNCHANGED blocks
  BY <1>1 DEF Flat, WordsOf
<1>2. CASE \E level \in {0} \cup {AtxLevel[tag] : tag \in HeadingTags} : Write(level)
  <2>1. PICK level \in {0} \cup {AtxLevel[tag] : tag \in HeadingTags} : Write(level)
    BY <1>2
  <2> DEFINE new == Block(level)
             n == Len(blocks)
  <2>2. new.words = <<>> /\ new.glued = {} /\ new \in BlockOfPage
    BY DEF Block, BlockOfPage
  <2>3. blocks \in Seq(BlockOfPage) /\ n \in Nat \ {0} /\ DOMAIN blocks = 1..n
    BY DEF Reading
  <2>4. blocks' = Append(blocks, new)
    BY <2>1 DEF Write
  <2> HIDE DEF new, n
  <2>5. /\ Len(blocks') = n + 1 /\ DOMAIN blocks' = 1..(n + 1)
        /\ \A b \in 1..n : blocks'[b] = blocks[b]
        /\ blocks'[n + 1] = new
    <3>1. Len(blocks) = n
      BY DEF n
    <3> QED
      BY <2>2, <2>3, <2>4, <3>1
  <2>6. /\ \A b \in 1..(n + 1) : b \in 1..n \/ b = n + 1
        /\ n + 1 \in 1..(n + 1) /\ \A b \in 1..n : b \in 1..(n + 1)
    BY <2>3
  <2> DEFINE g == [b \in 1..(n + 1) |-> blocks'[b].words]
  <2>7. /\ WordsOf \in Seq(Seq(Nat)) /\ Len(WordsOf) = n
        /\ \A b \in 1..n : WordsOf[b] = blocks[b].words /\ blocks[b].words \in Seq(Nat)
    BY WordsAre DEF n
  <2>8. /\ \A b \in 1..n : g[b] = WordsOf[b] /\ g[b] \in Seq(Nat)
        /\ g[n + 1] = <<>> /\ <<>> \in Seq(Nat)
    BY <2>2, <2>5, <2>6, <2>7
  <2>9. g \in Seq(Seq(Nat)) /\ Len(g) = n + 1
    <3>1. \A b \in 1..(n + 1) : g[b] \in Seq(Nat)
      BY <2>6, <2>8
    <3>2. g = [b \in 1..(n + 1) |-> g[b]]
      OBVIOUS
    <3>3. n + 1 \in Nat
      BY <2>3
    <3> HIDE DEF g
    <3> QED
      BY <3>1, <3>2, <3>3, SequenceIs
  <2>10. WordsOf' = g
    BY <2>5 DEF WordsOf
  <2> HIDE DEF g
  <2>11. FlattenSeq(g) = FlattenSeq(WordsOf) \o <<>>
    <3>1. FlattenSeq(WordsOf) \in Seq(Nat)
      BY DEF Flat
    <3>2. Alike(WordsOf, g, n)
      BY <2>8 DEF Alike
    <3>3. FlattenSeq(g) = FlattenSeq(WordsOf) \o g[n + 1]
      BY <2>3, <2>7, <2>9, <3>1, <3>2, FlattenNext
    <3> QED
      BY <2>8, <3>3
  <2>12. Flat \o <<>> = Flat
    BY AppendIsConcat
  <2>13. Flat' = Flat
    BY <2>10, <2>11, <2>12 DEF Flat
  <2> QED
    BY <2>2, <2>3, <2>5, <2>6, <2>13
<1> QED
  BY <1>1, <1>2

(* Text writes the last block again, with its word at its end.             *)
LEMMA TextWrites ==
  ASSUME Reading, NEW word \in Words, Text(word)
  PROVE  LET last == Len(blocks)
             here == Len(page) + 1
             old == blocks[last]
         IN  /\ blocks' \in Seq(BlockOfPage) /\ Len(blocks') = last /\ last \in Nat \ {0}
             /\ \A b \in 1..(last - 1) : blocks'[b] = blocks[b]
             /\ blocks'[last].level = old.level
             /\ blocks'[last].words = Append(old.words, here)
             /\ blocks'[last].glued =
                  IF NeedsSpace /\ headingLevel # 0 THEN old.glued \cup {here}
                  ELSE old.glued
<1> DEFINE here == Len(page) + 1
           last == Len(blocks)
           old == blocks[last]
           together == NeedsSpace /\ headingLevel # 0
           w == Append(old.words, here)
           g == IF together THEN old.glued \cup {here} ELSE old.glued
           new == [level |-> old.level, words |-> w, glued |-> g]
<1>1. Reading'
  BY TextIsRead
<1>2. /\ blocks \in Seq(BlockOfPage) /\ last \in Nat \ {0} /\ last \in DOMAIN blocks
      /\ old \in BlockOfPage /\ DOMAIN blocks = 1..last
  BY DEF Reading
<1>3. blocks' = [blocks EXCEPT
                   ![last].words = Append(@, here),
                   ![last].glued = IF together THEN @ \cup {here} ELSE @]
  BY DEF Text
<1> HIDE DEF here, last, together
<1>4. blocks' = [blocks EXCEPT ![last] = [old EXCEPT !.words = w, !.glued = g]]
  <2>1. DOMAIN old = {"level", "words", "glued"}
    BY <1>2 DEF BlockOfPage
  <2> QED
    BY <1>2, <1>3, <2>1
<1>5. [old EXCEPT !.words = w, !.glued = g] = new
  <2> HIDE DEF w, g, old
  <2>1. [old EXCEPT !.words = w, !.glued = g]
          = [level |-> old.level, words |-> w, glued |-> g]
    BY <1>2, BlockIsWritten
  <2> QED
    BY <2>1 DEF w, g
<1>6. new.level = old.level /\ new.words = w /\ new.glued = g
  OBVIOUS
<1>7. blocks' = [blocks EXCEPT ![last] = new]
  BY <1>4, <1>5
<1> HIDE DEF new, old, w, g
<1>8. DOMAIN blocks' = 1..last /\ \A b \in 1..last : blocks'[b] = IF b = last THEN new ELSE blocks[b]
  BY <1>2, <1>7
<1>9. blocks' \in Seq(BlockOfPage) /\ Len(blocks') = last
  <2>1. blocks' \in Seq(BlockOfPage)
    BY <1>1 DEF Reading
  <2> QED
    BY <1>2, <1>8, <2>1
<1>10. /\ blocks'[last] = new
       /\ \A b \in 1..(last - 1) : blocks'[b] = blocks[b]
  BY <1>2, <1>8
<1> QED
  BY <1>2, <1>6, <1>9, <1>10 DEF w, g, old, here, last, together

LEMMA FlattenType ==
  ASSUME NEW g \in Seq(Seq(Nat))
  PROVE  FlattenSeq(g) \in Seq(Nat)
<1> DEFINE T == {m \in Nat : \A f \in Seq(Seq(Nat)) : Len(f) = m => FlattenSeq(f) \in Seq(Nat)}
<1>1. 0 \in T
  <2> SUFFICES ASSUME NEW f \in Seq(Seq(Nat)), Len(f) = 0
               PROVE  FlattenSeq(f) \in Seq(Nat)
    OBVIOUS
  <2>1. FlattenSeq(f) = <<>>
    BY DEF FlattenSeq
  <2> QED
    BY <2>1
<1>2. ASSUME NEW m \in Nat, m \in T
      PROVE  m + 1 \in T
  <2> SUFFICES ASSUME NEW f \in Seq(Seq(Nat)), Len(f) = m + 1
               PROVE  FlattenSeq(f) \in Seq(Nat)
    OBVIOUS
  <2> DEFINE h == [i \in 1..m |-> f[i]]
  <2>1. \A i \in 1..m : h[i] = f[i] /\ h[i] \in Seq(Nat)
    OBVIOUS
  <2>2. h = [i \in 1..m |-> h[i]]
    OBVIOUS
  <2>3. \A k \in Seq(Seq(Nat)) : Len(k) = m => FlattenSeq(k) \in Seq(Nat)
    BY <1>2
  <2> HIDE DEF h, T
  <2>4. h \in Seq(Seq(Nat)) /\ Len(h) = m
    BY <2>1, <2>2, SequenceIs
  <2>5. FlattenSeq(h) \in Seq(Nat)
    BY <2>3, <2>4
  <2>6. Alike(h, f, m)
    BY <2>1 DEF Alike
  <2> QED
    BY <2>4, <2>5, <2>6, FlattenNext
<1>3. Nat \subseteq T
  <2> HIDE DEF T
  <2> QED
    BY <1>1, <1>2, Counting
<1>4. Len(g) \in Nat
  OBVIOUS
<1> QED
  BY <1>3, <1>4

LEMMA OtherTokens ==
  ASSUME Reading, Elements, TextsKept, NEW token \in Tokens, Token(token),
         skipping # None \/ token[1] # "text",
         \/ UNCHANGED blocks
         \/ \E level \in {0} \cup {AtxLevel[tag] : tag \in HeadingTags} : Write(level)
  PROVE  TextsKept'
<1> USE DEF Elements, TextsKept
<1>1. /\ Flat' = Flat
      /\ \A b \in DOMAIN blocks' :
           \/ b \in DOMAIN blocks /\ blocks'[b] = blocks[b]
           \/ blocks'[b].words = <<>> /\ blocks'[b].glued = {}
  BY FlatStays
<1>2. /\ page \in Seq(Tokens) /\ page' \in Seq(Tokens)
      /\ Len(page) \in Nat /\ Len(page') = Len(page) + 1
      /\ \A n \in 0..Len(page) : OpenAfter(n)' = OpenAfter(n)
  BY Goes
<1>3. /\ DOMAIN page = 1..Len(page) /\ DOMAIN page \subseteq DOMAIN page'
      /\ \A n \in DOMAIN page : n - 1 \in 0..Len(page)
  BY <1>2
<1>4. Flat' \in Seq(Nat)
  BY <1>1
<1>5. \A b \in DOMAIN blocks' : blocks'[b].glued \subseteq DOMAIN page'
  BY <1>1, <1>3
<1>6. ASSUME InTurn'
      PROVE  Ascending(Flat', TextTokens', Len(page'))
  <2>1. InTurn
    BY <1>6, GoesInTurn
  <2>2. TextTokens \subseteq 1..Len(page) /\ TextTokens' = TextTokens
    BY <1>6, TextTokensGrow
  <2>3. Ascending(Flat, TextTokens, Len(page))
    BY <2>1
  <2>4. Ascending(Flat, TextTokens, Len(page) + 1)
    BY <1>2, <2>2, <2>3, AscendingGrows
  <2> QED
    BY <1>1, <1>2, <2>2, <2>4
<1>7. ASSUME InTurn', NEW b \in DOMAIN blocks', NEW n \in blocks'[b].glued
      PROVE  InHeadingAt(n)'
  <2>1. InTurn
    BY <1>7, GoesInTurn
  <2>2. n \in DOMAIN page /\ InHeadingAt(n)
    BY <1>1, <1>7, <2>1
  <2>3. OpenAfter(n - 1)' = OpenAfter(n - 1)
    BY <1>2, <1>3, <2>2
  <2> QED
    BY <2>2, <2>3 DEF InHeadingAt
<1> QED
  BY <1>4, <1>5, <1>6, <1>7

LEMMA TextToken ==
  ASSUME Reading, Elements, TextsKept, NEW word \in Words, Text(word)
  PROVE  TextsKept'
<1> DEFINE here == Len(page) + 1
           last == Len(blocks)
           old == blocks[last]
           f == [b \in 1..(last - 1) |-> blocks[b].words]
           g == [b \in 1..last |-> blocks'[b].words]
           token == <<"text", word>>
<1>1. token \in Tokens /\ Token(token) /\ skipping = None /\ token[1] = "text"
  BY DEF Text, Tokens
<1>2. /\ page \in Seq(Tokens) /\ page' \in Seq(Tokens)
      /\ Len(page) \in Nat /\ Len(page') = Len(page) + 1
      /\ \A n \in 0..Len(page) : OpenAfter(n)' = OpenAfter(n)
  BY <1>1, Goes DEF Elements
<1>3. /\ DOMAIN page = 1..Len(page) /\ DOMAIN page \subseteq DOMAIN page'
      /\ \A n \in DOMAIN page : n - 1 \in 0..Len(page)
      /\ here \in DOMAIN page' /\ here - 1 = Len(page) /\ here \in Nat
      /\ Len(page) \in 0..Len(page) /\ Len(page') = here
  BY <1>2
<1>4. /\ blocks' \in Seq(BlockOfPage) /\ Len(blocks') = last /\ last \in Nat \ {0}
      /\ \A b \in 1..(last - 1) : blocks'[b] = blocks[b]
      /\ blocks'[last].words = Append(old.words, here)
      /\ blocks'[last].glued =
           IF NeedsSpace /\ headingLevel # 0 THEN old.glued \cup {here}
           ELSE old.glued
  BY TextWrites
<1>5. /\ WordsOf \in Seq(Seq(Nat)) /\ Len(WordsOf) = last
      /\ DOMAIN blocks = 1..last
      /\ \A b \in 1..last : WordsOf[b] = blocks[b].words /\ blocks[b].words \in Seq(Nat)
  BY WordsAre
<1>6. /\ \A b \in 1..last : b \in 1..(last - 1) \/ b = last
      /\ \A b \in 1..(last - 1) : b \in 1..last
      /\ last \in 1..last /\ last - 1 \in Nat /\ (last - 1) + 1 = last
  BY <1>4
<1> HIDE DEF here, last, old, token
<1>7. old.words \in Seq(Nat) /\ Append(old.words, here) \in Seq(Nat)
  BY <1>3, <1>5, <1>6 DEF old
<1>8. f \in Seq(Seq(Nat)) /\ Len(f) = last - 1
  <2>1. \A b \in 1..(last - 1) : f[b] \in Seq(Nat)
    BY <1>5, <1>6
  <2>2. f = [b \in 1..(last - 1) |-> f[b]]
    OBVIOUS
  <2>3. last - 1 \in Nat
    BY <1>6
  <2> HIDE DEF f
  <2> QED
    BY <2>1, <2>2, <2>3, SequenceIs
<1>9. g \in Seq(Seq(Nat)) /\ Len(g) = last /\ g[last] = Append(old.words, here)
  <2>1. g[last] = Append(old.words, here)
    BY <1>4, <1>6
  <2>2. \A b \in 1..last : g[b] \in Seq(Nat)
    BY <1>4, <1>5, <1>6, <1>7, <2>1
  <2>3. g = [b \in 1..last |-> g[b]]
    OBVIOUS
  <2> HIDE DEF g
  <2> QED
    BY <1>4, <2>1, <2>2, <2>3, SequenceIs
<1>10. Alike(f, g, last - 1) /\ Alike(f, WordsOf, last - 1)
  BY <1>4, <1>5, <1>6 DEF Alike
<1>11. WordsOf[last] = old.words
  BY <1>5, <1>6 DEF old
<1>12. WordsOf' = g
  <2>1. DOMAIN blocks' = 1..last
    BY <1>4
  <2> QED
    BY <2>1 DEF WordsOf
<1> HIDE DEF f, g
<1>13. FlattenSeq(f) \in Seq(Nat)
  BY <1>8, FlattenType
<1>14. Flat = FlattenSeq(f) \o old.words
  <2>1. Len(WordsOf) = (last - 1) + 1
    BY <1>5, <1>6
  <2>2. FlattenSeq(WordsOf) = FlattenSeq(f) \o WordsOf[(last - 1) + 1]
    BY <1>5, <1>6, <1>8, <1>10, <1>13, <2>1, FlattenNext
  <2> QED
    BY <1>6, <1>11, <2>2 DEF Flat
<1>15. Flat' = FlattenSeq(f) \o Append(old.words, here)
  <2>1. Len(g) = (last - 1) + 1
    BY <1>6, <1>9
  <2>2. FlattenSeq(g) = FlattenSeq(f) \o g[(last - 1) + 1]
    BY <1>6, <1>8, <1>9, <1>10, <1>13, <2>1, FlattenNext
  <2> QED
    BY <1>6, <1>9, <1>12, <2>2 DEF Flat
<1>16. Flat' = Append(Flat, here) /\ Flat' \in Seq(Nat)
  <2>1. Flat \in Seq(Nat)
    BY DEF TextsKept
  <2>2. Append(Flat, here) \in Seq(Nat)
    BY <1>3, <2>1
  <2>3. FlattenSeq(f) \o Append(old.words, here) = Append(FlattenSeq(f) \o old.words, here)
    <3> DEFINE w == old.words
               F == FlattenSeq(f)
    <3>1. F \in Seq(Nat) /\ w \in Seq(Nat)
      BY <1>7, <1>13
    <3>2. here \in Nat
      BY <1>3
    <3> HIDE DEF w, F
    <3>3. F \o Append(w, here) = Append(F \o w, here)
      BY <3>1, <3>2, AppendIsConcat
    <3> QED
      BY <3>3 DEF w, F
  <2> QED
    BY <1>14, <1>15, <2>2, <2>3
<1>17. DOMAIN blocks' = 1..last
  BY <1>4
<1>18. \A b \in DOMAIN blocks' : \A n \in blocks'[b].glued :
         \/ b \in DOMAIN blocks /\ n \in blocks[b].glued
         \/ n = here /\ headingLevel # 0
  BY <1>4, <1>5, <1>6, <1>17 DEF old
<1>19. \A b \in DOMAIN blocks' : blocks'[b].glued \subseteq DOMAIN page'
  BY <1>3, <1>18 DEF TextsKept
<1>20. ASSUME InTurn'
       PROVE  Ascending(Flat', TextTokens', Len(page'))
  <2>1. InTurn
    BY <1>1, <1>20, GoesInTurn DEF Elements
  <2>2. TextTokens \subseteq 1..Len(page) /\ TextTokens' = TextTokens \cup {here}
    BY <1>1, <1>20, TextTokensGrow DEF here
  <2>3. Ascending(Flat, TextTokens, Len(page))
    BY <2>1 DEF TextsKept
  <2>4. Ascending(Append(Flat, Len(page) + 1), TextTokens \cup {Len(page) + 1}, Len(page) + 1)
    BY <1>2, <2>2, <2>3, AscendingGrows
  <2> QED
    BY <1>16, <1>3, <2>2, <2>4 DEF here
<1>21. ASSUME InTurn', NEW b \in DOMAIN blocks', NEW n \in blocks'[b].glued
       PROVE  InHeadingAt(n)'
  <2>1. InTurn
    BY <1>1, <1>21, GoesInTurn DEF Elements
  <2>2. CASE b \in DOMAIN blocks /\ n \in blocks[b].glued
    <3>1. n \in DOMAIN page /\ InHeadingAt(n)
      BY <2>1, <2>2 DEF TextsKept
    <3>2. OpenAfter(n - 1)' = OpenAfter(n - 1)
      BY <1>2, <1>3, <3>1
    <3> QED
      BY <3>1, <3>2 DEF InHeadingAt
  <2>3. CASE n = here /\ headingLevel # 0
    <3>1. InHeading(Open) /\ Open \in Stacks
      BY <2>1, <2>3, <1>1, Goes DEF Elements
    <3>2. PICK p \in 1..Len(Open) : Open[p] \in HeadingTags
      BY <3>1 DEF InHeading
    <3>3. Open[p] \in Range(Open)
      BY <3>1, <3>2 DEF Range, Stacks
    <3>4. OpenAfter(n - 1)' = Open
      BY <1>2, <1>3, <2>3 DEF Open
    <3> QED
      BY <3>2, <3>3, <3>4 DEF InHeadingAt
  <2> QED
    BY <1>18, <2>2, <2>3
<1> QED
  BY <1>16, <1>19, <1>20, <1>21 DEF TextsKept

-----------------------------------------------------------------------------
(* The page read: its elements and its text.                                *)

PInv == Reading /\ Elements /\ TextsKept

LEMMA PageBegins ==
  ASSUME Documented
  PROVE  PInv
<1>1. page = <<>> /\ skipping = None /\ headingLevel = 0 /\ blocks = <<Block(0)>>
  BY DEF Documented
<1>2. Reading
  BY Begins DEF IInv
<1>3. page \in Seq(Tokens) /\ Len(page) = 0 /\ DOMAIN page = {}
  BY <1>1
<1>4. Open = <<>>
  BY <1>3, OpenNext DEF Open, OpenAfter
<1>5. SkippingIs(<<>>, None)
  BY DEF SkippingIs, Clear
<1>6. Elements
  BY <1>1, <1>3, <1>4, <1>5 DEF Elements
<1>7. Block(0).words = <<>> /\ Block(0).glued = {}
  BY DEF Block
<1>8. /\ WordsOf \in Seq(Seq(Nat)) /\ Len(WordsOf) = Len(blocks)
      /\ \A b \in 1..Len(blocks) : WordsOf[b] = blocks[b].words
  BY <1>2, WordsAre
<1>9. Len(blocks) = 1 /\ blocks[1] = Block(0) /\ DOMAIN blocks = {1}
  BY <1>1
<1>10. Flat = <<>>
  <2> DEFINE z == 0
             e == [i \in 1..z |-> <<>>]
  <2>1. e \in Seq(Seq(Nat)) /\ Len(e) = z /\ FlattenSeq(e) = <<>>
    BY DEF FlattenSeq
  <2>2. Alike(e, WordsOf, z)
    BY DEF Alike
  <2>3. z \in Nat /\ z + 1 = 1 /\ <<>> \in Seq(Nat)
    OBVIOUS
  <2> HIDE DEF e, z
  <2>4. FlattenSeq(WordsOf) = FlattenSeq(e) \o WordsOf[1]
    <3>1. Len(WordsOf) = z + 1
      BY <1>8, <1>9, <2>3
    <3>2. e \in Seq(Seq(Nat)) /\ Len(e) = z /\ FlattenSeq(e) \in Seq(Nat)
      BY <2>1, FlattenType
    <3>3. WordsOf \in Seq(Seq(Nat))
      BY <1>8
    <3>4. FlattenSeq(WordsOf) = FlattenSeq(e) \o WordsOf[z + 1]
      BY <2>2, <2>3, <3>1, <3>2, <3>3, FlattenNext
    <3> QED
      BY <2>3, <3>4
  <2>5. <<>> \o <<>> = <<>>
    OBVIOUS
  <2>6. WordsOf[1] = <<>>
    BY <1>7, <1>8, <1>9
  <2> QED
    BY <2>1, <2>4, <2>5, <2>6 DEF Flat
<1>11. TextTokens = {}
  BY <1>3 DEF TextTokens, DocumentTokens
<1>12. Ascending(<<>>, {}, 0)
  BY DEF Ascending
<1>13. TextsKept
  BY <1>3, <1>7, <1>9, <1>10, <1>11, <1>12 DEF TextsKept
<1> QED
  BY <1>2, <1>6, <1>13 DEF PInv

LEMMA PageStays ==
  ASSUME PInv, UNCHANGED <<page, skipping, headingLevel, blocks>>
  PROVE  PInv'
<1>1. Reading'
  BY DEF PInv, Reading
<1>2. /\ \A n : OpenAfter(n)' = OpenAfter(n)
      /\ Len(page)' = Len(page)
  BY DEF OpenAfter
<1>3. Open' = Open /\ (InTurn' <=> InTurn)
  BY <1>2 DEF Open, InTurn
<1>4. Elements'
  BY <1>3 DEF PInv, Elements
<1>5. Flat' = Flat
  BY DEF Flat, WordsOf
<1>6. TextTokens' = TextTokens
  <2>1. \A n : Shown(n)' <=> Shown(n)
    BY <1>2 DEF Shown
  <2>2. DocumentTokens' = DocumentTokens
    BY <2>1 DEF DocumentTokens
  <2> QED
    BY <2>2 DEF TextTokens
<1>7. \A n : InHeadingAt(n)' <=> InHeadingAt(n)
  BY <1>2 DEF InHeadingAt
<1>8. TextsKept'
  BY <1>2, <1>3, <1>5, <1>6, <1>7 DEF PInv, TextsKept
<1> QED
  BY <1>1, <1>4, <1>8 DEF PInv

LEMMA PageIsRead ==
  ASSUME IInv, PInv, [Next]_docVars
  PROVE  PInv'
<1> USE DEF PInv
<1>1. Reading'
  BY StepsKeep DEF IInv
<1>2. CASE \E token \in Tokens : SkipToken(token)
  <2>1. PICK token \in Tokens : SkipToken(token)
    BY <1>2
  <2>2. Token(token) /\ skipping # None /\ UNCHANGED blocks
    BY <2>1 DEF SkipToken
  <2> QED
    BY <1>1, <2>1, <2>2, ElementsSkipped, OtherTokens
<1>3. ASSUME NEW tag \in Tags, EndSkipping(tag) \/ CloseHeading(tag) \/ StrayEnd(tag)
      PROVE  PInv'
  <2> DEFINE token == <<"close", tag>>
  <2>1. tag \notin BlockTags
    BY <1>3, TagsAre DEF EndSkipping, CloseHeading, StrayEnd, Elements
  <2>2. token \in Tokens /\ token[1] # "text" /\ Token(token)
    BY <1>3, <2>1 DEF EndSkipping, CloseHeading, StrayEnd, Tokens
  <2>3. UNCHANGED blocks \/ Write(0)
    BY <1>3 DEF EndSkipping, CloseHeading, StrayEnd
  <2> HIDE DEF token
  <2>4. Elements'
    BY <1>3, ElementsClosed
  <2> QED
    BY <1>1, <2>2, <2>3, <2>4, OtherTokens
<1>4. ASSUME NEW tag \in Tags, DropElement(tag) \/ OpenHeading(tag)
      PROVE  PInv'
  <2> DEFINE token == <<"open", tag>>
  <2>1. token \in Tokens /\ token[1] # "text" /\ Token(token)
    BY <1>4 DEF DropElement, OpenHeading, Tokens
  <2>2. \/ UNCHANGED blocks
        \/ \E level \in {0} \cup {AtxLevel[t] : t \in HeadingTags} : Write(level)
    BY <1>4 DEF DropElement, OpenHeading
  <2> HIDE DEF token
  <2>3. Elements'
    BY <1>4, ElementsOpened
  <2> QED
    BY <1>1, <2>1, <2>2, <2>3, OtherTokens
<1>5. ASSUME NEW tag \in Tags, EndLine(tag)
      PROVE  PInv'
  <2> DEFINE token == <<"open", tag>>
  <2>1. /\ token \in Tokens /\ token[1] # "text" /\ token[2] \in BlockTags
        /\ Token(token) /\ Write(0) /\ UNCHANGED <<skipping, headingLevel>>
    BY <1>5 DEF EndLine, Tokens
  <2> HIDE DEF token
  <2>2. Elements'
    BY <2>1, ElementsUnmoved
  <2> QED
    BY <1>1, <2>1, <2>2, OtherTokens
<1>6. ASSUME NEW word \in Words, Text(word)
      PROVE  PInv'
  <2> DEFINE token == <<"text", word>>
  <2>1. /\ token \in Tokens /\ token[1] = "text" /\ Token(token)
        /\ UNCHANGED <<skipping, headingLevel>>
    BY <1>6 DEF Text, Tokens
  <2> HIDE DEF token
  <2>2. Elements'
    BY <2>1, ElementsUnmoved
  <2> QED
    BY <1>1, <1>6, <2>2, TextToken
<1>7. CASE EndOfPage
  BY <1>7, PageStays DEF EndOfPage
<1>8. CASE ScanDocument \/ EndOfDocument \/ UNCHANGED docVars
  BY <1>8, PageStays DEF ScanDocument, EndOfDocument, docVars, pageVars
<1> QED
  BY <1>2, <1>3, <1>4, <1>5, <1>6, <1>7, <1>8 DEF Next

(* htmlToText loses no text of the document proper, repeats none, keeps it *)
(* in order and lets none of a dropped element through, for every page     *)
(* that closes its elements in turn and however they are nested: its one   *)
(* name, skipping, is the outermost dropped element that is open, and its   *)
(* one number, headingLevel, is not 0 in a heading at most.                 *)
THEOREM PageTextReaches == Spec => []PageTextIsKept
<1>1. Documented => IInv /\ PInv
  BY Begins, PageBegins
<1>2. IInv /\ PInv /\ [Next]_docVars => IInv' /\ PInv'
  BY StepsKeep, PageIsRead
<1>3. PInv => PageTextIsKept
  <2> SUFFICES ASSUME PInv, WellFormed
               PROVE  /\ Flat = InOrder(TextTokens, Len(page))
                      /\ \A b \in DOMAIN blocks, n \in DOMAIN page :
                           n \in blocks[b].glued => InHeadingAt(n)
    BY DEF PageTextIsKept, Flat, WordsOf, TextTokens, InHeadingAt
  <2>1. page \in Seq(Tokens) /\ InTurn /\ Len(page) \in Nat
    <3>1. page \in Seq(Tokens)
      BY DEF PInv, Elements
    <3> QED
      BY <3>1, WellFormedInTurn
  <2>2. Ascending(Flat, TextTokens, Len(page))
    BY <2>1 DEF PInv, TextsKept
  <2>3. Ascending(InOrder(TextTokens, Len(page)), TextTokens, Len(page))
    BY <2>1, InOrderAscends
  <2>4. Flat = InOrder(TextTokens, Len(page))
    BY <2>1, <2>2, <2>3, AscendingIsOne
  <2>5. \A b \in DOMAIN blocks : \A n \in blocks[b].glued : InHeadingAt(n)
    BY <2>1 DEF PInv, TextsKept
  <2> QED
    BY <2>4, <2>5
<1> QED
  BY <1>1, <1>2, <1>3, PTL DEF Spec

-----------------------------------------------------------------------------
(* The heading elements of a page and the blocks that begin with them.      *)

Opening(n) == n \in DocumentTokens /\ page[n][1] = "open" /\ page[n][2] \in HeadingTags

IsNewest(n) == \A m \in DocumentTokens : m <= n

HeadsWith(m, level) ==
  \E n \in DocumentTokens : BeginsWith(n, m) /\ AtxLevel[page[n][2]] = level

HasBegun(b) == blocks[b].level # 0 /\ blocks[b].words # <<>>

HeadingUnderWay ==
  LET last == blocks[Len(blocks)]
  IN  /\ last.words = <<>> /\ last.level # 0 =>
           \E n \in DocumentTokens :
             Opening(n) /\ IsNewest(n) /\ AtxLevel[page[n][2]] = last.level
      /\ \A n \in DocumentTokens :
           Opening(n) /\ IsNewest(n) => last.words = <<>> /\ last.level # 0

Begun ==
  InTurn =>
    /\ HeadingUnderWay
    /\ \A b \in DOMAIN blocks : HasBegun(b) => HeadsWith(blocks[b].words[1], blocks[b].level)
    /\ \A n, m \in DocumentTokens :
         BeginsWith(n, m) => \E b \in DOMAIN blocks : HasBegun(b) /\ blocks[b].words[1] = m

(* Blocks begin with the texts of the page, in its order.                   *)
FirstWords ==
  /\ \A b \in DOMAIN blocks : blocks[b].words # <<>> =>
       blocks[b].words[1] \in DOMAIN page /\ page[blocks[b].words[1]][1] = "text"
  /\ \A b, c \in DOMAIN blocks :
       b < c /\ blocks[b].words # <<>> /\ blocks[c].words # <<>> =>
         blocks[b].words[1] < blocks[c].words[1]

(* What a token changes of it.                                              *)
LEMMA ElementsBegin ==
  ASSUME Elements, NEW token \in Tokens, Token(token), InTurn',
         NEW here, here = Len(page) + 1
  PROVE  /\ here \notin DocumentTokens
         /\ \A n \in DocumentTokens : n \in Nat /\ n < here /\ page'[n] = page[n]
         /\ page'[here] = token
         /\ \A n, m \in DocumentTokens : BeginsWith(n, m)' <=> BeginsWith(n, m)
         /\ \A n \in DocumentTokens : ~BeginsWith(here, n)'
         /\ \A n \in DocumentTokens' : BeginsWith(n, here)' <=>
              /\ here \in DocumentTokens' /\ token[1] = "text"
              /\ Opening(n) /\ IsNewest(n)
<1>1. /\ Len(page) \in Nat /\ \A n \in 1..Len(page) : page'[n] = page[n]
      /\ page'[here] = token
  BY Goes DEF Elements
<1>2. /\ DocumentTokens \subseteq 1..Len(page)
      /\ DocumentTokens' = DocumentTokens \cup {here} \/ DocumentTokens' = DocumentTokens
  BY DocumentGrows
<1>3. /\ \A n \in DocumentTokens : n \in Nat /\ n < here /\ ~(here < n)
      /\ here \notin DocumentTokens /\ here \in Nat /\ ~(here < here)
  BY <1>1, <1>2
<1>4. \A n \in DocumentTokens : page'[n] = page[n]
  BY <1>1, <1>2
<1>5. ASSUME NEW n \in DocumentTokens, NEW m \in DocumentTokens
      PROVE  BeginsWith(n, m)' <=> BeginsWith(n, m)
  <2>1. (\A l \in DocumentTokens' : ~(n < l /\ l < m))
          <=> (\A l \in DocumentTokens : ~(n < l /\ l < m))
    BY <1>2, <1>3
  <2>2. n \in DocumentTokens' /\ m \in DocumentTokens'
    BY <1>2
  <2> QED
    BY <1>4, <2>1, <2>2 DEF BeginsWith
<1>6. ASSUME NEW n \in DocumentTokens
      PROVE  ~BeginsWith(here, n)'
  BY <1>3 DEF BeginsWith
<1>7. ASSUME NEW n \in DocumentTokens'
      PROVE  BeginsWith(n, here)' <=>
               /\ here \in DocumentTokens' /\ token[1] = "text"
               /\ Opening(n) /\ IsNewest(n)
  <2>1. CASE n = here
    BY <2>1, <1>3 DEF BeginsWith, Opening
  <2>2. CASE n \in DocumentTokens
    <3>1. (\A l \in DocumentTokens' : ~(n < l /\ l < here)) <=> IsNewest(n)
      <4>1. \A l \in DocumentTokens : (n < l /\ l < here) <=> ~(l <= n)
        BY <1>3, <2>2
      <4>2. ~(n < here /\ here < here)
        BY <1>3
      <4> QED
        BY <1>2, <4>1, <4>2 DEF IsNewest
    <3>2. page'[n] = page[n] /\ n < here
      BY <1>3, <1>4, <2>2
    <3> QED
      BY <1>1, <2>2, <3>1, <3>2 DEF BeginsWith, Opening
  <2> QED
    BY <1>2, <2>1, <2>2
<1> QED
  BY <1>1, <1>2, <1>3, <1>4, <1>5, <1>6, <1>7

(* A token that is none of the document.                                    *)
LEMMA NoneBegins ==
  ASSUME Elements, Begun, NEW token \in Tokens, Token(token), UNCHANGED blocks,
         skipping # None \/ token[2] \in DroppedTags
  PROVE  Begun'
<1> SUFFICES ASSUME InTurn'
             PROVE  Begun'
  BY DEF Begun
<1>1. InTurn
  BY GoesInTurn DEF Elements
<1>2. DocumentTokens' = DocumentTokens
  BY DocumentGrows
<1>3. /\ \A n, m \in DocumentTokens : BeginsWith(n, m)' <=> BeginsWith(n, m)
      /\ \A n \in DocumentTokens : page'[n] = page[n]
  BY ElementsBegin
<1>4. \A n : (Opening(n)' <=> Opening(n)) /\ (IsNewest(n)' <=> IsNewest(n))
  BY <1>2, <1>3 DEF Opening, IsNewest
<1>5. HeadingUnderWay'
  <2>1. HeadingUnderWay
    BY <1>1 DEF Begun
  <2> QED
    BY <1>2, <1>3, <1>4, <2>1 DEF HeadingUnderWay
<1>6. \A b : HasBegun(b)' <=> HasBegun(b)
  BY DEF HasBegun
<1>7. \A b \in DOMAIN blocks' : HasBegun(b)' => HeadsWith(blocks[b].words[1], blocks[b].level)'
  <2>1. \A b \in DOMAIN blocks : HasBegun(b) => HeadsWith(blocks[b].words[1], blocks[b].level)
    BY <1>1 DEF Begun
  <2>2. \A m, level : HeadsWith(m, level) => HeadsWith(m, level)'
    <3> SUFFICES ASSUME NEW m, NEW level, HeadsWith(m, level)
                 PROVE  HeadsWith(m, level)'
      OBVIOUS
    <3>1. PICK n \in DocumentTokens : BeginsWith(n, m) /\ AtxLevel[page[n][2]] = level
      BY DEF HeadsWith
    <3>2. m \in DocumentTokens
      BY <3>1 DEF BeginsWith
    <3> QED
      BY <1>2, <1>3, <3>1, <3>2 DEF HeadsWith
  <2> QED
    BY <1>6, <2>1, <2>2
<1>8. \A n, m \in DocumentTokens' :
        BeginsWith(n, m)' => \E b \in DOMAIN blocks' : HasBegun(b)' /\ blocks'[b].words[1] = m
  <2>1. \A n, m \in DocumentTokens :
          BeginsWith(n, m) => \E b \in DOMAIN blocks : HasBegun(b) /\ blocks[b].words[1] = m
    BY <1>1 DEF Begun
  <2> QED
    BY <1>2, <1>3, <1>6, <2>1
<1> QED
  BY <1>5, <1>7, <1>8 DEF Begun

(* A tag of the document ends the block under way.                          *)
LEMMA TagBegins ==
  ASSUME Reading, Elements, Begun, NEW token \in Tokens, Token(token), skipping = None,
         token[1] # "text", token[2] \notin DroppedTags,
         NEW level, Write(level),
         (token[1] = "open" /\ token[2] \in HeadingTags) <=> level # 0,
         level # 0 => level = AtxLevel[token[2]]
  PROVE  Begun'
<1> SUFFICES ASSUME InTurn'
             PROVE  Begun'
  BY DEF Begun
<1>1. PICK here : here = Len(page) + 1
  OBVIOUS
<1>2. InTurn
  BY GoesInTurn DEF Elements
<1>3. DocumentTokens' = DocumentTokens \cup {here}
  BY <1>1, DocumentGrows
<1>4. /\ here \notin DocumentTokens /\ page'[here] = token
      /\ \A n \in DocumentTokens : n \in Nat /\ n < here /\ page'[n] = page[n]
      /\ \A n, m \in DocumentTokens : BeginsWith(n, m)' <=> BeginsWith(n, m)
      /\ \A n \in DocumentTokens : ~BeginsWith(here, n)'
      /\ \A n \in DocumentTokens' : ~BeginsWith(n, here)'
  BY <1>1, ElementsBegin
<1>5. here \in Nat /\ ~(here < here) /\ here <= here
  BY <1>1, Goes DEF Elements
<1> DEFINE new == Block(level)
           last == Len(blocks)
<1>6. new.level = level /\ new.words = <<>>
  BY DEF Block
<1>7. blocks' = Append(blocks, new) /\ blocks \in Seq(BlockOfPage)
  BY DEF Write, Reading
<1> HIDE DEF new
<1>8. /\ Len(blocks') = last + 1 /\ blocks'[last + 1] = new
      /\ DOMAIN blocks = 1..last /\ DOMAIN blocks' = 1..(last + 1)
      /\ \A b \in 1..last : blocks'[b] = blocks[b]
      /\ \A b \in 1..(last + 1) : b \in 1..last \/ b = last + 1
      /\ \A b \in 1..last : b \in 1..(last + 1)
  BY <1>7
<1> HIDE DEF last
<1>9. HeadingUnderWay'
  <2>1. blocks'[Len(blocks')] = new
    BY <1>8
  <2>2. \A n : Opening(n)' /\ IsNewest(n)' => n = here
    <3> SUFFICES ASSUME NEW n, Opening(n)', IsNewest(n)'
                 PROVE  n = here
      OBVIOUS
    <3>1. n \in DocumentTokens' /\ here <= n
      BY <1>3 DEF Opening, IsNewest
    <3>2. n \in DocumentTokens => n \in Nat /\ n < here
      BY <1>4
    <3>3. n \notin DocumentTokens
      BY <3>1, <3>2, <1>5
    <3> QED
      BY <1>3, <3>1, <3>3
  <2>3. IsNewest(here)'
    <3>1. \A m \in DocumentTokens : m <= here
      BY <1>4, <1>5
    <3> QED
      BY <1>3, <1>5, <3>1 DEF IsNewest
  <2>4. here \in DocumentTokens' /\ (Opening(here)' <=> level # 0)
    BY <1>3, <1>4 DEF Opening
  <2>5. new.words = <<>> /\ new.level # 0 =>
          \E n \in DocumentTokens' :
             Opening(n)' /\ IsNewest(n)' /\ AtxLevel[page'[n][2]] = new.level
    BY <1>4, <1>6, <2>3, <2>4
  <2>6. \A n \in DocumentTokens' :
          Opening(n)' /\ IsNewest(n)' => new.words = <<>> /\ new.level # 0
    BY <1>6, <2>2, <2>4
  <2> QED
    BY <2>1, <2>5, <2>6 DEF HeadingUnderWay
<1>10. \A b \in DOMAIN blocks' :
         HasBegun(b)' => b \in DOMAIN blocks /\ HasBegun(b) /\ blocks'[b] = blocks[b]
  BY <1>6, <1>8 DEF HasBegun
<1>11. \A b \in DOMAIN blocks :
         HasBegun(b) => b \in DOMAIN blocks' /\ HasBegun(b)' /\ blocks'[b] = blocks[b]
  BY <1>8 DEF HasBegun
<1>12. \A b \in DOMAIN blocks' : HasBegun(b)' => HeadsWith(blocks[b].words[1], blocks[b].level)'
  <2>1. \A b \in DOMAIN blocks : HasBegun(b) => HeadsWith(blocks[b].words[1], blocks[b].level)
    BY <1>2 DEF Begun
  <2>2. \A m, l : HeadsWith(m, l) => HeadsWith(m, l)'
    <3> SUFFICES ASSUME NEW m, NEW l, HeadsWith(m, l)
                 PROVE  HeadsWith(m, l)'
      OBVIOUS
    <3>1. PICK n \in DocumentTokens : BeginsWith(n, m) /\ AtxLevel[page[n][2]] = l
      BY DEF HeadsWith
    <3>2. m \in DocumentTokens
      BY <3>1 DEF BeginsWith
    <3> QED
      BY <1>3, <1>4, <3>1, <3>2 DEF HeadsWith
  <2> QED
    BY <1>10, <2>1, <2>2
<1>13. ASSUME NEW n \in DocumentTokens', NEW m \in DocumentTokens', BeginsWith(n, m)'
       PROVE  \E b \in DOMAIN blocks' : HasBegun(b)' /\ blocks'[b].words[1] = m
  <2>1. m \in DocumentTokens
    BY <1>3, <1>4, <1>13
  <2>2. n \in DocumentTokens
    BY <1>3, <1>4, <1>13, <2>1
  <2>3. BeginsWith(n, m)
    BY <1>4, <1>13, <2>1, <2>2
  <2>4. PICK b \in DOMAIN blocks : HasBegun(b) /\ blocks[b].words[1] = m
    BY <1>2, <2>1, <2>2, <2>3 DEF Begun
  <2> QED
    BY <1>11, <2>4
<1> QED
  BY <1>9, <1>12, <1>13 DEF Begun

(* A text of the document goes to the block under way.                      *)
LEMMA TextBegins ==
  ASSUME Reading, Elements, Begun, NEW word \in Words, Text(word)
  PROVE  Begun'
<1> DEFINE token == <<"text", word>>
<1> SUFFICES ASSUME InTurn'
             PROVE  Begun'
  BY DEF Begun
<1>1. PICK here : here = Len(page) + 1
  OBVIOUS
<1>2. /\ token \in Tokens /\ Token(token) /\ skipping = None
      /\ token[1] = "text" /\ token[2] \notin DroppedTags
  BY TagsAre DEF Text, Tokens
<1> HIDE DEF token
<1>3. InTurn
  BY <1>2, GoesInTurn DEF Elements
<1>4. DocumentTokens' = DocumentTokens \cup {here}
  BY <1>1, <1>2, DocumentGrows
<1>5. /\ here \notin DocumentTokens /\ page'[here] = token
      /\ \A n \in DocumentTokens : n \in Nat /\ n < here /\ page'[n] = page[n]
      /\ \A n, m \in DocumentTokens : BeginsWith(n, m)' <=> BeginsWith(n, m)
      /\ \A n \in DocumentTokens : ~BeginsWith(here, n)'
      /\ \A n \in DocumentTokens' : BeginsWith(n, here)' <=> Opening(n) /\ IsNewest(n)
  BY <1>1, <1>2, <1>4, ElementsBegin
<1>6. here \in Nat
  BY <1>1, <1>2, Goes DEF Elements
<1> DEFINE last == Len(blocks)
           old == blocks[last]
           new == blocks'[last]
<1>7. /\ Len(blocks') = last /\ last \in Nat \ {0} /\ blocks' \in Seq(BlockOfPage)
      /\ \A b \in 1..(last - 1) : blocks'[b] = blocks[b]
      /\ new.level = old.level /\ new.words = Append(old.words, here)
  BY <1>1, TextWrites
<1>8. /\ blocks \in Seq(BlockOfPage)
      /\ DOMAIN blocks = 1..last /\ DOMAIN blocks' = 1..last
      /\ \A b \in 1..last : b \in 1..(last - 1) \/ b = last
      /\ \A b \in 1..(last - 1) : b \in 1..last
      /\ last \in 1..last
  BY <1>7 DEF Reading
<1>9. old.words \in Seq(Nat)
  BY <1>8, WordsAre
<1>10. /\ new.words # <<>>
       /\ old.words # <<>> => new.words[1] = old.words[1]
       /\ old.words = <<>> => new.words[1] = here
  <2> DEFINE w == old.words
  <2>0. w \in Seq(Nat)
    BY <1>9
  <2> HIDE DEF w
  <2>1. /\ Append(w, here) # <<>>
        /\ w # <<>> => Append(w, here)[1] = w[1]
        /\ w = <<>> => Append(w, here)[1] = here
    BY <1>6, <2>0
  <2> QED
    BY <1>7, <2>1 DEF w
<1> HIDE DEF last, old, new
<1>11. HeadingUnderWay
  BY <1>3 DEF Begun
<1>12. HeadingUnderWay'
  <2>1. blocks'[Len(blocks')] = new
    BY <1>7 DEF new
  <2>2. \A n \in DocumentTokens' : ~(Opening(n)' /\ IsNewest(n)')
    <3> SUFFICES ASSUME NEW n \in DocumentTokens', Opening(n)', IsNewest(n)'
                 PROVE  FALSE
      OBVIOUS
    <3>1. here <= n /\ page'[n][1] = "open"
      BY <1>4 DEF Opening, IsNewest
    <3>2. CASE n = here
      BY <3>1, <3>2, <1>2, <1>5
    <3>3. CASE n \in DocumentTokens
      <4>1. n \in Nat /\ n < here
        BY <1>5, <3>3
      <4> QED
        BY <3>1, <4>1, <1>6
    <3> QED
      BY <1>4, <3>2, <3>3
  <2> QED
    BY <1>10, <2>1, <2>2 DEF HeadingUnderWay
<1>13. \A m, l : HeadsWith(m, l) => HeadsWith(m, l)'
  <2> SUFFICES ASSUME NEW m, NEW l, HeadsWith(m, l)
               PROVE  HeadsWith(m, l)'
    OBVIOUS
  <2>1. PICK n \in DocumentTokens : BeginsWith(n, m) /\ AtxLevel[page[n][2]] = l
    BY DEF HeadsWith
  <2>2. m \in DocumentTokens
    BY <2>1 DEF BeginsWith
  <2> QED
    BY <1>4, <1>5, <2>1, <2>2 DEF HeadsWith
<1>14. \A b \in DOMAIN blocks : HasBegun(b) => HeadsWith(blocks[b].words[1], blocks[b].level)
  BY <1>3 DEF Begun
<1>15. ASSUME NEW b \in DOMAIN blocks', HasBegun(b)'
       PROVE  HeadsWith(blocks[b].words[1], blocks[b].level)'
  <2> DEFINE m == blocks'[b].words[1]
             l == blocks'[b].level
  <2>1. SUFFICES \A x, y : x = m /\ y = l => HeadsWith(x, y)'
    BY DEF HeadsWith
  <2>2. CASE b \in 1..(last - 1)
    <3>1. b \in DOMAIN blocks /\ blocks'[b] = blocks[b]
      BY <1>7, <1>8, <2>2
    <3> QED
      BY <1>13, <1>14, <1>15, <3>1 DEF HasBegun
  <2>3. CASE b = last /\ old.words # <<>>
    <3>1. b \in DOMAIN blocks /\ blocks[b] = old /\ blocks'[b] = new
      BY <1>8, <2>3 DEF old, new
    <3>2. m = old.words[1] /\ l = old.level
      BY <1>7, <1>10, <2>3, <3>1
    <3>3. HasBegun(b)
      BY <1>7, <1>15, <2>3, <3>1 DEF HasBegun
    <3> QED
      BY <1>13, <1>14, <3>1, <3>2, <3>3
  <2>4. CASE b = last /\ old.words = <<>>
    <3>1. blocks[b] = old /\ blocks'[b] = new
      BY <2>4 DEF old, new
    <3>2. m = here /\ l = old.level /\ old.level # 0
      BY <1>7, <1>10, <1>15, <2>4, <3>1 DEF HasBegun
    <3>3. PICK n \in DocumentTokens : Opening(n) /\ IsNewest(n) /\ AtxLevel[page[n][2]] = l
      BY <1>11, <2>4, <3>2 DEF HeadingUnderWay, old, last
    <3>4. n \in DocumentTokens' /\ BeginsWith(n, here)' /\ AtxLevel[page'[n][2]] = l
      BY <1>4, <1>5, <3>3
    <3> QED
      BY <3>2, <3>4 DEF HeadsWith
  <2> QED
    BY <1>8, <2>2, <2>3, <2>4
<1>16. ASSUME NEW n \in DocumentTokens', NEW m \in DocumentTokens', BeginsWith(n, m)'
       PROVE  \E b \in DOMAIN blocks' : HasBegun(b)' /\ blocks'[b].words[1] = m
  <2>1. CASE m = here
    <3>1. Opening(n) /\ IsNewest(n)
      BY <1>5, <1>16, <2>1
    <3>2. old.words = <<>> /\ old.level # 0
      BY <1>11, <3>1 DEF HeadingUnderWay, Opening, old, last
    <3>3. PICK b : b = last
      OBVIOUS
    <3>4. b \in DOMAIN blocks' /\ blocks'[b] = new
      BY <1>8, <3>3 DEF new
    <3>5. HasBegun(b)' /\ blocks'[b].words[1] = m
      BY <1>7, <1>10, <2>1, <3>2, <3>4 DEF HasBegun
    <3> QED
      BY <3>4, <3>5
  <2>2. CASE m \in DocumentTokens
    <3>1. n \in DocumentTokens
      BY <1>4, <1>5, <1>16, <2>2
    <3>2. BeginsWith(n, m)
      BY <1>5, <1>16, <2>2, <3>1
    <3>3. PICK b \in DOMAIN blocks : HasBegun(b) /\ blocks[b].words[1] = m
      BY <1>3, <2>2, <3>1, <3>2 DEF Begun
    <3>4. CASE b \in 1..(last - 1)
      <4>1. b \in DOMAIN blocks' /\ blocks'[b] = blocks[b]
        BY <1>7, <1>8, <3>4
      <4> QED
        BY <3>3, <4>1 DEF HasBegun
    <3>5. CASE b = last
      <4>1. b \in DOMAIN blocks' /\ blocks[b] = old /\ blocks'[b] = new
        BY <1>8, <3>5 DEF old, new
      <4>2. HasBegun(b)' /\ blocks'[b].words[1] = m
        BY <1>7, <1>10, <3>3, <4>1 DEF HasBegun
      <4> QED
        BY <4>1, <4>2
    <3> QED
      BY <1>8, <3>3, <3>4, <3>5
  <2> QED
    BY <1>4, <2>1, <2>2
<1> QED
  BY <1>12, <1>15, <1>16 DEF Begun

LEMMA FirstWordsKept ==
  ASSUME Reading, FirstWords, page \in Seq(Tokens), NEW token \in Tokens, Token(token),
         \/ UNCHANGED blocks
         \/ \E level : Write(level)
  PROVE  FirstWords'
<1>1. /\ DOMAIN page \subseteq DOMAIN page' /\ \A n \in DOMAIN page : page'[n] = page[n]
  BY Goes
<1>2. \A b \in DOMAIN blocks' :
        blocks'[b].words # <<>> => b \in DOMAIN blocks /\ blocks'[b] = blocks[b]
  <2>1. CASE UNCHANGED blocks
    BY <2>1
  <2>2. ASSUME NEW level, Write(level)
        PROVE  \A b \in DOMAIN blocks' :
                 blocks'[b].words # <<>> => b \in DOMAIN blocks /\ blocks'[b] = blocks[b]
    <3> DEFINE new == Block(level)
    <3>1. new.words = <<>>
      BY DEF Block
    <3>2. blocks' = Append(blocks, new) /\ blocks \in Seq(BlockOfPage)
      BY <2>2 DEF Write, Reading
    <3> HIDE DEF new
    <3>3. \A b \in DOMAIN blocks' :
            \/ b \in DOMAIN blocks /\ blocks'[b] = blocks[b]
            \/ blocks'[b] = new
      BY <3>2
    <3> QED
      BY <3>1, <3>3
  <2> QED
    BY <2>1, <2>2
<1>3. \A b \in DOMAIN blocks' : blocks'[b].words # <<>> =>
        blocks'[b].words[1] \in DOMAIN page' /\ page'[blocks'[b].words[1]][1] = "text"
  BY <1>1, <1>2 DEF FirstWords
<1>4. \A b, c \in DOMAIN blocks' :
        b < c /\ blocks'[b].words # <<>> /\ blocks'[c].words # <<>> =>
          blocks'[b].words[1] < blocks'[c].words[1]
  BY <1>2 DEF FirstWords
<1> QED
  BY <1>3, <1>4 DEF FirstWords

(* What is appended to a sequence is its first element only if it was       *)
(* empty.                                                                   *)
LEMMA AppendKeepsFirst ==
  ASSUME NEW w \in Seq(Nat), NEW n \in Nat
  PROVE  /\ Append(w, n) # <<>>
         /\ w # <<>> => Append(w, n)[1] = w[1]
         /\ w = <<>> => Append(w, n)[1] = n
<1>1. Len(w) \in Nat /\ Len(Append(w, n)) = Len(w) + 1
  OBVIOUS
<1>2. Append(w, n) # <<>>
  BY <1>1
<1>3. ASSUME w # <<>> PROVE Append(w, n)[1] = w[1]
  <2>1. Len(w) > 0
    BY <1>1, <1>3
  <2> QED
    BY <1>1, <2>1
<1> QED
  BY <1>2, <1>3

LEMMA TextIsFirst ==
  ASSUME Reading, FirstWords, page \in Seq(Tokens), NEW word \in Words, Text(word)
  PROVE  FirstWords'
<1> DEFINE token == <<"text", word>>
           here == Len(page) + 1
           last == Len(blocks)
           old == blocks[last]
           new == blocks'[last]
<1>1. token \in Tokens /\ Token(token) /\ token[1] = "text"
  BY DEF Text, Tokens
<1> HIDE DEF token
<1>2. /\ page \in Seq(Tokens) /\ page' \in Seq(Tokens) /\ Len(page') = Len(page) + 1
      /\ DOMAIN page \subseteq DOMAIN page' /\ \A n \in DOMAIN page : page'[n] = page[n]
      /\ page'[here] = token
  BY <1>1, Goes
<1>3. here \in DOMAIN page' /\ here \in Nat /\ \A n \in DOMAIN page : n \in Nat /\ n < here
  BY <1>2
<1>4. /\ Len(blocks') = last /\ last \in Nat \ {0} /\ blocks' \in Seq(BlockOfPage)
      /\ \A b \in 1..(last - 1) : blocks'[b] = blocks[b]
      /\ new.words = Append(old.words, here)
  BY TextWrites
<1>5. /\ blocks \in Seq(BlockOfPage)
      /\ DOMAIN blocks = 1..last /\ DOMAIN blocks' = 1..last
      /\ \A b \in 1..last : b \in 1..(last - 1) \/ b = last
      /\ \A b \in 1..(last - 1) : b \in 1..last
      /\ last \in 1..last
      /\ \A b, c \in 1..last : b < c => b \in 1..(last - 1)
  BY <1>4 DEF Reading
<1>6. old.words \in Seq(Nat)
  BY <1>5, WordsAre
<1>7. /\ new.words # <<>>
      /\ old.words # <<>> => new.words[1] = old.words[1]
      /\ old.words = <<>> => new.words[1] = here
  <2> DEFINE w == old.words
  <2>1. w \in Seq(Nat)
    BY <1>6
  <2> HIDE DEF w, here
  <2>2. /\ Append(w, here) # <<>>
        /\ w # <<>> => Append(w, here)[1] = w[1]
        /\ w = <<>> => Append(w, here)[1] = here
    BY <1>3, <2>1, AppendKeepsFirst
  <2> QED
    BY <1>4, <2>2 DEF w
<1> HIDE DEF last, old, new, here
<1>8. \A b \in 1..last : blocks'[b].words # <<>> =>
        \/ blocks[b].words # <<>> /\ blocks'[b].words[1] = blocks[b].words[1]
        \/ b = last /\ blocks'[b].words[1] = here
  <2> SUFFICES ASSUME NEW b \in 1..last, blocks'[b].words # <<>>
               PROVE  \/ blocks[b].words # <<>> /\ blocks'[b].words[1] = blocks[b].words[1]
                      \/ b = last /\ blocks'[b].words[1] = here
    OBVIOUS
  <2>1. CASE b \in 1..(last - 1)
    BY <1>4, <2>1
  <2>2. CASE b = last
    BY <1>7, <2>2 DEF old, new
  <2> QED
    BY <1>5, <2>1, <2>2
<1>9. \A b \in 1..last : blocks[b].words # <<>> =>
        blocks[b].words[1] \in DOMAIN page /\ page[blocks[b].words[1]][1] = "text"
  BY <1>5 DEF FirstWords
<1>10. ASSUME NEW b \in DOMAIN blocks', blocks'[b].words # <<>>
       PROVE  blocks'[b].words[1] \in DOMAIN page' /\ page'[blocks'[b].words[1]][1] = "text"
  <2>1. CASE blocks[b].words # <<>> /\ blocks'[b].words[1] = blocks[b].words[1]
    BY <1>2, <1>5, <1>9, <2>1
  <2>2. CASE blocks'[b].words[1] = here
    BY <1>1, <1>2, <1>3, <2>2
  <2> QED
    BY <1>5, <1>8, <1>10, <2>1, <2>2
<1>11. ASSUME NEW b \in DOMAIN blocks', NEW c \in DOMAIN blocks', b < c,
              blocks'[b].words # <<>>, blocks'[c].words # <<>>
       PROVE  blocks'[b].words[1] < blocks'[c].words[1]
  <2>1. b \in 1..last /\ c \in 1..last /\ b \in 1..(last - 1)
    BY <1>5, <1>11
  <2>2. blocks'[b] = blocks[b] /\ blocks[b].words # <<>>
    BY <1>4, <1>11, <2>1
  <2>3. blocks[b].words[1] \in DOMAIN page
    BY <1>9, <2>1, <2>2
  <2>4. CASE blocks[c].words # <<>> /\ blocks'[c].words[1] = blocks[c].words[1]
    BY <1>5, <1>11, <2>1, <2>2, <2>4 DEF FirstWords
  <2>5. CASE blocks'[c].words[1] = here
    BY <1>3, <2>2, <2>3, <2>5
  <2> QED
    BY <1>8, <1>11, <2>1, <2>4, <2>5
<1> QED
  BY <1>10, <1>11 DEF FirstWords

-----------------------------------------------------------------------------
(* The lines given to detectHeadings are those of the page, as far as it    *)
(* is scanned.                                                              *)

LinesGiven ==
  format = "html" =>
    IF reading THEN doc = <<>> /\ phase = "scan"
    ELSE /\ Len(doc) <= Len(TextLines)
         /\ \A k \in 1..Len(doc) : doc[k] = TextLines[k]
         /\ phase # "scan" => Len(doc) = Len(TextLines)

LEMMA LinesAre ==
  ASSUME Reading
  PROVE  /\ Len(TextLines) \in Nat /\ DOMAIN TextLines = 1..Len(TextLines)
         /\ Len(Written) \in Nat /\ DOMAIN TextLines = 1..(2 * Len(Written) - 1)
<1> DEFINE S == {b \in DOMAIN blocks : blocks[b].level > 0 \/ blocks[b].words # <<>>}
<1>1. blocks \in Seq(BlockOfPage) /\ S \in SUBSET (DOMAIN blocks)
  BY DEF Reading
<1>2. Written = Chosen(blocks, S)
  BY DEF Written
<1> HIDE DEF S
<1>3. Written \in Seq(BlockOfPage)
  BY <1>1, <1>2, ChosenIs
<1>4. Len(Written) \in Nat
  BY <1>3
<1>5. DOMAIN TextLines = 1..(2 * Len(Written) - 1)
  BY DEF TextLines
<1> DEFINE n == IF Len(Written) = 0 THEN 0 ELSE 2 * Len(Written) - 1
<1>6. n \in Nat /\ 1..(2 * Len(Written) - 1) = 1..n
  BY <1>4
<1> HIDE DEF n
<1>7. TextLines = [k \in 1..n |-> TextLines[k]]
  BY <1>6 DEF TextLines
<1>8. Len(TextLines) = n
  <2>1. \A f, m : m \in Nat /\ f = [k \in 1..m |-> f[k]] => Len(f) = m
    OBVIOUS
  <2> QED
    BY <1>6, <1>7, <2>1
<1> QED
  BY <1>4, <1>5, <1>6, <1>8

LEMMA PageGivesLines ==
  ASSUME IInv, LinesGiven, [Next]_docVars
  PROVE  LinesGiven'
<1>1. /\ Len(TextLines) \in Nat /\ DOMAIN TextLines = 1..Len(TextLines)
      /\ doc \in Seq(Kinds) /\ Len(doc) \in Nat
  BY LinesAre DEF IInv, Scanning
<1>2. UNCHANGED <<page, blocks>> => TextLines' = TextLines
  BY DEF TextLines, Written, KindOf
<1>3. CASE reading /\ reading' = reading /\ UNCHANGED vars
  BY <1>3 DEF LinesGiven, vars
<1>4. CASE EndOfPage
  <2>1. /\ reading /\ ~reading' /\ UNCHANGED <<format, doc, phase>>
        /\ TextLines' = TextLines
    BY <1>2, <1>4 DEF EndOfPage, vars
  <2>2. CASE format = "html"
    <3>1. doc = <<>> /\ phase = "scan"
      BY <2>1, <2>2 DEF LinesGiven
    <3>2. Len(doc) = 0 /\ 1..Len(doc) = {}
      BY <3>1
    <3> QED
      BY <1>1, <2>1, <3>1, <3>2 DEF LinesGiven
  <2>3. CASE format # "html"
    BY <2>1, <2>3 DEF LinesGiven
  <2> QED
    BY <2>2, <2>3
<1>5. CASE ScanDocument /\ format = "html"
  <2> DEFINE kind == TextLines[Here]
  <2>1. /\ ~reading /\ ~reading' /\ UNCHANGED <<page, blocks>>
        /\ Here \in DOMAIN TextLines /\ ScanLine(kind)
    BY <1>5 DEF ScanDocument, pageVars
  <2> HIDE DEF kind
  <2>2. phase' = "scan" /\ doc' = Append(doc, kind)
    BY <1>5, <2>1, LineIsScanned DEF IInv
  <2>3. TextLines' = TextLines
    BY <1>2, <2>1
  <2>4. /\ Len(doc') = Len(doc) + 1 /\ doc'[Len(doc) + 1] = kind
        /\ \A k \in 1..Len(doc) : doc'[k] = doc[k]
        /\ \A k \in 1..(Len(doc) + 1) : k \in 1..Len(doc) \/ k = Len(doc) + 1
        /\ Len(doc) + 1 <= Len(TextLines)
    BY <1>1, <2>1, <2>2 DEF Here
  <2>5. \A k \in 1..Len(doc) : doc[k] = TextLines[k]
    BY <1>5, <2>1 DEF LinesGiven
  <2>6. \A k \in 1..Len(doc') : doc'[k] = TextLines'[k]
    BY <2>3, <2>4, <2>5 DEF kind, Here
  <2> QED
    BY <2>1, <2>2, <2>3, <2>4, <2>6 DEF LinesGiven
<1>6. CASE ScanDocument /\ format # "html"
  <2>1. PICK kind : ScanLine(kind)
    BY <1>6 DEF ScanDocument
  <2>2. format' = format
    BY <2>1 DEF ScanLine, ToggleFence, SkipLine, AtxHeading, SetextUnderline,
                PlainLine, NextLine, CsvRow
  <2> QED
    BY <1>6, <2>2 DEF LinesGiven
<1>7. CASE EndOfDocument
  <2>1. /\ ~reading /\ ~reading' /\ UNCHANGED <<page, blocks, format, doc>>
        /\ format = "html" => Len(doc) = Len(TextLines)
    BY <1>7 DEF EndOfDocument, EndOfText, pageVars
  <2> QED
    BY <1>2, <2>1 DEF LinesGiven
<1>8. CASE UNCHANGED docVars
  <2>1. UNCHANGED <<page, blocks, format, doc, phase, reading>>
    BY <1>8 DEF docVars, vars, pageVars
  <2> QED
    BY <1>2, <2>1 DEF LinesGiven
<1> QED
  BY <1>3, <1>4, <1>5, <1>6, <1>7, <1>8
     DEF Next, SkipToken, EndSkipping, DropElement, StrayEnd, OpenHeading,
         CloseHeading, EndLine, Text, Token

(* A document without fences and underlines: its headings are its lines     *)
(* with marks.                                                              *)
AtxOnly ==
  /\ format # "csv" /\ Style = "markup"
  /\ \A k \in DOMAIN doc : doc[k] \notin Fences \cup Underlines

AtxScanned ==
  AtxOnly =>
    /\ ~inFence
    /\ \A k \in DOMAIN headings : headings[k].level = AtxLevel[doc[headings[k].line]]
    /\ \A l \in DOMAIN doc :
         doc[l] \in DOMAIN AtxLevel => \E k \in DOMAIN headings : headings[k].line = l

LEMMA MarksAreScanned ==
  ASSUME IInv, AtxScanned, NEW kind, ScanLine(kind)
  PROVE  AtxScanned'
<1> SUFFICES ASSUME AtxOnly'
             PROVE  AtxScanned'
  BY DEF AtxScanned
<1> DEFINE new == [level |-> AtxLevel[kind], line |-> Len(doc) + 1]
<1>1. format' = format
  BY DEF ScanLine, ToggleFence, SkipLine, AtxHeading, SetextUnderline,
         PlainLine, NextLine, CsvRow
<1>2. format # "csv" /\ Style = "markup"
  BY <1>1 DEF AtxOnly, Style
<1>3. /\ doc \in Seq(Kinds) /\ headings \in Seq(Heading)
      /\ \A k \in DOMAIN headings : headings[k].line \in 1..Len(doc)
  BY DEF IInv, Scanning, HeadingsInOrder
<1>4. doc' = Append(doc, kind)
  BY <1>2, LineIsScanned DEF IInv
<1>5. /\ DOMAIN doc = 1..Len(doc) /\ DOMAIN doc' = 1..(Len(doc) + 1) /\ Len(doc) \in Nat
      /\ \A k \in 1..Len(doc) : doc'[k] = doc[k]
      /\ doc'[Len(doc) + 1] = kind
      /\ \A k \in 1..(Len(doc) + 1) : k \in 1..Len(doc) \/ k = Len(doc) + 1
      /\ \A k \in 1..Len(doc) : k \in 1..(Len(doc) + 1)
      /\ Len(doc) + 1 \in 1..(Len(doc) + 1)
  BY <1>3, <1>4
<1>6. kind \notin Fences \cup Underlines /\ AtxOnly
  BY <1>2, <1>5 DEF AtxOnly
<1>7. /\ ~inFence
      /\ \A k \in DOMAIN headings : headings[k].level = AtxLevel[doc[headings[k].line]]
      /\ \A l \in DOMAIN doc :
           doc[l] \in DOMAIN AtxLevel => \E k \in DOMAIN headings : headings[k].line = l
  BY <1>6 DEF AtxScanned
<1>8. /\ inFence' = inFence
      /\ \/ kind \notin DOMAIN AtxLevel /\ UNCHANGED headings
         \/ kind \in DOMAIN AtxLevel /\ headings' = Append(headings, new)
  <2>1. "blank" \notin DOMAIN AtxLevel
    BY AtxLevels
  <2>2. CASE ToggleFence(kind) \/ SetextUnderline(kind) \/ CsvRow(kind)
    BY <2>2, <1>2, <1>6 DEF ToggleFence, SetextUnderline, CsvRow
  <2>3. CASE SkipLine(kind)
    BY <2>1, <2>3, <1>7 DEF SkipLine
  <2>4. CASE AtxHeading(kind)
    BY <2>4 DEF AtxHeading, Record, Here
  <2>5. CASE PlainLine(kind)
    BY <2>5, <1>2 DEF PlainLine
  <2> QED
    BY <2>2, <2>3, <2>4, <2>5 DEF ScanLine
<1>9. CASE kind \notin DOMAIN AtxLevel /\ UNCHANGED headings
  <2>1. \A k \in DOMAIN headings' : headings'[k].level = AtxLevel[doc'[headings'[k].line]]
    BY <1>3, <1>5, <1>7, <1>9
  <2>2. \A l \in DOMAIN doc' :
          doc'[l] \in DOMAIN AtxLevel => \E k \in DOMAIN headings' : headings'[k].line = l
    BY <1>5, <1>7, <1>9
  <2> QED
    BY <1>7, <1>8, <2>1, <2>2 DEF AtxScanned
<1>10. CASE kind \in DOMAIN AtxLevel /\ headings' = Append(headings, new)
  <2> DEFINE n == Len(headings) + 1
  <2>1. new.level = AtxLevel[kind] /\ new.line = Len(doc) + 1
    OBVIOUS
  <2> HIDE DEF new
  <2>2. /\ \A k \in DOMAIN headings : k \in DOMAIN headings' /\ headings'[k] = headings[k]
        /\ \A k \in DOMAIN headings' : k \in DOMAIN headings \/ k = n
        /\ n \in DOMAIN headings' /\ headings'[n] = new
    BY <1>3, <1>10
  <2> HIDE DEF n
  <2>3. \A k \in DOMAIN headings' : headings'[k].level = AtxLevel[doc'[headings'[k].line]]
    <3> SUFFICES ASSUME NEW k \in DOMAIN headings'
                 PROVE  headings'[k].level = AtxLevel[doc'[headings'[k].line]]
      OBVIOUS
    <3>1. CASE k \in DOMAIN headings
      BY <1>3, <1>5, <1>7, <2>2, <3>1
    <3>2. CASE k = n
      BY <1>5, <2>1, <2>2, <3>2
    <3> QED
      BY <2>2, <3>1, <3>2
  <2>4. \A l \in DOMAIN doc' :
          doc'[l] \in DOMAIN AtxLevel => \E k \in DOMAIN headings' : headings'[k].line = l
    <3> SUFFICES ASSUME NEW l \in DOMAIN doc', doc'[l] \in DOMAIN AtxLevel
                 PROVE  \E k \in DOMAIN headings' : headings'[k].line = l
      OBVIOUS
    <3>1. CASE l \in 1..Len(doc)
      BY <1>5, <1>7, <2>2, <3>1
    <3>2. CASE l = Len(doc) + 1
      BY <2>1, <2>2, <3>2
    <3> QED
      BY <1>5, <3>1, <3>2
  <2> QED
    BY <1>7, <1>8, <2>3, <2>4 DEF AtxScanned
<1> QED
  BY <1>8, <1>9, <1>10

LEMMA MarksStay ==
  ASSUME AtxScanned, UNCHANGED <<format, doc, inFence, headings>>
  PROVE  AtxScanned'
BY DEF AtxScanned, AtxOnly, Style

-----------------------------------------------------------------------------
(* The headings of a page.                                                  *)

HInv == Begun /\ FirstWords /\ LinesGiven /\ AtxScanned

LEMMA HeadingsBegin ==
  ASSUME Documented
  PROVE  HInv
<1>1. /\ page = <<>> /\ blocks = <<Block(0)>> /\ doc = <<>> /\ phase = "scan"
      /\ reading = (format = "html") /\ inFence = FALSE /\ headings = <<>>
  BY DEF Documented, Init
<1>2. DOMAIN page = {} /\ DOMAIN doc = {} /\ DOMAIN headings = {}
  BY <1>1
<1>3. /\ Len(blocks) = 1 /\ blocks[1] = Block(0) /\ DOMAIN blocks = {1}
      /\ Block(0).level = 0 /\ Block(0).words = <<>>
  BY <1>1 DEF Block
<1>4. DocumentTokens = {}
  BY <1>2 DEF DocumentTokens
<1>5. Begun
  BY <1>3, <1>4 DEF Begun, HeadingUnderWay, HasBegun
<1>6. FirstWords
  BY <1>3 DEF FirstWords
<1>7. LinesGiven
  BY <1>1 DEF LinesGiven
<1>8. AtxScanned
  BY <1>1, <1>2 DEF AtxScanned
<1> QED
  BY <1>5, <1>6, <1>7, <1>8 DEF HInv

LEMMA BegunStays ==
  ASSUME Begun, FirstWords, UNCHANGED <<page, blocks>>
  PROVE  Begun' /\ FirstWords'
<1>1. /\ \A n : OpenAfter(n)' = OpenAfter(n)
      /\ Len(page)' = Len(page)
  BY DEF OpenAfter
<1>2. InTurn' <=> InTurn
  BY <1>1 DEF InTurn
<1>3. DocumentTokens' = DocumentTokens
  <2>1. \A n : Shown(n)' <=> Shown(n)
    BY <1>1 DEF Shown
  <2> QED
    BY <2>1 DEF DocumentTokens
<1>4. \A n, m : BeginsWith(n, m)' <=> BeginsWith(n, m)
  BY <1>3 DEF BeginsWith
<1>5. HeadingUnderWay' <=> HeadingUnderWay
  BY <1>3 DEF HeadingUnderWay, Opening, IsNewest
<1>6. /\ \A b : HasBegun(b)' <=> HasBegun(b)
      /\ \A m, l : HeadsWith(m, l)' <=> HeadsWith(m, l)
      /\ \A b : HeadsWith(blocks[b].words[1], blocks[b].level)'
                  <=> HeadsWith(blocks[b].words[1], blocks[b].level)
  BY <1>3, <1>4 DEF HasBegun, HeadsWith
<1>7. Begun'
  BY <1>2, <1>3, <1>4, <1>5, <1>6 DEF Begun
<1>8. FirstWords'
  BY DEF FirstWords
<1> QED
  BY <1>7, <1>8

LEMMA HeadingsGoOn ==
  ASSUME IInv, PInv, HInv, [Next]_docVars
  PROVE  HInv'
<1> USE DEF PInv, HInv
<1>1. LinesGiven' /\ page \in Seq(Tokens)
  BY PageGivesLines DEF Elements
<1>2. ASSUME NEW token \in Tokens, Token(token)
      PROVE  AtxScanned'
  BY <1>2, MarksStay DEF Token, vars
<1>3. CASE \E token \in Tokens : SkipToken(token)
  <2>1. PICK token \in Tokens : SkipToken(token)
    BY <1>3
  <2>2. Token(token) /\ skipping # None /\ UNCHANGED blocks
    BY <2>1 DEF SkipToken
  <2>3. Begun'
    BY <2>2, NoneBegins
  <2>4. FirstWords'
    BY <1>1, <2>2, FirstWordsKept
  <2> QED
    BY <1>1, <1>2, <2>2, <2>3, <2>4
<1>4. ASSUME NEW tag \in Tags, EndSkipping(tag) \/ DropElement(tag) \/ StrayEnd(tag)
      PROVE  HInv'
  <2>1. tag \in DroppedTags /\ tag \notin BlockTags
    BY <1>4, TagsAre DEF EndSkipping, DropElement, StrayEnd, Elements
  <2>2. PICK token \in {<<"open", tag>>, <<"close", tag>>} : Token(token)
    BY <1>4 DEF EndSkipping, DropElement, StrayEnd
  <2>3. token \in Tokens /\ token[2] = tag /\ UNCHANGED blocks
    BY <1>4, <2>1, <2>2 DEF EndSkipping, DropElement, StrayEnd, Tokens
  <2>4. Begun'
    BY <2>1, <2>2, <2>3, NoneBegins
  <2>5. FirstWords'
    BY <1>1, <2>2, <2>3, FirstWordsKept
  <2> QED
    BY <1>1, <1>2, <2>2, <2>3, <2>4, <2>5
<1>5. ASSUME NEW tag \in Tags, OpenHeading(tag)
      PROVE  HInv'
  <2> DEFINE token == <<"open", tag>>
             level == AtxLevel[tag]
  <2>1. /\ token \in Tokens /\ token[1] = "open" /\ token[2] = tag /\ Token(token)
        /\ skipping = None /\ tag \in HeadingTags /\ Write(level)
    BY <1>5 DEF OpenHeading, Tokens
  <2>2. tag \notin DroppedTags /\ level # 0
    BY <2>1, TagsAre, AtxLevels, DocumentsAssumption
  <2> HIDE DEF token
  <2>3. Begun'
    BY <2>1, <2>2, TagBegins
  <2>4. FirstWords'
    BY <1>1, <2>1, FirstWordsKept
  <2> QED
    BY <1>1, <1>2, <2>1, <2>3, <2>4
<1>6. ASSUME NEW tag \in Tags, CloseHeading(tag) \/ EndLine(tag)
      PROVE  HInv'
  <2>1. PICK token \in {<<"open", tag>>, <<"close", tag>>} :
          /\ Token(token) /\ token[1] # "text" /\ token[2] = tag
          /\ token[1] = "open" => tag \notin HeadingTags
          /\ token \in Tokens
    <3>1. CASE CloseHeading(tag)
      <4>1. tag \notin BlockTags
        BY <3>1, TagsAre DEF CloseHeading
      <4> QED
        BY <3>1, <4>1 DEF CloseHeading, Tokens
    <3>2. CASE EndLine(tag)
      <4>1. tag \notin HeadingTags
        BY <3>2, TagsAre DEF EndLine
      <4> QED
        BY <3>2, <4>1 DEF EndLine, Tokens
    <3> QED
      BY <1>6, <3>1, <3>2
  <2>2. skipping = None /\ tag \notin DroppedTags /\ Write(0)
    BY <1>6, TagsAre DEF CloseHeading, EndLine
  <2>3. Begun'
    BY <2>1, <2>2, TagBegins
  <2>4. FirstWords'
    BY <1>1, <2>1, <2>2, FirstWordsKept
  <2> QED
    BY <1>1, <1>2, <2>1, <2>3, <2>4
<1>7. ASSUME NEW word \in Words, Text(word)
      PROVE  HInv'
  <2>1. <<"text", word>> \in Tokens /\ Token(<<"text", word>>)
    BY <1>7 DEF Text, Tokens
  <2>2. Begun'
    BY <1>7, TextBegins
  <2>3. FirstWords'
    BY <1>1, <1>7, TextIsFirst
  <2> QED
    BY <1>1, <1>2, <2>1, <2>2, <2>3
<1>8. CASE EndOfPage \/ EndOfDocument \/ UNCHANGED docVars
  <2>1. UNCHANGED <<page, blocks, format, doc, inFence, headings>>
    BY <1>8 DEF EndOfPage, EndOfDocument, EndOfText, docVars, vars, pageVars
  <2> QED
    BY <1>1, <2>1, BegunStays, MarksStay
<1>9. CASE ScanDocument
  <2>1. PICK kind : ScanLine(kind)
    BY <1>9 DEF ScanDocument
  <2>2. UNCHANGED <<page, blocks>>
    BY <1>9 DEF ScanDocument, pageVars
  <2> QED
    BY <1>1, <2>1, <2>2, BegunStays, MarksAreScanned
<1> QED
  BY <1>3, <1>4, <1>5, <1>6, <1>7, <1>8, <1>9 DEF Next

LEMMA LineOfPage ==
  ASSUME Reading
  PROVE  /\ \A j \in 1..Len(Written) :
              /\ 2 * j - 1 \in DOMAIN TextLines
              /\ TextLines[2 * j - 1] = KindOf(Written[j])
         /\ \A k \in DOMAIN TextLines :
              \/ TextLines[k] = "blank"
              \/ \E j \in 1..Len(Written) :
                   k = 2 * j - 1 /\ (k + 1) \div 2 = j /\ TextLines[k] = KindOf(Written[j])
<1>1. DOMAIN TextLines = 1..(2 * Len(Written) - 1) /\ Len(Written) \in Nat
  BY LinesAre
<1>2. \A k \in DOMAIN TextLines :
        TextLines[k] = IF k % 2 = 0 THEN "blank" ELSE KindOf(Written[(k + 1) \div 2])
  BY DEF TextLines
<1>3. ASSUME NEW j \in 1..Len(Written)
      PROVE  /\ 2 * j - 1 \in 1..(2 * Len(Written) - 1)
             /\ (2 * j - 1) % 2 # 0 /\ ((2 * j - 1) + 1) \div 2 = j
  BY <1>1
<1>4. ASSUME NEW k \in 1..(2 * Len(Written) - 1), k % 2 # 0
      PROVE  /\ (k + 1) \div 2 \in 1..Len(Written)
             /\ k = 2 * ((k + 1) \div 2) - 1
  BY <1>1, <1>4
<1>5. ASSUME NEW j \in 1..Len(Written)
      PROVE  2 * j - 1 \in DOMAIN TextLines /\ TextLines[2 * j - 1] = KindOf(Written[j])
  BY <1>1, <1>2, <1>3
<1>6. ASSUME NEW k \in DOMAIN TextLines, TextLines[k] # "blank"
      PROVE  \E j \in 1..Len(Written) :
               k = 2 * j - 1 /\ (k + 1) \div 2 = j /\ TextLines[k] = KindOf(Written[j])
  <2>1. k % 2 # 0 /\ TextLines[k] = KindOf(Written[(k + 1) \div 2])
    BY <1>2, <1>6
  <2> QED
    BY <1>1, <1>4, <1>6, <2>1
<1> QED
  BY <1>5, <1>6

(* The texts of a page make lines of text.                                  *)
PlainPage == \A n \in DOMAIN page : page[n][1] = "text" => page[n][2] = "text"

LEMMA KindIs ==
  ASSUME Reading, FirstWords, PlainPage, NEW b \in DOMAIN blocks
  PROVE  /\ KindOf(blocks[b]) \notin Fences \cup Underlines
         /\ KindOf(blocks[b]) \in DOMAIN AtxLevel <=> HasBegun(b)
         /\ HasBegun(b) => AtxLevel[KindOf(blocks[b])] = blocks[b].level
<1>1. "text" \notin Fences \cup Underlines /\ "text" \notin DOMAIN AtxLevel
  BY DEF Fences, Underlines, AtxLevel
<1>2. blocks[b] \in BlockOfPage
  BY DEF Reading
<1>3. CASE blocks[b].words = <<>>
  BY <1>1, <1>3 DEF KindOf, HasBegun
<1>4. CASE blocks[b].words # <<>> /\ blocks[b].level = 0
  <2>1. page[blocks[b].words[1]][2] = "text"
    BY <1>4 DEF FirstWords, PlainPage
  <2> QED
    BY <1>1, <1>4, <2>1 DEF KindOf, HasBegun
<1>5. CASE blocks[b].words # <<>> /\ blocks[b].level # 0
  <2>1. PICK tag \in HeadingTags : AtxLevel[tag] = blocks[b].level
    BY <1>2, <1>5 DEF BlockOfPage
  <2> DEFINE chosen == CHOOSE t \in HeadingTags : AtxLevel[t] = blocks[b].level
  <2>2. chosen \in HeadingTags /\ AtxLevel[chosen] = blocks[b].level
    BY <2>1
  <2>3. KindOf(blocks[b]) = chosen
    BY <1>5 DEF KindOf
  <2> HIDE DEF chosen
  <2>4. chosen \in DOMAIN AtxLevel /\ chosen \notin Fences \cup Underlines
    BY <2>2, DocumentsAssumption, AtxLevels
  <2> QED
    BY <1>5, <2>2, <2>3, <2>4 DEF HasBegun
<1> QED
  BY <1>3, <1>4, <1>5

LEMMA HeadingsAreRead ==
  ASSUME IInv, PInv, HInv, format = "html", phase = "done", WellFormed, PlainPage
  PROVE  LET begun == InOrder({m \in DocumentTokens : \E n \in DocumentTokens : BeginsWith(n, m)},
                              Len(page))
         IN  /\ Len(headings) = Len(begun)
             /\ \A k \in DOMAIN headings :
                  /\ Written[(headings[k].line + 1) \div 2].words[1] = begun[k]
                  /\ \E n \in DocumentTokens :
                       BeginsWith(n, begun[k]) /\ headings[k].level = AtxLevel[page[n][2]]
<1> DEFINE B == {m \in DocumentTokens : \E n \in DocumentTokens : BeginsWith(n, m)}
           S == {b \in DOMAIN blocks : blocks[b].level > 0 \/ blocks[b].words # <<>>}
           q == InOrder(S, Len(blocks))
           first(k) == Written[(headings[k].line + 1) \div 2].words[1]
           w == [k \in DOMAIN headings |-> first(k)]
<1>1. Reading /\ Scanning /\ HeadingsInOrder /\ TitlesAreMarked
  BY DEF IInv
<1>2. page \in Seq(Tokens) /\ InTurn /\ Len(page) \in Nat /\ DOMAIN page = 1..Len(page)
  <2>1. page \in Seq(Tokens)
    BY DEF PInv, Elements
  <2> QED
    BY <2>1, WellFormedInTurn
<1>3. /\ \A b \in DOMAIN blocks : HasBegun(b) => HeadsWith(blocks[b].words[1], blocks[b].level)
      /\ \A n, m \in DocumentTokens :
           BeginsWith(n, m) => \E b \in DOMAIN blocks : HasBegun(b) /\ blocks[b].words[1] = m
      /\ FirstWords
  BY <1>2 DEF HInv, Begun
<1>4. /\ DOMAIN doc = DOMAIN TextLines
      /\ \A k \in DOMAIN doc : doc[k] = TextLines[k]
  <2>1. ~reading /\ Len(doc) = Len(TextLines) /\ \A k \in 1..Len(doc) : doc[k] = TextLines[k]
    BY DEF HInv, LinesGiven
  <2>2. DOMAIN doc = 1..Len(doc) /\ DOMAIN TextLines = 1..Len(TextLines)
    BY <1>1, LinesAre DEF Scanning
  <2> QED
    BY <2>1, <2>2
<1>5. blocks \in Seq(BlockOfPage) /\ S \in SUBSET (DOMAIN blocks) /\ Len(blocks) \in Nat
  BY <1>1 DEF Reading
<1>6. Written = Chosen(blocks, S)
  BY DEF Written
<1>7. \A b \in DOMAIN blocks : HasBegun(b) => b \in S
  BY DEF HasBegun
<1> HIDE DEF S
<1>8. /\ Ascending(q, S, Len(blocks)) /\ Len(Written) = Len(q)
      /\ \A n \in 1..Len(q) : q[n] \in S /\ Written[n] = blocks[q[n]]
  BY <1>5, <1>6, ChosenIs
<1> HIDE DEF q
<1>9. /\ DOMAIN q = 1..Len(Written) /\ DOMAIN blocks = 1..Len(blocks)
      /\ \A j \in 1..Len(Written) : q[j] \in DOMAIN blocks /\ Written[j] = blocks[q[j]]
      /\ \A i, j \in 1..Len(Written) : i < j => q[i] < q[j]
      /\ \A b \in S : \E j \in 1..Len(Written) : q[j] = b
  <2>1. q \in Seq(S \cap (1..Len(blocks)))
    BY <1>8 DEF Ascending
  <2>2. DOMAIN q = 1..Len(q) /\ DOMAIN blocks = 1..Len(blocks)
    BY <1>5, <2>1
  <2> QED
    BY <1>5, <1>8, <2>2 DEF Ascending
<1>10. \A k \in DOMAIN doc :
         \/ doc[k] = "blank"
         \/ \E j \in 1..Len(Written) :
              k = 2 * j - 1 /\ (k + 1) \div 2 = j /\ doc[k] = KindOf(blocks[q[j]])
  BY <1>1, <1>4, <1>9, LineOfPage
<1>11. \A b \in DOMAIN blocks :
         /\ KindOf(blocks[b]) \notin Fences \cup Underlines
         /\ KindOf(blocks[b]) \in DOMAIN AtxLevel <=> HasBegun(b)
         /\ HasBegun(b) => AtxLevel[KindOf(blocks[b])] = blocks[b].level
  BY <1>1, <1>3, KindIs
<1>12. "blank" \notin Fences \cup Underlines /\ "blank" \notin DOMAIN AtxLevel
  BY DEF Fences, Underlines, AtxLevel
<1>13. Style = "markup"
  BY DEF Style
<1>14. \A k \in DOMAIN doc : doc[k] \notin Fences \cup Underlines
  <2> SUFFICES ASSUME NEW k \in DOMAIN doc
               PROVE  doc[k] \notin Fences \cup Underlines
    OBVIOUS
  <2>1. CASE doc[k] = "blank"
    BY <1>12, <2>1
  <2>2. CASE \E j \in 1..Len(Written) : doc[k] = KindOf(blocks[q[j]])
    BY <1>9, <1>11, <2>2
  <2> QED
    BY <1>10, <2>1, <2>2
<1>15. /\ \A k \in DOMAIN headings : headings[k].level = AtxLevel[doc[headings[k].line]]
       /\ \A l \in DOMAIN doc :
            doc[l] \in DOMAIN AtxLevel => \E k \in DOMAIN headings : headings[k].line = l
  BY <1>13, <1>14 DEF HInv, AtxScanned, AtxOnly
<1>16. \A k \in DOMAIN headings :
         \E j \in 1..Len(Written) :
           /\ headings[k].line = 2 * j - 1 /\ (headings[k].line + 1) \div 2 = j
           /\ HasBegun(q[j]) /\ headings[k].level = blocks[q[j]].level
  <2> SUFFICES ASSUME NEW k \in DOMAIN headings
               PROVE  \E j \in 1..Len(Written) :
                        /\ headings[k].line = 2 * j - 1 /\ (headings[k].line + 1) \div 2 = j
                        /\ HasBegun(q[j]) /\ headings[k].level = blocks[q[j]].level
    OBVIOUS
  <2> DEFINE l == headings[k].line
  <2>1. l \in DOMAIN doc /\ doc[l] # "blank" /\ DOMAIN doc = 1..Len(doc)
    BY <1>1 DEF HeadingsInOrder, Scanning
  <2>2. doc[l] \in DOMAIN AtxLevel
    BY <1>1, <1>13, <1>14, <2>1 DEF TitlesAreMarked
  <2> HIDE DEF l
  <2>3. PICK j \in 1..Len(Written) :
          l = 2 * j - 1 /\ (l + 1) \div 2 = j /\ doc[l] = KindOf(blocks[q[j]])
    BY <1>10, <2>1
  <2>4. HasBegun(q[j]) /\ AtxLevel[doc[l]] = blocks[q[j]].level
    BY <1>9, <1>11, <2>2, <2>3
  <2> QED
    BY <1>15, <2>3, <2>4 DEF l
<1>17. ASSUME NEW k \in DOMAIN headings
       PROVE  /\ first(k) \in B
              /\ HeadsWith(first(k), headings[k].level)
  <2>1. PICK j \in 1..Len(Written) :
          /\ (headings[k].line + 1) \div 2 = j
          /\ HasBegun(q[j]) /\ headings[k].level = blocks[q[j]].level
    BY <1>16
  <2>2. first(k) = blocks[q[j]].words[1]
    BY <1>9, <2>1
  <2> HIDE DEF B
  <2>3. HeadsWith(first(k), headings[k].level)
    BY <1>3, <1>9, <2>1, <2>2
  <2> QED
    BY <2>3 DEF HeadsWith, BeginsWith, B
<1>18. ASSUME NEW i \in DOMAIN headings, NEW k \in DOMAIN headings, i < k
       PROVE  first(i) < first(k)
  <2>1. PICK a \in 1..Len(Written) :
          /\ headings[i].line = 2 * a - 1 /\ (headings[i].line + 1) \div 2 = a
          /\ HasBegun(q[a])
    BY <1>16
  <2>2. PICK c \in 1..Len(Written) :
          /\ headings[k].line = 2 * c - 1 /\ (headings[k].line + 1) \div 2 = c
          /\ HasBegun(q[c])
    BY <1>16
  <2>3. headings[i].line < headings[k].line
    BY <1>1, <1>18 DEF HeadingsInOrder
  <2>4. a < c
    BY <2>1, <2>2, <2>3
  <2>5. q[a] < q[c] /\ q[a] \in DOMAIN blocks /\ q[c] \in DOMAIN blocks
    BY <1>9, <2>4
  <2>6. first(i) = blocks[q[a]].words[1] /\ first(k) = blocks[q[c]].words[1]
    BY <1>9, <2>1, <2>2
  <2>7. blocks[q[a]].words # <<>> /\ blocks[q[c]].words # <<>>
    BY <2>1, <2>2 DEF HasBegun
  <2> QED
    BY <1>3, <2>5, <2>6, <2>7 DEF FirstWords
<1>19. ASSUME NEW m \in B
       PROVE  \E k \in DOMAIN headings : first(k) = m
  <2>1. PICK b \in DOMAIN blocks : HasBegun(b) /\ blocks[b].words[1] = m
    BY <1>3
  <2>2. PICK j \in 1..Len(Written) : q[j] = b
    BY <1>7, <1>9, <2>1
  <2>3. 2 * j - 1 \in DOMAIN doc /\ doc[2 * j - 1] = KindOf(blocks[b])
    BY <1>1, <1>4, <1>9, <2>2, LineOfPage
  <2>4. doc[2 * j - 1] \in DOMAIN AtxLevel
    BY <1>11, <2>1, <2>3
  <2>5. PICK k \in DOMAIN headings : headings[k].line = 2 * j - 1
    BY <1>15, <2>3, <2>4
  <2>6. (headings[k].line + 1) \div 2 = j
    BY <2>5
  <2> QED
    BY <1>9, <2>1, <2>2, <2>6
<1>20. B \subseteq 1..Len(page)
  BY <1>2 DEF DocumentTokens
<1>21. headings \in Seq(Heading) /\ DOMAIN headings = 1..Len(headings) /\ Len(headings) \in Nat
  BY <1>1 DEF Scanning
<1> HIDE DEF first, B
<1>22. \A k \in 1..Len(headings) : w[k] = first(k) /\ w[k] \in B \cap (1..Len(page))
  BY <1>17, <1>20, <1>21
<1>23. w = [k \in 1..Len(headings) |-> w[k]]
  BY <1>21
<1>24. DOMAIN w = 1..Len(headings)
  BY <1>21
<1> HIDE DEF w
<1>25. w \in Seq(B \cap (1..Len(page))) /\ Len(w) = Len(headings)
  BY <1>21, <1>22, <1>23, SequenceIs
<1>26. Ascending(w, B, Len(page))
  <2>1. \A i, k \in DOMAIN w : i < k => w[i] < w[k]
    BY <1>18, <1>21, <1>22, <1>24
  <2>2. \A m \in B \cap (1..Len(page)) : \E k \in DOMAIN w : w[k] = m
    BY <1>19, <1>21, <1>22, <1>24
  <2> QED
    BY <1>25, <2>1, <2>2 DEF Ascending
<1>27. Ascending(InOrder(B, Len(page)), B, Len(page))
  BY <1>2, InOrderAscends
<1>28. InOrder(B, Len(page)) = w
  BY <1>2, <1>26, <1>27, AscendingIsOne
<1>29. ASSUME NEW k \in DOMAIN headings
       PROVE  /\ first(k) = w[k]
              /\ \E n \in DocumentTokens :
                   BeginsWith(n, w[k]) /\ headings[k].level = AtxLevel[page[n][2]]
  BY <1>17, <1>21, <1>22 DEF HeadsWith
<1> QED
  BY <1>25, <1>28, <1>29 DEF first, B

(* htmlToText and detectHeadings together: the headings of a page without   *)
(* Markdown of its own are the heading elements that begin with a text of   *)
(* the document, in order and at their levels, whatever else the page holds *)
(* and however its elements are nested.                                     *)
THEOREM PageHeadingsAreRead == Spec => []HeadingsOfPage
<1>1. Documented => IInv /\ PInv /\ HInv
  BY Begins, PageBegins, HeadingsBegin
<1>2. IInv /\ PInv /\ HInv /\ [Next]_docVars => IInv' /\ PInv' /\ HInv'
  BY StepsKeep, PageIsRead, HeadingsGoOn
<1>3. IInv /\ PInv /\ HInv => HeadingsOfPage
  BY HeadingsAreRead DEF HeadingsOfPage, PlainPage
<1> QED
  BY <1>1, <1>2, <1>3, PTL DEF Spec
=============================================================================
