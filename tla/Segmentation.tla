---------------------------- MODULE Segmentation ----------------------------
(***************************************************************************)
(* How internal/convert divides a document into the units of a bundle      *)
(* (segment.go, and the CSV and paragraph paths of units.go and            *)
(* extract.go).                                                            *)
(*                                                                         *)
(* A document is a sequence of line kinds; a unit names the line its title *)
(* is (0 when the title is derived from the body) and the lines of its     *)
(* body.  detectHeadings never looks ahead, so a document is given one     *)
(* line at a time as it is scanned, and divided when it ends; Documents    *)
(* says where the lines come from.  Sizes in bytes are counted in lines.   *)
(***************************************************************************)
EXTENDS Integers, Sequences, FiniteSets, SequencesExt, FiniteSetsExt

CONSTANTS
  Formats,   \* formats a document may have, among those of detectFormat
  LineKinds, \* kinds of line it may hold, among those named below
  MaxBlock   \* maxParagraphBytes and maxUnstructuredBytes, in lines

ASSUME SegmentationAssumption ==
  /\ Formats \subseteq {"markdown", "html", "text", "csv"}
  /\ MaxBlock \in Nat \ {0}

VARIABLES
  format,   \* what detectFormat answered; "text" stands for a PDF's text too
  doc,      \* the lines scanned so far
  inFence,  \* detectHeadings' flag
  headings, \* the headings found, [level, line]
  units,    \* the units returned, [title, body]
  phase     \* "scan", then "done", or "failed" (no extractable text content)

vars == <<format, doc, inFence, headings, units, phase>>

-----------------------------------------------------------------------------
(* The kinds of line the regular expressions tell apart.  What matches none *)
(* of them is "text" (or "blank").                                          *)

Fences == {"ticks", "tildes"}
Underlines == {"equals", "dashes"}
AtxLevel == [h1 |-> 1, h2 |-> 2, h6 |-> 6]
PlainLevel == [word |-> 1, num1 |-> 1, num2 |-> 2, num7 |-> 7]

DeepestLevel == 6

Style == IF format = "text" THEN "plain" ELSE "markup"

(* The numbers of 1..n that are in S, in order: what a loop that appends    *)
(* under a condition leaves.                                                *)
InOrder(S, n) ==
  LET kept[k \in 0..n] ==
        IF k = 0 THEN <<>>
        ELSE IF k \in S THEN Append(kept[k - 1], k)
        ELSE kept[k - 1]
  IN  kept[n]

(* The elements of a sequence at the places of S.                           *)
Chosen(s, S) ==
  LET places == InOrder(S, Len(s))
  IN  [n \in DOMAIN places |-> s[places[n]]]

Init ==
  /\ format \in Formats
  /\ doc = <<>>
  /\ inFence = FALSE
  /\ headings = <<>>
  /\ units = <<>>
  /\ phase = "scan"

-----------------------------------------------------------------------------
(* detectHeadings, one line at a time.                                      *)

Here == Len(doc) + 1

NextLine(kind) ==
  /\ phase = "scan" /\ format # "csv"
  /\ doc' = Append(doc, kind)
  /\ UNCHANGED <<format, units, phase>>

Record(level, line) ==
  headings' = Append(headings, [level |-> level, line |-> line])

ToggleFence(kind) ==
  /\ kind \in Fences
  /\ NextLine(kind)
  /\ inFence' = ~inFence
  /\ UNCHANGED headings

SkipLine(kind) ==
  /\ kind \notin Fences
  /\ inFence \/ kind = "blank"
  /\ NextLine(kind)
  /\ UNCHANGED <<inFence, headings>>

(* Variant: headings are looked for inside fences too.                     *)
ReadableAnywhere(kind) == kind \notin Fences \cup {"blank"}

Readable(kind) == ~inFence /\ kind \notin Fences \cup {"blank"}

AtxHeading(kind) ==
  /\ Readable(kind) /\ kind \in DOMAIN AtxLevel
  /\ NextLine(kind)
  /\ Record(AtxLevel[kind], Here)
  /\ UNCHANGED inFence

(* A setext underline makes a heading of the line above it, unless that is *)
(* blank, an underline, or recorded already.                               *)
HeadingAbove ==
  /\ doc # <<>>
  /\ Last(doc) \notin Underlines \cup {"blank"}
  /\ headings # <<>> => Last(headings).line # Len(doc)

SetextUnderline(kind) ==
  /\ Readable(kind) /\ kind \in Underlines
  /\ NextLine(kind)
  /\ IF HeadingAbove
       THEN Record(IF kind = "equals" THEN 1 ELSE 2, Len(doc))
       ELSE UNCHANGED headings
  /\ UNCHANGED inFence

PlainLine(kind) ==
  /\ Readable(kind) /\ kind \notin DOMAIN AtxLevel \cup Underlines
  /\ NextLine(kind)
  /\ IF Style = "plain" /\ kind \in DOMAIN PlainLevel
       THEN Record(PlainLevel[kind], Here)
       ELSE UNCHANGED headings
  /\ UNCHANGED inFence

(* csvUnits: every row with content is a unit.                             *)
CsvRow(kind) ==
  /\ phase = "scan" /\ format = "csv"
  /\ kind \in {"blank", "text"}
  /\ doc' = Append(doc, kind)
  /\ units' = IF kind = "blank" THEN units
              ELSE Append(units, [title |-> 0, body |-> {Here}])
  /\ UNCHANGED <<format, inFence, headings, phase>>

-----------------------------------------------------------------------------
(* Dividing the document.                                                   *)

NonBlank(from, to) == {k \in from..to : doc[k] # "blank"}

(* strings.TrimSpace of the lines from..to, as the set of their numbers.    *)
Trimmed(from, to) ==
  LET lines == NonBlank(from, to)
  IN  IF lines = {} THEN {} ELSE Min(lines)..Max(lines)

Occurrences(level) ==
  Cardinality({k \in DOMAIN headings : headings[k].level = level})

(* Variant: the shallowest level, whether it divides or not.                *)
SplitLevelShallowest == Min({headings[k].level : k \in DOMAIN headings})

SplitLevel ==
  LET shallowest == Min({headings[k].level : k \in DOMAIN headings})
      dividing == {l \in shallowest..DeepestLevel : Occurrences(l) > 1}
  IN  IF dividing = {} THEN shallowest ELSE Min(dividing)

Splits == Chosen(headings, {k \in DOMAIN headings : headings[k].level = SplitLevel})

(* Variant: only ATX titles are peeled off.                                 *)
LeadingHeadingAtxOnly(to) ==
  LET text == Trimmed(1, to)
      first == Min(text)
  IN  IF doc[first] \in DOMAIN AtxLevel
        THEN [title |-> first, body |-> Trimmed(first + 1, to)]
        ELSE [title |-> 0, body |-> text]

(* splitLeadingHeading of the lines before the first section.               *)
LeadingHeading(to) ==
  LET text == Trimmed(1, to)
      first == Min(text)
  IN  IF doc[first] \in DOMAIN AtxLevel
        THEN [title |-> first, body |-> Trimmed(first + 1, to)]
      ELSE IF first + 1 \in text /\ doc[first + 1] \in Underlines
        THEN [title |-> first, body |-> Trimmed(first + 2, to)]
      ELSE [title |-> 0, body |-> text]

Preamble ==
  LET to == Splits[1].line - 1
  IN  IF NonBlank(1, to) = {} \/ LeadingHeading(to).body = {}
        THEN <<>>
        ELSE <<LeadingHeading(to)>>

(* Variant: a section runs through the heading of the next one.             *)
SectionThroughNext(k) ==
  LET end == IF k = Len(Splits) THEN Len(doc) ELSE Splits[k + 1].line
  IN  [title |-> Splits[k].line, body |-> Trimmed(Splits[k].line + 1, end)]

Section(k) ==
  LET end == IF k = Len(Splits) THEN Len(doc) ELSE Splits[k + 1].line - 1
  IN  [title |-> Splits[k].line, body |-> Trimmed(Splits[k].line + 1, end)]

(* splitParagraphs and splitOversizedBlock: runs of lines that are not      *)
(* blank, cut every MaxBlock lines.                                         *)
BlockStarts ==
  {k \in NonBlank(1, Len(doc)) :
     LET blanks == {b \in 1..k : doc[b] = "blank"}
         start == IF blanks = {} THEN 1 ELSE Max(blanks) + 1
     IN  (k - start) % MaxBlock = 0}

BlockFrom(start) ==
  {k \in start..Min({start + MaxBlock - 1, Len(doc)}) :
     \A l \in start..k : doc[l] # "blank"}

Blocks ==
  LET starts == InOrder(BlockStarts, Len(doc))
  IN  [n \in DOMAIN starts |-> [title |-> 0, body |-> BlockFrom(starts[n])]]

(* Variant: no fallback for long documents.                                 *)
WithoutHeadingsShortOnly ==
  LET text == Trimmed(1, Len(doc))
  IN  IF text # {} /\ Cardinality(text) <= MaxBlock
        THEN <<[title |-> 0, body |-> text]>> ELSE <<>>

WithoutHeadings ==
  LET text == Trimmed(1, Len(doc))
  IN  IF text = {} THEN <<>>
      ELSE IF Cardinality(text) <= MaxBlock
        THEN <<[title |-> 0, body |-> text]>>
        ELSE Blocks

SegmentText ==
  IF headings = <<>> THEN WithoutHeadings
  ELSE Preamble \o [k \in DOMAIN Splits |-> Section(k)]

EndOfText ==
  /\ phase = "scan"
  /\ units' = IF format = "csv" THEN units ELSE SegmentText
  /\ phase' = IF units' = <<>> THEN "failed" ELSE "done"
  /\ UNCHANGED <<format, doc, inFence, headings>>

ScanLine(kind) ==
  \/ ToggleFence(kind)
  \/ SkipLine(kind)
  \/ AtxHeading(kind)
  \/ SetextUnderline(kind)
  \/ PlainLine(kind)
  \/ CsvRow(kind)

-----------------------------------------------------------------------------
(* Properties.                                                              *)

(* The lines of a heading: with its underline when it is a setext one.      *)
HeadingLines(t) ==
  IF t < Len(doc) /\ doc[t] \notin DOMAIN AtxLevel
       /\ doc[t + 1] \in Underlines
    THEN {t, t + 1} ELSE {t}

LinesOf(u) ==
  units[u].body \cup
    (IF units[u].title = 0 THEN {} ELSE HeadingLines(units[u].title))

(* Dividing a document neither loses, repeats nor reorders its text: every *)
(* line that is not blank belongs to exactly one unit, but for a lone       *)
(* document title, and the units come in the order of the document          *)
(* (segmentText's offsets around each heading, splitParagraphs' cuts).      *)
NothingLostOrMoved ==
  phase # "scan" =>
    /\ LET lost == NonBlank(1, Len(doc)) \ UNION {LinesOf(u) : u \in DOMAIN units}
       IN  \/ lost = {}
           \/ \E t \in lost :
                NonBlank(1, t - 1) = {} /\ lost = HeadingLines(t)
    /\ \A u, v \in DOMAIN units : u < v =>
         \A k \in LinesOf(u), l \in LinesOf(v) : k < l

(* Code is not structure: in a document whose fences use one marker, no     *)
(* heading is found between an opening fence and the one that closes it,    *)
(* not even by the underline test that looks one line back.                 *)
FencedIsCode ==
  Cardinality(Fences \cap Range(doc)) <= 1 =>
    \A k \in DOMAIN headings :
      LET above == {l \in 1..headings[k].line : doc[l] \in Fences}
      IN  Cardinality(above) % 2 = 1 => doc[headings[k].line] \in Fences

(* A document is divided whenever its headings can divide it: when a level *)
(* from 1 to 6 occurs twice there are at least two units, whatever lone     *)
(* headings stand above that level (splitLevel, and the test "descends     *)
(* past a single top heading").                                             *)
DividesWhenItCan ==
  phase = "done" /\ (\E l \in 1..DeepestLevel : Occurrences(l) > 1) =>
    Len(units) > 1

(* A conversion fails for want of text only when there is none: a document *)
(* with one line of content gives at least one concept (extractUnits).      *)
OnlyBlankFails ==
  phase # "scan" => (phase = "failed" <=> NonBlank(1, Len(doc)) = {})

(* A lone document title is not a concept: in a format whose headings are  *)
(* syntax, when all that precedes the first section is one heading, no unit *)
(* is made of it (segmentText's preamble).  A numbered title of plain text  *)
(* is one: splitLeadingHeading knows the markup forms only.                 *)
LoneTitleIsNoConcept ==
  phase = "done" /\ Style = "markup" /\ headings # <<>> =>
    \A k \in DOMAIN headings :
      NonBlank(1, Splits[1].line - 1) = HeadingLines(headings[k].line)
        => Len(units) = Len(Splits)
=============================================================================
