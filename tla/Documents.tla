----------------------------- MODULE Documents -----------------------------
(***************************************************************************)
(* Documents as internal/convert reads them, composed with the division of *)
(* Segmentation.  A Markdown, text or CSV document is given to it line by  *)
(* line; an HTML page goes through htmlToText (extract.go) first, one      *)
(* token of the tokenizer at a time, and its text is then divided like     *)
(* Markdown.                                                               *)
(*                                                                         *)
(* What htmlToText writes is a sequence of blocks, set apart by blank      *)
(* lines, whose words are named by their places in the page.  A text token *)
(* stands for its words, white space collapsed; tags htmlToText has no     *)
(* rule for leave no trace and are left out.                               *)
(***************************************************************************)
EXTENDS Segmentation

CONSTANTS
  MaxLines,    \* bound: lines of a document that is not HTML
  MaxTokens,   \* bound: tokens of a page
  HeadingTags, \* heading elements a page may hold, among "h1", "h2", "h6"
  BlockTags,   \* blockTags: elements that end a line
  DroppedTags, \* droppedTags: elements whose text is no document text
  Words,       \* kinds of text, by the line it makes when it begins one
  None

ASSUME DocumentsAssumption ==
  /\ MaxLines \in Nat /\ MaxTokens \in Nat
  /\ HeadingTags \subseteq DOMAIN AtxLevel
  /\ Words \subseteq LineKinds \ ({"blank"} \cup Underlines)
  /\ HeadingTags \subseteq LineKinds
  /\ DroppedTags \cap LineKinds = {}
  /\ BlockTags \cap (HeadingTags \cup DroppedTags) = {}
  /\ None \notin HeadingTags \cup BlockTags \cup DroppedTags

VARIABLES
  page,         \* the tokens read so far
  reading,      \* the page is not at its end
  skipping,     \* the dropped element under way, None without
  headingLevel, \* 0 outside headings
  blocks        \* what is written, [level, words, glued]

pageVars == <<page, reading, skipping, headingLevel, blocks>>

docVars == <<vars, pageVars>>

-----------------------------------------------------------------------------
(* htmlToText, one token at a time.                                         *)

Tags == HeadingTags \cup BlockTags \cup DroppedTags
Tokens ==
  ({"open"} \X Tags) \cup ({"close"} \X (Tags \ BlockTags))
    \cup ({"text"} \X Words)

(* glued holds the words that follow the one before them without a space.  *)
Block(level) == [level |-> level, words |-> <<>>, glued |-> {}]

Documented ==
  /\ Init
  /\ page = <<>>
  /\ reading = (format = "html")
  /\ skipping = None
  /\ headingLevel = 0
  /\ blocks = <<Block(0)>>

Token(token) ==
  /\ reading
  /\ Len(page) < MaxTokens
  /\ page' = Append(page, token)
  /\ UNCHANGED <<vars, reading>>

Write(level) == blocks' = Append(blocks, Block(level))

SkipToken(token) ==
  /\ skipping # None /\ token # <<"close", skipping>>
  /\ Token(token)
  /\ UNCHANGED <<skipping, headingLevel, blocks>>

(* Variant: the end of any element ends the dropped one.                    *)
EndSkippingAny(tag) ==
  /\ skipping # None
  /\ Token(<<"close", tag>>)
  /\ skipping' = None
  /\ UNCHANGED <<headingLevel, blocks>>

EndSkipping(tag) ==
  /\ skipping = tag
  /\ Token(<<"close", tag>>)
  /\ skipping' = None
  /\ UNCHANGED <<headingLevel, blocks>>

DropElement(tag) ==
  /\ skipping = None /\ tag \in DroppedTags
  /\ Token(<<"open", tag>>)
  /\ skipping' = tag
  /\ UNCHANGED <<headingLevel, blocks>>

(* The end of a dropped element that is not under way has no rule.          *)
StrayEnd(tag) ==
  /\ skipping = None /\ tag \in DroppedTags
  /\ Token(<<"close", tag>>)
  /\ UNCHANGED <<skipping, headingLevel, blocks>>

(* Variant: the heading begins in the line under way.                       *)
OpenHeadingInLine(tag) ==
  /\ skipping = None /\ tag \in HeadingTags
  /\ Token(<<"open", tag>>)
  /\ headingLevel' = AtxLevel[tag]
  /\ IF Last(blocks).words = <<>> THEN Write(AtxLevel[tag]) ELSE UNCHANGED blocks
  /\ UNCHANGED skipping

OpenHeading(tag) ==
  /\ skipping = None /\ tag \in HeadingTags
  /\ Token(<<"open", tag>>)
  /\ headingLevel' = AtxLevel[tag]
  /\ Write(AtxLevel[tag])
  /\ UNCHANGED skipping

CloseHeading(tag) ==
  /\ skipping = None /\ tag \in HeadingTags
  /\ Token(<<"close", tag>>)
  /\ headingLevel' = 0
  /\ Write(0)
  /\ UNCHANGED skipping

(* A block element's start and its end do the same, and are one token.      *)
EndLine(tag) ==
  /\ skipping = None /\ tag \in BlockTags
  /\ Token(<<"open", tag>>)
  /\ Write(0)
  /\ UNCHANGED <<skipping, headingLevel>>

NeedsSpace == Last(blocks).words # <<>>

Text(word) ==
  /\ skipping = None
  /\ Token(<<"text", word>>)
  /\ LET here == Len(page) + 1
         together == NeedsSpace /\ headingLevel # 0
     IN  blocks' = [blocks EXCEPT
                      ![Len(blocks)].words = Append(@, here),
                      ![Len(blocks)].glued = IF together THEN @ \cup {here} ELSE @]
  /\ UNCHANGED <<skipping, headingLevel>>

EndOfPage ==
  /\ reading
  /\ reading' = FALSE
  /\ UNCHANGED <<vars, page, skipping, headingLevel, blocks>>

-----------------------------------------------------------------------------
(* normalizeBlankLines: the blocks that hold something, one blank line      *)
(* between two.  The marks of a heading without text are written, and make  *)
(* a line of text.                                                          *)

Written ==
  Chosen(blocks,
         {b \in DOMAIN blocks : blocks[b].level > 0 \/ blocks[b].words # <<>>})

KindOf(block) ==
  IF block.words = <<>> THEN "text"
  ELSE IF block.level = 0 THEN page[block.words[1]][2]
  ELSE CHOOSE tag \in HeadingTags : AtxLevel[tag] = block.level

TextLines ==
  [k \in 1..(2 * Len(Written) - 1) |->
     IF k % 2 = 0 THEN "blank" ELSE KindOf(Written[(k + 1) \div 2])]

ScanDocument ==
  /\ ~reading
  /\ IF format = "html"
       THEN /\ Here \in DOMAIN TextLines
            /\ ScanLine(TextLines[Here])
       ELSE \E kind \in LineKinds : Len(doc) < MaxLines /\ ScanLine(kind)
  /\ UNCHANGED pageVars

EndOfDocument ==
  /\ ~reading
  /\ format = "html" => Len(doc) = Len(TextLines)
  /\ EndOfText
  /\ UNCHANGED pageVars

Next ==
  \/ \E token \in Tokens : SkipToken(token)
  \/ \E tag \in Tags :
       \/ EndSkipping(tag)
       \/ DropElement(tag)
       \/ StrayEnd(tag)
       \/ OpenHeading(tag)
       \/ CloseHeading(tag)
       \/ EndLine(tag)
  \/ \E word \in Words : Text(word)
  \/ EndOfPage
  \/ ScanDocument
  \/ EndOfDocument

Spec == Documented /\ [][Next]_docVars

-----------------------------------------------------------------------------
(* Properties.                                                              *)

(* Elements open after the first n tokens of a page, the innermost last;   *)
(* None at the bottom once one was closed out of turn.                      *)
OpenIn(tokens, n) ==
  LET open[k \in 0..n] ==
        IF k = 0 THEN <<>>
        ELSE LET stack == open[k - 1]
                 tag == tokens[k][2]
             IN  IF tokens[k][1] = "text" \/ tag \in BlockTags THEN stack
                 ELSE IF tokens[k][1] = "open" THEN Append(stack, tag)
                 ELSE IF stack # <<>> /\ Last(stack) = tag THEN Front(stack)
                 ELSE <<None>> \o stack
  IN  open[n]

OpenAfter(n) == OpenIn(page, n)

(* Every element is closed in its turn, and none that is dropped holds     *)
(* another of its name.                                                     *)
WellFormed ==
  /\ OpenAfter(Len(page)) = <<>>
  /\ \A n \in DOMAIN page : \A i, j \in DOMAIN OpenAfter(n) :
       OpenAfter(n)[i] = OpenAfter(n)[j] /\ OpenAfter(n)[i] \in DroppedTags => i = j

Shown(n) == Range(OpenAfter(n - 1)) \cap DroppedTags = {}

(* The tokens of the document proper, the tags of dropped elements left out.*)
DocumentTokens == {n \in DOMAIN page : Shown(n) /\ page[n][2] \notin DroppedTags}

(* The text of a page reaches the segmenter whole, in order, and without   *)
(* the text of dropped elements, when the page closes its elements in turn; *)
(* and two texts of a line run together inside a heading at most (the flag  *)
(* skipping of htmlToText, which is one name and no stack, and needsSpace). *)
PageTextIsKept ==
  format = "html" /\ ~reading /\ WellFormed =>
    /\ FlattenSeq([b \in DOMAIN blocks |-> blocks[b].words])
         = InOrder({n \in DocumentTokens : page[n][1] = "text"}, Len(page))
    /\ \A b \in DOMAIN blocks, n \in DOMAIN page :
         n \in blocks[b].glued => Range(OpenAfter(n - 1)) \cap HeadingTags # {}

(* The heading element at n begins with the text at m.                      *)
BeginsWith(n, m) ==
  /\ n \in DocumentTokens /\ page[n][1] = "open" /\ page[n][2] \in HeadingTags
  /\ m \in DocumentTokens /\ page[m][1] = "text"
  /\ n < m /\ \A l \in DocumentTokens : ~(n < l /\ l < m)

(* The headings of a page are its heading elements that begin with text,   *)
(* no more and no fewer, at their levels, as long as its text holds no     *)
(* Markdown of its own (htmlToText's marks, read back by detectHeadings).  *)
HeadingsOfPage ==
  format = "html" /\ phase = "done" /\ WellFormed
    /\ (\A n \in DOMAIN page : page[n][1] = "text" => page[n][2] = "text") =>
    LET begun == InOrder({m \in DocumentTokens : \E n \in DocumentTokens : BeginsWith(n, m)},
                         Len(page))
    IN  /\ Len(headings) = Len(begun)
        /\ \A k \in DOMAIN headings :
             /\ Written[(headings[k].line + 1) \div 2].words[1] = begun[k]
             /\ \E n \in DocumentTokens :
                  BeginsWith(n, begun[k]) /\ headings[k].level = AtxLevel[page[n][2]]
=============================================================================
