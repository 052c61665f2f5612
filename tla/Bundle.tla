------------------------------- MODULE Bundle -------------------------------
(***************************************************************************)
(* How internal/bundle renders a bundle and validates the text it rendered *)
(* (bundle.go, frontmatter.go, validate.go, and the validate step of       *)
(* pipeline.go up to the verdict).                                         *)
(*                                                                         *)
(* Text is a sequence of tokens: the characters that Markdown links and    *)
(* file names are made of, "sp" for a space and "nl" for a line break,     *)
(* "http" for what makes a URL absolute, "x" for any other text, and the   *)
(* names of the bundle's files.  Everything that comes from the client or  *)
(* from the document is rendered where the code writes it; of the text     *)
(* that is ours, labels, sizes, times and identifiers are left out or      *)
(* stand as an "x".                                                        *)
(***************************************************************************)
EXTENDS Integers, Sequences, FiniteSets, SequencesExt, FiniteSetsExt

CONSTANTS
  Tokens,    \* what text is made of
  Sources,   \* what the client says of its file: [originalName, contentType]
  Documents, \* what the segmenter returned: sequences of [title, body]
  FileName   \* nameConcepts: the file of each position

IndexFile == "index.md"
LogFile == "log.md"

Text == Seq(Tokens)

(* The tokens the scanner of links knows, and those of ours that it does    *)
(* not.                                                                     *)
Marks == {"[", "]", "(", ")", "\\", "sp", "nl", "#", "/", ".", "http"}
Wording == {"x", "quote", "tick", IndexFile, LogFile}

(* The position is part of a file name, so names never repeat, and they    *)
(* have the characters of a slug.  A heading, or the first line of a       *)
(* block, holds no line break.  Both texts of a source are the client's,   *)
(* as it sent them; original names that spell a file of the bundle or an   *)
(* absolute URL are left out, for those are single tokens here.            *)
ASSUME BundleAssumption ==
  /\ Marks \cup Wording \subseteq Tokens
  /\ FileName \in Text
  /\ \A j, k \in DOMAIN FileName : FileName[j] = FileName[k] => j = k
  /\ \A k \in DOMAIN FileName :
       FileName[k] \notin Marks \cup Wording
  /\ \A s \in Sources :
       /\ s \in [originalName : Text, contentType : Text]
       /\ Range(s.originalName) \cap ({"http", IndexFile, LogFile} \cup Range(FileName)) = {}
  /\ \A d \in Documents :
       /\ d \in Seq([title : Seq(Tokens \ {"nl"}), body : Text])
       /\ Len(d) \in 1..Len(FileName)

VARIABLES
  src,    \* bundle.Source
  units,  \* the units, as named by nameConcepts
  files,  \* b.Files: file name -> [type, text]
  report, \* what Validate answered
  phase   \* the step of Build and validate that runs next

vars == <<src, units, files, report, phase>>

NoReport == [verdict |-> "none", failed |-> {}]

Concepts == {FileName[k] : k \in DOMAIN units}

(* strings.TrimSpace, and with other tokens strings.Trim.                   *)
Trim(text, S) ==
  LET kept == {k \in DOMAIN text : text[k] \notin S}
  IN  IF kept = {} THEN <<>> ELSE SubSeq(text, Min(kept), Max(kept))

Spaces == {"sp", "nl"}

(* What stands for a text that is blank.                                    *)
OrOurs(text) == IF text = <<>> THEN <<"x">> ELSE text

(* nameConcepts: a unit without a title is given one of ours.              *)
Named(document) ==
  [k \in DOMAIN document |->
     [document[k] EXCEPT !.title = OrOurs(Trim(document[k].title, Spaces))]]

Init ==
  /\ src \in Sources
  /\ units \in {Named(d) : d \in Documents}
  /\ files = <<>>
  /\ report = NoReport
  /\ phase = "concepts"

-----------------------------------------------------------------------------
(* Rendering.                                                               *)

(* A backslash before each token of S.                                      *)
Escape(text, S) ==
  FlattenSeq([k \in DOMAIN text |->
    IF text[k] \in S THEN <<"\\", text[k]>> ELSE <<text[k]>>])

Line(text) == text \o <<"nl">>
Code(text) == <<"tick">> \o text \o <<"tick">>

(* Variant: nothing is escaped.                                            *)
EscapeNothing(text) == text

(* escapeLinkText: brackets are escaped, backslashes are not.               *)
EscapeLinkText(text) == Escape(text, {"[", "]"})

Link(text, file) ==
  <<"[">> \o EscapeLinkText(text) \o <<"]", "(", file, ")">>

(* yamlString: a line break becomes a space.                                *)
YamlString(text) ==
  LET flat == [k \in DOMAIN text |-> IF text[k] = "nl" THEN "sp" ELSE text[k]]
  IN  <<"quote">> \o Escape(flat, {"\\", "quote"}) \o <<"quote">>

(* The position of the last token of text that is t, or 0.                  *)
LastOf(text, t) == Max({0} \cup {k \in DOMAIN text : text[k] = t})

(* documentTitle: the last part of the path, without its extension, and     *)
(* with spaces for the separators.  That runs of them are joined, and the   *)
(* first letter raised, makes no difference to a link.                      *)
DocumentTitle ==
  LET path == Trim(Trim(src.originalName, Spaces), {"/"})
      base == SubSeq(path, LastOf(path, "/") + 1, Len(path))
      dot == LastOf(base, ".")
      stem == IF dot > 1 THEN SubSeq(base, 1, dot - 1) ELSE base
      words == [k \in DOMAIN stem |->
                  IF stem[k] \in {".", "nl"} THEN "sp" ELSE stem[k]]
  IN  OrOurs(Trim(words, {"sp"}))

(* CreateObjectName: identifiers of ours, and the client's extension.       *)
ObjectKey ==
  LET original == src.originalName
      dot == LastOf(original, ".")
  IN  <<"x">> \o (IF dot = 0 \/ dot = Len(original) THEN <<>>
                  ELSE SubSeq(original, dot, Len(original)))

(* orDash(src.ContentType).                                                 *)
ContentType ==
  IF Trim(src.contentType, Spaces) = <<>> THEN <<"x">> ELSE src.contentType

(* frontmatter.render: title, description and source carry the document's  *)
(* text; tags is a bracketed list of ours.                                  *)
Frontmatter(title) ==
  Line(YamlString(title)) \o Line(YamlString(src.originalName))
    \o Line(<<"[", "x", "]">>) \o Line(YamlString(src.originalName))

(* Variant: the last concept but one forgets its successor.                *)
FooterShort(k) ==
  Link(<<"x">>, IndexFile)
    \o (IF k > 1 THEN Link(units[k - 1].title, FileName[k - 1]) ELSE <<>>)
    \o (IF k < Len(units) - 1 THEN Link(units[k + 1].title, FileName[k + 1])
        ELSE <<>>)

(* Variant: the footer names files without their position.                 *)
FooterUnnumbered(k) ==
  Link(<<"x">>, IndexFile)
    \o (IF k > 1 THEN Link(units[k - 1].title, ".md") ELSE <<>>)

(* The navigation footer of concept k.                                      *)
Footer(k) ==
  Link(<<"x">>, IndexFile)
    \o (IF k > 1 THEN Link(units[k - 1].title, FileName[k - 1]) ELSE <<>>)
    \o (IF k < Len(units) THEN Link(units[k + 1].title, FileName[k + 1])
        ELSE <<>>)

RenderConcept(k) ==
  [type |-> "concept",
   text |-> Frontmatter(units[k].title) \o Line(units[k].title)
              \o Line(OrOurs(Trim(units[k].body, Spaces)))
              \o Line(Footer(k))]

IndexEntry(k) == Line(Link(units[k].title, FileName[k]))

(* The name in the sentence and in the table, and the content type in its   *)
(* cell, are written as they came.                                          *)
RenderIndex ==
  [type |-> "index",
   text |-> Frontmatter(DocumentTitle) \o Line(DocumentTitle)
              \o Line(Code(src.originalName)) \o Line(Code(src.originalName))
              \o Line(ContentType \o <<"sp">>)
              \o FlattenSeq([k \in DOMAIN units |-> IndexEntry(k)])
              \o Line(Link(<<LogFile>>, LogFile))]

(* The steps of the log: the object's key, and once a bundle was validated  *)
(* a line for each rule that failed.                                        *)
Steps(findings) ==
  Line(Code(ObjectKey))
    \o FlattenSeq([r \in DOMAIN findings |->
         IF findings[r] = <<>> THEN <<>> ELSE Line(FlattenSeq(findings[r]))])

Listing(findings) ==
  FlattenSeq([r \in DOMAIN findings |->
    FlattenSeq([k \in DOMAIN findings[r] |-> Line(findings[r][k])])])

LogEntry(k) == Line(units[k].title \o <<"sp">> \o Code(<<FileName[k]>>))

(* log.md, with the findings of each rule of a validation, if there was one: *)
(* among the steps, and a line each at the end.                             *)
RenderLog(findings) ==
  [type |-> "log",
   text |-> Frontmatter(DocumentTitle) \o Line(DocumentTitle)
              \o Line(Code(src.originalName) \o <<"(">> \o ContentType \o <<"x", ")">>)
              \o Steps(findings)
              \o FlattenSeq([k \in DOMAIN units |-> LogEntry(k)])
              \o Listing(findings)]

-----------------------------------------------------------------------------
(* markdownLinkRE and relativeLinks.                                        *)

(* The first "]" from position k on that no backslash escapes, or 0 when    *)
(* there is none before a backslash at the end of a line.                   *)
TextEnd(text, k) ==
  LET end[j \in 1..(Len(text) + 1)] ==
        IF j > Len(text) THEN 0
        ELSE IF text[j] = "]" THEN j
        ELSE IF text[j] # "\\" THEN end[j + 1]
        ELSE IF j = Len(text) \/ text[j + 1] = "nl" THEN 0
        ELSE end[j + 2]
  IN  end[k]

(* The tokens from position k on up to a ")" or a space.                    *)
Target(text, k) ==
  LET stops == {j \in k..Len(text) : text[j] \in {")", "sp", "nl"}}
  IN  SubSeq(text, k, IF stops = {} THEN Len(text) ELSE Min(stops) - 1)

(* Every target from position n on, from left to right, without overlaps.   *)
TargetsFrom(text, n) ==
  LET from[k \in 1..(Len(text) + 1)] ==
        IF k > Len(text) THEN {}
        ELSE LET end == IF text[k] = "[" THEN TextEnd(text, k + 1) ELSE 0
                 opened == end # 0 /\ end < Len(text) /\ text[end + 1] = "("
                 target == IF opened THEN Target(text, end + 2) ELSE <<>>
             IN  IF target # <<>>
                   THEN {target} \cup from[end + 2 + Len(target)]
                   ELSE from[k + 1]
  IN  from[n]

Targets(text) == TargetsFrom(text, 1)

(* Absolute URLs ("http"), absolute paths and anchors ("#") are not the     *)
(* bundle's to resolve; a link into a file's heading still names the file,  *)
(* and so does one that starts with "./".                                   *)
RelativeLinks(text) ==
  LET InBundle(t) == t[1] \notin {"#", "/"} /\ "http" \notin Range(t)
      Path(t) == IF \E k \in DOMAIN t : t[k] = "#"
                   THEN SubSeq(t, 1, Min({k \in DOMAIN t : t[k] = "#"}) - 1)
                   ELSE t
      File(p) == IF IsPrefix(<<".", "/">>, p) THEN SubSeq(p, 3, Len(p)) ELSE p
  IN  {File(Path(t)) : t \in {u \in Targets(text) : InBundle(u)}} \ {<<>>}

LinksOf(file) == RelativeLinks(files[file].text)
Resolves(link) == \E f \in DOMAIN files : link = <<f>>

-----------------------------------------------------------------------------
(* Validate: the rules that fail, and the verdict.                          *)

MinimumStructure ==
  /\ \A f \in {IndexFile, LogFile} : f \in DOMAIN files /\ files[f].text # <<>>
  /\ DOMAIN files \ {IndexFile, LogFile} # {}

IndexLinksResolve ==
  IndexFile \in DOMAIN files /\ \A l \in LinksOf(IndexFile) : Resolves(l)

Unindexed ==
  {f \in DOMAIN files \ {IndexFile, LogFile} : <<f>> \notin LinksOf(IndexFile)}

EveryConceptIsIndexed == IndexFile \in DOMAIN files /\ Unindexed = {}

BrokenLinks ==
  {found \in UNION {{f} \X LinksOf(f) : f \in DOMAIN files \ {IndexFile}} :
     ~Resolves(found[2])}

TypeFieldPresent ==
  \A f \in DOMAIN files : files[f].text # <<>> /\ files[f].type # ""

ReservedTypesMatch ==
  \A f \in DOMAIN files \cap {IndexFile, LogFile} :
    files[f].type = (IF f = IndexFile THEN "index" ELSE "log")

Errors == {"minimum-structure", "index-links", "concepts-indexed", "okf-type"}

Failed ==
  LET Fails(rule) ==
        CASE rule = "minimum-structure" -> ~MinimumStructure
          [] rule = "index-links" -> ~IndexLinksResolve
          [] rule = "concepts-indexed" -> ~EveryConceptIsIndexed
          [] rule = "okf-type" -> ~TypeFieldPresent
          [] rule = "concept-links" -> BrokenLinks # {}
          [] rule = "okf-reserved-types" -> ~ReservedTypesMatch
  IN  {rule \in Errors \cup {"concept-links", "okf-reserved-types"} : Fails(rule)}

VerdictFor(failed) ==
  IF failed = {} THEN "valid"
  ELSE IF failed \cap Errors = {} THEN "valid_with_warnings"
  ELSE "invalid"

Publishable(verdict) == verdict # "invalid"

(* The details of the rules about links: which file links to what, and      *)
(* which concept is not indexed.  Each is listed once, in no order we rely  *)
(* on; the details of the other rules hold no text but ours.                *)
Findings ==
  LET outside == {l \in LinksOf(IndexFile) : ~Resolves(l)}
  IN  <<SetToSeq({Code(<<IndexFile>>) \o Code(l) : l \in outside}),
        SetToSeq({Code(<<f>>) : f \in Unindexed}),
        SetToSeq({Code(<<b[1]>>) \o Code(b[2]) : b \in BrokenLinks})>>

-----------------------------------------------------------------------------
(* Build, Validate and SetValidation.                                       *)

With(file, content) ==
  [f \in DOMAIN files \cup {file} |-> IF f = file THEN content ELSE files[f]]

BuildConcepts ==
  /\ phase = "concepts"
  /\ files' = [f \in Concepts |->
                 RenderConcept(CHOOSE k \in DOMAIN units : FileName[k] = f)]
  /\ phase' = "index"
  /\ UNCHANGED <<src, units, report>>

BuildIndex ==
  /\ phase = "index"
  /\ files' = With(IndexFile, RenderIndex)
  /\ phase' = "log"
  /\ UNCHANGED <<src, units, report>>

BuildLog ==
  /\ phase = "log"
  /\ files' = With(LogFile, RenderLog(<<>>))
  /\ phase' = "validate"
  /\ UNCHANGED <<src, units, report>>

Validate ==
  /\ phase = "validate"
  /\ report' = [verdict |-> VerdictFor(Failed), failed |-> Failed]
  /\ phase' = "attach"
  /\ UNCHANGED <<src, units, files>>

(* Variant: the second rendering holds the validation alone.               *)
SetValidationReplaces ==
  /\ phase = "attach"
  /\ files' = With(LogFile, [type |-> "", text |-> Listing(Findings)])
  /\ phase' = "done"
  /\ UNCHANGED <<src, units, report>>

(* log.md is rendered again, with the outcome; what is stored is this.      *)
SetValidation ==
  /\ phase = "attach"
  /\ files' = With(LogFile, RenderLog(Findings))
  /\ phase' = "done"
  /\ UNCHANGED <<src, units, report>>

Next == BuildConcepts \/ BuildIndex \/ BuildLog \/ Validate \/ SetValidation

Spec == Init /\ [][Next]_vars

-----------------------------------------------------------------------------
(* Properties.                                                              *)

Validated == phase \in {"attach", "done"}

HoldsLink(text) ==
  \E k \in 1..(Len(text) - 1) : text[k] = "]" /\ text[k + 1] = "("

TitleHoldsBackslash == \E k \in DOMAIN units : "\\" \in Range(units[k].title)

(* A correct generator never produces an invalid bundle on its own: brackets *)
(* in titles, and whatever bodies hold, never keep a bundle from being      *)
(* published, as long as no title holds a backslash (escapeLinkText does    *)
(* not escape it) and neither the original name nor the content type, which *)
(* index.md holds raw, holds a "](": what is no link in one of them may be  *)
(* a link across two.                                                       *)
CleanSourceIsPublishable ==
  (/\ Validated /\ ~TitleHoldsBackslash
   /\ ~HoldsLink(src.originalName) /\ ~HoldsLink(src.contentType))
    => Publishable(report.verdict)

(* The bundle reads as a whole: each concept links to the index and to its  *)
(* neighbours, and the index to every concept, as the validator reads links *)
(* and whatever brackets or links the titles and bodies around them hold.   *)
NavigationChain ==
  phase = "done" /\ ~TitleHoldsBackslash =>
    /\ \A k \in DOMAIN units :
         {<<IndexFile>>} \cup {<<FileName[j]>> : j \in DOMAIN units \cap {k - 1, k + 1}}
           \subseteq LinksOf(FileName[k])
    /\ \A f \in Concepts \cup {LogFile} : <<f>> \in LinksOf(IndexFile)

(* A warning is inherited: a bundle is valid with warnings only when the    *)
(* source itself holds something that reads as a link - nothing of what is  *)
(* generated around it does, not even next to a stray bracket or backslash. *)
WarningsAreInherited ==
  report.verdict = "valid_with_warnings" =>
    \/ HoldsLink(src.originalName) \/ HoldsLink(src.contentType)
    \/ \E k \in DOMAIN units : HoldsLink(units[k].title) \/ HoldsLink(units[k].body)

(* The stored bundle never reads worse than its report: SetValidation       *)
(* rewrites log.md after Validate read it, with the findings in the middle  *)
(* of it and at its end, and validating the result again would answer the   *)
(* same.  At most a warning may be gone, when every broken link was one of  *)
(* log.md's across several of its lines (a bracket that the content type    *)
(* opens, say, and a title closes): findings that hold a bracket then stand *)
(* between the two.                                                         *)
ReportStillHolds ==
  phase = "done" =>
    \/ VerdictFor(Failed) = report.verdict
    \/ report.verdict = "valid_with_warnings" /\ VerdictFor(Failed) = "valid"
=============================================================================
