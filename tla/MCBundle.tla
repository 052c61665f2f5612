------------------------------ MODULE MCBundle ------------------------------
(* Instances of Bundle for TLC: titles of up to two tokens out of brackets, *)
(* a backslash and plain text, next to bodies with and without links, and   *)
(* names and content types that hold a link, part of one, or one only       *)
(* together with what stands next to them.                                  *)
EXTENDS Bundle, TLC

LinkTo(target) == <<"[", "x", "]", "(">> \o target \o <<")">>

(* No link until a bracket is opened before it; its target closes another. *)
Closing == <<"]", "(", "x", "]", ")">>

ShortTitles == BoundedSeq({"x", "[", "]", "\\"}, 2)
SomeTitles ==
  ShortTitles \cup {LinkTo(<<"x">>), Closing, <<"[", "x", "\\", "]">>}
SomeBodies == {<<>>, <<"[", "\\">>, LinkTo(<<"x">>), LinkTo(<<"http">>),
               LinkTo(<<".", "/", "01.md", "#", "x">>)}

Unit == [title : SomeTitles, body : SomeBodies]
PlainUnit == [title |-> <<"x">>, body |-> <<"x">>]

SomeDocuments ==
  {<<u, v>> : u \in Unit, v \in [title : SomeTitles, body : {<<"x">>}]}
    \cup {<<PlainUnit, u, v>> : u, v \in [title : SomeTitles, body : {<<"x">>}]}
    \cup {<<u>> : u \in Unit}

PlainName == <<"x", ".", "x">>
PlainType == <<"x", "/", "x">>

SomeNames ==
  {<<"x", "[", ".", "x">>, <<"[", "\\", ".", "x">>,
   <<"x", ".">> \o LinkTo(<<"x">>), Closing \o <<"[", ".", "x">>}

SomeTypes ==
  {<<"x", "[">>, <<"x", "\\">>, <<"x">> \o LinkTo(<<"x">>),
   <<"[", "x", "]", "(", "01.md">>}

SomeSources ==
  [originalName : {PlainName}, contentType : {PlainType} \cup SomeTypes]
    \cup [originalName : SomeNames, contentType : {PlainType}]
    \cup {[originalName |-> <<"x", "[", ".", "x">>, contentType |-> <<"x">> \o Closing],
          [originalName |-> <<"x", ".">> \o Closing, contentType |-> <<"x", "[">>]}

SomeFileNames == <<"01.md", "02.md", "03.md">>
SomeTokens == Marks \cup Wording \cup Range(SomeFileNames)
=============================================================================
