--------------------------- MODULE MCTsFormatter ---------------------------
(* Token streams, registries and documents for model checking the filter   *)
(* and the formatter together.  Comment tokens have the shapes the lexer   *)
(* gives them: "//" text up to and with the newline, and "/*" text "*/"    *)
(* with no "*/" inside.  A stream is a type name followed by a line        *)
(* comment, as in `a: T // see `T``, or an identifier, a block comment and *)
(* the newline after it.  Comment text is every short sequence of the body *)
(* symbols, and every pair of chunks that spell whole links and literals   *)
(* too long for the exhaustive part.                                       *)
EXTENDS TsFormatter

CONSTANTS
  BodyAlphabet,  \* symbols of comment text between the delimiters
  MaxBody,       \* longest comment text enumerated exhaustively
  Chunks,        \* pieces of link and literal syntax, two of which make a text
  TypeWords      \* texts of the Keyword.Type token

Bodies == SeqOf(BodyAlphabet, MaxBody) \cup {a \o b : a, b \in Chunks}

MCStreams ==
  {<<[type |-> "Keyword.Type", text |-> w],
     [type |-> "Comment.Single", text |-> <<"/", "/">> \o b \o <<"NL">>]>> :
       w \in TypeWords, b \in {b \in Bodies : \A i \in DOMAIN b : b[i] # "NL"}}
  \cup
  {<<[type |-> "Name.Other", text |-> <<"x">>],
     [type |-> "Comment.Multiline", text |-> <<"/", "*">> \o b \o <<"*", "/">>],
     [type |-> "Text", text |-> <<"NL">>]>> :
       b \in {b \in Bodies : \A i \in DOMAIN b : b[i] # "*"}}

\* Link and literal syntax, both cases of a letter, a blank, a newline and
\* a character HTML escapes.
LinkAlphabet == {"BT", "<", ">", "_", "x", "X", "SP", "NL", "&"}

LinkChunks ==
  {<<"BT", "x", "BT">>, <<"BT", "X", "SP", "BT", "_">>,
   <<"BT", "x", "<", "x", "x", ">", "BT">>, <<"BT", "x", "SP", "<", "X", ">", "SP", "BT", "_">>,
   <<"BT", "BT", "x", "BT", "BT">>, <<"BT", "x", "NL", "x", "BT">>, <<"x", "&", "SP">>}

\* A type name in the ts objects and a label, one only in the labels
\* (after lower-casing), a builtin, a number.
MCTypeWords == {<<"x">>, <<"X">>, <<"string">>, <<"1">>}

\* "x" is a ts type and a label; "xx" only an anonymous label;
\* "string" is registered although it is a builtin.
MCObjects == (<<"x">> :> <<"d1", "tsref-type-x">>) @@
             (<<"string">> :> <<"d1", "tsref-type-string">>)
MCLabels == <<"x">> :> <<"d2", "x">>
MCAnonLabels == (<<"x", "x">> :> <<"d2", "id1">>) @@ (<<"x", "x", "x">> :> <<"d2", "id2">>)

\* Backticks and a letter: enough for literal and link spans to collide.
BacktickAlphabet == {"BT", "x"}

\* No link syntax: comments and type names that render as plain text.
PlainAlphabet == {"x", "SP", "&"}
PlainChunks == {<<"x">>}

\* Links whose caption and target differ: a caption with a character HTML
\* escapes, a caption across a line break, a link text ending in one.
CaptionChunks ==
  {<<"BT", "x", "SP", "&", "SP", "<", "x", ">", "BT">>,
   <<"BT", "x", "NL", "x", "SP", "<", "x", ">", "BT">>,
   <<"BT", "x", "NL", "<", "x", ">", "BT">>, <<"SP">>}
=============================================================================
