---------------------------- MODULE TsLinkFilter ----------------------------
(***************************************************************************)
(* LinkFilter (doc/sphinx/_exts/typescriptdomain.py): the Pygments filter *)
(* the tsref lexer runs its tokens through.  A Keyword.Type token is       *)
(* copied and marked as an identifier with an xref; a comment token is     *)
(* split around the matches of link_reg, and the text around them around   *)
(* the matches of literal_reg; every other token passes unchanged.  The    *)
(* properties the code keeps in the token_props side table, keyed by the   *)
(* identity of the copied token type, are fields of the output token here. *)
(* re.finditer over both patterns is a recursive scan over symbols.        *)
(***************************************************************************)
EXTENDS Integers, Sequences, SequencesExt

CONSTANTS
  Streams     \* the token streams the lexer hands the filter

\* Symbols of token text: the link and literal syntax ("BT" is a
\* backtick), a lower- and an upper-case letter, a digit, the word
\* "string", blanks, the comment delimiters and a character HTML escapes.
CSym == {"BT", "<", ">", "_", "x", "X", "1", "string", "SP", "NL", "/", "*", "&"}
Space == {"SP", "NL"}

\* The value of a property tok_getprop finds no entry for: a sequence of a
\* symbol no text contains, so that it compares with texts.
None == <<"None">>

At(v, i) == IF i \in 1..Len(v) THEN v[i] ELSE "EOF"

RECURSIVE RunLen(_, _, _)
RunLen(v, i, S) == IF At(v, i) \in S THEN 1 + RunLen(v, i + 1, S) ELSE 0

\* str.strip(): drop leading and trailing whitespace.
RECURSIVE Trim(_)
Trim(s) ==
  CASE s # <<>> /\ Head(s) \in Space -> Trim(Tail(s))
    [] s # <<>> /\ Last(s) \in Space -> Trim(Front(s))
    [] OTHER                         -> s

\* A token as the formatter sees it: type, text, and its token_props.
Tok(tt, s) == [type |-> tt, text |-> s, xref |-> None, caption |-> None,
               ident |-> FALSE, literal |-> FALSE, trailing |-> FALSE]

\* `if pre:` / `if post:`: an empty slice yields nothing.
Plain(tt, s) == IF s = <<>> THEN <<>> ELSE <<Tok(tt, s)>>

-----------------------------------------------------------------------------
(* literal_reg = r"``([^`]+)``" and its finditer over a slice.            *)

NoSpan == [from |-> 0, to |-> 0, g1 |-> <<0, 0>>, g2 |-> <<0, 0>>]

LiteralAt(s, i) ==
  LET r == RunLen(s, i + 2, CSym \ {"BT"})
  IN IF /\ At(s, i) = "BT" /\ At(s, i + 1) = "BT" /\ r > 0
        /\ At(s, i + 2 + r) = "BT" /\ At(s, i + 3 + r) = "BT"
     THEN [from |-> i, to |-> i + 3 + r, g1 |-> <<i + 2, i + 1 + r>>, g2 |-> <<0, 0>>]
     ELSE NoSpan

RECURSIVE LiteralScan(_, _)
LiteralScan(s, i) ==
  IF i > Len(s) THEN <<>>
  ELSE LET m == LiteralAt(s, i)
       IN IF m # NoSpan THEN <<m>> \o LiteralScan(s, m.to + 1)
          ELSE LiteralScan(s, i + 1)

\* LinkFilter._filter_one_literal: the slices between literal matches as
\* tokens of the comment's type, each match as a copied token marked
\* is_literal with the text of its group.
RECURSIVE LiteralSplit(_, _, _, _)
LiteralSplit(tt, s, last, ms) ==
  IF ms = <<>> THEN Plain(tt, SubSeq(s, last, Len(s)))
  ELSE LET m == Head(ms)
       IN Plain(tt, SubSeq(s, last, m.from - 1))
          \o <<[Tok(tt, SubSeq(s, m.g1[1], m.g1[2])) EXCEPT !.literal = TRUE]>>
          \o LiteralSplit(tt, s, m.to + 1, Tail(ms))

FilterOneLiteral(tt, s) == LiteralSplit(tt, s, 1, LiteralScan(s, 1))

-----------------------------------------------------------------------------
(* link_reg = r"(?<!`)`([^`<]+)\s*(?:<([^>]+)>)?\s*`_?".  Group 1 takes   *)
(* the longest run of characters other than ` and <; the \s* after it can *)
(* only match what group 1 gave back, which never helps, so the match     *)
(* needs a ` right after the run, or a <target> after it followed by      *)
(* blanks and a `.  g2 is <<0, 0>> when the target group did not take     *)
(* part.  The lookbehind reads the whole comment, the previous match too. *)

LinkAt(v, i) ==
  LET r  == RunLen(v, i + 1, CSym \ {"BT", "<"})
      c  == i + 1 + r                               \* first symbol after the run
      q  == RunLen(v, c + 1, CSym \ {">"})
      w  == RunLen(v, c + 2 + q, Space)
      close == IF At(v, c) = "BT" THEN c
               ELSE IF /\ At(v, c) = "<" /\ q > 0 /\ At(v, c + 1 + q) = ">"
                       /\ At(v, c + 2 + q + w) = "BT"
                    THEN c + 2 + q + w ELSE 0
      u  == IF At(v, close + 1) = "_" THEN 1 ELSE 0
  IN IF /\ At(v, i) = "BT" /\ At(v, i - 1) # "BT" /\ r > 0 /\ close > 0
     THEN [from |-> i, to |-> close + u, g1 |-> <<i + 1, i + r>>,
           g2 |-> IF At(v, c) = "<" THEN <<c + 1, c + q>> ELSE <<0, 0>>]
     ELSE NoSpan

RECURSIVE LinkScan(_, _)
LinkScan(v, i) ==
  IF i > Len(v) THEN <<>>
  ELSE LET m == LinkAt(v, i)
       IN IF m # NoSpan THEN <<m>> \o LinkScan(v, m.to + 1)
          ELSE LinkScan(v, i + 1)

\* The copied token a link match yields: its text is group 1 as matched,
\* caption group 1 stripped, xref group 2 stripped or else the caption.
LinkTok(tt, v, m) ==
  LET x1 == SubSeq(v, m.g1[1], m.g1[2])
      x2 == SubSeq(v, m.g2[1], m.g2[2])
  IN [Tok(tt, x1) EXCEPT !.xref     = IF m.g2 = <<0, 0>> THEN Trim(x1) ELSE Trim(x2),
                         !.caption  = Trim(x1),
                         !.trailing = (v[m.to] = "_")]

\* Mutant: `last = m.start()` instead of `last = m.end()`.
RECURSIVE LinkSplitLastAtStart(_, _, _, _)
LinkSplitLastAtStart(tt, v, last, ms) ==
  IF ms = <<>> THEN FilterOneLiteral(tt, SubSeq(v, last, Len(v)))
  ELSE LET m == Head(ms)
       IN FilterOneLiteral(tt, SubSeq(v, last, m.from - 1))
          \o <<LinkTok(tt, v, m)>>
          \o LinkSplitLastAtStart(tt, v, m.from, Tail(ms))

\* The comment branch of LinkFilter.filter: text before each link match
\* and after the last goes through _filter_one_literal.
RECURSIVE LinkSplit(_, _, _, _)
LinkSplit(tt, v, last, ms) ==
  IF ms = <<>> THEN FilterOneLiteral(tt, SubSeq(v, last, Len(v)))
  ELSE LET m == Head(ms)
       IN FilterOneLiteral(tt, SubSeq(v, last, m.from - 1))
          \o <<LinkTok(tt, v, m)>>
          \o LinkSplit(tt, v, m.to + 1, Tail(ms))

CommentTypes == {"Comment", "Comment.Single", "Comment.Multiline"}

\* Mutant: the type-token branch yields the token without copying it and
\* setting its properties.
FilterTokenUncopied(tok) ==
  CASE tok.type = "Keyword.Type" -> <<tok>>
    [] tok.type \in CommentTypes -> LinkSplit(tok.type, tok.text, 1, LinkScan(tok.text, 1))
    [] OTHER -> <<Tok(tok.type, tok.text)>>

\* Everything LinkFilter.filter yields for one input token.
FilterToken(tok) ==
  CASE tok.type = "Keyword.Type" ->
         <<[Tok(tok.type, tok.text) EXCEPT !.xref = Trim(tok.text), !.ident = TRUE]>>
    [] tok.type \in CommentTypes -> LinkSplit(tok.type, tok.text, 1, LinkScan(tok.text, 1))
    [] OTHER -> <<Tok(tok.type, tok.text)>>

-----------------------------------------------------------------------------
(* The filter as a generator: each step takes the next token of the       *)
(* lexer's stream and yields what the branch for its type yields.         *)

VARIABLES
  fin,     \* tokens of the stream not yet taken
  fseen,   \* tokens taken so far
  fout     \* annotated tokens yielded so far

fvars == <<fin, fseen, fout>>

FInit ==
  /\ fin \in Streams
  /\ fseen = <<>>
  /\ fout = <<>>

Take(yield) ==
  /\ fin' = Tail(fin)
  /\ fseen' = Append(fseen, Head(fin))
  /\ fout' = fout \o yield

\* `if ttype in Token.Keyword.Type`
FilterTypeToken ==
  /\ fin # <<>>
  /\ Head(fin).type = "Keyword.Type"
  /\ Take(FilterToken(Head(fin)))

\* `elif ttype in Token.Comment`
FilterComment ==
  /\ fin # <<>>
  /\ Head(fin).type \in CommentTypes
  /\ Take(FilterToken(Head(fin)))

\* `else: yield ttype, value`
PassThrough ==
  /\ fin # <<>>
  /\ Head(fin).type \notin CommentTypes \cup {"Keyword.Type"}
  /\ Take(FilterToken(Head(fin)))

FNext == FilterTypeToken \/ FilterComment \/ PassThrough

FSpec == FInit /\ [][FNext]_fvars

-----------------------------------------------------------------------------
(* Properties.                                                             *)

Token == [type : STRING, text : Seq(CSym)]
AnnotatedToken ==
  [type : STRING, text : Seq(CSym), xref : Seq(CSym) \cup {None},
   caption : Seq(CSym) \cup {None}, ident : BOOLEAN, literal : BOOLEAN,
   trailing : BOOLEAN]

FTypeOK ==
  /\ fin \in Seq(Token)
  /\ fseen \in Seq(Token)
  /\ fout \in Seq(AnnotatedToken)

IsLink(t) == t.xref # None /\ ~t.ident

\* What the tokens yielded for one comment say about its text outside the
\* links: plain slices as they are, literal tokens with their `` back.
Rewrap(ts) ==
  FlattenSeq([k \in 1..Len(ts) |->
                IF IsLink(ts[k]) THEN <<>>
                ELSE IF ts[k].literal THEN <<"BT", "BT">> \o ts[k].text \o <<"BT", "BT">>
                ELSE ts[k].text])

\* A comment's text with every link match cut out.
RECURSIVE CutLinks(_, _, _)
CutLinks(v, last, ms) ==
  IF ms = <<>> THEN SubSeq(v, last, Len(v))
  ELSE SubSeq(v, last, Head(ms).from - 1) \o CutLinks(v, Head(ms).to + 1, Tail(ms))

\* Re-splitting a comment keeps every character outside the link matches,
\* once and in order: the pre/post slicing with `last` in filter and in
\* _filter_one_literal, the `if pre:` tests and the literal groups together
\* lose, repeat or reorder nothing of the comment's text.
CommentTextKept ==
  [][FilterComment =>
       Rewrap(SubSeq(fout', Len(fout) + 1, Len(fout'))) =
         CutLinks(Head(fin).text, 1, LinkScan(Head(fin).text, 1))]_fvars

\* A well-formed literal span of a comment: ``, text without backticks,
\* ``, with no backtick on either side.
IsLiteralSpan(v, i, j) ==
  /\ i + 4 <= j
  /\ v[i] = "BT" /\ v[i + 1] = "BT" /\ v[j - 1] = "BT" /\ v[j] = "BT"
  /\ \A k \in (i + 2)..(j - 2) : v[k] # "BT"
  /\ At(v, i - 1) # "BT" /\ At(v, j + 1) # "BT"

LiteralSpans(v) ==
  {SubSeq(v, ij[1] + 2, ij[2] - 2) :
     ij \in {ij \in (1..Len(v)) \X (1..Len(v)) : IsLiteralSpan(v, ij[1], ij[2])}}

\* Spec section 8: every well-formed ``literal`` span of a comment comes out
\* as an is_literal token with its inner text unchanged.  link_reg is
\* applied first and a stray backtick before the span can open a link
\* that ends on the span's first backtick.
LiteralSpansPreserved ==
  [][FilterComment =>
       \A s \in LiteralSpans(Head(fin).text) :
         \E k \in (Len(fout) + 1)..Len(fout') : fout'[k].literal /\ fout'[k].text = s]_fvars

=============================================================================
