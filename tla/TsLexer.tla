------------------------------ MODULE TsLexer ------------------------------
(***************************************************************************)
(* BetterTypeScriptLexer (doc/sphinx/_exts/typescriptdomain.py) driven by  *)
(* the Pygments RegexLexer loop.  A source text is a sequence of symbols,  *)
(* each standing for a fixed string: "x" a letter, "1" a digit, "SP" a     *)
(* blank, "NL" a newline, the punctuation symbols themselves, and the      *)
(* words "type", "super" and "string".  Every rule of the lexer's token    *)
(* table is an operator that matches at a position and returns the number *)
(* of symbols it consumes, the groups it emits and its state transition;  *)
(* one step of the loop tries the rules of the state on top of the stack  *)
(* in table order and applies the first that matches.                      *)
(***************************************************************************)
EXTENDS Integers, Sequences, SequencesExt

CONSTANTS
  Alphabet,   \* the symbols source texts are made of
  MaxLen      \* longest source text before the lexer's newline handling

Symbols == {"x", "1", "SP", "NL", ":", ";", "|", "/", "*", "=", "(", ")",
            "type", "super", "string"}

ASSUME Alphabet \subseteq Symbols /\ MaxLen \in Nat

\* Character classes of the token table, lifted to symbols.
Space  == {"SP", "NL"}                      \* \s
Letter == {"x", "type", "super", "string"}  \* a word starting with [a-zA-Z_]
Digit  == {"1"}
Word   == Letter \cup Digit                 \* \w and [a-zA-Z0-9_?.$]

Classes == {"Text", "Comment.Single", "Comment.Multiline", "Operator",
            "Punctuation", "Keyword.Type", "Keyword.Reserved", "Name.Other",
            "Number.Integer", "String.Regex", "Error"}

StackOps == {"none", "push_ssr", "push_typeexp", "pop", "pop_badregex"}

-----------------------------------------------------------------------------
(* Matching helpers.                                                       *)

At(t, i) == IF i \in 1..Len(t) THEN t[i] ELSE "EOF"

\* Length of the longest run of symbols of S starting at i.
RECURSIVE RunLen(_, _, _)
RunLen(t, i, S) == IF At(t, i) \in S THEN 1 + RunLen(t, i + 1, S) ELSE 0

\* First j >= i with t[j] = a and t[j+1] = b, or 0.
FirstPair(t, i, a, b) ==
  LET I == {j \in i..(Len(t) - 1) : t[j] = a /\ t[j + 1] = b}
  IN IF I = {} THEN 0 ELSE Min(I)

\* \b in front of position p: the previous symbol is not a word symbol.
Boundary(t, p) == At(t, p - 1) \notin Word

\* A match: symbols consumed, the (class, length) groups it emits in order
\* from the match start, whether they come from a bygroups callback (which
\* skips empty groups) or a plain token type (yielded even when empty), and
\* the state transition.
Match(n, gs, op) == [len |-> n, groups |-> gs, by |-> FALSE, op |-> op]
ByGroups(n, gs, op) == [len |-> n, groups |-> gs, by |-> TRUE, op |-> op]
NoMatch == Match(-1, <<>>, "none")

-----------------------------------------------------------------------------
(* The token table.  Each operator is one rule; rule lists are in table    *)
(* order.                                                                  *)

\* (r"\s+", Text)
Whitespace(t, p) ==
  LET k == RunLen(t, p, Space)
  IN IF k > 0 THEN Match(k, <<<<"Text", k>>>>, "none") ELSE NoMatch

\* (r"//.*?\n", Comment.Single): DOTALL, lazy, so up to the first newline.
LineComment(t, p) ==
  LET nl == SelectInSubSeq(t, p + 2, Len(t), LAMBDA c : c = "NL")
  IN IF At(t, p) = "/" /\ At(t, p + 1) = "/" /\ nl > 0
     THEN Match(nl - p + 1, <<<<"Comment.Single", nl - p + 1>>>>, "none")
     ELSE NoMatch

\* (r"/\*.*?\*/", Comment.Multiline)
BlockComment(t, p) ==
  LET e == FirstPair(t, p + 2, "*", "/")
  IN IF At(t, p) = "/" /\ At(t, p + 1) = "*" /\ e > 0
     THEN Match(e + 2 - p, <<<<"Comment.Multiline", e + 2 - p>>>>, "none")
     ELSE NoMatch

\* The regex-literal rule of "slashstartsregex": '/', one or more symbols
\* other than '/' and newline, '/', then \B (no flags in the alphabet).
RegexLiteral(t, p) ==
  LET k == RunLen(t, p + 1, Symbols \ {"/", "NL"})
  IN IF At(t, p) = "/" /\ k > 0 /\ At(t, p + 1 + k) = "/"
        /\ At(t, p + 2 + k) \notin Word
     THEN Match(k + 2, <<<<"String.Regex", k + 2>>>>, "pop")
     ELSE NoMatch

\* (r"(?=/)", Text, ("#pop", "badregex"))
SlashLookahead(t, p) ==
  IF At(t, p) = "/" THEN Match(0, <<<<"Text", 0>>>>, "pop_badregex") ELSE NoMatch

\* (r"", Text, "#pop")
EmptyPop(t, p) == Match(0, <<<<"Text", 0>>>>, "pop")

\* "badregex": (r"\n", Text, "#pop")
BadRegexNewline(t, p) ==
  IF At(t, p) = "NL" THEN Match(1, <<<<"Text", 1>>>>, "pop") ELSE NoMatch

\* "typeexp": (r"[a-zA-Z0-9_?.$]+", Keyword.Type), (r"[|]", Text),
\* (r"\n", Text, "#pop"), (r";", Text, "#pop").
TypeName(t, p) ==
  LET w == RunLen(t, p, Word)
  IN IF w > 0 THEN Match(w, <<<<"Keyword.Type", w>>>>, "none") ELSE NoMatch
TypeBar(t, p) ==
  IF At(t, p) = "|" THEN Match(1, <<<<"Text", 1>>>>, "none") ELSE NoMatch
TypeNewline(t, p) ==
  IF At(t, p) = "NL" THEN Match(1, <<<<"Text", 1>>>>, "pop") ELSE NoMatch
TypeSemicolon(t, p) ==
  IF At(t, p) = ";" THEN Match(1, <<<<"Text", 1>>>>, "pop") ELSE NoMatch

\* (r"^(?=\s|/|<!--)", Text, "slashstartsregex"): '^' without MULTILINE
\* only holds at the start of the text.
LineStart(t, p) ==
  IF p = 1 /\ At(t, 1) \in Space \cup {"/"}
  THEN Match(0, <<<<"Text", 0>>>>, "push_ssr") ELSE NoMatch

\* The operator rule: ':' and '||' are alternatives before the group,
\* '==?' then '=?' gives up to three '=', the one-character operators
\* take an optional '='.
OperatorRule(t, p) ==
  LET c == At(t, p)
      eq(i) == IF At(t, i) = "=" THEN 1 ELSE 0
      n == CASE c = ":"                        -> 1
             [] c = "|" /\ At(t, p + 1) = "|"  -> 2
             [] c = "="                        -> 1 + eq(p + 1) + eq(p + 1) * eq(p + 2)
             [] c \in {"|", "/", "*"}          -> 1 + eq(p + 1)
             [] OTHER                          -> 0
  IN IF n > 0 THEN Match(n, <<<<"Operator", n>>>>, "push_ssr") ELSE NoMatch

\* (r"[{(\[;,]", Punctuation, "slashstartsregex") and (r"[})\].]", Punctuation)
OpenPunctuation(t, p) ==
  IF At(t, p) \in {"(", ";"} THEN Match(1, <<<<"Punctuation", 1>>>>, "push_ssr")
  ELSE NoMatch
ClosePunctuation(t, p) ==
  IF At(t, p) = ")" THEN Match(1, <<<<"Punctuation", 1>>>>, "none") ELSE NoMatch

\* (r"(abstract|...|super|...|volatile)\b", Keyword.Reserved): no \b in
\* front, and it comes before the super(...) rule.
ReservedWord(t, p) ==
  IF At(t, p) = "super" /\ At(t, p + 1) \notin Word
  THEN Match(1, <<<<"Keyword.Reserved", 1>>>>, "none") ELSE NoMatch

\* (r"\b(string|bool|number)\b", Keyword.Type)
TypeKeyword(t, p) ==
  IF Boundary(t, p) /\ At(t, p) = "string" /\ At(t, p + 1) \notin Word
  THEN Match(1, <<<<"Keyword.Type", 1>>>>, "none") ELSE NoMatch

\* (r"(super)(\s*)\(([a-zA-Z0-9,_?.$\s]+\s*)\)", bygroups(Keyword.Reserved,
\* Text), "slashstartsregex"): three groups, two actions.
SuperCall(t, p) ==
  LET s == RunLen(t, p + 1, Space)
      a == RunLen(t, p + 2 + s, Word \cup Space)
  IN IF At(t, p) = "super" /\ At(t, p + 1 + s) = "(" /\ a > 0
        /\ At(t, p + 2 + s + a) = ")"
     THEN ByGroups(3 + s + a, <<<<"Keyword.Reserved", 1>>, <<"Text", s>>>>, "push_ssr")
     ELSE NoMatch

\* (r"([a-zA-Z0-9_?.$][\w?.$]*)(\s*:\s*)", bygroups(Name.Other, Text), "typeexp")
NameColon(t, p) ==
  LET w  == RunLen(t, p, Word)
      s1 == RunLen(t, p + w, Space)
      s2 == RunLen(t, p + w + s1 + 1, Space)
  IN IF w > 0 /\ At(t, p + w + s1) = ":"
     THEN ByGroups(w + s1 + 1 + s2, <<<<"Name.Other", w>>, <<"Text", s1 + 1 + s2>>>>,
                "push_typeexp")
     ELSE NoMatch

\* Mutant: the alias rule with a sixth group but only five actions.
TypeAliasDropsLastGroup(t, p) ==
  LET s1 == RunLen(t, p + 1, Space)
      w  == RunLen(t, p + 1 + s1, Word)
      s2 == RunLen(t, p + 1 + s1 + w, Space)
      s3 == RunLen(t, p + 2 + s1 + w + s2, Space)
  IN IF Boundary(t, p) /\ At(t, p) = "type" /\ w > 0
        /\ At(t, p + 1 + s1 + w + s2) = "="
     THEN ByGroups(2 + s1 + w + s2 + s3,
                <<<<"Keyword.Reserved", 1>>, <<"Text", s1>>, <<"Name.Other", w>>,
                  <<"Text", s2>>, <<"Operator", 1>>>>,
                "push_typeexp")
     ELSE NoMatch

\* (r"\b(type)(\s*)([a-zA-Z0-9_?.$]+)(\s*)(=)(\s*)", bygroups(Keyword.Reserved,
\* Text, Name.Other, Text, Operator, Text), "typeexp")
TypeAlias(t, p) ==
  LET s1 == RunLen(t, p + 1, Space)
      w  == RunLen(t, p + 1 + s1, Word)
      s2 == RunLen(t, p + 1 + s1 + w, Space)
      s3 == RunLen(t, p + 2 + s1 + w + s2, Space)
  IN IF Boundary(t, p) /\ At(t, p) = "type" /\ w > 0
        /\ At(t, p + 1 + s1 + w + s2) = "="
     THEN ByGroups(2 + s1 + w + s2 + s3,
                <<<<"Keyword.Reserved", 1>>, <<"Text", s1>>, <<"Name.Other", w>>,
                  <<"Text", s2>>, <<"Operator", 1>>, <<"Text", s3>>>>,
                "push_typeexp")
     ELSE NoMatch

\* (r"[$a-zA-Z_][a-zA-Z0-9_]*", Name.Other) and (r"[0-9]+", Number.Integer)
Identifier(t, p) ==
  IF At(t, p) \in Letter
  THEN Match(RunLen(t, p, Word), <<<<"Name.Other", RunLen(t, p, Word)>>>>, "none")
  ELSE NoMatch
IntegerLiteral(t, p) ==
  IF At(t, p) \in Digit
  THEN Match(RunLen(t, p, Digit), <<<<"Number.Integer", RunLen(t, p, Digit)>>>>, "none")
  ELSE NoMatch

\* The token table: the rule names of each state in table order, with
\* include("commentsandwhitespace") expanded in place.
CommentsAndWhitespace == <<"Whitespace", "LineComment", "BlockComment">>

\* Mutant: "slashstartsregex" without its (?=/) rule.
TokensWithoutLookahead ==
  [root |-> <<"LineStart">> \o CommentsAndWhitespace
              \o <<"OperatorRule", "OpenPunctuation", "ClosePunctuation",
                   "ReservedWord", "TypeKeyword", "SuperCall", "NameColon", "TypeAlias",
                   "Identifier", "IntegerLiteral">>,
   slashstartsregex |-> CommentsAndWhitespace \o <<"RegexLiteral", "EmptyPop">>,
   badregex |-> <<"BadRegexNewline">>,
   typeexp  |-> <<"TypeName", "Whitespace", "TypeBar", "TypeNewline",
                  "TypeSemicolon", "EmptyPop">>]

Tokens ==
  [root |-> <<"LineStart">> \o CommentsAndWhitespace
              \o <<"OperatorRule", "OpenPunctuation", "ClosePunctuation",
                   "ReservedWord", "TypeKeyword", "SuperCall", "NameColon", "TypeAlias",
                   "Identifier", "IntegerLiteral">>,
   slashstartsregex |-> CommentsAndWhitespace
              \o <<"RegexLiteral", "SlashLookahead", "EmptyPop">>,
   badregex |-> <<"BadRegexNewline">>,
   typeexp  |-> <<"TypeName", "Whitespace", "TypeBar", "TypeNewline",
                  "TypeSemicolon", "EmptyPop">>]

Rule(r, t, p) ==
  CASE r = "LineStart"        -> LineStart(t, p)
    [] r = "Whitespace"       -> Whitespace(t, p)
    [] r = "LineComment"      -> LineComment(t, p)
    [] r = "BlockComment"     -> BlockComment(t, p)
    [] r = "OperatorRule"     -> OperatorRule(t, p)
    [] r = "OpenPunctuation"  -> OpenPunctuation(t, p)
    [] r = "ClosePunctuation" -> ClosePunctuation(t, p)
    [] r = "ReservedWord"     -> ReservedWord(t, p)
    [] r = "TypeKeyword"      -> TypeKeyword(t, p)
    [] r = "SuperCall"        -> SuperCall(t, p)
    [] r = "NameColon"        -> NameColon(t, p)
    [] r = "TypeAlias"        -> TypeAlias(t, p)
    [] r = "Identifier"       -> Identifier(t, p)
    [] r = "IntegerLiteral"   -> IntegerLiteral(t, p)
    [] r = "RegexLiteral"     -> RegexLiteral(t, p)
    [] r = "SlashLookahead"   -> SlashLookahead(t, p)
    [] r = "EmptyPop"         -> EmptyPop(t, p)
    [] r = "BadRegexNewline"  -> BadRegexNewline(t, p)
    [] r = "TypeName"         -> TypeName(t, p)
    [] r = "TypeBar"          -> TypeBar(t, p)
    [] r = "TypeNewline"      -> TypeNewline(t, p)
    [] r = "TypeSemicolon"    -> TypeSemicolon(t, p)

\* The first rule of the list, from index i on, that matches at p: the
\* for-loop over statetokens breaks at the first match.
RECURSIVE FirstMatchFrom(_, _, _, _)
FirstMatchFrom(rs, i, t, p) ==
  IF i > Len(rs) THEN NoMatch
  ELSE LET m == Rule(rs[i], t, p)
       IN IF m.len >= 0 THEN m ELSE FirstMatchFrom(rs, i + 1, t, p)

FirstMatch(state, t, p) == FirstMatchFrom(Tokens[state], 1, t, p)

\* The tokens a match yields, in order: a plain token type yields the
\* whole match, bygroups each group with non-empty text.
RECURSIVE GroupTokens(_, _, _, _)
GroupTokens(t, p, gs, by) ==
  IF gs = <<>> THEN <<>>
  ELSE LET g == Head(gs)
       IN (IF g[2] > 0 \/ ~by THEN <<<<g[1], SubSeq(t, p, p + g[2] - 1)>>>> ELSE <<>>)
            \o GroupTokens(t, p + g[2], Tail(gs), by)

\* '#pop' leaves the root state in place.
Pop(stack) == IF Len(stack) > 1 THEN Front(stack) ELSE stack

\* Mutant: ("#pop", "badregex") taken as a plain push of "badregex".
ApplyOpPushOnly(op, stack) ==
  CASE op = "none"         -> stack
    [] op = "push_ssr"     -> Append(stack, "slashstartsregex")
    [] op = "push_typeexp" -> Append(stack, "typeexp")
    [] op = "pop"          -> Pop(stack)
    [] op = "pop_badregex" -> Append(stack, "badregex")

ApplyOp(op, stack) ==
  CASE op = "none"         -> stack
    [] op = "push_ssr"     -> Append(stack, "slashstartsregex")
    [] op = "push_typeexp" -> Append(stack, "typeexp")
    [] op = "pop"          -> Pop(stack)
    [] op = "pop_badregex" -> Append(Pop(stack), "badregex")

\* Lexer.get_tokens: strip leading and trailing newlines (stripnl), then
\* make the text end with a newline (ensurenl).
RECURSIVE StripNL(_)
StripNL(s) ==
  CASE s # <<>> /\ Head(s) = "NL" -> StripNL(Tail(s))
    [] s # <<>> /\ Last(s) = "NL" -> StripNL(Front(s))
    [] OTHER                      -> s

Normalize(s) == Append(StripNL(s), "NL")

LineOf(t, q) == Len(SelectSeq(SubSeq(t, 1, q - 1), LAMBDA c : c = "NL"))

-----------------------------------------------------------------------------
(* The lexer loop.                                                         *)

VARIABLES
  text,     \* the text being tokenized (fixed for a run)
  pos,      \* index of the next symbol to match
  stack,    \* statestack
  out,      \* tokens yielded so far, as <<class, symbols>>
  done,     \* the loop has broken out at the end of the text
  ctxLine   \* history: line on which the current typeexp context began

vars == <<text, pos, stack, out, done, ctxLine>>

Texts == {Normalize(s) : s \in SeqOf(Alphabet, MaxLen)}

Init ==
  /\ text \in Texts
  /\ pos = 1
  /\ stack = <<"root">>
  /\ out = <<>>
  /\ done = FALSE
  /\ ctxLine = 0

\* One iteration in which a rule of the current state matches: yield its
\* groups, advance to the end of the match, apply its transition.
Step ==
  \E m \in {FirstMatch(Last(stack), text, pos)} :
    /\ ~done
    /\ m.len >= 0
    /\ out' = out \o GroupTokens(text, pos, m.groups, m.by)
    /\ pos' = pos + m.len
    /\ stack' = ApplyOp(m.op, stack)
    /\ ctxLine' = IF m.op = "push_typeexp" THEN LineOf(text, pos + m.len) ELSE ctxLine
    /\ UNCHANGED <<text, done>>

\* No rule matches: a newline resets the stack to root and is yielded as
\* text, any other symbol is yielded as Error; at the end of the text the
\* IndexError breaks the loop.
NoRuleMatches ==
  /\ ~done
  /\ FirstMatch(Last(stack), text, pos).len < 0
  /\ \/ /\ pos <= Len(text)
        /\ out' = Append(out, <<IF text[pos] = "NL" THEN "Text" ELSE "Error",
                                <<text[pos]>>>>)
        /\ stack' = IF text[pos] = "NL" THEN <<"root">> ELSE stack
        /\ pos' = pos + 1
        /\ UNCHANGED <<text, done, ctxLine>>
     \/ /\ pos > Len(text)
        /\ done' = TRUE
        /\ UNCHANGED <<text, pos, stack, out, ctxLine>>

Next == Step \/ NoRuleMatches

Spec == Init /\ [][Next]_vars /\ WF_vars(Step) /\ WF_vars(NoRuleMatches)

-----------------------------------------------------------------------------
(* Properties.                                                             *)

TypeOK ==
  /\ text \in Seq(Alphabet)
  /\ pos \in 1..(Len(text) + 1)
  \* no state pushes another: the stack is root plus at most one state
  /\ stack \in {<<"root">>} \cup
       {<<"root", s>> : s \in {"slashstartsregex", "badregex", "typeexp"}}
  /\ \A i \in DOMAIN out : out[i][1] \in Classes /\ out[i][2] \in Seq(Alphabet)
  /\ done \in BOOLEAN

\* The tokens yielded so far spell exactly the text consumed so far: no
\* rule of the token table (bygroups callbacks included) drops or repeats
\* source text.
LosslessTokens ==
  FlattenSeq([i \in 1..Len(out) |-> out[i][2]]) = SubSeq(text, 1, pos - 1)

\* Every tokenize call ends: the zero-width rules of the table (the '^'
\* lookahead, '(?=/)' and the empty pops) never cycle without consuming.
Terminates == <>done

\* A type expression ends at the end of its line: every Keyword.Type token
\* the typeexp state yields starts on the line where that state began.
TypeExprEndsAtLineEnd ==
  [][ (/\ Last(stack) = "typeexp"
       /\ Len(out') > Len(out)
       /\ out'[Len(out) + 1][1] = "Keyword.Type")
      => LineOf(text, pos) = ctxLine ]_vars
=============================================================================
