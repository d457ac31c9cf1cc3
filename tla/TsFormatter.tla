----------------------------- MODULE TsFormatter -----------------------------
(***************************************************************************)
(* LinkingHtmlFormatter (doc/sphinx/_exts/typescriptdomain.py) pulling     *)
(* tokens from the LinkFilter generator.  _format_lines escapes each token *)
(* and splits it at newlines; _fmt wraps each piece in the span of the     *)
(* token's CSS class around what _get_value makes of it: the escaped text, *)
(* a bold literal, or a link resolved against the ts domain's objects, the *)
(* std domain's labels and anonlabels.  The registries and the bridge's    *)
(* docname do not change while one block is formatted.                     *)
(*                                                                         *)
(* Output is abstract: an escaped character is one entity symbol, a piece  *)
(* _fmt returns is a fragment record, a line the sequence of its pieces.   *)
(***************************************************************************)
EXTENDS TsLinkFilter

CONSTANTS
  Objects,     \* ts domain objects: type name -> <<docname, labelid>>
  Labels,      \* std domain labels: lower-cased name -> <<docname, labelid>>
  AnonLabels,  \* std domain anonlabels: lower-cased name -> <<docname, labelid>>
  DocNames     \* documents; the bridge's docname is one of them or NoDoc

\* MyPygmentsBridge.docname when highlight_block got no location it knows.
NoDoc == "None"

\* _escape_html_table on the symbols that have an entry.
Entity == ("&" :> "&amp;") @@ ("<" :> "&lt;") @@ (">" :> "&gt;")
Escape(s) == [i \in DOMAIN s |-> IF s[i] \in DOMAIN Entity THEN Entity[s[i]] ELSE s[i]]

\* str.lower() on names: "X" is the upper-case letter.
Lower(s) == [i \in DOMAIN s |-> IF s[i] = "X" THEN "x" ELSE s[i]]

\* str.split("\n").
RECURSIVE SplitLines(_)
SplitLines(s) ==
  LET k == SelectInSeq(s, LAMBDA c : c = "NL")
  IN IF k = 0 THEN <<s>>
     ELSE <<SubSeq(s, 1, k - 1)>> \o SplitLines(SubSeq(s, k + 1, Len(s)))

\* _get_css_class: Text has the empty class, every other type its own.
CssClass(tt) == IF tt = "Text" THEN "" ELSE tt

\* The names _get_value never links on an identifier, and re.match("^[0-9]+$").
Builtins == {<<"string">>}
IsDigits(s) == s # <<>> /\ \A i \in DOMAIN s : s[i] = "1"

\* A piece of output: the span class ("" for none), what _get_value
\* returned ("text", "bold" or "link"), the link's target as
\* <<from docname, to docname, labelid>>, the visible content, and the
\* xref and is_identifier of the token it came from.
Piece(cls, kind, href, content, tok) ==
  [cls |-> cls, kind |-> kind, href |-> href, content |-> content,
   ref |-> tok.xref, ident |-> tok.ident]

\* get_relative_uri(docname, r[0]) + "#" + r[1]
Href(docname, r) == <<docname, r[1], r[2]>>

\* The identifier test of _get_value: an all-digits name or a builtin is
\* never looked up.  Mutant: the builtin list is not consulted.
UnlinkableDigitsOnly(tok) == tok.ident /\ IsDigits(tok.xref)
Unlinkable(tok) == tok.ident /\ (IsDigits(tok.xref) \/ tok.xref \in Builtins)

\* The lookups of _get_value, in order: the ts objects, the std labels,
\* the std anonlabels (both by the lower-cased name); None for no entry.
\* Mutants: the labels asked before the objects; anonlabels never asked.
ResolveLabelsFirst(x) ==
  IF Lower(x) \in DOMAIN Labels THEN Labels[Lower(x)]
  ELSE IF x \in DOMAIN Objects THEN Objects[x]
  ELSE IF Lower(x) \in DOMAIN AnonLabels THEN AnonLabels[Lower(x)]
  ELSE None
ResolveNoAnon(x) ==
  IF x \in DOMAIN Objects THEN Objects[x]
  ELSE IF Lower(x) \in DOMAIN Labels THEN Labels[Lower(x)]
  ELSE None
Resolve(x) ==
  IF x \in DOMAIN Objects THEN Objects[x]
  ELSE IF Lower(x) \in DOMAIN Labels THEN Labels[Lower(x)]
  ELSE IF Lower(x) \in DOMAIN AnonLabels THEN AnonLabels[Lower(x)]
  ELSE None

\* _get_value for one escaped piece of a token: the result, and the
\* warning it logs (<<>> for none).
GetValue(value, tok, docname) ==
  LET plain   == [val |-> [kind |-> "text", href |-> <<>>, content |-> value], warn |-> <<>>]
      content == IF tok.caption # None THEN tok.caption ELSE value
      tw      == IF tok.trailing THEN <<<<"trailing_underscore", tok.xref>>>> ELSE <<>>
      \* the early returns of _get_value, in order
      res ==
        IF tok.literal THEN [val |-> [kind |-> "bold", href |-> <<>>, content |-> value],
                             warn |-> <<>>]
        ELSE IF Unlinkable(tok) THEN plain
        ELSE IF docname = NoDoc \/ tok.xref = None THEN plain
        ELSE IF Resolve(tok.xref) # None
             THEN [val |-> [kind |-> "link", href |-> Href(docname, Resolve(tok.xref)),
                            content |-> content], warn |-> <<>>]
        ELSE [plain EXCEPT !.warn = <<<<"unresolved", tok.xref>>>>]
  IN IF tok.literal THEN res ELSE [res EXCEPT !.warn = tw \o @]

\* _fmt: the span around the value, or the bare value for the empty class.
Fmt(value, tok, docname) ==
  LET g == GetValue(value, tok, docname)
  IN [piece |-> Piece(CssClass(tok.type), g.val.kind, g.val.href, g.val.content, tok),
      warn  |-> g.warn]

\* The string a line stands for is empty: bare empty text pieces only.
EmptyLine(l) == \A i \in DOMAIN l : l[i].cls = "" /\ l[i].kind = "text" /\ l[i].content = <<>>

\* _fmt over a sequence of pieces of one token, with their warnings.
FmtAll(parts, tok, docname) ==
  [piece |-> [i \in DOMAIN parts |-> Fmt(parts[i], tok, docname).piece],
   warn  |-> FlattenSeq([i \in DOMAIN parts |-> Fmt(parts[i], tok, docname).warn])]

-----------------------------------------------------------------------------
(* _format_lines as a generator over the filter's output.  A filter step  *)
(* runs only when the formatter has taken every token the filter yielded: *)
(* the formatter pulls the next token and the chain of generators runs    *)
(* until the filter yields.                                                *)

VARIABLES
  docname,   \* MyPygmentsBridge.docname while this block is formatted
  fpos,      \* index in fout of the next token _format_lines takes
  line,      \* the pieces of the line being built
  lines,     \* lines yielded, each a sequence of pieces (lsep left out)
  warnings,  \* logger.warn calls made, as <<kind, xref>>
  fdone      \* _format_lines has returned

vars == <<fin, fseen, fout, docname, fpos, line, lines, warnings, fdone>>
fmtVars == <<docname, fpos, line, lines, warnings, fdone>>

Init ==
  /\ FInit
  /\ docname \in DocNames \cup {NoDoc}
  /\ fpos = 1
  /\ line = <<>>
  /\ lines = <<>>
  /\ warnings = <<>>
  /\ fdone = FALSE

\* The filter yields the tokens of the next lexer token.
Pull ==
  /\ fpos > Len(fout)
  /\ FNext
  /\ UNCHANGED fmtVars

\* Mutant: the loop index advances twice per token.
FormatTokenSkipping ==
  /\ fpos <= Len(fout)
  /\ LET tok   == fout[fpos]
         parts == SplitLines(Escape(tok.text))
         first == Fmt(parts[1], tok, docname)
         mid   == FmtAll(SubSeq(parts, 2, Len(parts) - 1), tok, docname)
         final == Fmt(parts[Len(parts)], tok, docname)
     IN IF Len(parts) = 1
        THEN /\ line' = Append(line, first.piece)
             /\ warnings' = warnings \o first.warn
             /\ UNCHANGED lines
        ELSE /\ lines' = lines \o <<Append(line, first.piece)>>
                                \o [i \in DOMAIN mid.piece |-> <<mid.piece[i]>>]
             /\ line' = <<final.piece>>
             /\ warnings' = warnings \o first.warn \o mid.warn \o final.warn
  /\ fpos' = fpos + 2
  /\ UNCHANGED <<fin, fseen, fout, docname, fdone>>

\* One turn of the loop in _format_lines over the token at fpos.
FormatToken ==
  /\ fpos <= Len(fout)
  /\ LET tok   == fout[fpos]
         parts == SplitLines(Escape(tok.text))
         first == Fmt(parts[1], tok, docname)
         mid   == FmtAll(SubSeq(parts, 2, Len(parts) - 1), tok, docname)
         final == Fmt(parts[Len(parts)], tok, docname)
     IN IF Len(parts) = 1
        THEN /\ line' = Append(line, first.piece)
             /\ warnings' = warnings \o first.warn
             /\ UNCHANGED lines
        ELSE /\ lines' = lines \o <<Append(line, first.piece)>>
                                \o [i \in DOMAIN mid.piece |-> <<mid.piece[i]>>]
             /\ line' = <<final.piece>>
             /\ warnings' = warnings \o first.warn \o mid.warn \o final.warn
  /\ fpos' = fpos + 1
  /\ UNCHANGED <<fin, fseen, fout, docname, fdone>>

\* The stream is exhausted: `if line: yield 1, line + lsep`.
FinishLines ==
  /\ fpos > Len(fout)
  /\ fin = <<>>
  /\ ~fdone
  /\ lines' = IF EmptyLine(line) THEN lines ELSE Append(lines, line)
  /\ fdone' = TRUE
  /\ UNCHANGED <<fin, fseen, fout, docname, fpos, line, warnings>>

Next == Pull \/ FormatToken \/ FinishLines

Spec == Init /\ [][Next]_vars

-----------------------------------------------------------------------------
(* Properties.                                                             *)

Piece_ == [cls : STRING, kind : {"text", "bold", "link"},
           href : {<<>>} \cup (DocNames \X DocNames \X STRING),
           content : Seq(CSym \cup {Entity[c] : c \in DOMAIN Entity}),
           ref : Seq(CSym) \cup {None}, ident : BOOLEAN]

TypeOK ==
  /\ docname \in DocNames \cup {NoDoc}
  /\ fpos \in 1..(Len(fout) + 1)
  /\ \A i \in DOMAIN line : line[i] \in Piece_
  /\ \A k \in DOMAIN lines : \A i \in DOMAIN lines[k] : lines[k][i] \in Piece_
  /\ \A k \in DOMAIN warnings :
        warnings[k] \in {"trailing_underscore", "unresolved"} \X (Seq(CSym) \cup {None})
  /\ fdone \in BOOLEAN

\* Every piece written so far, in the lines yielded and the line being built.
Pieces == UNION {Range(l) : l \in Range(lines) \cup {line}}

\* The entry the spec's fixed order picks for a name: the ts objects,
\* then the labels, then the anonymous labels, both lower-cased.
Entry(x) ==
  IF x \in DOMAIN Objects THEN Objects[x]
  ELSE IF Lower(x) \in DOMAIN Labels THEN Labels[Lower(x)]
  ELSE AnonLabels[Lower(x)]

Registered(x) ==
  x \in DOMAIN Objects \/ Lower(x) \in DOMAIN Labels \/ Lower(x) \in DOMAIN AnonLabels

\* Spec section 8: a link goes to the ts registry's entry when the name is
\* there, even if a std label of the same name exists, else to the label,
\* else to the anonymous label; and always from the document the bridge
\* says is being written.
ResolutionPrecedence ==
  \A p \in Pieces : p.kind = "link" => p.href = Href(docname, Entry(p.ref))

\* Spec section 8: a builtin type name (string, number, ...) on an
\* identifier token is never a link, even when the ts registry has it.
BuiltinsNeverLinked ==
  \A p \in Pieces : p.ident /\ p.ref \in Builtins => p.kind # "link"

\* A name is reported as unresolved exactly when a piece that asked for it
\* found no entry in any of the three maps: no warning for a name that
\* one of them has, no plain piece left unexplained.
WarnedIffUnresolved ==
  /\ \A w \in Range(warnings) : w[1] = "unresolved" => ~Registered(w[2])
  /\ \A p \in Pieces :
        (/\ p.kind = "text" /\ p.ref # None /\ docname # NoDoc
         /\ ~(p.ident /\ (p.ref \in Builtins \/ IsDigits(p.ref))))
        => <<"unresolved", p.ref>> \in Range(warnings)

\* The visible text of a line: the content of its pieces, markup left out.
LineText(l) == FlattenSeq([i \in DOMAIN l |-> l[i].content])

\* Spec section 8, round trip, and 4.4 (one output unit per source line):
\* when nothing was linked or emboldened, the lines yielded, each with its
\* line separator, spell the escaped text of the tokens taken from the
\* lexer, with the line splits where the newlines were.
RoundTrip ==
  fdone /\ (\A p \in Pieces : p.kind = "text")
    => FlattenSeq([k \in DOMAIN lines |-> LineText(lines[k]) \o <<"NL">>])
         = Escape(FlattenSeq([k \in DOMAIN fseen |-> fseen[k].text]))

\* Spec 4.4 step 1: the five reserved characters are escaped before any
\* other processing, so no output piece shows one of them raw.
OutputEscaped ==
  \A p \in Pieces : \A i \in DOMAIN p.content : p.content[i] \notin DOMAIN Entity
=============================================================================
