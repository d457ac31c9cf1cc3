----------------------------- MODULE MCTsLexer -----------------------------
(* Alphabets for model checking the lexer.  Each run draws every text up   *)
(* to a length bound from one of these symbol sets.                        *)
EXTENDS TsLexer

\* Every symbol: operators, punctuation, comments, regex literals, typed
\* bindings, type aliases, the reserved word super and its call rule.
CoreAlphabet == Symbols

\* The symbols that start, end or follow the zero-width rules: the line
\* start lookahead, '(?=/)', the empty pops and the modes they leave.
ZeroWidthAlphabet == {"x", "SP", "NL", "/", "(", ":", ";", "|", "="}

\* The state without the tokens yielded.  No action reads out, so two
\* states that differ only in out have the same futures; identifying them
\* lets TLC see a zero-width cycle, which yields an empty Text token per
\* turn, as a cycle rather than as an ever longer out.
LexView == <<text, pos, stack, done, ctxLine>>

\* What a typed binding spanning two lines is made of.
TypeLineAlphabet == {"x", ":", "NL", "SP"}
=============================================================================
