# TLA+ models of the tsref highlighting pipeline (Anastasis docs)

This directory holds TLA+ models of the Python code in the repository. It
concentrates on the Sphinx extension `doc/sphinx/_exts/typescriptdomain.py`.
That extension highlights TypeScript samples in the documentation and turns
type names and comment links into hyperlinks. The models are checked with TLC.

## The system and its parts

`typescriptdomain.py` is a chain of four pieces. Sphinx builds one of these
chains for every `ts:def` code block.

1. **Lexer**. `BetterTypeScriptLexer`, lines 185-298, is a Pygments
   `RegexLexer`.
   - Its state is a position and a stack of lexer states: `root`,
     `slashstartsregex`, `badregex` and `typeexp`.
   - Each step tries the rules of the state on top of the stack, in table
     order. The first rule that matches yields its token or tokens
     (`bygroups`) and may push or pop a state.
   - When no rule matches, a newline resets the stack to `root`. Any other
     character is yielded as `Error`.
2. **Link filter**. `LinkFilter`, lines 307-354, is a one-pass stream
   transform.
   - A `Keyword.Type` token gets the property `xref` (its stripped text) and
     `is_identifier`.
   - A comment token is re-split around single-backtick links
     (`link_reg`, line 574) and double-backtick literals (`literal_reg`,
     line 575).
   - The properties live in the global side table `token_props`, keyed by
     `id()` of a copied token type (lines 300-304, 547-567).
3. **Symbol registry**. `TypeScriptDomain.objects`, lines 176-182, is a map
   from `(objtype, name)` to `(docname, labelid)`.
   - `TypeScriptDefinition.run`, lines 60-115, writes it: every `ts:def`
     directive registers its type.
   - `resolve_xref` and `resolve_any_xref` (the `:ts:type:` role) read it,
     and so does the formatter for the names in tsref blocks.
4. **Resolving formatter**. `LinkingHtmlFormatter`, lines 366-497, escapes
   every token and splits it at newlines into output lines.
   - `_get_value` decides between plain text, bold literal and a link.
   - It resolves the `xref` against the ts objects first, then the std
     `labels`, then `anonlabels` (both lower-cased).
   - `MyPygmentsBridge`, lines 500-525, tells it the document being written.

The other Python files are not part of the pipeline:

- the build-system configure driver: `talerbuildconfig.py`, `configure.py`
  and `pyvercheck.py`;
- the remote reducer HTTP wrapper;
- two Selenium scripts.

Of these, the configure driver with `pyvercheck.py` is modelled in
`TalerConfigure`, and the wallet script `withdraw_buy.py` in `WalletScript`.

## What is modelled

### `TsLexer` (with `MCTsLexer`)

The source text is a sequence of abstract symbols.

- The symbols are `x` (letter), `1` (digit), `SP`, `NL`, the punctuation
  symbols `: ; | / * = ( )`, and the whole words `type`, `super` and `string`.
- Every rule of the token table that these symbols can trigger is an operator
  named after what it matches. Each returns the match length, the groups it
  yields and its stack operation.
- `Tokens` lists the rule names of each state in the table's order, with
  `include` expanded in place.
- `FirstMatch` is the loop that breaks at the first matching rule.

Variables and actions:

- **Variables.** `text`, `pos`, `stack`, `out` (the tokens yielded), `done`,
  and the history variable `ctxLine` (the line on which the current `typeexp`
  began).
- **`Step`** is one iteration of `RegexLexer.get_tokens_unprocessed` in which
  a rule matches.
- **`NoRuleMatches`** is the `else` branch of that iteration:
  - the newline reset;
  - an `Error` character;
  - the `IndexError` break at the end of the text.
- **`Init`** applies `get_tokens`' own preprocessing: strip leading and
  trailing newlines, then add one final newline.

What the model keeps from Pygments:

- **Zero-width rules.** The `^` lookahead, `(?=/)` and the empty pops are
  kept, and so is the pop-then-push tuple `("#pop", "badregex")`.
- **Token yielding.** A `bygroups` rule skips empty groups. A plain token type
  is yielded even when its match is empty.

The model was compared token for token with Pygments. The real lexer was run
on all 47,251 distinct normalised texts of up to 4 symbols, each symbol spelled
as its string, and the model produced the same token stream on every one.

Rules outside the alphabet are not modelled:

- the keyword, declaration, constant and builtin lists;
- `module`, `constructor|...`, `name() {`;
- float, hex and quoted-string literals, and `<!--`.

Each of these only classifies a word or literal. None changes the state stack
in a way the modelled rules do not already cover.

`super` is kept on purpose:

- the reserved-word list (lines 245-251) takes it before the `super(...)` rule
  at 272-276;
- so that rule, whose `bygroups` has two actions for three groups, can never
  fire.

### `TsLinkFilter`

`LinkFilter.filter` (lines 326-358) is modelled as a stream transform.

- **Variables.** `fin` holds the lexer tokens not yet taken, `fseen` the
  tokens taken, and `fout` the tokens yielded.
- **Actions.** There is one action per branch: `FilterTypeToken` for
  `Keyword.Type`, `FilterComment` for the three comment types, and
  `PassThrough` for the rest.
- **Token properties.** A yielded token carries the properties that
  `tok_setprop` stores in `token_props` as fields: `xref`, `caption`,
  `ident` (`is_identifier`), `literal` (`is_literal`) and `trailing`
  (`trailing_underscore`).
- **Regex matching.** `re.finditer` on `link_reg` and `literal_reg` is
  written as recursive scanners:
  - `LinkAt` and `LiteralAt` try one start position;
  - `LinkScan` and `LiteralScan` find all matches left to right without
    overlap.

  The scanners follow the regex's semantics:
  - the greedy `[^`<]+` group;
  - the optional `<target>` part, and the backtracking into it that the
    regex does;
  - the lookbehind, which sees the whole comment, including a previous
    match.

  For comments of up to 6 symbols, the scanners were compared with Python's
  `re` on every text. The filter code itself was compared on the same texts.
  Both agreed everywhere.

### `TsFormatter` (with `MCTsFormatter`)

`LinkingHtmlFormatter._format_lines` pulls tokens from the filter.

- **`Pull`**: a filter step runs only when the formatter has taken every token
  yielded so far. This is the order in which nested generators run.
- **`FormatToken`** is one turn of the loop:
  - escape the token (`Entity` is the part of `_escape_html_table` the
    alphabet reaches);
  - split it at newlines;
  - `_fmt` every part, with the lines it yields.
- **`FinishLines`** is the final `if line: yield`.
- **Values.** `GetValue` is `_get_value`'s chain of early returns, in order:
  1. a literal is made bold;
  2. the trailing-underscore warning;
  3. digit and builtin identifiers are left plain;
  4. no docname, or no `xref`, is left plain;
  5. `Resolve` tries the ts objects, then the lower-cased `labels`, then
     `anonlabels`;
  6. otherwise the unresolved warning.
- **Output is abstract.** A piece records its span class, whether it is text,
  bold or a link, the link target `<<from document, to document, label>>`
  and its visible content.
- **Constants.** The registries (`Objects`, `Labels`, `AnonLabels`) and the
  bridge's `docname` are constants for one block.
- **Token streams.** `MCStreams` has the two shapes the lexer gives comments:
  - a `Keyword.Type` followed by a `// ...` comment that ends at the newline;
  - a name, a `/* ... */` comment and a newline.

The three formatter violations below were also reproduced by running the real
lexer, filter and formatter code on the inputs in TLC's traces.

### `TsBuild` (with `MCTsBuild`)

This module models the ts domain's registry across Sphinx builds. Sphinx's
build driver is not part of this repository. It appears as the order in
which the code is called:

- every outdated document is read before any is written;
- the environment, which holds `objects`, is pickled between the two phases;
- the next build re-reads only the changed documents.

Actions:

- **`ReadDoc`** is `TypeScriptDefinition.run` for each `ts:def` of a
  document. Each one ends in `add_object`, which overwrites any existing
  entry.
- **`ReadDocFails`** covers a directive with `:caption:`, `:dedent:` or
  `:emphasize-lines:`. These reach helpers the module never imports, so
  `run()` raises `NameError` and the build stops.
- **`Restart`** is the next `sphinx-build`, which starts from the
  environment pickled last.
- **`WriteDoc`** highlights the document's tsref blocks in order
  (`HighlightBlocks`) and resolves each name against `objects`. The result
  is a link to the defining document, or the "not found" warning.
  - Each block first goes through `MyPygmentsBridge.highlight_block`
    (`HighlightDoc`). It sets the bridge's `docname` (`bridgeDoc`) from the
    location Sphinx passes, which is the constant `Location`. A tuple names
    the document being written. An Element gives `path2doc` of the
    block's source file (the `src` of the block in `Blocks`):
    - the document itself, for its own text;
    - the included file's own page, for an included `.rst` file that Sphinx
      also builds;
    - `None`, for an included file without a source suffix.
  - While `docname` is `None`, `_get_value` returns the plain text: no
    link and no warning.
  - `StartBuild` resets `bridgeDoc` (`BridgeInit`), because each
    `sphinx-build` makes a new builder and bridge in `init_highlighter`.
  - A link records the document it is relative to.
  - `MCBlocks` opens document `a` with a block from an included file
    without a source suffix. `MCBlocksIncludedPage` has `a` include
    `b.rst` instead, which is a page of its own.
- **`StartBuild`** makes a fresh bridge and calls `env.clear_doc`, which
  reaches `Domain.clear_doc`. That method does nothing, because this domain
  does not override it.
- Sphinx reads the outdated documents in sorted order. The model lets it
  read them in any order, which only adds behaviours.
- **`Edit`** is the author changing a document's directives between builds.

An anchor is always `tsref-type-<name>`, so an entry of `objects` is just the
defining document. The std label fallback is left to `TsFormatter`.

**Refinement.** `TsRegistry` is the registry as the spec describes it
(sections 3 and 5), without Sphinx's document-by-document steps:

- `ReadAll` is a whole read phase in one step. A name that some changed
  source defines gets one of those documents as its entry. Every other name
  keeps its entry, so entries are never removed.
- `Write` links a document's references to their entries.
- A failed build is not a step of `TsRegistry` at all.

`TsBuild!RegistryRefinement` is `TsRegistry`'s `Spec` under this mapping:

- `reg` is `saved` while a build is reading or has failed, and `objects`
  otherwise;
- `pending` is `outdated`;
- `toWrite` is empty while reading or failed;
- a link is its name and target;
- the abstract `Refs` of a document are the names of the blocks the bridge
  gives a docname (`LinkedRefs`).

`BuildRegistry` uses Sphinx's current Element locations. The
`BuildDirectiveOptions` run uses tuples.

Every `ReadDoc` but the last is therefore a stuttering step. The last one is
`ReadAll`. `ReadDocFails` and `Restart` must change nothing the mapping
shows. That holds only because `objects` lives in the environment data that
is pickled after the read phase, and a failed build reloads that pickle.

### `TalerConfigure` (with `MCTalerConfigure`)

This module models `talerbuildconfig.py` as `configure.py` uses it.

- **Actions.**
  - `PyVerCheck` is `pyvercheck.py`, which rejects `major < 3 or minor < 7`.
    Nothing in this repository runs it. The model assumes the build scripts'
    `configure` wrapper (not vendored here) runs it with `python3` before
    `configure.py`.
  - `Import` is the interpreter guard.
  - `Configure` is one of `configure.py`'s calls on `BuildConfig`, taken
    from the constant `Calls` in order: `enable_prefix`, `enable_configmk`,
    `add_tool` or `use`.
    - `add_tool` appends a `Tool` to `tools`. `use` appends a `Plugin` to
      `plugins`, or a `Tool` to `tools`.
    - Either call raises for anything else. `EmscriptenTool` is such an
      object, because it subclasses neither `Tool` nor `Plugin`. The
      exception ends `configure.py` with status 1.
  - `ParseArgs(a)` is argparse at the start of `run()`. It knows these
    options (`KnownOpts`):
    - `--prefix` when enabled, with `/usr/local` as its default;
    - `--with-python` and `--with-yarn` from the tools' `args`;
    - `--<optname>` of each `Option`.

    An option it does not know exits 2.
  - `RunPlugin` is `Option.run` for each plugin in turn.
    - It reads `getattr(args, optname)`, which raises for a name with a
      dash, because argparse stores such an option with an underscore.
    - A missing required option exits 1.
    - A missing optional option takes its default.
  - The tool loop is split into `ToolFound` and `ToolMissing`. It stops at
    the first missing tool or failed `version_spec`.
  - `WriteConfigMk` writes `config.mk`: the prefix line, one line per tool,
    then each option's `opt_<name>` line. Then `configure.py` copies the
    Makefile.
- **`MCCalls`** is `configure.py`'s own sequence of calls
  (`MCConfigurePy`: `enable_prefix`, `enable_configmk` and its seven
  `add_tool` calls), followed by four calls it does not make, so that the
  rest of the `BuildConfig` API runs (`MCLibraryCalls`):
  - `add_tool(PythonTool())`;
  - `use(YarnTool())`;
  - `use` of a required `Option("currency")`;
  - `use` of `Option("mode")`, which is optional with default `dev`.

  `MCCmdLines` runs `./configure` with and without each of `--prefix`,
  `--with-yarn`, `--currency` and `--mode`, and once with `--with-yapf`,
  which no call adds. The options have no dash: a dashed one would fail
  every behaviour.
- **Tools.** `Check` is the `check` method of `PosixTool`, `GenericTool`,
  `NodeJsTool`, `PythonTool` and `YarnTool` (`YarnCheck`).
  - The too-old test of `NodeJsTool` reads the output of `process.exit`,
    which is always empty, so that test never fails.
  - When the `yarn` found is cmdtest's (`WrongYarn`), `YarnTool` fails
    without trying `yarnpkg`.
- **Versions** are character sequences.
  - `StrLess` is Python's string order. It is what `PythonTool` compares
    with at lines 415 and 419, so a python 3.10 is passed over.
  - `NumGeq` is the numeric reference that semver's `>=` means.
- **`MCHosts`** lets each executable be missing or present, at versions on
  both sides of each bound. `jq` and `pnpm` are always present, because
  they take the same paths as `make` and `npm`.
  - node 10, 12 and 14;
  - python 2.7, 3.6, 3.7 and 3.10;
  - any subset of the suffixed `python3.x` names;
  - no yarn, a real yarn, cmdtest's yarn (with or without `yarnpkg`), or
    only `yarnpkg`.
- **Interpreters.** Each host is tried with interpreters 3.6 and 3.7, on
  both sides of the 3.7 guard.

### `WalletScript` (with `MCWalletScript`)

This module models `contrib/selenium/withdraw_buy.py`.

- **`Setup`** is `client_setup`:
  - with neither `--ext` nor `--ext-unpacked`, it exits 1;
  - otherwise it starts the virtual display (unless `--with-head`) and opens
    the browser.
- **`RunStep(k, fail, matched)`** is step `k` of the script:
  `register`, `withdraw`, `buy`, the replay `buy`, then `donate`.
  - Each step is its sequence of probes (`Probes`), each a wait or a
    lookup. The step returns at the first probe that fails.
  - A probe's except clause either returns `False`, after which the script
    runs `print_log` and `abort`, or raises `NameError` on `amount_value`.
  - `matched` is whether the amount menu offers the requested entry. When it
    does not, the option wait is skipped and the step continues.
  - The successful `buy` deletes the cookies. The last step quits and exits
    0.

The web pages are the environment. Only the exceptions the script catches
are modelled: `TimeoutException` from a wait and `NoSuchElementException`
from a lookup.

### Runs

| run | cfg | result | what it shows |
|-----|-----|--------|---------------|
| LexerCore | `LexerCore.cfg` | pass | All 15 symbols, texts of up to 4 symbols (47,251 texts, 386,099 states, about 2 minutes). `TypeOK`: the stack never grows beyond `root` plus one state. `LosslessTokens`: the tokens yielded always spell exactly the text consumed (spec section 8, first property). `Terminates` (`<>done`) under weak fairness: no chain of zero-width pushes and pops loops. |
| LexerTypeExprLine | `LexerTypeExprLine.cfg` | violation | `TypeExprEndsAtLineEnd`. In `typeexp`, `\s+` (line 216) comes before the `\n` pop (line 218), so a type context runs on into the next line. For `x: x\nx`, the `x` on the next line is yielded as `Keyword.Type`. The filter then makes it an xref. |
| Pipeline | `Pipeline.cfg` | pass | Filter and formatter over every comment of up to 4 link symbols and every pair of link chunks, with 2 documents (523,494 states). `CommentTextKept`: the comment text outside link spans is what the filter yields, with literals re-wrapped. `ResolutionPrecedence`: every link goes to the objects entry, else the label, else the anonymous label, from the bridge's document. `BuiltinsNeverLinked`: this holds even though `string` is registered as a ts object. `WarnedIffUnresolved`: a warning is given exactly for the names no map has. Also `FTypeOK` and `TypeOK`. |
| FilterLiteralSpan | `FilterLiteralSpan.cfg` | violation | `LiteralSpansPreserved`. For `` // `x``x`` ``, `link_reg` matches `` `x` `` and the rest is emitted as plain text, so the literal is never bold (spec section 8 says it always is). |
| FormatterRoundTrip | `FormatterRoundTrip.cfg` | violation | `RoundTrip`. `x: string // x` gives two output lines. The empty part after the comment's newline becomes `<span class="c1"></span>`, which is non-empty, so the test at line 494 yields it. |
| FormatterEscaping | `FormatterEscaping.cfg` | violation | `OutputEscaped`. The caption of a resolved link is the raw comment text (line 414), so `` `x & <x>` `` puts a raw `&` into the HTML. |
| BuildRegistry | `BuildRegistry.cfg` | pass | Two documents, two names, up to 3 edits, with failing directives and restarts, and a block from an included file without a source suffix (222,614 states). `RegistryRefinement`: `TsBuild` implements `TsRegistry`, so a build's registrations appear all at once when its read phase ends, and a build that fails leaves the next one the registry of the last good build. Also `TypeOK`. |
| BuildStaleEntry | `BuildStaleEntry.cfg` | violation | `LinksToCurrentDefinitions`. In the first build document `a` defines `T`, and both documents link to it. Then `a` drops `ts:def T` and is rebuilt alone. `objects` still maps `T` to `a`, so `a` is written with a link to `a#tsref-type-T`, which no longer exists, and no warning is given. |
| BuildIncludedPage | `BuildIncludedPage.cfg` | violation | `LinksFromWrittenDoc`. Document `a` defines `T` and includes `b.rst`, a page of its own, whose tsref block references `T`. For that block `highlight_block` sets `docname` to `path2doc` of `b.rst`, which is `b` (line 524). So the link written into `a`'s HTML is computed relative to `b`, and it breaks whenever `a` and `b` are in different directories. |
| BuildDirectiveOptions | `BuildDirectiveOptions.cfg` | violation | `NeverAborts`. A `ts:def` with `:caption:` stops `sphinx-build` with `NameError` (`container_wrapper`, line 106). |
| ScriptCleanExit | `ScriptCleanExit.cfg` | violation | `CleanExit`. The withdraw step's amount dropdown is missing (line 222). Its except clause evaluates `str(amount_value)`, a name defined nowhere. The resulting `NameError` ends the script with a traceback: no `print_log`, and no `abort`, so the browser is never quit (and, without `--with-head`, neither is the virtual display). |
| Configure | `Configure.cfg` | pass | 6,400 host and interpreter combinations and 17 command lines (283,296 states). `ConfigMkSound`: `config.mk` is written only when every tool is found, node is at least 12, and every required option was given. It then holds the given or default prefix, every added tool's path, and every option's value or default, in call order. Also `TypeOK`. |

### Bounds and fairness

Four symbols are enough for every rule of the modelled table to fire:

- `type x =` opens the type-alias context;
- `x :` followed by a name opens `typeexp`;
- `/x/` is a regex literal;
- `(/` is a bad regex;
- `//` followed by text and a newline is a comment;
- `/*` closed by `*/` is a block comment;
- `===`, `||` and `|=` are the long operators.

Deeper nesting cannot occur, because no pushed state pushes again. `TypeOK`
checks this bound.

`Terminates` assumes weak fairness of `Step` and `NoRuleMatches`. The lexer is
one sequential loop: as long as the text is not exhausted, exactly one of
these actions is enabled, and the loop takes it.

`LexerCore` uses `VIEW LexView`, which is the state without `out`.
- Every zero-width rule is a plain `Text` action. Each turn of a zero-width
  cycle therefore yields an empty token, so `out` keeps growing.
- Without the view, such a cycle would be an infinite state space instead of
  a lasso TLC can report.
- No action reads `out`, so leaving it out of the fingerprint is sound for a
  property about `done`. The lexer is deterministic, so `out` is a function
  of the text and the position, and the invariants lose nothing either.

For the pipeline, comment texts of up to 4 symbols over
`` ` < > _ x X SP NL & `` reach every split the filter makes:

- a bare link;
- text before and after a link;
- two adjacent links;
- a link next to a literal.

Links with a `<target>` and literals need 5 to 9 symbols. They come from
`LinkChunks`, and every ordered pair of chunks is a comment text. This covers
an explicit target, a trailing underscore, a link across a newline, a literal,
and text with a character HTML escapes.

The registries make every lookup outcome occur:

- `x` is both a ts object and a label, which exercises the precedence;
- `X` is found only through lower-casing;
- `xx` is only an anonymous label;
- `string` is a builtin that is also registered;
- `1` is a number;
- `<` and `&` are unresolved.

There is no liveness property for the pipeline. Its runs fix the order of
the generators completely, so the only freedom TLC has is the choice of
input.

The build runs use two documents and two names, which is enough for every
case the properties are about:

- a duplicate definition;
- a definition that moves or disappears;
- a forward reference;
- a failing directive in one document after the other was read.

Three edits allow a full build, an edit, an incremental rebuild, and two
more edits after it: a definition can move to the other document and back,
and both documents can be edited between two builds.

The build runs check safety and refinement only, so `TsBuild` has no
fairness: `TsRegistry`'s `Spec` has none either.

The configure hosts give each tool both outcomes. The versions sit on both
sides of each bound: node 12, Python 3.7, and 3.10 against 3.7 as strings.

`CHECK_DEADLOCK FALSE` holds for every run, and each one really does stop:

- the lexer stops once `done` holds, because its generator has returned;
- the pipeline stops once `_format_lines` has returned;
- a build stops when nothing is outdated and no edit is left;
- `configure` stops once it has exited or written `config.mk`;
- the wallet script stops once it has exited.

The wallet script is checked for every combination of its three flags and
every first failing probe of every step, with and without a matching amount
entry. That is all of its control flow: no step loops, and nothing in the
script runs concurrently.

## What is not modelled

- **Directive output.** The output node of `ts:def` (line numbers, classes,
  highlight arguments) is not modelled. `resolve_any_xref` is not modelled
  either, nor is `resolve_xref`: the `:ts:type:` role goes through Sphinx's
  own cross-reference machinery, while the names in tsref blocks, which
  `TsBuild` models, go through the formatter.
- **Multi-line links.** When a link's text spans a line break inside
  `/* */`, `_format_lines` splits it into one full link per line, each with
  the raw newline in its caption. An earlier run (`AtMostOneLinkPerXref`)
  found this, and it was reproduced in Python. It is no longer a run of its
  own and is kept as a hazard in `PROJECT.json`.
- **Blocks from included files without a source suffix.** With Element
  locations, such a block is written with no links and no warnings. Spec
  sections 4 and 7 ask for a link or a warning. `TsBuild` models this, and
  the hazard at line 524 lists it, but no run states it as a property.
- **`highlight_block` with no location.** Such a call keeps the previous
  `docname`. Only `viewcode`'s pages make it, and they highlight no tsref
  block.
- **Other configure tools.** The checks of `PyToxTool`, `YapfTool`,
  `PyBabelTool`, `BrowserTool` and `EmscriptenTool` are not modelled.
  `configure.py` does not use them. They import Python modules or read the
  environment, and they follow the same existence-then-record pattern.
  `EmscriptenTool` cannot be added at all, and `Configure` models that.
- **Dashed option names and `EmscriptenTool`.** Both always fail, as
  `Configure` and `RunPlugin` model. No run shows it, because every run
  slot is taken. Both are listed as hazards.
- **Python 3.10 rejection.** `PythonTool` rejects Python 3.10 and later,
  because `'3.10.4' >= '3.7'` is false. It is listed as a hazard.
  `configure.py` in this repository does not add `PythonTool`.
- **Scripts and glue:**
  - `remote_reducer.py`: Flask handlers, each running a subprocess;
  - `chrome_responsive.py`: a straight-line script that opens a page and
    closes the browser. It has no branches and no state of its own;
  - in `withdraw_buy.py`: the pages' contents, the captcha arithmetic and
    the exceptions the script never catches (a driver that fails to start,
    a failed page load);
  - `setup()`: it only registers classes with Sphinx.
