--------------------------- MODULE TalerConfigure ---------------------------
(***************************************************************************)
(* The configure driver of build-system/taler-build-scripts              *)
(* (talerbuildconfig.py) as configure.py uses it, after pyvercheck.py has  *)
(* checked the python3 that runs both: the interpreter guard run when the  *)
(* module is imported, configure.py's calls that set up a BuildConfig,    *)
(* then BuildConfig.run: argparse, each plugin's run, each tool's check in *)
(* the order it was added, stopping at the first failure with exit status  *)
(* 1, reporting, and writing config.mk.                                    *)
(*                                                                         *)
(* The host is chosen in Init: which executables exist and the version     *)
(* each prints.  A version is a sequence of characters ("3.10.4" is       *)
(* <<"3", ".", "1", "0", ".", "4">>), so that the string comparisons of    *)
(* PythonTool can be evaluated as Python evaluates them.                   *)
(***************************************************************************)
EXTENDS Naturals, Sequences, SequencesExt

CONSTANTS
  Calls,     \* configure.py's calls on BuildConfig, in order: [op, arg]
  CmdLines,  \* command lines: option name -> value given, or NoArg
  Hosts,     \* possible hosts: executable name -> version it prints, or Absent
  Interps    \* possible <<major, minor>> of the interpreter running configure.py

Absent == <<"absent">>
NoResult == <<"none">>

\* An option not on the command line, and --prefix's default.
NoArg == "noarg"
DefaultPrefix == "/usr/local"

\* The kinds of the Tool subclasses, and of the Plugin subclasses.
\* EmscriptenTool ("emscripten") subclasses neither.
ToolKinds == {"posix", "generic", "node", "python", "yarn"}
PluginKinds == {"option"}

\* The options an object's args(parser) adds: --with-python, --with-yarn,
\* and an Option's --optname.
ArgsOf(x) ==
  CASE x.kind = "python" -> {"with-python"}
    [] x.kind = "yarn"   -> {"with-yarn"}
    [] x.kind = "option" -> {x.name}
    [] OTHER             -> {}

\* What `yarn help` prints when the yarn found is cmdtest's.
WrongYarn == <<"cmdtest">>

\* Character order of the dot, the digits and "v", as in ASCII.
Chars == <<".", "0", "1", "2", "3", "4", "5", "6", "7", "8", "9", "v">>
Ord(c) == SelectInSeq(Chars, LAMBDA x : x = c)

\* str.__lt__ on version strings: lexicographic by character code, a
\* proper prefix being smaller.
RECURSIVE StrLess(_, _)
StrLess(a, b) ==
  IF b = <<>> THEN FALSE
  ELSE IF a = <<>> THEN TRUE
  ELSE IF Ord(Head(a)) # Ord(Head(b)) THEN Ord(Head(a)) < Ord(Head(b))
  ELSE StrLess(Tail(a), Tail(b))
StrGeq(a, b) == ~StrLess(a, b)

\* The reference: a version as its dot-separated numbers, compared
\* component by component (what semver and the Python docs mean).
Digit(c) == Ord(c) - 2
AddChar(ns, c) ==
  IF c = "." THEN Append(ns, 0)
  ELSE [ns EXCEPT ![Len(ns)] = @ * 10 + Digit(c)]
Fields(s) == FoldLeft(AddChar, <<0>>, s)
RECURSIVE NumLess(_, _)
NumLess(a, b) ==
  IF b = <<>> THEN FALSE
  ELSE IF a = <<>> THEN TRUE
  ELSE IF Head(a) # Head(b) THEN Head(a) < Head(b)
  ELSE NumLess(Tail(a), Tail(b))
NumGeq(a, b) == ~NumLess(Fields(a), Fields(b))

\* str.lstrip("v").
RECURSIVE StripV(_)
StripV(s) == IF s # <<>> /\ Head(s) = "v" THEN StripV(Tail(s)) ELSE s

\* NodeJsTool's version: tool_version("node --version").lstrip("v").
\* Mutant: kept as node prints it.
NodeVersionRaw(v) == v
NodeVersion(v) == StripV(v)

\* PythonTool's suffixed names, in the dict's order.
PySuffixed ==
  <<<<<<"3", ".", "7">>, "python3.7">>, <<<<"3", ".", "8">>, "python3.8">>,
    <<<<"3", ".", "9">>, "python3.9">>>>

\* YarnTool.check: the --with-yarn value, with no version, when given;
\* else "yarn" unless `yarn help` shows it is cmdtest's (False, without
\* trying yarnpkg), else "yarnpkg"; versions from "--version".
YarnCheck(host, args) ==
  IF args["with-yarn"] # NoArg THEN <<args["with-yarn"], NoResult>>
  ELSE IF host["yarn"] # Absent
       THEN IF host["yarn"] = WrongYarn THEN NoResult ELSE <<"yarn", host["yarn"]>>
  ELSE IF host["yarnpkg"] # Absent THEN <<"yarnpkg", host["yarnpkg"]>>
  ELSE NoResult

\* Tool.check for each kind: the <<path, version>> it records with
\* _set_tool, or NoResult for a falsy return.
\*   posix:   existence(name), no version.
\*   generic: existence(name), version = output of "name -v".
\*   node:    existence("node"); the too-old test compares the output of
\*            `node -p 'process.exit(...)'` with "", and process.exit
\*            prints nothing, so it never fails; version = "node
\*            --version" with its leading "v" stripped.
\*   python:  "python" if it exists and its version >= '3.7' as strings,
\*            else the first suffixed python3.x that exists, with x's key
\*            as its version; None when neither.
\*   yarn:    YarnCheck.
Check(t, host, args) ==
  LET Exists(n) == host[n] # Absent    \* existence(n): find_executable found it
      version   == IF t.kind = "node" THEN NodeVersion(host[t.name]) ELSE host[t.name]
  IN IF t.kind \in {"posix", "generic", "node"}
     THEN IF ~Exists(t.name) THEN NoResult
          ELSE <<t.name, IF t.kind = "posix" THEN NoResult ELSE version>>
     ELSE IF t.kind = "yarn" THEN YarnCheck(host, args)
     ELSE IF Exists("python") /\ StrGeq(host["python"], <<"3", ".", "7">>)
          THEN <<"python", host["python"]>>
          ELSE LET found == SelectSeq(PySuffixed, LAMBDA p : Exists(p[2]))
               IN IF found = <<>> THEN NoResult ELSE <<found[1][2], found[1][1]>>

\* semver.SimpleSpec(">=N").match(semver.Version(version)).
SpecMatch(spec, version) == NumGeq(version, spec)

VARIABLES
  host,      \* the machine configure runs on
  interp,    \* the interpreter running configure.py
  stage,     \* "vercheck", "import", "setup", "plugins", "check", "exited", "done"
  j,         \* index in Calls of configure.py's next call on BuildConfig
  tools,     \* BuildConfig.tools, in the order they were added
  plugins,   \* BuildConfig.plugins, in the order they were added
  prefixOn,  \* BuildConfig.prefix_enabled
  configmkOn,\* BuildConfig.configmk_enabled
  args,      \* BuildConfig.args: option name -> parsed value, NoArg for None
  pi,        \* index in plugins of the next plugin to run
  optArgs,   \* Option._arg of each Option, by option name
  i,         \* index in tools of the next tool to check
  results,   \* BuildConfig.tool_results: tool name -> <<path, version>>
  exitCode,  \* sys.exit status, 0 when run() returned
  configmk,  \* the key = value lines written to config.mk, <<>> if none
  makefile   \* configure.py has copied the Makefile

vars == <<host, interp, stage, j, tools, plugins, prefixOn, configmkOn, args, pi,
          optArgs, i, results, exitCode, configmk, makefile>>

\* The objects configure.py passes to add_tool or use.
Added == {Calls[k].arg : k \in {k \in DOMAIN Calls : Calls[k].op \in {"add_tool", "use"}}}
AddedNames == {x.name : x \in {x \in Added : x.kind \in ToolKinds}}
OptionNames == {x.name : x \in {x \in Added : x.kind \in PluginKinds}}

\* BuildConfig() and the interpreter's start.
Init ==
  /\ host \in Hosts
  /\ interp \in Interps
  /\ stage = "vercheck"
  /\ j = 1 /\ tools = <<>> /\ plugins = <<>>
  /\ prefixOn = FALSE /\ configmkOn = FALSE
  /\ args = [o \in {} |-> NoArg]
  /\ pi = 1 /\ optArgs = [o \in OptionNames |-> NoArg]
  /\ i = 1
  /\ results = [t \in AddedNames |-> NoResult]
  /\ exitCode = 0
  /\ configmk = <<>> /\ makefile = FALSE

\* Variables the steps before run() leave alone.
runVars == <<args, pi, optArgs, i, results, configmk, makefile>>

\* pyvercheck.py: major < 3 or minor < 7 exits 1.
PyVerCheck ==
  /\ stage = "vercheck"
  /\ LET ok == ~(interp[1] < 3 \/ interp[2] < 7)
     IN /\ stage' = IF ok THEN "import" ELSE "exited"
        /\ exitCode' = IF ok THEN 0 ELSE 1
  /\ UNCHANGED <<host, interp, j, tools, plugins, prefixOn, configmkOn, runVars>>

\* import talerbuildconfig: Python 3.7 or later (lines 24-27), then
\* configure.py's serialversion test, which version 2 passes.
Import ==
  /\ stage = "import"
  /\ LET ok == interp[1] = 3 /\ interp[2] >= 7
     IN /\ stage' = IF ok THEN "setup" ELSE "exited"
        /\ exitCode' = IF ok THEN 0 ELSE 1
  /\ UNCHANGED <<host, interp, j, tools, plugins, prefixOn, configmkOn, runVars>>

\* configure.py's next call: enable_prefix, enable_configmk, add_tool (a
\* Tool is appended, anything else raises) or use (a Plugin or a Tool is
\* appended, anything else raises).  An exception nothing catches ends
\* configure.py with status 1.
Configure ==
  /\ stage = "setup" /\ j <= Len(Calls)
  /\ LET c        == Calls[j]
         adding   == c.op \in {"add_tool", "use"}
         isTool   == adding /\ c.arg.kind \in ToolKinds
         isPlugin == c.op = "use" /\ c.arg.kind \in PluginKinds
     IN /\ prefixOn' = (prefixOn \/ c.op = "enable_prefix")
        /\ configmkOn' = (configmkOn \/ c.op = "enable_configmk")
        /\ tools' = IF isTool THEN Append(tools, c.arg) ELSE tools
        /\ plugins' = IF isPlugin THEN Append(plugins, c.arg) ELSE plugins
        /\ IF adding /\ ~isTool /\ ~isPlugin
             THEN stage' = "exited" /\ exitCode' = 1
             ELSE UNCHANGED <<stage, exitCode>>
  /\ j' = j + 1
  /\ UNCHANGED <<host, interp, runVars>>

\* The options argparse knows: --prefix when enabled, then what each
\* tool's and each plugin's args(parser) adds.
KnownOpts ==
  (IF prefixOn THEN {"prefix"} ELSE {})
  \cup UNION {ArgsOf(tools[k]) : k \in DOMAIN tools}
  \cup UNION {ArgsOf(plugins[k]) : k \in DOMAIN plugins}

\* run() parses the command line a: an option argparse does not know
\* exits 2; otherwise every known option gets its value or its default,
\* /usr/local for --prefix and None for the others.
ParseArgs(a) ==
  /\ stage = "setup" /\ j > Len(Calls)
  /\ IF \E o \in DOMAIN a : a[o] # NoArg /\ o \notin KnownOpts
       THEN /\ stage' = "exited" /\ exitCode' = 2 /\ UNCHANGED args
       ELSE /\ stage' = IF plugins = <<>> THEN "check" ELSE "plugins"
            /\ args' = [o \in KnownOpts |->
                          IF o = "prefix" /\ a[o] = NoArg THEN DefaultPrefix ELSE a[o]]
            /\ UNCHANGED exitCode
  /\ UNCHANGED <<host, interp, j, tools, plugins, prefixOn, configmkOn, pi, optArgs,
                 i, results, configmk, makefile>>

\* Option.run for the next plugin: getattr(args, optname), which raises
\* AttributeError for a name with a dash (argparse stores it under an
\* underscore); a missing required option exits 1, a missing optional
\* one takes its default.
RunPlugin ==
  /\ stage = "plugins" /\ pi <= Len(plugins)
  /\ LET p == plugins[pi] IN
     IF p.dashed \/ (args[p.name] = NoArg /\ p.required)
       THEN /\ stage' = "exited" /\ exitCode' = 1 /\ UNCHANGED <<pi, optArgs>>
       ELSE /\ optArgs' = [optArgs EXCEPT ![p.name] =
                             IF args[p.name] = NoArg THEN p.default ELSE args[p.name]]
            /\ pi' = pi + 1
            /\ stage' = IF pi = Len(plugins) THEN "check" ELSE stage
            /\ UNCHANGED exitCode
  /\ UNCHANGED <<host, interp, j, tools, plugins, prefixOn, configmkOn, args, i,
                 results, configmk, makefile>>

\* Everything but the tool loop's own variables.
checkVars == <<host, interp, j, tools, plugins, prefixOn, configmkOn, args, pi, optArgs>>

\* The loop of run() over the tools: a falsy check prints the error and
\* exits 1; a tool with a version_spec whose recorded version does not
\* match exits 1 after _set_tool has run.
ToolMissing ==
  /\ stage = "check" /\ i <= Len(tools)
  /\ Check(tools[i], host, args) = NoResult
  /\ stage' = "exited" /\ exitCode' = 1
  /\ UNCHANGED <<checkVars, i, results, configmk, makefile>>

\* Mutant: the version_spec test left out.
ToolFoundNoSpec ==
  /\ stage = "check" /\ i <= Len(tools)
  /\ Check(tools[i], host, args) # NoResult
  /\ results' = [results EXCEPT ![tools[i].name] = Check(tools[i], host, args)]
  /\ i' = i + 1
  /\ UNCHANGED <<checkVars, stage, exitCode, configmk, makefile>>

ToolFound ==
  /\ stage = "check" /\ i <= Len(tools)
  /\ LET r == Check(tools[i], host, args) IN
     /\ r # NoResult
     /\ results' = [results EXCEPT ![tools[i].name] = r]
     /\ IF tools[i].spec = NoResult \/ SpecMatch(tools[i].spec, r[2])
          THEN /\ i' = i + 1 /\ UNCHANGED <<stage, exitCode>>
          ELSE /\ stage' = "exited" /\ exitCode' = 1 /\ UNCHANGED i
  /\ UNCHANGED <<checkVars, configmk, makefile>>

\* All tools checked: the "found" report, then, when enabled, config.mk:
\* the prefix line, one line per tool with its path from tool_results,
\* and each plugin's get_configmk, opt_<name> = its _arg.  run()
\* returns and configure.py copies the Makefile.
WriteConfigMk ==
  /\ stage = "check" /\ i > Len(tools)
  /\ configmk' = IF ~configmkOn THEN <<>>
                 ELSE (IF prefixOn THEN <<<<"prefix", args["prefix"]>>>> ELSE <<>>)
                      \o [k \in DOMAIN tools |-> <<tools[k].name, results[tools[k].name][1]>>]
                      \o [k \in DOMAIN plugins |->
                            <<"opt_" \o plugins[k].name, optArgs[plugins[k].name]>>]
  /\ makefile' = TRUE
  /\ stage' = "done"
  /\ UNCHANGED <<checkVars, i, results, exitCode>>

Next ==
  \/ PyVerCheck \/ Import \/ Configure \/ \E a \in CmdLines : ParseArgs(a)
  \/ RunPlugin \/ ToolMissing \/ ToolFound \/ WriteConfigMk

Spec == Init /\ [][Next]_vars

-----------------------------------------------------------------------------
(* Properties.                                                             *)

Version == Seq({".", "0", "1", "2", "3", "4", "5", "6", "7", "8", "9"})

TypeOK ==
  /\ stage \in {"vercheck", "import", "setup", "plugins", "check", "exited", "done"}
  /\ j \in 1..(Len(Calls) + 1)
  /\ pi \in 1..(Len(plugins) + 1)
  /\ i \in 1..(Len(tools) + 1)
  /\ \A n \in DOMAIN results :
        results[n] = NoResult \/ results[n][2] = NoResult \/ results[n][2] \in Version
  /\ exitCode \in {0, 1, 2}

\* The objects of configure.py's add_tool and use calls whose kind is in
\* kinds, in call order.
CalledOf(kinds) ==
  LET adds == SelectSeq(Calls, LAMBDA c : c.op \in {"add_tool", "use"} /\ c.arg.kind \in kinds)
  IN [k \in DOMAIN adds |-> adds[k].arg]
CalledTools == CalledOf(ToolKinds)
CalledOptions == CalledOf(PluginKinds)

\* config.mk is written only when every tool was found, each with a
\* version_spec at a version that satisfies it numerically (node >= 12
\* for configure.py: the node -p too-old test never fires, so this rests
\* on the semver test alone), and every required option was given.
\* After configure.py's calls and run(), config.mk (when enabled) is a
\* prefix line holding a directory given with --prefix or /usr/local, a
\* line for every tool added, in call order, naming the path its check
\* recorded, and a line for every Option, in call order, holding the
\* value given on the command line or else its default.
ConfigMkSound ==
  stage = "done" =>
    /\ exitCode = 0
    /\ \A k \in DOMAIN CalledTools :
          /\ results[CalledTools[k].name] # NoResult
          /\ CalledTools[k].spec # NoResult
               => NumGeq(results[CalledTools[k].name][2], CalledTools[k].spec)
    /\ \A k \in DOMAIN CalledOptions :
          CalledOptions[k].required => args[CalledOptions[k].name] # NoArg
    /\ configmkOn =>
         configmk = <<<<"prefix", args["prefix"]>>>>
                    \o [k \in DOMAIN CalledTools |->
                          <<CalledTools[k].name, results[CalledTools[k].name][1]>>]
                    \o [k \in DOMAIN CalledOptions |->
                          LET o == CalledOptions[k]
                          IN <<"opt_" \o o.name,
                               IF args[o.name] = NoArg THEN o.default ELSE args[o.name]>>]
    /\ args["prefix"] \in ({a["prefix"] : a \in CmdLines} \ {NoArg}) \cup {DefaultPrefix}

====
