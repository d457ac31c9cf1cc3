------------------------- MODULE MCTalerConfigure -------------------------
(* configure.py's tools (make, zip, find, jq; node >= 12; npm, pnpm), and *)
(* beyond them PythonTool, YarnTool and two Option plugins, one required  *)
(* and one with a default, on hosts that miss or have each tool at        *)
(* versions on both sides of each bound, run by interpreters below and at *)
(* 3.7, with and without each option on the command line.                *)
EXTENDS TalerConfigure

Posix(n) == [kind |-> "posix", name |-> n, spec |-> NoResult]

\* configure.py's calls: enable_prefix, enable_configmk, then add_tool for
\* each of its seven tools, in its order.
MCTools ==
  <<Posix("make"), Posix("zip"), Posix("find"), Posix("jq"),
    [kind |-> "node", name |-> "node", spec |-> <<"1", "2">>],
    [kind |-> "generic", name |-> "npm", spec |-> NoResult],
    [kind |-> "generic", name |-> "pnpm", spec |-> NoResult]>>

NoObj == [kind |-> "none"]
MCConfigurePy ==
  <<[op |-> "enable_prefix", arg |-> NoObj],
    [op |-> "enable_configmk", arg |-> NoObj]>>
  \o [k \in DOMAIN MCTools |-> [op |-> "add_tool", arg |-> MCTools[k]]]

Opt(n, req, def) ==
  [kind |-> "option", name |-> n, dashed |-> FALSE, required |-> req, default |-> def]

\* Calls configure.py does not make, appended so that the rest of the
\* BuildConfig API runs too: add_tool(PythonTool()), use(YarnTool()),
\* use(Option("currency")) and use(Option("mode", required=False,
\* default="dev")), as the configure.py of another Taler component would.
MCLibraryCalls ==
  <<[op |-> "add_tool", arg |-> [kind |-> "python", name |-> "python", spec |-> NoResult]],
    [op |-> "use", arg |-> [kind |-> "yarn", name |-> "yarn", spec |-> NoResult]],
    [op |-> "use", arg |-> Opt("currency", TRUE, NoArg)],
    [op |-> "use", arg |-> Opt("mode", FALSE, "dev")]>>

MCCalls == MCConfigurePy \o MCLibraryCalls

\* ./configure with and without each option the calls add, and once with
\* --with-yapf, which nothing adds.
OptNames == {"prefix", "with-yarn", "with-python", "currency", "mode", "with-yapf"}
MCCmdLines ==
  {[o \in OptNames |-> CASE o = "prefix"    -> p
                         [] o = "with-yarn" -> y
                         [] o = "currency"  -> c
                         [] o = "mode"      -> m
                         [] OTHER           -> NoArg] :
     p \in {NoArg, "/opt/taler"}, y \in {NoArg, "/opt/yarn"},
     c \in {NoArg, "KUDOS"}, m \in {NoArg, "prod"}}
  \cup {[o \in OptNames |-> IF o = "with-yapf" THEN "yapf" ELSE NoArg]}

Present == <<"1">>
MCHosts ==
  {("make" :> mk) @@ ("zip" :> Present) @@ ("find" :> Present) @@ ("jq" :> Present)
   @@ ("node" :> nd) @@ ("npm" :> np) @@ ("pnpm" :> Present) @@ ("python" :> py)
   @@ ("python3.7" :> s7) @@ ("python3.8" :> s8) @@ ("python3.9" :> s9)
   @@ ("yarn" :> yn[1]) @@ ("yarnpkg" :> yn[2]) :
     mk \in {Present, Absent},
     nd \in {Absent, <<"v", "1", "0", ".", "1", "9">>, <<"v", "1", "2", ".", "2", "2">>,
             <<"v", "1", "4", ".", "1", "7">>},
     np \in {Absent, <<"8", ".", "1">>},
     py \in {Absent, <<"2", ".", "7", ".", "1", "8">>, <<"3", ".", "6", ".", "9">>,
             <<"3", ".", "7", ".", "3">>, <<"3", ".", "1", "0", ".", "4">>},
     s7 \in {Present, Absent}, s8 \in {Present, Absent}, s9 \in {Present, Absent},
     yn \in {<<Absent, Absent>>, <<<<"1", ".", "2", "2">>, Absent>>, <<WrongYarn, Absent>>,
             <<WrongYarn, <<"1", ".", "2", "2">>>>, <<Absent, <<"1", ".", "2", "2">>>>}}

MCInterps == {<<3, 6>>, <<3, 7>>}
=============================================================================
