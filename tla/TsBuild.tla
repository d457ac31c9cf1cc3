------------------------------- MODULE TsBuild -------------------------------
(***************************************************************************)
(* The ts domain's registry across Sphinx builds (typescriptdomain.py).    *)
(* Reading a document runs TypeScriptDefinition.run for each of its ts:def *)
(* directives, which registers the type in TypeScriptDomain.objects.       *)
(* Writing a document resolves the type names of its tsref blocks against *)
(* objects through the formatter (the :ts:type: role's resolve_xref is not *)
(* modelled).  Sphinx reads every outdated document before it writes       *)
(* any, pickles the environment (objects included) between the two phases, *)
(* and at the next build re-reads only the documents whose source changed, *)
(* after calling the domain's clear_doc on each: the domain has none, so   *)
(* the base class's does nothing.                                          *)
(*                                                                         *)
(* A type's anchor is always "tsref-type-" + name, so an entry of objects  *)
(* is the defining document alone.  The std label maps of the formatter's  *)
(* fallback are left out: TsFormatter checks that order.                   *)
(*                                                                         *)
(* The names of tsref blocks are resolved from MyPygmentsBridge.docname,   *)
(* which highlight_block sets from the location Sphinx passes: a           *)
(* (docname, line) tuple, or the literal_block node, whose source file     *)
(* path2doc maps back to a document: the document itself, the included   *)
(* file's own page for an included .rst file, None for an included file    *)
(* without a source suffix.  Sphinx reads outdated documents in sorted     *)
(* order; the model lets it read them in any order.                        *)
(***************************************************************************)
EXTENDS Naturals, Sequences, FiniteSets, FiniteSetsExt, SequencesExt

CONSTANTS
  Docs,       \* document names
  Names,      \* type names
  Dirs,       \* ts:def directives a source can hold: [name, opts]
  Blocks,     \* document -> its tsref blocks in order: [src, refs], src
              \* the document path2doc gives the block's file, or NoDoc
  Location,   \* what Sphinx passes highlight_block: "tuple" or "element"
  MaxEdits    \* bound on source edits between builds

\* objects.get(("type", name)) found nothing.
NoEntry == "none"

\* Options whose handling in run() calls parselinenos, dedent_lines or
\* container_wrapper, none of which the module imports.
Unimported == {"emphasize-lines", "dedent", "caption"}

DefNames(S) == {x.name : x \in S}

\* MyPygmentsBridge.docname before any highlight_block call.
NoDoc == "nodoc"

\* The bridge's docname after highlight_block for a block of document d
\* whose source file path2doc maps to src.  A tuple names the document
\* being written; an Element gives path2doc(node.source): d for d's own
\* text, and for a file pulled in with .. include:: that file's own
\* docname when it has a source suffix (another page), None otherwise.
HighlightDoc(d, src) == IF Location = "tuple" THEN d ELSE src

\* Highlighting the blocks of d in order with the registry objs, the
\* bridge starting at docname start: a name is linked from the bridge's
\* docname or warned about, and nothing at all happens to it while the
\* docname is None (_get_value returns the plain value first).
HighlightBlocks(d, objs, start) ==
  LET Step(acc, b) ==
        LET dn    == HighlightDoc(d, b.src)
            found == {n \in b.refs : objs[n] # NoEntry}
        IN [docname |-> dn,
            links   |-> IF dn = NoDoc THEN acc.links
                        ELSE acc.links \cup {<<n, objs[n], dn>> : n \in found},
            warned  |-> IF dn = NoDoc THEN acc.warned
                        ELSE acc.warned \cup {<<d, n>> : n \in b.refs \ found}]
  IN FoldLeft(Step, [docname |-> start, links |-> {}, warned |-> {}], Blocks[d])

\* Every name d's blocks reference.
AllRefs(d) == UNION {Blocks[d][k].refs : k \in DOMAIN Blocks[d]}

VARIABLES
  defs,      \* document -> the ts:def directives of its current source
  objects,   \* TypeScriptDomain.objects: name -> defining document
  saved,     \* objects as last pickled with the environment
  phase,     \* "idle", "reading", "writing", "done", "aborted"
  outdated,  \* documents changed since the environment last read them
  toRead,    \* documents this build still reads
  toWrite,   \* documents this build still writes
  written,   \* documents written in this build
  anchors,   \* document -> type anchors in its written HTML
  links,     \* document -> <<name, target, from document>> links in its HTML
  bridgeDoc, \* MyPygmentsBridge.docname
  warned,    \* <<document, name>> "not found" warnings of this build
  edits      \* source edits made so far

vars == <<defs, objects, saved, phase, outdated, toRead, toWrite,
          written, anchors, links, bridgeDoc, warned, edits>>

\* A fresh build: no pickled environment, every document is new.
Init ==
  /\ defs \in [Docs -> SUBSET Dirs]
  /\ objects = [n \in Names |-> NoEntry]
  /\ saved = objects
  /\ phase = "idle"
  /\ outdated = Docs
  /\ toRead = {} /\ toWrite = {} /\ written = {}
  /\ anchors = [d \in Docs |-> {}]
  /\ links = [d \in Docs |-> {}]
  /\ bridgeDoc = NoDoc
  /\ warned = {}
  /\ edits = 0

\* The author changes the ts:def directives of one document's source.
Edit(d, S) ==
  /\ phase \in {"idle", "done"}
  /\ edits < MaxEdits
  /\ S # defs[d]
  /\ defs' = [defs EXCEPT ![d] = S]
  /\ outdated' = outdated \cup {d}
  /\ phase' = "idle"
  /\ edits' = edits + 1
  /\ UNCHANGED <<objects, saved, toRead, toWrite, written, anchors, links, bridgeDoc, warned>>

\* MyHtmlBuilder.init_highlighter: each sphinx-build makes a new bridge,
\* whose docname is None.
BridgeInit == bridgeDoc' = NoDoc

\* sphinx-build starts: read and write what changed since the last build.
\* The builder's init_highlighter makes a fresh bridge.  env.clear_doc on
\* each outdated document reaches Domain.clear_doc, which TypeScriptDomain
\* does not override, so objects is left as it is.
StartBuild ==
  /\ phase \in {"idle", "done"}
  /\ outdated # {}
  /\ toRead' = outdated
  /\ toWrite' = outdated
  /\ phase' = "reading"
  /\ written' = {} /\ warned' = {}
  /\ BridgeInit
  /\ UNCHANGED <<defs, objects, saved, outdated, anchors, links, edits>>

\* Reading a document: TypeScriptDefinition.run for each ts:def, ending in
\* add_object, which overwrites whatever entry the name had.  After the
\* last document the environment is pickled and writing begins.
ReadDoc(d) ==
  /\ phase = "reading"
  /\ d \in toRead
  /\ \A x \in defs[d] : x.opts \cap Unimported = {}
  /\ objects' = [n \in Names |-> IF n \in DefNames(defs[d]) THEN d ELSE objects[n]]
  /\ toRead' = toRead \ {d}
  /\ IF toRead' = {}
       THEN /\ phase' = "writing" /\ saved' = objects' /\ outdated' = {}
       ELSE UNCHANGED <<phase, saved, outdated>>
  /\ UNCHANGED <<defs, toWrite, written, anchors, links, bridgeDoc, warned, edits>>

\* A ts:def with one of the Unimported options: run() raises NameError
\* before add_object, and sphinx-build stops without pickling.
ReadDocFails(d) ==
  /\ phase = "reading"
  /\ d \in toRead
  /\ \E x \in defs[d] : x.opts \cap Unimported # {}
  /\ phase' = "aborted"
  /\ UNCHANGED <<defs, objects, saved, outdated, toRead, toWrite,
                 written, anchors, links, bridgeDoc, warned, edits>>

\* Mutant: objects kept in the running process rather than in the
\* pickled environment data, so a failed build's entries survive.
RestartKeepsObjects ==
  /\ phase = "aborted"
  /\ objects' = objects
  /\ phase' = "idle"
  /\ toRead' = {} /\ toWrite' = {}
  /\ UNCHANGED <<defs, saved, outdated, written, anchors, links, bridgeDoc, warned, edits>>

\* The next sphinx-build starts from the environment pickled last: the
\* objects property reads env.domaindata, which is what Sphinx pickles.
Restart ==
  /\ phase = "aborted"
  /\ objects' = saved
  /\ phase' = "idle"
  /\ toRead' = {} /\ toWrite' = {}
  /\ UNCHANGED <<defs, saved, outdated, written, anchors, links, bridgeDoc, warned, edits>>

\* Mutant: a lookup that links without checking for a miss.
WriteDocNoMissCheck(d) ==
  /\ phase = "writing"
  /\ d \in toWrite
  /\ anchors' = [anchors EXCEPT ![d] = DefNames(defs[d])]
  /\ links' = [links EXCEPT ![d] = {<<n, objects[n], d>> : n \in AllRefs(d)}]
  /\ warned' = warned
  /\ bridgeDoc' = d
  /\ written' = written \cup {d}
  /\ toWrite' = toWrite \ {d}
  /\ phase' = IF toWrite' = {} THEN "done" ELSE "writing"
  /\ UNCHANGED <<defs, objects, saved, outdated, toRead, edits>>

\* Writing a document: each ts:def block carries its anchor; each tsref
\* block is highlighted, and _get_value looks every name up in objects: a
\* link to the defining document, or the "not found" warning.
WriteDoc(d) ==
  /\ phase = "writing"
  /\ d \in toWrite
  /\ anchors' = [anchors EXCEPT ![d] = DefNames(defs[d])]
  /\ LET h == HighlightBlocks(d, objects, bridgeDoc) IN
     /\ links' = [links EXCEPT ![d] = h.links]
     /\ warned' = warned \cup h.warned
     /\ bridgeDoc' = h.docname
  /\ written' = written \cup {d}
  /\ toWrite' = toWrite \ {d}
  /\ phase' = IF toWrite' = {} THEN "done" ELSE "writing"
  /\ UNCHANGED <<defs, objects, saved, outdated, toRead, edits>>

Next ==
  \/ \E d \in Docs, S \in SUBSET Dirs : Edit(d, S)
  \/ StartBuild
  \/ \E d \in Docs : ReadDoc(d) \/ ReadDocFails(d) \/ WriteDoc(d)
  \/ Restart

Spec == Init /\ [][Next]_vars

-----------------------------------------------------------------------------
(* Properties.                                                             *)

TypeOK ==
  /\ defs \in [Docs -> SUBSET Dirs]
  /\ objects \in [Names -> Docs \cup {NoEntry}]
  /\ saved \in [Names -> Docs \cup {NoEntry}]
  /\ phase \in {"idle", "reading", "writing", "done", "aborted"}
  /\ outdated \cup toRead \cup toWrite \cup written \subseteq Docs
  /\ anchors \in [Docs -> SUBSET Names]
  /\ links \in [Docs -> SUBSET (Names \X Docs \X Docs)]
  /\ bridgeDoc \in Docs \cup {NoDoc}
  /\ warned \subseteq Docs \X Names
  /\ edits \in 0..MaxEdits

\* Every link written in this build goes to a document whose source, as
\* read, defines the type, i.e. to an anchor that exists.  Domain.clear_doc
\* is the hook Sphinx gives a domain to forget a re-read document's
\* entries; this domain has none.
LinksToCurrentDefinitions ==
  phase \in {"writing", "done"} =>
    \A d \in written : \A l \in links[d] : l[1] \in DefNames(defs[l[2]])

\* Spec section 4: a link's URI is computed relative to the current page.
\* _get_value makes every href relative to the bridge's docname, which
\* highlight_block takes from path2doc of the block's source file.  For a
\* block of an included .rst file that Sphinx also builds as a page, that
\* is the included page, not the one whose HTML the link lands in.
LinksFromWrittenDoc == \A d \in Docs : \A l \in links[d] : l[3] = d

\* The names the abstract registry links in d: those of the blocks the
\* bridge gives a docname, all of them when Sphinx passes tuples.
LinkedRefs(d) ==
  UNION {Blocks[d][k].refs : k \in {k \in DOMAIN Blocks[d] :
                                       Location = "tuple" \/ Blocks[d][k].src # NoDoc}}

\* TsBuild implements the registry TsRegistry describes.  Before the read
\* phase ends, and in a build that failed, the registry is the one pickled
\* last and nothing is due to be written: the documents read so far are
\* invisible until the last one is read and the environment is pickled.
\* Together with the overwrite of add_object this is what makes the
\* entries of a build those of the documents it read, and a failed build
\* (a ts:def with an option whose handler is not imported raises
\* NameError) leave the next build the registry of the last good one.
Registry == INSTANCE TsRegistry WITH
  reg     <- IF phase \in {"reading", "aborted"} THEN saved ELSE objects,
  pending <- outdated,
  toWrite <- IF phase \in {"reading", "aborted"} THEN {} ELSE toWrite,
  links   <- [d \in Docs |-> {<<l[1], l[2]>> : l \in links[d]}],
  Refs    <- [d \in Docs |-> LinkedRefs(d)]

RegistryRefinement == Registry!Spec

\* A build that has started ends: every outdated document is read, the
\* phase switches to writing after the last one, and every document is
\* written, unless a directive stops the build.
NeverAborts == phase # "aborted"
=============================================================================
