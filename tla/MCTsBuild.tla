----------------------------- MODULE MCTsBuild -----------------------------
(* Two documents, two type names, a ts:def with no option or with a      *)
(* caption; every document references both names in its own blocks.    *)
EXTENDS TsBuild

MCDocs == {"a", "b"}
MCNames == {"T", "U"}
MCDirs == {[name |-> n, opts |-> o] : n \in MCNames, o \in {{}, {"caption"}}}
\* Document a opens with a block from an included file without a source
\* suffix that references T, then its own block references both names;
\* b has one block of its own referencing both.
MCBlocks ==
  [d \in MCDocs |->
     IF d = "a" THEN <<[src |-> NoDoc, refs |-> {"T"}], [src |-> "a", refs |-> MCNames]>>
                ELSE <<[src |-> "b", refs |-> MCNames]>>]
\* As MCBlocks, but the file a includes is b.rst, a page of its own.
MCBlocksIncludedPage ==
  [d \in MCDocs |->
     IF d = "a" THEN <<[src |-> "b", refs |-> {"T"}], [src |-> "a", refs |-> MCNames]>>
                ELSE <<[src |-> "b", refs |-> MCNames]>>]
=============================================================================
