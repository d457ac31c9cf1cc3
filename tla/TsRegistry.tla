------------------------------ MODULE TsRegistry ------------------------------
(***************************************************************************)
(* What the ts domain's registry promises across builds, without the       *)
(* document-by-document steps of Sphinx (spec sections 3 and 5).  A build  *)
(* takes in every source changed since the last one in a single step: a    *)
(* name that some of those sources define gets one of them as its entry,  *)
(* any other name keeps the entry it had.  Only then are the changed       *)
(* documents written, one at a time, each linking the names it references  *)
(* to their entries.  Entries are never removed.  A build that fails       *)
(* leaves no trace: it is not a step of this specification.                *)
(*                                                                         *)
(* TsBuild implements this specification (TsBuild!RegistryRefinement).     *)
(***************************************************************************)
CONSTANTS Docs, Names, Dirs, Refs

NoEntry == "none"

DefNames(S) == {x.name : x \in S}

VARIABLES
  defs,      \* document -> the ts:def directives of its source
  reg,       \* name -> the document registered for it, or NoEntry
  pending,   \* documents changed since the registry last took them in
  toWrite,   \* documents of the current build not yet written
  links      \* document -> <<name, target document>> links in its HTML

avars == <<defs, reg, pending, toWrite, links>>

Init ==
  /\ defs \in [Docs -> SUBSET Dirs]
  /\ reg = [n \in Names |-> NoEntry]
  /\ pending = Docs
  /\ toWrite = {}
  /\ links = [d \in Docs |-> {}]

Edit(d, S) ==
  /\ defs' = [defs EXCEPT ![d] = S]
  /\ pending' = pending \cup {d}
  /\ UNCHANGED <<reg, toWrite, links>>

\* The documents among R whose sources define n.
Definers(n, R) == {d \in R : n \in DefNames(defs[d])}

\* The read phase of a build, as one step, once the previous build has
\* written everything.
ReadAll ==
  /\ toWrite = {}
  /\ pending # {}
  /\ reg' \in [Names -> Docs \cup {NoEntry}]
  /\ \A n \in Names :
        IF Definers(n, pending) = {} THEN reg'[n] = reg[n]
                                     ELSE reg'[n] \in Definers(n, pending)
  /\ toWrite' = pending
  /\ pending' = {}
  /\ UNCHANGED <<defs, links>>

Write(d) ==
  /\ d \in toWrite
  /\ links' = [links EXCEPT ![d] = {<<n, reg[n]>> : n \in {m \in Refs[d] : reg[m] # NoEntry}}]
  /\ toWrite' = toWrite \ {d}
  /\ UNCHANGED <<defs, reg, pending>>

Next ==
  \/ \E d \in Docs, S \in SUBSET Dirs : Edit(d, S)
  \/ ReadAll
  \/ \E d \in Docs : Write(d)

Spec == Init /\ [][Next]_avars
=============================================================================
