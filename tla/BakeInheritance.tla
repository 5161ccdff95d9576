-------------------------- MODULE BakeInheritance ---------------------------
(***************************************************************************)
(* A Bake file whose targets inherit from each other while it is edited,   *)
(* and what the search for the parents of a target (bakeDocument.go) has   *)
(* to do with what is written in it.                                       *)
(***************************************************************************)
EXTENDS BakeDocument, Succession

CONSTANT InitialDoc   \* the Bake file that is opened

VARIABLE doc          \* the Bake file

(* What the parser returns, as far as the searches look at it: blocks with *)
(* labels, and attributes that may be lists or objects.                    *)
IsDocument(d) ==
  /\ d \in Seq(ToSet(d))
  /\ \A i \in DOMAIN d :
        /\ d[i].labels \in Seq(STRING)
        /\ \A a \in DOMAIN d[i].attrs :
             LET e == d[i].attrs[a]
             IN  /\ e.kind = "tuple" => e.children \in Seq(ToSet(e.children))
                 /\ e.kind = "object" => e.items \in Seq(ToSet(e.items))

ASSUME DocumentAssumption == IsDocument(InitialDoc)

InitDocument == doc = InitialDoc

ReplaceDocument == IsDocument(doc')

SpecDocument == InitDocument /\ [][ReplaceDocument]_doc

-----------------------------------------------------------------------------
Targets == TargetLabels(doc)

BlockOf(t) == doc[FirstBlock(doc, "target", t)]

(* The list of what a target inherits from, and the parents in it: the     *)
(* entries that are names of targets.                                      *)
InheritsEntries(t) ==
  IF Has(BlockOf(t), "inherits") /\ BlockOf(t).attrs["inherits"].kind = "tuple"
  THEN BlockOf(t).attrs["inherits"].children ELSE <<>>

NamesTarget(entry) == entry.kind = "literal" /\ entry.text \in Targets

Inherits ==
  [t \in Targets |->
     [k \in {k \in DOMAIN InheritsEntries(t) : NamesTarget(InheritsEntries(t)[k])} |-> InheritsEntries(t)[k].text]]

Ancestors(t) == Reached(Inherits, t)

(* A target whose list has names of targets only.                          *)
PlainInherits(t) ==
  Has(BlockOf(t), "inherits") =>
    /\ BlockOf(t).attrs["inherits"].kind = "tuple"
    /\ \A k \in DOMAIN InheritsEntries(t) : NamesTarget(InheritsEntries(t)[k])

InheritsAsTree(t) ==
  /\ \A u \in Ancestors(t) \union {t} : PlainInherits(u)
  /\ ReachesTree(Inherits, t)

(* The parents of a target are what one reaches along inherits, each once, *)
(* and they can be listed exactly when inheritance from it is a tree of    *)
(* plain names of targets: no cycle, no target reached twice               *)
(* (bakeHCLDocument.ParentTargets).                                        *)
ParentsFound(t) ==
  LET found == ParentTargets(doc, t)
  IN  /\ found.ok <=> InheritsAsTree(t)
      /\ found.ok => /\ ToSet(found.targets) = Ancestors(t)
                     /\ \A j, k \in DOMAIN found.targets : found.targets[j] = found.targets[k] => j = k

ParentsAreAncestors == IsDocument(doc) /\ \A t \in Targets : ParentsFound(t)

=============================================================================
