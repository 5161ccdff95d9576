---------------------------- MODULE BakeDocument ----------------------------
(***************************************************************************)
(* A Bake file after parsing, and what bakeDocument.go reads from it: the  *)
(* targets a target inherits from, and the Dockerfile that it is built     *)
(* with.                                                                   *)
(*                                                                         *)
(* A document is a sequence of blocks.  A block has a type, a sequence of  *)
(* labels and a function from the names of its attributes to expressions.  *)
(* The parser keeps expressions as a tree, and the features of the server  *)
(* ask which node of the tree the cursor is in; a cursor is therefore the  *)
(* path to a node, and lines and columns are abstracted.                   *)
(***************************************************************************)
EXTENDS Naturals, FiniteSets, Sequences, SequencesExt

-----------------------------------------------------------------------------
(* The expressions of hclsyntax that the code distinguishes.  A string     *)
(* without interpolation is a Literal, "x${a}" a Template of several       *)
(* parts, "${a}" a Wrap, and target.t.a an AttributeRef.                   *)

Literal(s)          == [kind |-> "literal", text |-> s]
Number              == [kind |-> "number"]
Ref(v)              == [kind |-> "ref", name |-> v]
AttributeRef(t, a)  == [kind |-> "attributeRef", target |-> t, attribute |-> a]
Template(parts)     == [kind |-> "template", children |-> parts]
Wrap(e)             == [kind |-> "wrap", children |-> <<e>>]
Tuple(es)           == [kind |-> "tuple", children |-> es]
Conditional(c, t, f) == [kind |-> "conditional", children |-> <<c, t, f>>]
Binary(l, r, spaces) == [kind |-> "binary", children |-> <<l, r>>, spaces |-> spaces]
For(coll, cond)     == [kind |-> "for", children |-> <<coll, cond>>]
Call(f, args)       == [kind |-> "call", name |-> f, children |-> args]
Item(k, quoted, e)  == [key |-> k, quoted |-> quoted, value |-> e]
Object(items)       == [kind |-> "object", items |-> items]

Block(type, label, attrs) == [type |-> type, labels |-> <<label>>, attrs |-> attrs]

Has(block, attribute) == attribute \in DOMAIN block.attrs

Labelled(block, label) == Len(block.labels) > 0 /\ block.labels[1] = label

(* The index of the first block of a type with a label, 0 without one.     *)
FirstBlock(doc, type, label) ==
  SelectInSeq(doc, LAMBDA b : b.type = type /\ Labelled(b, label))

TargetLabels(doc) ==
  {doc[i].labels[1] : i \in {i \in DOMAIN doc : doc[i].type = "target" /\ doc[i].labels # <<>>}}

-----------------------------------------------------------------------------
Resolved(targets) == [ok |-> TRUE, targets |-> targets]
Unresolved        == [ok |-> FALSE, targets |-> <<>>]

(* findParentTargets: depth first, in the order of the inherits lists.  A  *)
(* target that was met before, on this branch or on another, a target that *)
(* does not exist and an entry that is not a plain string end the search.  *)
(* search[targets][t] is the search from t when targets have been found.   *)
VisitEntry(doc, search, found, entry) ==
  IF found.ok /\ entry.kind = "literal" /\ entry.text \in TargetLabels(doc)
  THEN search[found.targets][entry.text] ELSE Unresolved

(* A mutant: what one entry of a list adds is forgotten when the next one  *)
(* is visited.                                                             *)
VisitEntriesForgetful(doc, search, targets, entries) ==
  LET found[k \in 0 .. Len(entries)] ==
        IF k = 0 THEN Resolved(targets)
        ELSE VisitEntry(doc, search, [found[k - 1] EXCEPT !.targets = targets], entries[k])
  IN  found

VisitEntries(doc, search, targets, entries) ==
  LET found[k \in 0 .. Len(entries)] ==
        IF k = 0 THEN Resolved(targets) ELSE VisitEntry(doc, search, found[k - 1], entries[k])
  IN  found

SearchedFrom(doc, search, targets, target) ==
  LET block    == doc[FirstBlock(doc, "target", target)]
      inherits == block.attrs["inherits"]
      found    == Append(targets, target)
  IN  IF Contains(targets, target) THEN Unresolved
      ELSE IF ~Has(block, "inherits") THEN Resolved(found)
      ELSE IF inherits.kind # "tuple" THEN Unresolved
      ELSE VisitEntries(doc, search, found, inherits.children)[Len(inherits.children)]

FindParentTargets(doc) ==
  LET search[targets \in Seq(TargetLabels(doc))] ==
        [target \in TargetLabels(doc) |-> SearchedFrom(doc, search, targets, target)]
  IN  search

(* The target itself is the first that was found; the last takes its place *)
(* and the list is cut by one.                                             *)
ParentTargets(doc, target) ==
  LET i == FirstBlock(doc, "target", target)
      Others(found) ==
        IF found.ok THEN Resolved(Front(<<Last(found.targets)>> \o Tail(found.targets)))
        ELSE Unresolved
  IN  IF i = 0 \/ ~Has(doc[i], "inherits") THEN Resolved(<<>>)
      ELSE Others(FindParentTargets(doc)[<<>>][target])

-----------------------------------------------------------------------------
(* What github.com/docker/buildx/bake makes of the file.  It evaluates     *)
(* variables, and merges the attributes of the parents, a later one over   *)
(* an earlier one and the target's own over both.                          *)
ValueOf(doc, e) ==
  LET ref == IF e.kind = "wrap" THEN e.children[1] ELSE e
      Default(v) == IF /\ v # 0 /\ Has(doc[v], "default")
                       /\ doc[v].attrs["default"].kind = "literal"
                    THEN doc[v].attrs["default"].text ELSE ""
  IN  CASE e.kind = "literal" -> e.text
        [] ref.kind = "ref"   -> Default(FirstBlock(doc, "variable", ref.name))
        [] OTHER              -> ""

BakeParents(doc, i) ==
  IF Has(doc[i], "inherits") /\ doc[i].attrs["inherits"].kind = "tuple"
  THEN [k \in DOMAIN doc[i].attrs["inherits"].children |->
          ValueOf(doc, doc[i].attrs["inherits"].children[k])]
  ELSE <<>>

(* The value of an attribute of a target, some targets having been visited:*)
(* its own, or that of the last parent that has one.                       *)
MergedValue(doc, attribute, merged, visited, target) ==
  LET i         == FirstBlock(doc, "target", target)
      parents   == BakeParents(doc, i)
      Theirs(k) == merged[visited \union {target}][parents[k]]
      given     == {k \in DOMAIN parents :
                      parents[k] \in TargetLabels(doc) \ (visited \union {target}) /\ Theirs(k) # ""}
  IN  IF Has(doc[i], attribute) THEN ValueOf(doc, doc[i].attrs[attribute])
      ELSE IF given # {} THEN Theirs(Max(given)) ELSE ""

Merged(doc, attribute) ==
  LET merged[visited \in SUBSET TargetLabels(doc)] ==
        [target \in TargetLabels(doc) \ visited |-> MergedValue(doc, attribute, merged, visited, target)]
  IN  merged

Given(doc, i, attribute) == Merged(doc, attribute)[{}][doc[i].labels[1]]

(* extractBakeOutput: nothing is kept of a file with a block that has not  *)
(* exactly one label, nor of one that Bake does not read.                  *)
BakeOutput(doc) ==
  \A i \in DOMAIN doc :
     /\ Len(doc[i].labels) = 1
     /\ doc[i].type = "target" =>
          \A p \in ToSet(BakeParents(doc, i)) : FirstBlock(doc, "target", p) # 0

-----------------------------------------------------------------------------
IsTemplate(e) == e.kind \in {"literal", "template"}
Parts(e)      == IF e.kind = "literal" THEN 1 ELSE Len(e.children)

(* resolvableDockerfile: an attribute that is not one string of one part   *)
(* makes the path unresolvable, context first.                             *)
ResolvableDockerfile(block) ==
  LET Plain(attribute) == LET e == block.attrs[attribute] IN IsTemplate(e) /\ Parts(e) = 1
  IN  CASE Has(block, "context") /\ ~Plain("context")       -> "Unresolvable"
        [] Has(block, "dockerfile") /\ ~Plain("dockerfile") -> "Unresolvable"
        [] Has(block, "context") \/ Has(block, "dockerfile") -> "Resolvable"
        [] OTHER                                            -> "Undefined"

UnresolvableParent(doc, i) ==
  LET parents == ToSet(ParentTargets(doc, doc[i].labels[1]).targets)
  IN  /\ ResolvableDockerfile(doc[i]) = "Undefined"
      /\ \E j \in DOMAIN doc : /\ doc[j].labels[1] \in parents
                               /\ ResolvableDockerfile(doc[j]) = "Unresolvable"

(* types.Concatenate: a path below a folder, where a context that is not   *)
(* given is ".", the folder of the document that all paths start from.     *)
Joined(folder, path) == IF folder \in {"", "."} THEN path ELSE folder \o "/" \o path

BuildAttributes == {"context", "dockerfile", "dockerfile-inline"}

(* A mutant that looks for the Dockerfile in the folder of the document.   *)
DockerfileInFolder(doc, i) ==
  LET Path(given) ==
        IF given["dockerfile-inline"] # "" THEN ""
        ELSE IF given["dockerfile"] = "" THEN "Dockerfile" ELSE given["dockerfile"]
  IN  IF \/ Len(doc[i].labels) # 1 \/ ~BakeOutput(doc)
         \/ doc[i].type # "target" \/ UnresolvableParent(doc, i)
      THEN ""
      ELSE Path([a \in BuildAttributes |-> Given(doc, i, a)])

(* DockerfileForTarget: "" is no path, be it for an error or because a     *)
(* parent names it with a variable.  The second result of ParentTargets is *)
(* not looked at: parents that cannot be listed are no parents.            *)
DockerfileForTarget(doc, i) ==
  LET Path(given) ==
        IF given["dockerfile-inline"] # "" THEN ""
        ELSE Joined(given["context"],
                    IF given["dockerfile"] = "" THEN "Dockerfile" ELSE given["dockerfile"])
  IN  IF \/ Len(doc[i].labels) # 1 \/ ~BakeOutput(doc)
         \/ doc[i].type # "target" \/ UnresolvableParent(doc, i)
      THEN ""
      ELSE Path([a \in BuildAttributes |-> Given(doc, i, a)])

=============================================================================
