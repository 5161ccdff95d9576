--------------------------- MODULE BakeReferences ---------------------------
(***************************************************************************)
(* What a Bake file names: definitions, the highlights of a target, the    *)
(* hints that show the default values of arguments, and the links, symbols *)
(* and lenses that lead a reader through the file.                         *)
(*                                                                         *)
(* A cursor is in the label of a block, or in an expression: path leads to *)
(* the node, with the number of the child at each level.  A call counts    *)
(* its name as its first child, an object each key and each value, and     *)
(* target.t.a its three names.  In a list or an object it may also be      *)
(* between the entries.                                                    *)
(***************************************************************************)
EXTENDS BakeDiagnostics

LabelCursor(i)              == [at |-> "label", block |-> i]
ExprCursor(i, attr, path)   == [at |-> "value", block |-> i, attribute |-> attr, path |-> path]

BlockLocation(i)            == [to |-> "block", block |-> i]
AttributeLocation(i, attr)  == [to |-> "attribute", block |-> i, attribute |-> attr]
InstructionLocation(f, k)   == [to |-> "instruction", path |-> f, line |-> k]
Nowhere                     == [to |-> "nowhere"]
Panic                       == [to |-> "panic"]

-----------------------------------------------------------------------------
(* CalculateBlockLocation and targetAttributeLocation: both read the first *)
(* label of every block of the type, and panic at one that has none.  A    *)
(* variable may also be an attribute outside of all blocks (top).          *)
CalculateBlockLocation(doc, top, type, name, variable) ==
  LET i == SelectInSeq(doc, LAMBDA b : b.type = type /\ (b.labels = <<>> \/ b.labels[1] = name))
  IN  CASE i # 0 /\ doc[i].labels = <<>>  -> Panic
        [] i # 0 /\ doc[i].labels # <<>>  -> BlockLocation(i)
        [] i = 0 /\ variable /\ name \in top -> AttributeLocation(0, name)
        [] OTHER                         -> Nowhere

TargetAttributeLocation(doc, target, attribute) ==
  LET i == SelectInSeq(doc, LAMBDA b : /\ b.type = "target"
                                       /\ \/ b.labels = <<>>
                                          \/ b.labels[1] = target /\ Has(b, attribute))
  IN  CASE i # 0 /\ doc[i].labels = <<>>  -> Panic
        [] i # 0 /\ doc[i].labels # <<>>  -> AttributeLocation(i, attribute)
        [] OTHER                         -> Nowhere

(* What a node names in the Dockerfile of its target: the FROM ... AS of a  *)
(* stage, or the first ARG with the name of a key.  A number is no string: *)
(* reading it as one panics.                                               *)
InstructionNamed(files, dockerfile, e, path) ==
  LET Names(n) == IF e.kind = "object"
                  THEN e.items[(path[1] + 1) \div 2].key \in ARGs(<<n>>)
                  ELSE IsStage(n, e.text) /\ n.words[2] = "AS"
      nodes == Nodes(files, dockerfile)
  IN  IF dockerfile = "" THEN Nowhere
      ELSE IF e.kind = "number" THEN Panic
      ELSE IF \E k \in DOMAIN nodes : Names(nodes[k])
      THEN InstructionLocation(dockerfile, SelectInSeq(nodes, Names))
      ELSE Nowhere

(* The node below e that the path goes to, if e has one there.  The key of *)
(* an object and the name of a call are part of it.                        *)
Child(e, path) ==
  CASE e.kind \in {"template", "wrap", "conditional", "binary", "for"} -> <<e.children[path[1]]>>
    [] e.kind = "object" /\ path[1] % 2 = 0 -> <<e.items[path[1] \div 2].value>>
    [] e.kind = "call" /\ path[1] > 1       -> <<e.children[path[1] - 1]>>
    [] OTHER                                -> <<>>

(* The last node that the path goes down to from e, and what is left of    *)
(* the path there.                                                         *)
NodeAt(e, path) ==
  LET way[n \in 0 .. Len(path)] ==
        IF n = 0 THEN <<e>>
        ELSE IF way[n - 1] = <<>> THEN <<>> ELSE Child(way[n - 1][1], SubSeq(path, n, Len(path)))
      last == Max({n \in 0 .. Len(path) : way[n] # <<>>})
  IN  [node |-> way[last][1], path |-> SubSeq(path, last + 1, Len(path))]

(* ResolveExpression, at the node that it descends to.  It does not look   *)
(* into a list that is not the value of the attribute itself.              *)
ResolveExpression(doc, top, files, i, attribute, at) ==
  LET e == at.node
      path == at.path
      InDockerfile ==
        \/ e.kind \in {"literal", "number"} /\ attribute \in {"no-cache-filter", "target"}
        \/ e.kind = "object" /\ path # <<>> /\ attribute = "args"
  IN  CASE i # 0 /\ doc[i].type = "target" /\ InDockerfile ->
             InstructionNamed(files, DockerfileForTarget(doc, i), e, path)
        [] e.kind = "ref" \/ (e.kind = "call" /\ path[1] = 1) ->
             CalculateBlockLocation(doc, top, IF e.kind = "ref" THEN "variable" ELSE "function",
                                    e.name, TRUE)
        [] e.kind = "attributeRef" /\ path[1] = 2 ->
             CalculateBlockLocation(doc, top, "target", e.target, FALSE)
        [] e.kind = "attributeRef" /\ path[1] = 3 ->
             TargetAttributeLocation(doc, e.target, e.attribute)
        [] OTHER -> Nowhere

(* ResolveAttributeValue: the entries of inherits and of a group's targets *)
(* are names of targets, other entries are expressions.                    *)
NamesTargets(block, attribute) ==
  \/ block.type = "target" /\ attribute = "inherits"
  \/ block.type = "group" /\ attribute = "targets"

Definition(doc, top, files, cursor) ==
  LET i == cursor.block
      e == doc[i].attrs[cursor.attribute]
      InEntry == e.kind = "tuple"
      entry == e.children[cursor.path[1]]
  IN  IF cursor.at = "label" THEN Nowhere
      ELSE IF InEntry /\ cursor.path = <<>> THEN Nowhere
      ELSE IF InEntry /\ entry.kind = "literal" /\ NamesTargets(doc[i], cursor.attribute)
      THEN CalculateBlockLocation(doc, top, "target", entry.text, FALSE)
      ELSE ResolveExpression(doc, top, files, i, cursor.attribute,
                             IF InEntry THEN NodeAt(entry, Tail(cursor.path)) ELSE NodeAt(e, cursor.path))

-----------------------------------------------------------------------------
(* DocumentHighlight: the target under the cursor, from its label or from  *)
(* an entry of a group, and all the places that name it.  The entries of   *)
(* inherits are not among them.                                            *)
GroupEntries(doc, i) ==
  IF doc[i].type = "group" THEN LiteralEntries(doc[i], "targets") ELSE {}

HighlightedTarget(doc, cursor) ==
  CASE cursor.at = "label" /\ doc[cursor.block].type = "target" -> doc[cursor.block].labels[1]
    [] cursor.at = "value" /\ doc[cursor.block].type = "group" /\ cursor.attribute = "targets"
         /\ cursor.path # <<>> /\ cursor.path[1] \in GroupEntries(doc, cursor.block) ->
         EntryText(doc[cursor.block], "targets", cursor.path[1])
    [] OTHER -> ""

(* A mutant that takes the entries of inherits instead of those of groups. *)
DocumentHighlightInherits(doc, cursor) ==
  LET target == HighlightedTarget(doc, cursor)
  IN  IF target = "" THEN {}
      ELSE {LabelCursor(i) : i \in {i \in DOMAIN doc : doc[i].type = "target" /\ Labelled(doc[i], target)}}
             \union UNION {{ExprCursor(i, "inherits", <<k>>) :
                              k \in {k \in LiteralEntries(doc[i], "inherits") :
                                       EntryText(doc[i], "inherits", k) = target}} : i \in DOMAIN doc}

DocumentHighlight(doc, cursor) ==
  LET target == HighlightedTarget(doc, cursor)
  IN  IF target = "" THEN {}
      ELSE {LabelCursor(i) : i \in {i \in DOMAIN doc : doc[i].type = "target" /\ Labelled(doc[i], target)}}
             \union UNION {{ExprCursor(i, "targets", <<k>>) :
                              k \in {k \in GroupEntries(doc, i) :
                                       EntryText(doc[i], "targets", k) = target}} : i \in DOMAIN doc}

-----------------------------------------------------------------------------
(* InlayHint: the keys of args that are shown a default value.  A key is   *)
(* compared with its quotes, so that one in quotes has none.               *)
InlayHints(doc, files) ==
  LET Defaults(nodes) ==
        {a.name : a \in {a \in UNION {ToSet(nodes[n].args) : n \in {n \in DOMAIN nodes : nodes[n].op = "ARG"}} :
                           a.default # ""}}
      Hinted(i, names) == {[block |-> i, item |-> k] :
                             k \in {k \in DOMAIN doc[i].attrs["args"].items :
                                      /\ ~doc[i].attrs["args"].items[k].quoted
                                      /\ doc[i].attrs["args"].items[k].key \in names}}
  IN  UNION {Hinted(i, Defaults(Nodes(files, DockerfileForTarget(doc, i)))) :
               i \in {i \in DOMAIN doc : /\ doc[i].type = "target" /\ doc[i].labels # <<>>
                                         /\ Has(doc[i], "args")
                                         /\ doc[i].attrs["args"].kind = "object"}}

-----------------------------------------------------------------------------
(* DocumentLink: a dockerfile attribute in quotes, which it takes for a    *)
(* path as it is written, with any interpolation.                          *)
DocumentLinks(doc) ==
  LET Quoted(i) == /\ Has(doc[i], "dockerfile")
                   /\ doc[i].attrs["dockerfile"].kind \in {"literal", "template", "wrap"}
  IN  {[block |-> i,
        path |-> IF doc[i].attrs["dockerfile"].kind = "literal"
                 THEN doc[i].attrs["dockerfile"].text ELSE "${}"] :
         i \in {i \in DOMAIN doc : Quoted(i)}}

(* DocumentSymbol: the blocks, by their label if they have one.            *)
DocumentSymbols(doc) ==
  {[block |-> i,
    name |-> IF doc[i].labels = <<>> THEN doc[i].type ELSE doc[i].labels[1],
    kind |-> IF doc[i].type = "variable" THEN "variable" ELSE "function"] : i \in DOMAIN doc}

(* CodeLens: each group and target can be built, checked and printed.      *)
CodeLenses(doc) ==
  {[block |-> i, call |-> c, target |-> doc[i].labels[1]] :
     i \in {i \in DOMAIN doc : doc[i].type \in {"group", "target"} /\ doc[i].labels # <<>>},
     c \in {"build", "check", "print"}}

=============================================================================
