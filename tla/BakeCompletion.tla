--------------------------- MODULE BakeCompletion ---------------------------
(***************************************************************************)
(* What the server offers to write in a Bake file: completion.go for the   *)
(* values of a target's attributes, inlineCompletion.go for whole targets. *)
(***************************************************************************)
EXTENDS BakeNavigation

(* The candidates of hcl-lang from the schema, and the files of a folder,  *)
(* are not looked into.                                                    *)
FromSchema         == [from |-> "schema"]
FromFolder(hide)   == [from |-> "folder", foldersOnly |-> hide]
Offer(labels)      == [from |-> "document", labels |-> labels]

(* The list of parents is offered in an empty list, or in one with at      *)
(* least one plain string.                                                 *)
InheritsCompletion(doc, i) ==
  LET e == doc[i].attrs["inherits"]
  IN  IF e.kind = "tuple" /\ (e.children = <<>> \/ LiteralEntries(doc[i], "inherits") # {})
      THEN Offer(TargetLabels(doc)) ELSE FromSchema

Stages(nodes) ==
  {nodes[k].words[3] : k \in {k \in DOMAIN nodes : nodes[k].op = "FROM" /\ Len(nodes[k].words) > 2}}

(* Unlike the diagnostics, which compare without regard to case, only ARG  *)
(* in capitals is found.                                                   *)
OfferedARGs(nodes) ==
  ARGs(SelectSeq(nodes, LAMBDA n : n.op = "ARG" /\ n.capitals))

(* A mutant that offers the arguments of every Dockerfile.                 *)
CompletionOfAllFiles(doc, files, cursor) ==
  IF /\ cursor.at = "value" /\ cursor.attribute = "args" /\ doc[cursor.block].type = "target"
     /\ cursor.path # <<>> /\ cursor.path[1] % 2 = 1
  THEN Offer(UNION {OfferedARGs(files[f]) : f \in DOMAIN files}) ELSE FromSchema

Completion(doc, files, cursor) ==
  LET i == cursor.block
      e == doc[i].attrs[cursor.attribute]
      OnKey == cursor.path # <<>> /\ cursor.path[1] % 2 = 1
      FromDockerfile(path) ==
        CASE path \notin DOMAIN files      -> FromSchema
          [] cursor.attribute = "target"   -> Offer(Stages(files[path]))
          [] e.kind = "object" /\ OnKey    -> Offer(OfferedARGs(files[path]))
          [] OTHER                         -> FromSchema
  IN  IF cursor.at = "label" \/ doc[i].type # "target" THEN FromSchema
      ELSE CASE cursor.attribute = "inherits" -> InheritsCompletion(doc, i)
             [] cursor.attribute = "network" ->
                  IF e.kind = "literal" THEN Offer(Networks) ELSE FromSchema
             [] cursor.attribute \in {"dockerfile", "context"} ->
                  IF e.kind = "literal" THEN FromFolder(cursor.attribute = "context") ELSE Offer({})
             [] cursor.attribute = "contexts" ->
                  IF e.kind = "object" /\ cursor.path # <<>> /\ ~OnKey
                  THEN FromFolder(TRUE) ELSE Offer({})
             [] cursor.attribute \in {"target", "args"} ->
                  FromDockerfile(DockerfileForTarget(doc, i))
             [] OTHER -> FromSchema

(* The label that takes the place of the node under the cursor.            *)
Accept(doc, cursor, label) ==
  LET Replace(e) ==
        CASE e.kind = "tuple" /\ cursor.path = <<>> -> Tuple(Append(e.children, Literal(label)))
          [] e.kind = "tuple" /\ cursor.path # <<>> ->
               Tuple([e.children EXCEPT ![cursor.path[1]] = Literal(label)])
          [] e.kind = "object" ->
               Object([e.items EXCEPT ![(cursor.path[1] + 1) \div 2].key = label])
          [] OTHER -> Literal(label)
  IN  [doc EXCEPT ![cursor.block].attrs =
         [@ EXCEPT ![cursor.attribute] = Replace(doc[cursor.block].attrs[cursor.attribute])]]

-----------------------------------------------------------------------------
(* shouldSuggest: the line of the cursor is outside of every block,        *)
(* attribute and comment, and does not hold a closing brace alone.         *)
Lines == {"blank", "block", "attribute", "comment", "brace", "beyond"}

ShouldSuggest(line) == line = "blank"

(* The stages that have a target by their name, or a target for them.      *)
PreexistingTargets(doc) ==
  TargetLabels(doc) \union
  {doc[i].attrs["target"].text :
     i \in {i \in DOMAIN doc : Has(doc[i], "target") /\ doc[i].attrs["target"].kind = "literal"}}

(* The first argument of each ARG before the first FROM, with the default  *)
(* that the last one of its name has.                                      *)
GlobalARGs(nodes) ==
  LET from == SelectInSeq(nodes, LAMBDA n : n.op = "FROM")
      before == SelectSeq(IF from = 0 THEN nodes ELSE SubSeq(nodes, 1, from - 1),
                          LAMBDA n : n.op = "ARG")
      Default(name) ==
        before[SelectLastInSeq(before, LAMBDA n : n.args[1].name = name)].args[1].default
  IN  [k \in DOMAIN before |->
         Item(before[k].args[1].name, FALSE, Literal(Default(before[k].args[1].name)))]

NamedStages(nodes) ==
  Stages(SelectSeq(nodes, LAMBDA n : n.op = "FROM" /\ Len(n.words) > 2 /\ n.words[2] = "AS"))

(* InlineCompletion: a target for each stage of the Dockerfile beside the  *)
(* document that has none yet.                                             *)
InlineCompletion(doc, files, line) ==
  LET nodes == Nodes(files, "Dockerfile")
      args == GlobalARGs(nodes)
      stages == {s \in NamedStages(nodes) : s \notin PreexistingTargets(doc)}
  IN  IF ~ShouldSuggest(line) THEN {}
      ELSE {Block("target", s,
                  IF args = <<>> THEN [target |-> Literal(s)]
                  ELSE [target |-> Literal(s), args |-> Object(args)]) : s \in stages}

=============================================================================
