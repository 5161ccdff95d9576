-------------------------- MODULE ComposeCompletion -------------------------
(***************************************************************************)
(* Completion in a Compose file (completion.go), with nothing typed yet.   *)
(*                                                                         *)
(* A spot is a place for the cursor: a new item of a list, an empty value, *)
(* or a line of its own for a new entry of a map, at the path of that list,*)
(* value or map.                                                           *)
(***************************************************************************)
EXTENDS ComposeReferences, ComposeSchema

CONSTANTS
  RootSchema,   \* the schema of Compose files (external)
  Stages(_)     \* the build stages of the Dockerfile at a path

Spot(kind, path) == [kind |-> kind, path |-> path]

Spots(file) ==
  UNION {CASE x.node.kind = "list" -> {Spot("item", x.path)}
           [] x.node.kind = "map"  -> {Spot("entry", x.path)}
           [] x.node.kind = "null" -> {Spot("value", x.path)}
           [] OTHER -> {} : x \in Places(Root(file))}

(* constructCompletionNodePath, NodeStructure and walkNodes: the keys of   *)
(* the entries around the spot, down to a value with an anchor, and those  *)
(* that lead to the text in front of it.                                   *)
RECURSIVE KeysTo(_, _)
KeysTo(x, path) ==
  LET es == {e \in RawEntries(x) : IsPrefix(e.value.path, path)}
      is == {i \in RawItems(x) : IsPrefix(i.path, path)}
  IN  CASE es # {} -> LET e == CHOOSE e \in es : TRUE IN <<Text(e.key)>> \o KeysTo(e.value, path)
        [] is # {} -> KeysTo(CHOOSE i \in is : TRUE, path)
        [] OTHER -> <<>>

RECURSIVE LastKeys(_)
LastKeys(node) ==
  CASE node.kind = "map" /\ node.entries # <<>> ->
         <<Text(At(Last(node.entries).key, <<>>))>> \o LastKeys(Last(node.entries).value)
    [] node.kind = "list" /\ node.items # <<>> ->
         IF Last(node.items).kind = "map" THEN LastKeys(Last(node.items)) ELSE <<>>
    [] OTHER -> <<>>

InFront(file, spot) ==
  IF \E n \in 0 .. Len(spot.path) - 1 : NodeAt(file, SubSeq(spot.path, 1, n)).kind = "anchor" THEN <<>>
  ELSE LastKeys(NodeAt(file, spot.path))

(* The value under keys.                                                   *)
RawUnder(file, keys) ==
  FoldLeft(LAMBDA xs, key : UNION {RawValues(x, key) : x \in xs}, {Root(file)}, keys)

-----------------------------------------------------------------------------
(* findDependencies: the declared names of a type.                         *)
FindDependencies(file, type) ==
  {Text(e.key) : e \in UNION {RawEntries(o) : o \in RawValues(Root(file), type)}}

NamedDependencies(file, keys, attribute, type) ==
  IF Len(keys) = 3 /\ keys[3] = attribute THEN FindDependencies(file, type) \ {keys[2]} ELSE {}

(* All services, whichever file the object extends (mutant).               *)
ExtendingAnyFile(path, extends) == TRUE

(* extendingCurrentFile: without a file, or with the name of this one.     *)
ExtendingCurrentFile(path, extends) ==
  \A v \in UNION {RawValues(x, "file") : x \in extends} : Text(v) = path

ExtendedNames(file, path, keys, sameLine) ==
  IF /\ Len(keys) >= 3 /\ keys[1] = "services" /\ keys[3] = "extends"
     /\ \/ Len(keys) = 4 /\ keys[4] = "service"
        \/ sameLine /\ Len(keys) = 3
     /\ ExtendingCurrentFile(path, RawUnder(file, SubSeq(keys, 1, 3)))
  THEN FindDependencies(file, "services") \ {keys[2]} ELSE {}

DependencyCompletion(file, path, keys, sameLine) ==
  NamedDependencies(file, keys, "depends_on", "services") \union
  NamedDependencies(file, keys, "models", "models") \union
  NamedDependencies(file, keys, "networks", "networks") \union
  ExtendedNames(file, path, keys, sameLine)

(* The names that are asked for once there is nothing else to offer.       *)
LateDependencies(file, keys) ==
  NamedDependencies(file, keys, "configs", "configs") \union
  NamedDependencies(file, keys, "secrets", "secrets") \union
  NamedDependencies(file, keys, "volumes", "volumes")

(* buildTargetCompletionItems: the stages of the Dockerfile of the build   *)
(* object, none with an inline Dockerfile.                                 *)
IsBuildTarget(keys) == Len(keys) = 4 /\ keys[3] = "build" /\ keys[4] = "target"

BuildStages(file, keys) ==
  LET build == RawUnder(file, SubSeq(keys, 1, 3))
      dockerfiles == {Text(v) : v \in UNION {RawValues(b, "dockerfile") : b \in build}}
      inline == UNION {RawValues(b, "dockerfile_inline") : b \in build}
  IN  CASE inline # {} -> {}
        [] inline = {} /\ dockerfiles # {} -> UNION {Stages(d) : d \in dockerfiles}
        [] OTHER -> Stages("Dockerfile")

(* directoryForNode: where the name of a file or folder is expected.       *)
FolderAttributes ==
  {<<"include">>, <<"include", "env_file">>, <<"include", "path">>,
   <<"services", "env_file">>, <<"services", "label_file">>, <<"configs", "file">>, <<"secrets", "file">>,
   <<"services", "build", "context">>, <<"services", "build", "dockerfile">>,
   <<"services", "extends", "file">>, <<"services", "credential_spec", "file">>}

IsBind(file, path) ==
  \E x \in Places(Root(file)) :
     /\ x.node.kind = "map" /\ IsPrefix(x.path, path) /\ Len(path) = Len(x.path) + 1
     /\ \E v \in Values(x, "type") : Text(v) = "bind"

NamesFiles(file, keys, path) ==
  \/ (IF keys[1] = "include" \/ Len(keys) < 2 THEN keys ELSE <<keys[1]>> \o SubSeq(keys, 3, Len(keys)))
       \in FolderAttributes
  \/ /\ Len(keys) = 4 /\ keys[1] = "services" /\ keys[3] = "env_file" /\ keys[4] = "path"
     /\ \E v \in RawUnder(file, SubSeq(keys, 1, 3)) : v.node.kind = "list"
  \/ /\ Len(keys) = 4 /\ keys[1] = "services" /\ keys[3] = "volumes" /\ keys[4] = "source"
     /\ IsBind(file, path)

-----------------------------------------------------------------------------
Answer(from, labels) == [from |-> from, labels |-> labels]

(* Completion: what is offered first hides everything after it, but names  *)
(* of configs, secrets and volumes are offered with the schema's.          *)
FoundBelow(above, inFront, sameLine) == NodeProperties(RootSchema, above \o inFront, Len(above), sameLine)

Found(file, spot) == FoundBelow(KeysTo(Root(file), spot.path), InFront(file, spot), spot.kind = "value")

FirstAnswer(file, keys, spot, names, late, schema) ==
  CASE names # {} -> Answer("names", names)
    [] names = {} /\ IsBuildTarget(keys) -> Answer("stages", BuildStages(file, keys))
    [] names = {} /\ ~IsBuildTarget(keys) ->
         IF NamesFiles(file, keys, spot.path) THEN Answer("folder", {})
         ELSE IF late # {} THEN Answer("names", late) ELSE Answer("schema", schema)

CompletionInObject(file, path, spot, keys, found) ==
  FirstAnswer(file, keys, spot, DependencyCompletion(file, path, keys, spot.kind = "value"),
        LateDependencies(file, keys), {i.label : i \in SchemaItems(found)})

CompletionBelow(file, path, spot, above, inFront, found) ==
  CASE above = <<>> -> Answer("schema", DOMAIN RootSchema.properties)
    [] Len(above) = 1 ->
         IF above[1] = "include" /\ inFront = <<>> THEN Answer("folder", {}) ELSE Answer("nothing", {})
    [] OTHER -> CompletionInObject(file, path, spot, SubSeq(above \o inFront, 1, found.depth), found)

Completion(file, path, spot) ==
  CompletionBelow(file, path, spot, KeysTo(Root(file), spot.path), InFront(file, spot), Found(file, spot))

(* modifyTextEdit, and the values that createSchemaItems writes behind an  *)
(* attribute: what the snippet of an attribute under keys has one choose   *)
(* from.                                                                   *)
BuildTargetModifier(file, keys) ==
  IF \E b \in RawUnder(file, keys) : b.node.kind \in {"null", "map"} THEN BuildStages(file, keys) ELSE {}

ServiceSuggestionModifier(file, path, keys) ==
  IF ExtendingCurrentFile(path, RawUnder(file, keys))
  THEN FindDependencies(file, "services") \ {keys[2]} ELSE {}

SnippetChoices(file, path, keys, attribute, schema) ==
  CASE Len(keys) = 3 /\ keys[3] = "build" /\ attribute = "target" -> BuildTargetModifier(file, keys)
    [] Len(keys) = 3 /\ keys[1] = "services" /\ keys[3] = "extends" /\ attribute = "service" ->
         ServiceSuggestionModifier(file, path, keys)
    [] OTHER -> schema.enum

(* The file after a name or an attribute is accepted at a spot.  In the    *)
(* list of volumes a name comes with a container path.                     *)
RECURSIVE PutAt(_, _, _)
PutAt(x, path, node) ==
  LET Sub(n, k) == PutAt(At(n, Append(x.path, k)), path, node)
  IN  CASE x.path = path -> node
        [] x.path # path /\ ~IsPrefix(x.path, path) -> x.node
        [] OTHER ->
             CASE x.node.kind = "map" -> Map([i \in DOMAIN x.node.entries |->
                                               [key   |-> x.node.entries[i].key,
                                                value |-> Sub(x.node.entries[i].value, 2 * i)]])
               [] x.node.kind = "list" -> List([i \in DOMAIN x.node.items |-> Sub(x.node.items[i], i)])
               [] x.node.kind = "anchor" -> Anchor(x.node.anchor, Sub(x.node.node, 1))
               [] OTHER -> x.node

Accept(file, spot, label) ==
  LET node == NodeAt(file, spot.path)
      keys == KeysTo(Root(file), spot.path)
      item == IF Len(keys) = 3 /\ keys[3] = "volumes" THEN Short(label, "/container/path") ELSE Str(label)
  IN  PutAt(Root(file), spot.path,
            CASE spot.kind = "item"  -> List(Append(node.items, item))
              [] spot.kind = "entry" -> Map(Append(node.entries, Entry(label, Null)))
              [] spot.kind = "value" -> Str(label))

(* Where the accepted name is.                                             *)
AcceptedAt(file, spot) ==
  LET node == NodeAt(file, spot.path)
  IN  CASE spot.kind = "item"  -> Append(spot.path, Len(node.items) + 1)
        [] spot.kind = "entry" -> Append(spot.path, 2 * Len(node.entries) + 1)
        [] spot.kind = "value" -> spot.path

=============================================================================
