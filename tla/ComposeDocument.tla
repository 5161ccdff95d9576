--------------------------- MODULE ComposeDocument --------------------------
(***************************************************************************)
(* A Compose file as the YAML parser gives it to the server, and the files *)
(* that it includes (dockerComposeDocument.go).                            *)
(*                                                                         *)
(* A file is one YAML document.  Its nodes are strings, pairs of strings   *)
(* with a colon between them ("data:/var"), lists, maps, anchors and       *)
(* aliases.  A place is a node with the path that leads to it: the key of  *)
(* the i-th entry of a map is at 2i-1 and its value at 2i, what an anchor  *)
(* names is at 1 below it.  The order of paths is the order of the text.   *)
(***************************************************************************)
EXTENDS Naturals, SequencesExt

CONSTANT IsPath(_)   \* whether the source of a volume is a path, not a name

Str(v)          == [kind |-> "string", value |-> v]
Short(n, rest)  == [kind |-> "short", name |-> n, rest |-> rest]
Null            == [kind |-> "null"]
Map(es)         == [kind |-> "map", entries |-> es]
Entry(k, v)     == [key |-> Str(k), value |-> v]
List(xs)        == [kind |-> "list", items |-> xs]
Names(ns)       == List([i \in DOMAIN ns |-> Str(ns[i])])
Anchor(n, node) == [kind |-> "anchor", anchor |-> n, node |-> node]
Alias(n)        == [kind |-> "alias", alias |-> n]

At(node, path) == [node |-> node, path |-> path]

(* resolveAnchor: the node that an anchor names.                           *)
ResolveAnchor(x) == IF x.node.kind = "anchor" THEN At(x.node.node, Append(x.path, 1)) ELSE x

(* The value of the token of a node: of an alias it is the asterisk, of a  *)
(* map the colon of its first entry.                                       *)
Text(x) ==
  CASE x.node.kind = "string" -> x.node.value
    [] x.node.kind = "short"  -> x.node.name \o ":" \o x.node.rest
    [] x.node.kind = "null"   -> "null"
    [] x.node.kind = "map"    -> ":"
    [] x.node.kind = "list"   -> "-"
    [] x.node.kind = "alias"  -> "*"
    [] x.node.kind = "anchor" -> "&"

IsString(x) == x.node.kind \in {"string", "short"}

(* The entries of a map and the items of a list as the parser has them,    *)
(* and what they are once anchors are resolved.                            *)
RawEntries(x) ==
  IF x.node.kind # "map" THEN {}
  ELSE {[key   |-> At(x.node.entries[i].key, Append(x.path, 2 * i - 1)),
         value |-> At(x.node.entries[i].value, Append(x.path, 2 * i))] : i \in DOMAIN x.node.entries}

RawItems(x) ==
  IF x.node.kind # "list" THEN {} ELSE {At(x.node.items[i], Append(x.path, i)) : i \in DOMAIN x.node.items}

Entries(x) == {[key |-> ResolveAnchor(e.key), value |-> ResolveAnchor(e.value)] : e \in RawEntries(x)}
Items(x)   == {ResolveAnchor(i) : i \in RawItems(x)}

(* The values of the entries with a key, anchors resolved or not.          *)
Values(x, key)    == {e.value : e \in {e \in Entries(x) : Text(e.key) = key}}
RawValues(x, key) == {e.value : e \in {e \in RawEntries(x) : Text(e.key) = key}}

Root(file) == At(file, <<>>)

(* The tokens that names are in, and the attributes that declare them.     *)
TokenOf(x) ==
  [path |-> x.path, text |-> Text(x),
   parts |-> CASE x.node.kind = "string" -> {"name"}
               [] x.node.kind = "short"  -> {"name", "rest"}
               [] x.node.kind = "alias"  -> {"star"}
               [] OTHER                  -> {}]

Types == {"services", "networks", "volumes", "configs", "secrets", "models"}

-----------------------------------------------------------------------------
(* includedPaths: strings, and the path or paths of an object, in order.   *)
(* Anchors are not resolved.  The names of files are strings.              *)
StringsOf(node) ==
  CASE node.kind = "string" -> <<node.value>>
    [] node.kind = "list" ->
         FlattenSeq([i \in DOMAIN node.items |->
                       IF node.items[i].kind = "string" THEN <<node.items[i].value>> ELSE <<>>])
    [] OTHER -> <<>>

PathsOf(item) ==
  IF item.kind = "map"
  THEN LET i == SelectInSeq(item.entries, LAMBDA e : e.key = Str("path"))
       IN  IF i = 0 THEN <<>> ELSE StringsOf(item.entries[i].value)
  ELSE IF item.kind = "string" THEN <<item.value>> ELSE <<>>

IncludedPaths(file) ==
  LET i == IF file.kind = "map" THEN SelectInSeq(file.entries, LAMBDA e : e.key = Str("include")) ELSE 0
  IN  IF i = 0 \/ file.entries[i].value.kind # "list" THEN <<>>
      ELSE FlattenSeq([k \in DOMAIN file.entries[i].value.items |-> PathsOf(file.entries[i].value.items[k])])

(* searchForIncludedFiles.  A path that was searched before, here or on    *)
(* the way here, ends the whole search without an answer; what a file that *)
(* is included finds is not remembered for its siblings.  Remote paths and *)
(* files that cannot be read are passed over.                              *)
Unresolvable == [files |-> {}, resolvable |-> FALSE]

(* The positions of the paths that lead to a file.                         *)
Followed(files, remote, f) ==
  LET paths == IncludedPaths(files[f])
  IN  {k \in DOMAIN paths : paths[k] \in DOMAIN files \ remote}

(* What was searched once the search of f gets to its k-th path.           *)
SearchedBefore(files, remote, searched, f, k) ==
  searched \union {IncludedPaths(files[f])[i] : i \in {i \in Followed(files, remote, f) : i < k}}

(* A search that passes over the files that were searched (mutant).        *)
SearchPassingOver(files, remote) ==
  LET search[searched \in SUBSET DOMAIN files] == [f \in DOMAIN files |->
        LET paths     == IncludedPaths(files[f])
            before(k) == SearchedBefore(files, remote, searched, f, k)
            new       == {k \in Followed(files, remote, f) : paths[k] \notin before(k)}
        IN  [files |-> UNION {{paths[k]} \union search[before(k) \union {paths[k]}][paths[k]].files : k \in new},
             resolvable |-> TRUE]]
  IN  search

(* The search of f, if that of the files below is what search has.         *)
Searched(files, remote, search, searched, f) ==
  LET paths     == IncludedPaths(files[f])
      followed  == Followed(files, remote, f)
      before(k) == SearchedBefore(files, remote, searched, f, k)
      next(k)   == search[before(k) \union {paths[k]}][paths[k]]
  IN  IF \A k \in followed : paths[k] \notin before(k) /\ next(k).resolvable
      THEN [files |-> UNION {{paths[k]} \union next(k).files : k \in followed}, resolvable |-> TRUE]
      ELSE Unresolvable

SearchForIncludedFiles(files, remote) ==
  LET search[searched \in SUBSET DOMAIN files] ==
        [f \in DOMAIN files |-> Searched(files, remote, search, searched, f)]
  IN  search

IncludedFiles(files, remote, path) == SearchForIncludedFiles(files, remote)[{path}][path]

=============================================================================
