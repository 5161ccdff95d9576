--------------------------- MODULE ComposeOutline ---------------------------
(***************************************************************************)
(* What the server shows of a whole Compose file: links to the files and   *)
(* images that it names, its outline, and what the attributes of a service *)
(* override (documentLink.go, documentSymbol.go, inlayHint.go).            *)
(***************************************************************************)
EXTENDS ComposeDocument

CONSTANT IsFile(_)   \* whether a path on disk is a file, not a folder

(* Links.  The target is what the name stands for: a file, or the page of  *)
(* an image or a model, whose tag is not part of the link.                 *)
FileLink(x)  == [path |-> x.path, to |-> "file", target |-> Text(x)]
PageLink(x)  == [path |-> x.path, to |-> "page",
                 target |-> IF x.node.kind = "short" THEN x.node.name ELSE Text(x)]
Strings(xs)  == {x \in xs : IsString(x)}

FileLinks(xs) == {FileLink(x) : x \in Strings(xs)}

(* createFileLinks: one file, or a list of them.                           *)
ListedFileLinks(xs) == FileLinks(xs) \union UNION {FileLinks(Items(x)) : x \in xs}

(* includedPaths of documentLink.go: unlike the outline it takes env_file, *)
(* and passes over aliases.                                                *)
IncludeLinks(file) ==
  LET Listed(v) == IF ResolveAnchor(v).node.kind = "list" THEN RawItems(ResolveAnchor(v)) ELSE {v}
      named(item) == {e.value : e \in {e \in RawEntries(item) :
                                         Text(ResolveAnchor(e.key)) \in {"path", "env_file"}}}
      items == UNION {Items(v) : v \in Values(Root(file), "include")}
  IN  FileLinks(items) \union
      UNION {UNION {{FileLink(ResolveAnchor(x)) : x \in {x \in Listed(v) : x.node.kind # "alias"}} :
                      v \in named(i)} : i \in items}

(* A mount is a link when its source is a file.                            *)
MountLink(x) ==
  CASE x.node.kind = "short" /\ IsPath(x.node.name) /\ IsFile(x.node.name) ->
         {[FileLink(x) EXCEPT !.target = x.node.name]}
    [] x.node.kind = "map" /\ \E t \in Values(x, "type") : Text(t) = "bind" ->
         {FileLink(s) : s \in {s \in Values(x, "source") : IsFile(Text(s))}}
    [] OTHER -> {}

ServiceLinks(service) ==
  LET Nested(attribute, child) == UNION {Values(v, child) : v \in Values(service, attribute)}
  IN  {PageLink(x) : x \in Strings(Values(service, "image"))} \union
      FileLinks(Nested("build", "dockerfile") \union Nested("credential_spec", "file")
                  \union Nested("extends", "file")) \union
      ListedFileLinks(Values(service, "env_file")) \union
      ListedFileLinks(Values(service, "label_file")) \union
      UNION {UNION {MountLink(i) : i \in Items(v)} : v \in Values(service, "volumes")}

Objects(file, type) == UNION {{e.value : e \in Entries(o)} : o \in Values(Root(file), type)}

ComposeLinks(file) ==
  IncludeLinks(file) \union
  UNION {ServiceLinks(s) : s \in Objects(file, "services")} \union
  UNION {FileLinks(Values(o, "file")) : o \in Objects(file, "configs") \union Objects(file, "secrets")} \union
  UNION {{PageLink(x) : x \in Strings(Values(o, "model"))} : o \in Objects(file, "models")}

-----------------------------------------------------------------------------
(* The outline: the names of the objects and of the included files.        *)
IncludedSymbols(items) ==
  LET Listed(v) == IF v.node.kind = "list" THEN Items(v) ELSE {v}
  IN  {TokenOf(s) : s \in Strings(items)} \union
      UNION {UNION {{TokenOf(x) : x \in Listed(v)} : v \in Values(i, "path")} : i \in items}

IncludeItems(file) == UNION {Items(v) : v \in {v \in RawValues(Root(file), "include") : v.node.kind = "list"}}

ObjectSymbols(file) ==
  UNION {UNION {{[TokenOf(e.key) EXCEPT !.parts = {}] : e \in RawEntries(o)} : o \in RawValues(Root(file), t)} :
           t \in Types}

ComposeSymbols(file) == ObjectSymbols(file) \union IncludedSymbols(IncludeItems(file))

-----------------------------------------------------------------------------
(* Inlay hints.  allServiceProperties: the attributes of each service.     *)
AllServiceProperties(file) ==
  LET services == {e \in UNION {RawEntries(o) : o \in RawValues(Root(file), "services")} :
                     e.value.node.kind = "map"}
      Properties(s) == [a \in {Text(p.key) : p \in RawEntries(s.value)} |->
                          (CHOOSE p \in RawEntries(s.value) : Text(p.key) = a).value]
  IN  [n \in {Text(s.key) : s \in services} |-> Properties(CHOOSE s \in services : Text(s.key) = n)]

NoAttributes == [a \in {} |-> a]

(* Whom the attributes of a service say it extends, in this file.          *)
Extended(service, properties) ==
  IF "extends" \notin DOMAIN properties THEN <<>>
  ELSE LET v == properties["extends"]
           i == SelectInSeq(v.node.entries, LAMBDA e : e.key = Str("service"))
       IN  CASE IsString(v) -> IF Text(v) = service THEN <<>> ELSE <<Text(v)>>
             [] v.node.kind = "map" /\ RawValues(v, "file") = {} /\ RawValues(v, "service") # {} ->
                  <<Text(At(v.node.entries[i].value, <<>>))>>
             [] OTHER -> <<>>

(* hierarchyProperties: the attributes of the services up to this one,     *)
(* which is the last, if hierarchy has those of the one above.  A service  *)
(* that is not there has none.                                             *)
PropertiesUpTo(props, hierarchy, walked, service) ==
  LET extended == Extended(service, props[service])
      Above(other) == IF other \in DOMAIN props THEN hierarchy[walked \union {service}][other] ELSE <<NoAttributes>>
  IN  IF service \in walked THEN <<>>
      ELSE Append(IF extended = <<>> THEN <<>> ELSE Above(extended[1]), props[service])

HierarchyProperties(props) ==
  LET hierarchy[walked \in SUBSET DOMAIN props] ==
        [service \in DOMAIN props |-> PropertiesUpTo(props, hierarchy, walked, service)]
  IN  hierarchy

(* The farthest first (mutant).                                            *)
FarthestFirst(service, props) == Front(HierarchyProperties(props)[{}][service])

ParentProperties(service, props) == Tail(Reverse(HierarchyProperties(props)[{}][service]))

(* For each attribute the value of the nearest service that has it, unless *)
(* either is an object.                                                    *)
AttributeHints(props, s, a) ==
  LET above == ParentProperties(s, props)
      i     == SelectInSeq(above, LAMBDA p : a \in DOMAIN p /\ p[a].node.kind # "map")
  IN  IF i = 0 THEN {}
      ELSE {[service |-> s, attribute |-> a, path |-> props[s][a].path, parent |-> Text(above[i][a])]}

HintedAttributes(props, s) == {a \in DOMAIN props[s] \ {"extends"} : props[s][a].node.kind # "map"}

ComposeHints(file) ==
  LET props == AllServiceProperties(file)
  IN  UNION {UNION {AttributeHints(props, s, a) : a \in HintedAttributes(props, s)} : s \in DOMAIN props}

=============================================================================
