-------------------------- MODULE ComposeReferences -------------------------
(***************************************************************************)
(* The names in a Compose file: highlights, renaming, definitions and the  *)
(* hovers that show what a name stands for.                                *)
(*                                                                         *)
(* A cursor is in the token at a path: in its name, in the rest of a pair  *)
(* ("/var" of "data:/var"), or at the asterisk of an alias.  A token says  *)
(* which parts it extends over.                                            *)
(***************************************************************************)
EXTENDS ComposeDocument

(* The node at a path.                                                     *)
Child(node, k) ==
  CASE node.kind = "map"    -> IF k % 2 = 1 THEN node.entries[(k + 1) \div 2].key ELSE node.entries[k \div 2].value
    [] node.kind = "list"   -> node.items[k]
    [] node.kind = "anchor" -> node.node

NodeAt(file, path) == FoldLeft(Child, file, path)

(* The order of two places in the text.                                    *)
Before(p, q) ==
  \E n \in 0 .. Len(p) :
     /\ n <= Len(q) /\ SubSeq(p, 1, n) = SubSeq(q, 1, n)
     /\ \/ n = Len(p) /\ n < Len(q)
        \/ n < Len(p) /\ n < Len(q) /\ p[n + 1] < q[n + 1]

(* All places of a tree.                                                   *)
RECURSIVE Places(_)
Places(x) ==
  {x} \union
  UNION {Places(e.key) \union Places(e.value) : e \in RawEntries(x)} \union
  UNION {Places(i) : i \in RawItems(x)} \union
  (IF x.node.kind = "anchor" THEN Places(ResolveAnchor(x)) ELSE {})

-----------------------------------------------------------------------------
Cursor(path, part) == [path |-> path, part |-> part]

FirstPart(x) == [path |-> x.path, text |-> x.node.name, parts |-> {"name"}]

InToken(t, cursor) == t.path = cursor.path /\ cursor.part \in t.parts

Cursors(file) ==
  UNION {CASE x.node.kind = "string" -> {Cursor(x.path, "name")}
           [] x.node.kind = "short"  -> {Cursor(x.path, "name"), Cursor(x.path, "rest")}
           [] x.node.kind = "anchor" -> {Cursor(x.path, "name")}
           [] x.node.kind = "alias"  -> {Cursor(x.path, "star"), Cursor(x.path, "name")}
           [] OTHER -> {} : x \in Places(Root(file))}

-----------------------------------------------------------------------------
(* What the services refer to.                                             *)
ServiceAttributes(services, name) == UNION {Values(s.value, name) : s \in Entries(services)}

ServiceDependencyReferences(services, name, arrayOnly) ==
  UNION {{TokenOf(i) : i \in Items(v)} \union
         (IF arrayOnly THEN {} ELSE {TokenOf(e.key) : e \in Entries(v)}) : v \in ServiceAttributes(services, name)}

(* An object with a file extends a service of that file.                   *)
ExtendedService(v) ==
  IF IsString(v) THEN {TokenOf(v)}
  ELSE IF Values(v, "file") # {} THEN {} ELSE {TokenOf(s) : s \in Values(v, "service")}

(* With the access mode (mutant).                                         *)
VolumesFromWhole(v) == {TokenOf(i) : i \in Items(v)}

VolumesFrom(v) ==
  UNION {IF i.node.kind # "short" THEN {TokenOf(i)}
         ELSE IF i.node.name = "container" THEN {} ELSE {FirstPart(i)} : i \in Items(v)}

ExtendedServiceReferences(services) ==
  UNION {ExtendedService(v) : v \in ServiceAttributes(services, "extends")} \union
  UNION {VolumesFrom(v) : v \in ServiceAttributes(services, "volumes_from")}

(* format.ParseVolume: a pair whose source is a path is a bind mount, and  *)
(* everything else a volume.                                               *)
VolumeReference(i) ==
  CASE i.node.kind = "map"   -> {TokenOf(s) : s \in Values(i, "source")}
    [] i.node.kind = "short" -> IF IsPath(i.node.name) THEN {} ELSE {FirstPart(i)}
    [] OTHER                 -> {TokenOf(i)}

VolumeReferences(services) ==
  UNION {UNION {VolumeReference(i) : i \in Items(v)} \union {TokenOf(e.key) : e \in Entries(v)} :
           v \in ServiceAttributes(services, "volumes")}

Declarations(object) == {TokenOf(e.key) : e \in Entries(object)}

References(type, services) ==
  CASE type = "services" -> ServiceDependencyReferences(services, "depends_on", FALSE)
                              \union ExtendedServiceReferences(services)
    [] type = "volumes"  -> VolumeReferences(services)
    [] OTHER             -> ServiceDependencyReferences(services, type, type \in {"configs", "secrets"})

-----------------------------------------------------------------------------
(* Anchors and aliases.  findFragments does not look into keys.            *)
RECURSIVE FindFragments(_)
FindFragments(x) ==
  CASE x.node.kind = "anchor" ->
         {[anchor |-> TRUE, text |-> x.node.anchor, path |-> x.path]} \union FindFragments(ResolveAnchor(x))
    [] x.node.kind = "alias" -> {[anchor |-> FALSE, text |-> x.node.alias, path |-> x.path]}
    [] x.node.kind = "map"   -> UNION {FindFragments(e.value) : e \in RawEntries(x)}
    [] x.node.kind = "list"  -> UNION {FindFragments(i) : i \in RawItems(x)}
    [] OTHER -> {}

(* Whether a cursor at path q has p behind it; without the anchor that it  *)
(* is on (mutant).                                                         *)
StrictlyBehind(p, q) == Before(p, q)

Behind(p, q) == p = q \/ Before(p, q)

Nearest(fs, Closer(_, _)) == {f \in fs : \A g \in fs : g = f \/ Closer(g, f)}

(* fragmentReference: the last anchor of the name up to the cursor and the *)
(* aliases from there to the next anchor of the name.                      *)
FragmentReference(file, cursor) ==
  LET fragments == FindFragments(Root(file))
      hit     == {f \in fragments : f.path = cursor.path /\ cursor.part = "name"}
      named   == {f \in fragments : \E h \in hit : h.text = f.text}
      start   == Nearest({f \in named : f.anchor /\ Behind(f.path, cursor.path)},
                         LAMBDA g, f : Before(g.path, f.path))
      end     == Nearest({f \in named : f.anchor /\ Before(cursor.path, f.path)},
                         LAMBDA g, f : Before(f.path, g.path))
  IN  [anchors |-> start,
       aliases |-> {f \in named : /\ ~f.anchor
                                  /\ \A s \in start : Before(s.path, f.path)
                                  /\ \A e \in end : Before(f.path, e.path)}]

(* DocumentHighlights: the name under the cursor, its type, and the paths  *)
(* where it is read and written.                                           *)
HighlightReferences(type, refs, decls, cursor) ==
  {[type |-> type, name |-> t.text,
    reads  |-> {r.path : r \in {r \in refs : r.text = t.text}},
    writes |-> {d.path : d \in {d \in decls : d.text = t.text}}] :
     t \in {t \in refs \union decls : InToken(t, cursor)}}

DocumentHighlights(file, cursor) ==
  LET Object(type) == {v \in Values(Root(file), type) : v.node.kind = "map"}
      Found(type) == HighlightReferences(type,
                       UNION {References(type, s) : s \in Object("services")},
                       UNION {Declarations(o) : o \in Object(type)}, cursor)
      found == UNION {Found(type) : type \in Types}
      fragment == FragmentReference(file, cursor)
  IN  IF found # {} THEN CHOOSE f \in found : TRUE
      ELSE [type |-> "", name |-> "",
            reads  |-> {f.path : f \in fragment.aliases},
            writes |-> {f.path : f \in fragment.anchors}]

Highlighted(file, cursor) ==
  LET h == DocumentHighlights(file, cursor) IN h.reads \union h.writes

-----------------------------------------------------------------------------
(* Rename replaces the name at all highlights.  It does not ask whether    *)
(* the new name is in use.                                                 *)
WithName(node, new, type) ==
  CASE node.kind = "string" -> Str(new)
    [] node.kind = "short"  -> Short(new, node.rest)
    [] node.kind = "anchor" -> Anchor(new, node.node)
    [] node.kind = "alias"  -> IF type = "" THEN Alias(new) ELSE Str(new)
    [] OTHER -> node

RECURSIVE Replace(_, _, _, _)
Replace(x, paths, new, type) ==
  LET Sub(node, k) == Replace(At(node, Append(x.path, k)), paths, new, type)
      n == IF x.path \in paths THEN WithName(x.node, new, type) ELSE x.node
  IN  CASE n.kind = "map"    -> Map([i \in DOMAIN n.entries |->
                                       [key   |-> Sub(n.entries[i].key, 2 * i - 1),
                                        value |-> Sub(n.entries[i].value, 2 * i)]])
        [] n.kind = "list"   -> List([i \in DOMAIN n.items |-> Sub(n.items[i], i)])
        [] n.kind = "anchor" -> Anchor(n.anchor, Sub(n.node, 1))
        [] OTHER -> n

Rename(file, cursor, new) ==
  LET h == DocumentHighlights(file, cursor)
  IN  Replace(Root(file), h.reads \union h.writes, new, h.type)

(* The highlight that the cursor is in.                                    *)
PrepareRename(file, cursor) == Highlighted(file, cursor) \intersect {cursor.path}

-----------------------------------------------------------------------------
(* dependencyLookup: a declaration in one of the included files, whichever *)
(* the map of files yields first.                                          *)
DependencyLookup(files, remote, path, type, name) ==
  UNION {UNION {{[file |-> f, path |-> e.key.path] :
                   e \in {e \in RawEntries(o) : e.key.node = Str(name)}} :
                o \in RawValues(Root(files[f]), type)} :
           f \in IncludedFiles(files, remote, path).files}

(* The places that a definition may lead to, one of which is the answer.   *)
Definition(files, remote, path, cursor) ==
  LET h == DocumentHighlights(files[path], cursor)
  IN  CASE Highlighted(files[path], cursor) = {} -> {}
        [] h.writes # {} -> {[file |-> path, path |-> w] : w \in h.writes}
        [] OTHER -> DependencyLookup(files, remote, path, h.type, h.name)

(* constructNodePath: the keys above the token under the cursor, and the   *)
(* token.  Lists do not count.                                             *)
RECURSIVE NodePath(_, _)
NodePath(x, path) ==
  IF x.path = path THEN <<Text(x)>>
  ELSE LET y == ResolveAnchor(x)
           Holds(z) == IsPrefix(z.path, path)
       IN  CASE \E e \in RawEntries(y) : Holds(e.key) ->
                  NodePath((CHOOSE e \in RawEntries(y) : Holds(e.key)).key, path)
             [] \E e \in RawEntries(y) : Holds(e.value) ->
                  LET e == CHOOSE e \in RawEntries(y) : Holds(e.value)
                  IN  <<Text(ResolveAnchor(e.key))>> \o NodePath(e.value, path)
             [] \E i \in RawItems(y) : Holds(i) -> NodePath(CHOOSE i \in RawItems(y) : Holds(i), path)
             [] OTHER -> IF y.path = path THEN <<Text(y)>> ELSE <<>>

(* Of this file only (mutant).                                             *)
DependencyHoverHere(files, remote, path, type, name) ==
  UNION {{[file |-> path, path |-> e.key.path] : e \in {e \in RawEntries(o) : Text(e.key) = name}} :
           o \in RawValues(Root(files[path]), type)}

(* createDependencyHover: the declaration in this file, or an included one.*)
DependencyHover(files, remote, path, type, name) ==
  LET here == DependencyHoverHere(files, remote, path, type, name)
  IN  IF here # {} THEN here ELSE DependencyLookup(files, remote, path, type, name)

IsKey(cursor) == cursor.path # <<>> /\ cursor.path[Len(cursor.path)] % 2 = 1

(* serviceHover, networkHover, configHover, secretHover, volumeHover and   *)
(* modelHover: the type and the name that are looked up.  The objects in   *)
(* the lists of configs, secrets and volumes have a source.                *)
HoveredDependency(file, cursor) ==
  LET p == NodePath(Root(file), cursor.path)
      node  == NodeAt(file, cursor.path)
      Kind(n) == NodeAt(file, SubSeq(cursor.path, 1, n)).kind
      inMap    == IsKey(cursor) /\ Kind(Len(cursor.path) - 1) = "map"
      \* an entry of an object that stands in a list
      inObject == \E n \in 0 .. Len(cursor.path) - 2 : Kind(n) = "list"
      Sought(type, name) == {[type |-> type, name |-> name]}
  IN  IF Len(p) < 4 \/ p[1] # "services" THEN {}
      ELSE CASE p[3] = "extends" /\ Len(p) = 4 /\ ~inMap -> Sought("services", p[4])
             [] p[3] = "extends" /\ Len(p) = 5 /\ p[4] = "service" /\ ~inMap -> Sought("services", p[5])
             [] p[3] = "depends_on" /\ Len(p) \in 4 .. 5 /\ ~inObject -> Sought("services", p[4])
             [] p[3] \in {"networks", "models", "configs", "secrets"} /\ Len(p) = 4 -> Sought(p[3], p[4])
             [] p[3] \in {"configs", "secrets", "volumes"} /\ Len(p) = 5 /\ p[4] = "source" ->
                  Sought(p[3], p[5])
             [] p[3] = "build" /\ Len(p) = 5 /\ p[4] = "secrets" -> Sought("secrets", p[5])
             [] p[3] = "build" /\ Len(p) = 6 /\ p[4] = "secrets" /\ p[5] = "source" -> Sought("secrets", p[6])
             [] p[3] = "volumes" /\ Len(p) = 4 ->
                  CASE node.kind # "short" -> Sought("volumes", p[4])
                    [] cursor.part = "name" -> Sought("volumes", node.name)
                    [] OTHER -> {}
             [] OTHER -> {}

Hover(files, remote, path, cursor) ==
  UNION {DependencyHover(files, remote, path, d.type, d.name) : d \in HoveredDependency(files[path], cursor)}

=============================================================================
