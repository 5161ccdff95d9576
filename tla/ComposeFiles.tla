---------------------------- MODULE ComposeFiles ----------------------------
(***************************************************************************)
(* Compose files that include each other while one of them is edited, by   *)
(* hand and with the edits that the server offers.  The features answer    *)
(* from the same files, each with its own search through them: the         *)
(* properties say that their answers fit together.                         *)
(***************************************************************************)
EXTENDS ComposeCompletion, ComposeProject, ComposeFormatting

CONSTANTS
  ComposeFile,      \* the path of the file that is edited
  Written,          \* the entries that are written: [file, keys, entry]
  NewName,          \* a name that no file uses at first
  MaxComposeEdits,  \* bound on the number of edits
  FirstLines        \* one of LineLayouts

VARIABLE made       \* how many edits were made

composeVars == <<compose, made, lines>>

File == compose[ComposeFile]

(* Formatting looks at white space only: a behaviour starts with any of    *)
(* the layouts, and edits the files only from the first of them.           *)
InitCompose ==
  /\ InitFiles
  /\ made = 0
  /\ InitLines

MayEdit == made < MaxComposeEdits /\ lines = FirstLines

Edit(file, node) ==
  /\ ReplaceFile(file, node)
  /\ made' = made + 1
  /\ UNCHANGED lines

(* The keys of the entries around a place, and the values under keys, with *)
(* what anchors name in their place.                                       *)
RECURSIVE KeysAbove(_, _)
KeysAbove(x, path) ==
  LET y == ResolveAnchor(x)
      es == {e \in RawEntries(y) : IsPrefix(e.value.path, path)}
      is == {i \in RawItems(y) : IsPrefix(i.path, path)}
  IN  CASE es # {} -> LET e == CHOOSE e \in es : TRUE
                      IN  <<Text(ResolveAnchor(e.key))>> \o KeysAbove(e.value, path)
        [] is # {} -> KeysAbove(CHOOSE i \in is : TRUE, path)
        [] OTHER -> <<>>

ValueUnder(file, keys) ==
  FoldLeft(LAMBDA xs, key : UNION {Values(x, key) : x \in xs}, {Root(file)}, keys)

(* A person writes an entry of the map under the keys, or writes it anew.  *)
WithEntry(map, entry) ==
  LET i == SelectInSeq(map.entries, LAMBDA e : e.key = entry.key)
  IN  Map(IF i = 0 THEN Append(map.entries, entry) ELSE [map.entries EXCEPT ![i] = entry])

WriteEntry(w) ==
  MayEdit /\ \E x \in ValueUnder(compose[w.file], w.keys) :
     /\ x.node.kind = "map"
     /\ Edit(w.file, PutAt(Root(compose[w.file]), x.path, WithEntry(x.node, w.entry)))

RenameName(cursor) ==
  /\ MayEdit /\ cursor.part = "name"
  /\ PrepareRename(File, cursor) # {}
  /\ Edit(ComposeFile, Rename(File, cursor, NewName))

AcceptComposeCompletion(spot) ==
  /\ MayEdit
  /\ Completion(File, ComposeFile, spot).from = "names"
  /\ \E label \in Completion(File, ComposeFile, spot).labels : Edit(ComposeFile, Accept(File, spot, label))

FormatCompose == FormatFile /\ UNCHANGED <<compose, made>>

NextCompose ==
  \/ \E w \in Written : WriteEntry(w)
  \/ \E c \in Cursors(File) : RenameName(c)
  \/ \E s \in Spots(File) : AcceptComposeCompletion(s)
  \/ FormatCompose

SpecCompose == InitCompose /\ [][NextCompose]_composeVars

-----------------------------------------------------------------------------
(* What the names of a file mean to Compose, and aliases to YAML: the use  *)
(* of a name is bound to its declaration in the file, and an alias to the  *)
(* last anchor of its name above it.                                       *)
UsesOfNames ==
  {<<"depends_on", "item", "services">>, <<"depends_on", "key", "services">>,
   <<"extends", "value", "services">>, <<"volumes_from", "item", "services">>,
   <<"networks", "item", "networks">>, <<"networks", "key", "networks">>,
   <<"models", "item", "models">>, <<"models", "key", "models">>,
   <<"configs", "item", "configs">>, <<"secrets", "item", "secrets">>, <<"volumes", "item", "volumes">>}

(* How the string at a path is used.                                       *)
RECURSIVE Position(_, _)
Position(file, path) ==
  LET parent == NodeAt(file, Front(path))
  IN  CASE parent.kind = "list"   -> "item"
        [] parent.kind = "map"    -> IF Last(path) % 2 = 1 THEN "key" ELSE "value"
        [] parent.kind = "anchor" -> Position(file, Front(path))

NameAt(node) == IF node.kind = "short" THEN node.name ELSE node.value

(* The types of what the string at a place is the name of.                 *)
Meant(file, x) ==
  LET keys == KeysAbove(Root(file), x.path)
  IN  {t \in Types :
         /\ Len(keys) >= 3 /\ keys[1] = "services"
         /\ \/ Len(keys) = 3 /\ <<keys[3], Position(file, x.path), t>> \in UsesOfNames
            \/ /\ Tail(Tail(keys)) = <<"extends", "service">> /\ t = "services"
               /\ Position(file, x.path) = "value"
               /\ \A v \in ValueUnder(file, SubSeq(keys, 1, 3)) : Values(v, "file") = {}}

Bindings(file) ==
  LET names     == {x \in Places(Root(file)) : IsString(x)}
      fragments == FindFragments(Root(file))
      Above(a)  == {f \in fragments : f.anchor /\ f.text = a.text /\ Before(f.path, a.path)}
      Declared(type, name) == {d.path : d \in {d \in UNION {Declarations(o) : o \in Values(Root(file), type)} :
                                                 d.text = name}}
  IN  UNION {UNION {{<<x.path, d>> : d \in Declared(t, NameAt(x.node))} : t \in Meant(file, x)} : x \in names}
      \union
      UNION {{<<a.path, f.path>> : f \in {f \in Above(a) : \A g \in Above(a) : ~Before(f.path, g.path)}} :
               a \in {a \in fragments : ~a.anchor}}

(* Renaming to a name that is not in use leaves everything bound as it     *)
(* was: no use of the name is forgotten, and no other name is touched.     *)
(* The cursor is in a name: at the asterisk of an alias in a list of       *)
(* dependencies the code takes the asterisk for a name.                    *)
InUse(name) ==
  \/ \E x \in Places(Root(File)) : IsString(x) /\ NameAt(x.node) = name
  \/ \E f \in FindFragments(Root(File)) : f.text = name

RenamePreservesBindings ==
  LET bindings == Bindings(File)
      renamed  == {Rename(File, c, NewName) : c \in {c \in Cursors(File) : c.part = "name"}}
  IN  ~InUse(NewName) => \A file \in renamed : Bindings(file) = bindings

(* On the use of a name, hover shows the declaration that definition leads *)
(* to, in this file or an included one.  (volumes_from has no hover, and   *)
(* no hover looks for a declaration in an object with an anchor.)          *)
HoverShowsDefinition ==
  \A c \in Cursors(File) :
     LET h == DocumentHighlights(File, c)
     IN  /\ h.type # "" /\ c.part = "name" /\ c.path \in h.reads
         /\ KeysAbove(Root(File), c.path)[3] # "volumes_from"
         /\ \A o \in RawValues(Root(File), h.type) : o.node.kind # "anchor"
         => Hover(compose, Remote, ComposeFile, c) = Definition(compose, Remote, ComposeFile, c)

(* A name that completion offers is a name to the other features: once it  *)
(* is accepted, definition leads to its declaration in this file.  This is *)
(* of a new item, and of a key in the map of the dependencies.  (A name    *)
(* that is accepted on the line of depends_on and its like is none, nor is *)
(* a key in an object of a list, nor the service of an object that names   *)
(* its own file.)                                                          *)
IsDependency(s) ==
  LET keys == KeysAbove(Root(File), s.path)
  IN  IF keys[3] = "extends"
      THEN \A v \in ValueUnder(File, SubSeq(keys, 1, 3)) : \A f \in Values(v, "file") : Text(f) # ComposeFile
      ELSE s.kind = "item" \/ (s.kind = "entry" /\ NodeAt(File, Front(s.path)).kind # "list")

NamesResolve ==
  \A s \in Spots(File) :
     LET answer == Completion(File, ComposeFile, s)
     IN  answer.from = "names" /\ IsDependency(s) =>
           \A label \in answer.labels :
              LET h == DocumentHighlights(Accept(File, s, label), Cursor(AcceptedAt(File, s), "name"))
              IN  h.name = label /\ h.writes # {}

(* What the snippet of an attribute has one choose from is what completion *)
(* offers for its value once the attribute is there.  (But for the values  *)
(* of an attribute of a name that follows a pattern, see below.)           *)
ChosenValue(file, spot, choices) ==
  LET answer == Completion(file, ComposeFile, spot)
      found  == Found(file, spot)
  IN  \/ answer.labels = choices
      \/ Last(KeysAbove(Root(file), spot.path)) \in DOMAIN found.schema.properties

ChoicesAreOffered(s, found) ==
  LET n == Len(NodeAt(File, s.path).entries)
      keys == SubSeq(KeysTo(Root(File), s.path) \o InFront(File, s), 1, found.depth)
      properties == found.schema.properties
  IN  \A a \in DOMAIN properties \ {NodeAt(File, s.path).entries[k].key.value : k \in 1 .. n} :
         \A choices \in {SnippetChoices(File, ComposeFile, keys, a, properties[a])} :
            choices # {} \/ a \in {"target", "service"} =>
              ChosenValue(Accept(File, s, a), Spot("value", Append(s.path, 2 * n + 2)), choices)

CompletedNamesResolve ==
  /\ NamesResolve
  /\ \A s \in {s \in Spots(File) : s.kind = "entry" /\ Len(KeysAbove(Root(File), s.path)) >= 2} :
        \A found \in {Found(File, s)} : found.offer = Attributes => ChoicesAreOffered(s, found)

(* The two walks down the schema agree: hover explains an attribute or a   *)
(* value that completion offers with the same words.  (For the value of an *)
(* attribute of a name that follows a pattern, like the condition of a     *)
(* dependency, completion offers the attributes beside it instead.)        *)
CompletedAttributesAreExplained ==
  \A s \in Spots(File) :
     LET above == KeysAbove(Root(File), s.path)
         found == Found(File, s)
     IN  /\ Len(above) >= 2 /\ Completion(File, ComposeFile, s).from = "schema"
         /\ s.kind = "value" => Last(above) \notin DOMAIN found.schema.properties
         => \A i \in SchemaItems(found) :
               IF found.offer = "attributes"
               THEN SchemaHover(RootSchema, Append(above, i.label)).text = i.text
               ELSE i.label \in SchemaHover(RootSchema, above).values

=============================================================================
