---------------------------- MODULE ComposeProject ---------------------------
(***************************************************************************)
(* The Compose files of a project, that include each other while they are  *)
(* edited, and what the search for included files and the hints of a       *)
(* service have to do with what is written in them.                        *)
(***************************************************************************)
EXTENDS ComposeOutline, Succession, FiniteSets

CONSTANTS
  InitialCompose,   \* the Compose files, by path
  Remote,           \* the paths that are not local
  Depth             \* how deep the trees of files are at most

VARIABLE compose    \* the Compose files

(* The nodes that the parser returns, up to a depth.                       *)
TreesOver(below) ==
  [kind : {"null"}] \union [kind : {"string"}, value : STRING]
    \union [kind : {"short"}, name : STRING, rest : STRING] \union [kind : {"alias"}, alias : STRING]
    \union [kind : {"anchor"}, anchor : STRING, node : below]
    \union [kind : {"list"}, items : Seq(below)]
    \union [kind : {"map"}, entries : Seq([key : below, value : below])]

Tree[n \in 0 .. Depth] == TreesOver(IF n = 0 THEN {} ELSE Tree[n - 1])

ASSUME FilesAssumption ==
  /\ Depth \in Nat
  /\ IsFiniteSet(DOMAIN InitialCompose)
  /\ InitialCompose \in [DOMAIN InitialCompose -> Tree[Depth]]

InitFiles == compose = InitialCompose

ReplaceFile(file, node) == compose' = [compose EXCEPT ![file] = node]

NextFiles == \E file \in DOMAIN compose, node \in Tree[Depth] : ReplaceFile(file, node)

SpecFiles == InitFiles /\ [][NextFiles]_compose

-----------------------------------------------------------------------------
(* The files that each file includes, and all that are reached from one.   *)
Includes ==
  [f \in DOMAIN compose |-> [k \in Followed(compose, Remote, f) |-> IncludedPaths(compose[f])[k]]]

Included(f) == Successors(Includes, f)
Below(f)    == Reached(Includes, f)

(* The search for included files ends.  It has an answer if each file is   *)
(* included at one place, and none if it comes to a file that includes     *)
(* itself, over whichever others; its answer has all files that it         *)
(* reaches.  What is included has a link and is in the outline             *)
(* (dockerComposeDocument.go, documentLink.go, documentSymbol.go).         *)
FilesAreTrees == compose \in [DOMAIN compose -> Tree[Depth]]

SearchFindsAll(f) ==
  LET found == IncludedFiles(compose, Remote, f)
  IN  /\ found.resolvable => found.files = Below(f) /\ \A g \in Below(f) \union {f} : g \notin Below(g)
      /\ ReachesTree(Includes, f) => found.resolvable

IncludesAreShown(f) ==
  \A g \in Included(f) :
     \E l \in ComposeLinks(compose[f]) : /\ l.to = "file" /\ l.target = g
                                          /\ \E s \in ComposeSymbols(compose[f]) : s.path = l.path

IncludesAreFollowed == FilesAreTrees /\ \A f \in DOMAIN compose : SearchFindsAll(f) /\ IncludesAreShown(f)

-----------------------------------------------------------------------------
(* The chain of services from one up, each extended by the one before, for *)
(* as long as it goes on.                                                  *)
Parent(props, s) == IF s \in DOMAIN props THEN Extended(s, props[s]) ELSE <<>>

Chain(props, service) ==
  LET chain[n \in 0 .. Cardinality(DOMAIN props) + 1] ==
        IF n = 0 THEN <<service>> ELSE IF chain[n - 1] = <<>> THEN <<>> ELSE Parent(props, chain[n - 1][1])
  IN  chain

(* How far up the services are that have an attribute.                     *)
Having(props, chain, attribute) ==
  {n \in DOMAIN chain : /\ n > 0 /\ chain[n] # <<>> /\ chain[n][1] \in DOMAIN props
                        /\ attribute \in DOMAIN props[chain[n][1]]}

(* The parent value that is shown for an attribute is the one the service  *)
(* would have without it: that of the nearest service up the chain of      *)
(* extends that has one, unless the chain comes back to where it was or    *)
(* the value is an object (inlayHint.go).                                  *)
ParentValueIsInherited(file, service, attribute) ==
  LET props  == AllServiceProperties(file)
      chain  == Chain(props, service)
      having == Having(props, chain, attribute)
      Value(n) == props[chain[n][1]][attribute]
  IN  /\ \A n, m \in DOMAIN chain : n # m /\ chain[n] # <<>> => chain[n] # chain[m]
      /\ \A n \in having \union {0} : Value(n).node.kind # "map"
      => {h.parent : h \in {h \in ComposeHints(file) : h.service = service /\ h.attribute = attribute}}
           = {Text(Value(n)) : n \in {n \in having : \A m \in having : n <= m}}

ParentValuesAreInherited ==
  \A f \in DOMAIN compose :
     LET props == AllServiceProperties(compose[f])
     IN  \A s \in DOMAIN props : \A a \in DOMAIN props[s] \ {"extends"} : ParentValueIsInherited(compose[f], s, a)

=============================================================================
