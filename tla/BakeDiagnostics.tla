--------------------------- MODULE BakeDiagnostics ---------------------------
(***************************************************************************)
(* The diagnostics of a Bake file (bake/hcl/diagnosticsCollector.go),      *)
(* which compare it with the Dockerfiles that its targets are built with.  *)
(*                                                                         *)
(* files maps the paths that exist to their instructions.  An instruction  *)
(* has an operation, the words that follow it, and is in capitals or not;  *)
(* the parser of Dockerfiles takes flags away, so that FROM is followed by *)
(* its image, AS and its name, and ARG by [name, default] pairs.           *)
(***************************************************************************)
EXTENDS BakeDocument

From(image)         == [op |-> "FROM", capitals |-> TRUE, words |-> <<image>>]
FromAs(image, name) == [op |-> "FROM", capitals |-> TRUE, words |-> <<image, "AS", name>>]
Arg(name, default)  == [op |-> "ARG", capitals |-> TRUE, args |-> <<[name |-> name, default |-> default]>>]
LowerArg(name)      == [Arg(name, "") EXCEPT !.capitals = FALSE]

(* The nodes of OpenDockerfile; a file that cannot be read has none.       *)
Nodes(files, path) == IF path \in DOMAIN files THEN files[path] ELSE <<>>

ARGs(nodes) ==
  UNION {{nodes[k].args[n].name : n \in DOMAIN nodes[k].args} :
           k \in {k \in DOMAIN nodes : nodes[k].op = "ARG"}}

(* The third word of a FROM is the name of a stage, whatever the second is. *)
IsStage(node, target) ==
  node.op = "FROM" /\ Len(node.words) > 2 /\ node.words[3] = target

-----------------------------------------------------------------------------
BuiltinArgs ==
  {"HTTP_PROXY", "HTTPS_PROXY", "FTP_PROXY", "ALL_PROXY", "NO_PROXY",
   "BUILDKIT_CACHE_MOUNT_NS", "BUILDKIT_MULTI_PLATFORM", "BUILDKIT_SANDBOX_HOSTNAME",
   "BUILDKIT_SYNTAX", "BUILDKIT_DOCKERFILE_CHECK", "BUILDKIT_CONTEXT_KEEP_GIT_DIR",
   "SOURCE_DATE_EPOCH"}

Entitlements == {"network.host", "security.insecure"}
Networks     == {"default", "host", "none"}

IsTarget(block) == block.type = "target" /\ Len(block.labels) = 1

(* A diagnostic: which rule, on which attribute of which block, and which  *)
(* entry of the attribute (0 is the whole value).                          *)
Diagnostic(rule, block, attribute, item) ==
  [rule |-> rule, block |-> block, attribute |-> attribute, item |-> item]

(* The plain strings in a list: the others are not checked.                *)
LiteralEntries(block, attribute) ==
  IF Has(block, attribute) /\ block.attrs[attribute].kind = "tuple"
  THEN {k \in DOMAIN block.attrs[attribute].children :
          block.attrs[attribute].children[k].kind = "literal"}
  ELSE {}

EntryText(block, attribute, k) == block.attrs[attribute].children[k].text

IgnoredDockerfile(doc, i) ==
  IF Has(doc[i], "dockerfile-inline") /\ Has(doc[i], "dockerfile")
  THEN {Diagnostic("dockerfile ignored", i, "dockerfile", 0)} ELSE {}

(* Tags whose image has vulnerabilities (see ScoutService); the images are *)
(* those with a diagnostic of one of the two kinds that a tag reports.     *)
VulnerableTags(doc, i, vulnerable) ==
  {Diagnostic("vulnerable", i, "tags", k) :
     k \in {k \in LiteralEntries(doc[i], "tags") : EntryText(doc[i], "tags", k) \in vulnerable}}

UnknownEntitlements(doc, i) ==
  {Diagnostic("entitlements", i, "entitlements", k) :
     k \in {k \in LiteralEntries(doc[i], "entitlements") :
              EntryText(doc[i], "entitlements", k) \notin Entitlements}}

UnknownNetwork(doc, i) ==
  IF /\ Has(doc[i], "network")
     /\ doc[i].attrs["network"].kind = "literal"
     /\ doc[i].attrs["network"].text \notin Networks
  THEN {Diagnostic("network", i, "network", 0)} ELSE {}

(* keyed: the texts with an equals sign.                                   *)
InvalidAnnotations(doc, i, keyed) ==
  {Diagnostic("annotation", i, "annotations", k) :
     k \in {k \in LiteralEntries(doc[i], "annotations") :
              EntryText(doc[i], "annotations", k) \notin keyed}}

-----------------------------------------------------------------------------
(* dockerfileContent: the nodes of the first target with a label.          *)
DockerfileContent(doc, files, label) ==
  LET i == SelectInSeq(doc, LAMBDA b : IsTarget(b) /\ b.labels[1] = label)
  IN  Nodes(files, DockerfileForTarget(doc, i))

(* checkTargetTarget, with the nodes of the Dockerfile.                    *)
UnknownTarget(doc, nodes, i) ==
  IF /\ Has(doc[i], "target")
     /\ doc[i].attrs["target"].kind = "literal"
     /\ \A k \in DOMAIN nodes : ~IsStage(nodes[k], doc[i].attrs["target"].text)
  THEN {Diagnostic("target", i, "target", 0)} ELSE {}

(* An argument may also be for a target that inherits from this one.       *)
InheritingARGs(doc, files, i) ==
  UNION {ARGs(DockerfileContent(doc, files, doc[j].labels[1])) :
           j \in {j \in DOMAIN doc :
                    /\ IsTarget(doc[j]) /\ doc[j].labels # doc[i].labels
                    /\ doc[i].labels[1] \in ToSet(ParentTargets(doc, doc[j].labels[1]).targets)}}

(* A mutant: the quotes of a key are not taken away.                       *)
UnknownArgsQuoted(doc, files, nodes, i) ==
  IF ~Has(doc[i], "args") \/ doc[i].attrs["args"].kind # "object" THEN {}
  ELSE LET known == BuiltinArgs \union InheritingARGs(doc, files, i) \union ARGs(nodes)
       IN  {Diagnostic("arg", i, "args", k) :
              k \in {k \in DOMAIN doc[i].attrs["args"].items :
                       \/ doc[i].attrs["args"].items[k].quoted
                       \/ doc[i].attrs["args"].items[k].key \notin known}}

(* checkTargetArgs: a key is compared without its quotes.                  *)
UnknownArgs(doc, files, nodes, i) ==
  IF ~Has(doc[i], "args") \/ doc[i].attrs["args"].kind # "object" THEN {}
  ELSE LET known == BuiltinArgs \union InheritingARGs(doc, files, i) \union ARGs(nodes)
       IN  {Diagnostic("arg", i, "args", k) :
              k \in {k \in DOMAIN doc[i].attrs["args"].items :
                       doc[i].attrs["args"].items[k].key \notin known}}

(* CollectDiagnostics, after the errors of the parser.                     *)
CollectDiagnostics(doc, files, vulnerable, keyed) ==
  LET Compared(i, nodes) == UnknownTarget(doc, nodes, i) \union UnknownArgs(doc, files, nodes, i)
  IN  UNION {IgnoredDockerfile(doc, i) \union VulnerableTags(doc, i, vulnerable)
               \union UnknownEntitlements(doc, i) \union UnknownNetwork(doc, i)
               \union InvalidAnnotations(doc, i, keyed)
               \union (IF DockerfileForTarget(doc, i) = "" THEN {}
                       ELSE Compared(i, DockerfileContent(doc, files, doc[i].labels[1]))) :
             i \in {i \in DOMAIN doc : IsTarget(doc[i])}}

-----------------------------------------------------------------------------
(* The edit that comes with the first rule deletes the line on which the   *)
(* attribute starts.  A value that goes on over more lines keeps them, and *)
(* the file does not parse any more; the documents here have one line for  *)
(* an attribute.                                                           *)
RemoveDockerfileAttribute(doc, i) ==
  [doc EXCEPT ![i].attrs = [a \in DOMAIN doc[i].attrs \ {"dockerfile"} |-> doc[i].attrs[a]]]

=============================================================================
