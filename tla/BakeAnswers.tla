---------------------------- MODULE BakeAnswers -----------------------------
(***************************************************************************)
(* A Bake file and the Dockerfiles of its targets, whatever is written in  *)
(* them, and how the answers about a name in it fit together: diagnostics, *)
(* definitions, hints and highlights search for it in ways of their own.   *)
(***************************************************************************)
EXTENDS BakeInheritance, BakeReferences

CONSTANTS
  InitialFiles,  \* the Dockerfiles, by path
  Top,           \* the attributes outside of all blocks
  Vulnerable,    \* the tags with vulnerabilities
  Keyed          \* the annotations with an equals sign

VARIABLE files   \* the Dockerfiles

InitBake == InitDocument /\ files = InitialFiles

(* A person writes the Bake file, a Dockerfile, or both.                   *)
ReplaceBake == ReplaceDocument

SpecBake == InitBake /\ [][ReplaceBake]_<<doc, files>>

-----------------------------------------------------------------------------
Diagnostics == CollectDiagnostics(doc, files, Vulnerable, Keyed)

KeyCursor(i, k) == ExprCursor(i, "args", <<2 * k - 1>>)

(* The arguments of targets.  Of more blocks for the same target, it is    *)
(* the first that tells which Dockerfile all of them are compared with.    *)
KeyItems ==
  UNION {{<<i, k>> : k \in DOMAIN doc[i].attrs["args"].items} :
           i \in {i \in DOMAIN doc : /\ IsTarget(doc[i]) /\ i = FirstBlock(doc, "target", doc[i].labels[1])
                                     /\ Has(doc[i], "args") /\ doc[i].attrs["args"].kind = "object"}}

(* The four answers about an argument fit: one that is reported as unknown *)
(* has no definition and no default is shown for it; and one that is not   *)
(* reported has a definition, if its Dockerfile is known and neither       *)
(* BuildKit nor a target that inherits from this one declares it.          *)
ArgumentAnswersAgree ==
  \A item \in KeyItems :
     LET i == item[1]  k == item[2]
         reported == Diagnostic("arg", i, "args", k) \in Diagnostics
         defined == Definition(doc, Top, files, KeyCursor(i, k)).to = "instruction"
     IN  /\ reported => ~defined /\ [block |-> i, item |-> k] \notin InlayHints(doc, files)
         /\ \/ reported \/ defined
            \/ DockerfileForTarget(doc, i) = ""
            \/ doc[i].attrs["args"].items[k].key \in BuiltinArgs \union InheritingARGs(doc, files, i)

(* The labels and the entries of lists; at other cursors nothing is        *)
(* highlighted.                                                            *)
NameCursors ==
  {LabelCursor(i) : i \in {i \in DOMAIN doc : doc[i].labels # <<>>}} \union
  UNION {UNION {{ExprCursor(i, a, <<k>>) : k \in DOMAIN doc[i].attrs[a].children} :
                  a \in {a \in DOMAIN doc[i].attrs : doc[i].attrs[a].kind = "tuple"}} : i \in DOMAIN doc}

(* From each place that is highlighted the same places are, the one that   *)
(* was asked for is among them, and so is the definition.                  *)
HighlightsAreMutual ==
  \A c \in NameCursors :
     LET places == DocumentHighlight(doc, c)
         definition == Definition(doc, Top, files, c)
     IN  /\ places # {} => c \in places
         /\ \A other \in places : DocumentHighlight(doc, other) = places
         /\ (places # {} /\ definition.to = "block") => LabelCursor(definition.block) \in places

(* A link in the first block of a target, to a path that is written out.   *)
WrittenLinks ==
  {link \in DocumentLinks(doc) :
     LET block == doc[link.block]
     IN  /\ IsTarget(block) /\ link.block = FirstBlock(doc, "target", block.labels[1])
         /\ block.attrs["dockerfile"].kind = "literal" /\ link.path # ""}

(* The outline, the lenses and the links lead to the same targets as the   *)
(* rest: a lens is on a symbol of its name, and the Dockerfile that the    *)
(* target is built with, if that is known, is at the path of its link,     *)
(* below the context of the target.  The link itself leaves the context    *)
(* out, so that it leads to that Dockerfile only where the context is the  *)
(* folder of the document.                                                 *)
LinksAndLensesAgree ==
  /\ \A lens \in CodeLenses(doc) :
        \E s \in DocumentSymbols(doc) : s.block = lens.block /\ s.name = lens.target
  /\ \A link \in WrittenLinks :
        DockerfileForTarget(doc, link.block) \in {"", Joined(Given(doc, link.block, "context"), link.path)}

=============================================================================
