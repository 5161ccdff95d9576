------------------------ MODULE DockerfileDiagnostics ------------------------
(***************************************************************************)
(* The diagnostics of a Dockerfile, those of BuildKit's build checks       *)
(* (buildkit/service.go) and of Docker Scout, and the edits that come with *)
(* them (codeAction.go).                                                   *)
(***************************************************************************)
EXTENDS ScoutService, FiniteSets

(* BuildKit (external): the rules that come with an edit, and one that     *)
(* does not.  The words in capitals decide for the casing if there are     *)
(* not fewer of them.  A check directive counts on the first line.         *)
UppercaseMajority(nodes) ==
  LET Count(capital) == Cardinality({k \in DOMAIN nodes : nodes[k].value.capital = capital})
  IN  Count(FALSE) <= Count(TRUE)

Violates(n, form, capitals, rule) ==
  CASE rule = "MaintainerDeprecated"   -> n.value.text = "MAINTAINER"
    [] rule = "StageNameCasing"        -> n.value.text = "FROM" /\ Len(n.words) = 3 /\ n.words[3].capital
    [] rule = "RedundantTargetPlatform" ->
         n.value.text = "FROM" /\ \E k \in DOMAIN n.flags : n.flags[k].value = "$TARGETPLATFORM"
    [] rule = "ConsistentInstructionCasing" -> n.value.capital # capitals
    [] rule = "JSONArgsRecommended"    -> n.value.text = "CMD" /\ form = "plain"

Rules == {"MaintainerDeprecated", "StageNameCasing", "RedundantTargetPlatform",
          "ConsistentInstructionCasing", "JSONArgsRecommended"}

Skipped(file) == IF file # <<>> /\ file[1].kind = "check" THEN {file[1].value.text} ELSE {}

Warnings(file) ==
  LET nodes    == Children(file)
      capitals == UppercaseMajority(nodes)
      Form(k)  == file[Instructions(file)[k]].form
  IN  UNION {{[rule |-> r, node |-> nodes[k], capitals |-> capitals] :
                r \in {r \in Rules \ Skipped(file) : Violates(nodes[k], Form(k), capitals, r)}} :
               k \in DOMAIN nodes}

(* The first flag that is not known ends the build.                        *)
BuildErrors(nodes) ==
  LET ns == SelectSeq(nodes, LAMBDA n : \E k \in DOMAIN n.flags : ~n.flags[k].known)
  IN  IF ns = <<>> THEN {}
      ELSE {[node |-> ns[1], flag |-> SelectSeq(ns[1].flags, LAMBDA f : ~f.known)[1]]}

-----------------------------------------------------------------------------
(* The first flag with the target's platform is deleted.                   *)
WithoutTargetPlatform(flags) ==
  LET i == SelectInSeq(flags, LAMBDA f : f.value = "$TARGETPLATFORM")
  IN  IF i = 0 THEN flags ELSE RemoveAt(flags, i)

(* Capitals, whatever the warning says (mutant).                           *)
SuggestedCapitals(w) == TRUE

(* The casing that the warning asks for.                                   *)
Suggested(w) == w.capitals

(* createResolutionEdit: the instruction that is written in place of a     *)
(* warning's.  The words of an instruction are joined: however it was      *)
(* written, it is a plain one on one line then.  The edit of a stage's     *)
(* name leaves out the flags.                                              *)
ResolutionEdits(w) ==
  LET n == w.node
  IN  CASE n.words = <<>> -> {}
        [] n.words # <<>> /\ w.rule = "MaintainerDeprecated" ->
             {[Instruction(Capital("LABEL"), <<>>, n.words) EXCEPT !.form = "pairs"]}
        [] n.words # <<>> /\ w.rule = "StageNameCasing" ->
             {Instruction(n.value, <<>>, [n.words EXCEPT ![3].capital = FALSE])}
        [] n.words # <<>> /\ w.rule = "RedundantTargetPlatform" ->
             {Instruction(n.value, WithoutTargetPlatform(n.flags), n.words)}
        [] n.words # <<>> /\ w.rule = "ConsistentInstructionCasing" ->
             {Instruction([n.value EXCEPT !.capital = Suggested(w)], n.flags, n.words)}
        [] OTHER -> {}

(* lintWithBuildKitBinary: the edit of an unknown flag changes the first   *)
(* whose name starts with it to the one that was meant, or removes it.     *)
FirstWithName(flags, name) == SelectInSeq(flags, LAMBDA f : IsPrefix(name, f.name))

FlagEdits(error) ==
  LET n == error.node
      i == FirstWithName(n.flags, error.flag.name)
      Renamed(f) == Flag(error.flag.meant \o SubSeq(f.name, Len(error.flag.name) + 1, Len(f.name)), f.value)
  IN  IF error.flag.meant = <<>> THEN {Instruction(n.value, RemoveAt(n.flags, i), n.words)}
      ELSE {Instruction(n.value, [n.flags EXCEPT ![i] = Renamed(@)], n.words)}

(* shouldIgnore: what another server reports too.                          *)
ShouldIgnore(d) == d.error \/ d.rule \in {"ConsistentInstructionCasing", "MaintainerDeprecated"}

(* convertToDiagnostics, with createIgnoreEdit: all the rules here can be  *)
(* ignored.                                                                *)
BuildKitDiagnostics(file, settings) ==
  LET all == {LspDiagnostic(w.rule, w.node.startLine, FALSE, TRUE, ResolutionEdits(w)) : w \in Warnings(file)}
             \union {LspDiagnostic("unknown flag", e.node.startLine, TRUE, FALSE, FlagEdits(e)) :
                       e \in BuildErrors(Children(file))}
  IN  {d \in all : settings.overlapping => ~ShouldIgnore(d)}

CollectDockerfileDiagnostics(file, settings) ==
  BuildKitDiagnostics(file, settings) \union CalculateDiagnostics(file, settings)

(* TextDocumentCodeAction: an edit replaces the instruction of its         *)
(* diagnostic, and ignoring a rule writes a directive on the first line.   *)
FixInstruction(file, d, edit) == [file EXCEPT ![InstructionAtLine(file, d.line)] = edit]
IgnoreRule(file, d)           == <<Check(d.rule)>> \o file

=============================================================================
