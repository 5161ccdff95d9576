-------------------------- MODULE DockerfileEditing --------------------------
(***************************************************************************)
(* A Dockerfile while it is edited, by hand and with the edits that come   *)
(* with its diagnostics, and while the user changes settings.  Diagnostics *)
(* are collected when a change of the text is noticed, and for all         *)
(* documents when settings change.                                         *)
(***************************************************************************)
EXTENDS DockerfileDiagnostics

CONSTANTS
  InitialDockerfile,
  WrittenElements,     \* what a person writes in place of an element, or in front of it
  SettingsValues,      \* values of the settings
  MaxDockerfileEdits   \* bound on the number of edits and changes

ASSUME DockerfileAssumption ==
  IsDockerfile(InitialDockerfile) /\ \A e \in WrittenElements : IsElement(e)

VARIABLES
  dockerfile,  \* the text that the editor has
  seen,        \* the text that the diagnostics shown were collected of
  reported,    \* the diagnostics shown
  settings,
  written      \* how many edits and changes were made

dockerfileVars == <<dockerfile, seen, reported, settings, written>>

InitDockerfile ==
  /\ dockerfile = InitialDockerfile /\ seen = InitialDockerfile
  /\ settings \in SettingsValues
  /\ reported = CollectDockerfileDiagnostics(dockerfile, settings)
  /\ written = 0

(* didChange: Overwrite says whether the document changed, and if it did   *)
(* its diagnostics are collected.                                          *)
Change(new) ==
  /\ written < MaxDockerfileEdits /\ written' = written + 1
  /\ dockerfile' = new
  /\ IF Parse(dockerfile, new)
     THEN /\ seen' = new
          /\ reported' = CollectDockerfileDiagnostics(new, settings)
     ELSE UNCHANGED <<seen, reported>>
  /\ UNCHANGED settings

WriteElement(i, e)  == Change([dockerfile EXCEPT ![i] = e])
InsertElement(i, e) == Change(InsertAt(dockerfile, i, e))
DeleteElement(i)    == Change(RemoveAt(dockerfile, i))

AcceptFix(d) == \E edit \in d.edits : Change(FixInstruction(dockerfile, d, edit))
AcceptIgnore(d) == d.ignore /\ Change(IgnoreRule(dockerfile, d))

(* didChangeConfiguration, down to recomputeDiagnostics.  Whether other    *)
(* servers' diagnostics are left out is settled by initialize.             *)
ChangeSettings(s) ==
  /\ written < MaxDockerfileEdits /\ written' = written + 1
  /\ s # settings /\ s.overlapping = settings.overlapping
  /\ settings' = s
  /\ seen' = dockerfile
  /\ reported' = CollectDockerfileDiagnostics(dockerfile, s)
  /\ UNCHANGED dockerfile

NextDockerfile ==
  \/ \E i \in DOMAIN dockerfile, e \in WrittenElements : WriteElement(i, e) \/ InsertElement(i, e)
  \/ \E i \in DOMAIN dockerfile : DeleteElement(i)
  \/ \E d \in reported : AcceptFix(d) \/ AcceptIgnore(d)
  \/ \E s \in SettingsValues : ChangeSettings(s)

SpecDockerfile == InitDockerfile /\ [][NextDockerfile]_dockerfileVars

-----------------------------------------------------------------------------
(* The diagnostics shown are those of the text as it is, with the settings *)
(* as they are, also after changes that were taken for none; but for a     *)
(* check directive that is turned into another comment, a way of writing   *)
(* that the nodes do not tell, and the text of a heredoc.                  *)
NodesTellAll ==
  LET WayOf(file) == [k \in DOMAIN Instructions(file) |->
                           LET e == file[Instructions(file)[k]] IN <<e.form, e.body>>]
  IN  /\ WayOf(seen) = WayOf(dockerfile)
      /\ \A i \in DOMAIN seen \intersect DOMAIN dockerfile :
            seen[i].kind = "check" => dockerfile[i].kind # "comment"

DiagnosticsFollowEdits ==
  NodesTellAll => reported = CollectDockerfileDiagnostics(dockerfile, settings)

(* The edit of a diagnostic takes it away and is noticed, and what other   *)
(* rules say stays, but for the casing, which depends on all instructions, *)
(* and what Scout says of the image; of an instruction that is plain, and  *)
(* not a FROM with flags for the name of its stage.  To ignore a rule      *)
(* takes away its warnings and no others, unless there is a directive      *)
(* already.                                                                *)
NthInstruction(file, line) ==
  Cardinality({l \in {n.startLine : n \in ToSet(Children(file))} : l <= line})

Found(file) ==
  {[rule |-> d.rule, at |-> NthInstruction(file, d.line)] : d \in CollectDockerfileDiagnostics(file, settings)}

Plain(d) ==
  LET instruction == dockerfile[InstructionAtLine(dockerfile, d.line)]
  IN  /\ instruction.form = "plain"
      /\ d.rule = "StageNameCasing" => instruction.flags = <<>>

DockerfileFixesRemoveTheirWarnings ==
  LET diagnostics == CollectDockerfileDiagnostics(dockerfile, settings)
      now == Found(dockerfile)
      OfOthers(found, rule, at) ==
        {f \in found : /\ f.rule \notin {rule, "ConsistentInstructionCasing"}
                       /\ f.at # at \/ f.rule \in Rules}
      FixedAt(d, at, found) ==
        /\ [rule |-> d.rule, at |-> at] \notin found
        /\ OfOthers(found, d.rule, at) = OfOthers(now, d.rule, at)
  IN  \A d \in diagnostics :
        /\ Plain(d) =>
             \A after \in {FixInstruction(dockerfile, d, edit) : edit \in d.edits} :
                /\ \A found \in {Found(after)} : FixedAt(d, NthInstruction(dockerfile, d.line), found)
                /\ Parse(dockerfile, after)
        /\ d.ignore /\ dockerfile[1].kind # "check" =>
             LET after == IgnoreRule(dockerfile, d)
             IN  /\ Found(after) = {f \in now : f.rule # d.rule}
                 /\ Parse(dockerfile, after)

(* Whatever the settings are, the three places agree about an image: a tag *)
(* in a Bake file is reported exactly if a FROM with its image is, for     *)
(* vulnerabilities, and hover tells of a kind if a diagnostic does.        *)
ScoutAnswersAgree ==
  \A i \in {i \in DOMAIN dockerfile : dockerfile[i].value.text = "FROM" /\ dockerfile[i].words # <<>>} :
     LET image == dockerfile[i].words[1].text
         found == {d.rule : d \in {d \in CalculateDiagnostics(dockerfile, settings) :
                                     d.line = StartLine(dockerfile, i)}}
     IN  /\ ReportedTag(settings, image)
              <=> found \intersect {"critical_high_vulnerabilities", "vulnerabilities"} # {}
         /\ ((ScoutHover(settings, image) \intersect ToSet(Response(image).diagnostics)) \ {"not_pinned_digest"})
              = ((found \intersect Response(image).infos) \ {"not_pinned_digest"})

=============================================================================
