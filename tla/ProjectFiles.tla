---------------------------- MODULE ProjectFiles ----------------------------
(***************************************************************************)
(* A project with a Bake file, Compose files and Dockerfiles.  An editor   *)
(* has one side of it open and edits that: the Bake file with the          *)
(* Dockerfiles it names, the Compose files, or a Dockerfile for itself.    *)
(* No answer about one side depends on what is written on another but for  *)
(* the stages of the Dockerfiles, which the Compose side takes as they are *)
(* at first.                                                               *)
(***************************************************************************)
EXTENDS BakeFiles, DockerfileEditing, ComposeFormatting, ComposeProject

CONSTANTS
  RootSchema, ComposeFile, Written, NewName, MaxComposeEdits, FirstLines  \* of ComposeFiles

VARIABLES
  opened,   \* the side that is open
  made      \* of ComposeFiles

composeVars == <<compose, made, lines>>

FirstStages(path) == IF path \in DOMAIN InitialFiles THEN Stages(InitialFiles[path]) ELSE {}

Compose == INSTANCE ComposeFiles WITH Stages <- FirstStages

FirstSettings == CHOOSE s \in SettingsValues : TRUE

(* Nothing is asked about the sides that are not open: they are left out.  *)
NoBake       == doc = <<>> /\ files = <<>> /\ edits = 0 /\ layout = FirstLayout /\ text = FirstText
NoCompose    == compose = <<>> /\ made = 0 /\ lines = FirstLines
NoDockerfile == dockerfile = <<>> /\ seen = <<>> /\ reported = {} /\ settings = FirstSettings /\ written = 0

InitProject ==
  \/ opened = "bake" /\ Init /\ NoCompose /\ NoDockerfile
  \/ opened = "compose" /\ Compose!InitCompose /\ NoBake /\ NoDockerfile
  \/ opened = "dockerfile" /\ InitDockerfile /\ NoBake /\ NoCompose

EditBake       == opened = "bake" /\ Next /\ UNCHANGED <<opened, composeVars, dockerfileVars>>
EditCompose    == opened = "compose" /\ Compose!NextCompose /\ UNCHANGED <<opened, vars, dockerfileVars>>
EditDockerfile == opened = "dockerfile" /\ NextDockerfile /\ UNCHANGED <<opened, vars, composeVars>>

NextProject == EditBake \/ EditCompose \/ EditDockerfile

SpecProject == InitProject /\ [][NextProject]_<<opened, vars, composeVars, dockerfileVars>>

-----------------------------------------------------------------------------
(* The properties of BakeFiles, DockerfileEditing, ComposeFormatting and    *)
(* ComposeProject are as they are there; two sides have this one together. *)

(* The edit that comes with a diagnostic takes it away, and leaves what    *)
(* other rules say (codeAction.go; see QuickFixRemovesItsWarning for Bake  *)
(* files, DockerfileFixesRemoveTheirWarnings for Dockerfiles).             *)
FixesRemoveTheirWarnings ==
  /\ opened = "bake" => QuickFixRemovesItsWarning
  /\ opened = "dockerfile" => DockerfileFixesRemoveTheirWarnings

-----------------------------------------------------------------------------
(* The properties of ComposeFiles, in the states that they are about.      *)
Edited == opened = "compose" /\ lines = FirstLines

(* Renaming to a name that is not in use leaves every use of a name in the *)
(* file bound to the declaration, and every alias to the anchor, it was    *)
(* bound to (rename.go).                                                   *)
RenamePreservesBindings == Edited => Compose!RenamePreservesBindings

(* Hover shows the declaration that definition leads to (hover.go,         *)
(* definition.go).                                                         *)
HoverShowsDefinition == Edited => Compose!HoverShowsDefinition

(* A name that completion offers leads to its declaration once it is       *)
(* accepted, and what the snippet of an attribute has one choose from is   *)
(* what completion offers for its value (completion.go).                   *)
CompletedNamesResolve == Edited => Compose!CompletedNamesResolve

(* What completion offers from the schema, hover explains with the same    *)
(* words (schema.go, hover.go).                                            *)
CompletedAttributesAreExplained == Edited => Compose!CompletedAttributesAreExplained

=============================================================================
