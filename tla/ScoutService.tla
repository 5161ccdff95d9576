---------------------------- MODULE ScoutService -----------------------------
(***************************************************************************)
(* What of Docker Scout's findings about an image is shown (scout/         *)
(* service.go).  The same four settings choose, in each of three places,   *)
(* among what the cache has: a response with the kinds of its diagnostics  *)
(* and of its infos, and with edits, each for a kind of diagnostic.        *)
(*                                                                         *)
(* settings.scanning is whether there is anything to show at all, and      *)
(* settings.kinds has the kinds that are turned on.                        *)
(***************************************************************************)
EXTENDS DockerfileDocument

CONSTANT Response(_)   \* the response for an image (external)

Kinds == {"critical_high_vulnerabilities", "not_pinned_digest", "recommended_tag", "vulnerabilities"}

(* A setting has no say about a kind that is not one of the four.          *)
Wanted(settings, kind) == kind \in Kinds => kind \in settings.kinds

(* Hover, of an image: no setting turns infos of the second kind off.      *)
ScoutHover(settings, image) ==
  IF ~settings.scanning THEN {}
  ELSE {kind \in Response(image).infos : kind = "not_pinned_digest" \/ Wanted(settings, kind)}

(* All the findings, whatever the settings are (mutant).                   *)
AnalyzeAll(settings, image) ==
  IF ~settings.scanning THEN {} ELSE ToSet(Response(image).diagnostics)

(* Analyze, of a tag in a Bake file: the diagnostics that are wanted, and  *)
(* in front of them as many without a kind as there are.                   *)
Analyze(settings, image) ==
  LET all == ToSet(Response(image).diagnostics)
  IN  IF ~settings.scanning THEN {}
      ELSE {"" : kind \in all} \union {kind \in all : Wanted(settings, kind)}

(* The tag is reported if one of these is about vulnerabilities.           *)
ReportedTag(settings, image) ==
  Analyze(settings, image) \intersect {"critical_high_vulnerabilities", "vulnerabilities"} # {}

LspDiagnostic(rule, line, error, ignore, edits) ==
  [rule |-> rule, line |-> line, error |-> error, ignore |-> ignore, edits |-> edits]

(* The edits of a kind write another image in the place of the one of a    *)
(* node.                                                                   *)
ImageEdits(n, kind) ==
  {Instruction(n.value, n.flags, <<Word(e.edit)>> \o Tail(n.words)) :
     e \in {e \in Response(n.words[1].text).edits : e.diagnostic = kind}}

(* CalculateDiagnostics, of a Dockerfile: for each FROM what is wanted of  *)
(* its image.                                                              *)
ImageDiagnostics(settings, n) ==
  {LspDiagnostic(kind, n.startLine, FALSE, FALSE, ImageEdits(n, kind)) :
     kind \in {kind \in ToSet(Response(n.words[1].text).diagnostics) : Wanted(settings, kind)}}

CalculateDiagnostics(file, settings) ==
  LET froms == {n \in ToSet(Children(file)) : n.value.text = "FROM" /\ n.words # <<>>}
  IN  IF ~settings.scanning THEN {} ELSE UNION {ImageDiagnostics(settings, n) : n \in froms}

=============================================================================
