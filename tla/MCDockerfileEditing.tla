------------------------- MODULE MCDockerfileEditing -------------------------
(* An instance of DockerfileEditing: a comment and three instructions, an  *)
(* image with findings and one without, and flags that are mistaken.       *)
EXTENDS DockerfileDocument

MCResponse(image) ==
  CASE image = "old" -> [diagnostics |-> <<"vulnerabilities", "not_pinned_digest", "new_kind">>,
                         infos |-> {"vulnerabilities", "recommended_tag"},
                         edits |-> {[diagnostic |-> "vulnerabilities", edit |-> "good"]}]
    [] OTHER -> [diagnostics |-> <<>>, infos |-> {"recommended_tag"}, edits |-> {}]

MCDockerfile ==
  <<Comment("c"),
    Instruction(Capital("FROM"), <<Flag(<<"plat", "form">>, "$TARGETPLATFORM")>>,
            <<Word("old"), Word("AS"), Capital("S")>>),
    Instruction(Word("RUN"), <<>>, <<Word("x")>>),
    Instruction(Capital("CMD"), <<>>, <<Word("x")>>)>>

MCElements ==
  {Comment("c"), Check("JSONArgsRecommended"),
   Instruction(Capital("FROM"), <<>>, <<Word("good"), Word("AS"), Capital("S")>>),
   Instruction(Word("MAINTAINER"), <<>>, <<Word("m")>>),
   [Instruction(Word("RUN"), <<UnknownFlag(<<"plat">>, "", <<>>)>>, <<Word("x")>>) EXCEPT !.height = 2],
   Instruction(Word("FROM"), <<UnknownFlag(<<"plt">>, "p", <<"plat", "form">>)>>, <<Word("old")>>),
   [Instruction(Capital("RUN"), <<>>, <<Word("<<E")>>) EXCEPT !.height = 3, !.form = "heredoc", !.body = "a"],
   [Instruction(Capital("CMD"), <<>>, <<Word("x")>>) EXCEPT !.form = "json"]}

Show(scanning, kinds, overlapping) == [scanning |-> scanning, kinds |-> kinds, overlapping |-> overlapping]

All == {"critical_high_vulnerabilities", "not_pinned_digest", "recommended_tag", "vulnerabilities"}

MCSettings == {Show(TRUE, All, FALSE), Show(FALSE, All, FALSE), Show(TRUE, {"not_pinned_digest"}, TRUE)}

=============================================================================
