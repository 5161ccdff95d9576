----------------------------- MODULE BakeFiles ------------------------------
(***************************************************************************)
(* A Bake file and its Dockerfiles while they are edited, by hand and with *)
(* the edits that the server offers.  The features answer from the same    *)
(* documents, each with its own search through them: the properties say    *)
(* that their answers fit together.                                        *)
(***************************************************************************)
EXTENDS BakeAnswers, BakeCompletion, BakeFormatting, BakeSemanticTokens

CONSTANTS
  DocEdits,      \* the attributes that are written: [block, attribute, value]
  FileEdits,     \* the Dockerfiles that are written: [path, nodes]
  MaxEdits,      \* bound on the number of edits
  FirstLayout,   \* one of Layouts
  Texts,         \* the lines that semantic tokens are asked for
  FirstText      \* one of them

VARIABLES
  edits,   \* how many edits were made
  text     \* the line of one of its attributes, with a comment

vars == <<doc, files, edits, layout, text>>

(* Formatting looks at white space only, and semantic tokens at one line   *)
(* after the other: a behaviour edits the blocks, or it has no blocks and  *)
(* starts with any of the layouts or of the lines.                         *)
Init ==
  /\ files = InitialFiles
  /\ edits = 0
  /\ \/ doc = InitialDoc /\ layout = FirstLayout /\ text = FirstText
     \/ doc = <<>> /\ layout \in Layouts /\ text = FirstText
     \/ doc = <<>> /\ layout = FirstLayout /\ text \in Texts

Count ==
  /\ edits < MaxEdits /\ doc # <<>>
  /\ edits' = edits + 1
  /\ UNCHANGED <<layout, text>>

(* A person writes an attribute, or takes it out.                          *)
WriteAttribute(e) ==
  /\ Count
  /\ doc' = [doc EXCEPT ![e.block].attrs =
               [a \in DOMAIN doc[e.block].attrs \union {e.attribute} |->
                  IF a = e.attribute THEN e.value ELSE doc[e.block].attrs[a]]]
  /\ UNCHANGED files

(* A new block above the others, which has no label yet.                   *)
StartBlock ==
  /\ Count
  /\ \A i \in DOMAIN doc : doc[i].labels # <<>>
  /\ doc' = <<[type |-> "variable", labels |-> <<>>, attrs |-> [a \in {} |-> a]]>> \o doc
  /\ UNCHANGED files

WriteDockerfile(e) ==
  /\ Count
  /\ files' = [f \in DOMAIN files \union {e.path} |-> IF f = e.path THEN e.nodes ELSE files[f]]
  /\ UNCHANGED doc

(* The quick fix of a diagnostic (codeAction.go): of the rules here, only  *)
(* the ignored dockerfile comes with an edit.                              *)
ApplyQuickFix(d) ==
  /\ Count
  /\ d.rule = "dockerfile ignored"
  /\ doc' = RemoveDockerfileAttribute(doc, d.block)
  /\ UNCHANGED files

Offered(cursor) ==
  IF Completion(doc, files, cursor).from = "document" THEN Completion(doc, files, cursor).labels ELSE {}

AcceptCompletion(cursor) ==
  /\ Count
  /\ \E label \in Offered(cursor) : doc' = Accept(doc, cursor, label)
  /\ UNCHANGED files

AcceptInlineCompletion ==
  /\ Count
  /\ \E line \in Lines, block \in InlineCompletion(doc, files, "blank") :
        /\ block \in InlineCompletion(doc, files, line)
        /\ doc' = Append(doc, block)
  /\ UNCHANGED files

Format ==
  /\ doc = <<>> /\ FormatLayout
  /\ UNCHANGED <<doc, files, edits, text>>

Next ==
  \/ Format
  \/ \E e \in DocEdits : WriteAttribute(e)
  \/ StartBlock
  \/ \E e \in FileEdits : WriteDockerfile(e)
  \/ \E d \in Diagnostics : ApplyQuickFix(d)
  \/ \E c \in Cursors(doc) : AcceptCompletion(c)
  \/ AcceptInlineCompletion

Spec == Init /\ [][Next]_vars

-----------------------------------------------------------------------------
(* A hover shows the default of the variable that the definition leads to, *)
(* in an attribute with one variable.  With several, it is the first of    *)
(* them that is shown, whichever the cursor is in.                         *)
VariablesOf(i, attribute) ==
  {v \in DOMAIN doc :
     /\ doc[v].type = "variable"
     /\ \E p \in Paths(doc[i].attrs[attribute]) :
          Definition(doc, Top, files, ExprCursor(i, attribute, p)) = BlockLocation(v)}

HoverFollowsDefinition ==
  \A c \in Cursors(doc) :
     c.at = "value" /\ Cardinality(VariablesOf(c.block, c.attribute)) = 1 =>
        Hover(doc, c) \in VariablesOf(c.block, c.attribute) \union {0}

-----------------------------------------------------------------------------
ItemOf(c) == IF c.attribute = "args" THEN (c.path[1] + 1) \div 2 ELSE 0

(* What the server offers is not reported by it: a label that is accepted, *)
(* or a target that is.  The target of a stage is not offered again.       *)
SuggestionsAreNotReported ==
  /\ \A c \in Cursors(doc) : \A label \in Offered(c) :
        ~\E d \in CollectDiagnostics(Accept(doc, c, label), files, Vulnerable, Keyed) :
           d.block = c.block /\ d.attribute = c.attribute /\ d.item = ItemOf(c)
  /\ \A line \in Lines : \A block \in InlineCompletion(doc, files, line) :
        LET after == Append(doc, block)
        IN  /\ block \notin InlineCompletion(after, files, line)
            /\ ~\E d \in CollectDiagnostics(after, files, Vulnerable, Keyed) : d.block = Len(after)

(* A quick fix takes away the warning that it belongs to, and leaves all   *)
(* the other diagnostics as they are.                                      *)
QuickFixRemovesItsWarning ==
  \A d \in Diagnostics : d.rule = "dockerfile ignored" =>
     CollectDiagnostics(RemoveDockerfileAttribute(doc, d.block), files, Vulnerable, Keyed)
       = Diagnostics \ {d}

-----------------------------------------------------------------------------
(* The editor decodes the tokens that were found, in their order, and none *)
(* of them starts before the one in front of it has ended; if there are    *)
(* spaces around operators.  Without them, what is taken for the end of an *)
(* interpolation is in the way.                                            *)
RECURSIVE Spaced(_)
Spaced(e) ==
  CASE e.kind \in {"template", "wrap", "tuple", "conditional", "binary"} ->
         /\ e.kind = "binary" => e.spaces
         /\ \A k \in DOMAIN e.children : Spaced(e.children[k])
    [] e.kind = "object" -> \A k \in DOMAIN e.items : Spaced(e.items[k].value)
    [] OTHER -> TRUE

TokensAreDisjoint ==
  LET tokens == Decode(SemanticTokensFull(text))
  IN  /\ ToSet(tokens) = ToSet(CollectedTokens(text))
      /\ Spaced(text.value) =>
           \A k \in 1 .. Len(tokens) - 1 :
              tokens[k].line = tokens[k + 1].line => tokens[k].to <= tokens[k + 1].from

=============================================================================
