------------------------- MODULE DockerfileDocument -------------------------
(***************************************************************************)
(* A Dockerfile, what the parser makes of it, and when a change of it is   *)
(* taken for one (pkg/document/dockerfileDocument.go).                     *)
(*                                                                         *)
(* A Dockerfile is a sequence of comments, check directives (comments with *)
(* "check=") and instructions.  A word is in capitals or not; a flag has a *)
(* name, in the parts that can be mistaken for it, and a value, and if it  *)
(* is not known perhaps the one that was meant.  An instruction is written *)
(* "plain", as "json", with a "heredoc" or as "pairs" of names and values; *)
(* its body is what its words do not have: the text of a heredoc.          *)
(***************************************************************************)
EXTENDS Naturals, SequencesExt

Word(text)    == [text |-> text, capital |-> FALSE]
Capital(text) == [text |-> text, capital |-> TRUE]

Flag(name, value)            == [name |-> name, value |-> value, known |-> TRUE, meant |-> <<>>]
UnknownFlag(name, v, meant)  == [name |-> name, value |-> v, known |-> FALSE, meant |-> meant]

Element(kind, value, flags, words) ==
  [kind |-> kind, value |-> value, flags |-> flags, words |-> words,
   height |-> 1, form |-> "plain", body |-> ""]

Comment(text)                 == Element("comment", Word(text), <<>>, <<>>)
Check(rule)                   == Element("check", Word(rule), <<>>, <<>>)
Instruction(value, flags, ws) == Element("instruction", value, flags, ws)

IsInstruction(e) == e.kind = "instruction"

(* What a file can have: only instructions have words, and an element has  *)
(* at least one line.                                                      *)
IsElement(e) ==
  /\ e.kind \in {"comment", "check", "instruction"} /\ e.height \in Nat \ {0}
  /\ e.kind # "instruction" => e.words = <<>>

IsDockerfile(file) ==
  /\ file \in Seq(ToSet(file))
  /\ \A i \in DOMAIN file : IsElement(file[i])

(* The line on which element i starts, and that on which it ends.          *)
StartLines(file) ==
  LET line[k \in DOMAIN file] == IF k = 1 THEN 1 ELSE line[k - 1] + file[k - 1].height
  IN  line

StartLine(file, i) == StartLines(file)[i]
EndLine(file, i)   == StartLine(file, i) + file[i].height - 1

(* The elements that are instructions, in their order.                     *)
Instructions(file) ==
  LET upTo[i \in 0 .. Len(file)] ==
        IF i = 0 THEN <<>>
        ELSE IF IsInstruction(file[i]) THEN Append(upTo[i - 1], i) ELSE upTo[i - 1]
  IN  upTo[Len(file)]

(* parser.Parse: a node for each instruction.  A node does not tell how    *)
(* the instruction is written, nor what is in a heredoc.  A file without   *)
(* instructions does not parse.                                            *)
Node(file, i) ==
  [value |-> file[i].value, flags |-> file[i].flags, words |-> file[i].words,
   startLine |-> StartLine(file, i), endLine |-> EndLine(file, i)]

Children(file) ==
  LET is == Instructions(file) IN [k \in DOMAIN is |-> Node(file, is[k])]

(* Instruction: the element whose node is at a line.                       *)
InstructionAtLine(file, line) ==
  CHOOSE i \in ToSet(Instructions(file)) : StartLine(file, i) <= line /\ line <= EndLine(file, i)

-----------------------------------------------------------------------------
(* Whether nodes differ without a look at their flags (mutant).            *)
CompareWords(n1, n2) ==
  \/ n1.startLine # n2.startLine \/ n1.endLine # n2.endLine
  \/ n1.value # n2.value \/ n1.words # n2.words

(* compareNodes: whether nodes differ.                                     *)
CompareNodes(n1, n2) ==
  \/ n1.flags # n2.flags
  \/ n1.startLine # n2.startLine \/ n1.endLine # n2.endLine
  \/ n1.value # n2.value \/ n1.words # n2.words

(* parse: whether a document that changes from one text to the other is    *)
(* said to have changed.  Of the comments, those above the first           *)
(* instruction count if a check directive is among the new ones.           *)
Parse(old, new) ==
  LET children    == Children(old)
      newChildren == Children(new)
  IN  \/ children = <<>> \/ newChildren = <<>>
      \/ Len(children) # Len(newChildren)
      \/ \E k \in DOMAIN children : CompareNodes(children[k], newChildren[k])
      \/ \E i \in 1 .. Instructions(new)[1] - 1 : new[i].kind = "check"

=============================================================================
