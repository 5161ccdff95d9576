-------------------------- MODULE DockerfileProofs --------------------------
(***************************************************************************)
(* Theorems about DockerfileEditing, for Dockerfiles of any length.  The   *)
(* lines and the instructions of a file are found by recursion along it;   *)
(* what is proved of them is proved by induction, for which a set of       *)
(* numbers has a least one.                                                *)
(***************************************************************************)
EXTENDS DockerfileEditing, SuccessionProofs

(* A file is a sequence, and its elements are as IsElement has them.       *)
LEMMA FileTypes ==
  ASSUME NEW file, IsDockerfile(file)
  PROVE  /\ Len(file) \in Nat /\ DOMAIN file = 1 .. Len(file)
         /\ \A i \in 1 .. Len(file) : IsElement(file[i]) /\ file[i].height \in Nat \ {0}
<1>1. \A S : file \in Seq(S) => Len(file) \in Nat /\ DOMAIN file = 1 .. Len(file)
  OBVIOUS
<1> QED
  BY <1>1 DEF IsDockerfile, IsElement

(* The recursive definition of the lines defines them.                     *)
LEMMA StartLinesDefined ==
  ASSUME NEW file, IsDockerfile(file)
  PROVE  /\ DOMAIN StartLines(file) = 1 .. Len(file)
         /\ \A k \in 1 .. Len(file) :
              StartLine(file, k) = IF k = 1 THEN 1 ELSE StartLine(file, k - 1) + file[k - 1].height
<1> DEFINE From(g, n) == [k \in 1 .. n |-> IF k = 1 THEN 1 ELSE g[k - 1] + file[k - 1].height]
           Good == {n \in 0 .. Len(file) : \E g : g = From(g, n)}
<1>1. \A n \in 0 .. Len(file) : n \in Good
  <2>1. 0 \in Good
    <3>1. From(<<>>, 0) = From(From(<<>>, 0), 0)
      OBVIOUS
    <3>2. 0 \in 0 .. Len(file)
      BY FileTypes
    <3> HIDE DEF From
    <3> QED
      BY <3>1, <3>2
  <2>2. ASSUME NEW n \in 0 .. Len(file) - 1, n \in Good PROVE n + 1 \in Good
    <3>1. PICK g : g = From(g, n)
      BY <2>2
    <3>2. n \in Nat /\ n + 1 \in 0 .. Len(file)
      BY FileTypes
    <3>3. \A k \in 1 .. n + 1 : k # 1 => g[k - 1] = From(g, n + 1)[k - 1]
      BY <3>1, <3>2
    <3>4. From(g, n + 1) = From(From(g, n + 1), n + 1)
      BY <3>3
    <3> QED
      BY <3>2, <3>4
  <2> HIDE DEF Good
  <2> QED
    BY <2>1, <2>2, FileTypes, InductionUpTo
<1>2. PICK g : g = From(g, Len(file))
  BY <1>1, FileTypes
<1>3. DOMAIN file = 1 .. Len(file)
  BY FileTypes
<1>4. StartLines(file) = From(StartLines(file), Len(file))
  BY <1>2, <1>3, ZenonT(30) DEF StartLines
<1> QED
  BY <1>4 DEF StartLine

(* The elements of a file start on lines that increase.                    *)
LEMMA StartLinesIncrease ==
  ASSUME NEW file, IsDockerfile(file)
  PROVE  /\ \A i \in 1 .. Len(file) : StartLine(file, i) \in Nat \ {0}
         /\ \A i, j \in 1 .. Len(file) : i < j => StartLine(file, i) < StartLine(file, j)
<1> DEFINE Good == {j \in 0 .. Len(file) :
                      \A k \in 1 .. j : /\ StartLine(file, k) \in Nat \ {0}
                                        /\ \A i \in 1 .. k - 1 : StartLine(file, i) < StartLine(file, k)}
<1>1. 0 \in Good
  BY FileTypes
<1>2. ASSUME NEW j \in 0 .. Len(file) - 1, j \in Good PROVE j + 1 \in Good
  <2>1. j \in Nat /\ j + 1 \in 0 .. Len(file) /\ j + 1 \in 1 .. Len(file)
    BY FileTypes
  <2>2. CASE j = 0
    <3>1. StartLine(file, 1) = 1
      BY <2>1, <2>2, StartLinesDefined
    <3> QED
      BY <2>1, <2>2, <3>1
  <2>3. CASE j # 0
    <3>1. /\ StartLine(file, j) \in Nat \ {0}
          /\ \A i \in 1 .. j - 1 : StartLine(file, i) \in Nat /\ StartLine(file, i) < StartLine(file, j)
      BY <1>2, <2>1, <2>3
    <3>2. file[j].height \in Nat \ {0}
      BY <2>1, <2>3, FileTypes
    <3>3. StartLine(file, j + 1) = StartLine(file, j) + file[j].height
      BY <2>1, <2>3, StartLinesDefined
    <3>4. StartLine(file, j + 1) \in Nat \ {0} /\ StartLine(file, j) < StartLine(file, j + 1)
      BY <3>1, <3>2, <3>3
    <3>5. ASSUME NEW i \in 1 .. j PROVE StartLine(file, i) < StartLine(file, j + 1)
      <4>1. i = j \/ i \in 1 .. j - 1
        BY <2>1
      <4> QED
        BY <3>1, <3>4, <4>1
    <3> QED
      BY <1>2, <2>1, <3>4, <3>5
  <2> QED
    BY <2>2, <2>3
<1>3. \A j \in 0 .. Len(file) : j \in Good
  <2> HIDE DEF Good
  <2> QED
    BY <1>1, <1>2, FileTypes, InductionUpTo
<1>4. Len(file) \in Nat /\ Len(file) \in Good
  BY <1>3, FileTypes
<1> QED
  BY <1>4

(* What the instructions among the first n elements of a file are.         *)
InOrder(file, is, n) ==
  /\ is \in Seq(1 .. n)
  /\ \A k \in 1 .. Len(is) : IsInstruction(file[is[k]])
  /\ \A j, k \in 1 .. Len(is) : j < k => is[j] < is[k]
  /\ \A i \in 1 .. n : IsInstruction(file[i]) => \E k \in 1 .. Len(is) : is[k] = i

(* The next element leaves them in order, whether it is an instruction or  *)
(* not.                                                                    *)
LEMMA NextInOrder ==
  ASSUME NEW file, NEW n \in Nat, NEW is, InOrder(file, is, n)
  PROVE  InOrder(file, IF IsInstruction(file[n + 1]) THEN Append(is, n + 1) ELSE is, n + 1)
<1>1. /\ is \in Seq(1 .. n) /\ is \in Seq(1 .. n + 1)
      /\ Len(is) \in Nat /\ \A k \in 1 .. Len(is) : is[k] \in 1 .. n
  BY DEF InOrder
<1>2. CASE IsInstruction(file[n + 1])
  <2>1. PICK new : new = Append(is, n + 1)
    OBVIOUS
  <2>2. /\ new \in Seq(1 .. n + 1) /\ Len(new) = Len(is) + 1 /\ new[Len(new)] = n + 1
        /\ \A k \in 1 .. Len(is) : new[k] = is[k]
    BY <1>1, <2>1
  <2>3. \A k \in 1 .. Len(new) : k \in 1 .. Len(is) \/ k = Len(new)
    BY <1>1, <2>2
  <2>4. \A k \in 1 .. Len(new) : IsInstruction(file[new[k]])
    BY <1>2, <2>2, <2>3 DEF InOrder
  <2>5. ASSUME NEW j \in 1 .. Len(new), NEW k \in 1 .. Len(new), j < k
        PROVE  new[j] < new[k]
    <3>1. j \in 1 .. Len(is)
      BY <1>1, <2>2, <2>5
    <3>2. CASE k \in 1 .. Len(is)
      BY <2>2, <2>5, <3>1, <3>2 DEF InOrder
    <3>3. CASE k = Len(new)
      <4>1. new[j] \in 1 .. n
        BY <1>1, <2>2, <3>1
      <4> QED
        BY <2>2, <3>3, <4>1
    <3> QED
      BY <2>3, <3>2, <3>3
  <2>6. ASSUME NEW i \in 1 .. n + 1, IsInstruction(file[i])
        PROVE  \E k \in 1 .. Len(new) : new[k] = i
    <3>1. CASE i = n + 1
      <4>1. Len(new) \in 1 .. Len(new)
        BY <1>1, <2>2
      <4> QED
        BY <2>2, <3>1, <4>1
    <3>2. CASE i # n + 1
      <4>1. i \in 1 .. n
        BY <3>2
      <4>2. PICK k \in 1 .. Len(is) : is[k] = i
        BY <2>6, <4>1 DEF InOrder
      <4>3. k \in 1 .. Len(new)
        BY <1>1, <2>2
      <4> QED
        BY <2>2, <4>2, <4>3
    <3> QED
      BY <3>1, <3>2
  <2> QED
    BY <1>2, <2>1, <2>2, <2>4, <2>5, <2>6 DEF InOrder
<1>3. CASE ~IsInstruction(file[n + 1])
  <2>1. \A i \in 1 .. n + 1 : IsInstruction(file[i]) => i \in 1 .. n
    BY <1>3
  <2> QED
    BY <1>1, <1>3, <2>1 DEF InOrder
<1> QED
  BY <1>2, <1>3

(* The recursive definition of the instructions defines them: they are in  *)
(* order, they are instructions, and all of them.                          *)
LEMMA InstructionsInOrder ==
  ASSUME NEW file, IsDockerfile(file)
  PROVE  InOrder(file, Instructions(file), Len(file))
<1> DEFINE Next(g, i)  == IF IsInstruction(file[i]) THEN Append(g[i - 1], i) ELSE g[i - 1]
           From(g, n)  == [i \in 0 .. n |-> IF i = 0 THEN <<>> ELSE Next(g, i)]
           Defined     == {n \in 0 .. Len(file) : \E g : g = From(g, n)}
<1>1. \A n \in 0 .. Len(file) : n \in Defined
  <2>1. 0 \in Defined
    <3>1. From(<<>>, 0) = From(From(<<>>, 0), 0)
      OBVIOUS
    <3>2. 0 \in 0 .. Len(file)
      BY FileTypes
    <3> HIDE DEF From
    <3> QED
      BY <3>1, <3>2
  <2>2. ASSUME NEW n \in 0 .. Len(file) - 1, n \in Defined PROVE n + 1 \in Defined
    <3> HIDE DEF Next
    <3>1. PICK g : g = From(g, n)
      BY <2>2
    <3>2. n \in Nat /\ n + 1 \in 0 .. Len(file)
      BY FileTypes
    <3>3. ASSUME NEW i \in 1 .. n + 1 PROVE g[i - 1] = From(g, n + 1)[i - 1]
      <4>1. i - 1 \in 0 .. n /\ i - 1 \in 0 .. n + 1
        BY <3>2
      <4> QED
        BY <3>1, <4>1
    <3>4. \A i \in 1 .. n + 1 : Next(g, i) = Next(From(g, n + 1), i)
      BY <3>3 DEF Next
    <3>5. From(g, n + 1) = From(From(g, n + 1), n + 1)
      BY <3>4
    <3> QED
      BY <3>2, <3>5
  <2> HIDE DEF Defined
  <2> QED
    BY <2>1, <2>2, FileTypes, InductionUpTo
<1>2. PICK g : g = From(g, Len(file))
  <2>1. Len(file) \in 0 .. Len(file)
    BY FileTypes
  <2> HIDE DEF From
  <2> QED
    BY <1>1, <2>1
<1>3. \E u : u = From(u, Len(file)) /\ Instructions(file) = u[Len(file)]
  BY <1>2, Zenon DEF Instructions
<1> HIDE DEF Next
<1>4. PICK u : u = From(u, Len(file)) /\ Instructions(file) = u[Len(file)]
  BY <1>3
<1>5. /\ u[0] = <<>>
      /\ \A n \in 0 .. Len(file) - 1 : u[n + 1] = Next(u, n + 1) /\ (n + 1) - 1 = n
  BY <1>4, FileTypes
<1> DEFINE Good == {n \in 0 .. Len(file) : InOrder(file, u[n], n)}
<1>6. 0 \in Good
  <2>1. InOrder(file, <<>>, 0)
    BY DEF InOrder
  <2> QED
    BY <1>5, <2>1, FileTypes
<1>7. ASSUME NEW n \in 0 .. Len(file) - 1, n \in Good PROVE n + 1 \in Good
  <2>1. n \in Nat /\ n + 1 \in 0 .. Len(file)
    BY FileTypes
  <2>2. u[n + 1] = IF IsInstruction(file[n + 1]) THEN Append(u[n], n + 1) ELSE u[n]
    BY <1>5 DEF Next
  <2> QED
    BY <1>7, <2>1, <2>2, NextInOrder
<1>8. \A n \in 0 .. Len(file) : n \in Good
  <2> HIDE DEF Good
  <2> QED
    BY <1>6, <1>7, FileTypes, InductionUpTo
<1> QED
  BY <1>4, <1>8, FileTypes

(* The nodes of a file, in the words of its instructions.                  *)
LEMMA Nodes ==
  ASSUME NEW file, IsDockerfile(file)
  PROVE  LET is == Instructions(file)
         IN  /\ Len(is) \in Nat /\ Len(Children(file)) = Len(is)
             /\ DOMAIN is = 1 .. Len(is) /\ DOMAIN Children(file) = 1 .. Len(is)
             /\ \A k \in 1 .. Len(is) : /\ is[k] \in 1 .. Len(file) /\ IsInstruction(file[is[k]])
                                        /\ Children(file)[k] = Node(file, is[k])
<1> PICK is : is = Instructions(file)
  OBVIOUS
<1>1. /\ is \in Seq(1 .. Len(file))
      /\ \A k \in 1 .. Len(is) : IsInstruction(file[is[k]])
  BY InstructionsInOrder DEF InOrder
<1>2. /\ Len(is) \in Nat /\ DOMAIN is = 1 .. Len(is)
      /\ \A k \in 1 .. Len(is) : is[k] \in 1 .. Len(file)
  BY <1>1
<1>3. Children(file) = [k \in DOMAIN is |-> Node(file, is[k])]
  BY DEF Children
<1>4. \A s, n : n \in Nat /\ DOMAIN s = 1 .. n => Len(s) = n
  OBVIOUS
<1> QED
  BY <1>1, <1>2, <1>3, <1>4

-----------------------------------------------------------------------------
(* What is written in a file keeps it one.                                 *)
LEMMA FileOf ==
  ASSUME NEW T, \A e \in T : IsElement(e), NEW file \in Seq(T)
  PROVE  IsDockerfile(file)
<1>1. DOMAIN file = 1 .. Len(file) /\ Len(file) \in Nat /\ \A i \in 1 .. Len(file) : file[i] \in T
  OBVIOUS
<1>2. file \in Seq(ToSet(file))
  BY <1>1 DEF ToSet
<1> QED
  BY <1>1, <1>2 DEF IsDockerfile

(* Replacing, inserting or removing an element leaves a file, and so does  *)
(* a line put above it.                                                    *)
LEMMA FileWritten ==
  ASSUME NEW file, IsDockerfile(file), NEW e, IsElement(e)
  PROVE  /\ \A i : IsDockerfile([file EXCEPT ![i] = e])
         /\ \A i \in 1 .. Len(file) : IsDockerfile(InsertAt(file, i, e)) /\ IsDockerfile(RemoveAt(file, i))
         /\ IsDockerfile(<<e>> \o file)
<1> DEFINE T == ToSet(file) \union {e}
<1>1. \A x \in T : IsElement(x)
  BY FileTypes DEF ToSet
<1>2. file \in Seq(T) /\ Len(file) \in Nat /\ e \in T
  BY FileTypes DEF IsDockerfile
<1> HIDE DEF T
<1>3. ASSUME NEW i PROVE [file EXCEPT ![i] = e] \in Seq(T)
  <2>1. DOMAIN file = 1 .. Len(file) /\ \A k \in 1 .. Len(file) : file[k] \in T
    BY <1>2
  <2>2. [file EXCEPT ![i] = e] \in [1 .. Len(file) -> T]
    BY <1>2, <2>1
  <2> QED
    BY <1>2, <2>2
<1>4. ASSUME NEW i \in 1 .. Len(file) PROVE InsertAt(file, i, e) \in Seq(T)
  <2>1. SubSeq(file, 1, i - 1) \in Seq(T) /\ SubSeq(file, i, Len(file)) \in Seq(T)
    BY <1>2
  <2> QED
    BY <1>2, <2>1 DEF InsertAt
<1>5. ASSUME NEW i \in 1 .. Len(file) PROVE RemoveAt(file, i) \in Seq(T)
  <2>1. SubSeq(file, 1, i - 1) \in Seq(T) /\ SubSeq(file, i + 1, Len(file)) \in Seq(T)
    BY <1>2
  <2> QED
    BY <1>2, <2>1 DEF RemoveAt
<1>6. <<e>> \o file \in Seq(T)
  BY <1>2
<1> QED
  BY <1>1, <1>3, <1>4, <1>5, <1>6, FileOf

(* What the edits of diagnostics write is an element.                      *)
LEMMA EditsWritten ==
  ASSUME NEW file, NEW s, NEW d \in CollectDockerfileDiagnostics(file, s), NEW edit \in d.edits
  PROVE  IsElement(edit)
<1>1. \A v, f, w : /\ IsElement(Instruction(v, f, w))
                   /\ IsElement([Instruction(v, f, w) EXCEPT !.form = "pairs"])
  BY DEF IsElement, Instruction, Element
<1>2. ASSUME NEW w, NEW e \in ResolutionEdits(w) PROVE IsElement(e)
  <2> DEFINE n == w.node
  <2>1. CASE n.words # <<>> /\ w.rule = "MaintainerDeprecated"
    BY <1>1, <1>2, <2>1 DEF ResolutionEdits
  <2>2. CASE n.words # <<>> /\ w.rule = "StageNameCasing"
    <3>1. e = Instruction(n.value, <<>>, [n.words EXCEPT ![3].capital = FALSE])
      BY <1>2, <2>2 DEF ResolutionEdits
    <3> QED
      BY <1>1, <3>1
  <2>3. CASE n.words # <<>> /\ w.rule = "RedundantTargetPlatform"
    <3>1. e = Instruction(n.value, WithoutTargetPlatform(n.flags), n.words)
      BY <1>2, <2>3 DEF ResolutionEdits
    <3> QED
      BY <1>1, <3>1
  <2>4. CASE n.words # <<>> /\ w.rule = "ConsistentInstructionCasing"
    <3>1. e = Instruction([n.value EXCEPT !.capital = Suggested(w)], n.flags, n.words)
      BY <1>2, <2>4 DEF ResolutionEdits
    <3> QED
      BY <1>1, <3>1
  <2>5. CASE n.words = <<>> \/ w.rule \notin {"MaintainerDeprecated", "StageNameCasing",
                                             "RedundantTargetPlatform", "ConsistentInstructionCasing"}
    BY <1>2, <2>5 DEF ResolutionEdits
  <2> QED
    BY <2>1, <2>2, <2>3, <2>4, <2>5
<1>3. ASSUME NEW w, NEW e \in FlagEdits(w) PROVE IsElement(e)
  <2>1. PICK v, f, x : e = Instruction(v, f, x)
    BY <1>3 DEF FlagEdits
  <2> QED
    BY <1>1, <2>1
<1>4. CASE d \in BuildKitDiagnostics(file, s)
  <2>1. \/ \E w : d = LspDiagnostic(w.rule, w.node.startLine, FALSE, TRUE, ResolutionEdits(w))
        \/ \E w : d = LspDiagnostic("unknown flag", w.node.startLine, TRUE, FALSE, FlagEdits(w))
    BY <1>4, Zenon DEF BuildKitDiagnostics
  <2>2. ASSUME NEW w, d = LspDiagnostic(w.rule, w.node.startLine, FALSE, TRUE, ResolutionEdits(w))
        PROVE  IsElement(edit)
    <3>1. d.edits = ResolutionEdits(w)
      BY <2>2 DEF LspDiagnostic
    <3> QED
      BY <1>2, <3>1
  <2>3. ASSUME NEW w, d = LspDiagnostic("unknown flag", w.node.startLine, TRUE, FALSE, FlagEdits(w))
        PROVE  IsElement(edit)
    <3>1. d.edits = FlagEdits(w)
      BY <2>3 DEF LspDiagnostic
    <3> QED
      BY <1>3, <3>1
  <2> QED
    BY <2>1, <2>2, <2>3
<1>5. CASE d \in CalculateDiagnostics(file, s)
  <2>1. PICK n, kind : d = LspDiagnostic(kind, n.startLine, FALSE, FALSE, ImageEdits(n, kind))
    BY <1>5 DEF CalculateDiagnostics, ImageDiagnostics
  <2>2. edit \in ImageEdits(n, kind)
    BY <2>1 DEF LspDiagnostic
  <2>3. PICK v, f, w : edit = Instruction(v, f, w)
    BY <2>2, Zenon DEF ImageEdits
  <2> QED
    BY <1>1, <2>3
<1> QED
  BY <1>4, <1>5 DEF CollectDockerfileDiagnostics

-----------------------------------------------------------------------------
(* Files between which no change is noticed have the same nodes, and the   *)
(* later one no check directive above them.                                *)
LEMMA Unnoticed ==
  ASSUME NEW old, IsDockerfile(old), NEW new, IsDockerfile(new), ~Parse(old, new)
  PROVE  /\ Children(old) = Children(new) /\ Len(Instructions(new)) \in Nat \ {0}
         /\ Len(Instructions(old)) = Len(Instructions(new))
         /\ \A i \in 1 .. Instructions(new)[1] - 1 : new[i].kind # "check"
<1>1. /\ Children(old) # <<>> /\ Children(new) # <<>>
      /\ Len(Children(old)) = Len(Children(new))
      /\ \A k \in DOMAIN Children(old) : ~CompareNodes(Children(old)[k], Children(new)[k])
      /\ \A i \in 1 .. Instructions(new)[1] - 1 : new[i].kind # "check"
  BY DEF Parse
<1> PICK n : n = Len(Instructions(old))
  OBVIOUS
<1>2. /\ n \in Nat /\ n = Len(Instructions(new))
      /\ DOMAIN Children(old) = 1 .. n /\ DOMAIN Children(new) = 1 .. n
  BY <1>1, Nodes
<1>3. ASSUME NEW k \in 1 .. n PROVE Children(old)[k] = Children(new)[k]
  <2>1. PICK i, j : Children(old)[k] = Node(old, i) /\ Children(new)[k] = Node(new, j)
    BY <1>2, Nodes
  <2>2. ~CompareNodes(Node(old, i), Node(new, j))
    BY <1>1, <1>2, <2>1
  <2> QED
    BY <2>1, <2>2 DEF CompareNodes, Node
<1>4. Children(old) = [k \in 1 .. n |-> Children(old)[k]] /\ Children(new) = [k \in 1 .. n |-> Children(new)[k]]
  BY <1>2, Nodes DEF Children
<1>5. Children(old) = Children(new)
  BY <1>3, <1>4
<1>6. n # 0
  <2>1. \A s : s = [k \in 1 .. 0 |-> s[k]] => s = <<>>
    OBVIOUS
  <2> QED
    BY <1>1, <1>4, <2>1
<1> QED
  BY <1>1, <1>2, <1>5, <1>6

(* A file that has the nodes of another, in the same ways of writing, and  *)
(* no check directive that the other had as a comment, has its warnings.   *)
SameWays(old, new) ==
  /\ \A k \in DOMAIN Instructions(old) :
       old[Instructions(old)[k]].form = new[Instructions(new)[k]].form
  /\ \A i \in DOMAIN old \intersect DOMAIN new : old[i].kind = "check" => new[i].kind # "comment"

(* Neither file then starts with a check directive: none is skipped.       *)
LEMMA SkippedUnnoticed ==
  ASSUME NEW old, IsDockerfile(old), NEW new, IsDockerfile(new),
         ~Parse(old, new), SameWays(old, new)
  PROVE  Skipped(old) = {} /\ Skipped(new) = {}
<1> PICK is, js : is = Instructions(old) /\ js = Instructions(new)
  OBVIOUS
<1>1. /\ 1 \in 1 .. Len(is) /\ 1 \in 1 .. Len(js)
      /\ is[1] \in 1 .. Len(old) /\ IsInstruction(old[is[1]])
      /\ js[1] \in 1 .. Len(new) /\ IsInstruction(new[js[1]])
      /\ Children(old)[1] = Node(old, is[1]) /\ Children(new)[1] = Node(new, js[1])
  BY Unnoticed, Nodes
<1>2. /\ Len(old) \in Nat /\ Len(new) \in Nat
      /\ 1 \in 1 .. Len(old) /\ 1 \in 1 .. Len(new) /\ IsElement(new[1])
      /\ DOMAIN old = 1 .. Len(old) /\ DOMAIN new = 1 .. Len(new)
  BY <1>1, FileTypes
<1>3. new[1].kind # "check"
  <2>1. CASE js[1] = 1
    BY <1>1, <2>1 DEF IsInstruction
  <2>2. CASE js[1] # 1
    <3>1. 1 \in 1 .. Instructions(new)[1] - 1
      BY <1>1, <1>2, <2>2
    <3> QED
      BY <3>1, Unnoticed
  <2> QED
    BY <2>1, <2>2
<1>4. old[1].kind # "check"
  <2> SUFFICES ASSUME old[1].kind = "check" PROVE FALSE
    OBVIOUS
  <2>1. IsInstruction(new[1])
    BY <1>2, <1>3 DEF SameWays, IsElement, IsInstruction
  <2>2. js[1] = 1
    <3>1. PICK k \in 1 .. Len(js) : js[k] = 1
      BY <1>2, <2>1, InstructionsInOrder DEF InOrder
    <3>2. 1 < k => js[1] < js[k]
      BY <1>1, InstructionsInOrder DEF InOrder
    <3>3. Len(js) \in Nat
      BY Nodes
    <3> QED
      BY <1>1, <1>2, <3>1, <3>2, <3>3
  <2>3. is[1] # 1
    BY <1>1 DEF IsInstruction
  <2>4. StartLine(old, 1) < StartLine(old, is[1]) /\ StartLine(old, 1) = 1 /\ StartLine(new, 1) = 1
    BY <1>1, <1>2, <2>3, StartLinesIncrease, StartLinesDefined
  <2>5. StartLine(old, is[1]) = StartLine(new, 1)
    BY <1>1, <2>2, Unnoticed DEF Node
  <2> QED
    BY <2>4, <2>5
<1> QED
  BY <1>3, <1>4 DEF Skipped

(* What was reported of the one file is what would be of the other.        *)
LEMMA DiagnosticsUnnoticed ==
  ASSUME NEW old, IsDockerfile(old), NEW new, IsDockerfile(new), NEW s,
         ~Parse(old, new), SameWays(old, new)
  PROVE  CollectDockerfileDiagnostics(old, s) = CollectDockerfileDiagnostics(new, s)
<1>1. Children(old) = Children(new) /\ Skipped(old) = Skipped(new)
  BY Unnoticed, SkippedUnnoticed
<1>2. \A k \in DOMAIN Children(old) :
         old[Instructions(old)[k]].form = new[Instructions(new)[k]].form
  BY Nodes DEF SameWays
<1>3. Warnings(old) = Warnings(new)
  BY <1>1, <1>2 DEF Warnings
<1>4. CalculateDiagnostics(old, s) = CalculateDiagnostics(new, s)
  BY <1>1 DEF CalculateDiagnostics
<1>5. BuildKitDiagnostics(old, s) = BuildKitDiagnostics(new, s)
  BY <1>1, <1>3 DEF BuildKitDiagnostics
<1> QED
  BY <1>4, <1>5 DEF CollectDockerfileDiagnostics

-----------------------------------------------------------------------------
(* The diagnostics shown are always those of a file that the one the       *)
(* editor has was changed from unnoticed.  The changes in between leave no *)
(* trace: every one of them keeps the nodes.                               *)
DockerfileInv ==
  /\ IsDockerfile(dockerfile) /\ IsDockerfile(seen)
  /\ reported = CollectDockerfileDiagnostics(seen, settings)
  /\ seen = dockerfile \/ ~Parse(seen, dockerfile)

(* Two changes in a row that go unnoticed (parse) are one that would have. *)
LEMMA ChangeUnnoticed ==
  ASSUME NEW old, NEW file, NEW new, IsDockerfile(old), IsDockerfile(file), IsDockerfile(new),
         ~Parse(old, file), ~Parse(file, new)
  PROVE  ~Parse(old, new)
<1>1. Children(old) = Children(file) /\ Len(Children(file)) = Len(Children(new))
  BY Unnoticed
<1> QED
  BY <1>1 DEF Parse

(* The file that is opened is read and reported (TextDocumentDidOpen).     *)
LEMMA InitInv == InitDockerfile => DockerfileInv
  BY DockerfileAssumption DEF InitDockerfile, DockerfileInv

(* A change is reported when the nodes differ, and is otherwise unnoticed  *)
(* (TextDocumentDidChange).                                                *)
LEMMA ChangeInv ==
  ASSUME DockerfileInv, NEW new, IsDockerfile(new), Change(new)
  PROVE  DockerfileInv'
<1>1. CASE Parse(dockerfile, new)
  BY <1>1 DEF DockerfileInv, Change
<1>2. CASE ~Parse(dockerfile, new)
  <2>1. seen = dockerfile \/ ~Parse(seen, dockerfile) => ~Parse(seen, new)
    BY <1>2, ChangeUnnoticed DEF DockerfileInv
  <2> QED
    BY <1>2, <2>1 DEF DockerfileInv, Change
<1> QED
  BY <1>1, <1>2

(* Every edit, code action and change of the settings keeps the invariant. *)
LEMMA NextInv ==
  ASSUME DockerfileInv, [NextDockerfile]_dockerfileVars
  PROVE  DockerfileInv'
<1>1. DOMAIN dockerfile = 1 .. Len(dockerfile) /\ IsDockerfile(dockerfile)
  BY FileTypes DEF DockerfileInv
<1>2. ASSUME NEW i \in DOMAIN dockerfile, NEW e \in WrittenElements,
             WriteElement(i, e) \/ InsertElement(i, e)
      PROVE  DockerfileInv'
  <2>1. IsElement(e)
    BY DockerfileAssumption
  <2>2. IsDockerfile([dockerfile EXCEPT ![i] = e]) /\ IsDockerfile(InsertAt(dockerfile, i, e))
    BY <1>1, <2>1, FileWritten
  <2> QED
    BY <1>2, <2>2, ChangeInv DEF WriteElement, InsertElement
<1>3. ASSUME NEW i \in DOMAIN dockerfile, DeleteElement(i)
      PROVE  DockerfileInv'
  <2>1. IsElement(dockerfile[i])
    BY <1>1, FileTypes
  <2>2. IsDockerfile(RemoveAt(dockerfile, i))
    BY <1>1, <2>1, FileWritten
  <2> QED
    BY <1>3, <2>2, ChangeInv DEF DeleteElement
<1>4. ASSUME NEW d \in reported, AcceptFix(d)
      PROVE  DockerfileInv'
  <2>1. PICK edit \in d.edits : Change(FixInstruction(dockerfile, d, edit))
    BY <1>4 DEF AcceptFix
  <2>2. IsElement(edit)
    BY EditsWritten DEF DockerfileInv
  <2>3. IsDockerfile(FixInstruction(dockerfile, d, edit))
    BY <1>1, <2>2, FileWritten DEF FixInstruction
  <2> QED
    BY <2>1, <2>3, ChangeInv
<1>5. ASSUME NEW d \in reported, AcceptIgnore(d)
      PROVE  DockerfileInv'
  <2>1. IsElement(Check(d.rule))
    BY DEF IsElement, Check, Element
  <2>2. IsDockerfile(IgnoreRule(dockerfile, d))
    BY <1>1, <2>1, FileWritten DEF IgnoreRule
  <2> QED
    BY <1>5, <2>2, ChangeInv DEF AcceptIgnore
<1>6. ASSUME NEW s \in SettingsValues, ChangeSettings(s)
      PROVE  DockerfileInv'
  BY <1>6 DEF DockerfileInv, ChangeSettings
<1>7. CASE UNCHANGED dockerfileVars
  BY <1>7 DEF DockerfileInv, dockerfileVars
<1> QED
  BY <1>2, <1>3, <1>4, <1>5, <1>6, <1>7 DEF NextDockerfile

(* TextDocumentDidChange: the diagnostics shown are those of the text and  *)
(* of the settings, whatever changes were taken for none (parse,           *)
(* compareNodes), in files of any length, after any number of edits.       *)
THEOREM DiagnosticsAreCurrent == SpecDockerfile => []DiagnosticsFollowEdits
<1>1. DockerfileInv => DiagnosticsFollowEdits
  <2> SUFFICES ASSUME DockerfileInv, NodesTellAll
               PROVE  reported = CollectDockerfileDiagnostics(dockerfile, settings)
    BY DEF DiagnosticsFollowEdits
  <2>1. CASE seen = dockerfile
    BY <2>1 DEF DockerfileInv
  <2>2. CASE ~Parse(seen, dockerfile)
    <3>1. Len(Instructions(seen)) = Len(Instructions(dockerfile))
      BY <2>2, Unnoticed DEF DockerfileInv
    <3>2. SameWays(seen, dockerfile)
      BY <3>1, Nodes DEF DockerfileInv, NodesTellAll, SameWays
    <3> QED
      BY <2>2, <3>2, DiagnosticsUnnoticed DEF DockerfileInv
  <2> QED
    BY <2>1, <2>2 DEF DockerfileInv
<1> QED
  BY <1>1, InitInv, NextInv, PTL DEF SpecDockerfile

-----------------------------------------------------------------------------
(* Of an image that is built from, the diagnostics at its line are those   *)
(* that the settings want: no other instruction starts there.              *)
FoundAt(file, s, line) ==
  {d.rule : d \in {d \in CalculateDiagnostics(file, s) : d.line = line}}

WantedOf(s, image) ==
  IF ~s.scanning THEN {} ELSE {kind \in ToSet(Response(image).diagnostics) : Wanted(s, kind)}

(* The rules found at the line of an image are those that are wanted of    *)
(* it.                                                                     *)
LEMMA FoundAtLine ==
  ASSUME NEW file, IsDockerfile(file), NEW s, NEW i \in 1 .. Len(file),
         file[i].value.text = "FROM", file[i].words # <<>>
  PROVE  FoundAt(file, s, StartLine(file, i)) = WantedOf(s, file[i].words[1].text)
<1> DEFINE found  == FoundAt(file, s, StartLine(file, i))
           wanted == WantedOf(s, file[i].words[1].text)
<1>1. CASE ~s.scanning
  BY <1>1 DEF CalculateDiagnostics, FoundAt, WantedOf
<1>2. CASE s.scanning
  <2>1. PICK k \in DOMAIN Children(file) : Children(file)[k] = Node(file, i)
    <3>1. IsInstruction(file[i])
      BY FileTypes DEF IsElement, IsInstruction
    <3>2. PICK k \in 1 .. Len(Instructions(file)) : Instructions(file)[k] = i
      BY <3>1, InstructionsInOrder DEF InOrder
    <3> QED
      BY <3>2, Nodes
  <2>2. /\ Node(file, i).value.text = "FROM" /\ Node(file, i).words = file[i].words
        /\ Node(file, i).startLine = StartLine(file, i)
    BY DEF Node
  <2>3. ASSUME NEW n \in ToSet(Children(file)), n.startLine = StartLine(file, i)
        PROVE  n = Node(file, i)
    <3>1. PICK j \in 1 .. Len(file) : n = Node(file, j)
      BY Nodes DEF ToSet
    <3>2. StartLine(file, j) = StartLine(file, i)
      BY <2>3, <3>1 DEF Node
    <3>3. j = i
      BY <3>2, StartLinesIncrease, FileTypes
    <3> QED
      BY <3>1, <3>3
  <2>4. \A n, kind : LET d == LspDiagnostic(kind, n.startLine, FALSE, FALSE, ImageEdits(n, kind))
                     IN  d.rule = kind /\ d.line = n.startLine
    BY DEF LspDiagnostic
  <2>5. ASSUME NEW kind \in found PROVE kind \in wanted
    <3>1. PICK d \in CalculateDiagnostics(file, s) : d.line = StartLine(file, i) /\ kind = d.rule
      BY DEF FoundAt
    <3>2. PICK n \in ToSet(Children(file)) : d \in ImageDiagnostics(s, n)
      BY <1>2, <3>1 DEF CalculateDiagnostics
    <3>3. PICK x \in ToSet(Response(n.words[1].text).diagnostics) :
             /\ Wanted(s, x)
             /\ d = LspDiagnostic(x, n.startLine, FALSE, FALSE, ImageEdits(n, x))
      BY <3>2 DEF ImageDiagnostics
    <3>4. d.rule = x /\ d.line = n.startLine
      BY <3>3 DEF LspDiagnostic
    <3>5. n = Node(file, i)
      BY <2>3, <3>1, <3>4
    <3> QED
      BY <1>2, <2>2, <3>1, <3>3, <3>4, <3>5 DEF WantedOf
  <2>6. ASSUME NEW kind \in wanted PROVE kind \in found
    <3> DEFINE n == Node(file, i)
               d == LspDiagnostic(kind, n.startLine, FALSE, FALSE, ImageEdits(n, kind))
    <3>1. d \in ImageDiagnostics(s, n)
      BY <1>2, <2>2 DEF ImageDiagnostics, WantedOf
    <3>2. n \in ToSet(Children(file))
      BY <2>1 DEF ToSet
    <3>3. d \in CalculateDiagnostics(file, s)
      BY <1>2, <2>2, <3>1, <3>2 DEF CalculateDiagnostics
    <3>4. d.rule = kind /\ d.line = StartLine(file, i)
      BY <2>2 DEF LspDiagnostic
    <3> HIDE DEF d
    <3> QED
      BY <3>3, <3>4 DEF FoundAt
  <2> QED
    BY <2>5, <2>6
<1> QED
  BY <1>1, <1>2

(* ServiceImpl: hover, the diagnostics of a Dockerfile and those of a tag  *)
(* in a Bake file agree about every image, whatever Scout has found of it  *)
(* and whatever the settings are.                                          *)
THEOREM ScoutIsConsistent == SpecDockerfile => []ScoutAnswersAgree
<1>1. DockerfileInv => ScoutAnswersAgree
  <2> SUFFICES ASSUME IsDockerfile(dockerfile), NEW i \in DOMAIN dockerfile,
                      dockerfile[i].value.text = "FROM", dockerfile[i].words # <<>>,
                      NEW image, image = dockerfile[i].words[1].text,
                      NEW found, found = FoundAt(dockerfile, settings, StartLine(dockerfile, i))
               PROVE  /\ ReportedTag(settings, image)
                           <=> found \intersect {"critical_high_vulnerabilities", "vulnerabilities"} # {}
                      /\ ((ScoutHover(settings, image) \intersect ToSet(Response(image).diagnostics))
                            \ {"not_pinned_digest"})
                           = ((found \intersect Response(image).infos) \ {"not_pinned_digest"})
    BY DEF ScoutAnswersAgree, DockerfileInv, FoundAt
  <2>1. i \in 1 .. Len(dockerfile)
    BY FileTypes
  <2>2. found = WantedOf(settings, image)
    BY <2>1, FoundAtLine
  <2> QED
    BY <2>2 DEF WantedOf, ReportedTag, Analyze, ScoutHover
<1> QED
  BY <1>1, InitInv, NextInv, PTL DEF SpecDockerfile

=============================================================================
