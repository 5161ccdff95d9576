-------------------------- MODULE ComposeFormatting -------------------------
(***************************************************************************)
(* How the lines of a Compose file are indented (compose/formatting.go).   *)
(*                                                                         *)
(* A line is content, a comment, white space only ("blank", of any width)  *)
(* or a separator of documents.  dash is the width of the dash and the     *)
(* spaces before the content of an item of a list, 0 for other lines.      *)
(***************************************************************************)
EXTENDS Naturals, SequencesExt

CONSTANT LineLayouts   \* the files that are formatted, with the tab size: [lines, tab]

VARIABLE lines         \* one of them

Line == [kind : {"node", "comment", "blank", "separator"}, indent : Nat, dash : Nat]

AreLines(ls) ==
  /\ ls \in Seq(Line)
  /\ \A k \in DOMAIN ls : /\ ls[k].kind # "node" => ls[k].dash = 0
                          /\ ls[k].kind = "separator" => ls[k].indent = 0

ASSUME LinesAssumption ==
  \A l \in LineLayouts : l = [lines |-> l.lines, tab |-> l.tab] /\ AreLines(l.lines) /\ l.tab \in Nat \ {0}

-----------------------------------------------------------------------------
(* The levels are never cut (mutant).                                      *)
UpdateWithoutCutting(levels, original, tab) ==
  LET desired == IF levels = <<>> THEN tab ELSE Last(levels).desired + tab
  IN  Append(levels, [original |-> original, desired |-> desired])

(* updateIndentation: the levels after a line with an indentation: those   *)
(* up to the first that has it, or all of them and a new one.              *)
UpdateIndentation(levels, original, tab) ==
  LET known   == {i \in DOMAIN levels : levels[i].original = original}
      desired == IF levels = <<>> THEN tab ELSE Last(levels).desired + tab
  IN  IF known # {} THEN SubSeq(levels, 1, CHOOSE i \in known : \A h \in known : i <= h)
      ELSE Append(levels, [original |-> original, desired |-> desired])

(* The wanted indentation of a line and of the comments that wait for it.  *)
Settle(found, k, desired, levels, top) ==
  [levels |-> levels, comments |-> {}, top |-> top,
   wanted |-> [l \in DOMAIN found.wanted |->
                 IF l = k \/ l \in found.comments THEN desired ELSE found.wanted[l]]]

(* One line.  The first content after a separator is at the top level,     *)
(* however far it is indented.  A line without content that has spaces     *)
(* counts like one with content.                                           *)
FormatLine(line, tab, found, k) ==
  LET first  == line.kind = "node" /\ ~found.top
      levels == IF first /\ line.indent > 0
                THEN Append(found.levels, Last(UpdateIndentation(found.levels, line.indent, 0)))
                ELSE found.levels
      after  == UpdateIndentation(levels, line.indent, tab)
  IN  CASE line.kind = "comment"   -> [found EXCEPT !.comments = found.comments \union {k}]
        [] line.kind = "separator" -> Settle(found, k, 0, <<>>, FALSE)
        [] line.kind \in {"node", "blank"} /\ line.indent > 0 ->
             Settle(found, k, Last(after).desired, after, found.top \/ line.kind = "node")
        [] line.kind = "node" /\ line.indent = 0 -> Settle(found, k, 0, <<>>, TRUE)
        [] OTHER -> found

(* What is found of the indentations after each line.                      *)
NothingFound(ls) ==
  [levels |-> <<>>, comments |-> {}, top |-> FALSE, wanted |-> [l \in DOMAIN ls |-> ls[l].indent]]

Indentations(ls, tab) ==
  LET after[k \in 0 .. Len(ls)] ==
        IF k = 0 THEN NothingFound(ls) ELSE FormatLine(ls[k], tab, after[k - 1], k)
  IN  after

LineEdits(ls, tab) ==
  LET wanted == Indentations(ls, tab)[Len(ls)].wanted
  IN  {[line |-> k, indent |-> wanted[k]] : k \in {k \in DOMAIN ls : wanted[k] # ls[k].indent}}

FormattedLines(ls, tab) ==
  LET EditsOf(k) == {e \in LineEdits(ls, tab) : e.line = k}
  IN  [k \in DOMAIN ls |->
         IF EditsOf(k) = {} THEN ls[k]
         ELSE [ls[k] EXCEPT !.indent = (CHOOSE e \in EditsOf(k) : TRUE).indent]]

-----------------------------------------------------------------------------
(* What the parser accepts of the indentation: a line starts at a column   *)
(* that is open, or opens one to the right of all of them.  Items have a   *)
(* column of their own, which may be that of the key above the list, and   *)
(* the content of an item has another.                                     *)
Opened(line) ==
  IF line.dash = 0 THEN {<<line.indent, "content">>}
  ELSE {<<line.indent, "items">>, <<line.indent + line.dash, "content">>}

Fits(line, open) ==
  \/ \A c \in open : c[1] < line.indent
  \/ <<line.indent, "content">> \in open
  \/ line.dash > 0 /\ <<line.indent, "items">> \in open

OpenAfter(line, open) ==
  CASE line.kind = "separator" -> {}
    [] line.kind = "node"      -> {c \in open : c[1] <= line.indent} \union Opened(line)
    [] OTHER                   -> open

OpenColumns(ls) ==
  LET after[k \in 0 .. Len(ls)] == IF k = 0 THEN {} ELSE OpenAfter(ls[k], after[k - 1])
  IN  after

Parses(ls) == \A k \in DOMAIN ls : ls[k].kind = "node" => Fits(ls[k], OpenColumns(ls)[k - 1])

-----------------------------------------------------------------------------
InitLines == lines \in {l \in LineLayouts : Parses(l.lines)}

(* Formatting: a file that does not parse is left alone.                   *)
FormatFile ==
  /\ Parses(lines.lines)
  /\ LineEdits(lines.lines, lines.tab) # {}
  /\ lines' = [lines |-> FormattedLines(lines.lines, lines.tab), tab |-> lines.tab]

SpecLines == InitLines /\ [][FormatFile]_lines

-----------------------------------------------------------------------------
(* Formatting keeps the tree: a line that is to the right of another, at   *)
(* its column or at that of its item, stays so, and a formatted file has   *)
(* nothing left to format.  This is of files without lines of white space  *)
(* only, whose items are as wide as the tab and do not start with a key    *)
(* whose value is on the lines below: others lose their structure.         *)
IsContent(ls, k)  == ls[k].kind = "node"
Follows(ls, j, k) == j < k /\ \A i \in j + 1 .. k - 1 : ls[i].kind = "comment"

Regular(ls, tab) ==
  /\ \A k \in DOMAIN ls : ls[k].kind # "blank" /\ ls[k].dash \in {0, tab}
  /\ \A j, k \in DOMAIN ls :
        Follows(ls, j, k) /\ ls[j].dash > 0 /\ IsContent(ls, k) => ls[k].indent <= ls[j].indent + ls[j].dash

(* Line k is below j, or the first one after those that are.               *)
Related(ls, j, k) ==
  /\ j < k /\ \A i \in j .. k : ls[i].kind # "separator"
  /\ \A i \in j + 1 .. k - 1 : IsContent(ls, i) => ls[i].indent > ls[j].indent

Order(ls, j, k) ==
  <<ls[k].indent < ls[j].indent, ls[k].indent = ls[j].indent,
    ls[k].indent < ls[j].indent + ls[j].dash, ls[k].indent = ls[j].indent + ls[j].dash>>

KeepsTree(old, new) ==
  \A j, k \in DOMAIN old :
     IsContent(old, j) /\ IsContent(old, k) /\ Related(old, j, k) => Order(old, j, k) = Order(new, j, k)

FormattingKeepsTheTree ==
  LET old == lines.lines
      new == FormattedLines(old, lines.tab)
  IN  Regular(old, lines.tab) /\ Parses(old) =>
         Parses(new) /\ LineEdits(new, lines.tab) = {} /\ KeepsTree(old, new)

=============================================================================
