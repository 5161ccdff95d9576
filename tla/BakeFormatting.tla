--------------------------- MODULE BakeFormatting ---------------------------
(***************************************************************************)
(* How a block of a Bake file is formatted (bake/hcl/formatting.go).       *)
(*                                                                         *)
(* A layout is one block with at most one attribute: the number of each    *)
(* line, what the lines are indented with, and what is written between two *)
(* tokens (a gap).  An edit replaces the indentation of a line, or a gap.  *)
(***************************************************************************)
EXTENDS Naturals, FiniteSets, Sequences

CONSTANT Layouts   \* the layouts of a block that is formatted

VARIABLE layout    \* how one of the blocks is laid out

(* What is between two tokens of a line: nothing, one character, several   *)
(* white ones, or something else (a comment, or the = of an object's item) *)
(* with or without a space on its sides.                                   *)
Gaps     == {"none", "one", "wide", "tight", "spaced"}
ItemGaps == {"=", " =", "= ", " = ", " =  "}
Indents  == {"", "unit", "unit unit", "other"}
Places   == {"label", "brace", "open", "name", "value", "end"}

(* What the parser takes for a block: an attribute on the block's own line *)
(* ends on the line of the closing brace, any other one above it; and the  *)
(* items of an object are in order.                                        *)
IsLayout(l) ==
  /\ l \in [attribute : Nat \ {0}, object : BOOLEAN, objectEnd : Nat, close : Nat,
            items : Seq([line : Nat \ {0}, gap : ItemGaps]), indent : Seq(Indents),
            gaps : UNION {[P -> Gaps] : P \in SUBSET Places}]
  /\ l.close = Len(l.indent) /\ l.attribute <= l.objectEnd
  /\ IF l.attribute = 1 THEN l.objectEnd = l.close ELSE l.objectEnd < l.close
  /\ \A k \in DOMAIN l.items : l.attribute <= l.items[k].line /\ l.items[k].line <= l.objectEnd
  /\ \A j, k \in DOMAIN l.items : j < k => l.items[j].line <= l.items[k].line

ASSUME LayoutAssumption == \A l \in Layouts : IsLayout(l)

OneLine(l) == l.close = 1

(* spaceBetween: one character is left alone, whatever it is.              *)
SpaceBetween(gap) ==
  CASE gap \in {"none", "wide"} -> "one"
    [] gap = "tight"            -> "spaced"
    [] OTHER                    -> gap

(* formatRight: exactly one space after the =, unless it is all there is.  *)
FormatRight(gap) == IF gap \in {" =", " =  "} THEN " = " ELSE gap

IndentEdit(line, indent)  == [edit |-> "indent", line |-> line, text |-> indent]
GapEdit(place, gap)       == [edit |-> "gap", place |-> place, text |-> gap]
ItemEdit(item, gap)       == [edit |-> "item", item |-> item, text |-> gap]

(* A mutant that indents the first item of an object in any case.          *)
WantedIndentsOfAll(l) ==
  {IndentEdit(1, "")} \union
  (IF OneLine(l) THEN {}
   ELSE {IndentEdit(l.attribute, "unit"), IndentEdit(l.close, "")}
          \union (IF l.object /\ l.attribute # l.objectEnd
                  THEN {IndentEdit(l.items[k].line, "unit unit") : k \in DOMAIN l.items}
                         \union {IndentEdit(l.objectEnd, "unit")}
                  ELSE {}))

(* The first item of an object with a line of its own.                     *)
FirstItem(l) == IF l.items # <<>> /\ l.items[1].line = l.attribute THEN 2 ELSE 1

(* The lines that are looked at, with the indentation that is wanted, in   *)
(* the order of the code: the block, its attribute, the items of an object *)
(* that is not on one line, the end of the object and the end of the block.*)
WantedIndents(l) ==
  LET inner  == {IndentEdit(l.items[k].line, "unit unit") : k \in FirstItem(l) .. Len(l.items)}
      object == IF l.object /\ l.attribute # l.objectEnd
                THEN inner \union {IndentEdit(l.objectEnd, "unit")} ELSE {}
  IN  {IndentEdit(1, "")} \union
      (IF OneLine(l) THEN {}
       ELSE {IndentEdit(l.attribute, "unit"), IndentEdit(l.close, "")} \union object)

(* indentLine.                                                             *)
IndentEdits(l) == {e \in WantedIndents(l) : l.indent[e.line] # e.text}

(* The gaps that spaceBetween looks at: those of the header, the one after *)
(* the = of the attribute, and in a block of one line those around it too. *)
CheckedGaps(l) ==
  {p \in DOMAIN l.gaps : OneLine(l) \/ p \in {"label", "brace", "value"}}

GapEdits(l) ==
  {GapEdit(p, SpaceBetween(l.gaps[p])) :
     p \in {p \in CheckedGaps(l) : l.gaps[p] # SpaceBetween(l.gaps[p])}}

(* The items that were indented.                                           *)
ItemEdits(l) ==
  LET changed == {k \in FirstItem(l) .. Len(l.items) : l.items[k].gap # FormatRight(l.items[k].gap)}
  IN  IF l.object /\ l.attribute # l.objectEnd /\ ~OneLine(l)
      THEN {ItemEdit(k, FormatRight(l.items[k].gap)) : k \in changed} ELSE {}

Formatting(l) == IndentEdits(l) \union GapEdits(l) \union ItemEdits(l)

(* What is written in a place that some edits are about.                   *)
Rewritten(old, edits) == IF edits = {} THEN old ELSE (CHOOSE e \in edits : TRUE).text

(* The layout after the edits.                                             *)
Formatted(l) ==
  [l EXCEPT
     !.indent = [n \in DOMAIN @ |-> Rewritten(@[n], {e \in IndentEdits(l) : e.line = n})],
     !.gaps = [p \in DOMAIN @ |-> Rewritten(@[p], {e \in GapEdits(l) : e.place = p})],
     !.items = [k \in DOMAIN @ |->
                  [line |-> @[k].line,
                   gap  |-> Rewritten(@[k].gap, {e \in ItemEdits(l) : e.item = k})]]]

(* The edits of a formatting request are applied.                          *)
FormatLayout ==
  /\ Formatting(layout) # {}
  /\ layout' = Formatted(layout)

LayoutSpec == layout \in Layouts /\ [][FormatLayout]_layout

-----------------------------------------------------------------------------
(* No two edits of a formatting replace the same text, and once they are   *)
(* applied there is nothing left to format; if no two items of an object,  *)
(* and not its last item and its closing brace, share a line, and a block  *)
(* that starts on the line of its attribute ends there.  Items that do get *)
(* two edits for its indentation, and such a block is indented by one      *)
(* formatting and moved back by the next.                                  *)
OneItemPerLine(l) ==
  /\ l.attribute = 1 => OneLine(l)
  /\ \A j, k \in DOMAIN l.items : j # k => l.items[j].line # l.items[k].line
  /\ \A k \in DOMAIN l.items : l.items[k].line # l.objectEnd

Place(edit) == [edit EXCEPT !.text = ""]

FormattingSettles ==
  OneItemPerLine(layout) =>
    /\ \A e, f \in Formatting(layout) : Place(e) = Place(f) => e = f
    /\ Formatting(Formatted(layout)) = {}

=============================================================================
