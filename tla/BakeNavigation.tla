--------------------------- MODULE BakeNavigation ---------------------------
(***************************************************************************)
(* All cursors in a Bake file, and its hovers, which look for a variable   *)
(* anywhere in an expression.                                              *)
(***************************************************************************)
EXTENDS BakeReferences

(* All paths into an expression.                                           *)
RECURSIVE Paths(_)
Paths(e) ==
  LET Below(children, number(_)) ==
        UNION {{<<number(k)>> \o p : p \in Paths(children[k])} : k \in DOMAIN children}
  IN  CASE e.kind \in {"template", "wrap", "conditional", "binary", "for"} -> Below(e.children, LAMBDA k : k)
        [] e.kind = "tuple" -> {<<>>} \union Below(e.children, LAMBDA k : k)
        [] e.kind = "call" -> {<<1>>} \union Below(e.children, LAMBDA k : k + 1)
        [] e.kind = "object" ->
             {<<>>} \union {<<2 * k - 1>> : k \in DOMAIN e.items}
               \union Below([k \in DOMAIN e.items |-> e.items[k].value], LAMBDA k : 2 * k)
        [] e.kind = "attributeRef" -> {<<1>>, <<2>>, <<3>>}
        [] OTHER -> {<<>>}

Cursors(doc) ==
  {LabelCursor(i) : i \in {i \in DOMAIN doc : doc[i].labels # <<>>}} \union
  UNION {UNION {{ExprCursor(i, a, p) : p \in Paths(doc[i].attrs[a])} :
                  a \in DOMAIN doc[i].attrs} : i \in DOMAIN doc}

-----------------------------------------------------------------------------
(* extractVariableName: the first variable of the expression, wherever in  *)
(* it the cursor is; calls and conditions are not looked into.             *)
RECURSIVE ExtractVariableName(_)
ExtractVariableName(e) ==
  LET First(names) == LET k == SelectInSeq(names, LAMBDA n : n # "")
                      IN  IF k = 0 THEN "" ELSE names[k]
  IN  CASE e.kind = "ref" -> e.name
        [] e.kind = "attributeRef" -> "target.t.a"
        [] e.kind \in {"tuple", "wrap", "template"} ->
             First([k \in DOMAIN e.children |-> ExtractVariableName(e.children[k])])
        [] e.kind = "object" ->
             First([k \in DOMAIN e.items |-> ExtractVariableName(e.items[k].value)])
        [] OTHER -> ""

(* hoveredVariableName.                                                    *)
HoveredVariableName(doc, cursor) ==
  IF cursor.at = "label"
  THEN IF doc[cursor.block].type = "variable" THEN doc[cursor.block].labels[1] ELSE ""
  ELSE ExtractVariableName(doc[cursor.block].attrs[cursor.attribute])

(* A mutant that shows the first default there is.                         *)
HoverAnyVariable(doc, cursor) ==
  LET name == HoveredVariableName(doc, cursor)
  IN  SelectInSeq(doc, LAMBDA b : name # "" /\ b.type = "variable" /\ Has(b, "default"))

(* Hover: the block whose default is shown, or 0: the documentation of the *)
(* schema, if the cursor is at a part of it.                               *)
Hover(doc, cursor) ==
  LET name == HoveredVariableName(doc, cursor)
  IN  SelectInSeq(doc, LAMBDA b : /\ name # "" /\ b.type = "variable" /\ Labelled(b, name)
                                  /\ Has(b, "default"))

=============================================================================
