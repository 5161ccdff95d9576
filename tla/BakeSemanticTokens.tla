------------------------- MODULE BakeSemanticTokens -------------------------
(***************************************************************************)
(* The semantic tokens of a Bake file (bake/hcl/semanticTokens.go), for a  *)
(* line with an attribute and a comment that may go on over more lines.    *)
(* Here columns matter.  A name, a number and the text between quotes have *)
(* the width of one column, and a line is a record                         *)
(*   [line, value, comment]: its number, the expression, and the comment   *)
(*   that follows it as [style, pieces, crlf], pieces being the number of  *)
(*   characters that it has on each of its lines.                          *)
(***************************************************************************)
EXTENDS BakeDocument

Token(type, line, from, to) == [type |-> type, line |-> line, from |-> from, to |-> to]

-----------------------------------------------------------------------------
(* How the expressions are written: the widths, and where the children of  *)
(* an expression that starts in column 0 start.                            *)
RECURSIVE Width(_), Offset(_, _)
Width(e) ==
  CASE e.kind = "literal"      -> 3
    [] e.kind = "wrap"         -> Width(e.children[1]) + 5
    [] e.kind = "template"     -> Offset(e, Len(e.children) + 1) + 1
    [] e.kind = "tuple"        ->
         IF e.children = <<>> THEN 2 ELSE Offset(e, Len(e.children)) + Width(Last(e.children)) + 1
    [] e.kind = "object"       ->
         IF e.items = <<>> THEN 2 ELSE Offset(e, Len(e.items)) + Width(Last(e.items).value) + 1
    [] e.kind = "conditional"  -> Offset(e, 3) + Width(e.children[3])
    [] e.kind = "binary"       -> Offset(e, 2) + Width(e.children[2])
    [] OTHER                   -> 1

Offset(e, k) ==
  CASE k = 1 /\ e.kind = "wrap"     -> 3
    [] k = 1 /\ e.kind = "template" -> IF e.children[1].kind = "literal" THEN 1 ELSE 3
    [] k = 1 /\ e.kind = "tuple"    -> 1
    [] k = 1 /\ e.kind = "object"   -> 5
    [] k = 1 /\ e.kind \notin {"wrap", "template", "tuple", "object"} -> 0
    [] k > 1 /\ e.kind = "template" ->
         Offset(e, k - 1) + (IF e.children[k - 1].kind = "literal" THEN 1 ELSE Width(e.children[k - 1]) + 1)
           + (IF k \in DOMAIN e.children /\ e.children[k].kind # "literal" THEN 2 ELSE 0)
    [] k > 1 /\ e.kind = "tuple"    -> Offset(e, k - 1) + Width(e.children[k - 1]) + 2
    [] k > 1 /\ e.kind = "object"   -> Offset(e, k - 1) + Width(e.items[k - 1].value) + 6
    [] k > 1 /\ e.kind = "binary"   -> Width(e.children[1]) + (IF e.spaces THEN 3 ELSE 1)
    [] OTHER                        -> Offset(e, k - 1) + Width(e.children[k - 1]) + 3

-----------------------------------------------------------------------------
(* wrapInterpolation: ${ in the columns from, the variable, and } before   *)
(* to.                                                                     *)
WrapInterpolation(line, from, to, start, width) ==
  <<Token("operator", line, from, from + 2),
    Token("variable", line, start, start + width),
    Token("operator", line, to - 1, to)>>

(* evaluateToken.  A variable that is not on the top level is taken for    *)
(* one in ${}, be it alone there or a part of an expression.               *)
RECURSIVE EvaluateToken(_, _, _, _, _)
EvaluateToken(e, line, at, topLevel, insertLiterals) ==
  LET width == Width(e)
      Quote(column) == Token("string", line, column, column + 1)
      Each(n, top, insert(_), child(_)) ==
        FlattenSeq([k \in 1 .. n |->
          EvaluateToken(child(k), line, at + Offset(e, k), top, insert(k))])
  IN  CASE e.kind = "ref" /\ topLevel  -> <<Token("variable", line, at, at + 1)>>
        [] e.kind = "ref" /\ ~topLevel -> WrapInterpolation(line, at - 2, at + 2, at, 1)
        [] e.kind = "tuple" ->
             Each(Len(e.children), TRUE, LAMBDA k : insertLiterals, LAMBDA k : e.children[k])
        [] e.kind = "template" ->
             <<Quote(at)>>
               \o FlattenSeq([k \in DOMAIN e.children |->
                    IF e.children[k].kind = "literal" THEN <<>>
                    ELSE EvaluateToken(e.children[k], line, at + Offset(e, k), FALSE, FALSE)])
               \o <<Quote(at + width - 1)>>
        [] e.kind = "literal" ->
             IF insertLiterals THEN <<Token("string", line, at, at + 3)>> ELSE <<>>
        [] e.kind = "wrap" ->
             <<Quote(at)>>
               \o WrapInterpolation(line, at + 1, at + width - 1, at + 3, width - 5)
               \o <<Quote(at + width - 1)>>
        [] e.kind = "object" ->
             Each(Len(e.items), topLevel, LAMBDA k : FALSE, LAMBDA k : e.items[k].value)
        [] e.kind = "conditional" ->
             Each(3, topLevel, LAMBDA k : k > 1, LAMBDA k : e.children[k])
        [] e.kind = "binary" -> Each(2, topLevel, LAMBDA k : TRUE, LAMBDA k : e.children[k])
        [] OTHER -> <<>>

-----------------------------------------------------------------------------
(* convertSingleLineCommentToken is for a comment whose token includes the *)
(* end of its line.  It looks for \r at a column, as if it were the offset *)
(* in the file: only on the first line is it found, and left out.          *)
ConvertSingleLineComment(comment, line, at) ==
  Token("comment", line, at, at + comment.pieces[1] + (IF comment.crlf /\ line # 1 THEN 1 ELSE 0))

(* convertMultilineCommentTokens: a token for each line that is not empty, *)
(* and for the last one.                                                   *)
ConvertMultilineComment(comment, line, at) ==
  LET Piece(k) == Token("comment", line + k - 1, IF k = 1 THEN at ELSE 1,
                        (IF k = 1 THEN at ELSE 1) + comment.pieces[k])
      kept == SelectSeq([k \in DOMAIN comment.pieces |-> k],
                        LAMBDA k : comment.pieces[k] # 0 \/ k = Len(comment.pieces))
  IN  [n \in DOMAIN kept |-> Piece(kept[n])]

(* A comment in one style that ends its line, or in the other.             *)
CommentTokens(comment, line, at) ==
  CASE comment.style = "none" -> <<>>
    [] comment.style = "#"    -> <<ConvertSingleLineComment(comment, line, at)>>
    [] comment.style = "/*"   ->
         IF Len(comment.pieces) = 1
         THEN <<Token("comment", line, at, at + comment.pieces[1])>>
         ELSE ConvertMultilineComment(comment, line, at)

(* The tokens of hcl-lang: the name of the attribute, and the strings that *)
(* are its value or an entry of it.                                        *)
DecoderTokens(text) ==
  LET e == text.value
      String(child, at) ==
        IF child.kind = "literal" THEN <<Token("string", text.line, at, at + 3)>> ELSE <<>>
  IN  <<Token("property", text.line, 1, 2)>> \o
      CASE e.kind = "tuple" ->
             FlattenSeq([k \in DOMAIN e.children |-> String(e.children[k], 5 + Offset(e, k))])
        [] e.kind = "object" ->
             FlattenSeq([k \in DOMAIN e.items |-> String(e.items[k].value, 5 + Offset(e, k))])
        [] OTHER -> String(e, 5)

(* All the tokens, in the order they are collected in.                     *)
CollectedTokens(text) ==
  DecoderTokens(text)
    \o EvaluateToken(text.value, text.line, 5, TRUE, FALSE)
    \o CommentTokens(text.comment, text.line, 6 + Width(text.value))

Before(s, t) == s.line < t.line \/ (s.line = t.line /\ s.from < t.from)

(* A mutant of the sort: the column decides, then the line.                *)
SortTokensByColumn(tokens) ==
  SortSeq(tokens, LAMBDA s, t : s.from < t.from \/ (s.from = t.from /\ s.line < t.line))

SortTokens(tokens) == SortSeq(tokens, Before)

-----------------------------------------------------------------------------
(* A token is sent as its distance from the one before, in unsigned        *)
(* integers: a negative distance wraps around.  Modulus stands for 2^32.   *)
Modulus == 2 ^ 20

Unsigned(n) == n % Modulus

Encode(tokens) ==
  [k \in DOMAIN tokens |->
     LET line == IF k = 1 THEN 1 ELSE tokens[k - 1].line
         from == IF k = 1 \/ line # tokens[k].line THEN 1 ELSE tokens[k - 1].from
     IN  [deltaLine |-> Unsigned(tokens[k].line - line),
          startCharacter |-> Unsigned(tokens[k].from - from),
          length |-> Unsigned(tokens[k].to - tokens[k].from),
          type |-> tokens[k].type]]

SemanticTokensFull(text) == Encode(SortTokens(CollectedTokens(text)))

(* What the editor makes of them.                                          *)
Decode(data) ==
  FoldLeft(LAMBDA tokens, d :
             LET last == IF tokens = <<>> THEN Token("none", 1, 1, 1) ELSE Last(tokens)
                 line == last.line + d.deltaLine
                 from == (IF d.deltaLine = 0 THEN last.from ELSE 1) + d.startCharacter
             IN  Append(tokens, Token(d.type, line, from, from + d.length)),
           <<>>, data)

=============================================================================
