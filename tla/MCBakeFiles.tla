---------------------------- MODULE MCBakeFiles -----------------------------
(* An instance of BakeFiles: two variables, a group, three targets and     *)
(* three Dockerfiles, one of them in a subfolder.                          *)
EXTENDS BakeFiles

None == [a \in {} |-> a]

MCDoc ==
  <<Block("variable", "v", [default |-> Literal("d2")]),
    Block("variable", "w", [default |-> Literal("x")]),
    Block("group", "g", [targets |-> Tuple(<<Literal("a"), Ref("w")>>)]),
    Block("target", "a", None),
    Block("target", "b", None),
    Block("target", "c", None)>>

MCFiles ==
  [Dockerfile |-> <<Arg("x", "1"), FromAs("i", "s"), LowerArg("y")>>,
   d2         |-> <<FromAs("i", "a"), From("s"), Arg("z", "")>>] @@
  ("sub/d2" :> <<FromAs("s", "i"), Arg("y", "4")>>)

Write(i, a, e) == [block |-> i, attribute |-> a, value |-> e]

Keys == Object(<<Item("x", FALSE, Ref("v")), Item("y", TRUE, Wrap(Ref("w"))), Item("z", FALSE, Ref("v"))>>)

MCDocEdits ==
  {Write(4, "inherits", Tuple(<<Literal("b"), Literal("c")>>)),
   Write(4, "inherits", Tuple(<<Literal("b"), Literal("b")>>)),
   Write(5, "inherits", Tuple(<<Literal("c")>>)),
   Write(5, "inherits", Tuple(<<Wrap(Ref("v"))>>)),
   Write(6, "inherits", Tuple(<<Literal("a")>>)),
   Write(6, "inherits", Tuple(<<>>)),
   Write(6, "inherits", Tuple(<<Literal("none")>>)),
   Write(4, "dockerfile", Literal("d2")),
   Write(5, "dockerfile", Wrap(Ref("v"))),
   Write(6, "dockerfile", Literal("d2")),
   Write(6, "context", Literal("sub")),
   Write(6, "dockerfile-inline", Literal("FROM i")),
   Write(6, "args", Keys),
   Write(5, "args", Keys),
   Write(5, "target", Literal("s")),
   Write(4, "target", AttributeRef("b", "target")),
   Write(3, "targets", Tuple(<<Literal("b"), Literal("a"), Literal("b")>>)),
   Write(4, "network", Literal("bridge")),
   Write(5, "tags", Tuple(<<Literal("old"), Template(<<Literal("x"), Ref("v"), Ref("w")>>)>>)),
   Write(5, "annotations", Tuple(<<Literal("k=v"), Literal("k")>>)),
   Write(4, "entitlements", Tuple(<<Literal("network.host"), Literal("all")>>)),
   Write(4, "no-cache", Conditional(Call("f", <<Ref("v")>>), Number, Ref("u")))}

MCFileEdits ==
  {[path |-> "Dockerfile", nodes |-> <<Arg("x", ""), Arg("x", "2"), FromAs("i", "b"), FromAs("b", "t")>>],
   [path |-> "d2", nodes |-> <<From("i"), Arg("x", "3")>>]}

(* A block of one line, or with an attribute whose value may be an object  *)
(* that goes on over the next lines.                                       *)
MCLayouts ==
  {[attribute |-> 1, object |-> TRUE, items |-> <<[line |-> 2, gap |-> "="]>>, objectEnd |-> 3,
    close |-> 3, indent |-> <<"", "unit unit", i>>, gaps |-> [label |-> "one"]] :
      i \in {"", "unit"}} \union
  {[attribute |-> 1, object |-> FALSE, items |-> <<>>, objectEnd |-> 1, close |-> 1,
    indent |-> <<i>>, gaps |-> [label |-> g, brace |-> "one", open |-> h, name |-> "none",
                                value |-> "spaced", end |-> h]] :
      i \in Indents, g \in Gaps, h \in Gaps} \union
  {[attribute |-> 2, object |-> TRUE, items |-> <<[line |-> f, gap |-> g], [line |-> s, gap |-> h]>>,
    objectEnd |-> 4, close |-> 5, indent |-> <<"", i, j, j, "unit">>,
    gaps |-> [label |-> "wide", brace |-> "one", value |-> k]] :
      f \in 2 .. 3, s \in 3 .. 4, g \in ItemGaps, h \in ItemGaps,
      i \in {"", "unit"}, j \in {"unit unit", "other"}, k \in {"none", "tight"}}

MCFirstLayout ==
  [attribute |-> 1, object |-> FALSE, items |-> <<>>, objectEnd |-> 1, close |-> 1,
   indent |-> <<"">>, gaps |-> [label |-> "one", brace |-> "one", open |-> "one", name |-> "none",
                                value |-> "spaced", end |-> "one"]]

WrittenValues ==
  {Ref("v"), Literal("s"), Wrap(Ref("v")), Tuple(<<>>),
   Wrap(Call("f", <<>>)),
   Template(<<Ref("v"), Ref("w")>>),
   Template(<<Literal("s"), Binary(Ref("v"), Ref("w"), TRUE)>>),
   Template(<<Literal("s"), Binary(Ref("v"), Ref("w"), FALSE)>>),
   Template(<<Conditional(Ref("v"), Ref("w"), Literal("t")), Literal("s"), Ref("u")>>),
   Tuple(<<Literal("s"), Ref("v"), Template(<<Ref("v"), Literal("s")>>)>>),
   Conditional(Binary(Ref("v"), Number, TRUE), Literal("s"), Wrap(Ref("w"))),
   Object(<<Item("k", FALSE, Ref("v")), Item("l", FALSE, Literal("s")), Item("m", FALSE, Wrap(Ref("w")))>>)}

Comments ==
  {[style |-> "none", pieces |-> <<>>, crlf |-> FALSE],
   [style |-> "#", pieces |-> <<3>>, crlf |-> TRUE],
   [style |-> "/*", pieces |-> <<4>>, crlf |-> FALSE],
   [style |-> "/*", pieces |-> <<2, 0, 3>>, crlf |-> TRUE],
   [style |-> "/*", pieces |-> <<3, 1, 0>>, crlf |-> FALSE]}

MCFirstText == [line |-> 1, value |-> Ref("v"), comment |-> [style |-> "none", pieces |-> <<>>, crlf |-> FALSE]]

MCTexts == {[line |-> l, value |-> v, comment |-> c] : l \in 1 .. 2, v \in WrittenValues, c \in Comments}

=============================================================================
