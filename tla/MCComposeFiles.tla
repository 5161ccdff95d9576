--------------------------- MODULE MCComposeFiles ---------------------------
(* The constants of an instance of ComposeFiles: a file with three          *)
(* services that extend each other, two other files, and a part of the     *)
(* schema with every kind of step that the two walks make.                 *)
EXTENDS ComposeDocument, ComposeSchema

Node(indent)         == [kind |-> "node", indent |-> indent, dash |-> 0]
Dashed(indent, dash) == [kind |-> "node", indent |-> indent, dash |-> dash]
Comment(indent)      == [kind |-> "comment", indent |-> indent, dash |-> 0]
Blank(indent)        == [kind |-> "blank", indent |-> indent, dash |-> 0]
Separator            == [kind |-> "separator", indent |-> 0, dash |-> 0]

MCIsPath(name) == name = "./f"
MCIsFile(name) == name \in {"./f", "a.yaml", "b.yaml"}

String(text) == Of("string", text)

OneOrObject(properties, text) == OneOf(<<String(""), Object(properties, "")>>, text)
Listed(properties) == Array(OneOrObject(properties, ""), "")
ListOr(pattern, text) == OneOf(<<Array(String(""), ""), Pattern(pattern, "")>>, text)

Mount == [type |-> EnumOf({"bind", "volume"}, "t24"), source |-> String("t14")]

Service ==
  Object([image       |-> String("t1"),
          build       |-> OneOrObject([context |-> String("t2"), target |-> String("t3")], "t4"),
          extends     |-> OneOrObject([service |-> String("t25"), file |-> String("t26")], "t27"),
          depends_on  |-> ListOr(Object([condition |-> EnumOf({"service_started"}, "t5")], ""), "t6"),
          networks    |-> ListOr(OneOf(<<Object([priority |-> String("t28")], "")>>, ""), "t29"),
          configs     |-> RefTo(Listed([source |-> String("t30")])),
          secrets     |-> RefTo(Listed([source |-> String("t30")])),
          models      |-> ListOr(Object([endpoint |-> String("t31")], ""), "t32"),
          healthcheck |-> RefTo(Object([interval |-> String("t7")], "t8")),
          develop     |-> RefTo(Object([watch |-> Array(Object([action |-> EnumOf({"sync"}, "t9")], ""), "t10")],
                                       "t11")),
          ports       |-> [Listed([mode |-> String("t12")]) EXCEPT !.description = "t13"],
          volumes     |-> [Listed(Mount) EXCEPT !.description = "t15"],
          env_file    |-> RefTo(OneOf(<<String(""), Listed([path |-> String("t16")])>>, "t17"))], "t18")

MCSchema ==
  Object([services |-> Pattern(RefTo(Service), "t19"),
          volumes  |-> Pattern(RefTo(Object([driver |-> String("t20")], "t21")), "t22")], "t23")

Web == Map(<<Entry("image", Short("i", "1")),
             Entry("depends_on", Names(<<"db">>)),
             Entry("volumes", List(<<Short("v", "/v"), Short("./f", "/f")>>))>>)

Third == Map(<<Entry("extends", Str("web")), Entry("image", Str("j")), Entry("ports", List(<<Map(<<>>)>>)),
               Entry("build", Map(<<Entry("dockerfile", Str("d2")), Entry("target", Null)>>)),
               Entry("develop", Map(<<Entry("watch", List(<<Map(<<Entry("action", Null)>>)>>))>>))>>)

Db == Map(<<Entry("image", Str("i")), Entry("networks", Anchor("x", Names(<<"n">>)))>>)

MCCompose ==
  ("compose.yaml" :> Map(<<Entry("include", Names(<<"a.yaml">>)),
                           Entry("services", Map(<<Entry("db", Db), Entry("web", Web), Entry("third", Third)>>)),
                           Entry("networks", Map(<<Entry("n", Null)>>)),
                           Entry("volumes", Map(<<Entry("v", Null)>>))>>)) @@
  ("a.yaml" :> Map(<<Entry("services", Map(<<Entry("old", Null)>>)),
                     Entry("configs", Map(<<Entry("c", Null)>>))>>)) @@
  ("b.yaml" :> Map(<<Entry("volumes", Map(<<Entry("w", Null)>>))>>))

Write(file, keys, key, value) == [file |-> file, keys |-> keys, entry |-> Entry(key, value)]
InWeb(key, value) == Write("compose.yaml", <<"services", "web">>, key, value)
InDb(key, value)  == Write("compose.yaml", <<"services", "db">>, key, value)
AtTop(key, value) == Write("compose.yaml", <<>>, key, value)

MCWritten ==
  {InWeb("extends", Str("db")),
   InWeb("extends", Map(<<Entry("service", Null)>>)),
   InWeb("extends", Map(<<Entry("file", Str("a.yaml"))>>)),
   InWeb("extends", Map(<<Entry("file", Str("compose.yaml"))>>)),
   Write("compose.yaml", <<"services", "web", "extends">>, "service", Null),
   Write("compose.yaml", <<"services", "third", "build">>, "dockerfile_inline", Str("FROM i AS t")),
   InWeb("build", Map(<<Entry("dockerfile", Str("d2"))>>)),
   InWeb("extends", Map(<<Entry("file", Str("compose.yaml")), Entry("service", Str("db"))>>)),
   InWeb("depends_on", Map(<<Entry("old", Alias("x")), Entry("db", Map(<<Entry("condition", Null)>>)),
                                 Entry("third", Map(<<>>))>>)),
   InWeb("networks", Map(<<Entry("n", Null), Entry("new", Null)>>)),
   InWeb("models", List(<<Str("m"), Alias("x")>>)),
   InWeb("volumes", List(<<Str("v"), Map(<<Entry("type", Str("volume")), Entry("source", Str("v"))>>)>>)),
   InDb("extends", Str("third")),
   InDb("volumes", List(<<Map(<<Entry("source", Str("v"))>>)>>)),
   InDb("volumes_from", List(<<Str("web"), Short("web", "ro"), Short("container", "web")>>)),
   InDb("configs", List(<<Str("c"), Map(<<Entry("source", Null)>>)>>)),
   InDb("secrets", Anchor("y", Names(<<"s", "s">>))),
   InDb("image", Anchor("x", Str("j"))),
   InDb("healthcheck", Map(<<Entry("interval", Null)>>)),
   InDb("env_file", List(<<Map(<<>>)>>)),
   AtTop("include", Names(<<"a.yaml", "b.yaml">>)),
   AtTop("include", List(<<Map(<<Entry("path", Names(<<"b.yaml", "oci">>)), Entry("env_file", Str("e"))>>)>>)),
   AtTop("services", Map(<<Entry("db", Db), Entry("web", Alias("x")), Entry("third", Third)>>)),
   AtTop("secrets", Map(<<Entry("s", Anchor("x", Map(<<>>)))>>)),
   AtTop("volumes", Anchor("y", Map(<<Entry("v", Null), Entry("x", Alias("x"))>>))),
   Write("a.yaml", <<>>, "include", Names(<<"b.yaml">>)),
   Write("b.yaml", <<>>, "include", Names(<<"compose.yaml">>)),
   Write("b.yaml", <<>>, "models", Map(<<Entry("m", Null)>>))}

MCFirst == [lines |-> <<Node(0)>>, tab |-> 2]

MCLines ==
  {MCFirst} \union
  {[lines |-> <<Node(start[1])>> \o ls, tab |-> start[2]] :
     start \in {<<0, 2>>, <<0, 4>>, <<1, 2>>},
     ls \in [1 .. 3 -> {Node(0), Node(3), Dashed(3, 2), Node(5), Dashed(0, 4),
                        Node(4), Comment(1), Blank(1), Separator}]}

=============================================================================
