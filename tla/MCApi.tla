------------------------------- MODULE MCApi -------------------------------
(* Instances of ApiServer: the .api files that are tried. *)
EXTENDS ApiServer

Import(f) == [kind |-> "import", file |-> f]
Block(name, fields) == [kind |-> "block", name |-> name, fields |-> fields]
Union(name, fields) == [kind |-> "union", name |-> name, fields |-> fields]
Alias(field) == [kind |-> "alias", field |-> field]
Enum(name) == [kind |-> "enum", name |-> name]
DefineAs(name, fields, reply, autoendian) ==
  [kind |-> "define", name |-> name, fields |-> fields, reply |-> reply,
   autoendian |-> autoendian]
Defined(name) == DefineAs(name, <<>>, "none", TRUE)
ServiceList(list) == [kind |-> "service", services |-> list]
Svc(caller, reply, events, stream, via) ==
  [caller |-> caller, reply |-> reply, events |-> events, stream |-> stream,
   via |-> via]
ByCount(type, name, count) ==
  [type |-> type, name |-> name, size |-> "by", count |-> count]
Sized(type, name, size) == [type |-> type, name |-> name, size |-> size, count |-> 0]

-----------------------------------------------------------------------------
(* Files that import each other, in lines, diamonds and circles, and files  *)
(* that do not exist; a and b define types, which main and a use.           *)
X == Block("x", <<One("u32", "v")>>)
Y == Block("y", <<One("u32", "v")>>)

ImportGraphs ==
  {[main |-> m \o <<DefineAs(<<"p">>, use, "auto", TRUE)>>,
    a    |-> ia \o <<inA>>,
    b    |-> ib \o inB] :
      m   \in {<<>>, <<Import("a")>>, <<Import("b")>>, <<Import("a"), Import("b")>>,
               <<Import("a"), Import("a")>>, <<X, Import("a")>>},
      use \in {<<>>, <<One("x", "f")>>},
      ia  \in {<<>>, <<Import("b")>>, <<Import("main")>>, <<Import("c")>>,
               <<Import("a")>>, <<Import("b"), Import("b")>>},
      inA \in {X, Block("x", <<One("y", "v")>>)},
      ib  \in {<<>>, <<Import("a")>>},
      inB \in {<<>>, <<Y>>, <<X>>}}

-----------------------------------------------------------------------------
(* Fields of every form, in structures, unions and messages. *)
FieldLists ==
  {<<>>, <<One("u32", "n"), ByCount("u32", "v", "n")>>,
   <<ByCount("u32", "v", "n"), One("u32", "n")>>, <<ByCount("u32", "v", "n")>>,
   <<Sized("string", "s", "bare")>>, <<Sized("string", "s", "bare"), One("u32", "n")>>,
   <<One("string", "s")>>, <<Sized("string", "s", "fixed"), One("u32", "n")>>,
   <<One("missing", "f")>>}

Shapes ==
  {[main |-> <<t, option, other, DefineAs(<<"p">>, last, "index", TRUE)>>] :
     t \in {Block("x", l) : l \in FieldLists} \cup {Union("x", l) : l \in FieldLists},
     option \in {[kind |-> "option"]},
     other \in {Alias(One("x", "al")), Alias(Sized("string", "al", "bare")),
                Alias(ByCount("u32", "al", "n")), Enum("al"), Enum("x")},
     last \in {<<One("x", "f")>>, <<One("al", "f")>>, <<One("al", "f"), One("u32", "n")>>}}

-----------------------------------------------------------------------------
(* Messages whose names belong together, and services written down. *)
P == <<"p">>
Reply2(m) == Append(m, "reply")
Dump == <<"p", "dump">>
Details == <<"p", "details">>
Get == <<"p", "get">>

NamesTried == {P, Reply2(P), Dump, Details, Get, Reply2(Get)}

ServicesTried ==
  {<<>>, <<Svc(P, Null, {}, FALSE, Null)>>, <<Svc(P, Reply2(P), {Details}, FALSE, Null)>>,
   <<Svc(P, Reply2(P), {Get, Reply2(Get)}, FALSE, Null)>>,
   <<Svc(Get, Reply2(Get), {}, TRUE, Details)>>,
   <<Svc(Dump, Details, {}, TRUE, Null), Svc(P, Dump, {}, FALSE, Null)>>,
   <<Svc(Dump, Details, {}, TRUE, Null), Svc(P, Reply2(P), {Details}, FALSE, Null)>>,
   <<Svc(P, Null, {}, FALSE, Null), Svc(P, Reply2(P), {}, FALSE, Null)>>,
   <<Svc(Reply2(P), Null, {}, FALSE, Null)>>}

Defines(names) ==
  LET list == SetToSeq(names) IN [i \in DOMAIN list |-> Defined(list[i])]

Pairings ==
  {[main |-> Defines(names) \o (IF svcs = <<>> THEN <<>> ELSE <<ServiceList(svcs)>>)] :
     names \in SUBSET NamesTried, svcs \in ServicesTried}

-----------------------------------------------------------------------------
(* The APIs that are served. *)
Asking == <<One("u32", "client_index"), One("u32", "context")>>
Answering == <<One("u32", "context")>>
WithRetval == <<One("u32", "context"), One("i32", "retval")>>

Api(defines, svcs) ==
  [main |-> defines \o (IF svcs = <<>> THEN <<>> ELSE <<ServiceList(svcs)>>)]

Served ==
  { Api(<<DefineAs(P, Asking, "auto", TRUE)>>, <<>>),
    Api(<<DefineAs(P, Asking, "index", FALSE)>>, <<>>),
    Api(<<DefineAs(P, Asking, "auto", TRUE),
          DefineAs(Details, Answering, "none", FALSE)>>,
        <<Svc(P, Reply2(P), {Details}, FALSE, Null)>>),
    Api(<<DefineAs(Dump, Asking, "none", TRUE),
          DefineAs(Details, Answering, "none", FALSE)>>, <<>>),
    Api(<<DefineAs(Get, Asking, "none", TRUE),
          DefineAs(Reply2(Get), WithRetval, "none", FALSE),
          DefineAs(Details, Answering, "none", FALSE)>>,
        <<Svc(Get, Reply2(Get), {}, TRUE, Details)>>),
    Api(<<DefineAs(P, Asking, "none", TRUE)>>, <<Svc(P, Null, {}, FALSE, Null)>>),
    Api(<<DefineAs(P, Asking, "auto", TRUE), Defined(Details)>>,
        <<Svc(P, Reply2(P), {}, FALSE, Details), Svc(Details, P, {}, FALSE, Null)>>),
    Api(<<DefineAs(P, Asking, "auto", TRUE),
          DefineAs(Reply2(Reply2(P)), Answering, "none", FALSE)>>,
        <<Svc(Reply2(P), Reply2(Reply2(P)), {}, FALSE, Null)>>),
    Api(<<DefineAs(P, Asking, "auto", TRUE)>>,
        <<Svc(P, Reply2(P), {}, FALSE, Details)>>),
    Api(<<DefineAs(P, <<>>, "auto", TRUE)>>, <<>>) }

MCInputs == ImportGraphs \cup Shapes \cup Pairings \cup Served
MCServable == Served
=============================================================================
