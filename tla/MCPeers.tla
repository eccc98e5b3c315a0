------------------------------ MODULE MCPeers -------------------------------
(***************************************************************************)
(* The peers for TLC: small instances of every part, and the messages the  *)
(* sources of a pipeline read.                                             *)
(***************************************************************************)
EXTENDS MCPeerRegistry, Peers

\* gRPC: two workers, two clients; a delete, and a table with a dot in its name.
Change(table, op, after) == [schema |-> <<"public">>, table |-> table, op |-> op, after |-> after]
Changes == <<Change(<<"t">>, "c", "a"), Change(<<"t">>, "d", "nil"),
             Change(<<"t", "x">>, "u", "b"), Change(<<"t">>, "u", "c")>>
-----------------------------------------------------------------------------
\* MQTT messages, built from what they mean: /prefix/SCHEMA/TABLE/OPERATION, a
\* batch, the COL/VAL pairs (mqtt/doc.go) and the name of a scalar payload's
\* column (peer.go:172).  Topics without a schema, which doc.go allows and the
\* source does not read, are not among them.
Lit(v) == CASE v \in {"1", "true"} -> Typed("bool", "true") [] v = "7" -> Typed("int", "7")
            [] v = "2.5" -> Typed("float", "2.5") [] OTHER -> Typed("string", v)
Cell(k, v) == [x \in {k} |-> v]
Or(f, g) == [x \in DOMAIN f \cup DOMAIN g |-> IF x \in DOMAIN f THEN f[x] ELSE g[x]] \* f first
Pairs == {<<>>, <<<<"id", "7">>>>, <<<<"id", "1">>, <<"v", "x">>>>, <<<<"v", "x">>, <<"v", "true">>>>}
Valued(pairs) == CASE pairs = <<>> -> <<>> [] Len(pairs) = 1 -> Cell(pairs[1][1], Lit(pairs[1][2]))
                   [] OTHER -> Or(Cell(pairs[2][1], Lit(pairs[2][2])), Cell(pairs[1][1], Lit(pairs[1][2])))

Value(kind, map, items) == [kind |-> kind, map |-> map, items |-> items]
Obj(m) == Value("map", m, <<>>)
Objs == <<Obj(Cell("v", Lit("y"))), Obj(Cell("id", Lit("2.5")))>>
Contents == {[text |-> "", json |-> Value("invalid", <<>>, <<>>)],
             [text |-> "2.5", json |-> Value("other", <<>>, <<>>)],
             [text |-> "words", json |-> Value("invalid", <<>>, <<>>)],
             [text |-> "null", json |-> Value("nil", <<>>, <<>>)],
             [text |-> "{}", json |-> Objs[1]],
             [text |-> "[]", json |-> Value("array", <<>>, Objs \o <<Value("nil", <<>>, <<>>)>>)]}

\* Columns taken from the topic, and a rewrite for a device's short topic.
FromTopic(field, by, index) ==
  [field |-> field, by |-> by, static |-> "here", index |-> index, pattern |-> <<>>, type |-> "string"]
Short == <<"pigo", "dev7">>
Rewrites == <<[action |-> "pub", from |-> <<"#">>, regex |-> [t \in {Short} |-> <<"no">>], to |-> <<"$1">>],
              [action |-> "sub", from |-> <<"pigo", "+">>, regex |-> [t \in {Short} |-> <<"7">>],
               to |-> <<"pigo", "public", "t", "create", "id", "$1">>]>>
Mqtt(fields) == [prefix |-> <<"pigo">>, fields |-> fields, rewrites |-> Rewrites]
Fields == <<FromTopic("v", "static", 0), FromTopic("op", "index", 3), FromTopic("none", "index", -12)>>

OpWord == [c |-> "create", u |-> "u", d |-> "delete"]
Flat(pairs) == CASE pairs = <<>> -> <<>> [] Len(pairs) = 1 -> pairs[1] [] OTHER -> pairs[1] \o pairs[2]
TopicOf(i) == <<"pigo", "public", "t", OpWord[i.op]>> \o (IF i.batch THEN <<"batch">> ELSE <<>>)
              \o Flat(i.pairs) \o (IF i.scalar = "" THEN <<>> ELSE <<i.scalar>>)

\* The data of the events an intent stands for.
Data(i) ==
  LET topic == Valued(i.pairs)
      json == i.content.json
      with(v) == IF v.kind = "map" THEN Map(Or(v.map, topic)) ELSE IF v.kind = "nil" THEN Nil ELSE Other
  IN  CASE i.scalar # "" ->
             <<Map(Or(Cell(i.scalar, IF i.content.text = "" THEN Null ELSE Lit(i.content.text)), topic))>>
        [] i.scalar = "" /\ i.content.text = "" -> IF i.pairs = <<>> THEN <<>> ELSE <<Map(topic)>>
        [] i.scalar = "" /\ i.content.text # "" ->
             CASE json.kind = "invalid" -> <<>>
               [] json.kind = "array" /\ i.batch -> [n \in DOMAIN json.items |-> with(json.items[n])]
               [] json.kind = "nil" /\ i.batch -> <<>>
               [] OTHER -> <<with(json)>>
Meaning(i) ==
  LET extra == IF i.fields = <<>> THEN <<>>
               ELSE Or(Cell("v", Typed("string", "here")), Cell("op", Typed("string", OpWord[i.op])))
      whole(d) == CASE extra = <<>> -> d [] extra # <<>> /\ d.kind = "nil" -> Map(extra)
                    [] extra # <<>> /\ d.kind = "map" -> Map(Or(d.map, extra)) [] OTHER -> d
  IN  [n \in DOMAIN Data(i) |->
         [schema |-> <<"public">>, table |-> <<"t">>, op |-> i.op, fields |-> <<>>,
          before |-> IF i.op = "d" THEN whole(Data(i)[n]) ELSE Nil,
          after |-> IF i.op = "d" THEN Nil ELSE whole(Data(i)[n])]]

Intents == [op : {"c", "u", "d"}, batch : BOOLEAN, pairs : Pairs, scalar : {"", "w"},
            content : Contents, fields : {<<>>, Fields}]
NoEvent == [none |-> TRUE]
FromMqtt(topic, content, means) ==
  [from |-> "mqtt", topic |-> topic, payload |-> content, event |-> NoEvent, means |-> means]
ShortIntent == [op |-> "c", batch |-> FALSE, pairs |-> <<<<"id", "7">>>>, scalar |-> "",
                content |-> [text |-> "{}", json |-> Objs[1]], fields |-> <<>>]
-----------------------------------------------------------------------------
\* Changes of a table with a key of two columns, as JSON events of a stream.
Num(n) == Typed("int", n)
Row(i, p, v) == [id |-> Num(i), part |-> Num(p), v |-> Typed("string", v)]
Event(op, before, after) ==
  [schema |-> <<"public">>, table |-> <<"t">>, op |-> op, before |-> before, after |-> after,
   fields |-> <<"id", "part", "v">>]
FromNats(e) == [from |-> "nats", topic |-> <<>>, payload |-> <<>>, event |-> e, means |-> <<>>]
Is(i, p, v) == Map(Row(i, p, v))
First == Event("c", Nil, Is("7", "42", "x"))
Second == Event("c", Nil, Is("7", "7", "x"))
Creates == {First, Second}
Moves == {Event("u", Is("7", "42", "x"), Is("7", "7", "z")), Event("u", Is("7", "42", "x"), Is("42", "42", "x"))}
Updates == Moves \cup {Event("u", Is("7", "7", "x"), Is("7", "7", "y")), Event("u", Nil, Is("7", "7", "y")),
                      Event("u", Is("7", "7", "x"), Map(Cell("v", Typed("string", "y")))),
                      Event("u", Other, Is("7", "7", "y"))}
Others == {Event("d", Is("7", "7", "x"), Nil), Event("r", Nil, Is("7", "7", "x")),
           [Event("c", Nil, Is("7", "7", "x")) EXCEPT !.table = <<"u">>]}
MCTable == [schema |-> <<"public">>, table |-> <<"t">>, pkeys |-> {"id", "part"},
            columns |-> [c \in {"id", "part"} |-> {"int"}] @@ [c \in {"v"} |-> {"string", "null"}]]

\* Chains of transformations.
Step(type) == [type |-> type, decodes |-> TRUE, fields |-> {}, tables |-> {}, excludeTables |-> {},
               pattern |-> {}, operations |-> {}, schemas |-> <<>>, columns |-> <<>>, regex |-> <<>>]
ExtractOf(fs) == [Step("extract") EXCEPT !.fields = fs]
Ops(S) == [Step("filter") EXCEPT !.operations = S]
Tables(S) == [Step("filter") EXCEPT !.tables = S]
Rename(f) == [Step("replace") EXCEPT !.tables = <<>>, !.columns = f]
Regex == [[Step("replace") EXCEPT !.tables = <<>>] EXCEPT
            !.regex = <<[type |-> "table", compiles |-> TRUE, replace |-> [t \in {<<"t">>} |-> <<"u">>]]>>]
Pipe(fields, source, pipeline, pg, other) ==
  [mqtt |-> Mqtt(fields), source |-> [s \in {"mqtt", "nats"} |-> source], pipeline |-> pipeline,
   sinks |-> <<[kind |-> "pg", chain |-> pg], [kind |-> "other", chain |-> other]>>]
AllColumns == {"id", "part", "v"}
MCPlans ==
  {Pipe(<<>>, <<>>, <<Tables({<<<<"public">>, <<"*">>>>})>>, <<>>, <<Rename([c \in {"v"} |-> "w"])>>),
   Pipe(<<>>, <<Ops({"c", "u"})>>, <<>>, <<ExtractOf({"id", "v"})>>, <<ExtractOf({"v"}), Rename([c \in {"v"} |-> "id"])>>),
   Pipe(<<>>, <<>>, <<>>, <<ExtractOf(AllColumns)>>, <<Rename([c \in {"v"} |-> "id"]), Regex>>),
   Pipe(<<>>, <<>>, <<[Step("filter") EXCEPT !.excludeTables = {<<<<"u">>>>}, !.pattern = {<<"t">>}]>>,
        <<>>, <<Step("unknown")>>),
   Pipe(<<>>, <<>>, <<>>, <<Step("extract")>>, <<Ops({"x"})>>)}
MqttPlan(fields) == Pipe(fields, <<>>, <<>>, <<>>, <<Rename([c \in {"v"} |-> "w"])>>)

Each(plans, inboxes) == [plan : plans, inbox : inboxes]
MCCases ==
  UNION {Each({MqttPlan(fs)}, {<<FromMqtt(TopicOf(i), i.content, Meaning(i))>> :
                                  i \in {i \in Intents : i.fields = fs}}) : fs \in {<<>>, Fields}}
  \cup Each({MqttPlan(<<>>)},
          {<<FromMqtt(Short, ShortIntent.content, Meaning(ShortIntent)),
             FromMqtt(<<"pigo", "public", "t", "c">>, ShortIntent.content, Meaning([ShortIntent EXCEPT !.pairs = <<>>])),
             FromMqtt(<<"pigo", "t">>, ShortIntent.content, <<>>),
             FromMqtt(<<"pigo", "public", "t", "upsert">>, ShortIntent.content, <<>>)>>})
  \cup Each(MCPlans, {<<FromNats(First), FromNats(e)>> : e \in Creates \cup Updates \cup Others})
  \cup Each({MqttPlan(<<>>), Pipe(<<>>, <<>>, <<>>, <<ExtractOf({"id", "v"})>>, <<>>)},
            {<<FromNats(First), FromNats(d), FromNats(e)>> : d \in {Second} \cup Moves, e \in Updates})
-----------------------------------------------------------------------------
\* Two processes that share a publication, over lists with and without
\* schemas, the documented one with both, and patterns with more behind the
\* star; one table is created later.
Lists == {<<>>, <<<<"*">>>>, <<<<"t">>>>, <<<<"crm", "*">>>>, <<<<"t">>, <<"crm", "u">>, <<"crm", "*">>>>,
          <<<<"crm", "u">>>>, <<<<"crm", "*">>, <<"*", "*">>>>, <<<<"public", "*_log">>, <<"crm", "t">>>>,
          <<<<"crm", "*", "*">>>>, <<<<"", "*">>>>}
Replication == [tables : Lists, ops : {{}, {"insert"}, {"insert", "upsert"}}, root : {FALSE},
                generated : {"", "stored"}, interval : {0}]
               \cup [tables : {<<<<"*">>>>}, ops : {{}}, root : {TRUE}, generated : {"all"}, interval : {500}]
MCTables == {<<"public", "t">>, <<"crm", "t">>, <<"crm", "u">>}
LaterTables == {<<"crm", "u">>}
=============================================================================
