----------------------------- MODULE MCRestSql ------------------------------
(***************************************************************************)
(* What the REST server makes of a request, checked against what the       *)
(* request says.  A request is drawn from the input sets below and handled *)
(* in one step; the invariants compare the statement, run by a reference   *)
(* executor with SQL's precedence, with the meaning of the request.        *)
(***************************************************************************)
EXTENDS RestQuery, RestCatalog, FiniteSets

-----------------------------------------------------------------------------
\* SQL as PostgreSQL reads it.  An array literal is unquoted and unescaped.
RECURSIVE DecodeItems(_)
DecodeItems(s) ==
  LET item(e) == <<e.val>> \o (IF At(e.rest, {","}) THEN DecodeItems(Tail(e.rest)) ELSE <<>>)
  IN  IF At(s, {"}"}) THEN <<>>
      ELSE item(IF At(s, {"'"}) THEN quoted(s) ELSE until(s, {",", "}"}))
DecodeArray(s) == DecodeItems(Tail(s))

\* The table.
Column(n, t, k) == [name |-> <<n>>, type |-> t, kind |-> k, elem |-> ""]
Table == <<Column("a", "text", "b"), Column("b", "text", "b"), Column("d", "date", "b"),
           Column("k", "USER-DEFINED", "c"), Column("j", "jsonb", "b"),
           Column("g", "ARRAY", "b"), Column("v", "tsvector", "b")>>
TypeOf(col) == findColumn(Table, col)[1].type

\* A condition with its parameters filled in: the operand of a quantified
\* comparison, of = ANY and of an array operator is an array.
IsArray(col, op, quant) == \/ op = "= ANY" \/ quant # ""
                           \/ op \in {"@>", "<@"} /\ TypeOf(col) = "ARRAY"
Bound(c, args) ==
  [col |-> c.lhs.col, jsonb |-> c.lhs.jsonb, tsvector |-> c.tsvector,
   path |-> [i \in DOMAIN c.lhs.path |->
               <<c.lhs.path[i].arrow, c.lhs.path[i].cast, args[c.lhs.path[i].arg]>>],
   op |-> c.op, quant |-> c.quant, lang |-> IF c.lang = 0 THEN <<>> ELSE args[c.lang],
   val |-> CASE c.arg = 0 -> <<>>
             [] c.arg # 0 /\ IsArray(c.lhs.col, c.op, c.quant) -> DecodeArray(args[c.arg])
             [] OTHER -> <<args[c.arg]>>]

\* A WHERE clause: OR binds weaker than AND, AND weaker than NOT.
RECURSIVE Eval(_, _, _)
Eval(s, args, true) ==
  LET depth[i \in 0..Len(s)] == IF i = 0 THEN 0
        ELSE depth[i-1] + (CASE s[i].sym = "(" -> 1 [] s[i].sym = ")" -> -1 [] OTHER -> 0)
      top(w) == {i \in DOMAIN s : s[i].sym = w /\ depth[i] = 0}
      side(w) == LET i == CHOOSE i \in top(w) : TRUE
                 IN  <<Eval(SubSeq(s, 1, i - 1), args, true), Eval(Rest(s, i), args, true)>>
  IN  CASE s = <<>> -> TRUE
        [] s # <<>> /\ top("OR") # {} -> side("OR")[1] \/ side("OR")[2]
        [] s # <<>> /\ top("OR") = {} /\ top("AND") # {} -> side("AND")[1] /\ side("AND")[2]
        [] OTHER -> CASE s[1].sym = "NOT" -> ~Eval(Tail(s), args, true)
                      [] s[1].sym = "(" -> Eval(SubSeq(s, 2, Len(s) - 1), args, true)
                      [] OTHER -> Bound(s[1], args) \in true

Conds(s) == {i \in DOMAIN s : s[i].sym = "cond"}
RowTruth(c, row) == CASE c.op = "=" -> row[c.col] = c.val[1]
                      [] c.op = "= ANY" -> row[c.col] \in ToSet(c.val)
                      [] OTHER -> FALSE
Selects(st, row) ==
  LET all == {Bound(st.where[i], st.args) : i \in Conds(st.where)}
  IN  Eval(st.where, st.args, {c \in all : RowTruth(c, row)})
-----------------------------------------------------------------------------
\* Filters.  A leaf is a filterNode without children; Url prints a node the
\* way a client writes it.
Leaf(col, op, val) == [NoNode EXCEPT !.field = <<col>>, !.operator = op, !.value = val]
Not(n) == [n EXCEPT !.negate = TRUE]
Group(logic, children) == [NoNode EXCEPT !.logic = logic, !.children = children]

Quote(v) == IF At(v, {"{"}) \/ ToSet(v) \cap {",", ")", "(", "'", "\\"} = {} THEN v
            ELSE <<"'">> \o FlattenSeq([i \in DOMAIN v |->
                   IF v[i] \in {"'", "\\"} THEN <<"\\", v[i]>> ELSE <<v[i]>>]) \o <<"'">>
Join(parts, sep) == FlattenSeq([i \in DOMAIN parts |->
                      IF i = 1 THEN parts[i] ELSE sep \o parts[i]])
Pre(n) == IF n.negate THEN <<"not", ".">> ELSE <<>>
UrlStep(p) == <<p.arrow>> \o (IF ~p.index /\ p.key[1] \in Digits THEN <<"'">> \o p.key \o <<"'">>
                               ELSE p.key)
UrlKey(n) == n.field \o FlattenSeq([i \in DOMAIN n.path |-> UrlStep(n.path[i])])
UrlOp(n, inTree) ==
  Pre(n) \o <<n.operator>>
  \o (CASE n.quant # "" -> <<"(", n.quant, ")">> [] n.lang # <<>> -> <<"(">> \o n.lang \o <<")">>
        [] OTHER -> <<>>)
  \o <<".">>
  \o (CASE n.operator = "in" ->
             <<"(">> \o Join([i \in DOMAIN n.list |-> Quote(n.list[i])], <<",">>) \o <<")">>
        [] inTree -> Quote(n.value)
        [] OTHER -> n.value)
RECURSIVE UrlMember(_), UrlGroup(_)
UrlMember(n) == IF n.logic = "" THEN UrlKey(n) \o <<".">> \o UrlOp(n, TRUE)
                ELSE Pre(n) \o <<n.logic>> \o UrlGroup(n)
UrlGroup(n) == <<"(">> \o Join([i \in DOMAIN n.children |-> UrlMember(n.children[i])], <<",">>)
               \o <<")">>
Url(n) == IF n.logic = "" THEN [key |-> UrlKey(n), value |-> UrlOp(n, FALSE)]
          ELSE [key |-> Pre(n) \o <<n.logic>>, value |-> UrlGroup(n)]

\* What a node means, given the conditions that are true (doc.go): * is an
\* alias for % in like and ilike; columns that are not json or jsonb are
\* converted by to_jsonb before a path, columns that are not tsvector by
\* to_tsvector before a text search; a number in a path is an array index;
\* cs.a,b on an array column is short for cs.{a,b}.
Wanted(n) ==
  LET path == [i \in DOMAIN n.path |-> <<n.path[i].arrow, IF n.path[i].index THEN "int" ELSE "text",
                                         n.path[i].key>>]
      star(v) == [i \in DOMAIN v |-> IF v[i] = "*" THEN "%" ELSE v[i]]
      value == IF n.operator \in {"like", "ilike"} THEN star(n.value) ELSE n.value
      elements == Split(SelectSeq(value, LAMBDA t : t \notin {"{", "}"}))
      op == CASE n.operator = "in" -> "= ANY" [] n.operator = "is" -> isValues[n.value[1]]
              [] n.operator \in DOMAIN ftsFunctions -> ftsFunctions[n.operator]
              [] n.operator = "isdistinct" -> "IS DISTINCT FROM"
              [] OTHER -> sqlOperators[n.operator]
  IN  [col |-> n.field, jsonb |-> n.path # <<>> /\ TypeOf(n.field) \notin {"json", "jsonb"},
       tsvector |-> n.operator \in DOMAIN ftsFunctions /\ (TypeOf(n.field) # "tsvector" \/ n.path # <<>>),
       path |-> path, quant |-> n.quant, lang |-> n.lang, op |-> op,
       val |-> CASE n.operator = "in" -> n.list [] n.operator = "is" -> <<>>
                 [] n.operator # "in" /\ IsArray(n.field, op, n.quant) -> elements
                 [] OTHER -> <<value>>]
RECURSIVE Means(_, _), Leaves(_), Deep(_)
Means(n, true) ==
  n.negate # (CASE n.logic = "" -> Wanted(n) \in true
                [] n.logic = "and" -> \A i \in DOMAIN n.children : Means(n.children[i], true)
                [] n.logic = "or" -> \E i \in DOMAIN n.children : Means(n.children[i], true))
Leaves(n) == IF n.logic = "" THEN {n} ELSE UNION {Leaves(n.children[i]) : i \in DOMAIN n.children}
Deep(n) == IF n.logic = "" THEN 0
           ELSE 1 + (CHOOSE d \in {Deep(n.children[i]) : i \in DOMAIN n.children} :
                       \A i \in DOMAIN n.children : Deep(n.children[i]) <= d)

\* The words of a text and of a parsed node, in order.
Words(s) == SelectSeq(s, LAMBDA t : t \notin Punctuation)
RECURSIVE NodeWords(_)
NodeWords(n) ==
  (IF n.logic = "" THEN Words(UrlKey(n)) ELSE <<>>) \o (IF n.negate THEN <<"not">> ELSE <<>>)
  \o (IF n.logic # "" THEN <<n.logic>> \o FlattenSeq([i \in DOMAIN n.children |->
                                                       NodeWords(n.children[i])])
      ELSE <<n.operator>> \o (IF n.quant = "" THEN <<>> ELSE <<n.quant>>) \o n.lang
           \o Words(n.value) \o FlattenSeq([i \in DOMAIN n.list |-> Words(n.list[i])]))
-----------------------------------------------------------------------------
\* The rows and the requests.
Row(a, b, d) == (<<"a">> :> <<a>>) @@ (<<"b">> :> <<b>>) @@ (<<"d">> :> d)
                @@ [c \in {<<"k">>, <<"j">>, <<"g">>, <<"v">>} |-> <<>>]
Rows == <<Row("x", "x", <<"1">>), Row("x", "y", <<>>), Row("y", "x", <<"0">>)>>
Rank(v) == IF v = <<"1">> THEN 1 ELSE 0

Key(arrow, key) == [arrow |-> arrow, index |-> FALSE, key |-> <<key>>]
Index(arrow, i) == [arrow |-> arrow, index |-> TRUE, key |-> <<i>>]
LeafSet ==
  {Leaf("a", "eq", <<"x">>), Leaf("b", "like", <<"x", "*">>), Leaf("d", "is", <<"null">>),
   Leaf("a", "ilike", <<"*", "x", "*">>), Leaf("b", "isdistinct", <<"*">>),
   [Leaf("b", "in", <<>>) EXCEPT !.list = <<<<"x">>, <<"y", ",", "'">>>>],
   [Leaf("a", "like", <<"{", "x", "*", ",", "y", "}">>) EXCEPT !.quant = "any"],
   [Leaf("a", "fts", <<"y">>) EXCEPT !.lang = <<"english">>], Leaf("v", "wfts", <<"y">>),
   Leaf("g", "cs", <<"x", ",", "y">>), Leaf("g", "cd", <<"{", "x", ",", "y", "}">>),
   [Leaf("k", "eq", <<"y">>) EXCEPT !.path = <<Key("->", "p"), Key("->>", "0")>>],
   [Leaf("j", "eq", <<"y">>) EXCEPT !.path = <<Key("->", "p"), Index("->", "0"), Key("->>", "q")>>],
   [Leaf("g", "eq", <<"y">>) EXCEPT !.path = <<Index("->>", "-1")>>],
   Leaf("z", "eq", <<"x">>)} \* no such column
Signed(S) == S \cup {Not(n) : n \in S}
Flat == Signed({Group(l, <<m, n>>) : l \in {"and", "or"}, m \in LeafSet, n \in LeafSet})
SmallLeaves == {Leaf("a", "eq", <<"x">>), Not(Leaf("b", "eq", <<"y">>)),
                [Leaf("b", "in", <<>>) EXCEPT !.list = <<<<"x">>>>]}
SmallFlat == Signed({Group(l, <<m, n>>) : l \in {"and", "or"}, m \in SmallLeaves, n \in SmallLeaves})
Nested == Signed({Group(l, <<g, n>>) : l \in {"and", "or"}, g \in SmallFlat, n \in SmallLeaves})
TooDeep == {Group("and", <<Group("or", <<g>>)>>) : g \in SmallFlat}

Request(method, url, data, prefer) ==
  [kind |-> "query", method |-> method, url |-> url, data |-> data, prefer |-> prefer]
Filters(nodes) == [i \in DOMAIN nodes |-> Url(nodes[i])]
Asked(r, nodes) == [r |-> r, filters |-> nodes]
TreeAsks ==
  {Asked(Request("GET", Filters(<<n>>), <<>>, <<>>), <<n>>) :
      n \in Signed(LeafSet) \cup Flat \cup Nested \cup TooDeep}
  \cup {Asked(Request("GET", Filters(<<m, n>>), <<>>, <<>>), <<m, n>>) :
      m \in Signed(LeafSet), n \in SmallFlat}

\* Any text at all, as the value of a column filter or of a logic tree.
RawAlphabet == {"a", "eq", "in", ".", ",", "(", ")", "'"}
RawTexts == {s \in UNION {[1..n -> RawAlphabet] : n \in 3..4} :
               \A i \in 1..(Len(s) - 1) : s[i] \in Punctuation \/ s[i+1] \in Punctuation}
RawAsks == {[r |-> [kind |-> "raw", key |-> k, value |-> v]] : k \in {<<"a">>, <<"or">>},
                                                               v \in RawTexts}
           \cup {[r |-> [kind |-> "raw", key |-> <<"or">>, value |-> p \o v]] : v \in RawTexts,
                   p \in {<<"(", "a", ".">>, <<"(", "a", ".", "eq", ".", "a", ",">>}}

\* Writes.
Value(v) == [type |-> "string", val |-> <<v>>]
Data == {<<>>, <<[key |-> <<"a">>, value |-> Value("w")]>>,
         <<[key |-> <<"a">>, value |-> Value("w")], [key |-> <<"b">>, value |-> Value("v")]>>,
         <<[key |-> <<"z">>, value |-> Value("w")]>>}
Prefers == {<<>>, <<[key |-> "return", value |-> "representation"]>>,
            <<[key |-> "return", value |-> "representation"], [key |-> "return", value |-> "minimal"]>>,
            <<[key |-> "count", value |-> "exact"]>>}
WriteNodes == {<<>>} \cup {<<n>> : n \in SmallLeaves \cup SmallFlat}
              \cup {<<m, n>> : m \in SmallLeaves, n \in SmallFlat}
WriteAsks == {Asked(Request(m, Filters(ns), d, p), ns) :
                m \in {"POST", "PATCH", "DELETE"}, ns \in WriteNodes, d \in Data, p \in Prefers}

\* Reads, one page each.  An order is a column with the place of nulls and the
\* direction, in the order of this server or (dirFirst) of PostgREST.
Orders == [nulls : {"", "first", "last"}, dir : {"", "asc", "desc"}, dirFirst : {FALSE}]
          \cup [nulls : {"first", "last"}, dir : {"asc", "desc"}, dirFirst : {TRUE}]
OrderText(o) ==
  LET nulls == IF o.nulls = "" THEN <<>> ELSE Dot("nulls" \o o.nulls)
      dir   == IF o.dir = "" THEN <<>> ELSE Dot(o.dir)
  IN  <<"d">> \o (IF o.dirFirst THEN dir \o nulls ELSE nulls \o dir)
Page(key, n) == [key |-> <<key>>, value |-> n]
ReadAsks == {[r |-> Request("GET", Filters(ns) \o <<Page("limit", l), Page("offset", o),
                                     [key |-> <<"order">>, value |-> OrderText(ord)]>>, <<>>,
                            <<[key |-> "count", value |-> "exact"]>>),
              filters |-> ns, order |-> ord, page |-> <<l, o>>] :
                ns \in {<<>>} \cup {<<n>> : n \in SmallLeaves},
                l \in {<<>>, <<-1>>, <<0>>, <<1>>, <<2>>, <<4>>},
                o \in {<<>>, <<-1>>, <<0>>, <<1>>, <<2>>, <<4>>},
                ord \in Orders}

\* Calls: two functions, one of them overloaded.
Fun(n, num, names, modes) ==
  [schema |-> "public", name |-> n, numArgs |-> num, names |-> names,
   types |-> [i \in 1..num |-> "int4"], modes |-> modes, retset |-> FALSE]
MCCatalog == {Fun("f", 2, <<<<"p">>, <<"q">>, <<"r">>>>, <<"i", "b", "o">>), Fun("g", 0, <<>>, <<>>),
              Fun("h", 1, <<<<"p">>>>, <<>>), Fun("h", 2, <<<<"p">>, <<>>>>, <<>>)}
Json == [type : {"number", "string"}, val : {<<"0">>, <<"1">>}]
        \cup [type : {"null", "big number", "object"}, val : {<<"1">>}]
Keys == SUBSET {<<"arg", 1>>, <<"arg", 2>>} \cup {{<<"p">>, <<"q">>}, {<<"p">>, <<"arg", 2>>}}
Bodies == UNION {[K -> Json] : K \in Keys}
MCCalls == {[kind |-> "call", path |-> p, method |-> m, json |-> j, args |-> b] :
              p \in {<<>>, <<"f">>, <<"g">>, <<"public", "h">>, <<"none">>},
              m \in {"POST", "GET"}, j \in BOOLEAN, b \in Bodies}

\* Schema snapshots to document.
ApiTable(s, n, keys) == [schema |-> s, name |-> n, pkeys |-> keys,
  columns |-> <<[name |-> "id", type |-> "bigint", nullable |-> FALSE],
                [name |-> "at", type |-> "timestamp", nullable |-> TRUE]>>]
ApiTables == {ApiTable(s, n, k) : s \in {"public", "crm"}, n \in {"crm", "users"}, k \in {<<>>, <<"id">>}}
             \cup {ApiTable("rpc", "crm", <<"id">>), ApiTable("public", "rpc", <<"id">>),
                   ApiTable("public", "openapi.json", <<>>)}
MCSnapshots == {T \in SUBSET ApiTables : \A t, u \in T : Api!fullName(t) = Api!fullName(u) => t = u}
-----------------------------------------------------------------------------
Quiet == ask = [r |-> [kind |-> "none"]] /\ stmt = Waiting
SqlInit == /\ ask \in TreeAsks \cup RawAsks \cup WriteAsks \cup ReadAsks \cup CallAsks \cup DocsAsks
           /\ stmt = Waiting

TableRequest ==
  /\ Pending("query")
  /\ \E params \in {parseQueryParams(ask.r.url)}, prefer \in {parsePrefer(ask.r.prefer)} :
       stmt' = BuildQuery(Table, ask.r, params, prefer)
  /\ UNCHANGED ask
\* executeQuery asks for the count first, if the client wants it.
CountRows ==
  /\ ask.r.kind = "query" /\ stmt # Waiting /\ stmt.ok /\ "count" \notin DOMAIN stmt
  /\ WantsCountExact(parsePrefer(ask.r.prefer))
  /\ \E params \in {parseQueryParams(ask.r.url)} :
       stmt' = stmt @@ [count |-> CountQuery(Table, params), params |-> params]
  /\ UNCHANGED ask
FilterText == Pending("raw") /\ stmt' = parseFilter(ask.r.key, ask.r.value) /\ UNCHANGED ask
SqlNext == TableRequest \/ CountRows \/ FilterText \/ CatalogNext
-----------------------------------------------------------------------------
\* A filter is refused if it names a column the table does not have or nests
\* too deep; otherwise its SQL means what the filter says, whatever its
\* conditions evaluate to: quoting, JSON paths with keys and array indexes,
\* wildcards, array and tsvector columns, modifiers, negation, nesting,
\* precedence and parameter numbers included (filter.go, toSQL; doc.go).
Refused(n) == Deep(n) > MaxFilterDepth \/ \E l \in Leaves(n) : l.field = <<"z">>
FilterMeansWhatItSays ==
  Handled("query") /\ ask.r.method = "GET" /\ "page" \notin DOMAIN ask =>
    LET ns == ask.filters
        ids == UNION {{Wanted(l) : l \in Leaves(ns[i])} : i \in DOMAIN ns}
    IN  IF \E i \in DOMAIN ns : Refused(ns[i]) THEN ~stmt.ok
        ELSE stmt.ok /\ \A true \in SUBSET ids :
               Eval(stmt.where, stmt.args, true) = \A i \in DOMAIN ns : Means(ns[i], true)

\* "a filter can neither inject SQL nor be silently dropped" (filter.go:24):
\* whatever text is accepted, every word of it is in the parsed filter, in
\* its place.
NoFilterTextIgnored ==
  Handled("raw") /\ stmt.ok =>
    NodeWords(stmt.val) = (IF ask.r.key = <<"a">> THEN <<"a">> ELSE <<"or">>) \o Words(ask.r.value)

\* A PATCH or DELETE changes the rows its filters select and no other, and
\* sets the columns of the body to their own values; a POST inserts exactly
\* the body's columns; the rows come back iff the last return preference asks
\* for them (buildInsertQuery, buildUpdateQuery, buildDeleteQuery).
WritesExactlyTheMatch ==
  Handled("query") /\ ask.r.method # "GET" =>
    LET r == ask.r
        bad == r.method # "DELETE" /\ (r.data = <<>> \/ \E i \in DOMAIN r.data : r.data[i].key = <<"z">>)
        meant(row) == \A i \in DOMAIN ask.filters :
          Means(ask.filters[i], {c \in {Wanted(l) : l \in Leaves(ask.filters[i])} : RowTruth(c, row)})
        returns == SelectSeq(r.prefer, LAMBDA d : d.key = "return")
    IN  /\ stmt.ok = ~bad
        /\ stmt.ok =>
             /\ r.method # "POST" => \A i \in DOMAIN Rows : Selects(stmt, Rows[i]) = meant(Rows[i])
             /\ r.method # "DELETE" =>
                  {<<stmt.set[i].col, stmt.args[stmt.set[i].expr.arg]>> : i \in DOMAIN stmt.set}
                    = {<<r.data[i].key, r.data[i].value.val>> : i \in DOMAIN r.data}
             /\ (stmt.list # <<>>) = (returns # <<>> /\ Last(returns).value = "representation")

\* The rows of a statement, nulls last unless nullsfirst is asked for.
Before(o, v, w) ==
  IF v = <<>> \/ w = <<>> THEN v # w /\ (v = <<>>) = (o.nulls = "first")
  ELSE IF o.dir = "desc" THEN Rank(v) > Rank(w) ELSE Rank(v) < Rank(w)
Result(st) ==
  LET o == st.order[1]
      hits == SelectSeq(Rows, LAMBDA row : Selects(st, row))
      sorted == SortSeq(hits, LAMBDA v, w : Before(o, v[o.col], w[o.col]))
      from == IF st.offset = 0 THEN 0 ELSE st.args[st.offset]
      rest == Rest(sorted, from)
  IN  IF st.limit = 0 THEN rest ELSE SubSeq(rest, 1, IF st.args[st.limit] < Len(rest)
                                                      THEN st.args[st.limit] ELSE Len(rest))
\* A page is the asked slice of the filtered rows in the asked order: from the
\* offset on, or from the first row if the offset is negative, and with a limit
\* that is not positive to the last row.  The Content-Range has the total, and
\* a slice exactly if the limit is positive and the offset is before the end:
\* that of the page, unless the offset is negative, when it begins below zero
\* and no client can take it for the page's.  An order with the direction
\* before the place of nulls, PostgREST's form, is refused (executeQuery,
\* parseOrderParam).
PageIsTheAskedSlice ==
  Handled("query") /\ "page" \in DOMAIN ask =>
    LET n(v, default) == IF v = <<>> THEN default ELSE v[1]
        meant(row) == \A i \in DOMAIN ask.filters :
          Means(ask.filters[i], {c \in {Wanted(l) : l \in Leaves(ask.filters[i])} : RowTruth(c, row)})
        all == SortSeq(SelectSeq(Rows, meant),
                       LAMBDA v, w : Before(ask.order, v[<<"d">>], w[<<"d">>]))
        slice(from, to) == SubSeq(all, from + 1, Min({to, Len(all)}))
        names(range, page, offset) ==
          IF offset < 0 THEN range[1] < 0
          ELSE range[1] <= range[2] /\ range[2] < Len(all) /\ page = slice(range[1], range[2] + 1)
    IN  /\ stmt.ok = ~ask.order.dirFirst
        /\ stmt.ok =>
             \E limit \in {n(ask.page[1], DefaultLimit)}, offset \in {n(ask.page[2], 0)},
                page \in {Result(stmt)} :
               LET from == IF offset < 0 THEN 0 ELSE offset
                   to   == IF limit <= 0 THEN Len(all) ELSE from + limit
               IN  /\ page = slice(from, to)
                   /\ "count" \in DOMAIN stmt =>
                        LET answer == ContentRange(stmt.params, Len(all))
                        IN  /\ Result(stmt.count) = all /\ answer.count = Len(all)
                            /\ (answer.range # <<>>) = (limit > 0 /\ offset < Len(all))
                            /\ answer.range # <<>> => names(answer.range, page, offset)
=============================================================================
