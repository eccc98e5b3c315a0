----------------------------- MODULE RestQuery ------------------------------
(***************************************************************************)
(* From a REST request to an SQL statement (pkg/rest/query.go, order_by.go,*)
(* http_headers.go) and the Content-Range it is answered with (server.go). *)
(* A table is a sequence of columns [name, type, kind, elem]; a statement  *)
(* is a record whose placeholders are positions in its args.               *)
(***************************************************************************)
EXTENDS RestFilter

DefaultLimit == 100
-----------------------------------------------------------------------------
\* splitOrderParamString: commas split only outside parentheses.
splitOrderParamString(s) ==
  LET depth[i \in 0..Len(s)] ==
        IF i = 0 THEN 0
        ELSE depth[i-1] + (IF s[i] = "(" THEN 1 ELSE IF s[i] = ")" THEN -1 ELSE 0)
      add(parts, i) == IF s[i] = "," /\ depth[i] = 0 THEN Append(parts, <<>>)
                       ELSE [parts EXCEPT ![Len(parts)] = Append(@, s[i])]
  IN  SelectSeq(FoldLeft(add, <<<<>>>>, [i \in 1..Len(s) |-> i]), LAMBDA p : p # <<>>)

TrimSuffix(s, suffix) == IF IsSuffix(suffix, s) THEN SubSeq(s, 1, Len(s) - Len(suffix)) ELSE s
Dot(w) == <<".", w>>

\* similarityRegex: the arguments of the first similarity(column,text), <<>>
\* if there is none.
Similarity(s) ==
  LET opens == {i \in 1..(Len(s) - 1) : s[i] = "similarity" /\ s[i+1] = "("}
      pair(col, text) == IF col.val = <<>> \/ text.val = <<>> \/ text.rest = <<>> THEN <<>>
                         ELSE <<[col |-> col.val, text |-> SelectSeq(text.val, LAMBDA t : t # "'")]>>
      args(col) == IF col.rest = <<>> THEN <<>> ELSE pair(col, until(Tail(col.rest), {")"}))
  IN  IF opens = {} THEN <<>> ELSE args(until(Rest(s, Min(opens) + 1), {","}))

\* parseOrderParam: direction and nulls position are suffixes of the column;
\* similarity() sorts the most similar first by default.
OrderItem(part, sim) ==
  LET dir == CASE IsSuffix(Dot("desc"), part) -> "desc"
               [] IsSuffix(Dot("asc"), part) -> "asc"
               [] OTHER -> IF sim = <<>> THEN "asc" ELSE "desc"
      item(col, nulls) == [col |-> TrimSuffix(col, Dot("nulls" \o nulls)), dir |-> dir,
                           nulls |-> nulls, sim |-> IF sim = <<>> THEN <<>> ELSE sim[1].text]
      placed(col) == item(col, IF IsSuffix(Dot("nullsfirst"), col) THEN "first" ELSE "last")
  IN  placed(IF sim = <<>> THEN TrimSuffix(part, Dot(dir)) ELSE sim[1].col)
parseOrderParam(s) ==
  LET add(items, part) == Append(items, OrderItem(part, Similarity(part)))
  IN  FoldLeft(add, <<>>, splitOrderParamString(s))

\* isReservedParam
Reserved == {"select", "order", "limit", "offset", "columns", "on_conflict"}

\* parseQueryParams.  The URL's parameters come in key order; a number that
\* does not parse, <<>>, counts as absent.
Get(url, key) == LET vs == SelectSeq(url, LAMBDA q : q.key = <<key>>)
                 IN  IF vs = <<>> THEN <<>> ELSE vs[1].value
parseIntParam(value, default) == IF value = <<>> THEN default ELSE value[1]
parseQueryParams(url) ==
  [select  |-> IF Get(url, "select") = <<>> THEN <<>> ELSE Split(Get(url, "select")),
   order   |-> parseOrderParam(Get(url, "order")),
   limit   |-> parseIntParam(Get(url, "limit"), DefaultLimit),
   offset  |-> parseIntParam(Get(url, "offset"), 0),
   filters |-> SelectSeq(url, LAMBDA q : Len(q.key) # 1 \/ q.key[1] \notin Reserved)]

\* parsePrefer: the last valid directive of each kind wins; a valid return
\* value keeps its case.
Lower(v) == IF v = "Representation" THEN "representation" ELSE v
parsePrefer(header) ==
  LET valid(k, values) == SelectSeq(header, LAMBDA d : d.key = k /\ Lower(d.value) \in values)
      returns == valid("return", {"minimal", "representation", "headers-only"})
      counts  == valid("count", {"exact", "planned", "estimated"})
  IN  [return |-> IF returns = <<>> THEN "minimal" ELSE Last(returns).value,
       count  |-> IF counts = <<>> THEN "" ELSE Last(counts).value]
WantsRepresentation(p) == p.return = "representation"
WantsCountExact(p) == Lower(p.count) = "exact"
-----------------------------------------------------------------------------
\* IsComposite, columnCastExpression: how a column is read.
columnCastExpression(c) ==
  [col |-> c.name,
   cast |-> CASE "c" \in {c.kind, c.elem} -> "to_jsonb"
              [] c.type \in {"uuid", "date", "time without time zone"} -> "TEXT"
              [] OTHER -> ""]

returningList(table) == [i \in 1..Len(table) |-> columnCastExpression(table[i])]

\* selectList: "*" is every column; unknown columns are skipped.
selectList(table, selected) ==
  IF selected = <<>> THEN returningList(table)
  ELSE FlattenSeq([i \in 1..Len(selected) |->
         IF selected[i] = <<"*">> THEN returningList(table)
         ELSE LET c == findColumn(table, selected[i])
              IN  [j \in 1..Len(c) |-> columnCastExpression(c[j])]])

\* columnValueExpression: an object for a composite column goes as jsonb.
columnValueExpression(c, value, args) ==
  Sql([populate |-> value.type \notin {"null", "string"} /\ c.kind = "c",
       arg |-> Len(args) + 1], Append(args, value.val))

\* buildOrderByClause: an unknown column is an error.
buildOrderByClause(table, order, args) ==
  LET add(acc, o) ==
        IF ~acc.ok \/ findColumn(table, o.col) = <<>> THEN Fail
        ELSE LET args1 == IF o.sim = <<>> THEN acc.args ELSE Append(acc.args, o.sim)
             IN  Sql(Append(acc.sql, [col |-> o.col, dir |-> o.dir, nulls |-> o.nulls,
                                      sim |-> IF o.sim = <<>> THEN 0 ELSE Len(args1)]),
                     args1)
  IN  FoldLeft(add, Sql(<<>>, args), order)

\* LIMIT and OFFSET are bind parameters, left out unless positive.
AddPage(args, limit, offset) ==
  LET args1 == IF limit > 0 THEN Append(args, limit) ELSE args
      args2 == IF offset > 0 THEN Append(args1, offset) ELSE args1
  IN  [limit |-> IF limit > 0 THEN Len(args1) ELSE 0,
       offset |-> IF offset > 0 THEN Len(args2) ELSE 0, args |-> args2]

\* The builders take the parts that are already built: the assignments of an
\* INSERT or UPDATE, and the WHERE clause.
buildSelectQuery(table, params, where) ==
  LET select(order, page) ==
        [ok |-> TRUE, verb |-> "SELECT", list |-> selectList(table, params.select),
         set |-> <<>>, where |-> where.sql, order |-> order,
         limit |-> page.limit, offset |-> page.offset, args |-> page.args]
  IN  Then(buildOrderByClause(table, params.order, where.args), LAMBDA order :
        select(order.sql, AddPage(order.args, params.limit, params.offset)))

\* The columns of an INSERT or an UPDATE, in key order; an unknown one, or
\* none at all, is an error.
Assignments(table, data) ==
  LET add(acc, d) ==
        IF ~acc.ok \/ findColumn(table, d.key) = <<>> THEN Fail
        ELSE LET v == columnValueExpression(findColumn(table, d.key)[1], d.value, acc.args)
             IN  Sql(Append(acc.sql, [col |-> d.key, expr |-> v.sql]), v.args)
      all == FoldLeft(add, Sql(<<>>, <<>>), data)
  IN  IF all.ok /\ all.sql # <<>> THEN all ELSE Fail

Statement(verb, table, set, where, args, prefer) ==
  [ok |-> TRUE, verb |-> verb, set |-> set, where |-> where, args |-> args,
   list |-> IF WantsRepresentation(prefer) THEN returningList(table) ELSE <<>>,
   order |-> <<>>, limit |-> 0, offset |-> 0]

buildInsertQuery(table, set, prefer) ==
  Statement("INSERT", table, set.sql, <<>>, set.args, prefer)

\* Mutant: the arguments of the assignments are passed twice.
MutBuildUpdateQuery(table, set, where, prefer) ==
  Statement("UPDATE", table, set.sql, where.sql, set.args \o where.args, prefer)

buildUpdateQuery(table, set, where, prefer) ==
  Statement("UPDATE", table, set.sql, where.sql, where.args, prefer)

buildDeleteQuery(table, where, prefer) ==
  Statement("DELETE", table, <<>>, where.sql, where.args, prefer)

\* handleGet, handlePost, handlePatch, handleDelete: what a request runs; a
\* builder's error is answered with 400.  The filter's placeholders follow
\* those of the assignments; a POST has no filter.
BuildQuery(table, r, params, prefer) ==
  LET none == Sql(<<>>, <<>>)
      set == IF r.method \in {"POST", "PATCH"} THEN Assignments(table, r.data) ELSE none
      query(data, where) ==
        CASE r.method = "GET"    -> buildSelectQuery(table, params, where)
          [] r.method = "POST"   -> buildInsertQuery(table, data, prefer)
          [] r.method = "PATCH"  -> buildUpdateQuery(table, data, where, prefer)
          [] r.method = "DELETE" -> buildDeleteQuery(table, where, prefer)
  IN  Then(set, LAMBDA data :
        IF r.method = "POST" THEN query(data, none)
        ELSE Then(buildWhereClause(table, params.filters, data.args), LAMBDA where :
               query(data, where)))

\* executeQuery's count: the same filters without LIMIT and OFFSET.
CountQuery(table, params) ==
  Then(buildWhereClause(table, params.filters, <<>>), LAMBDA where :
    buildSelectQuery(table, [params EXCEPT !.limit = 0, !.offset = 0], where))

\* Mutant: the end is not cut off at the count.
MutContentRange(params, count) ==
  IF params.limit > 0 /\ params.offset < count
  THEN [range |-> <<params.offset, params.offset + params.limit - 1>>, count |-> count]
  ELSE [range |-> <<>>, count |-> count]

\* executeQuery's Content-Range: "start-end/count" or "*/count".
ContentRange(params, count) ==
  LET end == params.offset + params.limit - 1 IN
  IF params.limit > 0 /\ params.offset < count
  THEN [range |-> <<params.offset, IF end >= count THEN count - 1 ELSE end>>, count |-> count]
  ELSE [range |-> <<>>, count |-> count]
=============================================================================
