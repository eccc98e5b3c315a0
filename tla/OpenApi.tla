------------------------------ MODULE OpenApi -------------------------------
(***************************************************************************)
(* The OpenAPI document of the cached schema (pkg/pgx/schema/openapi.go)   *)
(* and the server's own resolution of a path (pkg/rest/server.go).  A      *)
(* table is [schema, name, columns, pkeys], a column [name, type,          *)
(* nullable], a path a sequence of segments.                               *)
(***************************************************************************)
EXTENDS Naturals, Sequences, SequencesExt

fullName(t) == <<t.schema, t.name>>

\* tableFromPath: the schema is public unless the path names one; further
\* segments are ignored.
tableFromPath(path, tables) ==
  LET key == IF Len(path) > 1 THEN <<path[1], path[2]>> ELSE <<"public", path[1]>>
  IN  {t \in tables : fullName(t) = key}

\* The mux: /rpc/ and below is the function handler's, and /rpc is redirected
\* there; /openapi.json is the document; handleRequest takes any other path.
Handler(path) == CASE path[1] = "rpc" -> "handleRPC"
                   [] path = <<"openapi.json">> -> "openAPIHandler"
                   [] OTHER -> "handleRequest"

\* The table a request for this path reads or writes, if any.
Served(path, tables) == IF Handler(path) = "handleRequest" THEN tableFromPath(path, tables) ELSE {}

\* strings.Contains on a column's data type.
TypeContains(type, word) ==
  CASE word = "int"  -> type \in {"smallint", "integer", "bigint", "interval", "point"}
    [] word = "time" -> type \in {"timestamp", "time"}
    [] OTHER -> type = word

\* getColumnSchema
getColumnSchema(c) ==
  LET has(words) == \E w \in words : TypeContains(c.type, w) IN
  CASE has({"int"}) -> <<"integer", CASE has({"smallint"}) -> "int16"
                                      [] has({"bigint"}) -> "int64" [] OTHER -> "int32">>
    [] has({"numeric", "decimal", "real", "double"}) ->
         <<"number", IF has({"double"}) THEN "double" ELSE "float">>
    [] has({"bool"}) -> <<"boolean">>
    [] has({"date"}) -> <<"string", "date">>
    [] has({"timestamp"}) -> <<"string", "date-time">>
    [] has({"time"}) -> <<"string", "time">>
    [] has({"uuid"}) -> <<"string", "uuid">>
    [] has({"json", "jsonb"}) -> <<"object">>
    [] OTHER -> <<"string">>

\* getParameterSchema
getParameterSchema(c) ==
  CASE getColumnSchema(c)[1] \in {"integer", "number"} -> "number"
    [] getColumnSchema(c)[1] = "boolean" -> "boolean"
    [] OTHER -> "string"

\* buildTableSchema
buildTableSchema(t) ==
  [properties |-> [n \in {t.columns[i].name : i \in DOMAIN t.columns} |->
      getColumnSchema(SelectSeq(t.columns, LAMBDA c : c.name = n)[1])],
   required |-> {t.columns[i].name : i \in {j \in DOMAIN t.columns : ~t.columns[j].nullable}}]

\* buildQueryParameters, buildPrimaryKeyParameters: name, place, type.
buildQueryParameters(t) ==
  {<<"limit", "query", "integer">>, <<"offset", "query", "integer">>,
   <<"order", "query", "string">>}
  \cup {<<t.columns[i].name, "query", getParameterSchema(t.columns[i])>> : i \in DOMAIN t.columns}
buildPrimaryKeyParameters(t) ==
  {<<k, "path", getParameterSchema(SelectSeq(t.columns, LAMBDA c : c.name = k)[1])>> :
      k \in ToSet(t.pkeys)}

Operation(params, body, response) == [params |-> params, refs |-> body \cup response]

\* buildTableOperations and buildRecordOperations: parameters and the schemas
\* the request body and the response refer to.
buildTableOperations(t) ==
  [get  |-> Operation(buildQueryParameters(t), {}, {fullName(t)}),
   post |-> Operation({}, {fullName(t)}, {fullName(t)})]
buildRecordOperations(t) ==
  LET keys == buildPrimaryKeyParameters(t) IN
  [get    |-> Operation(keys, {}, {fullName(t)}),
   patch  |-> Operation(keys, {fullName(t)}, {fullName(t)}),
   delete |-> Operation(keys, {}, {})]

\* Mutant: every path is the bare table name.
MutTablePath(t) == <<t.name>>
TablePath(t) == IF t.schema = "public" THEN <<t.name>> ELSE <<t.schema, t.name>>

\* buildRecordPath: one {key} segment per primary key column.
KeySegment(key) == "{" \o key \o "}"
buildRecordPath(t) == TablePath(t) \o [i \in DOMAIN t.pkeys |-> KeySegment(t.pkeys[i])]

\* GenerateSpecification.  Paths are a map: a later table's entry replaces an
\* earlier one's of the same path.
Entries(tables) ==
  {<<TablePath(t), buildTableOperations(t)>> : t \in tables}
  \cup {<<buildRecordPath(t), buildRecordOperations(t)>> : t \in {u \in tables : u.pkeys # <<>>}}
GenerateSpecification(tables) ==
  LET entries == Entries(tables)
  IN  [paths |-> [p \in {e[1] : e \in entries} |-> (CHOOSE e \in entries : e[1] = p)[2]],
       schemas |-> [n \in {fullName(t) : t \in tables} |->
                      buildTableSchema(CHOOSE t \in tables : fullName(t) = n)]]
=============================================================================
