------------------------------ MODULE RestRpc -------------------------------
(***************************************************************************)
(* Function calls of the REST server (pkg/rest/rpc.go): POST /rpc/<name>   *)
(* with the arguments as a JSON object.  A function of the catalogue is    *)
(* [schema, name, numArgs, names, types, modes, retset]; a JSON value is   *)
(* [type, val] with its JSON text.  A string that reads as a number or a   *)
(* boolean is "digits" or "boolean string", a number from 10^6 up, which   *)
(* %v prints with an exponent, is "big number".                            *)
(***************************************************************************)
EXTENDS Naturals, Sequences

Refuse(status) == [ok |-> FALSE, status |-> status]

\* The default name of parameter i.
Arg(i) == <<"arg", i>>

\* The type assertions argTypes.(string), argNames.([]any), argModes.([]any):
\* getFunction passes pointers to what it scanned, so none of them succeeds.
Asserted(scanned) == <<>>

\* parseFunctionParameters: names, types and modes where the arrays have them.
parseFunctionParameters(f) ==
  LET names == Asserted(f.names) types == Asserted(f.types) modes == Asserted(f.modes)
      mode(m) == CASE m = "o" -> "OUT" [] m = "b" -> "INOUT" [] m = "v" -> "VARIADIC"
                   [] OTHER -> "IN"
  IN  [i \in 1..f.numArgs |->
         [name |-> IF i <= Len(names) /\ names[i] # <<>> THEN names[i] ELSE Arg(i),
          type |-> IF i <= Len(types) THEN types[i] ELSE "text",
          mode |-> IF i <= Len(modes) THEN mode(modes[i]) ELSE "IN",
          hasDefault |-> FALSE]] \* DefaultValue is never set

\* fmt.Sprintf("%v"): a big number with an exponent (1e+06), an object or an
\* array in Go's notation (map[a:1], [1 2]), anything else as it is.
Sprint(v) == CASE v.type = "big number" -> <<"exponent">> \o v.val
               [] v.type \in {"object", "array"} -> <<"Go">> \o v.val
               [] OTHER -> v.val

\* convertArgumentType: how a JSON value is sent for a parameter's type.
convertArgumentType(v, type) ==
  LET as(t, val) == [ok |-> TRUE, type |-> t, val |-> val] IN
  CASE v.type = "null" -> as("null", <<>>)
    [] v.type # "null" /\ type \in {"integer", "int4", "int8", "bigint", "smallint"} ->
         IF v.type \in {"number", "big number", "digits"} THEN as("int64", v.val) ELSE Refuse(400)
    [] v.type # "null" /\ type \in {"numeric", "decimal", "real", "double precision", "float4", "float8"} ->
         IF v.type \in {"number", "big number", "digits"} THEN as("float64", v.val) ELSE Refuse(400)
    [] v.type # "null" /\ type \in {"boolean", "bool"} ->
         IF v.type \in {"bool", "boolean string"} THEN as("bool", v.val) ELSE Refuse(400)
    [] v.type # "null" /\ type \in {"json", "jsonb"} -> as("text", v.val)
    [] v.type # "null" /\ type = "uuid" -> as("text", <<"'">> \o Sprint(v) \o <<"'::TEXT">>)
    [] OTHER -> as("text", Sprint(v))

\* Mutant: a missing argument is left out.
MutAddArgument(acc, p, args) ==
  IF p.name \notin DOMAIN args THEN acc
  ELSE [acc EXCEPT !.args = Append(@, convertArgumentType(args[p.name], p.type))]

\* One iteration of buildFunctionCallQuery's loop: the parameter's value by its
\* name or its position; one with a default may be left out.
AddArgument(acc, p, args) ==
  LET key == IF p.name \in DOMAIN args THEN p.name ELSE Arg(acc.at)
      v   == convertArgumentType(args[key], p.type)
  IN  IF key \notin DOMAIN args THEN (IF p.hasDefault THEN acc ELSE Refuse(400))
      ELSE IF v.ok THEN [acc EXCEPT !.args = Append(@, v)] ELSE Refuse(400)

\* The loops over the parameters: only IN and INOUT ones count, the first
\* that is refused ends the call.
Pass(acc, p, args) ==
  IF ~acc.ok \/ p.mode \notin {"IN", "INOUT"} THEN acc
  ELSE AddArgument([ok |-> TRUE, at |-> acc.at + 1, args |-> acc.args], p, args)
Passed(params, args) ==
  LET after[n \in 0..Len(params)] == IF n = 0 THEN [ok |-> TRUE, at |-> 0, args |-> <<>>]
                                     ELSE Pass(after[n - 1], params[n], args)
  IN  after

\* buildFunctionCallQuery: the call with the input parameters' values in order.
buildFunctionCallQuery(f, params, args) ==
  LET end == Passed(params, args)[Len(params)]
  IN  IF end.ok THEN [ok |-> TRUE, schema |-> f.schema, name |-> f.name,
                      setof |-> f.retset, args |-> end.args]
      ELSE end

\* handleFunctionCall: the body is the arguments; an empty one is none.
handleFunctionCall(f, r) ==
  IF r.json THEN buildFunctionCallQuery(f, parseFunctionParameters(f), r.args) ELSE Refuse(400)

\* getFunction: the catalogue query returns any one of the functions of that
\* name.
getFunction(schema, fname, catalog) ==
  LET found == {f \in catalog : f.schema = schema /\ f.name = fname}
  IN  IF found = {} THEN {Refuse(404)} ELSE {[ok |-> TRUE, function |-> f] : f \in found}

\* handleRPC: schema/function, or a function of public.
SchemaName(path)   == IF Len(path) > 1 THEN path[1] ELSE "public"
FunctionName(path) == IF Len(path) > 1 THEN path[2] ELSE path[1]
HandleRPC(r, catalog) ==
  IF r.path = <<>> THEN {Refuse(400)}
  ELSE IF r.method # "POST" THEN {Refuse(405)}
  ELSE {IF f.ok THEN handleFunctionCall(f.function, r) ELSE f :
          f \in getFunction(SchemaName(r.path), FunctionName(r.path), catalog)}
=============================================================================
