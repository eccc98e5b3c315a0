---------------------------- MODULE RestCatalog -----------------------------
(***************************************************************************)
(* The requests the REST server answers from the database's catalogue: a   *)
(* function call becomes a statement (RestRpc), a request for the document *)
(* describes the cached tables (OpenApi).                                  *)
(***************************************************************************)
EXTENDS Naturals, Sequences

CONSTANTS
  Catalog,   \* the functions of the database
  Calls,     \* the function calls [kind |-> "call", path, method, json, args]
  Snapshots  \* the sets of tables the schema cache may hold

Rpc == INSTANCE RestRpc
Api == INSTANCE OpenApi

\* A function has a number of arguments.  The cache maps full names to tables;
\* a key has a sequence of columns, and no table is called like the {column}
\* segment of another's record path, which one document could not tell apart.
ASSUME CatalogAssumption ==
  /\ \A f \in Catalog : f.numArgs \in Nat
  /\ \A c \in Calls : c.kind = "call"
  /\ \A T \in Snapshots : \A t, u \in T :
       /\ Api!fullName(t) = Api!fullName(u) => t = u
       /\ t.pkeys \in Seq(STRING)
       /\ \A i \in DOMAIN u.pkeys : t.name # Api!KeySegment(u.pkeys[i])

VARIABLES
  ask,  \* the request and what it means
  stmt  \* what it was turned into

Waiting == [waiting |-> TRUE]

CallAsks == {[r |-> c] : c \in Calls}
DocsAsks == {[r |-> [kind |-> "docs", tables |-> T]] : T \in Snapshots}
CatalogInit == ask \in CallAsks \cup DocsAsks /\ stmt = Waiting

Pending(kind) == ask.r.kind = kind /\ stmt = Waiting
RpcRequest == Pending("call") /\ stmt' \in Rpc!HandleRPC(ask.r, Catalog) /\ UNCHANGED ask
Document == Pending("docs") /\ stmt' = Api!GenerateSpecification(ask.r.tables) /\ UNCHANGED ask
CatalogNext == RpcRequest \/ Document
CatalogSpec == CatalogInit /\ [][CatalogNext]_<<ask, stmt>>
-----------------------------------------------------------------------------
Handled(kind) == ask.r.kind = kind /\ stmt # Waiting

\* The name of parameter i in the catalogue, argN if it has none.
OwnName(f, i) == IF i \in DOMAIN f.names /\ f.names[i] # <<>> THEN f.names[i] ELSE Rpc!Arg(i)

\* null arrives as NULL, any other value as the text Go prints for it: the
\* number 1000000 as 1e+06, an object not as JSON.
Arrives(v, sent) == IF v.type = "null" THEN sent.type = "null"
                    ELSE sent.type = "text" /\ sent.val = Rpc!Sprint(v)

\* An accepted call is one of a function of the name that was asked for, and
\* each parameter of that function gets, in its position, a value the body has
\* for it, under its own name or under argN; a call that leaves one out is
\* refused (rpc.go, buildFunctionCallQuery).
CallPassesEveryArgument ==
  Handled("call") /\ stmt.ok =>
    /\ ask.r.method = "POST" /\ ask.r.json
    /\ \E f \in Catalog :
         /\ f.schema = Rpc!SchemaName(ask.r.path) /\ f.name = Rpc!FunctionName(ask.r.path)
         /\ stmt.schema = f.schema /\ stmt.name = f.name /\ Len(stmt.args) = f.numArgs
         /\ \A i \in 1..f.numArgs : \E key \in {OwnName(f, i), Rpc!Arg(i)} :
              key \in DOMAIN ask.r.args /\ Arrives(ask.r.args[key], stmt.args[i])

\* "Functions are called with POST and a JSON object of arguments keyed by
\* parameter name (arg1, arg2, ... for unnamed parameters)" (doc.go:98-99): a
\* call of the only function of that name, with exactly those keys, is
\* accepted.
NamedArgumentsAccepted ==
  Handled("call") /\ ask.r.method = "POST" /\ ask.r.json /\ ask.r.path # <<>> =>
    LET named == {f \in Catalog : /\ f.schema = Rpc!SchemaName(ask.r.path)
                                  /\ f.name = Rpc!FunctionName(ask.r.path)}
    IN  \A f \in named :
          named = {f} /\ DOMAIN ask.r.args = {OwnName(f, i) : i \in 1..f.numArgs} => stmt.ok

\* The tables whose paths the mux gives to another handler.
Shadowed(t) == \/ t.schema = "rpc"
               \/ t.schema = "public" /\ t.name \in {"rpc", "openapi.json"}

\* The document against the server.  A table is documented with its columns
\* under a path that is served from that very table, unless the mux gives the
\* path to another handler: the tables of a schema rpc and the public tables rpc
\* and openapi.json are documented and not served.  And no documented path, record
\* paths included, reads or writes any table but the one it is documented for
\* (openapi.go against the mux and tableFromPath).
DocumentedTablesAreServed ==
  Handled("docs") =>
    /\ \A t \in ask.r.tables :
         \E p \in DOMAIN stmt.paths :
           /\ Api!Served(p, ask.r.tables) = (IF Shadowed(t) THEN {} ELSE {t})
           /\ stmt.paths[p].post.refs = {Api!fullName(t)}
           /\ <<"order", "query", "string">> \in stmt.paths[p].get.params
           /\ DOMAIN stmt.schemas[Api!fullName(t)].properties
                = {t.columns[i].name : i \in DOMAIN t.columns}
    /\ \A p \in DOMAIN stmt.paths : \A u \in Api!Served(p, ask.r.tables) :
         stmt.paths[p].get.refs = {Api!fullName(u)}
=============================================================================
