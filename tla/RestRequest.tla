---------------------------- MODULE RestRequest -----------------------------
(***************************************************************************)
(* Requests to the REST server: the middleware chain of cmd/pigo/rest.go,  *)
(* the connection each request takes from the pool and its role            *)
(* (pkg/httputil/postgres.go), and the handlers (pkg/rest/server.go,       *)
(* rpc.go).  Requests run concurrently; every exchange with PostgreSQL is  *)
(* a step of its own.  A connection keeps the role and the claims of the   *)
(* last SET until the next one, across the requests that use it.           *)
(***************************************************************************)
EXTENDS Naturals, FiniteSets

CONSTANTS
  Requests,   \* request identifiers
  Conns,      \* the connections of the middleware's pool
  Inputs,     \* what a request may be: [path, method, origin, count, scheme, user, role, ok]
  Configs,    \* how the server may be set up: [oidc, basic, anon, envAnon]
  MaxReloads  \* bound: how often the schema cache is replaced

None == "none"   \* a value the context does not hold
Empty == ""      \* the empty string
NotString == "not a string" \* a role claim that is missing or not a string

\* None stands for what is absent: it is no connection, user or role.
ASSUME RestAssumption ==
  /\ None \notin Conns /\ MaxReloads \in Nat
  /\ \A q \in Inputs : /\ q.path \in {"table", "rpc", "docs", "openapi"}
                       /\ q.ok \in {"yes", "no", "claims unreadable"}
                       /\ q.user # None /\ q.role # None
  /\ \A conf \in Configs : conf.anon # None /\ conf.envAnon # None

VARIABLES
  config,   \* the middleware and authorizers in use
  phase,    \* the process: "starting", "up", "closing", "ended", "killed"
  req,      \* request -> its input
  pc,       \* request -> where its goroutine is
  ctx,      \* request -> context values [oidc, basic, role]
  handle,   \* request -> the connection of its *pgxpool.Conn, or None
  session,  \* connection -> [role, user] last set on it
  status,   \* request -> the HTTP status it was answered with, 0 before
  ran,      \* request -> the sessions its statements ran in
  wrote,    \* request -> whether its statement took effect
  cached,   \* whether the schema cache knows the table
  reloads

vars == <<config, phase, req, pc, ctx, handle, session, status, ran, wrote, cached, reloads>>

NoCtx == [oidc |-> None, basic |-> None, role |-> None]
Fresh == [role |-> None, user |-> None] \* a new connection: the pool's own role

\* NewServer and runRESTServer build the server before it serves.
Init ==
  /\ config \in Configs
  /\ phase = "starting"
  /\ req \in [Requests -> Inputs]
  /\ pc = [r \in Requests |-> "unsent"]
  /\ ctx = [r \in Requests |-> NoCtx]
  /\ handle = [r \in Requests |-> None]
  /\ session = [c \in Conns |-> Fresh]
  /\ status = [r \in Requests |-> 0]
  /\ ran = [r \in Requests |-> {}]
  /\ wrote = [r \in Requests |-> FALSE]
  /\ cached = TRUE /\ reloads = 0

Idle == {c \in Conns : \A r \in Requests : handle[r] # c}
Goto(r, l) == pc' = [pc EXCEPT ![r] = l]
Reply(r, code, l) == status' = [status EXCEPT ![r] = code] /\ Goto(r, l)
-----------------------------------------------------------------------------
\* The process.

\* Start: the cache is loaded, then the server listens; a failure is fatal.
Start ==
  /\ phase = "starting"
  /\ phase' \in {"up", "killed"}
  /\ UNCHANGED <<config, req, pc, ctx, handle, session, status, ran, wrote, cached, reloads>>

\* A signal.  Shutdown dereferences httpServer, which Start has not yet set
\* while it loads the cache: the process panics.
Signal ==
  /\ phase \in {"starting", "up"}
  /\ phase' = IF phase = "up" THEN "closing" ELSE "killed"
  /\ UNCHANGED <<config, req, pc, ctx, handle, session, status, ran, wrote, cached, reloads>>

Active(r) == pc[r] \notin {"unsent", "done"}

\* http.Server.Shutdown waits for the active requests, at most 10 seconds;
\* then log.Fatalf ends the process.
Shutdown ==
  /\ phase = "closing"
  /\ \/ (\A r \in Requests : ~Active(r)) /\ phase' = "ended"
     \/ (\E r \in Requests : Active(r)) /\ phase' = "killed"
  /\ UNCHANGED <<config, req, pc, ctx, handle, session, status, ran, wrote, cached, reloads>>

\* The cache's watcher replaces the snapshot: the table may come or go.
Reload ==
  /\ phase \in {"up", "closing"} /\ reloads < MaxReloads
  /\ cached' = ~cached /\ reloads' = reloads + 1
  /\ UNCHANGED <<config, phase, req, pc, ctx, handle, session, status, ran, wrote>>
-----------------------------------------------------------------------------
\* The middleware chain.  Each link answers (code > 0) or passes the context
\* on to the next.
Answer(code) == [code |-> code, ctx |-> NoCtx]
Pass(c) == [code |-> 0, ctx |-> c]

\* CORSWithOptions(nil): a preflight is answered here.
CORSWithOptions(q) == IF q.origin /\ q.method = "OPTIONS" THEN Answer(204) ELSE Pass(NoCtx)

\* VerifyOIDCToken(_, false): only a bearer token is looked at.
VerifyOIDCToken(q, c) ==
  IF q.scheme # "bearer" THEN Pass(c)
  ELSE IF q.ok = "yes" THEN Pass([c EXCEPT !.oidc = q.user])
  ELSE Answer(IF q.ok = "no" THEN 401 ELSE 500) \* 500: its claims cannot be read

\* VerifyBasicAuth(_, false): bad credentials are passed on as no credentials.
VerifyBasicAuth(q, c) ==
  IF q.scheme = "basic" /\ q.ok = "yes" THEN Pass([c EXCEPT !.basic = q.user]) ELSE Pass(c)

\* The authorizers: the role, or None when the request is not allowed.
WithOIDCAuthz(q, c) == IF c.oidc = None \/ q.role = NotString THEN None ELSE q.role
WithBasicAuthz(c) == c.basic
WithAnonAuthz(conf) == conf.anon

\* The role the first authorizer that allows the request gives it; those that
\* are not configured are not asked.
Authorize(q, c, conf) ==
  LET oidc == IF conf.oidc THEN WithOIDCAuthz(q, c) ELSE None
      basic == IF conf.basic THEN WithBasicAuthz(c) ELSE None
      anon == IF conf.anon # Empty THEN WithAnonAuthz(conf) ELSE None
  IN  IF oidc # None THEN oidc ELSE IF basic # None THEN basic ELSE anon

\* The chain in the order runRESTServer adds it; the context it leaves is what
\* the Postgres middleware sees.
Chain(q, conf) ==
  LET cors == CORSWithOptions(q)
      oidc == IF conf.oidc THEN VerifyOIDCToken(q, cors.ctx) ELSE Pass(cors.ctx)
      basic == IF conf.basic THEN VerifyBasicAuth(q, oidc.ctx) ELSE Pass(oidc.ctx)
  IN  IF cors.code > 0 THEN cors ELSE IF oidc.code > 0 THEN oidc ELSE basic

\* A request arrives and runs down the chain to the Postgres middleware, which
\* answers 401 or goes on to acquire a connection.
Receive(r) ==
  LET m == Chain(req[r], config)
      role == Authorize(req[r], m.ctx, config)
  IN  /\ phase = "up" /\ pc[r] = "unsent"
      /\ IF m.code > 0 THEN Reply(r, m.code, "done") /\ UNCHANGED ctx
         ELSE IF role = None THEN Reply(r, 401, "done") /\ UNCHANGED ctx
         ELSE /\ ctx' = [ctx EXCEPT ![r] = [m.ctx EXCEPT !.role = role]]
              /\ Goto(r, "acquire") /\ UNCHANGED status
      /\ UNCHANGED <<config, phase, req, handle, session, ran, wrote, cached, reloads>>

\* pool.Acquire: waits for an idle connection.
Acquire(r) ==
  /\ phase \in {"up", "closing"} /\ pc[r] = "acquire"
  /\ \E c \in Idle : handle' = [handle EXCEPT ![r] = c]
  /\ Goto(r, "handle")
  /\ UNCHANGED <<config, phase, req, ctx, session, status, ran, wrote, cached, reloads>>

\* pool.Acquire fails: the client went away while it waited.
AcquireFails(r) ==
  /\ phase \in {"up", "closing"} /\ pc[r] = "acquire"
  /\ Reply(r, 500, "done")
  /\ UNCHANGED <<config, phase, req, ctx, handle, session, ran, wrote, cached, reloads>>
-----------------------------------------------------------------------------
\* Conn: the user, if the context has one.
Conn(c) == IF c.oidc # None THEN c.oidc
           ELSE IF c.basic \notin {None, Empty} THEN c.basic
           ELSE IF c.role # Empty THEN "anon" ELSE None

\* The role ConnWithRole sets; PIGO_POSTGRES_ANON_ROLE is the last resort.
RoleOf(c, conf) ==
  IF c.role # Empty THEN c.role
  ELSE IF c.basic \notin {None, Empty} THEN c.basic
  ELSE IF conf.envAnon # Empty THEN conf.envAnon ELSE None

\* Mutant: a connection that already has a role is taken as it is.
MutConnWithRole(r, next) ==
  LET user == Conn(ctx[r]) role == RoleOf(ctx[r], config) c == handle[r]
  IN  \/ /\ user = None \/ role = None
         /\ Reply(r, 500, "done") /\ UNCHANGED <<handle, session>>
      \/ /\ user # None /\ role # None
         /\ \/ /\ session' = IF session[c] # Fresh THEN session
                             ELSE [session EXCEPT ![c] = [role |-> role, user |-> user]]
               /\ Goto(r, next) /\ UNCHANGED <<handle, status>>
            \/ /\ handle' = [handle EXCEPT ![r] = None]
               /\ Reply(r, 500, "done") /\ UNCHANGED session

\* ConnWithRole: without a user or a role the caller gets an error, and the
\* connection stays with the request; SET ROLE may fail, which releases it.
\* The caller answers every error with 500.
ConnWithRole(r, next) ==
  LET user == Conn(ctx[r]) role == RoleOf(ctx[r], config) c == handle[r]
  IN  \/ /\ user = None \/ role = None
         /\ Reply(r, 500, "done") /\ UNCHANGED <<handle, session>>
      \/ /\ user # None /\ role # None
         /\ \/ /\ session' = [session EXCEPT ![c] = [role |-> role, user |-> user]]
               /\ Goto(r, next) /\ UNCHANGED <<handle, status>>
            \/ /\ handle' = [handle EXCEPT ![r] = None]
               /\ Reply(r, 500, "done") /\ UNCHANGED session

Running(r, l) == phase \in {"up", "closing"} /\ pc[r] = l

\* handleRequest and handleRPC begin alike: the connection with its role,
\* whose release is deferred.
TakeConn(r) ==
  /\ Running(r, "handle") /\ req[r].path # "openapi"
  /\ ConnWithRole(r, IF req[r].path = "rpc" THEN "rpc" ELSE "request")
  /\ UNCHANGED <<config, phase, req, ctx, ran, wrote, cached, reloads>>

\* The OpenAPI handler: Conn without a role, the document, the release.  Conn
\* may fail, which keeps the connection.
ServeOpenAPI(r) ==
  /\ Running(r, "handle") /\ req[r].path = "openapi"
  /\ IF Conn(ctx[r]) = None THEN Reply(r, 500, "done") ELSE Reply(r, 200, "return")
  /\ UNCHANGED <<config, phase, req, ctx, handle, session, ran, wrote, cached, reloads>>

\* handleRequest's routing, with the builders' errors: the docs page, an
\* unknown table, a method or a request that is refused, or a statement.
HandleRequest(r) ==
  /\ Running(r, "request")
  /\ IF req[r].path = "docs" THEN Reply(r, 200, "return")
     ELSE IF ~cached THEN Reply(r, 404, "return")
     ELSE IF req[r].method \notin {"GET", "POST", "PATCH", "DELETE"} THEN Reply(r, 405, "return")
     ELSE \/ Reply(r, 400, "return")
          \/ Goto(r, "execute") /\ UNCHANGED status
  /\ UNCHANGED <<config, phase, req, ctx, handle, session, ran, wrote, cached, reloads>>

Ran(r) == ran' = [ran EXCEPT ![r] = @ \cup {session[handle[r]]}]

\* Mutant: executeQuery takes a second connection from the pool.
MutExecuteQuery(r) ==
  /\ Running(r, "execute") /\ Idle # {}
  /\ ConnWithRole(r, IF ctx[r].role = Empty THEN "refuse"
                     ELSE IF req[r].count THEN "count" ELSE "query")
  /\ UNCHANGED <<config, phase, req, ctx, ran, wrote, cached, reloads>>

\* executeQuery: the connection once more; a request without a role of its own
\* is refused here.
ExecuteQuery(r) ==
  /\ Running(r, "execute")
  /\ ConnWithRole(r, IF ctx[r].role = Empty THEN "refuse"
                     ELSE IF req[r].count THEN "count" ELSE "query")
  /\ UNCHANGED <<config, phase, req, ctx, ran, wrote, cached, reloads>>
RefuseRole(r) ==
  /\ Running(r, "refuse")
  /\ Reply(r, 401, "return")
  /\ UNCHANGED <<config, phase, req, ctx, handle, session, ran, wrote, cached, reloads>>

\* The exact count, for a request that prefers one: the table is looked up
\* again, and an error ends the request before its statement runs.
CountExact(r) ==
  /\ Running(r, "count")
  /\ IF ~cached THEN Reply(r, 404, "return") /\ UNCHANGED ran
     ELSE /\ Ran(r)
          /\ \/ Reply(r, 500, "return")
             \/ Goto(r, "query") /\ UNCHANGED status
  /\ UNCHANGED <<config, phase, req, ctx, handle, session, wrote, cached, reloads>>

\* Mutant: the method alone decides the status.
MutRunStatement(r, ok) ==
  /\ Ran(r)
  /\ wrote' = [wrote EXCEPT ![r] = TRUE] \/ UNCHANGED wrote
  /\ Reply(r, ok, "return")
  /\ UNCHANGED <<config, phase, req, ctx, handle, session, cached, reloads>>

\* The statement: an error leaves nothing, rows that cannot be collected or
\* marshalled are an error after the effect.
RunStatement(r, ok) ==
  /\ Ran(r)
  /\ \/ Reply(r, 500, "return") /\ UNCHANGED wrote
     \/ wrote' = [wrote EXCEPT ![r] = TRUE] /\ Reply(r, 500, "return")
     \/ wrote' = [wrote EXCEPT ![r] = TRUE] /\ Reply(r, ok, "return")
  /\ UNCHANGED <<config, phase, req, ctx, handle, session, cached, reloads>>
Query(r) ==
  /\ Running(r, "query")
  /\ RunStatement(r, IF req[r].method = "POST" THEN 201 ELSE 200)

\* handleRPC: the method, then the function's catalogue entry (a query), then
\* the body and the arguments.
HandleRPC(r) ==
  /\ Running(r, "rpc")
  /\ IF req[r].method # "POST"
     THEN (Reply(r, 400, "return") \/ Reply(r, 405, "return")) /\ UNCHANGED ran
     ELSE \/ Reply(r, 400, "return") /\ UNCHANGED ran
          \/ /\ Ran(r)
             /\ \/ Reply(r, 404, "return")
                \/ Reply(r, 400, "return")
                \/ Goto(r, "call") /\ UNCHANGED status
  /\ UNCHANGED <<config, phase, req, ctx, handle, session, wrote, cached, reloads>>

\* executeFunctionQuery: the connection once more, then the call.
ExecuteFunctionQuery(r) ==
  /\ Running(r, "call")
  /\ ConnWithRole(r, "called")
  /\ UNCHANGED <<config, phase, req, ctx, ran, wrote, cached, reloads>>
CallFunction(r) == Running(r, "called") /\ RunStatement(r, 200)

\* Mutant: only executeQuery defers the release.
MutReturnKeeps(r) ==
  /\ Running(r, "return")
  /\ handle' = IF ran[r] = {} THEN handle ELSE [handle EXCEPT ![r] = None]
  /\ Goto(r, "done")
  /\ UNCHANGED <<config, phase, req, ctx, session, status, ran, wrote, cached, reloads>>

\* The deferred releases run; the second Release of a handle does nothing.
Return(r) ==
  /\ Running(r, "return")
  /\ handle' = [handle EXCEPT ![r] = None]
  /\ Goto(r, "done")
  /\ UNCHANGED <<config, phase, req, ctx, session, status, ran, wrote, cached, reloads>>

Step(r) ==
  \/ Acquire(r) \/ TakeConn(r) \/ ServeOpenAPI(r) \/ HandleRequest(r)
  \/ ExecuteQuery(r) \/ RefuseRole(r) \/ CountExact(r) \/ Query(r)
  \/ HandleRPC(r) \/ ExecuteFunctionQuery(r) \/ CallFunction(r) \/ Return(r)

Next ==
  \/ Start \/ Signal \/ Shutdown \/ Reload
  \/ \E r \in Requests : Receive(r) \/ AcquireFails(r) \/ Step(r)

Spec == Init /\ [][Next]_vars

\* Every goroutine keeps running and PostgreSQL answers.
FairSpec == Spec /\ \A r \in Requests : WF_vars(Step(r))
-----------------------------------------------------------------------------
TypeOK ==
  /\ config \in Configs /\ phase \in {"starting", "up", "closing", "ended", "killed"}
  /\ req \in [Requests -> Inputs]
  /\ pc \in [Requests -> {"unsent", "acquire", "handle", "request", "execute", "refuse", "count", "query",
                          "rpc", "call", "called", "return", "done"}]
  /\ handle \in [Requests -> Conns \cup {None}]
  /\ cached \in BOOLEAN /\ reloads \in 0..MaxReloads

\* Who a request is: the identity its credentials prove, the anonymous role
\* otherwise.  A token without a usable role falls back to the environment's
\* anonymous role, a user still being the token's.
Own(q, conf) ==
  LET token == conf.oidc /\ q.scheme = "bearer" /\ q.ok = "yes"
      basic == conf.basic /\ q.scheme = "basic" /\ q.ok = "yes"
  IN  CASE token /\ q.role \notin {Empty, NotString} -> [role |-> q.role, user |-> q.user]
        [] token /\ q.role = Empty -> [role |-> conf.envAnon, user |-> q.user]
        [] token /\ q.role = NotString -> [role |-> conf.anon, user |-> q.user]
        [] basic -> [role |-> q.user, user |-> q.user]
        [] OTHER -> [role |-> conf.anon, user |-> "anon"]

\* Every statement of a request runs under the request's own role and claims,
\* although the connection last served another user and the request's two
\* looks at it are separate steps (ConnWithRole, server.go, rpc.go).
RunsAsItself == \A r \in Requests : ran[r] \subseteq {Own(req[r], config)}

\* No connection is in the hands of two requests, and an answered request has
\* given its connection back ("ensure it's always released", server.go:71)
\* unless it came without a role: ConnWithRole's early errors keep it
\* (postgres.go:105).
ConnsGivenBack ==
  /\ \A r, s \in Requests : r # s /\ handle[r] # None => handle[r] # handle[s]
  /\ \A r \in Requests : pc[r] = "done" /\ handle[r] # None => ctx[r].role = Empty

\* A request is refused only before its statement took effect: an answer below
\* 500 other than success means nothing changed, and success means the
\* statement of a table or a function request ran (executeQuery, rpc.go).
AnswerTellsEffect ==
  \A r \in Requests :
    /\ status[r] \in {204, 400, 401, 404, 405} => ~wrote[r]
    /\ status[r] \in {200, 201} => wrote[r] = (req[r].path \in {"table", "rpc"})

\* Every request that is received is answered, unless requests without a role
\* have taken the last connection of the pool or the process ends.
Starved == \A c \in Conns : \E r \in Requests : handle[r] = c /\ pc[r] = "done"
ReceivedIsAnswered ==
  \A r \in Requests : Active(r) ~> (status[r] # 0 \/ Starved \/ phase \in {"ended", "killed"})
=============================================================================
