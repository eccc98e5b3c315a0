------------------------- MODULE RestRequestProofs --------------------------
(***************************************************************************)
(* Proofs about requests to the REST server, for every set of requests,    *)
(* connections, inputs and configurations; and about function calls and    *)
(* the OpenAPI document, for every catalogue, call and schema.             *)
(***************************************************************************)
EXTENDS RestRequest, RestCatalog, SequenceTheorems, WellFoundedInduction, TLAPS

-----------------------------------------------------------------------------
(* What the middleware leaves in a request's context.                      *)

Token(q, conf) == conf.oidc /\ q.scheme = "bearer"
Basic(q, conf) == conf.basic /\ q.scheme = "basic" /\ q.ok = "yes"

\* The context of a request that the chain and the authorizers let through.
Admitted(q, conf) ==
  Chain(q, conf).code = 0 /\ Authorize(q, Chain(q, conf).ctx, conf) # None
CtxOf(q, conf) ==
  [oidc |-> IF Token(q, conf) THEN q.user ELSE None,
   basic |-> IF Basic(q, conf) THEN q.user ELSE None,
   role |-> Authorize(q, Chain(q, conf).ctx, conf)]

\* The session ConnWithRole makes for a context.
SessionOf(c, conf) == [role |-> RoleOf(c, conf), user |-> Conn(c)]

\* A token that is refused never gets past VerifyOIDCToken; otherwise the
\* context holds the user of the credentials that were verified.
LEMMA ChainContext ==
  ASSUME NEW q \in Inputs, NEW conf \in Configs, Chain(q, conf).code = 0
  PROVE  /\ Token(q, conf) => q.ok = "yes"
         /\ Chain(q, conf).ctx = [oidc |-> IF Token(q, conf) THEN q.user ELSE None,
                                  basic |-> IF Basic(q, conf) THEN q.user ELSE None,
                                  role |-> None]
<1>1. CORSWithOptions(q) = Pass(NoCtx)
  BY DEF Chain, CORSWithOptions, Answer, Pass, VerifyBasicAuth, VerifyOIDCToken
<1> DEFINE c == [NoCtx EXCEPT !.oidc = IF Token(q, conf) THEN q.user ELSE None]
           oidc == IF conf.oidc THEN VerifyOIDCToken(q, NoCtx) ELSE Pass(NoCtx)
<1>2. c = [oidc |-> IF Token(q, conf) THEN q.user ELSE None, basic |-> None, role |-> None]
  BY DEF NoCtx
<1>3. Chain(q, conf) = IF oidc.code > 0 THEN oidc
                       ELSE IF conf.basic THEN VerifyBasicAuth(q, oidc.ctx) ELSE Pass(oidc.ctx)
  BY <1>1 DEF Chain, Pass
<1>4. ~(oidc.code > 0)
  BY <1>3
<1>5. (Token(q, conf) => q.ok = "yes") /\ oidc = Pass(c)
  BY <1>4 DEF Token, VerifyOIDCToken, Answer, Pass, NoCtx
<1>6. Chain(q, conf) = IF conf.basic THEN VerifyBasicAuth(q, c) ELSE Pass(c)
  BY <1>3, <1>4, <1>5 DEF Pass
<1> HIDE DEF c
<1>7. Chain(q, conf).ctx = IF Basic(q, conf) THEN [c EXCEPT !.basic = q.user] ELSE c
  BY <1>6 DEF Basic, VerifyBasicAuth, Pass
<1> QED
  BY <1>2, <1>5, <1>7

\* The context of an admitted request.
LEMMA AdmittedContext ==
  ASSUME NEW q \in Inputs, NEW conf \in Configs, Admitted(q, conf)
  PROVE  /\ Token(q, conf) => q.ok = "yes"
         /\ [Chain(q, conf).ctx EXCEPT !.role = Authorize(q, Chain(q, conf).ctx, conf)]
              = CtxOf(q, conf)
         /\ CtxOf(q, conf).role # None
<1>1. Chain(q, conf).code = 0 /\ Authorize(q, Chain(q, conf).ctx, conf) # None
  BY DEF Admitted
<1>2. /\ Token(q, conf) => q.ok = "yes"
      /\ Chain(q, conf).ctx = [oidc |-> IF Token(q, conf) THEN q.user ELSE None,
                               basic |-> IF Basic(q, conf) THEN q.user ELSE None,
                               role |-> None]
  BY <1>1, ChainContext
<1> QED
  BY <1>1, <1>2 DEF CtxOf

\* The role an admitted request has in its context.
LEMMA AdmittedRole ==
  ASSUME NEW q \in Inputs, NEW conf \in Configs, Admitted(q, conf)
  PROVE  /\ CtxOf(q, conf).role =
              IF Token(q, conf) /\ q.role # NotString THEN q.role
              ELSE IF Basic(q, conf) THEN q.user ELSE conf.anon
         /\ (Token(q, conf) /\ q.role # NotString) \/ Basic(q, conf) \/ conf.anon # Empty
<1> DEFINE c == Chain(q, conf).ctx
<1>0. Chain(q, conf).code = 0
  BY DEF Admitted
<1>a. c = [oidc |-> IF Token(q, conf) THEN q.user ELSE None,
           basic |-> IF Basic(q, conf) THEN q.user ELSE None,
           role |-> None]
  BY <1>0, ChainContext
<1>1. /\ c.oidc = IF Token(q, conf) THEN q.user ELSE None
      /\ c.basic = IF Basic(q, conf) THEN q.user ELSE None
  BY <1>a
<1>2. CtxOf(q, conf).role = Authorize(q, c, conf) /\ Authorize(q, c, conf) # None
  BY DEF CtxOf, Admitted
<1>3. q.user # None /\ q.role # None
  BY RestAssumption
<1> HIDE DEF c
<1> QED
  BY <1>1, <1>2, <1>3 DEF Authorize, WithOIDCAuthz, WithBasicAuthz, WithAnonAuthz, Token, Basic

\* The session ConnWithRole makes is the request's own, for every kind of
\* credentials and every configuration.
LEMMA OwnSession ==
  ASSUME NEW q \in Inputs, NEW conf \in Configs, Admitted(q, conf),
         Conn(CtxOf(q, conf)) # None, RoleOf(CtxOf(q, conf), conf) # None
  PROVE  SessionOf(CtxOf(q, conf), conf) = Own(q, conf)
<1> DEFINE c == CtxOf(q, conf)
<1>1. /\ c.oidc = IF Token(q, conf) THEN q.user ELSE None
      /\ c.basic = IF Basic(q, conf) THEN q.user ELSE None
  BY DEF CtxOf
<1>2. /\ c.role = IF Token(q, conf) /\ q.role # NotString THEN q.role
                  ELSE IF Basic(q, conf) THEN q.user ELSE conf.anon
      /\ (Token(q, conf) /\ q.role # NotString) \/ Basic(q, conf) \/ conf.anon # Empty
  BY AdmittedRole
<1>3. q.user # None /\ q.role # None /\ conf.anon # None /\ conf.envAnon # None
  BY RestAssumption
<1>4. Token(q, conf) => q.ok = "yes"
  BY AdmittedContext
<1>5. Conn(c) # None /\ RoleOf(c, conf) # None
  OBVIOUS
<1> SUFFICES SessionOf(c, conf) = Own(q, conf)
  OBVIOUS
<1> HIDE DEF c
<1>6. CASE Token(q, conf)
  <2>1. ~Basic(q, conf) /\ c.oidc = q.user /\ c.basic = None /\ Conn(c) = q.user
    BY <1>1, <1>3, <1>6 DEF Token, Basic, Conn
  <2>2. CASE q.role \notin {Empty, NotString}
    <3>1. RoleOf(c, conf) = q.role
      BY <1>2, <1>6, <2>2 DEF RoleOf
    <3>2. Own(q, conf) = [role |-> q.role, user |-> q.user]
      BY <1>4, <1>6, <2>2 DEF Own, Token, Empty, NotString
    <3> QED
      BY <2>1, <3>1, <3>2 DEF SessionOf
  <2>3. CASE q.role = Empty
    <3>1. RoleOf(c, conf) = conf.envAnon
      BY <1>2, <1>5, <1>6, <2>1, <2>3 DEF RoleOf, Empty, NotString
    <3>2. Own(q, conf) = [role |-> conf.envAnon, user |-> q.user]
      BY <1>4, <1>6, <2>3 DEF Own, Token, Empty, NotString
    <3> QED
      BY <2>1, <3>1, <3>2 DEF SessionOf
  <2>4. CASE q.role = NotString
    <3>1. RoleOf(c, conf) = conf.anon
      BY <1>2, <1>5, <1>6, <2>1, <2>4 DEF RoleOf, Empty, NotString
    <3>2. Own(q, conf) = [role |-> conf.anon, user |-> q.user]
      BY <1>4, <1>6, <2>4 DEF Own, Token, Empty, NotString
    <3> QED
      BY <2>1, <3>1, <3>2 DEF SessionOf
  <2> QED
    BY <2>2, <2>3, <2>4
<1>7. CASE Basic(q, conf)
  BY <1>1, <1>2, <1>3, <1>4, <1>5, <1>7
     DEF SessionOf, Own, Token, Basic, Conn, RoleOf, Empty, None
<1>8. CASE ~Token(q, conf) /\ ~Basic(q, conf)
  BY <1>1, <1>2, <1>3, <1>4, <1>5, <1>8
     DEF SessionOf, Own, Token, Basic, Conn, RoleOf, Empty, None
<1> QED
  BY <1>6, <1>7, <1>8

\* The statuses the chain answers with.
LEMMA ChainCode ==
  ASSUME NEW q \in Inputs, NEW conf \in Configs
  PROVE  Chain(q, conf).code \in {0, 204, 401, 500}
<1>1. CORSWithOptions(q).code \in {0, 204}
  BY DEF CORSWithOptions, Answer, Pass
<1>2. \A c : VerifyOIDCToken(q, c).code \in {0, 401, 500} /\ Pass(c).code = 0
  BY DEF VerifyOIDCToken, Answer, Pass
<1>3. \A c : VerifyBasicAuth(q, c).code = 0
  BY DEF VerifyBasicAuth, Pass
<1> QED
  BY <1>1, <1>2, <1>3 DEF Chain

-----------------------------------------------------------------------------
(* The inductive invariant.                                                *)

\* From ConnWithRole's success to the return, the request has a session.
InSession == {"request", "execute", "refuse", "count", "query", "rpc", "call", "called"}

\* TypeOK says nothing of the variables that only a proof needs the shape of.
ShapeInv ==
  /\ ctx = [r \in Requests |-> ctx[r]]
  /\ session = [c \in Conns |-> session[c]]
  /\ status \in [Requests -> Nat]
  /\ ran = [r \in Requests |-> ran[r]]
  /\ wrote \in [Requests -> BOOLEAN]

\* One request: the context is what its credentials earned it, a connection is
\* in its hands exactly while it needs one, that connection's session is the one
\* ConnWithRole made for this context, and nothing has taken effect before the
\* answer.
ReqInv(r) ==
  /\ pc[r] \notin {"unsent", "done"} =>
       Admitted(req[r], config) /\ ctx[r] = CtxOf(req[r], config)
  /\ pc[r] \in {"unsent", "acquire"} => handle[r] = None
  /\ pc[r] \in InSession \cup {"handle", "return"} => handle[r] \in Conns
  /\ pc[r] = "done" /\ handle[r] # None => ctx[r].role = Empty
  /\ pc[r] \in InSession =>
       /\ Conn(ctx[r]) # None /\ RoleOf(ctx[r], config) # None
       /\ session[handle[r]] = SessionOf(ctx[r], config)
  /\ pc[r] = "request" => req[r].path \in {"table", "docs"}
  /\ pc[r] \in {"execute", "refuse", "count", "query"} => req[r].path = "table"
  /\ pc[r] \in {"rpc", "call", "called"} => req[r].path = "rpc"
  /\ pc[r] \notin {"return", "done"} => status[r] = 0 /\ wrote[r] = FALSE
  /\ status[r] \in {204, 400, 401, 404, 405} => ~wrote[r]
  /\ status[r] \in {200, 201} => wrote[r] = (req[r].path \in {"table", "rpc"})
  /\ ran[r] \subseteq {Own(req[r], config)}

Exclusive == \A r, s \in Requests : r # s /\ handle[r] # None => handle[r] # handle[s]

IInv == TypeOK /\ ShapeInv /\ Exclusive /\ \A r \in Requests : ReqInv(r)

\* A request is undisturbed by a step that leaves its own state alone and, if it
\* is in session, its connection's session.
LEMMA Frame ==
  ASSUME NEW s \in Requests, ReqInv(s),
         config' = config, req' = req, pc'[s] = pc[s], ctx'[s] = ctx[s],
         handle'[s] = handle[s], status'[s] = status[s], ran'[s] = ran[s],
         wrote'[s] = wrote[s],
         pc[s] \in InSession => session'[handle[s]] = session[handle[s]]
  PROVE  ReqInv(s)'
  BY DEF ReqInv

\* No request has arrived and every connection is in the pool (NewServer).
THEOREM InitIInv == Init => IInv
<1> SUFFICES ASSUME Init PROVE IInv
  OBVIOUS
<1>a. MaxReloads \in Nat
  BY RestAssumption
<1>b. 0 \in 0..MaxReloads
  BY <1>a
<1>1. TypeOK
  BY <1>b DEF Init, TypeOK
<1>3. ShapeInv
  BY DEF Init, ShapeInv
<1>4. Exclusive
  BY DEF Init, Exclusive
<1>2. ASSUME NEW r \in Requests PROVE ReqInv(r)
  BY DEF Init, ReqInv, InSession
<1> QED
  BY <1>1, <1>2, <1>3, <1>4 DEF IInv

\* What a step of request r may change: its own part of the state, and the
\* session of the connection it holds.
OnlyAt(r) ==
  /\ UNCHANGED <<config, phase, req, cached, reloads>>
  /\ pc' = [pc EXCEPT ![r] = pc'[r]]
  /\ ctx' = [ctx EXCEPT ![r] = ctx'[r]]
  /\ handle' = [handle EXCEPT ![r] = handle'[r]]
  /\ status' = [status EXCEPT ![r] = status'[r]]
  /\ ran' = [ran EXCEPT ![r] = ran'[r]]
  /\ wrote' = [wrote EXCEPT ![r] = wrote'[r]]
  /\ session' = [session EXCEPT ![handle[r]] = session'[handle[r]]]

Pcs == {"acquire", "handle", "return", "done"} \cup InSession

\* A step of one request preserves the invariant if it takes its connection
\* from the idle ones and keeps what the invariant says of the request itself.
LEMMA OneRequest ==
  ASSUME IInv, NEW r \in Requests, OnlyAt(r),
         pc'[r] \in Pcs, handle'[r] \in {handle[r], None} \cup Idle,
         status'[r] \in Nat, wrote'[r] \in BOOLEAN, ReqInv(r)'
  PROVE  IInv'
<1>1. TypeOK'
  BY DEF IInv, TypeOK, OnlyAt, Pcs, InSession, Idle
<1>2. ShapeInv'
  <2>1. ctx' = [s \in Requests |-> ctx'[s]] /\ ran' = [s \in Requests |-> ran'[s]]
    BY DEF IInv, ShapeInv, OnlyAt
  <2>2. session' = [c \in Conns |-> session'[c]]
    BY DEF IInv, ShapeInv, OnlyAt
  <2>3. status' \in [Requests -> Nat] /\ wrote' \in [Requests -> BOOLEAN]
    BY DEF IInv, ShapeInv, OnlyAt
  <2> QED
    BY <2>1, <2>2, <2>3 DEF ShapeInv
<1>3. Exclusive'
  BY DEF IInv, TypeOK, Exclusive, OnlyAt, Idle
<1>4. ASSUME NEW s \in Requests PROVE ReqInv(s)'
  <2>1. CASE s = r
    BY <2>1
  <2>2. CASE s # r
    <3>1. /\ pc'[s] = pc[s] /\ handle'[s] = handle[s]
          /\ ctx'[s] = ctx[s] /\ ran'[s] = ran[s]
          /\ status'[s] = status[s] /\ wrote'[s] = wrote[s]
      BY <2>2 DEF IInv, TypeOK, ShapeInv, OnlyAt
    <3>2. ReqInv(s)
      BY DEF IInv
    <3>3. pc[s] \in InSession => session'[handle[s]] = session[handle[s]]
      <4>1. SUFFICES ASSUME pc[s] \in InSession PROVE session'[handle[s]] = session[handle[s]]
        OBVIOUS
      <4>2. handle[s] \in Conns
        BY <3>2, <4>1 DEF ReqInv
      <4>3. handle[s] # None
        BY <4>2, RestAssumption
      <4>4. handle[s] # handle[r]
        BY <2>2, <4>3 DEF IInv, Exclusive
      <4> QED
        BY <4>2, <4>4 DEF IInv, ShapeInv, OnlyAt
    <3>4. config' = config /\ req' = req
      BY DEF OnlyAt
    <3> QED
      BY <3>1, <3>2, <3>3, <3>4, Frame
  <2> QED
    BY <2>1, <2>2
<1> QED
  BY <1>1, <1>2, <1>3, <1>4 DEF IInv

-----------------------------------------------------------------------------
(* The steps of one request.                                               *)

\* What the invariant says of a request whose goroutine runs a handler.
LEMMA Handling ==
  ASSUME IInv, NEW r \in Requests, pc[r] \in InSession \cup {"handle"}
  PROVE  /\ req[r] \in Inputs /\ config \in Configs
         /\ handle[r] \in Conns /\ handle[r] # None
         /\ Admitted(req[r], config) /\ ctx[r] = CtxOf(req[r], config)
         /\ status[r] = 0 /\ wrote[r] = FALSE
         /\ ran[r] \subseteq {Own(req[r], config)}
<1>1. ReqInv(r) /\ req[r] \in Inputs /\ config \in Configs
  BY DEF IInv, TypeOK
<1>2. pc[r] \notin {"unsent", "done", "return"}
  BY DEF InSession
<1>3. handle[r] \in Conns
  BY <1>1 DEF ReqInv
<1>4. handle[r] # None
  BY <1>3, RestAssumption
<1> QED
  BY <1>1, <1>2, <1>3, <1>4 DEF ReqInv

\* In session the connection's session is the request's own.
LEMMA InOwnSession ==
  ASSUME IInv, NEW r \in Requests, pc[r] \in InSession
  PROVE  session[handle[r]] = Own(req[r], config)
<1>1. /\ Conn(ctx[r]) # None /\ RoleOf(ctx[r], config) # None
      /\ session[handle[r]] = SessionOf(ctx[r], config)
  BY DEF IInv, ReqInv
<1>2. /\ req[r] \in Inputs /\ config \in Configs
      /\ Admitted(req[r], config) /\ ctx[r] = CtxOf(req[r], config)
  BY Handling
<1> QED
  BY <1>1, <1>2, OwnSession

\* A refusal: nothing took effect, and the deferred release is to come.
LEMMA Refused ==
  ASSUME IInv, NEW r \in Requests, NEW code \in {400, 401, 404, 405, 500},
         pc[r] \in InSession, Reply(r, code, "return"),
         Ran(r) \/ UNCHANGED ran,
         UNCHANGED <<config, phase, req, ctx, handle, session, wrote, cached, reloads>>
  PROVE  IInv'
<1>0. pc[r] \in InSession \cup {"handle"}
  OBVIOUS
<1>1. /\ handle[r] \in Conns /\ handle[r] # None /\ wrote[r] = FALSE
      /\ Admitted(req[r], config) /\ ctx[r] = CtxOf(req[r], config)
      /\ ran[r] \subseteq {Own(req[r], config)}
  BY ONLY IInv, r \in Requests, <1>0, Handling, ZenonT(30)
<1>2. ran' = [ran EXCEPT ![r] = ran'[r]] /\ ran'[r] \subseteq {Own(req[r], config)}
  BY <1>1, InOwnSession DEF Ran, IInv, ShapeInv
<1>3. pc'[r] = "return" /\ status'[r] = code
  BY DEF Reply, Goto, IInv, TypeOK, ShapeInv
<1>4. OnlyAt(r)
  <2>1. pc' = [pc EXCEPT ![r] = pc'[r]] /\ status' = [status EXCEPT ![r] = status'[r]]
    BY DEF Reply, Goto, IInv, TypeOK, ShapeInv
  <2> QED
    BY <1>2, <2>1 DEF OnlyAt, IInv, TypeOK, ShapeInv
<1>5. ReqInv(r)'
  BY <1>1, <1>2, <1>3 DEF ReqInv, InSession
<1>6. pc'[r] \in Pcs /\ handle'[r] = handle[r] /\ status'[r] \in Nat
  BY <1>3 DEF Pcs
<1>7. wrote'[r] \in BOOLEAN
  BY <1>1
<1> QED
  BY <1>4, <1>5, <1>6, <1>7, OneRequest

\* The request goes on, in session, without an answer.
LEMMA GoesOn ==
  ASSUME IInv, NEW r \in Requests, pc[r] \in InSession, NEW l \in {"execute", "query", "call"},
         Goto(r, l), Ran(r) \/ UNCHANGED ran,
         l \in {"execute", "query"} => req[r].path = "table",
         l = "call" => req[r].path = "rpc",
         UNCHANGED <<config, phase, req, ctx, handle, session, status, wrote, cached, reloads>>
  PROVE  IInv'
<1>0. pc[r] \in InSession \cup {"handle"}
  OBVIOUS
<1>1. /\ handle[r] \in Conns /\ handle[r] # None /\ wrote[r] = FALSE /\ status[r] = 0
      /\ Admitted(req[r], config) /\ ctx[r] = CtxOf(req[r], config)
      /\ ran[r] \subseteq {Own(req[r], config)}
  BY ONLY IInv, r \in Requests, <1>0, Handling
<1>2. ran' = [ran EXCEPT ![r] = ran'[r]] /\ ran'[r] \subseteq {Own(req[r], config)}
  BY <1>1, InOwnSession DEF Ran, IInv, ShapeInv
<1>3. pc'[r] = l
  BY DEF Goto, IInv, TypeOK
<1>4. OnlyAt(r)
  BY <1>2 DEF OnlyAt, Goto, IInv, TypeOK, ShapeInv
<1>5. /\ Conn(ctx[r]) # None /\ RoleOf(ctx[r], config) # None
      /\ session[handle[r]] = SessionOf(ctx[r], config)
  BY DEF IInv, ReqInv
<1>6. ReqInv(r)'
  BY <1>1, <1>2, <1>3, <1>5 DEF ReqInv, InSession
<1>7. pc'[r] \in Pcs /\ handle'[r] = handle[r] /\ status'[r] \in Nat
  BY <1>1, <1>3 DEF Pcs, InSession
<1>8. wrote'[r] \in BOOLEAN
  BY <1>1
<1> QED
  BY <1>4, <1>6, <1>7, <1>8, OneRequest

\* ConnWithRole fails early only for a request without a role.
LEMMA NoRole ==
  ASSUME IInv, NEW r \in Requests, pc[r] \in InSession \cup {"handle"},
         Conn(ctx[r]) = None \/ RoleOf(ctx[r], config) = None
  PROVE  ctx[r].role = Empty
<1>1. /\ req[r] \in Inputs /\ config \in Configs
      /\ Admitted(req[r], config) /\ ctx[r] = CtxOf(req[r], config)
  BY Handling
<1>2. ctx[r].role # None
  BY <1>1, AdmittedContext
<1>3. config.envAnon # None
  BY <1>1, RestAssumption
<1> QED
  BY <1>2, <1>3 DEF Conn, RoleOf, None

\* ConnWithRole, on behalf of each of its three callers.
LEMMA ConnWithRoleKeeps ==
  ASSUME IInv, NEW r \in Requests, pc[r] \in {"handle", "execute", "call"},
         NEW l \in {"request", "rpc", "refuse", "count", "query", "called"},
         l = "request" => req[r].path \in {"table", "docs"},
         l \in {"refuse", "count", "query"} => req[r].path = "table",
         l \in {"rpc", "called"} => req[r].path = "rpc",
         ConnWithRole(r, l),
         UNCHANGED <<config, phase, req, ctx, ran, wrote, cached, reloads>>
  PROVE  IInv'
<1>0. pc[r] \in InSession \cup {"handle"}
  BY DEF InSession
<1>1. /\ handle[r] \in Conns /\ handle[r] # None /\ wrote[r] = FALSE /\ status[r] = 0
      /\ Admitted(req[r], config) /\ ctx[r] = CtxOf(req[r], config)
      /\ ran[r] \subseteq {Own(req[r], config)}
  BY ONLY IInv, r \in Requests, <1>0, Handling
<1>5. wrote'[r] \in BOOLEAN
  BY <1>1
<1>2. CASE /\ Conn(ctx[r]) = None \/ RoleOf(ctx[r], config) = None
           /\ Reply(r, 500, "done") /\ UNCHANGED <<handle, session>>
  <2>1. ctx[r].role = Empty
    BY <1>0, <1>2, NoRole
  <2>2. pc'[r] = "done" /\ status'[r] = 500
    BY <1>2 DEF Reply, Goto, IInv, TypeOK, ShapeInv
  <2>3. OnlyAt(r)
    BY <1>2, ZenonT(30) DEF OnlyAt, Reply, Goto, IInv, TypeOK, ShapeInv
  <2>4. ReqInv(r)'
    BY <1>1, <1>2, <2>1, <2>2 DEF ReqInv, InSession
  <2>5. pc'[r] \in Pcs /\ handle'[r] = handle[r] /\ status'[r] \in Nat
    BY <1>2, <2>2 DEF Pcs
  <2> QED
    BY <1>5, <2>3, <2>4, <2>5, OneRequest
<1>3. CASE /\ Conn(ctx[r]) # None /\ RoleOf(ctx[r], config) # None
           /\ session' = [session EXCEPT ![handle[r]] = SessionOf(ctx[r], config)]
           /\ Goto(r, l) /\ UNCHANGED <<handle, status>>
  <2>1. pc'[r] = l /\ session'[handle[r]] = SessionOf(ctx[r], config)
    BY <1>1, <1>3 DEF Goto, IInv, TypeOK, ShapeInv
  <2>2. OnlyAt(r)
    BY <1>3, <2>1 DEF OnlyAt, Goto, IInv, TypeOK, ShapeInv
  <2>3. ReqInv(r)'
    BY <1>1, <1>3, <2>1 DEF ReqInv, InSession
  <2>4. pc'[r] \in Pcs /\ handle'[r] = handle[r] /\ status'[r] \in Nat
    BY <1>1, <1>3, <2>1 DEF Pcs, InSession
  <2> QED
    BY <1>5, <2>2, <2>3, <2>4, OneRequest
<1>4. CASE /\ handle' = [handle EXCEPT ![r] = None]
           /\ Reply(r, 500, "done") /\ UNCHANGED session
  <2>1. pc'[r] = "done" /\ status'[r] = 500 /\ handle'[r] = None
    BY <1>4 DEF Reply, Goto, IInv, TypeOK, ShapeInv
  <2>2. OnlyAt(r)
    BY <1>4, ZenonT(30) DEF OnlyAt, Reply, Goto, IInv, TypeOK, ShapeInv
  <2>3. ReqInv(r)'
    BY <1>1, <1>4, <2>1 DEF ReqInv, InSession
  <2>4. pc'[r] \in Pcs /\ handle'[r] = None /\ status'[r] \in Nat
    BY <2>1 DEF Pcs
  <2> QED
    BY <1>5, <2>2, <2>3, <2>4, OneRequest
<1> QED
  BY <1>2, <1>3, <1>4 DEF ConnWithRole, SessionOf

\* The statement of a table or a function request: an answer that is a success
\* comes with the effect.
LEMMA RunStatementKeeps ==
  ASSUME IInv, NEW r \in Requests, pc[r] \in {"query", "called"},
         NEW ok \in {200, 201}, RunStatement(r, ok)
  PROVE  IInv'
<1>0. pc[r] \in InSession /\ pc[r] \in InSession \cup {"handle"}
  BY DEF InSession
<1>1. /\ handle[r] \in Conns /\ handle[r] # None /\ wrote[r] = FALSE
      /\ Admitted(req[r], config) /\ ctx[r] = CtxOf(req[r], config)
      /\ ran[r] \subseteq {Own(req[r], config)}
  BY ONLY IInv, r \in Requests, <1>0, Handling
<1>2. ran' = [ran EXCEPT ![r] = ran'[r]] /\ ran'[r] \subseteq {Own(req[r], config)}
  BY <1>0, <1>1, InOwnSession DEF RunStatement, Ran, IInv, ShapeInv
<1>3. req[r].path \in {"table", "rpc"}
  BY DEF IInv, ReqInv
<1>4. /\ pc'[r] = "return"
      /\ \/ status'[r] = 500 /\ UNCHANGED wrote
         \/ status'[r] \in {500, ok} /\ wrote' = [wrote EXCEPT ![r] = TRUE]
  BY DEF RunStatement, Reply, Goto, IInv, TypeOK, ShapeInv
<1>5. status'[r] = 500 \/ (status'[r] \in {200, 201} /\ wrote'[r] = TRUE)
  BY <1>4 DEF IInv, ShapeInv
<1>6. wrote'[r] \in BOOLEAN
  <2>1. CASE wrote' = wrote
    BY <2>1 DEF IInv, ShapeInv
  <2>2. CASE wrote' = [wrote EXCEPT ![r] = TRUE]
    BY <2>2 DEF IInv, ShapeInv
  <2> QED
    BY <1>4, <2>1, <2>2
<1>7. OnlyAt(r)
  <2>1. pc' = [pc EXCEPT ![r] = pc'[r]] /\ status' = [status EXCEPT ![r] = status'[r]]
    BY DEF RunStatement, Reply, Goto, IInv, TypeOK, ShapeInv
  <2>2. wrote' = [wrote EXCEPT ![r] = wrote'[r]]
    BY <1>4 DEF IInv, ShapeInv
  <2>3. UNCHANGED <<config, phase, req, ctx, handle, session, cached, reloads>>
    BY DEF RunStatement
  <2> QED
    BY <1>2, <2>1, <2>2, <2>3 DEF OnlyAt, IInv, TypeOK, ShapeInv
<1>8. UNCHANGED <<config, req, ctx, handle>>
  BY DEF RunStatement
<1>9. /\ status'[r] \notin {204, 400, 401, 404, 405}
      /\ status'[r] \in {200, 201} => wrote'[r] = (req[r].path \in {"table", "rpc"})
  <2>1. status'[r] \in {200, 201} => wrote'[r] = TRUE
    BY <1>5
  <2>2. (req[r].path \in {"table", "rpc"}) = TRUE
    BY <1>3
  <2>3. status'[r] \in {500, 200, 201}
    BY <1>5
  <2>4. status'[r] \notin {204, 400, 401, 404, 405}
    BY <2>3
  <2> QED
    BY <2>1, <2>2, <2>4, ZenonT(30)
<1>10. ReqInv(r)'
  BY <1>1, <1>2, <1>4, <1>8, <1>9 DEF ReqInv, InSession
<1>11. pc'[r] \in Pcs /\ handle'[r] = handle[r] /\ status'[r] \in Nat
  BY <1>4, <1>5, <1>8 DEF Pcs
<1> QED
  BY <1>6, <1>7, <1>10, <1>11, OneRequest

\* A request that arrives is answered by the chain, or has its context.
LEMMA ReceiveKeeps ==
  ASSUME IInv, NEW r \in Requests, Receive(r)
  PROVE  IInv'
<1> DEFINE m == Chain(req[r], config)
           role == Authorize(req[r], m.ctx, config)
<1>1. /\ ReqInv(r) /\ pc[r] = "unsent" /\ req[r] \in Inputs /\ config \in Configs
      /\ UNCHANGED <<config, phase, req, handle, session, ran, wrote, cached, reloads>>
  BY DEF Receive, IInv, TypeOK
<1>2. handle[r] = None /\ status[r] = 0 /\ wrote[r] = FALSE /\ ran[r] \subseteq {Own(req[r], config)}
  BY <1>1 DEF ReqInv
<1>3. wrote'[r] \in BOOLEAN
  BY <1>1, <1>2
<1>4. ASSUME NEW code \in {204, 401, 500}, Reply(r, code, "done"), UNCHANGED ctx
      PROVE  IInv'
  <2>1. pc'[r] = "done" /\ status'[r] = code
    BY <1>4 DEF Reply, Goto, IInv, TypeOK, ShapeInv
  <2>a. pc' = [pc EXCEPT ![r] = pc'[r]] /\ status' = [status EXCEPT ![r] = status'[r]]
    BY <1>4 DEF Reply, Goto, IInv, TypeOK, ShapeInv
  <2>b. session' = [session EXCEPT ![handle[r]] = session'[handle[r]]]
    BY <1>1 DEF IInv, ShapeInv
  <2>c. ctx' = [ctx EXCEPT ![r] = ctx'[r]] /\ ran' = [ran EXCEPT ![r] = ran'[r]]
    BY <1>1, <1>4 DEF IInv, ShapeInv
  <2>d. handle' = [handle EXCEPT ![r] = handle'[r]]
    BY <1>1, <1>4 DEF IInv, TypeOK
  <2>e. wrote' = [wrote EXCEPT ![r] = wrote'[r]]
    BY <1>1 DEF IInv, ShapeInv
  <2>2. OnlyAt(r)
    BY <1>1, <2>a, <2>b, <2>c, <2>d, <2>e DEF OnlyAt
  <2>3. ReqInv(r)'
    BY <1>1, <1>2, <2>1 DEF ReqInv, InSession
  <2>4. pc'[r] \in Pcs /\ handle'[r] = handle[r] /\ status'[r] \in Nat
    BY <1>1, <2>1 DEF Pcs
  <2> QED
    BY <1>3, <2>2, <2>3, <2>4, OneRequest
<1>5. m.code \in {0, 204, 401, 500}
  BY <1>1, ChainCode
<1>6. CASE m.code > 0
  <2>1. m.code \in {204, 401, 500}
    BY <1>5, <1>6
  <2>2. Reply(r, m.code, "done") /\ UNCHANGED ctx
    BY <1>6 DEF Receive
  <2> QED
    BY <1>4, <2>1, <2>2
<1>7. CASE ~(m.code > 0) /\ role = None
  <2>1. Reply(r, 401, "done") /\ UNCHANGED ctx
    BY <1>7 DEF Receive
  <2> QED
    BY <1>4, <2>1
<1>8. CASE ~(m.code > 0) /\ role # None
  <2>1. m.code = 0
    BY <1>5, <1>8
  <2>2. Admitted(req[r], config)
    BY <1>8, <2>1 DEF Admitted
  <2>3. [m.ctx EXCEPT !.role = role] = CtxOf(req[r], config)
    BY <1>1, <2>2, AdmittedContext
  <2>4. /\ ctx' = [ctx EXCEPT ![r] = CtxOf(req[r], config)]
        /\ Goto(r, "acquire") /\ UNCHANGED status
    BY <1>8, <2>3 DEF Receive
  <2>5. pc'[r] = "acquire" /\ ctx'[r] = CtxOf(req[r], config)
    BY <2>4 DEF Goto, IInv, TypeOK, ShapeInv
  <2>6. OnlyAt(r)
    BY <1>1, <2>4, <2>5 DEF OnlyAt, Goto, IInv, TypeOK, ShapeInv
  <2>7. ReqInv(r)'
    BY <1>1, <1>2, <2>2, <2>4, <2>5 DEF ReqInv, InSession
  <2>8. pc'[r] \in Pcs /\ handle'[r] = handle[r] /\ status'[r] \in Nat
    BY <1>1, <1>2, <2>4, <2>5 DEF Pcs
  <2> QED
    BY <1>3, <2>6, <2>7, <2>8, OneRequest
<1> QED
  BY <1>6, <1>7, <1>8

\* A connection from the pool, or none.
LEMMA AcquireKeeps ==
  ASSUME IInv, NEW r \in Requests, Acquire(r) \/ AcquireFails(r)
  PROVE  IInv'
<1>1. /\ ReqInv(r) /\ pc[r] = "acquire"
      /\ UNCHANGED <<config, phase, req, ctx, session, ran, wrote, cached, reloads>>
  BY DEF Acquire, AcquireFails, IInv
<1>2. /\ handle[r] = None /\ status[r] = 0 /\ wrote[r] = FALSE
      /\ Admitted(req[r], config) /\ ctx[r] = CtxOf(req[r], config)
      /\ ran[r] \subseteq {Own(req[r], config)}
  BY <1>1 DEF ReqInv
<1>3. wrote'[r] \in BOOLEAN
  BY <1>1, <1>2
<1>4. CASE Acquire(r)
  <2>1. PICK c \in Idle : handle' = [handle EXCEPT ![r] = c]
    BY <1>4 DEF Acquire
  <2>2. pc'[r] = "handle" /\ handle'[r] = c /\ c \in Conns /\ UNCHANGED status
    BY <1>4, <2>1 DEF Acquire, Goto, IInv, TypeOK, Idle
  <2>3. OnlyAt(r)
    BY <1>1, <1>4, <2>1, <2>2 DEF OnlyAt, Acquire, Goto, IInv, TypeOK, ShapeInv
  <2>4. ReqInv(r)'
    BY <1>1, <1>2, <2>2 DEF ReqInv, InSession
  <2>5. pc'[r] \in Pcs /\ handle'[r] \in Idle /\ status'[r] \in Nat
    BY <1>2, <2>1, <2>2 DEF Pcs
  <2> QED
    BY <1>3, <2>3, <2>4, <2>5, OneRequest
<1>5. CASE AcquireFails(r)
  <2>1. pc'[r] = "done" /\ status'[r] = 500 /\ UNCHANGED handle
    BY <1>5 DEF AcquireFails, Reply, Goto, IInv, TypeOK, ShapeInv
  <2>a. pc' = [pc EXCEPT ![r] = pc'[r]] /\ status' = [status EXCEPT ![r] = status'[r]]
    BY <1>5 DEF AcquireFails, Reply, Goto, IInv, TypeOK, ShapeInv
  <2>b. session' = [session EXCEPT ![handle[r]] = session'[handle[r]]]
    BY <1>1 DEF IInv, ShapeInv
  <2>c. ctx' = [ctx EXCEPT ![r] = ctx'[r]] /\ ran' = [ran EXCEPT ![r] = ran'[r]]
    <3>1. ctx' = ctx /\ ran' = ran
      BY <1>1
    <3> QED
      BY <3>1 DEF IInv, ShapeInv
  <2>d. handle' = [handle EXCEPT ![r] = handle'[r]]
    BY <1>1, <2>1 DEF IInv, TypeOK
  <2>e. wrote' = [wrote EXCEPT ![r] = wrote'[r]]
    BY <1>1 DEF IInv, ShapeInv
  <2>2. OnlyAt(r)
    BY <1>1, <2>a, <2>b, <2>c, <2>d, <2>e DEF OnlyAt
  <2>3. ReqInv(r)'
    BY <1>1, <1>2, <2>1 DEF ReqInv, InSession
  <2>4. pc'[r] \in Pcs /\ handle'[r] = handle[r] /\ status'[r] \in Nat
    BY <2>1 DEF Pcs
  <2> QED
    BY <1>3, <2>2, <2>3, <2>4, OneRequest
<1> QED
  BY <1>4, <1>5

\* The OpenAPI document: Conn fails only for a request without a role.
LEMMA ServeOpenAPIKeeps ==
  ASSUME IInv, NEW r \in Requests, ServeOpenAPI(r)
  PROVE  IInv'
<1>1. /\ pc[r] = "handle" /\ pc[r] \in InSession \cup {"handle"}
      /\ req[r].path = "openapi"
      /\ UNCHANGED <<config, phase, req, ctx, handle, session, ran, wrote, cached, reloads>>
  BY DEF ServeOpenAPI, Running
<1>2. /\ handle[r] \in Conns /\ handle[r] # None /\ status[r] = 0 /\ wrote[r] = FALSE
      /\ Admitted(req[r], config) /\ ctx[r] = CtxOf(req[r], config)
      /\ ran[r] \subseteq {Own(req[r], config)}
  BY <1>1, Handling
<1>3. wrote'[r] \in BOOLEAN
  BY <1>1, <1>2
<1>4. OnlyAt(r)
  <2>1. pc' = [pc EXCEPT ![r] = pc'[r]] /\ status' = [status EXCEPT ![r] = status'[r]]
    BY DEF ServeOpenAPI, Reply, Goto, IInv, TypeOK, ShapeInv
  <2> QED
    BY <1>1, <2>1 DEF OnlyAt, IInv, TypeOK, ShapeInv
<1>5. \/ Conn(ctx[r]) = None /\ pc'[r] = "done" /\ status'[r] = 500
      \/ pc'[r] = "return" /\ status'[r] = 200
  BY DEF ServeOpenAPI, Reply, Goto, IInv, TypeOK, ShapeInv
<1>6. Conn(ctx[r]) = None => ctx[r].role = Empty
  BY <1>1, NoRole
<1>7. (req[r].path \in {"table", "rpc"}) = FALSE
  BY <1>1
<1>8. status'[r] \in {200, 201} => wrote'[r] = (req[r].path \in {"table", "rpc"})
  BY <1>1, <1>2, <1>7
<1>9. ReqInv(r)'
  BY <1>1, <1>2, <1>5, <1>6, <1>8 DEF ReqInv, InSession
<1>10. pc'[r] \in Pcs /\ handle'[r] = handle[r] /\ status'[r] \in Nat
  BY <1>1, <1>5 DEF Pcs
<1> QED
  BY <1>3, <1>4, <1>9, <1>10, OneRequest

\* The routing of a table or documentation request.
LEMMA HandleRequestKeeps ==
  ASSUME IInv, NEW r \in Requests, HandleRequest(r)
  PROVE  IInv'
<1>1. /\ pc[r] = "request" /\ pc[r] \in InSession
      /\ UNCHANGED <<config, phase, req, ctx, handle, session, ran, wrote, cached, reloads>>
  BY DEF HandleRequest, Running, InSession
<1>2. req[r].path \in {"table", "docs"}
  BY <1>1 DEF IInv, ReqInv
<1>3. CASE req[r].path = "docs"
  <2>1. pc[r] \in InSession \cup {"handle"}
    BY <1>1
  <2>2. /\ handle[r] \in Conns /\ wrote[r] = FALSE
        /\ Admitted(req[r], config) /\ ctx[r] = CtxOf(req[r], config)
        /\ ran[r] \subseteq {Own(req[r], config)}
    BY <2>1, Handling
  <2>3. Reply(r, 200, "return")
    BY <1>3 DEF HandleRequest
  <2>4. pc'[r] = "return" /\ status'[r] = 200
    BY <2>3 DEF Reply, Goto, IInv, TypeOK, ShapeInv
  <2>5. pc' = [pc EXCEPT ![r] = pc'[r]] /\ status' = [status EXCEPT ![r] = status'[r]]
    BY <2>3 DEF Reply, Goto, IInv, TypeOK, ShapeInv
  <2>6. OnlyAt(r)
    BY <1>1, <2>5 DEF OnlyAt, IInv, TypeOK, ShapeInv
  <2>7. (req[r].path \in {"table", "rpc"}) = FALSE
    BY <1>3
  <2>8. status'[r] \in {200, 201} => wrote'[r] = (req[r].path \in {"table", "rpc"})
    BY <1>1, <2>2, <2>7
  <2>9. ReqInv(r)'
    BY <1>1, <2>2, <2>4, <2>8 DEF ReqInv, InSession
  <2>10. pc'[r] \in Pcs /\ handle'[r] = handle[r] /\ status'[r] \in Nat
    BY <1>1, <2>4 DEF Pcs
  <2>11. wrote'[r] \in BOOLEAN
    BY <1>1, <2>2
  <2> QED
    BY <2>6, <2>9, <2>10, <2>11, OneRequest
<1>4. CASE req[r].path = "table"
  <2>1. \/ \E code \in {400, 404, 405} : Reply(r, code, "return")
        \/ Goto(r, "execute") /\ UNCHANGED status
    BY <1>4 DEF HandleRequest
  <2>2. ASSUME NEW code \in {400, 404, 405}, Reply(r, code, "return") PROVE IInv'
    BY <1>1, <2>2, Refused
  <2>3. CASE Goto(r, "execute") /\ UNCHANGED status
    BY <1>1, <1>4, <2>3, GoesOn
  <2> QED
    BY <2>1, <2>2, <2>3
<1> QED
  BY <1>2, <1>3, <1>4

\* The deferred release.
LEMMA ReturnKeeps ==
  ASSUME IInv, NEW r \in Requests, Return(r)
  PROVE  IInv'
<1>1. /\ ReqInv(r) /\ pc[r] = "return" /\ handle' = [handle EXCEPT ![r] = None]
      /\ UNCHANGED <<config, phase, req, ctx, session, status, ran, wrote, cached, reloads>>
  BY DEF Return, Running, IInv
<1>2. pc'[r] = "done" /\ handle'[r] = None
  BY <1>1 DEF Return, Goto, IInv, TypeOK
<1>3. OnlyAt(r)
  BY <1>1, <1>2, ZenonT(30) DEF OnlyAt, Return, Goto, IInv, TypeOK, ShapeInv
<1>4. ReqInv(r)'
  BY <1>1, <1>2 DEF ReqInv, InSession
<1>5. pc'[r] \in Pcs /\ handle'[r] = None /\ status'[r] \in Nat
  BY <1>1, <1>2 DEF Pcs, IInv, ShapeInv
<1>6. wrote'[r] \in BOOLEAN
  BY <1>1 DEF IInv, ShapeInv
<1> QED
  BY <1>3, <1>4, <1>5, <1>6, OneRequest

\* A step of the process itself leaves every request alone.
LEMMA ProcessKeeps ==
  ASSUME IInv, Start \/ Signal \/ Shutdown \/ Reload \/ UNCHANGED vars
  PROVE  IInv'
<1>1. UNCHANGED <<config, req, pc, ctx, handle, session, status, ran, wrote>>
  BY DEF Start, Signal, Shutdown, Reload, vars
<1>2. phase' \in {"starting", "up", "closing", "ended", "killed"}
  BY DEF Start, Signal, Shutdown, Reload, vars, IInv, TypeOK
<1>3. cached' \in BOOLEAN
  BY DEF Start, Signal, Shutdown, Reload, vars, IInv, TypeOK
<1>4. reloads' \in 0..MaxReloads
  <2>1. MaxReloads \in Nat
    BY RestAssumption
  <2>2. reloads \in 0..MaxReloads
    BY DEF IInv, TypeOK
  <2>3. UNCHANGED reloads \/ (reloads < MaxReloads /\ reloads' = reloads + 1)
    BY DEF Start, Signal, Shutdown, Reload, vars
  <2> QED
    BY <2>1, <2>2, <2>3
<1>5. TypeOK'
  BY <1>1, <1>2, <1>3, <1>4 DEF IInv, TypeOK
<1>6. ShapeInv' /\ Exclusive'
  BY <1>1 DEF IInv, ShapeInv, Exclusive
<1>7. ASSUME NEW s \in Requests PROVE ReqInv(s)'
  BY <1>1, Frame DEF IInv
<1> QED
  BY <1>5, <1>6, <1>7 DEF IInv

\* Every step of the server preserves the invariant.
THEOREM NextIInv == IInv /\ [Next]_vars => IInv'
<1> SUFFICES ASSUME IInv, [Next]_vars PROVE IInv'
  OBVIOUS
<1>1. CASE Start \/ Signal \/ Shutdown \/ Reload \/ UNCHANGED vars
  BY <1>1, ProcessKeeps
<1>2. ASSUME NEW r \in Requests, Receive(r) \/ AcquireFails(r) \/ Step(r) PROVE IInv'
  <2>0. req[r] \in Inputs
    BY DEF IInv, TypeOK
  <2>1. CASE Receive(r)
    BY <2>1, ReceiveKeeps
  <2>2. CASE Acquire(r) \/ AcquireFails(r)
    BY <2>2, AcquireKeeps
  <2>3. CASE TakeConn(r)
    <3>1. pc[r] = "handle" /\ req[r].path \in {"table", "rpc", "docs"}
      BY <2>0, <2>3, RestAssumption DEF TakeConn, Running
    <3>2. UNCHANGED <<config, phase, req, ctx, ran, wrote, cached, reloads>>
      BY <2>3 DEF TakeConn
    <3>3. CASE req[r].path = "rpc"
      <4>1. ConnWithRole(r, "rpc")
        BY <2>3, <3>3 DEF TakeConn
      <4> QED
        BY <3>1, <3>2, <3>3, <4>1, ConnWithRoleKeeps
    <3>4. CASE req[r].path # "rpc"
      <4>1. ConnWithRole(r, "request")
        BY <2>3, <3>4 DEF TakeConn
      <4> QED
        BY <3>1, <3>2, <3>4, <4>1, ConnWithRoleKeeps
    <3> QED
      BY <3>3, <3>4
  <2>4. CASE ServeOpenAPI(r)
    BY <2>4, ServeOpenAPIKeeps
  <2>5. CASE HandleRequest(r)
    BY <2>5, HandleRequestKeeps
  <2>6. CASE ExecuteQuery(r)
    <3>1. pc[r] = "execute" /\ req[r].path = "table"
      BY <2>6 DEF ExecuteQuery, Running, IInv, ReqInv
    <3>2. UNCHANGED <<config, phase, req, ctx, ran, wrote, cached, reloads>>
      BY <2>6 DEF ExecuteQuery
    <3> DEFINE l == IF ctx[r].role = Empty THEN "refuse"
                    ELSE IF req[r].count THEN "count" ELSE "query"
    <3>3. ConnWithRole(r, l) /\ l \in {"refuse", "count", "query"}
      BY <2>6 DEF ExecuteQuery
    <3> HIDE DEF l
    <3> QED
      BY <3>1, <3>2, <3>3, ConnWithRoleKeeps
  <2>7. CASE RefuseRole(r)
    <3>1. pc[r] \in InSession
      BY <2>7 DEF RefuseRole, Running, InSession
    <3> QED
      BY <2>7, <3>1, Refused DEF RefuseRole
  <2>8. CASE CountExact(r)
    <3>1. pc[r] = "count" /\ pc[r] \in InSession /\ req[r].path = "table"
      BY <2>8 DEF CountExact, Running, InSession, IInv, ReqInv
    <3>2. UNCHANGED <<config, phase, req, ctx, handle, session, wrote, cached, reloads>>
      BY <2>8 DEF CountExact
    <3>3. CASE UNCHANGED ran /\ Reply(r, 404, "return")
      BY <3>1, <3>2, <3>3, Refused
    <3>4. CASE Ran(r) /\ Reply(r, 500, "return")
      BY <3>1, <3>2, <3>4, Refused
    <3>5. CASE Ran(r) /\ Goto(r, "query") /\ UNCHANGED status
      BY <3>1, <3>2, <3>5, GoesOn
    <3> QED
      BY <2>8, <3>3, <3>4, <3>5 DEF CountExact
  <2>9. CASE Query(r)
    <3>1. pc[r] = "query"
      BY <2>9 DEF Query, Running
    <3> DEFINE ok == IF req[r].method = "POST" THEN 201 ELSE 200
    <3>2. RunStatement(r, ok) /\ ok \in {200, 201}
      BY <2>9 DEF Query
    <3> HIDE DEF ok
    <3> QED
      BY <3>1, <3>2, RunStatementKeeps
  <2>10. CASE HandleRPC(r)
    <3>1. pc[r] = "rpc" /\ pc[r] \in InSession /\ req[r].path = "rpc"
      BY <2>10 DEF HandleRPC, Running, InSession, IInv, ReqInv
    <3>2. UNCHANGED <<config, phase, req, ctx, handle, session, wrote, cached, reloads>>
      BY <2>10 DEF HandleRPC
    <3>3. /\ Ran(r) \/ UNCHANGED ran
          /\ \/ \E code \in {400, 404, 405} : Reply(r, code, "return")
             \/ Goto(r, "call") /\ UNCHANGED status
      BY <2>10 DEF HandleRPC
    <3>4. ASSUME NEW code \in {400, 404, 405}, Reply(r, code, "return") PROVE IInv'
      BY <3>1, <3>2, <3>3, <3>4, Refused
    <3>5. CASE Goto(r, "call") /\ UNCHANGED status
      BY <3>1, <3>2, <3>3, <3>5, GoesOn
    <3> QED
      BY <3>3, <3>4, <3>5
  <2>11. CASE ExecuteFunctionQuery(r)
    <3>1. pc[r] = "call" /\ req[r].path = "rpc"
      BY <2>11 DEF ExecuteFunctionQuery, Running, IInv, ReqInv
    <3>2. /\ UNCHANGED <<config, phase, req, ctx, ran, wrote, cached, reloads>>
          /\ ConnWithRole(r, "called")
      BY <2>11 DEF ExecuteFunctionQuery
    <3> QED
      BY <3>1, <3>2, ConnWithRoleKeeps
  <2>12. CASE CallFunction(r)
    BY <2>12, RunStatementKeeps DEF CallFunction, Running
  <2>13. CASE Return(r)
    BY <2>13, ReturnKeeps
  <2> QED
    BY <1>2, <2>1, <2>2, <2>3, <2>4, <2>5, <2>6, <2>7, <2>8, <2>9, <2>10, <2>11, <2>12, <2>13
       DEF Step
<1> QED
  BY <1>1, <1>2 DEF Next

LEMMA SpecIInv == Spec => []IInv
  BY InitIInv, NextIInv, PTL DEF Spec

\* For every set of inputs and configurations, any number of requests and
\* connections: a statement runs under the role and the claims of its own
\* request (ConnWithRole, server.go, rpc.go).
THEOREM Identity == Spec => []RunsAsItself
<1>1. IInv => RunsAsItself
  BY DEF IInv, ReqInv, RunsAsItself
<1> QED
  BY <1>1, SpecIInv, PTL

\* A connection is in one request's hands at a time, and goes back unless the
\* request came without a role (postgres.go, server.go:71).
THEOREM Release == Spec => []ConnsGivenBack
<1>1. IInv => ConnsGivenBack
  BY DEF IInv, ReqInv, Exclusive, ConnsGivenBack
<1> QED
  BY <1>1, SpecIInv, PTL

\* The answer of a request tells whether its statement took effect
\* (executeQuery, rpc.go).
THEOREM Effect == Spec => []AnswerTellsEffect
<1>1. IInv => AnswerTellsEffect
  BY DEF IInv, ReqInv, AnswerTellsEffect
<1> QED
  BY <1>1, SpecIInv, PTL

-----------------------------------------------------------------------------
(* Function calls.  Induction on natural numbers, for sets.                *)

Less == {ss \in Nat \X Nat : ss[1] < ss[2]}

LEMMA NatSet ==
  ASSUME NEW S, 0 \in S, \A n \in Nat : n \in S => n + 1 \in S
  PROVE  Nat \subseteq S
<1> DEFINE T == Nat \ S
<1>1. SUFFICES ASSUME T # {} PROVE FALSE
  OBVIOUS
<1>2. IsWellFoundedOn(Less, Nat)
  BY NatLessThanWellFounded DEF OpToRel, Less
<1>3. PICK x \in T : \A y \in T : ~ (<<y, x>> \in Less)
  BY <1>1, <1>2, WFMin
<1>4. x \in Nat /\ x # 0
  OBVIOUS
<1>5. x - 1 \in T /\ <<x - 1, x>> \in Less
  BY <1>4 DEF Less
<1> QED
  BY <1>3, <1>5

NoArguments == [ok |-> TRUE, at |-> 0, args |-> <<>>]
IsLoop(g, n, params, args) ==
  g = [i \in 0..n |-> IF i = 0 THEN NoArguments ELSE Rpc!Pass(g[i - 1], params[i], args)]

\* What the loop over the parameters computes, without the conditional.
LEMMA LoopEquations ==
  ASSUME NEW params, NEW args, NEW n \in Nat, NEW g, IsLoop(g, n, params, args)
  PROVE  g[0] = NoArguments /\ \A i \in 1..n : g[i] = Rpc!Pass(g[i - 1], params[i], args)
<1>1. g[0] = NoArguments
  BY DEF IsLoop
<1>2. ASSUME NEW i \in 1..n PROVE g[i] = Rpc!Pass(g[i - 1], params[i], args)
  <2>1. i \in 0..n /\ i # 0
    OBVIOUS
  <2> QED
    BY <2>1 DEF IsLoop
<1> QED
  BY <1>1, <1>2

\* The loop ends: the recursive definition of Passed has a value.
LEMMA LoopExists ==
  ASSUME NEW params, NEW args
  PROVE  \A n \in Nat : \E g : IsLoop(g, n, params, args)
<1> DEFINE S == {n \in Nat : \E g : IsLoop(g, n, params, args)}
<1>1. 0 \in S
  <2> DEFINE g == [i \in 0..0 |-> NoArguments]
  <2>1. IsLoop(g, 0, params, args)
    BY DEF IsLoop
  <2> QED
    BY <2>1
<1>2. ASSUME NEW n \in Nat, n \in S PROVE n + 1 \in S
  <2>1. PICK f : IsLoop(f, n, params, args)
    BY <1>2
  <2> DEFINE g == [i \in 0..(n + 1) |-> IF i = n + 1 THEN Rpc!Pass(f[n], params[n + 1], args) ELSE f[i]]
  <2>2. f[0] = NoArguments /\ \A i \in 1..n : f[i] = Rpc!Pass(f[i - 1], params[i], args)
    BY <2>1, LoopEquations
  <2>3. \A i \in 0..n : g[i] = f[i]
    OBVIOUS
  <2>4. g[n + 1] = Rpc!Pass(g[n], params[n + 1], args)
    BY <2>3
  <2>5. g = [i \in 0..(n + 1) |-> g[i]]
    OBVIOUS
  <2> HIDE DEF g
  <2>6. \A i \in 1..(n + 1) : g[i] = Rpc!Pass(g[i - 1], params[i], args)
    <3> SUFFICES ASSUME NEW i \in 1..(n + 1) PROVE g[i] = Rpc!Pass(g[i - 1], params[i], args)
      OBVIOUS
    <3>1. CASE i = n + 1
      <4>1. i - 1 = n
        BY <3>1
      <4> QED
        BY <3>1, <4>1, <2>4
    <3>2. CASE i \in 1..n
      <4>1. g[i] = f[i] /\ g[i - 1] = f[i - 1]
        BY <3>2, <2>3
      <4> QED
        BY <4>1, <3>2, <2>2
    <3> QED
      BY <3>1, <3>2
  <2>7. \A i \in 0..(n + 1) : g[i] = IF i = 0 THEN NoArguments ELSE Rpc!Pass(g[i - 1], params[i], args)
    <3> SUFFICES ASSUME NEW i \in 0..(n + 1)
                 PROVE  g[i] = IF i = 0 THEN NoArguments ELSE Rpc!Pass(g[i - 1], params[i], args)
      OBVIOUS
    <3>1. CASE i = 0
      BY <3>1, <2>2, <2>3
    <3>2. CASE i # 0
      <4>1. i \in 1..(n + 1)
        BY <3>2
      <4> QED
        BY <4>1, <3>2, <2>6
    <3> QED
      BY <3>1, <3>2
  <2>8. IsLoop(g, n + 1, params, args)
    BY <2>5, <2>7 DEF IsLoop
  <2> QED
    BY <2>8
<1>3. Nat \subseteq S
  <2> HIDE DEF S
  <2> QED
    BY <1>1, <1>2, NatSet
<1> QED
  BY <1>3

\* The equations of Passed.
LEMMA Loop ==
  ASSUME NEW params, NEW args, Len(params) \in Nat
  PROVE  /\ Rpc!Passed(params, args)[0] = NoArguments
         /\ \A n \in 1..Len(params) :
              Rpc!Passed(params, args)[n] = Rpc!Pass(Rpc!Passed(params, args)[n - 1], params[n], args)
<1>1. PICK f : IsLoop(f, Len(params), params, args)
  BY LoopExists
<1>2. Rpc!Passed(params, args) = CHOOSE g : IsLoop(g, Len(params), params, args)
  BY DEF Rpc!Passed, IsLoop, NoArguments
<1>3. IsLoop(Rpc!Passed(params, args), Len(params), params, args)
  BY <1>1, <1>2
<1>4. PICK o : o = Rpc!Passed(params, args)
  OBVIOUS
<1>5. o[0] = NoArguments /\ \A n \in 1..Len(params) : o[n] = Rpc!Pass(o[n - 1], params[n], args)
  BY <1>3, <1>4, LoopEquations
<1> QED
  BY <1>4, <1>5

\* The value that is sent for parameter i, and the loop's state after n
\* parameters if none was refused.
Sent(args, i) == Rpc!convertArgumentType(args[Rpc!Arg(i)], "text")
Good(args, n) == [ok |-> TRUE, at |-> n, args |-> [i \in 1..n |-> Sent(args, i)]]
Given(args, n) == \A i \in 1..n : Rpc!Arg(i) \in DOMAIN args

\* The parameters: none of the catalogue's arrays is seen.
LEMMA Parameters ==
  ASSUME NEW f, f.numArgs \in Nat
  PROVE  LET ps == Rpc!parseFunctionParameters(f) IN
           /\ Len(ps) = f.numArgs
           /\ \A i \in 1..f.numArgs :
                ps[i] = [name |-> Rpc!Arg(i), type |-> "text", mode |-> "IN", hasDefault |-> FALSE]
<1> DEFINE ps == Rpc!parseFunctionParameters(f)
           par(i) == [name |-> Rpc!Arg(i), type |-> "text", mode |-> "IN", hasDefault |-> FALSE]
<1>1. \A i \in 1..f.numArgs : ~(i <= Len(<<>>))
  OBVIOUS
<1>2. ps = [i \in 1..f.numArgs |-> par(i)]
  <2>1. ps = [i \in 1..f.numArgs |-> ps[i]]
    BY DEF Rpc!parseFunctionParameters
  <2>2. ASSUME NEW i \in 1..f.numArgs PROVE ps[i] = par(i)
    <3>1. ~(i <= Len(<<>>))
      BY <1>1
    <3> QED
      BY <3>1, Zenon DEF Rpc!parseFunctionParameters, Rpc!Asserted
  <2> HIDE DEF ps, par
  <2> QED
    BY <2>1, <2>2
<1> HIDE DEF ps, par
<1>3. Len(ps) = f.numArgs /\ \A i \in 1..f.numArgs : ps[i] = par(i)
  BY <1>2
<1> QED
  BY <1>3 DEF ps, par

\* An argument for a text parameter is always accepted and arrives.
LEMMA TextSent ==
  ASSUME NEW args, NEW i
  PROVE  Sent(args, i).ok = TRUE /\ Arrives(args[Rpc!Arg(i)], Sent(args, i))
<1>1. PICK v : v = args[Rpc!Arg(i)]
  OBVIOUS
<1>2. CASE v.type = "null"
  <2>1. Sent(args, i) = [ok |-> TRUE, type |-> "null", val |-> <<>>]
    BY <1>1, <1>2 DEF Sent, Rpc!convertArgumentType
  <2> QED
    BY <1>1, <1>2, <2>1 DEF Arrives
<1>3. CASE v.type # "null"
  <2>1. Sent(args, i) = [ok |-> TRUE, type |-> "text", val |-> Rpc!Sprint(v)]
    BY <1>1, <1>3 DEF Sent, Rpc!convertArgumentType
  <2> QED
    BY <1>1, <1>3, <2>1 DEF Arrives
<1> QED
  BY <1>2, <1>3

\* One parameter.
LEMMA PassOne ==
  ASSUME NEW args, NEW n \in Nat, NEW p,
         p = [name |-> Rpc!Arg(n + 1), type |-> "text", mode |-> "IN", hasDefault |-> FALSE]
  PROVE  /\ Rpc!Arg(n + 1) \in DOMAIN args => Rpc!Pass(Good(args, n), p, args) = Good(args, n + 1)
         /\ Rpc!Arg(n + 1) \notin DOMAIN args => Rpc!Pass(Good(args, n), p, args).ok = FALSE
<1> DEFINE key == Rpc!Arg(n + 1)
           next == [ok |-> TRUE, at |-> n + 1, args |-> Good(args, n).args]
<1>1. p.name = key /\ p.type = "text" /\ p.mode = "IN" /\ p.hasDefault = FALSE
  OBVIOUS
<1>2. Good(args, n).ok = TRUE /\ Good(args, n).at = n /\ Good(args, n).args = [i \in 1..n |-> Sent(args, i)]
  BY DEF Good
<1>3. Rpc!Pass(Good(args, n), p, args) = Rpc!AddArgument(next, p, args)
  BY <1>1, <1>2 DEF Rpc!Pass
<1>4. next.at = n + 1
  OBVIOUS
<1>5. ASSUME key \notin DOMAIN args PROVE Rpc!AddArgument(next, p, args).ok = FALSE
  BY <1>1, <1>4, <1>5 DEF Rpc!AddArgument, Rpc!Refuse
<1>6. ASSUME key \in DOMAIN args PROVE Rpc!AddArgument(next, p, args) = Good(args, n + 1)
  <2>1. Rpc!AddArgument(next, p, args) = [next EXCEPT !.args = Append(next.args, Sent(args, n + 1))]
    BY <1>1, <1>6, TextSent DEF Rpc!AddArgument, Sent
  <2> DEFINE S == {Sent(args, i) : i \in Nat}
  <2>2. [i \in 1..n |-> Sent(args, i)] \in Seq(S) /\ Sent(args, n + 1) \in S
    OBVIOUS
  <2>3. Append([i \in 1..n |-> Sent(args, i)], Sent(args, n + 1)) = [i \in 1..(n + 1) |-> Sent(args, i)]
    BY <2>2
  <2>4. PICK sofar, longer : /\ sofar = [i \in 1..n |-> Sent(args, i)]
                              /\ longer = [i \in 1..(n + 1) |-> Sent(args, i)]
    OBVIOUS
  <2>5. next = [ok |-> TRUE, at |-> n + 1, args |-> sofar] /\ Append(sofar, Sent(args, n + 1)) = longer
    BY <2>3, <2>4, <1>2
  <2>6. Good(args, n + 1) = [ok |-> TRUE, at |-> n + 1, args |-> longer]
    BY <2>4 DEF Good
  <2> HIDE DEF next
  <2> QED
    BY <2>1, <2>5, <2>6
<1> QED
  BY <1>3, <1>5, <1>6

HasPassed(g, args, n) == g[n].ok = FALSE \/ (g[n] = Good(args, n) /\ Given(args, n))

\* After n parameters: all their values are there, or the call is refused.
LEMMA LoopResult ==
  ASSUME NEW f, f.numArgs \in Nat, NEW args
  PROVE  LET ps == Rpc!parseFunctionParameters(f) IN
           \A n \in 0..f.numArgs : HasPassed(Rpc!Passed(ps, args), args, n)
<1>1. PICK ps : ps = Rpc!parseFunctionParameters(f)
  OBVIOUS
<1>2. Len(ps) = f.numArgs /\ \A i \in 1..f.numArgs :
        ps[i] = [name |-> Rpc!Arg(i), type |-> "text", mode |-> "IN", hasDefault |-> FALSE]
  BY <1>1, Parameters
<1>3. PICK N \in Nat : N = f.numArgs
  OBVIOUS
<1>4. PICK g : g = Rpc!Passed(ps, args)
  OBVIOUS
<1>5. g[0] = NoArguments /\ \A n \in 1..N : g[n] = Rpc!Pass(g[n - 1], ps[n], args)
  BY <1>2, <1>3, <1>4, Loop
<1> DEFINE S == {n \in Nat : n <= N => HasPassed(g, args, n)}
<1>6. 0 \in S
  <2>1. [i \in 1..0 |-> Sent(args, i)] = <<>>
    OBVIOUS
  <2>2. NoArguments = Good(args, 0)
    BY <2>1 DEF NoArguments, Good
  <2>3. Given(args, 0)
    BY DEF Given
  <2> QED
    BY <2>2, <2>3, <1>5 DEF HasPassed
<1>7. ASSUME NEW n \in Nat, n \in S PROVE n + 1 \in S
  <2> SUFFICES ASSUME n + 1 <= N PROVE HasPassed(g, args, n + 1)
    OBVIOUS
  <2>1. HasPassed(g, args, n) /\ n + 1 \in 1..N
    BY <1>7
  <2>2. g[n + 1] = Rpc!Pass(g[n], ps[n + 1], args)
    <3>1. n + 1 - 1 = n
      OBVIOUS
    <3> QED
      BY <1>5, <2>1, <3>1
  <2>3. ps[n + 1] = [name |-> Rpc!Arg(n + 1), type |-> "text", mode |-> "IN", hasDefault |-> FALSE]
    BY <1>2, <1>3, <2>1
  <2>4. CASE g[n].ok = FALSE
    <3>1. Rpc!Pass(g[n], ps[n + 1], args) = g[n]
      BY <2>4 DEF Rpc!Pass
    <3> QED
      BY <3>1, <2>2, <2>4 DEF HasPassed
  <2>5. CASE g[n] = Good(args, n) /\ Given(args, n)
    <3>1. CASE Rpc!Arg(n + 1) \in DOMAIN args
      <4>1. g[n + 1] = Good(args, n + 1)
        BY <2>2, <2>3, <2>5, <3>1, PassOne
      <4>2. Given(args, n + 1)
        <5> SUFFICES ASSUME NEW i \in 1..(n + 1) PROVE Rpc!Arg(i) \in DOMAIN args
          BY DEF Given
        <5>1. i = n + 1 \/ i \in 1..n
          OBVIOUS
        <5> QED
          BY <5>1, <3>1, <2>5 DEF Given
      <4> QED
        BY <4>1, <4>2 DEF HasPassed
    <3>2. CASE Rpc!Arg(n + 1) \notin DOMAIN args
      <4>1. Rpc!Pass(Good(args, n), ps[n + 1], args).ok = FALSE
        BY <2>3, <3>2, PassOne
      <4> QED
        BY <2>2, <2>5, <4>1 DEF HasPassed
    <3> QED
      BY <3>1, <3>2
  <2> QED
    BY <2>1, <2>4, <2>5 DEF HasPassed
<1>8. Nat \subseteq S
  <2> HIDE DEF S
  <2> QED
    BY <1>6, <1>7, NatSet
<1>9. \A n \in 0..N : HasPassed(g, args, n)
  BY <1>8
<1> QED
  BY <1>9, <1>1, <1>3, <1>4

\* What an accepted call of a function passes.
LEMMA CallOf ==
  ASSUME NEW f, f.numArgs \in Nat, NEW r, NEW s, s = Rpc!handleFunctionCall(f, r), s.ok
  PROVE  /\ r.json
         /\ s.schema = f.schema /\ s.name = f.name /\ Len(s.args) = f.numArgs
         /\ \A i \in 1..f.numArgs :
              Rpc!Arg(i) \in DOMAIN r.args /\ Arrives(r.args[Rpc!Arg(i)], s.args[i])
<1>1. PICK ps : ps = Rpc!parseFunctionParameters(f)
  OBVIOUS
<1>2. PICK N \in Nat : N = f.numArgs
  OBVIOUS
<1>3. PICK end : end = Rpc!Passed(ps, r.args)[N]
  OBVIOUS
<1>4. Len(ps) = N
  BY <1>1, <1>2, Parameters
<1>5. r.json /\ s = Rpc!buildFunctionCallQuery(f, ps, r.args)
  BY <1>1 DEF Rpc!handleFunctionCall, Rpc!Refuse
<1>6. s = IF end.ok THEN [ok |-> TRUE, schema |-> f.schema, name |-> f.name,
                          setof |-> f.retset, args |-> end.args]
          ELSE end
  BY <1>3, <1>4, <1>5 DEF Rpc!buildFunctionCallQuery
<1>7. end.ok
  BY <1>6
<1>8. s.schema = f.schema /\ s.name = f.name /\ s.args = end.args
  BY <1>6, <1>7
<1>9. end = Good(r.args, N) /\ Given(r.args, N)
  <2>1. HasPassed(Rpc!Passed(ps, r.args), r.args, N)
    BY <1>1, <1>2, LoopResult
  <2> QED
    BY <2>1, <1>3, <1>7 DEF HasPassed
<1>10. s.args = [i \in 1..N |-> Sent(r.args, i)]
  BY <1>8, <1>9 DEF Good
<1>11. Len(s.args) = N /\ DOMAIN s.args = 1..N
  BY <1>10
<1>12. ASSUME NEW i \in 1..N
       PROVE  Rpc!Arg(i) \in DOMAIN r.args /\ Arrives(r.args[Rpc!Arg(i)], s.args[i])
  <2>1. s.args[i] = Sent(r.args, i)
    BY <1>10
  <2> QED
    BY <2>1, <1>9, TextSent DEF Given
<1> QED
  BY <1>2, <1>5, <1>8, <1>11, <1>12

\* What is answered is what the handlers make of the request.
CallInv == Handled("call") => stmt \in Rpc!HandleRPC(ask.r, Catalog)

LEMMA CallAnswer == CatalogSpec => []CallInv
<1>1. CatalogInit => CallInv
  BY DEF CatalogInit, CallInv, Handled
<1>2. CallInv /\ [CatalogNext]_<<ask, stmt>> => CallInv'
  <2> SUFFICES ASSUME CallInv, [CatalogNext]_<<ask, stmt>> PROVE CallInv'
    OBVIOUS
  <2>1. CASE RpcRequest
    BY <2>1 DEF RpcRequest, CallInv, Handled
  <2>2. CASE Document
    BY <2>2 DEF Document, Pending, CallInv, Handled
  <2>3. CASE UNCHANGED <<ask, stmt>>
    BY <2>3 DEF CallInv, Handled
  <2> QED
    BY <2>1, <2>2, <2>3 DEF CatalogNext
<1> QED
  BY <1>1, <1>2, PTL DEF CatalogSpec

\* An accepted function call reaches a function of the asked name with a value
\* the body has for it in the position of every parameter (handleRPC,
\* buildFunctionCallQuery).
THEOREM EveryArgument == CatalogSpec => []CallPassesEveryArgument
<1>1. CallInv => CallPassesEveryArgument
  <2> SUFFICES ASSUME stmt \in Rpc!HandleRPC(ask.r, Catalog), stmt.ok
               PROVE  /\ ask.r.method = "POST" /\ ask.r.json
                      /\ \E f \in Catalog :
                           /\ f.schema = Rpc!SchemaName(ask.r.path)
                           /\ f.name = Rpc!FunctionName(ask.r.path)
                           /\ stmt.schema = f.schema /\ stmt.name = f.name
                           /\ Len(stmt.args) = f.numArgs
                           /\ \A i \in 1..f.numArgs :
                                /\ Rpc!Arg(i) \in DOMAIN ask.r.args
                                /\ Arrives(ask.r.args[Rpc!Arg(i)], stmt.args[i])
    BY DEF CallInv, CallPassesEveryArgument
  <2> DEFINE found == Rpc!getFunction(Rpc!SchemaName(ask.r.path), Rpc!FunctionName(ask.r.path), Catalog)
  <2>1. \A c : Rpc!Refuse(c).ok = FALSE
    BY DEF Rpc!Refuse
  <2>2. /\ ask.r.method = "POST"
        /\ stmt \in {IF g.ok THEN Rpc!handleFunctionCall(g.function, ask.r) ELSE g : g \in found}
    BY <2>1 DEF Rpc!HandleRPC
  <2>3. PICK g \in found : g.ok /\ stmt = Rpc!handleFunctionCall(g.function, ask.r)
    BY <2>2
  <2>4. PICK f \in Catalog : /\ g.function = f
                             /\ f.schema = Rpc!SchemaName(ask.r.path)
                             /\ f.name = Rpc!FunctionName(ask.r.path)
    BY <2>1, <2>3 DEF Rpc!getFunction
  <2>5. f.numArgs \in Nat
    BY CatalogAssumption DEF CatalogAssumption
  <2> HIDE DEF found
  <2> QED
    BY <2>2, <2>3, <2>4, <2>5, CallOf
<1> QED
  BY <1>1, CallAnswer, PTL

-----------------------------------------------------------------------------
(* The document.                                                           *)

\* A snapshot of the schema cache.
IsSnapshot(T) == \A t, u \in T :
  /\ Api!fullName(t) = Api!fullName(u) => t = u
  /\ t.pkeys \in Seq(STRING)
  /\ \A i \in DOMAIN u.pkeys : t.name # Api!KeySegment(u.pkeys[i])

\* A table's path has one segment or two, and names its table.
LEMMA TablePaths ==
  ASSUME NEW t, NEW u
  PROVE  /\ t.schema = "public" => Api!TablePath(t) = <<t.name>>
         /\ t.schema # "public" => Api!TablePath(t) = <<t.schema, t.name>>
         /\ Api!TablePath(t) = Api!TablePath(u) => Api!fullName(t) = Api!fullName(u)
<1>1. \A a, b, c : <<a>> # <<b, c>>
  <2> SUFFICES ASSUME NEW a, NEW b, NEW c PROVE <<a>> # <<b, c>>
    OBVIOUS
  <2>1. Len(<<a>>) = 1 /\ Len(<<b, c>>) = 2
    OBVIOUS
  <2> QED
    BY <2>1
<1> QED
  BY <1>1 DEF Api!TablePath, Api!fullName

LEMMA SecondOf ==
  ASSUME NEW S, NEW p \in Seq(S), NEW q \in Seq(S), Len(p) = 1, Len(q) = 1
  PROVE  (p \o q)[2] = q[1]
<1>1. 2 \in 1..(Len(p) + Len(q)) /\ ~(2 <= Len(p))
  OBVIOUS
<1>2. (p \o q)[2] = q[2 - Len(p)]
  BY <1>1, ConcatProperties
<1>3. 2 - Len(p) = 1
  OBVIOUS
<1> QED
  BY <1>2, <1>3

\* A record path is longer than its table's; one of two segments ends in a
\* {column}.
LEMMA RecordPaths ==
  ASSUME NEW u, u.pkeys \in Seq(STRING), u.pkeys # <<>>
  PROVE  /\ \A a : Api!buildRecordPath(u) # <<a>>
         /\ \A a, b : Api!buildRecordPath(u) = <<a, b>> =>
              \E i \in DOMAIN u.pkeys : b = Api!KeySegment(u.pkeys[i])
<1>1. PICK n \in Nat : n = Len(u.pkeys) /\ DOMAIN u.pkeys = 1..n /\ n > 0
  OBVIOUS
<1> DEFINE keys == [i \in 1..n |-> Api!KeySegment(u.pkeys[i])]
           S == {Api!KeySegment(u.pkeys[i]) : i \in 1..n} \cup {u.name, u.schema}
<1>2. keys \in Seq(S) /\ Len(keys) = n /\ \A i \in 1..n : keys[i] = Api!KeySegment(u.pkeys[i])
  OBVIOUS
<1>3. PICK p \in Seq(S) : p = Api!TablePath(u) /\ (Len(p) = 1 \/ Len(p) = 2)
  <2>1. <<u.name>> \in Seq(S) /\ <<u.schema, u.name>> \in Seq(S)
    OBVIOUS
  <2>2. Len(<<u.name>>) = 1 /\ Len(<<u.schema, u.name>>) = 2
    OBVIOUS
  <2>3. Api!TablePath(u) = <<u.name>> \/ Api!TablePath(u) = <<u.schema, u.name>>
    BY TablePaths
  <2> HIDE DEF S
  <2> QED
    BY <2>1, <2>2, <2>3
<1>4. Api!buildRecordPath(u) = p \o keys
  BY <1>1, <1>3 DEF Api!buildRecordPath
<1>5. n > 0
  BY <1>1
<1> HIDE DEF keys, S
<1>6. Len(p \o keys) = Len(p) + n
  BY <1>2, <1>3
<1>7. ASSUME NEW a PROVE Api!buildRecordPath(u) # <<a>>
  <2>1. Len(<<a>>) = 1
    OBVIOUS
  <2> QED
    BY <2>1, <1>3, <1>4, <1>5, <1>6
<1>8. ASSUME NEW a, NEW b, Api!buildRecordPath(u) = <<a, b>>
      PROVE  \E i \in 1..n : b = Api!KeySegment(u.pkeys[i])
  <2>1. Len(<<a, b>>) = 2 /\ <<a, b>>[2] = b
    OBVIOUS
  <2>2. Len(p) = 1 /\ n = 1
    <3>1. Len(p) + n = 2
      BY <2>1, <1>8, <1>4, <1>6
    <3>2. Len(p) = 1 \/ Len(p) = 2
      BY <1>3
    <3>3. PICK l \in Nat : l = Len(p)
      BY <1>3
    <3>4. l + n = 2 /\ (l = 1 \/ l = 2)
      BY <3>1, <3>2, <3>3
    <3>5. l = 1 /\ n = 1
      BY ONLY l \in Nat, n \in Nat, <3>4, <1>5
    <3> QED
      BY <3>3, <3>5
  <2>3. (p \o keys)[2] = keys[1]
    <3>1. p \in Seq(S) /\ keys \in Seq(S) /\ Len(p) = 1 /\ Len(keys) = 1
      BY <2>2, <1>2
    <3> QED
      BY <3>1, SecondOf
  <2> QED
    BY <2>1, <2>2, <2>3, <1>2, <1>4, <1>8
<1> QED
  BY <1>1, <1>7, <1>8

\* No other entry of the document replaces a table's.
LEMMA OwnEntry ==
  ASSUME NEW T, IsSnapshot(T), NEW t \in T, NEW e \in Api!Entries(T), e[1] = Api!TablePath(t)
  PROVE  e = <<Api!TablePath(t), Api!buildTableOperations(t)>>
<1>1. CASE e \in {<<Api!TablePath(u), Api!buildTableOperations(u)>> : u \in T}
  <2>1. PICK u \in T : e = <<Api!TablePath(u), Api!buildTableOperations(u)>>
    BY <1>1
  <2>2. e[1] = Api!TablePath(u)
    BY <2>1
  <2>3. Api!fullName(t) = Api!fullName(u)
    BY <2>2, TablePaths
  <2>4. t = u
    BY <2>3 DEF IsSnapshot
  <2> QED
    BY <2>1, <2>4
<1>2. CASE e \in {<<Api!buildRecordPath(u), Api!buildRecordOperations(u)>> : u \in {v \in T : v.pkeys # <<>>}}
  <2>1. PICK u \in T : u.pkeys # <<>> /\ e = <<Api!buildRecordPath(u), Api!buildRecordOperations(u)>>
    BY <1>2
  <2>2. Api!buildRecordPath(u) = Api!TablePath(t)
    BY <2>1
  <2>3. /\ u.pkeys \in Seq(STRING)
        /\ \A i \in DOMAIN u.pkeys : t.name # Api!KeySegment(u.pkeys[i])
    BY DEF IsSnapshot
  <2>4. Api!buildRecordPath(u) # <<t.name>> /\ Api!buildRecordPath(u) # <<t.schema, t.name>>
    BY <2>1, <2>3, RecordPaths
  <2> QED
    BY <2>2, <2>4, TablePaths
<1> QED
  BY <1>1, <1>2 DEF Api!Entries

\* What the document says of a table.
LEMMA TableDocumented ==
  ASSUME NEW T, IsSnapshot(T), NEW t \in T, NEW d, d = Api!GenerateSpecification(T)
  PROVE  /\ Api!TablePath(t) \in DOMAIN d.paths
         /\ d.paths[Api!TablePath(t)] = Api!buildTableOperations(t)
         /\ d.schemas[Api!fullName(t)] = Api!buildTableSchema(t)
<1> DEFINE own == <<Api!TablePath(t), Api!buildTableOperations(t)>>
           E == Api!Entries(T)
           keys == {e[1] : e \in E}
           names == {Api!fullName(u) : u \in T}
<1>1. own \in E /\ own[1] = Api!TablePath(t) /\ own[2] = Api!buildTableOperations(t)
  BY DEF Api!Entries
<1>2. d.paths = [p \in keys |-> (CHOOSE e \in E : e[1] = p)[2]]
  BY DEF Api!GenerateSpecification
<1>3. d.schemas = [n \in names |-> Api!buildTableSchema(CHOOSE u \in T : Api!fullName(u) = n)]
  BY DEF Api!GenerateSpecification
<1>4. (CHOOSE e \in E : e[1] = Api!TablePath(t)) = own
  <2>1. \A e \in E : e[1] = Api!TablePath(t) => e = own
    BY OwnEntry
  <2> HIDE DEF E, own
  <2> QED
    BY <1>1, <2>1
<1>5. (CHOOSE u \in T : Api!fullName(u) = Api!fullName(t)) = t
  BY DEF IsSnapshot
<1>6. Api!TablePath(t) \in keys /\ Api!fullName(t) \in names
  BY <1>1
<1> HIDE DEF own, E, keys, names
<1> QED
  BY <1>1, <1>2, <1>3, <1>4, <1>5, <1>6

\* The document is that of the snapshot.
DocsInv == /\ ask.r.kind = "docs" => IsSnapshot(ask.r.tables)
           /\ Handled("docs") => stmt = Api!GenerateSpecification(ask.r.tables)

LEMMA DocsAnswer == CatalogSpec => []DocsInv
<1>1. CatalogInit => DocsInv
  <2> SUFFICES ASSUME CatalogInit PROVE DocsInv
    OBVIOUS
  <2>1. stmt = Waiting
    BY DEF CatalogInit
  <2>2. CASE ask \in CallAsks
    <3>1. ask.r.kind = "call"
      BY <2>2, CatalogAssumption DEF CallAsks, CatalogAssumption
    <3> QED
      BY <3>1, <2>1 DEF DocsInv, Handled
  <2>3. CASE ask \in DocsAsks
    <3>1. PICK T \in Snapshots : ask = [r |-> [kind |-> "docs", tables |-> T]]
      BY <2>3 DEF DocsAsks
    <3>2. ask.r.tables = T
      BY <3>1
    <3>3. IsSnapshot(T)
      BY CatalogAssumption DEF CatalogAssumption, IsSnapshot
    <3> QED
      BY <3>2, <3>3, <2>1 DEF DocsInv, Handled
  <2> QED
    BY <2>2, <2>3 DEF CatalogInit
<1>2. DocsInv /\ [CatalogNext]_<<ask, stmt>> => DocsInv'
  <2> SUFFICES ASSUME DocsInv, [CatalogNext]_<<ask, stmt>> PROVE DocsInv'
    OBVIOUS
  <2>0. ask' = ask => (IsSnapshot(ask.r.tables) => IsSnapshot(ask'.r.tables))
    OBVIOUS
  <2>1. CASE RpcRequest
    BY <2>1, <2>0 DEF RpcRequest, Pending, DocsInv, Handled
  <2>2. CASE Document
    BY <2>2, <2>0 DEF Document, Pending, DocsInv, Handled
  <2>3. CASE UNCHANGED <<ask, stmt>>
    BY <2>3, <2>0 DEF DocsInv, Handled
  <2> QED
    BY <2>1, <2>2, <2>3 DEF CatalogNext
<1> QED
  BY <1>1, <1>2, PTL DEF CatalogSpec

\* A table's own path: who handles it, and which table it resolves to.
LEMMA TablePathServed ==
  ASSUME NEW T, IsSnapshot(T), NEW t \in T
  PROVE  Api!Served(Api!TablePath(t), T) = (IF Shadowed(t) THEN {} ELSE {t})
<1>1. {u \in T : Api!fullName(u) = Api!fullName(t)} = {t}
  BY DEF IsSnapshot
<1>2. CASE t.schema = "public"
  <2>1. Api!TablePath(t) = <<t.name>>
    BY <1>2, TablePaths
  <2>2. Len(<<t.name>>) = 1 /\ <<t.name>>[1] = t.name
    OBVIOUS
  <2>3. Api!tableFromPath(<<t.name>>, T) = {t}
    BY <1>1, <1>2, <2>2 DEF Api!tableFromPath, Api!fullName
  <2>4. (Api!Handler(<<t.name>>) = "handleRequest") = ~Shadowed(t)
    <3>1. (<<t.name>> = <<"openapi.json">>) = (t.name = "openapi.json")
      OBVIOUS
    <3> QED
      BY <1>2, <2>2, <3>1 DEF Api!Handler, Shadowed
  <2> QED
    BY <2>1, <2>3, <2>4 DEF Api!Served
<1>3. CASE t.schema # "public"
  <2>1. Api!TablePath(t) = <<t.schema, t.name>>
    BY <1>3, TablePaths
  <2>2. Len(<<t.schema, t.name>>) = 2 /\ <<t.schema, t.name>>[1] = t.schema /\ <<t.schema, t.name>>[2] = t.name
    OBVIOUS
  <2>3. Api!tableFromPath(<<t.schema, t.name>>, T) = {t}
    BY <1>1, <2>2 DEF Api!tableFromPath, Api!fullName
  <2>4. (Api!Handler(<<t.schema, t.name>>) = "handleRequest") = ~Shadowed(t)
    <3>1. <<t.schema, t.name>> # <<"openapi.json">>
      <4>1. Len(<<"openapi.json">>) = 1
        OBVIOUS
      <4> QED
        BY <4>1, <2>2
    <3> QED
      BY <1>3, <2>2, <3>1 DEF Api!Handler, Shadowed
  <2> QED
    BY <2>1, <2>3, <2>4 DEF Api!Served
<1> QED
  BY <1>2, <1>3

\* The first two segments of a record path.
LEMMA RecordPathStart ==
  ASSUME NEW u, u.pkeys \in Seq(STRING), u.pkeys # <<>>
  PROVE  LET p == Api!buildRecordPath(u) IN
           /\ Len(p) > 1
           /\ u.schema = "public" => p[1] = u.name /\ p[2] = Api!KeySegment(u.pkeys[1])
           /\ u.schema # "public" => p[1] = u.schema /\ p[2] = u.name
<1>1. PICK n \in Nat : n = Len(u.pkeys) /\ DOMAIN u.pkeys = 1..n /\ n > 0
  OBVIOUS
<1> DEFINE keys == [i \in 1..n |-> Api!KeySegment(u.pkeys[i])]
           S == {Api!KeySegment(u.pkeys[i]) : i \in 1..n} \cup {u.name, u.schema}
<1>2. keys \in Seq(S) /\ Len(keys) = n /\ keys[1] = Api!KeySegment(u.pkeys[1])
  BY <1>1
<1>3. <<u.name>> \in Seq(S) /\ <<u.schema, u.name>> \in Seq(S)
  OBVIOUS
<1>4. Api!buildRecordPath(u) = Api!TablePath(u) \o keys
  BY <1>1 DEF Api!buildRecordPath
<1> HIDE DEF keys, S
<1>5. CASE u.schema = "public"
  <2>1. PICK q \in Seq(S) : q = <<u.name>> /\ Len(q) = 1 /\ q[1] = u.name
    BY <1>3
  <2>2. Api!buildRecordPath(u) = q \o keys
    BY <1>4, <1>5, <2>1, TablePaths
  <2>3. Len(q \o keys) = 1 + n /\ (q \o keys)[1] = q[1]
    BY <1>1, <1>2, <2>1, ConcatProperties
  <2>4. (q \o keys)[2] = keys[1]
    <3>1. 2 \in 1..(Len(q) + Len(keys)) /\ ~(2 <= Len(q)) /\ 2 - Len(q) = 1
      BY <1>1, <1>2, <2>1
    <3> QED
      BY <1>2, <2>1, <3>1, ConcatProperties
  <2> QED
    BY <1>1, <1>2, <1>5, <2>1, <2>2, <2>3, <2>4
<1>6. CASE u.schema # "public"
  <2>1. PICK q \in Seq(S) : q = <<u.schema, u.name>> /\ Len(q) = 2 /\ q[1] = u.schema /\ q[2] = u.name
    BY <1>3
  <2>2. Api!buildRecordPath(u) = q \o keys
    BY <1>4, <1>6, <2>1, TablePaths
  <2>3. Len(q \o keys) = 2 + n /\ (q \o keys)[1] = q[1] /\ (q \o keys)[2] = q[2]
    BY <1>1, <1>2, <2>1, ConcatProperties
  <2> QED
    BY <1>1, <1>6, <2>1, <2>2, <2>3
<1> QED
  BY <1>5, <1>6

\* A record path is served from its own table or from none.
LEMMA RecordPathServed ==
  ASSUME NEW T, IsSnapshot(T), NEW u \in T, u.pkeys # <<>>
  PROVE  Api!Served(Api!buildRecordPath(u), T) \subseteq {u}
<1>1. PICK p : p = Api!buildRecordPath(u)
  OBVIOUS
<1>2. u.pkeys \in Seq(STRING) /\ 1 \in DOMAIN u.pkeys
  <2>1. u.pkeys \in Seq(STRING)
    BY DEF IsSnapshot
  <2> QED
    BY <2>1
<1>3. Api!tableFromPath(p, T) = {t \in T : Api!fullName(t) = <<p[1], p[2]>>}
  BY <1>1, <1>2, RecordPathStart DEF Api!tableFromPath
<1>4. ASSUME NEW t \in T, Api!fullName(t) = <<p[1], p[2]>> PROVE t = u
  <2>1. t.schema = p[1] /\ t.name = p[2]
    BY <1>4 DEF Api!fullName
  <2>2. t.name # Api!KeySegment(u.pkeys[1])
    BY <1>2 DEF IsSnapshot
  <2>3. p[1] = u.schema /\ p[2] = u.name
    BY <1>1, <1>2, <2>1, <2>2, RecordPathStart
  <2>4. Api!fullName(t) = Api!fullName(u)
    BY <2>1, <2>3 DEF Api!fullName
  <2> QED
    BY <2>4 DEF IsSnapshot
<1> QED
  BY <1>1, <1>3, <1>4 DEF Api!Served

\* What a path of the document serves is what its entry describes.
LEMMA NoOtherTable ==
  ASSUME NEW T, IsSnapshot(T), NEW d, d = Api!GenerateSpecification(T),
         NEW p \in DOMAIN d.paths, NEW u \in Api!Served(p, T)
  PROVE  d.paths[p].get.refs = {Api!fullName(u)}
<1> DEFINE E == Api!Entries(T)
<1>1. d.paths = [q \in {e[1] : e \in E} |-> (CHOOSE e \in E : e[1] = q)[2]]
  BY DEF Api!GenerateSpecification
<1>2. PICK e \in E : e[1] = p /\ d.paths[p] = e[2]
  <2>1. \E e \in E : e[1] = p
    BY <1>1
  <2>2. PICK e : e = CHOOSE x \in E : x[1] = p
    OBVIOUS
  <2>3. e \in E /\ e[1] = p
    BY <2>1, <2>2
  <2>4. d.paths[p] = e[2]
    BY <1>1, <2>2
  <2> QED
    BY <2>3, <2>4
<1>3. CASE e \in {<<Api!TablePath(t), Api!buildTableOperations(t)>> : t \in T}
  <2>1. PICK t \in T : e = <<Api!TablePath(t), Api!buildTableOperations(t)>>
    BY <1>3
  <2>2. p = Api!TablePath(t) /\ d.paths[p] = Api!buildTableOperations(t)
    BY <1>2, <2>1
  <2>3. u = t
    BY <2>2, TablePathServed
  <2> QED
    BY <2>2, <2>3 DEF Api!buildTableOperations, Api!Operation
<1>4. CASE e \in {<<Api!buildRecordPath(t), Api!buildRecordOperations(t)>> : t \in {v \in T : v.pkeys # <<>>}}
  <2>1. PICK t \in T : t.pkeys # <<>> /\ e = <<Api!buildRecordPath(t), Api!buildRecordOperations(t)>>
    BY <1>4
  <2>2. p = Api!buildRecordPath(t) /\ d.paths[p] = Api!buildRecordOperations(t)
    BY <1>2, <2>1
  <2>3. u = t
    BY <2>1, <2>2, RecordPathServed
  <2> QED
    BY <2>2, <2>3 DEF Api!buildRecordOperations, Api!Operation
<1> QED
  BY <1>2, <1>3, <1>4 DEF Api!Entries

\* Every table of the snapshot is documented, with its columns, under a path
\* that is served from it unless the mux gives the path to another handler, and
\* no documented path is served from any other table (GenerateSpecification
\* against the mux and tableFromPath).
THEOREM TablesServed == CatalogSpec => []DocumentedTablesAreServed
<1>1. DocsInv => DocumentedTablesAreServed
  <2> SUFFICES ASSUME DocsInv, Handled("docs")
               PROVE  /\ \A t \in ask.r.tables :
                           \E p \in DOMAIN stmt.paths :
                             /\ Api!Served(p, ask.r.tables) = (IF Shadowed(t) THEN {} ELSE {t})
                             /\ stmt.paths[p].post.refs = {Api!fullName(t)}
                             /\ <<"order", "query", "string">> \in stmt.paths[p].get.params
                             /\ DOMAIN stmt.schemas[Api!fullName(t)].properties
                                  = {t.columns[i].name : i \in DOMAIN t.columns}
                      /\ \A p \in DOMAIN stmt.paths : \A u \in Api!Served(p, ask.r.tables) :
                           stmt.paths[p].get.refs = {Api!fullName(u)}
    BY DEF DocumentedTablesAreServed
  <2>1. PICK T : T = ask.r.tables
    OBVIOUS
  <2>2. IsSnapshot(T) /\ stmt = Api!GenerateSpecification(T)
    BY <2>1 DEF DocsInv, Handled
  <2>3. ASSUME NEW t \in T
        PROVE  \E p \in DOMAIN stmt.paths :
                 /\ Api!Served(p, T) = (IF Shadowed(t) THEN {} ELSE {t})
                 /\ stmt.paths[p].post.refs = {Api!fullName(t)}
                 /\ <<"order", "query", "string">> \in stmt.paths[p].get.params
                 /\ DOMAIN stmt.schemas[Api!fullName(t)].properties
                      = {t.columns[i].name : i \in DOMAIN t.columns}
    <3>1. /\ Api!TablePath(t) \in DOMAIN stmt.paths
          /\ stmt.paths[Api!TablePath(t)] = Api!buildTableOperations(t)
          /\ stmt.schemas[Api!fullName(t)] = Api!buildTableSchema(t)
      BY <2>2, TableDocumented
    <3>2. Api!Served(Api!TablePath(t), T) = (IF Shadowed(t) THEN {} ELSE {t})
      BY <2>2, TablePathServed
    <3>3. /\ Api!buildTableOperations(t).post.refs = {Api!fullName(t)}
          /\ <<"order", "query", "string">> \in Api!buildTableOperations(t).get.params
      BY DEF Api!buildTableOperations, Api!Operation, Api!buildQueryParameters
    <3>4. DOMAIN Api!buildTableSchema(t).properties = {t.columns[i].name : i \in DOMAIN t.columns}
      BY DEF Api!buildTableSchema
    <3> QED
      BY <3>1, <3>2, <3>3, <3>4
  <2>4. \A p \in DOMAIN stmt.paths : \A u \in Api!Served(p, T) :
          stmt.paths[p].get.refs = {Api!fullName(u)}
    BY <2>2, NoOtherTable
  <2> QED
    BY <2>1, <2>3, <2>4
<1> QED
  BY <1>1, DocsAnswer, PTL

=============================================================================
