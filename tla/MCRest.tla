------------------------------- MODULE MCRest -------------------------------
(***************************************************************************)
(* The REST server for TLC: requests through the middleware, the pool and  *)
(* the handlers (RestRequest), with two users, the anonymous role and      *)
(* every path; and what each single request is turned into (MCRestSql).    *)
(* The two share no state, so a behaviour is about one or the other.       *)
(***************************************************************************)
EXTENDS RestRequest, MCRestSql

Input(path, method, scheme, user, role, ok) ==
  [path |-> path, method |-> method, origin |-> FALSE, count |-> path = "table" /\ user \in {"ann", "dan"},
   scheme |-> scheme, user |-> user, role |-> role, ok |-> ok]
Ann(path, method) == Input(path, method, "bearer", "ann", "editor", "yes")
Bob(path, method) == Input(path, method, "basic", "bob", NotString, "yes")

MCInputs ==
  {Ann("table", "POST"), Ann("rpc", "POST"), Ann("docs", "GET"),
   Bob("table", "GET"), Bob("table", "PUT"), Bob("rpc", "GET"), Bob("openapi", "GET"),
   Input("table", "GET", "none", "", NotString, "no"),
   Input("table", "PATCH", "basic", "bob", NotString, "no"),
   Input("rpc", "POST", "bearer", "cyd", Empty, "yes"),
   Input("table", "GET", "bearer", "cyd", Empty, "yes"),
   Input("table", "GET", "bearer", "dan", NotString, "yes"),
   Input("openapi", "GET", "basic", "", NotString, "yes"),
   Input("table", "GET", "bearer", "eve", "editor", "no"),
   Input("table", "GET", "bearer", "eve", "editor", "claims unreadable"),
   [Ann("table", "OPTIONS") EXCEPT !.origin = TRUE]}

Config(oidc, basic, anon, envAnon) ==
  [oidc |-> oidc, basic |-> basic, anon |-> anon, envAnon |-> envAnon]
MCConfigs == {Config(TRUE, TRUE, "guest", Empty), Config(TRUE, TRUE, Empty, "guest"),
              Config(FALSE, TRUE, Empty, Empty)}

\* No request is served while a statement is looked at.
NoServer ==
  /\ config = Config(FALSE, TRUE, Empty, Empty) /\ phase = "ended"
  /\ req = [r \in Requests |-> Bob("table", "GET")]
  /\ pc = [r \in Requests |-> "unsent"] /\ ctx = [r \in Requests |-> NoCtx]
  /\ handle = [r \in Requests |-> None] /\ session = [c \in Conns |-> Fresh]
  /\ status = [r \in Requests |-> 0] /\ ran = [r \in Requests |-> {}]
  /\ wrote = [r \in Requests |-> FALSE] /\ cached = TRUE /\ reloads = 0

MCInit == (Init /\ Quiet) \/ (NoServer /\ SqlInit)
MCNext == (Next /\ UNCHANGED <<ask, stmt>>) \/ (SqlNext /\ UNCHANGED vars)
MCSpec == MCInit /\ [][MCNext]_<<vars, ask, stmt>> /\ \A r \in Requests : WF_vars(Step(r))
=============================================================================
