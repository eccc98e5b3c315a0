---------------------------- MODULE SchemaCache -----------------------------
(***************************************************************************)
(* The schema cache of pkg/pgx/schema/schema.go and its two owners: the    *)
(* PostgREST-like server (pkg/rest/server.go) and the PostgreSQL sink peer *)
(* (pkg/pipeline/peer/pg/peer.go).                                         *)
(*                                                                         *)
(* The database's schema is a version number that DDL increments; a cache  *)
(* holds the version it last loaded.  NOTIFY pigo, 'reload schema' reaches *)
(* the cache only over a connection that has issued LISTEN.  The database  *)
(* and the connections are external.                                       *)
(***************************************************************************)
EXTENDS Naturals, Sequences

CONSTANTS
  Owners,        \* the kinds of owner considered: "rest", "peer"
  MaxVersion,    \* bound: schema versions
  MaxLosses,     \* bound: connection losses
  MaxLoadErrors  \* bound: failing loadAll calls

ASSUME SchemaCacheAssumption ==
  /\ Owners \subseteq {"rest", "peer"}
  /\ MaxVersion \in Nat /\ MaxLosses \in Nat /\ MaxLoadErrors \in Nat

VARIABLES
  db,         \* current schema version
  notified,   \* version at the last NOTIFY issued while the owner was up
  heard,      \* version at the last NOTIFY sent to a listening connection
  conn,       \* c.conn: "up" or "lost"
  listening,  \* LISTEN was issued on it
  pending,    \* reload notifications waiting on it
  pc,         \* the cache's goroutine (before Init returns, the caller)
  ret,        \* where reload returns to
  loaded,     \* what loadAll read
  tables,     \* c.tables
  watch,      \* c.watch, capacity 1
  watchClosed,
  ctxDone,    \* the context given to Init is done
  kind,       \* which owner the cache has
  owner,      \* "init", "ready", "closing", "closed"
  seen,       \* the last snapshot the owner's watch loop received
  losses, loadErrors

dbVars  == <<db, notified, heard>>
conVars == <<conn, listening, pending, losses>>
runVars == <<pc, ret, loaded, tables, watch, loadErrors>>
ownVars == <<watchClosed, ctxDone, kind, owner, seen>>
vars    == <<dbVars, conVars, runVars, ownVars>>

WatchCap == 1

\* NewCache has a connection; Init begins with a reload.
Init ==
  /\ db = 1 /\ notified = 0 /\ heard = 0
  /\ conn = "up" /\ listening = FALSE /\ pending = 0
  /\ pc = "load" /\ ret = "initListen" /\ loaded = 0 /\ tables = 0
  /\ watch = <<>> /\ watchClosed = FALSE /\ ctxDone = FALSE
  /\ kind \in Owners /\ owner = "init" /\ seen = 0
  /\ losses = 0 /\ loadErrors = 0

-----------------------------------------------------------------------------
(* Database and network (external).                                        *)

Alter ==
  /\ db < MaxVersion
  /\ db' = db + 1
  /\ UNCHANGED <<notified, heard, conVars, runVars, ownVars>>

Notify ==
  /\ notified < db
  /\ notified' = IF owner = "ready" THEN db ELSE notified
  /\ IF listening
     THEN heard' = db /\ pending' = pending + 1
     ELSE UNCHANGED <<heard, pending>>
  /\ UNCHANGED <<db, conn, listening, losses, runVars, ownVars>>

\* What was waiting on a connection is lost with it.
LoseConnection ==
  /\ conn = "up" /\ losses < MaxLosses
  /\ losses' = losses + 1
  /\ conn' = "lost" /\ listening' = FALSE /\ pending' = 0
  /\ UNCHANGED <<dbVars, runVars, ownVars>>

-----------------------------------------------------------------------------
(* reload, called from Init, listen and reconnect.                         *)

Call(r) == pc' = "load" /\ ret' = r

\* Where an error of loadAll leads: Init fails, listen logs it and goes on
\* waiting, reconnectWithBackoff tries again.
OnLoadError ==
  CASE ret = "initListen" -> "failed"
    [] ret = "wait"       -> "wait"
    [] ret = "loop"       -> "backoff"

\* Mutant: the load does not look at ctx.
MutLoadAll ==
  /\ pc = "load"
  /\ \/ /\ loaded' = db
        /\ pc' = "install"
        /\ UNCHANGED loadErrors
     \/ /\ loadErrors < MaxLoadErrors
        /\ pc' = OnLoadError
        /\ loadErrors' = loadErrors + 1
        /\ UNCHANGED loaded
  /\ UNCHANGED <<dbVars, conVars, ret, tables, watch, ownVars>>

\* loadAll reads the schema, or fails; it fails if ctx is done before it has
\* the answer to its last query.
LoadAll ==
  /\ pc = "load"
  /\ \/ /\ ~ctxDone
        /\ loaded' = db
        /\ pc' = "install"
        /\ UNCHANGED loadErrors
     \/ /\ ctxDone \/ loadErrors < MaxLoadErrors
        /\ pc' = OnLoadError
        /\ loadErrors' = IF ctxDone THEN loadErrors ELSE loadErrors + 1
        /\ UNCHANGED loaded
  /\ UNCHANGED <<dbVars, conVars, ret, tables, watch, ownVars>>

\* c.tables = tables, under the lock.
Install ==
  /\ pc = "install"
  /\ tables' = loaded
  /\ pc' = "send"
  /\ UNCHANGED <<dbVars, conVars, ret, loaded, watch, loadErrors, ownVars>>

\* Mutant: the snapshot is offered without waiting for room in the channel.
MutSendSnapshot ==
  /\ pc = "send" /\ ~watchClosed
  /\ watch' = IF Len(watch) < WatchCap THEN Append(watch, tables) ELSE watch
  /\ pc' = ret
  /\ UNCHANGED <<dbVars, conVars, ret, loaded, tables, loadErrors, ownVars>>

\* c.watch <- c.Snapshot(): waits for room, and does not look at ctx.
SendSnapshot ==
  /\ pc = "send" /\ ~watchClosed
  /\ Len(watch) < WatchCap
  /\ watch' = Append(watch, tables)
  /\ pc' = ret
  /\ UNCHANGED <<dbVars, conVars, ret, loaded, tables, loadErrors, ownVars>>

\* A send on the closed channel panics.
SendOnClosed ==
  /\ pc = "send" /\ watchClosed
  /\ pc' = "crashed"
  /\ UNCHANGED <<dbVars, conVars, ret, loaded, tables, watch, loadErrors, ownVars>>

-----------------------------------------------------------------------------
(* Init's end and handleUpdates.                                           *)

\* Init: LISTEN, then the goroutine starts.  The owner begins to watch.
InitListen ==
  /\ pc = "initListen"
  /\ IF conn = "up" /\ ~ctxDone
     THEN listening' = TRUE /\ pc' = "loop" /\ owner' = "ready"
     ELSE pc' = "failed" /\ UNCHANGED <<listening, owner>>
  /\ UNCHANGED <<dbVars, conn, pending, losses, ret, loaded, tables, watch,
                 loadErrors, watchClosed, ctxDone, kind, seen>>

\* The select at the top of handleUpdates.
LoopTop ==
  /\ pc = "loop"
  /\ pc' = IF ctxDone THEN "exit" ELSE "listen"
  /\ UNCHANGED <<dbVars, conVars, ret, loaded, tables, watch, loadErrors, ownVars>>

\* listen's error: handleUpdates returns if ctx is done, else reconnects.
AfterListenError == IF ctxDone THEN "exit" ELSE "backoff"

\* listen issues LISTEN again.
Listen ==
  /\ pc = "listen"
  /\ IF conn = "up" /\ ~ctxDone
     THEN listening' = TRUE /\ pc' = "wait"
     ELSE pc' = AfterListenError /\ UNCHANGED listening
  /\ UNCHANGED <<dbVars, conn, pending, losses, ret, loaded, tables, watch,
                 loadErrors, ownVars>>

\* WaitForNotification returns a reload notification; other payloads are
\* ignored and not modelled.
WaitNotified ==
  /\ pc = "wait" /\ pending > 0
  /\ pending' = pending - 1
  /\ Call("wait")
  /\ UNCHANGED <<dbVars, conn, listening, losses, loaded, tables, watch,
                 loadErrors, ownVars>>

\* WaitForNotification fails: the connection is gone or ctx is done.
WaitFailed ==
  /\ pc = "wait"
  /\ conn = "lost" \/ ctxDone
  /\ pc' = AfterListenError
  /\ UNCHANGED <<dbVars, conVars, ret, loaded, tables, watch, loadErrors, ownVars>>

\* Mutant: the new connection is used without a reload.
MutReconnect ==
  /\ pc = "backoff" /\ ~ctxDone
  /\ conn' = "up" /\ listening' = FALSE /\ pending' = 0
  /\ pc' = "loop"
  /\ UNCHANGED <<dbVars, losses, ret, loaded, tables, watch, loadErrors, ownVars>>

\* Mutant: reconnecting empties the cache first.
MutReconnectClears ==
  /\ pc = "backoff" /\ ~ctxDone
  /\ conn' = "up" /\ listening' = FALSE /\ pending' = 0
  /\ tables' = 0
  /\ Call("loop")
  /\ UNCHANGED <<dbVars, losses, loaded, watch, loadErrors, ownVars>>

\* One round of reconnectWithBackoff: a fresh connection, which listens to
\* nothing yet, replaces the old one, and the schema is reloaded over it.
\* A failing Acquire waits for the next round.
Reconnect ==
  /\ pc = "backoff" /\ ~ctxDone
  /\ conn' = "up" /\ listening' = FALSE /\ pending' = 0
  /\ Call("loop")
  /\ UNCHANGED <<dbVars, losses, loaded, tables, watch, loadErrors, ownVars>>

\* Mutant: the backoff does not look at ctx.
MutBackoffCancelled ==
  /\ pc = "backoff" /\ ctxDone
  /\ UNCHANGED vars

\* case <-ctx.Done() of reconnectWithBackoff.
BackoffCancelled ==
  /\ pc = "backoff" /\ ctxDone
  /\ pc' = "loop"
  /\ UNCHANGED <<dbVars, conVars, ret, loaded, tables, watch, loadErrors, ownVars>>

-----------------------------------------------------------------------------
(* The owners.                                                             *)

\* PeerPG.Connect returns: its deferred cancel ends the context it gave Init.
ConnectReturns ==
  /\ kind = "peer" /\ owner = "ready" /\ ~ctxDone
  /\ ctxDone' = TRUE
  /\ UNCHANGED <<dbVars, conVars, runVars, watchClosed, kind, owner, seen>>

\* Mutant: the watch loop ends with the context.
MutWatchLoop ==
  /\ owner # "init" /\ watch # <<>> /\ ~ctxDone
  /\ seen' = Head(watch)
  /\ watch' = Tail(watch)
  /\ UNCHANGED <<dbVars, conVars, pc, ret, loaded, tables, loadErrors,
                 watchClosed, ctxDone, kind, owner>>

\* The owner's loop over Watch().
WatchLoop ==
  /\ owner # "init" /\ watch # <<>>
  /\ seen' = Head(watch)
  /\ watch' = Tail(watch)
  /\ UNCHANGED <<dbVars, conVars, pc, ret, loaded, tables, loadErrors,
                 watchClosed, ctxDone, kind, owner>>

\* Close, called by the server's Shutdown: cancel, then the connection.
CloseCancel ==
  /\ kind = "rest" /\ owner = "ready"
  /\ owner' = "closing"
  /\ ctxDone' = TRUE
  /\ conn' = "lost" /\ listening' = FALSE /\ pending' = 0
  /\ UNCHANGED <<dbVars, losses, runVars, watchClosed, kind, seen>>

\* Close, continued: pool.Close waits for a running loadAll to give its
\* connection back, then the channel is closed.
CloseWatch ==
  /\ owner = "closing" /\ pc # "load"
  /\ owner' = "closed"
  /\ watchClosed' = TRUE
  /\ UNCHANGED <<dbVars, conVars, runVars, ctxDone, kind, seen>>

-----------------------------------------------------------------------------
CacheStep ==
  \/ LoadAll \/ Install \/ SendSnapshot \/ SendOnClosed \/ InitListen
  \/ LoopTop \/ Listen \/ WaitNotified \/ WaitFailed \/ Reconnect
  \/ BackoffCancelled

OwnerStep == ConnectReturns \/ CloseWatch

Next ==
  \/ Alter \/ Notify \/ LoseConnection \/ CloseCancel
  \/ CacheStep \/ WatchLoop \/ OwnerStep

Spec == Init /\ [][Next]_vars

\* The cache's goroutine, the watch loop and a Connect or Close under way make
\* progress; a database that refuses a new connection accepts one in the end.
\* Nobody has to alter the schema, notify, or close the cache.
FairSpec == Spec /\ WF_vars(CacheStep) /\ WF_vars(WatchLoop) /\ WF_vars(OwnerStep)
-----------------------------------------------------------------------------
\* Types of the variables of the database, the connection, the cache and its
\* owner.
TypeOK ==
  /\ db \in Nat /\ notified \in 0..db /\ heard \in 0..db
  /\ conn \in {"up", "lost"} /\ listening \in BOOLEAN /\ pending \in Nat
  /\ losses \in 0..MaxLosses /\ loadErrors \in 0..MaxLoadErrors
  /\ pc \in {"load", "install", "send", "initListen", "loop", "listen", "wait",
             "backoff", "failed", "exit", "crashed"}
  /\ ret \in {"initListen", "wait", "loop"}
  /\ loaded \in 0..db /\ tables \in 0..db /\ seen \in 0..db
  /\ watch \in Seq(Nat) /\ Len(watch) <= WatchCap
  /\ watchClosed \in BOOLEAN /\ ctxDone \in BOOLEAN
  /\ kind \in Owners /\ owner \in {"init", "ready", "closing", "closed"}

\* Versions along the way from the database to the owner never cross: the
\* owner's copy, the channel, the cache and the running load are in order,
\* so no reload or reconnect ever replaces a newer schema by an older one.
VersionsInOrder ==
  /\ \A i \in 1..Len(watch) : seen <= watch[i] /\ watch[i] <= tables
  /\ seen <= tables
  /\ tables <= loaded /\ loaded <= db

\* Close has begun, and no reload has read the schema yet.
NothingToSend ==
  owner \in {"closing", "closed"} /\ pc \notin {"install", "send", "crashed"}

\* The panic on the closed channel is the fate of a reload that had read the
\* schema when Close began, and of no other: one that Close finds before or in
\* its queries is stopped by the cancelled context, also if the channel is
\* closed meanwhile, and no later step of the goroutine starts another.
OnlyAReadyReloadPanics == [](NothingToSend => [](pc # "crashed"))

\* A notification that waits on the listening connection leads to a reload,
\* also if that connection is lost before it is read, unless a load fails:
\* listen only logs that error.
HeardIsLoaded ==
  \A v \in 1..MaxVersion, k \in 0..MaxLoadErrors :
     (heard = v /\ pending > 0 /\ loadErrors = k)
        ~> (tables >= v \/ ctxDone \/ loadErrors > k)

\* The owner's copy catches up with the cache.
OwnerCatchesUp ==
  \A v \in 1..MaxVersion :
     (tables = v /\ owner = "ready") ~> (seen >= v \/ ctxDone)

\* The owner receives the schema Init loaded; for the sink peer, although the
\* context it gave Init ends as soon as its Connect returns.
OwnerGetsInitialTables == (owner = "ready") ~> (seen > 0)

\* After Close the cache's goroutine ends.
CloseEndsGoroutine ==
  (owner = "closed") ~> (pc \in {"exit", "crashed"})

\* What the README says of a running pigo: NOTIFY makes it reload its cache.
NotifyReloads ==
  \A v \in 1..MaxVersion :
     (notified = v) ~> (tables >= v \/ owner \in {"closing", "closed"})
=============================================================================
