------------------------- MODULE SchemaCacheProofs --------------------------
(***************************************************************************)
(* Proofs about the schema cache, for both owners and every number of      *)
(* schema versions, connection losses and failing loads.                   *)
(***************************************************************************)
EXTENDS SchemaCache, SequenceTheorems, TLAPS

-----------------------------------------------------------------------------
(* The inductive invariant.                                                *)

\* The channel is only closed by Close, which has ended the context before;
\* the first load and LISTEN are over when the owner is ready.
CloseInv ==
  /\ watchClosed => owner = "closed"
  /\ owner \in {"closing", "closed"} => ctxDone
  /\ (pc = "initListen" \/ (ret = "initListen" /\ pc \in {"load", "install", "send"}))
       => owner = "init"

IInv == TypeOK /\ VersionsInOrder /\ CloseInv

-----------------------------------------------------------------------------
\* What receiving the channel's only snapshot leaves.
LEMMA HeadOfWatch ==
  ASSUME NEW w \in Seq(Nat), w # <<>>, Len(w) <= WatchCap
  PROVE  /\ Head(w) = w[1] /\ 1 \in 1..Len(w)
         /\ Tail(w) \in Seq(Nat) /\ Len(Tail(w)) = 0
<1>1. Len(w) \in Nat \ {0}
  BY EmptySeq
<1>2. \A n \in Nat \ {0} : n <= WatchCap => n = 1
  BY DEF WatchCap
<1>3. Len(w) = 1
  BY <1>1, <1>2
<1> QED
  BY <1>3, HeadTailProperties

\* What sending a snapshot into the empty channel makes of it.
LEMMA SendToWatch ==
  ASSUME NEW w \in Seq(Nat), NEW v \in Nat, Len(w) < WatchCap
  PROVE  /\ Append(w, v) \in Seq(Nat) /\ Len(Append(w, v)) = 1
         /\ \A i \in 1..Len(Append(w, v)) : Append(w, v)[i] = v
BY DEF WatchCap

\* The invariant holds initially.
LEMMA InitInv == Init => IInv
<1> SUFFICES ASSUME Init PROVE IInv
  OBVIOUS
<1>1. watch \in Seq(Nat) /\ Len(watch) = 0
  BY DEF Init
<1>2. listening \in BOOLEAN /\ watchClosed \in BOOLEAN /\ ctxDone \in BOOLEAN
  BY DEF Init
<1>3. TypeOK
  BY <1>1, <1>2, SchemaCacheAssumption DEF Init, TypeOK, WatchCap
<1>4. VersionsInOrder
  BY <1>1 DEF Init, VersionsInOrder
<1>5. CloseInv
  BY DEF Init, CloseInv
<1> QED
  BY <1>3, <1>4, <1>5 DEF IInv

\* Every step preserves the types.
LEMMA TypeStep ==
  ASSUME IInv, [Next]_vars
  PROVE  TypeOK'
<1> USE SchemaCacheAssumption DEF IInv, TypeOK, dbVars, conVars, runVars, ownVars
<1>1. CASE Alter
  BY <1>1 DEF Alter
<1>2. CASE Notify
  BY <1>2 DEF Notify
<1>3. CASE LoseConnection
  <2>1. losses' \in 0..MaxLosses
    BY <1>3 DEF LoseConnection
  <2>2. listening' \in BOOLEAN
    BY <1>3 DEF LoseConnection
  <2> QED
    BY <1>3, <2>1, <2>2 DEF LoseConnection
<1>4. CASE CloseCancel
  BY <1>4 DEF CloseCancel
<1>5. CASE LoadAll
  BY <1>5 DEF LoadAll, OnLoadError
<1>6. CASE Install
  BY <1>6 DEF Install
<1>7. CASE SendSnapshot
  <2>1. watch' \in Seq(Nat) /\ Len(watch') = 1
    BY <1>7, SendToWatch DEF SendSnapshot
  <2> QED
    BY <1>7, <2>1 DEF SendSnapshot, WatchCap
<1>8. CASE SendOnClosed
  BY <1>8 DEF SendOnClosed
<1>9. CASE InitListen
  BY <1>9 DEF InitListen
<1>10. CASE LoopTop
  BY <1>10 DEF LoopTop
<1>11. CASE Listen
  BY <1>11 DEF Listen, AfterListenError
<1>12. CASE WaitNotified
  BY <1>12 DEF WaitNotified, Call
<1>13. CASE WaitFailed
  BY <1>13 DEF WaitFailed, AfterListenError
<1>14. CASE Reconnect
  BY <1>14 DEF Reconnect, Call
<1>15. CASE BackoffCancelled
  BY <1>15 DEF BackoffCancelled
<1>16. CASE WatchLoop
  <2>1. /\ Head(watch) = watch[1] /\ 1 \in 1..Len(watch)
        /\ watch' \in Seq(Nat) /\ Len(watch') = 0
    BY <1>16, HeadOfWatch DEF WatchLoop
  <2>2. seen' \in 0..db
    BY <1>16, <2>1 DEF WatchLoop, VersionsInOrder
  <2> QED
    BY <1>16, <2>1, <2>2 DEF WatchLoop, WatchCap
<1>17. CASE ConnectReturns
  BY <1>17 DEF ConnectReturns
<1>18. CASE CloseWatch
  BY <1>18 DEF CloseWatch
<1>19. CASE UNCHANGED vars
  BY <1>19 DEF vars
<1> QED
  BY <1>1, <1>2, <1>3, <1>4, <1>5, <1>6, <1>7, <1>8, <1>9, <1>10, <1>11, <1>12, <1>13,
     <1>14, <1>15, <1>16, <1>17, <1>18, <1>19 DEF Next, CacheStep, OwnerStep

\* A step moves a version along the way or leaves the way alone, so the
\* versions stay in order.
LEMMA OrderStep ==
  ASSUME IInv, [Next]_vars
  PROVE  VersionsInOrder'
<1> USE DEF IInv, TypeOK, VersionsInOrder, dbVars, conVars, runVars, ownVars
<1>1. CASE Alter
  BY <1>1 DEF Alter
<1>2. CASE LoadAll
  BY <1>2 DEF LoadAll
<1>3. CASE Install
  BY <1>3 DEF Install
<1>4. CASE SendSnapshot
  <2>1. \A i \in 1..Len(watch') : watch'[i] = tables
    BY <1>4, SendToWatch DEF SendSnapshot
  <2> QED
    BY <1>4, <2>1 DEF SendSnapshot
<1>5. CASE WatchLoop
  <2>1. Head(watch) = watch[1] /\ 1 \in 1..Len(watch) /\ Len(watch') = 0
    BY <1>5, HeadOfWatch DEF WatchLoop
  <2> QED
    BY <1>5, <2>1 DEF WatchLoop
<1>6. CASE UNCHANGED <<db, loaded, tables, watch, seen>>
  BY <1>6
<1> QED
  BY <1>1, <1>2, <1>3, <1>4, <1>5, <1>6
     DEF Next, CacheStep, OwnerStep, vars, Notify, LoseConnection, CloseCancel, SendOnClosed,
         InitListen, LoopTop, Listen, WaitNotified, WaitFailed, Reconnect, BackoffCancelled,
         Call, ConnectReturns, CloseWatch

\* The context is over before the channel is closed, whatever the goroutine
\* does in between.
LEMMA CloseStep ==
  ASSUME IInv, [Next]_vars
  PROVE  CloseInv'
<1> USE DEF IInv, TypeOK, CloseInv, dbVars, conVars, runVars, ownVars
<1>1. CASE CacheStep
  BY <1>1 DEF CacheStep, LoadAll, OnLoadError, Install, SendSnapshot, SendOnClosed, InitListen,
              LoopTop, Listen, AfterListenError, WaitNotified, WaitFailed, Reconnect,
              BackoffCancelled, Call
<1>2. CASE CloseCancel \/ OwnerStep
  BY <1>2 DEF CloseCancel, OwnerStep, ConnectReturns, CloseWatch
<1>3. CASE UNCHANGED <<watchClosed, owner, ctxDone, pc, ret>>
  BY <1>3
<1> QED
  BY <1>1, <1>2, <1>3 DEF Next, vars, Alter, Notify, LoseConnection, WatchLoop

LEMMA Invariance == Spec => []IInv
<1>1. IInv /\ [Next]_vars => IInv'
  BY TypeStep, OrderStep, CloseStep DEF IInv
<1> QED
  BY InitInv, <1>1, PTL DEF Spec
-----------------------------------------------------------------------------
\* The versions on the way from the database to the owner are in order.
THEOREM VersionOrder == Spec => []VersionsInOrder
<1>1. IInv => VersionsInOrder
  BY DEF IInv
<1> QED
  BY <1>1, Invariance, PTL

\* Once Close has begun and no reload has read the schema, none ever will.
LEMMA NothingToSendStays ==
  ASSUME IInv, NothingToSend, [Next]_vars
  PROVE  NothingToSend'
<1>1. owner \in {"closing", "closed"} /\ ctxDone /\ pc \notin {"install", "send", "crashed"}
  BY DEF IInv, CloseInv, NothingToSend
<1> USE DEF NothingToSend, dbVars, conVars, runVars, ownVars
<1>2. CASE CacheStep
  BY <1>1, <1>2 DEF CacheStep, LoadAll, OnLoadError, Install, SendSnapshot, SendOnClosed,
       InitListen, LoopTop, Listen, AfterListenError, WaitNotified, WaitFailed, Reconnect,
       BackoffCancelled, Call, IInv, TypeOK, CloseInv
<1>3. CASE OwnerStep
  BY <1>1, <1>3 DEF OwnerStep, ConnectReturns, CloseWatch
<1>4. CASE CloseCancel
  BY <1>1, <1>4 DEF CloseCancel
<1>5. CASE UNCHANGED <<owner, pc>>
  BY <1>1, <1>5
<1> QED
  BY <1>2, <1>3, <1>4, <1>5 DEF Next, vars, Alter, Notify, LoseConnection, WatchLoop

\* Only a reload that had read the schema when Close began can panic on the
\* closed channel (schema.go, reload and Close).
THEOREM PanicSafe == Spec => OnlyAReadyReloadPanics
<1>1. IInv /\ NothingToSend /\ [Next]_vars => NothingToSend'
  BY NothingToSendStays
<1>2. NothingToSend => pc # "crashed"
  BY DEF NothingToSend
<1> QED
  BY <1>1, <1>2, Invariance, PTL DEF Spec, OnlyAReadyReloadPanics

\* No step replaces a schema by an older one: neither the cache's tables,
\* which a reconnect reloads, nor the copy its owner serves from.
THEOREM NeverOlder == Spec => [][tables' >= tables /\ seen' >= seen]_vars
<1>1. IInv /\ [Next]_vars => [tables' >= tables /\ seen' >= seen]_vars
  <2> SUFFICES ASSUME IInv, Next PROVE tables' >= tables /\ seen' >= seen
    BY DEF vars, dbVars, conVars, runVars, ownVars
  <2> USE DEF IInv, TypeOK, VersionsInOrder, dbVars, conVars, runVars, ownVars
  <2>1. CASE Install
    BY <2>1 DEF Install
  <2>2. CASE WatchLoop
    BY <2>2, HeadOfWatch DEF WatchLoop
  <2>3. CASE UNCHANGED <<tables, seen>>
    BY <2>3
  <2> QED
    BY <2>1, <2>2, <2>3
       DEF Next, CacheStep, OwnerStep, Alter, Notify, LoseConnection, CloseCancel, LoadAll,
           SendSnapshot, SendOnClosed, InitListen, LoopTop, Listen, WaitNotified, WaitFailed,
           Reconnect, BackoffCancelled, Call, ConnectReturns, CloseWatch
<1> QED
  BY <1>1, Invariance, PTL DEF Spec
=============================================================================
