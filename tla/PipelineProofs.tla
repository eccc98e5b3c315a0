--------------------------- MODULE PipelineProofs ---------------------------
(***************************************************************************)
(* Proofs about the pipeline process, for every configuration, channel     *)
(* capacity and number of events and workers, in three parts: its control  *)
(* (types, setup, closed channels); the event path (every event has one    *)
(* place, channels are in source order, the process implements             *)
(* LaneDelivery); the fan-outs (what passed a pipeline's transformations   *)
(* is accounted for at each of its sinks, and a pipeline that subscribed   *)
(* is offered every event from then on).                                   *)
(***************************************************************************)
EXTENDS Pipeline, TLAPS

-----------------------------------------------------------------------------
(* Control: the inductive invariant.                                       *)

\* Where the main goroutine can be: the setup position is inside the
\* configuration during setup and past its end afterwards.
PosInv ==
  /\ phase \in {"subscribe", "connect"} => pl \in PL /\ si \in 1..Len(Sources[pl])
  /\ phase \in {"sinks", "close", "failed"} => pl \in PL
  /\ phase = "sinks" => si \in 1..(Len(Sources[pl]) + 1)
  /\ phase = "connect" => subs[Src] # <<>> /\ fan[Src] = "off"

\* Channels are closed by a failing setup only, those of its pipeline only.
CloseInv ==
  \A l \in Lane : closed[l] =>
     /\ phase \in {"failed", "exited", "crashed"}
     /\ pl \in PL /\ l[1] = pl

\* The loops of a fan-out stay inside the subscriptions and the sinks.
FanInv ==
  \A s \in SourceNames :
     /\ fan[s] = "fan" =>
          /\ sub[s] \in 1..(snap[s] + 1) /\ snap[s] \in 0..Len(subs[s])
          /\ snk[s] > 0 => /\ sub[s] <= snap[s]
                           /\ snk[s] \in 1..Len(Sinks[subs[s][sub[s]]])
     /\ fan[s] # "fan" => snk[s] = 0
     /\ subs[s] = <<>> => fan[s] = "off"

\* A crash is a fan-out's send on a closed channel.
CrashInv ==
  phase = "crashed" => \E l \in Lane : closed[l] /\ l[1] = pl

CtlInv == TypeOK /\ PosInv /\ CloseInv /\ FanInv /\ CrashInv

-----------------------------------------------------------------------------
(* Facts about the constants.                                              *)

\* A lane is a pipeline with one of its sinks.
LEMMA LaneShape ==
  ASSUME NEW l \in Lane
  PROVE  /\ l[1] \in PL
         /\ l[2] \in Names(Sinks[l[1]])
         /\ l = <<l[1], l[2]>>
BY DEF Lane

\* A pipeline and one of its sink positions make a lane.
LEMMA LaneMember ==
  ASSUME NEW p \in PL, NEW j \in 1..Len(Sinks[p])
  PROVE  <<p, Sinks[p][j]>> \in Lane
BY DEF Lane, Names

\* A worker belongs to a lane.
LEMMA WorkerLane ==
  ASSUME NEW w \in Worker
  PROVE  w[1] \in Lane
BY DEF Worker

\* The sources of a pipeline are source names.
LEMMA SourceMember ==
  ASSUME NEW p \in PL, NEW i \in 1..Len(Sources[p])
  PROVE  Sources[p][i] \in SourceNames
BY DEF SourceNames, Names

-----------------------------------------------------------------------------
(* Control: types, positions, closed channels.                             *)

\* The control invariant holds initially.
LEMMA CtlInit == Init => CtlInv
<1> SUFFICES ASSUME Init PROVE CtlInv
  OBVIOUS
<1>1. 1 \in PL /\ Len(Sources[1]) \in Nat
  BY ConfigAssumption DEF PL
<1>2. TypeOK
  <2>1. phase \in Phase
    BY <1>1 DEF Init, Phase, SetupPhase, PhaseAt
  <2>2. 0 \in 0..MaxEvents
    BY ConfigAssumption
  <2>3. /\ subs \in [SourceNames -> Seq(PL)]
        /\ since \in [SourceNames -> Seq(Int)]
        /\ queue \in [Lane -> Seq(Event)]
    BY DEF Init
  <2>7. cancelled \in BOOLEAN
    BY DEF Init
  <2>8. pl \in Nat \ {0} /\ si \in Nat \ {0}
    BY DEF Init
  <2>4. /\ fan \in [SourceNames -> {"off", "select", "lookup", "fan", "done"}]
        /\ taken \in [SourceNames -> 0..MaxEvents]
        /\ snap \in [SourceNames -> Nat]
        /\ sub \in [SourceNames -> Nat]
        /\ snk \in [SourceNames -> Nat]
    BY <2>2 DEF Init
  <2>5. /\ passed \in [PL -> SUBSET Event]
        /\ filtered \in [PL -> SUBSET Event]
        /\ closed \in [Lane -> BOOLEAN]
        /\ processed \in [Lane -> SUBSET Event]
        /\ overflow \in [Lane -> SUBSET Event]
    BY DEF Init
  <2>6. /\ wst \in [Worker -> {"off", "up", "done"}]
        /\ hold \in [Worker -> SUBSET Event]
        /\ published \in [Lane -> SUBSET Event]
        /\ pubErrors \in [Lane -> SUBSET Event]
        /\ sinkDropped \in [Lane -> SUBSET Event]
    BY DEF Init
  <2> QED
    BY <2>1, <2>3, <2>4, <2>5, <2>6, <2>7, <2>8 DEF TypeOK
<1>3. PosInv
  BY <1>1, ConfigAssumption DEF Init, PosInv, PhaseAt
<1>4. CloseInv /\ FanInv /\ CrashInv
  BY <1>1, ConfigAssumption DEF Init, CloseInv, FanInv, CrashInv, PhaseAt
<1> QED
  BY <1>2, <1>3, <1>4 DEF CtlInv

\* Every step preserves the types.
LEMMA TypeStep ==
  ASSUME CtlInv, [Next]_vars
  PROVE  TypeOK'
<1>type. TypeOK
  BY DEF CtlInv
<1>subs. subs \in [SourceNames -> Seq(PL)]
  BY <1>type DEF TypeOK
<1>idx. /\ sub \in [SourceNames -> Nat]
        /\ snk \in [SourceNames -> Nat]
  BY <1>type DEF TypeOK
<1>pf. /\ passed \in [PL -> SUBSET Event]
       /\ filtered \in [PL -> SUBSET Event]
  BY <1>type DEF TypeOK
<1>queue. queue \in [Lane -> Seq(Event)]
  BY <1>type DEF TypeOK
<1>po. /\ processed \in [Lane -> SUBSET Event]
       /\ overflow \in [Lane -> SUBSET Event]
  BY <1>type DEF TypeOK
<1>hold. hold \in [Worker -> SUBSET Event]
  BY <1>type DEF TypeOK
<1>fin. /\ published \in [Lane -> SUBSET Event]
        /\ pubErrors \in [Lane -> SUBSET Event]
        /\ sinkDropped \in [Lane -> SUBSET Event]
  BY <1>type DEF TypeOK
<1>cur. \A s \in SourceNames : Cur(s) \in Event
  BY <1>type DEF TypeOK, Cur, Event
<1>1. CASE Subscribe
  <2>1. pl \in PL /\ Src \in SourceNames
    BY <1>1, SourceMember DEF Subscribe, CtlInv, PosInv, Src
  <2>2. subs' = subs \/ subs' = [subs EXCEPT ![Src] = Append(@, pl)]
    BY <1>1 DEF Subscribe
  <2>5. Append(subs[Src], pl) \in Seq(PL)
    BY <2>1, <1>subs
  <2>3. subs' \in [SourceNames -> Seq(PL)]
    BY <2>1, <2>2, <2>5, <1>subs
  <2>4. phase' \in Phase
    BY <1>1 DEF Subscribe, Phase, SetupPhase
  <2>6. since' \in [SourceNames -> Seq(Int)]
    <3>1. since \in [SourceNames -> Seq(Int)] /\ taken[Src] \in Int
      BY <2>1, <1>type, ConfigAssumption DEF TypeOK
    <3>2. LookedUp(Src) \in Int
      BY <3>1 DEF LookedUp
    <3>3. since' = since \/ since' = [since EXCEPT ![Src] = Append(@, LookedUp(Src))]
      BY <1>1 DEF Subscribe
    <3>4. Append(since[Src], LookedUp(Src)) \in Seq(Int)
      BY <2>1, <3>1, <3>2
    <3> QED
      BY <2>1, <3>1, <3>3, <3>4
  <2> QED
    BY <1>1, <2>3, <2>4, <2>6, <1>type DEF Subscribe, TypeOK, fanVars, chanVars, workVars
<1>2. CASE Connect
  BY <1>2, <1>type DEF Connect, TypeOK, Phase, SetupPhase, chanVars, workVars
<1>3. CASE SetupSinks
  <2>1. phase' \in Phase
    BY <1>3 DEF SetupSinks, Phase, SetupPhase, PhaseAt
  <2>2. pl' \in Nat \ {0} /\ si' \in Nat \ {0}
    BY <1>3, <1>type DEF SetupSinks, TypeOK
  <2>3. wst' \in [Worker -> {"off", "up", "done"}]
    BY <1>3, <1>type DEF SetupSinks, TypeOK
  <2> QED
    BY <1>3, <2>1, <2>2, <2>3, <1>type DEF SetupSinks, TypeOK, fanVars, chanVars
<1>4. CASE CloseSinkChannels
  BY <1>4, <1>type DEF CloseSinkChannels, TypeOK, Phase, SetupPhase, fanVars, workVars
<1>5. CASE MainEnd \/ Signal
  BY <1>5, <1>type DEF MainEnd, ExitOnError, ShutdownComplete, ShutdownTimeout, Signal, TypeOK, Phase, SetupPhase, fanVars, chanVars, workVars
<1>6. ASSUME NEW s \in SourceNames, Receive(s)
      PROVE  TypeOK'
  <2>1. taken \in [SourceNames -> 0..MaxEvents]
    BY <1>type DEF TypeOK
  <2>2. taken[s] < MaxEvents /\ taken' = [taken EXCEPT ![s] = @ + 1]
    BY <1>6 DEF Receive
  <2>3. taken' \in [SourceNames -> 0..MaxEvents]
    BY <2>1, <2>2, ConfigAssumption
  <2>4. fan' \in [SourceNames -> {"off", "select", "lookup", "fan", "done"}]
    BY <1>6, <1>type DEF Receive, TypeOK
  <2> QED
    BY <1>6, <2>3, <2>4, <1>type DEF Receive, TypeOK, mainVars, chanVars, workVars
<1>7. ASSUME NEW s \in SourceNames, SourceClosed(s) \/ FanCancelled(s)
      PROVE  TypeOK'
  BY <1>7, <1>type DEF SourceClosed, FanCancelled, TypeOK, mainVars, chanVars, workVars
<1>16. ASSUME NEW s \in SourceNames, LoopEnd(s)
       PROVE  TypeOK'
  BY <1>16, <1>type DEF LoopEnd, TypeOK, mainVars, chanVars, workVars
<1>8. ASSUME NEW s \in SourceNames, GetSubscriptions(s)
      PROVE  TypeOK'
  <2>1. Len(subs[s]) \in Nat
    BY <1>subs
  <2>2. snap' \in [SourceNames -> Nat] /\ sub' \in [SourceNames -> Nat]
    BY <1>8, <2>1, <1>type DEF GetSubscriptions, TypeOK
  <2>3. fan' \in [SourceNames -> {"off", "select", "lookup", "fan", "done"}]
    BY <1>8, <1>type DEF GetSubscriptions, TypeOK
  <2> QED
    BY <1>8, <2>2, <2>3, <1>type DEF GetSubscriptions, TypeOK, mainVars, chanVars, workVars
<1>9. ASSUME NEW s \in SourceNames, Transform(s)
      PROVE  TypeOK'
  <2>1. Cur(s) \in Event
    BY <1>cur
  <2>2. passed' = passed \/ passed' = [passed EXCEPT ![CurPL(s)] = @ \cup {Cur(s)}]
    BY <1>9 DEF Transform
  <2>3. filtered' = filtered \/ filtered' = [filtered EXCEPT ![CurPL(s)] = @ \cup {Cur(s)}]
    BY <1>9 DEF Transform
  <2>4. sub' = sub \/ sub' = [sub EXCEPT ![s] = @ + 1]
    BY <1>9 DEF Transform
  <2>5. snk' = snk \/ snk' = [snk EXCEPT ![s] = 1]
    BY <1>9 DEF Transform
  <2>6. passed' \in [PL -> SUBSET Event]
    BY <2>1, <2>2, <1>pf
  <2>7. filtered' \in [PL -> SUBSET Event]
    BY <2>1, <2>3, <1>pf
  <2>8. sub' \in [SourceNames -> Nat]
    BY <2>4, <1>idx
  <2>9. snk' \in [SourceNames -> Nat]
    BY <2>5, <1>idx
  <2> QED
    BY <1>9, <2>6, <2>7, <2>8, <2>9, <1>type DEF Transform, TypeOK, mainVars, chanVars, workVars
<1>10. ASSUME NEW s \in SourceNames, Distribute(s)
       PROVE  TypeOK'
  <2>1. Cur(s) \in Event
    BY <1>cur
  <2>2. queue' = queue \/ queue' = [queue EXCEPT ![CurLane(s)] = Append(@, Cur(s))]
    BY <1>10 DEF Distribute, TrySend
  <2>3. processed' = processed \/ processed' = [processed EXCEPT ![CurLane(s)] = @ \cup {Cur(s)}]
    BY <1>10 DEF Distribute, TrySend
  <2>5. overflow' = overflow \/ overflow' = [overflow EXCEPT ![CurLane(s)] = @ \cup {Cur(s)}]
    BY <1>10 DEF Distribute, TrySend
  <2>6. queue' \in [Lane -> Seq(Event)]
    BY <2>1, <2>2, <1>queue
  <2>7. processed' \in [Lane -> SUBSET Event]
    BY <2>1, <2>3, <1>po
  <2>8. overflow' \in [Lane -> SUBSET Event]
    BY <2>1, <2>5, <1>po
  <2>4. sub' \in [SourceNames -> Nat] /\ snk' \in [SourceNames -> Nat]
    BY <1>10, <1>idx DEF Distribute
  <2> QED
    BY <1>10, <2>4, <2>6, <2>7, <2>8, <1>type DEF Distribute, TypeOK, mainVars, workVars
<1>11. ASSUME NEW s \in SourceNames, SendOnClosed(s)
       PROVE  TypeOK'
  BY <1>11, <1>type DEF SendOnClosed, TypeOK, Phase, fanVars, chanVars, workVars
<1>12. ASSUME NEW w \in Worker, WorkerReceive(w)
       PROVE  TypeOK'
  <2>1. w[1] \in Lane
    BY WorkerLane
  <2>2. Head(queue[w[1]]) \in Event /\ Tail(queue[w[1]]) \in Seq(Event)
    BY <1>12, <2>1, <1>queue DEF WorkerReceive
  <2> QED
    BY <1>12, <2>1, <2>2, <1>type DEF WorkerReceive, TypeOK, mainVars, fanVars
<1>13. ASSUME NEW w \in Worker, WorkerExit(w)
       PROVE  TypeOK'
  BY <1>13, <1>type DEF WorkerExit, TypeOK, mainVars, fanVars, chanVars
<1>14. ASSUME NEW w \in Worker, WorkerFinish(w)
       PROVE  TypeOK'
  <2>1. hold[w] \subseteq Event /\ w[1] \in Lane
    BY WorkerLane, <1>hold
  <2>2. CASE WorkerDrop(w)
    <3>1. PICK e \in hold[w] : sinkDropped' = [sinkDropped EXCEPT ![w[1]] = @ \cup {e}]
      BY <2>2 DEF WorkerDrop
    <3>2. sinkDropped' \in [Lane -> SUBSET Event] /\ hold' \in [Worker -> SUBSET Event]
      BY <2>1, <2>2, <3>1, <1>fin, <1>hold DEF WorkerDrop
    <3> QED
      BY <2>2, <3>2, <1>type DEF WorkerDrop, TypeOK, mainVars, fanVars, chanVars
  <2>3. CASE WorkerPublish(w)
    <3>1. PICK e \in hold[w] :
             \/ published' = [published EXCEPT ![w[1]] = @ \cup {e}] /\ UNCHANGED pubErrors
             \/ pubErrors' = [pubErrors EXCEPT ![w[1]] = @ \cup {e}] /\ UNCHANGED published
      BY <2>3 DEF WorkerPublish
    <3>2. e \in Event
      BY <2>1
    <3>3. published' \in [Lane -> SUBSET Event]
      BY <3>1, <3>2, <1>fin
    <3>4. pubErrors' \in [Lane -> SUBSET Event]
      BY <3>1, <3>2, <1>fin
    <3>5. hold' \in [Worker -> SUBSET Event]
      BY <2>3, <1>hold DEF WorkerPublish
    <3> QED
      BY <2>3, <3>3, <3>4, <3>5, <1>type DEF WorkerPublish, TypeOK, mainVars, fanVars, chanVars
  <2> QED
    BY <1>14, <2>2, <2>3 DEF WorkerFinish
<1>15. CASE UNCHANGED vars
  BY <1>15, <1>type DEF vars, TypeOK, mainVars, fanVars, chanVars, workVars
<1> QED
  BY <1>1, <1>2, <1>3, <1>4, <1>5, <1>6, <1>7, <1>8, <1>9, <1>10, <1>11, <1>12,
     <1>13, <1>14, <1>15, <1>16 DEF Next, MainSetup, FanStep

\* Every step keeps the main goroutine inside the configuration.
LEMMA PosStep ==
  ASSUME CtlInv, [Next]_vars
  PROVE  PosInv'
<1>inv. TypeOK /\ PosInv /\ FanInv
  BY DEF CtlInv
<1>pl. /\ pl \in Nat \ {0} /\ si \in Nat \ {0}
       /\ subs \in [SourceNames -> Seq(PL)]
  BY <1>inv DEF TypeOK
<1>len. \A p \in PL : Len(Sources[p]) \in Nat
  BY ConfigAssumption
<1>1. CASE Subscribe
  <2>1. pl \in PL /\ si \in 1..Len(Sources[pl]) /\ Src \in SourceNames
    BY <1>1, <1>inv, SourceMember DEF Subscribe, PosInv, Src
  <2>2. pl' = pl /\ si' = si /\ fan' = fan
    BY <1>1 DEF Subscribe, fanVars
  <2>3. phase' \in {"close", "connect", "sinks"}
    BY <1>1 DEF Subscribe
  <2>4. ASSUME phase' = "connect"
        PROVE  subs'[Src] # <<>> /\ fan[Src] = "off"
    <3>1. subs[Src] = <<>> /\ subs' = [subs EXCEPT ![Src] = Append(@, pl)]
      BY <1>1, <2>4 DEF Subscribe
    <3>2. subs'[Src] = Append(subs[Src], pl)
      BY <2>1, <3>1, <1>pl
    <3>3. Append(subs[Src], pl) # <<>>
      BY <2>1, <1>pl
    <3>4. fan[Src] = "off"
      BY <2>1, <3>1, <1>inv DEF FanInv
    <3> QED
      BY <3>2, <3>3, <3>4
  <2> QED
    BY <2>1, <2>2, <2>3, <2>4, <1>len DEF PosInv, Src
<1>2. CASE Connect
  <2>1. pl' = pl /\ si' = si /\ phase' \in {"close", "sinks"}
    BY <1>2 DEF Connect
  <2>2. pl \in PL /\ si \in 1..Len(Sources[pl])
    BY <1>2, <1>inv DEF Connect, PosInv
  <2> QED
    BY <2>1, <2>2, <1>len DEF PosInv
<1>3. CASE SetupSinks
  <2>1. pl \in PL /\ si \in 1..(Len(Sources[pl]) + 1)
    BY <1>3, <1>inv DEF SetupSinks, PosInv
  <2>2. CASE FirstMissingSink(pl) <= Len(Sinks[pl])
    <3>1. pl' = pl /\ phase' \in {"close", "failed"}
      BY <1>3, <2>2 DEF SetupSinks
    <3> QED
      BY <2>1, <3>1 DEF PosInv
  <2>3. CASE ~(FirstMissingSink(pl) <= Len(Sinks[pl])) /\ si <= Len(Sources[pl])
    <3>1. pl' = pl /\ si' = si + 1 /\ phase' = PhaseAt(pl, si + 1)
      BY <1>3, <2>3 DEF SetupSinks
    <3>3. ~(pl > NPipelines)
      BY <2>1, ConfigAssumption DEF PL
    <3>2. /\ phase' \in {"subscribe", "sinks"}
          /\ phase' = "subscribe" => si + 1 <= Len(Sources[pl])
      BY <3>1, <3>3 DEF PhaseAt
    <3> QED
      BY <2>1, <2>3, <3>1, <3>2, <1>len DEF PosInv
  <2>4. CASE ~(FirstMissingSink(pl) <= Len(Sinks[pl])) /\ ~(si <= Len(Sources[pl]))
    <3>1. pl' = pl + 1 /\ si' = 1 /\ phase' = PhaseAt(pl + 1, 1)
      BY <1>3, <2>4 DEF SetupSinks
    <3>2. CASE pl + 1 > NPipelines
      BY <3>1, <3>2 DEF PosInv, PhaseAt
    <3>3. CASE ~(pl + 1 > NPipelines)
      <4>1. pl + 1 \in PL
        BY <2>1, <3>3, ConfigAssumption DEF PL
      <4>2. Len(Sources[pl + 1]) \in Nat
        BY <4>1, <1>len
      <4>3. /\ phase' \in {"subscribe", "sinks"}
            /\ phase' = "subscribe" => 1 <= Len(Sources[pl + 1])
        BY <3>1, <3>3 DEF PhaseAt
      <4> QED
        BY <3>1, <4>1, <4>2, <4>3 DEF PosInv
    <3> QED
      BY <3>2, <3>3
  <2> QED
    BY <2>2, <2>3, <2>4
<1>4. CASE CloseSinkChannels
  BY <1>4, <1>inv DEF CloseSinkChannels, PosInv
<1>5. CASE MainEnd \/ Signal
  <2>1. phase' \in {"exited", "drain"}
    BY <1>5 DEF MainEnd, ExitOnError, ShutdownComplete, ShutdownTimeout, Signal
  <2> QED
    BY <2>1 DEF PosInv
<1>6. ASSUME NEW s \in SourceNames, SendOnClosed(s)
      PROVE  PosInv'
  BY <1>6 DEF SendOnClosed, PosInv
<1>7. ASSUME NEW s \in SourceNames,
             Receive(s) \/ SourceClosed(s) \/ FanCancelled(s) \/ GetSubscriptions(s)
                \/ Transform(s) \/ Distribute(s) \/ LoopEnd(s)
      PROVE  PosInv'
  <2>1. UNCHANGED mainVars
    BY <1>7 DEF Receive, SourceClosed, FanCancelled, GetSubscriptions, Transform, Distribute, LoopEnd
  <2>2. fan[s] # "off"
    BY <1>7 DEF Receive, SourceClosed, FanCancelled, GetSubscriptions, Transform, Distribute, LoopEnd, InLoop
  <2>3. \A r \in SourceNames : r # s => fan'[r] = fan[r]
    BY <1>7, <1>inv DEF Receive, SourceClosed, FanCancelled, GetSubscriptions, Transform, Distribute, LoopEnd, TypeOK
  <2>4. phase = "connect" => Src \in SourceNames /\ Src # s
    BY <2>2, <1>inv, SourceMember DEF PosInv, Src
  <2>5. phase = "connect" => subs[Src] # <<>> /\ fan'[Src] = "off"
    BY <2>3, <2>4, <1>inv DEF PosInv
  <2> QED
    BY <2>1, <2>5, <1>inv DEF PosInv, Src, mainVars
<1>8. ASSUME NEW w \in Worker, WorkerReceive(w) \/ WorkerExit(w) \/ WorkerFinish(w)
      PROVE  PosInv'
  <2>1. UNCHANGED <<mainVars, fanVars>>
    BY <1>8 DEF WorkerReceive, WorkerExit, WorkerFinish, WorkerDrop, WorkerPublish
  <2> QED
    BY <2>1, <1>inv DEF PosInv, Src, mainVars, fanVars
<1>9. CASE UNCHANGED vars
  BY <1>9, <1>inv DEF vars, PosInv, Src, mainVars, fanVars
<1> QED
  BY <1>1, <1>2, <1>3, <1>4, <1>5, <1>6, <1>7, <1>8, <1>9 DEF Next, MainSetup, FanStep

\* The lane a fan-out's loops stand at is a lane of the configuration.
LEMMA CurLaneOK ==
  ASSUME TypeOK, FanInv, NEW s \in SourceNames, fan[s] = "fan", sub[s] <= snap[s]
  PROVE  /\ CurPL(s) \in PL
         /\ snk[s] > 0 => CurLane(s) \in Lane
<1>1. subs[s] \in Seq(PL) /\ sub[s] \in 1..Len(subs[s])
  <2>1. subs[s] \in Seq(PL) /\ snap[s] \in Nat /\ sub[s] \in Nat
    BY DEF TypeOK
  <2> QED
    BY <2>1 DEF FanInv
<1>2. CurPL(s) \in PL
  BY <1>1 DEF CurPL
<1>3. snk[s] > 0 => snk[s] \in 1..Len(Sinks[CurPL(s)])
  BY DEF FanInv, CurPL
<1> QED
  BY <1>2, <1>3, LaneMember DEF CurLane

\* Every step closes channels as CloseInv says, and crashes only on a closed
\* one of the pipeline whose setup failed.
LEMMA CloseStep ==
  ASSUME CtlInv, [Next]_vars
  PROVE  CloseInv' /\ CrashInv'
<1>inv. TypeOK /\ PosInv /\ CloseInv /\ FanInv /\ CrashInv
  BY DEF CtlInv
<1>closed. closed \in [Lane -> BOOLEAN]
  BY <1>inv DEF TypeOK
<1>1. CASE Subscribe \/ Connect \/ SetupSinks
  <2>1. phase \in {"subscribe", "connect", "sinks"}
    BY <1>1 DEF Subscribe, Connect, SetupSinks
  <2>2. \A l \in Lane : ~closed[l]
    BY <2>1, <1>inv DEF CloseInv
  <2>3. closed' = closed
    BY <1>1 DEF Subscribe, Connect, SetupSinks, chanVars
  <2>4. phase' # "crashed"
    BY <1>1 DEF Subscribe, Connect, SetupSinks, PhaseAt
  <2> QED
    BY <2>2, <2>3, <2>4 DEF CloseInv, CrashInv
<1>2. CASE CloseSinkChannels
  <2>1. pl \in PL /\ \A l \in Lane : ~closed[l]
    BY <1>2, <1>inv DEF CloseSinkChannels, PosInv, CloseInv
  <2>2. \A l \in Lane : closed'[l] = (closed[l] \/ l[1] = pl)
    BY <1>2 DEF CloseSinkChannels
  <2>3. phase' = "failed" /\ pl' = pl
    BY <1>2 DEF CloseSinkChannels
  <2> QED
    BY <2>1, <2>2, <2>3 DEF CloseInv, CrashInv
<1>3. CASE ExitOnError
  BY <1>3, <1>inv DEF ExitOnError, CloseInv, CrashInv, chanVars
<1>4. CASE Signal \/ ShutdownComplete \/ ShutdownTimeout
  <2>1. \A l \in Lane : ~closed[l]
    BY <1>4, <1>inv DEF Signal, ShutdownComplete, ShutdownTimeout, CloseInv
  <2>2. closed' = closed /\ phase' # "crashed"
    BY <1>4 DEF Signal, ShutdownComplete, ShutdownTimeout, chanVars
  <2> QED
    BY <2>1, <2>2 DEF CloseInv, CrashInv
<1>5. ASSUME NEW s \in SourceNames, SendOnClosed(s)
      PROVE  CloseInv' /\ CrashInv'
  <2>1. CurLane(s) \in Lane
    BY <1>5, <1>inv, CurLaneOK DEF SendOnClosed, InLoop
  <2>2. closed[CurLane(s)]
    BY <1>5 DEF SendOnClosed
  <2>3. CurLane(s)[1] = pl
    BY <2>1, <2>2, <1>inv DEF CloseInv
  <2>4. closed' = closed /\ pl' = pl /\ phase' = "crashed"
    BY <1>5 DEF SendOnClosed, chanVars
  <2>5. CrashInv'
    BY <2>1, <2>2, <2>3, <2>4 DEF CrashInv
  <2> QED
    BY <2>4, <2>5, <1>inv DEF CloseInv
<1>6. ASSUME NEW s \in SourceNames,
             Receive(s) \/ SourceClosed(s) \/ FanCancelled(s) \/ GetSubscriptions(s)
                \/ Transform(s) \/ Distribute(s) \/ LoopEnd(s)
      PROVE  CloseInv' /\ CrashInv'
  <2>1. UNCHANGED <<mainVars, closed>>
    BY <1>6 DEF Receive, SourceClosed, FanCancelled, GetSubscriptions, Transform, Distribute, LoopEnd, chanVars
  <2> QED
    BY <2>1, <1>inv DEF CloseInv, CrashInv, mainVars
<1>7. ASSUME NEW w \in Worker, WorkerReceive(w) \/ WorkerExit(w) \/ WorkerFinish(w)
      PROVE  CloseInv' /\ CrashInv'
  <2>1. UNCHANGED <<mainVars, closed>>
    BY <1>7 DEF WorkerReceive, WorkerExit, WorkerFinish, WorkerDrop, WorkerPublish, chanVars
  <2> QED
    BY <2>1, <1>inv DEF CloseInv, CrashInv, mainVars
<1>8. CASE UNCHANGED vars
  BY <1>8, <1>inv DEF vars, CloseInv, CrashInv, mainVars, chanVars
<1> QED
  BY <1>1, <1>2, <1>3, <1>4, <1>5, <1>6, <1>7, <1>8 DEF Next, MainSetup, MainEnd, FanStep

\* Every step keeps the fan-outs' loops inside what they range over.
LEMMA LoopStep ==
  ASSUME CtlInv, [Next]_vars
  PROVE  FanInv'
<1>inv. TypeOK /\ PosInv /\ FanInv
  BY DEF CtlInv
<1>idx. /\ sub \in [SourceNames -> Nat]
        /\ snk \in [SourceNames -> Nat]
        /\ snap \in [SourceNames -> Nat]
  BY <1>inv DEF TypeOK
<1>fan. fan \in [SourceNames -> {"off", "select", "lookup", "fan", "done"}]
  BY <1>inv DEF TypeOK
<1>subs. subs \in [SourceNames -> Seq(PL)]
  BY <1>inv DEF TypeOK
<1>len. \A s \in SourceNames : Len(subs[s]) \in Nat
  BY <1>subs
<1>1. CASE Subscribe
  <2>1. Src \in SourceNames /\ pl \in PL
    BY <1>1, <1>inv, SourceMember DEF Subscribe, PosInv, Src
  <2>2. UNCHANGED fanVars
    BY <1>1 DEF Subscribe
  <2>3. CASE UNCHANGED subs
    BY <2>2, <2>3, <1>inv DEF FanInv, fanVars
  <2>4. CASE subs' = [subs EXCEPT ![Src] = Append(@, pl)]
    <3>1. \A s \in SourceNames : s # Src => subs'[s] = subs[s]
      BY <2>4, <1>subs
    <3>2. subs'[Src] = Append(subs[Src], pl)
      BY <2>1, <2>4, <1>subs
    <3>3. /\ Len(subs'[Src]) = Len(subs[Src]) + 1
          /\ \A i \in 1..Len(subs[Src]) : subs'[Src][i] = subs[Src][i]
          /\ subs'[Src] # <<>>
      BY <2>1, <3>2, <1>subs
    <3>4. ASSUME NEW s \in SourceNames
          PROVE  FanInv!(s)'
      <4>1. CASE s # Src
        BY <3>1, <3>4, <4>1, <2>2, <1>inv DEF FanInv, fanVars
      <4>2. CASE s = Src
        <5>1. FanInv!(s)
          BY <3>4, <1>inv DEF FanInv
        <5>2. sub[s] \in Nat /\ snap[s] \in Nat /\ Len(subs[s]) \in Nat
          BY <3>4, <1>idx, <1>len
        <5>3. fan[s] = "fan" /\ snk[s] > 0 => subs'[s][sub[s]] = subs[s][sub[s]]
          BY <3>3, <4>2, <5>1, <5>2
        <5>4. fan[s] = "fan" => snap[s] \in 0..Len(subs'[s])
          BY <3>3, <4>2, <5>1, <5>2
        <5> QED
          BY <3>3, <4>2, <2>2, <5>1, <5>3, <5>4 DEF fanVars
      <4> QED
        BY <4>1, <4>2
    <3> QED
      BY <3>4 DEF FanInv
  <2> QED
    BY <1>1, <2>3, <2>4 DEF Subscribe
<1>2. CASE Connect
  <2>1. Src \in SourceNames /\ subs[Src] # <<>> /\ fan[Src] = "off"
    BY <1>2, <1>inv, SourceMember DEF Connect, PosInv, Src
  <2>2. UNCHANGED <<subs, snap, sub, snk>>
    BY <1>2 DEF Connect
  <2>3. fan' = fan \/ fan' = [fan EXCEPT ![Src] = "select"]
    BY <1>2 DEF Connect
  <2>4. \A s \in SourceNames : fan'[s] = fan[s] \/ (s = Src /\ fan'[s] = "select")
    BY <2>1, <2>3, <1>fan
  <2> QED
    BY <2>1, <2>2, <2>4, <1>inv DEF FanInv
<1>3. CASE SetupSinks \/ CloseSinkChannels \/ MainEnd \/ Signal
  <2>1. UNCHANGED <<subs, fanVars>>
    BY <1>3 DEF SetupSinks, CloseSinkChannels, MainEnd, ExitOnError, ShutdownComplete, ShutdownTimeout, Signal
  <2> QED
    BY <2>1, <1>inv DEF FanInv, fanVars
<1>4. ASSUME NEW s \in SourceNames, Receive(s) \/ SourceClosed(s) \/ FanCancelled(s)
      PROVE  FanInv'
  <2>1. UNCHANGED <<subs, snap, sub, snk>> /\ fan[s] = "select"
    BY <1>4 DEF Receive, SourceClosed, FanCancelled, mainVars
  <2>2. \A r \in SourceNames :
           fan'[r] = fan[r] \/ (r = s /\ fan'[r] \in {"lookup", "done"})
    BY <1>4, <1>fan DEF Receive, SourceClosed, FanCancelled
  <2> QED
    BY <2>1, <2>2, <1>inv DEF FanInv
<1>5. ASSUME NEW s \in SourceNames, GetSubscriptions(s)
      PROVE  FanInv'
  <2>1. UNCHANGED <<subs, snk>> /\ fan[s] = "lookup"
    BY <1>5 DEF GetSubscriptions, mainVars
  <2>2. snap'[s] = Len(subs[s]) /\ sub'[s] = 1 /\ fan'[s] = "fan"
    BY <1>5, <1>idx, <1>fan DEF GetSubscriptions
  <2>3. \A r \in SourceNames : r # s =>
           snap'[r] = snap[r] /\ sub'[r] = sub[r] /\ fan'[r] = fan[r]
    BY <1>5, <1>idx, <1>fan DEF GetSubscriptions
  <2> QED
    <3>1. FanInv!(s)
      BY <1>inv DEF FanInv
    <3>2. Len(subs[s]) \in Nat
      BY <1>len
    <3>3. FanInv!(s)'
      BY <2>1, <2>2, <3>1, <3>2
    <3>4. ASSUME NEW r \in SourceNames, r # s
          PROVE  FanInv!(r)'
      BY <2>1, <2>3, <3>4, <1>inv DEF FanInv
    <3> QED
      BY <3>3, <3>4 DEF FanInv
<1>6. ASSUME NEW s \in SourceNames, Transform(s)
      PROVE  FanInv'
  <2>1. UNCHANGED <<subs, snap, fan>> /\ snk[s] = 0 /\ fan[s] = "fan" /\ sub[s] <= snap[s]
    BY <1>6 DEF Transform, mainVars, InLoop
  <2>2. \A r \in SourceNames : r # s => sub'[r] = sub[r] /\ snk'[r] = snk[r]
    <3>1. sub' = sub \/ sub' = [sub EXCEPT ![s] = @ + 1]
      BY <1>6 DEF Transform
    <3>2. snk' = snk \/ snk' = [snk EXCEPT ![s] = 1]
      BY <1>6 DEF Transform
    <3> QED
      BY <3>1, <3>2, <1>idx
  <2>3. \/ sub'[s] = sub[s] + 1 /\ snk'[s] = 0
        \/ sub'[s] = sub[s] /\ snk'[s] = 1 /\ Sinks[CurPL(s)] # <<>>
    <3>1. \/ sub' = [sub EXCEPT ![s] = @ + 1] /\ snk' = snk
          \/ snk' = [snk EXCEPT ![s] = 1] /\ sub' = sub /\ Sinks[CurPL(s)] # <<>>
      BY <1>6 DEF Transform
    <3> QED
      BY <2>1, <3>1, <1>idx
  <2>4. CurPL(s) \in PL
    BY <2>1, <1>inv, CurLaneOK
  <2>5. Sinks[CurPL(s)] # <<>> => 1 \in 1..Len(Sinks[CurPL(s)])
    BY <2>4, ConfigAssumption
  <2>6. FanInv!(s)'
    BY <2>1, <2>3, <2>5, <1>inv, <1>idx DEF FanInv, CurPL
  <2>7. ASSUME NEW r \in SourceNames, r # s
        PROVE  FanInv!(r)'
    BY <2>1, <2>2, <2>7, <1>inv DEF FanInv
  <2> QED
    BY <2>6, <2>7 DEF FanInv
<1>7. ASSUME NEW s \in SourceNames, Distribute(s)
      PROVE  FanInv'
  <2>1. UNCHANGED <<subs, snap, fan>> /\ snk[s] > 0 /\ fan[s] = "fan" /\ sub[s] <= snap[s]
    BY <1>7 DEF Distribute, mainVars, InLoop
  <2>2. \/ /\ snk[s] = Len(Sinks[CurPL(s)])
           /\ snk' = [snk EXCEPT ![s] = 0] /\ sub' = [sub EXCEPT ![s] = @ + 1]
        \/ /\ snk[s] # Len(Sinks[CurPL(s)])
           /\ snk' = [snk EXCEPT ![s] = @ + 1] /\ sub' = sub
    BY <1>7 DEF Distribute
  <2>3. \A r \in SourceNames : r # s => sub'[r] = sub[r] /\ snk'[r] = snk[r]
    BY <2>2, <1>idx
  <2>4. \/ sub'[s] = sub[s] + 1 /\ snk'[s] = 0
        \/ sub'[s] = sub[s] /\ snk'[s] = snk[s] + 1 /\ snk[s] # Len(Sinks[CurPL(s)])
    BY <2>2, <1>idx
  <2>5. CurPL(s) \in PL /\ Len(Sinks[CurPL(s)]) \in Nat
    BY <2>1, <1>inv, CurLaneOK, ConfigAssumption
  <2>6. FanInv!(s)'
    BY <2>1, <2>4, <2>5, <1>inv, <1>idx, SMTT(30) DEF FanInv, CurPL
  <2>7. ASSUME NEW r \in SourceNames, r # s
        PROVE  FanInv!(r)'
    BY <2>1, <2>3, <2>7, <1>inv DEF FanInv
  <2> QED
    BY <2>6, <2>7 DEF FanInv
<1>8. ASSUME NEW s \in SourceNames, SendOnClosed(s)
      PROVE  FanInv'
  BY <1>8, <1>inv DEF SendOnClosed, FanInv, fanVars
<1>9. ASSUME NEW s \in SourceNames, LoopEnd(s)
      PROVE  FanInv'
  <2>1. UNCHANGED <<subs, snk>> /\ fan[s] = "fan" /\ sub[s] > snap[s]
    BY <1>9 DEF LoopEnd, mainVars
  <2>2. fan'[s] = "select" /\ snk'[s] = 0
    <3>1. fan'[s] = "select"
      BY <1>9, <1>fan DEF LoopEnd
    <3>2. ~(snk[s] > 0)
      <4>1. sub[s] \in Nat /\ snap[s] \in Nat
        BY <1>idx
      <4> QED
        BY <2>1, <4>1, <1>inv DEF FanInv
    <3> QED
      BY <2>1, <3>1, <3>2, <1>idx
  <2>3. \A r \in SourceNames : r # s =>
           snap'[r] = snap[r] /\ sub'[r] = sub[r] /\ fan'[r] = fan[r]
    BY <1>9, <1>idx, <1>fan DEF LoopEnd
  <2> QED
    BY <2>1, <2>2, <2>3, <1>inv DEF FanInv
<1>10. ASSUME NEW w \in Worker, WorkerReceive(w) \/ WorkerExit(w) \/ WorkerFinish(w)
       PROVE  FanInv'
  <2>1. UNCHANGED <<mainVars, fanVars>>
    BY <1>10 DEF WorkerReceive, WorkerExit, WorkerFinish, WorkerDrop, WorkerPublish
  <2> QED
    BY <2>1, <1>inv DEF FanInv, mainVars, fanVars
<1>11. CASE UNCHANGED vars
  BY <1>11, <1>inv DEF vars, FanInv, mainVars, fanVars
<1> QED
  BY <1>1, <1>2, <1>3, <1>4, <1>5, <1>6, <1>7, <1>8, <1>9, <1>10, <1>11
     DEF Next, MainSetup, FanStep

\* The control invariant holds throughout.
THEOREM ControlCorrect == Spec => []CtlInv
<1>1. CtlInv /\ [Next]_vars => CtlInv'
  BY TypeStep, PosStep, CloseStep, LoopStep DEF CtlInv
<1> QED
  BY CtlInit, <1>1, PTL DEF Spec

\* Type correctness, for every configuration.
THEOREM TypeCorrect == Spec => []TypeOK
<1>1. CtlInv => TypeOK
  BY DEF CtlInv
<1> QED
  BY ControlCorrect, <1>1, PTL

\* Once every pipeline is set up, no fan-out can kill the process by sending on
\* a closed sink channel: shutdown (the select on the signal, the drain, the
\* time limit) never makes one.
THEOREM PanicSafe == Spec => []PanicOnlyInFailedSetup
<1>1. CtlInv => PanicOnlyInFailedSetup
  <2> SUFFICES ASSUME CtlInv, phase = "crashed"
               PROVE  pl <= NPipelines /\ \E l \in Lane : closed[l] /\ l[1] = pl
    BY DEF PanicOnlyInFailedSetup
  <2>1. PICK l \in Lane : closed[l] /\ l[1] = pl
    BY DEF CtlInv, CrashInv
  <2>2. pl \in PL
    BY <2>1 DEF CtlInv, CloseInv
  <2> QED
    BY <2>1, <2>2, ConfigAssumption DEF PL
<1> QED
  BY ControlCorrect, <1>1, PTL

-----------------------------------------------------------------------------
(* The event path: the inductive invariant.                                *)

\* Setup has already subscribed pipeline pl to its source s.
Subscribed(s) ==
  \E k \in 1..Len(Sources[pl]) :
     /\ Sources[pl][k] = s
     /\ k < si \/ (k = si /\ phase # "subscribe")

\* A source's subscriptions are pipelines in increasing order, so a fan-out's
\* loop comes to each pipeline once.
SubsInv ==
  \A s \in SourceNames :
     /\ \A i, j \in 1..Len(subs[s]) : i < j => subs[s][i] < subs[s][j]
     /\ \A i \in 1..Len(subs[s]) :
           subs[s][i] < pl \/ (subs[s][i] = pl /\ Subscribed(s))

\* Fan-out s is past lane l with its current event.
Visited(s, l) ==
  \E i \in 1..Len(subs[s]) :
     /\ subs[s][i] = l[1]
     /\ \/ i < sub[s]
        \/ i = sub[s] /\ \E j \in 1..Len(Sinks[l[1]]) :
                            j < snk[s] /\ Sinks[l[1]][j] = l[2]

\* Event e of lane l is older than its source's current event, or is that event
\* and the fan-out is past the lane.
FreshEvent(l, e) ==
  \/ e.n < taken[e.src]
  \/ /\ e.n = taken[e.src]
     /\ fan[e.src] # "lookup"
     /\ fan[e.src] = "fan" => Visited(e.src, l)

FreshInv ==
  \A l \in Lane : \A e \in processed[l] \cup overflow[l] : FreshEvent(l, e)

\* The places of a lane's events: each is in the channel, with one worker or in
\* one of the three final sets, and nowhere else.
InQueue(l, e) == \E i \in 1..Len(queue[l]) : queue[l][i] = e
WithWorker(l, e) == \E w \in Worker : w[1] = l /\ e \in hold[w]

LanePlace(l) ==
  /\ Distinct(queue[l])
  /\ \A e \in Event :
       /\ InQueue(l, e) => ~WithWorker(l, e) /\ e \notin Finished(l)
       /\ WithWorker(l, e) => e \notin Finished(l)
       /\ e \in published[l] => e \notin pubErrors[l] \cup sinkDropped[l]
       /\ e \in pubErrors[l] => e \notin sinkDropped[l]
       /\ e \in processed[l] <=> \/ InQueue(l, e)
                                 \/ WithWorker(l, e)
                                 \/ e \in Finished(l)

PlaceInv == \A l \in Lane : LanePlace(l)

\* A worker holds one event at most, and no two hold the same.
HoldInv ==
  /\ \A w \in Worker : \A e, f \in hold[w] : e = f
  /\ \A v, w \in Worker : v[1] = w[1] /\ v # w => hold[v] \cap hold[w] = {}

\* Per source, a lane's channel is in source order, and what left it is older
\* than what is in it.
LaneOrder(l) ==
  /\ \A i, j \in 1..Len(queue[l]) :
        i < j /\ queue[l][i].src = queue[l][j].src => queue[l][i].n < queue[l][j].n
  /\ \A e \in Event : WithWorker(l, e) \/ e \in Finished(l) =>
        \A j \in 1..Len(queue[l]) : e.src = queue[l][j].src => e.n < queue[l][j].n

OrderInv == \A l \in Lane : LaneOrder(l)

EvInv == CtlInv /\ SubsInv /\ FreshInv /\ PlaceInv /\ HoldInv /\ OrderInv

-----------------------------------------------------------------------------
(* Subscriptions.                                                          *)

\* A step that leaves the table and the position alone, and does not go back to
\* "subscribe", keeps the subscriptions in order.
LEMMA SubsKept ==
  ASSUME SubsInv, UNCHANGED <<pl, si, subs>>,
         phase' = "subscribe" => phase = "subscribe"
  PROVE  SubsInv'
BY DEF SubsInv, Subscribed

\* Every step keeps the subscriptions in order: only Subscribe adds one, and
\* setup never returns to a source it has passed.
LEMMA SubsStep ==
  ASSUME CtlInv, SubsInv, [Next]_vars
  PROVE  SubsInv'
<1>type. /\ subs \in [SourceNames -> Seq(PL)]
         /\ pl \in Nat \ {0} /\ si \in Nat \ {0}
  BY DEF CtlInv, TypeOK
<1>pos. PosInv
  BY DEF CtlInv
<1>len. \A p \in PL : Len(Sources[p]) \in Nat
  BY ConfigAssumption
<1>1. CASE Subscribe
  <2>1. /\ phase = "subscribe" /\ pl \in PL /\ si \in 1..Len(Sources[pl])
        /\ UNCHANGED <<pl, si>> /\ phase' # "subscribe"
    BY <1>1, <1>pos, SourceMember DEF Subscribe, PosInv
  <2>x. PICK x \in SourceNames : x = Sources[pl][si]
    BY <2>1, SourceMember
  <2>2. CASE UNCHANGED subs
    BY <2>1, <2>2, SubsKept
  <2>3. CASE subs' = [subs EXCEPT ![x] = Append(@, pl)]
    <3>1. \A i \in 1..Len(subs[x]) : subs[x][i] < pl
      <4> SUFFICES ASSUME NEW i \in 1..Len(subs[x]), subs[x][i] = pl,
                          Subscribed(x)
                   PROVE  FALSE
        BY <2>1 DEF SubsInv
      <4>1. PICK k \in 1..Len(Sources[pl]) : Sources[pl][k] = x /\ k < si
        BY <2>1 DEF Subscribed
      <4>2. Sources[pl][si] = Sources[pl][k] => si = k
        BY <2>1, ConfigAssumption DEF Distinct
      <4> QED
        BY <4>1, <4>2, <1>type, <2>x
    <3>2. /\ Len(subs'[x]) = Len(subs[x]) + 1
          /\ \A i \in 1..Len(subs[x]) : subs'[x][i] = subs[x][i]
          /\ subs'[x][Len(subs[x]) + 1] = pl
          /\ Len(subs[x]) \in Nat
      BY <2>1, <2>3, <1>type
    <3>3. \A s \in SourceNames : s # x => subs'[s] = subs[s]
      BY <2>3, <1>type
    <3>4. Subscribed(x)'
      BY <2>1, <2>x DEF Subscribed
    <3>5. \A s \in SourceNames : Subscribed(s) => Subscribed(s)'
      BY <2>1 DEF Subscribed
    <3> SUFFICES ASSUME NEW s \in SourceNames
                 PROVE  /\ \A i, j \in 1..Len(subs'[s]) : i < j => subs'[s][i] < subs'[s][j]
                        /\ \A i \in 1..Len(subs'[s]) :
                              \/ subs'[s][i] < pl'
                              \/ subs'[s][i] = pl' /\ Subscribed(s)'
      BY DEF SubsInv
    <3>6. CASE s # x
      BY <3>6, <3>3, <3>5, <2>1 DEF SubsInv
    <3>7. CASE s = x
      <4>1. \A i, j \in 1..Len(subs[x]) : i < j => subs[x][i] < subs[x][j]
        BY <2>1 DEF SubsInv
      <4>2. \A i \in 1..Len(subs'[x]) : i \in 1..Len(subs[x]) \/ i = Len(subs[x]) + 1
        BY <3>2
      <4>3. \A i \in 1..Len(subs'[x]) :
              \/ subs'[x][i] < pl'
              \/ subs'[x][i] = pl' /\ Subscribed(x)'
        BY <4>2, <3>1, <3>2, <3>4, <2>1
      <4>4. \A i, j \in 1..Len(subs'[x]) : i < j => subs'[x][i] < subs'[x][j]
        BY <4>1, <4>2, <3>1, <3>2, SMTT(30)
      <4> QED
        BY <3>7, <4>3, <4>4
    <3> QED
      BY <3>6, <3>7
  <2> QED
    BY <1>1, <2>2, <2>3, <2>x DEF Subscribe, Src
<1>2. CASE SetupSinks
  <2>1. /\ phase = "sinks" /\ pl \in PL /\ UNCHANGED subs
    BY <1>2, <1>pos DEF SetupSinks, PosInv
  <2>2. CASE UNCHANGED <<pl, si>> /\ phase' # "subscribe"
    BY <2>1, <2>2, SubsKept
  <2>3. CASE si' = si + 1 /\ pl' = pl
    <3>1. \A s : Subscribed(s) => Subscribed(s)'
      BY <2>1, <2>3, <1>type, <1>len DEF Subscribed
    <3> QED
      BY <3>1, <2>1, <2>3 DEF SubsInv
  <2>4. CASE pl' = pl + 1
    <3>1. \A s \in SourceNames : \A i \in 1..Len(subs[s]) : subs[s][i] \in Nat
      <4>1. \A s \in SourceNames : \A i \in 1..Len(subs[s]) : subs[s][i] \in PL
        BY <1>type
      <4> QED
        BY <4>1, ConfigAssumption DEF PL
    <3> QED
      BY <3>1, <2>1, <2>4, <1>type, SMTT(30) DEF SubsInv
  <2> QED
    BY <1>2, <2>2, <2>3, <2>4 DEF SetupSinks
<1>3. CASE Connect \/ CloseSinkChannels \/ MainEnd \/ Signal
  <2>1. UNCHANGED <<pl, si, subs>> /\ phase' # "subscribe"
    BY <1>3 DEF Connect, CloseSinkChannels, MainEnd, Signal, ExitOnError,
                ShutdownComplete, ShutdownTimeout
  <2> QED
    BY <2>1, SubsKept
<1>4. ASSUME NEW s \in SourceNames,
             Receive(s) \/ SourceClosed(s) \/ FanCancelled(s) \/ FanStep(s)
      PROVE  SubsInv'
  <2>1. UNCHANGED <<pl, si, subs>> /\ (phase' = phase \/ phase' = "crashed")
    BY <1>4 DEF Receive, SourceClosed, FanCancelled, FanStep, GetSubscriptions,
                Transform, Distribute, SendOnClosed, LoopEnd, mainVars
  <2> QED
    BY <2>1, SubsKept
<1>5. ASSUME NEW w \in Worker, WorkerReceive(w) \/ WorkerExit(w) \/ WorkerFinish(w)
      PROVE  SubsInv'
  <2>1. UNCHANGED <<pl, si, subs>> /\ phase' = phase
    BY <1>5 DEF WorkerReceive, WorkerExit, WorkerFinish, WorkerDrop,
                WorkerPublish, mainVars
  <2> QED
    BY <2>1, SubsKept
<1>6. CASE UNCHANGED vars
  <2>1. UNCHANGED <<pl, si, subs, phase>>
    BY <1>6 DEF vars, mainVars
  <2> QED
    BY <2>1, SubsKept
<1> QED
  BY <1>1, <1>2, <1>3, <1>4, <1>5, <1>6 DEF Next, MainSetup

-----------------------------------------------------------------------------
(* Freshness: a fan-out offers an event to a lane once.                    *)

\* Moving on in the loops, or subscribing more pipelines, keeps a lane visited.
LEMMA VisitedMono ==
  ASSUME NEW s \in SourceNames, NEW l \in Lane, Visited(s, l),
         Len(subs[s]) \in Nat, Len(subs'[s]) \in Nat,
         Len(subs[s]) <= Len(subs'[s]),
         \A i \in 1..Len(subs[s]) : subs'[s][i] = subs[s][i],
         sub[s] \in Nat, sub'[s] \in Nat, snk[s] \in Nat, snk'[s] \in Nat,
         sub[s] < sub'[s] \/ (sub[s] = sub'[s] /\ snk[s] <= snk'[s])
  PROVE  Visited(s, l)'
<1>1. PICK i \in 1..Len(subs[s]) :
        /\ subs[s][i] = l[1]
        /\ \/ i < sub[s]
           \/ i = sub[s] /\ \E j \in 1..Len(Sinks[l[1]]) :
                               j < snk[s] /\ Sinks[l[1]][j] = l[2]
  BY DEF Visited
<1>2. i \in 1..Len(subs'[s]) /\ subs'[s][i] = l[1]
  BY <1>1
<1>3. CASE i < sub[s] \/ (i = sub[s] /\ sub[s] < sub'[s])
  <2>1. i < sub'[s]
    BY <1>3
  <2> QED
    BY <1>2, <2>1 DEF Visited
<1>4. CASE i = sub[s] /\ sub[s] = sub'[s] /\ snk[s] <= snk'[s]
  <2>1. PICK j \in 1..Len(Sinks[l[1]]) : j < snk[s] /\ Sinks[l[1]][j] = l[2]
    BY <1>1, <1>4
  <2>2. l[1] \in PL
    BY LaneShape
  <2>3. j < snk'[s]
    <3>1. j \in Nat
      BY <2>2, ConfigAssumption
    <3> QED
      BY <3>1, <2>1, <1>4
  <2> QED
    BY <1>2, <1>4, <2>1, <2>3 DEF Visited
<1> QED
  BY <1>1, <1>3, <1>4

\* The lane a fan-out is about to offer its event to was not visited before.
LEMMA NotVisited ==
  ASSUME CtlInv, SubsInv, NEW s \in SourceNames, InLoop(s), snk[s] > 0
  PROVE  ~Visited(s, CurLane(s))
<1>1. /\ sub[s] \in 1..Len(subs[s]) /\ subs[s][sub[s]] \in PL
      /\ snk[s] \in 1..Len(Sinks[subs[s][sub[s]]])
      /\ Len(subs[s]) \in Nat
  <2>1. /\ subs[s] \in Seq(PL) /\ snap[s] \in Nat /\ sub[s] \in Nat
    BY DEF CtlInv, TypeOK
  <2>2. /\ sub[s] \in 1..(snap[s] + 1) /\ snap[s] \in 0..Len(subs[s])
        /\ sub[s] <= snap[s]
        /\ snk[s] \in 1..Len(Sinks[subs[s][sub[s]]])
    BY DEF CtlInv, FanInv, InLoop
  <2>3. sub[s] \in 1..Len(subs[s])
    BY <2>1, <2>2
  <2> QED
    BY <2>1, <2>2, <2>3
<1> DEFINE p == subs[s][sub[s]]
<1>2. CurLane(s) = <<p, Sinks[p][snk[s]]>>
  BY DEF CurLane, CurPL
<1> SUFFICES ASSUME NEW i \in 1..Len(subs[s]), subs[s][i] = p,
                    \/ i < sub[s]
                    \/ i = sub[s] /\ \E j \in 1..Len(Sinks[p]) :
                                        j < snk[s] /\ Sinks[p][j] = Sinks[p][snk[s]]
             PROVE  FALSE
  BY <1>2 DEF Visited
<1>3. CASE i < sub[s]
  <2>1. subs[s][i] < subs[s][sub[s]]
    BY <1>1, <1>3 DEF SubsInv
  <2>2. p \in Nat
    BY <1>1, ConfigAssumption DEF PL
  <2> QED
    BY <2>1, <2>2
<1>4. CASE ~(i < sub[s])
  <2>1. PICK j \in 1..Len(Sinks[p]) : j < snk[s] /\ Sinks[p][j] = Sinks[p][snk[s]]
    BY <1>4
  <2>2. j = snk[s]
    BY <1>1, <2>1, ConfigAssumption DEF Distinct
  <2>3. snk[s] \in Nat
    BY <1>1
  <2> QED
    BY <2>1, <2>2, <2>3
<1> QED
  BY <1>3, <1>4

\* So its event is new to that lane.
LEMMA CurIsNew ==
  ASSUME CtlInv, SubsInv, FreshInv, NEW s \in SourceNames, InLoop(s), snk[s] > 0
  PROVE  /\ CurLane(s) \in Lane
         /\ Cur(s) \in Event
         /\ Cur(s) \notin processed[CurLane(s)] \cup overflow[CurLane(s)]
         /\ \A e \in processed[CurLane(s)] : e.src = s => e.n < taken[s]
<1>type. /\ taken \in [SourceNames -> 0..MaxEvents]
         /\ processed \in [Lane -> SUBSET Event]
         /\ overflow \in [Lane -> SUBSET Event]
  BY DEF CtlInv, TypeOK
<1>1. CurLane(s) \in Lane
  BY CurLaneOK DEF CtlInv, InLoop
<1>2. Cur(s) \in Event
  BY <1>type DEF Cur, Event
<1>3. ~Visited(s, CurLane(s)) /\ fan[s] = "fan"
  BY NotVisited DEF InLoop
<1>4. \A e \in processed[CurLane(s)] \cup overflow[CurLane(s)] :
         e.src = s => e.n < taken[s]
  BY <1>1, <1>3 DEF FreshInv, FreshEvent
<1>5. Cur(s) \notin processed[CurLane(s)] \cup overflow[CurLane(s)]
  <2>1. Cur(s).src = s /\ Cur(s).n = taken[s] /\ taken[s] \in Nat
    BY <1>type, ConfigAssumption DEF Cur
  <2> QED
    BY <2>1, <1>4
<1> QED
  BY <1>1, <1>2, <1>4, <1>5

\* Whatever happens next, an event stays fresh in this sense.
LEMMA FreshEventStep ==
  ASSUME CtlInv, TypeOK', [Next]_vars,
         NEW l \in Lane, NEW e \in Event, FreshEvent(l, e)
  PROVE  FreshEvent(l, e)'
<1> DEFINE r == e.src
<1>r. r \in SourceNames /\ e.n \in Nat
  BY ConfigAssumption DEF Event
<1>type. /\ taken \in [SourceNames -> 0..MaxEvents]
         /\ subs \in [SourceNames -> Seq(PL)]
         /\ sub \in [SourceNames -> Nat]
         /\ snk \in [SourceNames -> Nat]
  BY DEF CtlInv, TypeOK
<1>fan. fan \in [SourceNames -> {"off", "select", "lookup", "fan", "done"}]
  BY DEF CtlInv, TypeOK
<1>typep. /\ subs' \in [SourceNames -> Seq(PL)]
          /\ sub' \in [SourceNames -> Nat]
          /\ snk' \in [SourceNames -> Nat]
  BY DEF TypeOK
<1>num. taken[r] \in Nat
  BY <1>r, <1>type, ConfigAssumption
\* A source that does not move.
<1>same. ASSUME taken'[r] = taken[r], fan'[r] = fan[r], subs'[r] = subs[r],
                sub'[r] = sub[r], snk'[r] = snk[r]
         PROVE  FreshEvent(l, e)'
  <2>1. Visited(r, l) => Visited(r, l)'
    BY <1>same DEF Visited
  <2> QED
    BY <1>same, <2>1 DEF FreshEvent
\* A source that moves on in its loops, or gets one more subscription.
<1>mono. ASSUME taken'[r] = taken[r], fan'[r] = fan[r],
                Len(subs[r]) <= Len(subs'[r]),
                \A i \in 1..Len(subs[r]) : subs'[r][i] = subs[r][i],
                sub[r] < sub'[r] \/ (sub[r] = sub'[r] /\ snk[r] <= snk'[r])
         PROVE  FreshEvent(l, e)'
  <2>1. Len(subs[r]) \in Nat /\ Len(subs'[r]) \in Nat
    BY <1>r, <1>type, <1>typep
  <2>2. Visited(r, l) => Visited(r, l)'
    BY <2>1, <1>mono, <1>r, <1>type, <1>typep, VisitedMono
  <2> QED
    BY <1>mono, <2>2 DEF FreshEvent
\* A source that leaves its loop or has not entered it.
<1>out. ASSUME taken'[r] = taken[r], fan'[r] \notin {"lookup", "fan"}
        PROVE  FreshEvent(l, e)'
  BY <1>out DEF FreshEvent
<1>1. CASE Subscribe
  <2>1. UNCHANGED <<fan, taken, sub, snk>>
    BY <1>1 DEF Subscribe, fanVars
  <2>2. /\ Len(subs[r]) <= Len(subs'[r])
        /\ \A i \in 1..Len(subs[r]) : subs'[r][i] = subs[r][i]
    <3>1. Len(subs[r]) \in Nat /\ subs[r] \in Seq(PL)
      BY <1>type, <1>r
    <3>2. CASE UNCHANGED subs
      BY <3>1, <3>2
    <3>3. CASE subs' = [subs EXCEPT ![Src] = Append(@, pl)] /\ Src # r
      BY <3>1, <3>3, <1>type, <1>r
    <3>4. CASE subs' = [subs EXCEPT ![Src] = Append(@, pl)] /\ Src = r
      <4>1. subs'[r] = Append(subs[r], pl)
        BY <3>4, <1>type, <1>r
      <4> QED
        BY <4>1, <3>1
    <3> QED
      BY <1>1, <3>2, <3>3, <3>4 DEF Subscribe
  <2> QED
    BY <2>1, <2>2, <1>mono, <1>r, <1>type
<1>2. CASE Connect
  <2>1. UNCHANGED <<taken, subs, sub, snk>>
    BY <1>2 DEF Connect
  <2>2. fan'[r] = fan[r] \/ fan'[r] = "select"
    BY <1>2, <1>fan, <1>r DEF Connect
  <2> QED
    BY <2>1, <2>2, <1>same, <1>out
<1>3. CASE SetupSinks \/ CloseSinkChannels \/ MainEnd \/ Signal
  <2>1. UNCHANGED <<fan, taken, subs, sub, snk>>
    BY <1>3 DEF SetupSinks, CloseSinkChannels, MainEnd, Signal, ExitOnError,
                ShutdownComplete, ShutdownTimeout, fanVars
  <2> QED
    BY <2>1, <1>same
<1>4. ASSUME NEW s \in SourceNames, s # r,
             Receive(s) \/ SourceClosed(s) \/ FanCancelled(s) \/ FanStep(s)
      PROVE  FreshEvent(l, e)'
  <2>1. subs' = subs
    BY <1>4 DEF Receive, SourceClosed, FanCancelled, FanStep, GetSubscriptions,
                Transform, Distribute, SendOnClosed, LoopEnd, mainVars
  <2>2. taken'[r] = taken[r] /\ fan'[r] = fan[r]
    BY <1>4, <1>type, <1>fan, <1>r
       DEF Receive, SourceClosed, FanCancelled, FanStep, GetSubscriptions,
           Transform, Distribute, SendOnClosed, LoopEnd, fanVars
  <2>3. sub'[r] = sub[r] /\ snk'[r] = snk[r]
    BY <1>4, <1>type, <1>r
       DEF Receive, SourceClosed, FanCancelled, FanStep, GetSubscriptions,
           Transform, Distribute, SendOnClosed, LoopEnd, fanVars
  <2> QED
    BY <2>1, <2>2, <2>3, <1>same
<1>5. CASE Receive(r)
  <2>1. taken'[r] = taken[r] + 1
    BY <1>5, <1>type, <1>r DEF Receive
  <2> QED
    BY <2>1, <1>num, <1>r DEF FreshEvent
<1>6. CASE SourceClosed(r) \/ FanCancelled(r) \/ LoopEnd(r)
  <2>1. taken' = taken /\ fan'[r] \notin {"lookup", "fan"}
    BY <1>6, <1>fan, <1>r DEF SourceClosed, FanCancelled, LoopEnd
  <2> QED
    BY <2>1, <1>out
<1>7. CASE GetSubscriptions(r)
  <2>1. taken' = taken /\ fan[r] = "lookup"
    BY <1>7 DEF GetSubscriptions
  <2> QED
    BY <2>1 DEF FreshEvent
<1>8. CASE Transform(r)
  <2>1. UNCHANGED <<fan, taken, subs>> /\ snk[r] = 0
    BY <1>8 DEF Transform, mainVars
  <2>2. sub'[r] = sub[r] + 1 \/ (sub'[r] = sub[r] /\ snk[r] <= snk'[r])
    BY <1>8, <2>1, <1>type, <1>typep, <1>r DEF Transform
  <2> QED
    BY <2>1, <2>2, <1>mono, <1>r, <1>type
<1>9. CASE Distribute(r)
  <2>1. UNCHANGED <<fan, taken, subs>>
    BY <1>9 DEF Distribute, mainVars
  <2>2. sub'[r] = sub[r] + 1 \/ (sub'[r] = sub[r] /\ snk'[r] = snk[r] + 1)
    BY <1>9, <1>type, <1>r DEF Distribute
  <2> QED
    BY <2>1, <2>2, <1>mono, <1>r, <1>type
<1>10. CASE SendOnClosed(r)
  <2>1. UNCHANGED <<fan, taken, subs, sub, snk>>
    BY <1>10 DEF SendOnClosed, fanVars
  <2> QED
    BY <2>1, <1>same
<1>11. ASSUME NEW w \in Worker, WorkerReceive(w) \/ WorkerExit(w) \/ WorkerFinish(w)
       PROVE  FreshEvent(l, e)'
  <2>1. UNCHANGED <<fan, taken, subs, sub, snk>>
    BY <1>11 DEF WorkerReceive, WorkerExit, WorkerFinish, WorkerDrop,
                 WorkerPublish, mainVars, fanVars
  <2> QED
    BY <2>1, <1>same
<1>12. CASE UNCHANGED vars
  <2>1. UNCHANGED <<fan, taken, subs, sub, snk>>
    BY <1>12 DEF vars, mainVars, fanVars
  <2> QED
    BY <2>1, <1>same
<1> QED
  BY <1>1, <1>2, <1>3, <1>4, <1>5, <1>6, <1>7, <1>8, <1>9, <1>10, <1>11, <1>12
     DEF Next, MainSetup, FanStep

-----------------------------------------------------------------------------
(* The steps that touch a lane.                                            *)

laneVars == <<queue, processed, overflow, hold, published, pubErrors, sinkDropped>>

\* Only a send, a receive and the end of a worker's event do.
LEMMA LaneSteps ==
  ASSUME [Next]_vars
  PROVE  \/ \E s \in SourceNames : Distribute(s)
         \/ \E w \in Worker : WorkerReceive(w) \/ WorkerFinish(w)
         \/ UNCHANGED laneVars
<1>1. CASE MainSetup \/ MainEnd \/ Signal
  BY <1>1 DEF MainSetup, MainEnd, Signal, Subscribe, Connect, SetupSinks,
              CloseSinkChannels, ExitOnError, ShutdownComplete,
              ShutdownTimeout, chanVars, workVars, laneVars
<1>2. ASSUME NEW s \in SourceNames,
             Receive(s) \/ SourceClosed(s) \/ FanCancelled(s) \/ FanStep(s)
      PROVE  Distribute(s) \/ UNCHANGED laneVars
  BY <1>2 DEF Receive, SourceClosed, FanCancelled, FanStep, GetSubscriptions,
              Transform, SendOnClosed, LoopEnd, chanVars, workVars, laneVars
<1>3. ASSUME NEW w \in Worker, WorkerExit(w)
      PROVE  UNCHANGED laneVars
  BY <1>3 DEF WorkerExit, chanVars, laneVars
<1>4. CASE UNCHANGED vars
  BY <1>4 DEF vars, chanVars, workVars, laneVars
<1> QED
  BY <1>1, <1>2, <1>3, <1>4 DEF Next

\* What a send does: the current event is accepted by the lane's channel, or
\* logged as dropped.
LEMMA DistributeEffect ==
  ASSUME CtlInv, NEW s \in SourceNames, Distribute(s), CurLane(s) \in Lane
  PROVE  /\ UNCHANGED <<hold, published, pubErrors, sinkDropped>>
         /\ \A l \in Lane : l # CurLane(s) =>
               queue'[l] = queue[l] /\ processed'[l] = processed[l]
               /\ overflow'[l] = overflow[l]
         /\ \/ /\ queue'[CurLane(s)] = Append(queue[CurLane(s)], Cur(s))
               /\ processed'[CurLane(s)] = processed[CurLane(s)] \cup {Cur(s)}
               /\ UNCHANGED overflow
            \/ /\ UNCHANGED <<queue, processed>>
               /\ overflow'[CurLane(s)] = overflow[CurLane(s)] \cup {Cur(s)}
<1>type. /\ queue \in [Lane -> Seq(Event)]
         /\ processed \in [Lane -> SUBSET Event]
         /\ overflow \in [Lane -> SUBSET Event]
  BY DEF CtlInv, TypeOK
<1>1. UNCHANGED <<hold, published, pubErrors, sinkDropped>>
  BY DEF Distribute, workVars
<1>2. TrySend(CurLane(s), Cur(s))
  BY DEF Distribute
<1> HIDE DEF Distribute
<1> QED
  BY <1>1, <1>2, <1>type DEF TrySend

\* Freshness is inductive.
LEMMA FreshStep ==
  ASSUME CtlInv, TypeOK', SubsInv, FreshInv, [Next]_vars
  PROVE  FreshInv'
<1>type. /\ processed \in [Lane -> SUBSET Event]
         /\ overflow \in [Lane -> SUBSET Event]
  BY DEF CtlInv, TypeOK
<1>old. \A l \in Lane : \A e \in processed[l] \cup overflow[l] : FreshEvent(l, e)'
  BY <1>type, FreshEventStep DEF FreshInv
<1>1. CASE UNCHANGED <<processed, overflow>>
  BY <1>1, <1>old DEF FreshInv
<1>2. ASSUME NEW s \in SourceNames, Distribute(s)
      PROVE  FreshInv'
  <2>1. InLoop(s) /\ snk[s] > 0
    BY <1>2 DEF Distribute
  <2>2. PICK c \in Lane : c = CurLane(s)
    BY <2>1, CurIsNew, CurLaneOK DEF CtlInv, InLoop
  <2>3. \A l \in Lane : \A e \in processed'[l] \cup overflow'[l] :
           e \in processed[l] \cup overflow[l] \/ (l = c /\ e = Cur(s))
    BY <1>2, <2>2, DistributeEffect
  <2>4. /\ subs[s] \in Seq(PL) /\ snap[s] \in Nat /\ sub[s] \in Nat
        /\ snk[s] \in Nat
    BY DEF CtlInv, TypeOK
  <2>5. /\ sub[s] \in 1..Len(subs[s])
        /\ snk[s] \in 1..Len(Sinks[c[1]])
        /\ c[1] = subs[s][sub[s]] /\ c[2] = Sinks[c[1]][snk[s]]
    <3>1. /\ sub[s] \in 1..(snap[s] + 1) /\ snap[s] \in 0..Len(subs[s])
          /\ sub[s] <= snap[s]
          /\ snk[s] \in 1..Len(Sinks[subs[s][sub[s]]])
      BY <2>1 DEF CtlInv, FanInv, InLoop
    <3>2. sub[s] \in 1..Len(subs[s])
      BY <3>1, <2>4
    <3> QED
      BY <3>1, <3>2, <2>2 DEF CurLane, CurPL
  <2>6. UNCHANGED <<fan, taken, subs>> /\ fan[s] = "fan"
    BY <1>2 DEF Distribute, InLoop, mainVars
  <2>7. sub'[s] = sub[s] + 1 \/ (sub'[s] = sub[s] /\ snk'[s] = snk[s] + 1)
    <3>1. sub \in [SourceNames -> Nat] /\ snk \in [SourceNames -> Nat]
      BY DEF CtlInv, TypeOK
    <3> QED
      BY <1>2, <3>1 DEF Distribute
  <2>8. Visited(s, c)'
    <3>1. CASE sub'[s] = sub[s] + 1
      <4>1. sub[s] < sub'[s]
        BY <3>1, <2>4
      <4> QED
        BY <4>1, <2>5, <2>6 DEF Visited
    <3>2. CASE sub'[s] = sub[s] /\ snk'[s] = snk[s] + 1
      <4>1. snk[s] < snk'[s]
        BY <3>2, <2>4
      <4> QED
        BY <4>1, <3>2, <2>5, <2>6 DEF Visited
    <3> QED
      BY <2>7, <3>1, <3>2
  <2>9. PICK f \in Event : f = Cur(s)
    BY <2>1, CurIsNew
  <2>10. FreshEvent(c, f)'
    <3>1. f.src = s /\ f.n = taken'[s]
      BY <2>6, <2>9 DEF Cur
    <3> QED
      BY <3>1, <2>6, <2>8 DEF FreshEvent
  <2>11. ASSUME NEW l \in Lane, NEW e \in processed'[l] \cup overflow'[l]
         PROVE  FreshEvent(l, e)'
    <3>1. CASE e \in processed[l] \cup overflow[l]
      BY <3>1, <1>old
    <3>2. CASE l = c /\ e = f
      BY <3>2, <2>10
    <3> QED
      BY <3>1, <3>2, <2>3, <2>9
  <2> QED
    BY <2>11 DEF FreshInv
<1>3. ASSUME NEW w \in Worker, WorkerReceive(w) \/ WorkerFinish(w)
      PROVE  UNCHANGED <<processed, overflow>>
  BY <1>3 DEF WorkerReceive, WorkerFinish, WorkerDrop, WorkerPublish, chanVars
<1> QED
  BY <1>1, <1>2, <1>3, LaneSteps DEF laneVars

-----------------------------------------------------------------------------
(* Places.                                                                 *)

\* Sending to the end of a channel.
LEMMA AppendQueue ==
  ASSUME NEW q \in Seq(Event), NEW f \in Event
  PROVE  /\ Len(q) \in Nat /\ Len(Append(q, f)) = Len(q) + 1
         /\ \A i \in 1..Len(q) : Append(q, f)[i] = q[i]
         /\ Append(q, f)[Len(q) + 1] = f
OBVIOUS

\* Receiving from its front.
LEMMA TailQueue ==
  ASSUME NEW q \in Seq(Event), q # <<>>
  PROVE  /\ Len(q) \in Nat /\ Len(q) > 0 /\ Len(Tail(q)) = Len(q) - 1
         /\ \A i \in 1..(Len(q) - 1) : Tail(q)[i] = q[i + 1]
         /\ Head(q) = q[1] /\ Head(q) \in Event
OBVIOUS

\* A lane nothing happens to.
LEMMA PlaceKept ==
  ASSUME NEW l \in Lane, LanePlace(l),
         queue'[l] = queue[l], processed'[l] = processed[l],
         published'[l] = published[l], pubErrors'[l] = pubErrors[l],
         sinkDropped'[l] = sinkDropped[l],
         \A w \in Worker : w[1] = l => hold'[w] = hold[w]
  PROVE  LanePlace(l)'
<1>1. \A e \in Event : /\ InQueue(l, e)' <=> InQueue(l, e)
                       /\ WithWorker(l, e)' <=> WithWorker(l, e)
  BY DEF InQueue, WithWorker
<1> QED
  BY <1>1 DEF LanePlace, Finished

\* A new event enters the channel.
LEMMA PlaceAccept ==
  ASSUME NEW l \in Lane, LanePlace(l), queue[l] \in Seq(Event),
         NEW f \in Event, f \notin processed[l],
         queue'[l] = Append(queue[l], f), processed'[l] = processed[l] \cup {f},
         UNCHANGED <<hold, published, pubErrors, sinkDropped>>
  PROVE  LanePlace(l)'
<1>q. /\ Len(queue[l]) \in Nat /\ Len(queue'[l]) = Len(queue[l]) + 1
      /\ \A i \in 1..Len(queue[l]) : queue'[l][i] = queue[l][i]
      /\ queue'[l][Len(queue[l]) + 1] = f
  BY AppendQueue
<1>i. \A i \in 1..Len(queue'[l]) : i \in 1..Len(queue[l]) \/ i = Len(queue[l]) + 1
  BY <1>q
<1>new. \A i \in 1..Len(queue[l]) : queue[l][i] # f
  BY DEF LanePlace, InQueue
<1>1. \A e \in Event : InQueue(l, e)' <=> InQueue(l, e) \/ e = f
  BY <1>q, <1>i DEF InQueue
<1>2. \A e \in Event : WithWorker(l, e)' <=> WithWorker(l, e)
  BY DEF WithWorker
<1>3. Distinct(queue[l])'
  <2>1. \A i, j \in 1..Len(queue[l]) : queue[l][i] = queue[l][j] => i = j
    BY DEF LanePlace, Distinct
  <2> QED
    BY <2>1, <1>q, <1>i, <1>new DEF Distinct
<1>4. ~WithWorker(l, f) /\ f \notin Finished(l)
  BY DEF LanePlace
<1> QED
  BY <1>1, <1>2, <1>3, <1>4 DEF LanePlace, Finished

\* A worker takes the first event out of the channel.
LEMMA PlaceTake ==
  ASSUME NEW w \in Worker, NEW l \in Lane, w[1] = l, LanePlace(l),
         queue[l] \in Seq(Event), queue[l] # <<>>,
         hold \in [Worker -> SUBSET Event], hold[w] = {},
         hold' = [hold EXCEPT ![w] = {Head(queue[l])}],
         queue'[l] = Tail(queue[l]),
         UNCHANGED <<processed, published, pubErrors, sinkDropped>>
  PROVE  LanePlace(l)'
<1>q. /\ Len(queue[l]) \in Nat /\ Len(queue[l]) > 0
      /\ Len(queue'[l]) = Len(queue[l]) - 1
      /\ \A i \in 1..(Len(queue[l]) - 1) : queue'[l][i] = queue[l][i + 1]
      /\ Head(queue[l]) = queue[l][1] /\ Head(queue[l]) \in Event
  BY TailQueue
<1>f. PICK f \in Event : f = queue[l][1] /\ f = Head(queue[l])
  BY <1>q
<1>d. \A i, j \in 1..Len(queue[l]) : queue[l][i] = queue[l][j] => i = j
  BY DEF LanePlace, Distinct
<1>0. InQueue(l, f)
  BY <1>f, <1>q DEF InQueue
<1>1. \A e \in Event : InQueue(l, e)' <=> InQueue(l, e) /\ e # f
  <2>1. ASSUME NEW e \in Event, InQueue(l, e)'
        PROVE  InQueue(l, e) /\ e # f
    <3>1. PICK i \in 1..(Len(queue[l]) - 1) : queue[l][i + 1] = e
      BY <2>1, <1>q DEF InQueue
    <3>2. i + 1 \in 1..Len(queue[l]) /\ 1 \in 1..Len(queue[l]) /\ i + 1 # 1
      BY <1>q
    <3> QED
      BY <3>1, <3>2, <1>d, <1>f DEF InQueue
  <2>2. ASSUME NEW e \in Event, InQueue(l, e), e # f
        PROVE  InQueue(l, e)'
    <3>1. PICK i \in 1..Len(queue[l]) : queue[l][i] = e
      BY <2>2 DEF InQueue
    <3>2. i - 1 \in 1..(Len(queue[l]) - 1) /\ (i - 1) + 1 = i
      BY <3>1, <2>2, <1>f, <1>q
    <3> QED
      BY <3>1, <3>2, <1>q DEF InQueue
  <2> QED
    BY <2>1, <2>2
<1>2. \A e \in Event : WithWorker(l, e)' <=> WithWorker(l, e) \/ e = f
  <2>1. \A v \in Worker : hold'[v] = IF v = w THEN {f} ELSE hold[v]
    BY <1>f
  <2> QED
    BY <2>1 DEF WithWorker
<1>3. Distinct(queue[l])'
  <2>1. \A i \in 1..(Len(queue[l]) - 1) : i + 1 \in 1..Len(queue[l])
    BY <1>q
  <2>2. \A i, j \in 1..(Len(queue[l]) - 1) : i + 1 = j + 1 => i = j
    BY <1>q
  <2> QED
    BY <2>1, <2>2, <1>q, <1>d DEF Distinct
<1>4. f \notin Finished(l)
  BY <1>0 DEF LanePlace
<1> QED
  BY <1>0, <1>1, <1>2, <1>3, <1>4 DEF LanePlace, Finished

\* A worker is done with its event, which goes to one of the final sets.
LEMMA PlaceFinish ==
  ASSUME NEW w \in Worker, NEW l \in Lane, w[1] = l, LanePlace(l), HoldInv,
         hold \in [Worker -> SUBSET Event], NEW f \in Event, f \in hold[w],
         hold' = [hold EXCEPT ![w] = {}],
         queue'[l] = queue[l], processed'[l] = processed[l],
         \/ /\ published'[l] = published[l] \cup {f}
            /\ pubErrors'[l] = pubErrors[l] /\ sinkDropped'[l] = sinkDropped[l]
         \/ /\ pubErrors'[l] = pubErrors[l] \cup {f}
            /\ published'[l] = published[l] /\ sinkDropped'[l] = sinkDropped[l]
         \/ /\ sinkDropped'[l] = sinkDropped[l] \cup {f}
            /\ published'[l] = published[l] /\ pubErrors'[l] = pubErrors[l]
  PROVE  LanePlace(l)'
<1>1. \A e \in Event : InQueue(l, e)' <=> InQueue(l, e)
  BY DEF InQueue
<1>0. WithWorker(l, f)
  BY DEF WithWorker
<1>2. \A e \in Event : WithWorker(l, e)' <=> WithWorker(l, e) /\ e # f
  <2>1. \A v \in Worker : hold'[v] = IF v = w THEN {} ELSE hold[v]
    OBVIOUS
  <2>2. \A e \in hold[w] : e = f
    BY DEF HoldInv
  <2>3. \A v \in Worker : v[1] = l /\ v # w => f \notin hold[v]
    BY DEF HoldInv
  <2> QED
    BY <2>1, <2>2, <2>3 DEF WithWorker
<1>3. Distinct(queue[l])'
  BY DEF LanePlace, Distinct
<1>4. f \notin Finished(l)
  BY <1>0 DEF LanePlace
<1>5. ~InQueue(l, f)
  BY <1>0 DEF LanePlace
<1> QED
  BY <1>0, <1>1, <1>2, <1>3, <1>4, <1>5 DEF LanePlace, Finished

-----------------------------------------------------------------------------
(* Order.                                                                  *)

\* A lane nothing happens to.
LEMMA OrderKept ==
  ASSUME NEW l \in Lane, LaneOrder(l), queue'[l] = queue[l],
         \A e \in Event : (WithWorker(l, e) \/ e \in Finished(l))'
                            => WithWorker(l, e) \/ e \in Finished(l)
  PROVE  LaneOrder(l)'
BY DEF LaneOrder

\* The current event of a source is younger than everything in the lane.
LEMMA OrderAccept ==
  ASSUME NEW l \in Lane, LaneOrder(l), LanePlace(l), queue[l] \in Seq(Event),
         NEW f \in Event, \A e \in processed[l] : e.src = f.src => e.n < f.n,
         queue'[l] = Append(queue[l], f),
         UNCHANGED <<hold, published, pubErrors, sinkDropped>>
  PROVE  LaneOrder(l)'
<1>q. /\ Len(queue[l]) \in Nat /\ Len(queue'[l]) = Len(queue[l]) + 1
      /\ \A i \in 1..Len(queue[l]) : queue'[l][i] = queue[l][i]
      /\ queue'[l][Len(queue[l]) + 1] = f
  BY AppendQueue
<1>i. \A i \in 1..Len(queue'[l]) : i \in 1..Len(queue[l]) \/ i = Len(queue[l]) + 1
  BY <1>q
<1>1. \A i \in 1..Len(queue[l]) : queue[l][i] \in Event /\ queue[l][i] \in processed[l]
  BY DEF LanePlace, InQueue
<1>2. \A i, j \in 1..Len(queue'[l]) :
        i < j /\ queue'[l][i].src = queue'[l][j].src => queue'[l][i].n < queue'[l][j].n
  <2> SUFFICES ASSUME NEW i \in 1..Len(queue'[l]), NEW j \in 1..Len(queue'[l]),
                      i < j, queue'[l][i].src = queue'[l][j].src
               PROVE  queue'[l][i].n < queue'[l][j].n
    OBVIOUS
  <2>1. i \in 1..Len(queue[l])
    BY <1>q
  <2>2. CASE j \in 1..Len(queue[l])
    BY <2>1, <2>2, <1>q DEF LaneOrder
  <2>3. CASE j = Len(queue[l]) + 1
    BY <2>1, <2>3, <1>q, <1>1
  <2> QED
    BY <2>2, <2>3, <1>i
<1>3. \A e \in Event : (WithWorker(l, e) \/ e \in Finished(l))'
                         => WithWorker(l, e) \/ e \in Finished(l)
  BY DEF WithWorker, Finished
<1>4. \A e \in Event : WithWorker(l, e) \/ e \in Finished(l) => e \in processed[l]
  BY DEF LanePlace
<1>5. \A e \in Event : WithWorker(l, e) \/ e \in Finished(l) =>
        \A j \in 1..Len(queue'[l]) : e.src = queue'[l][j].src => e.n < queue'[l][j].n
  BY <1>4, <1>q, <1>i DEF LaneOrder
<1> QED
  BY <1>2, <1>3, <1>5 DEF LaneOrder

\* The first event of the channel is older than the rest.
LEMMA OrderTake ==
  ASSUME NEW w \in Worker, NEW l \in Lane, w[1] = l, LaneOrder(l),
         queue[l] \in Seq(Event), queue[l] # <<>>,
         hold \in [Worker -> SUBSET Event], hold[w] = {},
         hold' = [hold EXCEPT ![w] = {Head(queue[l])}],
         queue'[l] = Tail(queue[l]),
         UNCHANGED <<processed, published, pubErrors, sinkDropped>>
  PROVE  LaneOrder(l)'
<1>q. /\ Len(queue[l]) \in Nat /\ Len(queue[l]) > 0
      /\ Len(queue'[l]) = Len(queue[l]) - 1
      /\ \A i \in 1..(Len(queue[l]) - 1) : queue'[l][i] = queue[l][i + 1]
      /\ Head(queue[l]) = queue[l][1] /\ Head(queue[l]) \in Event
  BY TailQueue
<1>i. \A i \in 1..Len(queue'[l]) : /\ i + 1 \in 1..Len(queue[l]) /\ 1 < i + 1
                                   /\ queue'[l][i] = queue[l][i + 1]
  BY <1>q
<1>1. \A i, j \in 1..Len(queue'[l]) :
        i < j /\ queue'[l][i].src = queue'[l][j].src => queue'[l][i].n < queue'[l][j].n
  <2> SUFFICES ASSUME NEW i \in 1..Len(queue'[l]), NEW j \in 1..Len(queue'[l]),
                      i < j, queue'[l][i].src = queue'[l][j].src
               PROVE  queue'[l][i].n < queue'[l][j].n
    OBVIOUS
  <2>1. i + 1 < j + 1
    BY <1>q
  <2>2. /\ i + 1 \in 1..Len(queue[l]) /\ queue'[l][i] = queue[l][i + 1]
        /\ j + 1 \in 1..Len(queue[l]) /\ queue'[l][j] = queue[l][j + 1]
    BY <1>i
  <2>3. queue[l][i + 1].src = queue[l][j + 1].src => queue[l][i + 1].n < queue[l][j + 1].n
    BY <2>1, <2>2 DEF LaneOrder
  <2> QED
    BY <2>2, <2>3
<1>2. \A e \in Event : (WithWorker(l, e) \/ e \in Finished(l))' =>
        WithWorker(l, e) \/ e \in Finished(l) \/ e = queue[l][1]
  <2>1. \A v \in Worker : hold'[v] = IF v = w THEN {queue[l][1]} ELSE hold[v]
    BY <1>q
  <2> QED
    BY <2>1 DEF WithWorker, Finished
<1>3. 1 \in 1..Len(queue[l])
  BY <1>q
<1>4. \A e \in Event : WithWorker(l, e) \/ e \in Finished(l) \/ e = queue[l][1] =>
        \A j \in 1..Len(queue'[l]) : e.src = queue'[l][j].src => e.n < queue'[l][j].n
  BY <1>i, <1>3 DEF LaneOrder
<1> QED
  BY <1>1, <1>2, <1>4 DEF LaneOrder

-----------------------------------------------------------------------------
(* The three parts together, by the steps that touch a lane.               *)

\* Every step keeps each event in one place and each channel in order.
LEMMA PlacesStep ==
  ASSUME EvInv, [Next]_vars
  PROVE  (PlaceInv /\ HoldInv /\ OrderInv)'
<1>inv. CtlInv /\ SubsInv /\ FreshInv /\ PlaceInv /\ HoldInv /\ OrderInv
  BY DEF EvInv
<1>queue. queue \in [Lane -> Seq(Event)]
  BY <1>inv DEF CtlInv, TypeOK
<1>hold. hold \in [Worker -> SUBSET Event]
  BY <1>inv DEF CtlInv, TypeOK
<1>fin. /\ published \in [Lane -> SUBSET Event]
        /\ pubErrors \in [Lane -> SUBSET Event]
        /\ sinkDropped \in [Lane -> SUBSET Event]
  BY <1>inv DEF CtlInv, TypeOK
<1>lanes. \A l \in Lane : LanePlace(l) /\ LaneOrder(l)
  BY <1>inv DEF PlaceInv, OrderInv
\* A lane whose variables do not change.
<1>same. ASSUME NEW l \in Lane,
                queue'[l] = queue[l], processed'[l] = processed[l],
                published'[l] = published[l], pubErrors'[l] = pubErrors[l],
                sinkDropped'[l] = sinkDropped[l],
                \A w \in Worker : w[1] = l => hold'[w] = hold[w]
         PROVE  LanePlace(l)' /\ LaneOrder(l)'
  <2>1. LanePlace(l)'
    BY <1>same, <1>lanes, PlaceKept
  <2>2. \A e \in Event : (WithWorker(l, e) \/ e \in Finished(l))'
                           => WithWorker(l, e) \/ e \in Finished(l)
    BY <1>same DEF WithWorker, Finished
  <2>3. LaneOrder(l)'
    BY <2>2, <1>same, <1>lanes, OrderKept
  <2> QED
    BY <2>1, <2>3
<1>1. ASSUME NEW s \in SourceNames, Distribute(s)
      PROVE  (PlaceInv /\ HoldInv /\ OrderInv)'
  <2>1. /\ CurLane(s) \in Lane /\ Cur(s) \in Event
        /\ Cur(s) \notin processed[CurLane(s)]
        /\ \A e \in processed[CurLane(s)] : e.src = s => e.n < taken[s]
    BY <1>1, <1>inv, CurIsNew DEF Distribute
  <2>2. PICK c \in Lane, f \in Event : c = CurLane(s) /\ f = Cur(s)
    BY <2>1
  <2>3. \A e \in processed[c] : e.src = f.src => e.n < f.n
    BY <2>1, <2>2 DEF Cur
  <2>4. /\ UNCHANGED <<hold, published, pubErrors, sinkDropped>>
        /\ \A l \in Lane : l # c =>
              queue'[l] = queue[l] /\ processed'[l] = processed[l]
        /\ \/ /\ queue'[c] = Append(queue[c], f)
              /\ processed'[c] = processed[c] \cup {f}
           \/ UNCHANGED <<queue, processed>>
    BY <1>1, <1>inv, <2>2, DistributeEffect
  <2>5. \A l \in Lane : l # c => LanePlace(l)' /\ LaneOrder(l)'
    BY <2>4, <1>same
  <2>6. LanePlace(c)' /\ LaneOrder(c)'
    <3>1. CASE UNCHANGED <<queue, processed>>
      BY <3>1, <2>4, <1>same
    <3>2. CASE /\ queue'[c] = Append(queue[c], f)
               /\ processed'[c] = processed[c] \cup {f}
      <4>1. f \notin processed[c] /\ queue[c] \in Seq(Event)
        BY <2>1, <2>2, <1>queue
      <4>2. LanePlace(c)'
        BY <4>1, <3>2, <2>4, <1>lanes, PlaceAccept
      <4>3. LaneOrder(c)'
        BY <4>1, <3>2, <2>3, <2>4, <1>lanes, OrderAccept
      <4> QED
        BY <4>2, <4>3
    <3> QED
      BY <2>4, <3>1, <3>2
  <2>7. HoldInv'
    BY <2>4, <1>inv DEF HoldInv
  <2> QED
    BY <2>5, <2>6, <2>7 DEF PlaceInv, OrderInv
<1>2. ASSUME NEW w \in Worker, WorkerReceive(w)
      PROVE  (PlaceInv /\ HoldInv /\ OrderInv)'
  <2>1. PICK c \in Lane : c = w[1]
    BY WorkerLane
  <2>2. /\ hold[w] = {} /\ queue[c] # <<>>
        /\ hold' = [hold EXCEPT ![w] = {Head(queue[c])}]
        /\ queue' = [queue EXCEPT ![c] = Tail(@)]
        /\ UNCHANGED <<processed, published, pubErrors, sinkDropped>>
    BY <1>2, <2>1 DEF WorkerReceive, AtSelect
  <2>3. /\ queue'[c] = Tail(queue[c]) /\ queue[c] \in Seq(Event)
        /\ \A l \in Lane : l # c => queue'[l] = queue[l]
    BY <2>2, <1>queue
  <2>4. \A v \in Worker : v[1] # c => hold'[v] = hold[v]
    BY <2>1, <2>2, <1>hold
  <2>5. ASSUME NEW l \in Lane, l # c
        PROVE  LanePlace(l)' /\ LaneOrder(l)'
    <3>1. \A v \in Worker : v[1] = l => hold'[v] = hold[v]
      BY <2>4, <2>5
    <3> QED
      BY <3>1, <2>2, <2>3, <2>5, <1>same
  <2>6. LanePlace(c)'
    BY <2>1, <2>2, <2>3, <1>hold, <1>lanes, PlaceTake
  <2>7. LaneOrder(c)'
    BY <2>1, <2>2, <2>3, <1>hold, <1>lanes, OrderTake
  <2>8. HoldInv'
    <3>1. Head(queue[c]) = queue[c][1] /\ queue[c][1] \in Event /\ 1 \in 1..Len(queue[c])
      BY <2>2, <2>3, TailQueue
    <3>2. \A v \in Worker : v[1] = c => queue[c][1] \notin hold[v]
      BY <3>1, <1>lanes DEF LanePlace, InQueue, WithWorker
    <3>3. \A v \in Worker : hold'[v] = IF v = w THEN {queue[c][1]} ELSE hold[v]
      BY <2>2, <3>1, <1>hold
    <3> QED
      BY <3>2, <3>3, <2>1, <1>inv DEF HoldInv
  <2> QED
    BY <2>5, <2>6, <2>7, <2>8 DEF PlaceInv, OrderInv
<1>3. ASSUME NEW w \in Worker, WorkerFinish(w)
      PROVE  (PlaceInv /\ HoldInv /\ OrderInv)'
  <2>1. PICK c \in Lane : c = w[1]
    BY WorkerLane
  <2>2. /\ hold' = [hold EXCEPT ![w] = {}]
        /\ UNCHANGED <<queue, processed>>
    BY <1>3 DEF WorkerFinish, WorkerDrop, WorkerPublish, chanVars
  <2>3. PICK f \in hold[w] :
          \/ /\ published' = [published EXCEPT ![c] = @ \cup {f}]
             /\ UNCHANGED <<pubErrors, sinkDropped>>
          \/ /\ pubErrors' = [pubErrors EXCEPT ![c] = @ \cup {f}]
             /\ UNCHANGED <<published, sinkDropped>>
          \/ /\ sinkDropped' = [sinkDropped EXCEPT ![c] = @ \cup {f}]
             /\ UNCHANGED <<published, pubErrors>>
    BY <1>3, <2>1 DEF WorkerFinish, WorkerDrop, WorkerPublish
  <2>4. f \in Event
    BY <2>3, <1>hold
  <2>5. \/ /\ published'[c] = published[c] \cup {f}
           /\ pubErrors'[c] = pubErrors[c] /\ sinkDropped'[c] = sinkDropped[c]
        \/ /\ pubErrors'[c] = pubErrors[c] \cup {f}
           /\ published'[c] = published[c] /\ sinkDropped'[c] = sinkDropped[c]
        \/ /\ sinkDropped'[c] = sinkDropped[c] \cup {f}
           /\ published'[c] = published[c] /\ pubErrors'[c] = pubErrors[c]
    BY <2>3, <1>fin
  <2>6. ASSUME NEW l \in Lane, l # c
        PROVE  LanePlace(l)' /\ LaneOrder(l)'
    <3>1. \A v \in Worker : v[1] = l => hold'[v] = hold[v]
      BY <2>1, <2>2, <2>6, <1>hold
    <3>2. /\ published'[l] = published[l] /\ pubErrors'[l] = pubErrors[l]
          /\ sinkDropped'[l] = sinkDropped[l]
      BY <2>3, <2>6, <1>fin
    <3> QED
      BY <3>1, <3>2, <2>2, <1>same
  <2>7. LanePlace(c)'
    BY <2>1, <2>2, <2>3, <2>4, <2>5, <1>hold, <1>inv, <1>lanes, PlaceFinish
  <2>8. \A v \in Worker : hold'[v] = IF v = w THEN {} ELSE hold[v]
    BY <2>2, <1>hold
  <2>9. LaneOrder(c)'
    <3>1. WithWorker(c, f)
      BY <2>1, <2>3 DEF WithWorker
    <3>2. \A e \in Event : WithWorker(c, e)' => WithWorker(c, e)
      BY <2>8 DEF WithWorker
    <3>3. \A e \in Event : (e \in Finished(c))' => e \in Finished(c) \/ e = f
      BY <2>5 DEF Finished
    <3> QED
      BY <3>1, <3>2, <3>3, <2>2, <1>lanes, OrderKept
  <2>10. HoldInv'
    BY <2>8, <1>inv DEF HoldInv
  <2> QED
    BY <2>6, <2>7, <2>9, <2>10 DEF PlaceInv, OrderInv
<1>4. CASE UNCHANGED laneVars
  <2>1. UNCHANGED <<queue, processed, hold, published, pubErrors, sinkDropped>>
    BY <1>4 DEF laneVars
  <2>2. \A l \in Lane : LanePlace(l)' /\ LaneOrder(l)'
    BY <2>1, <1>same
  <2>3. HoldInv'
    BY <2>1, <1>inv DEF HoldInv
  <2> QED
    BY <2>2, <2>3 DEF PlaceInv, OrderInv
<1> QED
  BY <1>1, <1>2, <1>3, <1>4, LaneSteps

-----------------------------------------------------------------------------
(* The theorems about the event path.                                      *)

\* The event-path invariant holds initially: every lane is empty.
LEMMA EventInit == Init => EvInv
<1> SUFFICES ASSUME Init PROVE EvInv
  OBVIOUS
<1>1. CtlInv
  BY CtlInit
<1>2. SubsInv
  <2>1. \A s \in SourceNames : Len(subs[s]) = 0
    BY DEF Init
  <2> QED
    BY <2>1 DEF SubsInv
<1>3. FreshInv
  BY DEF Init, FreshInv
<1>4. /\ \A l \in Lane : Len(queue[l]) = 0 /\ processed[l] = {} /\ Finished(l) = {}
      /\ \A w \in Worker : hold[w] = {}
  BY DEF Init, Finished
<1>5. PlaceInv
  <2>1. \A l \in Lane : \A e \in Event : ~InQueue(l, e) /\ ~WithWorker(l, e)
    BY <1>4 DEF InQueue, WithWorker
  <2>2. \A l \in Lane : Distinct(queue[l])
    BY <1>4 DEF Distinct
  <2>3. \A l \in Lane : published[l] = {} /\ pubErrors[l] = {}
    BY DEF Init
  <2> QED
    BY <1>4, <2>1, <2>2, <2>3 DEF PlaceInv, LanePlace
<1>6. HoldInv
  BY <1>4 DEF HoldInv
<1>7. OrderInv
  BY <1>4 DEF OrderInv, LaneOrder
<1> QED
  BY <1>1, <1>2, <1>3, <1>5, <1>6, <1>7 DEF EvInv

\* The event-path invariant holds throughout.
THEOREM EventsCorrect == Spec => []EvInv
<1>1. EvInv /\ CtlInv' /\ [Next]_vars => EvInv'
  <2> SUFFICES ASSUME EvInv, CtlInv', [Next]_vars PROVE EvInv'
    OBVIOUS
  <2>1. CtlInv /\ SubsInv /\ FreshInv /\ TypeOK'
    BY DEF EvInv, CtlInv
  <2>2. SubsInv'
    BY <2>1, SubsStep
  <2>3. FreshInv'
    BY <2>1, FreshStep
  <2>4. (PlaceInv /\ HoldInv /\ OrderInv)'
    BY PlacesStep
  <2> QED
    BY <2>2, <2>3, <2>4 DEF EvInv
<1> QED
  BY EventInit, ControlCorrect, <1>1, PTL DEF Spec

\* At most once: whatever the configuration and the interleaving of fan-outs
\* and workers, no event is in a sink's channel, with a worker or finished twice.
THEOREM AtMostOnce == Spec => []OnePlacePerEvent
<1>1. EvInv => OnePlacePerEvent
  <2> SUFFICES ASSUME EvInv, NEW l \in Lane
               PROVE  /\ Distinct(queue[l])
                      /\ Names(queue[l]) \cap (Held(l) \cup Finished(l)) = {}
                      /\ Held(l) \cap Finished(l) = {}
                      /\ published[l] \cap (pubErrors[l] \cup sinkDropped[l]) = {}
                      /\ pubErrors[l] \cap sinkDropped[l] = {}
                      /\ \A v, w \in Worker :
                            v[1] = l /\ w[1] = l /\ v # w => hold[v] \cap hold[w] = {}
    BY DEF OnePlacePerEvent
  <2>1. LanePlace(l) /\ HoldInv
    BY DEF EvInv, PlaceInv
  <2>2. /\ queue[l] \in Seq(Event)
        /\ hold \in [Worker -> SUBSET Event]
        /\ published[l] \subseteq Event /\ pubErrors[l] \subseteq Event
    BY DEF EvInv, CtlInv, TypeOK
  <2>3. \A e \in Names(queue[l]) : e \in Event /\ InQueue(l, e)
    BY <2>2 DEF Names, InQueue
  <2>4. \A e \in Held(l) : e \in Event /\ WithWorker(l, e)
    BY <2>2 DEF Held, WithWorker
  <2>5. Names(queue[l]) \cap (Held(l) \cup Finished(l)) = {}
    BY <2>1, <2>3, <2>4 DEF LanePlace
  <2>6. Held(l) \cap Finished(l) = {}
    BY <2>1, <2>4 DEF LanePlace
  <2>7. /\ published[l] \cap (pubErrors[l] \cup sinkDropped[l]) = {}
        /\ pubErrors[l] \cap sinkDropped[l] = {}
    BY <2>1, <2>2 DEF LanePlace
  <2> QED
    BY <2>1, <2>5, <2>6, <2>7 DEF LanePlace, HoldInv
<1> QED
  BY EventsCorrect, <1>1, PTL

\* Conservation: what the ProcessedEvents metric counted for a sink is in its
\* channel, with one of its workers, or finished.
THEOREM NothingVanishes == Spec => []ProcessedAccounted
<1>1. EvInv => ProcessedAccounted
  <2> SUFFICES ASSUME EvInv, NEW l \in Lane
               PROVE  processed[l] = Names(queue[l]) \cup Held(l) \cup Finished(l)
    BY DEF ProcessedAccounted
  <2>1. LanePlace(l)
    BY DEF EvInv, PlaceInv
  <2>2. /\ queue[l] \in Seq(Event)
        /\ hold \in [Worker -> SUBSET Event]
        /\ processed[l] \subseteq Event
    BY DEF EvInv, CtlInv, TypeOK
  <2>3. Finished(l) \subseteq Event
    BY DEF EvInv, CtlInv, TypeOK, Finished
  <2>4. \A e : e \in Names(queue[l]) <=> e \in Event /\ InQueue(l, e)
    BY <2>2 DEF Names, InQueue
  <2>5. \A e : e \in Held(l) <=> e \in Event /\ WithWorker(l, e)
    BY <2>2 DEF Held, WithWorker
  <2> QED
    BY <2>1, <2>2, <2>3, <2>4, <2>5 DEF LanePlace
<1> QED
  BY EventsCorrect, <1>1, PTL

\* Source order: a sink's channel never holds two events of a source in the
\* wrong order, nor one that is older than what already left it.
THEOREM SourceOrder == Spec => []ChannelInSourceOrder
<1>1. EvInv => ChannelInSourceOrder
  <2> SUFFICES ASSUME EvInv, NEW l \in Lane
               PROVE  /\ \A i, j \in 1..Len(queue[l]) :
                            i < j /\ queue[l][i].src = queue[l][j].src
                               => queue[l][i].n < queue[l][j].n
                      /\ \A e \in Held(l) \cup Finished(l), j \in 1..Len(queue[l]) :
                            e.src = queue[l][j].src => e.n < queue[l][j].n
    BY DEF ChannelInSourceOrder
  <2>1. LaneOrder(l)
    BY DEF EvInv, OrderInv
  <2>2. hold \in [Worker -> SUBSET Event]
    BY DEF EvInv, CtlInv, TypeOK
  <2>3. Finished(l) \subseteq Event
    BY DEF EvInv, CtlInv, TypeOK, Finished
  <2>4. \A e \in Held(l) : e \in Event /\ WithWorker(l, e)
    BY <2>2 DEF Held, WithWorker
  <2> QED
    BY <2>1, <2>3, <2>4 DEF LaneOrder
<1> QED
  BY EventsCorrect, <1>1, PTL

\* The process implements LaneDelivery: a send accepts an event in source
\* order, the end of a worker's event delivers it or gives it up, and every
\* other step of setup, fan-out, workers and shutdown changes nothing there.
THEOREM Refinement == Spec => ImplementsDelivery
<1> DEFINE gu == [l \in Lane |-> pubErrors[l] \cup sinkDropped[l]]
<1>1. Init => Delivery!Init
  BY DEF Init, Delivery!Init
<1>2. EvInv /\ [Next]_vars => [Delivery!Next]_(Delivery!vars)
  <2> SUFFICES ASSUME EvInv, [Next]_vars
               PROVE  Delivery!Next \/ UNCHANGED Delivery!vars
    OBVIOUS
  <2>inv. CtlInv /\ SubsInv /\ FreshInv /\ PlaceInv /\ HoldInv
    BY DEF EvInv
  <2>proc. processed \in [Lane -> SUBSET Event]
    BY <2>inv DEF CtlInv, TypeOK
  <2>hold. hold \in [Worker -> SUBSET Event]
    BY <2>inv DEF CtlInv, TypeOK
  <2>fin. /\ published \in [Lane -> SUBSET Event]
          /\ pubErrors \in [Lane -> SUBSET Event]
          /\ sinkDropped \in [Lane -> SUBSET Event]
    BY <2>inv DEF CtlInv, TypeOK
  <2>same. ASSUME UNCHANGED <<processed, published, pubErrors, sinkDropped>>
           PROVE  UNCHANGED Delivery!vars
    BY <2>same DEF Delivery!vars
  <2>1. ASSUME NEW s \in SourceNames, Distribute(s)
        PROVE  Delivery!Next \/ UNCHANGED Delivery!vars
    <3>1. /\ CurLane(s) \in Lane /\ Cur(s) \in Event
          /\ \A e \in processed[CurLane(s)] : e.src = s => e.n < taken[s]
      BY <2>1, <2>inv, CurIsNew DEF Distribute
    <3>2. PICK c \in Lane, f \in Event : c = CurLane(s) /\ f = Cur(s)
      BY <3>1
    <3>3. UNCHANGED <<published, pubErrors, sinkDropped>> /\ TrySend(c, f)
      BY <2>1, <3>2 DEF Distribute, workVars
    <3>4. CASE UNCHANGED processed
      BY <3>3, <3>4, <2>same
    <3>5. CASE processed' = [processed EXCEPT ![c] = @ \cup {f}]
      <4>1. \A e \in processed[c] : e.src = f.src => e.n < f.n
        BY <3>1, <3>2 DEF Cur
      <4>2. Delivery!Accept(c, f)
        BY <4>1, <3>3, <3>5 DEF Delivery!Accept
      <4> QED
        BY <4>2 DEF Delivery!Next
    <3> QED
      BY <3>3, <3>4, <3>5 DEF TrySend
  <2>2. ASSUME NEW w \in Worker, WorkerFinish(w)
        PROVE  Delivery!Next
    <3>1. PICK c \in Lane : c = w[1]
      BY WorkerLane
    <3>2. UNCHANGED processed
      BY <2>2 DEF WorkerFinish, WorkerDrop, WorkerPublish, chanVars
    <3>3. PICK f \in hold[w] :
            \/ /\ published' = [published EXCEPT ![c] = @ \cup {f}]
               /\ UNCHANGED <<pubErrors, sinkDropped>>
            \/ /\ pubErrors' = [pubErrors EXCEPT ![c] = @ \cup {f}]
               /\ UNCHANGED <<published, sinkDropped>>
            \/ /\ sinkDropped' = [sinkDropped EXCEPT ![c] = @ \cup {f}]
               /\ UNCHANGED <<published, pubErrors>>
      BY <2>2, <3>1 DEF WorkerFinish, WorkerDrop, WorkerPublish
    <3>4. f \in Event /\ WithWorker(c, f)
      BY <3>1, <3>3, <2>hold DEF WithWorker
    <3>5. f \in processed[c] /\ f \notin Finished(c)
      BY <3>4, <2>inv DEF PlaceInv, LanePlace
    <3>6. f \in Delivery!Owed(c)
      BY <3>5 DEF Delivery!Owed, Finished
    <3>7. CASE /\ published' = [published EXCEPT ![c] = @ \cup {f}]
               /\ UNCHANGED <<pubErrors, sinkDropped>>
      <4>1. Delivery!Deliver(c, f)
        BY <3>2, <3>6, <3>7 DEF Delivery!Deliver
      <4> QED
        BY <4>1, <3>4 DEF Delivery!Next
    <3>8. CASE /\ UNCHANGED published
               /\ gu' = [gu EXCEPT ![c] = @ \cup {f}]
      <4>1. Delivery!GiveUp(c, f)
        BY <3>2, <3>6, <3>8 DEF Delivery!GiveUp
      <4> QED
        BY <4>1, <3>4 DEF Delivery!Next
    <3>9. CASE \/ /\ pubErrors' = [pubErrors EXCEPT ![c] = @ \cup {f}]
                  /\ UNCHANGED <<published, sinkDropped>>
               \/ /\ sinkDropped' = [sinkDropped EXCEPT ![c] = @ \cup {f}]
                  /\ UNCHANGED <<published, pubErrors>>
      <4>1. \A l \in Lane : pubErrors'[l] \cup sinkDropped'[l]
                             = IF l = c THEN pubErrors[l] \cup sinkDropped[l] \cup {f}
                               ELSE pubErrors[l] \cup sinkDropped[l]
        BY <3>9, <2>fin
      <4>2. gu' = [gu EXCEPT ![c] = @ \cup {f}]
        BY <4>1
      <4> QED
        BY <4>2, <3>8, <3>9
    <3> QED
      BY <3>3, <3>7, <3>9
  <2>3. ASSUME NEW w \in Worker, WorkerReceive(w)
        PROVE  UNCHANGED Delivery!vars
    <3>1. UNCHANGED <<processed, published, pubErrors, sinkDropped>>
      BY <2>3 DEF WorkerReceive
    <3> QED
      BY <3>1, <2>same
  <2>4. CASE UNCHANGED laneVars
    BY <2>4, <2>same DEF laneVars
  <2> QED
    BY <2>1, <2>2, <2>3, <2>4, LaneSteps
<1> QED
  BY EventsCorrect, <1>1, <1>2, PTL DEF Spec, Delivery!Spec, ImplementsDelivery

-----------------------------------------------------------------------------
(* The fan-outs: the inductive invariant.                                  *)

\* Fan-out s is in distributeToSinks and has lane l still before it.
Before(s, l) ==
  /\ fan[s] = "fan" /\ snk[s] > 0
  /\ l[1] = subs[s][sub[s]]
  /\ \E j \in 1..Len(Sinks[l[1]]) : snk[s] <= j /\ Sinks[l[1]][j] = l[2]

\* The event in distributeToSinks has passed, and what passed is accounted for
\* at a lane unless the fan-out has the lane before it.
PassInv ==
  /\ \A s \in SourceNames :
        fan[s] = "fan" /\ snk[s] > 0 => Cur(s) \in passed[subs[s][sub[s]]]
  /\ \A l \in Lane :
        /\ processed[l] \cap overflow[l] = {}
        /\ processed[l] \cup overflow[l] \subseteq passed[l[1]]
        /\ \A e \in passed[l[1]] :
              \/ e \in processed[l] \cup overflow[l]
              \/ e.n = taken[e.src] /\ Before(e.src, l)

\* Pipeline p has run its transformations on event n of source s.
HasSeen(s, p, n) == [src |-> s, n |-> n] \in passed[p] \cup filtered[p]

\* Events come through a subscription, and from a source that is connected.
SeenInv ==
  /\ \A s \in SourceNames : fan[s] = "off" => taken[s] = 0
  /\ \A s \in SourceNames, p \in PL, n \in Nat :
        HasSeen(s, p, n) => \E i \in 1..Len(subs[s]) : subs[s][i] = p

\* A subscription was added when since[s][i] events had been looked up: none
\* for the first one, and fewer than were received once an event is under way
\* that the fan-out looks up, or has looked up with this subscription in it.
SinceOf(s, i) ==
  /\ since[s][i] \in Nat /\ since[s][i] <= taken[s]
  /\ i = 1 => since[s][i] = 0
  /\ fan[s] = "lookup" \/ (fan[s] = "fan" /\ i <= snap[s]) => since[s][i] < taken[s]

SinceInv ==
  /\ \A s \in SourceNames :
        Len(since[s]) = Len(subs[s]) /\ (fan[s] = "lookup" => taken[s] > 0)
  /\ \A s \in SourceNames : \A i \in 1..Len(subs[s]) : SinceOf(s, i)

\* A subscription saw every event looked up after it was added, but for the
\* current one that is still to come, and no earlier one.
SuffixOf(s, i) ==
  \A n \in 1..taken[s] :
     /\ since[s][i] < n =>
           HasSeen(s, subs[s][i], n) \/ (n = taken[s] /\ YetToOffer(s, i))
     /\ HasSeen(s, subs[s][i], n) => since[s][i] < n

SuffixInv == \A s \in SourceNames : \A i \in 1..Len(subs[s]) : SuffixOf(s, i)

FanoutInv == EvInv /\ PassInv /\ SeenInv /\ SinceInv /\ SuffixInv

-----------------------------------------------------------------------------
(* The steps of the fan-outs.                                              *)

\* Nothing the fan-outs see or do changes.
Still == UNCHANGED <<subs, since, fan, taken, snap, sub, snk, passed, filtered, processed, overflow>>

\* Every step is one of a fan-out, a subscription, a connection, or leaves the
\* fan-outs alone.
LEMMA FanoutSteps ==
  ASSUME [Next]_vars
  PROVE  \/ Subscribe \/ Connect \/ Still
         \/ \E s \in SourceNames :
               \/ Receive(s) \/ SourceClosed(s) \/ FanCancelled(s) \/ GetSubscriptions(s)
               \/ Transform(s) \/ Distribute(s) \/ LoopEnd(s)
<1>1. CASE SetupSinks \/ CloseSinkChannels \/ MainEnd \/ Signal
  BY <1>1 DEF MainEnd, Signal, SetupSinks, CloseSinkChannels, ExitOnError, ShutdownComplete,
              ShutdownTimeout, chanVars, fanVars, Still
<1>2. ASSUME NEW s \in SourceNames, SendOnClosed(s) PROVE Still
  BY <1>2 DEF SendOnClosed, chanVars, fanVars, Still
<1>3. ASSUME NEW w \in Worker, WorkerReceive(w) \/ WorkerExit(w) \/ WorkerFinish(w)
      PROVE  Still
  BY <1>3 DEF WorkerReceive, WorkerExit, WorkerFinish, WorkerDrop, WorkerPublish,
              mainVars, chanVars, fanVars, Still
<1>4. CASE UNCHANGED vars
  BY <1>4 DEF vars, mainVars, chanVars, fanVars, Still
<1> QED
  BY <1>1, <1>2, <1>3, <1>4 DEF Next, MainSetup, FanStep

\* A subscription appends to the table and changes nothing else.
LEMMA SubscribeEffect ==
  ASSUME CtlInv, Subscribe
  PROVE  /\ UNCHANGED <<fan, taken, snap, sub, snk, passed, filtered, processed, overflow>>
         /\ pl \in PL
         /\ \/ UNCHANGED <<subs, since>>
            \/ \E x \in SourceNames :
                  /\ phase = "subscribe" /\ si \in 1..Len(Sources[pl]) /\ x = Sources[pl][si]
                  /\ subs' = [subs EXCEPT ![x] = Append(@, pl)]
                  /\ since' = [since EXCEPT ![x] = Append(@, LookedUp(x))]
<1>1. pl \in PL /\ si \in 1..Len(Sources[pl]) /\ Src \in SourceNames /\ phase = "subscribe"
  BY SourceMember DEF CtlInv, PosInv, Subscribe, Src
<1> QED
  BY <1>1 DEF Subscribe, fanVars, chanVars, Src

\* Subscriptions that are there stay where they are.
LEMMA SubsGrow ==
  ASSUME CtlInv, Subscribe, NEW s \in SourceNames, NEW i \in 1..Len(subs[s])
  PROVE  i \in 1..Len(subs'[s]) /\ subs'[s][i] = subs[s][i]
<1>1. subs \in [SourceNames -> Seq(PL)] /\ pl \in PL
  BY SubscribeEffect DEF CtlInv, TypeOK
<1>2. CASE UNCHANGED subs
  BY <1>2
<1>3. ASSUME NEW x \in SourceNames, subs' = [subs EXCEPT ![x] = Append(@, pl)]
      PROVE  i \in 1..Len(subs'[s]) /\ subs'[s][i] = subs[s][i]
  BY <1>1, <1>3
<1> QED
  BY <1>2, <1>3, SubscribeEffect

\* The position of a fan-out that is in its loop.
LEMMA LoopPosition ==
  ASSUME CtlInv, NEW s \in SourceNames, fan[s] = "fan", sub[s] <= snap[s]
  PROVE  /\ sub[s] \in 1..Len(subs[s]) /\ subs[s][sub[s]] \in PL
         /\ CurPL(s) = subs[s][sub[s]] /\ Len(subs[s]) \in Nat
         /\ snk[s] > 0 => snk[s] \in 1..Len(Sinks[subs[s][sub[s]]])
<1>1. subs[s] \in Seq(PL) /\ snap[s] \in Nat /\ sub[s] \in Nat
  BY DEF CtlInv, TypeOK
<1>2. sub[s] \in 1..Len(subs[s])
  BY <1>1 DEF CtlInv, FanInv
<1> QED
  BY <1>1, <1>2 DEF CtlInv, FanInv, CurPL

-----------------------------------------------------------------------------
(* What passed is accounted for.                                           *)

\* A step keeps PassInv when it neither passes nor sends, and leaves every
\* fan-out that is in distributeToSinks where it is.
LEMMA PassKept ==
  ASSUME PassInv, TypeOK, UNCHANGED <<passed, processed, overflow>>,
         \A s \in SourceNames : fan[s] = "fan" /\ snk[s] > 0 =>
            /\ fan'[s] = "fan" /\ snk'[s] = snk[s] /\ taken'[s] = taken[s]
            /\ subs'[s][sub'[s]] = subs[s][sub[s]],
         \A s \in SourceNames : fan'[s] = "fan" /\ snk'[s] > 0 => fan[s] = "fan" /\ snk[s] > 0
  PROVE  PassInv'
<1>type. passed \in [PL -> SUBSET Event]
  BY DEF TypeOK
<1>1. \A s \in SourceNames : (fan[s] = "fan" /\ snk[s] > 0 => Cur(s) \in passed[subs[s][sub[s]]])'
  BY DEF PassInv, Cur
<1>2. \A l \in Lane : /\ (processed[l] \cap overflow[l] = {})'
                      /\ (processed[l] \cup overflow[l] \subseteq passed[l[1]])'
  BY DEF PassInv
<1>3. ASSUME NEW l \in Lane, NEW e \in passed[l[1]],
             e \notin processed[l] \cup overflow[l]
      PROVE  e.n = taken'[e.src] /\ Before(e.src, l)'
  <2>1. e.src \in SourceNames
    BY <1>type, LaneShape DEF Event
  <2>2. e.n = taken[e.src] /\ Before(e.src, l)
    BY <1>3 DEF PassInv
  <2> QED
    BY <2>1, <2>2 DEF Before
<1> QED
  BY <1>1, <1>2, <1>3 DEF PassInv

\* Transform: a pipeline's own event is due at all its lanes at once.
LEMMA PassTransform ==
  ASSUME CtlInv, PassInv, NEW s \in SourceNames, Transform(s)
  PROVE  PassInv'
<1>type. /\ passed \in [PL -> SUBSET Event]
         /\ taken \in [SourceNames -> 0..MaxEvents]
         /\ snk \in [SourceNames -> Nat] /\ sub \in [SourceNames -> Nat]
  BY DEF CtlInv, TypeOK
<1>0. /\ fan[s] = "fan" /\ sub[s] <= snap[s] /\ snk[s] = 0
      /\ UNCHANGED <<subs, fan, taken, snap, processed, overflow>>
  BY DEF Transform, InLoop, mainVars, chanVars
<1> DEFINE p == subs[s][sub[s]]
<1>p. p \in PL /\ CurPL(s) = p
  BY <1>0, LoopPosition
<1>1. CASE UNCHANGED <<passed, snk>> /\ sub' = [sub EXCEPT ![s] = @ + 1]
  <2>1. \A x \in SourceNames : fan[x] = "fan" /\ snk[x] > 0 => sub'[x] = sub[x]
    BY <1>1, <1>0, <1>type
  <2> QED
    BY <1>0, <1>1, <2>1, PassKept DEF CtlInv
<1>2. CASE /\ passed' = [passed EXCEPT ![p] = @ \cup {Cur(s)}]
           /\ \/ Sinks[p] = <<>> /\ sub' = [sub EXCEPT ![s] = @ + 1] /\ UNCHANGED snk
              \/ Sinks[p] # <<>> /\ snk' = [snk EXCEPT ![s] = 1] /\ UNCHANGED sub
  <2>1. /\ \A q \in PL : passed[q] \subseteq passed'[q]
        /\ \A q \in PL : \A e \in passed'[q] : e \in passed[q] \/ (q = p /\ e = Cur(s))
        /\ Cur(s) \in passed'[p]
    BY <1>2, <1>type, <1>p
  <2>2. ASSUME NEW x \in SourceNames, fan'[x] = "fan", snk'[x] > 0
        PROVE  Cur(x)' \in passed'[subs'[x][sub'[x]]]
    <3>1. Cur(x)' = Cur(x)
      BY <1>0 DEF Cur
    <3>2. CASE x = s
      <4>1. sub'[s] = sub[s]
        BY <1>2, <1>0, <1>type, <2>2, <3>2
      <4> QED
        BY <4>1, <3>1, <3>2, <2>1, <1>0
    <3>3. CASE x # s
      <4>1. sub'[x] = sub[x] /\ snk[x] > 0 /\ fan[x] = "fan"
        BY <1>2, <1>0, <1>type, <2>2, <3>3
      <4>2. sub[x] <= snap[x]
        BY <4>1 DEF CtlInv, FanInv
      <4>3. Cur(x) \in passed[subs[x][sub[x]]] /\ subs[x][sub[x]] \in PL
        BY <4>1, <4>2, LoopPosition DEF PassInv
      <4> QED
        BY <4>1, <4>3, <3>1, <2>1, <1>0
    <3> QED
      BY <3>2, <3>3
  <2>3. ASSUME NEW l \in Lane
        PROVE  /\ processed'[l] \cap overflow'[l] = {}
               /\ processed'[l] \cup overflow'[l] \subseteq passed'[l[1]]
               /\ \A e \in passed'[l[1]] : \/ e \in processed'[l] \cup overflow'[l]
                                           \/ e.n = taken'[e.src] /\ Before(e.src, l)'
    <3>1. l[1] \in PL /\ l[2] \in Names(Sinks[l[1]])
      BY LaneShape
    <3>2. /\ processed'[l] \cap overflow'[l] = {}
          /\ processed'[l] \cup overflow'[l] \subseteq passed'[l[1]]
      BY <3>1, <2>1, <1>0 DEF PassInv
    <3>3. ASSUME NEW e \in passed[l[1]], e \notin processed[l] \cup overflow[l]
          PROVE  e.n = taken'[e.src] /\ Before(e.src, l)'
      <4>1. e.src \in SourceNames
        BY <3>1, <1>type DEF Event
      <4>2. e.n = taken[e.src] /\ Before(e.src, l)
        BY <3>3 DEF PassInv
      <4>3. e.src # s
        BY <4>2, <1>0 DEF Before
      <4>4. sub'[e.src] = sub[e.src] /\ snk'[e.src] = snk[e.src]
        BY <1>2, <4>1, <4>3, <1>type
      <4> QED
        BY <4>2, <4>4, <1>0 DEF Before
    <3>4. ASSUME NEW e, e = Cur(s), l[1] = p
          PROVE  e.n = taken'[e.src] /\ Before(e.src, l)'
      <4>1. e.n = taken[s] /\ e.src = s
        BY <3>4 DEF Cur
      <4>2. PICK j \in 1..Len(Sinks[l[1]]) : Sinks[l[1]][j] = l[2]
        BY <3>1 DEF Names
      <4>3. Sinks[p] # <<>> /\ 1 <= j
        BY <4>2, <3>4, <1>p, ConfigAssumption
      <4>4. snk'[s] = 1 /\ sub'[s] = sub[s]
        BY <1>2, <4>3, <1>type
      <4>5. subs'[e.src][sub'[e.src]] = l[1] /\ fan'[e.src] = "fan" /\ snk'[e.src] = 1
        BY <4>1, <4>4, <3>4, <1>0
      <4>6. \E k \in 1..Len(Sinks[l[1]]) : snk'[e.src] <= k /\ Sinks[l[1]][k] = l[2]
        BY <4>2, <4>3, <4>5
      <4> QED
        BY <4>1, <4>5, <4>6, <1>0 DEF Before
    <3>5. \A e \in passed'[l[1]] : e \in passed[l[1]] \/ (l[1] = p /\ e = Cur(s))
      BY <3>1, <2>1
    <3> HIDE DEF p
    <3>6. \A e \in passed'[l[1]] : \/ e \in processed'[l] \cup overflow'[l]
                                   \/ e.n = taken'[e.src] /\ Before(e.src, l)'
      BY <3>3, <3>4, <3>5, <1>0
    <3> QED
      BY <3>2, <3>6
  <2> QED
    BY <2>2, <2>3 DEF PassInv
<1> QED
  BY <1>1, <1>2, <1>p DEF Transform

\* Distribute: the event is counted at the lane it is sent to, the lanes after
\* it stay before the fan-out.
LEMMA PassDistribute ==
  ASSUME CtlInv, SubsInv, FreshInv, PassInv, NEW s \in SourceNames, Distribute(s)
  PROVE  PassInv'
<1>type. /\ passed \in [PL -> SUBSET Event]
         /\ snk \in [SourceNames -> Nat] /\ sub \in [SourceNames -> Nat]
  BY DEF CtlInv, TypeOK
<1>0. /\ InLoop(s) /\ fan[s] = "fan" /\ sub[s] <= snap[s] /\ snk[s] > 0
      /\ UNCHANGED <<subs, fan, taken, snap, passed>>
  BY DEF Distribute, InLoop, mainVars
<1>c. PICK c \in Lane : c = CurLane(s)
  BY <1>0, CurIsNew
<1> DEFINE p == subs[s][sub[s]]
<1>1. /\ p \in PL /\ snk[s] \in 1..Len(Sinks[p])
      /\ c[1] = p /\ c[2] = Sinks[p][snk[s]]
  BY <1>0, <1>c, LoopPosition DEF CurLane
<1>e. PICK e \in Event : e = Cur(s) /\ e.src = s /\ e.n = taken[s] /\ e \in passed[p]
                         /\ e \notin processed[c] \cup overflow[c]
  BY <1>0, <1>c, CurIsNew DEF PassInv, Cur
<1>2. /\ \A l \in Lane : l # c => processed'[l] = processed[l] /\ overflow'[l] = overflow[l]
      /\ \/ processed'[c] = processed[c] \cup {e} /\ overflow'[c] = overflow[c]
         \/ processed'[c] = processed[c] /\ overflow'[c] = overflow[c] \cup {e}
  BY <1>c, <1>e, DistributeEffect
<1>3. /\ \A x \in SourceNames : x # s => sub'[x] = sub[x] /\ snk'[x] = snk[x]
      /\ snk[s] = Len(Sinks[p]) => snk'[s] = 0
      /\ snk[s] # Len(Sinks[p]) => snk'[s] = snk[s] + 1 /\ sub'[s] = sub[s]
  BY <1>type DEF Distribute, CurPL
<1> HIDE DEF p
<1>4. ASSUME NEW x \in SourceNames, fan'[x] = "fan", snk'[x] > 0
      PROVE  Cur(x)' \in passed'[subs'[x][sub'[x]]]
  <2>1. Cur(x)' = Cur(x)
    BY <1>0 DEF Cur
  <2>2. fan[x] = "fan" /\ snk[x] > 0 /\ sub'[x] = sub[x]
    BY <1>4, <1>0, <1>3
  <2> QED
    BY <2>1, <2>2, <1>0 DEF PassInv
<1>5. ASSUME NEW l \in Lane
      PROVE  /\ processed'[l] \cap overflow'[l] = {}
             /\ processed'[l] \cup overflow'[l] \subseteq passed'[l[1]]
             /\ \A f \in passed'[l[1]] : \/ f \in processed'[l] \cup overflow'[l]
                                         \/ f.n = taken'[f.src] /\ Before(f.src, l)'
  <2>1. /\ processed[l] \cap overflow[l] = {}
        /\ processed[l] \cup overflow[l] \subseteq passed[l[1]]
    BY DEF PassInv
  <2>2. /\ processed'[l] \cap overflow'[l] = {}
        /\ processed'[l] \cup overflow'[l] \subseteq passed'[l[1]]
    BY <2>1, <1>0, <1>1, <1>2, <1>e
  <2>3. ASSUME NEW f \in passed[l[1]], f \notin processed'[l] \cup overflow'[l]
        PROVE  f.n = taken'[f.src] /\ Before(f.src, l)'
    <3>1. f \notin processed[l] \cup overflow[l] /\ ~(l = c /\ f = e)
      BY <2>3, <1>2
    <3>2. f.n = taken[f.src] /\ Before(f.src, l)
      BY <3>1 DEF PassInv
    <3>3. f \in Event /\ f.src \in SourceNames
      BY <1>type, LaneShape DEF Event
    <3>4. CASE f.src # s
      BY <3>2, <3>3, <3>4, <1>0, <1>3 DEF Before
    <3>5. CASE f.src = s
      <4>1. f = e
        BY <3>2, <3>3, <3>5, <1>e DEF Event
      <4>2. l[1] = p
        BY <3>2, <3>5 DEF Before, p
      <4>3. PICK j \in 1..Len(Sinks[l[1]]) : snk[s] <= j /\ Sinks[l[1]][j] = l[2]
        BY <3>2, <3>5 DEF Before
      <4>4. j # snk[s]
        <5>1. l = <<l[1], l[2]>> /\ c = <<c[1], c[2]>>
          BY LaneShape
        <5> QED
          BY <5>1, <4>1, <4>2, <4>3, <3>1, <1>1
      <4>5. Len(Sinks[p]) \in Nat /\ snk[s] \in Nat
        BY <1>1, <1>type, ConfigAssumption
      <4>6. snk[s] # Len(Sinks[p]) /\ snk[s] + 1 <= j /\ snk[s] + 1 > 0
        BY <4>2, <4>3, <4>4, <4>5
      <4>7. snk'[f.src] = snk[s] + 1 /\ sub'[f.src] = sub[s] /\ fan'[f.src] = "fan"
        BY <4>6, <1>3, <1>0, <3>5
      <4>8. subs'[f.src][sub'[f.src]] = l[1]
        BY <4>2, <4>7, <1>0, <3>5 DEF p
      <4>9. \E k \in 1..Len(Sinks[l[1]]) : snk'[f.src] <= k /\ Sinks[l[1]][k] = l[2]
        BY <4>3, <4>6, <4>7
      <4> QED
        BY <4>6, <4>7, <4>8, <4>9, <3>2, <1>0 DEF Before
    <3> QED
      BY <3>4, <3>5
  <2> QED
    BY <2>2, <2>3, <1>0
<1> QED
  BY <1>4, <1>5 DEF PassInv

\* Every step keeps the account of what passed.
LEMMA PassStep ==
  ASSUME CtlInv, SubsInv, FreshInv, PassInv, [Next]_vars
  PROVE  PassInv'
<1>type. /\ fan \in [SourceNames -> {"off", "select", "lookup", "fan", "done"}]
         /\ taken \in [SourceNames -> 0..MaxEvents]
         /\ snk \in [SourceNames -> Nat] /\ sub \in [SourceNames -> Nat]
         /\ snap \in [SourceNames -> Nat]
  BY DEF CtlInv, TypeOK
<1>fan. \A s \in SourceNames : /\ fan[s] # "fan" => snk[s] = 0
                               /\ fan[s] = "fan" /\ snk[s] > 0 => sub[s] <= snap[s]
  BY DEF CtlInv, FanInv
<1>ok. TypeOK
  BY DEF CtlInv
<1>1. CASE Subscribe
  <2>1. /\ UNCHANGED <<passed, processed, overflow>>
        /\ \A s \in SourceNames : /\ fan'[s] = fan[s] /\ snk'[s] = snk[s]
                                  /\ taken'[s] = taken[s] /\ sub'[s] = sub[s]
    BY <1>1, SubscribeEffect
  <2>2. ASSUME NEW s \in SourceNames, fan[s] = "fan", snk[s] > 0
        PROVE  subs'[s][sub[s]] = subs[s][sub[s]]
    <3>1. sub[s] \in 1..Len(subs[s])
      BY <2>2, <1>fan, LoopPosition
    <3> QED
      BY <3>1, <1>1, SubsGrow
  <2> QED
    BY <2>1, <2>2, <1>ok, PassKept
<1>2. CASE Connect
  <2>1. UNCHANGED <<passed, processed, overflow, snk, taken, sub, subs>>
    BY <1>2 DEF Connect, chanVars
  <2>2. /\ \A s \in SourceNames : fan[s] = "fan" => fan'[s] = "fan"
        /\ \A s \in SourceNames : fan'[s] = "fan" => fan[s] = "fan"
    <3>1. fan[Src] # "fan" /\ Src \in SourceNames
      BY <1>2, SourceMember DEF CtlInv, PosInv, Connect, Src
    <3> QED
      BY <3>1, <1>2, <1>type DEF Connect
  <2> QED
    BY <2>1, <2>2, <1>ok, PassKept
<1>3. CASE Still
  <2>1. UNCHANGED <<passed, processed, overflow, snk, taken, sub, subs, fan>>
    BY <1>3 DEF Still
  <2> QED
    BY <2>1, <1>ok, PassKept
<1>4. ASSUME NEW x \in SourceNames, Receive(x) \/ SourceClosed(x) \/ FanCancelled(x)
                                    \/ GetSubscriptions(x) \/ LoopEnd(x)
      PROVE  PassInv'
  <2>1. UNCHANGED <<passed, processed, overflow, snk, subs>>
    BY <1>4 DEF Receive, SourceClosed, FanCancelled, GetSubscriptions, LoopEnd, chanVars, mainVars
  <2>2. /\ \A s \in SourceNames : s # x => fan'[s] = fan[s] /\ taken'[s] = taken[s] /\ sub'[s] = sub[s]
    BY <1>4, <1>type DEF Receive, SourceClosed, FanCancelled, GetSubscriptions, LoopEnd
  <2>3. snk[x] = 0
    <3>1. fan[x] # "fan" \/ (fan[x] = "fan" /\ sub[x] > snap[x])
      BY <1>4 DEF Receive, SourceClosed, FanCancelled, GetSubscriptions, LoopEnd
    <3>2. sub[x] \in Nat /\ snap[x] \in Nat /\ snk[x] \in Nat
      BY <1>type
    <3> QED
      BY <3>1, <3>2, <1>fan
  <2> QED
    BY <2>1, <2>2, <2>3, <1>ok, PassKept
<1> QED
  BY <1>1, <1>2, <1>3, <1>4, PassTransform, PassDistribute, FanoutSteps

-----------------------------------------------------------------------------
(* A subscription misses a prefix only.                                    *)

\* A step that neither transforms nor subscribes keeps the suffixes when each
\* fan-out either goes on with the event it has, or has come to the end with it
\* and takes the next one.
LEMMA SuffixKept ==
  ASSUME SinceInv, SuffixInv, TypeOK, UNCHANGED <<subs, since, passed, filtered>>,
         \A s \in SourceNames :
            \/ /\ taken'[s] = taken[s]
               /\ \A i \in 1..Len(subs[s]) : YetToOffer(s, i) => YetToOffer(s, i)'
            \/ /\ taken'[s] = taken[s] + 1 /\ fan'[s] = "lookup"
               /\ \A i \in 1..Len(subs[s]) : ~YetToOffer(s, i)
  PROVE  SuffixInv'
<1> SUFFICES ASSUME NEW s \in SourceNames, NEW i \in 1..Len(subs[s]),
                    NEW n \in 1..taken'[s]
             PROVE  /\ since[s][i] < n =>
                          HasSeen(s, subs[s][i], n) \/ (n = taken'[s] /\ YetToOffer(s, i)')
                    /\ HasSeen(s, subs[s][i], n) => since[s][i] < n
  BY DEF SuffixInv, SuffixOf, HasSeen
<1>t. taken[s] \in Nat
  BY ConfigAssumption DEF TypeOK
<1>suf. n \in 1..taken[s] =>
          /\ since[s][i] < n =>
                HasSeen(s, subs[s][i], n) \/ (n = taken[s] /\ YetToOffer(s, i))
          /\ HasSeen(s, subs[s][i], n) => since[s][i] < n
  BY DEF SuffixInv, SuffixOf
<1>1. CASE /\ taken'[s] = taken[s]
           /\ \A k \in 1..Len(subs[s]) : YetToOffer(s, k) => YetToOffer(s, k)'
  BY <1>1, <1>suf
<1>2. CASE /\ taken'[s] = taken[s] + 1 /\ fan'[s] = "lookup"
           /\ \A k \in 1..Len(subs[s]) : ~YetToOffer(s, k)
  <2>1. CASE n = taken[s] + 1
    <3>1. YetToOffer(s, i)'
      BY <1>2 DEF YetToOffer
    <3>2. since[s][i] \in Nat /\ since[s][i] <= taken[s]
      BY DEF SinceInv, SinceOf
    <3> QED
      BY <3>1, <3>2, <1>2, <1>t, <2>1
  <2>2. CASE n # taken[s] + 1
    <3>1. n \in 1..taken[s]
      BY <1>2, <2>2, <1>t
    <3> QED
      BY <3>1, <1>suf, <1>2
  <2> QED
    BY <2>1, <2>2
<1> QED
  BY <1>1, <1>2

\* A step that subscribes nobody keeps the record of the subscriptions when a
\* fan-out comes to its lookup with a new event only, and to its loop from there.
LEMMA SinceKept ==
  ASSUME SinceInv, TypeOK, UNCHANGED <<subs, since>>,
         \A s \in SourceNames :
            \/ /\ taken'[s] = taken[s]
               /\ fan'[s] = "lookup" => fan[s] = "lookup"
               /\ fan'[s] = "fan" => \/ fan[s] = "fan" /\ snap'[s] = snap[s]
                                    \/ fan[s] = "lookup"
            \/ taken'[s] = taken[s] + 1 /\ fan'[s] = "lookup"
  PROVE  SinceInv'
<1>t. \A s \in SourceNames : taken[s] \in Nat
  BY ConfigAssumption DEF TypeOK
<1>1. \A s \in SourceNames :
        Len(since'[s]) = Len(subs'[s]) /\ (fan'[s] = "lookup" => taken'[s] > 0)
  BY <1>t DEF SinceInv
<1>2. ASSUME NEW s \in SourceNames, NEW i \in 1..Len(subs[s]) PROVE SinceOf(s, i)'
  <2>1. SinceOf(s, i)
    BY DEF SinceInv
  <2> QED
    BY <2>1, <1>t DEF SinceOf
<1> QED
  BY <1>1, <1>2 DEF SinceInv

\* A step that subscribes nobody, passes nothing and does not take from a source
\* that is not connected keeps what was seen.
LEMMA SeenKept ==
  ASSUME SeenInv, UNCHANGED <<subs, passed, filtered>>,
         \A s \in SourceNames : fan'[s] = "off" => fan[s] = "off" /\ taken'[s] = taken[s]
  PROVE  SeenInv'
BY DEF SeenInv, HasSeen

\* Transform: the subscription the loop stands at has now seen the event.
LEMMA SeenTransform ==
  ASSUME CtlInv, SubsInv, SeenInv, SinceInv, SuffixInv, NEW s \in SourceNames, Transform(s)
  PROVE  SeenInv' /\ SinceInv' /\ SuffixInv'
<1>type. /\ passed \in [PL -> SUBSET Event] /\ filtered \in [PL -> SUBSET Event]
         /\ taken \in [SourceNames -> 0..MaxEvents] /\ subs \in [SourceNames -> Seq(PL)]
         /\ snk \in [SourceNames -> Nat] /\ sub \in [SourceNames -> Nat]
  BY DEF CtlInv, TypeOK
<1>0. /\ fan[s] = "fan" /\ sub[s] <= snap[s] /\ snk[s] = 0
      /\ UNCHANGED <<subs, since, fan, taken, snap>>
  BY DEF Transform, InLoop, mainVars
<1>p. PICK p \in PL : p = subs[s][sub[s]] /\ CurPL(s) = p /\ sub[s] \in 1..Len(subs[s])
  BY <1>0, LoopPosition
<1>k. PICK k \in Nat : k = taken[s]
  BY <1>type, ConfigAssumption
<1>1. \/ /\ filtered' = [filtered EXCEPT ![p] = @ \cup {Cur(s)}]
         /\ sub' = [sub EXCEPT ![s] = @ + 1] /\ UNCHANGED <<snk, passed>>
      \/ /\ passed' = [passed EXCEPT ![p] = @ \cup {Cur(s)}] /\ UNCHANGED filtered
         /\ \/ sub' = [sub EXCEPT ![s] = @ + 1] /\ UNCHANGED snk
            \/ snk' = [snk EXCEPT ![s] = 1] /\ UNCHANGED sub
  BY <1>p DEF Transform
<1>2. /\ \A x \in SourceNames : x # s => sub'[x] = sub[x] /\ snk'[x] = snk[x]
      /\ \/ sub'[s] = sub[s] + 1 /\ snk'[s] = 0
         \/ sub'[s] = sub[s] /\ snk'[s] = 1
  BY <1>1, <1>type, <1>0
<1>3. /\ \A x, q, n : q \in PL /\ HasSeen(x, q, n) => HasSeen(x, q, n)'
      /\ \A x, q, n : q \in PL /\ HasSeen(x, q, n)' =>
            HasSeen(x, q, n) \/ (x = s /\ q = p /\ n = k)
      /\ HasSeen(s, p, k)'
  <2>1. \A q \in PL : /\ passed[q] \cup filtered[q] \subseteq passed'[q] \cup filtered'[q]
                      /\ \A e \in passed'[q] \cup filtered'[q] :
                            e \in passed[q] \cup filtered[q] \/ (q = p /\ e = Cur(s))
    BY <1>1, <1>type, <1>p
  <2>2. Cur(s) \in passed'[p] \cup filtered'[p]
    BY <1>1, <1>type, <1>p
  <2>3. \A x, n : [src |-> x, n |-> n] = Cur(s) <=> x = s /\ n = k
    BY <1>k DEF Cur
  <2> QED
    BY <2>1, <2>2, <2>3, <1>p DEF HasSeen
<1>4. SeenInv'
  <2>1. \A x \in SourceNames : fan'[x] = "off" => taken'[x] = 0
    BY <1>0 DEF SeenInv
  <2>2. ASSUME NEW x \in SourceNames, NEW q \in PL, NEW n \in Nat, HasSeen(x, q, n)'
        PROVE  \E i \in 1..Len(subs[x]) : subs[x][i] = q
    <3>1. CASE HasSeen(x, q, n)
      BY <3>1 DEF SeenInv
    <3>2. CASE x = s /\ q = p
      BY <3>2, <1>p
    <3> QED
      BY <2>2, <3>1, <3>2, <1>3
  <2> QED
    BY <2>1, <2>2, <1>0 DEF SeenInv
<1>5. ASSUME NEW x \in SourceNames, NEW i \in 1..Len(subs[x]), NEW q \in PL, q = subs[x][i],
             NEW n \in 1..taken[x]
      PROVE  /\ since[x][i] < n =>
                   HasSeen(x, q, n)' \/ (n = taken[x] /\ YetToOffer(x, i)')
             /\ HasSeen(x, q, n)' => since[x][i] < n
  <2>0. taken[x] \in Nat
    BY <1>type, ConfigAssumption
  <2>s. /\ since[x][i] < n => HasSeen(x, q, n) \/ (n = taken[x] /\ YetToOffer(x, i))
        /\ HasSeen(x, q, n) => since[x][i] < n
    BY <1>5 DEF SuffixInv, SuffixOf
  <2>1. CASE x = s /\ i = sub[s]
    <3>0. q = p
      BY <1>5, <2>1, <1>p
    <3>1. CASE n = k
      <4>1. since[x][i] < taken[x]
        BY <2>1, <1>0 DEF SinceInv, SinceOf
      <4> QED
        BY <3>0, <3>1, <4>1, <2>1, <1>3, <1>k
    <3>2. CASE n # k
      <4>1. HasSeen(x, q, n)' <=> HasSeen(x, q, n)
        BY <3>2, <1>3
      <4> QED
        BY <4>1, <2>s, <3>2, <2>1, <1>k
    <3> QED
      BY <3>1, <3>2
  <2>2. CASE ~(x = s /\ i = sub[s])
    <3>1. ~(x = s /\ q = p)
      <4> SUFFICES ASSUME x = s, i # sub[s] PROVE subs[s][i] # subs[s][sub[s]]
        BY <2>2, <1>5, <1>p
      <4>1. i < sub[s] \/ sub[s] < i
        BY <1>p, <1>type
      <4>2. subs[s][i] < subs[s][sub[s]] \/ subs[s][sub[s]] < subs[s][i]
        BY <4>1, <1>p DEF SubsInv
      <4>3. q \in Nat /\ p \in Nat
        BY ConfigAssumption, SMTT(30) DEF PL
      <4> QED
        BY <4>2, <4>3, <1>5, <1>p
    <3>2. HasSeen(x, q, n)' <=> HasSeen(x, q, n)
      BY <3>1, <1>3
    <3>4. YetToOffer(x, i) => YetToOffer(x, i)'
      <4>1. CASE x # s
        BY <4>1, <1>0, <1>2 DEF YetToOffer
      <4>2. CASE x = s
        <5>1. sub[s] \in Nat /\ i \in Nat
          BY <1>type
        <5>2. YetToOffer(s, i) => sub[s] <= i /\ i <= snap[s]
          BY <1>0 DEF YetToOffer
        <5>3. sub[s] <= i => sub[s] + 1 <= i
          BY <5>1, <4>2, <2>2
        <5>4. YetToOffer(s, i) => sub'[s] <= i /\ (sub'[s] = i => snk'[s] = 0)
          BY <5>1, <5>2, <5>3, <1>2, <4>2, <2>2
        <5> QED
          BY <4>2, <5>2, <5>4, <1>0 DEF YetToOffer
      <4> QED
        BY <4>1, <4>2
    <3> QED
      BY <3>2, <3>4, <2>s
  <2> QED
    BY <2>1, <2>2
<1>6. SuffixInv'
  <2> SUFFICES ASSUME NEW x \in SourceNames, NEW i \in 1..Len(subs[x]) PROVE SuffixOf(x, i)'
    BY <1>0 DEF SuffixInv
  <2>1. PICK q \in PL : q = subs[x][i]
    BY <1>type
  <2>2. subs'[x][i] = q
    BY <2>1, <1>0
  <2> QED
    BY <1>5, <1>0, <2>1, <2>2 DEF SuffixOf, HasSeen
<1>7. SinceInv'
  BY <1>0, SinceKept DEF CtlInv
<1> QED
  BY <1>4, <1>6, <1>7

\* Subscribe: the new subscription has seen nothing, and the source's first one
\* comes before its first event.
LEMMA SeenSubscribe ==
  ASSUME CtlInv, SubsInv, SubsInv', TypeOK', SeenInv, SinceInv, SuffixInv, Subscribe
  PROVE  SeenInv' /\ SinceInv' /\ SuffixInv'
<1>type. /\ taken \in [SourceNames -> 0..MaxEvents] /\ subs \in [SourceNames -> Seq(PL)]
         /\ since \in [SourceNames -> Seq(Int)] /\ snap \in [SourceNames -> Nat]
  BY DEF CtlInv, TypeOK
<1>0. UNCHANGED <<fan, taken, snap, sub, snk, passed, filtered>>
  BY SubscribeEffect
<1>1. SeenInv'
  <2>1. \A x \in SourceNames : fan'[x] = "off" => taken'[x] = 0
    BY <1>0 DEF SeenInv
  <2>2. ASSUME NEW x \in SourceNames, NEW q \in PL, NEW n \in Nat, HasSeen(x, q, n)'
        PROVE  \E i \in 1..Len(subs'[x]) : subs'[x][i] = q
    <3>1. HasSeen(x, q, n)
      BY <2>2, <1>0 DEF HasSeen
    <3>2. PICK i \in 1..Len(subs[x]) : subs[x][i] = q
      BY <3>1 DEF SeenInv
    <3> QED
      BY <3>2, SubsGrow
  <2> QED
    BY <2>1, <2>2 DEF SeenInv
<1>2. ASSUME NEW x \in SourceNames, NEW i \in 1..Len(subs[x])
      PROVE  SuffixOf(x, i)' /\ SinceOf(x, i)' /\ since'[x][i] = since[x][i]
  <2>1. subs'[x][i] = subs[x][i] /\ SuffixOf(x, i) /\ SinceOf(x, i)
    BY SubsGrow DEF SuffixInv, SinceInv
  <2>2. since'[x][i] = since[x][i]
    <3>1. since[x] \in Seq(Int) /\ Len(since[x]) = Len(subs[x])
      BY <1>type DEF SinceInv
    <3>2. since'[x] = since[x] \/ since'[x] = Append(since[x], LookedUp(x))
      BY <1>type, SubscribeEffect
    <3>3. LookedUp(x) \in Int
      BY <1>type, ConfigAssumption DEF LookedUp
    <3> QED
      BY <3>1, <3>2, <3>3, SMTT(30)
  <2> QED
    BY <2>1, <2>2, <1>0 DEF SuffixOf, SinceOf, HasSeen, YetToOffer
<1>3. ASSUME NEW x \in SourceNames, NEW i \in 1..Len(subs'[x]), i \notin 1..Len(subs[x])
      PROVE  SuffixOf(x, i)' /\ SinceOf(x, i)'
  <2>1. subs'[x] # subs[x]
    BY <1>3
  <2>2. /\ subs'[x] = Append(subs[x], pl) /\ pl \in PL
        /\ since'[x] = Append(since[x], LookedUp(x))
        /\ subs[x] \in Seq(PL) /\ Len(subs[x]) \in Nat
    BY <2>1, <1>type, SubscribeEffect, SMTT(30)
  <2>3. i = Len(subs[x]) + 1 /\ subs'[x][i] = pl
    BY <2>2, <1>3
  <2>t. taken[x] \in Nat /\ snap[x] \in Nat
    BY <1>type, ConfigAssumption
  <2>4. since'[x][i] = LookedUp(x)
    <3>1. since[x] \in Seq(Int) /\ Len(since[x]) = Len(subs[x])
      BY <1>type DEF SinceInv
    <3> QED
      BY <3>1, <2>2, <2>3
  <2>5. fan[x] = "lookup" => taken[x] > 0
    BY DEF SinceInv
  <2>6. i = 1 => taken[x] = 0
    <3> SUFFICES ASSUME i = 1 PROVE taken[x] = 0
      OBVIOUS
    <3>1. subs[x] = <<>>
      BY <2>2, <2>3
    <3> QED
      BY <3>1 DEF SeenInv, CtlInv, FanInv
  <2>7. ~(fan[x] = "fan" /\ i <= snap[x])
    <3>1. fan[x] = "fan" => snap[x] \in 0..Len(subs[x])
      BY DEF CtlInv, FanInv
    <3> QED
      BY <3>1, <2>2, <2>3, <2>t
  <2>8. SinceOf(x, i)'
    BY <2>4, <2>5, <2>6, <2>7, <2>t, <1>0 DEF SinceOf, LookedUp
  <2>9. SuffixOf(x, i)'
    <3> SUFFICES ASSUME NEW n \in 1..taken[x]
                 PROVE  /\ LookedUp(x) < n => n = taken[x] /\ YetToOffer(x, i)'
                        /\ ~HasSeen(x, pl, n)
      BY <2>3, <2>4, <1>0 DEF SuffixOf, HasSeen
    <3>1. LookedUp(x) < n => n = taken[x] /\ YetToOffer(x, i)'
      BY <2>t, <1>0 DEF LookedUp, YetToOffer
    <3>2. ASSUME HasSeen(x, pl, n) PROVE FALSE
      <4>1. n \in Nat
        BY <2>t
      <4>2. PICK k \in 1..Len(subs[x]) : subs[x][k] = pl
        BY <4>1, <3>2, <2>2 DEF SeenInv
      <4>3. k \in 1..Len(subs'[x]) /\ subs'[x][k] = pl /\ k < i
        BY <4>2, <2>2, <2>3
      <4>4. subs'[x][k] < subs'[x][i]
        BY <4>3 DEF SubsInv
      <4>5. pl \in Nat
        BY <2>2, ConfigAssumption DEF PL
      <4> QED
        BY <4>3, <4>4, <4>5, <2>3
    <3> QED
      BY <3>1, <3>2
  <2> QED
    BY <2>8, <2>9
<1>4. ASSUME NEW x \in SourceNames
      PROVE  Len(since'[x]) = Len(subs'[x]) /\ (fan'[x] = "lookup" => taken'[x] > 0)
  <2>1. since[x] \in Seq(Int) /\ Len(since[x]) = Len(subs[x]) /\ subs[x] \in Seq(PL)
        /\ (fan[x] = "lookup" => taken[x] > 0) /\ pl \in PL
    BY <1>type, SubscribeEffect DEF SinceInv
  <2>2. \/ since'[x] = since[x] /\ subs'[x] = subs[x]
        \/ since'[x] = Append(since[x], LookedUp(x)) /\ subs'[x] = Append(subs[x], pl)
    BY <1>type, SubscribeEffect
  <2> QED
    BY <2>1, <2>2, <1>0
<1> QED
  BY <1>1, <1>2, <1>3, <1>4 DEF SuffixInv, SinceInv

\* Every step keeps what subscriptions have seen.
LEMMA SeenStep ==
  ASSUME CtlInv, TypeOK', SubsInv, SubsInv', SeenInv, SinceInv, SuffixInv, [Next]_vars
  PROVE  SeenInv' /\ SinceInv' /\ SuffixInv'
<1>type. /\ fan \in [SourceNames -> {"off", "select", "lookup", "fan", "done"}]
         /\ taken \in [SourceNames -> 0..MaxEvents] /\ subs \in [SourceNames -> Seq(PL)]
         /\ snk \in [SourceNames -> Nat] /\ sub \in [SourceNames -> Nat]
         /\ snap \in [SourceNames -> Nat]
  BY DEF CtlInv, TypeOK
<1>ok. TypeOK
  BY DEF CtlInv
<1>1. CASE Connect
  <2>1. UNCHANGED <<subs, since, taken, snap, sub, snk, passed, filtered>>
    BY <1>1 DEF Connect
  <2>2. \A s \in SourceNames : \/ fan'[s] = fan[s]
                               \/ fan[s] = "off" /\ fan'[s] = "select"
    <3>1. fan[Src] = "off" /\ Src \in SourceNames
      BY <1>1, SourceMember DEF CtlInv, PosInv, Connect, Src
    <3> QED
      BY <3>1, <1>1, <1>type DEF Connect
  <2>3. \A s \in SourceNames : \A i \in 1..Len(subs[s]) : YetToOffer(s, i) => YetToOffer(s, i)'
    BY <2>1, <2>2 DEF YetToOffer
  <2> QED
    BY <2>1, <2>2, <2>3, <1>ok, SeenKept, SinceKept, SuffixKept
<1>2. CASE Still
  <2>1. UNCHANGED <<subs, since, fan, taken, snap, sub, snk, passed, filtered>>
    BY <1>2 DEF Still
  <2>2. \A s \in SourceNames : \A i \in 1..Len(subs[s]) : YetToOffer(s, i) => YetToOffer(s, i)'
    BY <2>1 DEF YetToOffer
  <2> QED
    BY <2>1, <2>2, <1>ok, SeenKept, SinceKept, SuffixKept
<1>3. ASSUME NEW x \in SourceNames,
             Receive(x) \/ SourceClosed(x) \/ FanCancelled(x) \/ GetSubscriptions(x)
             \/ Distribute(x) \/ LoopEnd(x)
      PROVE  SeenInv' /\ SinceInv' /\ SuffixInv'
  <2>1. UNCHANGED <<subs, since, passed, filtered>>
    BY <1>3 DEF Receive, SourceClosed, FanCancelled, GetSubscriptions, Distribute, LoopEnd, mainVars
  <2>2. \A s \in SourceNames : s # x =>
          /\ fan'[s] = fan[s] /\ taken'[s] = taken[s] /\ sub'[s] = sub[s]
          /\ snap'[s] = snap[s] /\ snk'[s] = snk[s]
    BY <1>3, <1>type DEF Receive, SourceClosed, FanCancelled, GetSubscriptions, Distribute, LoopEnd
  <2>3. fan[x] # "off" /\ fan'[x] # "off"
    BY <1>3, <1>type DEF Receive, SourceClosed, FanCancelled, GetSubscriptions, Distribute, LoopEnd, InLoop
  <2>4. \A s \in SourceNames : s # x =>
          \A i \in 1..Len(subs[s]) : YetToOffer(s, i) => YetToOffer(s, i)'
    BY <2>2 DEF YetToOffer
  <2>5. \/ /\ taken'[x] = taken[x]
           /\ \A i \in 1..Len(subs[x]) : YetToOffer(x, i) => YetToOffer(x, i)'
        \/ /\ taken'[x] = taken[x] + 1 /\ fan'[x] = "lookup"
           /\ \A i \in 1..Len(subs[x]) : ~YetToOffer(x, i)
    <3>1. CASE Receive(x)
      BY <3>1, <1>type DEF Receive, YetToOffer
    <3>2. CASE SourceClosed(x) \/ FanCancelled(x)
      BY <3>2, <1>type DEF SourceClosed, FanCancelled, YetToOffer
    <3>3. CASE GetSubscriptions(x)
      <4>1. snk[x] = 0
        BY <3>3 DEF GetSubscriptions, CtlInv, FanInv
      <4>2. /\ taken'[x] = taken[x] /\ fan'[x] = "fan" /\ snap'[x] = Len(subs[x])
            /\ sub'[x] = 1 /\ snk'[x] = 0
        BY <3>3, <4>1, <1>type DEF GetSubscriptions
      <4>3. \A i \in 1..Len(subs[x]) : 1 <= i /\ i <= Len(subs[x])
        BY <1>type
      <4> QED
        BY <4>2, <4>3 DEF YetToOffer
    <3>4. CASE Distribute(x)
      <4>1. /\ fan[x] = "fan" /\ snk[x] > 0 /\ snk[x] \in Nat /\ sub[x] \in Nat
            /\ UNCHANGED <<taken, fan, snap>>
            /\ (sub'[x] = sub[x] + 1 /\ snk'[x] = 0) \/ (sub'[x] = sub[x])
        BY <3>4, <1>type DEF Distribute, InLoop
      <4>2. ASSUME NEW i \in 1..Len(subs[x]), YetToOffer(x, i)
            PROVE  YetToOffer(x, i)'
        <5>1. sub[x] <= i /\ sub[x] # i /\ i <= snap[x] /\ i \in Nat
          BY <4>1, <4>2, <1>type DEF YetToOffer
        <5>2. sub'[x] <= i /\ (sub'[x] = i => snk'[x] = 0)
          BY <5>1, <4>1
        <5> QED
          BY <5>1, <5>2, <4>1 DEF YetToOffer
      <4> QED
        BY <4>1, <4>2
    <3>5. CASE LoopEnd(x)
      <4>1. fan[x] = "fan" /\ sub[x] > snap[x] /\ UNCHANGED taken
            /\ sub[x] \in Nat /\ snap[x] \in Nat
        BY <3>5, <1>type DEF LoopEnd
      <4>2. \A i \in 1..Len(subs[x]) : ~YetToOffer(x, i)
        BY <4>1, <1>type DEF YetToOffer
      <4> QED
        BY <4>1, <4>2
    <3> QED
      BY <1>3, <3>1, <3>2, <3>3, <3>4, <3>5
  <2>6. \/ /\ taken'[x] = taken[x]
           /\ fan'[x] = "lookup" => fan[x] = "lookup"
           /\ fan'[x] = "fan" => \/ fan[x] = "fan" /\ snap'[x] = snap[x]
                                \/ fan[x] = "lookup"
        \/ taken'[x] = taken[x] + 1 /\ fan'[x] = "lookup"
    BY <1>3, <1>type DEF Receive, SourceClosed, FanCancelled, GetSubscriptions, Distribute,
                         LoopEnd, InLoop
  <2>7. SinceInv'
    BY <2>1, <2>2, <2>6, <1>ok, SinceKept
  <2> QED
    BY <2>1, <2>2, <2>3, <2>4, <2>5, <2>7, <1>ok, SeenKept, SuffixKept
<1> QED
  BY <1>1, <1>2, <1>3, SeenTransform, SeenSubscribe, FanoutSteps

-----------------------------------------------------------------------------
(* The theorems about the fan-outs.                                        *)

\* The fan-out invariant holds throughout.
THEOREM FanoutCorrect == Spec => []FanoutInv
<1>1. Init => FanoutInv
  <2> SUFFICES ASSUME Init PROVE FanoutInv
    OBVIOUS
  <2>1. EvInv
    BY EventInit
  <2>2. PassInv
    <3>1. \A l \in Lane : /\ processed[l] = {} /\ overflow[l] = {}
                          /\ l[1] \in PL /\ passed[l[1]] = {}
      BY LaneShape DEF Init
    <3>2. \A s \in SourceNames : fan[s] # "fan"
      BY DEF Init
    <3> QED
      BY <3>1, <3>2 DEF PassInv
  <2>3. SeenInv
    BY DEF Init, SeenInv, HasSeen
  <2>4. SuffixInv
    <3>1. \A s \in SourceNames : Len(subs[s]) = 0
      BY DEF Init
    <3>2. 1..0 = {}
      OBVIOUS
    <3> QED
      BY <3>1, <3>2 DEF SuffixInv
  <2>5. SinceInv
    <3>1. \A s \in SourceNames : Len(subs[s]) = 0 /\ Len(since[s]) = 0 /\ fan[s] = "off"
      BY DEF Init
    <3>2. 1..0 = {}
      OBVIOUS
    <3> QED
      BY <3>1, <3>2 DEF SinceInv
  <2> QED
    BY <2>1, <2>2, <2>3, <2>4, <2>5 DEF FanoutInv
<1>2. FanoutInv /\ EvInv' /\ [Next]_vars => FanoutInv'
  <2> SUFFICES ASSUME FanoutInv, EvInv', [Next]_vars PROVE FanoutInv'
    OBVIOUS
  <2>1. CtlInv /\ SubsInv /\ FreshInv /\ PassInv /\ SeenInv /\ SinceInv /\ SuffixInv
    BY DEF FanoutInv, EvInv
  <2>2. SubsInv' /\ TypeOK'
    BY DEF EvInv, CtlInv
  <2>3. PassInv'
    BY <2>1, PassStep
  <2>4. SeenInv' /\ SinceInv' /\ SuffixInv'
    BY <2>1, <2>2, SeenStep
  <2> QED
    BY <2>3, <2>4 DEF FanoutInv
<1> QED
  BY <1>1, <1>2, EventsCorrect, PTL DEF Spec

\* No silent loss: whatever the number of sources, sinks and workers, an event
\* that passed a pipeline's transformations is, at each of its sinks, counted as
\* processed or logged as dropped, or distributeToSinks has the sink before it.
THEOREM NoSilentLoss == Spec => []PassedAccounted
<1>1. FanoutInv => PassedAccounted
  <2> SUFFICES ASSUME FanoutInv, NEW l \in Lane
               PROVE  /\ processed[l] \cap overflow[l] = {}
                      /\ processed[l] \cup overflow[l] \subseteq passed[l[1]]
                      /\ \A e \in passed[l[1]] \ (processed[l] \cup overflow[l]) :
                            e = Cur(e.src) /\ l \in Pending(e.src)
    BY DEF PassedAccounted
  <2>1. PassInv /\ CtlInv /\ passed \in [PL -> SUBSET Event]
    BY DEF FanoutInv, EvInv, CtlInv, TypeOK
  <2>2. l[1] \in PL /\ l = <<l[1], l[2]>>
    BY LaneShape
  <2>3. ASSUME NEW e \in passed[l[1]], e \notin processed[l] \cup overflow[l]
        PROVE  e = Cur(e.src) /\ l \in Pending(e.src)
    <3>1. e \in Event /\ e.src \in SourceNames
      BY <2>1, <2>2 DEF Event
    <3>2. e.n = taken[e.src] /\ Before(e.src, l)
      BY <2>1, <2>3 DEF PassInv
    <3>3. e = Cur(e.src)
      BY <3>1, <3>2 DEF Event, Cur
    <3> DEFINE s == e.src
    <3>4. /\ fan[s] = "fan" /\ snk[s] > 0 /\ sub[s] <= snap[s]
          /\ l[1] = CurPL(s)
      BY <3>1, <3>2, <2>1 DEF Before, CtlInv, FanInv, CurPL
    <3>5. PICK j \in 1..Len(Sinks[l[1]]) : snk[s] <= j /\ Sinks[l[1]][j] = l[2]
      BY <3>2 DEF Before
    <3>6. j \in snk[s]..Len(Sinks[l[1]])
      <4>1. snk[s] \in Nat
        BY <3>1, <2>1 DEF CtlInv, TypeOK
      <4> QED
        BY <4>1, <3>5
    <3>7. l \in {<<CurPL(s), Sinks[CurPL(s)][k]>> : k \in snk[s]..Len(Sinks[CurPL(s)])}
      BY <3>4, <3>5, <3>6, <2>2
    <3> QED
      BY <3>3, <3>4, <3>7 DEF Pending
  <2> QED
    BY <2>1, <2>3 DEF PassInv
<1> QED
  BY <1>1, FanoutCorrect, PTL

\* However subscriptions and running fan-outs interleave, a pipeline misses
\* exactly the events whose subscriptions were looked up before it subscribed:
\* it was offered none of them and every later one, but for the event still on
\* its way to it; and a source's first subscriber misses none.
THEOREM OffersSuffix == Spec => []OffersAreSuffix
<1>1. FanoutInv => OffersAreSuffix
  <2> SUFFICES ASSUME FanoutInv, NEW s \in SourceNames, NEW i \in 1..Len(subs[s])
               PROVE  /\ i = 1 => since[s][i] = 0
                      /\ \A n \in 1..taken[s] :
                            IF n <= since[s][i]
                            THEN ~HasSeen(s, subs[s][i], n)
                            ELSE \/ HasSeen(s, subs[s][i], n)
                                 \/ n = taken[s] /\ YetToOffer(s, i)
    BY DEF OffersAreSuffix, Offered, HasSeen
  <2>1. SinceOf(s, i) /\ SuffixOf(s, i) /\ taken[s] \in Nat
    BY ConfigAssumption DEF FanoutInv, SinceInv, SuffixInv, EvInv, CtlInv, TypeOK
  <2> QED
    BY <2>1 DEF SinceOf, SuffixOf
<1> QED
  BY <1>1, FanoutCorrect, PTL
=============================================================================
