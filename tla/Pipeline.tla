------------------------------ MODULE Pipeline ------------------------------
(***************************************************************************)
(* The pipeline process of pigo: `pigo pipeline` (cmd/pigo/pipeline.go)    *)
(* with the event path of pkg/pipeline (process.go, pipeline.go) and the   *)
(* subscription table of its Manager (manager.go).                         *)
(*                                                                         *)
(* Goroutines: the main one (setup, wait, shutdown), one fan-out per       *)
(* source peer, and the sink workers.  Every (pipeline, sink) pair, called *)
(* a lane here, has one buffered channel.  SetupSinks runs once per source *)
(* and once more at the end, so a lane has one worker more than its        *)
(* pipeline has sources, and all of them receive from the lane's channel.  *)
(*                                                                         *)
(* An event is [src, n]: the n-th event received from source src.  What    *)
(* a transformation or a Pub does with the contents is a nondeterministic  *)
(* outcome.                                                                *)
(***************************************************************************)
EXTENDS Integers, Sequences

CONSTANTS
  Peers,       \* names of the peers in the Manager's table
  NPipelines,  \* pipelines 1..NPipelines, in configuration order
  Sources,     \* Sources[p]: the source names of pipeline p, in order
  Sinks,       \* Sinks[p]: the sink names of pipeline p, in order
  Blocking,    \* sinks whose Pub may never return (gRPC without a client)
  ChanCap,     \* capacity of a sink channel (100 in the code)
  MaxEvents    \* bound: events received from one source

PL == 1..NPipelines

Names(q) == {q[i] : i \in 1..Len(q)}

Distinct(q) == \A i, j \in 1..Len(q) : q[i] = q[j] => i = j

SourceNames == UNION {Names(Sources[p]) : p \in PL}

SinkNames == UNION {Names(Sinks[p]) : p \in PL}

ASSUME ConfigAssumption ==
  /\ NPipelines \in Nat \ {0}
  /\ Sources \in [PL -> Seq(STRING)]
  /\ Sinks \in [PL -> Seq(STRING)]
  /\ \A p \in PL : Distinct(Sources[p]) /\ Distinct(Sinks[p])
  /\ ChanCap \in Nat \ {0}
  /\ MaxEvents \in Nat

\* One channel per pipeline and sink name (sinkChannels in setupPipeline).
Lane == UNION {{<<p, k>> : k \in Names(Sinks[p])} : p \in PL}

\* The goroutines running processSinkEvents for a lane.
Worker == UNION {{<<l, i>> : i \in 1..(Len(Sources[l[1]]) + 1)} : l \in Lane}

Event == [src : SourceNames, n : 0..MaxEvents]

VARIABLES
  phase,      \* main goroutine: where it is in setup, wait and shutdown
  pl, si,     \* setup position: pipeline index, source index
  cancelled,  \* ctx is done
  subs,       \* Manager.subscriptions: source -> pipelines, in order
  since,      \* history: since[s][i] events of source s had had their
              \* subscriptions looked up when subs[s][i] was added
  fan,        \* fan-out goroutine of a source
  taken,      \* events it has received
  snap,       \* length of the subscriptions slice it is ranging over
  sub, snk,   \* its loop indices: subscription, sink (0: not transformed yet)
  queue,      \* contents of the lane's channel
  closed,     \* the lane's channel is closed
  wst, hold,  \* sink worker: state, and the event in its hands
  passed,     \* events that survived source and pipeline transformations
  filtered,   \* events those transformations dropped
  processed,  \* events the ProcessedEvents metric counted: the send to the
              \* channel and the increment after it are one step here
  overflow,   \* events distributeToSinks logged as "channel is full"
  published,  \* events the sink's Pub accepted
  pubErrors,  \* events the PublishErrors metric counted
  sinkDropped \* events the sink's transformations dropped

mainVars == <<phase, pl, si, cancelled, subs, since>>
fanVars  == <<fan, taken, snap, sub, snk, passed, filtered>>
chanVars == <<queue, closed, processed, overflow>>
workVars == <<wst, hold, published, pubErrors, sinkDropped>>
vars     == <<mainVars, fanVars, chanVars, workVars>>

SetupPhase == {"subscribe", "connect", "sinks", "close"}
Phase == SetupPhase \cup {"failed", "wait", "drain", "exited", "crashed"}

\* The process still runs: goroutines take steps.
Alive == phase \notin {"exited", "crashed"}

\* Where setup continues: the next source, or the final SetupSinks.
PhaseAt(p, i) ==
  IF p > NPipelines THEN "wait"
  ELSE IF i <= Len(Sources[p]) THEN "subscribe" ELSE "sinks"

Init ==
  /\ phase = PhaseAt(1, 1)
  /\ pl = 1 /\ si = 1
  /\ cancelled = FALSE
  /\ subs = [s \in SourceNames |-> <<>>]
  /\ since = [s \in SourceNames |-> <<>>]
  /\ fan = [s \in SourceNames |-> "off"]
  /\ taken = [s \in SourceNames |-> 0]
  /\ snap = [s \in SourceNames |-> 0]
  /\ sub = [s \in SourceNames |-> 0]
  /\ snk = [s \in SourceNames |-> 0]
  /\ queue = [l \in Lane |-> <<>>]
  /\ closed = [l \in Lane |-> FALSE]
  /\ wst = [w \in Worker |-> "off"]
  /\ hold = [w \in Worker |-> {}]
  /\ passed = [p \in PL |-> {}]
  /\ filtered = [p \in PL |-> {}]
  /\ processed = [l \in Lane |-> {}]
  /\ overflow = [l \in Lane |-> {}]
  /\ published = [l \in Lane |-> {}]
  /\ pubErrors = [l \in Lane |-> {}]
  /\ sinkDropped = [l \in Lane |-> {}]

-----------------------------------------------------------------------------
(* Main goroutine: startPipelineProcessing, setupPipeline, setupSource.    *)

\* The source being set up.
Src == Sources[pl][si]

\* The events of source s whose subscriptions GetSubscriptions has returned:
\* all that were received, but for one the fan-out is about to look up.
LookedUp(s) == IF fan[s] = "lookup" THEN taken[s] - 1 ELSE taken[s]

\* Mutant: only the first subscription of a source is recorded.
MutSubscribeOnce ==
  /\ phase = "subscribe"
  /\ Src \in Peers
  /\ phase' = IF subs[Src] = <<>> THEN "connect" ELSE "sinks"
  /\ subs' = [subs EXCEPT ![Src] = IF @ = <<>> THEN <<pl>> ELSE @]
  /\ since' = [since EXCEPT ![Src] = IF @ = <<>> THEN <<LookedUp(Src)>> ELSE @]
  /\ UNCHANGED <<pl, si, cancelled, fanVars, chanVars, workVars>>

\* setupSource up to AddSubscription.  An unknown peer is an error; only the
\* first subscription of a source goes on to connect it.
Subscribe ==
  /\ phase = "subscribe"
  /\ \/ /\ Src \notin Peers
        /\ phase' = "close"
        /\ UNCHANGED <<subs, since>>
     \/ /\ Src \in Peers
        /\ phase' = IF subs[Src] = <<>> THEN "connect" ELSE "sinks"
        /\ subs' = [subs EXCEPT ![Src] = Append(@, pl)]
        /\ since' = [since EXCEPT ![Src] = Append(@, LookedUp(Src))]
  /\ UNCHANGED <<pl, si, cancelled, fanVars, chanVars, workVars>>

\* setupSourceConnection: the connector's Sub fails, or the fan-out starts.
Connect ==
  /\ phase = "connect"
  /\ \/ /\ phase' = "close"
        /\ UNCHANGED fan
     \/ /\ phase' = "sinks"
        /\ fan' = [fan EXCEPT ![Src] = "select"]
  /\ UNCHANGED <<pl, si, cancelled, subs, since, taken, snap, sub, snk, passed,
                 filtered, chanVars, workVars>>

\* Index of the first sink without a peer; one past the end if there is none.
FirstMissingSink(p) ==
  LET missing == {i \in 1..Len(Sinks[p]) : Sinks[p][i] \notin Peers}
  IN  IF missing = {} THEN Len(Sinks[p]) + 1
      ELSE CHOOSE i \in missing : \A j \in missing : i <= j

\* The workers one SetupSinks call starts: one per sink before the first
\* missing peer.
Started(p, i) ==
  {w \in Worker : /\ w[2] = i
                  /\ \E j \in 1..(FirstMissingSink(p) - 1) :
                        w[1] = <<p, Sinks[p][j]>>}

\* SetupSinks, after each source and once more after the last one.  Only a
\* failure inside setupSource makes setupPipeline close the channels.
SetupSinks ==
  /\ phase = "sinks"
  /\ wst' = [w \in Worker |-> IF w \in Started(pl, si) THEN "up" ELSE wst[w]]
  /\ IF FirstMissingSink(pl) <= Len(Sinks[pl])
     THEN /\ phase' = IF si <= Len(Sources[pl]) THEN "close" ELSE "failed"
          /\ UNCHANGED <<pl, si>>
     ELSE IF si <= Len(Sources[pl])
          THEN /\ si' = si + 1
               /\ phase' = PhaseAt(pl, si + 1)
               /\ UNCHANGED pl
          ELSE /\ pl' = pl + 1
               /\ si' = 1
               /\ phase' = PhaseAt(pl + 1, 1)
  /\ UNCHANGED <<cancelled, subs, since, fanVars, chanVars, hold, published,
                 pubErrors, sinkDropped>>

\* "Close all sink channels on error" of the pipeline being set up.
CloseSinkChannels ==
  /\ phase = "close"
  /\ closed' = [l \in Lane |-> closed[l] \/ l[1] = pl]
  /\ phase' = "failed"
  /\ UNCHANGED <<pl, si, cancelled, subs, since, fanVars, queue, processed, overflow,
                 workVars>>

\* runPipeline returns the setup error: deferred cancel, then the process ends.
ExitOnError ==
  /\ phase = "failed"
  /\ phase' = "exited"
  /\ cancelled' = TRUE
  /\ UNCHANGED <<pl, si, subs, since, fanVars, chanVars, workVars>>

\* Mutant: shutdown closes the sink channels to drain the workers.
MutSignalCloses ==
  /\ phase = "wait"
  /\ phase' = "drain"
  /\ cancelled' = TRUE
  /\ closed' = [l \in Lane |-> TRUE]
  /\ UNCHANGED <<pl, si, subs, since, fanVars, queue, processed, overflow, workVars>>

\* SIGINT or SIGTERM.  The other case of the select, errChan, has no sender.
Signal ==
  /\ phase = "wait"
  /\ phase' = "drain"
  /\ cancelled' = TRUE
  /\ UNCHANGED <<pl, si, subs, since, fanVars, chanVars, workVars>>

\* wg.Wait() has returned: no goroutine is left.
AllDone ==
  /\ \A s \in SourceNames : fan[s] \in {"off", "done"}
  /\ \A w \in Worker : wst[w] \in {"off", "done"}

ShutdownComplete ==
  /\ phase = "drain"
  /\ AllDone
  /\ phase' = "exited"
  /\ UNCHANGED <<pl, si, cancelled, subs, since, fanVars, chanVars, workVars>>

\* Mutant: no time limit on the wait for the goroutines.
MutNoTimeout == phase = "drain" /\ FALSE /\ UNCHANGED vars

\* "Shutdown timed out after 10 seconds".
ShutdownTimeout ==
  /\ phase = "drain"
  /\ ~AllDone
  /\ phase' = "exited"
  /\ UNCHANGED <<pl, si, cancelled, subs, since, fanVars, chanVars, workVars>>

-----------------------------------------------------------------------------
(* Fan-out goroutine of source s: processSourceEventsWithFanout.           *)

\* The event in the fan-out's hands.
Cur(s) == [src |-> s, n |-> taken[s]]

\* The pipeline and the lane its loops stand at.
CurPL(s) == subs[s][sub[s]]
CurLane(s) == <<CurPL(s), Sinks[CurPL(s)][snk[s]]>>

\* case event, ok := <-eventsChan
Receive(s) ==
  /\ Alive /\ fan[s] = "select"
  /\ taken[s] < MaxEvents
  /\ taken' = [taken EXCEPT ![s] = @ + 1]
  /\ fan' = [fan EXCEPT ![s] = "lookup"]
  /\ UNCHANGED <<mainVars, snap, sub, snk, passed, filtered, chanVars, workVars>>

\* !ok: the connector closed its channel, e.g. the replication stream failed.
SourceClosed(s) ==
  /\ Alive /\ fan[s] = "select"
  /\ fan' = [fan EXCEPT ![s] = "done"]
  /\ UNCHANGED <<mainVars, taken, snap, sub, snk, passed, filtered, chanVars,
                 workVars>>

\* case <-ctx.Done()
FanCancelled(s) ==
  /\ Alive /\ fan[s] = "select"
  /\ cancelled
  /\ fan' = [fan EXCEPT ![s] = "done"]
  /\ UNCHANGED <<mainVars, taken, snap, sub, snk, passed, filtered, chanVars,
                 workVars>>

\* Mutant: the subscriptions are looked up once, when the fan-out starts, and
\* only the pipeline that connected the source has subscribed by then.
MutGetSubscriptionsOnce(s) ==
  /\ Alive /\ fan[s] = "lookup"
  /\ fan' = [fan EXCEPT ![s] = "fan"]
  /\ snap' = [snap EXCEPT ![s] = 1]
  /\ sub' = [sub EXCEPT ![s] = 1]
  /\ UNCHANGED <<mainVars, taken, snk, passed, filtered, chanVars, workVars>>

\* GetSubscriptions returns the slice as it is now; later appends are unseen.
GetSubscriptions(s) ==
  /\ Alive /\ fan[s] = "lookup"
  /\ fan' = [fan EXCEPT ![s] = "fan"]
  /\ snap' = [snap EXCEPT ![s] = Len(subs[s])]
  /\ sub' = [sub EXCEPT ![s] = 1]
  /\ UNCHANGED <<mainVars, taken, snk, passed, filtered, chanVars, workVars>>

\* The fan-out is in its loop over the snapshot.
InLoop(s) == Alive /\ fan[s] = "fan" /\ sub[s] <= snap[s]

\* ProcessEvent up to the transformations: an error or a nil result drops the
\* event for this pipeline, otherwise the loop over the sinks begins.
Transform(s) ==
  /\ InLoop(s) /\ snk[s] = 0
  /\ \/ /\ filtered' = [filtered EXCEPT ![CurPL(s)] = @ \cup {Cur(s)}]
        /\ sub' = [sub EXCEPT ![s] = @ + 1]
        /\ UNCHANGED <<snk, passed>>
     \/ /\ passed' = [passed EXCEPT ![CurPL(s)] = @ \cup {Cur(s)}]
        /\ IF Sinks[CurPL(s)] = <<>>
           THEN sub' = [sub EXCEPT ![s] = @ + 1] /\ UNCHANGED snk
           ELSE snk' = [snk EXCEPT ![s] = 1] /\ UNCHANGED sub
        /\ UNCHANGED filtered
  /\ UNCHANGED <<mainVars, fan, taken, snap, chanVars, workVars>>

\* Mutant: the metric is incremented whether or not the send succeeded.
MutCountAlways(l, e) ==
  /\ queue' = [queue EXCEPT ![l] = IF Len(@) < ChanCap THEN Append(@, e) ELSE @]
  /\ processed' = [processed EXCEPT ![l] = @ \cup {e}]
  /\ UNCHANGED overflow

\* Mutant: a full channel drops the event without a trace.
MutSilentDrop(l, e) ==
  IF Len(queue[l]) < ChanCap
  THEN /\ queue' = [queue EXCEPT ![l] = Append(@, e)]
       /\ processed' = [processed EXCEPT ![l] = @ \cup {e}]
       /\ UNCHANGED overflow
  ELSE UNCHANGED <<queue, processed, overflow>>

\* The non-blocking send of distributeToSinks.
TrySend(l, e) ==
  IF Len(queue[l]) < ChanCap
  THEN /\ queue' = [queue EXCEPT ![l] = Append(@, e)]
       /\ processed' = [processed EXCEPT ![l] = @ \cup {e}]
       /\ UNCHANGED overflow
  ELSE /\ overflow' = [overflow EXCEPT ![l] = @ \cup {e}]
       /\ UNCHANGED <<queue, processed>>

\* Mutant: the send waits for room in the channel.
MutDistributeBlocks(s) ==
  /\ InLoop(s) /\ snk[s] > 0
  /\ ~closed[CurLane(s)]
  /\ Len(queue[CurLane(s)]) < ChanCap
  /\ TrySend(CurLane(s), Cur(s))
  /\ IF snk[s] = Len(Sinks[CurPL(s)])
     THEN /\ snk' = [snk EXCEPT ![s] = 0]
          /\ sub' = [sub EXCEPT ![s] = @ + 1]
     ELSE /\ snk' = [snk EXCEPT ![s] = @ + 1]
          /\ UNCHANGED sub
  /\ UNCHANGED <<mainVars, fan, taken, snap, passed, filtered, closed, workVars>>

\* One iteration of distributeToSinks.
Distribute(s) ==
  /\ InLoop(s) /\ snk[s] > 0
  /\ ~closed[CurLane(s)]
  /\ TrySend(CurLane(s), Cur(s))
  /\ IF snk[s] = Len(Sinks[CurPL(s)])
     THEN /\ snk' = [snk EXCEPT ![s] = 0]
          /\ sub' = [sub EXCEPT ![s] = @ + 1]
     ELSE /\ snk' = [snk EXCEPT ![s] = @ + 1]
          /\ UNCHANGED sub
  /\ UNCHANGED <<mainVars, fan, taken, snap, passed, filtered, closed, workVars>>

\* A send on a closed channel panics, also inside a select with a default:
\* the whole process dies.
SendOnClosed(s) ==
  /\ InLoop(s) /\ snk[s] > 0
  /\ closed[CurLane(s)]
  /\ phase' = "crashed"
  /\ UNCHANGED <<pl, si, cancelled, subs, since, fanVars, chanVars, workVars>>

\* The loop over the snapshot ends: back to the select.
LoopEnd(s) ==
  /\ Alive /\ fan[s] = "fan" /\ sub[s] > snap[s]
  /\ fan' = [fan EXCEPT ![s] = "select"]
  /\ snap' = [snap EXCEPT ![s] = 0]
  /\ sub' = [sub EXCEPT ![s] = 0]
  /\ UNCHANGED <<mainVars, taken, snk, passed, filtered, chanVars, workVars>>

-----------------------------------------------------------------------------
(* Sink worker w = <<lane, i>>: processSinkEvents.                         *)

\* The worker stands at its select.
AtSelect(w) == Alive /\ wst[w] = "up" /\ hold[w] = {}

\* Mutant: the event stays in the channel while it is worked on.
MutWorkerPeek(w) ==
  /\ AtSelect(w)
  /\ queue[w[1]] # <<>>
  /\ hold' = [hold EXCEPT ![w] = {Head(queue[w[1]])}]
  /\ UNCHANGED <<mainVars, fanVars, chanVars, wst, published, pubErrors,
                 sinkDropped>>

\* case event, ok := <-ch
WorkerReceive(w) ==
  /\ AtSelect(w)
  /\ queue[w[1]] # <<>>
  /\ hold' = [hold EXCEPT ![w] = {Head(queue[w[1]])}]
  /\ queue' = [queue EXCEPT ![w[1]] = Tail(@)]
  /\ UNCHANGED <<mainVars, fanVars, closed, processed, overflow, wst,
                 published, pubErrors, sinkDropped>>

\* !ok: the channel is closed and drained; or ctx is done.
WorkerExit(w) ==
  /\ AtSelect(w)
  /\ \/ closed[w[1]] /\ queue[w[1]] = <<>>
     \/ cancelled
  /\ wst' = [wst EXCEPT ![w] = "done"]
  /\ UNCHANGED <<mainVars, fanVars, chanVars, hold, published, pubErrors,
                 sinkDropped>>

\* The sink's transformations fail or return nil: continue.
WorkerDrop(w) ==
  /\ Alive
  /\ \E e \in hold[w] :
        sinkDropped' = [sinkDropped EXCEPT ![w[1]] = @ \cup {e}]
  /\ hold' = [hold EXCEPT ![w] = {}]
  /\ UNCHANGED <<mainVars, fanVars, chanVars, wst, published, pubErrors>>

\* Mutant: a failed Pub is retried by the worker after it was counted.
MutPublishRetries(w) ==
  /\ Alive
  /\ \E e \in hold[w] :
        \/ /\ published' = [published EXCEPT ![w[1]] = @ \cup {e}]
           /\ hold' = [hold EXCEPT ![w] = {}]
           /\ UNCHANGED pubErrors
        \/ /\ pubErrors' = [pubErrors EXCEPT ![w[1]] = @ \cup {e}]
           /\ UNCHANGED <<published, hold>>
  /\ UNCHANGED <<mainVars, fanVars, chanVars, wst, sinkDropped>>

\* Mutant: a failed Pub puts the event back at the end of the channel.
MutPublishRequeues(w) ==
  /\ Alive
  /\ \E e \in hold[w] :
        \/ /\ published' = [published EXCEPT ![w[1]] = @ \cup {e}]
           /\ UNCHANGED queue
        \/ /\ Len(queue[w[1]]) < ChanCap
           /\ queue' = [queue EXCEPT ![w[1]] = Append(@, e)]
           /\ UNCHANGED published
  /\ hold' = [hold EXCEPT ![w] = {}]
  /\ UNCHANGED <<mainVars, fanVars, closed, processed, overflow, wst, pubErrors,
                 sinkDropped>>

\* Pub returns: accepted by the peer, or an error that is counted and logged.
WorkerPublish(w) ==
  /\ Alive
  /\ \E e \in hold[w] :
        \/ /\ published' = [published EXCEPT ![w[1]] = @ \cup {e}]
           /\ UNCHANGED pubErrors
        \/ /\ pubErrors' = [pubErrors EXCEPT ![w[1]] = @ \cup {e}]
           /\ UNCHANGED published
  /\ hold' = [hold EXCEPT ![w] = {}]
  /\ UNCHANGED <<mainVars, fanVars, chanVars, wst, sinkDropped>>

-----------------------------------------------------------------------------
MainSetup == Subscribe \/ Connect \/ SetupSinks \/ CloseSinkChannels
MainEnd   == ExitOnError \/ ShutdownComplete \/ ShutdownTimeout

FanStep(s) ==
  \/ GetSubscriptions(s) \/ Transform(s) \/ Distribute(s)
  \/ SendOnClosed(s) \/ LoopEnd(s)

WorkerFinish(w) == WorkerDrop(w) \/ WorkerPublish(w)

Next ==
  \/ MainSetup \/ MainEnd \/ Signal
  \/ \E s \in SourceNames :
        Receive(s) \/ SourceClosed(s) \/ FanCancelled(s) \/ FanStep(s)
  \/ \E w \in Worker :
        WorkerReceive(w) \/ WorkerExit(w) \/ WorkerFinish(w)

Spec == Init /\ [][Next]_vars

\* What the Go scheduler and the timer guarantee: a goroutine that can run
\* does.  Not guaranteed: that events arrive, that a source's channel closes,
\* that a signal comes, or that Pub returns for a peer in Blocking.
Fairness ==
  /\ WF_vars(MainSetup) /\ WF_vars(MainEnd)
  /\ \A s \in SourceNames : WF_vars(FanStep(s)) /\ WF_vars(FanCancelled(s))
  /\ \A w \in Worker : WF_vars(WorkerReceive(w) \/ WorkerExit(w))
  /\ \A w \in {v \in Worker : v[1][2] \notin Blocking} :
        WF_vars(WorkerFinish(w))

FairSpec == Spec /\ Fairness
-----------------------------------------------------------------------------
\* Everything a lane's workers have taken out of its channel and finished.
Finished(l) == published[l] \cup pubErrors[l] \cup sinkDropped[l]

\* Everything they still hold.
Held(l) == UNION {hold[w] : w \in {v \in Worker : v[1] = l}}

\* Types of the variables of the main goroutine, the fan-outs, the channels
\* and the workers.
TypeOK ==
  /\ phase \in Phase
  /\ pl \in Nat \ {0} /\ si \in Nat \ {0}
  /\ cancelled \in BOOLEAN
  /\ subs \in [SourceNames -> Seq(PL)]
  /\ since \in [SourceNames -> Seq(Int)]
  /\ fan \in [SourceNames -> {"off", "select", "lookup", "fan", "done"}]
  /\ taken \in [SourceNames -> 0..MaxEvents]
  /\ snap \in [SourceNames -> Nat]
  /\ sub \in [SourceNames -> Nat]
  /\ snk \in [SourceNames -> Nat]
  /\ passed \in [PL -> SUBSET Event]
  /\ filtered \in [PL -> SUBSET Event]
  /\ queue \in [Lane -> Seq(Event)]
  /\ closed \in [Lane -> BOOLEAN]
  /\ processed \in [Lane -> SUBSET Event]
  /\ overflow \in [Lane -> SUBSET Event]
  /\ wst \in [Worker -> {"off", "up", "done"}]
  /\ hold \in [Worker -> SUBSET Event]
  /\ published \in [Lane -> SUBSET Event]
  /\ pubErrors \in [Lane -> SUBSET Event]
  /\ sinkDropped \in [Lane -> SUBSET Event]

-----------------------------------------------------------------------------
(* Safety of the event path.                                               *)

\* Conservation: what the ProcessedEvents metric counted for a sink is in its
\* channel, in a worker's hands, or finished.  Several workers receive from
\* one channel, the fan-outs of all the pipeline's sources send to it.
ProcessedAccounted ==
  \A l \in Lane :
     processed[l] = Names(queue[l]) \cup Held(l) \cup Finished(l)

\* At most once: no event is in the channel, with a worker or finished twice,
\* whatever the workers' interleaving, so Pub is called once per sink at most.
OnePlacePerEvent ==
  \A l \in Lane :
     /\ Distinct(queue[l])
     /\ Names(queue[l]) \cap (Held(l) \cup Finished(l)) = {}
     /\ Held(l) \cap Finished(l) = {}
     /\ published[l] \cap (pubErrors[l] \cup sinkDropped[l]) = {}
     /\ pubErrors[l] \cap sinkDropped[l] = {}
     /\ \A v, w \in Worker :
           v[1] = l /\ w[1] = l /\ v # w => hold[v] \cap hold[w] = {}

\* Per source, a channel is in source order and everything that left it is
\* older than everything in it: reordering at a sink can only come from its
\* workers overtaking one another, never from the fan-out or the channel.
ChannelInSourceOrder ==
  \A l \in Lane :
     /\ \A i, j \in 1..Len(queue[l]) :
           i < j /\ queue[l][i].src = queue[l][j].src
              => queue[l][i].n < queue[l][j].n
     /\ \A e \in Held(l) \cup Finished(l), j \in 1..Len(queue[l]) :
           e.src = queue[l][j].src => e.n < queue[l][j].n

\* The lanes fan-out s has still to offer its current event to.
Pending(s) ==
  IF fan[s] = "fan" /\ sub[s] <= snap[s] /\ snk[s] > 0
  THEN {<<CurPL(s), Sinks[CurPL(s)][j]>> : j \in snk[s]..Len(Sinks[CurPL(s)])}
  ELSE {}

\* No silent loss in the fan-out: an event that passed a pipeline's
\* transformations was, for each of its sinks, counted as processed or logged
\* as dropped on a full channel, never both, unless distributeToSinks has not
\* come to that sink yet; and nothing reaches a sink without having passed.
PassedAccounted ==
  \A l \in Lane :
     /\ processed[l] \cap overflow[l] = {}
     /\ processed[l] \cup overflow[l] \subseteq passed[l[1]]
     /\ \A e \in passed[l[1]] \ (processed[l] \cup overflow[l]) :
           e = Cur(e.src) /\ l \in Pending(e.src)

\* Only a setup that failed can kill the process by a send on a closed
\* channel: once every pipeline is set up no fan-out meets a closed channel.
PanicOnlyInFailedSetup ==
  phase = "crashed" => pl <= NPipelines /\ \E l \in Lane : closed[l] /\ l[1] = pl

\* Events whose transformations pipeline p has run.
Offered(p) == passed[p] \cup filtered[p]

\* Fan-out s will still come to its i-th subscription with the current event.
YetToOffer(s, i) ==
  \/ fan[s] = "lookup"
  \/ /\ fan[s] = "fan" /\ i <= snap[s] /\ sub[s] <= i
     /\ sub[s] = i => snk[s] = 0

\* Pipelines subscribe while fan-outs already run.  A pipeline misses exactly
\* the events whose subscriptions were looked up before it subscribed: it is
\* offered none of those, and it has been offered every later one, but for the
\* event under way that the fan-out still has to bring to it.  A source's
\* first subscriber misses nothing.
OffersAreSuffix ==
  \A s \in SourceNames : \A i \in 1..Len(subs[s]) :
     /\ i = 1 => since[s][i] = 0
     /\ \A n \in 1..taken[s] :
           IF n <= since[s][i]
           THEN [src |-> s, n |-> n] \notin Offered(subs[s][i])
           ELSE \/ [src |-> s, n |-> n] \in Offered(subs[s][i])
                \/ n = taken[s] /\ YetToOffer(s, i)

-----------------------------------------------------------------------------
(* Liveness.                                                               *)

\* A fan-out never waits for a sink: an event it received is handed to every
\* subscription even if a sink's Pub blocks for ever.
FanoutNeverStuck ==
  \A s \in SourceNames :
     (fan[s] \in {"lookup", "fan"}) ~> (fan[s] = "select" \/ ~Alive)

\* A termination signal ends the process, even with a Pub that never returns.
SignalEndsProcess == (phase = "drain") ~> (phase = "exited")

\* What runPipeline says of itself, "Wait for shutdown signal or error": when
\* a source's stream has ended the process does not stay in that wait for ever.
SourceErrorEndsWait ==
  \A s \in SourceNames :
     (phase = "wait" /\ fan[s] = "done") ~> (phase # "wait")

-----------------------------------------------------------------------------
(* Refinement: every lane keeps the promise of LaneDelivery.               *)

Delivery == INSTANCE LaneDelivery
  WITH accepted  <- processed,
       delivered <- published,
       givenUp   <- [l \in Lane |-> pubErrors[l] \cup sinkDropped[l]]

\* The process implements the abstract at-most-once, source-ordered delivery.
ImplementsDelivery == Delivery!Spec
=============================================================================
