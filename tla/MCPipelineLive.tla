--------------------------- MODULE MCPipelineLive ---------------------------
(***************************************************************************)
(* The liveness of the pipeline process in two configurations that share   *)
(* the source pg.  The one of the .cfg has a single pipeline whose sink    *)
(* may block for ever and enough events to fill its channel; in Two, two   *)
(* pipelines subscribe to pg and the sink of the first one may block.  A   *)
(* behaviour is about one or the other.                                    *)
(***************************************************************************)
EXTENDS MCPipeline

VARIABLE one \* this behaviour is about the configuration of the .cfg

Two == INSTANCE Pipeline WITH
         Peers <- {"pg", "grpc", "kafka"}, NPipelines <- 2,
         Sources <- SharedSources, Sinks <- ReachSinks, MaxEvents <- 1

LiveInit == (one = TRUE /\ Init) \/ (one = FALSE /\ Two!Init)
LiveNext == UNCHANGED one /\ ((one /\ Next) \/ (~one /\ Two!Next))

\* The fairness of Pipeline, each configuration's for its own behaviours.
LiveFairness ==
  /\ WF_vars(one /\ MainSetup) /\ WF_vars(one /\ MainEnd)
  /\ WF_vars(one /\ FanStep("pg")) /\ WF_vars(one /\ FanCancelled("pg"))
  /\ \A w \in Worker : WF_vars(one /\ (WorkerReceive(w) \/ WorkerExit(w)))
  /\ WF_vars(~one /\ Two!MainSetup) /\ WF_vars(~one /\ Two!MainEnd)
  /\ WF_vars(~one /\ Two!FanStep("pg")) /\ WF_vars(~one /\ Two!FanCancelled("pg"))
  /\ \A w \in Two!Worker : WF_vars(~one /\ (Two!WorkerReceive(w) \/ Two!WorkerExit(w)))
  /\ \A w \in {v \in Two!Worker : v[1][2] \notin Blocking} : WF_vars(~one /\ Two!WorkerFinish(w))

LiveSpec == LiveInit /\ [][LiveNext]_<<vars, one>> /\ LiveFairness
-----------------------------------------------------------------------------
\* After setup, an event received from a source is offered to every pipeline
\* that lists the source, even if the first one's sink blocks for ever
\* (processSourceEventsWithFanout).
FanoutReachesAll ==
  (~one /\ phase = "wait" /\ fan["pg"] = "lookup")
     ~> (one \/ ~Alive \/ \A p \in Two!PL : [src |-> "pg", n |-> 1] \in passed[p] \cup filtered[p])
=============================================================================
