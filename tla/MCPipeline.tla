----------------------------- MODULE MCPipeline -----------------------------
(***************************************************************************)
(* Configurations of the pipeline process for TLC.                         *)
(***************************************************************************)
EXTENDS Pipeline

\* One source shared by two pipelines, like the example configuration's
\* postgres-source; the second pipeline also names a sink no peer has, so its
\* setup fails while the first one runs.
SharedSources == <<<<"pg">>, <<"pg">>>>
SharedSinks   == <<<<"kafka">>, <<"debug", "typo">>>>

\* One pipeline with two sources and one sink: three workers.
JoinSources == <<<<"pg", "mqtt">>>>
JoinSinks   == <<<<"kafka">>>>

\* One pipeline whose only sink may block for ever.
OneSource == <<<<"pg">>>>
OneSink   == <<<<"grpc">>>>

\* One source shared by two pipelines; the first one's sink may block.
ReachSinks == <<<<"grpc">>, <<"kafka">>>>
=============================================================================
