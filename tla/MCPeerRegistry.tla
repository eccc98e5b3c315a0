--------------------------- MODULE MCPeerRegistry ---------------------------
(***************************************************************************)
(* Peer lists for TLC, after pkg/config/example.config.yaml.               *)
(***************************************************************************)
EXTENDS PeerRegistry

Named(n, c, w) == [name |-> n, connector |-> c, writes |-> w]

MCSettings == {"address", "prefix", "stream", "rewriter", "conn", "pool"}

\* NATS alone fills in a default only where the instance has nothing.
MCFills == [c \in Registered |-> IF c = "nats" THEN {"address", "prefix", "stream"} ELSE {}]

\* The example's shape, mqtt, grpc and postgres with two peers each (only the
\* first mqtt peer has topicRewrites), and a second nats peer that names only
\* its prefix.
ExamplePeers ==
  <<Named("postgres-source", "postgres", {"conn"}),
    Named("mqtt-default", "mqtt", {"address", "prefix", "rewriter"}),
    Named("kafka-default", "kafka", {"address", "prefix"}),
    Named("debug", "debug", {}),
    Named("postgres-sink", "postgres", {"pool"}),
    Named("mqtt-source", "mqtt", {"address", "prefix"}),
    Named("grpc-server", "grpc", {"address"}), Named("grpc-client", "grpc", {"address"}),
    Named("nats-default", "nats", {"address"}), Named("nats-orders", "nats", {"prefix"})>>
=============================================================================
