------------------------------- MODULE Peers --------------------------------
(***************************************************************************)
(* The peers of the pipelines together: Manager.Init (PeerRegistry), the   *)
(* events on their way to the PostgreSQL sink (SinkDelivery), the NATS     *)
(* peer, the gRPC peer, and the PostgreSQL source's publication.  They     *)
(* share no state, so a behaviour is about one of them, its focus; the     *)
(* others do not move.                                                     *)
(***************************************************************************)
EXTENDS PeerRegistry, SinkDelivery

CONSTANTS
  NatsMessages, Undecodable, MaxDeliver, FetchSize, NatsCap, MaxLoss, MaxCrashes,
  GrpcEvents, Workers, Clients, GrpcCap, Window,
  Procs, Configs, AllTables, Versions, Starred, Creatable

VARIABLES
  focus,
  server, nstream, nphase, state, deliveries, batch, pushed, nevents, consumed, queued, refused, stranded,
  dropped, unacked, cut, swept, lost, crashes,
  up, mu, given, pubs, sent, gevents, gstream, held, wire, recv, gout, got,
  version, tables, pub, conf, ppc, genBy

nats == <<server, nstream, nphase, state, deliveries, batch, pushed, nevents, consumed, queued, refused,
          stranded, dropped, unacked, cut, swept, lost, crashes>>
grpc == <<up, mu, given, pubs, sent, gevents, gstream, held, wire, recv, gout, got>>
publication == <<version, tables, pub, conf, ppc, genBy>>
all == <<focus, vars, sinkVars, nats, grpc, publication>>

Nats == INSTANCE NatsPeer WITH
  Messages <- NatsMessages, EventsCap <- NatsCap, stream <- nstream, phase <- nphase, events <- nevents
Grpc == INSTANCE GrpcPeer WITH
  Events <- GrpcEvents, EventsCap <- GrpcCap, stream <- gstream, events <- gevents, out <- gout
Pg == INSTANCE Publication WITH pc <- ppc

ASSUME NatsAssumption == Nats!Limits
ASSUME GrpcAssumption == Grpc!Setting
ASSUME PublicationAssumption == Pg!Setting
-----------------------------------------------------------------------------
\* A part that the behaviour is not about.
NatsOff == server = "off" /\ nstream = "off" /\ nphase = "off" /\ state = "off" /\ deliveries = "off"
  /\ batch = "off" /\ pushed = "off" /\ nevents = "off" /\ consumed = "off" /\ queued = "off"
  /\ refused = "off" /\ stranded = "off" /\ dropped = "off" /\ unacked = "off" /\ cut = "off"
  /\ swept = "off" /\ lost = "off" /\ crashes = "off"
GrpcOff == up = "off" /\ mu = "off" /\ given = "off" /\ pubs = "off" /\ sent = "off" /\ gevents = "off"
  /\ gstream = "off" /\ held = "off" /\ wire = "off" /\ recv = "off" /\ gout = "off" /\ got = "off"
PublicationOff == version = "off" /\ tables = "off" /\ pub = "off" /\ conf = "off" /\ ppc = "off" /\ genBy = "off"

PeersInit ==
  /\ Init
  /\ \/ focus = "registry" /\ NoPipeline /\ NatsOff /\ GrpcOff /\ PublicationOff
     \/ focus = "sink" /\ SinkInit /\ NatsOff /\ GrpcOff /\ PublicationOff
     \/ focus = "nats" /\ NoPipeline /\ Nats!Init /\ GrpcOff /\ PublicationOff
     \/ focus = "grpc" /\ NoPipeline /\ NatsOff /\ Grpc!Init /\ PublicationOff
     \/ focus = "publication" /\ NoPipeline /\ NatsOff /\ GrpcOff /\ Pg!Init
PeersNext ==
  /\ UNCHANGED focus
  /\ \/ focus = "registry" /\ Next /\ UNCHANGED <<sinkVars, nats, grpc, publication>>
     \/ focus = "sink" /\ SinkNext /\ UNCHANGED <<vars, nats, grpc, publication>>
     \/ focus = "nats" /\ Nats!Next /\ UNCHANGED <<vars, sinkVars, grpc, publication>>
     \/ focus = "grpc" /\ Grpc!Next /\ UNCHANGED <<vars, sinkVars, nats, publication>>
     \/ focus = "publication" /\ Pg!Next /\ UNCHANGED <<vars, sinkVars, nats, grpc>>
PeersSpec == PeersInit /\ [][PeersNext]_all
-----------------------------------------------------------------------------
\* A NATS message is lost only to refused, cut off or dropped deliveries or to a
\* crash, and comes twice only after an ack that failed to arrive in time or was
\* never sent (EveryLossHasACause of NatsPeer).
EveryLossHasACause == focus = "nats" => Nats!EveryLossHasACause

\* The clients of a gRPC server share its events, each in the order Pub sent
\* them (ClientsShareInOrder of GrpcPeer).
ClientsShareInOrder == focus = "grpc" => Grpc!ClientsShareInOrder

\* A stream carries what the creator of its publication listed (StreamsItsList
\* of Publication).
StreamsItsList == focus = "publication" => Pg!StreamsItsList
=============================================================================
