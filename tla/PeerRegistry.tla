---------------------------- MODULE PeerRegistry ----------------------------
(***************************************************************************)
(* Manager.Init (pkg/pipeline/manager.go): the configured peers are added  *)
(* and connected one after the other.  Connectors live in one registry     *)
(* (connector.go, peer.go): all peers that name the same connector share   *)
(* its instance, and Connect merges the peer's configuration into it.      *)
(*                                                                         *)
(* A setting is a field of an instance that Connect may write: addresses,  *)
(* prefix, stream, rewriter, connection, pool.  nats and postgres decode   *)
(* into the configuration that is there, so a field the peer leaves out    *)
(* keeps its value; mqtt replaces all but the topic rewriter; postgres     *)
(* makes a connection for a source and a pool for a sink, never both.      *)
(***************************************************************************)
EXTENDS Naturals, Sequences

CONSTANTS
  PeerList,    \* configured peers in order: [name, connector, writes], where
               \* writes has the settings their Connect writes in any case
  Registered,  \* connectors in the registry
  Settings,    \* fields of an instance
  Fills,       \* Fills[c]: settings that Connect gives a default if they are empty
  Nobody       \* a setting that was never written

Retries == 3 \* len(delays)

ASSUME PeerAssumption ==
  /\ PeerList \in Seq([name : STRING, connector : STRING, writes : SUBSET Settings])
  /\ \A i, j \in 1..Len(PeerList) : PeerList[i].name = PeerList[j].name => i = j
  /\ Nobody \notin {PeerList[i].name : i \in 1..Len(PeerList)}
  /\ Fills \in [Registered -> SUBSET Settings]

VARIABLES
  phase,    \* "add", "connect", "ready", "failed"
  idx,      \* the peer Init is at
  attempts, \* Connect calls for it
  peers,    \* names in Manager.peers
  holds,    \* holds[c][s]: the peer whose Connect wrote setting s of instance c
  linked,   \* peers whose own Connect returned nil
  sentTo    \* sentTo[i]: the configurations events for peer i went out under

vars == <<phase, idx, attempts, peers, holds, linked, sentTo>>

Peer == PeerList[idx]

Init ==
  /\ phase = IF PeerList = <<>> THEN "ready" ELSE "add"
  /\ idx = 1 /\ attempts = 0
  /\ peers = {} /\ linked = {}
  /\ holds = [c \in Registered |-> [s \in Settings |-> Nobody]]
  /\ sentTo = [i \in 1..Len(PeerList) |-> {}]

\* AddPeer: the connector must be registered.
AddPeer ==
  /\ phase = "add"
  /\ IF Peer.connector \in Registered
     THEN peers' = peers \cup {Peer.name} /\ phase' = "connect"
     ELSE UNCHANGED peers /\ phase' = "failed"
  /\ UNCHANGED <<idx, attempts, holds, linked, sentTo>>

\* The settings of the instance that this peer's Connect writes: its own, and
\* the defaults of those nobody has written.
Written == Peer.writes \cup {s \in Fills[Peer.connector] : holds[Peer.connector][s] = Nobody}

\* The registry after Connect wrote the settings W.
Merged(W) == [holds EXCEPT ![Peer.connector] = [s \in Settings |-> IF s \in W THEN Peer.name ELSE @[s]]]

\* Connect succeeds: the settings it does not write keep what an earlier peer
\* of the connector left there.
ConnectOk ==
  /\ phase = "connect"
  /\ holds' = Merged(Written)
  /\ linked' = linked \cup {Peer.name}
  /\ attempts' = 0
  /\ idx' = idx + 1
  /\ phase' = IF idx < Len(PeerList) THEN "add" ELSE "ready"
  /\ UNCHANGED <<peers, sentTo>>

\* Mutant: after the retries Init goes on with the next peer.
MutConnectFails ==
  /\ phase = "connect"
  /\ UNCHANGED <<holds, linked, peers, sentTo>>
  /\ IF attempts < Retries
     THEN attempts' = attempts + 1 /\ UNCHANGED <<idx, phase>>
     ELSE /\ attempts' = 0
          /\ idx' = idx + 1
          /\ phase' = IF idx < Len(PeerList) THEN "add" ELSE "ready"

\* Connect fails after it wrote some of them.  Three more attempts follow, with
\* growing delays, then Init returns the error.
ConnectFails ==
  /\ phase = "connect"
  /\ \E W \in SUBSET Written : holds' = Merged(W)
  /\ attempts' = attempts + 1
  /\ phase' = IF attempts < Retries THEN "connect" ELSE "failed"
  /\ UNCHANGED <<idx, peers, linked, sentTo>>

\* A sink worker publishes through peer i: GetPeer, then the registry's
\* instance of its connector.
Publish(i) ==
  /\ phase = "ready"
  /\ PeerList[i].name \in peers
  /\ sentTo' = [sentTo EXCEPT ![i] = @ \cup {holds[PeerList[i].connector]}]
  /\ UNCHANGED <<phase, idx, attempts, peers, holds, linked>>

InitStep == AddPeer \/ ConnectOk \/ ConnectFails

Next == InitStep \/ \E i \in 1..Len(PeerList) : Publish(i)

Spec == Init /\ [][Next]_vars

\* Connect returns: every attempt ends in success or in an error.
FairSpec == Spec /\ WF_vars(InitStep)
-----------------------------------------------------------------------------
\* The peers of connector c that write its setting s; a default is filled in by
\* the first of them.
Writers(c, s) ==
  {j \in 1..Len(PeerList) :
     /\ PeerList[j].connector = c
     /\ \/ s \in PeerList[j].writes
        \/ /\ s \in Fills[c]
           /\ \A k \in 1..Len(PeerList) : PeerList[k].connector = c => j <= k}

\* Events go out only when every peer of the table is connected, and then each
\* setting of the instance is the one of the last peer of that connector that
\* writes it, whatever attempts failed half way before: what a later peer
\* leaves out is an earlier one's, and a peer alone on its connector gets
\* exactly its own configuration.
SentUnderLinkedConfig ==
  \A i \in 1..Len(PeerList) : \A h \in sentTo[i] :
     /\ linked = peers /\ \A j \in 1..Len(PeerList) : PeerList[j].name \in linked
     /\ \A s \in Settings :
          LET W == Writers(PeerList[i].connector, s)
          IN \/ W = {} /\ h[s] = Nobody
             \/ \E j \in W : h[s] = PeerList[j].name /\ \A k \in W : k <= j

\* What Init says it does, "Initialize each peer with its configuration": an
\* event for a peer goes out under the settings that peer configures.
SentUnderOwnConfig ==
  \A i \in 1..Len(PeerList) : \A h \in sentTo[i] :
     \A s \in PeerList[i].writes : h[s] = PeerList[i].name
=============================================================================
