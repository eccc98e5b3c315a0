------------------------------ MODULE GrpcPeer ------------------------------
(***************************************************************************)
(* The gRPC peer (pkg/pipeline/peer/grpc/peer.go): sink workers publish    *)
(* into one bounded channel, from which the Stream handlers of all clients *)
(* take; at the other end Sub's goroutine turns what a stream brings into  *)
(* events.  A name is the sequence of its dot-separated parts.             *)
(***************************************************************************)
EXTENDS Naturals, Sequences, FiniteSets

CONSTANTS
  Events,     \* what is published, in order: [schema, table, op, after]
  Workers,    \* sink workers of the server's pipelines
  Clients,    \* client processes
  EventsCap,  \* capacity of the events channels
  Window      \* bound: messages in flight on a stream

Nothing == 0   \* no event; events are numbered by their place in Events

\* The published events, and workers that are told apart from "nobody".
Setting ==
  /\ Events \in Seq([schema : Seq(STRING), table : Seq(STRING), op : STRING, after : STRING])
  /\ Nothing \notin Workers

VARIABLES
  up,       \* whether the server listens
  mu,       \* the worker that holds the mutex, or Nothing
  given,    \* how many events the workers have taken from the sink channel
  pubs,     \* worker -> the event it publishes, or Nothing
  sent,     \* the events in the order Pub put them into the channel
  events,   \* the server's channel
  stream,   \* client -> its stream: "none", "dialed", "open", "broken", "ended"
  held,     \* client -> the event its Stream handler took, or Nothing
  wire,     \* client -> messages in flight: [no, table, data]
  recv,     \* client -> the event its Sub goroutine puts into the channel, as a sequence
  out,      \* client -> the channel its Sub returned
  got       \* client -> what its pipeline received

vars == <<up, mu, given, pubs, sent, events, stream, held, wire, recv, out, got>>

Init ==
  /\ up = FALSE /\ mu = Nothing /\ given = 0 /\ sent = <<>> /\ events = <<>>
  /\ pubs = [w \in Workers |-> Nothing]
  /\ stream = [c \in Clients |-> "none"]
  /\ held = [c \in Clients |-> Nothing]
  /\ wire = [c \in Clients |-> <<>>] /\ recv = [c \in Clients |-> <<>>]
  /\ out = [c \in Clients |-> <<>>] /\ got = [c \in Clients |-> <<>>]
-----------------------------------------------------------------------------
\* The server.

\* Connect and startServer: the pipelines start once the server listens.
StartServer ==
  /\ ~up /\ up' = TRUE
  /\ UNCHANGED <<mu, given, pubs, sent, events, stream, held, wire, recv, out, got>>

\* A sink worker takes the next event and calls Pub.
PubCall(w) ==
  /\ up /\ pubs[w] = Nothing /\ given < Len(Events)
  /\ given' = given + 1
  /\ pubs' = [pubs EXCEPT ![w] = given + 1]
  /\ UNCHANGED <<up, mu, sent, events, stream, held, wire, recv, out, got>>

PubLock(w) ==
  /\ pubs[w] # Nothing /\ mu = Nothing
  /\ mu' = w
  /\ UNCHANGED <<up, given, pubs, sent, events, stream, held, wire, recv, out, got>>

\* The send blocks while the channel is full, the mutex held.
PubSend(w) ==
  /\ mu = w /\ Len(events) < EventsCap
  /\ events' = Append(events, pubs[w]) /\ sent' = Append(sent, pubs[w])
  /\ mu' = Nothing /\ pubs' = [pubs EXCEPT ![w] = Nothing]
  /\ UNCHANGED <<up, given, stream, held, wire, recv, out, got>>

\* Mutant: each client's handler only looks at the head of the channel.
MutStreamTake(c) ==
  /\ stream[c] = "open" /\ held[c] = Nothing /\ events # <<>>
  /\ held' = [held EXCEPT ![c] = Head(events)]
  /\ events' = IF \E d \in Clients \ {c} : held[d] # Head(events) THEN events ELSE Tail(events)
  /\ UNCHANGED <<up, mu, given, pubs, sent, stream, wire, recv, out, got>>

\* Stream's range takes the next event, whichever client's handler is first.
\* A handler whose client has gone does not notice until it sends.
StreamTake(c) ==
  /\ stream[c] \in {"open", "broken"} /\ held[c] = Nothing /\ events # <<>>
  /\ held' = [held EXCEPT ![c] = Head(events)] /\ events' = Tail(events)
  /\ UNCHANGED <<up, mu, given, pubs, sent, stream, wire, recv, out, got>>

\* An event without an after image is passed over, as is one that does not
\* marshal.
HasData(no) == Events[no].after \notin {"nil", "unmarshallable"}
StreamSkip(c) ==
  /\ held[c] # Nothing /\ ~HasData(held[c])
  /\ held' = [held EXCEPT ![c] = Nothing]
  /\ UNCHANGED <<up, mu, given, pubs, sent, events, stream, wire, recv, out, got>>

Message(no) == [no |-> no, table |-> Events[no].schema \o Events[no].table, data |-> Events[no].after]
StreamSend(c) ==
  /\ held[c] # Nothing /\ HasData(held[c])
  /\ stream[c] = "open" /\ Len(wire[c]) < Window
  /\ wire' = [wire EXCEPT ![c] = Append(@, Message(held[c]))]
  /\ held' = [held EXCEPT ![c] = Nothing]
  /\ UNCHANGED <<up, mu, given, pubs, sent, events, stream, recv, out, got>>

\* Send fails: Stream returns, the event it held is lost.
StreamEnds(c) ==
  /\ stream[c] = "broken" /\ held[c] # Nothing /\ HasData(held[c])
  /\ stream' = [stream EXCEPT ![c] = "ended"]
  /\ held' = [held EXCEPT ![c] = Nothing]
  /\ UNCHANGED <<up, mu, given, pubs, sent, events, wire, recv, out, got>>
-----------------------------------------------------------------------------
\* A client process.

\* connectClient: NewClient only prepares the connection.
ConnectClient(c) ==
  /\ stream[c] = "none"
  /\ stream' = [stream EXCEPT ![c] = "dialed"]
  /\ UNCHANGED <<up, mu, given, pubs, sent, events, held, wire, recv, out, got>>

\* Sub opens the stream, once.
Sub(c) ==
  /\ up /\ stream[c] = "dialed"
  /\ stream' = [stream EXCEPT ![c] = "open"]
  /\ UNCHANGED <<up, mu, given, pubs, sent, events, held, wire, recv, out, got>>

\* The table a message names: "schema.table", and public for anything else.
NamedTable(parts) ==
  IF Len(parts) = 2 THEN [schema |-> <<parts[1]>>, table |-> <<parts[2]>>]
  ELSE [schema |-> <<"public">>, table |-> <<parts[1]>>]

\* Recv: whatever the operation was, the event becomes a create.
Recv(c) ==
  /\ wire[c] # <<>> /\ recv[c] = <<>>
  /\ LET m == Head(wire[c]) IN
       recv' = [recv EXCEPT ![c] = <<[no |-> m.no, name |-> NamedTable(m.table), op |-> "c", after |-> m.data]>>]
  /\ wire' = [wire EXCEPT ![c] = Tail(@)]
  /\ UNCHANGED <<up, mu, given, pubs, sent, events, stream, held, out, got>>

\* The send into the client's channel blocks while it is full.
Enqueue(c) ==
  /\ recv[c] # <<>> /\ Len(out[c]) < EventsCap
  /\ out' = [out EXCEPT ![c] = Append(@, recv[c][1])]
  /\ recv' = [recv EXCEPT ![c] = <<>>]
  /\ UNCHANGED <<up, mu, given, pubs, sent, events, stream, held, wire, got>>

Consume(c) ==
  /\ out[c] # <<>>
  /\ got' = [got EXCEPT ![c] = Append(@, Head(out[c]))] /\ out' = [out EXCEPT ![c] = Tail(@)]
  /\ UNCHANGED <<up, mu, given, pubs, sent, events, stream, held, wire, recv>>

\* The connection breaks: what is in flight is lost, and Recv's error ends the
\* client's goroutine.
Break(c) ==
  /\ stream[c] = "open"
  /\ stream' = [stream EXCEPT ![c] = "broken"]
  /\ wire' = [wire EXCEPT ![c] = <<>>]
  /\ UNCHANGED <<up, mu, given, pubs, sent, events, held, recv, out, got>>

Next ==
  \/ StartServer
  \/ \E w \in Workers : PubCall(w) \/ PubLock(w) \/ PubSend(w)
  \/ \E c \in Clients : \/ StreamTake(c) \/ StreamSkip(c) \/ StreamSend(c) \/ StreamEnds(c)
                        \/ ConnectClient(c) \/ Sub(c) \/ Recv(c) \/ Enqueue(c) \/ Consume(c) \/ Break(c)

Spec == Init /\ [][Next]_vars
-----------------------------------------------------------------------------
\* The events on their way to a client's pipeline, oldest first.
Way(c) == LET no(s) == [i \in DOMAIN s |-> s[i].no]
          IN  no(got[c]) \o no(out[c]) \o no(recv[c]) \o no(wire[c])
              \o (IF held[c] = Nothing THEN <<>> ELSE <<held[c]>>)

Place(no) == CHOOSE i \in DOMAIN sent : sent[i] = no

\* Clients share the events, they do not all get them: each event reaches at
\* most one of them, each client sees its share in the order Pub sent it, and
\* what arrives has the event's data and, for names without dots, its table.
\* An event is missing only because it had no after image or a client's stream
\* broke (streamServer.Stream, grpc/peer.go:35).
ClientsShareInOrder ==
  /\ \A c \in Clients : \A i, j \in DOMAIN Way(c) : i < j => Place(Way(c)[i]) < Place(Way(c)[j])
  /\ \A c, d \in Clients : \A i \in DOMAIN Way(c), j \in DOMAIN Way(d) :
        Way(c)[i] = Way(d)[j] => c = d
  /\ \A c \in Clients : \A i \in DOMAIN got[c] :
        LET e == Events[got[c][i].no] IN
          /\ got[c][i].after = e.after
          /\ Len(e.schema) = 1 /\ Len(e.table) = 1 =>
               got[c][i].name = [schema |-> e.schema, table |-> e.table]
  /\ (\A c \in Clients : stream[c] \notin {"broken", "ended"}) =>
       \A i \in DOMAIN sent : HasData(sent[i]) =>
         \/ \E k \in DOMAIN events : events[k] = sent[i]
         \/ \E c \in Clients : \E k \in DOMAIN Way(c) : Way(c)[k] = sent[i]
=============================================================================
