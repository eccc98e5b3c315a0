------------------------------ MODULE NatsPeer ------------------------------
(***************************************************************************)
(* The NATS peer (pkg/pipeline/peer/nats/peer.go) against a JetStream      *)
(* server: the stream, its durable pull consumer with explicit acks and at *)
(* most MaxDeliver deliveries, and processMessages, which puts a message   *)
(* into the events channel and then acks it, and naks it when the channel  *)
(* is full.  The connection may break (MaxReconnects(-1), it comes back):  *)
(* deliveries, acks and naks are lost, or an ack comes late.  The process  *)
(* may crash, between sending and acking too, and be restarted.            *)
(***************************************************************************)
EXTENDS Naturals, Sequences

CONSTANTS
  Messages,    \* messages somebody may publish
  Undecodable, \* those that are not JSON events
  MaxDeliver,  \* of the consumer
  FetchSize,   \* messages per Fetch
  EventsCap,   \* capacity of the events channel
  MaxLoss,     \* bound: deliveries, acks and naks that are lost
  MaxCrashes   \* bound: crashes

\* The consumer's limits are numbers (3 deliveries, fetches of 10 in peer.go).
Limits == MaxDeliver \in Nat /\ FetchSize \in Nat

VARIABLES
  server,     \* the stream's configuration: "none", "other", "ours"
  stream,     \* the messages in the stream
  phase,      \* the peer: "down", "connected", "running"
  state,      \* message -> for the consumer: "ready", "pending" (delivered), "acked"
  deliveries, \* message -> how often the server delivered it
  batch,      \* what Fetch returned and is not handled yet
  pushed,     \* the first of them is in the channel, its Ack is next
  events,     \* the channel Sub returned
  consumed,   \* what the pipeline received
  queued,     \* message -> how often it was put into the channel
  refused,    \* message -> deliveries that were nak'ed
  stranded,   \* message -> deliveries a crash cut off
  dropped,    \* message -> deliveries lost with the connection
  unacked,    \* message -> acks that did not arrive in time
  cut,        \* message -> crashes between its send and its Ack
  swept,      \* messages in the channel when a crash took it
  lost,       \* deliveries, acks and naks lost
  crashes

told == <<refused, stranded, dropped, unacked, cut, swept>>
vars == <<server, stream, phase, state, deliveries, batch, pushed, events, consumed, queued, told, lost, crashes>>

Zero == [m \in Messages |-> 0]
Inc(f, m) == [f EXCEPT ![m] = @ + 1]
IncAll(f, S) == [m \in Messages |-> IF m \in S THEN f[m] + 1 ELSE f[m]]
Items(s) == {s[i] : i \in DOMAIN s}

Init ==
  /\ server \in {"none", "other", "ours"}
  /\ stream = {} /\ phase = "down"
  /\ state = [m \in Messages |-> "ready"]
  /\ deliveries = Zero /\ queued = Zero /\ refused = Zero /\ stranded = Zero /\ dropped = Zero
  /\ unacked = Zero /\ cut = Zero
  /\ batch = <<>> /\ pushed = FALSE /\ events = <<>> /\ consumed = {} /\ swept = {}
  /\ lost = 0 /\ crashes = 0

\* Connect and ensureStream: the stream is created, or updated when it differs.
\* Any of it may fail, which closes the connection.
Connect ==
  /\ phase = "down"
  /\ server' = "ours" /\ phase' = "connected"
  /\ UNCHANGED <<stream, state, deliveries, batch, pushed, events, consumed, queued, told, lost, crashes>>

\* Sub: the durable consumer is created, or found with where it stands.
Sub ==
  /\ phase = "connected"
  /\ phase' = "running" /\ events' = <<>>
  /\ UNCHANGED <<server, stream, state, deliveries, batch, pushed, consumed, queued, told, lost, crashes>>

\* Pub, by this or another process; it returns when the stream has the message.
Pub(m) ==
  /\ server = "ours" /\ m \notin stream
  /\ stream' = stream \cup {m}
  /\ UNCHANGED <<server, phase, state, deliveries, batch, pushed, events, consumed, queued, told, lost, crashes>>

\* What the server may deliver; a message nak'ed earlier comes in any order
\* with the others.
Available == {m \in stream : state[m] = "ready" /\ deliveries[m] < MaxDeliver}
Fetch ==
  /\ phase = "running" /\ batch = <<>>
  /\ \E n \in 1..FetchSize : \E b \in [1..n -> Available] :
       /\ \A i, j \in 1..n : b[i] = b[j] => i = j
       /\ batch' = b
       /\ state' = [m \in Messages |-> IF m \in Items(b) THEN "pending" ELSE state[m]]
       /\ deliveries' = IncAll(deliveries, Items(b))
  /\ UNCHANGED <<server, stream, phase, pushed, events, consumed, queued, told, lost, crashes>>

\* The server delivers m to a Fetch, and counts it, but the connection breaks
\* before it arrives; Fetch returns an error and is called again.
Drop(m) ==
  /\ phase = "running" /\ batch = <<>> /\ m \in Available /\ lost < MaxLoss
  /\ state' = [state EXCEPT ![m] = "pending"]
  /\ deliveries' = Inc(deliveries, m) /\ dropped' = Inc(dropped, m)
  /\ lost' = lost + 1
  /\ UNCHANGED <<server, stream, phase, batch, pushed, events, consumed, queued, refused, stranded,
                 unacked, cut, swept, crashes>>

Fits(m) == m \notin Undecodable /\ Len(events) < EventsCap

\* processMessages, one message: the select sends it to the channel.
Send ==
  /\ phase = "running" /\ batch # <<>> /\ ~pushed /\ Fits(Head(batch))
  /\ events' = Append(events, Head(batch)) /\ queued' = Inc(queued, Head(batch))
  /\ pushed' = TRUE
  /\ UNCHANGED <<server, stream, phase, state, deliveries, batch, consumed, told, lost, crashes>>

\* Then it is acked.  The ack goes out without waiting for an answer; it may
\* not arrive, or too late.
Ack ==
  /\ phase = "running" /\ pushed
  /\ LET m == Head(batch) IN
       \/ state' = [state EXCEPT ![m] = "acked"] /\ UNCHANGED <<unacked, lost>>
       \/ lost < MaxLoss /\ lost' = lost + 1 /\ unacked' = Inc(unacked, m) /\ UNCHANGED state
  /\ batch' = Tail(batch) /\ pushed' = FALSE
  /\ UNCHANGED <<server, stream, phase, deliveries, events, consumed, queued, refused, stranded, dropped,
                 cut, swept, crashes>>

\* Mutant: a message that does not fit is acked like the others.
MutNak ==
  /\ phase = "running" /\ batch # <<>> /\ ~pushed /\ ~Fits(Head(batch))
  /\ state' = [state EXCEPT ![Head(batch)] = "acked"]
  /\ refused' = Inc(refused, Head(batch))
  /\ batch' = Tail(batch)
  /\ UNCHANGED <<server, stream, phase, deliveries, pushed, events, consumed, queued, stranded, dropped,
                 unacked, cut, swept, lost, crashes>>

\* What cannot be decoded or does not fit is nak'ed, without waiting either.
Nak ==
  /\ phase = "running" /\ batch # <<>> /\ ~pushed /\ ~Fits(Head(batch))
  /\ LET m == Head(batch) IN
       /\ \/ state' = [state EXCEPT ![m] = IF @ = "pending" THEN "ready" ELSE @] /\ UNCHANGED lost
          \/ lost < MaxLoss /\ lost' = lost + 1 /\ UNCHANGED state
       /\ refused' = Inc(refused, m)
  /\ batch' = Tail(batch)
  /\ UNCHANGED <<server, stream, phase, deliveries, pushed, events, consumed, queued, stranded, dropped,
                 unacked, cut, swept, crashes>>

\* AckWait: the server takes back a delivery that was neither acked nor nak'ed.
\* A batch is handled without waiting for anything, so well within it.
AckWait(m) ==
  /\ state[m] = "pending" /\ m \notin Items(batch)
  /\ state' = [state EXCEPT ![m] = "ready"]
  /\ UNCHANGED <<server, stream, phase, deliveries, batch, pushed, events, consumed, queued, told, lost, crashes>>

\* An ack held back by the broken connection arrives after AckWait.
LateAck(m) ==
  /\ unacked[m] > 0 /\ state[m] # "acked"
  /\ state' = [state EXCEPT ![m] = "acked"]
  /\ UNCHANGED <<server, stream, phase, deliveries, batch, pushed, events, consumed, queued, told, lost, crashes>>

\* The fan-out receives from the channel.
Consume ==
  /\ events # <<>>
  /\ consumed' = consumed \cup {Head(events)} /\ events' = Tail(events)
  /\ UNCHANGED <<server, stream, phase, state, deliveries, batch, pushed, queued, told, lost, crashes>>

\* The messages of the batch that are not in the channel.
Waiting == IF pushed THEN Items(Tail(batch)) ELSE Items(batch)

\* The process ends and starts again: the channel and the batch are gone.
Crash ==
  /\ phase # "down" /\ crashes < MaxCrashes
  /\ phase' = "down" /\ crashes' = crashes + 1
  /\ batch' = <<>> /\ pushed' = FALSE /\ events' = <<>>
  /\ stranded' = IncAll(stranded, Waiting)
  /\ cut' = IncAll(cut, Items(batch) \ Waiting)
  /\ swept' = swept \cup Items(events)
  /\ UNCHANGED <<server, stream, state, deliveries, consumed, queued, refused, dropped, unacked, lost>>

Next ==
  \/ Connect \/ Sub \/ Fetch \/ Send \/ Ack \/ Nak \/ Consume \/ Crash
  \/ \E m \in Messages : Pub(m) \/ Drop(m) \/ AckWait(m) \/ LateAck(m)

Spec == Init /\ [][Next]_vars
-----------------------------------------------------------------------------
Gone(m) == state[m] = "acked" \/ (deliveries[m] = MaxDeliver /\ state[m] = "ready")

\* A message that the server will not deliver again and that never entered the
\* channel used up its MaxDeliver deliveries, each refused, cut off by a crash
\* or lost with the connection ("Channel full, retry later", peer.go:167, ends
\* after the third).  One that entered it is received, still there, or was there
\* when a crash took the channel.  Each time it enters again, an ack of it did
\* not arrive in time or a crash fell between its send and its Ack.
EveryLossHasACause ==
  \A m \in stream :
    /\ Gone(m) /\ queued[m] = 0 => refused[m] + stranded[m] + dropped[m] = MaxDeliver
    /\ queued[m] > 0 => m \in consumed \cup Items(events) \cup swept
    /\ queued[m] <= 1 + unacked[m] + cut[m]
    /\ m \in Undecodable => queued[m] = 0 /\ state[m] # "acked"
=============================================================================
