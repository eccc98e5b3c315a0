---------------------------- MODULE SinkDelivery ----------------------------
(***************************************************************************)
(* The contents of events on their way through a pipeline: what a source   *)
(* peer makes of a message, what the transformations of the source, the    *)
(* pipeline and each sink make of the event, and what the PostgreSQL sink  *)
(* (pkg/pipeline/peer/pg/peer.go, pkg/pgx/crud.go) writes.  Copies of an   *)
(* event share its payload maps and its Schema.Fields.                     *)
(***************************************************************************)
EXTENDS MqttMessage

CONSTANTS
  Cases,      \* what is looked at: a pipeline [mqtt, source, pipeline, sinks] with its
              \* chains, and a sequence of messages [from, topic, payload, event, means]
  Table,      \* the sink's table: [schema, table, columns, pkeys]
  EventsCap,  \* capacity of a source's channel
  SinkCap     \* capacity of a sink's channel

\* An event, as the messages and the transformations make it.
IsEvent(e) == e = [schema |-> e.schema, table |-> e.table, op |-> e.op, before |-> e.before,
                   after |-> e.after, fields |-> e.fields]
IsSeq(s) == Len(s) \in Nat /\ s = [i \in 1..Len(s) |-> s[i]]
Sources == {"mqtt", "nats"}

\* Chains and payloads are lists; Table is the table of the one PostgreSQL sink.
ASSUME SinkAssumption ==
  /\ Table.pkeys \subseteq DOMAIN Table.columns
  /\ \A c \in Cases :
       /\ IsSeq(c.plan.pipeline) /\ \A s \in Sources : IsSeq(c.plan.source[s])
       /\ \A k \in DOMAIN c.plan.sinks : IsSeq(c.plan.sinks[k].chain)
       /\ \A j, k \in DOMAIN c.plan.sinks : c.plan.sinks[j].kind = "pg" /\ c.plan.sinks[k].kind = "pg" => j = k
       /\ \A m \in DOMAIN c.inbox :
            \/ c.inbox[m].from = "mqtt" /\ IsSeq(c.inbox[m].payload.json.items)
            \/ c.inbox[m].from = "nats" /\ IsEvent(c.inbox[m].event)

VARIABLES
  plan, inbox,
  arrived,  \* the messages whose handler has begun
  made,     \* message -> the events its handler made of it
  pushing,  \* message -> how many of them it has pushed
  queue,    \* source -> its channel, of events <<message, number>>
  heap,     \* event -> its contents, once it is distributed
  chans,    \* sink -> its channel
  work,     \* sink -> the event its worker has transformed, as a sequence
  out,      \* sink -> what Pub was called with, and whether it was accepted
  known,    \* whether the watch goroutine has handed the sink its tables
  rows,     \* the rows of the sink's table
  dead      \* whether a worker has panicked

sinkVars == <<plan, inbox, arrived, made, pushing, queue, heap, chans, work, out, known, rows, dead>>

Sinks == DOMAIN plan.sinks
NoEvents == [i \in {} |-> {}]

SinkInit ==
  /\ \E c \in Cases : plan = c.plan /\ inbox = c.inbox
  /\ arrived = {} /\ made = [m \in DOMAIN inbox |-> <<>>] /\ pushing = [m \in DOMAIN inbox |-> 0]
  /\ queue = [s \in Sources |-> <<>>] /\ heap = NoEvents
  /\ chans = [s \in DOMAIN plan.sinks |-> <<>>]
  /\ work = [s \in DOMAIN plan.sinks |-> <<>>] /\ out = [s \in DOMAIN plan.sinks |-> <<>>]
  /\ known = FALSE /\ rows = {} /\ dead = FALSE

\* No pipeline, no message.
NoPipeline ==
  /\ plan = [sinks |-> <<>>] /\ inbox = <<>> /\ arrived = {} /\ made = <<>> /\ pushing = <<>>
  /\ queue = [s \in Sources |-> <<>>] /\ heap = NoEvents /\ chans = <<>> /\ work = <<>> /\ out = <<>>
  /\ known = FALSE /\ rows = {} /\ dead = FALSE
-----------------------------------------------------------------------------
\* The sources.

Decoded(m) == IF inbox[m].from = "mqtt" THEN onMessage(plan.mqtt, inbox[m].topic, inbox[m].payload)
              ELSE <<inbox[m].event>>

\* A message arrives.  MQTT handlers run concurrently (SetOrderMatters(false)
\* unless configured), so the next one may begin before this one has pushed.
\* The NATS source is one goroutine.
Arrive(m) ==
  /\ ~dead /\ m \notin arrived
  /\ \A l \in 1..(m - 1) : l \in arrived /\ (inbox[l].from = "nats" => pushing[l] = Len(made[l]))
  /\ arrived' = arrived \cup {m}
  /\ made' = [made EXCEPT ![m] = Decoded(m)]
  /\ UNCHANGED <<plan, inbox, pushing, queue, heap, chans, work, out, known, rows, dead>>

\* The handler's next event goes into the channel, or is dropped if it is full.
Push(m) ==
  /\ ~dead /\ m \in arrived /\ pushing[m] < Len(made[m])
  /\ LET s == inbox[m].from IN
       queue' = [queue EXCEPT ![s] = IF Len(@) < EventsCap THEN Append(@, <<m, pushing[m] + 1>>) ELSE @]
  /\ pushing' = [pushing EXCEPT ![m] = @ + 1]
  /\ UNCHANGED <<plan, inbox, arrived, made, heap, chans, work, out, known, rows, dead>>

Original(id) == made[id[1]][id[2]]

\* ProcessEvent: the source's and the pipeline's transformations, then a copy
\* for every sink whose channel has room.
ProcessEvent(s) ==
  /\ ~dead /\ queue[s] # <<>>
  /\ LET id == Head(queue[s]) IN
       \E o \in applyEventTransformations(plan.source[s], plan.pipeline, Original(id)) :
         IF o.kind = "event"
         THEN /\ heap' = [x \in DOMAIN heap \cup {id} |-> IF x = id THEN o.event ELSE heap[x]]
              /\ chans' = [k \in Sinks |-> IF Len(chans[k]) < SinkCap THEN Append(chans[k], id) ELSE chans[k]]
         ELSE UNCHANGED <<heap, chans>>
  /\ queue' = [queue EXCEPT ![s] = Tail(@)]
  /\ UNCHANGED <<plan, inbox, arrived, made, pushing, work, out, known, rows, dead>>
-----------------------------------------------------------------------------
\* The sink workers.

\* Mutant: replace and extract write into the shared maps.
MutTransform(k) ==
  /\ ~dead /\ work[k] = <<>> /\ chans[k] # <<>>
  /\ LET id == Head(chans[k]) IN
       \E o \in Chain(plan.sinks[k].chain, heap[id]) :
         /\ heap' = [heap EXCEPT ![id].fields = o.event.fields, ![id].after = o.event.after]
         /\ work' = [work EXCEPT ![k] = IF o.kind = "event" THEN <<[id |-> id, event |-> o.event]>> ELSE <<>>]
  /\ chans' = [chans EXCEPT ![k] = Tail(@)]
  /\ UNCHANGED <<plan, inbox, arrived, made, pushing, queue, out, known, rows, dead>>

\* processSinkEvents: the sink's own transformations on its copy; what they
\* rename in Schema.Fields they rename for every copy.
Transform(k) ==
  /\ ~dead /\ work[k] = <<>> /\ chans[k] # <<>>
  /\ LET id == Head(chans[k]) IN
       \E o \in Chain(plan.sinks[k].chain, heap[id]) :
         /\ heap' = [heap EXCEPT ![id].fields = o.event.fields]
         /\ work' = [work EXCEPT ![k] = IF o.kind = "event" THEN <<[id |-> id, event |-> o.event]>> ELSE <<>>]
  /\ chans' = [chans EXCEPT ![k] = Tail(@)]
  /\ UNCHANGED <<plan, inbox, arrived, made, pushing, queue, out, known, rows, dead>>

\* The event as Pub gets it: the copy, with the fields as they are now.
ToPublish(k) == [work[k][1].event EXCEPT !.fields = heap[work[k][1].id].fields]

Published(k, ok) ==
  /\ out' = [out EXCEPT ![k] = Append(@, [id |-> work[k][1].id, event |-> ToPublish(k), ok |-> ok])]
  /\ work' = [work EXCEPT ![k] = <<>>]

\* Pub of the peers that only hand the event on; an error is only logged.
PubElsewhere(k) ==
  /\ ~dead /\ work[k] # <<>> /\ plan.sinks[k].kind = "other"
  /\ Published(k, TRUE)
  /\ UNCHANGED <<plan, inbox, arrived, made, pushing, queue, heap, chans, known, rows, dead>>
-----------------------------------------------------------------------------
\* The PostgreSQL sink.

\* What PostgreSQL takes: columns the table has, each with a value of its type.
Fits(data) == \A c \in DOMAIN data : c \in DOMAIN Table.columns /\ data[c].type \in Table.columns[c]
KeyOf(row) == Restrict(row, Table.pkeys)
Valid(rs) == \A r \in rs : /\ \A c \in Table.pkeys : r[c].type # "null"
                           /\ \A q \in rs : KeyOf(q) = KeyOf(r) => q = r

\* InsertRow: one INSERT of the columns the data has; without any there is no
\* such statement.  The result is the new rows, or none if it fails.
InsertRow(rs, data) ==
  LET new == [c \in DOMAIN Table.columns |-> IF c \in DOMAIN data.map THEN data.map[c] ELSE Null]
  IN  IF data.kind # "map" \/ data.map = <<>> \/ ~Fits(data.map) \/ ~Valid({new})
         \/ (\E r \in rs : KeyOf(r) = KeyOf(new)) THEN {}
      ELSE {rs \cup {new}}

\* UpdateRow: one UPDATE of the rows that have all the values of where; it
\* fails if there are none, or if two rows would get the same key.
UpdateRow(rs, data, where) ==
  LET hit == {r \in rs : \A c \in DOMAIN where : r[c] = where[c]}
      new(r) == [c \in DOMAIN r |-> IF c \in DOMAIN data.map THEN data.map[c] ELSE r[c]]
      all == (rs \ hit) \cup {new(r) : r \in hit}
  IN  IF \/ data.kind # "map" \/ where = <<>> \/ data.map = <<>> \/ ~Fits(data.map) \/ ~Fits(where)
         \/ hit = {} \/ Cardinality(all) # Cardinality(rs) \/ ~Valid(all) THEN {}
      ELSE {all}

\* Mutant: the last key column alone identifies the row.
MutWhere(before) == Restrict(before.map, {CHOOSE c \in Table.pkeys : TRUE} \cap DOMAIN before.map)

\* The WHERE values: those of the key columns that the before image has.
Where(before) == Restrict(before.map, Table.pkeys \cap DOMAIN before.map)

\* PeerPG.Pub, once it is connected: the rows afterwards, or none for an error.
PgPub(e) ==
  IF \/ e.after.kind = "nil" \/ e.table = <<>> \/ ~known
     \/ <<e.schema, e.table>> # <<Table.schema, Table.table>> THEN {}
  ELSE CASE e.op = "c" -> InsertRow(rows, e.after)
         [] e.op = "u" -> IF e.before.kind = "nil" THEN {} ELSE UpdateRow(rows, e.after, Where(e.before))
         [] e.op \in {"d", "t"} -> {rows}
         [] OTHER -> {}

\* A before image that is not a map panics in the type assertion of an update,
\* which ends the process.
Panics(e) ==
  /\ known /\ e.after.kind # "nil" /\ <<e.schema, e.table>> = <<Table.schema, Table.table>>
  /\ e.op = "u" /\ e.before.kind = "other" /\ Table.pkeys # {}

PubPG(k) ==
  /\ ~dead /\ work[k] # <<>> /\ plan.sinks[k].kind = "pg"
  /\ LET e == ToPublish(k) IN
       IF Panics(e) THEN dead' = TRUE /\ UNCHANGED <<out, work, rows>>
       ELSE /\ rows' = IF PgPub(e) = {} THEN rows ELSE CHOOSE r \in PgPub(e) : TRUE
            /\ Published(k, PgPub(e) # {}) /\ UNCHANGED dead
  /\ UNCHANGED <<plan, inbox, arrived, made, pushing, queue, heap, chans, known>>

\* The statement fails for a reason of the server's: nothing is written.
PubFails(k) ==
  /\ ~dead /\ work[k] # <<>> /\ plan.sinks[k].kind = "pg" /\ ~Panics(ToPublish(k))
  /\ Published(k, FALSE)
  /\ UNCHANGED <<plan, inbox, arrived, made, pushing, queue, heap, chans, known, rows, dead>>

\* Connect's goroutine assigns the tables once the cache's first snapshot is
\* received; until then every Pub fails.
TablesArrive ==
  /\ ~dead /\ ~known /\ known' = TRUE
  /\ UNCHANGED <<plan, inbox, arrived, made, pushing, queue, heap, chans, work, out, rows, dead>>

SinkNext ==
  \/ \E m \in DOMAIN inbox : Arrive(m) \/ Push(m)
  \/ \E s \in Sources : ProcessEvent(s)
  \/ \E k \in Sinks : Transform(k) \/ PubElsewhere(k) \/ PubPG(k) \/ PubFails(k)
  \/ TablesArrive

SinkSpec == SinkInit /\ [][SinkNext]_sinkVars
-----------------------------------------------------------------------------
\* A message becomes the events its topic and payload mean: one per payload,
\* each with its own columns, those of the topic's pairs and those extracted
\* from the topic, its own first (mqtt/peer.go, transform.go); a topic without
\* an operation, or with an unknown one, becomes none.  It says nothing of
\* topics that leave out the schema: mqtt/doc.go:5 and :25 allow them, and
\* peer.go:142 takes their table for the schema.
MessageMeansItsEvents ==
  \A m \in arrived : inbox[m].from = "mqtt" => made[m] = inbox[m].means

\* What one sink's transformations do to an event never shows in what another
\* sink gets: each gets its own chain's result on the event as the source made
\* it.  Schema.Fields are the exception, renamed for every sink by a chain
\* that renames columns (replace.go:103).
Alone(k, id) ==
  UNION {IF o.kind = "event" THEN Chain(plan.sinks[k].chain, o.event) ELSE {} :
           o \in applyEventTransformations(plan.source[inbox[id[1]].from], plan.pipeline, Original(id))}
RenamesColumns(chain) == \E i \in DOMAIN chain : chain[i].type = "replace" /\ chain[i].columns # <<>>
EachSinkItsOwnChain ==
  \A k \in Sinks : \A i \in DOMAIN out[k] :
    LET p == out[k][i] IN
      \E o \in Alone(k, p.id) :
        /\ o.kind = "event" /\ [o.event EXCEPT !.fields = p.event.fields] = p.event
        /\ (\A j \in Sinks \ {k} : ~RenamesColumns(plan.sinks[j].chain)) => o.event.fields = p.event.fields

\* The key an accepted event leaves its row under and the one it takes it from.
WholeKey(e) == e.op = "u" => Table.pkeys \subseteq DOMAIN e.before.map
KeyAfter(e) == [c \in Table.pkeys |-> IF c \in DOMAIN e.after.map THEN e.after.map[c] ELSE e.before.map[c]]
KeyBefore(e) == IF e.op = "u" THEN {KeyOf(e.before.map)} ELSE {}

\* Each row of the sink's table is the last image that was accepted for its
\* key, however the updates before it moved keys around; no update writes to a
\* row of another key, as long as the before images have the whole key (an
\* extract that drops a part of it makes an update hit several rows,
\* pg/peer.go:120).  Deletes are not applied.
RowsAreLastImages ==
  \A k \in Sinks : plan.sinks[k].kind = "pg" =>
    LET e(i) == out[k][i].event
        good == {i \in DOMAIN out[k] : out[k][i].ok /\ e(i).op \in {"c", "u"}}
    IN  (\A i \in good : WholeKey(e(i))) =>
          \A r \in rows : \E i \in good :
            /\ KeyAfter(e(i)) = KeyOf(r) /\ \A c \in DOMAIN e(i).after.map : r[c] = e(i).after.map[c]
            /\ \A j \in good : j > i => KeyAfter(e(j)) # KeyOf(r) /\ KeyOf(r) \notin KeyBefore(e(j))
=============================================================================
