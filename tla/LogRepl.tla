------------------------------ MODULE LogRepl -------------------------------
(***************************************************************************)
(* The PostgreSQL change stream: pkg/pglogrepl (stream.go, process_v2.go), *)
(* the replication slot it reads from and the process that restarts it.    *)
(*                                                                         *)
(* Transaction i of the write-ahead log changes one set of tables; its row *)
(* change lies at LSN 2i-1 and its commit (or abort) at LSN 2i.  The last  *)
(* one may still be running.  The server side is external: it sends what   *)
(* pgoutput sends with proto_version 4 and streaming on, in order, over    *)
(* one connection, the change of a streamed transaction while it runs.     *)
(***************************************************************************)
EXTENDS Naturals, Sequences

NoTable == "" \* the table name of a zero cdc.Event

CONSTANTS
  Tables,      \* the published tables
  BufferSize,  \* Config.BufferSize, capacity of the events channel
  NetCap,      \* bound: messages in flight on the connection
  MaxTxn,      \* bound: transactions in the log
  MaxRestarts  \* bound: restarts of the process

ASSUME LogReplAssumption ==
  /\ Tables # {} /\ NoTable \notin Tables \* an identifier is never empty
  /\ BufferSize \in Nat \ {0} /\ NetCap \in Nat \ {0}
  /\ MaxTxn \in Nat /\ MaxRestarts \in Nat

\* How a transaction reaches the client: whole after its commit, or streamed
\* in a block while it runs and then committed or aborted.
Txn == [op : {"row"}, rels : {{t} : t \in Tables}, kind : {"plain", "streamed"}]
       \cup
       [op : {"truncate"}, rels : (SUBSET Tables) \ {{}}, kind : {"plain", "streamed"}]

VARIABLES
  \* server (external)
  wal,        \* transactions, in the order of their changes
  open,       \* the last one is still running: no commit or abort yet
  slot,       \* the replication slot exists
  confirmed,  \* its confirmed flush LSN
  sent,       \* last LSN sent on the current connection
  block,      \* a stream block is open on it
  relSent,    \* tables whose Relation message was sent on it
  net,        \* messages in flight
  \* client
  pc,         \* where the stream goroutine is
  sysPos,     \* sysID.XLogPos
  start,      \* LSN replication was started at
  walPos, relations, inStream,
  due,        \* nextStandby has passed
  cur,        \* the event processV2 returned, about to be sent
  buf,        \* the events channel
  delivered,  \* events the consumer took, over all sessions
  base,       \* how many of them belong to earlier sessions
  begun,      \* history: the positions inside a running transaction that
              \* sessions were started at
  restarts

server == <<wal, open, slot, confirmed, sent, block, relSent>>
client == <<pc, sysPos, start, walPos, relations, inStream, due, cur>>
vars   == <<server, net, client, buf, delivered, base, begun, restarts>>

Larger(a, b) == IF a > b THEN a ELSE b

\* Where the log ends: at the last commit, or at the change of the running
\* transaction.
End == IF open THEN 2 * Len(wal) - 1 ELSE 2 * Len(wal)

Init ==
  /\ wal = <<>> /\ open = FALSE /\ slot = FALSE /\ confirmed = 0
  /\ sent = 0 /\ block = FALSE /\ relSent = {} /\ net = <<>>
  /\ pc = "down" /\ sysPos = 0 /\ start = 0 /\ walPos = 0
  /\ relations = {} /\ inStream = FALSE /\ due = FALSE /\ cur = <<>>
  /\ buf = <<>> /\ delivered = <<>> /\ base = 0 /\ begun = {} /\ restarts = 0

-----------------------------------------------------------------------------
(* Server.                                                                 *)

\* A transaction writes its change.  One that is streamed goes on running; a
\* plain one is not sent before its commit and appears in the log with it.
Write(t) ==
  /\ ~open /\ Len(wal) < MaxTxn
  /\ open' = (t.kind = "streamed")
  /\ wal' = Append(wal, t)
  /\ UNCHANGED <<slot, confirmed, sent, block, relSent, net, client, buf,
                 delivered, base, begun, restarts>>

\* The running transaction commits, or aborts.
Commit ==
  /\ open
  /\ open' = FALSE
  /\ UNCHANGED <<wal, slot, confirmed, sent, block, relSent, net, client, buf,
                 delivered, base, begun, restarts>>

\* The stream goroutine has a live connection.
Connected == pc \in {"head", "recv", "emit"}

\* The transaction the server sends next, and whether there is one.
TxnNo == sent \div 2 + 1
HasNext == Connected /\ Len(net) < NetCap /\ TxnNo <= Len(wal)

\* An XLogData message: WALStart, the mode it is encoded in, and the payload.
Send(kind, lsn, rels) ==
  net' = Append(net, [kind |-> kind, lsn |-> lsn, mode |-> block, rels |-> rels])

\* pgoutput sends, for each transaction: the stream block's start if it is
\* streamed, the Relation messages this connection has not had, the change,
\* the block's stop, and the commit or, of a streamed one, abort.
ServerSend ==
  /\ HasNext
  /\ LET t == wal[TxnNo]
         lsn == 2 * TxnNo - 1
     IN  \/ /\ sent % 2 = 0 /\ t.kind = "streamed" /\ ~block
            /\ Send("streamStart", lsn, {})
            /\ block' = TRUE
            /\ UNCHANGED <<sent, relSent>>
         \/ /\ sent % 2 = 0 /\ (t.kind = "plain" \/ block)
            /\ \E r \in t.rels \ relSent :
                  /\ Send("relation", lsn, {r})
                  /\ relSent' = relSent \cup {r}
            /\ UNCHANGED <<sent, block>>
         \/ /\ sent % 2 = 0 /\ (t.kind = "plain" \/ block) /\ t.rels \subseteq relSent
            /\ Send(t.op, lsn, t.rels)
            /\ sent' = lsn
            /\ UNCHANGED <<block, relSent>>
         \/ /\ sent % 2 = 1 /\ block
            /\ Send("streamStop", lsn, {})
            /\ block' = FALSE
            /\ UNCHANGED <<sent, relSent>>
         \/ /\ sent % 2 = 1 /\ ~block /\ 2 * TxnNo <= End
            /\ \/ Send("commit", lsn + 1, {})
               \/ t.kind = "streamed" /\ Send("abort", lsn + 1, {})
            /\ sent' = lsn + 1
            /\ UNCHANGED <<block, relSent>>
  /\ UNCHANGED <<wal, open, slot, confirmed, client, buf, delivered, base, begun,
                 restarts>>

\* A keepalive reports how far the server has sent.
ServerKeepalive ==
  /\ Connected /\ Len(net) < NetCap
  /\ Send("keepalive", sent, {})
  /\ UNCHANGED <<server, client, buf, delivered, base, begun, restarts>>

-----------------------------------------------------------------------------
(* Client: Stream, setupReplication and the loop of streamEvents.          *)

\* IdentifySystem: where the log ends now.
IdentifySystem ==
  /\ pc = "down"
  /\ sysPos' = End
  /\ pc' = "setup"
  /\ UNCHANGED <<server, net, start, walPos, relations, inStream, due, cur, buf,
                 delivered, base, begun, restarts>>

\* Mutant: replication resumes at the slot's confirmed position.
MutStartPos(conf) == conf

\* StartReplication at the position IdentifySystem gave; the server never
\* starts before the slot's confirmed position.
StartPos(conf) == Larger(sysPos, conf)

\* ensureSlot, then StartReplication.  Creating a slot waits for the running
\* transactions; the server sends every transaction that ends after the start
\* position, whole.
StartReplication ==
  /\ pc = "setup" /\ (slot \/ ~open)
  /\ slot' = TRUE
  /\ confirmed' = IF slot THEN confirmed ELSE End
  /\ start' = StartPos(confirmed')
  /\ sent' = 2 * (start' \div 2) /\ block' = FALSE /\ relSent' = {} /\ net' = <<>>
  /\ walPos' = 0 /\ relations' = {} /\ inStream' = FALSE /\ due' = FALSE
  /\ cur' = <<>> /\ buf' = <<>>
  /\ base' = Len(delivered)
  /\ begun' = IF start' % 2 = 1 THEN begun \cup {start'} ELSE begun
  /\ pc' = "head"
  /\ UNCHANGED <<wal, open, sysPos, delivered, restarts>>

\* time passes nextStandby
Tick ==
  /\ Connected /\ ~due
  /\ due' = TRUE
  /\ UNCHANGED <<server, net, pc, sysPos, start, walPos, relations, inStream,
                 cur, buf, delivered, base, begun, restarts>>

\* Mutant: the status update waits for a quiet connection.
MutLoopHead ==
  /\ pc = "head"
  /\ pc' = "recv"
  /\ IF due /\ net = <<>>
     THEN confirmed' = Larger(confirmed, walPos) /\ due' = FALSE
     ELSE UNCHANGED <<confirmed, due>>
  /\ UNCHANGED <<wal, open, slot, sent, block, relSent, net, sysPos, start, walPos,
                 relations, inStream, cur, buf, delivered, base, begun, restarts>>

\* Top of the loop: a due status update acknowledges walPos, and the server
\* moves the slot's confirmed position up to it.
LoopHead ==
  /\ pc = "head"
  /\ pc' = "recv"
  /\ confirmed' = IF due THEN Larger(confirmed, walPos) ELSE confirmed
  /\ due' = FALSE
  /\ UNCHANGED <<wal, open, slot, sent, block, relSent, net, sysPos, start, walPos,
                 relations, inStream, cur, buf, delivered, base, begun, restarts>>

\* ReceiveMessage hits its deadline: continue.
ReceiveTimeout ==
  /\ pc = "recv" /\ due
  /\ pc' = "head"
  /\ UNCHANGED <<server, net, sysPos, start, walPos, relations, inStream, due,
                 cur, buf, delivered, base, begun, restarts>>

\* What the connection held, and the goroutine's variables, are gone.
Forgotten ==
  /\ net' = <<>> /\ sent' = 0 /\ block' = FALSE /\ relSent' = {}
  /\ sysPos' = 0 /\ walPos' = 0 /\ relations' = {} /\ inStream' = FALSE
  /\ due' = FALSE /\ cur' = <<>>

\* Any other error of the connection: streamEvents returns and closes events.
ConnectionLost ==
  /\ pc \in {"head", "recv"}
  /\ pc' = "ended"
  /\ Forgotten
  /\ UNCHANGED <<wal, open, slot, confirmed, start, buf, delivered, base, begun,
                 restarts>>

\* The event of a row message: its relation's table, or a zero event when the
\* relation is unknown.
RowEvent(m) ==
  LET r == CHOOSE x \in m.rels : TRUE
  IN  {[lsn |-> m.lsn, op |-> "row", table |-> IF r \in relations THEN r ELSE NoTable]}

\* handleTruncateMessageV2 takes whichever relation the map's iteration gives
\* first; a zero event when there is none.
TruncateEvents(m) ==
  {[lsn |-> m.lsn, op |-> "truncate", table |-> t] :
     t \in IF relations = {} THEN {NoTable} ELSE relations}

\* Mutant: a relation inside a stream block is not kept.
MutRelationsAfter(m) ==
  IF m.kind = "relation" /\ ~inStream THEN relations \cup m.rels ELSE relations

\* Relation messages are kept for the connection's lifetime.
RelationsAfter(m) ==
  IF m.kind = "relation" THEN relations \cup m.rels ELSE relations

\* Mutant: the end of a stream block is not noticed.
MutInStreamAfter(m) == m.kind = "streamStart" \/ inStream

\* The parse mode for the next message.
InStreamAfter(m) ==
  m.kind = "streamStart" \/ (m.kind # "streamStop" /\ inStream)

\* processV2: at most one event; commits and aborts are ignored.  A message
\* parsed in the wrong mode does not parse, which is fatal.
ProcessV2(m) ==
  /\ relations' = RelationsAfter(m)
  /\ inStream' = InStreamAfter(m)
  /\ cur' \in IF m.kind = "row" THEN {<<e>> : e \in RowEvent(m)}
              ELSE IF m.kind = "truncate" THEN {<<e>> : e \in TruncateEvents(m)}
              ELSE {<<>>}
  /\ pc' = IF m.kind \in {"relation", "row", "truncate"} /\ m.mode # inStream
           THEN "fatal" ELSE IF cur' = <<>> THEN "head" ELSE "emit"

\* Mutant: a message acknowledges everything the server has written.
MutReceived(m) == End

\* walPos after message m: the keepalive's ServerWALEnd, the data's WALStart.
Received(m) == Larger(walPos, m.lsn)

\* A message arrives: walPos moves before the event is handed on.
ReceiveMessage ==
  /\ pc = "recv" /\ net # <<>>
  /\ net' = Tail(net)
  /\ walPos' = Received(Head(net))
  /\ IF Head(net).kind = "keepalive"
     THEN pc' = "head" /\ UNCHANGED <<relations, inStream, cur>>
     ELSE ProcessV2(Head(net))
  /\ UNCHANGED <<server, sysPos, start, due, buf, delivered, base, begun, restarts>>

\* Mutant: the send gives up when a status update is due.
MutEmit ==
  /\ pc = "emit"
  /\ due \/ Len(buf) < BufferSize
  /\ buf' = IF due THEN buf ELSE buf \o cur
  /\ cur' = <<>>
  /\ pc' = "head"
  /\ UNCHANGED <<server, net, sysPos, start, walPos, relations, inStream, due,
                 delivered, base, begun, restarts>>

\* events <- event: blocks while the channel is full.
Emit ==
  /\ pc = "emit"
  /\ Len(buf) < BufferSize
  /\ buf' = buf \o cur
  /\ cur' = <<>>
  /\ pc' = "head"
  /\ UNCHANGED <<server, net, sysPos, start, walPos, relations, inStream, due,
                 delivered, base, begun, restarts>>

\* The consumer (the pipeline's fan-out) takes an event from the channel.
Consume ==
  /\ buf # <<>> /\ pc \notin {"down", "setup", "fatal"}
  /\ delivered' = Append(delivered, Head(buf))
  /\ buf' = Tail(buf)
  /\ UNCHANGED <<server, net, client, base, begun, restarts>>

\* The process dies and is restarted; only the slot survives.
Restart ==
  /\ pc # "down"
  /\ restarts < MaxRestarts
  /\ restarts' = restarts + 1
  /\ pc' = "down"
  /\ Forgotten
  /\ buf' = <<>>
  /\ UNCHANGED <<wal, open, slot, confirmed, start, delivered, base, begun>>

-----------------------------------------------------------------------------
Loop == LoopHead \/ ReceiveMessage \/ ReceiveTimeout \/ Emit

Next ==
  \/ \E t \in Txn : Write(t)
  \/ Commit
  \/ ServerSend \/ ServerKeepalive
  \/ IdentifySystem \/ StartReplication
  \/ Tick \/ Loop \/ ConnectionLost \/ Consume \/ Restart

Spec == Init /\ [][Next]_vars

\* The stream goroutine and its consumer run when they can.  The server, the
\* connection, the clock and restarts are not fair.
FairSpec == Spec /\ WF_vars(Loop) /\ WF_vars(Consume)
-----------------------------------------------------------------------------
Events == [lsn : 1..(2 * MaxTxn), op : {"row", "truncate"}, table : Tables \cup {NoTable}]

Messages ==
  [kind : {"keepalive", "streamStart", "streamStop", "relation", "row",
           "truncate", "commit", "abort"},
   lsn : 0..(2 * MaxTxn), mode : BOOLEAN, rels : SUBSET Tables]

\* Types of the variables of the server, the connection and the client.
TypeOK ==
  /\ wal \in Seq(Txn) /\ open \in BOOLEAN /\ slot \in BOOLEAN /\ block \in BOOLEAN
  /\ confirmed \in 0..End /\ sent \in 0..End
  /\ relSent \subseteq Tables /\ net \in Seq(Messages)
  /\ pc \in {"down", "setup", "head", "recv", "emit", "ended", "fatal"}
  /\ sysPos \in 0..End /\ start \in 0..End /\ walPos \in 0..End
  /\ relations \subseteq Tables
  /\ inStream \in BOOLEAN /\ due \in BOOLEAN
  /\ cur \in Seq(Events) /\ buf \in Seq(Events) /\ delivered \in Seq(Events)
  /\ base \in 0..Len(delivered) /\ begun \subseteq 0..End /\ restarts \in 0..MaxRestarts

\* Every event handed out so far or on its way, oldest first, and the part of
\* it that belongs to the current session.
AllEvents == delivered \o buf \o cur
Session == SubSeq(AllEvents, base + 1, Len(AllEvents))

\* No event is emitted twice, in any session, with one exception: although the
\* acknowledged position lags behind what was delivered, a restart begins at
\* the log's end, so only the change of a streamed transaction that was still
\* running when the new session's position was read comes again.
NeverRedelivered ==
  \A i, j \in 1..Len(AllEvents) : i < j =>
     \/ AllEvents[i].lsn < AllEvents[j].lsn
     \/ AllEvents[i].lsn = AllEvents[j].lsn /\ AllEvents[i].lsn \in begun

\* Within a session the stream has no gap: its j-th event is the j-th
\* transaction after the start position.  Losses happen across sessions only.
SessionHasNoGap ==
  \A j \in 1..Len(Session) : Session[j].lsn = 2 * (start \div 2 + j) - 1

\* What is acknowledged was received: a transaction whose commit LSN walPos
\* covers has its event in the channel, delivered, or about to be sent.  The
\* slot may forget nothing the stream goroutine has not seen.
AckedWasReceived ==
  Connected => \A i \in 1..Len(wal) :
     start < 2 * i /\ 2 * i <= walPos => i <= start \div 2 + Len(Session)

\* Every message is parsed in the mode the server encoded it in, over any
\* sequence of stream blocks and reconnects: ParseV2 never fails fatally.
ParseModeInSync == pc # "fatal"

\* No zero event leaves the stream, and a row event names the table its
\* transaction changed: the relation is always known by the time it is needed.
EventsAreNamed ==
  \A i \in 1..Len(AllEvents) :
     LET e == AllEvents[i]
     IN  /\ e.table # NoTable
         /\ e.op = "row" => e.table \in wal[(e.lsn + 1) \div 2].rels

\* What the stream's test asserts of a TRUNCATE event: it names the table that
\* was truncated.
TruncateNamesItsTable ==
  \A i \in 1..Len(AllEvents) :
     LET e == AllEvents[i]
     IN  e.op = "truncate" => e.table \in wal[(e.lsn + 1) \div 2].rels

\* A due status update is sent, also under a steady stream of messages and
\* with a full channel, as long as the consumer keeps taking events.
StatusIsSent == (due /\ Connected) ~> (~due \/ ~Connected)
=============================================================================
