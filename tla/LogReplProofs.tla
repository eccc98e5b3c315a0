--------------------------- MODULE LogReplProofs ----------------------------
(***************************************************************************)
(* Proofs about the PostgreSQL change stream, for every set of tables,     *)
(* channel size, number of messages in flight, transactions and restarts.  *)
(***************************************************************************)
EXTENDS LogRepl, SequenceTheorems, TLAPS

-----------------------------------------------------------------------------
(* The inductive invariant.                                                *)

\* Transactions before this session, and those it has emitted the change of.
Before == start \div 2
Done == Before + (Len(AllEvents) - base)

\* The messages that become events, and the mode a message leaves the parser in.
Change(m) == m.kind \in {"row", "truncate"}
ModeAfter(m) == m.kind = "streamStart" \/ (m.kind # "streamStop" /\ m.mode)

Bounds ==
  /\ Len(wal) <= MaxTxn
  /\ open => wal # <<>>
  /\ start = 2 * Before \/ start \in begun
  /\ pc \in {"down", "setup"} => net = <<>> /\ buf = <<>> /\ cur = <<>>
  /\ cur # <<>> => pc = "emit"
  /\ pc = "setup" => confirmed <= sysPos
  /\ \A p \in 1..Len(net) : net[p].lsn <= End

\* An event of an earlier session lies at or before this session's start, the
\* session's j-th event is the j-th change after it.
EventInv ==
  /\ \A i, j \in 1..base : i < j =>
        \/ AllEvents[i].lsn < AllEvents[j].lsn
        \/ AllEvents[i].lsn = AllEvents[j].lsn /\ AllEvents[i].lsn \in begun
  /\ \A i \in 1..base : AllEvents[i].lsn <= start
  /\ \A i \in 1..Len(AllEvents) :
        i > base => AllEvents[i].lsn = 2 * (Before + (i - base)) - 1
  /\ \A i \in 1..Len(AllEvents) : AllEvents[i].lsn <= End
  /\ pc = "setup" => \A i \in 1..Len(AllEvents) : AllEvents[i].lsn <= sysPos

\* The messages in flight carry the parser from its mode to the server's.
ModeInv ==
  /\ IF net = <<>> THEN inStream = block
     ELSE net[1].mode = inStream /\ ModeAfter(net[Len(net)]) = block
  /\ \A p \in 1..Len(net) : p < Len(net) => net[p + 1].mode = ModeAfter(net[p])

\* A Relation message the server has sent is known or on its way, ahead of the
\* changes that need it.
RelInv ==
  /\ \A t \in relSent : t \in relations \/ \E q \in 1..Len(net) :
        net[q].kind = "relation" /\ t \in net[q].rels
  /\ \A p \in 1..Len(net) : Change(net[p]) => \A t \in net[p].rels :
        t \in relations \/ \E q \in 1..Len(net) :
           q < p /\ net[q].kind = "relation" /\ t \in net[q].rels

\* The changes in flight are exactly those the server has sent and the session
\* has not emitted, in order; nothing overtakes a change.
InFlight ==
  \A p \in 1..Len(net) : Change(net[p]) =>
    \E k \in 1..Len(wal) :
      /\ Done < k /\ net[p].lsn = 2 * k - 1 /\ net[p].lsn <= sent
      /\ net[p].kind = wal[k].op /\ net[p].rels = wal[k].rels
Covered ==
  \A k \in 1..Len(wal) : Done < k /\ 2 * k - 1 <= sent =>
    \E p \in 1..Len(net) : Change(net[p]) /\ net[p].lsn = 2 * k - 1
Ordered ==
  \A p, q \in 1..Len(net) : p < q =>
    /\ Change(net[p]) => net[p].lsn <= net[q].lsn
    /\ Change(net[q]) => net[p].lsn <= net[q].lsn
    /\ Change(net[p]) /\ Change(net[q]) => net[p].lsn < net[q].lsn
ChangeInv ==
  /\ 2 * Done <= sent + 1 /\ walPos <= 2 * Done + 1
  /\ \A p \in 1..Len(net) : net[p].lsn <= sent + 1
  /\ InFlight /\ Covered /\ Ordered

IInv ==
  /\ TypeOK /\ Bounds /\ EventInv /\ EventsAreNamed /\ ParseModeInSync
  /\ Connected => ModeInv /\ RelInv /\ ChangeInv

-----------------------------------------------------------------------------
(* Sequences.                                                              *)

\* Arithmetic of the positions 2k - 1 and 2k.
LEMMA Halves ==
  /\ \A n \in Nat : /\ n \div 2 \in Nat
                    /\ 2 * (n \div 2) <= n /\ n <= 2 * (n \div 2) + 1
                    /\ n % 2 = 1 \/ n = 2 * (n \div 2)
  /\ \A n, k \in Nat : n > 0 /\ n <= 2 * k => (n + 1) \div 2 \in 1..k
  /\ \A k \in Nat \ {0} : ((2 * k - 1) + 1) \div 2 = k
  OBVIOUS

\* Three sequences one after the other, by position.
LEMMA Cat3 ==
  ASSUME NEW S, NEW d \in Seq(S), NEW b \in Seq(S), NEW c \in Seq(S)
  PROVE  /\ d \o b \o c \in Seq(S)
         /\ Len(d \o b \o c) = Len(d) + Len(b) + Len(c)
         /\ \A i \in 1..Len(d) : (d \o b \o c)[i] = d[i]
<1> DEFINE db == d \o b
<1>1. /\ db \in Seq(S) /\ Len(db) = Len(d) + Len(b)
      /\ \A i \in 1 .. Len(d) + Len(b) : db[i] = IF i <= Len(d) THEN d[i] ELSE b[i - Len(d)]
  BY ConcatProperties
<1>2. db \in Seq(S)
  BY <1>1
<1> HIDE DEF db
<1>3. /\ db \o c \in Seq(S) /\ Len(db \o c) = Len(db) + Len(c)
      /\ \A i \in 1 .. Len(db) + Len(c) :
           (db \o c)[i] = IF i <= Len(db) THEN db[i] ELSE c[i - Len(db)]
  BY <1>2, ConcatProperties
<1>4. Len(d) \in Nat /\ Len(b) \in Nat /\ Len(c) \in Nat
  BY LenProperties
<1>5. d \o b \o c = db \o c
  BY DEF db
<1> QED
  BY <1>1, <1>3, <1>4, <1>5

\* All events, by position.
LEMMA AllEventsShape ==
  ASSUME delivered \in Seq(Events), buf \in Seq(Events), cur \in Seq(Events)
  PROVE  /\ AllEvents \in Seq(Events)
         /\ Len(AllEvents) = Len(delivered) + Len(buf) + Len(cur)
         /\ \A i \in 1..Len(delivered) : AllEvents[i] = delivered[i]
  BY Cat3 DEF AllEvents

\* A restart keeps what was delivered.
LEMMA RestartCuts ==
  ASSUME delivered \in Seq(Events), buf \in Seq(Events), cur \in Seq(Events),
         delivered' = delivered, buf' = <<>>, cur' = <<>>
  PROVE  /\ Len(AllEvents') = Len(delivered) /\ Len(delivered) <= Len(AllEvents)
         /\ \A i \in 1..Len(delivered) : AllEvents'[i] = AllEvents[i]
<1>1. <<>> \in Seq(Events) /\ Len(<<>>) = 0
  BY EmptySeq
<1>2. /\ Len(delivered \o <<>> \o <<>>) = Len(delivered) + Len(<<>>) + Len(<<>>)
      /\ \A i \in 1..Len(delivered) : (delivered \o <<>> \o <<>>)[i] = delivered[i]
  BY <1>1, Cat3
<1>3. AllEvents' = delivered \o <<>> \o <<>>
  BY DEF AllEvents
<1>4. /\ Len(AllEvents) = Len(delivered) + Len(buf) + Len(cur)
      /\ \A i \in 1..Len(delivered) : AllEvents[i] = delivered[i]
  BY AllEventsShape
<1>5. Len(delivered) \in Nat /\ Len(buf) \in Nat /\ Len(cur) \in Nat
  BY LenProperties
<1> QED
  BY <1>1, <1>2, <1>3, <1>4, <1>5

\* Handing an event on, to the channel or to the consumer, moves nothing.
LEMMA Regroup ==
  ASSUME NEW S, NEW d \in Seq(S), NEW b \in Seq(S), NEW c \in Seq(S)
  PROVE  (d \o (b \o c)) \o <<>> = (d \o b) \o c
<1>1. b \o c \in Seq(S) /\ d \o (b \o c) \in Seq(S)
  BY ConcatProperties
<1>2. (d \o (b \o c)) \o <<>> = d \o (b \o c)
  BY <1>1, ConcatEmptySeq
<1>3. (d \o b) \o c = d \o (b \o c)
  BY ConcatAssociative, SMTT(30)
<1> QED
  BY <1>2, <1>3

LEMMA EmitMoves ==
  ASSUME delivered \in Seq(Events), buf \in Seq(Events), cur \in Seq(Events),
         delivered' = delivered, buf' = buf \o cur, cur' = <<>>
  PROVE  AllEvents' = AllEvents
<1>1. (delivered \o (buf \o cur)) \o <<>> = (delivered \o buf) \o cur
  BY Regroup, SMTT(30)
<1> QED
  BY <1>1 DEF AllEvents

LEMMA ConsumeMoves ==
  ASSUME delivered \in Seq(Events), buf \in Seq(Events), buf # <<>>, cur' = cur,
         delivered' = Append(delivered, Head(buf)), buf' = Tail(buf)
  PROVE  AllEvents' = AllEvents
<1> DEFINE h == Head(buf) t == Tail(buf)
<1>1. /\ h \in Events /\ t \in Seq(Events) /\ Len(t) = Len(buf) - 1
      /\ \A i \in 1 .. Len(t) : t[i] = buf[i + 1]
  BY HeadTailProperties
<1>2. h = buf[1] /\ Len(buf) \in Nat \ {0} /\ Len(delivered) \in Nat
  BY LenProperties, EmptySeq
<1> HIDE DEF h, t
<1> DEFINE d == Append(delivered, h)
<1>3. /\ d \in Seq(Events) /\ Len(d) = Len(delivered) + 1
      /\ \A i \in 1 .. Len(delivered) : d[i] = delivered[i]
      /\ d[Len(delivered) + 1] = h
  BY <1>1, AppendProperties
<1> HIDE DEF d
<1>4. /\ d \o t \in Seq(Events) /\ Len(d \o t) = Len(d) + Len(t)
      /\ \A i \in 1 .. Len(d) + Len(t) :
           (d \o t)[i] = IF i <= Len(d) THEN d[i] ELSE t[i - Len(d)]
  BY <1>1, <1>3, ConcatProperties
<1>5. /\ delivered \o buf \in Seq(Events) /\ Len(delivered \o buf) = Len(delivered) + Len(buf)
      /\ \A i \in 1 .. Len(delivered) + Len(buf) : (delivered \o buf)[i] =
           IF i <= Len(delivered) THEN delivered[i] ELSE buf[i - Len(delivered)]
  BY ConcatProperties
<1>6. Len(d \o t) = Len(delivered \o buf)
  BY <1>1, <1>2, <1>3, <1>4, <1>5
<1>7. ASSUME NEW i \in 1 .. Len(d \o t) PROVE (d \o t)[i] = (delivered \o buf)[i]
  <2>1. i \in 1 .. Len(d) + Len(t) /\ i \in 1 .. Len(delivered) + Len(buf)
    BY <1>4, <1>5, <1>6
  <2>2. CASE i <= Len(delivered)
    <3>1. i \in 1 .. Len(delivered) /\ i <= Len(d)
      BY <1>2, <1>3, <2>1, <2>2
    <3>2. (d \o t)[i] = d[i] /\ d[i] = delivered[i]
      BY <1>3, <1>4, <2>1, <3>1
    <3> QED
      BY <1>5, <2>1, <2>2, <3>2
  <2>3. CASE i = Len(delivered) + 1
    <3>1. (d \o t)[i] = d[i] /\ d[i] = h
      BY <1>2, <1>3, <1>4, <2>1, <2>3
    <3>2. (delivered \o buf)[i] = buf[i - Len(delivered)] /\ i - Len(delivered) = 1
      BY <1>2, <1>5, <2>1, <2>3
    <3> QED
      BY <1>2, <3>1, <3>2
  <2>4. CASE i > Len(delivered) + 1
    <3>1. (d \o t)[i] = t[i - Len(d)]
      BY <1>2, <1>3, <1>4, <2>1, <2>4
    <3>2. i - Len(d) \in 1 .. Len(t) /\ i - Len(d) + 1 = i - Len(delivered)
      BY <1>1, <1>2, <1>3, <2>1, <2>4
    <3>3. (delivered \o buf)[i] = buf[i - Len(delivered)]
      BY <1>2, <1>5, <2>1, <2>4
    <3> QED
      BY <1>1, <3>1, <3>2, <3>3
  <2>5. i \in Int /\ Len(delivered) \in Int
    BY <1>2, <2>1
  <2>6. i <= Len(delivered) \/ i = Len(delivered) + 1 \/ i > Len(delivered) + 1
    BY <2>5
  <2> QED
    BY <2>2, <2>3, <2>4, <2>6
<1>8. d \o t = delivered \o buf
  BY <1>4, <1>5, <1>6, <1>7, SeqEqual
<1> QED
  BY <1>8 DEF AllEvents, d, h, t

\* The session, by position.
LEMMA SessionShape ==
  ASSUME TypeOK
  PROVE  /\ Len(Session) = Len(AllEvents) - base
         /\ \A j \in 1..Len(Session) : base + j \in 1..Len(AllEvents) /\ Session[j] = AllEvents[base + j]
<1>1. AllEvents \in Seq(Events) /\ base \in Nat /\ base <= Len(AllEvents) /\ Len(AllEvents) \in Nat
  <2>1. delivered \in Seq(Events) /\ buf \in Seq(Events) /\ cur \in Seq(Events)
        /\ base \in 0..Len(delivered)
    BY DEF TypeOK
  <2>2. Len(delivered) \in Nat /\ Len(buf) \in Nat /\ Len(cur) \in Nat
    BY <2>1, LenProperties
  <2> QED
    BY <2>1, <2>2, AllEventsShape
<1>2. \A i \in base + 1 .. Len(AllEvents) : AllEvents[i] \in Events
  BY <1>1, ElementOfSeq
<1>3. base + 1 \in Int /\ Len(AllEvents) \in Int
  BY <1>1
<1>4. /\ Len(Session) = IF base + 1 <= Len(AllEvents) THEN Len(AllEvents) - (base + 1) + 1 ELSE 0
      /\ \A i \in 1 .. Len(AllEvents) - (base + 1) + 1 : Session[i] = AllEvents[base + 1 + i - 1]
  BY <1>2, <1>3, SubSeqProperties DEF Session
<1>5. Len(Session) = Len(AllEvents) - base
  BY <1>1, <1>4
<1>6. ASSUME NEW j \in 1..Len(Session)
      PROVE  base + j \in 1..Len(AllEvents) /\ Session[j] = AllEvents[base + j]
  BY <1>1, <1>4, <1>5
<1> QED
  BY <1>5, <1>6

-----------------------------------------------------------------------------
(* What the invariant says of the properties.                              *)

LEMMA Consequences ==
  ASSUME IInv
  PROVE  NeverRedelivered /\ SessionHasNoGap /\ AckedWasReceived
<1>0. TypeOK /\ EventInv
  BY DEF IInv
<1>1. /\ start \in Nat /\ base \in Nat /\ Len(AllEvents) \in Nat /\ base <= Len(AllEvents)
      /\ walPos \in Nat /\ Len(wal) \in Nat
  <2>1. delivered \in Seq(Events) /\ buf \in Seq(Events) /\ cur \in Seq(Events)
        /\ base \in 0..Len(delivered) /\ wal \in Seq(Txn)
    BY <1>0 DEF TypeOK
  <2>2. Len(delivered) \in Nat /\ Len(buf) \in Nat /\ Len(cur) \in Nat /\ Len(wal) \in Nat
    BY <2>1, LenProperties
  <2>3. start \in 0..End /\ walPos \in 0..End
    BY <1>0 DEF TypeOK
  <2>4. Len(AllEvents) = Len(delivered) + Len(buf) + Len(cur)
    BY <2>1, AllEventsShape
  <2> QED
    BY <2>1, <2>2, <2>3, <2>4
<1>2. Len(Session) = Len(AllEvents) - base
  BY <1>0, SessionShape
<1>3. \A j \in 1..Len(Session) : base + j \in 1..Len(AllEvents) /\ Session[j] = AllEvents[base + j]
  BY <1>0, SessionShape
<1>4. Before \in Nat /\ 2 * Before <= start /\ start <= 2 * Before + 1
  BY <1>1, Halves DEF Before
<1>5. \A i \in 1..Len(AllEvents) :
         i > base => AllEvents[i].lsn = 2 * (Before + (i - base)) - 1
  BY <1>0 DEF EventInv
<1>6. NeverRedelivered
  <2> SUFFICES ASSUME NEW i \in 1..Len(AllEvents), NEW j \in 1..Len(AllEvents), i < j
               PROVE  \/ AllEvents[i].lsn < AllEvents[j].lsn
                      \/ AllEvents[i].lsn = AllEvents[j].lsn /\ AllEvents[i].lsn \in begun
    BY DEF NeverRedelivered
  <2>1. CASE j <= base
    <3>1. i \in 1..base /\ j \in 1..base
      BY <1>1, <2>1
    <3> QED
      BY <1>0, <3>1 DEF EventInv
  <2>2. CASE i <= base /\ j > base
    <3>1. i \in 1..base
      BY <1>1, <2>2
    <3>2. AllEvents[i].lsn <= start
      BY <1>0, <3>1 DEF EventInv
    <3>3. AllEvents[j].lsn = 2 * (Before + (j - base)) - 1
      BY <1>5, <2>2
    <3>4. AllEvents[i].lsn \in Nat
      <4>1. AllEvents \in Seq(Events)
        BY <1>0, AllEventsShape DEF TypeOK
      <4>2. AllEvents[i] \in Events
        BY <4>1, ElementOfSeq
      <4> QED
        BY <4>2 DEF Events
    <3>5. start = 2 * Before \/ start \in begun
      BY DEF IInv, Bounds
    <3>6. \/ AllEvents[i].lsn < AllEvents[j].lsn
          \/ /\ AllEvents[i].lsn = AllEvents[j].lsn
             /\ AllEvents[i].lsn = start /\ start # 2 * Before
      BY <1>1, <1>4, <2>2, <3>2, <3>3, <3>4
    <3> QED
      BY <3>5, <3>6, Zenon
  <2>3. CASE i > base
    <3>1. AllEvents[i].lsn = 2 * (Before + (i - base)) - 1
      BY <1>5, <2>3
    <3>2. AllEvents[j].lsn = 2 * (Before + (j - base)) - 1
      BY <1>1, <1>5, <2>3
    <3> QED
      BY <1>1, <1>4, <3>1, <3>2, SMTT(30)
  <2> QED
    BY <1>1, <2>1, <2>2, <2>3
<1>7. SessionHasNoGap
  <2> SUFFICES ASSUME NEW j \in 1..Len(Session) PROVE Session[j].lsn = 2 * (Before + j) - 1
    BY DEF SessionHasNoGap, Before
  <2>1. base + j \in 1..Len(AllEvents) /\ Session[j] = AllEvents[base + j]
    BY <1>3
  <2>2. AllEvents[base + j].lsn = 2 * (Before + ((base + j) - base)) - 1
    BY <1>1, <1>2, <1>5, <2>1
  <2> QED
    BY <1>1, <1>2, <2>1, <2>2
<1>8. AckedWasReceived
  <2> SUFFICES ASSUME Connected, NEW i \in 1..Len(wal), 2 * i <= walPos
               PROVE  i <= Before + Len(Session)
    BY DEF AckedWasReceived, Before
  <2>1. walPos <= 2 * (Before + (Len(AllEvents) - base)) + 1
    BY DEF IInv, ChangeInv, InFlight, Covered, Ordered, Done
  <2> QED
    BY <1>1, <1>2, <1>4, <2>1
<1> QED
  BY <1>6, <1>7, <1>8

-----------------------------------------------------------------------------
(* Steps.                                                                  *)

\* The numbers and types every step below needs.
LEMMA Basics ==
  ASSUME IInv
  PROVE  /\ Len(wal) \in Nat /\ End \in Nat /\ End <= 2 * Len(wal) /\ 2 * Len(wal) <= End + 1
         /\ Len(net) \in Nat /\ base \in Nat
         /\ confirmed \in Nat /\ sent \in Nat /\ start \in Nat /\ sysPos \in Nat /\ walPos \in Nat
         /\ confirmed <= End /\ sent <= End /\ start <= End /\ sysPos <= End /\ walPos <= End
         /\ AllEvents \in Seq(Events) /\ Len(AllEvents) \in Nat /\ base <= Len(AllEvents)
         /\ Before \in Nat /\ 2 * Before <= start /\ start <= 2 * Before + 1 /\ Done \in Nat
         /\ Done = Before + (Len(AllEvents) - base)
         /\ \A p \in 1..Len(net) : net[p] \in Messages
         /\ \A p \in 1..Len(net) : net[p].lsn \in Nat
         /\ \A k \in 1..Len(wal) : wal[k] \in Txn
         /\ \A i \in 1..Len(AllEvents) : AllEvents[i].lsn \in Nat
         /\ MaxTxn \in Nat /\ MaxRestarts \in Nat
<1>1. /\ wal \in Seq(Txn) /\ net \in Seq(Messages) /\ base \in 0..Len(delivered)
      /\ delivered \in Seq(Events) /\ buf \in Seq(Events) /\ cur \in Seq(Events)
      /\ confirmed \in 0..End /\ sent \in 0..End /\ start \in 0..End
      /\ sysPos \in 0..End /\ walPos \in 0..End
  BY DEF IInv, TypeOK
<1>2. /\ Len(wal) \in Nat /\ Len(net) \in Nat /\ Len(delivered) \in Nat /\ Len(buf) \in Nat
      /\ Len(cur) \in Nat
  BY <1>1, LenProperties
<1>3. End \in Nat /\ End <= 2 * Len(wal) /\ 2 * Len(wal) <= End + 1
  <2>1. open => Len(wal) # 0
    BY <1>1, EmptySeq DEF IInv, Bounds
  <2> QED
    BY <1>2, <2>1 DEF End
<1>4. AllEvents \in Seq(Events) /\ Len(AllEvents) = Len(delivered) + Len(buf) + Len(cur)
  BY <1>1, AllEventsShape
<1>5. start \in Nat
  BY <1>1, <1>3
<1>6. Before \in Nat /\ 2 * Before <= start /\ start <= 2 * Before + 1
  BY <1>5, Halves DEF Before
<1>7. Len(AllEvents) \in Nat /\ base \in Nat /\ base <= Len(AllEvents)
  BY <1>1, <1>2, <1>4
<1>8. Done \in Nat /\ Done = Before + (Len(AllEvents) - base)
  BY <1>6, <1>7 DEF Done
<1>9. \A p \in 1..Len(net) : net[p] \in Messages
  BY <1>1, ElementOfSeq
<1>10. \A p \in 1..Len(net) : net[p].lsn \in Nat
  <2>1. \A m \in Messages : m.lsn \in Nat
    BY DEF Messages
  <2> QED
    BY <1>9, <2>1
<1>11. \A k \in 1..Len(wal) : wal[k] \in Txn
  BY <1>1, ElementOfSeq
<1>12. \A i \in 1..Len(AllEvents) : AllEvents[i].lsn \in Nat
  <2>1. \A i \in 1..Len(AllEvents) : AllEvents[i] \in Events
    BY <1>4, ElementOfSeq
  <2>2. \A e \in Events : e.lsn \in Nat
    BY DEF Events
  <2> QED
    BY <2>1, <2>2
<1>13. MaxTxn \in Nat /\ MaxRestarts \in Nat
  BY LogReplAssumption
<1> QED
  BY <1>1, <1>2, <1>3, <1>4, <1>6, <1>7, <1>8, <1>9, <1>10, <1>11, <1>12, <1>13

\* A step that neither changes the connection's contents nor the events.
LEMMA Frame ==
  ASSUME IInv, TypeOK', Bounds', ParseModeInSync',
         UNCHANGED <<wal, open, begun, start, base, net, sent, block, relSent, relations, inStream, walPos>>,
         AllEvents' = AllEvents, Connected' => Connected,
         pc' = "setup" => pc = "setup" /\ sysPos' = sysPos
  PROVE  IInv'
<1>1. Before' = Before /\ Done' = Done /\ End' = End
  BY DEF Before, Done, End
<1>2. EventInv'
  BY <1>1 DEF IInv, EventInv
<1>3. EventsAreNamed'
  BY DEF IInv, EventsAreNamed
<1>4. Connected' => ModeInv' /\ RelInv'
  BY DEF IInv, ModeInv, RelInv
<1>5. Connected' => ChangeInv'
  BY <1>1 DEF IInv, ChangeInv, InFlight, Covered, Ordered
<1> QED
  BY <1>2, <1>3, <1>4, <1>5 DEF IInv

\* The first process starts with an empty log and nothing in flight (Stream).
THEOREM InitIInv == Init => IInv
<1> SUFFICES ASSUME Init PROVE IInv
  OBVIOUS
<1>0. MaxTxn \in Nat /\ MaxRestarts \in Nat
  BY LogReplAssumption
<1>1. /\ <<>> \in Seq(Txn) /\ <<>> \in Seq(Messages) /\ <<>> \in Seq(Events)
      /\ Len(wal) = 0 /\ Len(net) = 0 /\ Len(delivered) = 0 /\ End = 0
  BY EmptySeq DEF Init, End
<1>2. TypeOK
  <2>1. 0 \in 0..End /\ base \in 0..Len(delivered) /\ restarts \in 0..MaxRestarts
    BY <1>0, <1>1 DEF Init
  <2> QED
    BY <1>1, <2>1 DEF Init, TypeOK
<1>3. Bounds
  BY <1>0, <1>1 DEF Init, Bounds, Before
<1>4. Len(AllEvents) = 0
  <2>1. Len(AllEvents) = Len(delivered) + Len(buf) + Len(cur)
    BY <1>2, AllEventsShape DEF TypeOK
  <2> QED
    BY <1>1, <2>1 DEF Init
<1>5. EventInv /\ EventsAreNamed
  BY <1>4 DEF Init, EventInv, EventsAreNamed
<1>6. ParseModeInSync /\ ~Connected
  BY DEF Init, ParseModeInSync, Connected
<1> QED
  BY <1>2, <1>3, <1>5, <1>6 DEF IInv

\* The steps of the goroutine and its consumer that take no message.
LEMMA TickKeeps == ASSUME IInv, Tick PROVE IInv'
<1>1. TypeOK' /\ Bounds' /\ ParseModeInSync'
  BY DEF Tick, server, IInv, TypeOK, Bounds, Before, ParseModeInSync, End
<1>2. AllEvents' = AllEvents
  BY DEF Tick, AllEvents
<1> QED
  BY <1>1, <1>2, Frame DEF Tick, server, Connected

LEMMA LoopHeadKeeps == ASSUME IInv, LoopHead PROVE IInv'
<1>1. confirmed \in 0..End /\ walPos \in 0..End
  BY DEF IInv, TypeOK
<1>2. confirmed' \in 0..End
  BY <1>1 DEF LoopHead, Larger
<1>3. TypeOK' /\ Bounds' /\ ParseModeInSync'
  BY <1>2 DEF LoopHead, IInv, TypeOK, Bounds, Before, ParseModeInSync, End
<1>4. AllEvents' = AllEvents
  BY DEF LoopHead, AllEvents
<1> QED
  BY <1>3, <1>4, Frame DEF LoopHead, Connected

LEMMA TimeoutKeeps == ASSUME IInv, ReceiveTimeout PROVE IInv'
<1>1. TypeOK' /\ Bounds' /\ ParseModeInSync'
  BY DEF ReceiveTimeout, server, IInv, TypeOK, Bounds, Before, ParseModeInSync, End
<1>2. AllEvents' = AllEvents
  BY DEF ReceiveTimeout, AllEvents
<1> QED
  BY <1>1, <1>2, Frame DEF ReceiveTimeout, server, Connected

LEMMA EmitKeeps == ASSUME IInv, Emit PROVE IInv'
<1>1. delivered \in Seq(Events) /\ buf \in Seq(Events) /\ cur \in Seq(Events)
  BY DEF IInv, TypeOK
<1>2. AllEvents' = AllEvents
  BY <1>1, EmitMoves DEF Emit
<1>3. buf' \in Seq(Events) /\ cur' \in Seq(Events)
  BY <1>1, ConcatProperties, EmptySeq DEF Emit
<1>4. TypeOK' /\ Bounds' /\ ParseModeInSync'
  BY <1>3 DEF Emit, server, IInv, TypeOK, Bounds, Before, ParseModeInSync, End
<1> QED
  BY <1>2, <1>4, Frame DEF Emit, server, Connected

LEMMA ConsumeKeeps == ASSUME IInv, Consume PROVE IInv'
<1>1. delivered \in Seq(Events) /\ buf \in Seq(Events) /\ buf # <<>>
  BY DEF IInv, TypeOK, Consume
<1>2. AllEvents' = AllEvents
  BY <1>1, ConsumeMoves DEF Consume, client
<1>3. Head(buf) \in Events /\ buf' \in Seq(Events)
  BY <1>1, HeadTailProperties DEF Consume
<1>4. delivered' \in Seq(Events) /\ Len(delivered') = Len(delivered) + 1
  BY <1>1, <1>3, AppendProperties DEF Consume
<1>5. base' \in 0..Len(delivered')
  <2>1. Len(delivered) \in Nat /\ base \in 0..Len(delivered) /\ base' = base
    BY <1>1, LenProperties DEF IInv, TypeOK, Consume
  <2> QED
    BY <1>4, <2>1
<1>6. TypeOK'
  BY <1>3, <1>4, <1>5 DEF Consume, server, client, IInv, TypeOK, End
<1>7. Bounds' /\ ParseModeInSync'
  BY DEF Consume, server, client, IInv, Bounds, Before, ParseModeInSync, End
<1> QED
  BY <1>2, <1>6, <1>7, Frame DEF Consume, server, client, Connected

LEMMA StutterKeeps == ASSUME IInv, UNCHANGED vars PROVE IInv'
<1>1. TypeOK' /\ Bounds' /\ ParseModeInSync'
  BY DEF vars, server, client, IInv, TypeOK, Bounds, Before, ParseModeInSync, End
<1>2. AllEvents' = AllEvents
  BY DEF vars, client, AllEvents
<1> QED
  BY <1>1, <1>2, Frame DEF vars, server, client, Connected

\* The log grows: what was known of its transactions stays.
LEMMA LogGrows ==
  ASSUME IInv, wal' \in Seq(Txn), open' \in BOOLEAN, open' => wal' # <<>>,
         Len(wal) <= Len(wal'), Len(wal') <= MaxTxn, End' \in Nat, End <= End',
         \A k \in 1..Len(wal) : wal'[k] = wal[k],
         UNCHANGED <<slot, confirmed, sent, block, relSent, net, pc, sysPos, start, walPos,
                     relations, inStream, due, cur, buf, delivered, base, begun, restarts>>
  PROVE  IInv'
<1>0. UNCHANGED <<slot, confirmed, sent, block, relSent, net, pc, sysPos, start, walPos, relations,
                  inStream, due, cur, buf, delivered, base, begun, restarts>>
  OBVIOUS
<1>1. /\ Len(wal) \in Nat /\ End \in Nat /\ End <= 2 * Len(wal) /\ 2 * Len(wal) <= End + 1
      /\ base \in Nat /\ sent \in Nat /\ sent <= End
      /\ confirmed \in Nat /\ confirmed <= End /\ start \in Nat /\ start <= End
      /\ sysPos \in Nat /\ sysPos <= End /\ walPos \in Nat /\ walPos <= End
      /\ Done \in Nat /\ MaxTxn \in Nat
  BY Basics
<1>3. /\ wal' \in Seq(Txn) /\ Len(wal') \in Nat /\ Len(wal) <= Len(wal')
      /\ \A k \in 1..Len(wal) : wal'[k] = wal[k]
  BY LenProperties
<1>4. End' \in Nat /\ End <= End'
  OBVIOUS
<1>s. \A x \in Nat : x <= End => x <= End'
  BY <1>1, <1>4
<1>5. AllEvents' = AllEvents /\ Before' = Before /\ Done' = Done
  BY <1>0 DEF AllEvents, Before, Done
<1>6. TypeOK'
  <2>1. /\ confirmed' \in 0..End' /\ sent' \in 0..End' /\ start' \in 0..End'
        /\ sysPos' \in 0..End' /\ walPos' \in 0..End'
    BY <1>0, <1>1, <1>4
  <2>2. begun' \subseteq 0..End'
    <3>1. 0..End \subseteq 0..End'
      BY <1>1, <1>4
    <3> QED
      BY <1>0, <3>1 DEF IInv, TypeOK
  <2> QED
    BY <1>0, <1>3, <2>1, <2>2 DEF IInv, TypeOK
<1>7. Bounds'
  <2>1. Len(wal') <= MaxTxn
    OBVIOUS
  <2>2. \A p \in 1..Len(net) : net[p].lsn <= End'
    <3>1. \A p \in 1..Len(net) : net[p].lsn \in Nat /\ net[p].lsn <= End
      BY Basics DEF IInv, Bounds
    <3> QED
      BY <1>s, <3>1, Zenon
  <2> QED
    BY <1>0, <1>5, <2>1, <2>2 DEF IInv, Bounds
<1>8. \A i \in 1..Len(AllEvents) : AllEvents[i].lsn \in Nat /\ AllEvents[i].lsn <= End
  BY Basics DEF IInv, EventInv
<1>9. EventInv'
  <2>1. \A i \in 1..Len(AllEvents) : AllEvents[i].lsn <= End'
    BY <1>s, <1>8, Zenon
  <2> QED
    BY <1>0, <1>5, <2>1 DEF IInv, EventInv
<1>10. EventsAreNamed'
  <2> SUFFICES ASSUME NEW i \in 1..Len(AllEvents)
               PROVE  /\ AllEvents[i].table # NoTable
                      /\ AllEvents[i].op = "row" =>
                           AllEvents[i].table \in wal'[(AllEvents[i].lsn + 1) \div 2].rels
    BY <1>5 DEF EventsAreNamed
  <2>1. AllEvents[i].lsn \in Nat \ {0}
    <3>1. AllEvents[i] \in Events
      BY Basics, ElementOfSeq
    <3> QED
      BY <3>1 DEF Events
  <2>2. (AllEvents[i].lsn + 1) \div 2 \in 1..Len(wal)
    <3>1. AllEvents[i].lsn \in Nat /\ AllEvents[i].lsn > 0 /\ AllEvents[i].lsn <= 2 * Len(wal)
      BY <1>1, <1>8, <2>1, SMTT(30)
    <3> QED
      BY <1>1, <3>1, Halves, Zenon
  <2> QED
    BY <1>3, <2>2 DEF IInv, EventsAreNamed
<1>11. ParseModeInSync'
  BY <1>0 DEF IInv, ParseModeInSync
<1>12. ASSUME Connected' PROVE ModeInv' /\ RelInv' /\ ChangeInv'
  <2>1. Connected /\ ModeInv /\ RelInv /\ ChangeInv
    BY <1>0, <1>12 DEF IInv, Connected
  <2>2. ModeInv' /\ RelInv'
    BY <1>0, <2>1 DEF ModeInv, RelInv
  <2>3. ASSUME NEW p \in 1..Len(net), Change(net[p])
        PROVE  \E k \in 1..Len(wal') :
                 /\ Done < k /\ net[p].lsn = 2 * k - 1 /\ net[p].lsn <= sent
                 /\ net[p].kind = wal'[k].op /\ net[p].rels = wal'[k].rels
    <3>1. PICK k \in 1..Len(wal) :
                 /\ Done < k /\ net[p].lsn = 2 * k - 1 /\ net[p].lsn <= sent
                 /\ net[p].kind = wal[k].op /\ net[p].rels = wal[k].rels
      BY <2>1, <2>3 DEF ChangeInv, InFlight, Covered, Ordered
    <3>2. k \in 1..Len(wal') /\ wal'[k] = wal[k]
      BY <1>1, <1>3
    <3> QED
      BY <3>1, <3>2
  <2>4. ASSUME NEW k \in 1..Len(wal'), Done < k, 2 * k - 1 <= sent
        PROVE  \E p \in 1..Len(net) : Change(net[p]) /\ net[p].lsn = 2 * k - 1
    <3>1. k \in 1..Len(wal)
      BY <1>1, <1>3, <2>4
    <3> QED
      BY <2>1, <2>4, <3>1 DEF ChangeInv, InFlight, Covered, Ordered
  <2>5. ChangeInv'
    <3>1. /\ 2 * Done <= sent + 1 /\ walPos <= 2 * Done + 1
          /\ \A p \in 1..Len(net) : net[p].lsn <= sent + 1
          /\ \A p, q \in 1..Len(net) : p < q =>
                /\ Change(net[p]) => net[p].lsn <= net[q].lsn
                /\ Change(net[q]) => net[p].lsn <= net[q].lsn
                /\ Change(net[p]) /\ Change(net[q]) => net[p].lsn < net[q].lsn
      BY <2>1 DEF ChangeInv, InFlight, Covered, Ordered
    <3> QED
      BY <1>0, <1>5, <2>3, <2>4, <3>1 DEF ChangeInv, InFlight, Covered, Ordered, Change
  <2> QED
    BY <2>2, <2>5
<1> QED
  BY <1>6, <1>7, <1>9, <1>10, <1>11, <1>12 DEF IInv

LEMMA WriteKeeps == ASSUME IInv, NEW t \in Txn, Write(t) PROVE IInv'
<1>1. wal \in Seq(Txn) /\ Len(wal) \in Nat /\ MaxTxn \in Nat /\ ~open /\ Len(wal) < MaxTxn
  BY Basics DEF IInv, TypeOK, Write
<1>2. /\ wal' \in Seq(Txn) /\ wal' # <<>> /\ Len(wal') = Len(wal) + 1
      /\ \A k \in 1..Len(wal) : wal'[k] = wal[k]
  BY <1>1, AppendProperties DEF Write
<1>3. Len(wal) <= Len(wal') /\ Len(wal') <= MaxTxn
  BY <1>1, <1>2
<1>4. End = 2 * Len(wal) /\ (End' = 2 * Len(wal') - 1 \/ End' = 2 * Len(wal'))
  BY <1>1 DEF End
<1>5. End' \in Nat /\ End <= End'
  BY <1>1, <1>2, <1>4
<1>6. open' \in BOOLEAN
  BY DEF Write
<1>7. UNCHANGED <<slot, confirmed, sent, block, relSent, net, pc, sysPos, start, walPos,
                  relations, inStream, due, cur, buf, delivered, base, begun, restarts>>
  BY DEF Write, client
<1> QED
  BY <1>2, <1>3, <1>5, <1>6, <1>7, LogGrows

LEMMA CommitKeeps == ASSUME IInv, Commit PROVE IInv'
<1>1. /\ wal' \in Seq(Txn) /\ wal' = wal /\ open' = FALSE /\ open /\ Len(wal) \in Nat
      /\ MaxTxn \in Nat /\ Len(wal) <= MaxTxn
  BY Basics DEF IInv, TypeOK, Bounds, Commit
<1>2. End = 2 * Len(wal) - 1 /\ End' = 2 * Len(wal)
  BY <1>1 DEF End
<1>3. End' \in Nat /\ End <= End' /\ Len(wal) <= Len(wal') /\ Len(wal') <= MaxTxn
  BY <1>1, <1>2
<1>4. UNCHANGED <<slot, confirmed, sent, block, relSent, net, pc, sysPos, start, walPos,
                  relations, inStream, due, cur, buf, delivered, base, begun, restarts>>
  BY DEF Commit, client
<1> QED
  BY <1>1, <1>3, <1>4, LogGrows

\* The position IdentifySystem gives covers every event so far.
LEMMA IdentifyKeeps == ASSUME IInv, IdentifySystem PROVE IInv'
<1>0. /\ pc = "down" /\ pc' = "setup" /\ sysPos' = End
      /\ UNCHANGED <<wal, open, slot, confirmed, sent, block, relSent, net, start, walPos,
                     relations, inStream, due, cur, buf, delivered, base, begun, restarts>>
  BY DEF IdentifySystem, server
<1>1. /\ Len(wal) \in Nat /\ End \in Nat /\ End <= 2 * Len(wal) /\ 2 * Len(wal) <= End + 1
      /\ confirmed <= End
  BY Basics
<1>2. End' = End /\ AllEvents' = AllEvents /\ Before' = Before
  BY <1>0 DEF End, AllEvents, Before
<1>3. sysPos' \in 0..End
  BY <1>0, <1>1
<1>4. TypeOK'
  BY <1>0, <1>2, <1>3 DEF IInv, TypeOK
<1>5. Bounds'
  BY <1>0, <1>1, <1>2, <1>3 DEF IInv, Bounds
<1>6. EventInv'
  BY <1>0, <1>2 DEF IInv, EventInv
<1>7. EventsAreNamed' /\ ParseModeInSync' /\ ~Connected'
  BY <1>0, <1>2 DEF IInv, EventsAreNamed, ParseModeInSync, Connected
<1> QED
  BY <1>4, <1>5, <1>6, <1>7 DEF IInv

\* A new session begins after all events of the earlier ones.
LEMMA StartKeeps == ASSUME IInv, StartReplication PROVE IInv'
<1>0. /\ pc = "setup" /\ pc' = "head" /\ sent' = 2 * (start' \div 2) /\ block' = FALSE
      /\ relSent' = {} /\ net' = <<>> /\ walPos' = 0 /\ relations' = {} /\ inStream' = FALSE
      /\ due' = FALSE /\ cur' = <<>> /\ buf' = <<>> /\ base' = Len(delivered) /\ slot' = TRUE
      /\ UNCHANGED <<wal, open, sysPos, delivered, restarts>>
  BY DEF StartReplication
<1>1. /\ Len(wal) \in Nat /\ End \in Nat /\ confirmed \in Nat /\ confirmed <= End
      /\ sysPos \in Nat /\ sysPos <= End /\ confirmed <= sysPos
  BY <1>0, Basics DEF IInv, Bounds
<1>2. End' = End
  BY <1>0 DEF End
<1>3. confirmed' \in 0..End /\ start' \in 0..End /\ sysPos <= start'
  <2>1. CASE slot
    <3>1. confirmed' = confirmed /\ start' = IF sysPos > confirmed THEN sysPos ELSE confirmed
      BY <2>1 DEF StartReplication, StartPos, Larger
    <3> QED
      BY <1>1, <3>1
  <2>2. CASE ~slot
    <3>1. confirmed' = End /\ start' = IF sysPos > End THEN sysPos ELSE End
      BY <2>2 DEF StartReplication, StartPos, Larger
    <3> QED
      BY <1>1, <3>1
  <2> QED
    BY <2>1, <2>2
<1>b. start' \in Nat /\ Before' = start' \div 2
  BY <1>1, <1>3 DEF Before
<1>c. /\ Before' \in Nat /\ sent' = 2 * Before' /\ sent' <= start'
      /\ start' % 2 = 1 \/ start' = 2 * Before'
  <2> DEFINE s == start'
  <2>1. s \in Nat /\ Before' = s \div 2 /\ sent' = 2 * (s \div 2)
    BY <1>0, <1>b, Zenon
  <2> HIDE DEF s
  <2>2. s \div 2 \in Nat /\ 2 * (s \div 2) <= s /\ (s % 2 = 1 \/ s = 2 * (s \div 2))
    BY ONLY <2>1, Halves
  <2>3. Before' \in Nat /\ sent' = 2 * Before' /\ sent' <= s /\ (s % 2 = 1 \/ s = 2 * Before')
    BY <2>1, <2>2, Zenon
  <2> QED
    BY <2>3 DEF s
<1>d. begun' \subseteq 0..End /\ begun \subseteq begun' /\ (start' = 2 * Before' \/ start' \in begun')
  <2>1. begun \subseteq 0..End
    BY DEF IInv, TypeOK
  <2>2. begun' = IF start' % 2 = 1 THEN begun \cup {start'} ELSE begun
    BY DEF StartReplication
  <2> QED
    BY <1>3, <1>c, <2>1, <2>2, Zenon
<1>e. sent' \in 0..End
  <2>1. sent' \in Nat /\ sent' <= start' /\ start' \in Nat /\ start' <= End
    <3>1. \A n \in Nat : 2 * n \in Nat
      OBVIOUS
    <3>2. sent' \in Nat
      BY <1>c, <3>1, Zenon
    <3>3. start' <= End
      BY <1>1, <1>3
    <3> QED
      BY <1>b, <1>c, <3>2, <3>3, Zenon
  <2>2. \A a, b \in Nat : a <= b /\ b <= End => a \in 0..End
    BY <1>1
  <2> QED
    BY <2>1, <2>2, Zenon
<1>4. /\ delivered \in Seq(Events) /\ buf = <<>> /\ cur = <<>> /\ Len(delivered) \in Nat
      /\ <<>> \in Seq(Events) /\ <<>> \in Seq(Messages) /\ Len(<<>>) = 0
  BY <1>0, EmptySeq, LenProperties DEF IInv, TypeOK, Bounds
<1>5. AllEvents' = AllEvents /\ Len(AllEvents) = Len(delivered) /\ AllEvents \in Seq(Events)
  <2>1. AllEvents' = AllEvents
    BY <1>0, <1>4 DEF AllEvents
  <2>2. Len(AllEvents) = Len(delivered) + Len(buf) + Len(cur) /\ AllEvents \in Seq(Events)
    BY <1>4, AllEventsShape
  <2> QED
    BY <1>4, <2>1, <2>2
<1>6. TypeOK'
  <2>1. 0 \in 0..End /\ base' \in 0..Len(delivered)
    BY <1>0, <1>1, <1>4
  <2> QED
    BY <1>0, <1>2, <1>3, <1>4, <1>d, <1>e, <2>1 DEF IInv, TypeOK
<1>7. Bounds'
  BY <1>0, <1>1, <1>2, <1>3, <1>4, <1>d DEF IInv, Bounds
<1>8. NeverRedelivered
  BY Consequences
<1>9. EventInv'
  <2>1. \A i \in 1..Len(AllEvents) : AllEvents[i].lsn \in Nat /\ AllEvents[i].lsn <= sysPos
    BY <1>0, Basics DEF IInv, EventInv
  <2>2. \A i \in 1..Len(AllEvents) : AllEvents[i].lsn <= start'
    <3>1. sysPos \in Nat /\ start' \in Nat /\ sysPos <= start'
      BY <1>1, <1>3
    <3>2. \A x \in Nat : x <= sysPos => x <= start'
      BY <3>1
    <3> QED
      BY <2>1, <3>2, Zenon
  <2>3. \A i, j \in 1..base' : i < j =>
           \/ AllEvents[i].lsn < AllEvents[j].lsn
           \/ AllEvents[i].lsn = AllEvents[j].lsn /\ AllEvents[i].lsn \in begun'
    BY <1>0, <1>5, <1>8, <1>d DEF NeverRedelivered
  <2>4. \A i \in 1..Len(AllEvents) : AllEvents[i].lsn <= End
    BY DEF IInv, EventInv
  <2>5. \A i \in 1..Len(AllEvents) : ~(i > base')
    BY <1>0, <1>4, <1>5
  <2> QED
    BY <1>0, <1>2, <1>5, <2>2, <2>3, <2>4, <2>5 DEF EventInv
<1>10. EventsAreNamed' /\ ParseModeInSync'
  BY <1>0, <1>5 DEF IInv, EventsAreNamed, ParseModeInSync
<1>11. ModeInv' /\ RelInv' /\ 1..Len(net') = {}
  <2>1. Len(net') = 0
    BY <1>0, <1>4
  <2>2. 1..Len(net') = {}
    BY <2>1
  <2>3. ModeInv'
    BY <1>0, <2>2, Zenon DEF ModeInv
  <2>4. RelInv'
    BY <1>0, <2>2, Zenon DEF RelInv
  <2> QED
    BY <2>2, <2>3, <2>4
<1>12. ChangeInv'
  <2> DEFINE b == Before'
  <2>1. b \in Nat /\ sent' = 2 * b
    BY <1>c
  <2>2. Done' = b
    <3>1. Done' = b + (Len(delivered) - Len(delivered))
      BY <1>0, <1>5, Zenon DEF Done
    <3> HIDE DEF b
    <3>2. b + (Len(delivered) - Len(delivered)) = b
      BY <1>4, <2>1
    <3> QED
      BY <3>1, <3>2, Zenon
  <2> HIDE DEF b
  <2>3. 2 * b <= sent' + 1 /\ 0 <= 2 * b + 1
    BY <2>1
  <2>4. \A k \in 1..Len(wal') : ~(b < k /\ 2 * k - 1 <= sent')
    BY <1>0, <1>1, <2>1
  <2> QED
    BY <1>0, <1>11, <2>2, <2>3, <2>4, Zenon DEF ChangeInv, InFlight, Covered, Ordered
<1> QED
  BY <1>6, <1>7, <1>9, <1>10, <1>11, <1>12 DEF IInv

\* The connection is gone: what was handed out and the channel stay.
LEMMA ConnectionLostKeeps == ASSUME IInv, ConnectionLost PROVE IInv'
<1>0. /\ pc \in {"head", "recv"} /\ pc' = "ended" /\ net' = <<>> /\ sent' = 0 /\ block' = FALSE
      /\ relSent' = {} /\ sysPos' = 0 /\ walPos' = 0 /\ relations' = {} /\ inStream' = FALSE
      /\ due' = FALSE /\ cur' = <<>>
      /\ UNCHANGED <<wal, open, slot, confirmed, start, buf, delivered, base, begun, restarts>>
  BY DEF ConnectionLost, Forgotten
<1>1. cur = <<>>
  BY <1>0 DEF IInv, Bounds
<1>2. AllEvents' = AllEvents /\ End' = End /\ Before' = Before
  BY <1>0, <1>1 DEF AllEvents, End, Before
<1>3. /\ <<>> \in Seq(Events) /\ <<>> \in Seq(Messages) /\ Len(<<>>) = 0 /\ 0 \in 0..End
      /\ 1..0 = {}
  BY EmptySeq, Basics
<1>4. TypeOK'
  BY <1>0, <1>2, <1>3 DEF IInv, TypeOK
<1>5. Bounds'
  BY <1>0, <1>2, <1>3 DEF IInv, Bounds
<1>6. EventInv' /\ EventsAreNamed'
  BY <1>0, <1>2 DEF IInv, EventInv, EventsAreNamed
<1>7. ParseModeInSync' /\ ~Connected'
  BY <1>0 DEF ParseModeInSync, Connected
<1> QED
  BY <1>4, <1>5, <1>6, <1>7 DEF IInv

LEMMA RestartKeeps == ASSUME IInv, Restart PROVE IInv'
<1>0. /\ pc' = "down" /\ net' = <<>> /\ cur' = <<>> /\ buf' = <<>> /\ sent' = 0 /\ block' = FALSE
      /\ relSent' = {} /\ sysPos' = 0 /\ walPos' = 0 /\ relations' = {} /\ inStream' = FALSE
      /\ due' = FALSE /\ restarts < MaxRestarts /\ restarts' = restarts + 1
      /\ UNCHANGED <<wal, open, slot, confirmed, start, delivered, base, begun>>
  BY DEF Restart, Forgotten
<1>1. /\ delivered \in Seq(Events) /\ buf \in Seq(Events) /\ cur \in Seq(Events)
      /\ base \in 0..Len(delivered) /\ restarts \in 0..MaxRestarts
  BY DEF IInv, TypeOK
<1>2. /\ Len(AllEvents') = Len(delivered) /\ Len(delivered) <= Len(AllEvents)
      /\ \A i \in 1..Len(delivered) : AllEvents'[i] = AllEvents[i]
  BY <1>0, <1>1, RestartCuts
<1>3. /\ <<>> \in Seq(Events) /\ <<>> \in Seq(Messages) /\ Len(<<>>) = 0
      /\ Len(delivered) \in Nat /\ Len(AllEvents) \in Nat /\ 0 \in 0..End
  BY <1>1, EmptySeq, LenProperties, Basics
<1>4. \A i \in 1..Len(AllEvents') : i \in 1..Len(AllEvents) /\ AllEvents'[i] = AllEvents[i]
  BY <1>2, <1>3
<1>5. \A i \in 1..base : i \in 1..Len(delivered) /\ AllEvents'[i] = AllEvents[i]
  BY <1>1, <1>2, <1>3
<1>6. End' = End /\ Before' = Before
  BY <1>0 DEF End, Before
<1>7. restarts' \in 0..MaxRestarts
  BY <1>0, <1>1, LogReplAssumption
<1>8. TypeOK'
  BY <1>0, <1>3, <1>6, <1>7 DEF IInv, TypeOK
<1>9. Bounds'
  BY <1>0, <1>3, <1>6 DEF IInv, Bounds
<1>10. EventInv'
  <2>1. \A i, j \in 1..base : i < j =>
           \/ AllEvents'[i].lsn < AllEvents'[j].lsn
           \/ AllEvents'[i].lsn = AllEvents'[j].lsn /\ AllEvents'[i].lsn \in begun
    BY <1>5 DEF IInv, EventInv
  <2>2. \A i \in 1..base : AllEvents'[i].lsn <= start
    BY <1>5 DEF IInv, EventInv
  <2>3. \A i \in 1..Len(AllEvents') :
           i > base => AllEvents'[i].lsn = 2 * (Before + (i - base)) - 1
    BY <1>4 DEF IInv, EventInv
  <2>4. \A i \in 1..Len(AllEvents') : AllEvents'[i].lsn <= End
    BY <1>4 DEF IInv, EventInv
  <2> QED
    BY <1>0, <1>6, <2>1, <2>2, <2>3, <2>4 DEF EventInv
<1>11. EventsAreNamed'
  BY <1>0, <1>4 DEF IInv, EventsAreNamed
<1>12. ParseModeInSync' /\ ~Connected'
  BY <1>0 DEF ParseModeInSync, Connected
<1> QED
  BY <1>8, <1>9, <1>10, <1>11, <1>12 DEF IInv

\* A message that joins those in flight.  A change is the next one of the log,
\* its Relation messages went before; any other message moves the server's
\* position past no change.
LEMMA SendKeeps ==
  ASSUME IInv, Connected, NEW m \in Messages, net' = Append(net, m),
         m.mode = block, block' = ModeAfter(m), block' \in BOOLEAN,
         sent' \in Nat, sent <= sent', sent' <= End,
         sent <= m.lsn, m.lsn <= sent' + 1, m.lsn <= End,
         relSent' = (IF m.kind = "relation" THEN relSent \cup m.rels ELSE relSent),
         Change(m) => /\ m.lsn = sent + 1 /\ sent' = m.lsn /\ m.rels \subseteq relSent
                      /\ \E k \in 1..Len(wal) :
                            m.lsn = 2 * k - 1 /\ m.kind = wal[k].op /\ m.rels = wal[k].rels,
         \A k \in 1..Len(wal) : 2 * k - 1 <= sent' =>
            2 * k - 1 <= sent \/ (Change(m) /\ m.lsn = 2 * k - 1),
         UNCHANGED <<wal, open, slot, confirmed, client, buf, delivered, base, begun, restarts>>
  PROVE  IInv'
<1>0. UNCHANGED <<wal, open, slot, confirmed, pc, sysPos, start, walPos, relations, inStream, due,
                  cur, buf, delivered, base, begun, restarts>>
  BY DEF client
<1>1. /\ Len(wal) \in Nat /\ End \in Nat /\ End <= 2 * Len(wal) /\ 2 * Len(wal) <= End + 1
      /\ Len(net) \in Nat /\ sent \in Nat /\ sent <= End
      /\ walPos \in Nat /\ Done \in Nat
      /\ \A p \in 1..Len(net) : net[p].lsn \in Nat
  BY Basics
<1>2. net \in Seq(Messages) /\ m.lsn \in Nat
  BY DEF IInv, TypeOK, Messages
<1>3. /\ net' \in Seq(Messages) /\ net' # <<>> /\ Len(net') = Len(net) + 1
      /\ \A p \in 1..Len(net) : net'[p] = net[p]
      /\ net'[Len(net) + 1] = m
  BY <1>2, AppendProperties
<1>4. /\ \A p \in 1..Len(net') : p \in 1..Len(net) \/ p = Len(net) + 1
      /\ \A p \in 1..Len(net) : p \in 1..Len(net')
      /\ Len(net) + 1 \in 1..Len(net')
  BY <1>1, <1>3
<1>5. AllEvents' = AllEvents /\ Before' = Before /\ Done' = Done /\ End' = End
  BY <1>0 DEF AllEvents, Before, Done, End
<1>6. ModeInv /\ RelInv /\ ChangeInv
  BY DEF IInv
<1>7. TypeOK'
  <2>1. sent' \in 0..End
    BY <1>1
  <2>2. relSent' \subseteq Tables
    BY DEF IInv, TypeOK, Messages
  <2> QED
    BY <1>0, <1>3, <1>5, <2>1, <2>2 DEF IInv, TypeOK
<1>8. Bounds'
  <2>1. \A p \in 1..Len(net') : net'[p].lsn <= End
    BY <1>3, <1>4 DEF IInv, Bounds
  <2>2. pc \notin {"down", "setup"}
    BY DEF Connected
  <2> QED
    BY <1>0, <1>5, <2>1, <2>2 DEF IInv, Bounds
<1>9. EventInv' /\ EventsAreNamed' /\ ParseModeInSync'
  BY <1>0, <1>5 DEF IInv, EventInv, EventsAreNamed, ParseModeInSync
<1>10. ModeInv'
  <2>1. net'[1].mode = inStream
    <3>1. CASE net = <<>>
      <4>1. Len(net) = 0
        BY <3>1, EmptySeq
      <4>2. net'[1] = m
        BY <1>3, <4>1
      <4> QED
        BY <1>6, <3>1, <4>2 DEF ModeInv
    <3>2. CASE net # <<>>
      <4>1. 1 \in 1..Len(net)
        <5>1. Len(net) # 0
          BY <1>2, <3>2, EmptySeq
        <5> QED
          BY <1>1, <5>1
      <4> QED
        BY <1>3, <1>6, <3>2, <4>1 DEF ModeInv
    <3> QED
      BY <3>1, <3>2
  <2>2. ModeAfter(net'[Len(net')]) = block'
    BY <1>3
  <2>3. ASSUME NEW p \in 1..Len(net'), p < Len(net')
        PROVE  net'[p + 1].mode = ModeAfter(net'[p])
    <3>1. p \in 1..Len(net) /\ net'[p] = net[p]
      BY <1>1, <1>3, <2>3
    <3>2. CASE p = Len(net)
      <4>1. net # <<>> /\ net'[p + 1] = m
        BY <1>1, <1>3, <3>1, <3>2, EmptySeq
      <4> QED
        BY <1>6, <3>1, <3>2, <4>1 DEF ModeInv
    <3>3. CASE p < Len(net)
      <4>1. p + 1 \in 1..Len(net) /\ net'[p + 1] = net[p + 1]
        BY <1>1, <1>3, <3>1, <3>3
      <4> QED
        BY <1>6, <3>1, <3>3, <4>1 DEF ModeInv
    <3> QED
      BY <1>1, <3>1, <3>2, <3>3
  <2> QED
    BY <1>0, <1>3, <2>1, <2>2, <2>3 DEF ModeInv
<1>11. RelInv'
  <2>1. ASSUME NEW t \in relSent'
        PROVE  t \in relations \/ \E q \in 1..Len(net') :
                  net'[q].kind = "relation" /\ t \in net'[q].rels
    <3>1. CASE t \in relSent
      <4>1. t \in relations \/ \E q \in 1..Len(net) : net[q].kind = "relation" /\ t \in net[q].rels
        BY <1>6, <3>1 DEF RelInv
      <4> QED
        BY <1>3, <1>4, <4>1
    <3>2. CASE m.kind = "relation" /\ t \in m.rels
      BY <1>3, <1>4, <3>2
    <3> QED
      BY <2>1, <3>1, <3>2
  <2>2. ASSUME NEW p \in 1..Len(net'), Change(net'[p]), NEW t \in net'[p].rels
        PROVE  t \in relations \/ \E q \in 1..Len(net') :
                  q < p /\ net'[q].kind = "relation" /\ t \in net'[q].rels
    <3>1. CASE p \in 1..Len(net)
      <4>1. t \in relations \/ \E q \in 1..Len(net) :
                  q < p /\ net[q].kind = "relation" /\ t \in net[q].rels
        BY <1>3, <1>6, <2>2, <3>1 DEF RelInv
      <4> QED
        BY <1>3, <1>4, <4>1
    <3>2. CASE p = Len(net) + 1
      <4>1. t \in relSent
        BY <1>3, <2>2, <3>2
      <4>2. t \in relations \/ \E q \in 1..Len(net) : net[q].kind = "relation" /\ t \in net[q].rels
        BY <1>6, <4>1 DEF RelInv
      <4>3. \A q \in 1..Len(net) : q < p
        BY <1>1, <3>2
      <4> QED
        BY <1>3, <1>4, <4>2, <4>3
    <3> QED
      BY <1>4, <3>1, <3>2
  <2> QED
    BY <1>0, <2>1, <2>2 DEF RelInv
<1>12. ChangeInv'
  <2>0. /\ 2 * Done <= sent + 1 /\ walPos <= 2 * Done + 1
        /\ \A p \in 1..Len(net) : net[p].lsn <= sent + 1
        /\ \A p \in 1..Len(net) : Change(net[p]) => net[p].lsn <= sent
    BY <1>6 DEF ChangeInv, InFlight, Covered, Ordered
  <2>1. 2 * Done <= sent' + 1
    <3>1. \A d, a, b \in Nat : 2 * d <= a + 1 /\ a <= b => 2 * d <= b + 1
      OBVIOUS
    <3> QED
      BY <1>1, <2>0, <3>1, Zenon
  <2>2. ASSUME NEW p \in 1..Len(net') PROVE net'[p].lsn <= sent' + 1
    <3>1. CASE p \in 1..Len(net)
      <4>1. net'[p].lsn \in Nat /\ net'[p].lsn <= sent + 1
        BY <1>1, <1>3, <2>0, <3>1
      <4> QED
        BY <1>1, <4>1
    <3>2. CASE p = Len(net) + 1
      BY <1>3, <3>2
    <3> QED
      BY <1>4, <3>1, <3>2
  <2>3. ASSUME NEW p \in 1..Len(net'), Change(net'[p])
        PROVE  \E k \in 1..Len(wal) :
                 /\ Done < k /\ net'[p].lsn = 2 * k - 1 /\ net'[p].lsn <= sent'
                 /\ net'[p].kind = wal[k].op /\ net'[p].rels = wal[k].rels
    <3>1. CASE p \in 1..Len(net)
      <4>1. PICK k \in 1..Len(wal) :
                 /\ Done < k /\ net[p].lsn = 2 * k - 1 /\ net[p].lsn <= sent
                 /\ net[p].kind = wal[k].op /\ net[p].rels = wal[k].rels
        BY <1>3, <1>6, <2>3, <3>1 DEF ChangeInv, InFlight, Covered, Ordered
      <4>2. net[p].lsn <= sent'
        BY <1>1, <3>1, <4>1
      <4> QED
        BY <1>3, <3>1, <4>1, <4>2
    <3>2. CASE p = Len(net) + 1
      <4>1. Change(m) /\ net'[p] = m
        BY <1>3, <2>3, <3>2
      <4>2. PICK k \in 1..Len(wal) : m.lsn = 2 * k - 1 /\ m.kind = wal[k].op /\ m.rels = wal[k].rels
        BY <4>1
      <4>3. m.lsn = sent + 1 /\ sent' = m.lsn
        BY <4>1
      <4>4. Done < k /\ m.lsn <= sent'
        BY <1>1, <1>2, <2>0, <4>2, <4>3
      <4> QED
        BY <4>1, <4>2, <4>4
    <3> QED
      BY <1>4, <3>1, <3>2
  <2>4. ASSUME NEW k \in 1..Len(wal), Done < k, 2 * k - 1 <= sent'
        PROVE  \E p \in 1..Len(net') : Change(net'[p]) /\ net'[p].lsn = 2 * k - 1
    <3>1. CASE 2 * k - 1 <= sent
      <4>1. PICK p \in 1..Len(net) : Change(net[p]) /\ net[p].lsn = 2 * k - 1
        BY <1>6, <2>4, <3>1 DEF ChangeInv, InFlight, Covered, Ordered
      <4> QED
        BY <1>3, <1>4, <4>1
    <3>2. CASE Change(m) /\ m.lsn = 2 * k - 1
      BY <1>3, <1>4, <3>2
    <3> QED
      BY <2>4, <3>1, <3>2
  <2>5. ASSUME NEW p \in 1..Len(net'), NEW q \in 1..Len(net'), p < q
        PROVE  /\ Change(net'[p]) => net'[p].lsn <= net'[q].lsn
               /\ Change(net'[q]) => net'[p].lsn <= net'[q].lsn
               /\ Change(net'[p]) /\ Change(net'[q]) => net'[p].lsn < net'[q].lsn
    <3>1. p \in 1..Len(net) /\ net'[p] = net[p] /\ net[p].lsn \in Nat
      BY <1>1, <1>3, <2>5
    <3>2. CASE q \in 1..Len(net)
      <4>1. net'[q] = net[q]
        BY <1>3, <3>2
      <4> QED
        BY <1>6, <2>5, <3>1, <3>2, <4>1 DEF ChangeInv, InFlight, Covered, Ordered
    <3>3. CASE q = Len(net) + 1
      <4>1. net'[q] = m
        BY <1>3, <3>3
      <4>2. net[p].lsn <= sent + 1 /\ (Change(net[p]) => net[p].lsn <= sent)
        BY <2>0, <3>1
      <4>3. Change(net[p]) => net[p].lsn <= m.lsn
        BY <1>1, <1>2, <3>1, <4>2, SMTT(30)
      <4>4. Change(m) => net[p].lsn <= m.lsn
        BY <1>1, <1>2, <3>1, <4>2
      <4>5. Change(net[p]) /\ Change(m) => net[p].lsn < m.lsn
        BY <1>1, <1>2, <3>1, <4>2, SMTT(30)
      <4> QED
        BY <3>1, <4>1, <4>3, <4>4, <4>5
    <3> QED
      BY <1>4, <3>2, <3>3
  <2>6. wal' = wal /\ walPos' = walPos /\ Done' = Done /\ walPos <= 2 * Done + 1
    BY <1>0, <1>5, <2>0
  <2>7. InFlight'
    <3> SUFFICES ASSUME NEW p \in 1..Len(net'), Change(net'[p])
                 PROVE  \E k \in 1..Len(wal') :
                          /\ Done' < k /\ net'[p].lsn = 2 * k - 1 /\ net'[p].lsn <= sent'
                          /\ net'[p].kind = wal'[k].op /\ net'[p].rels = wal'[k].rels
      BY DEF InFlight, Change
    <3>1. PICK k \in 1..Len(wal) :
                 /\ Done < k /\ net'[p].lsn = 2 * k - 1 /\ net'[p].lsn <= sent'
                 /\ net'[p].kind = wal[k].op /\ net'[p].rels = wal[k].rels
      BY <2>3, Zenon
    <3>2. k \in 1..Len(wal') /\ wal'[k] = wal[k] /\ Done' < k
      BY <2>6, <3>1, Zenon
    <3> QED
      BY <3>1, <3>2, Zenon
  <2>8. Covered'
    BY <2>4, <2>6, Zenon DEF Covered
  <2>9. Ordered'
    BY <2>5, Zenon DEF Ordered
  <2> QED
    BY <2>1, <2>2, <2>6, <2>7, <2>8, <2>9, Zenon DEF ChangeInv
<1> QED
  BY <1>7, <1>8, <1>9, <1>10, <1>11, <1>12 DEF IInv

\* What a transaction of the log is.
LEMMA TxnShape ==
  ASSUME NEW t \in Txn
  PROVE  /\ t.op \in {"row", "truncate"} /\ t.rels \subseteq Tables /\ t.rels # {}
         /\ t.op = "row" => \E r \in Tables : t.rels = {r}
<1>1. CASE t \in [op : {"row"}, rels : {{r} : r \in Tables},
                   kind : {"plain", "streamed"}]
  <2>1. t.op = "row" /\ t.rels \in {{r} : r \in Tables}
    BY <1>1
  <2>2. PICK r \in Tables : t.rels = {r}
    BY <2>1
  <2> QED
    BY <2>1, <2>2
<1>2. CASE t \in [op : {"truncate"}, rels : (SUBSET Tables) \ {{}},
                   kind : {"plain", "streamed"}]
  BY <1>2
<1> QED
  BY <1>1, <1>2 DEF Txn

LEMMA ServerSendKeeps == ASSUME IInv, ServerSend PROVE IInv'
<1> DEFINE k == TxnNo
           t == wal[k]
           lsn == 2 * k - 1
           msg(kind, l, rels) == [kind |-> kind, lsn |-> l, mode |-> block, rels |-> rels]
<1>0. /\ Connected /\ k <= Len(wal)
      /\ UNCHANGED <<wal, open, slot, confirmed, client, buf, delivered, base, begun, restarts>>
  BY DEF ServerSend, HasNext
<1>1. /\ Len(wal) \in Nat /\ End \in Nat /\ End <= 2 * Len(wal) /\ 2 * Len(wal) <= End + 1
      /\ sent \in Nat /\ sent <= End /\ MaxTxn \in Nat
      /\ block \in BOOLEAN /\ Len(wal) <= MaxTxn
  BY Basics DEF IInv, TypeOK, Bounds
<1>2. k \in 1..Len(wal) /\ k = sent \div 2 + 1
  BY <1>0, <1>1 DEF TxnNo
<1>3. /\ sent % 2 = 0 => lsn = sent + 1
      /\ sent % 2 = 1 => lsn = sent
  BY <1>1, <1>2
<1>4. t \in Txn
  BY <1>2, Basics
<1>5. t.op \in {"row", "truncate"} /\ t.rels \subseteq Tables
  BY <1>4, TxnShape
<1>6. /\ k \in Nat /\ lsn \in Nat /\ lsn + 1 \in Nat /\ lsn <= End /\ lsn + 1 = 2 * k
      /\ lsn + 1 <= 2 * MaxTxn
  BY <1>1, <1>2
<1>7. \A kind \in {"streamStart", "streamStop", "relation", "row", "truncate", "commit", "abort"} :
        \A rels \in SUBSET Tables :
           msg(kind, lsn, rels) \in Messages /\ msg(kind, lsn + 1, rels) \in Messages
  <2>1. lsn \in 0..(2 * MaxTxn) /\ lsn + 1 \in 0..(2 * MaxTxn)
    BY <1>1, <1>6
  <2> HIDE DEF lsn
  <2> QED
    BY <1>1, <2>1 DEF Messages
<1>8. \A j \in 1..Len(wal) : j \in Nat
  BY <1>1
<1> HIDE DEF k, lsn
<1>a. CASE /\ sent % 2 = 0 /\ ~block /\ net' = Append(net, msg("streamStart", lsn, {}))
           /\ block' = TRUE /\ UNCHANGED <<sent, relSent>>
  <2> DEFINE m == msg("streamStart", lsn, {})
  <2>1. /\ m.kind = "streamStart" /\ m.lsn = lsn /\ m.mode = block /\ m.rels = {} /\ m \in Messages
    BY <1>7
  <2> HIDE DEF m
  <2>2. ~Change(m) /\ ModeAfter(m) = TRUE
    BY <2>1 DEF Change, ModeAfter
  <2>3. /\ sent' \in Nat /\ sent <= sent' /\ sent' <= End /\ sent <= m.lsn
        /\ m.lsn <= sent' + 1 /\ m.lsn <= End
    <3>1. lsn = sent + 1
      BY <1>3, <1>a, Zenon
    <3>2. sent' = sent
      BY <1>6, <1>a
    <3> QED
      BY <1>1, <1>6, <2>1, <3>1, <3>2
  <2>4. net' = Append(net, m)
    BY <1>a DEF m
  <2> QED
    BY <1>0, <1>a, <2>1, <2>2, <2>3, <2>4, SendKeeps
<1>b. ASSUME sent % 2 = 0, NEW r \in t.rels, net' = Append(net, msg("relation", lsn, {r})),
             relSent' = relSent \cup {r}, UNCHANGED <<sent, block>>
      PROVE  IInv'
  <2> DEFINE m == msg("relation", lsn, {r})
  <2>1. /\ m.kind = "relation" /\ m.lsn = lsn /\ m.mode = block /\ m.rels = {r} /\ m \in Messages
    BY <1>5, <1>7
  <2> HIDE DEF m
  <2>2. ~Change(m) /\ ModeAfter(m) = block
    BY <1>1, <2>1 DEF Change, ModeAfter
  <2>3. /\ sent' \in Nat /\ sent <= sent' /\ sent' <= End /\ sent <= m.lsn
        /\ m.lsn <= sent' + 1 /\ m.lsn <= End
    <3>1. lsn = sent + 1
      BY <1>3, <1>b, Zenon
    <3>2. sent' = sent
      BY <1>6, <1>b
    <3> QED
      BY <1>1, <1>6, <2>1, <3>1, <3>2
  <2>4. net' = Append(net, m)
    BY <1>b DEF m
  <2>5. block' = ModeAfter(m) /\ block' \in BOOLEAN
    BY <1>1, <1>b, <2>2
  <2>6. relSent' = IF m.kind = "relation" THEN relSent \cup m.rels ELSE relSent
    BY <1>b, <2>1
  <2> QED
    BY <1>0, <1>b, <2>1, <2>2, <2>3, <2>4, <2>5, <2>6, SendKeeps
<1>c. CASE /\ sent % 2 = 0 /\ t.rels \subseteq relSent /\ net' = Append(net, msg(t.op, lsn, t.rels))
           /\ sent' = lsn /\ UNCHANGED <<block, relSent>>
  <2> DEFINE m == msg(t.op, lsn, t.rels)
  <2>1. /\ m.kind = t.op /\ m.lsn = lsn /\ m.mode = block /\ m.rels = t.rels /\ m \in Messages
    BY <1>5, <1>7
  <2> HIDE DEF m
  <2>2. Change(m) /\ ModeAfter(m) = block
    BY <1>1, <1>5, <2>1 DEF Change, ModeAfter
  <2>3. /\ sent' \in Nat /\ sent <= sent' /\ sent' <= End /\ sent <= m.lsn
        /\ m.lsn <= sent' + 1 /\ m.lsn <= End /\ m.lsn = sent + 1 /\ sent' = m.lsn
    BY <1>1, <1>3, <1>6, <1>c, <2>1
  <2>4. net' = Append(net, m)
    BY <1>c DEF m
  <2>5. block' = ModeAfter(m) /\ block' \in BOOLEAN
    BY <1>1, <1>c, <2>2
  <2>6. relSent' = IF m.kind = "relation" THEN relSent \cup m.rels ELSE relSent
    BY <1>5, <1>c, <2>1
  <2>7. \E j \in 1..Len(wal) : m.lsn = 2 * j - 1 /\ m.kind = wal[j].op /\ m.rels = wal[j].rels
    BY <1>2, <2>1 DEF lsn
  <2>8. \A j \in 1..Len(wal) : 2 * j - 1 <= sent' =>
          2 * j - 1 <= sent \/ (Change(m) /\ m.lsn = 2 * j - 1)
    BY <1>1, <1>8, <2>2, <2>3
  <2>9. m.rels \subseteq relSent
    BY <1>c, <2>1
  <2> QED
    BY <1>0, <2>1, <2>2, <2>3, <2>4, <2>5, <2>6, <2>7, <2>8, <2>9, SendKeeps
<1>d. CASE /\ sent % 2 = 1 /\ block /\ net' = Append(net, msg("streamStop", lsn, {}))
           /\ block' = FALSE /\ UNCHANGED <<sent, relSent>>
  <2> DEFINE m == msg("streamStop", lsn, {})
  <2>1. /\ m.kind = "streamStop" /\ m.lsn = lsn /\ m.mode = block /\ m.rels = {} /\ m \in Messages
    BY <1>7
  <2> HIDE DEF m
  <2>2. ~Change(m) /\ ModeAfter(m) = FALSE
    BY <2>1 DEF Change, ModeAfter
  <2>3. /\ sent' \in Nat /\ sent <= sent' /\ sent' <= End /\ sent <= m.lsn
        /\ m.lsn <= sent' + 1 /\ m.lsn <= End
    <3>1. lsn = sent
      BY <1>3, <1>d, Zenon
    <3>2. sent' = sent
      BY <1>6, <1>d
    <3> QED
      BY <1>1, <1>6, <2>1, <3>1, <3>2
  <2>4. net' = Append(net, m)
    BY <1>d DEF m
  <2> QED
    BY <1>0, <1>d, <2>1, <2>2, <2>3, <2>4, SendKeeps
<1>e. ASSUME sent % 2 = 1, 2 * k <= End, NEW kind \in {"abort", "commit"},
             net' = Append(net, msg(kind, lsn + 1, {})),
             sent' = lsn + 1, UNCHANGED <<block, relSent>>
      PROVE  IInv'
  <2> DEFINE m == msg(kind, lsn + 1, {})
  <2>1. /\ m.kind = kind /\ m.lsn = lsn + 1 /\ m.mode = block /\ m.rels = {} /\ m \in Messages
    BY <1>7, <1>e
  <2> HIDE DEF m
  <2>2. ~Change(m) /\ ModeAfter(m) = block
    BY <1>1, <1>e, <2>1 DEF Change, ModeAfter
  <2>3. /\ sent' \in Nat /\ sent <= sent' /\ sent' <= End /\ sent <= m.lsn
        /\ m.lsn <= sent' + 1 /\ m.lsn <= End
    <3>1. lsn = sent
      BY <1>3, <1>e, Zenon
    <3>2. sent' = lsn + 1 /\ lsn + 1 <= End
      BY <1>6, <1>e
    <3> QED
      BY <1>1, <1>6, <2>1, <3>1, <3>2
  <2>4. net' = Append(net, m)
    BY <1>e DEF m
  <2>5. block' = ModeAfter(m) /\ block' \in BOOLEAN
    BY <1>1, <1>e, <2>2
  <2>6. relSent' = IF m.kind = "relation" THEN relSent \cup m.rels ELSE relSent
    BY <1>e, <2>1
  <2>7. \A j \in 1..Len(wal) : 2 * j - 1 <= sent' => 2 * j - 1 <= sent
    <3>1. sent = 2 * k - 1 /\ sent' = sent + 1
      BY <1>3, <1>e DEF lsn
    <3> QED
      BY <1>6, <1>8, <3>1
  <2> QED
    BY <1>0, <2>1, <2>2, <2>3, <2>4, <2>5, <2>6, <2>7, SendKeeps
<1> QED
  <2>1. \/ /\ sent % 2 = 0 /\ ~block /\ net' = Append(net, msg("streamStart", lsn, {}))
           /\ block' = TRUE /\ UNCHANGED <<sent, relSent>>
        \/ /\ sent % 2 = 0 /\ UNCHANGED <<sent, block>>
           /\ \E r \in t.rels : /\ net' = Append(net, msg("relation", lsn, {r}))
                                /\ relSent' = relSent \cup {r}
        \/ /\ sent % 2 = 0 /\ t.rels \subseteq relSent /\ net' = Append(net, msg(t.op, lsn, t.rels))
           /\ sent' = lsn /\ UNCHANGED <<block, relSent>>
        \/ /\ sent % 2 = 1 /\ block /\ net' = Append(net, msg("streamStop", lsn, {}))
           /\ block' = FALSE /\ UNCHANGED <<sent, relSent>>
        \/ /\ sent % 2 = 1 /\ 2 * k <= End /\ sent' = lsn + 1 /\ UNCHANGED <<block, relSent>>
           /\ \E kind \in {"abort", "commit"} : net' = Append(net, msg(kind, lsn + 1, {}))
    BY DEF ServerSend, Send, k, lsn
  <2> QED
    BY <1>a, <1>b, <1>c, <1>d, <1>e, <2>1

LEMMA KeepaliveKeeps == ASSUME IInv, ServerKeepalive PROVE IInv'
<1>1. /\ Len(wal) \in Nat /\ End \in Nat /\ End <= 2 * Len(wal) /\ 2 * Len(wal) <= End + 1
      /\ sent \in Nat /\ sent <= End /\ MaxTxn \in Nat
      /\ block \in BOOLEAN /\ Len(wal) <= MaxTxn
  BY Basics DEF IInv, TypeOK, Bounds
<1> DEFINE m == [kind |-> "keepalive", lsn |-> sent, mode |-> block, rels |-> {}]
<1>2. sent \in 0..(2 * MaxTxn)
  BY <1>1
<1>3. /\ m \in Messages /\ m.kind = "keepalive" /\ m.lsn = sent /\ m.mode = block
  BY <1>1, <1>2 DEF Messages
<1>4. net' = Append(net, m)
  BY DEF ServerKeepalive, Send
<1> HIDE DEF m
<1>5. ~Change(m) /\ ModeAfter(m) = block
  BY <1>1, <1>3 DEF Change, ModeAfter
<1>6. /\ Connected
      /\ UNCHANGED <<wal, open, slot, confirmed, client, buf, delivered, base, begun, restarts>>
      /\ UNCHANGED <<sent, block, relSent>>
  BY DEF ServerKeepalive, server
<1>7. block' = ModeAfter(m) /\ block' \in BOOLEAN
  BY <1>1, <1>5, <1>6
<1>8. /\ sent' \in Nat /\ sent <= sent' /\ sent' <= End /\ sent <= m.lsn
      /\ m.lsn <= sent' + 1 /\ m.lsn <= End
  BY <1>1, <1>3, <1>6
<1> QED
  BY <1>3, <1>4, <1>5, <1>6, <1>7, <1>8, SendKeeps

\* The message that arrives next: it is in the parser's mode and acknowledges
\* nothing beyond the next change; if it is a change it is the next one, and
\* its relations are known.
LEMMA HeadOfNet ==
  ASSUME IInv, Connected, net # <<>>
  PROVE  /\ 1 \in 1..Len(net) /\ Head(net) = net[1] /\ net[1] \in Messages
         /\ net[1].lsn \in Nat /\ net[1].lsn <= End
         /\ net[1].mode = inStream
         /\ net[1].lsn <= 2 * Done + 1
         /\ Change(net[1]) =>
              /\ Done + 1 \in 1..Len(wal) /\ net[1].lsn = 2 * (Done + 1) - 1
              /\ net[1].lsn <= sent /\ net[1].rels \subseteq relations
              /\ net[1].kind = wal[Done + 1].op /\ net[1].rels = wal[Done + 1].rels
<1>0. ModeInv /\ RelInv /\ ChangeInv /\ net \in Seq(Messages)
  BY DEF IInv, TypeOK
<1>1. /\ Len(wal) \in Nat /\ Len(net) \in Nat /\ sent \in Nat /\ Done \in Nat
      /\ End \in Nat /\ End <= 2 * Len(wal) /\ 2 * Len(wal) <= End + 1
      /\ sent <= End
      /\ \A p \in 1..Len(net) : net[p].lsn \in Nat
      /\ \A p \in 1..Len(net) : net[p] \in Messages
  BY Basics
<1>2. 1 \in 1..Len(net) /\ Head(net) = net[1]
  <2>1. Len(net) # 0
    BY <1>0, EmptySeq
  <2> QED
    BY <1>1, <2>1
<1>3. net[1].lsn \in Nat /\ net[1].lsn <= End
  BY <1>1, <1>2 DEF IInv, Bounds
<1>4. net[1].mode = inStream
  BY <1>0 DEF ModeInv
<1>5. net[1].lsn <= 2 * Done + 1
  <2>1. CASE 2 * Done + 1 > sent
    <3>1. net[1].lsn <= sent + 1
      BY <1>0, <1>2 DEF ChangeInv
    <3> QED
      BY <1>1, <1>3, <2>1, <3>1
  <2>2. CASE 2 * Done + 1 <= sent
    <3>1. /\ Done + 1 \in 1..Len(wal) /\ Done < Done + 1
          /\ 2 * (Done + 1) - 1 <= sent /\ 2 * (Done + 1) - 1 = 2 * Done + 1
      BY <1>1, <2>2
    <3>2. PICK p \in 1..Len(net) : Change(net[p]) /\ net[p].lsn = 2 * (Done + 1) - 1
      BY <1>0, <3>1 DEF ChangeInv, Covered
    <3>3. CASE p = 1
      BY <3>1, <3>2, <3>3
    <3>4. CASE p # 1
      <4>1. 1 < p
        BY <1>1, <3>4
      <4>2. net[1].lsn <= net[p].lsn
        BY <1>0, <1>2, <3>2, <4>1 DEF ChangeInv, Ordered
      <4> QED
        BY <3>1, <3>2, <4>2
    <3> QED
      BY <3>3, <3>4
  <2> QED
    BY <1>1, <2>1, <2>2
<1>6. ASSUME Change(net[1])
      PROVE  /\ Done + 1 \in 1..Len(wal) /\ net[1].lsn = 2 * (Done + 1) - 1
             /\ net[1].lsn <= sent /\ net[1].rels \subseteq relations
             /\ net[1].kind = wal[Done + 1].op /\ net[1].rels = wal[Done + 1].rels
  <2>1. PICK k \in 1..Len(wal) :
           /\ Done < k /\ net[1].lsn = 2 * k - 1 /\ net[1].lsn <= sent
           /\ net[1].kind = wal[k].op /\ net[1].rels = wal[k].rels
    BY <1>0, <1>2, <1>6 DEF ChangeInv, InFlight
  <2>2. k = Done + 1
    BY <1>1, <1>5, <2>1
  <2>3. net[1].rels \subseteq relations
    <3> SUFFICES ASSUME NEW t \in net[1].rels PROVE t \in relations
      OBVIOUS
    <3>1. \A q \in 1..Len(net) : ~(q < 1)
      BY <1>1
    <3> QED
      BY <1>0, <1>2, <1>6, <3>1 DEF RelInv
  <2> QED
    BY <2>1, <2>2, <2>3
<1> QED
  BY <1>1, <1>2, <1>3, <1>4, <1>5, <1>6

\* What is left in flight after a message was taken.
LEMMA TakeKeeps ==
  ASSUME IInv, Connected, net # <<>>, net' = Tail(net),
         walPos' = Larger(walPos, net[1].lsn), inStream' = ModeAfter(net[1]),
         relations' = (IF net[1].kind = "relation" THEN relations \cup net[1].rels ELSE relations),
         Done' = (IF Change(net[1]) THEN Done + 1 ELSE Done),
         UNCHANGED <<wal, sent, block, relSent>>
  PROVE  ModeInv' /\ RelInv' /\ ChangeInv'
<1>0. ModeInv /\ RelInv /\ ChangeInv /\ net \in Seq(Messages)
  BY DEF IInv, TypeOK
<1>1. /\ Len(wal) \in Nat /\ Len(net) \in Nat /\ sent \in Nat /\ Done \in Nat /\ walPos \in Nat
      /\ \A p \in 1..Len(net) : net[p].lsn \in Nat
  BY Basics
<1>2. /\ 1 \in 1..Len(net) /\ net[1].lsn \in Nat /\ net[1].lsn <= 2 * Done + 1
      /\ Change(net[1]) => net[1].lsn = 2 * (Done + 1) - 1 /\ net[1].lsn <= sent
  BY HeadOfNet
<1>3. /\ net' \in Seq(Messages) /\ Len(net') = Len(net) - 1
      /\ \A p \in 1..Len(net') : net'[p] = net[p + 1]
  BY <1>0, HeadTailProperties
<1>4. /\ Len(net') \in Nat
      /\ \A p \in 1..Len(net') : p \in Nat /\ p + 1 \in 1..Len(net) /\ p + 1 # 1 /\ 1 < p + 1
      /\ \A q \in 1..Len(net) : q \in Nat /\
           (q # 1 => q - 1 \in 1..Len(net') /\ (q - 1) + 1 = q)
  BY <1>1, <1>2, <1>3
<1>5. \A q \in 1..Len(net) : q # 1 => q - 1 \in 1..Len(net') /\ net'[q - 1] = net[q]
  BY <1>3, <1>4
<1>6. ModeInv'
  <2>1. CASE net' = <<>>
    <3>0. Len(net') = 0
      BY <2>1, EmptySeq, Zenon
    <3>1. Len(net) = 1
      <4>1. Len(net) - 1 = 0
        BY <1>3, <3>0, Zenon
      <4> QED
        BY <1>1, <4>1
    <3>2. inStream' = block'
      BY <1>0, <3>1 DEF ModeInv
    <3>3. 1..Len(net') = {}
      <4>1. 1..0 = {}
        OBVIOUS
      <4> QED
        BY <3>0, <4>1, Zenon
    <3> QED
      BY <2>1, <3>2, <3>3, Zenon DEF ModeInv
  <2>2. CASE net' # <<>>
    <3>1. Len(net') # 0
      BY <1>3, <2>2, EmptySeq
    <3>2. /\ 1 \in 1..Len(net') /\ 1 < Len(net) /\ 1 + 1 = 2
          /\ Len(net') \in 1..Len(net') /\ Len(net') + 1 = Len(net)
      BY <1>1, <1>3, <1>4, <3>1
    <3>3. net'[1] = net[1 + 1] /\ net'[Len(net')] = net[Len(net)]
      BY <1>3, <3>2
    <3>4. net[1 + 1].mode = ModeAfter(net[1])
      BY <1>0, <1>2, <3>2 DEF ModeInv
    <3>5. ModeAfter(net'[Len(net')]) = block'
      BY <1>0, <3>3 DEF ModeInv
    <3>6. ASSUME NEW p \in 1..Len(net'), p < Len(net')
          PROVE  net'[p + 1].mode = ModeAfter(net'[p])
      <4>1. p + 1 \in 1..Len(net') /\ p + 1 \in 1..Len(net) /\ p + 1 < Len(net)
        BY <1>1, <1>3, <1>4, <3>6
      <4>2. net'[p + 1] = net[(p + 1) + 1] /\ net'[p] = net[p + 1]
        BY <1>3, <4>1
      <4>3. net[(p + 1) + 1].mode = ModeAfter(net[p + 1])
        BY <1>0, <4>1 DEF ModeInv
      <4> QED
        BY <4>2, <4>3
    <3>7. net'[1].mode = inStream'
      BY <3>3, <3>4
    <3> QED
      BY <2>2, <3>5, <3>6, <3>7 DEF ModeInv
  <2> QED
    BY <2>1, <2>2
<1>7. RelInv'
  <2>1. \A t \in relations : t \in relations'
    OBVIOUS
  <2>2. ASSUME NEW t \in relSent
        PROVE  t \in relations' \/ \E q \in 1..Len(net') :
                  net'[q].kind = "relation" /\ t \in net'[q].rels
    <3>1. CASE t \in relations
      BY <2>1, <3>1
    <3>2. CASE t \notin relations
      <4>1. PICK q \in 1..Len(net) : net[q].kind = "relation" /\ t \in net[q].rels
        BY <1>0, <3>2 DEF RelInv
      <4>2. CASE q = 1
        BY <4>1, <4>2
      <4>3. CASE q # 1
        BY <1>5, <4>1, <4>3
      <4> QED
        BY <4>2, <4>3
    <3> QED
      BY <3>1, <3>2
  <2>3. ASSUME NEW p \in 1..Len(net'), Change(net'[p]), NEW t \in net'[p].rels
        PROVE  t \in relations' \/ \E q \in 1..Len(net') :
                  q < p /\ net'[q].kind = "relation" /\ t \in net'[q].rels
    <3>1. CASE t \in relations
      BY <2>1, <3>1
    <3>2. CASE t \notin relations
      <4>1. p + 1 \in 1..Len(net) /\ Change(net[p + 1]) /\ t \in net[p + 1].rels
        BY <1>3, <1>4, <2>3
      <4>2. PICK q \in 1..Len(net) : q < p + 1 /\ net[q].kind = "relation" /\ t \in net[q].rels
        BY <1>0, <3>2, <4>1 DEF RelInv
      <4>3. CASE q = 1
        BY <4>2, <4>3
      <4>4. CASE q # 1
        <5>1. q - 1 \in 1..Len(net') /\ net'[q - 1] = net[q]
          BY <1>5, <4>4
        <5>2. q - 1 < p
          BY <1>4, <4>2
        <5> QED
          BY <4>2, <5>1, <5>2
      <4> QED
        BY <4>3, <4>4
    <3> QED
      BY <3>1, <3>2
  <2> QED
    BY <2>2, <2>3 DEF RelInv
<1>8. ChangeInv'
  <2> DEFINE d == IF Change(net[1]) THEN Done + 1 ELSE Done
  <2>1. Done' = d /\ wal' = wal /\ sent' = sent
    OBVIOUS
  <2>2. d \in Nat /\ Done <= d
    BY <1>1
  <2>3. 2 * d <= sent + 1
    <3>1. 2 * Done <= sent + 1
      BY <1>0 DEF ChangeInv
    <3> QED
      BY <1>1, <1>2, <3>1
  <2>4. walPos' \in Nat /\ walPos' <= 2 * d + 1
    <3>1. walPos <= 2 * Done + 1
      BY <1>0 DEF ChangeInv
    <3> QED
      BY <1>1, <1>2, <2>2, <3>1 DEF Larger
  <2>5. \A p \in 1..Len(net') : net'[p].lsn <= sent + 1
    BY <1>0, <1>3, <1>4 DEF ChangeInv
  <2>6. InFlight'
    <3> SUFFICES ASSUME NEW p \in 1..Len(net'), Change(net'[p])
                 PROVE  \E k \in 1..Len(wal) :
                          /\ Done' < k /\ net'[p].lsn = 2 * k - 1 /\ net'[p].lsn <= sent
                          /\ net'[p].kind = wal[k].op /\ net'[p].rels = wal[k].rels
      BY <2>1 DEF InFlight, Change
    <3>1. p + 1 \in 1..Len(net) /\ net'[p] = net[p + 1] /\ Change(net[p + 1]) /\ 1 < p + 1
      BY <1>3, <1>4
    <3>2. PICK k \in 1..Len(wal) :
             /\ Done < k /\ net[p + 1].lsn = 2 * k - 1 /\ net[p + 1].lsn <= sent
             /\ net[p + 1].kind = wal[k].op /\ net[p + 1].rels = wal[k].rels
      BY <1>0, <3>1 DEF ChangeInv, InFlight
    <3>3. Change(net[1]) => net[1].lsn < net[p + 1].lsn
      BY <1>0, <1>2, <3>1 DEF ChangeInv, Ordered
    <3>4. d < k
      <4>1. CASE Change(net[1])
        <5>1. 2 * (Done + 1) - 1 < 2 * k - 1 /\ k \in Int
          BY <1>2, <3>2, <3>3, <4>1
        <5> QED
          BY <1>1, <4>1, <5>1
      <4>2. CASE ~Change(net[1])
        BY <3>2, <4>2
      <4> QED
        BY <4>1, <4>2
    <3> HIDE DEF d
    <3>5. Done' < k
      BY <2>1, <3>4, Zenon
    <3> QED
      BY <3>1, <3>2, <3>5, Zenon
  <2>7. Covered'
    <3> SUFFICES ASSUME NEW k \in 1..Len(wal), Done' < k, 2 * k - 1 <= sent
                 PROVE  \E p \in 1..Len(net') : Change(net'[p]) /\ net'[p].lsn = 2 * k - 1
      BY <2>1, Zenon DEF Covered, Change
    <3> HIDE DEF d
    <3>0. d < k
      BY <2>1, Zenon
    <3> USE DEF d
    <3>1. Done < k /\ k \in Int
      BY <1>1, <2>2, <3>0
    <3>2. PICK p \in 1..Len(net) : Change(net[p]) /\ net[p].lsn = 2 * k - 1
      BY <1>0, <3>1 DEF ChangeInv, Covered
    <3>3. p # 1
      <4> SUFFICES ASSUME p = 1 PROVE FALSE
        OBVIOUS
      <4>1. 2 * k - 1 = 2 * (Done + 1) - 1 /\ Done + 1 < k
        BY <1>2, <3>0, <3>2
      <4> QED
        BY <1>1, <3>1, <4>1
    <3> QED
      BY <1>5, <3>2, <3>3
  <2>8. Ordered'
    <3> SUFFICES ASSUME NEW p \in 1..Len(net'), NEW q \in 1..Len(net'), p < q
                 PROVE  /\ Change(net'[p]) => net'[p].lsn <= net'[q].lsn
                        /\ Change(net'[q]) => net'[p].lsn <= net'[q].lsn
                        /\ Change(net'[p]) /\ Change(net'[q]) => net'[p].lsn < net'[q].lsn
      BY DEF Ordered, Change
    <3>1. /\ p + 1 \in 1..Len(net) /\ q + 1 \in 1..Len(net) /\ p + 1 < q + 1
          /\ net'[p] = net[p + 1] /\ net'[q] = net[q + 1]
      BY <1>3, <1>4
    <3> QED
      BY <1>0, <3>1 DEF ChangeInv, Ordered
  <2> HIDE DEF d
  <2> QED
    BY <2>1, <2>3, <2>4, <2>5, <2>6, <2>7, <2>8, Zenon DEF ChangeInv
<1> QED
  BY <1>6, <1>7, <1>8

\* The event a change becomes.
LEMMA EventOfChange ==
  ASSUME IInv, Connected, net # <<>>, Change(net[1]), NEW e,
         e \in (IF net[1].kind = "row" THEN RowEvent(net[1]) ELSE TruncateEvents(net[1]))
  PROVE  /\ e \in Events /\ e.lsn = net[1].lsn /\ e.table # NoTable
         /\ e.op = "row" => e.table \in net[1].rels
<1> DEFINE m == net[1]
<1>1. /\ m \in Messages /\ m.lsn \in Nat /\ m.lsn <= End /\ Done + 1 \in 1..Len(wal)
      /\ m.lsn = 2 * (Done + 1) - 1 /\ m.rels \subseteq relations
      /\ m.kind = wal[Done + 1].op /\ m.rels = wal[Done + 1].rels
  BY HeadOfNet
<1>2. /\ relations \subseteq Tables /\ NoTable \notin Tables /\ Len(wal) <= MaxTxn
      /\ MaxTxn \in Nat /\ Len(wal) \in Nat /\ End \in Nat /\ End <= 2 * Len(wal) /\ 2 * Len(wal) <= End + 1
      /\ Done \in Nat
  BY Basics, LogReplAssumption DEF IInv, TypeOK, Bounds
<1>3. m.lsn \in 1..(2 * MaxTxn)
  BY <1>1, <1>2, SMTT(30)
<1>4. wal[Done + 1] \in Txn
  BY <1>1, Basics
<1>5. m.rels # {} /\ m.kind \in {"row", "truncate"}
  BY <1>1, <1>4, TxnShape
<1>6. e \in (IF m.kind = "row" THEN RowEvent(m) ELSE TruncateEvents(m))
  OBVIOUS
<1> SUFFICES /\ e \in Events /\ e.lsn = m.lsn /\ e.table # NoTable
             /\ e.op = "row" => e.table \in m.rels
  OBVIOUS
<1> HIDE DEF m
<1>7. CASE m.kind = "row"
  <2> DEFINE r == CHOOSE x \in m.rels : TRUE
  <2>1. r \in m.rels
    BY <1>5
  <2>2. RowEvent(m) = {[lsn |-> m.lsn, op |-> "row", table |-> IF r \in relations THEN r ELSE NoTable]}
    BY DEF RowEvent
  <2> HIDE DEF r
  <2>3. r \in relations /\ r \in Tables /\ r # NoTable
    BY <1>1, <1>2, <2>1
  <2>4. e = [lsn |-> m.lsn, op |-> "row", table |-> r]
    BY <1>6, <1>7, <2>2, <2>3
  <2> QED
    BY <1>3, <2>1, <2>3, <2>4 DEF Events
<1>8. CASE m.kind = "truncate"
  <2>1. relations # {}
    BY <1>1, <1>5
  <2>2. PICK t \in relations : e = [lsn |-> m.lsn, op |-> "truncate", table |-> t]
    BY <1>6, <1>8, <2>1 DEF TruncateEvents
  <2>3. t \in Tables /\ t # NoTable
    BY <1>2
  <2> QED
    BY <1>3, <2>2, <2>3 DEF Events
<1> QED
  BY <1>5, <1>7, <1>8

\* The event the goroutine is about to send comes last.
LEMMA ReceiveAdds ==
  ASSUME delivered \in Seq(Events), buf \in Seq(Events), cur = <<>>, NEW e \in Events,
         delivered' = delivered, buf' = buf, cur' = <<e>>
  PROVE  /\ Len(AllEvents') = Len(AllEvents) + 1
         /\ \A i \in 1..Len(AllEvents) : AllEvents'[i] = AllEvents[i]
         /\ AllEvents'[Len(AllEvents) + 1] = e
<1> DEFINE db == delivered \o buf
<1>1. db \in Seq(Events)
  BY ConcatProperties
<1>2. AllEvents = db \o <<>> /\ AllEvents' = db \o <<e>>
  BY DEF AllEvents
<1> HIDE DEF db
<1>3. db \o <<>> = db
  BY <1>1, ConcatEmptySeq
<1>4. Append(db, e) = db \o <<e>>
  BY <1>1, AppendIsConcat
<1>5. /\ Len(Append(db, e)) = Len(db) + 1
      /\ \A i \in 1..Len(db) : Append(db, e)[i] = db[i]
      /\ Append(db, e)[Len(db) + 1] = e
  BY <1>1, AppendProperties
<1>6. AllEvents = db /\ AllEvents' = Append(db, e)
  BY <1>2, <1>3, <1>4, Zenon
<1> QED
  BY <1>5, <1>6, Zenon

\* What a message does to the goroutine, when it is in the parser's mode.
LEMMA ReceiveMeans ==
  ASSUME IInv, ReceiveMessage
  PROVE  /\ Connected /\ net # <<>> /\ net' = Tail(net) /\ cur = <<>>
         /\ walPos' = Larger(walPos, net[1].lsn) /\ inStream' = ModeAfter(net[1])
         /\ relations' = (IF net[1].kind = "relation" THEN relations \cup net[1].rels ELSE relations)
         /\ UNCHANGED <<wal, open, slot, confirmed, sent, block, relSent, sysPos, start, due, buf,
                        delivered, base, begun, restarts>>
         /\ \/ ~Change(net[1]) /\ pc' = "head" /\ cur' = <<>>
            \/ /\ Change(net[1]) /\ pc' = "emit"
               /\ \E e \in (IF net[1].kind = "row" THEN RowEvent(net[1]) ELSE TruncateEvents(net[1])) :
                     cur' = <<e>>
<1>1. /\ Connected /\ net # <<>> /\ pc = "recv" /\ net' = Tail(net)
      /\ UNCHANGED <<wal, open, slot, confirmed, sent, block, relSent, sysPos, start, due, buf,
                     delivered, base, begun, restarts>>
  BY DEF ReceiveMessage, Connected, server
<1>2. cur = <<>>
  BY <1>1 DEF IInv, Bounds
<1>3. Head(net) = net[1] /\ net[1].mode = inStream /\ net[1] \in Messages
  BY <1>1, HeadOfNet
<1> DEFINE m == net[1]
<1>4. m.mode \in BOOLEAN /\ inStream \in BOOLEAN
  BY <1>3 DEF Messages, IInv, TypeOK
<1>5. walPos' = Larger(walPos, m.lsn)
  BY <1>3 DEF ReceiveMessage, Received
<1>6. CASE m.kind = "keepalive"
  <2>1. pc' = "head" /\ UNCHANGED <<relations, inStream, cur>>
    BY <1>3, <1>6 DEF ReceiveMessage
  <2>2. inStream' = ModeAfter(m) /\ ~Change(m)
    BY <1>3, <1>4, <1>6, <2>1 DEF ModeAfter, Change
  <2> QED
    BY <1>1, <1>2, <1>5, <1>6, <2>1, <2>2
<1>7. CASE m.kind # "keepalive"
  <2>1. ProcessV2(m)
    BY <1>3, <1>7 DEF ReceiveMessage
  <2>2. relations' = (IF m.kind = "relation" THEN relations \cup m.rels ELSE relations)
    BY <2>1 DEF ProcessV2, RelationsAfter
  <2>3. inStream' = ModeAfter(m)
    BY <1>3, <1>4, <2>1 DEF ProcessV2, InStreamAfter, ModeAfter
  <2>4. pc' = IF cur' = <<>> THEN "head" ELSE "emit"
    BY <1>3, <2>1 DEF ProcessV2
  <2>5. CASE Change(m)
    <3>1. \E e \in (IF m.kind = "row" THEN RowEvent(m) ELSE TruncateEvents(m)) : cur' = <<e>>
      BY <2>1, <2>5 DEF ProcessV2, Change
    <3>2. cur' # <<>>
      BY <3>1
    <3> QED
      BY <1>1, <1>2, <1>5, <2>2, <2>3, <2>4, <2>5, <3>1, <3>2
  <2>6. CASE ~Change(m)
    <3>1. cur' = <<>>
      BY <2>1, <2>6 DEF ProcessV2, Change
    <3> QED
      BY <1>1, <1>2, <1>5, <2>2, <2>3, <2>4, <2>6, <3>1
  <2> QED
    BY <2>5, <2>6
<1> QED
  BY <1>6, <1>7

\* A message is taken: the event of a change is the session's next.
LEMMA ReceiveKeeps == ASSUME IInv, ReceiveMessage PROVE IInv'
<1> DEFINE m == net[1]
<1>1. /\ Connected /\ net # <<>> /\ net' = Tail(net) /\ cur = <<>>
      /\ walPos' = Larger(walPos, m.lsn) /\ inStream' = ModeAfter(m)
      /\ relations' = (IF m.kind = "relation" THEN relations \cup m.rels ELSE relations)
      /\ UNCHANGED <<wal, open, slot, confirmed, sent, block, relSent, sysPos, start, due, buf,
                     delivered, base, begun, restarts>>
  BY ReceiveMeans
<1>2. /\ Len(wal) \in Nat /\ End \in Nat /\ End <= 2 * Len(wal) /\ 2 * Len(wal) <= End + 1
      /\ Len(net) \in Nat /\ walPos \in Nat /\ walPos <= End
      /\ Len(AllEvents) \in Nat /\ base \in Nat /\ base <= Len(AllEvents) /\ Before \in Nat /\ Done \in Nat
      /\ Done = Before + (Len(AllEvents) - base)
  BY Basics
<1>3. /\ 1 \in 1..Len(net) /\ m \in Messages /\ m.lsn \in Nat /\ m.lsn <= End
      /\ Change(m) => /\ Done + 1 \in 1..Len(wal) /\ m.lsn = 2 * (Done + 1) - 1
                      /\ m.rels = wal[Done + 1].rels
  BY <1>1, HeadOfNet
<1>4. End' = End /\ Before' = Before
  BY <1>1 DEF End, Before
<1>5. /\ net \in Seq(Messages) /\ delivered \in Seq(Events) /\ buf \in Seq(Events) /\ cur \in Seq(Events)
      /\ relations \subseteq Tables /\ <<>> \in Seq(Events)
  BY EmptySeq DEF IInv, TypeOK
<1>6. /\ net' \in Seq(Messages) /\ Len(net') = Len(net) - 1
      /\ \A p \in 1..Len(net') : net'[p] = net[p + 1]
  BY <1>1, <1>5, HeadTailProperties
<1>7. walPos' \in 0..End
  BY <1>1, <1>2, <1>3 DEF Larger
<1>8. ModeAfter(m) \in BOOLEAN /\ relations' \subseteq Tables
  BY <1>1, <1>3, <1>5 DEF ModeAfter, Messages
<1>9. \A p \in 1..Len(net') : net'[p].lsn <= End
  <2>1. \A p \in 1..Len(net') : p + 1 \in 1..Len(net)
    BY <1>2, <1>3, <1>6
  <2> QED
    BY <1>6, <2>1 DEF IInv, Bounds
<1>10. ASSUME cur' \in Seq(Events), pc' \in {"head", "emit"}, cur' # <<>> => pc' = "emit"
       PROVE  TypeOK' /\ Bounds' /\ ParseModeInSync'
  <2>1. TypeOK'
    BY <1>1, <1>4, <1>6, <1>7, <1>8, <1>10 DEF IInv, TypeOK
  <2>2. Bounds'
    BY <1>1, <1>4, <1>9, <1>10 DEF IInv, Bounds
  <2>3. ParseModeInSync'
    BY <1>10 DEF ParseModeInSync
  <2> QED
    BY <2>1, <2>2, <2>3
<1>11. CASE ~Change(m) /\ pc' = "head" /\ cur' = <<>>
  <2>1. AllEvents' = AllEvents
    BY <1>1, <1>11 DEF AllEvents
  <2>2. Done' = Done
    BY <1>1, <1>4, <2>1, Zenon DEF Done
  <2>3. EventInv' /\ EventsAreNamed'
    BY <1>1, <1>4, <1>11, <2>1 DEF IInv, EventInv, EventsAreNamed
  <2>4. ModeInv' /\ RelInv' /\ ChangeInv'
    <3>1. Done' = IF Change(net[1]) THEN Done + 1 ELSE Done
      BY <1>11, <2>2
    <3> QED
      BY <1>1, <3>1, TakeKeeps
  <2>5. TypeOK' /\ Bounds' /\ ParseModeInSync'
    BY <1>5, <1>10, <1>11
  <2> QED
    BY <2>3, <2>4, <2>5 DEF IInv
<1>12. ASSUME Change(m), pc' = "emit", NEW e, cur' = <<e>>,
              e \in (IF m.kind = "row" THEN RowEvent(m) ELSE TruncateEvents(m))
       PROVE  IInv'
  <2>1. /\ e \in Events /\ e.lsn = m.lsn /\ e.table # NoTable
        /\ e.op = "row" => e.table \in m.rels
    BY <1>1, <1>12, EventOfChange
  <2>2. /\ Len(AllEvents') = Len(AllEvents) + 1
        /\ \A i \in 1..Len(AllEvents) : AllEvents'[i] = AllEvents[i]
        /\ AllEvents'[Len(AllEvents) + 1] = e
    BY <1>1, <1>5, <1>12, <2>1, ReceiveAdds
  <2>3. cur' \in Seq(Events)
    BY <1>12, <2>1
  <2>4. \A i \in 1..(Len(AllEvents) + 1) : i \in 1..Len(AllEvents) \/ i = Len(AllEvents) + 1
    BY <1>2
  <2>5. Done' = Done + 1
    <3>1. Done' = Before + ((Len(AllEvents) + 1) - base)
      BY <1>1, <1>4, <2>2, Zenon DEF Done
    <3>2. Before + ((Len(AllEvents) + 1) - base) = Done + 1
      BY <1>2
    <3> QED
      BY <3>1, <3>2, Zenon
  <2>6. EventInv'
    <3>1. \A i \in 1..base : i \in 1..Len(AllEvents)
      BY <1>2
    <3>2. \A i, j \in 1..base : i < j =>
             \/ AllEvents'[i].lsn < AllEvents'[j].lsn
             \/ AllEvents'[i].lsn = AllEvents'[j].lsn /\ AllEvents'[i].lsn \in begun
      BY <2>2, <3>1 DEF IInv, EventInv
    <3>3. \A i \in 1..base : AllEvents'[i].lsn <= start
      BY <2>2, <3>1 DEF IInv, EventInv
    <3>4. ASSUME NEW i \in 1..(Len(AllEvents) + 1)
          PROVE  /\ i > base => AllEvents'[i].lsn = 2 * (Before + (i - base)) - 1
                 /\ AllEvents'[i].lsn <= End
      <4>1. CASE i \in 1..Len(AllEvents)
        BY <2>2, <4>1 DEF IInv, EventInv
      <4>2. CASE i = Len(AllEvents) + 1
        <5>1. AllEvents'[i].lsn = 2 * (Done + 1) - 1 /\ AllEvents'[i].lsn <= End
          BY <1>3, <1>12, <2>1, <2>2, <4>2
        <5>2. Done + 1 = Before + (i - base)
          BY <1>2, <4>2
        <5> QED
          BY <5>1, <5>2
      <4> QED
        BY <2>4, <4>1, <4>2
    <3> QED
      BY <1>1, <1>4, <1>12, <2>2, <3>2, <3>3, <3>4, Zenon DEF EventInv
  <2>7. EventsAreNamed'
    <3>1. ASSUME NEW i \in 1..(Len(AllEvents) + 1)
          PROVE  /\ AllEvents'[i].table # NoTable
                 /\ AllEvents'[i].op = "row" =>
                      AllEvents'[i].table \in wal[(AllEvents'[i].lsn + 1) \div 2].rels
      <4>1. CASE i \in 1..Len(AllEvents)
        BY <2>2, <4>1 DEF IInv, EventsAreNamed
      <4>2. CASE i = Len(AllEvents) + 1
        <5>1. AllEvents'[i] = e
          BY <2>2, <4>2
        <5>2. (e.lsn + 1) \div 2 = Done + 1
          <6>1. Done + 1 \in Nat \ {0}
            BY <1>2
          <6>2. e.lsn = 2 * (Done + 1) - 1
            BY <1>3, <1>12, <2>1
          <6> QED
            BY <6>1, <6>2, Halves, Zenon
        <5> QED
          BY <1>3, <1>12, <2>1, <5>1, <5>2
      <4> QED
        BY <2>4, <4>1, <4>2
    <3> QED
      BY <1>1, <2>2, <3>1 DEF EventsAreNamed
  <2>8. ModeInv' /\ RelInv' /\ ChangeInv'
    <3>1. Done' = IF Change(net[1]) THEN Done + 1 ELSE Done
      BY <1>12, <2>5
    <3> QED
      BY <1>1, <3>1, TakeKeeps
  <2>9. TypeOK' /\ Bounds' /\ ParseModeInSync'
    BY <1>10, <1>12, <2>3
  <2> QED
    BY <2>6, <2>7, <2>8, <2>9 DEF IInv
<1> QED
  BY <1>11, <1>12, ReceiveMeans

-----------------------------------------------------------------------------
(* The theorems.                                                           *)

\* Every step of the server, the connection, the goroutine and the consumer
\* preserves the invariant.
THEOREM NextIInv == IInv /\ [Next]_vars => IInv'
<1> SUFFICES ASSUME IInv, [Next]_vars PROVE IInv'
  OBVIOUS
<1>1. ASSUME NEW t \in Txn, Write(t) PROVE IInv'
  BY <1>1, WriteKeeps
<1>c. CASE Commit
  BY <1>c, CommitKeeps
<1>2. CASE ServerSend
  BY <1>2, ServerSendKeeps
<1>3. CASE ServerKeepalive
  BY <1>3, KeepaliveKeeps
<1>4. CASE IdentifySystem
  BY <1>4, IdentifyKeeps
<1>5. CASE StartReplication
  BY <1>5, StartKeeps
<1>6. CASE Tick
  BY <1>6, TickKeeps
<1>7. CASE LoopHead
  BY <1>7, LoopHeadKeeps
<1>8. CASE ReceiveMessage
  BY <1>8, ReceiveKeeps
<1>9. CASE ReceiveTimeout
  BY <1>9, TimeoutKeeps
<1>l. CASE ConnectionLost
  BY <1>l, ConnectionLostKeeps
<1>10. CASE Emit
  BY <1>10, EmitKeeps
<1>11. CASE Consume
  BY <1>11, ConsumeKeeps
<1>12. CASE Restart
  BY <1>12, RestartKeeps
<1>13. CASE UNCHANGED vars
  BY <1>13, StutterKeeps
<1> QED
  BY <1>1, <1>c, <1>2, <1>3, <1>4, <1>5, <1>6, <1>7, <1>8, <1>9, <1>l, <1>10, <1>11, <1>12, <1>13
     DEF Next, Loop

LEMMA SpecIInv == Spec => []IInv
  BY InitIInv, NextIInv, PTL DEF Spec

\* The types of the server, the connection and the client.
THEOREM TypeCorrect == Spec => []TypeOK
<1>1. IInv => TypeOK
  BY DEF IInv
<1> QED
  BY <1>1, SpecIInv, PTL

\* ParseV2 is always called in the mode the message was encoded in
\* (process_v2.go, stream.go).
THEOREM ParseMode == Spec => []ParseModeInSync
<1>1. IInv => ParseModeInSync
  BY DEF IInv
<1> QED
  BY <1>1, SpecIInv, PTL

\* The relation an event needs is always known (process_v2.go).
THEOREM EventsNamed == Spec => []EventsAreNamed
<1>1. IInv => EventsAreNamed
  BY DEF IInv
<1> QED
  BY <1>1, SpecIInv, PTL

\* No event twice, over any number of restarts, but the change of a transaction
\* that was running when the session's position was read (stream.go,
\* setupReplication).
THEOREM NoRedelivery == Spec => []NeverRedelivered
<1>1. IInv => NeverRedelivered
  BY Consequences
<1> QED
  BY <1>1, SpecIInv, PTL

\* No gap within a session (stream.go, streamEvents).
THEOREM NoGap == Spec => []SessionHasNoGap
<1>1. IInv => SessionHasNoGap
  BY Consequences
<1> QED
  BY <1>1, SpecIInv, PTL

\* A status update never acknowledges a change that was not received
\* (stream.go, streamEvents).
THEOREM AckReceived == Spec => []AckedWasReceived
<1>1. IInv => AckedWasReceived
  BY Consequences
<1> QED
  BY <1>1, SpecIInv, PTL
=============================================================================
