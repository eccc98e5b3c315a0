-------------------------- MODULE GrpcPeerProofs ----------------------------
(***************************************************************************)
(* Proofs about the gRPC peer, for every sequence of events, every set of  *)
(* sink workers and of clients, and every capacity of the channels.        *)
(***************************************************************************)
EXTENDS GrpcPeer, SequenceTheorems, TLAPS

\* The numbers of the events, and what a client makes of event n.
No == 1..Len(Events)
Received(n) ==
  [no |-> n, name |-> NamedTable(Message(n).table), op |-> "c", after |-> Events[n].after]
Messages == {Message(n) : n \in No}
Receipts == {Received(n) : n \in No}

-----------------------------------------------------------------------------
(* The inductive invariant.                                                *)

\* A message in flight is that of its event, what a client holds is what it
\* makes of it.
TypeInv ==
  /\ given \in 0..Len(Events)
  /\ pubs \in [Workers -> No \cup {Nothing}]
  /\ sent \in Seq(No) /\ events \in Seq(No)
  /\ stream \in [Clients -> {"none", "dialed", "open", "broken", "ended"}]
  /\ held \in [Clients -> No \cup {Nothing}]
  /\ wire \in [Clients -> Seq(Messages)]
  /\ recv \in [Clients -> Seq(Receipts)]
  /\ \A c \in Clients : recv[c] # <<>> => \E r \in Receipts : recv[c] = <<r>>
  /\ out \in [Clients -> Seq(Receipts)] /\ got \in [Clients -> Seq(Receipts)]

InSent(x) == \E i \in DOMAIN sent : sent[i] = x

\* Pub sent a before b.
Precedes(a, b) == \E i, j \in DOMAIN sent : i < j /\ sent[i] = a /\ sent[j] = b

\* Each event is taken by one worker and sent once, by the one with the mutex.
PubInv ==
  /\ \A i, j \in DOMAIN sent : sent[i] = sent[j] => i = j
  /\ \A i \in DOMAIN sent : sent[i] <= given
  /\ \A w \in Workers : pubs[w] # Nothing => pubs[w] <= given /\ ~InSent(pubs[w])
  /\ \A v, w \in Workers : pubs[v] = pubs[w] /\ pubs[v] # Nothing => v = w
  /\ mu # Nothing => mu \in Workers /\ pubs[mu] # Nothing

\* The channel holds what was sent, in order.
ChanInv ==
  /\ \A k \in DOMAIN events : InSent(events[k])
  /\ \A k, l \in DOMAIN events : k < l => Precedes(events[k], events[l])

OnWay(c, x) == \E i \in DOMAIN Way(c) : Way(c)[i] = x

\* A client's share is in order and before what is still in the channel, and
\* nobody else's.
WayInv ==
  /\ \A c \in Clients : \A i, j \in DOMAIN Way(c) : i < j => Precedes(Way(c)[i], Way(c)[j])
  /\ \A c \in Clients : \A x \in No : OnWay(c, x) =>
        InSent(x) /\ \A k \in DOMAIN events : Precedes(x, events[k])
  /\ \A c, d \in Clients : \A x \in No : OnWay(c, x) /\ OnWay(d, x) => c = d

\* Without a broken stream nothing that can be sent is missing.
NoBreak == \A c \in Clients : stream[c] \notin {"broken", "ended"}
LossInv ==
  NoBreak => \A x \in No : InSent(x) /\ HasData(x) =>
               (\E k \in DOMAIN events : events[k] = x) \/ (\E c \in Clients : OnWay(c, x))

IInv == TypeInv /\ PubInv /\ ChanInv /\ WayInv /\ LossInv

-----------------------------------------------------------------------------
(* Sequences.                                                              *)

Nos(s) == [i \in DOMAIN s |-> s[i].no]

\* The first item of the second sequence may as well be the last of the first.
LEMMA Shift ==
  ASSUME NEW S, NEW a \in Seq(S), NEW b \in Seq(S), b # <<>>
  PROVE  Append(a, Head(b)) \o Tail(b) = a \o b
<1>1. /\ Append(a, Head(b)) \in Seq(S) /\ Tail(b) \in Seq(S)
      /\ Len(Append(a, Head(b))) = Len(a) + 1 /\ Len(Tail(b)) = Len(b) - 1
      /\ Len(a) \in Nat /\ Len(b) \in Nat /\ Len(b) > 0
  OBVIOUS
<1>2. Len(Append(a, Head(b)) \o Tail(b)) = Len(a \o b)
  BY <1>1
<1>3. \A i \in 1..Len(a \o b) : (Append(a, Head(b)) \o Tail(b))[i] = (a \o b)[i]
  <2> SUFFICES ASSUME NEW i \in 1..Len(a \o b)
               PROVE  (Append(a, Head(b)) \o Tail(b))[i] = (a \o b)[i]
    OBVIOUS
  <2>1. i \in Nat /\ 1 <= i /\ i <= Len(a) + Len(b)
    BY <1>1
  <2>2. CASE i <= Len(a)
    BY <2>1, <2>2, <1>1
  <2>3. CASE i = Len(a) + 1
    BY <2>1, <2>3, <1>1
  <2>4. CASE i > Len(a) + 1
    <3>1. (a \o b)[i] = b[i - Len(a)]
      BY <2>1, <2>4, <1>1
    <3>2. (Append(a, Head(b)) \o Tail(b))[i] = Tail(b)[i - (Len(a) + 1)]
      BY <2>1, <2>4, <1>1
    <3>3. Tail(b)[i - (Len(a) + 1)] = b[i - Len(a)]
      BY <2>1, <2>4, <1>1
    <3> QED
      BY <3>1, <3>2, <3>3
  <2> QED
    BY <2>1, <2>2, <2>3, <2>4, <1>1
<1>4. a \o b \in Seq(S) /\ Append(a, Head(b)) \o Tail(b) \in Seq(S)
  BY <1>1
<1> QED
  BY <1>2, <1>3, <1>4, SeqEqual

\* Appending to the second sequence.
LEMMA AppendSecond ==
  ASSUME NEW S, NEW a \in Seq(S), NEW b \in Seq(S), NEW x \in S
  PROVE  a \o Append(b, x) = Append(a \o b, x)
OBVIOUS

\* A sequence of one, and of none.
LEMMA Unit ==
  ASSUME NEW S, NEW a \in Seq(S), NEW x \in S
  PROVE  a \o <<x>> = Append(a, x) /\ a \o <<>> = a
OBVIOUS

\* A sequence is a function on its indices.
LEMMA Shape ==
  ASSUME NEW S, NEW t \in Seq(S), NEW n, Len(t) = n
  PROVE  t = [i \in 1..n |-> t[i]]
OBVIOUS

\* The numbers of the items.
LEMMA NosFacts ==
  ASSUME NEW S, \A y \in S : y.no \in No, NEW s \in Seq(S), NEW x \in S
  PROVE  /\ Nos(s) \in Seq(No)
         /\ Nos(Append(s, x)) = Append(Nos(s), x.no)
         /\ s # <<>> => /\ Nos(Tail(s)) = Tail(Nos(s)) /\ Head(Nos(s)) = Head(s).no
                        /\ Nos(s) # <<>>
<1>1. Len(s) \in Nat /\ DOMAIN s = 1..Len(s) /\ \A i \in 1..Len(s) : s[i] \in S
  OBVIOUS
<1>2. Nos(s) \in [1..Len(s) -> No]
  BY <1>1 DEF Nos
<1>3. Nos(s) \in Seq(No) /\ Len(Nos(s)) = Len(s)
  BY <1>1, <1>2, SeqDef
<1>4. /\ Append(s, x) \in Seq(S) /\ Len(Append(s, x)) = Len(s) + 1
      /\ DOMAIN Append(s, x) = 1..(Len(s) + 1)
  OBVIOUS
<1>5. Nos(Append(s, x)) = Append(Nos(s), x.no)
  <2>1. /\ Append(Nos(s), x.no) \in Seq(No) /\ Len(Append(Nos(s), x.no)) = Len(s) + 1
    BY <1>3
  <2>2. \A i \in 1..(Len(s) + 1) : Append(Nos(s), x.no)[i] = Append(s, x)[i].no
    <3> SUFFICES ASSUME NEW i \in 1..(Len(s) + 1)
                 PROVE  Append(Nos(s), x.no)[i] = Append(s, x)[i].no
      OBVIOUS
    <3>1. CASE i = Len(s) + 1
      <4>1. Append(Nos(s), x.no)[i] = x.no
        BY <3>1, <1>3
      <4>2. Append(s, x)[i] = x
        BY <3>1, <1>1
      <4> QED
        BY <4>1, <4>2
    <3>2. CASE i \in 1..Len(s)
      <4>1. Append(Nos(s), x.no)[i] = Nos(s)[i] /\ Append(s, x)[i] = s[i]
        BY <3>2, <1>3, <1>1
      <4> QED
        BY <4>1, <3>2, <1>1 DEF Nos
    <3>3. i = Len(s) + 1 \/ i \in 1..Len(s)
      BY <1>1
    <3> QED
      BY <3>1, <3>2, <3>3
  <2>3. Append(Nos(s), x.no) = [i \in 1..(Len(s) + 1) |-> Append(Nos(s), x.no)[i]]
    BY <2>1, Shape
  <2> QED
    BY <2>2, <2>3, <1>4 DEF Nos
<1>6. ASSUME s # <<>>
      PROVE  Nos(Tail(s)) = Tail(Nos(s)) /\ Head(Nos(s)) = Head(s).no /\ Nos(s) # <<>>
  <2>1. /\ Len(s) > 0 /\ Tail(s) \in Seq(S) /\ DOMAIN Tail(s) = 1..(Len(s) - 1)
        /\ \A i \in 1..(Len(s) - 1) : Tail(s)[i] = s[i + 1]
    BY <1>6, <1>1
  <2>2. Nos(s) # <<>>
    BY <2>1, <1>3
  <2>3. /\ Tail(Nos(s)) \in Seq(No) /\ Len(Tail(Nos(s))) = Len(s) - 1
        /\ \A i \in 1..(Len(s) - 1) : Tail(Nos(s))[i] = Nos(s)[i + 1]
    BY <2>2, <1>3
  <2>4. \A i \in 1..(Len(s) - 1) : Tail(Nos(s))[i] = Tail(s)[i].no
    <3> SUFFICES ASSUME NEW i \in 1..(Len(s) - 1) PROVE Nos(s)[i + 1] = s[i + 1].no
      BY <2>1, <2>3
    <3>1. i + 1 \in DOMAIN s
      BY <1>1
    <3> QED
      BY <3>1 DEF Nos
  <2>5. Tail(Nos(s)) = [i \in 1..(Len(s) - 1) |-> Tail(Nos(s))[i]]
    BY <2>3, Shape
  <2>6. Nos(Tail(s)) = Tail(Nos(s))
    BY <2>1, <2>4, <2>5 DEF Nos
  <2>7. Head(Nos(s)) = Nos(s)[1] /\ Head(s) = s[1] /\ 1 \in DOMAIN s
    BY <2>1, <2>2, <1>1, <1>3
  <2> QED
    BY <2>2, <2>6, <2>7 DEF Nos
<1> QED
  BY <1>3, <1>5, <1>6

-----------------------------------------------------------------------------
(* A client's way, and how the steps change it.                            *)

\* The event a handler holds, as a sequence.
Hand(c) == IF held[c] = Nothing THEN <<>> ELSE <<held[c]>>

\* The numbers of a message and of what becomes of it.
LEMMA Numbers ==
  /\ \A y \in Messages : y.no \in No /\ y = Message(y.no)
  /\ \A y \in Receipts : y.no \in No /\ y = Received(y.no)
<1>1. \A n : Message(n).no = n /\ Received(n).no = n
  BY DEF Message, Received
<1> QED
  BY <1>1 DEF Messages, Receipts

\* The parts of the way are sequences of event numbers, and the way is their
\* concatenation.
LEMMA WayParts ==
  ASSUME TypeInv, NEW c \in Clients
  PROVE  /\ Nos(got[c]) \in Seq(No) /\ Nos(out[c]) \in Seq(No)
         /\ Nos(recv[c]) \in Seq(No) /\ Nos(wire[c]) \in Seq(No)
         /\ Hand(c) \in Seq(No) /\ Way(c) \in Seq(No)
         /\ Way(c) = Nos(got[c]) \o Nos(out[c]) \o Nos(recv[c]) \o Nos(wire[c]) \o Hand(c)
<1>1. got[c] \in Seq(Receipts) /\ out[c] \in Seq(Receipts) /\ recv[c] \in Seq(Receipts)
      /\ wire[c] \in Seq(Messages) /\ held[c] \in No \cup {Nothing}
  BY DEF TypeInv
<1>2. ASSUME NEW S, \A y \in S : y.no \in No, NEW s \in Seq(S) PROVE Nos(s) \in Seq(No)
  <2>1. Len(s) \in Nat /\ DOMAIN s = 1..Len(s) /\ \A i \in 1..Len(s) : s[i] \in S
    OBVIOUS
  <2>2. Nos(s) \in [1..Len(s) -> No]
    BY <2>1, <1>2 DEF Nos
  <2> QED
    BY <2>1, <2>2, SeqDef
<1>3. /\ Nos(got[c]) \in Seq(No) /\ Nos(out[c]) \in Seq(No)
      /\ Nos(recv[c]) \in Seq(No) /\ Nos(wire[c]) \in Seq(No)
  BY <1>1, <1>2, Numbers
<1>4. Hand(c) \in Seq(No)
  BY <1>1 DEF Hand
<1>5. Way(c) = Nos(got[c]) \o Nos(out[c]) \o Nos(recv[c]) \o Nos(wire[c]) \o Hand(c)
  BY DEF Way, Nos, Hand
<1> QED
  BY <1>3, <1>4, <1>5

\* The steps after the handler took the event only pass it on.
LEMMA WayPassed ==
  ASSUME TypeInv, TypeInv', NEW c \in Clients,
         StreamSend(c) \/ Recv(c) \/ Enqueue(c) \/ Consume(c)
  PROVE  Way(c)' = Way(c)
<1> DEFINE G == Nos(got[c])   G1 == Nos(got'[c])
           O == Nos(out[c])   O1 == Nos(out'[c])
           R == Nos(recv[c])  R1 == Nos(recv'[c])
           W == Nos(wire[c])  W1 == Nos(wire'[c])
           H == Hand(c)       H1 == IF held'[c] = Nothing THEN <<>> ELSE <<held'[c]>>
<1>1. /\ G \in Seq(No) /\ O \in Seq(No) /\ R \in Seq(No) /\ W \in Seq(No) /\ H \in Seq(No)
      /\ Way(c) = G \o O \o R \o W \o H
  BY WayParts
<1>2. Way(c)' = G1 \o O1 \o R1 \o W1 \o H1
  BY DEF Way, Nos
<1>type. /\ got[c] \in Seq(Receipts) /\ out[c] \in Seq(Receipts) /\ recv[c] \in Seq(Receipts)
         /\ wire[c] \in Seq(Messages) /\ held[c] \in No \cup {Nothing}
         /\ got \in [Clients -> Seq(Receipts)] /\ out \in [Clients -> Seq(Receipts)]
         /\ recv \in [Clients -> Seq(Receipts)] /\ wire \in [Clients -> Seq(Messages)]
         /\ held \in [Clients -> No \cup {Nothing}]
         /\ recv[c] # <<>> => \E r \in Receipts : recv[c] = <<r>>
  BY DEF TypeInv
<1>rec. \A y \in Receipts : y.no \in No
  BY Numbers
<1>msg. \A y \in Messages : y.no \in No
  BY Numbers
<1>none. Nos(<<>>) = <<>>
  BY DEF Nos
<1>one. \A r : Nos(<<r>>) = <<r.no>>
  BY DEF Nos
<1>3. CASE Consume(c)
  <2>1. /\ out[c] # <<>> /\ got'[c] = Append(got[c], Head(out[c])) /\ out'[c] = Tail(out[c])
        /\ UNCHANGED <<recv, wire, held>>
    BY <1>3, <1>type DEF Consume
  <2>2. Head(out[c]) \in Receipts
    BY <2>1, <1>type
  <2>3. G1 = Append(G, Head(out[c]).no) /\ O1 = Tail(O) /\ Head(O) = Head(out[c]).no /\ O # <<>>
    <3>1. got[c] \in Seq(Receipts) /\ out[c] \in Seq(Receipts)
      BY <1>type
    <3>2. Nos(Append(got[c], Head(out[c]))) = Append(Nos(got[c]), Head(out[c]).no)
      BY <3>1, <2>2, <1>rec, NosFacts
    <3>3. /\ Nos(Tail(out[c])) = Tail(Nos(out[c])) /\ Head(Nos(out[c])) = Head(out[c]).no
          /\ Nos(out[c]) # <<>>
      BY <3>1, <2>1, <2>2, <1>rec, NosFacts
    <3> QED
      BY <2>1, <3>2, <3>3
  <2>4. R1 = R /\ W1 = W /\ H1 = H
    BY <2>1 DEF Hand
  <2> HIDE DEF G, G1, O, O1, R, R1, W, W1, H, H1
  <2>5. G1 \o O1 = G \o O
    BY <2>3, <1>1, Shift
  <2> QED
    BY <2>4, <2>5, <1>1, <1>2
<1>4. CASE Enqueue(c)
  <2>1. /\ recv[c] # <<>> /\ out'[c] = Append(out[c], recv[c][1]) /\ recv'[c] = <<>>
        /\ UNCHANGED <<got, wire, held>>
    BY <1>4, <1>type DEF Enqueue
  <2>2. PICK r \in Receipts : recv[c] = <<r>>
    BY <2>1, <1>type
  <2>3. recv[c][1] = r
    BY <2>2
  <2>n. PICK n \in No : n = r.no
    BY Numbers
  <2>4. O1 = Append(O, n)
    <3>1. out[c] \in Seq(Receipts)
      BY <1>type
    <3>2. Nos(Append(out[c], r)) = Append(Nos(out[c]), r.no)
      BY <3>1, <1>rec, NosFacts
    <3> QED
      BY <2>1, <2>3, <2>n, <3>2
  <2>5. R = <<n>> /\ R1 = <<>> /\ G1 = G /\ W1 = W /\ H1 = H
    BY <2>1, <2>2, <2>n, <1>none, <1>one DEF Hand
  <2> HIDE DEF G, G1, O, O1, R, R1, W, W1, H, H1
  <2>6. G \o O \in Seq(No)
    BY <1>1
  <2>7. G1 \o O1 \o R1 = G \o O \o R
    <3>1. G \o Append(O, n) = Append(G \o O, n)
      BY <1>1, <2>4, AppendSecond
    <3>2. (G \o O) \o <<n>> = Append(G \o O, n)
      BY <2>4, <2>6, Unit
    <3>3. Append(G \o O, n) \o <<>> = Append(G \o O, n)
      BY <2>4, <2>6
    <3> QED
      BY <2>4, <2>5, <3>1, <3>2, <3>3
  <2> QED
    BY <2>5, <2>7, <1>1, <1>2
<1>5. CASE Recv(c)
  <2>1. /\ wire[c] # <<>> /\ recv[c] = <<>> /\ wire'[c] = Tail(wire[c])
        /\ UNCHANGED <<got, out, held>>
        /\ recv'[c] = <<[no |-> Head(wire[c]).no, name |-> NamedTable(Head(wire[c]).table),
                         op |-> "c", after |-> Head(wire[c]).data]>>
    BY <1>5, <1>type DEF Recv
  <2>2. Head(wire[c]) \in Messages
    BY <2>1, <1>type
  <2>3. W1 = Tail(W) /\ Head(W) = Head(wire[c]).no /\ W # <<>>
    <3>1. wire[c] \in Seq(Messages)
      BY <1>type
    <3>2. /\ Nos(Tail(wire[c])) = Tail(Nos(wire[c])) /\ Head(Nos(wire[c])) = Head(wire[c]).no
          /\ Nos(wire[c]) # <<>>
      BY <3>1, <2>1, <2>2, <1>msg, NosFacts
    <3> QED
      BY <2>1, <3>2
  <2>4. R = <<>> /\ R1 = <<Head(wire[c]).no>> /\ G1 = G /\ O1 = O /\ H1 = H
    BY <2>1, <1>none, <1>one DEF Hand
  <2> HIDE DEF G, G1, O, O1, R, R1, W, W1, H, H1
  <2>5. G \o O \in Seq(No) /\ Head(W) \in No
    BY <1>1, <2>3
  <2>6. (G \o O) \o R1 \o W1 = (G \o O) \o R \o W
    <3>1. (G \o O) \o <<Head(W)>> = Append(G \o O, Head(W)) /\ (G \o O) \o <<>> = G \o O
      BY <2>5, Unit
    <3>2. Append(G \o O, Head(W)) \o Tail(W) = (G \o O) \o W
      BY <2>5, <2>3, <1>1, Shift
    <3> QED
      BY <2>3, <2>4, <3>1, <3>2
  <2> QED
    BY <2>4, <2>6, <1>1, <1>2
<1>6. CASE StreamSend(c)
  <2>1. /\ held[c] # Nothing /\ held[c] \in No
        /\ wire'[c] = Append(wire[c], Message(held[c])) /\ held'[c] = Nothing
        /\ UNCHANGED <<got, out, recv>>
    BY <1>6, <1>type DEF StreamSend
  <2>n. PICK n \in No : n = held[c]
    BY <2>1
  <2>y. PICK y \in Messages : y = Message(n) /\ y.no = n
    <3>1. Message(n) \in Messages
      BY DEF Messages
    <3>2. Message(n).no = n
      BY DEF Message
    <3> QED
      BY <3>1, <3>2
  <2>2. Nos(Append(wire[c], y)) = Append(Nos(wire[c]), y.no)
    BY <1>type, Numbers, NosFacts
  <2>3. W1 = Append(W, n)
    BY <2>1, <2>2, <2>n, <2>y
  <2>4. H = <<n>> /\ H1 = <<>> /\ G1 = G /\ O1 = O /\ R1 = R
    BY <2>1, <2>n DEF Hand
  <2> HIDE DEF G, G1, O, O1, R, R1, W, W1, H, H1
  <2>x. PICK X \in Seq(No) : X = G \o O \o R
    <3>1. G \o O \o R \in Seq(No)
      BY <1>1
    <3> QED
      BY <3>1
  <2>5. X \o W \in Seq(No)
    BY <1>1
  <2>6. X \o W1 \o H1 = X \o W \o H
    <3>1. X \o Append(W, n) = Append(X \o W, n)
      BY <1>1, AppendSecond
    <3>2. (X \o W) \o <<n>> = Append(X \o W, n)
      BY <2>5, Unit
    <3>3. Append(X \o W, n) \o <<>> = Append(X \o W, n)
      BY <2>5
    <3> QED
      BY <2>3, <2>4, <3>1, <3>2, <3>3
  <2> QED
    BY <2>4, <2>6, <2>x, <1>1, <1>2
<1> QED
  BY <1>3, <1>4, <1>5, <1>6

\* A step of one client leaves the ways of the others alone.
LEMMA WayElse ==
  ASSUME NEW d \in Clients, got'[d] = got[d], out'[d] = out[d], recv'[d] = recv[d],
         wire'[d] = wire[d], held'[d] = held[d]
  PROVE  Way(d)' = Way(d)
BY DEF Way

\* The handler takes an event: it comes at the end of the way.
LEMMA WayTaken ==
  ASSUME TypeInv, NEW c \in Clients, NEW h \in No, held[c] = Nothing, held'[c] = h,
         UNCHANGED <<got, out, recv, wire>>
  PROVE  Way(c)' = Append(Way(c), h)
<1>1. PICK X \in Seq(No) : X = Nos(got[c]) \o Nos(out[c]) \o Nos(recv[c]) \o Nos(wire[c])
  <2>1. Nos(got[c]) \o Nos(out[c]) \o Nos(recv[c]) \o Nos(wire[c]) \in Seq(No)
    BY WayParts
  <2> QED
    BY <2>1
<1>2. Way(c) = X \o <<>>
  BY <1>1, WayParts DEF Hand
<1>3. Way(c)' = X \o <<h>>
  <2>1. h # Nothing
    BY DEF No, Nothing
  <2> QED
    BY <1>1, <2>1 DEF Way, Nos
<1> QED
  BY <1>2, <1>3, Unit

\* The handler gives its event up: it was the last on the way.
LEMMA WayDropped ==
  ASSUME TypeInv, NEW c \in Clients, NEW h \in No, held[c] = h, held'[c] = Nothing,
         UNCHANGED <<got, out, recv, wire>>
  PROVE  Way(c)' \in Seq(No) /\ Way(c) = Append(Way(c)', h)
<1>1. PICK X \in Seq(No) : X = Nos(got[c]) \o Nos(out[c]) \o Nos(recv[c]) \o Nos(wire[c])
  <2>1. Nos(got[c]) \o Nos(out[c]) \o Nos(recv[c]) \o Nos(wire[c]) \in Seq(No)
    BY WayParts
  <2> QED
    BY <2>1
<1>2. Way(c) = X \o <<h>>
  <2>1. h # Nothing
    BY DEF No, Nothing
  <2> QED
    BY <1>1, <2>1, WayParts DEF Hand
<1>3. Way(c)' = X \o <<>>
  BY <1>1 DEF Way, Nos
<1> QED
  BY <1>2, <1>3, Unit

\* Sequence a has items of b, in b's order.
Thinned(a, b) ==
  /\ \A i \in DOMAIN a : \E k \in DOMAIN b : b[k] = a[i]
  /\ \A i, j \in DOMAIN a : i < j =>
        \E k, l \in DOMAIN b : k < l /\ b[k] = a[i] /\ b[l] = a[j]

\* A part of the middle may go.
LEMMA ThinMiddle ==
  ASSUME NEW S, NEW a \in Seq(S), NEW b \in Seq(S), NEW c \in Seq(S)
  PROVE  Thinned(a \o c, (a \o b) \o c)
<1>1. /\ Len(a) \in Nat /\ Len(b) \in Nat /\ Len(c) \in Nat
      /\ DOMAIN (a \o c) = 1..(Len(a) + Len(c))
      /\ DOMAIN ((a \o b) \o c) = 1..(Len(a) + Len(b) + Len(c))
  OBVIOUS
<1> DEFINE at(i) == IF i <= Len(a) THEN i ELSE i + Len(b)
<1>2. ASSUME NEW i \in DOMAIN (a \o c)
      PROVE  at(i) \in DOMAIN ((a \o b) \o c) /\ ((a \o b) \o c)[at(i)] = (a \o c)[i]
  <2>1. CASE i <= Len(a)
    BY <1>1, <1>2, <2>1
  <2>2. CASE i > Len(a)
    <3>1. at(i) = i + Len(b) /\ at(i) \in DOMAIN ((a \o b) \o c) /\ at(i) > Len(a) + Len(b)
      BY <1>1, <1>2, <2>2
    <3>2. (a \o c)[i] = c[i - Len(a)]
      BY <1>1, <1>2, <2>2
    <3>3. ((a \o b) \o c)[i + Len(b)] = c[(i + Len(b)) - (Len(a) + Len(b))]
      BY <1>1, <1>2, <2>2
    <3>4. (i + Len(b)) - (Len(a) + Len(b)) = i - Len(a)
      BY <1>1
    <3> QED
      BY <3>1, <3>2, <3>3, <3>4
  <2> QED
    BY <1>1, <2>1, <2>2
<1>3. \A i, j \in DOMAIN (a \o c) : i < j => at(i) < at(j)
  BY <1>1
<1> HIDE DEF at
<1> QED
  BY <1>2, <1>3 DEF Thinned

\* What a break takes from the way is in its middle.
LEMMA WayBroken ==
  ASSUME TypeInv, NEW c \in Clients, Break(c)
  PROVE  Thinned(Way(c)', Way(c))
<1>1. PICK X \in Seq(No) : X = Nos(got[c]) \o Nos(out[c]) \o Nos(recv[c])
  <2>1. Nos(got[c]) \o Nos(out[c]) \o Nos(recv[c]) \in Seq(No)
    BY WayParts
  <2> QED
    BY <2>1
<1>2. Way(c) = (X \o Nos(wire[c])) \o Hand(c) /\ Nos(wire[c]) \in Seq(No) /\ Hand(c) \in Seq(No)
  BY <1>1, WayParts
<1>3. wire'[c] = <<>> /\ UNCHANGED <<got, out, recv, held>>
  BY DEF Break, TypeInv
<1>4. Way(c)' = (X \o <<>>) \o Hand(c)
  <2>1. Nos(<<>>) = <<>>
    BY DEF Nos
  <2>2. Way(c)' = X \o Nos(<<>>) \o Hand(c)
    BY <1>1, <1>3 DEF Way, Nos, Hand
  <2> QED
    BY <2>1, <2>2
<1>5. X \o <<>> = X
  OBVIOUS
<1> QED
  BY <1>2, <1>4, <1>5, ThinMiddle

-----------------------------------------------------------------------------
(* The invariant is inductive.                                             *)

\* Before the server listens there is nothing anywhere.
LEMMA InitIInv ==
  ASSUME Setting, Init PROVE IInv
<1>1. Len(Events) \in Nat
  BY DEF Setting
<1>2. TypeInv
  BY <1>1 DEF Init, TypeInv
<1>3. PubInv /\ ChanInv
  BY DEF Init, PubInv, ChanInv
<1>4. \A c \in Clients : Way(c) = <<>>
  <2>1. \A c \in Clients : /\ got[c] = <<>> /\ out[c] = <<>> /\ recv[c] = <<>> /\ wire[c] = <<>>
                           /\ held[c] = Nothing
    BY DEF Init
  <2>2. Nos(<<>>) = <<>>
    BY DEF Nos
  <2>3. \A c \in Clients : Way(c) = <<>> \o <<>> \o <<>> \o <<>> \o <<>>
    BY <2>1, <2>2, <1>2, WayParts DEF Hand
  <2> QED
    BY <2>3
<1>5. \A c \in Clients : \A x : ~OnWay(c, x)
  BY <1>4 DEF OnWay
<1>6. WayInv
  BY <1>4, <1>5 DEF WayInv
<1>7. LossInv
  BY DEF Init, LossInv, InSent
<1> QED
  BY <1>2, <1>3, <1>6, <1>7 DEF IInv

\* The server's steps keep the types.
LEMMA TypeServer ==
  ASSUME Setting, TypeInv, PubInv,
         StartServer \/ \E w \in Workers : PubCall(w) \/ PubLock(w) \/ PubSend(w)
  PROVE  TypeInv'
<1>1. Len(Events) \in Nat
  BY DEF Setting
<1>2. CASE StartServer \/ \E w \in Workers : PubLock(w)
  BY <1>2 DEF StartServer, PubLock, TypeInv
<1>3. ASSUME NEW w \in Workers, PubCall(w) PROVE TypeInv'
  <2>1. given + 1 \in No /\ given' \in 0..Len(Events)
    BY <1>3, <1>1 DEF PubCall, TypeInv, No
  <2> QED
    BY <2>1, <1>3 DEF PubCall, TypeInv
<1>4. ASSUME NEW w \in Workers, PubSend(w) PROVE TypeInv'
  <2>1. mu = w /\ w # Nothing
    BY <1>4 DEF PubSend, Setting
  <2>2. pubs[w] \in No
    BY <2>1 DEF PubInv, TypeInv
  <2> QED
    BY <2>2, <1>4 DEF PubSend, TypeInv
<1> QED
  BY <1>2, <1>3, <1>4

\* So do those of the Stream handlers.
LEMMA TypeHandler ==
  ASSUME TypeInv, NEW c \in Clients,
         StreamTake(c) \/ StreamSkip(c) \/ StreamSend(c) \/ StreamEnds(c)
  PROVE  TypeInv'
<1>1. CASE StreamTake(c)
  BY <1>1 DEF StreamTake, TypeInv
<1>2. CASE StreamSkip(c) \/ StreamEnds(c)
  BY <1>2 DEF StreamSkip, StreamEnds, TypeInv
<1>3. CASE StreamSend(c)
  <2>1. held[c] \in No
    BY <1>3 DEF StreamSend, TypeInv
  <2>2. PICK y \in Messages : y = Message(held[c])
    BY <2>1 DEF Messages
  <2>3. /\ wire' = [wire EXCEPT ![c] = Append(@, y)] /\ held' = [held EXCEPT ![c] = Nothing]
        /\ UNCHANGED <<given, pubs, sent, events, stream, recv, out, got>>
    BY <1>3, <2>2 DEF StreamSend
  <2>4. wire' \in [Clients -> Seq(Messages)] /\ held' \in [Clients -> No \cup {Nothing}]
    BY <2>3 DEF TypeInv
  <2> QED
    BY <2>3, <2>4 DEF TypeInv
<1> QED
  BY <1>1, <1>2, <1>3

\* And those of the clients: what Recv makes of a message is what it should.
LEMMA TypeClient ==
  ASSUME TypeInv, NEW c \in Clients,
         ConnectClient(c) \/ Sub(c) \/ Recv(c) \/ Enqueue(c) \/ Consume(c) \/ Break(c)
  PROVE  TypeInv'
<1>0. CASE ConnectClient(c) \/ Sub(c)
  <2>1. /\ stream' \in [Clients -> {"none", "dialed", "open", "broken", "ended"}]
        /\ UNCHANGED <<given, pubs, sent, events, held, wire, recv, out, got>>
    BY <1>0 DEF ConnectClient, Sub, TypeInv
  <2> QED
    BY <2>1 DEF TypeInv
<1>1. CASE Break(c)
  <2>1. /\ stream' \in [Clients -> {"none", "dialed", "open", "broken", "ended"}]
        /\ wire' \in [Clients -> Seq(Messages)]
        /\ UNCHANGED <<given, pubs, sent, events, held, recv, out, got>>
    BY <1>1 DEF Break, TypeInv
  <2> QED
    BY <2>1 DEF TypeInv
<1>2. CASE Recv(c)
  <2>1. wire[c] # <<>> /\ wire[c] \in Seq(Messages)
    BY <1>2 DEF Recv, TypeInv
  <2>2. PICK m \in Messages : m = Head(wire[c])
    BY <2>1
  <2>3. PICK n \in No : m = Message(n)
    BY DEF Messages
  <2>4. m.no = n /\ m.data = Events[n].after /\ m.table = Message(n).table
    BY <2>3 DEF Message
  <2>5. PICK r \in Receipts : r = Received(n)
    BY DEF Receipts
  <2>6. /\ recv' = [recv EXCEPT ![c] = <<r>>] /\ wire' = [wire EXCEPT ![c] = Tail(@)]
        /\ UNCHANGED <<given, pubs, sent, events, stream, held, out, got>>
    BY <1>2, <2>2, <2>4, <2>5 DEF Recv, Received
  <2>7. /\ recv' \in [Clients -> Seq(Receipts)] /\ wire' \in [Clients -> Seq(Messages)]
        /\ \A d \in Clients : recv'[d] # <<>> => \E q \in Receipts : recv'[d] = <<q>>
    BY <2>1, <2>6 DEF TypeInv
  <2> QED
    BY <2>6, <2>7 DEF TypeInv
<1>3. CASE Enqueue(c)
  <2>1. PICK r \in Receipts : recv[c] = <<r>>
    BY <1>3 DEF Enqueue, TypeInv
  <2>2. recv[c][1] = r
    BY <2>1
  <2>3. out' = [out EXCEPT ![c] = Append(@, r)] /\ recv' = [recv EXCEPT ![c] = <<>>]
        /\ UNCHANGED <<given, pubs, sent, events, stream, held, wire, got>>
    BY <1>3, <2>2 DEF Enqueue
  <2> QED
    BY <2>3 DEF TypeInv
<1>4. CASE Consume(c)
  <2>1. out[c] # <<>> /\ out[c] \in Seq(Receipts)
    BY <1>4 DEF Consume, TypeInv
  <2>2. PICK r \in Receipts : r = Head(out[c])
    BY <2>1
  <2>3. got' = [got EXCEPT ![c] = Append(@, r)] /\ out' = [out EXCEPT ![c] = Tail(@)]
        /\ UNCHANGED <<given, pubs, sent, events, stream, held, wire, recv>>
    BY <1>4, <2>2 DEF Consume
  <2> QED
    BY <2>1, <2>3 DEF TypeInv
<1> QED
  BY <1>0, <1>1, <1>2, <1>3, <1>4

\* What PubSend does: the worker's event, which is new, goes to the end.
LEMMA SendEffect ==
  ASSUME Setting, TypeInv, PubInv, NEW w \in Workers, PubSend(w)
  PROVE  \E x \in No :
           /\ x = pubs[w] /\ ~InSent(x) /\ x <= given /\ mu = w /\ mu' = Nothing
           /\ sent' = Append(sent, x) /\ events' = Append(events, x)
           /\ pubs' = [pubs EXCEPT ![w] = Nothing]
           /\ UNCHANGED <<given, stream, held, wire, recv, out, got>>
           /\ Len(sent) \in Nat /\ DOMAIN sent = 1..Len(sent) /\ DOMAIN sent' = 1..(Len(sent) + 1)
           /\ \A i \in DOMAIN sent : sent'[i] = sent[i]
           /\ sent'[Len(sent) + 1] = x
           /\ Len(events) \in Nat /\ DOMAIN events = 1..Len(events)
           /\ DOMAIN events' = 1..(Len(events) + 1)
           /\ \A i \in DOMAIN events : events'[i] = events[i]
           /\ events'[Len(events) + 1] = x
<1>1. mu = w /\ w # Nothing
  BY DEF PubSend, Setting
<1>2. PICK x \in No : x = pubs[w] /\ ~InSent(x) /\ x <= given
  BY <1>1 DEF PubInv, TypeInv
<1>3. sent \in Seq(No) /\ events \in Seq(No)
  BY DEF TypeInv
<1>4. /\ sent' = Append(sent, x) /\ events' = Append(events, x) /\ mu' = Nothing
      /\ pubs' = [pubs EXCEPT ![w] = Nothing]
      /\ UNCHANGED <<given, stream, held, wire, recv, out, got>>
  BY <1>2 DEF PubSend
<1>5. /\ Len(sent) \in Nat /\ DOMAIN sent = 1..Len(sent) /\ DOMAIN sent' = 1..(Len(sent) + 1)
      /\ \A i \in DOMAIN sent : sent'[i] = sent[i]
      /\ sent'[Len(sent) + 1] = x
  BY <1>3, <1>4
<1>6. /\ Len(events) \in Nat /\ DOMAIN events = 1..Len(events)
      /\ DOMAIN events' = 1..(Len(events) + 1)
      /\ \A i \in DOMAIN events : events'[i] = events[i]
      /\ events'[Len(events) + 1] = x
  BY <1>3, <1>4
<1> QED
  BY <1>1, <1>2, <1>4, <1>5, <1>6

\* Each event goes through one worker's hands into the channel once.
LEMMA PubStep ==
  ASSUME Setting, TypeInv, PubInv,
         \/ UNCHANGED <<mu, given, pubs, sent>>
         \/ \E w \in Workers : PubCall(w) \/ PubLock(w) \/ PubSend(w)
  PROVE  PubInv'
<1>type. given \in Nat /\ sent \in Seq(No) /\ pubs \in [Workers -> No \cup {Nothing}] /\ Len(Events) \in Nat
  BY DEF TypeInv, Setting
<1>no. \A x \in No : x \in Nat /\ x # Nothing
  BY <1>type DEF No, Nothing
<1>1. CASE UNCHANGED <<mu, given, pubs, sent>>
  BY <1>1 DEF PubInv, InSent
<1>2. ASSUME NEW w \in Workers, PubCall(w) PROVE PubInv'
  <2>1. /\ pubs[w] = Nothing /\ given' = given + 1 /\ UNCHANGED <<mu, sent>>
        /\ pubs'[w] = given + 1 /\ \A v \in Workers : v # w => pubs'[v] = pubs[v]
    BY <1>2, <1>type DEF PubCall
  <2>2. \A i \in DOMAIN sent : sent[i] \in No /\ sent[i] <= given
    BY <1>type DEF PubInv
  <2>3. ~InSent(given + 1) /\ \A i \in DOMAIN sent : sent[i] <= given + 1
    BY <2>2, <1>no, <1>type DEF InSent
  <2>4. \A v \in Workers : pubs[v] # Nothing => pubs[v] \in Nat /\ pubs[v] <= given /\ ~InSent(pubs[v])
    BY <1>type, <1>no DEF PubInv
  <2>5. ASSUME NEW v \in Workers, pubs'[v] # Nothing
        PROVE  pubs'[v] <= given' /\ ~\E i \in DOMAIN sent' : sent'[i] = pubs'[v]
    BY <2>1, <2>3, <2>4, <2>5, <1>type DEF InSent
  <2>6. ASSUME NEW u \in Workers, NEW v \in Workers, pubs'[u] = pubs'[v], pubs'[u] # Nothing
        PROVE  u = v
    BY <2>1, <2>4, <2>6, <1>type DEF PubInv
  <2>7. mu' # Nothing => mu' \in Workers /\ pubs'[mu'] # Nothing
    BY <2>1 DEF PubInv
  <2> QED
    BY <2>1, <2>3, <2>5, <2>6, <2>7 DEF PubInv, InSent
<1>3. ASSUME NEW w \in Workers, PubLock(w) PROVE PubInv'
  BY <1>3 DEF PubLock, PubInv, InSent
<1>4. ASSUME NEW w \in Workers, PubSend(w) PROVE PubInv'
  <2>1. PICK x \in No :
           /\ x = pubs[w] /\ ~InSent(x) /\ x <= given /\ mu = w /\ mu' = Nothing
           /\ pubs' = [pubs EXCEPT ![w] = Nothing] /\ given' = given
           /\ Len(sent) \in Nat /\ DOMAIN sent = 1..Len(sent) /\ DOMAIN sent' = 1..(Len(sent) + 1)
           /\ \A i \in DOMAIN sent : sent'[i] = sent[i]
           /\ sent'[Len(sent) + 1] = x
    BY <1>4, SendEffect
  <2>2. \A i \in DOMAIN sent' : i \in DOMAIN sent \/ i = Len(sent) + 1
    BY <2>1
  <2>3. \A i \in DOMAIN sent : sent[i] # x
    BY <2>1 DEF InSent
  <2>4. \A i, j \in DOMAIN sent' : sent'[i] = sent'[j] => i = j
    BY <2>1, <2>2, <2>3 DEF PubInv
  <2>5. \A i \in DOMAIN sent' : sent'[i] <= given'
    BY <2>1, <2>2 DEF PubInv
  <2>6. \A v \in Workers : (v # w => pubs'[v] = pubs[v]) /\ pubs'[w] = Nothing
    BY <2>1, <1>type
  <2>7. ASSUME NEW v \in Workers, pubs'[v] # Nothing
        PROVE  pubs'[v] <= given' /\ ~\E i \in DOMAIN sent' : sent'[i] = pubs'[v]
    <3>1. v # w /\ pubs'[v] = pubs[v]
      BY <2>6, <2>7
    <3>2. pubs[v] <= given /\ ~InSent(pubs[v]) /\ pubs[v] # x
      BY <3>1, <2>7, <2>1, <1>no DEF PubInv
    <3> QED
      BY <3>1, <3>2, <2>1, <2>2 DEF InSent
  <2>8. \A u, v \in Workers : pubs'[u] = pubs'[v] /\ pubs'[u] # Nothing => u = v
    BY <2>6 DEF PubInv
  <2> QED
    BY <2>1, <2>4, <2>5, <2>7, <2>8 DEF PubInv, InSent
<1> QED
  BY <1>1, <1>2, <1>3, <1>4

\* Where channel and sent events stay, a thinner way keeps its order.
LEMMA ThinKeeps ==
  ASSUME TypeInv', ChanInv, WayInv, UNCHANGED <<sent, events>>,
         \A d \in Clients : Thinned(Way(d)', Way(d))
  PROVE  ChanInv' /\ WayInv'
<1>1. \A a, b : (Precedes(a, b)' <=> Precedes(a, b)) /\ (InSent(a)' <=> InSent(a))
  BY DEF Precedes, InSent
<1>2. ChanInv'
  BY DEF ChanInv, Precedes, InSent
<1>3. \A d \in Clients : \A x : OnWay(d, x)' => OnWay(d, x)
  BY DEF OnWay, Thinned
<1>4. ASSUME NEW c \in Clients, NEW i \in DOMAIN Way(c)', NEW j \in DOMAIN Way(c)', i < j
      PROVE  Precedes(Way(c)[i], Way(c)[j])'
  <2>1. PICK k \in DOMAIN Way(c), l \in DOMAIN Way(c) :
          k < l /\ Way(c)[k] = Way(c)'[i] /\ Way(c)[l] = Way(c)'[j]
    BY <1>4 DEF Thinned
  <2>2. Precedes(Way(c)[k], Way(c)[l])
    BY <2>1 DEF WayInv
  <2> QED
    BY <2>1, <2>2 DEF Precedes
<1>5. \A c \in Clients : \A x \in No : OnWay(c, x)' =>
        InSent(x)' /\ \A k \in DOMAIN events' : Precedes(x, events[k])'
  BY <1>1, <1>3 DEF WayInv, Precedes, InSent
<1>6. \A c, d \in Clients : \A x \in No : OnWay(c, x)' /\ OnWay(d, x)' => c = d
  BY <1>3 DEF WayInv
<1> QED
  BY <1>2, <1>4, <1>5, <1>6 DEF WayInv

\* A send puts an event after everything sent so far.
LEMMA SendKeeps ==
  ASSUME Setting, TypeInv, PubInv, ChanInv, WayInv, LossInv, NEW w \in Workers, PubSend(w)
  PROVE  ChanInv' /\ WayInv' /\ LossInv'
<1>1. PICK x \in No :
         /\ UNCHANGED <<stream, held, wire, recv, out, got>>
         /\ Len(sent) \in Nat /\ DOMAIN sent = 1..Len(sent) /\ DOMAIN sent' = 1..(Len(sent) + 1)
         /\ \A i \in DOMAIN sent : sent'[i] = sent[i]
         /\ sent'[Len(sent) + 1] = x
         /\ Len(events) \in Nat /\ DOMAIN events = 1..Len(events)
         /\ DOMAIN events' = 1..(Len(events) + 1)
         /\ \A i \in DOMAIN events : events'[i] = events[i]
         /\ events'[Len(events) + 1] = x
  BY SendEffect
<1>2. \A d \in Clients : Way(d)' = Way(d)
  BY <1>1, WayElse
<1>3. \A y : InSent(y) => InSent(y)' /\ Precedes(y, x)'
  <2> SUFFICES ASSUME NEW y, InSent(y) PROVE InSent(y)' /\ Precedes(y, x)'
    OBVIOUS
  <2>1. PICK i \in DOMAIN sent : sent[i] = y
    BY DEF InSent
  <2>2. i \in DOMAIN sent' /\ sent'[i] = y /\ Len(sent) + 1 \in DOMAIN sent' /\ i < Len(sent) + 1
    BY <2>1, <1>1
  <2> QED
    BY <2>2, <1>1 DEF InSent, Precedes
<1>4. \A y, z : Precedes(y, z) => Precedes(y, z)'
  <2>1. \A i \in DOMAIN sent : i \in DOMAIN sent' /\ sent'[i] = sent[i]
    BY <1>1
  <2> QED
    BY <2>1 DEF Precedes
<1>5. \A y : InSent(y)' => InSent(y) \/ y = x
  <2>1. \A i \in DOMAIN sent' : i \in DOMAIN sent \/ i = Len(sent) + 1
    BY <1>1
  <2> QED
    BY <2>1, <1>1 DEF InSent
<1>6. InSent(x)'
  <2>1. Len(sent) + 1 \in DOMAIN sent'
    BY <1>1
  <2> QED
    BY <2>1, <1>1 DEF InSent
<1>7. \A k \in DOMAIN events' : k \in DOMAIN events \/ (k = Len(events) + 1 /\ events'[k] = x)
  BY <1>1
<1>8. ChanInv'
  <2>1. ASSUME NEW k \in DOMAIN events' PROVE InSent(events[k])'
    <3>1. CASE k \in DOMAIN events
      <4>1. PICK y : y = events[k] /\ y = events'[k] /\ InSent(y)
        BY <3>1, <1>1 DEF ChanInv
      <4> QED
        BY <4>1, <1>3 DEF InSent
    <3>2. CASE events'[k] = x
      BY <3>2, <1>6 DEF InSent
    <3> QED
      BY <3>1, <3>2, <1>7
  <2>2. ASSUME NEW k \in DOMAIN events', NEW l \in DOMAIN events', k < l
        PROVE  Precedes(events[k], events[l])'
    <3>1. k \in DOMAIN events
      BY <2>2, <1>1
    <3>2. PICK y : y = events[k] /\ y = events'[k] /\ InSent(y)
      BY <3>1, <1>1 DEF ChanInv
    <3>3. CASE l \in DOMAIN events
      <4>1. PICK z : z = events[l] /\ z = events'[l] /\ Precedes(y, z)
        BY <3>1, <3>2, <3>3, <2>2, <1>1 DEF ChanInv
      <4> QED
        BY <3>2, <4>1, <1>4 DEF Precedes
    <3>4. CASE events'[l] = x
      BY <3>2, <3>4, <1>3 DEF Precedes
    <3> QED
      BY <3>3, <3>4, <1>7
  <2> QED
    BY <2>1, <2>2 DEF ChanInv
<1>9. \A d \in Clients : \A y : OnWay(d, y)' <=> OnWay(d, y)
  BY <1>2 DEF OnWay
<1>10. WayInv'
  <2>1. ASSUME NEW c \in Clients, NEW i \in DOMAIN Way(c)', NEW j \in DOMAIN Way(c)', i < j
        PROVE  Precedes(Way(c)[i], Way(c)[j])'
    <3>1. PICK y, z : y = Way(c)[i] /\ z = Way(c)[j] /\ y = Way(c)'[i] /\ z = Way(c)'[j] /\ Precedes(y, z)
      BY <2>1, <1>2 DEF WayInv
    <3> QED
      BY <3>1, <1>4 DEF Precedes
  <2>2. ASSUME NEW c \in Clients, NEW y \in No, OnWay(c, y)'
        PROVE  InSent(y)' /\ \A k \in DOMAIN events' : Precedes(y, events[k])'
    <3>1. InSent(y) /\ \A k \in DOMAIN events : Precedes(y, events[k])
      BY <2>2, <1>9 DEF WayInv
    <3>2. ASSUME NEW k \in DOMAIN events' PROVE Precedes(y, events[k])'
      <4>1. CASE k \in DOMAIN events
        <5>1. PICK z : z = events[k] /\ z = events'[k] /\ Precedes(y, z)
          BY <4>1, <3>1, <1>1
        <5> QED
          BY <5>1, <1>4 DEF Precedes
      <4>2. CASE events'[k] = x
        BY <4>2, <3>1, <1>3 DEF Precedes
      <4> QED
        BY <4>1, <4>2, <1>7
    <3> QED
      BY <3>1, <3>2, <1>3
  <2>3. \A c, d \in Clients : \A y \in No : OnWay(c, y)' /\ OnWay(d, y)' => c = d
    BY <1>9 DEF WayInv
  <2> QED
    BY <2>1, <2>2, <2>3 DEF WayInv
<1>11. LossInv'
  <2> SUFFICES ASSUME NoBreak', NEW y \in No, InSent(y)', HasData(y)
               PROVE  \/ \E k \in DOMAIN events' : events'[k] = y
                      \/ \E c \in Clients : OnWay(c, y)'
    BY DEF LossInv, HasData
  <2>1. NoBreak
    BY <1>1 DEF NoBreak
  <2>2. CASE y = x
    <3>1. Len(events) + 1 \in DOMAIN events'
      BY <1>1
    <3> QED
      BY <3>1, <2>2, <1>1
  <2>3. CASE InSent(y)
    <3>1. (\E k \in DOMAIN events : events[k] = y) \/ (\E c \in Clients : OnWay(c, y))
      BY <2>1, <2>3 DEF LossInv
    <3>2. \A k \in DOMAIN events : k \in DOMAIN events' /\ events'[k] = events[k]
      BY <1>1
    <3> QED
      BY <3>1, <3>2, <1>9
  <2> QED
    BY <2>2, <2>3, <1>5
<1> QED
  BY <1>8, <1>10, <1>11

\* A handler that takes the oldest event of the channel makes it the last of
\* its client's share.
LEMMA TakeKeeps ==
  ASSUME TypeInv, PubInv, ChanInv, WayInv, LossInv, NEW c \in Clients, StreamTake(c)
  PROVE  ChanInv' /\ WayInv' /\ LossInv'
<1>type. events \in Seq(No) /\ sent \in Seq(No) /\ held \in [Clients -> No \cup {Nothing}]
  BY DEF TypeInv
<1>0. /\ events # <<>> /\ events' = Tail(events) /\ held[c] = Nothing
      /\ UNCHANGED <<sent, stream, wire, recv, out, got>>
  BY DEF StreamTake
<1>h. PICK h \in No : h = Head(events) /\ h = events[1] /\ 1 \in DOMAIN events
  BY <1>type, <1>0
<1>1. /\ DOMAIN events' = 1..(Len(events) - 1) /\ DOMAIN events = 1..Len(events)
      /\ Len(events) \in Nat /\ \A k \in DOMAIN events' : events'[k] = events[k + 1]
  BY <1>type, <1>0
<1>2. \A k \in DOMAIN events' : k + 1 \in DOMAIN events /\ 1 < k + 1 /\ events'[k] = events[k + 1]
  BY <1>1
<1>3. held'[c] = h /\ \A d \in Clients : d # c => held'[d] = held[d]
  BY <1>type, <1>h DEF StreamTake
<1>4. Way(c)' = Append(Way(c), h) /\ Way(c) \in Seq(No)
  BY <1>0, <1>3, WayTaken, WayParts
<1>5. \A d \in Clients : d # c => Way(d)' = Way(d)
  BY <1>0, <1>3, WayElse
<1>w. PICK W \in Seq(No) : W = Way(c) /\ Way(c)' = Append(W, h)
  BY <1>4
<1>6. /\ Len(W) \in Nat /\ DOMAIN W = 1..Len(W) /\ DOMAIN Way(c)' = 1..(Len(W) + 1)
      /\ \A i \in 1..Len(W) : Way(c)'[i] = W[i] /\ Way(c)'[Len(W) + 1] = h
  BY <1>w
<1>7. /\ \A y : OnWay(c, y)' => OnWay(c, y) \/ y = h
      /\ \A y : OnWay(c, y) => OnWay(c, y)'
      /\ OnWay(c, h)'
  <2>1. \A i \in DOMAIN Way(c)' : i \in 1..Len(W) \/ (i = Len(W) + 1 /\ Way(c)'[i] = h)
    BY <1>w, <1>6
  <2>2. \A i \in 1..Len(W) : i \in DOMAIN Way(c)' /\ Way(c)'[i] = W[i]
    BY <1>6
  <2>3. Len(W) + 1 \in DOMAIN Way(c)' /\ Way(c)'[Len(W) + 1] = h
    BY <1>w, <1>6
  <2>4. \A y : OnWay(c, y) <=> \E i \in 1..Len(W) : W[i] = y
    BY <1>w, <1>6 DEF OnWay
  <2> QED
    BY <2>1, <2>2, <2>3, <2>4, <1>6 DEF OnWay
<1>8. \A d \in Clients : \A y : d # c => (OnWay(d, y)' <=> OnWay(d, y))
  BY <1>5 DEF OnWay
<1>9. \A a, b : (Precedes(a, b)' <=> Precedes(a, b)) /\ (InSent(a)' <=> InSent(a))
  BY <1>0 DEF Precedes, InSent
<1>10. \A d \in Clients : \A y \in No : OnWay(d, y) => Precedes(y, h)
  BY <1>h DEF WayInv
<1>11. \A d \in Clients : ~OnWay(d, h)
  <2> SUFFICES ASSUME NEW d \in Clients, Precedes(h, h) PROVE FALSE
    BY <1>10
  <2>1. PICK i, j \in DOMAIN sent : i < j /\ sent[i] = sent[j]
    BY DEF Precedes
  <2>2. i = j /\ i \in Nat
    BY <2>1, <1>type DEF PubInv
  <2> QED
    BY <2>1, <2>2
<1>12. ChanInv'
  <2>1. ASSUME NEW k \in DOMAIN events' PROVE InSent(events[k])'
    <3>1. PICK y : y = events'[k] /\ InSent(y)
      BY <1>2 DEF ChanInv
    <3> QED
      BY <3>1, <1>0 DEF InSent
  <2>2. ASSUME NEW k \in DOMAIN events', NEW l \in DOMAIN events', k < l
        PROVE  Precedes(events[k], events[l])'
    <3>1. k + 1 < l + 1
      BY <2>2, <1>1
    <3>2. PICK y, z : y = events'[k] /\ z = events'[l] /\ Precedes(y, z)
      BY <3>1, <1>2 DEF ChanInv
    <3> QED
      BY <3>2, <1>0 DEF Precedes
  <2> QED
    BY <2>1, <2>2 DEF ChanInv
<1>13. InSent(h) /\ \A k \in DOMAIN events' : Precedes(h, events'[k])
  <2>1. InSent(h)
    BY <1>h DEF ChanInv
  <2>2. \A k \in DOMAIN events' : Precedes(h, events[k + 1])
    BY <1>h, <1>2 DEF ChanInv
  <2> QED
    BY <2>1, <2>2, <1>2
<1>14. WayInv'
  <2>1. ASSUME NEW d \in Clients, NEW i \in DOMAIN Way(d)', NEW j \in DOMAIN Way(d)', i < j
        PROVE  Precedes(Way(d)[i], Way(d)[j])'
    <3>1. CASE d # c
      <4>1. PICK y, z : y = Way(d)'[i] /\ z = Way(d)'[j] /\ Precedes(y, z)
        BY <2>1, <3>1, <1>5 DEF WayInv
      <4> QED
        BY <4>1, <1>0 DEF Precedes
    <3>2. CASE d = c
      <4>1. i \in 1..Len(W) /\ (j \in 1..Len(W) \/ j = Len(W) + 1)
        BY <2>1, <3>2, <1>6
      <4>2. PICK y, z : y = Way(d)'[i] /\ z = Way(d)'[j] /\ y = W[i]
        BY <4>1, <3>2, <1>6
      <4>3. Precedes(y, z)
        <5>1. CASE j \in 1..Len(W)
          <6>1. z = W[j] /\ i \in DOMAIN Way(c) /\ j \in DOMAIN Way(c)
            BY <4>1, <4>2, <5>1, <3>2, <1>6, <1>w
          <6> QED
            BY <6>1, <4>2, <2>1, <1>w DEF WayInv
        <5>2. CASE j = Len(W) + 1
          <6>1. z = h /\ y \in No /\ OnWay(c, y)
            BY <4>1, <4>2, <5>2, <3>2, <1>6, <1>w DEF OnWay
          <6> QED
            BY <6>1, <1>10
        <5> QED
          BY <4>1, <5>1, <5>2
      <4> QED
        BY <4>2, <4>3, <1>0 DEF Precedes
    <3> QED
      BY <3>1, <3>2
  <2>2. ASSUME NEW d \in Clients, NEW y \in No, OnWay(d, y)'
        PROVE  InSent(y)' /\ \A k \in DOMAIN events' : Precedes(y, events[k])'
    <3>1. InSent(y) /\ \A k \in DOMAIN events' : Precedes(y, events'[k])
      <4>1. CASE y = h
        BY <4>1, <1>13
      <4>2. CASE OnWay(d, y)
        BY <4>2, <1>2 DEF WayInv
      <4> QED
        BY <4>1, <4>2, <2>2, <1>7, <1>8
    <3> QED
      BY <3>1, <1>0 DEF InSent, Precedes
  <2>3. ASSUME NEW d \in Clients, NEW e \in Clients, NEW y \in No, OnWay(d, y)', OnWay(e, y)'
        PROVE  d = e
    <3>1. CASE y = h
      BY <3>1, <2>3, <1>8, <1>11
    <3>2. CASE y # h
      <4>1. OnWay(d, y) /\ OnWay(e, y)
        BY <3>2, <2>3, <1>7, <1>8
      <4> QED
        BY <4>1 DEF WayInv
    <3> QED
      BY <3>1, <3>2
  <2> QED
    BY <2>1, <2>2, <2>3 DEF WayInv
<1>15. LossInv'
  <2> SUFFICES ASSUME NoBreak', NEW y \in No, InSent(y)', HasData(y)
               PROVE  \/ \E k \in DOMAIN events' : events'[k] = y
                      \/ \E d \in Clients : OnWay(d, y)'
    BY DEF LossInv, HasData
  <2>1. NoBreak /\ InSent(y)
    BY <1>0, <1>9 DEF NoBreak
  <2>2. CASE \E k \in DOMAIN events : events[k] = y
    <3>1. PICK k \in DOMAIN events : events[k] = y
      BY <2>2
    <3>2. CASE k = 1
      BY <3>1, <3>2, <1>h, <1>7
    <3>3. CASE k # 1
      <4>1. k - 1 \in DOMAIN events' /\ events'[k - 1] = events[k]
        BY <3>1, <3>3, <1>1
      <4> QED
        BY <4>1, <3>1
    <3> QED
      BY <3>2, <3>3
  <2>3. CASE \E d \in Clients : OnWay(d, y)
    BY <2>3, <1>7, <1>8
  <2> QED
    BY <2>1, <2>2, <2>3 DEF LossInv
<1> QED
  BY <1>12, <1>14, <1>15

\* A step that leaves every way as it is and breaks no stream.
LEMMA SameKeeps ==
  ASSUME TypeInv', ChanInv, WayInv, LossInv, UNCHANGED <<sent, events>>,
         \A d \in Clients : Way(d)' = Way(d), NoBreak' => NoBreak
  PROVE  ChanInv' /\ WayInv' /\ LossInv'
<1>1. \A d \in Clients : Thinned(Way(d)', Way(d))
  BY DEF Thinned
<1>2. ChanInv' /\ WayInv'
  BY <1>1, ThinKeeps
<1>3. \A d \in Clients : \A y : OnWay(d, y)' <=> OnWay(d, y)
  BY DEF OnWay
<1>4. LossInv'
  <2> SUFFICES ASSUME NoBreak', NEW y \in No, InSent(y)', HasData(y)
               PROVE  \/ \E k \in DOMAIN events' : events'[k] = y
                      \/ \E d \in Clients : OnWay(d, y)'
    BY DEF LossInv, HasData
  <2>1. (\E k \in DOMAIN events : events[k] = y) \/ (\E d \in Clients : OnWay(d, y))
    BY DEF LossInv, InSent
  <2> QED
    BY <2>1, <1>3
<1> QED
  BY <1>2, <1>4

\* A handler gives up the event it holds, because it has no data or because
\* its client is gone.
LEMMA DropKeeps ==
  ASSUME TypeInv, TypeInv', ChanInv, WayInv, LossInv, NEW c \in Clients,
         StreamSkip(c) \/ StreamEnds(c)
  PROVE  ChanInv' /\ WayInv' /\ LossInv'
<1>0. /\ held[c] # Nothing /\ held' = [held EXCEPT ![c] = Nothing]
      /\ UNCHANGED <<sent, events, wire, recv, out, got>>
  BY DEF StreamSkip, StreamEnds
<1>h. PICK h \in No : h = held[c]
  BY <1>0 DEF TypeInv
<1>1. held'[c] = Nothing /\ \A d \in Clients : d # c => held'[d] = held[d]
  BY <1>0 DEF TypeInv
<1>2. Way(c)' \in Seq(No) /\ Way(c) = Append(Way(c)', h)
  BY <1>0, <1>1, <1>h, WayDropped
<1>3. \A d \in Clients : d # c => Way(d)' = Way(d)
  BY <1>0, <1>1, WayElse
<1>w. PICK W \in Seq(No) : W = Way(c)' /\ Way(c) = Append(W, h)
  BY <1>2
<1>4. /\ Len(W) \in Nat /\ DOMAIN W = 1..Len(W) /\ DOMAIN Way(c) = 1..(Len(W) + 1)
      /\ Way(c)[Len(W) + 1] = h
      /\ \A i \in 1..Len(W) : i \in DOMAIN Way(c) /\ Way(c)[i] = W[i]
  BY <1>w
<1>5. \A d \in Clients : Thinned(Way(d)', Way(d))
  <2> SUFFICES ASSUME NEW d \in Clients PROVE Thinned(Way(d)', Way(d))
    OBVIOUS
  <2>1. CASE d = c
    <3>1. Thinned(W, Way(c))
      BY <1>4 DEF Thinned
    <3> QED
      BY <2>1, <3>1, <1>w
  <2>2. CASE d # c
    BY <2>2, <1>3 DEF Thinned
  <2> QED
    BY <2>1, <2>2
<1>6. ChanInv' /\ WayInv'
  BY <1>0, <1>5, ThinKeeps
<1>7. LossInv'
  <2>1. CASE StreamEnds(c)
    <3>1. ~NoBreak'
      BY <2>1 DEF StreamEnds, NoBreak, TypeInv
    <3> QED
      BY <3>1 DEF LossInv
  <2>2. CASE StreamSkip(c)
    <3> SUFFICES ASSUME NoBreak', NEW y \in No, InSent(y)', HasData(y)
                 PROVE  \/ \E k \in DOMAIN events' : events'[k] = y
                        \/ \E d \in Clients : OnWay(d, y)'
      BY DEF LossInv, HasData
    <3>1. NoBreak /\ InSent(y) /\ y # h
      BY <2>2, <1>0, <1>h DEF StreamSkip, NoBreak, InSent
    <3>2. (\E k \in DOMAIN events : events[k] = y) \/ (\E d \in Clients : OnWay(d, y))
      BY <3>1 DEF LossInv
    <3>3. OnWay(c, y) => OnWay(c, y)'
      <4>1. \A i \in DOMAIN Way(c) : i \in DOMAIN W \/ Way(c)[i] = h
        BY <1>4
      <4> QED
        BY <4>1, <1>4, <1>w, <3>1 DEF OnWay
    <3>4. \A d \in Clients : d # c => (OnWay(d, y) => OnWay(d, y)')
      BY <1>3 DEF OnWay
    <3> QED
      BY <3>2, <3>3, <3>4, <1>0
  <2> QED
    BY <2>1, <2>2
<1> QED
  BY <1>6, <1>7

\* A stream breaks: what was in flight is gone.
LEMMA BreakKeeps ==
  ASSUME TypeInv, TypeInv', ChanInv, WayInv, NEW c \in Clients, Break(c)
  PROVE  ChanInv' /\ WayInv' /\ LossInv'
<1>1. /\ UNCHANGED <<sent, events, held, recv, out, got>>
      /\ \A d \in Clients : d # c => wire'[d] = wire[d]
  BY DEF Break, TypeInv
<1>2. \A d \in Clients : Thinned(Way(d)', Way(d))
  <2> SUFFICES ASSUME NEW d \in Clients PROVE Thinned(Way(d)', Way(d))
    OBVIOUS
  <2>1. CASE d = c
    BY <2>1, WayBroken
  <2>2. CASE d # c
    <3>1. Way(d)' = Way(d)
      BY <2>2, <1>1, WayElse
    <3> QED
      BY <3>1 DEF Thinned
  <2> QED
    BY <2>1, <2>2
<1>3. ~NoBreak'
  BY DEF Break, NoBreak, TypeInv
<1> QED
  BY <1>1, <1>2, <1>3, ThinKeeps DEF LossInv

-----------------------------------------------------------------------------
(* Every step preserves the invariant.                                     *)

LEMMA NextIInv ==
  ASSUME Setting, IInv, [Next]_vars PROVE IInv'
<1>inv. TypeInv /\ PubInv /\ ChanInv /\ WayInv /\ LossInv
  BY DEF IInv
<1>1. CASE UNCHANGED vars
  <2>1. TypeInv'
    BY <1>1, <1>inv DEF vars, TypeInv
  <2>2. PubInv'
    BY <1>1, <1>inv, PubStep DEF vars
  <2>3. \A d \in Clients : Way(d)' = Way(d)
    BY <1>1, WayElse DEF vars
  <2>4. ChanInv' /\ WayInv' /\ LossInv'
    BY <1>1, <1>inv, <2>1, <2>3, SameKeeps DEF vars, NoBreak
  <2> QED
    BY <2>1, <2>2, <2>4 DEF IInv
<1>2. ASSUME StartServer \/ \E w \in Workers : PubCall(w) \/ PubLock(w) PROVE IInv'
  <2>1. TypeInv'
    BY <1>2, <1>inv, TypeServer
  <2>2. PubInv'
    BY <1>2, <1>inv, PubStep DEF StartServer
  <2>3. UNCHANGED <<sent, events, stream, held, wire, recv, out, got>>
    BY <1>2 DEF StartServer, PubCall, PubLock
  <2>4. \A d \in Clients : Way(d)' = Way(d)
    BY <2>3, WayElse
  <2>5. ChanInv' /\ WayInv' /\ LossInv'
    BY <1>inv, <2>1, <2>3, <2>4, SameKeeps DEF NoBreak
  <2> QED
    BY <2>1, <2>2, <2>5 DEF IInv
<1>3. ASSUME NEW w \in Workers, PubSend(w) PROVE IInv'
  <2>1. TypeInv' /\ PubInv'
    BY <1>3, <1>inv, TypeServer, PubStep
  <2>2. ChanInv' /\ WayInv' /\ LossInv'
    BY <1>3, <1>inv, SendKeeps
  <2> QED
    BY <2>1, <2>2 DEF IInv
<1>4. ASSUME NEW c \in Clients, StreamTake(c) PROVE IInv'
  <2>1. TypeInv' /\ UNCHANGED <<mu, given, pubs, sent>>
    BY <1>4, <1>inv, TypeHandler DEF StreamTake
  <2>2. ChanInv' /\ WayInv' /\ LossInv'
    BY <1>4, <1>inv, TakeKeeps
  <2> QED
    BY <2>1, <2>2, <1>inv, PubStep DEF IInv
<1>5. ASSUME NEW c \in Clients, StreamSkip(c) \/ StreamEnds(c) PROVE IInv'
  <2>1. TypeInv' /\ UNCHANGED <<mu, given, pubs, sent>>
    BY <1>5, <1>inv, TypeHandler DEF StreamSkip, StreamEnds
  <2>2. ChanInv' /\ WayInv' /\ LossInv'
    BY <1>5, <1>inv, <2>1, DropKeeps
  <2> QED
    BY <2>1, <2>2, <1>inv, PubStep DEF IInv
<1>6. ASSUME NEW c \in Clients, StreamSend(c) \/ Recv(c) \/ Enqueue(c) \/ Consume(c) PROVE IInv'
  <2>1. TypeInv' /\ UNCHANGED <<mu, given, pubs, sent, events, stream>>
    BY <1>6, <1>inv, TypeHandler, TypeClient DEF StreamSend, Recv, Enqueue, Consume
  <2>2. Way(c)' = Way(c)
    BY <1>6, <1>inv, <2>1, WayPassed
  <2>3. ASSUME NEW d \in Clients, d # c PROVE Way(d)' = Way(d)
    <3>1. /\ got'[d] = got[d] /\ out'[d] = out[d] /\ recv'[d] = recv[d]
          /\ wire'[d] = wire[d] /\ held'[d] = held[d]
      BY <1>6, <1>inv, <2>3 DEF StreamSend, Recv, Enqueue, Consume, TypeInv
    <3> QED
      BY <3>1, WayElse
  <2>4. ChanInv' /\ WayInv' /\ LossInv'
    BY <1>inv, <2>1, <2>2, <2>3, SameKeeps DEF NoBreak
  <2> QED
    BY <2>1, <2>4, <1>inv, PubStep DEF IInv
<1>7. ASSUME NEW c \in Clients, ConnectClient(c) \/ Sub(c) PROVE IInv'
  <2>1. TypeInv' /\ UNCHANGED <<mu, given, pubs, sent, events, held, wire, recv, out, got>>
    BY <1>7, <1>inv, TypeClient DEF ConnectClient, Sub
  <2>2. \A d \in Clients : Way(d)' = Way(d)
    BY <2>1, WayElse
  <2>3. NoBreak' => NoBreak
    <3>1. /\ stream[c] \notin {"broken", "ended"}
          /\ \A d \in Clients : d # c => stream'[d] = stream[d]
      BY <1>7, <1>inv DEF ConnectClient, Sub, TypeInv
    <3> QED
      BY <3>1 DEF NoBreak
  <2>4. ChanInv' /\ WayInv' /\ LossInv'
    BY <1>inv, <2>1, <2>2, <2>3, SameKeeps
  <2> QED
    BY <2>1, <2>4, <1>inv, PubStep DEF IInv
<1>8. ASSUME NEW c \in Clients, Break(c) PROVE IInv'
  <2>1. TypeInv' /\ UNCHANGED <<mu, given, pubs, sent>>
    BY <1>8, <1>inv, TypeClient DEF Break
  <2>2. ChanInv' /\ WayInv' /\ LossInv'
    BY <1>8, <1>inv, <2>1, BreakKeeps
  <2> QED
    BY <2>1, <2>2, <1>inv, PubStep DEF IInv
<1> QED
  BY <1>1, <1>2, <1>3, <1>4, <1>5, <1>6, <1>7, <1>8 DEF Next

-----------------------------------------------------------------------------
(* What the clients see.                                                   *)

\* The items of two sequences one after the other.
LEMMA ConcatItems ==
  ASSUME NEW S, NEW a \in Seq(S), NEW b \in Seq(S)
  PROVE  /\ Len(a \o b) = Len(a) + Len(b)
         /\ \A i \in 1..Len(a) : (a \o b)[i] = a[i]
         /\ \A i \in 1..Len(b) : (a \o b)[Len(a) + i] = b[i]
<1>1. Len(a \o b) = Len(a) + Len(b)
  OBVIOUS
<1>2. \A i \in 1..Len(a) : (a \o b)[i] = a[i]
  OBVIOUS
<1>3. \A i \in 1..Len(b) : (a \o b)[Len(a) + i] = b[i]
  OBVIOUS
<1> QED
  BY <1>1, <1>2, <1>3

\* A name of two parts is taken apart as it was put together.
LEMMA NameBack ==
  ASSUME NEW S, NEW a \in Seq(S), NEW b \in Seq(S), Len(a) = 1, Len(b) = 1
  PROVE  NamedTable(a \o b) = [schema |-> a, table |-> b]
<1>0. /\ Len(a \o b) = Len(a) + Len(b)
      /\ \A i \in 1..Len(a) : (a \o b)[i] = a[i]
      /\ \A i \in 1..Len(b) : (a \o b)[Len(a) + i] = b[i]
  BY ONLY ConcatItems, a \in Seq(S), b \in Seq(S)
<1>1. PICK t : /\ t = a \o b /\ Len(t) = Len(a) + Len(b)
               /\ \A i \in 1..Len(a) : t[i] = a[i]
               /\ \A i \in 1..Len(b) : t[Len(a) + i] = b[i]
  BY <1>0, Zenon
<1>2. Len(t) = 2 /\ t[1] = a[1] /\ t[1 + 1] = b[1] /\ 1 + 1 = 2
  BY <1>1
<1>3. a = <<a[1]>> /\ b = <<b[1]>>
  OBVIOUS
<1> QED
  BY <1>1, <1>2, <1>3 DEF NamedTable

\* An item of a sequence.
LEMMA Item ==
  ASSUME NEW S, NEW s \in Seq(S), NEW n \in 1..Len(s) PROVE s[n] \in S
OBVIOUS

\* Where no event was sent twice, order of sending is order of places.
LEMMA PlaceOrder ==
  ASSUME TypeInv, PubInv, NEW a, NEW b, Precedes(a, b)
  PROVE  Place(a) < Place(b)
<1>1. PICK i \in DOMAIN sent, j \in DOMAIN sent : i < j /\ sent[i] = a /\ sent[j] = b
  BY DEF Precedes
<1>2. Place(a) \in DOMAIN sent /\ sent[Place(a)] = a /\ Place(b) \in DOMAIN sent /\ sent[Place(b)] = b
  BY <1>1 DEF Place
<1>3. Place(a) = i /\ Place(b) = j
  BY <1>1, <1>2 DEF PubInv
<1> QED
  BY <1>1, <1>3

\* The invariant gives what a user of the peer relies on.
LEMMA SharesFollow ==
  ASSUME Setting, IInv PROVE ClientsShareInOrder
<1>inv. TypeInv /\ PubInv /\ ChanInv /\ WayInv /\ LossInv
  BY DEF IInv
<1>1. \A c \in Clients : \A i, j \in DOMAIN Way(c) : i < j => Place(Way(c)[i]) < Place(Way(c)[j])
  <2> SUFFICES ASSUME NEW c \in Clients, NEW i \in DOMAIN Way(c), NEW j \in DOMAIN Way(c), i < j
               PROVE  Place(Way(c)[i]) < Place(Way(c)[j])
    OBVIOUS
  <2>1. Precedes(Way(c)[i], Way(c)[j])
    BY <1>inv DEF WayInv
  <2> QED
    BY <2>1, <1>inv, PlaceOrder
<1>2. ASSUME NEW c \in Clients, NEW d \in Clients, NEW i \in DOMAIN Way(c), NEW j \in DOMAIN Way(d),
             Way(c)[i] = Way(d)[j]
      PROVE  c = d
  <2>1. Way(c) \in Seq(No)
    BY <1>inv, WayParts
  <2>2. PICK x \in No : x = Way(c)[i] /\ x = Way(d)[j]
    BY <1>2, <2>1
  <2>3. OnWay(c, x) /\ OnWay(d, x)
    BY <2>2 DEF OnWay
  <2> QED
    BY <2>3, <1>inv DEF WayInv
<1>3. ASSUME NEW c \in Clients, NEW i \in DOMAIN got[c]
      PROVE  LET e == Events[got[c][i].no] IN
               /\ got[c][i].after = e.after
               /\ Len(e.schema) = 1 /\ Len(e.table) = 1 =>
                    got[c][i].name = [schema |-> e.schema, table |-> e.table]
  <2>1. got[c][i] \in Receipts
    BY <1>inv, <1>3 DEF TypeInv
  <2>2. PICK n \in No : n = got[c][i].no /\ got[c][i] = Received(n)
    BY <2>1, Numbers
  <2>3. /\ got[c][i].after = Events[n].after
        /\ got[c][i].name = NamedTable(Events[n].schema \o Events[n].table)
    BY <2>2 DEF Received, Message
  <2>4. Events[n].schema \in Seq(STRING) /\ Events[n].table \in Seq(STRING)
    <3>1. Events[n] \in [schema : Seq(STRING), table : Seq(STRING), op : STRING, after : STRING]
      BY <2>2, Item DEF Setting, No
    <3> QED
      BY <3>1
  <2>5. Len(Events[n].schema) = 1 /\ Len(Events[n].table) = 1 =>
          got[c][i].name = [schema |-> Events[n].schema, table |-> Events[n].table]
    BY <2>3, <2>4, NameBack
  <2> QED
    BY <2>2, <2>3, <2>5
<1>4. ASSUME NoBreak, NEW i \in DOMAIN sent, HasData(sent[i])
      PROVE  \/ \E k \in DOMAIN events : events[k] = sent[i]
             \/ \E c \in Clients : \E k \in DOMAIN Way(c) : Way(c)[k] = sent[i]
  <2>1. PICK x \in No : x = sent[i] /\ InSent(x)
    BY <1>inv, <1>4 DEF TypeInv, InSent
  <2> QED
    BY <2>1, <1>inv, <1>4 DEF LossInv, OnWay
<1> QED
  BY <1>1, <1>2, <1>3, <1>4 DEF ClientsShareInOrder, NoBreak

\* Each event reaches at most one client, each client's share arrives in the
\* order Pub sent it and with its data, and while no stream broke nothing that
\* has an after image is missing: for every number of workers, clients and
\* events and every capacity of the channel (grpc/peer.go:35).
THEOREM SharesInOrder ==
  ASSUME Setting
  PROVE  Spec => []ClientsShareInOrder
<1>1. Init => IInv
  BY InitIInv
<1>2. IInv /\ [Next]_vars => IInv'
  BY NextIInv
<1>3. IInv => ClientsShareInOrder
  BY SharesFollow
<1> QED
  BY <1>1, <1>2, <1>3, PTL DEF Spec
=============================================================================
