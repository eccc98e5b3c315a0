-------------------------- MODULE NatsPeerProofs ----------------------------
(***************************************************************************)
(* Proofs about the NATS peer, for every set of messages, number of        *)
(* deliveries, size of a fetch and capacity of the channel, and any number *)
(* of lost deliveries and acks and of crashes.                             *)
(***************************************************************************)
EXTENDS NatsPeer, SequenceTheorems, TLAPS

-----------------------------------------------------------------------------
(* The inductive invariant.                                                *)

TypeInv ==
  /\ stream \subseteq Messages
  /\ phase \in {"down", "connected", "running"}
  /\ state \in [Messages -> {"ready", "pending", "acked"}]
  /\ deliveries \in [Messages -> Nat] /\ queued \in [Messages -> Nat]
  /\ refused \in [Messages -> Nat] /\ stranded \in [Messages -> Nat] /\ dropped \in [Messages -> Nat]
  /\ unacked \in [Messages -> Nat] /\ cut \in [Messages -> Nat]
  /\ batch \in Seq(Messages) /\ events \in Seq(Messages) /\ pushed \in BOOLEAN

\* A fetched message is in the batch once and taken; only a running peer has a
\* batch or something in its channel.
BatchInv ==
  /\ \A i, j \in DOMAIN batch : batch[i] = batch[j] => i = j
  /\ \A m \in Items(batch) : state[m] # "ready"
  /\ phase # "running" => batch = <<>> /\ events = <<>>
  /\ pushed => batch # <<>> /\ queued[Head(batch)] > 0

\* Every delivery of m went one of five ways: into the channel, back, down with
\* the process or the connection, or it waits in the batch.
Account(m) ==
  /\ m \in Waiting =>
       deliveries[m] = refused[m] + stranded[m] + dropped[m] + queued[m] + 1
  /\ m \notin Waiting =>
       deliveries[m] = refused[m] + stranded[m] + dropped[m] + queued[m]
  /\ deliveries[m] <= MaxDeliver

\* What the consumer and the channel say of m.
Fate(m) ==
  /\ state[m] = "acked" => queued[m] > 0
  /\ unacked[m] > 0 => queued[m] > 0
  /\ queued[m] > 0 => m \in consumed \cup Items(events) \cup swept
  /\ m \in Undecodable => queued[m] = 0

\* One entry of m into the channel is neither followed by a late ack nor cut off
\* by a crash, and then m is acked for good, or its Ack is the next step.
Settled(m) == (pushed /\ m = Head(batch)) \/ (state[m] = "acked" /\ m \notin Items(batch))
Repeats(m) ==
  /\ queued[m] <= unacked[m] + cut[m] + 1
  /\ Settled(m) \/ queued[m] <= unacked[m] + cut[m]

Told(m) == Account(m) /\ Fate(m) /\ Repeats(m)
IInv == TypeInv /\ BatchInv /\ \A m \in Messages : Told(m)

-----------------------------------------------------------------------------
(* Sequences as sets of items.                                             *)

\* Taking the first item of a sequence without repetitions removes it.
LEMMA TailItems ==
  ASSUME NEW S, NEW s \in Seq(S), s # <<>>
  PROVE  /\ Tail(s) \in Seq(S) /\ Head(s) \in S /\ Head(s) \in Items(s)
         /\ Items(s) = Items(Tail(s)) \cup {Head(s)}
         /\ (\A i, j \in DOMAIN s : s[i] = s[j] => i = j) =>
               /\ Head(s) \notin Items(Tail(s))
               /\ \A i, j \in DOMAIN Tail(s) : Tail(s)[i] = Tail(s)[j] => i = j
<1>1. /\ Len(s) \in Nat /\ Len(s) > 0 /\ DOMAIN s = 1..Len(s) /\ Head(s) = s[1]
      /\ Tail(s) \in Seq(S) /\ Len(Tail(s)) = Len(s) - 1 /\ DOMAIN Tail(s) = 1..(Len(s) - 1)
      /\ \A i \in 1..(Len(s) - 1) : Tail(s)[i] = s[i + 1]
  OBVIOUS
<1>2. 1 \in DOMAIN s /\ Head(s) \in S /\ Head(s) \in Items(s)
  BY <1>1 DEF Items
<1>3. Items(s) = Items(Tail(s)) \cup {Head(s)}
  <2>1. ASSUME NEW x \in Items(s), x # Head(s) PROVE x \in Items(Tail(s))
    <3>1. PICK i \in DOMAIN s : x = s[i]
      BY <2>1 DEF Items
    <3>2. i - 1 \in DOMAIN Tail(s) /\ Tail(s)[i - 1] = x
      BY <3>1, <2>1, <1>1
    <3> QED
      BY <3>2 DEF Items
  <2>2. ASSUME NEW x \in Items(Tail(s)) PROVE x \in Items(s)
    <3>1. PICK i \in DOMAIN Tail(s) : x = Tail(s)[i]
      BY <2>2 DEF Items
    <3>2. i + 1 \in DOMAIN s /\ s[i + 1] = x
      BY <3>1, <1>1
    <3> QED
      BY <3>2 DEF Items
  <2> QED
    BY <2>1, <2>2, <1>2
<1>4. ASSUME \A i, j \in DOMAIN s : s[i] = s[j] => i = j
      PROVE  /\ Head(s) \notin Items(Tail(s))
             /\ \A i, j \in DOMAIN Tail(s) : Tail(s)[i] = Tail(s)[j] => i = j
  <2>1. \A i \in DOMAIN Tail(s) : Tail(s)[i] # Head(s)
    BY <1>1, <1>4
  <2>2. \A i, j \in DOMAIN Tail(s) : Tail(s)[i] = Tail(s)[j] => i = j
    BY <1>1, <1>4
  <2> QED
    BY <2>1, <2>2 DEF Items
<1> QED
  BY <1>1, <1>2, <1>3, <1>4

\* Adding at the end adds the item.
LEMMA AppendItems ==
  ASSUME NEW S, NEW s \in Seq(S), NEW x \in S
  PROVE  Append(s, x) \in Seq(S) /\ Items(Append(s, x)) = Items(s) \cup {x}
<1>1. /\ Len(s) \in Nat /\ DOMAIN s = 1..Len(s) /\ DOMAIN Append(s, x) = 1..(Len(s) + 1)
      /\ \A i \in 1..Len(s) : Append(s, x)[i] = s[i]
      /\ Append(s, x)[Len(s) + 1] = x /\ Append(s, x) \in Seq(S)
  OBVIOUS
<1>2. \A i \in DOMAIN Append(s, x) : i \in DOMAIN s \/ i = Len(s) + 1
  BY <1>1
<1>3. \A i \in DOMAIN s : i \in DOMAIN Append(s, x)
  BY <1>1
<1>4. Len(s) + 1 \in DOMAIN Append(s, x)
  BY <1>1
<1> QED
  BY <1>1, <1>2, <1>3, <1>4 DEF Items

LEMMA NoItems == Items(<<>>) = {}
BY DEF Items

LEMMA ItemsIn ==
  ASSUME NEW S, NEW s \in Seq(S) PROVE Items(s) \subseteq S
BY DEF Items

-----------------------------------------------------------------------------
(* The invariant is inductive.                                             *)

\* It holds before the peer connects for the first time.
LEMMA InitIInv ==
  ASSUME Limits, Init PROVE IInv
<1>0. Zero \in [Messages -> Nat] /\ [m \in Messages |-> "ready"] \in [Messages -> {"ready", "pending", "acked"}]
  BY DEF Zero
<1>1. TypeInv
  <2>1. pushed \in BOOLEAN
    BY DEF Init
  <2>2. <<>> \in Seq(Messages)
    OBVIOUS
  <2>3. batch \in Seq(Messages) /\ events \in Seq(Messages)
    BY <2>2 DEF Init
  <2> QED
    BY <2>1, <2>3, <1>0 DEF Init, TypeInv
<1>2. BatchInv
  BY NoItems DEF Init, BatchInv
<1>3. ASSUME NEW m \in Messages PROVE Told(m)
  <2>1. Waiting = {}
    BY NoItems DEF Init, Waiting
  <2> QED
    BY <2>1, NoItems DEF Init, Zero, Told, Account, Fate, Repeats, Limits
<1> QED
  BY <1>1, <1>2, <1>3 DEF IInv

\* The numbers of a message.
LEMMA Numbers ==
  ASSUME TypeInv, NEW m \in Messages
  PROVE  /\ deliveries[m] \in Nat /\ queued[m] \in Nat /\ refused[m] \in Nat
         /\ stranded[m] \in Nat /\ dropped[m] \in Nat /\ unacked[m] \in Nat /\ cut[m] \in Nat
BY DEF TypeInv

\* What the first message of a batch is, and what waits behind it.
LEMMA BatchHead ==
  ASSUME TypeInv, BatchInv, batch # <<>>
  PROVE  /\ Head(batch) \in Messages /\ Head(batch) \in Items(batch)
         /\ Tail(batch) \in Seq(Messages) /\ Items(Tail(batch)) = Items(batch) \ {Head(batch)}
         /\ \A i, j \in DOMAIN Tail(batch) : Tail(batch)[i] = Tail(batch)[j] => i = j
         /\ pushed => Waiting = Items(Tail(batch))
         /\ ~pushed => Waiting = Items(batch)
<1>1. batch \in Seq(Messages) /\ \A i, j \in DOMAIN batch : batch[i] = batch[j] => i = j
  BY DEF TypeInv, BatchInv
<1>2. /\ Head(batch) \in Messages /\ Head(batch) \in Items(batch) /\ Tail(batch) \in Seq(Messages)
      /\ Items(batch) = Items(Tail(batch)) \cup {Head(batch)} /\ Head(batch) \notin Items(Tail(batch))
      /\ \A i, j \in DOMAIN Tail(batch) : Tail(batch)[i] = Tail(batch)[j] => i = j
  BY <1>1, TailItems
<1>3. Items(Tail(batch)) = Items(batch) \ {Head(batch)}
  BY <1>2
<1> QED
  BY <1>2, <1>3 DEF Waiting

\* What increasing a counter does.
LEMMA IncAt ==
  ASSUME NEW f \in [Messages -> Nat], NEW h \in Messages
  PROVE  /\ Inc(f, h) \in [Messages -> Nat] /\ Inc(f, h)[h] = f[h] + 1
         /\ \A m \in Messages : m # h => Inc(f, h)[m] = f[m]
BY DEF Inc

LEMMA IncAllAt ==
  ASSUME NEW f \in [Messages -> Nat], NEW S
  PROVE  /\ IncAll(f, S) \in [Messages -> Nat]
         /\ \A m \in Messages : m \in S => IncAll(f, S)[m] = f[m] + 1
         /\ \A m \in Messages : m \notin S => IncAll(f, S)[m] = f[m]
BY DEF IncAll

\* A fetch is a sequence of available messages, each delivered once more.
LEMMA FetchKeeps ==
  ASSUME Limits, IInv, Fetch PROVE IInv'
<1>inv. TypeInv /\ BatchInv /\ \A m \in Messages : Told(m)
  BY DEF IInv
<1>0. /\ phase = "running" /\ batch = <<>>
      /\ UNCHANGED <<server, stream, phase, pushed, events, consumed, queued, refused, stranded, dropped,
                     unacked, cut, swept, lost, crashes>>
  BY DEF Fetch, told
<1>n. PICK n \in 1..FetchSize : \E b \in [1..n -> Available] :
        /\ \A i, j \in 1..n : b[i] = b[j] => i = j
        /\ batch' = b
        /\ state' = [m \in Messages |-> IF m \in Items(b) THEN "pending" ELSE state[m]]
        /\ deliveries' = IncAll(deliveries, Items(b))
  BY DEF Fetch
<1>1. PICK b \in [1..n -> Available] :
        /\ \A i, j \in 1..n : b[i] = b[j] => i = j
        /\ batch' = b
        /\ state' = [m \in Messages |-> IF m \in Items(b) THEN "pending" ELSE state[m]]
        /\ deliveries' = IncAll(deliveries, Items(b))
  BY <1>n
<1>2. n \in Nat /\ n > 0 /\ Available \subseteq Messages
  BY <1>inv DEF Limits, TypeInv, Available
<1>3. b \in Seq(Messages) /\ DOMAIN b = 1..n
  BY <1>2, SeqDef
<1>4. \A m \in Items(b) : m \in Messages /\ state[m] = "ready" /\ deliveries[m] < MaxDeliver
  BY <1>3 DEF Items, Available, TypeInv
<1>5. /\ \A m \in Messages : m \in Items(b) => deliveries'[m] = deliveries[m] + 1 /\ state'[m] = "pending"
      /\ \A m \in Messages : m \notin Items(b) => deliveries'[m] = deliveries[m] /\ state'[m] = state[m]
      /\ deliveries' \in [Messages -> Nat] /\ state' \in [Messages -> {"ready", "pending", "acked"}]
  BY <1>1, <1>inv DEF IncAll, TypeInv
<1>6. TypeInv'
  BY <1>inv, <1>0, <1>1, <1>3, <1>5 DEF TypeInv
<1>p. ~pushed /\ Waiting = {} /\ Waiting' = Items(b) /\ Items(batch) = {}
  BY <1>inv, <1>0, <1>1, NoItems DEF BatchInv, Waiting
<1>7. BatchInv'
  BY <1>p, <1>0, <1>1, <1>3, <1>4, <1>5 DEF BatchInv
<1>8. ASSUME NEW m \in Messages PROVE Told(m)'
  <2>1. Told(m)
    BY <1>inv
  <2>2. MaxDeliver \in Nat
    BY DEF Limits
  <2>3. Account(m)'
    <3>1. CASE m \in Items(b)
      BY <3>1, <2>1, <2>2, <1>inv, <1>p, <1>0, <1>4, <1>5, Numbers DEF Told, Account
    <3>2. CASE m \notin Items(b)
      BY <3>2, <2>1, <1>p, <1>0, <1>5 DEF Told, Account
    <3> QED
      BY <3>1, <3>2
  <2>4. Fate(m)'
    BY <2>1, <1>0, <1>4, <1>5 DEF Told, Fate
  <2>5. Repeats(m)'
    <3>1. CASE m \in Items(b)
      <4>1. ~Settled(m)
        BY <3>1, <1>4, <1>p DEF Settled
      <4> QED
        BY <4>1, <2>1, <1>0 DEF Told, Repeats
    <3>2. CASE m \notin Items(b)
      <4>1. Settled(m) => Settled(m)'
        BY <3>2, <1>p, <1>1, <1>5 DEF Settled
      <4> QED
        BY <4>1, <2>1, <1>0 DEF Told, Repeats
    <3> QED
      BY <3>1, <3>2
  <2> QED
    BY <2>3, <2>4, <2>5 DEF Told
<1> QED
  BY <1>6, <1>7, <1>8 DEF IInv

\* A delivery that does not arrive is counted, and nothing else happens.
LEMMA DropKeeps ==
  ASSUME Limits, IInv, NEW h \in Messages, Drop(h) PROVE IInv'
<1>inv. TypeInv /\ BatchInv /\ \A m \in Messages : Told(m)
  BY DEF IInv
<1>0. /\ phase = "running" /\ batch = <<>> /\ state[h] = "ready" /\ deliveries[h] < MaxDeliver
      /\ state' = [state EXCEPT ![h] = "pending"]
      /\ deliveries' = Inc(deliveries, h) /\ dropped' = Inc(dropped, h)
      /\ UNCHANGED <<stream, phase, batch, pushed, events, consumed, queued, refused, stranded, unacked, cut, swept>>
  BY DEF Drop, Available
<1>1. ~pushed /\ Waiting = {} /\ Waiting' = {} /\ Items(batch) = {}
  BY <1>inv, <1>0, NoItems DEF BatchInv, Waiting
<1>2. /\ state' \in [Messages -> {"ready", "pending", "acked"}] /\ state'[h] = "pending"
      /\ \A m \in Messages : m # h => state'[m] = state[m]
  BY <1>0, <1>inv DEF TypeInv
<1>3. /\ deliveries' \in [Messages -> Nat] /\ deliveries'[h] = deliveries[h] + 1
      /\ \A m \in Messages : m # h => deliveries'[m] = deliveries[m]
  BY <1>0, <1>inv, IncAt DEF TypeInv
<1>4. /\ dropped' \in [Messages -> Nat] /\ dropped'[h] = dropped[h] + 1
      /\ \A m \in Messages : m # h => dropped'[m] = dropped[m]
  BY <1>0, <1>inv, IncAt DEF TypeInv
<1>5. TypeInv' /\ BatchInv'
  BY <1>inv, <1>0, <1>1, <1>2, <1>3, <1>4 DEF TypeInv, BatchInv
<1>6. ASSUME NEW m \in Messages PROVE Told(m)'
  <2>1. Told(m)
    BY <1>inv
  <2>2. CASE m # h
    <3>1. Settled(m) => Settled(m)'
      BY <2>2, <1>0, <1>2 DEF Settled
    <3>2. Account(m)'
      BY <2>1, <2>2, <1>0, <1>1, <1>3, <1>4 DEF Told, Account
    <3> QED
      BY <3>1, <3>2, <2>1, <2>2, <1>0, <1>2 DEF Told, Fate, Repeats
  <2>3. CASE m = h
    <3>1. ~Settled(m)
      BY <2>3, <1>0, <1>1 DEF Settled
    <3>2. MaxDeliver \in Nat
      BY DEF Limits
    <3>3. Account(m)'
      <4>1. /\ deliveries'[m] = deliveries[m] + 1 /\ stranded'[m] = stranded[m] /\ dropped'[m] = dropped[m] + 1
            /\ queued'[m] = queued[m] /\ refused'[m] = refused[m] /\ m \notin Waiting' /\ m \notin Waiting
        BY <2>3, <1>0, <1>1, <1>3, <1>4
      <4>2. deliveries[m] = refused[m] + stranded[m] + dropped[m] + queued[m] /\ deliveries[m] < MaxDeliver
        BY <4>1, <2>1, <2>3, <1>0 DEF Told, Account
      <4>3. /\ deliveries[m] + 1 = refused[m] + stranded[m] + (dropped[m] + 1) + queued[m]
            /\ deliveries[m] + 1 <= MaxDeliver
        BY <4>2, <3>2, <1>inv, Numbers
      <4> QED
        BY <4>1, <4>3 DEF Account
    <3> QED
      BY <3>1, <3>3, <2>1, <2>3, <1>0, <1>2 DEF Told, Fate, Repeats
  <2> QED
    BY <2>2, <2>3
<1> QED
  BY <1>5, <1>6 DEF IInv

\* The send moves the first message of the batch into the channel.
LEMMA SendKeeps ==
  ASSUME Limits, IInv, Send PROVE IInv'
<1>inv. TypeInv /\ BatchInv /\ \A m \in Messages : Told(m)
  BY DEF IInv
<1>0. /\ phase = "running" /\ batch # <<>> /\ ~pushed /\ Fits(Head(batch)) /\ pushed' = TRUE
      /\ events' = Append(events, Head(batch)) /\ queued' = Inc(queued, Head(batch))
      /\ UNCHANGED <<stream, phase, state, deliveries, batch, consumed, refused, stranded, dropped,
                     unacked, cut, swept>>
  BY DEF Send, told
<1>h. PICK h \in Messages : h = Head(batch) /\ h \in Items(batch)
  BY <1>inv, <1>0, BatchHead
<1>1. Waiting = Items(batch) /\ Waiting' = Items(batch) \ {h}
  BY <1>inv, <1>0, <1>h, BatchHead DEF Waiting
<1>2. /\ queued' \in [Messages -> Nat] /\ queued'[h] = queued[h] + 1
      /\ \A m \in Messages : m # h => queued'[m] = queued[m]
  BY <1>0, <1>h, <1>inv, IncAt DEF TypeInv
<1>3. events' \in Seq(Messages) /\ Items(events') = Items(events) \cup {h}
  <2>1. events \in Seq(Messages)
    BY <1>inv DEF TypeInv
  <2> QED
    BY <2>1, <1>0, <1>h, AppendItems
<1>4. TypeInv'
  BY <1>inv, <1>0, <1>2, <1>3 DEF TypeInv
<1>5. BatchInv'
  <2>1. queued'[h] > 0
    BY <1>2, <1>inv, Numbers
  <2> QED
    BY <2>1, <1>inv, <1>0, <1>h DEF BatchInv
<1>6. ASSUME NEW m \in Messages PROVE Told(m)'
  <2>1. Told(m)
    BY <1>inv
  <2>2. CASE m # h
    <3>1. Account(m)'
      BY <2>1, <2>2, <1>0, <1>1, <1>2 DEF Told, Account
    <3>2. Fate(m)'
      BY <2>1, <2>2, <1>0, <1>2, <1>3 DEF Told, Fate
    <3>3. Settled(m) => Settled(m)'
      BY <2>2, <1>0 DEF Settled
    <3> QED
      BY <3>1, <3>2, <3>3, <2>1, <2>2, <1>0, <1>2 DEF Told, Repeats
  <2>3. CASE m = h
    <3>1. Account(m)'
      <4>1. /\ deliveries'[m] = deliveries[m] /\ stranded'[m] = stranded[m] /\ dropped'[m] = dropped[m]
            /\ queued'[m] = queued[m] + 1 /\ refused'[m] = refused[m] /\ m \notin Waiting' /\ m \in Waiting
        BY <2>3, <1>0, <1>h, <1>1, <1>2
      <4>2. deliveries[m] = refused[m] + stranded[m] + dropped[m] + queued[m] + 1 /\ deliveries[m] <= MaxDeliver
        BY <4>1, <2>1 DEF Told, Account
      <4>3. deliveries[m] = refused[m] + stranded[m] + dropped[m] + (queued[m] + 1)
        BY <4>2, <1>inv, Numbers
      <4> QED
        BY <4>1, <4>2, <4>3 DEF Account
    <3>2. Fate(m)'
      <4>1. h \notin Undecodable
        BY <1>0, <1>h DEF Fits
      <4>2. queued'[h] > 0
        BY <1>2, <1>inv, Numbers
      <4>3. h \in Items(events')
        BY <1>3
      <4> QED
        BY <4>1, <4>2, <4>3, <2>3 DEF Fate
    <3>3. ~Settled(m) /\ Settled(m)'
      BY <2>3, <1>0, <1>h DEF Settled
    <3>4. Repeats(m)'
      BY <3>3, <2>1, <2>3, <1>inv, <1>0, <1>2, Numbers DEF Told, Repeats
    <3> QED
      BY <3>1, <3>2, <3>4 DEF Told
  <2> QED
    BY <2>2, <2>3
<1> QED
  BY <1>4, <1>5, <1>6 DEF IInv

\* The ack settles it, or is late.
LEMMA AckKeeps ==
  ASSUME Limits, IInv, Ack PROVE IInv'
<1>inv. TypeInv /\ BatchInv /\ \A m \in Messages : Told(m)
  BY DEF IInv
<1>0. /\ phase = "running" /\ pushed /\ batch # <<>> /\ batch' = Tail(batch) /\ pushed' = FALSE
      /\ UNCHANGED <<stream, phase, deliveries, events, consumed, queued, refused, stranded, dropped, cut, swept>>
  BY <1>inv DEF Ack, BatchInv
<1>h. PICK h \in Messages : h = Head(batch) /\ h \in Items(batch)
  BY <1>inv, <1>0, BatchHead
<1>1. /\ batch' \in Seq(Messages) /\ Items(batch') = Items(batch) \ {h}
      /\ \A i, j \in DOMAIN batch' : batch'[i] = batch'[j] => i = j
      /\ Waiting' = Waiting
  <2>1. /\ Tail(batch) \in Seq(Messages) /\ Items(Tail(batch)) = Items(batch) \ {Head(batch)}
        /\ \A i, j \in DOMAIN Tail(batch) : Tail(batch)[i] = Tail(batch)[j] => i = j
        /\ Waiting = Items(Tail(batch))
    BY <1>inv, <1>0, BatchHead
  <2>2. Waiting' = Items(batch')
    BY <1>0 DEF Waiting
  <2> QED
    BY <2>1, <2>2, <1>0, <1>h
<1>2. \/ state' = [state EXCEPT ![h] = "acked"] /\ unacked' = unacked
      \/ unacked' = Inc(unacked, h) /\ state' = state
  BY <1>h DEF Ack
<1>3. /\ state' \in [Messages -> {"ready", "pending", "acked"}]
      /\ \A m \in Messages : m # h => state'[m] = state[m]
      /\ state'[h] \in {"acked", state[h]}
      /\ unacked' = unacked => state'[h] = "acked"
  <2>1. unacked \in [Messages -> Nat] /\ state \in [Messages -> {"ready", "pending", "acked"}]
    BY <1>inv DEF TypeInv
  <2>2. Inc(unacked, h)[h] # unacked[h]
    BY <2>1, IncAt
  <2> QED
    BY <2>1, <2>2, <1>2
<1>4. /\ unacked' \in [Messages -> Nat] /\ unacked'[h] \in {unacked[h], unacked[h] + 1}
      /\ \A m \in Messages : m # h => unacked'[m] = unacked[m]
      /\ state'[h] = "acked" \/ unacked'[h] = unacked[h] + 1
  <2>1. unacked \in [Messages -> Nat]
    BY <1>inv DEF TypeInv
  <2> QED
    BY <2>1, <1>2, <1>3, IncAt
<1>5. TypeInv'
  BY <1>inv, <1>0, <1>1, <1>3, <1>4 DEF TypeInv
<1>6. BatchInv'
  <2>1. \A m \in Items(batch) : m \in Messages
    BY <1>inv, ItemsIn DEF TypeInv
  <2> QED
    BY <2>1, <1>inv, <1>0, <1>1, <1>3 DEF BatchInv
<1>7. ASSUME NEW m \in Messages PROVE Told(m)'
  <2>1. Told(m)
    BY <1>inv
  <2>2. Account(m)'
    BY <2>1, <1>0, <1>1 DEF Told, Account
  <2>3. CASE m # h
    <3>1. Settled(m) => Settled(m)'
      BY <2>3, <1>0, <1>h, <1>1, <1>3 DEF Settled
    <3> QED
      BY <3>1, <2>1, <2>2, <2>3, <1>0, <1>3, <1>4 DEF Told, Fate, Repeats
  <2>4. CASE m = h
    <3>1. queued[h] > 0
      BY <1>inv, <1>0, <1>h DEF BatchInv
    <3>2. Fate(m)'
      BY <3>1, <2>1, <2>4, <1>0 DEF Told, Fate
    <3>3. h \notin Items(batch')
      BY <1>1
    <3>4. Repeats(m)'
      <4>1. CASE state'[h] = "acked"
        <5>1. Settled(h)'
          BY <4>1, <3>3 DEF Settled
        <5> QED
          BY <5>1, <2>1, <2>4, <1>inv, <1>0, <1>4, Numbers DEF Told, Repeats
      <4>2. CASE unacked'[h] = unacked[h] + 1
        BY <4>2, <2>1, <2>4, <1>inv, <1>0, Numbers DEF Told, Repeats
      <4> QED
        BY <4>1, <4>2, <1>4
    <3> QED
      BY <3>2, <3>4, <2>2 DEF Told
  <2> QED
    BY <2>3, <2>4
<1> QED
  BY <1>5, <1>6, <1>7 DEF IInv

\* A nak takes the first message of the batch back.
LEMMA NakKeeps ==
  ASSUME Limits, IInv, Nak PROVE IInv'
<1>inv. TypeInv /\ BatchInv /\ \A m \in Messages : Told(m)
  BY DEF IInv
<1>0. /\ phase = "running" /\ ~pushed /\ batch # <<>> /\ batch' = Tail(batch)
      /\ refused' = Inc(refused, Head(batch))
      /\ UNCHANGED <<stream, phase, deliveries, pushed, events, consumed, queued, stranded, dropped,
                     unacked, cut, swept>>
  BY DEF Nak
<1>h. PICK h \in Messages : h = Head(batch) /\ h \in Items(batch)
  BY <1>inv, <1>0, BatchHead
<1>1. /\ batch' \in Seq(Messages) /\ Items(batch') = Items(batch) \ {h}
      /\ \A i, j \in DOMAIN batch' : batch'[i] = batch'[j] => i = j
      /\ Waiting = Items(batch) /\ Waiting' = Items(batch) \ {h}
  <2>1. /\ Tail(batch) \in Seq(Messages) /\ Items(Tail(batch)) = Items(batch) \ {Head(batch)}
        /\ \A i, j \in DOMAIN Tail(batch) : Tail(batch)[i] = Tail(batch)[j] => i = j
        /\ Waiting = Items(batch)
    BY <1>inv, <1>0, BatchHead
  <2>2. Waiting' = Items(batch')
    BY <1>0 DEF Waiting
  <2> QED
    BY <2>1, <2>2, <1>0, <1>h
<1>2. /\ state' \in [Messages -> {"ready", "pending", "acked"}]
      /\ \A m \in Messages : m # h => state'[m] = state[m]
      /\ state'[h] = "acked" => state[h] = "acked"
  <2>1. state \in [Messages -> {"ready", "pending", "acked"}]
    BY <1>inv DEF TypeInv
  <2>2. \/ state' = [state EXCEPT ![h] = IF @ = "pending" THEN "ready" ELSE @]
        \/ state' = state
    BY <1>h DEF Nak
  <2> QED
    BY <2>1, <2>2
<1>3. /\ refused' \in [Messages -> Nat] /\ refused'[h] = refused[h] + 1
      /\ \A m \in Messages : m # h => refused'[m] = refused[m]
  BY <1>0, <1>h, <1>inv, IncAt DEF TypeInv
<1>4. TypeInv'
  BY <1>inv, <1>0, <1>1, <1>2, <1>3 DEF TypeInv
<1>5. BatchInv'
  <2>1. \A m \in Items(batch) : m \in Messages
    BY <1>inv, ItemsIn DEF TypeInv
  <2> QED
    BY <2>1, <1>inv, <1>0, <1>1, <1>2 DEF BatchInv
<1>6. ASSUME NEW m \in Messages PROVE Told(m)'
  <2>1. Told(m)
    BY <1>inv
  <2>2. Fate(m)'
    BY <2>1, <1>0, <1>2 DEF Told, Fate
  <2>3. CASE m # h
    <3>1. Settled(m) => Settled(m)'
      BY <2>3, <1>0, <1>1, <1>2 DEF Settled
    <3>2. Account(m)'
      BY <2>1, <2>3, <1>0, <1>1, <1>3 DEF Told, Account
    <3> QED
      BY <3>1, <3>2, <2>1, <2>2, <1>0 DEF Told, Repeats
  <2>4. CASE m = h
    <3>1. ~Settled(m)
      BY <2>4, <1>0, <1>h DEF Settled
    <3>2. Account(m)'
      <4>1. /\ deliveries'[m] = deliveries[m] /\ stranded'[m] = stranded[m] /\ dropped'[m] = dropped[m]
            /\ queued'[m] = queued[m] /\ refused'[m] = refused[m] + 1 /\ m \notin Waiting' /\ m \in Waiting
        BY <2>4, <1>0, <1>h, <1>1, <1>3
      <4>2. deliveries[m] = refused[m] + stranded[m] + dropped[m] + queued[m] + 1 /\ deliveries[m] <= MaxDeliver
        BY <4>1, <2>1 DEF Told, Account
      <4>3. deliveries[m] = (refused[m] + 1) + stranded[m] + dropped[m] + queued[m]
        BY <4>2, <1>inv, Numbers
      <4> QED
        BY <4>1, <4>2, <4>3 DEF Account
    <3> QED
      BY <3>1, <3>2, <2>1, <2>2, <1>0 DEF Told, Repeats
  <2> QED
    BY <2>3, <2>4
<1> QED
  BY <1>4, <1>5, <1>6 DEF IInv

\* A crash takes the channel, the deliveries that wait, and the next Ack.
LEMMA CrashKeeps ==
  ASSUME Limits, IInv, Crash PROVE IInv'
<1>inv. TypeInv /\ BatchInv /\ \A m \in Messages : Told(m)
  BY DEF IInv
<1>c. PICK C : C = Items(batch) \ Waiting
  OBVIOUS
<1>0. /\ phase' = "down" /\ batch' = <<>> /\ pushed' = FALSE /\ events' = <<>>
      /\ stranded' = IncAll(stranded, Waiting) /\ cut' = IncAll(cut, C)
      /\ swept' = swept \cup Items(events)
      /\ UNCHANGED <<stream, state, deliveries, consumed, queued, refused, dropped, unacked>>
  BY <1>c DEF Crash
<1>1. /\ Waiting \subseteq Items(batch) /\ Items(batch) \subseteq Waiting \cup C
      /\ pushed => Head(batch) \in C
  <2>1. CASE batch = <<>>
    BY <2>1, <1>inv, <1>c, NoItems DEF Waiting, BatchInv
  <2>2. CASE batch # <<>>
    BY <2>2, <1>inv, <1>c, BatchHead
  <2> QED
    BY <2>1, <2>2
<1>2. /\ stranded' \in [Messages -> Nat]
      /\ \A m \in Messages : m \in Waiting => stranded'[m] = stranded[m] + 1
      /\ \A m \in Messages : m \notin Waiting => stranded'[m] = stranded[m]
  <2>1. PICK W : W = Waiting
    OBVIOUS
  <2>2. stranded \in [Messages -> Nat] /\ stranded' = IncAll(stranded, W)
    BY <2>1, <1>0, <1>inv DEF TypeInv
  <2> QED
    BY <2>1, <2>2, IncAllAt
<1>3. /\ cut' \in [Messages -> Nat]
      /\ \A m \in Messages : m \in C => cut'[m] = cut[m] + 1
      /\ \A m \in Messages : m \notin C => cut'[m] = cut[m]
  <2>1. cut \in [Messages -> Nat] /\ cut' = IncAll(cut, C)
    BY <1>0, <1>inv DEF TypeInv
  <2> QED
    BY <2>1, IncAllAt
<1>4. TypeInv'
  <2>1. pushed' \in BOOLEAN
    BY <1>0
  <2>2. <<>> \in Seq(Messages)
    OBVIOUS
  <2>3. batch' \in Seq(Messages) /\ events' \in Seq(Messages)
    BY <2>2, <1>0
  <2> QED
    BY <2>1, <2>3, <1>inv, <1>0, <1>2, <1>3 DEF TypeInv
<1>5. BatchInv' /\ Waiting' = {} /\ Items(batch') = {}
  BY <1>0, NoItems DEF BatchInv, Waiting
<1>6. ASSUME NEW m \in Messages PROVE Told(m)'
  <2>1. Told(m)
    BY <1>inv
  <2>2. Account(m)'
    <3>1. CASE m \in Waiting
      <4>1. /\ deliveries'[m] = deliveries[m] /\ refused'[m] = refused[m] /\ dropped'[m] = dropped[m]
            /\ queued'[m] = queued[m] /\ stranded'[m] = stranded[m] + 1 /\ m \notin Waiting'
        BY <3>1, <1>0, <1>2, <1>5
      <4>2. deliveries[m] = refused[m] + stranded[m] + dropped[m] + queued[m] + 1 /\ deliveries[m] <= MaxDeliver
        BY <3>1, <2>1 DEF Told, Account
      <4>3. deliveries[m] = refused[m] + (stranded[m] + 1) + dropped[m] + queued[m]
        BY <4>2, <1>inv, Numbers
      <4> QED
        BY <4>1, <4>2, <4>3 DEF Account
    <3>2. CASE m \notin Waiting
      BY <3>2, <2>1, <1>0, <1>2, <1>5 DEF Told, Account
    <3> QED
      BY <3>1, <3>2
  <2>3. Fate(m)'
    BY <2>1, <1>0 DEF Told, Fate
  <2>4. Repeats(m)'
    <3>1. CASE m \in C
      BY <3>1, <2>1, <1>inv, <1>0, <1>3, Numbers DEF Told, Repeats
    <3>2. CASE m \notin C /\ m \in Items(batch)
      <4>1. ~Settled(m)
        BY <3>2, <1>1 DEF Settled
      <4> QED
        BY <4>1, <3>2, <2>1, <1>0, <1>3 DEF Told, Repeats
    <3>3. CASE m \notin C /\ m \notin Items(batch)
      <4>1. Settled(m) => Settled(m)'
        BY <3>3, <1>0, <1>1, <1>5 DEF Settled
      <4> QED
        BY <4>1, <3>3, <2>1, <1>0, <1>3 DEF Told, Repeats
    <3> QED
      BY <3>1, <3>2, <3>3
  <2> QED
    BY <2>2, <2>3, <2>4 DEF Told
<1> QED
  BY <1>4, <1>5, <1>6 DEF IInv

\* The fan-out takes the oldest event from the channel.
LEMMA ConsumeKeeps ==
  ASSUME Limits, IInv, Consume PROVE IInv'
<1>inv. TypeInv /\ BatchInv /\ \A m \in Messages : Told(m)
  BY DEF IInv
<1>0. /\ events # <<>> /\ consumed' = consumed \cup {Head(events)} /\ events' = Tail(events)
      /\ UNCHANGED <<stream, phase, state, deliveries, batch, pushed, queued, refused, stranded, dropped,
                     unacked, cut, swept>>
  BY DEF Consume, told
<1>1. events' \in Seq(Messages) /\ Items(events) = Items(events') \cup {Head(events)}
  <2>1. events \in Seq(Messages)
    BY <1>inv DEF TypeInv
  <2> QED
    BY <2>1, <1>0, TailItems
<1>2. TypeInv'
  BY <1>inv, <1>0, <1>1 DEF TypeInv
<1>3. BatchInv'
  BY <1>inv, <1>0 DEF BatchInv
<1>4. ASSUME NEW m \in Messages PROVE Told(m)'
  <2>1. Account(m)' /\ Repeats(m)'
    BY <1>inv, <1>0 DEF Told, Account, Waiting, Repeats, Settled
  <2>2. Fate(m)'
    BY <1>inv, <1>0, <1>1 DEF Told, Fate
  <2> QED
    BY <2>1, <2>2 DEF Told
<1> QED
  BY <1>2, <1>3, <1>4 DEF IInv

\* Every step keeps the invariant.
LEMMA NextIInv ==
  ASSUME Limits, IInv, [Next]_vars PROVE IInv'
<1>inv. TypeInv /\ BatchInv /\ \A m \in Messages : Told(m)
  BY DEF IInv
<1>1. ASSUME stream' \subseteq Messages, phase' \in {"down", "connected", "running"},
             phase' # "running" => phase # "running",
             UNCHANGED <<state, deliveries, batch, pushed, events, consumed, queued, refused, stranded,
                         dropped, unacked, cut, swept>>
      PROVE  IInv'
  <2>1. TypeInv' /\ BatchInv'
    BY <1>1, <1>inv DEF TypeInv, BatchInv
  <2>2. \A m \in Messages : Told(m)'
    BY <1>1, <1>inv DEF Told, Account, Waiting, Fate, Repeats, Settled
  <2> QED
    BY <2>1, <2>2 DEF IInv
<1>2. CASE Connect \/ Sub
  <2>1. /\ phase' \in {"connected", "running"} /\ phase # "running" /\ events' = events
        /\ UNCHANGED <<stream, state, deliveries, batch, pushed, consumed, queued, refused, stranded,
                       dropped, unacked, cut, swept>>
    BY <1>2, <1>inv DEF Connect, Sub, BatchInv, told
  <2> QED
    BY <2>1, <1>1, <1>inv DEF TypeInv
<1>3. ASSUME NEW m \in Messages, Pub(m) PROVE IInv'
  <2>1. /\ stream' = stream \cup {m}
        /\ UNCHANGED <<phase, state, deliveries, batch, pushed, events, consumed, queued, refused, stranded,
                       dropped, unacked, cut, swept>>
    BY <1>3 DEF Pub, told
  <2> QED
    BY <2>1, <1>1, <1>inv DEF TypeInv
<1>4. ASSUME NEW h \in Messages, AckWait(h) \/ LateAck(h) PROVE IInv'
  <2>1. /\ UNCHANGED <<stream, phase, deliveries, batch, pushed, events, consumed, queued, refused, stranded,
                       dropped, unacked, cut, swept>>
    BY <1>4 DEF AckWait, LateAck, told
  <2>2. /\ state' \in [Messages -> {"ready", "pending", "acked"}]
        /\ \A m \in Messages : m # h => state'[m] = state[m]
        /\ \/ state[h] = "pending" /\ h \notin Items(batch) /\ state'[h] = "ready"
           \/ unacked[h] > 0 /\ state'[h] = "acked"
    BY <1>4, <1>inv DEF AckWait, LateAck, TypeInv
  <2>3. TypeInv'
    BY <2>1, <2>2, <1>inv DEF TypeInv
  <2>4. BatchInv'
    <3>1. \A m \in Items(batch) : m \in Messages
      BY <1>inv, ItemsIn DEF TypeInv
    <3> QED
      BY <3>1, <2>1, <2>2, <1>inv DEF BatchInv
  <2>5. ASSUME NEW m \in Messages PROVE Told(m)'
    <3>1. Told(m)
      BY <1>inv
    <3>2. Account(m)'
      BY <3>1, <2>1 DEF Told, Account, Waiting
    <3>3. Fate(m)'
      BY <3>1, <2>1, <2>2 DEF Told, Fate
    <3>4. Settled(m) => Settled(m)'
      BY <2>1, <2>2 DEF Settled
    <3> QED
      BY <3>1, <3>2, <3>3, <3>4, <2>1 DEF Told, Repeats
  <2> QED
    BY <2>3, <2>4, <2>5 DEF IInv
<1>5. CASE UNCHANGED vars
  <2>1. UNCHANGED <<stream, phase, state, deliveries, batch, pushed, events, consumed, queued, refused, stranded,
                    dropped, unacked, cut, swept>>
    BY <1>5 DEF vars, told
  <2> QED
    BY <2>1, <1>1, <1>inv DEF TypeInv
<1> QED
  BY <1>2, <1>3, <1>4, <1>5, FetchKeeps, DropKeeps, SendKeeps, AckKeeps, NakKeeps, CrashKeeps, ConsumeKeeps DEF Next

-----------------------------------------------------------------------------
\* Whatever the limits, a message that never entered the channel is lost only
\* when each of its deliveries was refused, cut off by a crash or lost with the
\* connection; one that entered it is lost only with the channel, in a crash;
\* each time it enters again an ack did not arrive in time or was cut off by a
\* crash; what is not an event is never acked.
THEOREM LossBounded ==
  ASSUME Limits
  PROVE  Spec => []EveryLossHasACause
<1>1. Init => IInv
  BY InitIInv
<1>2. IInv /\ [Next]_vars => IInv'
  BY NextIInv
<1>3. IInv => EveryLossHasACause
  <2> SUFFICES ASSUME IInv, NEW m \in stream
               PROVE  /\ Gone(m) /\ queued[m] = 0 => refused[m] + stranded[m] + dropped[m] = MaxDeliver
                      /\ queued[m] > 0 => m \in consumed \cup Items(events) \cup swept
                      /\ queued[m] <= 1 + unacked[m] + cut[m]
                      /\ m \in Undecodable => queued[m] = 0 /\ state[m] # "acked"
    BY DEF EveryLossHasACause
  <2>1. m \in Messages /\ TypeInv /\ BatchInv
    BY DEF IInv, TypeInv
  <2>2. Account(m) /\ Fate(m) /\ Repeats(m)
    BY <2>1 DEF IInv, Told
  <2>3. Gone(m) /\ queued[m] = 0 => refused[m] + stranded[m] + dropped[m] = MaxDeliver
    <3> SUFFICES ASSUME Gone(m), queued[m] = 0 PROVE refused[m] + stranded[m] + dropped[m] = MaxDeliver
      OBVIOUS
    <3>1. deliveries[m] = MaxDeliver /\ state[m] = "ready"
      BY <2>2 DEF Gone, Fate
    <3>2. m \notin Waiting
      <4>1. m \notin Items(batch)
        BY <3>1, <2>1 DEF BatchInv
      <4>2. CASE batch = <<>>
        BY <4>2, <2>1, NoItems DEF Waiting, BatchInv
      <4>3. CASE batch # <<>>
        BY <4>1, <4>3, <2>1, BatchHead
      <4> QED
        BY <4>2, <4>3
    <3> QED
      BY <3>1, <3>2, <2>1, <2>2, Numbers DEF Account
  <2>4. queued[m] <= 1 + unacked[m] + cut[m]
    BY <2>1, <2>2, Numbers DEF Repeats
  <2>5. m \in Undecodable => queued[m] = 0 /\ state[m] # "acked"
    BY <2>2 DEF Fate
  <2>6. queued[m] > 0 => m \in consumed \cup Items(events) \cup swept
    BY <2>2 DEF Fate
  <2> QED
    BY <2>3, <2>4, <2>5, <2>6
<1> QED
  BY <1>1, <1>2, <1>3, PTL DEF Spec
=============================================================================
