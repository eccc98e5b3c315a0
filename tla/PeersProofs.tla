---------------------------- MODULE PeersProofs -----------------------------
(***************************************************************************)
(* Proofs about the peers: Manager.Init and the shared connector           *)
(* instances, for every list of peers and every registry; the contents of  *)
(* events on their way to the sinks, for every pipeline and its messages;  *)
(* and the parts of Peers together.                                        *)
(***************************************************************************)
EXTENDS Peers, WellFoundedInduction, TLAPS

Index == 1..Len(PeerList)
PeerNames == {PeerList[i].name : i \in Index}

-----------------------------------------------------------------------------
(* The inductive invariant.                                                *)

TypeInv ==
  /\ phase \in {"add", "connect", "ready", "failed"}
  /\ idx \in Nat \ {0} /\ attempts \in Nat
  /\ peers \subseteq PeerNames /\ linked \subseteq PeerNames
  /\ holds \in [Registered -> [Settings -> PeerNames \cup {Nobody}]]
  /\ sentTo \in [Index -> SUBSET [Settings -> PeerNames \cup {Nobody}]]

\* Init works through the list from the front: while it is at a peer, those
\* before it are in the table and connected, and no other is.
OrderInv ==
  /\ phase \in {"add", "connect"} => idx \in Index
  /\ phase = "ready" => idx = Len(PeerList) + 1
  /\ \A i \in Index : PeerList[i].name \in linked <=> i < idx
  /\ phase \in {"add", "ready"} => peers = linked
  /\ phase = "connect" => /\ peers = linked \cup {Peer.name}
                          /\ Peer.connector \in Registered

\* v is what setting s of connector c has once the peers before n are connected:
\* the last of them that writes it, or nobody.
Before(n, c, s) == {j \in Writers(c, s) : j < n}
HeldBy(v, n, c, s) ==
  \/ Before(n, c, s) = {} /\ v = Nobody
  \/ \E j \in Before(n, c, s) : v = PeerList[j].name /\ \A k \in Before(n, c, s) : k <= j

\* Every setting is the one of the last writer Init has passed, or of the peer
\* Init is at; a connected peer has left none of its defaults empty.
HoldInv ==
  /\ \A c \in Registered, s \in Settings :
        \/ HeldBy(holds[c][s], idx, c, s)
        \/ phase \in {"connect", "failed"} /\ HeldBy(holds[c][s], idx + 1, c, s)
  /\ \A i \in Index : i < idx =>
        /\ PeerList[i].connector \in Registered
        /\ \A s \in Fills[PeerList[i].connector] : holds[PeerList[i].connector][s] # Nobody

\* Nothing is published before every peer is connected.
SentInv == phase # "ready" => \A i \in Index : sentTo[i] = {}

IInv == TypeInv /\ OrderInv /\ HoldInv /\ SentInv /\ SentUnderLinkedConfig

-----------------------------------------------------------------------------
\* The list: a length, and names that tell the peers apart.
LEMMA List ==
  /\ Len(PeerList) \in Nat
  /\ \A i \in Index : /\ PeerList[i].name \in PeerNames /\ PeerList[i].name # Nobody
                      /\ PeerList[i].writes \subseteq Settings
  /\ \A c \in Registered : Fills[c] \subseteq Settings
  /\ \A i, j \in Index : PeerList[i].name = PeerList[j].name => i = j
<1> DEFINE Configured == [name : STRING, connector : STRING, writes : SUBSET Settings]
<1>0. PeerList \in Seq(Configured)
  BY PeerAssumption
<1>1. Len(PeerList) \in Nat /\ \A i \in Index : PeerList[i] \in Configured
  <2> HIDE DEF Configured
  <2> QED
    BY <1>0 DEF Index
<1>2. \A i \in Index : PeerList[i].name \in PeerNames /\ PeerList[i].name # Nobody
  BY PeerAssumption DEF Index, PeerNames
<1>3. \A i \in Index : PeerList[i].writes \subseteq Settings
  BY <1>1
<1>4. \A c \in Registered : Fills[c] \subseteq Settings
  BY PeerAssumption
<1> QED
  BY <1>1, <1>2, <1>3, <1>4, PeerAssumption DEF Index

\* The invariant holds when Init is called.
LEMMA InitIInv == Init => IInv
<1> SUFFICES ASSUME Init PROVE IInv
  OBVIOUS
<1>1. PeerList = <<>> => Len(PeerList) = 0
  OBVIOUS
<1>2. PeerList # <<>> => 1 \in Index
  BY PeerAssumption DEF Index
<1>3. TypeInv /\ SentInv
  BY DEF Init, TypeInv, SentInv, Index
<1>4. OrderInv
  BY <1>1, <1>2, List DEF Init, OrderInv, Index
<1>5. HoldInv
  <2>1. \A c, s : Before(1, c, s) = {}
    BY DEF Before, Writers
  <2> QED
    BY <2>1, List DEF Init, HoldInv, HeldBy, Index
<1>6. SentUnderLinkedConfig
  BY DEF Init, SentUnderLinkedConfig
<1> QED
  BY <1>3, <1>4, <1>5, <1>6 DEF IInv

\* While nothing was sent, nothing was sent under a wrong configuration.
LEMMA NothingSent ==
  ASSUME TypeInv, SentInv, phase # "ready", UNCHANGED sentTo
  PROVE  SentInv' /\ SentUnderLinkedConfig'
BY DEF TypeInv, SentInv, SentUnderLinkedConfig, Index

\* What writing W does to one setting.
LEMMA MergedAt ==
  ASSUME TypeInv, PeerList[idx].connector \in Registered, PeerList[idx].name \in PeerNames, NEW W
  PROVE  /\ Merged(W) \in [Registered -> [Settings -> PeerNames \cup {Nobody}]]
         /\ \A c \in Registered, s \in Settings :
              /\ c = PeerList[idx].connector /\ s \in W => Merged(W)[c][s] = PeerList[idx].name
              /\ c # PeerList[idx].connector \/ s \notin W => Merged(W)[c][s] = holds[c][s]
BY DEF TypeInv, Merged, Peer

\* What an attempt may write makes the peer one of the setting's writers.
LEMMA WrittenIsOwned ==
  ASSUME TypeInv, HoldInv, idx \in Index, NEW s \in Written
  PROVE  s \in Settings => idx \in Writers(PeerList[idx].connector, s)
<1> DEFINE c == PeerList[idx].connector
<1>1. CASE s \in PeerList[idx].writes
  BY <1>1 DEF Writers, Index
<1>2. CASE s \in Fills[c] /\ holds[c][s] = Nobody
  <2>1. \A k \in Index : PeerList[k].connector = c => ~(k < idx)
    BY <1>2 DEF HoldInv
  <2> QED
    BY <2>1, <1>2, List DEF Writers, Index
<1> QED
  BY <1>1, <1>2 DEF Written, Peer

\* The peer at n adds itself to the writers it belongs to.
LEMMA BeforeNext ==
  ASSUME NEW n \in Index, NEW c, NEW s
  PROVE  /\ n \in Writers(c, s) => HeldBy(PeerList[n].name, n + 1, c, s)
         /\ n \notin Writers(c, s) => Before(n + 1, c, s) = Before(n, c, s)
<1>1. \A j \in Writers(c, s) : j \in Index
  BY DEF Writers, Index
<1>2. n \in Nat /\ \A j \in Index : j \in Nat
  BY List DEF Index
<1>3. \A j \in Index : j < n + 1 <=> (j < n \/ j = n)
  BY <1>2
<1>4. ASSUME n \in Writers(c, s) PROVE HeldBy(PeerList[n].name, n + 1, c, s)
  <2>1. n \in Before(n + 1, c, s)
    BY <1>4, <1>2 DEF Before
  <2>2. \A k \in Before(n + 1, c, s) : k <= n
    <3> SUFFICES ASSUME NEW k \in Before(n + 1, c, s) PROVE k <= n
      OBVIOUS
    <3>1. k \in Index /\ k < n + 1
      BY <1>1 DEF Before
    <3> QED
      BY <3>1, <1>2
  <2> QED
    BY <2>1, <2>2 DEF HeldBy
<1>5. ASSUME n \notin Writers(c, s) PROVE Before(n + 1, c, s) = Before(n, c, s)
  BY <1>5, <1>1, <1>3 DEF Before
<1> QED
  BY <1>4, <1>5

\* Every step keeps the invariant.
LEMMA NextIInv == IInv /\ [Next]_vars => IInv'
<1> SUFFICES ASSUME IInv, [Next]_vars PROVE IInv'
  OBVIOUS
<1>inv. TypeInv /\ OrderInv /\ HoldInv /\ SentInv /\ SentUnderLinkedConfig
  BY DEF IInv
<1>1. CASE AddPeer
  <2>0. phase = "add" /\ UNCHANGED <<idx, attempts, holds, linked, sentTo>> /\ idx \in Index
    BY <1>1, <1>inv DEF AddPeer, OrderInv
  <2>1. TypeInv'
    BY <1>1, <1>inv, <2>0, List DEF AddPeer, TypeInv, Peer
  <2>2. OrderInv'
    BY <1>1, <1>inv, <2>0 DEF AddPeer, OrderInv, Peer
  <2>3. HoldInv'
    BY <1>inv, <2>0 DEF HoldInv
  <2> QED
    BY <2>0, <2>1, <2>2, <2>3, <1>inv, NothingSent DEF IInv
<1>2. CASE ConnectOk
  <2>0. /\ phase = "connect" /\ idx \in Index /\ Peer.connector \in Registered
        /\ phase' \in {"add", "ready"} /\ (phase' = "ready" <=> idx = Len(PeerList))
        /\ UNCHANGED <<peers, sentTo>> /\ attempts' = 0 /\ idx' = idx + 1
        /\ linked' = linked \cup {PeerList[idx].name}
        /\ holds' = Merged(Written)
    BY <1>2, <1>inv, List DEF ConnectOk, OrderInv, Peer, Index
  <2>1. TypeInv'
    <3>1. PeerList[idx].name \in PeerNames /\ PeerList[idx].connector \in Registered
      BY <2>0, List DEF Peer
    <3>2. idx' \in Nat \ {0} /\ attempts' \in Nat
      BY <1>inv, <2>0 DEF TypeInv
    <3>3. holds' \in [Registered -> [Settings -> PeerNames \cup {Nobody}]]
      BY <1>inv, <2>0, <3>1, MergedAt
    <3> QED
      BY <1>inv, <2>0, <3>1, <3>2, <3>3 DEF TypeInv
  <2>2. OrderInv'
    BY <1>inv, <2>0, List DEF OrderInv, Peer, Index, TypeInv
  <2>3. HoldInv'
    <3> DEFINE d == PeerList[idx].connector
    <3>0. d \in Registered /\ PeerList[idx].name \in PeerNames /\ PeerList[idx].name # Nobody
          /\ Fills[d] \subseteq Settings /\ idx \in Nat
      BY <1>inv, <2>0, List DEF Peer, TypeInv
    <3>1. \A c \in Registered, s \in Settings :
            /\ c = d /\ s \in Written => holds'[c][s] = PeerList[idx].name
            /\ c # d \/ s \notin Written => holds'[c][s] = holds[c][s]
      BY <1>inv, <2>0, <3>0, MergedAt
    <3>2. ASSUME NEW c \in Registered, NEW s \in Settings
          PROVE  HeldBy(holds'[c][s], idx + 1, c, s)
      <4>1. CASE c = d /\ s \in Written
        <5>1. idx \in Writers(c, s)
          BY <4>1, <1>inv, <2>0, WrittenIsOwned
        <5> QED
          BY <4>1, <5>1, <3>1, <2>0, BeforeNext
      <4>2. CASE c # d \/ s \notin Written
        <5>1. holds'[c][s] = holds[c][s]
          BY <4>2, <3>1
        <5>2. CASE HeldBy(holds[c][s], idx + 1, c, s)
          BY <5>1, <5>2
        <5>3. CASE HeldBy(holds[c][s], idx, c, s)
          <6>1. idx \notin Writers(c, s)
            <7>1. SUFFICES ASSUME idx \in Writers(c, s) PROVE FALSE
              OBVIOUS
            <7>2. c = d
              BY <7>1 DEF Writers
            <7>3. s \notin PeerList[idx].writes
              BY <7>2, <4>2 DEF Written, Peer
            <7>4. s \in Fills[d] /\ \A k \in Index : PeerList[k].connector = c => idx <= k
              BY <7>1, <7>2, <7>3 DEF Writers, Index
            <7>5. holds[c][s] # Nobody
              BY <7>2, <7>4, <4>2 DEF Written, Peer
            <7>6. PICK j \in Before(idx, c, s) : TRUE
              BY <5>3, <7>5 DEF HeldBy
            <7>7. j \in Index /\ PeerList[j].connector = c /\ j < idx
              BY <7>6 DEF Before, Writers, Index
            <7> QED
              BY <7>4, <7>7, <3>0, List DEF Index
          <6> QED
            BY <6>1, <5>1, <5>3, <2>0, BeforeNext DEF HeldBy
        <5> QED
          BY <5>2, <5>3, <1>inv DEF HoldInv
      <4> QED
        BY <4>1, <4>2
    <3>3. ASSUME NEW i \in Index, i < idx + 1
          PROVE  /\ PeerList[i].connector \in Registered
                 /\ \A s \in Fills[PeerList[i].connector] : holds'[PeerList[i].connector][s] # Nobody
      <4> DEFINE c == PeerList[i].connector
      <4>1. c \in Registered
        <5>1. i < idx \/ i = idx
          BY <3>3, <3>0, List DEF Index
        <5> QED
          BY <5>1, <3>0, <1>inv DEF HoldInv
      <4>2. ASSUME NEW s \in Fills[c] PROVE holds'[c][s] # Nobody
        <5>1. s \in Settings
          BY <4>1, List
        <5>2. CASE c = d /\ s \in Written
          BY <5>1, <5>2, <4>1, <3>0, <3>1
        <5>3. CASE c # d
          <6>1. i < idx
            BY <5>3, <3>3, <3>0, List DEF Index
          <6> QED
            BY <6>1, <5>1, <5>3, <4>1, <3>1, <1>inv DEF HoldInv
        <5>4. CASE c = d /\ s \notin Written
          <6>1. holds[c][s] # Nobody
            BY <5>4 DEF Written, Peer
          <6> QED
            BY <6>1, <5>1, <5>4, <4>1, <3>1
        <5> QED
          BY <5>2, <5>3, <5>4
      <4> QED
        BY <4>1, <4>2
    <3> QED
      BY <3>2, <3>3, <2>0 DEF HoldInv
  <2> QED
    BY <2>0, <2>1, <2>2, <2>3, <1>inv, NothingSent DEF IInv, SentInv
<1>3. CASE ConnectFails
  <2>0. /\ phase = "connect" /\ idx \in Index /\ PeerList[idx].connector \in Registered
        /\ phase' \in {"connect", "failed"} /\ UNCHANGED <<idx, peers, linked, sentTo>>
        /\ attempts' = attempts + 1
    BY <1>3, <1>inv DEF ConnectFails, OrderInv, Peer
  <2>w. PICK W \in SUBSET Written : holds' = Merged(W)
    BY <1>3 DEF ConnectFails
  <2>n. PeerList[idx].name \in PeerNames /\ PeerList[idx].name # Nobody
    BY <2>0, List
  <2>1. TypeInv'
    <3>1. holds' \in [Registered -> [Settings -> PeerNames \cup {Nobody}]]
      BY <1>inv, <2>0, <2>n, <2>w, MergedAt
    <3> QED
      BY <1>inv, <2>0, <3>1 DEF TypeInv
  <2>2. OrderInv'
    BY <1>inv, <2>0 DEF OrderInv, Peer
  <2>3. HoldInv'
    <3> DEFINE d == PeerList[idx].connector
    <3>1. \A c \in Registered, s \in Settings :
            /\ c = d /\ s \in W => holds'[c][s] = PeerList[idx].name
            /\ c # d \/ s \notin W => holds'[c][s] = holds[c][s]
      BY <1>inv, <2>0, <2>n, <2>w, MergedAt
    <3>2. ASSUME NEW c \in Registered, NEW s \in Settings
          PROVE  HeldBy(holds'[c][s], idx, c, s) \/ HeldBy(holds'[c][s], idx + 1, c, s)
      <4>1. CASE c = d /\ s \in W
        <5>1. idx \in Writers(c, s)
          BY <4>1, <1>inv, <2>0, <2>w, WrittenIsOwned
        <5> QED
          BY <4>1, <5>1, <3>1, <2>0, BeforeNext
      <4>2. CASE c # d \/ s \notin W
        BY <4>2, <3>1, <1>inv DEF HoldInv
      <4> QED
        BY <4>1, <4>2
    <3>3. ASSUME NEW i \in Index, i < idx
          PROVE  /\ PeerList[i].connector \in Registered
                 /\ \A s \in Fills[PeerList[i].connector] : holds'[PeerList[i].connector][s] # Nobody
      <4>1. /\ PeerList[i].connector \in Registered
            /\ \A s \in Fills[PeerList[i].connector] : holds[PeerList[i].connector][s] # Nobody
        BY <3>3, <1>inv DEF HoldInv
      <4>2. Fills[PeerList[i].connector] \subseteq Settings
        BY <4>1, List
      <4> QED
        BY <4>1, <4>2, <3>1, <2>n
    <3> QED
      BY <3>2, <3>3, <2>0 DEF HoldInv
  <2> QED
    BY <2>0, <2>1, <2>2, <2>3, <1>inv, NothingSent DEF IInv
<1>4. ASSUME NEW i \in 1..Len(PeerList), Publish(i) PROVE IInv'
  <2> DEFINE c == PeerList[i].connector
  <2>0. /\ phase = "ready" /\ UNCHANGED <<phase, idx, attempts, peers, holds, linked>>
        /\ sentTo' = [sentTo EXCEPT ![i] = @ \cup {holds[c]}]
    BY <1>4 DEF Publish
  <2>1. i \in Index /\ \A j \in Index : j < idx
    BY <1>inv, <2>0, List DEF OrderInv, Index
  <2>2. c \in Registered
    BY <1>inv, <2>1 DEF HoldInv
  <2>3. ASSUME NEW s \in Settings
        PROVE  \/ Writers(c, s) = {} /\ holds[c][s] = Nobody
               \/ \E j \in Writers(c, s) :
                    holds[c][s] = PeerList[j].name /\ \A k \in Writers(c, s) : k <= j
    <3>1. HeldBy(holds[c][s], idx, c, s)
      BY <1>inv, <2>0, <2>2 DEF HoldInv
    <3>2. Before(idx, c, s) = Writers(c, s)
      BY <2>1 DEF Before, Writers, Index
    <3> QED
      BY <3>1, <3>2 DEF HeldBy
  <2>4. linked = peers /\ \A j \in Index : PeerList[j].name \in linked
    BY <1>inv, <2>0, <2>1 DEF OrderInv
  <2>5. TypeInv'
    BY <1>inv, <2>0, <2>2 DEF TypeInv, Index
  <2>6. OrderInv' /\ HoldInv'
    BY <1>inv, <2>0 DEF OrderInv, HoldInv, Peer
  <2>7. SentInv'
    BY <2>0 DEF SentInv
  <2>8. SentUnderLinkedConfig'
    <3> SUFFICES ASSUME NEW m \in Index, NEW h \in sentTo'[m]
                 PROVE  /\ linked = peers /\ \A j \in Index : PeerList[j].name \in linked
                        /\ \A s \in Settings :
                             \/ Writers(PeerList[m].connector, s) = {} /\ h[s] = Nobody
                             \/ \E j \in Writers(PeerList[m].connector, s) :
                                  h[s] = PeerList[j].name
                                  /\ \A k \in Writers(PeerList[m].connector, s) : k <= j
      BY <2>0 DEF SentUnderLinkedConfig, Index
    <3>1. h \in sentTo[m] \/ (m = i /\ h = holds[c])
      BY <1>inv, <2>0, <2>1 DEF TypeInv
    <3>2. CASE h \in sentTo[m]
      BY <3>2, <1>inv DEF SentUnderLinkedConfig, Index
    <3>3. CASE m = i /\ h = holds[c]
      BY <3>3, <2>3, <2>4
    <3> QED
      BY <3>1, <3>2, <3>3
  <2> QED
    BY <2>5, <2>6, <2>7, <2>8 DEF IInv
<1>5. CASE UNCHANGED vars
  <2>1. UNCHANGED <<phase, idx, attempts, peers, holds, linked, sentTo>>
    BY <1>5 DEF vars
  <2> QED
    BY <2>1 DEF IInv, TypeInv, OrderInv, HoldInv, SentInv, SentUnderLinkedConfig, Peer
<1> QED
  BY <1>1, <1>2, <1>3, <1>4, <1>5 DEF Next, InitStep

-----------------------------------------------------------------------------
\* However many peers share a connector and however many attempts failed half
\* way through writing a configuration, an event only goes out once every peer
\* is connected, and each setting it goes out under is the one of the last peer
\* of the connector that writes it.
THEOREM SharedConfig == Spec => []SentUnderLinkedConfig
<1>1. IInv => SentUnderLinkedConfig
  BY DEF IInv
<1> QED
  BY <1>1, InitIInv, NextIInv, PTL DEF Spec

-----------------------------------------------------------------------------
(* Induction on natural numbers, for sets: the least number outside one.   *)

Less == {ss \in Nat \X Nat : ss[1] < ss[2]}

LEMMA NatSet ==
  ASSUME NEW S, 0 \in S, \A n \in Nat : n \in S => n + 1 \in S
  PROVE  Nat \subseteq S
<1> DEFINE T == Nat \ S
<1>1. SUFFICES ASSUME T # {} PROVE FALSE
  OBVIOUS
<1>2. IsWellFoundedOn(Less, Nat)
  BY NatLessThanWellFounded DEF OpToRel, Less
<1>3. PICK x \in T : \A y \in T : ~ (<<y, x>> \in Less)
  BY <1>1, <1>2, WFMin
<1>4. x \in Nat /\ x # 0
  OBVIOUS
<1>5. x - 1 \in T /\ <<x - 1, x>> \in Less
  BY <1>4 DEF Less
<1> QED
  BY <1>3, <1>5

-----------------------------------------------------------------------------
(* Chains of transformations.                                              *)

Stage(config, outs) == UNION {Continue(config, o) : o \in outs}
IsRun(f, n, configs, e) ==
  f = [i \in 0..n |-> IF i = 0 THEN {Go(e)} ELSE Stage(configs[i], f[i - 1])]

\* What a run is, without the conditional.
LEMMA RunEquations ==
  ASSUME NEW configs, NEW e, NEW n \in Nat, NEW f, IsRun(f, n, configs, e)
  PROVE  f[0] = {Go(e)} /\ \A i \in 1..n : f[i] = Stage(configs[i], f[i - 1])
<1>1. f[0] = {Go(e)}
  BY DEF IsRun
<1>2. ASSUME NEW i \in 1..n PROVE f[i] = Stage(configs[i], f[i - 1])
  <2>1. i \in 0..n /\ i # 0
    OBVIOUS
  <2> QED
    BY <2>1 DEF IsRun
<1> QED
  BY <1>1, <1>2

\* A chain can be run: the recursive definition of Outcomes has a value.
LEMMA RunExists ==
  ASSUME NEW configs, NEW e
  PROVE  \A n \in Nat : \E f : IsRun(f, n, configs, e)
<1> DEFINE S == {n \in Nat : \E f : IsRun(f, n, configs, e)}
<1>1. 0 \in S
  <2> DEFINE f == [i \in 0..0 |-> {Go(e)}]
  <2>1. IsRun(f, 0, configs, e)
    BY DEF IsRun
  <2> QED
    BY <2>1
<1>2. ASSUME NEW n \in Nat, n \in S PROVE n + 1 \in S
  <2>1. PICK f : IsRun(f, n, configs, e)
    BY <1>2
  <2> DEFINE g == [i \in 0..(n + 1) |-> IF i = n + 1 THEN Stage(configs[n + 1], f[n]) ELSE f[i]]
  <2>2. f[0] = {Go(e)} /\ \A i \in 1..n : f[i] = Stage(configs[i], f[i - 1])
    BY <2>1, RunEquations
  <2>3. \A i \in 0..n : g[i] = f[i]
    OBVIOUS
  <2>5. g[n + 1] = Stage(configs[n + 1], g[n])
    BY <2>3
  <2>6. g[0] = {Go(e)} /\ \A i \in 1..(n + 1) : g[i] = Stage(configs[i], g[i - 1])
    <3>1. \A i \in 1..n : g[i] = Stage(configs[i], g[i - 1])
      <4> SUFFICES ASSUME NEW i \in 1..n PROVE g[i] = Stage(configs[i], g[i - 1])
        OBVIOUS
      <4>1. g[i] = f[i] /\ g[i - 1] = f[i - 1]
        BY <2>3
      <4> HIDE DEF g
      <4> QED
        BY <4>1, <2>2
    <3>2. g[0] = {Go(e)}
      BY <2>2, <2>3
    <3> HIDE DEF g
    <3> QED
      BY <3>1, <3>2, <2>5
  <2>4. IsRun(g, n + 1, configs, e)
    <3> HIDE DEF g
    <3>1. g = [i \in 0..(n + 1) |-> g[i]]
      BY DEF g
    <3>2. \A i \in 0..(n + 1) : g[i] = IF i = 0 THEN {Go(e)} ELSE Stage(configs[i], g[i - 1])
      <4> SUFFICES ASSUME NEW i \in 0..(n + 1)
                   PROVE  g[i] = IF i = 0 THEN {Go(e)} ELSE Stage(configs[i], g[i - 1])
        OBVIOUS
      <4>1. CASE i = 0
        BY <4>1, <2>6 DEF g
      <4>2. CASE i # 0
        <5>1. i \in 1..(n + 1)
          BY <4>2
        <5>2. g[i] = Stage(configs[i], g[i - 1])
          BY <5>1, <2>6 DEF g
        <5> QED
          BY <4>2, <5>2
      <4> QED
        BY <4>1, <4>2
    <3> QED
      BY <3>1, <3>2 DEF IsRun
  <2> QED
    BY <2>4
<1>3. Nat \subseteq S
  <2> HIDE DEF S
  <2> QED
    BY <1>1, <1>2, NatSet
<1> QED
  BY <1>3

\* The equations of Outcomes.
LEMMA Run ==
  ASSUME NEW configs, NEW e, IsSeq(configs)
  PROVE  /\ Outcomes(configs, e)[0] = {Go(e)}
         /\ \A n \in 1..Len(configs) :
              Outcomes(configs, e)[n] = Stage(configs[n], Outcomes(configs, e)[n - 1])
<1>1. PICK f : IsRun(f, Len(configs), configs, e)
  BY RunExists DEF IsSeq
<1>2. Outcomes(configs, e) = CHOOSE g : IsRun(g, Len(configs), configs, e)
  BY DEF Outcomes, IsRun, Stage
<1>3. IsRun(Outcomes(configs, e), Len(configs), configs, e)
  BY <1>1, <1>2
<1>4. PICK o : o = Outcomes(configs, e)
  OBVIOUS
<1>5. Len(configs) \in Nat /\ IsRun(o, Len(configs), configs, e)
  BY <1>3, <1>4 DEF IsSeq
<1>6. o[0] = {Go(e)} /\ \A n \in 1..Len(configs) : o[n] = Stage(configs[n], o[n - 1])
  BY <1>5, RunEquations
<1> QED
  BY <1>4, <1>6

\* Two events that differ in the shared Schema.Fields at most, and outcomes
\* that tell of two such events.
Twin(a, b) ==
  /\ IsEvent(a) /\ IsEvent(b)
  /\ a.schema = b.schema /\ a.table = b.table /\ a.op = b.op
  /\ a.before = b.before /\ a.after = b.after
Alike(o, p) == o.kind = p.kind /\ Twin(o.event, p.event)

Rec(s, t, o, b, a, f) ==
  [schema |-> s, table |-> t, op |-> o, before |-> b, after |-> a, fields |-> f]

LEMMA RecFields ==
  ASSUME NEW s, NEW t, NEW o, NEW b, NEW a, NEW f
  PROVE  LET r == Rec(s, t, o, b, a, f) IN
           /\ IsEvent(r) /\ r.schema = s /\ r.table = t /\ r.op = o
           /\ r.before = b /\ r.after = a /\ r.fields = f
BY DEF Rec, IsEvent

LEMMA EventIsRec ==
  ASSUME NEW e, IsEvent(e)
  PROVE  e = Rec(e.schema, e.table, e.op, e.before, e.after, e.fields)
BY DEF Rec, IsEvent

\* A record with one field replaced, and then with several.
SetSchema(r, x) == [r EXCEPT !.schema = x]
SetTable(r, x) == [r EXCEPT !.table = x]
SetBefore(r, x) == [r EXCEPT !.before = x]
SetAfter(r, x) == [r EXCEPT !.after = x]
SetFields(r, x) == [r EXCEPT !.fields = x]

LEMMA LiteralExcept ==
  ASSUME NEW s, NEW t, NEW o, NEW b, NEW a, NEW f, NEW x
  PROVE  /\ SetSchema(Rec(s, t, o, b, a, f), x) = Rec(x, t, o, b, a, f)
         /\ SetTable(Rec(s, t, o, b, a, f), x) = Rec(s, x, o, b, a, f)
         /\ SetBefore(Rec(s, t, o, b, a, f), x) = Rec(s, t, o, x, a, f)
         /\ SetAfter(Rec(s, t, o, b, a, f), x) = Rec(s, t, o, b, x, f)
         /\ SetFields(Rec(s, t, o, b, a, f), x) = Rec(s, t, o, b, a, x)
<1>1. SetSchema(Rec(s, t, o, b, a, f), x) = Rec(x, t, o, b, a, f)
  BY DEF Rec, SetSchema
<1>2. SetTable(Rec(s, t, o, b, a, f), x) = Rec(s, x, o, b, a, f)
  BY DEF Rec, SetTable
<1>3. SetBefore(Rec(s, t, o, b, a, f), x) = Rec(s, t, o, x, a, f)
  BY DEF Rec, SetBefore
<1>4. SetAfter(Rec(s, t, o, b, a, f), x) = Rec(s, t, o, b, x, f)
  BY DEF Rec, SetAfter
<1>5. SetFields(Rec(s, t, o, b, a, f), x) = Rec(s, t, o, b, a, x)
  BY DEF Rec, SetFields
<1> QED
  BY <1>1, <1>2, <1>3, <1>4, <1>5

LEMMA RecExcept ==
  ASSUME NEW e, IsEvent(e), NEW s, NEW t, NEW b, NEW a, NEW f
  PROVE  /\ [e EXCEPT !.before = b, !.after = a]
              = Rec(e.schema, e.table, e.op, b, a, e.fields)
         /\ [e EXCEPT !.schema = s, !.table = t]
              = Rec(s, t, e.op, e.before, e.after, e.fields)
         /\ [e EXCEPT !.before = b, !.after = a, !.fields = f]
              = Rec(e.schema, e.table, e.op, b, a, f)
         /\ [e EXCEPT !.fields = f] = Rec(e.schema, e.table, e.op, e.before, e.after, f)
<1>1. e = Rec(e.schema, e.table, e.op, e.before, e.after, e.fields)
  BY EventIsRec
<1>2. PICK s0, t0, o0, b0, a0, f0 :
        s0 = e.schema /\ t0 = e.table /\ o0 = e.op /\ b0 = e.before /\ a0 = e.after /\ f0 = e.fields
  OBVIOUS
<1>3. e = Rec(s0, t0, o0, b0, a0, f0)
  BY <1>1, <1>2
<1>4. SetAfter(SetBefore(e, b), a) = Rec(s0, t0, o0, b, a, f0)
  BY <1>3, LiteralExcept
<1>5. SetFields(SetAfter(SetBefore(e, b), a), f) = Rec(s0, t0, o0, b, a, f)
  BY <1>4, LiteralExcept
<1>6. SetTable(SetSchema(e, s), t) = Rec(s, t, o0, b0, a0, f0)
  BY <1>3, LiteralExcept
<1>7. SetFields(e, f) = Rec(s0, t0, o0, b0, a0, f)
  BY <1>3, LiteralExcept
<1>8. /\ [e EXCEPT !.before = b, !.after = a] = SetAfter(SetBefore(e, b), a)
      /\ [e EXCEPT !.schema = s, !.table = t] = SetTable(SetSchema(e, s), t)
      /\ [e EXCEPT !.before = b, !.after = a, !.fields = f] = SetFields(SetAfter(SetBefore(e, b), a), f)
      /\ [e EXCEPT !.fields = f] = SetFields(e, f)
  BY DEF SetSchema, SetTable, SetBefore, SetAfter, SetFields
<1> QED
  BY <1>2, <1>4, <1>5, <1>6, <1>7, <1>8

LEMMA RecSetFields ==
  ASSUME NEW e, IsEvent(e), NEW f
  PROVE  SetFields(e, f) = Rec(e.schema, e.table, e.op, e.before, e.after, f)
<1>1. PICK s0, t0, o0, b0, a0, f0 :
        s0 = e.schema /\ t0 = e.table /\ o0 = e.op /\ b0 = e.before /\ a0 = e.after /\ f0 = e.fields
  OBVIOUS
<1>2. e = Rec(s0, t0, o0, b0, a0, f0)
  BY <1>1, EventIsRec
<1>3. SetFields(e, f) = Rec(s0, t0, o0, b0, a0, f)
  BY <1>2, LiteralExcept
<1> QED
  BY <1>1, <1>3

SetColumns(e, b, a, f) == [e EXCEPT !.before = b, !.after = a, !.fields = f]
LEMMA RecColumns ==
  ASSUME NEW e, IsEvent(e), NEW b, NEW a, NEW f
  PROVE  SetColumns(e, b, a, f) = Rec(e.schema, e.table, e.op, b, a, f)
<1>1. [e EXCEPT !.before = b, !.after = a] = Rec(e.schema, e.table, e.op, b, a, e.fields)
  BY RecExcept
<1>2. PICK x : x = [e EXCEPT !.before = b, !.after = a]
  OBVIOUS
<1>3. PICK s0, t0, o0, f0 : s0 = e.schema /\ t0 = e.table /\ o0 = e.op /\ f0 = e.fields
  OBVIOUS
<1>4. x = Rec(s0, t0, o0, b, a, f0)
  BY <1>1, <1>2, <1>3
<1>5. SetFields(x, f) = Rec(s0, t0, o0, b, a, f)
  BY <1>4, LiteralExcept
<1>6. SetFields(x, f) = SetColumns(e, b, a, f)
  BY <1>2 DEF SetFields, SetColumns
<1> QED
  BY <1>3, <1>5, <1>6

LEMMA RecImages ==
  ASSUME NEW e, IsEvent(e), NEW b, NEW a
  PROVE  [e EXCEPT !.before = b, !.after = a] = Rec(e.schema, e.table, e.op, b, a, e.fields)
BY RecExcept

LEMMA TwinRefl == \A e : IsEvent(e) => Twin(e, e)
BY DEF Twin

LEMMA Outcome ==
  \A e : /\ Go(e).kind = "event" /\ Go(e).event = e
         /\ Skip(e).kind = "skip" /\ Skip(e).event = e
         /\ Fail(e).kind = "error" /\ Fail(e).event = e
BY DEF Go, Skip, Fail

\* What a transformation makes of an event does not depend on its fields.
LEMMA ExtractAlike ==
  ASSUME NEW c, NEW e, NEW f, Twin(e, f), NEW o \in Extract(c, f)
  PROVE  \E p \in Extract(c, e) : Alike(p, o)
<1>1. IsEvent(e) /\ IsEvent(f) /\ e.before = f.before /\ e.after = f.after
  BY DEF Twin
<1>2. CASE c.fields = {}
  <2>1. o = Fail(f) /\ Fail(e) \in Extract(c, e)
    BY <1>2 DEF Extract
  <2>2. Alike(Fail(e), Fail(f))
    BY Outcome DEF Alike
  <2> QED
    BY <2>1, <2>2
<1>3. CASE c.fields # {}
  <2> DEFINE b == Extracted(e.before, c.fields)
             a == Extracted(e.after, c.fields)
             x == [e EXCEPT !.before = b, !.after = a]
             y == [f EXCEPT !.before = b, !.after = a]
  <2>1. o = Go(y) /\ Go(x) \in Extract(c, e)
    BY <1>1, <1>3 DEF Extract
  <2>2. Twin(x, y)
    <3>1. x = Rec(e.schema, e.table, e.op, b, a, e.fields) /\ y = Rec(f.schema, f.table, f.op, b, a, f.fields)
      BY <1>1, RecExcept, ZenonT(30)
    <3> HIDE DEF x, y, a, b
    <3> QED
      BY <3>1, RecFields DEF Twin
  <2> HIDE DEF x, y
  <2>3. Alike(Go(x), Go(y))
    BY <2>2, Outcome DEF Alike
  <2> QED
    BY <2>1, <2>3
<1> QED
  BY <1>2, <1>3

LEMMA FilterAlike ==
  ASSUME NEW c, NEW e, NEW f, Twin(e, f), NEW o \in Filter(c, f)
  PROVE  \E p \in Filter(c, e) : Alike(p, o)
<1>1. e.schema = f.schema /\ e.table = f.table /\ e.op = f.op
  BY DEF Twin
<1>2. \A r : matchesTableRef(e, r) <=> matchesTableRef(f, r)
  BY <1>1 DEF matchesTableRef
<1>3. \/ o = Fail(f) /\ Fail(e) \in Filter(c, e)
      \/ o = Go(f) /\ Go(e) \in Filter(c, e)
      \/ o = Skip(f) /\ Skip(e) \in Filter(c, e)
  BY <1>1, <1>2 DEF Filter
<1>4. Alike(Fail(e), Fail(f)) /\ Alike(Go(e), Go(f)) /\ Alike(Skip(e), Skip(f))
  BY Outcome DEF Alike
<1> QED
  BY <1>3, <1>4

LEMMA NamesRec ==
  ASSUME NEW c, NEW e, IsEvent(e)
  PROVE  WithNames(c, e) = Rec(RegexReplaced(c, "schema", Renamed(c.schemas, e.schema)),
                           RegexReplaced(c, "table", Renamed(c.tables, e.table)),
                           e.op, e.before, e.after, e.fields)
BY RecExcept DEF WithNames

\* The outcomes of Replace, spelt out.
LEMMA ReplaceIs ==
  ASSUME NEW c, NEW e, IsEvent(e), NEW o
  PROVE  /\ ~ValidReplace(c) => (o \in Replace(c, e) <=> o = Fail(e))
         /\ ValidReplace(c) /\ c.columns = <<>> => (o \in Replace(c, e) <=> o = Go(WithNames(c, e)))
         /\ ValidReplace(c) /\ c.columns # <<>> =>
              (o \in Replace(c, e) <=>
                 \E b \in replaceMapKeys(e.before, c.columns), a \in replaceMapKeys(e.after, c.columns) :
                   o = Go(Rec(WithNames(c, e).schema, WithNames(c, e).table, e.op, b, a, RenamedFields(c, e.fields))))
<1>1. PICK x : x = WithNames(c, e)
  OBVIOUS
<1>2. IsEvent(x) /\ x.op = e.op /\ x.fields = e.fields
  BY <1>1, NamesRec, RecFields
<1>3. \A b, a : WithColumns(c, x, b, a) = Rec(x.schema, x.table, e.op, b, a, RenamedFields(c, e.fields))
  <2> TAKE b, a
  <2>1. WithColumns(c, x, b, a) = SetColumns(x, b, a, RenamedFields(c, x.fields))
    BY <1>2 DEF WithColumns, SetColumns, IsEvent
  <2>2. SetColumns(x, b, a, RenamedFields(c, x.fields)) = Rec(x.schema, x.table, x.op, b, a, RenamedFields(c, x.fields))
    BY <1>2, RecColumns
  <2> QED
    BY <1>2, <2>1, <2>2
<1>4. ~ValidReplace(c) => (o \in Replace(c, e) <=> o = Fail(e))
  BY DEF Replace
<1>5. ValidReplace(c) /\ c.columns = <<>> => (o \in Replace(c, e) <=> o = Go(WithNames(c, e)))
  BY DEF Replace
<1>6. ASSUME ValidReplace(c), c.columns # <<>>
      PROVE  o \in Replace(c, e) <=>
               \E b \in replaceMapKeys(e.before, c.columns), a \in replaceMapKeys(e.after, c.columns) :
                 o = Go(WithColumns(c, x, b, a))
  BY <1>1, <1>6 DEF Replace
<1>7. ValidReplace(c) /\ c.columns # <<>> =>
        (o \in Replace(c, e) <=>
           \E b \in replaceMapKeys(e.before, c.columns), a \in replaceMapKeys(e.after, c.columns) :
             o = Go(Rec(x.schema, x.table, e.op, b, a, RenamedFields(c, e.fields))))
  BY <1>3, <1>6
<1> QED
  BY <1>1, <1>4, <1>5, <1>7

LEMMA ReplaceAlike ==
  ASSUME NEW c, NEW e, NEW f, Twin(e, f), NEW o \in Replace(c, f)
  PROVE  \E p \in Replace(c, e) : Alike(p, o)
<1>1. /\ IsEvent(e) /\ IsEvent(f) /\ e.schema = f.schema /\ e.table = f.table
      /\ e.op = f.op /\ e.before = f.before /\ e.after = f.after
  BY DEF Twin
<1>2. Twin(WithNames(c, e), WithNames(c, f))
  BY <1>1, NamesRec, RecFields DEF Twin
<1>3. CASE ~ValidReplace(c)
  <2>1. o = Fail(f) /\ Fail(e) \in Replace(c, e)
    BY <1>1, <1>3, ReplaceIs
  <2> QED
    BY <2>1, Outcome DEF Alike
<1>4. CASE ValidReplace(c) /\ c.columns = <<>>
  <2>1. o = Go(WithNames(c, f)) /\ Go(WithNames(c, e)) \in Replace(c, e)
    BY <1>1, <1>4, ReplaceIs
  <2>2. Alike(Go(WithNames(c, e)), Go(WithNames(c, f)))
    BY <1>2, Outcome DEF Alike
  <2> QED
    BY <2>1, <2>2
<1>5. CASE ValidReplace(c) /\ c.columns # <<>>
  <2>1. PICK b \in replaceMapKeys(f.before, c.columns), a \in replaceMapKeys(f.after, c.columns) :
          o = Go(Rec(WithNames(c, f).schema, WithNames(c, f).table, f.op, b, a, RenamedFields(c, f.fields)))
    BY <1>1, <1>5, ReplaceIs
  <2> DEFINE x == Rec(WithNames(c, e).schema, WithNames(c, e).table, e.op, b, a, RenamedFields(c, e.fields))
             y == Rec(WithNames(c, f).schema, WithNames(c, f).table, f.op, b, a, RenamedFields(c, f.fields))
  <2>2. b \in replaceMapKeys(e.before, c.columns) /\ a \in replaceMapKeys(e.after, c.columns)
    BY <1>1
  <2>3. Go(x) \in Replace(c, e)
    BY <1>1, <1>5, <2>2, ReplaceIs
  <2>4. Twin(x, y)
    <3>1. WithNames(c, e).schema = WithNames(c, f).schema /\ WithNames(c, e).table = WithNames(c, f).table
      BY <1>2 DEF Twin
    <3> QED
      BY <1>1, <3>1, RecFields DEF Twin
  <2> HIDE DEF x, y
  <2>5. Alike(Go(x), Go(y))
    BY <2>4, Outcome DEF Alike
  <2> QED
    BY <2>1, <2>3, <2>5 DEF y
<1> QED
  BY <1>3, <1>4, <1>5

\* The fields change only where columns are renamed; the kinds of an outcome.
LEMMA ApplyKeeps ==
  ASSUME NEW c, NEW e, IsEvent(e), c.type \in Transforms, NEW o \in Apply(c, e),
         ~(c.type = "replace" /\ c.columns # <<>>)
  PROVE  o.event.fields = e.fields
<1>1. CASE c.type = "extract"
  <2>1. o \in Extract(c, e)
    BY <1>1 DEF Apply
  <2>2. CASE c.fields = {}
    BY <2>1, <2>2, Outcome DEF Extract
  <2>3. CASE c.fields # {}
    <3>1. PICK b, a : o = Go([e EXCEPT !.before = b, !.after = a])
      BY <2>1, <2>3 DEF Extract
    <3>2. [e EXCEPT !.before = b, !.after = a] = Rec(e.schema, e.table, e.op, b, a, e.fields)
      BY RecImages
    <3>3. PICK x : x = [e EXCEPT !.before = b, !.after = a]
      OBVIOUS
    <3>4. o = Go(x) /\ x = Rec(e.schema, e.table, e.op, b, a, e.fields)
      BY <3>1, <3>2, <3>3
    <3> QED
      BY <3>4, RecFields, Outcome
  <2> QED
    BY <2>2, <2>3
<1>2. CASE c.type = "filter"
  <2>1. o \in Filter(c, e)
    BY <1>2 DEF Apply
  <2>2. o \in {Fail(e), Go(e), Skip(e)}
    BY <2>1 DEF Filter
  <2> QED
    BY <2>2, Outcome
<1>3. CASE c.type = "replace"
  <2>1. o \in Replace(c, e) /\ c.columns = <<>>
    BY <1>3 DEF Apply
  <2>2. o = Fail(e) \/ o = Go(WithNames(c, e))
    BY <2>1, ReplaceIs
  <2>3. WithNames(c, e).fields = e.fields
    BY NamesRec, RecFields
  <2> QED
    BY <2>2, <2>3, Outcome
<1> QED
  BY <1>1, <1>2, <1>3 DEF Transforms

LEMMA ApplyAlike ==
  ASSUME NEW c, NEW e, NEW f, Twin(e, f), c.type \in Transforms, NEW o \in Apply(c, f)
  PROVE  \E p \in Apply(c, e) : Alike(p, o)
<1>1. CASE c.type = "extract"
  BY <1>1, ExtractAlike DEF Apply
<1>2. CASE c.type = "filter"
  BY <1>2, FilterAlike DEF Apply
<1>3. CASE c.type = "replace"
  BY <1>3, ReplaceAlike DEF Apply
<1> QED
  BY <1>1, <1>2, <1>3 DEF Transforms

LEMMA StageIs ==
  ASSUME NEW c, NEW outs, NEW o
  PROVE  o \in Stage(c, outs) <=> \E p \in outs : o \in Continue(c, p)
BY DEF Stage

LEMMA ContinueIs ==
  ASSUME NEW c, NEW p
  PROVE  /\ p.kind = "event" => Continue(c, p) = Apply(c, p.event)
         /\ p.kind # "event" => Continue(c, p) = {p}
BY DEF Continue

\* All the transformations of a chain are known.
Known(configs) == \A i \in DOMAIN configs : configs[i].type \in Transforms

LEMMA OutcomesAlike ==
  ASSUME NEW configs, IsSeq(configs), Known(configs), NEW e, NEW f, Twin(e, f)
  PROVE  \A o \in Outcomes(configs, f)[Len(configs)] :
           \E p \in Outcomes(configs, e)[Len(configs)] : Alike(p, o)
<1> DEFINE F == Outcomes(configs, f)
           E == Outcomes(configs, e)
           P(n) == \A o \in F[n] : \E p \in E[n] : Alike(p, o)
           S == {n \in Nat : n <= Len(configs) => P(n)}
<1>0. /\ F[0] = {Go(f)} /\ E[0] = {Go(e)}
      /\ \A n \in 1..Len(configs) : F[n] = Stage(configs[n], F[n - 1]) /\ E[n] = Stage(configs[n], E[n - 1])
  BY Run
<1>len. Len(configs) \in Nat /\ DOMAIN configs = 1..Len(configs)
  BY DEF IsSeq
<1> HIDE DEF F, E
<1>1. P(0)
  BY <1>0, Outcome DEF Alike
<1>2. ASSUME NEW n \in Nat, n + 1 <= Len(configs), P(n) PROVE P(n + 1)
  <2>1. n + 1 \in 1..Len(configs) /\ (n + 1) - 1 = n
    BY <1>2, <1>len
  <2>2. F[n + 1] = Stage(configs[n + 1], F[n]) /\ E[n + 1] = Stage(configs[n + 1], E[n])
    BY <2>1, <1>0
  <2>3. PICK c : c = configs[n + 1] /\ c.type \in Transforms
    BY <2>1, <1>len DEF Known
  <2>4. SUFFICES ASSUME NEW o \in Stage(c, F[n]) PROVE \E p \in Stage(c, E[n]) : Alike(p, o)
    BY <2>2, <2>3
  <2>5. PICK y \in F[n] : o \in Continue(c, y)
    BY <2>4, StageIs
  <2>6. PICK x \in E[n] : Alike(x, y)
    BY <1>2
  <2>7. \E p \in Continue(c, x) : Alike(p, o)
    <3>1. CASE y.kind = "event"
      <4>1. x.kind = "event" /\ Twin(x.event, y.event) /\ o \in Apply(c, y.event)
        BY <2>5, <2>6, <3>1, ContinueIs DEF Alike
      <4>2. \E p \in Apply(c, x.event) : Alike(p, o)
        BY <4>1, <2>3, ApplyAlike
      <4> QED
        BY <4>1, <4>2, ContinueIs
    <3>2. CASE y.kind # "event"
      <4>1. o = y /\ x \in Continue(c, x)
        BY <2>5, <2>6, <3>2, ContinueIs DEF Alike
      <4> QED
        BY <4>1, <2>6
    <3> QED
      BY <3>1, <3>2
  <2> QED
    BY <2>7, StageIs
<1>3. Nat \subseteq S
  <2>1. 0 \in S
    BY <1>1
  <2>2. \A n \in Nat : n \in S => n + 1 \in S
    <3> HIDE DEF P
    <3> QED
      BY <1>2, <1>len
  <2> HIDE DEF S
  <2> QED
    BY <2>1, <2>2, NatSet
<1> QED
  BY <1>3, <1>len DEF E, F

LEMMA OutcomesKeep ==
  ASSUME NEW configs, IsSeq(configs), Known(configs), ~RenamesColumns(configs), NEW e, IsEvent(e)
  PROVE  \A o \in Outcomes(configs, e)[Len(configs)] : o.event.fields = e.fields
<1> DEFINE E == Outcomes(configs, e)
           P(n) == \A o \in E[n] : o.event.fields = e.fields /\ IsEvent(o.event)
           S == {n \in Nat : n <= Len(configs) => P(n)}
<1>0. /\ E[0] = {Go(e)}
      /\ \A n \in 1..Len(configs) : E[n] = Stage(configs[n], E[n - 1])
  BY Run
<1>len. Len(configs) \in Nat /\ DOMAIN configs = 1..Len(configs)
  BY DEF IsSeq
<1> HIDE DEF E
<1>1. P(0)
  BY <1>0, Outcome
<1>2. ASSUME NEW n \in Nat, n + 1 <= Len(configs), P(n) PROVE P(n + 1)
  <2>1. n + 1 \in 1..Len(configs) /\ (n + 1) - 1 = n
    BY <1>2, <1>len
  <2>2. E[n + 1] = Stage(configs[n + 1], E[n])
    BY <2>1, <1>0
  <2>3. PICK c : c = configs[n + 1] /\ c.type \in Transforms /\ ~(c.type = "replace" /\ c.columns # <<>>)
    BY <2>1, <1>len DEF Known, RenamesColumns
  <2>4. SUFFICES ASSUME NEW o \in Stage(c, E[n]) PROVE o.event.fields = e.fields /\ IsEvent(o.event)
    BY <2>2, <2>3
  <2>5. PICK y \in E[n] : o \in Continue(c, y)
    BY <2>4, StageIs
  <2>6. y.event.fields = e.fields /\ IsEvent(y.event)
    BY <1>2
  <2>7. CASE y.kind = "event"
    <3>1. o \in Apply(c, y.event)
      BY <2>5, <2>7, ContinueIs
    <3>2. o.event.fields = y.event.fields
      BY <3>1, <2>3, <2>6, ApplyKeeps
    <3>3. \E p \in Apply(c, y.event) : Alike(p, o)
      BY <3>1, <2>3, <2>6, TwinRefl, ApplyAlike
    <3> QED
      BY <2>6, <3>2, <3>3 DEF Alike, Twin
  <2>8. CASE y.kind # "event"
    BY <2>5, <2>6, <2>8, ContinueIs
  <2> QED
    BY <2>7, <2>8
<1>3. Nat \subseteq S
  <2>1. 0 \in S
    BY <1>1
  <2>2. \A n \in Nat : n \in S => n + 1 \in S
    <3> HIDE DEF P
    <3> QED
      BY <1>2, <1>len
  <2> HIDE DEF S
  <2> QED
    BY <2>1, <2>2, NatSet
<1> QED
  BY <1>3, <1>len DEF E

\* A chain, whatever it consists of: its outcomes do not depend on the fields
\* the event comes with, and it leaves them alone unless it renames columns.
LEMMA ChainAlike ==
  ASSUME NEW configs, IsSeq(configs), NEW e, NEW f, Twin(e, f), NEW o \in Chain(configs, f)
  PROVE  \E p \in Chain(configs, e) : Alike(p, o)
<1> DEFINE bad == \E i \in DOMAIN configs : configs[i].type \notin Transforms \/ ~configs[i].decodes
<1>1. CASE bad
  <2>1. o = Fail(f) /\ Fail(e) \in Chain(configs, e)
    BY <1>1 DEF Chain
  <2>2. Alike(Fail(e), Fail(f))
    BY Outcome DEF Alike
  <2> QED
    BY <2>1, <2>2
<1>2. CASE ~bad
  <2>1. Known(configs)
    BY <1>2 DEF Known
  <2>2. \A x : Chain(configs, x) = Outcomes(configs, x)[Len(configs)]
    BY <1>2 DEF Chain
  <2> QED
    BY <2>1, <2>2, OutcomesAlike
<1> QED
  BY <1>1, <1>2

LEMMA ChainKeeps ==
  ASSUME NEW configs, IsSeq(configs), ~RenamesColumns(configs), NEW e, IsEvent(e), NEW o \in Chain(configs, e)
  PROVE  o.event.fields = e.fields
<1> DEFINE bad == \E i \in DOMAIN configs : configs[i].type \notin Transforms \/ ~configs[i].decodes
<1>1. CASE bad
  BY <1>1, Outcome DEF Chain
<1>2. CASE ~bad
  <2>1. Known(configs)
    BY <1>2 DEF Known
  <2>2. Chain(configs, e) = Outcomes(configs, e)[Len(configs)]
    BY <1>2 DEF Chain
  <2> QED
    BY <2>1, <2>2, OutcomesKeep
<1> QED
  BY <1>1, <1>2

LEMMA ChainEvents ==
  ASSUME NEW configs, IsSeq(configs), NEW e, IsEvent(e), NEW o \in Chain(configs, e)
  PROVE  IsEvent(o.event)
<1>1. \E p \in Chain(configs, e) : Alike(p, o)
  BY TwinRefl, ChainAlike
<1> QED
  BY <1>1 DEF Alike, Twin

-----------------------------------------------------------------------------
(* Channels.                                                               *)

Elems(s) == {s[i] : i \in DOMAIN s}
Distinct(s) == \A i, j \in DOMAIN s : s[i] = s[j] => i = j

LEMMA TailElems ==
  ASSUME NEW S, NEW s \in Seq(S), s # <<>>, Distinct(s)
  PROVE  /\ Tail(s) \in Seq(S) /\ Distinct(Tail(s)) /\ Head(s) \in Elems(s)
         /\ Elems(Tail(s)) = Elems(s) \ {Head(s)}
<1>1. /\ Tail(s) \in Seq(S) /\ DOMAIN s = 1..Len(s) /\ Len(s) \in Nat \ {0} /\ Head(s) = s[1]
      /\ DOMAIN Tail(s) = 1..(Len(s) - 1) /\ \A i \in 1..(Len(s) - 1) : Tail(s)[i] = s[i + 1]
  OBVIOUS
<1>2. Distinct(Tail(s))
  BY <1>1 DEF Distinct
<1>3. Head(s) \in Elems(s)
  BY <1>1 DEF Elems
<1>4. ASSUME NEW x \in Elems(Tail(s)) PROVE x \in Elems(s) /\ x # Head(s)
  <2>1. PICK i \in 1..(Len(s) - 1) : x = s[i + 1]
    BY <1>1 DEF Elems
  <2>2. i + 1 \in DOMAIN s /\ 1 \in DOMAIN s /\ i + 1 # 1
    BY <1>1
  <2> QED
    BY <1>1, <2>1, <2>2 DEF Elems, Distinct
<1>5. ASSUME NEW x \in Elems(s), x # Head(s) PROVE x \in Elems(Tail(s))
  <2>1. PICK i \in 1..Len(s) : x = s[i]
    BY <1>1 DEF Elems
  <2>2. i # 1 /\ i - 1 \in 1..(Len(s) - 1)
    BY <1>1, <1>5, <2>1
  <2>3. Tail(s)[i - 1] = x
    BY <1>1, <2>1, <2>2
  <2> QED
    BY <1>1, <2>2, <2>3 DEF Elems
<1> QED
  BY <1>1, <1>2, <1>3, <1>4, <1>5

LEMMA AppendElems ==
  ASSUME NEW S, NEW s \in Seq(S), NEW x \in S
  PROVE  /\ Append(s, x) \in Seq(S) /\ Elems(Append(s, x)) = Elems(s) \cup {x}
         /\ Distinct(s) /\ x \notin Elems(s) => Distinct(Append(s, x))
<1>1. /\ Append(s, x) \in Seq(S) /\ DOMAIN s = 1..Len(s) /\ Len(s) \in Nat
      /\ DOMAIN Append(s, x) = 1..(Len(s) + 1) /\ Append(s, x)[Len(s) + 1] = x
      /\ \A i \in 1..Len(s) : Append(s, x)[i] = s[i]
  OBVIOUS
<1>2. \A i \in 1..(Len(s) + 1) : i \in 1..Len(s) \/ i = Len(s) + 1
  BY <1>1
<1>3. Elems(Append(s, x)) = Elems(s) \cup {x}
  BY <1>1, <1>2 DEF Elems
<1>4. ASSUME Distinct(s), x \notin Elems(s) PROVE Distinct(Append(s, x))
  BY <1>1, <1>2, <1>4 DEF Elems, Distinct
<1> QED
  BY <1>1, <1>3, <1>4

LEMMA SeqIs ==
  ASSUME NEW S, NEW s \in Seq(S)
  PROVE  IsSeq(s) /\ DOMAIN s = 1..Len(s) /\ \A i \in 1..Len(s) : s[i] \in S
<1>1. s \in [1..Len(s) -> S] /\ Len(s) \in Nat
  OBVIOUS
<1>2. s = [i \in 1..Len(s) |-> s[i]]
  BY <1>1
<1> QED
  BY <1>1, <1>2 DEF IsSeq

\* A list of anything that is extended.
LEMMA AppendAny ==
  ASSUME NEW s, IsSeq(s), NEW x
  PROVE  /\ IsSeq(Append(s, x)) /\ Len(Append(s, x)) = Len(s) + 1
         /\ DOMAIN s = 1..Len(s) /\ DOMAIN Append(s, x) = 1..(Len(s) + 1)
         /\ Append(s, x)[Len(s) + 1] = x /\ \A i \in DOMAIN s : Append(s, x)[i] = s[i]
<1>1. PICK S : S = {s[i] : i \in DOMAIN s} \cup {x}
  OBVIOUS
<1>2. s \in Seq(S) /\ x \in S
  <2>1. Len(s) \in Nat /\ DOMAIN s = 1..Len(s) /\ s = [i \in 1..Len(s) |-> s[i]]
    BY DEF IsSeq
  <2>2. s \in [1..Len(s) -> S]
    BY <1>1, <2>1
  <2> QED
    BY <1>1, <2>1, <2>2
<1>3. Append(s, x) \in Seq(S)
  BY <1>2
<1>4. IsSeq(Append(s, x))
  BY <1>3, SeqIs
<1>5. Len(Append(s, x)) = Len(s) + 1 /\ DOMAIN s = 1..Len(s) /\ Len(s) \in Nat
  BY <1>2
<1>6. DOMAIN Append(s, x) = 1..(Len(s) + 1)
  BY <1>3, <1>5
<1>7. Append(s, x)[Len(s) + 1] = x
  BY <1>2
<1>8. \A i \in DOMAIN s : Append(s, x)[i] = s[i]
  BY <1>2
<1> QED
  BY <1>4, <1>5, <1>6, <1>7, <1>8

LEMMA SeqLen ==
  ASSUME NEW s, IsSeq(s)
  PROVE  Len(s) \in Nat /\ DOMAIN s = 1..Len(s)
<1>1. Len(s) \in Nat /\ s = [i \in 1..Len(s) |-> s[i]]
  BY DEF IsSeq
<1> QED
  BY <1>1

LEMMA SeqOfFunction ==
  ASSUME NEW n \in Nat, NEW f, f = [i \in 1..n |-> f[i]]
  PROVE  IsSeq(f) /\ Len(f) = n
BY DEF IsSeq

LEMMA Single == \A x : IsSeq(<<x>>) /\ Len(<<x>>) = 1 /\ <<x>>[1] = x
BY DEF IsSeq

LEMMA EmptyList == \A s : s = <<>> => IsSeq(s)
<1>1. \A s : s = <<>> => s \in [1..Len(s) -> {}] /\ Len(s) \in Nat
  OBVIOUS
<1>2. \A s : s = <<>> => s = [i \in 1..Len(s) |-> s[i]]
  BY <1>1
<1> QED
  BY <1>1, <1>2 DEF IsSeq

LEMMA EmptyDomain == \A s : s = <<>> => Len(s) = 0 /\ DOMAIN s = {}
OBVIOUS
-----------------------------------------------------------------------------
(* What a source makes of a message is a list of events.                   *)

LEMMA CreateEvent ==
  ASSUME NEW schema, NEW table, NEW op, NEW payload, NEW extracted
  PROVE  IsEvent(createEventWithFieldsFromTopic(schema, table, op, payload, extracted))
<1>1. \A p : IsEvent(createEvent(schema, table, op, p))
  BY DEF createEvent, IsEvent
<1> QED
  BY <1>1 DEF createEventWithFieldsFromTopic

LEMMA JsonList ==
  ASSUME NEW payload, IsSeq(payload.json.items), NEW isBatch, NEW conditions
  PROVE  IsSeq(JsonPayloads(payload, isBatch, conditions))
<1> DEFINE parsed == CASE payload.json.kind = "invalid" -> <<>>
                       [] isBatch /\ payload.json.kind = "array" -> payload.json.items
                       [] isBatch /\ payload.json.kind = "nil" -> <<>>
                       [] OTHER -> <<payload.json>>
           merged(d) == IF d.kind = "map" THEN Map(d.map @@ conditions)
                        ELSE IF d.kind = "nil" THEN Nil ELSE Other
<1>1. IsSeq(parsed)
  <2>1. parsed \in {<<>>, payload.json.items, <<payload.json>>}
    OBVIOUS
  <2>2. IsSeq(<<payload.json>>)
    BY Single
  <2> HIDE DEF parsed
  <2> QED
    BY <2>1, <2>2, EmptyList
<1>2. JsonPayloads(payload, isBatch, conditions) = [i \in DOMAIN parsed |-> merged(parsed[i])]
  BY DEF JsonPayloads
<1> HIDE DEF parsed, merged
<1>3. PICK f : f = [i \in DOMAIN parsed |-> merged(parsed[i])]
  OBVIOUS
<1>4. Len(parsed) \in Nat /\ f = [i \in 1..Len(parsed) |-> f[i]]
  BY <1>1, <1>3 DEF IsSeq
<1> QED
  BY <1>2, <1>3, <1>4, SeqOfFunction

LEMMA PayloadList ==
  ASSUME NEW payload, IsSeq(payload.json.items), NEW isBatch, NEW rest
  PROVE  IsSeq(Payloads(payload, isBatch, rest))
<1>1. IsSeq(JsonPayloads(payload, isBatch, Conditions(rest)))
  BY JsonList
<1>2. PICK j, c, s, a, b, d :
        /\ j = JsonPayloads(payload, isBatch, Conditions(rest)) /\ c = IsScalar(rest) /\ s = (Conditions(rest) = <<>>)
        /\ a = Map((Last(rest) :> parseScalarValue(payload.text)) @@ Conditions(rest))
        /\ b = Map((Last(rest) :> Null) @@ Conditions(rest)) /\ d = Map(Conditions(rest))
  OBVIOUS
<1>3. Payloads(payload, isBatch, rest) \in {<<a>>, <<b>>, j, <<>>, <<d>>}
  BY <1>2 DEF Payloads
<1>4. IsSeq(<<a>>) /\ IsSeq(<<b>>) /\ IsSeq(<<d>>)
  BY Single
<1>5. PICK p : p = Payloads(payload, isBatch, rest)
  OBVIOUS
<1>6. p \in {<<a>>, <<b>>, j, <<>>, <<d>>} /\ IsSeq(j)
  BY <1>1, <1>2, <1>3, <1>5
<1>7. IsSeq(p)
  BY <1>4, <1>6, EmptyList
<1> QED
  BY <1>5, <1>7

LEMMA MessageList ==
  ASSUME NEW config, NEW topic, NEW payload, IsSeq(payload.json.items)
  PROVE  LET es == onMessage(config, topic, payload)
         IN  IsSeq(es) /\ \A i \in DOMAIN es : IsEvent(es[i])
<1>1. CASE onMessage(config, topic, payload) = <<>>
  <2>1. \A es : es = <<>> => IsSeq(es) /\ \A i \in DOMAIN es : IsEvent(es[i])
    BY EmptyList, EmptyDomain
  <2> QED
    BY <1>1, <2>1
<1>2. CASE onMessage(config, topic, payload) # <<>>
  <2> DEFINE after == TopicAfterRewrite(config, topic)
             parts == SubSeq(after, Len(config.prefix) + 1, Len(after))
             isBatch == Len(parts) > 3 /\ parts[4] = "batch"
             rest == SubSeq(parts, IF isBatch THEN 5 ELSE 4, Len(parts))
             ps == Payloads(payload, isBatch, rest)
             extracted == extractFieldsFromTopic(after, config.fields)
             event(d) == createEventWithFieldsFromTopic(parts[1], parts[2], Operations[parts[3]], d, extracted)
  <2>1. onMessage(config, topic, payload) = [i \in DOMAIN ps |-> event(ps[i])]
    BY <1>2 DEF onMessage
  <2>2. IsSeq(ps)
    BY PayloadList
  <2>e. \A d : IsEvent(event(d))
    BY CreateEvent
  <2> HIDE DEF ps, event
  <2>3. PICK f : f = [i \in DOMAIN ps |-> event(ps[i])]
    OBVIOUS
  <2>4. Len(ps) \in Nat /\ f = [i \in 1..Len(ps) |-> f[i]] /\ DOMAIN f = DOMAIN ps
    BY <2>2, <2>3 DEF IsSeq
  <2>5. \A i \in DOMAIN f : IsEvent(f[i])
    BY <2>e, <2>3
  <2>6. IsSeq(f)
    BY <2>4, SeqOfFunction
  <2> QED
    BY <2>1, <2>3, <2>5, <2>6
<1> QED
  BY <1>1, <1>2

LEMMA ApplyEvents ==
  ASSUME NEW source, IsSeq(source), NEW pipeline, IsSeq(pipeline), NEW e, IsEvent(e),
         NEW o \in applyEventTransformations(source, pipeline, e)
  PROVE  IsEvent(o.event)
<1>1. PICK p \in Chain(source, e) : o \in (IF p.kind = "event" THEN Chain(pipeline, p.event) ELSE {p})
  BY DEF applyEventTransformations
<1>2. IsEvent(p.event)
  BY ChainEvents
<1> QED
  BY <1>1, <1>2, ChainEvents
-----------------------------------------------------------------------------
(* The events on their way.                                                *)

Ids == (DOMAIN inbox) \X Nat
Pushed(id) == id \in Ids /\ id[1] \in arrived /\ id[2] \in 1..pushing[id[1]]

\* What the source's and the pipeline's chains make of an event.
Results(id) ==
  {o \in applyEventTransformations(plan.source[inbox[id[1]].from], plan.pipeline, Original(id)) : o.kind = "event"}

OnlyItself(k) == \A j \in Sinks \ {k} : ~RenamesColumns(plan.sinks[j].chain)
Holds(k, id) == work[k] # <<>> /\ work[k][1].id = id

\* While a copy waits for a sink that is the only one to rename columns, its
\* fields are still those the pipeline made; the copy in a worker's hands is
\* what the sink's own chain makes of the pipeline's result.
Waits(k, id, r) == OnlyItself(k) /\ id \in Elems(chans[k]) => heap[id].fields = r.event.fields
Works(k, id, r) ==
  Holds(k, id) =>
    \E o \in Chain(plan.sinks[k].chain, r.event) :
      /\ o.kind = "event" /\ Twin(o.event, work[k][1].event)
      /\ OnlyItself(k) => o.event.fields = heap[id].fields
Tracked(id, r) == Twin(heap[id], r.event) /\ \A k \in Sinks : Waits(k, id, r) /\ Works(k, id, r)

\* What EachSinkItsOwnChain says of one call of Pub.
Own(k, p) ==
  \E o \in Alone(k, p.id) :
    /\ o.kind = "event" /\ [o.event EXCEPT !.fields = p.event.fields] = p.event
    /\ OnlyItself(k) => o.event.fields = p.event.fields

PlanInv ==
  /\ IsSeq(plan.pipeline) /\ \A s \in Sources : IsSeq(plan.source[s])
  /\ \A k \in Sinks : IsSeq(plan.sinks[k].chain)
  /\ \A j, k \in Sinks : plan.sinks[j].kind = "pg" /\ plan.sinks[k].kind = "pg" => j = k
  /\ \A m \in DOMAIN inbox :
       \/ inbox[m].from = "mqtt" /\ IsSeq(inbox[m].payload.json.items)
       \/ inbox[m].from = "nats" /\ IsEvent(inbox[m].event)
MadeInv ==
  /\ arrived \subseteq DOMAIN inbox /\ DOMAIN made = DOMAIN inbox /\ DOMAIN pushing = DOMAIN inbox
  /\ \A m \in DOMAIN inbox :
       /\ IsSeq(made[m]) /\ pushing[m] \in 0..Len(made[m]) /\ (m \notin arrived => pushing[m] = 0)
       /\ \A i \in DOMAIN made[m] : IsEvent(made[m][i])
QueueInv ==
  /\ DOMAIN queue = Sources
  /\ \A s \in Sources : /\ queue[s] \in Seq(Ids) /\ Distinct(queue[s])
                        /\ \A id \in Elems(queue[s]) : Pushed(id) /\ inbox[id[1]].from = s /\ id \notin DOMAIN heap
ChansInv ==
  /\ DOMAIN chans = Sinks /\ DOMAIN work = Sinks
  /\ \A k \in Sinks : /\ chans[k] \in Seq(Ids) /\ Distinct(chans[k]) /\ Elems(chans[k]) \subseteq DOMAIN heap
                      /\ work[k] # <<>> => work[k][1].id \in DOMAIN heap
HeapInv == \A id \in DOMAIN heap : Pushed(id) /\ \E r \in Results(id) : Tracked(id, r)
OutInv ==
  /\ DOMAIN out = Sinks
  /\ \A k \in Sinks : IsSeq(out[k]) /\ \A i \in DOMAIN out[k] : Pushed(out[k][i].id) /\ Own(k, out[k][i])
SinkInv == PlanInv /\ MadeInv /\ QueueInv /\ ChansInv /\ HeapInv /\ OutInv

LEMMA SinkInitInv == SinkInit => SinkInv
<1> SUFFICES ASSUME SinkInit PROVE SinkInv
  OBVIOUS
<1>1. PICK c \in Cases : plan = c.plan /\ inbox = c.inbox
  BY DEF SinkInit
<1>2. PlanInv
  BY <1>1, SinkAssumption DEF PlanInv, Sinks
<1>3. MadeInv
  <2>1. \A m \in DOMAIN inbox : made[m] = <<>> /\ pushing[m] = 0
    BY DEF SinkInit
  <2>2. \A m \in DOMAIN inbox : IsSeq(made[m]) /\ Len(made[m]) = 0 /\ DOMAIN made[m] = {}
    BY <2>1, EmptyList, EmptyDomain
  <2>3. arrived = {} /\ DOMAIN made = DOMAIN inbox /\ DOMAIN pushing = DOMAIN inbox
    BY DEF SinkInit
  <2> QED
    BY <2>1, <2>2, <2>3 DEF MadeInv
<1>4. DOMAIN heap = {}
  BY DEF SinkInit, NoEvents
<1>5. \A s : s = <<>> => s \in Seq(Ids) /\ Distinct(s) /\ Elems(s) = {}
  BY EmptyDomain DEF Distinct, Elems
<1>6. QueueInv
  <2>1. DOMAIN queue = Sources /\ \A s \in Sources : queue[s] = <<>>
    BY DEF SinkInit
  <2> QED
    BY <1>5, <2>1 DEF QueueInv
<1>7. ChansInv
  <2>1. DOMAIN chans = Sinks /\ DOMAIN work = Sinks /\ \A k \in Sinks : chans[k] = <<>> /\ work[k] = <<>>
    BY DEF SinkInit, Sinks
  <2> QED
    BY <1>5, <2>1 DEF ChansInv
<1>8. HeapInv
  BY <1>4 DEF HeapInv
<1>9. OutInv
  <2>1. DOMAIN out = Sinks /\ \A k \in Sinks : out[k] = <<>>
    BY DEF SinkInit, Sinks
  <2> QED
    BY <2>1, EmptyList, EmptyDomain DEF OutInv
<1> QED
  BY <1>2, <1>3, <1>6, <1>7, <1>8, <1>9 DEF SinkInv

\* Nothing a step leaves alone changes.
LEMMA SinkFixed ==
  ASSUME [SinkNext]_sinkVars
  PROVE  plan' = plan /\ inbox' = inbox
BY DEF SinkNext, sinkVars, Arrive, Push, ProcessEvent, Transform, PubElsewhere, PubPG, PubFails, TablesArrive

LEMMA PlanStep ==
  ASSUME PlanInv, plan' = plan, inbox' = inbox
  PROVE  PlanInv'
BY DEF PlanInv, Sinks

\* Events that were pushed stay what they are.
Stays == \A m \in arrived : m \in arrived' /\ made'[m] = made[m] /\ pushing'[m] >= pushing[m]

LEMMA PushedStays ==
  ASSUME plan' = plan, inbox' = inbox, MadeInv, MadeInv', Stays, NEW id, Pushed(id)
  PROVE  /\ Pushed(id)' /\ Results(id)' = Results(id)
         /\ \A k \in Sinks : Alone(k, id)' = Alone(k, id)
<1>1. /\ id \in (DOMAIN inbox) \X Nat /\ id[1] \in arrived /\ id[1] \in arrived' /\ made'[id[1]] = made[id[1]]
      /\ id[1] \in DOMAIN inbox /\ id[2] \in 1..pushing[id[1]] /\ pushing'[id[1]] >= pushing[id[1]]
  <2>1. id \in (DOMAIN inbox) \X Nat /\ id[1] \in arrived /\ id[2] \in 1..pushing[id[1]]
    BY DEF Pushed, Ids
  <2>2. id[1] \in DOMAIN inbox
    BY <2>1 DEF MadeInv
  <2>3. id[1] \in arrived' /\ made'[id[1]] = made[id[1]] /\ pushing'[id[1]] >= pushing[id[1]]
    BY <2>1 DEF Stays
  <2> QED
    BY <2>1, <2>2, <2>3
<1>2. pushing[id[1]] \in Nat /\ pushing'[id[1]] \in Nat
  <2>1. /\ IsSeq(made[id[1]]) /\ pushing[id[1]] \in 0..Len(made[id[1]])
        /\ pushing'[id[1]] \in 0..Len(made'[id[1]])
    BY <1>1 DEF MadeInv
  <2> QED
    BY <2>1
<1>3. Pushed(id)'
  BY <1>1, <1>2 DEF Pushed, Ids
<1>4. Original(id)' = Original(id)
  BY <1>1 DEF Original
<1>5. Results(id)' = Results(id)
  BY <1>4 DEF Results
<1>6. \A k \in Sinks : Alone(k, id)' = Alone(k, id)
  BY <1>4 DEF Alone
<1> QED
  BY <1>3, <1>5, <1>6

LEMMA OwnStays ==
  ASSUME plan' = plan, NEW k \in Sinks, NEW p, Own(k, p), Alone(k, p.id)' = Alone(k, p.id)
  PROVE  Own(k, p)'
<1>1. OnlyItself(k)' = OnlyItself(k)
  BY DEF OnlyItself, Sinks
<1> QED
  BY <1>1 DEF Own

LEMMA TrackedStays ==
  ASSUME plan' = plan, NEW id, NEW r, Tracked(id, r), heap'[id] = heap[id],
         \A k \in Sinks : /\ id \in Elems(chans'[k]) => id \in Elems(chans[k])
                          /\ Holds(k, id)' => work'[k] = work[k]
  PROVE  Tracked(id, r)'
<1>1. Sinks' = Sinks /\ \A k \in Sinks : OnlyItself(k)' = OnlyItself(k)
  BY DEF OnlyItself, Sinks
<1>2. Twin(heap[id], r.event)'
  BY DEF Tracked
<1>3. ASSUME NEW k \in Sinks PROVE Waits(k, id, r)' /\ Works(k, id, r)'
  <2>1. Waits(k, id, r) /\ Works(k, id, r)
    BY DEF Tracked
  <2>2. Waits(k, id, r)'
    BY <1>1, <2>1 DEF Waits
  <2>3. Works(k, id, r)'
    BY <1>1, <2>1 DEF Works, Holds
  <2> QED
    BY <2>2, <2>3
<1> QED
  BY <1>1, <1>2, <1>3 DEF Tracked

\* The parts of the invariant that a step of a worker or of the pipeline
\* leaves alone, given what it does to the copies.
LEMMA HeapStays ==
  ASSUME SinkInv, MadeInv', plan' = plan, inbox' = inbox, Stays, heap' = heap,
         \A k \in Sinks : /\ Elems(chans'[k]) \subseteq Elems(chans[k])
                          /\ work'[k] # <<>> => work'[k] = work[k]
  PROVE  HeapInv'
<1> SUFFICES ASSUME NEW id \in DOMAIN heap
             PROVE  Pushed(id)' /\ \E r \in Results(id)' : Tracked(id, r)'
  BY DEF HeapInv
<1>1. PICK r \in Results(id) : Tracked(id, r)
  BY DEF SinkInv, HeapInv
<1>2. Pushed(id) /\ MadeInv
  BY DEF SinkInv, HeapInv
<1>3. Pushed(id)' /\ Results(id)' = Results(id)
  BY <1>2, PushedStays
<1>4. \A k \in Sinks : /\ id \in Elems(chans'[k]) => id \in Elems(chans[k])
                       /\ Holds(k, id)' => work'[k] = work[k]
  BY DEF Holds
<1>5. heap'[id] = heap[id]
  OBVIOUS
<1>6. Tracked(id, r)'
  BY <1>1, <1>4, <1>5, TrackedStays
<1> QED
  BY <1>3, <1>6

LEMMA OutStays ==
  ASSUME SinkInv, MadeInv', plan' = plan, inbox' = inbox, Stays, out' = out
  PROVE  OutInv'
<1>1. Sinks' = Sinks /\ MadeInv
  BY DEF Sinks, SinkInv
<1>2. ASSUME NEW k \in Sinks, NEW i \in DOMAIN out[k] PROVE Pushed(out[k][i].id)' /\ Own(k, out[k][i])'
  <2>1. PICK p : p = out[k][i] /\ p = out'[k][i]
    OBVIOUS
  <2>2. Pushed(p.id) /\ Own(k, p)
    BY <2>1 DEF SinkInv, OutInv
  <2>3. Pushed(p.id)' /\ Alone(k, p.id)' = Alone(k, p.id)
    BY <1>1, <2>2, PushedStays
  <2>4. Own(k, p)'
    BY <2>2, <2>3, OwnStays
  <2> QED
    BY <2>1, <2>3, <2>4
<1> QED
  BY <1>1, <1>2 DEF SinkInv, OutInv

LEMMA QueueStays ==
  ASSUME SinkInv, MadeInv', plan' = plan, inbox' = inbox, Stays, queue' = queue, DOMAIN heap' = DOMAIN heap
  PROVE  QueueInv'
<1>1. Ids' = Ids /\ MadeInv
  BY DEF Ids, SinkInv
<1>2. ASSUME NEW s \in Sources, NEW id \in Elems(queue[s])
      PROVE  Pushed(id)' /\ inbox'[id[1]].from = s /\ id \notin DOMAIN heap'
  <2>1. Pushed(id) /\ inbox[id[1]].from = s /\ id \notin DOMAIN heap
    BY DEF SinkInv, QueueInv
  <2> QED
    BY <1>1, <2>1, PushedStays
<1> QED
  BY <1>1, <1>2 DEF SinkInv, QueueInv

LEMMA ArriveInv ==
  ASSUME SinkInv, NEW m \in DOMAIN inbox, Arrive(m)
  PROVE  SinkInv'
<1>1. /\ plan' = plan /\ inbox' = inbox /\ pushing' = pushing /\ queue' = queue /\ heap' = heap
      /\ chans' = chans /\ work' = work /\ out' = out /\ m \notin arrived /\ arrived' = arrived \cup {m}
      /\ made' = [made EXCEPT ![m] = Decoded(m)]
  BY DEF Arrive
<1>2. MadeInv /\ PlanInv
  BY DEF SinkInv
<1>3. PICK es : es = Decoded(m) /\ IsSeq(es) /\ \A i \in DOMAIN es : IsEvent(es[i])
  <2>1. CASE inbox[m].from = "mqtt"
    <3>1. IsSeq(inbox[m].payload.json.items)
      BY <1>2, <2>1 DEF PlanInv
    <3>2. Decoded(m) = onMessage(plan.mqtt, inbox[m].topic, inbox[m].payload)
      BY <2>1 DEF Decoded
    <3> QED
      BY <3>1, <3>2, MessageList
  <2>2. CASE inbox[m].from # "mqtt"
    <3>1. PICK e : e = inbox[m].event /\ IsEvent(e)
      BY <1>2, <2>2 DEF PlanInv
    <3>2. Decoded(m) = <<e>>
      BY <2>2, <3>1 DEF Decoded
    <3>3. IsSeq(<<e>>) /\ \A i \in DOMAIN <<e>> : IsEvent(<<e>>[i])
      BY <3>1, Single
    <3> QED
      BY <3>2, <3>3
  <2> QED
    BY <2>1, <2>2
<1>4. Stays
  BY <1>1, <1>2 DEF Stays, MadeInv
<1>5. MadeInv'
  <2>1. /\ arrived' \subseteq DOMAIN inbox' /\ DOMAIN made' = DOMAIN inbox' /\ DOMAIN pushing' = DOMAIN inbox'
        /\ made'[m] = es /\ \A n \in DOMAIN inbox : n # m => made'[n] = made[n]
    BY <1>1, <1>2, <1>3 DEF MadeInv
  <2>2. pushing'[m] = 0 /\ Len(es) \in Nat
    BY <1>1, <1>2, <1>3 DEF MadeInv, IsSeq
  <2>3. ASSUME NEW n \in DOMAIN inbox
        PROVE  /\ IsSeq(made'[n]) /\ pushing'[n] \in 0..Len(made'[n]) /\ (n \notin arrived' => pushing'[n] = 0)
               /\ \A i \in DOMAIN made'[n] : IsEvent(made'[n][i])
    <3>1. CASE n = m
      BY <1>3, <2>1, <2>2, <3>1
    <3>2. CASE n # m
      BY <1>1, <1>2, <2>1, <3>2 DEF MadeInv
    <3> QED
      BY <3>1, <3>2
  <2> QED
    BY <1>1, <2>1, <2>3 DEF MadeInv
<1>6. PlanInv'
  BY <1>1, <1>2, PlanStep
<1>7. QueueInv'
  BY <1>1, <1>4, <1>5, QueueStays
<1>8. ChansInv'
  BY <1>1 DEF SinkInv, ChansInv, Sinks, Ids
<1>9. HeapInv'
  BY <1>1, <1>4, <1>5, HeapStays
<1>10. OutInv'
  BY <1>1, <1>4, <1>5, OutStays
<1> QED
  BY <1>5, <1>6, <1>7, <1>8, <1>9, <1>10 DEF SinkInv

LEMMA PushInv ==
  ASSUME SinkInv, NEW m \in DOMAIN inbox, Push(m)
  PROVE  SinkInv'
<1>s. PICK s, id : s = inbox[m].from /\ id = <<m, pushing[m] + 1>>
  OBVIOUS
<1>1. /\ plan' = plan /\ inbox' = inbox /\ arrived' = arrived /\ made' = made /\ heap' = heap
      /\ chans' = chans /\ work' = work /\ out' = out /\ m \in arrived /\ pushing[m] < Len(made[m])
      /\ pushing' = [pushing EXCEPT ![m] = @ + 1]
  BY DEF Push
<1>2. MadeInv /\ PlanInv
  BY DEF SinkInv
<1>3. /\ DOMAIN pushing = DOMAIN inbox /\ pushing[m] \in Nat /\ Len(made[m]) \in Nat
      /\ \A n \in DOMAIN inbox : pushing[n] \in Nat /\ pushing'[n] = (IF n = m THEN pushing[m] + 1 ELSE pushing[n])
  <2>1. \A n \in DOMAIN inbox : IsSeq(made[n]) /\ pushing[n] \in 0..Len(made[n])
    BY <1>2 DEF MadeInv
  <2>2. \A n \in DOMAIN inbox : pushing[n] \in Nat /\ Len(made[n]) \in Nat
    BY <2>1, SeqLen
  <2> QED
    BY <1>1, <1>2, <2>2 DEF MadeInv
<1>4. Stays
  BY <1>1, <1>2, <1>3 DEF Stays, MadeInv
<1>5. MadeInv'
  BY <1>1, <1>2, <1>3 DEF MadeInv
<1>6. PlanInv'
  BY <1>1, <1>2, PlanStep
<1>7. s \in Sources
  BY <1>s, <1>2 DEF PlanInv, Sources
<1>8. id \in Ids /\ ~Pushed(id) /\ Pushed(id)'
  <2>1. PICK D, n : D = DOMAIN inbox /\ n = pushing[m] + 1
    OBVIOUS
  <2>2. id = <<m, n>> /\ n \in Nat \ {0} /\ m \in D /\ pushing'[m] = n /\ n \notin 1..pushing[m]
    BY <1>s, <1>3, <2>1
  <2>3. id \in D \X Nat /\ id[1] = m /\ id[2] = n
    BY <2>2
  <2>4. id \in Ids /\ id \in Ids'
    BY <1>1, <2>1, <2>3 DEF Ids
  <2>5. ~Pushed(id)
    BY <2>2, <2>3 DEF Pushed
  <2>6. Pushed(id)'
    BY <1>1, <2>2, <2>3, <2>4 DEF Pushed
  <2> QED
    BY <2>4, <2>5, <2>6
<1>9. /\ queue[s] \in Seq(Ids) /\ Distinct(queue[s]) /\ DOMAIN queue = Sources
      /\ \A x \in Elems(queue[s]) : Pushed(x)
  BY <1>7 DEF SinkInv, QueueInv
<1>10. id \notin DOMAIN heap /\ id \notin Elems(queue[s])
  BY <1>8, <1>9 DEF SinkInv, HeapInv
<1>11. /\ DOMAIN queue' = Sources /\ \A t \in Sources : t # s => queue'[t] = queue[t]
       /\ queue'[s] = queue[s] \/ queue'[s] = Append(queue[s], id)
  BY <1>s, <1>7, <1>9 DEF Push
<1>12. QueueInv'
  <2> DEFINE Fine(t, x) == Pushed(x)' /\ inbox'[x[1]].from = t /\ x \notin DOMAIN heap'
  <2>1. Ids' = Ids
    BY <1>1 DEF Ids
  <2>2. ASSUME NEW t \in Sources, NEW x \in Elems(queue[t])
        PROVE  Fine(t, x)
    <3>1. Pushed(x) /\ inbox[x[1]].from = t /\ x \notin DOMAIN heap
      BY DEF SinkInv, QueueInv
    <3> QED
      BY <1>1, <1>2, <1>4, <1>5, <3>1, PushedStays
  <2>3. CASE queue'[s] = queue[s]
    <3>1. \A t \in Sources : queue'[t] = queue[t]
      BY <1>11, <2>3
    <3> QED
      BY <1>1, <1>11, <2>1, <2>2, <3>1 DEF SinkInv, QueueInv
  <2>4. CASE queue'[s] = Append(queue[s], id)
    <3>1. /\ queue'[s] \in Seq(Ids) /\ Distinct(queue'[s]) /\ Elems(queue'[s]) = Elems(queue[s]) \cup {id}
      BY <1>8, <1>9, <1>10, <2>4, AppendElems
    <3>2. Fine(s, id)
      <4>1. inbox'[id[1]].from = s
        BY <1>1, <1>s
      <4> QED
        BY <1>1, <1>8, <1>10, <4>1
    <3>3. ASSUME NEW t \in Sources
          PROVE  /\ queue'[t] \in Seq(Ids) /\ Distinct(queue'[t])
                 /\ \A x \in Elems(queue'[t]) : Fine(t, x)
      <4> HIDE DEF Fine
      <4>1. CASE t = s
        BY <2>2, <3>1, <3>2, <4>1
      <4>2. CASE t # s
        <5>1. queue'[t] = queue[t] /\ queue[t] \in Seq(Ids) /\ Distinct(queue[t])
          BY <1>11, <4>2 DEF SinkInv, QueueInv
        <5> QED
          BY <2>2, <5>1
      <4> QED
        BY <4>1, <4>2
    <3> QED
      BY <1>11, <2>1, <3>3 DEF QueueInv
  <2> QED
    BY <1>11, <2>3, <2>4
<1>13. ChansInv'
  BY <1>1 DEF SinkInv, ChansInv, Sinks, Ids
<1>14. HeapInv'
  BY <1>1, <1>4, <1>5, HeapStays
<1>15. OutInv'
  BY <1>1, <1>4, <1>5, OutStays
<1> QED
  BY <1>5, <1>6, <1>12, <1>13, <1>14, <1>15 DEF SinkInv

\* A step that moves no event.
LEMMA IdleInv ==
  ASSUME SinkInv, UNCHANGED <<plan, inbox, arrived, made, pushing, queue, heap, chans, work, out>>
  PROVE  SinkInv'
<1>1. MadeInv'
  BY DEF SinkInv, MadeInv
<1>2. Stays
  <2>1. \A m \in DOMAIN inbox : IsSeq(made[m]) /\ pushing[m] \in 0..Len(made[m])
    BY DEF SinkInv, MadeInv
  <2>2. \A m \in DOMAIN inbox : pushing[m] \in Nat
    BY <2>1, SeqLen
  <2> QED
    BY <2>2 DEF Stays, SinkInv, MadeInv
<1>3. PlanInv' /\ ChansInv'
  BY DEF SinkInv, PlanInv, ChansInv, Sinks, Ids
<1>4. QueueInv'
  BY <1>1, <1>2, QueueStays
<1>5. HeapInv'
  BY <1>1, <1>2, HeapStays
<1>6. OutInv'
  BY <1>1, <1>2, OutStays
<1> QED
  BY <1>1, <1>3, <1>4, <1>5, <1>6 DEF SinkInv

\* What is not moved when the messages and the sources' handlers are left alone.
LEMMA SameMessages ==
  ASSUME SinkInv, UNCHANGED <<plan, inbox, arrived, made, pushing>>
  PROVE  /\ MadeInv' /\ Stays /\ PlanInv' /\ Sinks' = Sinks /\ Ids' = Ids
         /\ \A id : Pushed(id)' = Pushed(id) /\ Results(id)' = Results(id)
<1>1. MadeInv' /\ PlanInv'
  BY DEF SinkInv, MadeInv, PlanInv, Sinks
<1>2. Stays
  <2>1. \A m \in DOMAIN inbox : IsSeq(made[m]) /\ pushing[m] \in 0..Len(made[m])
    BY DEF SinkInv, MadeInv
  <2>2. \A m \in DOMAIN inbox : pushing[m] \in Nat
    BY <2>1, SeqLen
  <2> QED
    BY <2>2 DEF Stays, SinkInv, MadeInv
<1>3. Sinks' = Sinks /\ Ids' = Ids
  BY DEF Sinks, Ids
<1>4. \A id : Pushed(id)' = Pushed(id) /\ Results(id)' = Results(id)
  BY <1>3 DEF Pushed, Results, Original
<1> QED
  BY <1>1, <1>2, <1>3, <1>4

\* A pushed event is one of those its message was made into.
LEMMA OriginalEvent ==
  ASSUME SinkInv, NEW id, Pushed(id)
  PROVE  \A o \in Results(id) : o.kind = "event" /\ IsEvent(o.event)
<1>1. id[1] \in DOMAIN inbox /\ id[2] \in 1..pushing[id[1]]
  BY DEF Pushed, SinkInv, MadeInv
<1>2. PICK m, n : m = id[1] /\ n = id[2]
  OBVIOUS
<1>3. IsSeq(made[m]) /\ pushing[m] \in 0..Len(made[m]) /\ \A i \in DOMAIN made[m] : IsEvent(made[m][i])
  BY <1>1, <1>2 DEF SinkInv, MadeInv
<1>4. n \in DOMAIN made[m]
  BY <1>1, <1>2, <1>3, SeqLen
<1>5. PICK e : e = Original(id) /\ IsEvent(e)
  BY <1>2, <1>3, <1>4 DEF Original
<1>6. inbox[m].from \in Sources
  BY <1>1, <1>2 DEF SinkInv, PlanInv, Sources
<1>7. IsSeq(plan.source[inbox[m].from]) /\ IsSeq(plan.pipeline)
  BY <1>6 DEF SinkInv, PlanInv
<1>8. \A o \in applyEventTransformations(plan.source[inbox[m].from], plan.pipeline, e) : IsEvent(o.event)
  BY <1>5, <1>7, ApplyEvents
<1> QED
  BY <1>2, <1>5, <1>8 DEF Results

LEMMA ProcessInv ==
  ASSUME SinkInv, NEW s \in Sources, ProcessEvent(s)
  PROVE  SinkInv'
<1>1. /\ UNCHANGED <<plan, inbox, arrived, made, pushing, work, out>>
      /\ queue[s] # <<>> /\ queue' = [queue EXCEPT ![s] = Tail(@)]
  BY DEF ProcessEvent
<1>2. /\ MadeInv' /\ Stays /\ PlanInv' /\ Sinks' = Sinks /\ Ids' = Ids /\ MadeInv
      /\ \A x : Pushed(x)' = Pushed(x) /\ Results(x)' = Results(x)
  BY <1>1, SameMessages DEF SinkInv
<1>3. /\ DOMAIN queue = Sources
      /\ \A t \in Sources : /\ queue[t] \in Seq(Ids) /\ Distinct(queue[t])
                            /\ \A x \in Elems(queue[t]) : Pushed(x) /\ inbox[x[1]].from = t /\ x \notin DOMAIN heap
  BY DEF SinkInv, QueueInv
<1>4. PICK id : id = Head(queue[s])
  OBVIOUS
<1>5. /\ Tail(queue[s]) \in Seq(Ids) /\ Distinct(Tail(queue[s])) /\ id \in Elems(queue[s])
      /\ Elems(Tail(queue[s])) = Elems(queue[s]) \ {id}
  BY <1>1, <1>3, <1>4, TailElems
<1>6. Pushed(id) /\ inbox[id[1]].from = s /\ id \notin DOMAIN heap /\ id \in Ids
  BY <1>3, <1>5 DEF Pushed
<1>7. DOMAIN queue' = Sources /\ queue'[s] = Tail(queue[s]) /\ \A t \in Sources : t # s => queue'[t] = queue[t]
  BY <1>1, <1>3
<1>8. /\ DOMAIN chans = Sinks /\ DOMAIN work = Sinks
      /\ \A k \in Sinks : /\ chans[k] \in Seq(Ids) /\ Distinct(chans[k]) /\ Elems(chans[k]) \subseteq DOMAIN heap
                          /\ work[k] # <<>> => work[k][1].id \in DOMAIN heap
  BY DEF SinkInv, ChansInv
<1>9. OutInv'
  BY <1>1, <1>2, OutStays
<1>10. ASSUME DOMAIN heap' \subseteq DOMAIN heap \cup {id} PROVE QueueInv'
  <2> DEFINE Fine(t, x) == Pushed(x)' /\ inbox'[x[1]].from = t /\ x \notin DOMAIN heap'
  <2>1. ASSUME NEW t \in Sources, NEW x \in Elems(queue[t]), x # id PROVE Fine(t, x)
    <3>1. Pushed(x) /\ inbox[x[1]].from = t /\ x \notin DOMAIN heap
      BY <1>3
    <3> QED
      BY <1>1, <1>2, <1>10, <2>1, <3>1
  <2>2. ASSUME NEW t \in Sources
        PROVE  queue'[t] \in Seq(Ids) /\ Distinct(queue'[t]) /\ \A x \in Elems(queue'[t]) : Fine(t, x)
    <3> HIDE DEF Fine
    <3>1. CASE t = s
      BY <1>5, <1>7, <2>1, <3>1
    <3>2. CASE t # s
      <4>1. id \notin Elems(queue[t])
        BY <1>3, <1>6, <3>2
      <4>2. queue'[t] = queue[t]
        BY <1>7, <3>2
      <4> QED
        BY <1>3, <2>1, <4>1, <4>2
    <3> QED
      BY <3>1, <3>2
  <2> QED
    BY <1>2, <1>7, <2>2 DEF QueueInv
<1>11. CASE UNCHANGED <<heap, chans>>
  <2>1. QueueInv'
    BY <1>10, <1>11
  <2>2. ChansInv'
    BY <1>1, <1>2, <1>8, <1>11 DEF ChansInv
  <2>3. HeapInv'
    BY <1>1, <1>2, <1>11, HeapStays
  <2> QED
    BY <1>2, <1>9, <2>1, <2>2, <2>3 DEF SinkInv
<1>12. CASE ~UNCHANGED <<heap, chans>>
  <2>1. PICK o \in Results(id) :
          /\ heap' = [x \in DOMAIN heap \cup {id} |-> IF x = id THEN o.event ELSE heap[x]]
          /\ chans' = [k \in Sinks |-> IF Len(chans[k]) < SinkCap THEN Append(chans[k], id) ELSE chans[k]]
    BY <1>4, <1>6, <1>12 DEF ProcessEvent, Results
  <2>2. DOMAIN heap' = DOMAIN heap \cup {id} /\ heap'[id] = o.event /\ \A x \in DOMAIN heap : heap'[x] = heap[x]
    BY <1>6, <2>1
  <2>3. QueueInv'
    BY <1>10, <2>2
  <2>4. DOMAIN chans' = Sinks /\ \A k \in Sinks : chans'[k] = chans[k] \/ chans'[k] = Append(chans[k], id)
    BY <2>1
  <2>5. ASSUME NEW k \in Sinks
        PROVE  chans'[k] \in Seq(Ids) /\ Distinct(chans'[k]) /\ Elems(chans'[k]) \subseteq Elems(chans[k]) \cup {id}
    <3>1. chans[k] \in Seq(Ids) /\ Distinct(chans[k]) /\ id \notin Elems(chans[k])
      BY <1>6, <1>8
    <3>2. CASE chans'[k] = chans[k]
      BY <3>1, <3>2
    <3>3. CASE chans'[k] = Append(chans[k], id)
      BY <1>6, <3>1, <3>3, AppendElems
    <3> QED
      BY <2>4, <3>2, <3>3
  <2>6. ChansInv'
    <3>1. ASSUME NEW k \in Sinks
          PROVE  /\ chans'[k] \in Seq(Ids) /\ Distinct(chans'[k]) /\ Elems(chans'[k]) \subseteq DOMAIN heap'
                 /\ work'[k] # <<>> => work'[k][1].id \in DOMAIN heap'
      BY <1>1, <1>8, <2>2, <2>5
    <3>2. DOMAIN chans' = Sinks /\ DOMAIN work' = Sinks
      BY <1>1, <1>8, <2>4
    <3> QED
      BY <1>2, <3>1, <3>2 DEF ChansInv
  <2>7. Tracked(id, o)'
    <3>1. o.kind = "event" /\ IsEvent(o.event)
      BY <1>6, OriginalEvent
    <3>2. Twin(heap[id], o.event)'
      BY <2>2, <3>1, TwinRefl
    <3>3. \A k \in Sinks : Waits(k, id, o)'
      BY <2>2 DEF Waits
    <3>4. \A k \in Sinks : ~Holds(k, id)'
      BY <1>1, <1>6, <1>8 DEF Holds
    <3>5. \A k \in Sinks : Works(k, id, o)'
      BY <3>4 DEF Works
    <3> QED
      BY <1>2, <3>2, <3>3, <3>5 DEF Tracked
  <2>8. ASSUME NEW x \in DOMAIN heap' PROVE Pushed(x)' /\ \E r \in Results(x)' : Tracked(x, r)'
    <3>1. CASE x = id
      BY <1>2, <1>6, <2>7, <3>1
    <3>2. CASE x # id
      <4>1. x \in DOMAIN heap /\ heap'[x] = heap[x]
        BY <2>2, <3>2
      <4>2. PICK r \in Results(x) : Pushed(x) /\ Tracked(x, r)
        BY <4>1 DEF SinkInv, HeapInv
      <4>3. \A k \in Sinks : /\ x \in Elems(chans'[k]) => x \in Elems(chans[k])
                             /\ Holds(k, x)' => work'[k] = work[k]
        BY <1>1, <2>5, <3>2
      <4>4. Tracked(x, r)'
        BY <1>1, <4>1, <4>2, <4>3, TrackedStays
      <4> QED
        BY <1>2, <4>2, <4>4
    <3> QED
      BY <3>1, <3>2
  <2>9. HeapInv'
    BY <2>8 DEF HeapInv
  <2> QED
    BY <1>2, <1>9, <2>3, <2>6, <2>9 DEF SinkInv
<1> QED
  BY <1>11, <1>12

\* What a worker's chain makes of the shared fields and of its copy.
LEMMA TransformInv ==
  ASSUME SinkInv, NEW k \in Sinks, Transform(k)
  PROVE  SinkInv'
<1>1. /\ UNCHANGED <<plan, inbox, arrived, made, pushing, queue, out>>
      /\ work[k] = <<>> /\ chans[k] # <<>> /\ chans' = [chans EXCEPT ![k] = Tail(@)]
  BY DEF Transform
<1>2. /\ MadeInv' /\ Stays /\ PlanInv' /\ Sinks' = Sinks /\ Ids' = Ids /\ MadeInv
      /\ \A x : Pushed(x)' = Pushed(x) /\ Results(x)' = Results(x)
  BY <1>1, SameMessages DEF SinkInv
<1>3. /\ DOMAIN chans = Sinks /\ DOMAIN work = Sinks
      /\ \A j \in Sinks : /\ chans[j] \in Seq(Ids) /\ Distinct(chans[j]) /\ Elems(chans[j]) \subseteq DOMAIN heap
                          /\ work[j] # <<>> => work[j][1].id \in DOMAIN heap
  BY DEF SinkInv, ChansInv
<1>4. PICK id : id = Head(chans[k])
  OBVIOUS
<1>5. /\ Tail(chans[k]) \in Seq(Ids) /\ Distinct(Tail(chans[k])) /\ id \in Elems(chans[k])
      /\ Elems(Tail(chans[k])) = Elems(chans[k]) \ {id} /\ id \in DOMAIN heap
  BY <1>1, <1>3, <1>4, TailElems
<1>6. PICK chain : chain = plan.sinks[k].chain /\ IsSeq(chain)
  BY DEF SinkInv, PlanInv
<1>7. PICK r \in Results(id) : Pushed(id) /\ Tracked(id, r)
  BY <1>5 DEF SinkInv, HeapInv
<1>8. r.kind = "event" /\ IsEvent(r.event) /\ Twin(heap[id], r.event) /\ IsEvent(heap[id])
  BY <1>7, OriginalEvent DEF Tracked, Twin
<1>9. PICK o \in Chain(chain, heap[id]) :
        /\ heap' = [heap EXCEPT ![id].fields = o.event.fields]
        /\ work' = [work EXCEPT ![k] = IF o.kind = "event" THEN <<[id |-> id, event |-> o.event]>> ELSE <<>>]
  BY <1>4, <1>6 DEF Transform
<1>10. PICK f, h : f = o.event.fields /\ h = heap[id] /\ IsEvent(h)
  BY <1>8
<1>11. heap'[id] = SetFields(h, f)
  BY <1>5, <1>9, <1>10 DEF SetFields
<1>12. DOMAIN heap' = DOMAIN heap /\ \A x \in DOMAIN heap : x # id => heap'[x] = heap[x]
  BY <1>9
<1>13. SetFields(h, f) = Rec(h.schema, h.table, h.op, h.before, h.after, f)
  BY <1>10, RecSetFields
<1>14. heap'[id].fields = f /\ Twin(heap'[id], h)
  <2>1. PICK g : g = heap'[id]
    OBVIOUS
  <2>2. g = Rec(h.schema, h.table, h.op, h.before, h.after, f)
    BY <1>11, <1>13, <2>1
  <2> QED
    BY <1>10, <2>1, <2>2, RecFields DEF Twin
<1>15. IsEvent(o.event)
  BY <1>6, <1>8, ChainEvents
<1>16. /\ DOMAIN chans' = Sinks /\ chans'[k] = Tail(chans[k]) /\ \A j \in Sinks : j # k => chans'[j] = chans[j]
       /\ DOMAIN work' = Sinks /\ \A j \in Sinks : j # k => work'[j] = work[j]
  BY <1>1, <1>3, <1>9
<1>17. \/ o.kind = "event" /\ work'[k] = <<[id |-> id, event |-> o.event]>>
       \/ o.kind # "event" /\ work'[k] = <<>>
  BY <1>3, <1>9
<1>18. Holds(k, id)' => o.kind = "event" /\ work'[k][1].event = o.event
  BY <1>17 DEF Holds
<1>19. \A x : x # id => ~Holds(k, x)'
  BY <1>17 DEF Holds
<1>20. \A j \in Sinks : OnlyItself(j)' = OnlyItself(j)
  BY <1>1, <1>2 DEF OnlyItself
<1>21. QueueInv'
  BY <1>1, <1>2, <1>12, QueueStays
<1>22. ChansInv'
  <2>1. ASSUME NEW j \in Sinks
        PROVE  /\ chans'[j] \in Seq(Ids) /\ Distinct(chans'[j]) /\ Elems(chans'[j]) \subseteq DOMAIN heap'
               /\ work'[j] # <<>> => work'[j][1].id \in DOMAIN heap'
    <3>1. CASE j = k
      <4>1. work'[k] # <<>> => work'[k][1].id = id
        BY <1>17
      <4> QED
        BY <1>3, <1>5, <1>12, <1>16, <3>1, <4>1
    <3>2. CASE j # k
      BY <1>3, <1>12, <1>16, <3>2
    <3> QED
      BY <3>1, <3>2
  <2> QED
    BY <1>2, <1>16, <2>1 DEF ChansInv
<1>23. OutInv'
  BY <1>1, <1>2, OutStays
<1>24. Tracked(id, r)'
  <2>1. Twin(heap[id], r.event)'
    BY <1>8, <1>10, <1>14 DEF Twin
  <2>2. \A j \in Sinks : Waits(j, id, r) /\ Works(j, id, r)
    BY <1>7 DEF Tracked
  <2>3. ASSUME NEW j \in Sinks, j # k, OnlyItself(j) PROVE f = h.fields
    <3>1. ~RenamesColumns(chain)
      BY <1>6, <2>3 DEF OnlyItself
    <3> QED
      BY <1>6, <1>8, <1>10, <3>1, ChainKeeps
  <2>4. ASSUME NEW j \in Sinks PROVE Waits(j, id, r)'
    <3>1. CASE j = k
      <4>1. id \notin Elems(chans'[k])
        BY <1>5, <1>16
      <4> QED
        BY <3>1, <4>1 DEF Waits
    <3>2. CASE j # k
      <4>1. chans'[j] = chans[j]
        BY <1>16, <3>2
      <4> QED
        BY <1>10, <1>14, <1>20, <2>2, <2>3, <3>2, <4>1 DEF Waits
    <3> QED
      BY <3>1, <3>2
  <2>5. Works(k, id, r)'
    <3>1. SUFFICES ASSUME Holds(k, id)'
                   PROVE  \E p \in Chain(chain, r.event) :
                            /\ p.kind = "event" /\ Twin(p.event, work'[k][1].event)
                            /\ OnlyItself(k) => p.event.fields = heap'[id].fields
      BY <1>1, <1>6, <1>20 DEF Works
    <3>2. o.kind = "event" /\ work'[k][1].event = o.event
      BY <1>18, <3>1
    <3>3. CASE OnlyItself(k)
      <4>1. heap[id].fields = r.event.fields
        BY <1>5, <2>2, <3>3 DEF Waits
      <4>2. heap[id] = r.event
        BY <1>8, <4>1, EventIsRec DEF Twin
      <4>3. o \in Chain(chain, r.event) /\ Twin(o.event, o.event)
        BY <1>15, <4>2, TwinRefl
      <4> QED
        BY <1>10, <1>14, <3>2, <4>3
    <3>4. CASE ~OnlyItself(k)
      <4>1. Twin(r.event, heap[id])
        BY <1>8 DEF Twin
      <4>2. \E p \in Chain(chain, r.event) : Alike(p, o)
        BY <1>6, <4>1, ChainAlike
      <4> QED
        BY <3>2, <3>4, <4>2 DEF Alike
    <3> QED
      BY <3>3, <3>4
  <2>6. ASSUME NEW j \in Sinks, j # k PROVE Works(j, id, r)'
    <3>1. work'[j] = work[j] /\ plan' = plan /\ Works(j, id, r)
      BY <1>1, <1>16, <2>2, <2>6
    <3>2. OnlyItself(j) => heap'[id].fields = heap[id].fields
      BY <1>10, <1>14, <2>3, <2>6
    <3>3. OnlyItself(j)' = OnlyItself(j)
      BY <1>20
    <3>4. Holds(j, id)' = Holds(j, id)
      BY <3>1 DEF Holds
    <3> QED
      BY <3>1, <3>2, <3>3, <3>4 DEF Works
  <2> QED
    BY <1>2, <2>1, <2>4, <2>5, <2>6 DEF Tracked
<1>25. ASSUME NEW x \in DOMAIN heap' PROVE Pushed(x)' /\ \E q \in Results(x)' : Tracked(x, q)'
  <2>1. CASE x = id
    BY <1>2, <1>7, <1>24, <2>1
  <2>2. CASE x # id
    <3>1. x \in DOMAIN heap /\ heap'[x] = heap[x]
      BY <1>12, <2>2
    <3>2. PICK q \in Results(x) : Pushed(x) /\ Tracked(x, q)
      BY <3>1 DEF SinkInv, HeapInv
    <3>3. ASSUME NEW j \in Sinks
          PROVE  /\ x \in Elems(chans'[j]) => x \in Elems(chans[j])
                 /\ Holds(j, x)' => work'[j] = work[j]
      <4>1. CASE j = k
        BY <1>5, <1>16, <1>19, <2>2, <4>1
      <4>2. CASE j # k
        BY <1>16, <4>2
      <4> QED
        BY <4>1, <4>2
    <3>4. Tracked(x, q)'
      BY <1>1, <3>1, <3>2, <3>3, TrackedStays
    <3> QED
      BY <1>2, <3>2, <3>4
  <2> QED
    BY <2>1, <2>2
<1>26. HeapInv'
  BY <1>25 DEF HeapInv
<1> QED
  BY <1>2, <1>21, <1>22, <1>23, <1>26 DEF SinkInv

\* A worker's copy, as Pub gets it, is what the sink's own chain made.
LEMMA PublishOwn ==
  ASSUME SinkInv, NEW k \in Sinks, work[k] # <<>>, NEW p, p.id = work[k][1].id, p.event = ToPublish(k)
  PROVE  Pushed(p.id) /\ Own(k, p) /\ IsEvent(p.event)
<1>1. PICK id, e, h : id = work[k][1].id /\ e = work[k][1].event /\ h = heap[id]
  OBVIOUS
<1>2. id \in DOMAIN heap /\ Pushed(id) /\ Holds(k, id)
  BY <1>1 DEF SinkInv, ChansInv, HeapInv, Holds
<1>3. PICK r \in Results(id) : Tracked(id, r)
  BY <1>2 DEF SinkInv, HeapInv
<1>4. PICK o \in Chain(plan.sinks[k].chain, r.event) :
        o.kind = "event" /\ Twin(o.event, e) /\ (OnlyItself(k) => o.event.fields = h.fields)
  BY <1>1, <1>2, <1>3 DEF Tracked, Works
<1>5. r.kind = "event"
  BY <1>2, <1>3, OriginalEvent
<1>6. o \in Alone(k, id)
  BY <1>3, <1>4, <1>5 DEF Alone, Results
<1>7. PICK x, f : x = o.event /\ f = h.fields
  OBVIOUS
<1>8. /\ IsEvent(x) /\ IsEvent(e) /\ x.schema = e.schema /\ x.table = e.table /\ x.op = e.op
      /\ x.before = e.before /\ x.after = e.after
  BY <1>4, <1>7 DEF Twin
<1>9. p.event = SetFields(e, f)
  BY <1>1, <1>7 DEF ToPublish, SetFields
<1>10. SetFields(e, f) = Rec(e.schema, e.table, e.op, e.before, e.after, f)
  BY <1>8, RecSetFields
<1>11. SetFields(x, f) = Rec(x.schema, x.table, x.op, x.before, x.after, f)
  BY <1>8, RecSetFields
<1>12. SetFields(x, f) = p.event
  BY <1>8, <1>9, <1>10, <1>11
<1>13. p.event.fields = f /\ IsEvent(p.event)
  BY <1>9, <1>10, RecFields
<1>14. [o.event EXCEPT !.fields = p.event.fields] = p.event
  BY <1>7, <1>12, <1>13 DEF SetFields
<1>15. OnlyItself(k) => o.event.fields = p.event.fields
  BY <1>4, <1>7, <1>13
<1>16. o \in Alone(k, p.id)
  BY <1>1, <1>6
<1>17. Own(k, p)
  BY <1>4, <1>14, <1>15, <1>16 DEF Own
<1> QED
  BY <1>1, <1>2, <1>13, <1>17

LEMMA PublishedInv ==
  ASSUME SinkInv, NEW k \in Sinks, NEW ok, work[k] # <<>>, Published(k, ok),
         UNCHANGED <<plan, inbox, arrived, made, pushing, queue, heap, chans>>
  PROVE  SinkInv'
<1>1. PICK p : p = [id |-> work[k][1].id, event |-> ToPublish(k), ok |-> ok]
  OBVIOUS
<1>2. out' = [out EXCEPT ![k] = Append(@, p)] /\ work' = [work EXCEPT ![k] = <<>>]
  BY <1>1 DEF Published
<1>3. p.id = work[k][1].id /\ p.event = ToPublish(k)
  BY <1>1
<1>4. Pushed(p.id) /\ Own(k, p)
  BY <1>3, PublishOwn
<1>5. /\ MadeInv' /\ Stays /\ PlanInv' /\ Sinks' = Sinks /\ Ids' = Ids /\ MadeInv
      /\ \A x : Pushed(x)' = Pushed(x) /\ Results(x)' = Results(x)
  BY SameMessages DEF SinkInv
<1>6. /\ DOMAIN work = Sinks /\ DOMAIN out = Sinks /\ DOMAIN work' = Sinks /\ DOMAIN out' = Sinks
      /\ work'[k] = <<>> /\ \A j \in Sinks : j # k => work'[j] = work[j]
      /\ out'[k] = Append(out[k], p) /\ \A j \in Sinks : j # k => out'[j] = out[j]
  BY <1>2 DEF SinkInv, ChansInv, OutInv
<1>7. QueueInv'
  BY <1>5, QueueStays
<1>8. ChansInv'
  BY <1>5, <1>6 DEF SinkInv, ChansInv
<1>9. HeapInv'
  BY <1>5, <1>6, HeapStays
<1>10. OutInv'
  <2>1. ASSUME NEW j \in Sinks, NEW q, Pushed(q.id), Own(j, q) PROVE Pushed(q.id)' /\ Own(j, q)'
    <3>1. Pushed(q.id)' /\ Alone(j, q.id)' = Alone(j, q.id)
      BY <1>5, <2>1, PushedStays
    <3> QED
      BY <2>1, <3>1, OwnStays
  <2>2. /\ IsSeq(out[k]) /\ DOMAIN out'[k] = 1..(Len(out[k]) + 1) /\ DOMAIN out[k] = 1..Len(out[k])
        /\ IsSeq(out'[k]) /\ out'[k][Len(out[k]) + 1] = p /\ \A i \in DOMAIN out[k] : out'[k][i] = out[k][i]
        /\ Len(out[k]) \in Nat
    BY <1>6, AppendAny, SeqLen DEF SinkInv, OutInv
  <2>3. \A j \in Sinks : \A i \in DOMAIN out[j] : Pushed(out[j][i].id) /\ Own(j, out[j][i])
    BY DEF SinkInv, OutInv
  <2>4. ASSUME NEW i \in DOMAIN out'[k] PROVE \E q : q = out'[k][i] /\ Pushed(q.id) /\ Own(k, q)
    <3>1. CASE i = Len(out[k]) + 1
      BY <1>4, <2>2, <3>1
    <3>2. CASE i # Len(out[k]) + 1
      <4>1. i \in DOMAIN out[k]
        BY <2>2, <3>2
      <4> QED
        BY <2>2, <2>3, <4>1
    <3> QED
      BY <3>1, <3>2
  <2>5. ASSUME NEW j \in Sinks, NEW i \in DOMAIN out'[j] PROVE \E q : q = out'[j][i] /\ Pushed(q.id) /\ Own(j, q)
    <3>1. CASE j = k
      BY <2>4, <3>1
    <3>2. CASE j # k
      BY <1>6, <2>3, <3>2
    <3> QED
      BY <3>1, <3>2
  <2>6. ASSUME NEW j \in Sinks, NEW i \in DOMAIN out'[j] PROVE Pushed(out[j][i].id)' /\ Own(j, out[j][i])'
    <3>1. PICK q : q = out'[j][i] /\ Pushed(q.id) /\ Own(j, q)
      BY <2>5
    <3>2. Pushed(q.id)' /\ Own(j, q)'
      BY <2>1, <3>1
    <3> QED
      BY <3>1, <3>2
  <2>7. \A j \in Sinks : IsSeq(out'[j])
    BY <1>6, <2>2 DEF SinkInv, OutInv
  <2> QED
    BY <1>5, <1>6, <2>6, <2>7 DEF OutInv
<1> QED
  BY <1>5, <1>7, <1>8, <1>9, <1>10 DEF SinkInv

LEMMA SinkStep ==
  ASSUME SinkInv, [SinkNext]_sinkVars
  PROVE  SinkInv'
<1>1. CASE UNCHANGED sinkVars
  BY <1>1, IdleInv DEF sinkVars
<1>2. ASSUME NEW m \in DOMAIN inbox, Arrive(m) PROVE SinkInv'
  BY <1>2, ArriveInv
<1>3. ASSUME NEW m \in DOMAIN inbox, Push(m) PROVE SinkInv'
  BY <1>3, PushInv
<1>4. ASSUME NEW s \in Sources, ProcessEvent(s) PROVE SinkInv'
  BY <1>4, ProcessInv
<1>5. ASSUME NEW k \in Sinks, Transform(k) PROVE SinkInv'
  BY <1>5, TransformInv
<1>6. ASSUME NEW k \in Sinks, PubElsewhere(k) PROVE SinkInv'
  <2>1. /\ work[k] # <<>> /\ Published(k, TRUE)
        /\ UNCHANGED <<plan, inbox, arrived, made, pushing, queue, heap, chans>>
    BY <1>6 DEF PubElsewhere
  <2> QED
    BY <2>1, PublishedInv
<1>7. ASSUME NEW k \in Sinks, PubPG(k) PROVE SinkInv'
  <2>1. work[k] # <<>> /\ UNCHANGED <<plan, inbox, arrived, made, pushing, queue, heap, chans>>
    BY <1>7 DEF PubPG
  <2>2. CASE UNCHANGED <<out, work>>
    BY <2>1, <2>2, IdleInv
  <2>3. CASE ~UNCHANGED <<out, work>>
    <3>1. \E ok : Published(k, ok)
      BY <1>7, <2>3 DEF PubPG
    <3> QED
      BY <2>1, <3>1, PublishedInv
  <2> QED
    BY <2>2, <2>3
<1>8. ASSUME NEW k \in Sinks, PubFails(k) PROVE SinkInv'
  <2>1. /\ work[k] # <<>> /\ Published(k, FALSE)
        /\ UNCHANGED <<plan, inbox, arrived, made, pushing, queue, heap, chans>>
    BY <1>8 DEF PubFails
  <2> QED
    BY <2>1, PublishedInv
<1>9. CASE TablesArrive
  BY <1>9, IdleInv DEF TablesArrive
<1> QED
  BY <1>1, <1>2, <1>3, <1>4, <1>5, <1>6, <1>7, <1>8, <1>9 DEF SinkNext

\* What the invariant says of the calls of Pub.
LEMMA InvOwnChain == SinkInv => EachSinkItsOwnChain
<1> SUFFICES ASSUME SinkInv, NEW k \in Sinks, NEW i \in DOMAIN out[k] PROVE Own(k, out[k][i])
  BY DEF EachSinkItsOwnChain, Own, OnlyItself
<1> QED
  BY DEF SinkInv, OutInv

\* What one sink's transformations do to an event never shows in what another
\* sink is given, for every pipeline, every chain and every message
\* (process.go, processSinkEvents; transform/replace.go:103).
THEOREM OwnChains == SinkSpec => []EachSinkItsOwnChain
<1>1. SinkSpec => []SinkInv
  BY SinkInitInv, SinkStep, PTL DEF SinkSpec
<1> QED
  BY <1>1, InvOwnChain, PTL

-----------------------------------------------------------------------------
(* The rows of the PostgreSQL sink.                                        *)

Good(os) == {i \in DOMAIN os : os[i].ok /\ os[i].event.op \in {"c", "u"}}
Shows(e, r) == KeyAfter(e) = KeyOf(r) /\ \A c \in DOMAIN e.after.map : r[c] = e.after.map[c]
Apart(e, r) == KeyAfter(e) # KeyOf(r) /\ KeyOf(r) \notin KeyBefore(e)

\* What RowsAreLastImages says of rows and of the calls of Pub they come from.
Explained(os, rs) ==
  (\A i \in Good(os) : WholeKey(os[i].event)) =>
    \A r \in rs : \E i \in Good(os) : Shows(os[i].event, r) /\ \A j \in Good(os) : j > i => Apart(os[j].event, r)

IsRow(r) == r = [c \in DOMAIN Table.columns |-> r[c]]
Writes(k) == k \in Sinks /\ plan.sinks[k].kind = "pg"
RowsInv == Valid(rows) /\ (\A r \in rows : IsRow(r)) /\ \A k \in Sinks : Writes(k) => Explained(out[k], rows)

LEMMA RowsAre == RowsAreLastImages <=> \A k \in Sinks : Writes(k) => Explained(out[k], rows)
BY DEF RowsAreLastImages, Explained, Writes, Good, Shows, Apart

\* A call that writes nothing, and one that does.
LEMMA ExplainedRefused ==
  ASSUME NEW os, IsSeq(os), NEW rs, Explained(os, rs), NEW p, ~(p.ok /\ p.event.op \in {"c", "u"})
  PROVE  Explained(Append(os, p), rs)
<1>1. PICK qs, n : qs = Append(os, p) /\ n = Len(os)
  OBVIOUS
<1>2. /\ n \in Nat /\ DOMAIN os = 1..n /\ DOMAIN qs = 1..(n + 1) /\ qs[n + 1] = p
      /\ \A i \in DOMAIN os : qs[i] = os[i]
  BY <1>1, AppendAny, SeqLen
<1>3. \A i \in DOMAIN qs : i \in DOMAIN os \/ i = n + 1
  BY <1>2
<1>4. Good(qs) = Good(os) /\ \A i \in Good(os) : qs[i] = os[i]
  BY <1>2, <1>3 DEF Good
<1>5. Explained(qs, rs)
  BY <1>4 DEF Explained
<1> QED
  BY <1>1, <1>5

LEMMA ExplainedWritten ==
  ASSUME NEW os, IsSeq(os), NEW rs, Explained(os, rs), NEW p, p.ok, p.event.op \in {"c", "u"}, NEW new,
         WholeKey(p.event) => \A r \in new : Shows(p.event, r) \/ (r \in rs /\ Apart(p.event, r))
  PROVE  Explained(Append(os, p), new)
<1>1. PICK qs, n : qs = Append(os, p) /\ n = Len(os)
  OBVIOUS
<1>2. /\ n \in Nat /\ DOMAIN os = 1..n /\ DOMAIN qs = 1..(n + 1) /\ qs[n + 1] = p
      /\ \A i \in DOMAIN os : qs[i] = os[i]
  BY <1>1, AppendAny, SeqLen
<1>3. \A i \in DOMAIN qs : i \in DOMAIN os \/ i = n + 1
  BY <1>2
<1>4. Good(qs) = Good(os) \cup {n + 1} /\ \A i \in Good(os) : qs[i] = os[i] /\ i \in 1..n
  BY <1>2, <1>3 DEF Good
<1>5. SUFFICES ASSUME \A i \in Good(qs) : WholeKey(qs[i].event), NEW r \in new
               PROVE  \E i \in Good(qs) : /\ Shows(qs[i].event, r)
                                          /\ \A j \in Good(qs) : j > i => Apart(qs[j].event, r)
  BY <1>1 DEF Explained
<1>6. WholeKey(p.event) /\ \A i \in Good(os) : WholeKey(os[i].event)
  BY <1>2, <1>4, <1>5
<1>7. CASE Shows(p.event, r)
  <2>1. \A j \in Good(qs) : ~(j > n + 1)
    BY <1>2, <1>4
  <2> QED
    BY <1>2, <1>4, <1>7, <2>1
<1>8. CASE r \in rs /\ Apart(p.event, r)
  <2>1. PICK i \in Good(os) : Shows(os[i].event, r) /\ \A j \in Good(os) : j > i => Apart(os[j].event, r)
    BY <1>6, <1>8 DEF Explained
  <2>2. i \in Good(qs) /\ Shows(qs[i].event, r)
    BY <1>4, <2>1
  <2>3. ASSUME NEW j \in Good(qs), j > i PROVE Apart(qs[j].event, r)
    <3>1. CASE j = n + 1
      BY <1>2, <1>8, <3>1
    <3>2. CASE j # n + 1
      BY <1>4, <2>1, <2>3, <3>2
    <3> QED
      BY <3>1, <3>2
  <2> QED
    BY <2>2, <2>3
<1> QED
  BY <1>5, <1>6, <1>7, <1>8

\* Keys, column by column.
LEMMA KeyEqual ==
  \A f, g : KeyOf(f) = KeyOf(g) <=> \A c \in Table.pkeys : f[c] = g[c]
<1> SUFFICES ASSUME NEW f, NEW g PROVE KeyOf(f) = KeyOf(g) <=> \A c \in Table.pkeys : f[c] = g[c]
  OBVIOUS
<1>1. KeyOf(f) = [c \in Table.pkeys |-> f[c]] /\ KeyOf(g) = [c \in Table.pkeys |-> g[c]]
  BY DEF KeyOf, Restrict
<1>2. ASSUME KeyOf(f) = KeyOf(g), NEW c \in Table.pkeys PROVE f[c] = g[c]
  <2>1. KeyOf(f)[c] = f[c] /\ KeyOf(g)[c] = g[c]
    BY <1>1
  <2> QED
    BY <1>2, <2>1
<1>3. ASSUME \A c \in Table.pkeys : f[c] = g[c] PROVE KeyOf(f) = KeyOf(g)
  BY <1>1, <1>3
<1> QED
  BY <1>2, <1>3

KeyFrom(e, r, c) ==
  \/ c \in DOMAIN e.after.map /\ r[c] = e.after.map[c]
  \/ c \notin DOMAIN e.after.map /\ r[c] = e.before.map[c]

LEMMA KeyAfterIs ==
  ASSUME NEW e, NEW r, \A c \in Table.pkeys : KeyFrom(e, r, c)
  PROVE  KeyAfter(e) = KeyOf(r)
<1>1. KeyOf(r) = [c \in Table.pkeys |-> r[c]]
  BY DEF KeyOf, Restrict
<1>2. KeyAfter(e) = [c \in Table.pkeys |-> IF c \in DOMAIN e.after.map THEN e.after.map[c] ELSE e.before.map[c]]
  BY DEF KeyAfter
<1>3. \A c \in Table.pkeys : r[c] = IF c \in DOMAIN e.after.map THEN e.after.map[c] ELSE e.before.map[c]
  BY DEF KeyFrom
<1> QED
  BY <1>1, <1>2, <1>3

\* An INSERT: a new row, of a key that no other row has.
LEMMA Inserted ==
  ASSUME NEW rs, Valid(rs), \A r \in rs : IsRow(r), NEW e, e.op = "c", NEW x \in InsertRow(rs, e.after)
  PROVE  /\ Valid(x) /\ (\A r \in x : IsRow(r))
         /\ \A r \in x : Shows(e, r) \/ (r \in rs /\ Apart(e, r))
<1>1. PICK data, map : data = e.after /\ map = data.map
  OBVIOUS
<1>2. PICK new : new = [c \in DOMAIN Table.columns |-> IF c \in DOMAIN map THEN map[c] ELSE Null]
  OBVIOUS
<1>3. x = rs \cup {new} /\ Fits(map) /\ Valid({new}) /\ \A r \in rs : KeyOf(r) # KeyOf(new)
  BY <1>1, <1>2 DEF InsertRow
<1>4. IsRow(new) /\ \A c \in DOMAIN Table.columns : c \in DOMAIN map => new[c] = map[c]
  BY <1>2 DEF IsRow
<1>5. \A c \in DOMAIN map : new[c] = map[c]
  BY <1>3, <1>4 DEF Fits
<1>6. \A c \in Table.pkeys : c \in DOMAIN map
  <2> SUFFICES ASSUME NEW c \in Table.pkeys, c \notin DOMAIN map PROVE FALSE
    OBVIOUS
  <2>1. c \in DOMAIN Table.columns
    BY SinkAssumption
  <2>2. new[c] = Null
    BY <1>2, <2>1
  <2>3. Null.type = "null"
    BY DEF Null, Typed
  <2>4. new[c].type # "null"
    BY <1>3 DEF Valid
  <2> QED
    BY <2>2, <2>3, <2>4
<1>7. KeyAfter(e) = KeyOf(new)
  <2>1. \A c \in Table.pkeys : KeyFrom(e, new, c)
    BY <1>1, <1>5, <1>6 DEF KeyFrom
  <2> QED
    BY <2>1, KeyAfterIs
<1>8. Shows(e, new)
  BY <1>1, <1>5, <1>7 DEF Shows
<1>9. \A r \in rs : Apart(e, r)
  BY <1>3, <1>7 DEF Apart, KeyBefore
<1>10. Valid(x)
  BY <1>3 DEF Valid
<1> QED
  BY <1>3, <1>4, <1>8, <1>9, <1>10

\* An UPDATE whose WHERE has the whole key: one row, which may get another key.
LEMMA Updated ==
  ASSUME NEW rs, Valid(rs), \A r \in rs : IsRow(r), NEW e, e.op = "u",
         NEW x \in UpdateRow(rs, e.after, Where(e.before))
  PROVE  /\ Valid(x) /\ (\A r \in x : IsRow(r))
         /\ WholeKey(e) => \A r \in x : Shows(e, r) \/ (r \in rs /\ Apart(e, r))
<1>1. PICK map, old, where : map = e.after.map /\ old = e.before.map /\ where = Where(e.before)
  OBVIOUS
<1> DEFINE new(r) == [c \in DOMAIN r |-> IF c \in DOMAIN e.after.map THEN e.after.map[c] ELSE r[c]]
           hit == {r \in rs : \A c \in DOMAIN Where(e.before) : r[c] = Where(e.before)[c]}
           written == (rs \ hit) \cup {new(r) : r \in hit}
<1>2. Fits(e.after.map) /\ hit # {} /\ Valid(written) /\ x \in {written}
  <2> DEFINE bad == \/ e.after.kind # "map" \/ Where(e.before) = <<>> \/ e.after.map = <<>> \/ ~Fits(e.after.map)
                    \/ ~Fits(Where(e.before)) \/ hit = {} \/ Cardinality(written) # Cardinality(rs) \/ ~Valid(written)
  <2>1. UpdateRow(rs, e.after, Where(e.before)) = IF bad THEN {} ELSE {written}
    BY DEF UpdateRow
  <2> HIDE DEF written, hit
  <2>2. ~bad
    BY <2>1
  <2>3. UpdateRow(rs, e.after, Where(e.before)) = {written}
    <3> HIDE DEF bad
    <3> QED
      BY <2>1, <2>2
  <2> QED
    BY <2>2, <2>3
<1>3. x = (rs \ hit) \cup {new(r) : r \in hit} /\ Fits(map) /\ Valid(x)
  <2>1. x = written
    <3> HIDE DEF written
    <3> QED
      BY <1>2
  <2>2. Valid(x)
    <3> HIDE DEF written
    <3> QED
      BY <1>2, <2>1
  <2>3. x = (rs \ hit) \cup {new(r) : r \in hit}
    BY <2>1
  <2> HIDE DEF hit, new
  <2> QED
    BY <1>1, <1>2, <2>2, <2>3
<1>h. \A r : r \in hit <=> r \in rs /\ \A c \in DOMAIN where : r[c] = where[c]
  BY <1>1
<1> HIDE DEF hit
<1>4. ASSUME NEW r \in rs
      PROVE  /\ IsRow(new(r)) /\ \A c \in DOMAIN map : new(r)[c] = map[c]
             /\ \A c \in DOMAIN Table.columns : c \notin DOMAIN map => new(r)[c] = r[c]
  <2>1. DOMAIN r = DOMAIN Table.columns
    BY DEF IsRow
  <2>2. IsRow(new(r))
    BY <2>1 DEF IsRow
  <2>m. new(r) = [c \in DOMAIN r |-> IF c \in DOMAIN map THEN map[c] ELSE r[c]]
    BY <1>1
  <2> HIDE DEF new
  <2>3. \A c \in DOMAIN map : c \in DOMAIN r
    BY <1>3, <2>1 DEF Fits
  <2> QED
    BY <2>1, <2>2, <2>3, <2>m
<1> HIDE DEF new
<1>5. \A r \in x : IsRow(r)
  BY <1>h, <1>3, <1>4
<1>6. ASSUME WholeKey(e), NEW r \in x PROVE Shows(e, r) \/ (r \in rs /\ Apart(e, r))
  <2>1. DOMAIN where = Table.pkeys /\ \A c \in Table.pkeys : where[c] = old[c]
    BY <1>1, <1>6 DEF WholeKey, Where, Restrict
  <2>2. \A q \in rs : q \in hit <=> KeyOf(q) = KeyOf(old)
    BY <1>h, <2>1, KeyEqual
  <2>3. PICK a \in hit : a \in rs /\ KeyOf(a) = KeyOf(old)
    BY <1>h, <1>2, <2>2
  <2>4. \A q \in hit : q = a
    BY <1>h, <2>2, <2>3 DEF Valid
  <2>5. PICK b : b = new(a)
    OBVIOUS
  <2>6. x = (rs \ {a}) \cup {b}
    BY <1>3, <2>3, <2>4, <2>5
  <2>7. \A c \in Table.pkeys : a[c] = old[c] /\ c \in DOMAIN Table.columns
    BY <2>3, KeyEqual, SinkAssumption
  <2>8. \A c \in DOMAIN map : b[c] = map[c]
    BY <1>4, <2>3, <2>5
  <2>9. \A c \in Table.pkeys : \/ c \in DOMAIN map /\ b[c] = map[c]
                               \/ c \notin DOMAIN map /\ b[c] = old[c]
    BY <1>4, <2>3, <2>5, <2>7, <2>8
  <2>10. KeyAfter(e) = KeyOf(b)
    <3>1. \A c \in Table.pkeys : KeyFrom(e, b, c)
      BY <1>1, <2>9 DEF KeyFrom
    <3> QED
      BY <3>1, KeyAfterIs
  <2>11. CASE r = b
    BY <1>1, <2>8, <2>10, <2>11 DEF Shows
  <2>12. CASE r # b
    <3>1. r \in rs /\ r # a /\ r \in x /\ b \in x
      BY <2>6, <2>12
    <3>2. KeyOf(b) # KeyOf(r)
      BY <1>3, <2>12, <3>1 DEF Valid
    <3>3. KeyOf(r) # KeyOf(old)
      BY <2>3, <3>1 DEF Valid
    <3>4. KeyBefore(e) = {KeyOf(old)}
      BY <1>1 DEF KeyBefore
    <3> QED
      BY <2>10, <3>1, <3>2, <3>3, <3>4 DEF Apart
  <2> QED
    BY <2>11, <2>12
<1> QED
  BY <1>3, <1>5, <1>6

\* PeerPG.Pub: what it writes, if it is not refused.
LEMMA PgPubWrites ==
  ASSUME RowsInv, NEW e, NEW x \in PgPub(e)
  PROVE  /\ Valid(x) /\ (\A r \in x : IsRow(r)) /\ PgPub(e) = {x}
         /\ e.op \in {"c", "u"} /\ WholeKey(e) => \A r \in x : Shows(e, r) \/ (r \in rows /\ Apart(e, r))
         /\ e.op \notin {"c", "u"} => x = rows
<1>1. Valid(rows) /\ \A r \in rows : IsRow(r)
  BY DEF RowsInv
<1>2. \/ e.op = "c" /\ PgPub(e) = InsertRow(rows, e.after)
      \/ e.op = "u" /\ PgPub(e) = UpdateRow(rows, e.after, Where(e.before))
      \/ e.op \notin {"c", "u"} /\ PgPub(e) = {rows}
  BY DEF PgPub
<1>3. \A rs, d : InsertRow(rs, d) = {} \/ \E y : InsertRow(rs, d) = {y}
  BY DEF InsertRow
<1>4. \A rs, d, w : UpdateRow(rs, d, w) = {} \/ \E y : UpdateRow(rs, d, w) = {y}
  <2> SUFFICES ASSUME NEW rs, NEW d, NEW w PROVE UpdateRow(rs, d, w) = {} \/ \E y : UpdateRow(rs, d, w) = {y}
    OBVIOUS
  <2> DEFINE hit == {r \in rs : \A c \in DOMAIN w : r[c] = w[c]}
             new(r) == [c \in DOMAIN r |-> IF c \in DOMAIN d.map THEN d.map[c] ELSE r[c]]
             written == (rs \ hit) \cup {new(r) : r \in hit}
             bad == \/ d.kind # "map" \/ w = <<>> \/ d.map = <<>> \/ ~Fits(d.map) \/ ~Fits(w)
                    \/ hit = {} \/ Cardinality(written) # Cardinality(rs) \/ ~Valid(written)
  <2>1. UpdateRow(rs, d, w) = IF bad THEN {} ELSE {written}
    BY DEF UpdateRow
  <2> HIDE DEF bad, written
  <2> QED
    BY <2>1
<1>5. PgPub(e) = {x}
  BY <1>2, <1>3, <1>4
<1>6. CASE e.op = "c" /\ PgPub(e) = InsertRow(rows, e.after)
  BY <1>1, <1>5, <1>6, Inserted
<1>7. CASE e.op = "u" /\ PgPub(e) = UpdateRow(rows, e.after, Where(e.before))
  BY <1>1, <1>5, <1>7, Updated
<1>8. CASE e.op \notin {"c", "u"} /\ PgPub(e) = {rows}
  BY <1>1, <1>5, <1>8
<1> QED
  BY <1>2, <1>6, <1>7, <1>8

LEMMA RowsInitInv == SinkInit => RowsInv
BY DEF SinkInit, RowsInv, Valid, Explained

LEMMA RowsIdle ==
  ASSUME RowsInv, UNCHANGED <<plan, rows, out>>
  PROVE  RowsInv'
<1>1. Sinks' = Sinks /\ \A k \in Sinks : Writes(k)' = Writes(k)
  BY DEF Sinks, Writes
<1>2. Valid(rows)' /\ (\A r \in rows' : IsRow(r)')
  BY DEF RowsInv, Valid, IsRow, KeyOf
<1>3. \A k \in Sinks : Writes(k) => Explained(out[k], rows)'
  BY DEF RowsInv
<1> QED
  BY <1>1, <1>2, <1>3 DEF RowsInv

\* A call of Pub that leaves the rows alone: of a sink of another kind, or one
\* that is refused or does not write.
LEMMA RowsRefused ==
  ASSUME SinkInv, RowsInv, NEW k \in Sinks, NEW ok, Published(k, ok), plan' = plan, rows' = rows,
         Writes(k) => ~(ok /\ ToPublish(k).op \in {"c", "u"})
  PROVE  RowsInv'
<1>1. PICK p : p = [id |-> work[k][1].id, event |-> ToPublish(k), ok |-> ok]
  OBVIOUS
<1>2. out' = [out EXCEPT ![k] = Append(@, p)] /\ p.event = ToPublish(k) /\ p.ok = ok
  BY <1>1 DEF Published
<1>3. /\ DOMAIN out = Sinks /\ out'[k] = Append(out[k], p) /\ \A j \in Sinks : j # k => out'[j] = out[j]
      /\ IsSeq(out[k])
  BY <1>2 DEF SinkInv, OutInv
<1>4. Sinks' = Sinks /\ \A j \in Sinks : Writes(j)' = Writes(j)
  BY DEF Sinks, Writes
<1>5. ASSUME NEW j \in Sinks, Writes(j) PROVE Explained(out'[j], rows)
  <2>1. Explained(out[j], rows)
    BY <1>5 DEF RowsInv
  <2>2. CASE j = k
    <3>1. ~(p.ok /\ p.event.op \in {"c", "u"})
      BY <1>2, <1>5, <2>2
    <3>2. Explained(Append(out[k], p), rows)
      BY <1>3, <2>1, <2>2, <3>1, ExplainedRefused
    <3> QED
      BY <1>3, <2>2, <3>2
  <2>3. CASE j # k
    BY <1>3, <2>1, <2>3
  <2> QED
    BY <2>2, <2>3
<1>6. Valid(rows) /\ \A r \in rows : IsRow(r)
  BY DEF RowsInv
<1> QED
  BY <1>4, <1>5, <1>6 DEF RowsInv

LEMMA RowsWritten ==
  ASSUME SinkInv, RowsInv, NEW k \in Sinks, Writes(k), Published(k, TRUE), plan' = plan,
         NEW x \in PgPub(ToPublish(k)), rows' = x
  PROVE  RowsInv'
<1>1. PICK p, e : p = [id |-> work[k][1].id, event |-> ToPublish(k), ok |-> TRUE] /\ e = ToPublish(k)
  OBVIOUS
<1>2. out' = [out EXCEPT ![k] = Append(@, p)] /\ p.event = e /\ p.ok
  BY <1>1 DEF Published
<1>3. /\ DOMAIN out = Sinks /\ out'[k] = Append(out[k], p) /\ IsSeq(out[k])
      /\ \A j \in Sinks : j # k => ~Writes(j)
  BY <1>2 DEF SinkInv, OutInv, PlanInv, Writes
<1>4. Sinks' = Sinks /\ \A j \in Sinks : Writes(j)' = Writes(j)
  BY DEF Sinks, Writes
<1>5. /\ Valid(x) /\ (\A r \in x : IsRow(r))
      /\ e.op \in {"c", "u"} /\ WholeKey(e) => \A r \in x : Shows(e, r) \/ (r \in rows /\ Apart(e, r))
      /\ e.op \notin {"c", "u"} => x = rows
  BY <1>1, PgPubWrites
<1>6. Explained(out[k], rows)
  BY DEF RowsInv
<1>7. Explained(Append(out[k], p), x)
  <2>1. CASE e.op \in {"c", "u"}
    <3>1. WholeKey(p.event) => \A r \in x : Shows(p.event, r) \/ (r \in rows /\ Apart(p.event, r))
      BY <1>2, <1>5, <2>1
    <3>2. p.event.op \in {"c", "u"}
      BY <1>2, <2>1
    <3> QED
      BY <1>2, <1>3, <1>6, <3>1, <3>2, ExplainedWritten
  <2>2. CASE e.op \notin {"c", "u"}
    <3>1. ~(p.ok /\ p.event.op \in {"c", "u"}) /\ x = rows
      BY <1>2, <1>5, <2>2
    <3> QED
      BY <1>3, <1>6, <3>1, ExplainedRefused
  <2> QED
    BY <2>1, <2>2
<1>8. \A j \in Sinks : Writes(j) => Explained(out'[j], x)
  BY <1>3, <1>7
<1> QED
  BY <1>4, <1>5, <1>8 DEF RowsInv

LEMMA RowsStep ==
  ASSUME SinkInv, RowsInv, [SinkNext]_sinkVars
  PROVE  RowsInv'
<1>1. CASE UNCHANGED <<plan, rows, out>>
  BY <1>1, RowsIdle
<1>2. plan' = plan
  BY SinkFixed
<1>3. ASSUME NEW k \in Sinks, PubElsewhere(k) PROVE RowsInv'
  <2>1. Published(k, TRUE) /\ rows' = rows /\ ~Writes(k)
    BY <1>3 DEF PubElsewhere, Writes
  <2> QED
    BY <1>2, <2>1, RowsRefused
<1>4. ASSUME NEW k \in Sinks, PubFails(k) PROVE RowsInv'
  <2>1. Published(k, FALSE) /\ rows' = rows
    BY <1>4 DEF PubFails
  <2> QED
    BY <1>2, <2>1, RowsRefused
<1>5. ASSUME NEW k \in Sinks, PubPG(k), ~UNCHANGED <<plan, rows, out>> PROVE RowsInv'
  <2>1. PICK ps : ps = PgPub(ToPublish(k))
    OBVIOUS
  <2>2. Writes(k) /\ rows' = (IF ps = {} THEN rows ELSE CHOOSE r \in ps : TRUE) /\ Published(k, ps # {})
    BY <1>2, <1>5, <2>1 DEF PubPG, Writes
  <2>3. CASE ps = {}
    <3>1. Published(k, FALSE) /\ rows' = rows
      BY <2>2, <2>3
    <3> QED
      BY <1>2, <3>1, RowsRefused
  <2>4. CASE ps # {}
    <3>1. Published(k, TRUE) /\ rows' \in ps
      BY <2>2, <2>4
    <3>2. PICK x : x = rows'
      OBVIOUS
    <3>3. x \in PgPub(ToPublish(k)) /\ rows' = x
      BY <2>1, <3>1, <3>2
    <3> QED
      BY <1>2, <2>2, <3>1, <3>3, RowsWritten
  <2> QED
    BY <2>3, <2>4
<1>6. ASSUME ~UNCHANGED <<plan, rows, out>>
      PROVE  \E k \in Sinks : PubElsewhere(k) \/ PubFails(k) \/ PubPG(k)
  BY <1>6 DEF SinkNext, sinkVars, Arrive, Push, ProcessEvent, Transform, TablesArrive
<1> QED
  BY <1>1, <1>3, <1>4, <1>5, <1>6

LEMMA InvRows == RowsInv => RowsAreLastImages
BY RowsAre DEF RowsInv

\* The rows of the PostgreSQL sink are the last images accepted for their keys,
\* for every table and every sequence of inserts and updates (pg/peer.go,
\* PeerPG.Pub; pgx/crud.go).
THEOREM LastImages == SinkSpec => []RowsAreLastImages
<1>1. SinkSpec => [](SinkInv /\ RowsInv)
  BY SinkInitInv, RowsInitInv, SinkStep, RowsStep, PTL DEF SinkSpec
<1> QED
  BY <1>1, InvRows, PTL

-----------------------------------------------------------------------------
(* The parts together.  In a behaviour about one part, the part behaves as *)
(* its own specification says, and so has what is proved of it.            *)

NatsP == INSTANCE NatsPeerProofs WITH
  Messages <- NatsMessages, EventsCap <- NatsCap, stream <- nstream, phase <- nphase, events <- nevents
GrpcP == INSTANCE GrpcPeerProofs WITH
  Events <- GrpcEvents, EventsCap <- GrpcCap, stream <- gstream, events <- gevents, out <- gout
PgP == INSTANCE PublicationProofs WITH pc <- ppc

\* The instance the proofs are about is the instance of the composition.
LEMMA NatsInit == Nats!Init => NatsP!Init
BY DEF Nats!Init, NatsP!Init, Nats!Zero, NatsP!Zero

LEMMA NatsNext == [Nats!Next]_Nats!vars => [NatsP!Next]_NatsP!vars
BY DEF Nats!Next, NatsP!Next, Nats!vars, NatsP!vars, Nats!Connect,
       NatsP!Connect, Nats!Sub, NatsP!Sub, Nats!Fetch, NatsP!Fetch,
       Nats!Send, NatsP!Send, Nats!Ack, NatsP!Ack, Nats!Nak, NatsP!Nak,
       Nats!Drop, NatsP!Drop, Nats!LateAck, NatsP!LateAck, Nats!Waiting,
       NatsP!Waiting, Nats!told, NatsP!told, Nats!Consume, NatsP!Consume, Nats!Crash,
       NatsP!Crash, Nats!Pub, NatsP!Pub, Nats!AckWait, NatsP!AckWait,
       Nats!Zero, NatsP!Zero, Nats!Inc, NatsP!Inc, Nats!IncAll, NatsP!IncAll,
       Nats!Items, NatsP!Items, Nats!Available, NatsP!Available,
       Nats!Fits, NatsP!Fits

LEMMA NatsSetting == NatsP!Limits
BY NatsAssumption DEF Nats!Limits, NatsP!Limits

LEMMA NatsProperty == NatsP!EveryLossHasACause => Nats!EveryLossHasACause
BY DEF Nats!EveryLossHasACause, NatsP!EveryLossHasACause,
       Nats!Gone, NatsP!Gone, Nats!Items, NatsP!Items

\* While the behaviour is about the NATS peer, its steps are those of the part.
LEMMA NatsFocus ==
  /\ PeersInit /\ focus = "nats" => Nats!Init
  /\ [PeersNext]_all /\ focus = "nats" => [Nats!Next]_Nats!vars /\ (focus = "nats")'
  /\ [PeersNext]_all /\ ~(focus = "nats") => ~(focus = "nats")'
BY DEF PeersInit, PeersNext, all, nats, Nats!vars, Nats!told

\* The NATS source loses a message only to refused, cut-off or lost deliveries
\* or to a crash, and gets it twice only after an ack that was late, lost or cut
\* off, among the peers as it does alone (nats/peer.go, processMessages).
THEOREM PeersLossBounded == PeersSpec => []EveryLossHasACause
<1>1. NatsP!Spec => []NatsP!EveryLossHasACause
  BY NatsSetting, NatsP!LossBounded
<1>2. PeersSpec /\ focus = "nats" => NatsP!Spec
  BY NatsFocus, NatsInit, NatsNext, PTL DEF PeersSpec, NatsP!Spec
<1>3. PeersSpec /\ ~(focus = "nats") => []~(focus = "nats")
  BY NatsFocus, PTL DEF PeersSpec
<1>4. NatsP!EveryLossHasACause => EveryLossHasACause
  BY NatsProperty DEF EveryLossHasACause
<1>5. ~(focus = "nats") => EveryLossHasACause
  BY DEF EveryLossHasACause
<1> QED
  BY <1>1, <1>2, <1>3, <1>4, <1>5, PTL

\* The instance the proofs are about is the instance of the composition.
LEMMA GrpcInit == Grpc!Init => GrpcP!Init
BY DEF Grpc!Init, GrpcP!Init, Grpc!Nothing, GrpcP!Nothing

LEMMA GrpcNext == [Grpc!Next]_Grpc!vars => [GrpcP!Next]_GrpcP!vars
BY DEF Grpc!Next, GrpcP!Next, Grpc!vars, GrpcP!vars, Grpc!StartServer,
       GrpcP!StartServer, Grpc!PubCall, GrpcP!PubCall, Grpc!PubLock,
       GrpcP!PubLock, Grpc!PubSend, GrpcP!PubSend, Grpc!StreamTake,
       GrpcP!StreamTake, Grpc!StreamSkip, GrpcP!StreamSkip, Grpc!StreamSend,
       GrpcP!StreamSend, Grpc!StreamEnds, GrpcP!StreamEnds,
       Grpc!ConnectClient, GrpcP!ConnectClient, Grpc!Sub, GrpcP!Sub,
       Grpc!Recv, GrpcP!Recv, Grpc!Enqueue, GrpcP!Enqueue, Grpc!Consume,
       GrpcP!Consume, Grpc!Break, GrpcP!Break, Grpc!Nothing, GrpcP!Nothing,
       Grpc!HasData, GrpcP!HasData, Grpc!Message, GrpcP!Message,
       Grpc!NamedTable, GrpcP!NamedTable

LEMMA GrpcSetting == GrpcP!Setting
BY GrpcAssumption DEF Grpc!Setting, GrpcP!Setting, Grpc!Nothing, GrpcP!Nothing

LEMMA GrpcProperty == GrpcP!ClientsShareInOrder => Grpc!ClientsShareInOrder
BY DEF Grpc!ClientsShareInOrder, GrpcP!ClientsShareInOrder, Grpc!Way,
       GrpcP!Way, Grpc!Place, GrpcP!Place, Grpc!HasData, GrpcP!HasData,
       Grpc!Nothing, GrpcP!Nothing

\* While the behaviour is about the gRPC peer, its steps are those of the part.
LEMMA GrpcFocus ==
  /\ PeersInit /\ focus = "grpc" => Grpc!Init
  /\ [PeersNext]_all /\ focus = "grpc" => [Grpc!Next]_Grpc!vars /\ (focus = "grpc")'
  /\ [PeersNext]_all /\ ~(focus = "grpc") => ~(focus = "grpc")'
BY DEF PeersInit, PeersNext, all, grpc, Grpc!vars

\* The clients of a gRPC server share its events in the order Pub sent them,
\* among the peers as alone (grpc/peer.go:35).
THEOREM PeersSharesInOrder == PeersSpec => []ClientsShareInOrder
<1>1. GrpcP!Spec => []GrpcP!ClientsShareInOrder
  BY GrpcSetting, GrpcP!SharesInOrder
<1>2. PeersSpec /\ focus = "grpc" => GrpcP!Spec
  BY GrpcFocus, GrpcInit, GrpcNext, PTL DEF PeersSpec, GrpcP!Spec
<1>3. PeersSpec /\ ~(focus = "grpc") => []~(focus = "grpc")
  BY GrpcFocus, PTL DEF PeersSpec
<1>4. GrpcP!ClientsShareInOrder => ClientsShareInOrder
  BY GrpcProperty DEF ClientsShareInOrder
<1>5. ~(focus = "grpc") => ClientsShareInOrder
  BY DEF ClientsShareInOrder
<1> QED
  BY <1>1, <1>2, <1>3, <1>4, <1>5, PTL

\* The instance the proofs are about is the instance of the composition.
LEMMA PgInit == Pg!Init => PgP!Init
BY DEF Pg!Init, PgP!Init, Pg!Absent, PgP!Absent

LEMMA PgNext == [Pg!Next]_Pg!vars => [PgP!Next]_PgP!vars
<1>1. \A c : Pg!mergeWithDefaults(c) = PgP!mergeWithDefaults(c)
  BY DEF Pg!mergeWithDefaults, PgP!mergeWithDefaults, Pg!Ops, PgP!Ops,
       Pg!DefaultInterval, PgP!DefaultInterval
<1>2. \A c : Pg!validateConfig(c) <=> PgP!validateConfig(c)
  BY DEF Pg!validateConfig, PgP!validateConfig, Pg!Ops, PgP!Ops, Pg!Second,
       PgP!Second, Pg!Unset, PgP!Unset
<1>3. \A p, c : Pg!CreatePublication(p, c) = PgP!CreatePublication(p, c)
  BY DEF Pg!CreatePublication, PgP!CreatePublication,
       Pg!parsePublicationTables, PgP!parsePublicationTables, Pg!Resolve,
       PgP!Resolve, Pg!IsAll, PgP!IsAll, Pg!IsSchema, PgP!IsSchema,
       Pg!SchemaOf, PgP!SchemaOf, Pg!StarAt, PgP!StarAt
<1>4. \A c : Pg!SupportsGenerated(c) <=> PgP!SupportsGenerated(c)
  BY DEF Pg!SupportsGenerated, PgP!SupportsGenerated, Pg!Unset, PgP!Unset
<1>5. ASSUME NEW p \in Procs, Pg!CheckExists(p) PROVE PgP!CheckExists(p)
  <2>1. \A x : x = Pg!Absent <=> x = PgP!Absent
    BY DEF Pg!Absent, PgP!Absent
  <2> QED
    BY <1>1, <1>2, <1>5, <2>1 DEF Pg!CheckExists, PgP!CheckExists, Pg!Goto, PgP!Goto
<1>6. ASSUME NEW p \in Procs, Pg!EnsurePublication(p) PROVE PgP!EnsurePublication(p)
  BY <1>3, <1>4, <1>6 DEF Pg!EnsurePublication, PgP!EnsurePublication, Pg!Goto, PgP!Goto,
       Pg!Absent, PgP!Absent, Pg!Unset, PgP!Unset
<1>7. ASSUME NEW p \in Procs, Pg!ReconcilePublication(p) PROVE PgP!ReconcilePublication(p)
  BY <1>4, <1>7 DEF Pg!ReconcilePublication, PgP!ReconcilePublication, Pg!Goto, PgP!Goto,
       Pg!Unset, PgP!Unset
<1>8. ASSUME NEW p \in Procs, Pg!StatementFails(p) PROVE PgP!StatementFails(p)
  BY <1>8 DEF Pg!StatementFails, PgP!StatementFails, Pg!Goto, PgP!Goto
<1>9. Pg!CreateTable => PgP!CreateTable
  BY DEF Pg!CreateTable, PgP!CreateTable
<1> QED
  BY <1>5, <1>6, <1>7, <1>8, <1>9 DEF Pg!Next, PgP!Next, Pg!vars, PgP!vars

LEMMA PgSetting == PgP!Setting
BY PublicationAssumption DEF Pg!Setting, PgP!Setting, Pg!IsConf, PgP!IsConf

LEMMA PgProperty == PgP!StreamsItsList => Pg!StreamsItsList
BY DEF Pg!StreamsItsList, PgP!StreamsItsList, Pg!Published, PgP!Published,
       Pg!Carries, PgP!Carries, Pg!Patterns, PgP!Patterns, Pg!TakesSchema,
       PgP!TakesSchema, Pg!IsSchema, PgP!IsSchema, Pg!StarAt, PgP!StarAt,
       Pg!IsAll, PgP!IsAll, Pg!Resolve,
       PgP!Resolve, Pg!SupportsGenerated, PgP!SupportsGenerated, Pg!Unset,
       PgP!Unset, Pg!Second, PgP!Second, Pg!Absent, PgP!Absent

\* While the behaviour is about the publication, its steps are those of the part.
LEMMA PgFocus ==
  /\ PeersInit /\ focus = "publication" => Pg!Init
  /\ [PeersNext]_all /\ focus = "publication" => [Pg!Next]_Pg!vars /\ (focus = "publication")'
  /\ [PeersNext]_all /\ ~(focus = "publication") => ~(focus = "publication")'
BY DEF PeersInit, PeersNext, all, publication, Pg!vars

\* A stream carries what the creator of its publication listed, among the peers
\* as alone (pglogrepl, ensurePublication and reconcilePublication).
THEOREM PeersListHolds == PeersSpec => []StreamsItsList
<1>1. PgP!Spec => []PgP!StreamsItsList
  BY PgSetting, PgP!ListHolds
<1>2. PeersSpec /\ focus = "publication" => PgP!Spec
  BY PgFocus, PgInit, PgNext, PTL DEF PeersSpec, PgP!Spec
<1>3. PeersSpec /\ ~(focus = "publication") => []~(focus = "publication")
  BY PgFocus, PTL DEF PeersSpec
<1>4. PgP!StreamsItsList => StreamsItsList
  BY PgProperty DEF StreamsItsList
<1>5. ~(focus = "publication") => StreamsItsList
  BY DEF StreamsItsList
<1> QED
  BY <1>1, <1>2, <1>3, <1>4, <1>5, PTL

\* While the behaviour is not about the sinks there are none.
LEMMA SinkFocus ==
  /\ PeersInit /\ focus = "sink" => SinkInit
  /\ [PeersNext]_all /\ focus = "sink" => [SinkNext]_sinkVars /\ (focus = "sink")'
  /\ PeersInit /\ ~(focus = "sink") => plan = [sinks |-> <<>>]
  /\ [PeersNext]_all /\ ~(focus = "sink") => plan' = plan /\ ~(focus = "sink")'
BY DEF PeersInit, PeersNext, all, sinkVars, NoPipeline

LEMMA NoSinks == plan = [sinks |-> <<>>] => Sinks = {}
BY DEF Sinks

\* What one sink's chain does to an event never shows in what another sink is
\* given, and the sink's rows are the last accepted images of their keys: for
\* every pipeline and its messages (processSinkEvents; pg/peer.go, PeerPG.Pub).
LEMMA PeersSink ==
  /\ PeersSpec /\ focus = "sink" => [](SinkInv /\ RowsInv)
  /\ PeersSpec /\ ~(focus = "sink") => [](plan = [sinks |-> <<>>])
<1>1. PeersSpec /\ focus = "sink" => SinkSpec
  BY SinkFocus, PTL DEF PeersSpec, SinkSpec
<1>2. SinkSpec => [](SinkInv /\ RowsInv)
  BY SinkInitInv, RowsInitInv, SinkStep, RowsStep, PTL DEF SinkSpec
<1>3. [PeersNext]_all /\ ~(focus = "sink") /\ plan = [sinks |-> <<>>] => (plan = [sinks |-> <<>>])' /\ ~(focus = "sink")'
  BY SinkFocus
<1>4. PeersInit /\ ~(focus = "sink") => plan = [sinks |-> <<>>]
  BY SinkFocus
<1>5. PeersSpec /\ ~(focus = "sink") => [](plan = [sinks |-> <<>>])
  BY <1>3, <1>4, PTL DEF PeersSpec
<1> QED
  BY <1>1, <1>2, <1>5, PTL

\* Each sink is given its own chain's result on the event as the source made
\* it, whatever the other workers do meanwhile (EachSinkItsOwnChain), among
\* the peers.
THEOREM PeersOwnChains == PeersSpec => []EachSinkItsOwnChain
<1>1. plan = [sinks |-> <<>>] => EachSinkItsOwnChain
  BY NoSinks DEF EachSinkItsOwnChain
<1> QED
  BY <1>1, PeersSink, InvOwnChain, PTL

\* Each row of the PostgreSQL sink is the last accepted image of its key
\* (RowsAreLastImages), among the peers.
THEOREM PeersLastImages == PeersSpec => []RowsAreLastImages
<1>1. plan = [sinks |-> <<>>] => RowsAreLastImages
  BY NoSinks DEF RowsAreLastImages
<1> QED
  BY <1>1, PeersSink, InvRows, PTL
=============================================================================
