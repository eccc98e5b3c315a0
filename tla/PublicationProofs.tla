------------------------- MODULE PublicationProofs --------------------------
(***************************************************************************)
(* Proofs about the publication of a change stream, for every set of       *)
(* processes, configurations, tables and server versions.                  *)
(***************************************************************************)
EXTENDS Publication, WellFoundedInduction, TLAPS

-----------------------------------------------------------------------------
(* The inductive invariant.                                                *)

TypeInv ==
  /\ conf = [p \in Procs |-> conf[p]] /\ \A p \in Procs : IsConf(conf[p])
  /\ pc \in [Procs -> {"start", "checked absent", "checked present", "set up", "failed"}]

\* The publication p's configuration c makes, with generated columns set to g.
Made(p, c, g) == [CreatePublication(p, c) EXCEPT !.generated = g]

\* What the last process that configured generated columns wanted.
Generated == IF genBy = 0 THEN Unset ELSE conf[genBy].generated

\* A publication is what its creator made, but for generated columns.  Creator
\* and last setter are set up, so their configurations do not change any more.
PubInv ==
  /\ genBy # 0 => genBy \in Procs /\ pc[genBy] = "set up"
  /\ pub # Absent => \E p \in Procs : pc[p] = "set up" /\ pub = Made(p, conf[p], Generated)

\* What a process has established by where it is.
StageInv ==
  \A p \in Procs :
     /\ pc[p] \in {"checked absent", "checked present", "set up"} => conf[p].interval >= Second
     /\ pc[p] \in {"checked present", "set up"} => pub # Absent
     /\ pc[p] = "set up" => SupportsGenerated(conf[p])

IInv == TypeInv /\ PubInv /\ StageInv

-----------------------------------------------------------------------------
(* Records.                                                                *)

Record(t, o, r, g, n) == [tables |-> t, ops |-> o, root |-> r, generated |-> g, interval |-> n]

LEMMA RecordFields ==
  ASSUME NEW t, NEW o, NEW r, NEW g, NEW n
  PROVE  /\ Record(t, o, r, g, n).tables = t /\ Record(t, o, r, g, n).ops = o
         /\ Record(t, o, r, g, n).root = r /\ Record(t, o, r, g, n).generated = g
         /\ Record(t, o, r, g, n).interval = n
BY DEF Record

LEMMA RecordExcept ==
  ASSUME NEW t, NEW o, NEW r, NEW g, NEW n, NEW x
  PROVE  [Record(t, o, r, g, n) EXCEPT !.ops = x] = Record(t, x, r, g, n)
BY DEF Record

\* Defaults leave a configuration a configuration.
LEMMA Merged ==
  ASSUME NEW c, IsConf(c) PROVE IsConf(mergeWithDefaults(c))
<1>1. PICK t, o, r, g, n : c = Record(t, o, r, g, n) /\ t \in Seq(Seq(STRING))
  BY DEF IsConf, Record
<1>2. PICK O, N : O = (IF o = {} THEN Ops ELSE o) /\ N = (IF n = 0 THEN DefaultInterval ELSE n)
  OBVIOUS
<1>3. c.ops = o /\ Record(t, O, r, g, n).interval = n
  BY <1>1, RecordFields
<1>4. PICK d : /\ d = [c EXCEPT !.ops = IF @ = {} THEN Ops ELSE @]
               /\ d = Record(t, O, r, g, n)
  <2>1. [c EXCEPT !.ops = O] = Record(t, O, r, g, n)
    BY <1>1, RecordExcept
  <2>2. [c EXCEPT !.ops = IF @ = {} THEN Ops ELSE @] = [c EXCEPT !.ops = O]
    BY <1>2, <1>3
  <2> QED
    BY <2>1, <2>2, Zenon
<1>5. mergeWithDefaults(c) = Record(t, O, r, g, N)
  <2>1. mergeWithDefaults(c) = [d EXCEPT !.interval = IF @ = 0 THEN DefaultInterval ELSE @]
    BY <1>4 DEF mergeWithDefaults
  <2>2. [d EXCEPT !.interval = IF @ = 0 THEN DefaultInterval ELSE @] = [d EXCEPT !.interval = N]
    BY <1>2, <1>3, <1>4
  <2>3. [d EXCEPT !.interval = N] = Record(t, O, r, g, N)
    <3>1. d = Record(t, O, r, g, n)
      BY <1>4
    <3>2. [Record(t, O, r, g, n) EXCEPT !.interval = N] = Record(t, O, r, g, N)
      BY DEF Record
    <3> QED
      BY <3>1, <3>2
  <2> QED
    BY <2>1, <2>2, <2>3
<1> QED
  BY <1>1, <1>5 DEF IsConf, Record

\* The fields of a publication.
Obj(c) == parsePublicationTables(c.tables)
Named(o) == IF o.schemas = {} THEN {Resolve(t) : t \in o.tables} ELSE {}
Literal(p, c, g) ==
  [by |-> p, all |-> Obj(c).all, schemas |-> Obj(c).schemas, tables |-> Named(Obj(c)),
   ops |-> c.ops, root |-> c.root, generated |-> g]

LEMMA MadeFields ==
  ASSUME NEW p, NEW c
  PROVE  /\ CreatePublication(p, c) = Literal(p, c, c.generated)
         /\ \A x : Made(p, c, x) = Literal(p, c, x)
<1>1. CreatePublication(p, c) = Literal(p, c, c.generated)
  BY DEF CreatePublication, Literal, Obj, Named
<1>2. \A x : Made(p, c, x) = Literal(p, c, x)
  BY <1>1 DEF Made, Literal
<1> QED
  BY <1>1, <1>2

\* Made is what CREATE PUBLICATION makes and what ALTER PUBLICATION makes of it.
LEMMA MadeAgain ==
  ASSUME NEW p, NEW c, NEW g, NEW h
  PROVE  /\ Made(p, c, g).by = p /\ Made(p, c, g).generated = g
         /\ CreatePublication(p, c) = Made(p, c, c.generated)
         /\ [Made(p, c, g) EXCEPT !.generated = h] = Made(p, c, h)
<1>1. Literal(p, c, g).by = p /\ Literal(p, c, g).generated = g
  BY DEF Literal
<1>2. [Literal(p, c, g) EXCEPT !.generated = h] = Literal(p, c, h)
  BY DEF Literal
<1> QED
  BY <1>1, <1>2, MadeFields

\* What was made is there.
LEMMA MadeIsThere ==
  ASSUME Setting, NEW p \in Procs, NEW c, NEW g PROVE Made(p, c, g) # Absent
<1>1. Made(p, c, g).by = p
  BY MadeAgain
<1>2. Absent.by = 0 /\ p # 0
  BY DEF Absent, Setting
<1> QED
  BY <1>1, <1>2

-----------------------------------------------------------------------------
(* Every step preserves the invariant.                                     *)

\* A step that leaves the publication and the processes that are set up alone.
LEMMA PubKept ==
  ASSUME PubInv, UNCHANGED <<pub, genBy>>,
         \A q \in Procs : pc[q] = "set up" => pc'[q] = "set up" /\ conf'[q] = conf[q]
  PROVE  PubInv'
<1>1. genBy # 0 => genBy \in Procs /\ pc[genBy] = "set up"
  BY DEF PubInv
<1>2. Generated' = Generated
  BY <1>1 DEF Generated
<1>3. PICK g : g = Generated /\ g = Generated'
  BY <1>2
<1>4. ASSUME pub # Absent
      PROVE  \E p \in Procs : pc'[p] = "set up" /\ pub = Made(p, conf'[p], g)
  <2>1. PICK p \in Procs : pc[p] = "set up" /\ pub = Made(p, conf[p], g)
    BY <1>3, <1>4 DEF PubInv
  <2>2. pc'[p] = "set up" /\ conf'[p] = conf[p]
    BY <2>1
  <2> QED
    BY <2>1, <2>2
<1>5. (\E p \in Procs : pc[p] = "set up" /\ pub = Made(p, conf[p], Generated))'
        <=> \E p \in Procs : pc'[p] = "set up" /\ pub' = Made(p, conf'[p], g)
  BY <1>3 DEF Made, CreatePublication
<1> QED
  BY <1>1, <1>4, <1>5 DEF PubInv

\* Where pc moves, and whose configuration changes.
LEMMA Moves ==
  ASSUME TypeInv, NEW p \in Procs, NEW l, Goto(p, l)
  PROVE  pc'[p] = l /\ \A q \in Procs : q # p => pc'[q] = pc[q]
BY DEF TypeInv, Goto

LEMMA TypeStep ==
  ASSUME TypeInv, [Next]_vars PROVE TypeInv'
<1>1. ASSUME NEW p \in Procs, CheckExists(p) PROVE TypeInv'
  <2>1. /\ conf'[p] = mergeWithDefaults(conf[p]) /\ conf' = [q \in Procs |-> conf'[q]]
        /\ \A q \in Procs : q # p => conf'[q] = conf[q]
    BY <1>1 DEF CheckExists, TypeInv
  <2>2. IsConf(mergeWithDefaults(conf[p]))
    BY Merged DEF TypeInv
  <2>3. PICK x : x = conf'[p] /\ IsConf(x)
    BY <2>1, <2>2
  <2>4. ASSUME NEW q \in Procs PROVE IsConf(conf[q])'
    <3>1. PICK y : y = conf'[q] /\ IsConf(y)
      BY <2>1, <2>3 DEF TypeInv
    <3> QED
      BY <3>1 DEF IsConf
  <2>5. pc' \in [Procs -> {"start", "checked absent", "checked present", "set up", "failed"}]
    BY <1>1 DEF CheckExists, Goto, TypeInv
  <2> QED
    BY <2>1, <2>4, <2>5 DEF TypeInv
<1>2. ASSUME NEW p \in Procs,
             EnsurePublication(p) \/ ReconcilePublication(p) \/ StatementFails(p)
      PROVE  TypeInv'
  <2>1. conf' = conf /\ (Goto(p, "set up") \/ Goto(p, "failed"))
    BY <1>2 DEF EnsurePublication, ReconcilePublication, StatementFails
  <2>2. pc' \in [Procs -> {"start", "checked absent", "checked present", "set up", "failed"}]
    BY <2>1 DEF Goto, TypeInv
  <2> QED
    BY <2>1, <2>2 DEF TypeInv, IsConf
<1>3. CASE CreateTable \/ UNCHANGED vars
  BY <1>3 DEF CreateTable, vars, TypeInv, IsConf
<1> QED
  BY <1>1, <1>2, <1>3 DEF Next

\* A step that sets nobody up keeps what is known of the publication and of the
\* other processes.
LEMMA Undisturbed ==
  ASSUME TypeInv, PubInv, StageInv, NEW p \in Procs, pc[p] # "set up",
         UNCHANGED <<pub, genBy, version>>,
         \A q \in Procs : q # p => pc'[q] = pc[q] /\ conf'[q] = conf[q],
         pc'[p] # "set up",
         pc'[p] \in {"checked absent", "checked present"} => conf'[p].interval >= Second,
         pc'[p] = "checked present" => pub # Absent
  PROVE  PubInv' /\ StageInv'
<1>1. PubInv'
  BY PubKept
<1>2. \A q \in Procs : SupportsGenerated(conf[q]) /\ conf'[q] = conf[q] => SupportsGenerated(conf[q])'
  BY DEF SupportsGenerated
<1>3. StageInv'
  BY <1>2 DEF StageInv
<1> QED
  BY <1>1, <1>3

LEMMA CheckStep ==
  ASSUME IInv, NEW p \in Procs, CheckExists(p) PROVE PubInv' /\ StageInv'
<1>0. TypeInv /\ PubInv /\ StageInv
  BY DEF IInv
<1>1. /\ pc[p] = "start" /\ UNCHANGED <<pub, genBy, version>>
      /\ conf'[p] = mergeWithDefaults(conf[p])
      /\ \A q \in Procs : q # p => conf'[q] = conf[q]
  BY <1>0 DEF CheckExists, TypeInv
<1>2. PICK c : c = mergeWithDefaults(conf[p])
  OBVIOUS
<1>3. /\ pc'[p] = IF ~validateConfig(c) THEN "failed"
                  ELSE IF pub = Absent THEN "checked absent" ELSE "checked present"
      /\ \A q \in Procs : q # p => pc'[q] = pc[q]
  BY <1>0, <1>2, Moves DEF CheckExists
<1>4. validateConfig(c) => c.interval >= Second
  BY DEF validateConfig
<1>5. /\ pc'[p] # "set up"
      /\ pc'[p] \in {"checked absent", "checked present"} => conf'[p].interval >= Second
      /\ pc'[p] = "checked present" => pub # Absent
  BY <1>1, <1>2, <1>3, <1>4
<1> QED
  BY <1>0, <1>1, <1>3, <1>5, Undisturbed

LEMMA FailStep ==
  ASSUME IInv, NEW p \in Procs, pc[p] # "set up", Goto(p, "failed"),
         UNCHANGED <<pub, genBy, version, conf>>
  PROVE  PubInv' /\ StageInv'
<1>0. TypeInv /\ PubInv /\ StageInv
  BY DEF IInv
<1>1. pc'[p] = "failed" /\ \A q \in Procs : q # p => pc'[q] = pc[q]
  BY <1>0, Moves
<1> QED
  BY <1>0, <1>1, Undisturbed

\* Process p ends its setup, and the publication it leaves behind is by's, with
\* generated columns g.
SetsUp(p, by, g) ==
  /\ pc[p] \in {"checked absent", "checked present"} /\ Goto(p, "set up")
  /\ SupportsGenerated(conf[p]) /\ UNCHANGED <<version, conf>>
  /\ by = p \/ pc[by] = "set up"
  /\ pub' = Made(by, conf[by], g)
  /\ genBy' # 0 => /\ genBy' \in Procs /\ (genBy' = p \/ pc[genBy'] = "set up")
                   /\ g = conf[genBy'].generated
  /\ genBy' = 0 => g = Unset

LEMMA SetUpStep ==
  ASSUME Setting, IInv, NEW p \in Procs, NEW by \in Procs, NEW g, SetsUp(p, by, g)
  PROVE  PubInv' /\ StageInv'
<1>s. /\ pc[p] \in {"checked absent", "checked present"} /\ Goto(p, "set up")
      /\ SupportsGenerated(conf[p]) /\ UNCHANGED <<version, conf>>
      /\ by = p \/ pc[by] = "set up"
      /\ pub' = Made(by, conf[by], g)
      /\ genBy' # 0 => /\ genBy' \in Procs /\ (genBy' = p \/ pc[genBy'] = "set up")
                       /\ g = conf[genBy'].generated
      /\ genBy' = 0 => g = Unset
  BY DEF SetsUp
<1>0. TypeInv /\ PubInv /\ StageInv
  BY DEF IInv
<1>1. pc'[p] = "set up" /\ \A q \in Procs : q # p => pc'[q] = pc[q]
  BY <1>0, <1>s, Moves
<1>2. pub' # Absent
  BY <1>s, MadeIsThere
<1>3. PICK h : h = Generated' /\ h = g
  BY <1>s DEF Generated
<1>4. pc'[by] = "set up" /\ pub' = Made(by, conf'[by], h)
  BY <1>s, <1>1, <1>3
<1>5. (\E q \in Procs : pc[q] = "set up" /\ pub = Made(q, conf[q], Generated))'
  BY <1>3, <1>4 DEF Made, CreatePublication
<1>6. genBy' # 0 => genBy' \in Procs /\ pc'[genBy'] = "set up"
  BY <1>s, <1>1
<1>7. PubInv'
  BY <1>5, <1>6 DEF PubInv
<1>8. \A q \in Procs : SupportsGenerated(conf[q]) => SupportsGenerated(conf[q])'
  BY <1>s DEF SupportsGenerated
<1>9. StageInv'
  BY <1>s, <1>0, <1>1, <1>2, <1>8 DEF StageInv
<1> QED
  BY <1>7, <1>9

LEMMA EnsureStep ==
  ASSUME Setting, IInv, NEW p \in Procs, EnsurePublication(p) PROVE PubInv' /\ StageInv'
<1>1. pc[p] = "checked absent" /\ UNCHANGED <<version, conf>>
  BY DEF EnsurePublication
<1>2. CASE Goto(p, "failed") /\ UNCHANGED <<pub, genBy>>
  BY <1>1, <1>2, FailStep
<1>3. CASE /\ Goto(p, "set up") /\ SupportsGenerated(conf[p])
           /\ pub' = CreatePublication(p, conf[p])
           /\ genBy' = IF conf[p].generated = Unset THEN 0 ELSE p
  <2>1. PICK g : g = conf[p].generated
    OBVIOUS
  <2>2. pub' = Made(p, conf[p], g)
    BY <1>3, <2>1, MadeAgain
  <2>3. /\ genBy' # 0 => genBy' \in Procs /\ genBy' = p /\ g = conf[genBy'].generated
        /\ genBy' = 0 => g = Unset
    BY <1>3, <2>1 DEF Setting
  <2>4. Goto(p, "set up") /\ SupportsGenerated(conf[p])
    BY <1>3
  <2> QED
    <3>1. SetsUp(p, p, g)
      BY <1>1, <2>2, <2>3, <2>4 DEF SetsUp
    <3> QED
      BY <3>1, SetUpStep
<1> QED
  BY <1>2, <1>3 DEF EnsurePublication

LEMMA ReconcileStep ==
  ASSUME Setting, IInv, NEW p \in Procs, ReconcilePublication(p) PROVE PubInv' /\ StageInv'
<1>1. pc[p] = "checked present" /\ UNCHANGED <<version, conf>>
  BY DEF ReconcilePublication
<1>2. CASE Goto(p, "failed") /\ UNCHANGED <<pub, genBy>>
  BY <1>1, <1>2, FailStep
<1>h. PICK h : h = Generated
  OBVIOUS
<1>3. PICK by \in Procs : pc[by] = "set up" /\ pub = Made(by, conf[by], h)
  BY <1>h, <1>1 DEF IInv, StageInv, PubInv
<1>4. CASE /\ Goto(p, "set up") /\ SupportsGenerated(conf[p])
           /\ pub' = [pub EXCEPT !.generated = conf[p].generated] /\ genBy' = p
  <2>1. PICK g : g = conf[p].generated
    OBVIOUS
  <2>2. pub' = Made(by, conf[by], g)
    <3>1. PICK d : d = conf[by] /\ pub = Made(by, d, h)
      BY <1>3
    <3>2. pub' = [Made(by, d, h) EXCEPT !.generated = g]
      BY <3>1, <1>4, <2>1
    <3>3. [Made(by, d, h) EXCEPT !.generated = g] = Made(by, d, g)
      BY MadeAgain
    <3> QED
      BY <3>1, <3>2, <3>3
  <2>3. genBy' \in Procs /\ genBy' = p /\ genBy' # 0 /\ g = conf[genBy'].generated
    BY <1>4, <2>1 DEF Setting
  <2>4. Goto(p, "set up") /\ SupportsGenerated(conf[p])
    BY <1>4
  <2> QED
    <3>1. SetsUp(p, by, g)
      BY <1>1, <1>3, <2>2, <2>3, <2>4 DEF SetsUp
    <3> QED
      BY <3>1, SetUpStep
<1>5. CASE Goto(p, "set up") /\ SupportsGenerated(conf[p]) /\ UNCHANGED <<pub, genBy>>
  <2>1. /\ genBy' # 0 => genBy' \in Procs /\ pc[genBy'] = "set up" /\ h = conf[genBy'].generated
        /\ genBy' = 0 => h = Unset
    BY <1>h, <1>5 DEF IInv, PubInv, Generated
  <2>2. pub' = Made(by, conf[by], h)
    BY <1>3, <1>5
  <2> QED
    <3>1. SetsUp(p, by, h)
      BY <1>1, <1>3, <1>5, <2>1, <2>2 DEF SetsUp
    <3> QED
      BY <3>1, SetUpStep
<1> QED
  BY <1>2, <1>4, <1>5 DEF ReconcilePublication

LEMMA InitIInv ==
  ASSUME Setting, Init PROVE IInv
<1>1. TypeInv
  BY DEF Init, TypeInv, Setting
<1>2. PubInv /\ StageInv
  BY DEF Init, PubInv, StageInv
<1> QED
  BY <1>1, <1>2 DEF IInv

LEMMA NextIInv ==
  ASSUME Setting, IInv, [Next]_vars PROVE IInv'
<1>1. TypeInv'
  BY TypeStep DEF IInv
<1>2. CASE CreateTable \/ UNCHANGED vars
  <2>1. UNCHANGED <<version, pub, conf, pc, genBy>>
    BY <1>2 DEF CreateTable, vars
  <2>2. PubInv' /\ StageInv'
    BY <2>1, PubKept DEF IInv, StageInv, SupportsGenerated
  <2> QED
    BY <1>1, <2>2 DEF IInv
<1>3. ASSUME NEW p \in Procs, CheckExists(p) PROVE IInv'
  BY <1>1, <1>3, CheckStep DEF IInv
<1>4. ASSUME NEW p \in Procs, EnsurePublication(p) PROVE IInv'
  BY <1>1, <1>4, EnsureStep DEF IInv
<1>5. ASSUME NEW p \in Procs, ReconcilePublication(p) PROVE IInv'
  BY <1>1, <1>5, ReconcileStep DEF IInv
<1>6. ASSUME NEW p \in Procs, StatementFails(p) PROVE IInv'
  <2>1. pc[p] # "set up" /\ Goto(p, "failed") /\ UNCHANGED <<pub, genBy, version, conf>>
    BY <1>6 DEF StatementFails
  <2> QED
    BY <1>1, <2>1, FailStep DEF IInv
<1> QED
  BY <1>2, <1>3, <1>4, <1>5, <1>6 DEF Next

-----------------------------------------------------------------------------
(* The publication carries its creator's list.                             *)

\* A pattern with a star has a last one.
Less == {ss \in Nat \X Nat : ss[1] < ss[2]}

LEMMA LastStar ==
  ASSUME NEW q \in Seq(STRING), StarAt(q) # {}
  PROVE  \E i \in StarAt(q) : \A j \in StarAt(q) : j <= i
<1> DEFINE T == {n \in Nat : Len(q) - n \in StarAt(q)}
<1>0. Len(q) \in Nat /\ StarAt(q) \subseteq 2..Len(q)
  BY DEF StarAt
<1>1. PICK k \in StarAt(q) : TRUE
  OBVIOUS
<1>2. Len(q) - k \in T
  BY <1>0, <1>1
<1>3. IsWellFoundedOn(Less, Nat)
  BY NatLessThanWellFounded DEF OpToRel, Less
<1>4. T # {} /\ T \subseteq Nat
  BY <1>2
<1>5. PICK x \in T : \A y \in T : ~ (<<y, x>> \in Less)
  <2> HIDE DEF T
  <2> QED
    BY <1>3, <1>4, WFMin
<1>6. ASSUME NEW j \in StarAt(q) PROVE j <= Len(q) - x
  <2>1. j \in Nat /\ Len(q) - j \in Nat /\ Len(q) - (Len(q) - j) = j
    BY <1>0
  <2>2. Len(q) - j \in T
    BY <2>1
  <2>3. ~(Len(q) - j < x)
    <3> HIDE DEF T
    <3> QED
      BY <2>1, <2>2, <1>4, <1>5 DEF Less
  <2> QED
    BY <2>1, <2>3, <1>0
<1>7. Len(q) - x \in StarAt(q)
  BY <1>5
<1> QED
  BY <1>6, <1>7

\* A pattern is read as a schema of one part exactly when its only star begins
\* the second.
LEMMA SchemaPattern ==
  ASSUME NEW q \in Seq(STRING), NEW x, IsSchema(q)
  PROVE  SchemaOf(q) = <<x>> <=> TakesSchema(q, x)
<1>s. StarAt(q) # {}
  BY DEF IsSchema
<1>0. Len(q) \in Nat /\ StarAt(q) \subseteq 2..Len(q)
  BY DEF StarAt
<1>1. PICK m : m = (CHOOSE i \in StarAt(q) : \A j \in StarAt(q) : j <= i)
  OBVIOUS
<1>2. m \in StarAt(q) /\ \A j \in StarAt(q) : j <= m
  BY <1>s, <1>1, LastStar
<1>3. m \in 2..Len(q) /\ q[m] \in Starred
  BY <1>2 DEF StarAt
<1>4. PICK pre : pre = SubSeq(q, 1, m - 1)
  OBVIOUS
<1>5. SchemaOf(q) = pre
  BY <1>1, <1>4 DEF SchemaOf
<1>6. pre \in Seq(STRING) /\ Len(pre) = m - 1 /\ pre[1] = q[1]
  BY <1>0, <1>3, <1>4
<1>7. m = 2 <=> (q[2] \in Starred /\ \A i \in 3..Len(q) : q[i] \notin Starred)
  <2>1. ASSUME m = 2 PROVE q[2] \in Starred /\ \A i \in 3..Len(q) : q[i] \notin Starred
    <3>1. ASSUME NEW i \in 3..Len(q), q[i] \in Starred PROVE FALSE
      <4>1. i \in StarAt(q)
        BY <3>1, <1>0 DEF StarAt
      <4> QED
        BY <4>1, <2>1, <1>2
    <3> QED
      BY <3>1, <2>1, <1>3
  <2>2. ASSUME \A i \in 3..Len(q) : q[i] \notin Starred PROVE m = 2
    <3>1. m \notin 3..Len(q)
      BY <2>2, <1>3
    <3> QED
      BY <3>1, <1>0, <1>3
  <2> QED
    BY <2>1, <2>2
<1>8. pre = <<x>> <=> m = 2 /\ q[1] = x
  <2>1. ASSUME pre = <<x>> PROVE m = 2 /\ q[1] = x
    <3>1. Len(pre) = 1 /\ pre[1] = x
      BY <2>1
    <3>2. m - 1 = 1
      BY <3>1, <1>6
    <3>3. m \in Int
      BY <1>3, <1>0
    <3>4. m = 2
      BY <3>2, <3>3
    <3> QED
      BY <3>1, <3>4, <1>6
  <2>2. ASSUME m = 2, q[1] = x PROVE pre = <<x>>
    <3>1. Len(pre) = 1
      BY <2>2, <1>6
    <3>2. pre = <<pre[1]>>
      BY <3>1, <1>6
    <3> QED
      BY <3>2, <2>2, <1>6
  <2> QED
    BY <2>1, <2>2
<1> QED
  BY <1>5, <1>7, <1>8 DEF TakesSchema

\* What the statement makes of a list of patterns, against the patterns.
LEMMA CarriesWhatItLists ==
  ASSUME NEW c, IsConf(c), NEW p, NEW g, NEW t
  PROVE  LET m == Made(p, c, g)
         IN  (m.all \/ <<t[1]>> \in m.schemas \/ t \in m.tables) <=> Carries(c, t)
<1> DEFINE all == \E i \in DOMAIN c.tables : IsAll(c.tables[i])
           listed == IF all THEN {} ELSE {c.tables[i] : i \in DOMAIN c.tables}
           bySchema == {q \in listed : IsSchema(q)}
           schemas == {SchemaOf(q) : q \in bySchema}
           named == listed \ bySchema
           made == IF schemas = {} THEN {Resolve(q) : q \in named} ELSE {}
<1>1. Obj(c) = [all |-> all, schemas |-> schemas, tables |-> named]
  BY DEF Obj, parsePublicationTables
<1>2. Obj(c).all = all /\ Obj(c).schemas = schemas /\ Obj(c).tables = named
  BY <1>1
<1>3. Made(p, c, g) = Literal(p, c, g)
  BY MadeFields
<1>4. Named(Obj(c)) = made
  BY <1>2 DEF Named
<1>5. Made(p, c, g).all = all /\ Made(p, c, g).schemas = schemas /\ Made(p, c, g).tables = made
  BY <1>2, <1>3, <1>4 DEF Literal
<1>7. \A q \in Patterns(c) : q \in Seq(STRING)
  BY DEF IsConf, Patterns
<1>8. CASE all
  <2>1. Carries(c, t)
    BY <1>8 DEF Carries, Patterns
  <2> QED
    BY <2>1, <1>5, <1>8
<1>9. CASE ~all
  <2>1. listed = Patterns(c)
    BY <1>9 DEF Patterns
  <2>2. \A q \in Patterns(c) : ~IsAll(q)
    BY <1>9 DEF Patterns
  <2>3. \A q : q \in bySchema <=> q \in Patterns(c) /\ IsSchema(q)
    BY <2>1
  <2>4. \A q \in Patterns(c) : TakesSchema(q, t[1]) => IsSchema(q)
    BY DEF TakesSchema
  <2>5. <<t[1]>> \in schemas <=> \E q \in Patterns(c) : TakesSchema(q, t[1])
    <3>1. <<t[1]>> \in schemas <=> \E q \in bySchema : SchemaOf(q) = <<t[1]>>
      OBVIOUS
    <3>2. \A q \in Patterns(c) : IsSchema(q) => (SchemaOf(q) = <<t[1]>> <=> TakesSchema(q, t[1]))
      BY <1>7, SchemaPattern
    <3> HIDE DEF bySchema, schemas
    <3> QED
      BY <3>1, <3>2, <2>3, <2>4
  <2>6. schemas = {} <=> ~\E q \in Patterns(c) : IsSchema(q)
    <3>1. schemas = {} <=> bySchema = {}
      OBVIOUS
    <3> HIDE DEF bySchema, schemas
    <3> QED
      BY <3>1, <2>3
  <2>7. t \in made <=> schemas = {} /\ \E q \in Patterns(c) : Resolve(q) = t
    <3>1. schemas = {} => named = Patterns(c)
      BY <2>1
    <3>2. t \in made <=> schemas = {} /\ \E q \in named : Resolve(q) = t
      OBVIOUS
    <3> HIDE DEF named, schemas, made
    <3> QED
      BY <3>1, <3>2
  <2> HIDE DEF all, schemas, made
  <2> QED
    BY <1>5, <1>9, <2>2, <2>5, <2>6, <2>7 DEF Carries
<1> QED
  BY <1>8, <1>9

\* The invariant gives what a stream may rely on.
LEMMA ListFollows ==
  ASSUME Setting, IInv PROVE StreamsItsList
<1>1. ASSUME pub # Absent
      PROVE  LET c == conf[pub.by] IN
               /\ \A t \in tables : t \in Published <=> Carries(c, t)
               /\ pub.ops = c.ops /\ pub.root = c.root
               /\ pub.generated = (IF genBy = 0 THEN Unset ELSE conf[genBy].generated)
  <2>g. PICK g : g = Generated
    OBVIOUS
  <2>1. PICK p \in Procs : pub = Made(p, conf[p], g)
    BY <2>g, <1>1 DEF IInv, PubInv
  <2>2. PICK c : c = conf[p] /\ IsConf(c) /\ pub = Made(p, c, g)
    BY <2>1 DEF IInv, TypeInv
  <2>3. pub.by = p /\ pub.ops = c.ops /\ pub.root = c.root /\ pub.generated = g
    <3>1. pub = Literal(p, c, g)
      BY <2>2, MadeFields
    <3> QED
      BY <3>1 DEF Literal
  <2>4. \A t \in tables : (t \in Published <=> pub.all \/ <<t[1]>> \in pub.schemas \/ t \in pub.tables)
    BY DEF Published
  <2>5. \A t : (pub.all \/ <<t[1]>> \in pub.schemas \/ t \in pub.tables) <=> Carries(c, t)
    BY <2>2, CarriesWhatItLists
  <2> QED
    BY <2>g, <2>1, <2>2, <2>3, <2>4, <2>5 DEF Generated
<1>2. \A p \in Procs : pc[p] = "set up" =>
        pub # Absent /\ conf[p].interval >= Second /\ SupportsGenerated(conf[p])
  BY DEF IInv, StageInv
<1> QED
  BY <1>1, <1>2 DEF StreamsItsList

\* However several processes race for one publication and whatever the patterns,
\* it carries exactly what the code reads in its creator's list, and its
\* generated columns are as the last process that configured them wanted; a
\* process is set up only with a publication there, a valid interval and a
\* server that supports its configuration (stream.go:134).
THEOREM ListHolds ==
  ASSUME Setting
  PROVE  Spec => []StreamsItsList
<1>1. Init => IInv
  BY InitIInv
<1>2. IInv /\ [Next]_vars => IInv'
  BY NextIInv
<1>3. IInv => StreamsItsList
  BY ListFollows
<1> QED
  BY <1>1, <1>2, <1>3, PTL DEF Spec
=============================================================================
