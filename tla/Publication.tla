---------------------------- MODULE Publication -----------------------------
(***************************************************************************)
(* The publication a change stream reads (pkg/pglogrepl: Stream,           *)
(* mergeWithDefaults, validateConfig, ensurePublication,                   *)
(* reconcilePublication).  Several processes, or one process after a       *)
(* change of its configuration, use one publication: the name has a        *)
(* default.  The check for it and its creation are separate statements.    *)
(* A table pattern is the sequence of its dot-separated parts.             *)
(***************************************************************************)
EXTENDS Naturals, Sequences

CONSTANTS
  Procs,      \* processes (or restarts) that call Stream
  Configs,    \* their configurations: [tables, ops, root, generated, interval]
  AllTables,  \* the tables that may exist, <<schema, name>>
  Versions,   \* server versions
  Starred,    \* parts of a pattern that begin with a star
  Creatable   \* bound: tables that are created while the processes run

Unset == ""
Ops == {"insert", "update", "delete", "truncate"}
Second == 1000
DefaultInterval == 10000
Absent == [by |-> 0]

\* A configuration: table patterns of any number of parts, the rest as it is.
IsConf(c) ==
  /\ c = [tables |-> c.tables, ops |-> c.ops, root |-> c.root,
          generated |-> c.generated, interval |-> c.interval]
  /\ c.tables \in Seq(Seq(STRING))

\* 0 stands for no process.
Setting == (\A c \in Configs : IsConf(c)) /\ 0 \notin Procs /\ "*" \in Starred

VARIABLES
  version,  \* the server's version
  tables,   \* the tables that exist
  pub,      \* the publication, or Absent: [by, all, schemas, tables, ops, root, generated]
  conf,     \* process -> its configuration
  pc,       \* process -> "start", "checked absent", "checked present", "set up", "failed"
  genBy     \* the process that last set publish_generated_columns, 0 if none has

vars == <<version, tables, pub, conf, pc, genBy>>

Init ==
  /\ version \in Versions /\ conf \in [Procs -> Configs]
  /\ tables = AllTables \ Creatable
  /\ pub = Absent /\ genBy = 0
  /\ pc = [p \in Procs |-> "start"]

\* Somebody creates a table.
CreateTable ==
  /\ \E t \in Creatable \ tables : tables' = tables \cup {t}
  /\ UNCHANGED <<version, pub, conf, pc, genBy>>

mergeWithDefaults(c) ==
  [c EXCEPT !.ops = IF @ = {} THEN Ops ELSE @,
            !.interval = IF @ = 0 THEN DefaultInterval ELSE @]

validateConfig(c) ==
  /\ c.ops \subseteq Ops /\ c.interval >= Second
  /\ c.generated \in {Unset, "none", "stored"}

\* Where a pattern has ".*".
StarAt(p) == {i \in 2..Len(p) : p[i] \in Starred}

\* strings.LastIndex(p, ".*") > 0: the pattern is taken for a schema, and its
\* name is what stands before; what follows the star is not read.
IsSchema(p) == \E i \in StarAt(p) : i > 2 \/ p[1] # ""
SchemaOf(p) == SubSeq(p, 1, (CHOOSE i \in StarAt(p) : \A j \in StarAt(p) : j <= i) - 1)

\* parsePublicationTables: a star is every table, whatever else is listed.
IsAll(pattern) == pattern \in {<<"*">>, <<"*", "*">>}
parsePublicationTables(patterns) ==
  LET all == \E i \in DOMAIN patterns : IsAll(patterns[i])
      listed == IF all THEN {} ELSE {patterns[i] : i \in DOMAIN patterns}
      bySchema == {p \in listed : IsSchema(p)}
  IN  [all |-> all, schemas |-> {SchemaOf(p) : p \in bySchema}, tables |-> listed \ bySchema]

\* A table name as the server resolves it.
Resolve(name) == IF Len(name) = 1 THEN <<"public", name[1]>> ELSE name

\* serverVersionNum's check: publish_generated_columns needs PostgreSQL 18.
SupportsGenerated(c) == c.generated = Unset \/ version >= 18

\* Mutant: the operations are left to the server's default.
MutCreatePublication(p, c) ==
  LET obj == parsePublicationTables(c.tables)
  IN  [by |-> p, all |-> obj.all, schemas |-> obj.schemas,
       tables |-> IF obj.schemas = {} THEN {Resolve(t) : t \in obj.tables} ELSE {},
       ops |-> Ops, root |-> c.root, generated |-> c.generated]

\* The CREATE PUBLICATION statement: all tables, or else the schemas if any is
\* listed, or else the tables.
CreatePublication(p, c) ==
  LET obj == parsePublicationTables(c.tables)
  IN  [by |-> p, all |-> obj.all, schemas |-> obj.schemas,
       tables |-> IF obj.schemas = {} THEN {Resolve(t) : t \in obj.tables} ELSE {},
       ops |-> c.ops, root |-> c.root, generated |-> c.generated]

Goto(p, l) == pc' = [pc EXCEPT ![p] = l]

\* Stream: defaults, validation, and the check whether the publication exists.
CheckExists(p) ==
  /\ pc[p] = "start"
  /\ conf' = [conf EXCEPT ![p] = mergeWithDefaults(@)]
  /\ Goto(p, IF ~validateConfig(mergeWithDefaults(conf[p])) THEN "failed"
             ELSE IF pub = Absent THEN "checked absent" ELSE "checked present")
  /\ UNCHANGED <<version, tables, pub, genBy>>

\* ensurePublication, when the check found none.  CREATE fails if another
\* process was faster or a listed table or schema does not exist.
EnsurePublication(p) ==
  LET new == CreatePublication(p, conf[p])
      valid == /\ SupportsGenerated(conf[p]) /\ pub = Absent
               /\ new.tables \subseteq tables
               /\ new.schemas \subseteq {<<t[1]>> : t \in AllTables}
  IN  /\ pc[p] = "checked absent"
      /\ IF valid THEN /\ pub' = new
                       /\ genBy' = IF conf[p].generated = Unset THEN 0 ELSE p
                  ELSE UNCHANGED <<pub, genBy>>
      /\ Goto(p, IF valid THEN "set up" ELSE "failed")
      /\ UNCHANGED <<version, tables, conf>>

\* reconcilePublication: only publish_generated_columns is brought in line.
ReconcilePublication(p) ==
  LET valid == SupportsGenerated(conf[p])
      sets == conf[p].generated # Unset
  IN  /\ pc[p] = "checked present"
      /\ IF valid /\ sets
         THEN pub' = [pub EXCEPT !.generated = conf[p].generated] /\ genBy' = p
         ELSE UNCHANGED <<pub, genBy>>
      /\ Goto(p, IF valid THEN "set up" ELSE "failed")
      /\ UNCHANGED <<version, tables, conf>>

\* Any of the statements fails for a reason of the server's or the connection's.
StatementFails(p) ==
  /\ pc[p] \in {"start", "checked absent", "checked present"}
  /\ Goto(p, "failed")
  /\ UNCHANGED <<version, tables, pub, conf, genBy>>

Next ==
  \/ CreateTable
  \/ \E p \in Procs : \/ CheckExists(p) \/ EnsurePublication(p) \/ ReconcilePublication(p)
                       \/ StatementFails(p)

Spec == Init /\ [][Next]_vars
-----------------------------------------------------------------------------
\* The tables whose changes the publication carries.
Published == {t \in tables : pub.all \/ <<t[1]>> \in pub.schemas \/ t \in pub.tables}

\* What a list asks for, table by table.  "s.*" is all of schema s, and so is
\* everything that begins like it, "s.*_log" for one.
Patterns(c) == {c.tables[i] : i \in DOMAIN c.tables}
TakesSchema(p, s) == IsSchema(p) /\ p[1] = s /\ p[2] \in Starred /\ \A i \in 3..Len(p) : p[i] \notin Starred
Carries(c, t) ==
  \/ \E p \in Patterns(c) : IsAll(p) \/ TakesSchema(p, t[1])
  \/ (\E p \in Patterns(c) : Resolve(p) = t) /\ ~\E p \in Patterns(c) : IsSchema(p)

\* A stream carries exactly the tables, the operations and the partition setting
\* that the process which created the publication listed, tables created later
\* included, however several processes raced for the publication.  The list is
\* what the code reads in it: next to a schema, a table of another schema is not
\* carried (stream.go:147), though the list that documents Config.Tables has
\* both.  A process that finds a publication takes it as it is, whatever its own
\* list (stream.go:186), but for generated columns, which are as the last
\* process that configured them wanted.
StreamsItsList ==
  /\ pub # Absent =>
       LET c == conf[pub.by] IN
         /\ \A t \in tables : t \in Published <=> Carries(c, t)
         /\ pub.ops = c.ops /\ pub.root = c.root
         /\ pub.generated = (IF genBy = 0 THEN Unset ELSE conf[genBy].generated)
  /\ \A p \in Procs : pc[p] = "set up" =>
       pub # Absent /\ conf[p].interval >= Second /\ SupportsGenerated(conf[p])
=============================================================================
