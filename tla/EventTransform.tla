--------------------------- MODULE EventTransform ---------------------------
(***************************************************************************)
(* The transformations of an event (pkg/pipeline/transform): extract,      *)
(* filter, replace and their chain.  A name is a sequence of tokens, so    *)
(* that a glob can match it; a regular expression is the set of texts it   *)
(* matches, or the function of what it replaces.                           *)
(*                                                                         *)
(* An event is [schema, table, op, before, after, fields]; before and      *)
(* after hold data: nothing, a map from columns to values, or another JSON *)
(* value.  fields is Schema.Fields, the one part that is shared with other *)
(* copies of the event and written in place.                               *)
(***************************************************************************)
EXTENDS Naturals, Sequences, SequencesExt

Nil == [kind |-> "nil", map |-> <<>>]
Map(m) == [kind |-> "map", map |-> m]
Other == [kind |-> "other", map |-> <<>>]

\* The outcomes of a transformation.  After a skip or an error the event
\* still tells what was written in place.
Go(e) == [kind |-> "event", event |-> e]
Skip(e) == [kind |-> "skip", event |-> e]
Fail(e) == [kind |-> "error", event |-> e]
-----------------------------------------------------------------------------
\* Extract: both images become maps of the listed columns they have, also
\* where there was no image.
Extracted(data, fields) ==
  Map(Restrict(data.map, IF data.kind = "map" THEN DOMAIN data.map \cap fields ELSE {}))
Extract(config, e) ==
  IF config.fields = {} THEN {Fail(e)}
  ELSE {Go([e EXCEPT !.before = Extracted(@, config.fields), !.after = Extracted(@, config.fields)])}
-----------------------------------------------------------------------------
\* filepath.Match: the prefixes of the name the pattern so far can match.
GlobMatch(pattern, name) ==
  Len(name) \in FoldLeft(LAMBDA S, tok :
    IF tok = "*" THEN {j \in 0..Len(name) : \E i \in S : i <= j}
    ELSE {i + 1 : i \in {i \in S : i < Len(name) /\ name[i + 1] = tok}}, {0}, pattern)

\* parseTableRef, of a reference split at its dots: anything but two parts is
\* a table name, in no schema.
parseTableRef(ref) ==
  LET glob == \E i \in DOMAIN ref : Contains(ref[i], "*")
  IN  IF Len(ref) = 2 THEN [schema |-> ref[1], table |-> ref[2], isGlob |-> glob]
      ELSE [schema |-> <<>>, isGlob |-> glob,
            table |-> FoldLeft(LAMBDA t, p : t \o <<".">> \o p, ref[1], Tail(ref))]

\* matchesTableRef.  A glob without a schema matches no event that has one.
matchesTableRef(e, ref) ==
  LET any == <<"*">>
      schema == GlobMatch(ref.schema, e.schema)
      table == GlobMatch(ref.table, e.table)
  IN  IF ref.isGlob
      THEN (ref.schema = any \/ schema) /\ (ref.table = any \/ table)
      ELSE (ref.schema = <<>> \/ ref.schema = e.schema) /\ ref.table = e.table

\* FilterConfig.Validate.  A regular expression that does not compile is
\* {"invalid"}, one that is not given {}.
ValidFilter(config) ==
  /\ config.tables # {} \/ config.excludeTables # {} \/ config.pattern # {} \/ config.operations # {}
  /\ config.pattern # {"invalid"}
  /\ config.operations \subseteq {"c", "u", "d", "r"}

\* Filter: operations, excluded tables, included tables, then the pattern on
\* the full name or the table's.
Filter(config, e) ==
  LET matches(refs) == \E r \in refs : matchesTableRef(e, parseTableRef(r))
  IN  IF \/ ~ValidFilter(config) \/ e.schema = <<>> \/ e.table = <<>>
         \/ config.operations # {} /\ e.op = ""
      THEN {Fail(e)}
      ELSE IF /\ config.operations # {} => e.op \in config.operations
              /\ ~matches(config.excludeTables)
              /\ config.tables # {} => matches(config.tables)
              /\ config.pattern # {} => \/ e.schema \o <<".">> \o e.table \in config.pattern
                                        \/ e.table \in config.pattern
           THEN {Go(e)} ELSE {Skip(e)}
-----------------------------------------------------------------------------
Renamed(names, n) == IF n \in DOMAIN names THEN names[n] ELSE n

\* replaceMapKeys: a new map.  When two keys get one name, the order in which
\* the map is ranged over decides whose value stays.
replaceMapKeys(data, columns) ==
  IF data.kind # "map" THEN {data}
  ELSE LET keys == DOMAIN data.map
           new == {Renamed(columns, k) : k \in keys}
           from == {f \in [new -> keys] : \A n \in new : Renamed(columns, f[n]) = n}
       IN  {Map([n \in new |-> data.map[f[n]]]) : f \in from}

\* ReplaceConfig.Validate.
ValidReplace(config) ==
  /\ config.schemas # <<>> \/ config.tables # <<>> \/ config.columns # <<>> \/ config.regex # <<>>
  /\ \A i \in DOMAIN config.regex :
        config.regex[i].type \in {"schema", "table", "column"} /\ config.regex[i].compiles

\* The regular expressions for a schema's or a table's name, in turn.
RegexReplaced(config, type, name) ==
  FoldLeft(LAMBDA n, r : IF r.type = type THEN Renamed(r.replace, n) ELSE n, name, config.regex)

\* Replace: the maps, then the regular expressions (one of type column does
\* nothing), then the columns, in new maps but in the shared fields.
WithNames(config, e) ==
  [e EXCEPT !.schema = RegexReplaced(config, "schema", Renamed(config.schemas, @)),
            !.table = RegexReplaced(config, "table", Renamed(config.tables, @))]
RenamedFields(config, fields) == [i \in DOMAIN fields |-> Renamed(config.columns, fields[i])]
WithColumns(config, e, before, after) ==
  [e EXCEPT !.before = before, !.after = after, !.fields = RenamedFields(config, @)]
Replace(config, e) ==
  IF ~ValidReplace(config) THEN {Fail(e)}
  ELSE IF config.columns = <<>> THEN {Go(WithNames(config, e))}
  ELSE {Go(WithColumns(config, WithNames(config, e), b, a)) :
          b \in replaceMapKeys(e.before, config.columns),
          a \in replaceMapKeys(e.after, config.columns)}
-----------------------------------------------------------------------------
Transforms == {"extract", "filter", "replace"} \* RegisterBuiltins

Apply(config, e) ==
  CASE config.type = "extract" -> Extract(config, e)
    [] config.type = "filter" -> Filter(config, e)
    [] config.type = "replace" -> Replace(config, e)

\* A transformation on an outcome: a skip or an error ends the chain.
Continue(config, o) == IF o.kind = "event" THEN Apply(config, o.event) ELSE {o}

\* The outcomes after the first n transformations of a chain.
Outcomes(configs, e) ==
  LET after[n \in 0..Len(configs)] ==
        IF n = 0 THEN {Go(e)} ELSE UNION {Continue(configs[n], o) : o \in after[n - 1]}
  IN  after

\* Manager.Chain: every type must be known before anything is applied.
Chain(configs, e) ==
  IF \E i \in DOMAIN configs : configs[i].type \notin Transforms \/ ~configs[i].decodes THEN {Fail(e)}
  ELSE Outcomes(configs, e)[Len(configs)]

\* applyEventTransformations: the source's chain, then the pipeline's.
applyEventTransformations(source, pipeline, e) ==
  UNION {IF o.kind = "event" THEN Chain(pipeline, o.event) ELSE {o} : o \in Chain(source, e)}
=============================================================================
