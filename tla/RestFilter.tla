----------------------------- MODULE RestFilter -----------------------------
(***************************************************************************)
(* Horizontal filters of the REST server (pkg/rest/filter.go): a filter    *)
(* query parameter is parsed by recursive descent into a tree, and the     *)
(* tree is rendered as an SQL condition with bind parameters.  Text is a   *)
(* sequence of tokens: words, digits and single punctuation marks, with '  *)
(* for the double quote; two words never stand next to each other.  SQL is *)
(* a sequence of "(", ")", "NOT", "AND", "OR" and condition records, so    *)
(* that what it means still depends on SQL's precedence.                   *)
(***************************************************************************)
EXTENDS Integers, SequencesExt

CONSTANT MaxFilterDepth \* maxFilterDepth, 32 in the code

sqlOperators ==
  [eq |-> "=", neq |-> "<>", gt |-> ">", gte |-> ">=", lt |-> "<", lte |-> "<=",
   like |-> "LIKE", ilike |-> "ILIKE", match |-> "~", imatch |-> "~*",
   cs |-> "@>", cd |-> "<@", ov |-> "&&", sl |-> "<<", sr |-> ">>",
   nxr |-> "&<", nxl |-> "&>", adj |-> "-|-"]
quantifiable == {"eq", "gt", "gte", "lt", "lte", "like", "ilike", "match", "imatch"}
ftsFunctions == [fts |-> "to_tsquery", plfts |-> "plainto_tsquery",
                 phfts |-> "phraseto_tsquery", wfts |-> "websearch_to_tsquery"]
isValues == [null |-> "NULL", not_null |-> "NOT NULL", true |-> "TRUE",
             false |-> "FALSE", unknown |-> "UNKNOWN"]

Punctuation == {"(", ")", ",", ".", "'", "\\", "->", "->>", "{", "}", "*", "%"}
Digits == {"0", "1"}
Negative == {"-1"}
IsWord(t) == t \notin Punctuation \cup Digits \cup Negative
-----------------------------------------------------------------------------
\* filterParser.  A parse gives the value read and the input that is left.
Fail == [ok |-> FALSE]
Read(v, rest) == [ok |-> TRUE, val |-> v, rest |-> rest]
Then(r, F(_)) == IF r.ok THEN F(r) ELSE Fail
Rest(s, n) == SubSeq(s, n + 1, Len(s))
At(s, tokens) == s # <<>> /\ s[1] \in tokens
consume(s, p) == IF IsPrefix(p, s) THEN Read(TRUE, Rest(s, Len(p))) ELSE Read(FALSE, s)

\* until: everything up to the first stop.
until(s, stops) ==
  LET stop == SelectInSeq(s, LAMBDA t : t \in stops)
      n == IF stop = 0 THEN Len(s) ELSE stop - 1
  IN  Read(SubSeq(s, 1, n), Rest(s, n))

\* A quoted string ends at the first quote no backslash escapes.
quoted(s) ==
  LET escaped[i \in 1..Len(s)] == i > 2 /\ s[i-1] = "\\" /\ ~escaped[i-1]
      ends == {i \in 2..Len(s) : s[i] = "'" /\ ~escaped[i]}
      kept(end) == SelectSeq([i \in 1..(end-1) |-> i],
                             LAMBDA i : i > 1 /\ (s[i] = "\\" => escaped[i]))
      text(places) == [i \in DOMAIN places |-> s[places[i]]]
      upTo(end) == Read(text(kept(end)), Rest(s, end))
  IN  IF At(s, {"'"}) /\ ends # {} THEN upTo(Min(ends)) ELSE Fail

\* quotedElement: the quotes count only if the element ends with them.
quotedElement(s) ==
  Then(quoted(s), LAMBDA q : IF q.rest = <<>> \/ At(q.rest, {",", ")"}) THEN q ELSE Fail)

name(s) ==
  IF At(s, {"'"}) THEN quoted(s)
  ELSE IF s = <<>> \/ s[1] \in Punctuation \cup Negative THEN Fail
  ELSE Read(<<s[1]>>, Tail(s))

\* arrayIndex: a number that is a whole token; in quotes it is a key.
arrayIndex(s) == At(s, Digits \cup Negative) /\ ~(Len(s) > 1 /\ s[2] \in Digits)

RECURSIVE jsonPath(_, _)
jsonPath(s, path) ==
  LET step(key) == [arrow |-> s[1], index |-> arrayIndex(Tail(s)), key |-> key.val]
      segment == IF arrayIndex(Tail(s)) THEN Read(<<s[2]>>, Rest(s, 2)) ELSE name(Tail(s))
  IN  IF ~At(s, {"->", "->>"}) THEN Read(path, s)
      ELSE Then(segment, LAMBDA key : jsonPath(key.rest, Append(path, step(key))))

\* operand: verbatim in a column filter; in a logic tree it ends at "," or ")"
\* unless it is quoted or a {...} literal.
operand(s, inTree) ==
  LET brace == IF s = <<>> THEN 0 ELSE SelectInSeq(Tail(s), LAMBDA t : t \in {"{", "}"})
  IN  IF ~inTree THEN Read(s, <<>>)
      ELSE IF quotedElement(s).ok THEN quotedElement(s)
      ELSE IF At(s, {"{"}) /\ brace > 0 /\ s[brace + 1] = "}"
           THEN Read(SubSeq(s, 1, brace + 1), Rest(s, brace + 1))
      ELSE until(s, {",", ")"})

RECURSIVE listItems(_, _)
listItems(s, items) ==
  LET next(e, isQuoted) ==
        IF At(e.rest, {","}) THEN listItems(Tail(e.rest), Append(items, e.val))
        ELSE IF ~At(e.rest, {")"}) THEN Fail
        ELSE Read(IF ~isQuoted /\ e.val = <<>> /\ items = <<>> THEN <<>> ELSE Append(items, e.val),
                  Tail(e.rest))
      item(q) == IF q.ok THEN next(q, TRUE) ELSE next(until(s, {",", ")"}), FALSE)
  IN  item(quotedElement(s))

RECURSIVE Split(_)
Split(s) == LET e == until(s, {","}) IN
            IF e.rest = <<>> THEN <<e.val>> ELSE <<e.val>> \o Split(Tail(e.rest))

\* list: (a,b,'c,d'), or a,b,c in a column filter.
list(s, inTree) ==
  IF At(s, {"("}) THEN listItems(Tail(s), <<>>)
  ELSE IF inTree \/ s = <<>> THEN Fail
  ELSE Read(Split(s), <<>>)

NoNode == [negate |-> FALSE, logic |-> "", children |-> <<>>, field |-> <<>>,
           path |-> <<>>, operator |-> "", quant |-> "", lang |-> <<>>,
           value |-> <<>>, list |-> <<>>]

\* What follows the name of an operator: modifier and operand.
operands(node, s, inTree) ==
  LET op == node.operator
      valued(n, t) == IF ~At(t, {"."}) THEN Fail
                      ELSE Then(operand(Tail(t), inTree), LAMBDA v : Read([n EXCEPT !.value = v.val], v.rest))
      modified == Len(s) > 2 /\ s[1] = "(" /\ s[3] = ")"
      lang == modified /\ op \in DOMAIN ftsFunctions /\ s[2] \notin Punctuation
      quant == modified /\ op \in quantifiable /\ s[2] \in {"any", "all"}
  IN  CASE op = "in" ->
             IF ~At(s, {"."}) THEN Fail
             ELSE Then(list(Tail(s), inTree), LAMBDA l : Read([node EXCEPT !.list = l.val], l.rest))
        [] op = "is" ->
             IF At(s, {"."}) /\ Len(s) > 1 /\ s[2] \in DOMAIN isValues
             THEN Read([node EXCEPT !.value = <<s[2]>>], Rest(s, 2)) ELSE Fail
        [] op \in {"isdistinct"} \cup DOMAIN ftsFunctions \cup DOMAIN sqlOperators ->
             CASE lang -> valued([node EXCEPT !.lang = <<s[2]>>], Rest(s, 3))
               [] quant -> valued([node EXCEPT !.quant = s[2]], Rest(s, 3))
               [] OTHER -> valued(node, s)
        [] OTHER -> Fail

\* operation: [not.]<op>[(modifier)].<operand>
operation(s, inTree) ==
  Then(consume(s, <<"not", ".">>), LAMBDA neg :
    IF neg.rest = <<>> \/ ~IsWord(neg.rest[1]) THEN Fail
    ELSE operands([NoNode EXCEPT !.negate = neg.val, !.operator = neg.rest[1]], Tail(neg.rest), inTree))

Groups == {<<"and">>, <<"or">>, <<"not", ".", "and">>, <<"not", ".", "or">>}

RECURSIVE group(_, _, _, _), members(_, _, _), condition(_, _)
\* group: "(cond,cond,...)", the operator's name is already consumed.
group(s, logic, negate, depth) ==
  IF depth > MaxFilterDepth \/ ~At(s, {"("}) THEN Fail
  ELSE Then(members(Tail(s), <<>>, depth), LAMBDA m :
         Read([NoNode EXCEPT !.logic = logic, !.negate = negate, !.children = m.val], m.rest))
members(s, children, depth) ==
  Then(condition(s, depth), LAMBDA c :
    CASE At(c.rest, {","}) -> members(Tail(c.rest), Append(children, c.val), depth)
      [] At(c.rest, {")"}) -> Read(Append(children, c.val), Tail(c.rest))
      [] OTHER -> Fail)
condition(s, depth) ==
  LET opens == {g \in Groups : IsPrefix(Append(g, "("), s)}
      grouped(g) == group(Rest(s, Len(g)), Last(g), Len(g) = 3, depth + 1)
  IN  IF opens # {} THEN grouped(CHOOSE g \in opens : TRUE)
      ELSE Then(name(s), LAMBDA col :
             Then(jsonPath(col.rest, <<>>), LAMBDA path :
               IF ~At(path.rest, {"."}) THEN Fail
               ELSE Then(operation(Tail(path.rest), TRUE), LAMBDA op :
                      Read([op.val EXCEPT !.field = col.val, !.path = path.val], op.rest))))

\* Mutant: trailing input is ignored.
MutExpectEOF(r) == r

\* The whole input must have been read.
expectEOF(r) == IF r.ok /\ r.rest = <<>> THEN r ELSE Fail

\* parseFilterKey: a column with a JSON path; dotted keys are refused.
parseFilterKey(key) ==
  Then(name(key), LAMBDA col :
    IF At(col.rest, {"."}) THEN Fail
    ELSE Then(expectEOF(jsonPath(col.rest, <<>>)), LAMBDA path :
           Read([field |-> col.val, path |-> path.val], <<>>)))

\* parseFilter: a key that ends in and/or is a logic tree.
parseFilter(key, value) ==
  IF key # <<>> /\ Last(key) \in {"and", "or"} /\ (Len(key) = 1 \/ key[Len(key)-1] = ".")
  THEN IF key \in Groups
       THEN expectEOF(group(value, Last(key), Len(key) = 3, 1)) ELSE Fail
  ELSE Then(parseFilterKey(key), LAMBDA key1 :
         Then(expectEOF(operation(value, FALSE)), LAMBDA op :
           Read([op.val EXCEPT !.field = key1.val.field, !.path = key1.val.path], <<>>)))
-----------------------------------------------------------------------------
\* Rendering.  A result holds the SQL built so far and the bind parameters.
Sql(sql, args) == [ok |-> TRUE, sql |-> sql, args |-> args]

\* pgArrayLiteral: every element quoted, quotes and backslashes escaped.
pgArrayLiteral(values) ==
  LET esc(t) == IF t \in {"'", "\\"} THEN <<"\\", t>> ELSE <<t>>
      elem(v) == <<"'">> \o FlattenSeq([i \in 1..Len(v) |-> esc(v[i])]) \o <<"'">>
  IN  <<"{">> \o FlattenSeq([i \in 1..Len(values) |->
                   IF i = 1 THEN elem(values[i]) ELSE <<",">> \o elem(values[i])])
              \o <<"}">>

\* convertToPostgresArrayOrJSON (util.go): a,b becomes {'a','b'}; text with
\* quotes is left alone.  (Its caller has ruled out a leading bracket.)
convertToPostgresArrayOrJSON(val) ==
  LET parts == SelectSeq(Split(val), LAMBDA p : p # <<>>)
      elem(i) == (IF i = 1 THEN <<>> ELSE <<",">>) \o <<"'">> \o parts[i] \o <<"'">>
  IN  IF "'" \in ToSet(val) THEN val
      ELSE <<"{">> \o FlattenSeq([i \in 1..Len(parts) |-> elem(i)]) \o <<"}">>

\* findColumn: the column of that name, <<>> if there is none.
findColumn(table, col) == SelectSeq(table, LAMBDA c : c.name = col)

\* The URL-friendly wildcard of like and ilike.
Wildcards(n) == [i \in 1..Len(n.value) |->
  IF n.operator \in {"like", "ilike"} /\ n.value[i] = "*" THEN "%" ELSE n.value[i]]

\* conditionSQL: the JSON path's keys, cast to int or text, and the operand
\* become bind parameters.
conditionSQL(n, table, args) ==
  LET type  == findColumn(table, n.field)[1].type
      keys  == [i \in 1..Len(n.path) |-> n.path[i].key]
      args1 == args \o keys
      lhs   == [col |-> n.field,
                jsonb |-> n.path # <<>> /\ type \notin {"json", "jsonb"},
                path |-> [i \in 1..Len(n.path) |->
                            [arrow |-> n.path[i].arrow, arg |-> Len(args) + i,
                             cast |-> IF n.path[i].index THEN "int" ELSE "text"]]]
      cond(op, arg) == [sym |-> "cond", lhs |-> lhs, op |-> op, quant |-> n.quant,
                        lang |-> 0, tsvector |-> FALSE, arg |-> arg]
      bound(op, v) == Sql(<<cond(op, Len(args1) + 1)>>, Append(args1, v))
      shorthand == n.operator \in {"cs", "cd"} /\ type = "ARRAY" /\ n.value # <<>>
                     /\ n.value[1] \notin {"{", "(", "'"}
      value == IF shorthand THEN convertToPostgresArrayOrJSON(n.value) ELSE Wildcards(n)
  IN  CASE n.operator = "in" -> bound("= ANY", pgArrayLiteral(n.list))
        [] n.operator = "is" -> Sql(<<cond(isValues[n.value[1]], 0)>>, args1)
        [] n.operator = "isdistinct" -> bound("IS DISTINCT FROM", n.value)
        [] n.operator \in DOMAIN ftsFunctions ->
             LET args2 == IF n.lang = <<>> THEN args1 ELSE Append(args1, n.lang)
             IN  Sql(<<[cond(ftsFunctions[n.operator], Len(args2) + 1) EXCEPT
                          !.lang = IF n.lang = <<>> THEN 0 ELSE Len(args2),
                          !.tsvector = type # "tsvector" \/ n.path # <<>>]>>,
                     Append(args2, n.value))
        [] OTHER -> bound(sqlOperators[n.operator], value)

Sym(w) == [sym |-> w]
\* Mutant: groups are not parenthesised.
MutParens(s) == s
Parens(s) == <<Sym("(")>> \o s \o <<Sym(")")>>

RECURSIVE toSQL(_, _, _)
\* toSQL: groups and negated conditions are parenthesised; an unknown column
\* is an error.
toSQL(n, table, args) ==
  LET child(acc, c) ==
        Then(acc, LAMBDA done : Then(toSQL(c, table, done.args), LAMBDA r :
          Sql((IF done.sql = <<>> THEN <<>>
               ELSE Append(done.sql, Sym(IF n.logic = "and" THEN "AND" ELSE "OR"))) \o r.sql, r.args)))
      body == IF n.logic # "" THEN FoldLeft(child, Sql(<<>>, args), n.children)
              ELSE IF findColumn(table, n.field) # <<>> THEN conditionSQL(n, table, args) ELSE Fail
  IN  Then(body, LAMBDA b :
        Sql((IF n.negate THEN <<Sym("NOT")>> ELSE <<>>)
            \o (IF n.logic # "" \/ n.negate THEN Parens(b.sql) ELSE b.sql), b.args))

\* buildWhereClause: the filters of a request, AND-ed.
buildWhereClause(table, filters, args) ==
  LET add(acc, f) ==
        Then(acc, LAMBDA done :
          Then(parseFilter(f.key, f.value), LAMBDA p :
            Then(toSQL(p.val, table, done.args), LAMBDA r :
              Sql((IF done.sql = <<>> THEN <<>> ELSE Append(done.sql, Sym("AND"))) \o r.sql, r.args))))
  IN  FoldLeft(add, Sql(<<>>, args), filters)
=============================================================================
