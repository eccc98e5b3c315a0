----------------------------- MODULE MqttMessage ----------------------------
(***************************************************************************)
(* What the MQTT source makes of a message (pkg/pipeline/peer/mqtt/peer.go *)
(* and transform.go).  A topic is the sequence of its segments.  A payload *)
(* is [text, json]: its text as a single word, and the JSON value it       *)
(* parses as, [kind, map, items], of kind "invalid" if it does not parse.  *)
(***************************************************************************)
EXTENDS EventTransform, Integers, FiniteSetsExt

\* The words the strconv parsers accept, of those that occur.
BoolWords == [w \in {"1", "t", "true"} |-> "true"] @@ [w \in {"0", "f", "false"} |-> "false"]
IntWords == {"0", "1", "7", "42"}
FloatWords == IntWords \cup {"2.5"}

Typed(type, v) == [type |-> type, val |-> v]
Null == Typed("null", "")

\* parseScalarValue with a type: the text itself when it does not parse.
parseTyped(v, type) ==
  CASE type = "bool" /\ v \in DOMAIN BoolWords -> Typed("bool", BoolWords[v])
    [] type = "int" /\ v \in IntWords -> Typed("int", v)
    [] type = "float" /\ v \in FloatWords -> Typed("float", v)
    [] OTHER -> Typed("string", v)

\* parseScalarValue without one tries bool first, so "1" is a boolean.
parseScalarValue(v) ==
  CASE v \in DOMAIN BoolWords -> parseTyped(v, "bool")
    [] v \in IntWords \ DOMAIN BoolWords -> parseTyped(v, "int")
    [] v \in FloatWords \ (IntWords \cup DOMAIN BoolWords) -> parseTyped(v, "float")
    [] OTHER -> Typed("string", v)
-----------------------------------------------------------------------------
\* matchParts: "+" stands for one segment; "#" for all that follow, at the end
\* of the pattern also for none.
matchParts(pattern, topic) ==
  LET hashes == {i \in DOMAIN pattern : pattern[i] = "#"}
      upto(n) == \A i \in 1..n : pattern[i] \in {"+", topic[i]}
  IN  IF hashes = {} THEN Len(pattern) = Len(topic) /\ upto(Len(topic))
      ELSE LET k == Min(hashes)
           IN  /\ Len(topic) >= k - 1 /\ upto(k - 1)
               /\ Len(topic) = k - 1 => k = Len(pattern)

\* RewriteTopic: the first rule for the action whose filter matches decides,
\* even if its regular expression does not match.  A rule's regex maps the
\* topics it matches to their groups, "$1" and so on in its destination.
RewriteTopic(rules, topic, action) ==
  LET fits == {i \in DOMAIN rules : rules[i].action \in {"pubsub", action}
                                    /\ matchParts(rules[i].from, topic)}
      rule == rules[Min(fits)]
      groups == rule.regex[topic]
      group(seg) == CASE seg = "$1" -> groups[1] [] seg = "$2" -> groups[2] [] OTHER -> seg
  IN  IF fits = {} \/ topic \notin DOMAIN rule.regex THEN topic
      ELSE [i \in DOMAIN rule.to |-> group(rule.to[i])]

\* extractFieldsFromTopic: a static value, a segment (counted from the end if
\* negative) or the group of a pattern; what is empty is left out, and of two
\* rules for one field the later counts.
Trimmed(topic) ==
  LET ends == {i \in DOMAIN topic : topic[i] # ""}
  IN  IF ends = {} THEN <<"">> ELSE SubSeq(topic, Min(ends), Max(ends))
RawField(topic, f) ==
  LET segs == Trimmed(topic)
      i == IF f.index < 0 THEN Len(segs) + f.index ELSE f.index
  IN  CASE f.by = "static" -> f.static
        [] f.by = "index" -> IF 0 <= i /\ i < Len(segs) THEN segs[i + 1] ELSE ""
        [] f.by = "pattern" -> IF topic \in DOMAIN f.pattern THEN f.pattern[topic] ELSE ""
extractFieldsFromTopic(topic, fields) ==
  FoldLeft(LAMBDA m, f : IF RawField(topic, f) = "" THEN m
                         ELSE (f.field :> parseTyped(RawField(topic, f), f.type)) @@ m, <<>>, fields)
-----------------------------------------------------------------------------
\* createEvent: a delete has a before image only, the others an after image.
createEvent(schema, table, op, payload) ==
  [schema |-> <<schema>>, table |-> <<table>>, op |-> op, fields |-> <<>>,
   before |-> IF op = "d" THEN payload ELSE Nil,
   after |-> IF op = "d" THEN Nil ELSE payload]

\* createEventWithFieldsFromTopic: the payload's own values come first; a
\* payload that is not a map stays as it is.
createEventWithFieldsFromTopic(schema, table, op, payload, extracted) ==
  createEvent(schema, table, op,
    IF extracted = <<>> THEN payload
    ELSE CASE payload.kind = "nil" -> Map(extracted)
           [] payload.kind = "map" -> Map(payload.map @@ extracted)
           [] OTHER -> payload)

Operations ==
  [w \in {"c", "create"} |-> "c"] @@ [w \in {"u", "update"} |-> "u"]
  @@ [w \in {"d", "delete"} |-> "d"] @@ [w \in {"r", "read"} |-> "r"]

\* The topic after the operation: key/value pairs, with a field name at the
\* end if the number of segments is odd.
Conditions(rest) ==
  LET pairs == 1..(Len(rest) \div 2)
      last(k) == Max({i \in pairs : rest[2*i - 1] = k})
  IN  [k \in {rest[2*i - 1] : i \in pairs} |-> parseScalarValue(rest[2 * last(k)])]
IsScalar(rest) == Len(rest) % 2 = 1

\* Mutant: the topic's values overwrite the payload's.
MutJsonPayloads(payload, isBatch, conditions) ==
  LET parsed == CASE payload.json.kind = "invalid" -> <<>>
                  [] isBatch /\ payload.json.kind = "array" -> payload.json.items
                  [] OTHER -> <<payload.json>>
      merged(d) == IF d.kind = "map" THEN Map(conditions @@ d.map) ELSE d
  IN  [i \in DOMAIN parsed |-> merged(parsed[i])]

\* The payloads of a message, given what its topic says.
JsonPayloads(payload, isBatch, conditions) ==
  LET parsed == CASE payload.json.kind = "invalid" -> <<>>
                  [] isBatch /\ payload.json.kind = "array" -> payload.json.items
                  [] isBatch /\ payload.json.kind = "nil" -> <<>>
                  [] OTHER -> <<payload.json>>
      merged(d) == IF d.kind = "map" THEN Map(d.map @@ conditions)
                   ELSE IF d.kind = "nil" THEN Nil ELSE Other
  IN  [i \in DOMAIN parsed |-> merged(parsed[i])]
Payloads(payload, isBatch, rest) ==
  LET conditions == Conditions(rest)
      scalar(v) == <<Map((Last(rest) :> v) @@ conditions)>>
  IN  CASE payload.text # "" /\ IsScalar(rest) -> scalar(parseScalarValue(payload.text))
        [] payload.text # "" /\ ~IsScalar(rest) -> JsonPayloads(payload, isBatch, conditions)
        [] payload.text = "" /\ IsScalar(rest) -> scalar(Null)
        [] OTHER -> IF conditions = <<>> THEN <<>> ELSE <<Map(conditions)>>

\* A topic that is too short for a table and an operation is rewritten.
TopicAfterRewrite(config, topic) ==
  IF Len(topic) < Len(config.prefix) + 3 THEN RewriteTopic(config.rewrites, topic, "sub") ELSE topic

\* The subscription's callback: the events a message becomes.
onMessage(config, original, payload) ==
  LET topic == TopicAfterRewrite(config, original)
      parts == SubSeq(topic, Len(config.prefix) + 1, Len(topic))
      isBatch == Len(parts) > 3 /\ parts[4] = "batch"
      rest == SubSeq(parts, IF isBatch THEN 5 ELSE 4, Len(parts))
      payloads == Payloads(payload, isBatch, rest)
      extracted == extractFieldsFromTopic(topic, config.fields)
  IN  IF Len(topic) < Len(config.prefix) + 3 \/ parts[3] \notin DOMAIN Operations THEN <<>>
      ELSE [i \in DOMAIN payloads |->
              createEventWithFieldsFromTopic(parts[1], parts[2], Operations[parts[3]],
                                             payloads[i], extracted)]
=============================================================================
