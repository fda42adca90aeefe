----------------------------- MODULE QueryEval -----------------------------
(***************************************************************************)
(* What becomes of a parsed query: which agents it is sent to, the filters *)
(* that go with it, how an agent applies them to what it collects, and how *)
(* the server projects and aggregates the answers (internal/query/eval.go, *)
(* and the parts of agent.go and http.go around it).                       *)
(*                                                                         *)
(* A value is [t |-> "num", n] or [t |-> "str", text].  A module's data is *)
(* [kind |-> "scalar", fields] or [kind |-> "array", items], where fields, *)
(* and every item, maps field names to values; numbers are natural.        *)
(***************************************************************************)
EXTENDS QueryParser, FiniteSets

Num(n) == [t |-> "num", n |-> n]
Str(text) == [t |-> "str", text |-> text]

\* fmt's %v and strconv.FormatFloat
Shown(v) == IF v.t = "num" THEN ToString(v.n) ELSE v.text

\* strconv.ParseFloat succeeds
IsNumeric(text) == text # "" /\ \A i \in 1..Len(text) : CharAt(text, i) \in Digits

RECURSIVE Join(_, _)
Join(texts, sep) ==
  IF texts = <<>> THEN "" ELSE IF Len(texts) = 1 THEN texts[1] ELSE texts[1] \o sep \o Join(Tail(texts), sep)

\* strings.Split
RECURSIVE Split(_, _, _)
Split(text, sep, part) ==
  IF text = "" THEN <<part>>
  ELSE IF CharAt(text, 1) = sep THEN <<part>> \o Split(Tail(text), sep, "")
  ELSE Split(Tail(text), sep, part \o CharAt(text, 1))

-----------------------------------------------------------------------------
(***************************************************************************)
(* Conditions.                                                             *)
(***************************************************************************)
IsTagField(f) == Len(f) > 1 /\ f[1] = "tag"
TagKeyFromField(f) == Join(Tail(f), ".")
IsHostnameField(f) == f = <<"hostname">>
HasModule(f) == Len(f) > 1
KeyInModule(f) == Join(Tail(f), ".")

Signed(negated, holds) == IF negated THEN ~holds ELSE holds

\* matchLikePattern: one pass over the subject with the last wildcard remembered.
RECURSIVE LikeScan(_, _, _, _, _, _)
LikeScan(s, p, si, pi, lastStar, resumeAt) ==
  LET pc == CharAt(p, pi) IN
  CASE si > Len(s) -> \A i \in pi..Len(p) : CharAt(p, i) = "%"
    [] si <= Len(s) /\ pc # "" /\ pc \in {"_", CharAt(s, si)} ->
         LikeScan(s, p, si + 1, pi + 1, lastStar, resumeAt)
    [] si <= Len(s) /\ pc = "%" /\ CharAt(s, si) # "%" -> LikeScan(s, p, si, pi + 1, pi, si)
    [] si <= Len(s) /\ pc \notin {"_", "%", CharAt(s, si)} /\ lastStar > 0 ->
         LikeScan(s, p, resumeAt + 1, lastStar + 1, lastStar, resumeAt + 1)
    [] OTHER -> FALSE

\* Mutant of MatchLike: a mismatch after a wildcard is final.
MatchLikeOnce(s, pattern) ==
  LET p == ToLower(pattern)
      star == SpanEnd(p, 1, Lowers \cup Digits)
  IN  SubSeq(ToLower(s), 1, star - 1) = SubSeq(p, 1, star - 1) /\ Len(s) + 1 >= Len(p)

MatchLike(s, pattern) == LikeScan(ToLower(s), ToLower(pattern), 1, 1, 0, 0)

\* matchTagCompare: of the operators only = and !=, with a string.
MatchTagCompare(e, tags) ==
  LET key == TagKeyFromField(e.field) IN
  IF key \notin DOMAIN tags THEN e.operator = "!="
  ELSE e.value.t = "str" /\ \/ e.operator = "=" /\ tags[key] = e.value.text
                            \/ e.operator = "!=" /\ tags[key] # e.value.text

MatchTagLike(e, tags) ==
  LET key == TagKeyFromField(e.field) IN
  IF key \notin DOMAIN tags THEN e.negated ELSE Signed(e.negated, MatchLike(tags[key], e.pattern))

MatchTagIn(e, tags) ==
  LET key == TagKeyFromField(e.field) IN
  IF key \notin DOMAIN tags THEN e.negated
  ELSE Signed(e.negated, \E i \in 1..Len(e.values) : e.values[i] = tags[key])

MatchTagIsNull(e, tags) == Signed(e.negated, TagKeyFromField(e.field) \notin DOMAIN tags)

MatchHostname(e, hostname) ==
  CASE e.op = "cmp" -> e.value.t = "str" /\ \/ e.operator = "=" /\ hostname = e.value.text
                                            \/ e.operator = "!=" /\ hostname # e.value.text
    [] e.op = "like" -> Signed(e.negated, MatchLike(hostname, e.pattern))
    [] e.op = "in" -> Signed(e.negated, \E i \in 1..Len(e.values) : e.values[i] = hostname)
    [] e.op = "null" -> Signed(e.negated, hostname = "")

MatchTag(e, tags) ==
  CASE e.op = "cmp" -> MatchTagCompare(e, tags)
    [] e.op = "like" -> MatchTagLike(e, tags)
    [] e.op = "in" -> MatchTagIn(e, tags)
    [] e.op = "null" -> MatchTagIsNull(e, tags)

\* MatchesAgentRecord: what is neither tag nor hostname counts as true, under NOT too.
RECURSIVE MatchesAgentRecord(_, _, _)
MatchesAgentRecord(e, tags, hostname) ==
  CASE e.op = "nil" -> TRUE
    [] e.op = "AND" -> MatchesAgentRecord(e.left, tags, hostname) /\ MatchesAgentRecord(e.right, tags, hostname)
    [] e.op = "OR" -> MatchesAgentRecord(e.left, tags, hostname) \/ MatchesAgentRecord(e.right, tags, hostname)
    [] e.op = "NOT" -> ~MatchesAgentRecord(e.expr, tags, hostname)
    [] OTHER -> IF IsHostnameField(e.field) THEN MatchHostname(e, hostname)
                ELSE ~IsTagField(e.field) \/ MatchTag(e, tags)

\* The conditions an expression is made of.
RECURSIVE Conditions(_)
Conditions(e) ==
  CASE e.op = "nil" -> {}
    [] e.op \in {"AND", "OR"} -> Conditions(e.left) \cup Conditions(e.right)
    [] e.op = "NOT" -> Conditions(e.expr)
    [] OTHER -> {e}

HasHostnameCondition(e) == \E c \in Conditions(e) : IsHostnameField(c.field)
HasTagConditions(e) == \E c \in Conditions(e) : IsTagField(c.field)
HasFieldConditions(e) == \E c \in Conditions(e) : ~IsTagField(c.field) /\ HasModule(c.field)

\* StripTagFields: tag conditions go, except below OR.
RECURSIVE StripTagFields(_)
StripTagFields(e) ==
  CASE e.op = "AND" ->
         LET l == StripTagFields(e.left)
             r == StripTagFields(e.right)
         IN  IF l = Nil THEN r ELSE IF r = Nil THEN l ELSE [op |-> "AND", left |-> l, right |-> r]
    [] e.op = "NOT" -> LET x == StripTagFields(e.expr) IN IF x = Nil THEN Nil ELSE [op |-> "NOT", expr |-> x]
    [] e.op \in {"nil", "OR"} -> e
    [] OTHER -> IF IsTagField(e.field) THEN Nil ELSE e

-----------------------------------------------------------------------------
(***************************************************************************)
(* What goes to the agents.                                                *)
(***************************************************************************)
\* ExtractModules: a tag in the SELECT list passes for a module.
ExtractModules(q) ==
  LET selected == {q.select[i].field : i \in {j \in 1..Len(q.select) : q.select[j].sel # "star"}}
      inWhere == {c.field : c \in {x \in Conditions(q.where) : ~IsTagField(x.field)}}
      ordered == {q.orderBy[i].field : i \in 1..Len(q.orderBy)}
      named == {f[1] : f \in {g \in selected \cup inWhere \cup ToSet(q.groupBy) \cup ordered : HasModule(g)}}
  IN  IF named = {} THEN {"cpu", "disk", "memory", "os_info"} ELSE named

Filter(f, op, value) == [field |-> f, operator |-> op, value |-> value]
Complex == [complex |-> TRUE, filters |-> <<>>]
Simple(fs) == [complex |-> FALSE, filters |-> fs]

\* flattenANDs: anything but a chain of plain conditions is too complex.
RECURSIVE FlattenANDs(_)
FlattenANDs(e) ==
  CASE e.op = "AND" ->
         LET l == FlattenANDs(e.left)
             r == FlattenANDs(e.right)
         IN  IF l.complex \/ r.complex THEN Complex ELSE Simple(l.filters \o r.filters)
    [] e.op = "cmp" -> Simple(<<Filter(e.field, e.operator, Shown(e.value))>>)
    [] e.op = "like" /\ ~e.negated -> Simple(<<Filter(e.field, "LIKE", e.pattern)>>)
    [] e.op = "in" /\ ~e.negated -> Simple(<<Filter(e.field, "IN", Join(e.values, ","))>>)
    [] OTHER -> Complex

\* ToFilterProtos: no filters when there is nothing to filter, and when it is too complex.
ToFilterProtos(q) ==
  LET dataExpr == StripTagFields(q.where) IN
  IF dataExpr = Nil THEN <<>> ELSE FlattenANDs(dataExpr).filters

-----------------------------------------------------------------------------
(***************************************************************************)
(* At the agent.                                                           *)
(***************************************************************************)
ArrayModules == {"packages", "services", "disk", "network"}

\* protoFiltersToConditions: what reads as a number becomes one.
ProtoFiltersToConditions(fs) ==
  [i \in 1..Len(fs) |->
     IF fs[i].operator = "IN" THEN [field |-> fs[i].field, operator |-> "IN", in |-> Split(fs[i].value, ",", "")]
     ELSE [field |-> fs[i].field, operator |-> fs[i].operator,
           value |-> IF IsNumeric(fs[i].value) THEN Num(NumberOf(fs[i].value)) ELSE Str(fs[i].value)]]

CompareNumbers(actual, op, expected) ==
  CASE op = "=" -> actual = expected
    [] op = "!=" -> actual # expected
    [] op = ">" -> actual > expected
    [] op = "<" -> actual < expected
    [] op = ">=" -> actual >= expected
    [] op = "<=" -> actual <= expected
    [] OTHER -> FALSE

\* toFloat64
IsNumber(v) == v.t = "num" \/ IsNumeric(v.text)
ToFloat64(v) == IF v.t = "num" THEN v.n ELSE NumberOf(v.text)

EvalLegacyCondition(c, actual) ==
  CASE c.operator = "IN" -> \E i \in 1..Len(c.in) : c.in[i] = Shown(actual)
    [] c.operator # "IN" /\ c.value.t = "str" ->
         CASE c.operator = "=" -> Shown(actual) = c.value.text
           [] c.operator = "!=" -> Shown(actual) # c.value.text
           [] c.operator = "LIKE" -> MatchLike(Shown(actual), c.value.text)
           [] OTHER -> FALSE
    [] c.operator # "IN" /\ c.value.t = "num" ->
         IsNumber(actual) /\ CompareNumbers(ToFloat64(actual), c.operator, c.value.n)

\* matchesScalarConditions and matchesArrayEntry: a field that is missing fails.
MatchesEntry(conds, entry) ==
  \A c \in conds : KeyInModule(c.field) \in DOMAIN entry /\ EvalLegacyCondition(c, entry[KeyInModule(c.field)])

\* FilterCollectedData: arrays keep the entries that match; a module with nothing
\* left goes.
FilterCollectedData(conds, data) ==
  LET Of(m) == {conds[i] : i \in {j \in 1..Len(conds) : HasModule(conds[j].field) /\ conds[j].field[1] = m}}
      Kept(m) ==
        CASE Of(m) = {} -> data[m]
          [] Of(m) # {} /\ data[m].kind = "array" ->
               [kind |-> "array", items |-> SelectSeq(data[m].items, LAMBDA x : MatchesEntry(Of(m), x))]
          [] OTHER -> data[m]
      Stays(m) ==
        CASE Of(m) = {} -> TRUE
          [] Of(m) # {} /\ data[m].kind = "array" -> Kept(m).items # <<>>
          [] Of(m) # {} /\ data[m].kind = "scalar" -> MatchesEntry(Of(m), data[m].fields)
  IN  [m \in {x \in DOMAIN data : Stays(x)} |-> Kept(m)]

AllFilteredModulesPresent(conds, data) ==
  \A i \in 1..Len(conds) : HasModule(conds[i].field) => conds[i].field[1] \in DOMAIN data

\* The names executeQuery hints at, by module.
NameHints(fs, m) ==
  UNION {IF fs[i].operator = "=" THEN {fs[i].value} ELSE ToSet(Split(fs[i].value, ",", "")) \ {""} :
           i \in {j \in 1..Len(fs) : fs[j].field = <<m, "name">> /\ fs[j].operator \in {"=", "IN"}}}

\* CollectModules: modules the host has; packages are looked up by name when names
\* are hinted at.
CollectModules(host, names, fs) ==
  [m \in names \cap DOMAIN host.data |->
     IF m = "packages" /\ NameHints(fs, m) # {}
     THEN [kind |-> "array",
           items |-> SelectSeq(host.data[m].items, LAMBDA x : Shown(x["name"]) \in NameHints(fs, m))]
     ELSE host.data[m]]

\* executeQuery's answer.
Answer(host, modules, fs) ==
  LET collected == CollectModules(host, modules, fs)
      conds == ProtoFiltersToConditions(fs)
      filtered == FilterCollectedData(conds, collected)
  IN
  IF fs # <<>> /\ ~AllFilteredModulesPresent(conds, filtered)
  THEN [hostname |-> host.hostname, success |-> FALSE, data |-> <<>>]
  ELSE [hostname |-> host.hostname, success |-> TRUE, data |-> IF fs = <<>> THEN collected ELSE filtered]

-----------------------------------------------------------------------------
(***************************************************************************)
(* Back at the server.                                                     *)
(***************************************************************************)
HasAggregates(q) == \E i \in 1..Len(q.select) : q.select[i].sel = "agg"
\* projectRow
Picked(f, S) == [x \in S \cap DOMAIN f |-> f[x]]

\* One flat map of an answer's scalar modules, keyed by field; entry adds an array's.
FlatFields(r, m, entry) ==
  LET scalars == {x \in DOMAIN r.data : r.data[x].kind = "scalar"}
      keys == {<<"hostname">>} \cup UNION {{<<x, k>> : k \in DOMAIN r.data[x].fields} : x \in scalars}
                 \cup {<<m, k>> : k \in DOMAIN entry}
  IN  [f \in keys |-> IF f = <<"hostname">> THEN Str(r.hostname)
                      ELSE IF f[1] = m THEN entry[f[2]] ELSE r.data[f[1]].fields[f[2]]]

\* projectResults: one row per answer, or one per entry of an array the list names;
\* failures pass as they are.
ProjectOne(r, fields) ==
  LET arrays == {f[1] : f \in {g \in fields : HasModule(g) /\ g[1] \in ArrayModules}} IN
  IF ~r.success THEN {<<"failed", r.hostname>>}
  ELSE IF arrays = {} THEN {<<"row", Picked(FlatFields(r, "", <<>>), fields)>>}
  ELSE UNION {{<<"row", Picked(FlatFields(r, m, r.data[m].items[i]), fields)>> : i \in 1..Len(r.data[m].items)} :
                m \in arrays \cap DOMAIN r.data}

\* aggregateQueryResults' rows: all answers, those of hosts that did not match too.
AggregationRow(r) == IF r.success THEN FlatFields(r, "", <<>>) ELSE [f \in {<<"hostname">>} |-> Str(r.hostname)]

RECURSIVE SumOf(_, _)
SumOf(rows, f) == IF rows = <<>> THEN 0 ELSE ToFloat64(Head(rows)[f]) + SumOf(Tail(rows), f)

AggError == <<>>

\* computeAgg: over the rows that have the field; an empty AVG, MIN or MAX is 0.  A
\* value is <<n>>, an AVG the pair of its sum and count, and no value an error.
ComputeAgg(name, f, rows) ==
  LET having == SelectSeq(rows, LAMBDA r : f \in DOMAIN r)
      ns == {ToFloat64(having[i][f]) : i \in 1..Len(having)}
  IN
  CASE name = "COUNT" -> <<Len(having)>>
    [] name # "COUNT" /\ \E i \in 1..Len(having) : ~IsNumber(having[i][f]) -> AggError
    [] OTHER -> CASE having = <<>> -> <<0>>
                  [] name = "SUM" -> <<SumOf(having, f)>>
                  [] name = "AVG" -> <<SumOf(having, f), Len(having)>>
                  [] name = "MIN" -> <<CHOOSE n \in ns : \A k \in ns : n <= k>>
                  [] name = "MAX" -> <<CHOOSE n \in ns : \A k \in ns : n >= k>>

\* A row's group: what its GROUP BY fields look like; a missing field shows too.
GroupKey(row, groupBy) ==
  [i \in 1..Len(groupBy) |-> IF groupBy[i] \in DOMAIN row THEN Shown(row[groupBy[i]]) ELSE "<nil>"]

\* Aggregate and aggregateAll: the aggregates of every group, or of all rows.
Aggregate(q, rows) ==
  LET keys == {GroupKey(rows[i], q.groupBy) : i \in 1..Len(rows)}
      aggs == {i \in 1..Len(q.select) : q.select[i].sel = "agg"}
      InGroup(k) == SelectSeq(rows, LAMBDA r : GroupKey(r, q.groupBy) = k)
      Values(rs) == [i \in aggs |-> ComputeAgg(q.select[i].name, q.select[i].field, rs)]
  IN  IF q.groupBy = <<>> THEN [k \in {<<>>} |-> Values(rows)] ELSE [k \in keys |-> Values(InGroup(k))]
=============================================================================
