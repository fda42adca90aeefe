---------------------------- MODULE QueryService ----------------------------
(***************************************************************************)
(* A query from its text to the reply (handleQuery, executeQuery), and the *)
(* hosts a command sent WHERE ... runs on (resolveBroadcastTargets), which *)
(* asks the same query for them.  Agents answer in any order, or not in    *)
(* time; BroadcastSession has how the server counts them.                  *)
(***************************************************************************)
EXTENDS QueryEval

CONSTANTS
  Fleet,    \* the online hosts: their records and what their modules report
  Texts     \* the queries asked

ASSUME FleetAssumption == \A h \in Fleet : h.execEnabled \in {"yes", "no"}

VARIABLES
  phase,    \* "new", "asked", "done"
  text,     \* the request
  query,    \* as it was parsed
  targets, modules, filters,   \* what was dispatched
  answers,  \* what came back
  reply

vars == <<phase, text, query, targets, modules, filters, answers, reply>>

NoReply == [status |-> "none", rows |-> <<>>, groups |-> <<>>]

Init ==
  /\ phase = "new"
  /\ text \in Texts /\ query = <<>>
  /\ targets = {} /\ modules = {} /\ filters = <<>>
  /\ answers = <<>>
  /\ reply = NoReply

-----------------------------------------------------------------------------
\* The pre-filter of handleQuery and resolveBroadcastTargets.
PreFiltered(where) ==
  IF HasTagConditions(where) \/ HasHostnameCondition(where)
  THEN {h \in Fleet : MatchesAgentRecord(where, h.tags, h.hostname)}
  ELSE Fleet

Reject(parse) ==
  /\ phase = "new" /\ ~parse.ok
  /\ phase' = "done"
  /\ reply' = [NoReply EXCEPT !.status = "bad request"]
  /\ UNCHANGED <<text, query, targets, modules, filters, answers>>

\* With nobody to ask the reply is immediate, and empty.
HandleQuery(parse) ==
  /\ phase = "new" /\ parse.ok
  /\ query' = parse.query
  /\ targets' = PreFiltered(query'.where)
  /\ modules' = ExtractModules(query')
  /\ filters' = ToFilterProtos(query')
  /\ IF targets' = {} THEN phase' = "done" /\ reply' = [NoReply EXCEPT !.status = "completed"]
     ELSE phase' = "asked" /\ UNCHANGED reply
  /\ UNCHANGED <<text, answers>>

ExecuteQuery(h) ==
  /\ phase = "asked" /\ h \in targets \ DOMAIN answers
  /\ answers' = [x \in DOMAIN answers \cup {h} |-> IF x = h THEN Answer(h, modules, filters) ELSE answers[x]]
  /\ UNCHANGED <<phase, text, query, targets, modules, filters, reply>>

\* projectSelectedFields: raw modules for SELECT * and for aggregates.
Projected(q, r) ==
  LET fields == {q.select[i].field : i \in {j \in 1..Len(q.select) : q.select[j].sel = "field"}}
      raw == (Len(q.select) = 1 /\ q.select[1].sel = "star") \/ q.groupBy # <<>> \/ HasAggregates(q)
  IN  IF raw \/ fields = {} THEN {<<IF r.success THEN "row" ELSE "failed", r.data>>} ELSE ProjectOne(r, fields)

\* The rest of handleQuery, once all have answered or time is up.  Results are not
\* filtered, ordered or limited here.
Respond ==
  LET q == query
      rows == SetToSeq({AggregationRow(answers[h]) : h \in DOMAIN answers})
      aggregates == q.groupBy # <<>> \/ HasAggregates(q)
      groups == IF aggregates THEN Aggregate(q, rows) ELSE <<>>
      broken == \E k \in DOMAIN groups : \E i \in DOMAIN groups[k] : groups[k][i] = AggError
  IN
  /\ phase = "asked"
  /\ phase' = "done"
  /\ reply' = IF broken THEN [NoReply EXCEPT !.status = "failed"]
              ELSE [status |-> IF DOMAIN answers = targets THEN "completed" ELSE "incomplete",
                    rows |-> IF aggregates THEN <<>> ELSE [h \in DOMAIN answers |-> Projected(q, answers[h])],
                    groups |-> groups]
  /\ UNCHANGED <<text, query, targets, modules, filters, answers>>

Next ==
  \/ \E parse \in {Parse(text)} : Reject(parse) \/ HandleQuery(parse)
  \/ Respond
  \/ \E h \in Fleet : ExecuteQuery(h)

Spec == Init /\ [][Next]_vars

\* (mutant) Hosts that answered that nothing matches pass as well.
FieldTargetsAnswered == DOMAIN reply.rows

\* resolveFieldTargets: the hosts with a row that is not a failure.
FieldTargets == {h \in DOMAIN reply.rows : \E r \in reply.rows[h] : r[1] = "row"}

\* resolveBroadcastTargets: if the query fails the pre-filter alone decides.
ExecTargets ==
  LET found == IF HasFieldConditions(query.where) /\ reply.status # "failed"
               THEN PreFiltered(query.where) \cap FieldTargets
               ELSE PreFiltered(query.where)
  IN  {h \in found : h.execEnabled = "yes"}

-----------------------------------------------------------------------------
(***************************************************************************)
(* What a WHERE clause means: it holds of a host if it is true of one      *)
(* entry of each array module it names.                                    *)
(***************************************************************************)
RECURSIVE Like(_, _)
Like(s, p) ==
  CASE p = "" -> s = ""
    [] p # "" /\ CharAt(p, 1) = "%" -> Like(s, Tail(p)) \/ (s # "" /\ Like(Tail(s), p))
    [] p # "" /\ CharAt(p, 1) # "%" -> s # "" /\ CharAt(p, 1) \in {"_", CharAt(s, 1)} /\ Like(Tail(s), Tail(p))

\* The values a condition's field has, given an entry of each array module: one or none.
ValuesOf(f, h, entry) ==
  LET Field(map) == IF KeyInModule(f) \in DOMAIN map THEN {map[KeyInModule(f)]} ELSE {} IN
  CASE IsHostnameField(f) -> {Str(h.hostname)}
    [] IsTagField(f) -> IF TagKeyFromField(f) \in DOMAIN h.tags THEN {Str(h.tags[TagKeyFromField(f)])} ELSE {}
    [] HasModule(f) /\ ~IsTagField(f) ->
         IF f[1] \in DOMAIN entry THEN Field(entry[f[1]])
         ELSE IF f[1] \in DOMAIN h.data /\ h.data[f[1]].kind = "scalar" THEN Field(h.data[f[1]].fields) ELSE {}
    [] OTHER -> {}

\* A literal that reads as a number is one, except for tags and names of hosts, which
\* are text.  An absent value satisfies nothing but IS NULL - an absent tag also what
\* is negated.
Condition(c, h, entry) ==
  LET vs == ValuesOf(c.field, h, entry)
      v == CHOOSE x \in vs : TRUE
      textual == IsTagField(c.field) \/ IsHostnameField(c.field)
      Compared(lit) ==
        IF ~textual /\ IsNumber(lit) THEN IsNumber(v) /\ CompareNumbers(ToFloat64(v), c.operator, ToFloat64(lit))
        ELSE lit.t = "str" /\ \/ c.operator = "=" /\ Shown(v) = lit.text
                              \/ c.operator = "!=" /\ Shown(v) # lit.text
  IN
  CASE c.op = "null" -> IF c.negated THEN vs # {} ELSE vs = {}
    [] c.op = "cmp" -> IF vs = {} THEN IsTagField(c.field) /\ c.operator = "!=" ELSE Compared(c.value)
    [] c.op = "like" -> IF vs = {} THEN IsTagField(c.field) /\ c.negated
                        ELSE Like(ToLower(Shown(v)), ToLower(c.pattern)) = ~c.negated
    [] c.op = "in" -> IF vs = {} THEN IsTagField(c.field) /\ c.negated
                      ELSE (\E i \in 1..Len(c.values) : c.values[i] = Shown(v)) = ~c.negated

RECURSIVE True(_, _, _)
True(e, h, entry) ==
  CASE e.op = "nil" -> TRUE
    [] e.op = "AND" -> True(e.left, h, entry) /\ True(e.right, h, entry)
    [] e.op = "OR" -> True(e.left, h, entry) \/ True(e.right, h, entry)
    [] e.op = "NOT" -> ~True(e.expr, h, entry)
    [] OTHER -> Condition(e, h, entry)

Holds(e, h) ==
  LET arrays == {m \in DOMAIN h.data : h.data[m].kind = "array" /\ h.data[m].items # <<>>
                                       /\ \E c \in Conditions(e) : c.field[1] = m}
      Entries(m) == ToSet(h.data[m].items)
  IN  \E entry \in [arrays -> UNION {Entries(m) : m \in arrays}] :
        (\A m \in arrays : entry[m] \in Entries(m)) /\ True(e, h, entry)

\* The queries whose WHERE the code applies in full: an AND of plain data conditions
\* and tag or hostname conditions, or conditions on tags and hostname alone.  A LIKE
\* pattern must not read as a number, and a listed value not hold a comma.
Applied(e) ==
  /\ ~HasFieldConditions(e) \/ ~FlattenANDs(StripTagFields(e)).complex
  /\ \A c \in Conditions(e) :
       /\ c.op = "like" => ~IsNumeric(c.pattern)
       /\ c.op = "in" => \A i \in 1..Len(c.values) : Len(Split(c.values[i], ",", "")) = 1

\* A query with a WHERE of that kind answers for exactly the hosts it holds of: none
\* is left out by the pre-filter, its filters, the hints for the package look-up or
\* the conversion of values on the way to the agent, and none gets through.
AnswersMatch ==
  phase = "asked" /\ Applied(query.where) =>
    \A h \in Fleet :
      /\ h \notin targets => ~Holds(query.where, h)
      /\ h \in DOMAIN answers => (answers[h].success <=> Holds(query.where, h))

\* What a clause may come to, going by the tags and the name of a host alone.
RECURSIVE MayBe(_, _)
MayBe(e, h) ==
  CASE e.op = "nil" -> {TRUE}
    [] e.op = "AND" -> {l /\ r : l \in MayBe(e.left, h), r \in MayBe(e.right, h)}
    [] e.op = "OR" -> {l \/ r : l \in MayBe(e.left, h), r \in MayBe(e.right, h)}
    [] e.op = "NOT" -> {~x : x \in MayBe(e.expr, h)}
    [] OTHER -> IF IsTagField(e.field) \/ IsHostnameField(e.field) THEN {Condition(e, h, <<>>)} ELSE BOOLEAN

MayHold(e, h) == TRUE \in MayBe(e, h)

\* A command runs on no host its WHERE does not hold of, also when agents failed to
\* answer, or had no row for what was selected - with two exceptions, in which the code
\* goes by tags and names alone and only what these rule out is spared: a WHERE of another
\* kind, whose conditions on data nobody evaluates (query-dsl.md:30 says the server does),
\* and a query for the hosts that fails (exec.go:801-803).
ExecOnlyWhereAsked ==
  phase = "done" /\ reply.status # "bad request" =>
    \A h \in ExecTargets :
      IF Applied(query.where) /\ reply.status # "failed" THEN Holds(query.where, h) ELSE MayHold(query.where, h)

-----------------------------------------------------------------------------
(***************************************************************************)
(* The grammar: a clause is split at its last OR outside parentheses, else *)
(* at its last AND.  A parse is the tree and the nesting it takes.         *)
(***************************************************************************)
Opens(ts, i, j) ==
  Cardinality({k \in i..j : ts[k].kind = "("}) - Cardinality({k \in i..j : ts[k].kind = ")"})

LastOf(ts, i, j, kind) ==
  {k \in i..j : /\ ts[k].kind = kind /\ Opens(ts, i, k) = 0
                /\ \A l \in (k + 1)..j : ts[l].kind = kind => Opens(ts, i, l) # 0}

Closes(ts, i, j) ==
  /\ i < j /\ ts[i].kind = "(" /\ ts[j].kind = ")"
  /\ Opens(ts, i, j) = 0 /\ \A k \in i..(j - 1) : Opens(ts, i, k) > 0

NotAClause == [ok |-> FALSE, node |-> Nil, depth |-> 0]
Larger(a, b) == IF a > b THEN a ELSE b

\* The nesting of an operand of AND or OR; a clause adds one to its deepest.
RECURSIVE Grammar(_, _, _)
Grammar(ts, i, j) ==
  LET ors == LastOf(ts, i, j, "OR")
      ands == LastOf(ts, i, j, "AND")
      k == CHOOSE x \in (IF ors # {} THEN ors ELSE ands) : TRUE
      l == Grammar(ts, i, k - 1)
      r == Grammar(ts, k + 1, j)
      n == Grammar(ts, i + 1, j)
      in == Grammar(ts, i + 1, j - 1)
      c == ParseCondition(ts, i)
  IN
  CASE j < i -> NotAClause
    [] j >= i /\ ors \cup ands # {} ->
         IF l.ok /\ r.ok
         THEN [ok |-> TRUE, node |-> [op |-> ts[k].kind, left |-> l.node, right |-> r.node],
               depth |-> Larger(l.depth, r.depth)]
         ELSE NotAClause
    [] j >= i /\ ors \cup ands = {} /\ ts[i].kind = "NOT" ->
         IF n.ok THEN [n EXCEPT !.node = [op |-> "NOT", expr |-> n.node], !.depth = n.depth + 1] ELSE NotAClause
    [] j >= i /\ ors \cup ands = {} /\ Closes(ts, i, j) ->
         IF in.ok THEN [in EXCEPT !.depth = in.depth + 2] ELSE NotAClause
    [] OTHER -> IF c.ok /\ c.at = j + 1 THEN [ok |-> TRUE, node |-> c.node, depth |-> 1] ELSE NotAClause

AgreesWith(g) ==
  /\ reply.status # "bad request" <=> g.ok /\ g.depth + 1 <= MaxExprDepth
  /\ reply.status # "bad request" => query.where = g.node

\* The recursive descent reads a WHERE clause, when nothing follows it, as the
\* grammar does, and refuses it if and only if the grammar does or its nesting goes
\* past the limit.
ParsesAsGrammar ==
  phase # "new" /\ answers = <<>> =>
    \A lexed \in {Lex(text)} : \A w \in {i \in 1..Len(lexed.tokens) : lexed.tokens[i].kind = "WHERE"} :
      lexed.ok => AgreesWith(Grammar(lexed.tokens, w + 1, Len(lexed.tokens) - 1))
=============================================================================
