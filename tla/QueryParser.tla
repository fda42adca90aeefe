---------------------------- MODULE QueryParser ----------------------------
(***************************************************************************)
(* The query language's lexer and parser (internal/query/parser.go).       *)
(*                                                                         *)
(* A token has a kind: the keyword or the sign itself, "ident", "number",  *)
(* "string" or "eof".  A field is the sequence of its parts.  A parse is   *)
(* [ok, at, node]: whether it succeeded, the next token's index and what   *)
(* was read; after a failure only ok counts.                               *)
(***************************************************************************)
EXTENDS Integers, Sequences, SequencesExt

CONSTANTS
  MaxExprDepth,         \* maxExprDepth
  MaxLikePatternBytes   \* maxLikePatternBytes

ASSUME LimitsAssumption == MaxExprDepth \in Nat /\ MaxLikePatternBytes \in Nat

AggNames == {"COUNT", "AVG", "MIN", "MAX", "SUM"}
KeywordKinds ==
  AggNames \cup {"SELECT", "FROM", "WHERE", "AND", "OR", "NOT", "ORDER", "BY", "GROUP", "DESC", "ASC",
                 "LIKE", "IN", "IS", "NULL", "LIMIT"}
CompareOps == {"=", "!=", "<", "<=", ">", ">="}
Token(k, text) == [kind |-> k, text |-> text]

-----------------------------------------------------------------------------
(***************************************************************************)
(* Lexer.                                                                  *)
(***************************************************************************)
UpperOf == [a |-> "A", b |-> "B", c |-> "C", d |-> "D", e |-> "E", f |-> "F", g |-> "G", h |-> "H", i |-> "I",
            j |-> "J", k |-> "K", l |-> "L", m |-> "M", n |-> "N", o |-> "O", p |-> "P", q |-> "Q", r |-> "R",
            s |-> "S", t |-> "T", u |-> "U", v |-> "V", w |-> "W", x |-> "X", y |-> "Y", z |-> "Z"]
Lowers == DOMAIN UpperOf
Uppers == {UpperOf[c] : c \in Lowers}
Digits == {"0", "1", "2", "3", "4", "5", "6", "7", "8", "9"}
IdentStart == Lowers \cup Uppers \cup {"_"}
IdentContinue == IdentStart \cup Digits \cup {"-"}
Blanks == {" ", "\t", "\n", "\r"}
OneCharSigns == {",", ".", "(", ")", "*", ":", "="}

\* The character at position i; past the end there is none.
CharAt(in, i) == IF i \in 1..Len(in) THEN SubSeq(in, i, i) ELSE ""

RECURSIVE MapText(_, _)
MapText(text, to) ==
  IF text = "" THEN ""
  ELSE LET c == CharAt(text, 1) IN (IF c \in DOMAIN to THEN to[c] ELSE c) \o MapText(Tail(text), to)
ToUpper(text) == MapText(text, UpperOf)
ToLower(text) == MapText(text, [c \in Uppers |-> CHOOSE l \in Lowers : UpperOf[l] = c])

\* The first position from i on whose character is not in set.
RECURSIVE SpanEnd(_, _, _)
SpanEnd(in, i, set) == IF CharAt(in, i) \in set THEN SpanEnd(in, i + 1, set) ELSE i

\* scanString, after the opening quote: a doubled quote stands for one.
RECURSIVE ScanString(_, _, _, _)
ScanString(in, i, quote, text) ==
  LET c == CharAt(in, i)
      doubled == CharAt(in, i + 1) = quote
  IN
  CASE c = "" -> [ok |-> FALSE, at |-> i, text |-> text]
    [] c = quote /\ doubled -> ScanString(in, i + 2, quote, text \o quote)
    [] c = quote /\ ~doubled -> [ok |-> TRUE, at |-> i + 1, text |-> text]
    [] OTHER -> ScanString(in, i + 1, quote, text \o c)

\* scanNumber: digits, with at most one point.
ScanNumberEnd(in, i) ==
  LET e == SpanEnd(in, i, Digits) IN IF CharAt(in, e) = "." THEN SpanEnd(in, e + 1, Digits) ELSE e

\* scanIdent: keywords in any case.
WordToken(text) ==
  IF ToUpper(text) \in KeywordKinds THEN Token(ToUpper(text), ToUpper(text)) ELSE Token("ident", text)

\* scan: the tokens from position i on.
RECURSIVE Scan(_, _, _)
Scan(in, i, tokens) ==
  LET c == CharAt(in, i)
      two == c \o CharAt(in, i + 1)
      Goes(at, t) == Scan(in, at, Append(tokens, t))
      Piece(e) == SubSeq(in, i, e - 1)
  IN
  CASE c = "" -> [ok |-> TRUE, tokens |-> Append(tokens, Token("eof", ""))]
    [] c \in Blanks -> Scan(in, i + 1, tokens)
    [] c \in OneCharSigns -> Goes(i + 1, Token(c, c))
    [] two \in {"!=", "<=", ">="} -> Goes(i + 2, Token(two, two))
    [] c \in {"<", ">"} /\ two \notin {"<=", ">="} -> Goes(i + 1, Token(c, c))
    [] c \in {"'", "\""} ->
         LET s == ScanString(in, i + 1, c, "") IN
         IF s.ok THEN Goes(s.at, Token("string", s.text)) ELSE [ok |-> FALSE, tokens |-> tokens]
    [] c \in Digits -> LET e == ScanNumberEnd(in, i) IN Goes(e, Token("number", Piece(e)))
    [] c \in IdentStart -> LET e == SpanEnd(in, i, IdentContinue) IN Goes(e, WordToken(Piece(e)))
    [] OTHER -> [ok |-> FALSE, tokens |-> tokens]

Lex(in) == Scan(in, 1, <<>>)

-----------------------------------------------------------------------------
(***************************************************************************)
(* Parser.                                                                 *)
(***************************************************************************)
Failed == [ok |-> FALSE, at |-> 0, node |-> <<>>]
Parsed(at, node) == [ok |-> TRUE, at |-> at, node |-> node]
Nil == [op |-> "nil"]

\* cur: past the end there is only the end.
Kind(ts, i) == IF i \in 1..Len(ts) THEN ts[i].kind ELSE "eof"
IsName(k) == k = "ident" \/ k \in KeywordKinds

\* parseDottedField: a name, or names joined by dots.
RECURSIVE ParseDottedField(_, _)
ParseDottedField(ts, i) ==
  IF ~IsName(Kind(ts, i)) THEN Failed
  ELSE IF Kind(ts, i + 1) # "." THEN Parsed(i + 1, <<ToLower(ts[i].text)>>)
  ELSE LET rest == ParseDottedField(ts, i + 2) IN
       IF rest.ok THEN Parsed(rest.at, <<ToLower(ts[i].text)>> \o rest.node) ELSE Failed

ParseSelectExpr(ts, i) ==
  LET arg == ParseDottedField(ts, i + 2)
      field == ParseDottedField(ts, i)
  IN
  CASE Kind(ts, i) = "*" -> Parsed(i + 1, [sel |-> "star"])
    [] Kind(ts, i) \in AggNames ->
         IF Kind(ts, i + 1) = "(" /\ arg.ok /\ Kind(ts, arg.at) = ")"
         THEN Parsed(arg.at + 1, [sel |-> "agg", name |-> Kind(ts, i), field |-> arg.node])
         ELSE Failed
    [] OTHER -> IF field.ok THEN Parsed(field.at, [sel |-> "field", field |-> field.node]) ELSE Failed

\* One item of ORDER BY.
ParseOrderField(ts, i) ==
  LET f == ParseDottedField(ts, i) IN
  IF ~f.ok THEN Failed
  ELSE Parsed(IF Kind(ts, f.at) \in {"DESC", "ASC"} THEN f.at + 1 ELSE f.at,
              [field |-> f.node, desc |-> Kind(ts, f.at) = "DESC"])

ParseString(ts, i) == IF Kind(ts, i) = "string" THEN Parsed(i + 1, ts[i].text) ELSE Failed

Item(what, ts, i) ==
  CASE what = "select" -> ParseSelectExpr(ts, i)
    [] what = "field" -> ParseDottedField(ts, i)
    [] what = "order" -> ParseOrderField(ts, i)
    [] what = "string" -> ParseString(ts, i)

\* parseSelectList, parseFieldList, parseOrderByList and the list of IN: an item,
\* and more as long as a comma follows.
RECURSIVE MoreItems(_, _, _, _)
MoreItems(what, ts, r, items) ==
  IF ~r.ok THEN Failed
  ELSE IF Kind(ts, r.at) = "," THEN MoreItems(what, ts, Item(what, ts, r.at + 1), Append(items, r.node))
  ELSE Parsed(r.at, Append(items, r.node))
CommaList(what, ts, i) == MoreItems(what, ts, Item(what, ts, i), <<>>)

\* skipFrom: the legacy clause is read over, as far as it goes.
SkipFrom(ts, i) ==
  LET Over(j, ok) == IF ok THEN j + 1 ELSE j
      Plain(j) == IsName(Kind(ts, j)) \/ Kind(ts, j) = "string"
      key == Over(i + 2, Plain(i + 2))
  IN
  CASE Kind(ts, i) = "*" -> i + 1
    [] IsName(Kind(ts, i)) /\ Kind(ts, i + 1) = ":" ->
         IF Kind(ts, key) = "=" THEN Over(key + 1, Plain(key + 1)) ELSE key
    [] IsName(Kind(ts, i)) /\ Kind(ts, i + 1) # ":" -> i + 1
    [] OTHER -> i

\* parseInExpr and parseLikeExpr, from the keyword on.
ParseInExpr(ts, i, field, negated) ==
  LET vs == IF Kind(ts, i + 1) = "(" THEN CommaList("string", ts, i + 2) ELSE Failed IN
  IF vs.ok /\ Kind(ts, vs.at) = ")"
  THEN Parsed(vs.at + 1, [op |-> "in", field |-> field, values |-> vs.node, negated |-> negated])
  ELSE Failed

ParseLikeExpr(ts, i, field, negated) ==
  LET p == ParseString(ts, i + 1) IN
  IF p.ok /\ Len(p.node) <= MaxLikePatternBytes
  THEN Parsed(p.at, [op |-> "like", field |-> field, pattern |-> p.node, negated |-> negated])
  ELSE Failed

\* strconv.ParseFloat, for natural numbers.
DigitValue == [c \in Digits |-> CHOOSE n \in 0..9 : ToString(n) = c]
RECURSIVE NumberOf(_)
NumberOf(text) ==
  IF text = "" THEN 0
  ELSE 10 * NumberOf(SubSeq(text, 1, Len(text) - 1)) + DigitValue[CharAt(text, Len(text))]

\* parseValue: an unquoted name, dots and all, is a string; a dot that no name
\* follows is read over.
RECURSIVE NameTail(_, _, _)
NameTail(ts, i, text) ==
  IF Kind(ts, i) # "." THEN Parsed(i, text)
  ELSE IF ~IsName(Kind(ts, i + 1)) THEN Parsed(i + 1, text)
  ELSE NameTail(ts, i + 2, text \o "." \o ts[i + 1].text)

ParseValue(ts, i) ==
  LET text == IF i \in 1..Len(ts) THEN ts[i].text ELSE "" IN
  CASE Kind(ts, i) = "number" -> Parsed(i + 1, [t |-> "num", n |-> NumberOf(text)])
    [] Kind(ts, i) = "string" -> Parsed(i + 1, [t |-> "str", text |-> text])
    [] Kind(ts, i) = "ident" -> LET n == NameTail(ts, i + 1, text) IN
                                Parsed(n.at, [t |-> "str", text |-> n.node])
    [] OTHER -> Failed

\* parseCondition, once its field f is read.
ConditionOn(f, ts) ==
  LET at == f.at
      isNot == Kind(ts, at + 1) = "NOT"
      nullAt == IF isNot THEN at + 2 ELSE at + 1
      v == ParseValue(ts, at + 1)
  IN
  CASE ~f.ok -> Failed
    [] f.ok /\ Kind(ts, at) = "IS" ->
         IF Kind(ts, nullAt) = "NULL"
         THEN Parsed(nullAt + 1, [op |-> "null", field |-> f.node, negated |-> isNot])
         ELSE Failed
    [] f.ok /\ Kind(ts, at) = "NOT" ->
         CASE Kind(ts, at + 1) = "IN" -> ParseInExpr(ts, at + 1, f.node, TRUE)
           [] Kind(ts, at + 1) = "LIKE" -> ParseLikeExpr(ts, at + 1, f.node, TRUE)
           [] OTHER -> Failed
    [] f.ok /\ Kind(ts, at) = "IN" -> ParseInExpr(ts, at, f.node, FALSE)
    [] f.ok /\ Kind(ts, at) = "LIKE" -> ParseLikeExpr(ts, at, f.node, FALSE)
    [] f.ok /\ Kind(ts, at) \in CompareOps /\ v.ok ->
         Parsed(v.at, [op |-> "cmp", field |-> f.node, operator |-> Kind(ts, at), value |-> v.node])
    [] OTHER -> Failed

ParseCondition(ts, i) == ConditionOn(ParseDottedField(ts, i), ts)

RECURSIVE ParseExpr(_, _, _), ParseAndExpr(_, _, _), ParseUnaryExpr(_, _, _), MoreOperands(_, _, _, _)

\* The loops of parseExpr and parseAndExpr: operands joined by op, grouped to the left.
MoreOperands(op, ts, left, depth) ==
  IF ~left.ok THEN Failed
  ELSE IF Kind(ts, left.at) # op THEN left
  ELSE LET right == IF op = "OR" THEN ParseAndExpr(ts, left.at + 1, depth)
                    ELSE ParseUnaryExpr(ts, left.at + 1, depth)
       IN  IF ~right.ok THEN Failed
           ELSE MoreOperands(op, ts, Parsed(right.at, [op |-> op, left |-> left.node, right |-> right.node]), depth)

\* enter counts the nesting, leave is the return.
ParseExpr(ts, i, depth) ==
  IF depth + 1 > MaxExprDepth THEN Failed
  ELSE MoreOperands("OR", ts, ParseAndExpr(ts, i, depth + 1), depth + 1)

\* Mutant of ParseAndExpr: OR is taken for a second operand of AND.
ParseAndExprLoose(ts, i, depth) ==
  LET first == ParseUnaryExpr(ts, i, depth) IN
  IF first.ok /\ Kind(ts, first.at) = "AND"
  THEN LET rest == ParseExpr(ts, first.at + 1, depth) IN
       IF rest.ok THEN Parsed(rest.at, [op |-> "AND", left |-> first.node, right |-> rest.node]) ELSE Failed
  ELSE first

ParseAndExpr(ts, i, depth) == MoreOperands("AND", ts, ParseUnaryExpr(ts, i, depth), depth)

ParseUnaryExpr(ts, i, depth) ==
  IF depth + 1 > MaxExprDepth THEN Failed
  ELSE CASE Kind(ts, i) = "NOT" ->
              LET e == ParseUnaryExpr(ts, i + 1, depth + 1) IN
              IF e.ok THEN Parsed(e.at, [op |-> "NOT", expr |-> e.node]) ELSE Failed
         [] Kind(ts, i) = "(" ->
              LET e == ParseExpr(ts, i + 1, depth + 1) IN
              IF e.ok /\ Kind(ts, e.at) = ")" THEN Parsed(e.at + 1, e.node) ELSE Failed
         [] OTHER -> ParseCondition(ts, i)

\* An optional clause that starts with the keywords ks and goes on with b.
Clause(ts, r, ks, b, none) ==
  IF ~r.ok THEN Failed
  ELSE IF Kind(ts, r.at) # ks[1] THEN Parsed(r.at, Append(r.node, none))
  ELSE IF (\A k \in 1..Len(ks) : Kind(ts, r.at + k - 1) = ks[k]) /\ b.ok
       THEN Parsed(b.at, Append(r.node, b.node))
  ELSE Failed

\* The clauses of parseQuery, each after what r has read so far.
SelectFrom(ts, r) ==
  IF r.ok /\ Kind(ts, r.at) = "FROM" THEN Parsed(SkipFrom(ts, r.at + 1), <<r.node>>)
  ELSE [r EXCEPT !.node = <<r.node>>]
WhereClause(ts, r) == Clause(ts, r, <<"WHERE">>, ParseExpr(ts, r.at + 1, 0), Nil)
GroupBy(ts, r) == Clause(ts, r, <<"GROUP", "BY">>, CommaList("field", ts, r.at + 2), <<>>)
OrderBy(ts, r) == Clause(ts, r, <<"ORDER", "BY">>, CommaList("order", ts, r.at + 2), <<>>)
Limit(ts, r) ==
  LET at == r.at + 1 IN
  Clause(ts, r, <<"LIMIT">>, IF Kind(ts, at) = "number" THEN Parsed(at + 1, NumberOf(ts[at].text)) ELSE Failed, 0)

\* Nothing may follow.  Without LIMIT it is 0.
Whole(ts, r) ==
  IF r.ok /\ Kind(ts, r.at) = "eof"
  THEN [ok |-> TRUE, query |-> [select |-> r.node[1], where |-> r.node[2], groupBy |-> r.node[3],
                                orderBy |-> r.node[4], limit |-> r.node[5]]]
  ELSE [ok |-> FALSE, query |-> <<>>]

\* parseQuery
ParseTokens(ts) ==
  LET selected == IF Kind(ts, 1) = "SELECT" THEN CommaList("select", ts, 2) ELSE Failed IN
  Whole(ts, Limit(ts, OrderBy(ts, GroupBy(ts, WhereClause(ts, SelectFrom(ts, selected))))))

Parse(in) ==
  LET lexed == Lex(in) IN
  IF lexed.ok THEN ParseTokens(lexed.tokens) ELSE [ok |-> FALSE, query |-> <<>>]
=============================================================================
