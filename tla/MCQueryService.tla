--------------------------- MODULE MCQueryService ---------------------------
EXTENDS QueryService

Disk(m, p) == [mount |-> Str(m), pct |-> Num(p)]
Package(n, v) == [name |-> Str(n), version |-> Str(v)]
Modules(os, disks, packages) ==
  [os_info |-> [kind |-> "scalar", fields |-> os], disk |-> [kind |-> "array", items |-> disks],
   packages |-> [kind |-> "array", items |-> packages]]
Host(name, tags, exec, data) == [hostname |-> name, tags |-> tags, execEnabled |-> exec, data |-> data]

MCFleet ==
  {Host("h1", [env |-> "prod"], "yes",
        Modules([os |-> Str("aab")], <<Disk("a", 9), Disk("b", 2)>>, <<Package("ssl", "7"), Package("vi", "a")>>)),
   Host("h2", [env |-> "dev"], "yes",
        Modules([os |-> Str("Ab")], <<Disk("b", 9)>>, <<Package("vi", "b")>>)),
   Host("x3", <<>>, "no", Modules(<<>>, <<>>, <<Package("ssl", "3")>>))}

\* Conditions on every kind of field, with every kind of literal and operator.
Atoms ==
  {"tag.env = 'prod'", "tag.env != 'prod'", "tag.env IN ('prod', 'qa')", "tag.env NOT LIKE 'd_v'", "tag.env is null",
   "hostname = h1", "hostname LIKE 'H%'", "disk.pct > 8", "disk.mount = \"b\"", "disk.pct <= '2'",
   "os_info.os != 'aab'", "packages.name IN ('ssl', 'x')", "packages.name = vi", "packages.version >= 7",
   "packages.version LIKE '7'", "packages.name NOT IN ('ssl')", "os_info.os IS NOT NULL"}
Where(clause) == "SELECT hostname, disk.mount WHERE " \o clause
Combined ==
  Atoms \cup {"NOT " \o a : a \in Atoms}
  \cup {a \o op \o b : a \in Atoms, b \in Atoms, op \in {" AND ", " OR "}}

\* LIKE patterns, and clauses put together from words.
Words(n, set) == UNION {[1..k -> set] : k \in 1..n}
RECURSIVE Glue(_, _)
Glue(ws, sep) == IF ws = <<>> THEN "" ELSE ws[1] \o (IF Len(ws) = 1 THEN "" ELSE sep) \o Glue(Tail(ws), sep)
Patterns == {Glue(w, "") : w \in Words(4, {"a", "b", "_", "%"})}
Clauses == {Glue(w, " ") : w \in Words(5, {"NOT", "(", ")", "AND", "or", "disk.pct>8"})}

\* The last fails for the names of systems, so that a command asked for with it goes to
\* hosts it does not hold of.
Totals ==
  {"SELECT COUNT(hostname), AVG(os_info.cores) FROM tag:env=prod WHERE disk.pct > 8",
   "select os_info.os, COUNT(hostname), max(packages.version) GROUP BY os_info.os",
   "SELECT SUM(os_info.os) WHERE hostname LIKE 'h%' AND os_info.os = 'aab'"}

MCTexts ==
  {Where(c) : c \in Combined \cup Clauses}
  \cup {"SELECT hostname WHERE os_info.os LIKE '" \o p \o "'" : p \in Patterns}
  \cup Totals
  \cup {"SELECT SUM(os_info.os) LIMIT 1", "SELECT * FROM * ORDER BY os_info.os DESC, hostname LIMIT 2",
        "SELECT hostname WHERE os_info.os = 'it''s'", "SELECT hostname WHERE os_info.os = 'open",
        "SELECT hostname WHERE disk.pct = web.", "SELECT count(hostname", "SELECT a-b.c, d WHERE x ~ 1"}
=============================================================================
