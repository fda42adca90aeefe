--------------------------- MODULE MCCredentials ---------------------------
EXTENDS Credentials

CONSTANTS z, c

Times(stops, crashes, ages, expiries) ==
  [k \in {"stop", "crash", "age", "expire"} |->
     CASE k = "stop" -> stops [] k = "crash" -> crashes [] k = "age" -> ages [] k = "expire" -> expiries]
Scenario(up, ca, pinned, rotate, times) ==
  [upstream |-> up, ca |-> ca, pinned |-> pinned, rotate |-> rotate, budget |-> times]
Chain == [a \in Agents |-> IF a = z THEN Server ELSE z]
Star == [a \in Agents |-> Server]

\* A zone leader and its child, with nothing exchanged; zone leaders while the CA or the
\* signing key is, and while certificates age.  Tokens expire below a relay that crashes,
\* and at a server that remembers them and one that was started again.
MCScenarios ==
  {Scenario(Chain, how, pin, {}, Times(2, 2, 1, 0)) : how \in {"inline", "file"}, pin \in {"yes", "no"}}
  \cup {Scenario(Chain, "file", "no", {}, Times(1, 2, 0, 2))}
  \cup {Scenario(Star, "file", "no", {"ca"}, Times(1, 1, 0, 0)), Scenario(Star, "file", "no", {"signing_key"}, Times(1, 1, 0, 0)),
        Scenario(Star, "file", "no", {"signing_key"}, Times(0, 1, 0, 1)),
        Scenario(Star, "file", "no", {}, Times(1, 1, 2, 0)), Scenario(Star, "file", "no", {}, Times(1, 2, 0, 2))}
=============================================================================
