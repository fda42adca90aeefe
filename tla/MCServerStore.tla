--------------------------- MODULE MCServerStore ---------------------------
EXTENDS ServerStore

CONSTANTS z, b, c, p1, p2

Faults(moves, deaths, crashes, cuts, snapshots) ==
  [k \in {"move", "die", "crash", "session", "snapshot"} |->
     CASE k = "move" -> moves [] k = "die" -> deaths [] k = "crash" -> crashes
       [] k = "session" -> cuts [] k = "snapshot" -> snapshots]
Scenario(shape, ps, clock, faults) ==
  [tree |-> shape, pods |-> ps, ticking |-> clock, budget |-> faults,
   election |-> IF Cardinality(ps) > 1 THEN "yes" ELSE "no"]
Line == [a \in Agents |-> CASE a = b -> z [] a = c -> b [] OTHER -> None]
Fan == [a \in Agents |-> IF a = z THEN None ELSE z]

\* Moves, a crash and snapshots; deaths and time; two pods that elect a leader.
MCScenarios ==
  {Scenario(Line, {p1}, "no", Faults(3, 0, 1, 0, 2)), Scenario(Fan, {p1}, "no", Faults(4, 0, 0, 0, 2)),
   Scenario(Line, {p1}, "yes", Faults(0, 2, 1, 0, 1)),
   Scenario(Fan, {p1, p2}, "no", Faults(0, 0, 2, 2, 0))}
=============================================================================
