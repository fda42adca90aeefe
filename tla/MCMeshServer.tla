---------------------------- MODULE MCMeshServer ----------------------------
EXTENDS MeshServer, TLC

CONSTANTS a1, a2, a3, c1, c2, w1, w2

MCAgents == {a1, a2, a3}
MCConns == {c1, c2}
MCWorkers == {w1, w2}
\* Every agent has a host of its own.
OwnDomain == [a \in Agents |-> a]
\* a1 and a2 share a rack: when one keeps rebooting the other is risky too.
RackDomain == [a \in Agents |-> IF a = a3 THEN "rack2" ELSE "rack1"]
MCSymmetry == Permutations({a1, a2}) \cup Permutations(MCConns) \cup Permutations(MCWorkers)

\* One agent that reconnects.
OneAgent == {a1}
OneWorker == {w1}
=============================================================================
