---------------------------- MODULE MCRelayMesh ----------------------------
EXTENDS RelayMesh

CONSTANTS a1, a2, a3, z, c1, c2, c3, c4, c5

MCAgents == {a1, a2, a3, z}
MCConns == {c1, c2, c3, c4, c5}
Upstreams(u2, u3) ==
  [a \in MCAgents |-> CASE a = a2 -> u2 [] a = a3 -> u3 [] OTHER -> Server]
Budget(cuts, crashes, hints, restarts) ==
  [cut |-> cuts, crash |-> crashes, hint |-> hints, restart |-> restarts]
Scenario(u2, u3, new, f, room, b) ==
  [tree |-> Upstreams(u2, u3), arriving |-> new, fallbacks |-> f, maxChildren |-> room, budget |-> b]
\* One fault of any kind in a chain below one zone leader, in a pair below it, or
\* with one agent below each of two, there being a zone leader to fall back to; a
\* crash that agents without fallbacks meet, with and without room for them; a cut
\* while the end of the chain arrives; two crashes in a chain.
MCScenarios ==
  {Scenario(a1, u, {}, "given", 2, b) : u \in {a2, a1, z},
                                     b \in {Budget(1, 0, 0, 0), Budget(0, 1, 0, 1), Budget(0, 0, 1, 0)}}
  \cup {Scenario(a1, z, {}, "early", room, Budget(0, 1, 0, 0)) : room \in {1, 2}}
  \cup {Scenario(a1, a2, {a3}, "given", 2, Budget(1, 0, 0, 0))}
  \cup {Scenario(a1, a2, {}, f, 2, Budget(0, 2, 0, 0)) : f \in {"early", "given"}}
MCRestarting == {a2, a3}
=============================================================================
