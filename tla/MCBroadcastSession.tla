------------------------ MODULE MCBroadcastSession ------------------------
(* Two zone-leader streams; the second one's subtree also holds an agent   *)
(* that is not a target of the broadcast.                                  *)
EXTENDS BroadcastSession, TLC

CONSTANTS a1, a2, a3, z1, z2, h1, h2

MCAgents == {a1, a2, a3}
MCTargets == {a1, a2}
MCStreams == {z1, z2}
MCSubtree == [s \in MCStreams |-> IF s = z1 THEN {a1} ELSE {a2, a3}]
MCHandlers == {h1, h2}
=============================================================================
