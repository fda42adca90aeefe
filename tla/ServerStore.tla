---------------------------- MODULE ServerStore ----------------------------
(***************************************************************************)
(* What the server keeps in the database and who keeps it: the agents      *)
(* table (role, parent_id, online, last_seen_at), the topology snapshotter *)
(* that writes it row by row, Rehydrate that reads it back at a start, the *)
(* reaper, and the election that decides which of several servers - pods - *)
(* is ready for agents to connect to.                                      *)
(*                                                                         *)
(* The mesh is taken as it is: agents attach, break off and die; a relay   *)
(* that is connected reports what it sees at once (RelayMesh has how).     *)
(* Of a pod's topology, its role, parent and online records matter here    *)
(* (MeshTopology has the rest).                                            *)
(***************************************************************************)
EXTENDS Integers, FiniteSets

CONSTANTS
  Agents, Pods, None,
  Stale,      \* how many of the reaper's rounds a row lasts without being touched
  Scenarios   \* the tree to start from; the pods; whether they elect a leader and time
              \* passes; how often agents may move or die, pods crash or lose their
              \* session, and snapshots are begun

ASSUME StoreAssumption ==
  /\ Stale \in Nat \ {0}
  /\ IsFiniteSet(Pods) /\ None \notin Agents \cup Pods
  /\ \A s \in Scenarios :
       /\ s.tree \in [Agents -> Agents \cup {None}]
       /\ s.pods \subseteq Pods /\ s.pods # {}
       /\ {s.election, s.ticking} \subseteq {"yes", "no"}
       /\ s.budget \in [{"move", "die", "crash", "session", "snapshot"} -> Nat]

VARIABLES
  conf,            \* the scenario
  row,             \* the agents table
  pod,             \* each pod: "down", "starting", "serving", or "stuck" in a loop
  tree,            \* each pod's MeshTopology
  snap,            \* the snapshot it is writing
  streams,         \* the agents with a stream to it
  isLeader, session, lock,  \* postgresLeader: its flag, its connection; the advisory lock
  up, alive,       \* the mesh: what each agent is connected to
  reaped,          \* the pods whose reaper ran since the clock last moved
  budget,
  unsaved          \* history: agents placed anew since the view of the last whole snapshot

electionVars == <<isLeader, session, lock>>
meshVars == <<up, alive>>
vars == <<conf, row, pod, tree, snap, streams, electionVars, meshVars, reaped, budget, unsaved>>

NoSnap == [view |-> <<>>, todo |-> {}, half |-> None]
RoleIn(t, a) == IF t[a] = None THEN "zone_leader" ELSE "relay"
Blank == [role |-> "", parent |-> None, online |-> "no", wired |-> "no"]

\* The pods are down, the table holds the tree, and nobody is connected.
Init ==
  \E s \in Scenarios :
    /\ conf = s
    /\ row = [a \in Agents |-> [role |-> RoleIn(s.tree, a), parent |-> s.tree[a], online |-> "yes", age |-> 0]]
    /\ pod = [p \in Pods |-> "down"]
    /\ tree = [p \in Pods |-> [a \in Agents |-> Blank]]
    /\ snap = [p \in Pods |-> NoSnap]
    /\ streams = [p \in Pods |-> {}]
    /\ isLeader = {} /\ session = {} /\ lock = None
    /\ up = [a \in Agents |-> s.tree[a]] /\ alive = Agents
    /\ reaped = {}
    /\ budget = s.budget
    /\ unsaved = {}

Spend(kind) == budget[kind] > 0 /\ budget' = [budget EXCEPT ![kind] = @ - 1]

-----------------------------------------------------------------------------
(***************************************************************************)
(* Walks: over parents in memory and in the table, and over the real       *)
(* connections.                                                            *)
(***************************************************************************)
\* n and what a walk up meets, in any number of steps.
Upward(n, parent) ==
  LET at[k \in 0..Cardinality(Agents)] ==
        IF k = 0 THEN {n} ELSE at[k - 1] \cup {parent[x] : x \in at[k - 1] \cap Agents}
  IN  at[Cardinality(Agents)] \cap Agents

Parents(records) == [a \in Agents |-> records[a].parent]
OnCycle(a, parent) == parent[a] # None /\ a \in Upward(parent[a], parent)

\* A subtree in memory goes by the children sets.
Wiring(t) == [a \in Agents |-> IF t[a].wired = "yes" THEN t[a].parent ELSE None]
SubtreeIDs(t, root) == {a \in Agents : root \in Upward(a, Wiring(t))}

\* WITH RECURSIVE subtree, in the table; its depth bound only cuts cycles short.
DBSubtree(root) == {a \in Agents : root \in Upward(a, Parents(row))}

\* The pod an agent's connections lead to.
PodOf(a) ==
  LET at[k \in 0..Cardinality(Agents)] == IF k = 0 THEN a ELSE IF at[k - 1] \in Agents THEN up[at[k - 1]] ELSE at[k - 1]
  IN  at[Cardinality(Agents)]
Below(a) == {x \in Agents : a \in Upward(x, up)}

-----------------------------------------------------------------------------
(***************************************************************************)
(* The agents table.                                                       *)
(***************************************************************************)
\* UpdateAgentHeartbeat
Heartbeat(r, as) == [a \in Agents |-> IF a \in as THEN [r[a] EXCEPT !.online = "yes", !.age = 0] ELSE r[a]]

\* MarkAgentTreeOffline
MarkAgentTreeOffline(root) ==
  [a \in Agents |-> IF a \in DBSubtree(root) THEN [row[a] EXCEPT !.online = "no"] ELSE row[a]]

\* TouchAgentTree, from each of the roots; offline rows stay as they are.
TouchAgentTree(roots) ==
  [a \in Agents |-> IF row[a].online = "yes" /\ \E z \in roots : a \in DBSubtree(z) THEN [row[a] EXCEPT !.age = 0] ELSE row[a]]

\* MarkStaleAgentsOffline
MarkStaleAgentsOffline(r) ==
  [a \in Agents |-> IF r[a].age >= Stale THEN [r[a] EXCEPT !.online = "no"] ELSE r[a]]

-----------------------------------------------------------------------------
(***************************************************************************)
(* A pod starts, is elected, and stops.                                    *)
(***************************************************************************)
\* Start up to the election's goroutine, which is running before the topology is read.
StartPod(p) ==
  /\ p \in conf.pods /\ pod[p] = "down"
  /\ pod' = [pod EXCEPT ![p] = "starting"]
  /\ UNCHANGED <<conf, row, tree, snap, streams, electionVars, meshVars, reaped, budget, unsaved>>

\* The topology Rehydrate makes: what no zone leader leads to is not wired.
Restored ==
  LET reached == {a \in Agents : \E z \in Upward(a, Parents(row)) : row[z].role = "zone_leader"} IN
  [a \in Agents |->
     [role |-> row[a].role, parent |-> row[a].parent, online |-> row[a].online,
      wired |-> IF row[a].parent # None /\ row[a].parent \in reached THEN "yes" ELSE "no"]]

\* rehydrateTopology: the walk down from a zone leader that is below itself never ends.
RehydrateTopology(p) ==
  /\ pod[p] = "starting"
  /\ \/ /\ \E z \in Agents : row[z].role = "zone_leader" /\ OnCycle(z, Parents(row))
        /\ pod' = [pod EXCEPT ![p] = "stuck"]
        /\ UNCHANGED <<tree, unsaved>>
     \/ /\ \A z \in Agents : row[z].role = "zone_leader" => ~OnCycle(z, Parents(row))
        /\ pod' = [pod EXCEPT ![p] = "serving"]
        /\ tree' = [tree EXCEPT ![p] = Restored]
        /\ unsaved' = IF \E q \in Pods \ {p} : pod[q] = "serving" THEN unsaved ELSE {}
  /\ UNCHANGED <<conf, row, snap, streams, electionVars, meshVars, reaped, budget>>

\* Mutant of LeaderPoll: a leader does not look whether its connection still lives.
LeaderPollTrusting(p) ==
  /\ conf.election = "yes" /\ pod[p] # "down" /\ p \notin isLeader
  /\ \/ /\ p \notin session /\ session' = session \cup {p} /\ UNCHANGED <<isLeader, lock>>
     \/ /\ p \in session /\ lock = None
        /\ lock' = p /\ isLeader' = isLeader \cup {p} /\ UNCHANGED session
  /\ UNCHANGED <<conf, row, pod, tree, snap, streams, meshVars, reaped, budget, unsaved>>

\* One turn of postgresLeader.Run: connect; a leader pings, and steps down if that
\* fails; a standby tries the lock.
LeaderPoll(p) ==
  /\ conf.election = "yes" /\ pod[p] # "down"
  /\ \/ p \notin session /\ session' = session \cup {p} /\ isLeader' = isLeader \ {p} /\ UNCHANGED lock
     \/ /\ p \in session \ isLeader /\ lock = None
        /\ lock' = p /\ isLeader' = isLeader \cup {p} /\ UNCHANGED session
  /\ UNCHANGED <<conf, row, pod, tree, snap, streams, meshVars, reaped, budget, unsaved>>

\* The connection of the election is lost, and PostgreSQL frees its lock.
LoseSession(p) ==
  /\ Spend("session")
  /\ p \in session
  /\ session' = session \ {p}
  /\ lock' = IF lock = p THEN None ELSE lock
  /\ UNCHANGED <<conf, row, pod, tree, snap, streams, isLeader, meshVars, reaped, unsaved>>

\* The process ends, or is stopped.
StopPod(p) ==
  /\ Spend("crash")
  /\ pod[p] # "down"
  /\ pod' = [pod EXCEPT ![p] = "down"]
  /\ snap' = [snap EXCEPT ![p] = NoSnap]
  /\ streams' = [streams EXCEPT ![p] = {}]
  /\ isLeader' = isLeader \ {p} /\ session' = session \ {p}
  /\ lock' = IF lock = p THEN None ELSE lock
  /\ up' = [a \in Agents |-> IF up[a] = p THEN None ELSE up[a]]
  /\ reaped' = reaped \ {p}
  /\ UNCHANGED <<conf, row, tree, alive, unsaved>>

\* handleReadyz
Ready(p) == pod[p] = "serving" /\ (conf.election = "no" \/ p \in isLeader)

-----------------------------------------------------------------------------
(***************************************************************************)
(* The snapshotter and the reaper.                                         *)
(***************************************************************************)
\* snapshotTopologyOnce takes one view of the tree ...
TakeSnapshot(p) ==
  /\ Spend("snapshot")
  /\ pod[p] = "serving" /\ snap[p] = NoSnap
  /\ snap' = [snap EXCEPT ![p] = [view |-> tree[p], todo |-> Agents, half |-> None]]
  /\ UNCHANGED <<conf, row, pod, tree, streams, electionVars, meshVars, reaped, unsaved>>

\* ... and writes it, in any order, each agent's role and then
WriteRole(p, a) ==
  /\ snap[p].half = None /\ a \in snap[p].todo
  /\ snap' = [snap EXCEPT ![p].half = a]
  /\ row' = IF snap[p].view[a].role = "" THEN row ELSE [row EXCEPT ![a].role = snap[p].view[a].role]
  /\ UNCHANGED <<conf, pod, tree, streams, electionVars, meshVars, reaped, budget, unsaved>>

\* Mutant of WriteParent: an agent without a parent keeps the one it had.
WriteParentSet(p) ==
  /\ snap[p].half # None
  /\ LET a == snap[p].half
         left == snap[p].todo \ {a} IN
     /\ row' = IF snap[p].view[a].parent = None THEN row ELSE [row EXCEPT ![a].parent = snap[p].view[a].parent]
     /\ snap' = [snap EXCEPT ![p] = IF left = {} THEN NoSnap ELSE [@ EXCEPT !.todo = left, !.half = None]]
     /\ unsaved' = IF left = {} THEN {x \in Agents : tree[p][x].parent # snap[p].view[x].parent} ELSE unsaved
  /\ UNCHANGED <<conf, pod, tree, streams, electionVars, meshVars, reaped, budget>>

\* its parent.
WriteParent(p) ==
  /\ snap[p].half # None
  /\ LET a == snap[p].half
         left == snap[p].todo \ {a}
         view == snap[p].view IN
     /\ row' = [row EXCEPT ![a].parent = view[a].parent]
     /\ snap' = [snap EXCEPT ![p] = IF left = {} THEN NoSnap ELSE [view |-> view, todo |-> left, half |-> None]]
     /\ unsaved' = IF left = {} THEN {x \in Agents : tree[p][x].parent # view[x].parent \/ tree[p][x].role # view[x].role}
                   ELSE unsaved
  /\ UNCHANGED <<conf, pod, tree, streams, electionVars, meshVars, reaped, budget>>

\* Mutant of ReapStaleAgents: stale rows are only logged.
ReapNothing(p) ==
  /\ pod[p] = "serving" /\ p \notin reaped
  /\ row' = TouchAgentTree(streams[p])
  /\ reaped' = reaped \cup {p}
  /\ UNCHANGED <<conf, pod, tree, snap, streams, electionVars, meshVars, budget, unsaved>>

\* reapStaleAgents; the dispatchers it tells are BroadcastSession's.
ReapStaleAgents(p) ==
  /\ pod[p] = "serving" /\ p \notin reaped
  /\ row' = MarkStaleAgentsOffline(TouchAgentTree(streams[p]))
  /\ reaped' = reaped \cup {p}
  /\ UNCHANGED <<conf, pod, tree, snap, streams, electionVars, meshVars, budget, unsaved>>

\* Time passes: every reaper runs once before it does again.
Clock ==
  /\ conf.ticking = "yes"
  /\ \A p \in conf.pods : pod[p] = "serving" => p \in reaped
  /\ row' = [a \in Agents |-> [row[a] EXCEPT !.age = IF @ < Stale THEN @ + 1 ELSE @]]
  /\ reaped' = {}
  /\ UNCHANGED <<conf, pod, tree, snap, streams, electionVars, meshVars, budget, unsaved>>

-----------------------------------------------------------------------------
(***************************************************************************)
(* What the mesh tells a pod.                                              *)
(***************************************************************************)
MarkOnline(t, as) == [a \in Agents |-> IF a \in as THEN [t[a] EXCEPT !.online = "yes"] ELSE t[a]]

\* AttachObserved (MeshTopology has it whole).
CanAttach(t, a, r) == a # r /\ a \notin Upward(r, Parents(t))
Observed(t, a, r) ==
  IF CanAttach(t, a, r) THEN [t[a] EXCEPT !.role = "relay", !.parent = r, !.wired = "yes"] ELSE t[a]

\* handlePeerConnected: the report of a relay, or its re-announcement of each peer.  The
\* order in which peers are reported makes no difference: attaching one does not change
\* what is above the relay.
Attached(t, r, as) == [a \in Agents |-> IF a \in as THEN Observed(t, a, r) ELSE t[a]]
Reported(t, r, as) == UNION {SubtreeIDs(Attached(t, r, as), a) : a \in as}
PeersConnected(t, r, as) == MarkOnline(Attached(t, r, as), Reported(t, r, as))

Changed(p, t) == {a \in Agents : tree[p][a].role # t[a].role \/ tree[p][a].parent # t[a].parent}
Peers(a) == {x \in alive : up[x] = a}

\* An agent opens a stream to the pod, promoted by RequestPeers unless it was a zone
\* leader, and re-announces its peers.
OpenStream(a, p) ==
  LET promoted == IF tree[p][a].role = "zone_leader" THEN tree[p]
                  ELSE [tree[p] EXCEPT ![a] = [@ EXCEPT !.role = "zone_leader", !.parent = None, !.wired = "no"]]
      t == PeersConnected(MarkOnline(promoted, {a}), a, Peers(a))
  IN
  /\ a \in alive /\ up[a] = None /\ Ready(p)
  /\ tree[p][a].role # "zone_leader" => Spend("move")
  /\ tree[p][a].role = "zone_leader" => UNCHANGED budget
  /\ up' = [up EXCEPT ![a] = p]
  /\ streams' = [streams EXCEPT ![p] = @ \cup {a}]
  /\ tree' = [tree EXCEPT ![p] = t]
  /\ row' = Heartbeat(row, {a} \cup Reported(promoted, a, Peers(a)))
  /\ unsaved' = unsaved \cup Changed(p, t)
  /\ UNCHANGED <<conf, pod, snap, electionVars, alive, reaped>>

\* An agent attaches to a relay, which reports it.
Attach(a, r) ==
  LET p == PodOf(r)
      t == PeersConnected(tree[p], r, {a})
  IN
  /\ {a, r} \subseteq alive /\ up[a] = None /\ r \notin Below(a)
  /\ p \in Pods /\ pod[p] = "serving"
  /\ Spend("move")
  /\ up' = [up EXCEPT ![a] = r]
  /\ tree' = [tree EXCEPT ![p] = t]
  /\ row' = Heartbeat(row, Reported(tree[p], r, {a}))
  /\ unsaved' = unsaved \cup Changed(p, t)
  /\ UNCHANGED <<conf, pod, snap, streams, electionVars, alive, reaped>>

\* closeAgentStream, handlePeerDisconnected: what was below is offline, as memory and
\* as the table have it.
Gone(p, a) ==
  /\ tree' = [tree EXCEPT ![p] = [x \in Agents |-> IF x \in SubtreeIDs(@, a) THEN [@[x] EXCEPT !.online = "no"] ELSE @[x]]]
  /\ row' = MarkAgentTreeOffline(a)
  /\ streams' = [streams EXCEPT ![p] = @ \ {a}]

\* A connection breaks, or with it the agent dies; the other end reports it if it can.
Leave(a) ==
  LET p == IF up[a] = None THEN None ELSE PodOf(up[a]) IN
  IF p \in Pods /\ pod[p] = "serving" THEN Gone(p, a) ELSE UNCHANGED <<tree, row, streams>>

Break(a) ==
  /\ Spend("move")
  /\ a \in alive /\ up[a] # None
  /\ Leave(a)
  /\ up' = [up EXCEPT ![a] = None]
  /\ UNCHANGED <<conf, pod, snap, electionVars, alive, reaped, unsaved>>

Die(a) ==
  /\ Spend("die")
  /\ a \in alive
  /\ Leave(a)
  /\ alive' = alive \ {a}
  /\ up' = [x \in Agents |-> IF x = a \/ up[x] = a THEN None ELSE up[x]]
  /\ UNCHANGED <<conf, pod, snap, electionVars, reaped, unsaved>>

-----------------------------------------------------------------------------
PodStep(p) ==
  \/ StartPod(p) \/ RehydrateTopology(p) \/ ReapStaleAgents(p)
Write(p) == TakeSnapshot(p) \/ WriteParent(p) \/ \E a \in Agents : WriteRole(p, a)
AgentStep(a) ==
  \/ \E p \in Pods : OpenStream(a, p)
  \/ \E r \in Agents : Attach(a, r)

Next ==
  \/ Clock
  \/ \E p \in Pods : PodStep(p) \/ LeaderPoll(p) \/ Write(p) \/ LoseSession(p) \/ StopPod(p)
  \/ \E a \in Agents : AgentStep(a) \/ Break(a) \/ Die(a)

Spec == Init /\ [][Next]_vars

\* Every loop of a pod that is up comes round.
FairSpec ==
  /\ Spec
  /\ WF_vars(Clock)
  /\ \A p \in Pods : WF_vars(PodStep(p)) /\ WF_vars(LeaderPoll(p))

-----------------------------------------------------------------------------
\* What a restart would restore is the tree as it is, for all agents but those placed
\* anew since the last snapshot that was written to its end was begun; also after a
\* snapshot that a crash cut short, and whatever moved while one was written.  One pod.
DiskIsCurrent ==
  \A p \in Pods : Cardinality(conf.pods) = 1 /\ pod[p] = "serving" =>
    \A a \in Agents \ unsaved : row[a].role = tree[p][a].role /\ row[a].parent = tree[p][a].parent

\* Whatever crashes and whichever connections are lost, of the pods that take themselves
\* for the leader only the one with the lock still has a session: another leader can only
\* be one that was cut off and has not noticed.
LeadersHoldTheLock == isLeader \cap session \subseteq {lock}

\* Crashes and lost database sessions end with exactly one pod ready, and it has the
\* lock: a leader cut off gives way, and there is none too few.
OneLeaderInTheEnd ==
  conf.election = "yes" => <>[](\E p \in Pods : isLeader = {p} /\ lock = p /\ Ready(p))

\* The table puts a below an agent with a stream.
Covered(a) == \E p \in Pods : \E z \in streams[p] : a \in DBSubtree(z)

\* However the death of an agent went unnoticed, it is taken for offline in the end,
\* unless the table still puts it below an agent with a stream: again and again each
\* agent is alive, or so covered, or offline in the table.
ReapsTheUncovered == \A a \in Agents : conf.ticking = "yes" => []<>(a \in alive \/ Covered(a) \/ row[a].online = "no")

\* server.go:212-218, on why the snapshot is taken at once: otherwise "A.parent=B (read
\* early) together with B.parent=A (read late): a cycle that never existed in memory
\* ... and it survives a restart because it is on disk".
NeverLostInACycle == \A p \in Pods : pod[p] # "stuck"
=============================================================================
