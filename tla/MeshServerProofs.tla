-------------------------- MODULE MeshServerProofs --------------------------
(***************************************************************************)
(* For any agents, streams and goroutines:                                 *)
(*   - the routing table never points at a dead stream;                    *)
(*   - a registered agent that has no role yet is in the hands of a        *)
(*     goroutine that will give it one.                                    *)
(* Neither is inductive alone: methods take registered agents that were    *)
(* read earlier (ServerTypeOK says those are Agents), and a goroutine's    *)
(* record must keep its shape for its agent to survive a step.             *)
(***************************************************************************)
EXTENDS MeshServer, TLAPS

Streams == [agent : Agents \cup {NoAgent}, phase : {"none", "routed", "open", "closed"},
            reassigned : {"yes", "no"}]
PlacingOps == {"count_slots", "check_host", "place", "place_commit", "promote"}

ServerTypeOK ==
  /\ nodes \subseteq Agents
  /\ role \in [Agents -> {"", "zone_leader", "relay"}]

TasksAreJobs ==
  /\ task = [g \in Goroutines |-> task[g]]
  /\ \A g \in Goroutines : task[g] = Job(task[g].op, task[g].a, task[g].p, task[g].s)

RoutingTypeOK ==
  /\ streams \in [Agents -> Conns \cup {NoConn}]
  /\ conn \in [Conns -> Streams]

-----------------------------------------------------------------------------
(***************************************************************************)
(* The topology.                                                           *)
(***************************************************************************)
LEMMA ServerInitType == Init => ServerTypeOK
BY DEF Init, T!Init, ServerTypeOK

\* A method of the topology that the handlers call keeps the type.
LEMMA TopologyType ==
  ASSUME ServerTypeOK, [T!Next]_(T!vars) PROVE ServerTypeOK'
<1>1. CASE UNCHANGED T!vars  BY <1>1 DEF ServerTypeOK, T!vars, T!links
<1>2. ASSUME NEW a \in Agents,
             \/ T!AddAgent(a) \/ T!MarkOnline(a) \/ T!MarkOffline(a) \/ T!MarkSubtreeOffline(a) \/ T!Decay(a)
             \/ T!AssignZoneLeader(a) \/ T!ClearParent(a) \/ T!Remove(a)
      PROVE  ServerTypeOK'
  BY <1>2 DEF ServerTypeOK, T!AddAgent, T!MarkOnline, T!MarkOffline, T!MarkSubtreeOffline, T!Decay,
     T!AssignZoneLeader, T!ClearParent, T!Remove, T!links
<1>3. ASSUME NEW a \in Agents, NEW p \in Agents,
             T!AssignChild(a, p) \/ T!AttachObserved(a, p) \/ T!AttachObservedHangs(a, p)
      PROVE  ServerTypeOK'
  BY <1>3 DEF ServerTypeOK, T!AssignChild, T!AttachObserved, T!AttachObservedHangs, T!Link, T!links
<1> QED  BY <1>1, <1>2, <1>3 DEF T!Next

LEMMA TopologyStutters == ASSUME UNCHANGED topology PROVE UNCHANGED T!vars
BY DEF topology, T!vars, T!links

\* Marking a node online that is not registered changes nothing.
LEMMA OnlineStep == ASSUME ServerTypeOK, NEW a, T!MarkOnline(a) PROVE [T!Next]_(T!vars)
<1>1. CASE a \in nodes
  <2>1. a \in Agents  BY <1>1 DEF ServerTypeOK
  <2> QED  BY <2>1 DEF T!Next
<1>2. CASE a \notin nodes
  BY <1>2 DEF T!MarkOnline, T!vars, T!links
<1> QED  BY <1>1, <1>2

LEMMA AssignStep == ASSUME ServerTypeOK, NEW a, NEW p, T!AssignChild(a, p) PROVE T!Next
<1>1. a \in Agents /\ p \in Agents  BY DEF ServerTypeOK, T!AssignChild, T!CanAdopt
<1> QED  BY <1>1 DEF T!Next

LEMMA LoseStep == ASSUME ServerTypeOK, NEW a, T!MarkSubtreeOffline(a) PROVE T!Next
<1>1. a \in Agents  BY DEF ServerTypeOK, T!MarkSubtreeOffline
<1> QED  BY <1>1 DEF T!Next

LEMMA AttachStep ==
  ASSUME ServerTypeOK, NEW a, NEW p, T!AttachObserved(a, p) \/ T!AttachObservedHangs(a, p)
  PROVE  T!Next
<1>1. a \in Agents /\ p \in Agents  BY DEF ServerTypeOK, T!AttachObserved, T!AttachObservedHangs
<1> QED  BY <1>1 DEF T!Next

LEMMA PromoteStep == ASSUME ServerTypeOK, NEW a, T!AssignZoneLeader(a) PROVE T!Next
<1>1. a \in Agents  BY DEF ServerTypeOK, T!AssignZoneLeader
<1> QED  BY <1>1 DEF T!Next

\* Every step of the server is a method of the topology, or leaves it alone.
LEMMA ServerStep == ASSUME ServerTypeOK, [Next]_vars PROVE [T!Next]_(T!vars)
<1>1. CASE UNCHANGED vars  BY <1>1, TopologyStutters DEF vars
<1>2. ASSUME NEW a \in Agents, Decay(a) PROVE [T!Next]_(T!vars)
  BY <1>2 DEF Decay, T!Next
<1>3. ASSUME NEW w \in Workers, NEW a \in Agents, Register(w, a) PROVE [T!Next]_(T!vars)
  BY <1>3 DEF Register, T!Next
<1>4. ASSUME NEW w \in Workers, NEW a \in Agents,
             RequestPeers(w, a) \/ StartOrphans(w, a) \/ StartFill(w, a)
      PROVE  [T!Next]_(T!vars)
  BY <1>4, TopologyStutters DEF RequestPeers, StartOrphans, StartFill
<1>5. ASSUME NEW w \in Workers,
             CountSlots(w) \/ CheckHost(w) \/ PlaceFind(w) \/ OrphanFind(w) \/ OrphanHint(w) \/ FillPick(w)
      PROVE  [T!Next]_(T!vars)
  BY <1>5, TopologyStutters DEF CountSlots, CheckHost, PlaceFind, OrphanFind, OrphanHint, FillPick
<1>6. ASSUME NEW w \in Workers, PlaceCommit(w) \/ RequestCommit(w) PROVE [T!Next]_(T!vars)
  <2>1. CASE T!AssignChild(task[w].a, task[w].p)  BY <2>1, AssignStep
  <2>2. CASE UNCHANGED topology  BY <2>2, TopologyStutters
  <2> QED  BY <1>6, <2>1, <2>2 DEF PlaceCommit, RequestCommit
<1>7. ASSUME NEW w \in Workers, Promote(w) PROVE [T!Next]_(T!vars)
  BY <1>7, PromoteStep DEF Promote
<1>8. ASSUME NEW c \in Conns, NEW a \in Agents, OpenStream(c, a) \/ PeerDisconnected(c, a)
      PROVE  [T!Next]_(T!vars)
  BY <1>8, TopologyStutters DEF OpenStream, PeerDisconnected
<1>9. ASSUME NEW c \in Conns, NEW a \in Agents, NEW p \in Agents, PeerConnected(c, a, p)
      PROVE  [T!Next]_(T!vars)
  BY <1>9, TopologyStutters DEF PeerConnected
<1>10. ASSUME NEW c \in Conns, StreamOnline(c) PROVE [T!Next]_(T!vars)
  BY <1>10, OnlineStep DEF StreamOnline
<1>11. ASSUME NEW c \in Conns, CloseStream(c) \/ Vouch(c) PROVE [T!Next]_(T!vars)
  BY <1>11, TopologyStutters DEF CloseStream, Vouch
<1>12. ASSUME NEW c \in Conns, LoseSubtree(c) PROVE [T!Next]_(T!vars)
  BY <1>12, LoseStep DEF LoseSubtree
<1>13. ASSUME NEW c \in Conns, Attach(c) PROVE [T!Next]_(T!vars)
  <2>1. CASE T!AttachObserved(task[c].a, task[c].p) \/ T!AttachObservedHangs(task[c].a, task[c].p)
    BY <2>1, AttachStep
  <2>2. CASE UNCHANGED topology  BY <2>2, TopologyStutters
  <2> QED  BY <1>13, <2>1, <2>2 DEF Attach
<1>14. ASSUME NEW c \in Conns, Revive(c) PROVE [T!Next]_(T!vars)
  BY <1>14, OnlineStep DEF Revive
<1>15. ASSUME NEW c \in Conns, Lose(c) PROVE [T!Next]_(T!vars)
  <2>1. CASE T!MarkSubtreeOffline(task[c].a)  BY <2>1, LoseStep
  <2>2. CASE UNCHANGED topology  BY <2>2, TopologyStutters
  <2> QED  BY <1>15, <2>1, <2>2 DEF Lose
<1> QED
  BY <1>1, <1>2, <1>3, <1>4, <1>5, <1>6, <1>7, <1>8, <1>9, <1>10, <1>11, <1>12, <1>13, <1>14, <1>15
  DEF Next

LEMMA ServerTypeStep == ServerTypeOK /\ [Next]_vars => ServerTypeOK'
BY ServerStep, TopologyType

-----------------------------------------------------------------------------
(***************************************************************************)
(* The routing table.                                                      *)
(***************************************************************************)
RoutingInv == RoutingTypeOK /\ NoDeadRoute

LEMMA RoutingInit == Init => RoutingInv
BY DEF Init, RoutingInv, RoutingTypeOK, NoDeadRoute, NoStream, Streams

LEMMA RoutingKept == ASSUME RoutingInv, UNCHANGED routing PROVE RoutingInv'
BY DEF routing, RoutingInv, RoutingTypeOK, NoDeadRoute

LEMMA RoutingStep == RoutingInv /\ [Next]_vars => RoutingInv'
<1> SUFFICES ASSUME RoutingInv, [Next]_vars PROVE RoutingInv'  OBVIOUS
<1> USE DEF RoutingInv
<1>1. CASE UNCHANGED routing  BY <1>1, RoutingKept
<1>2. ASSUME NEW c \in Conns, NEW a \in Agents, OpenStream(c, a) PROVE RoutingInv'
  <2>1. RoutingTypeOK'  BY <1>2 DEF OpenStream, NoStream, RoutingTypeOK, Streams
  <2>2. conn[c].phase = "none"  BY <1>2 DEF OpenStream, NoStream
  <2>3. \A b \in Agents : streams[b] # c \/ c = NoConn  BY <2>2 DEF NoDeadRoute
  <2>4. \A d \in Conns \ {c} : conn'[d] = conn[d]  BY <1>2 DEF OpenStream, RoutingTypeOK
  <2>5. conn'[c].agent = a /\ conn'[c].phase = "routed"
    BY <1>2 DEF OpenStream, RoutingTypeOK, NoStream
  <2>6. streams'[a] = c /\ \A b \in Agents \ {a} : streams'[b] = streams[b]
    BY <1>2 DEF OpenStream, RoutingTypeOK
  <2>7. NoDeadRoute'
    BY <2>3, <2>4, <2>5, <2>6 DEF NoDeadRoute, RoutingTypeOK
  <2> QED  BY <2>1, <2>7
<1>3. ASSUME NEW c \in Conns, StreamOnline(c) PROVE RoutingInv'
  <2>1. RoutingTypeOK'  BY <1>3 DEF StreamOnline, RoutingTypeOK, Streams
  <2>2. \A d \in Conns : conn'[d].agent = conn[d].agent /\ conn'[d].phase \in {conn[d].phase, "open"}
    BY <1>3 DEF StreamOnline, RoutingTypeOK, Streams
  <2>3. streams' = streams  BY <1>3 DEF StreamOnline
  <2>4. NoDeadRoute'  BY <2>2, <2>3 DEF NoDeadRoute, RoutingTypeOK
  <2> QED  BY <2>1, <2>4
<1>4. ASSUME NEW c \in Conns, CloseStream(c) PROVE RoutingInv'
  <2>1. RoutingTypeOK'  BY <1>4 DEF CloseStream, NoStream, RoutingTypeOK, Streams
  <2>2. \A d \in Conns \ {c} : conn'[d] = conn[d]  BY <1>4 DEF CloseStream, RoutingTypeOK
  <2>3. \A b \in Agents : streams'[b] = IF b = conn[c].agent THEN NoConn ELSE streams[b]
    BY <1>4 DEF CloseStream, RoutingTypeOK
  <2>4. \A b \in Agents : streams'[b] # NoConn => streams'[b] = streams[b] /\ streams[b] # c
    BY <2>3 DEF NoDeadRoute
  <2>5. NoDeadRoute'  BY <2>2, <2>4 DEF NoDeadRoute, RoutingTypeOK
  <2> QED  BY <2>1, <2>5
<1>5. ASSUME NEW c \in Conns, LoseSubtree(c) PROVE RoutingInv'
  <2>1. RoutingTypeOK'  BY <1>5 DEF LoseSubtree, NoStream, RoutingTypeOK, Streams
  <2>2. \A d \in Conns \ {c} : conn'[d] = conn[d]  BY <1>5 DEF LoseSubtree, RoutingTypeOK
  <2>3. streams' = streams /\ conn[c].phase = "closed"  BY <1>5 DEF LoseSubtree
  <2>4. \A b \in Agents : streams[b] # NoConn => streams[b] # c  BY <2>3 DEF NoDeadRoute
  <2>5. NoDeadRoute'  BY <2>2, <2>3, <2>4 DEF NoDeadRoute, RoutingTypeOK
  <2> QED  BY <2>1, <2>5
<1>6. ASSUME NEW w \in Workers, OrphanHint(w) PROVE RoutingInv'
  <2>1. RoutingTypeOK'  BY <1>6 DEF OrphanHint, RoutingTypeOK, Streams
  <2>2. \A d \in Conns : conn'[d].agent = conn[d].agent /\ conn'[d].phase = conn[d].phase
    BY <1>6 DEF OrphanHint, RoutingTypeOK, Streams
  <2>3. streams' = streams  BY <1>6 DEF OrphanHint
  <2>4. NoDeadRoute'  BY <2>2, <2>3 DEF NoDeadRoute, RoutingTypeOK
  <2> QED  BY <2>1, <2>4
<1> QED
  BY <1>1, <1>2, <1>3, <1>4, <1>5, <1>6
  DEF Next, vars, Decay, Register, RequestPeers, StartOrphans, StartFill, CountSlots, CheckHost, PlaceFind,
      PlaceCommit, Promote, RequestCommit, OrphanFind, FillPick, PeerDisconnected, PeerConnected,
      Attach, Vouch, Revive, Lose

\* AgentStream, closeAgentStream: however streams of one agent overlap, the routing table
\* only points at calls whose receive loop still runs, under the right agent.
THEOREM RoutesAreAlive == Spec => []NoDeadRoute
<1>1. RoutingInv => NoDeadRoute  BY DEF RoutingInv
<1> QED  BY <1>1, RoutingInit, RoutingStep, PTL DEF Spec

-----------------------------------------------------------------------------
(***************************************************************************)
(* Placement.                                                              *)
(***************************************************************************)
PlacementInv == ServerTypeOK /\ TasksAreJobs /\ EveryRegistrationIsPlaced

LEMMA TasksInit == Init => TasksAreJobs
<1> SUFFICES ASSUME Init PROVE TasksAreJobs  OBVIOUS
<1>1. \A g \in Goroutines : task[g] = Idle  BY DEF Init
<1>2. task = [g \in Goroutines |-> task[g]]  BY DEF Init
<1>3. Idle = Job(Idle.op, Idle.a, Idle.p, Idle.s)  BY DEF Idle, Job
<1> QED  BY <1>1, <1>2, <1>3 DEF TasksAreJobs

\* What a goroutine turns to is a job again.
LEMMA BecomesAJob ==
  ASSUME TasksAreJobs, NEW g \in Goroutines, NEW op, NEW a, NEW p, NEW s,
         task' = [task EXCEPT ![g] = Job(op, a, p, s)]
  PROVE  /\ TasksAreJobs'
         /\ task'[g] = Job(op, a, p, s)
         /\ \A h \in Goroutines \ {g} : task'[h] = task[h]
<1>1. task'[g] = Job(op, a, p, s) /\ \A h \in Goroutines \ {g} : task'[h] = task[h]
  BY DEF TasksAreJobs
<1>2. task' = [h \in Goroutines |-> task'[h]]  BY DEF TasksAreJobs
<1>3. \A h \in Goroutines : task'[h] = Job(task'[h].op, task'[h].a, task'[h].p, task'[h].s)
  BY <1>1 DEF TasksAreJobs, Job
<1> QED  BY <1>1, <1>2, <1>3 DEF TasksAreJobs

LEMMA OpChanged ==
  ASSUME TasksAreJobs, NEW g \in Goroutines, NEW op
  PROVE  [task[g] EXCEPT !.op = op] = Job(op, task[g].a, task[g].p, task[g].s)
<1>1. task[g] = Job(task[g].op, task[g].a, task[g].p, task[g].s)  BY DEF TasksAreJobs
<1> QED  BY <1>1 DEF Job

LEMMA SetChanged ==
  ASSUME TasksAreJobs, NEW g \in Goroutines, NEW s
  PROVE  [task[g] EXCEPT !.s = s] = Job(task[g].op, task[g].a, task[g].p, s)
<1>1. task[g] = Job(task[g].op, task[g].a, task[g].p, task[g].s)  BY DEF TasksAreJobs
<1> QED  BY <1>1 DEF Job

\* No role is taken back.
RolesStay == nodes' = nodes /\ \A x \in Agents : role'[x] = "" => role[x] = ""

\* A goroutine that was not placing an agent turns to anything.
LEMMA OtherWork ==
  ASSUME PlacementInv, RolesStay, NEW g \in Goroutines, task[g].op \notin PlacingOps,
         NEW op, NEW a, NEW p, NEW s, task' = [task EXCEPT ![g] = Job(op, a, p, s)]
  PROVE  TasksAreJobs' /\ EveryRegistrationIsPlaced'
<1>1. TasksAreJobs' /\ \A h \in Goroutines \ {g} : task'[h] = task[h]
  BY BecomesAJob DEF PlacementInv
<1>2. SUFFICES ASSUME NEW x \in nodes, role[x] = ""
               PROVE  \E w \in Workers : task'[w].a = x /\ task'[w].op \in PlacingOps
  BY <1>1 DEF RolesStay, EveryRegistrationIsPlaced, PlacingOps, PlacementInv, ServerTypeOK
<1>3. PICK w \in Workers : task[w].a = x /\ task[w].op \in PlacingOps
  BY <1>2 DEF PlacementInv, EveryRegistrationIsPlaced, PlacingOps
<1>4. task'[w] = task[w]  BY <1>1, <1>3 DEF Goroutines
<1> QED  BY <1>3, <1>4

\* A goroutine that was placing an agent goes on, or has given it a role.
LEMMA PlacingWork ==
  ASSUME PlacementInv, RolesStay, NEW w \in Workers,
         NEW op, NEW a, NEW p, NEW s, task' = [task EXCEPT ![w] = Job(op, a, p, s)],
         (a = task[w].a /\ op \in PlacingOps) \/ (task[w].a \in nodes => role'[task[w].a] # "")
  PROVE  TasksAreJobs' /\ EveryRegistrationIsPlaced'
<1>0. w \in Goroutines  BY DEF Goroutines
<1>1. /\ TasksAreJobs'
      /\ task'[w] = Job(op, a, p, s)
      /\ \A h \in Goroutines \ {w} : task'[h] = task[h]
  BY <1>0, BecomesAJob DEF PlacementInv
<1>2. SUFFICES ASSUME NEW x \in nodes, role'[x] = ""
               PROVE  \E v \in Workers : task'[v].a = x /\ task'[v].op \in PlacingOps
  BY <1>1 DEF RolesStay, EveryRegistrationIsPlaced, PlacingOps
<1>3. PICK v \in Workers : task[v].a = x /\ task[v].op \in PlacingOps
  BY <1>2 DEF PlacementInv, EveryRegistrationIsPlaced, PlacingOps, RolesStay, ServerTypeOK
<1>4. CASE v = w
  <2>1. a = x /\ op \in PlacingOps  BY <1>2, <1>3, <1>4
  <2>2. Job(op, a, p, s).a = a /\ Job(op, a, p, s).op = op  BY DEF Job
  <2>3. task'[w].a = x /\ task'[w].op \in PlacingOps  BY <1>1, <2>1, <2>2
  <2> QED  BY <2>3
<1>5. CASE v # w
  <2>1. task'[v] = task[v]  BY <1>1, <1>5 DEF Goroutines
  <2> QED  BY <1>3, <2>1
<1> QED  BY <1>4, <1>5

LEMMA SameWork ==
  ASSUME PlacementInv, RolesStay, UNCHANGED task
  PROVE  TasksAreJobs' /\ EveryRegistrationIsPlaced'
BY DEF PlacementInv, RolesStay, TasksAreJobs, EveryRegistrationIsPlaced, ServerTypeOK

-----------------------------------------------------------------------------
LEMMA TopologyRolesStay == ASSUME UNCHANGED topology PROVE RolesStay
BY DEF topology, RolesStay

LEMMA MethodRolesStay ==
  ASSUME ServerTypeOK, NEW a, NEW p,
         \/ T!MarkOnline(a) \/ T!MarkSubtreeOffline(a) \/ T!Decay(a) \/ T!AssignZoneLeader(a)
         \/ T!AssignChild(a, p) \/ T!AttachObserved(a, p) \/ T!AttachObservedHangs(a, p)
  PROVE  RolesStay
<1>1. CASE T!MarkOnline(a) \/ T!MarkSubtreeOffline(a) \/ T!Decay(a) \/ T!AttachObservedHangs(a, p)
  BY <1>1 DEF RolesStay, T!MarkOnline, T!MarkSubtreeOffline, T!Decay, T!AttachObservedHangs, T!links
<1>2. CASE T!AssignZoneLeader(a)
  BY <1>2 DEF RolesStay, ServerTypeOK, T!AssignZoneLeader
<1>3. CASE T!AssignChild(a, p) \/ T!AttachObserved(a, p)
  BY <1>3 DEF RolesStay, ServerTypeOK, T!AssignChild, T!AttachObserved, T!Link
<1> QED  BY <1>1, <1>2, <1>3

\* AssignChild and AssignZoneLeader give their agent a role.
LEMMA GivesARole ==
  ASSUME ServerTypeOK, NEW a, NEW p, T!AssignChild(a, p) \/ T!AssignZoneLeader(a)
  PROVE  role'[a] # ""
<1>1. CASE T!AssignChild(a, p)
  BY <1>1 DEF ServerTypeOK, T!AssignChild, T!CanAdopt, T!Link
<1>2. CASE T!AssignZoneLeader(a)
  BY <1>2 DEF ServerTypeOK, T!AssignZoneLeader
<1> QED  BY <1>1, <1>2

-----------------------------------------------------------------------------
LEMMA PlacementStep == PlacementInv /\ [Next]_vars => PlacementInv'
<1> SUFFICES ASSUME PlacementInv, [Next]_vars PROVE PlacementInv'  OBVIOUS
<1> DEFINE Kept == TasksAreJobs' /\ EveryRegistrationIsPlaced'
<1>0. ServerTypeOK /\ ServerTypeOK' /\ TasksAreJobs  BY ServerTypeStep DEF PlacementInv
<1>i. \A g \in Goroutines : task[g] = Idle => task[g].op \notin PlacingOps  BY DEF Idle, Job, PlacingOps
<1>j. Idle = Job("idle", NoAgent, NoAgent, {})  BY DEF Idle
<1>w. Workers \subseteq Goroutines /\ Conns \subseteq Goroutines  BY DEF Goroutines
<1>1. ASSUME UNCHANGED vars PROVE Kept
  BY <1>1, SameWork, TopologyRolesStay DEF vars, work
<1>2. ASSUME NEW a \in Agents, Decay(a) PROVE Kept
  <2>1. T!Decay(a) /\ UNCHANGED task  BY <1>2 DEF Decay, work
  <2>2. RolesStay  BY <1>0, <2>1, MethodRolesStay
  <2> QED  BY <2>1, <2>2, SameWork
<1>3. ASSUME NEW w \in Workers, NEW a \in Agents, Register(w, a) PROVE Kept
  <2>1. task' = [task EXCEPT ![w] = Job("count_slots", a, NoAgent, {})] /\ task[w] = Idle
    BY <1>3 DEF Register, Become, Event
  <2>2. nodes' = nodes \cup {a} /\ role' = role  BY <1>3 DEF Register, T!AddAgent, T!links
  <2>3. /\ TasksAreJobs'
        /\ task'[w] = Job("count_slots", a, NoAgent, {})
        /\ \A h \in Goroutines \ {w} : task'[h] = task[h]
    BY <1>0, <1>w, <2>1, BecomesAJob
  <2>4. SUFFICES ASSUME NEW x \in nodes', role[x] = ""
                 PROVE  \E v \in Workers : task'[v].a = x /\ task'[v].op \in PlacingOps
    BY <2>2, <2>3 DEF EveryRegistrationIsPlaced, PlacingOps
  <2>5. CASE x = a
    <3>1. task'[w].a = a /\ task'[w].op = "count_slots"  BY <2>3 DEF Job
    <3> QED  BY <2>5, <3>1 DEF PlacingOps
  <2>6. CASE x # a
    <3>1. x \in nodes  BY <2>2, <2>6
    <3>2. PICK v \in Workers : task[v].a = x /\ task[v].op \in PlacingOps
      BY <2>4, <3>1 DEF PlacementInv, EveryRegistrationIsPlaced, PlacingOps
    <3>3. v # w  BY <1>i, <1>w, <2>1, <3>2
    <3>4. task'[v] = task[v]  BY <1>w, <2>3, <3>3
    <3> QED  BY <3>2, <3>4
  <2> QED  BY <2>5, <2>6
<1>4. ASSUME NEW w \in Workers, NEW a \in Agents, RequestPeers(w, a) PROVE Kept
  <2>1. task[w].op \notin PlacingOps /\ RolesStay
    BY <1>4, <1>i, <1>w, TopologyRolesStay DEF RequestPeers, Event
  <2>2. PICK op, p : task' = [task EXCEPT ![w] = Job(op, a, p, {})]
    BY <1>4 DEF RequestPeers, Become
  <2> QED  BY <1>w, <2>1, <2>2, OtherWork
<1>5. ASSUME NEW w \in Workers, NEW a \in Agents, StartOrphans(w, a) \/ StartFill(w, a) PROVE Kept
  <2>1. task[w].op \notin PlacingOps /\ RolesStay
    BY <1>5, <1>i, <1>w, TopologyRolesStay DEF StartOrphans, StartFill
  <2>2. PICK op, s : task' = [task EXCEPT ![w] = Job(op, NoAgent, NoAgent, s)]
    BY <1>5, <1>j DEF StartOrphans, StartFill
  <2> QED  BY <1>w, <2>1, <2>2, OtherWork
<1>6. ASSUME NEW w \in Workers, CountSlots(w) \/ CheckHost(w) PROVE Kept
  <2>1. RolesStay  BY <1>6, TopologyRolesStay DEF CountSlots, CheckHost
  <2>2. PICK op \in PlacingOps : task' = [task EXCEPT ![w] = [task[w] EXCEPT !.op = op]]
    BY <1>6 DEF CountSlots, CheckHost, Become, PlacingOps
  <2>3. task' = [task EXCEPT ![w] = Job(op, task[w].a, task[w].p, task[w].s)]
    BY <1>0, <1>w, <2>2, OpChanged
  <2> QED  BY <2>1, <2>3, PlacingWork
<1>7. ASSUME NEW w \in Workers, PlaceFind(w) PROVE Kept
  <2>1. RolesStay  BY <1>7, TopologyRolesStay DEF PlaceFind
  <2>2. [task[w] EXCEPT !.op = "promote"] = Job("promote", task[w].a, task[w].p, task[w].s)
    BY <1>0, <1>w, OpChanged
  <2>3. PICK op, p : /\ op \in PlacingOps
                    /\ task' = [task EXCEPT ![w] = Job(op, task[w].a, p, task[w].s)]
    BY <1>7, <2>2 DEF PlaceFind, Become, PlacingOps
  <2> QED  BY <2>1, <2>3, PlacingWork
<1>8. ASSUME NEW w \in Workers, PlaceCommit(w) PROVE Kept
  <2>1. CASE T!AssignChild(task[w].a, task[w].p) /\ Become(w, Idle)
    <3>1. RolesStay /\ role'[task[w].a] # ""  BY <1>0, <2>1, MethodRolesStay, GivesARole
    <3> QED  BY <1>j, <2>1, <3>1, PlacingWork DEF Become
  <2>2. CASE Become(w, [task[w] EXCEPT !.op = "promote"]) /\ UNCHANGED topology
    <3>1. task' = [task EXCEPT ![w] = Job("promote", task[w].a, task[w].p, task[w].s)]
      BY <1>0, <1>w, <2>2, OpChanged DEF Become
    <3>2. "promote" \in PlacingOps /\ RolesStay  BY <2>2, TopologyRolesStay DEF PlacingOps
    <3> QED  BY <3>1, <3>2, PlacingWork
  <2> QED  BY <1>8, <2>1, <2>2 DEF PlaceCommit
<1>9. ASSUME NEW w \in Workers, Promote(w) PROVE Kept
  <2>1. RolesStay /\ role'[task[w].a] # ""  BY <1>0, <1>9, MethodRolesStay, GivesARole DEF Promote
  <2>2. PICK op, s : task' = [task EXCEPT ![w] = Job(op, NoAgent, NoAgent, s)]
    BY <1>9, <1>j DEF Promote, Become
  <2> QED  BY <2>1, <2>2, PlacingWork
<1>10. ASSUME NEW w \in Workers, RequestCommit(w) PROVE Kept
  <2>1. task[w].op \notin PlacingOps  BY <1>10 DEF RequestCommit, At, PlacingOps
  <2>2. RolesStay
    BY <1>0, <1>10, MethodRolesStay, TopologyRolesStay DEF RequestCommit
  <2> QED  BY <1>10, <1>j, <1>w, <2>1, <2>2, OtherWork DEF RequestCommit, Become
<1>11. ASSUME NEW w \in Workers, OrphanFind(w) PROVE Kept
  <2>1. task[w].op \notin PlacingOps /\ RolesStay
    BY <1>11, TopologyRolesStay DEF OrphanFind, At, PlacingOps
  <2>2. PICK op, a, p, s : task' = [task EXCEPT ![w] = Job(op, a, p, s)]
    BY <1>11 DEF OrphanFind, Become
  <2> QED  BY <1>w, <2>1, <2>2, OtherWork
<1>12. ASSUME NEW w \in Workers, OrphanHint(w) PROVE Kept
  <2>1. task[w].op \notin PlacingOps /\ RolesStay
    BY <1>12, TopologyRolesStay DEF OrphanHint, At, PlacingOps
  <2>2. PICK op, s : task' = [task EXCEPT ![w] = Job(op, NoAgent, NoAgent, s)]
    BY <1>12, <1>j DEF OrphanHint, Become
  <2> QED  BY <1>w, <2>1, <2>2, OtherWork
<1>13. ASSUME NEW w \in Workers, FillPick(w) PROVE Kept
  <2>1. task[w].op \notin PlacingOps /\ RolesStay
    BY <1>13, TopologyRolesStay DEF FillPick, At, PlacingOps
  <2>2. PICK op, a, p, s : task' = [task EXCEPT ![w] = Job(op, a, p, s)]
    BY <1>13, <1>j DEF FillPick, Become
  <2> QED  BY <1>w, <2>1, <2>2, OtherWork
<1>14. ASSUME NEW c \in Conns, NEW a \in Agents, NEW p \in Agents,
              OpenStream(c, a) \/ PeerDisconnected(c, a) \/ PeerConnected(c, a, p)
       PROVE  Kept
  <2>1. RolesStay /\ task[c].op \notin PlacingOps
    BY <1>14, <1>i, <1>w, TopologyRolesStay DEF OpenStream, PeerDisconnected, PeerConnected, Event
  <2>2. CASE UNCHANGED task  BY <2>1, <2>2, SameWork
  <2>3. CASE \E op, q : task' = [task EXCEPT ![c] = Job(op, a, q, {})]
    <3>1. PICK op, q : task' = [task EXCEPT ![c] = Job(op, a, q, {})]  BY <2>3
    <3> QED  BY <1>w, <2>1, <3>1, OtherWork
  <2> QED
    BY <1>14, <2>2, <2>3 DEF OpenStream, PeerDisconnected, PeerConnected, Become, work
<1>15. ASSUME NEW c \in Conns, StreamOnline(c) \/ LoseSubtree(c) \/ CloseStream(c) PROVE Kept
  <2>1. RolesStay
    BY <1>0, <1>15, MethodRolesStay, TopologyRolesStay DEF StreamOnline, LoseSubtree, CloseStream
  <2>2. UNCHANGED task  BY <1>15 DEF StreamOnline, LoseSubtree, CloseStream, work
  <2> QED  BY <2>1, <2>2, SameWork
<1>16. ASSUME NEW c \in Conns, Attach(c) PROVE Kept
  <2>1. task[c].op \notin PlacingOps  BY <1>16 DEF Attach, At, PlacingOps
  <2>2. RolesStay  BY <1>0, <1>16, MethodRolesStay, TopologyRolesStay DEF Attach
  <2>3. CASE UNCHANGED task  BY <2>2, <2>3, SameWork
  <2>4. CASE task' = [task EXCEPT ![c] = Job("vouch", task[c].a, task[c].p, {})]
    BY <1>w, <2>1, <2>2, <2>4, OtherWork
  <2> QED  BY <1>16, <2>3, <2>4 DEF Attach, Become, work
<1>17. ASSUME NEW c \in Conns, Vouch(c) PROVE Kept
  <2>1. task[c].op \notin PlacingOps /\ RolesStay
    BY <1>17, TopologyRolesStay DEF Vouch, At, PlacingOps
  <2>2. PICK op, a, s : task' = [task EXCEPT ![c] = Job(op, a, NoAgent, s)]
    BY <1>17 DEF Vouch, Become
  <2> QED  BY <1>w, <2>1, <2>2, OtherWork
<1>18. ASSUME NEW c \in Conns, Revive(c) PROVE Kept
  <2>1. task[c].op \notin PlacingOps  BY <1>18 DEF Revive, At, PlacingOps
  <2>2. PICK a \in task[c].s :
           /\ T!MarkOnline(a)
           /\ Become(c, IF task[c].s = {a} THEN Idle ELSE [task[c] EXCEPT !.s = @ \ {a}])
    BY <1>18 DEF Revive
  <2>3. RolesStay  BY <1>0, <2>2, MethodRolesStay
  <2>4. [task[c] EXCEPT !.s = task[c].s \ {a}] = Job(task[c].op, task[c].a, task[c].p, task[c].s \ {a})
    BY <1>0, <1>w, SetChanged
  <2>5. CASE task[c].s = {a}  BY <1>j, <1>w, <2>1, <2>2, <2>3, <2>5, OtherWork DEF Become
  <2>6. CASE task[c].s # {a}
    <3>1. task' = [task EXCEPT ![c] = Job(task[c].op, task[c].a, task[c].p, task[c].s \ {a})]
      BY <2>2, <2>4, <2>6 DEF Become
    <3> QED  BY <1>w, <2>1, <2>3, <3>1, OtherWork
  <2> QED  BY <2>5, <2>6
<1>19. ASSUME NEW c \in Conns, Lose(c) PROVE Kept
  <2>1. task[c].op \notin PlacingOps  BY <1>19 DEF Lose, At, PlacingOps
  <2>2. RolesStay  BY <1>0, <1>19, MethodRolesStay, TopologyRolesStay DEF Lose
  <2> QED  BY <1>19, <1>j, <1>w, <2>1, <2>2, OtherWork DEF Lose, Become
<1> HIDE DEF Kept
<1>20. Kept
  <2>1. CASE \E a \in Agents : Decay(a)  BY <1>2, <2>1
  <2>2. CASE \E w \in Workers :
       \/ \E a \in Agents : Register(w, a) \/ RequestPeers(w, a)
       \/ \E a \in Agents : StartOrphans(w, a) \/ StartFill(w, a)
       \/ CountSlots(w) \/ CheckHost(w) \/ PlaceFind(w) \/ PlaceCommit(w)
       \/ Promote(w) \/ RequestCommit(w) \/ OrphanFind(w) \/ OrphanHint(w)
       \/ FillPick(w)
    BY <2>2, <1>3, <1>4, <1>5, <1>6, <1>7, <1>8, <1>9, <1>10, <1>11, <1>12, <1>13
  <2>3. CASE \E c \in Conns :
       \/ \E a \in Agents : OpenStream(c, a) \/ PeerDisconnected(c, a)
       \/ \E a, p \in Agents : PeerConnected(c, a, p)
       \/ StreamOnline(c) \/ CloseStream(c) \/ LoseSubtree(c)
       \/ Attach(c) \/ Vouch(c) \/ Revive(c) \/ Lose(c)
    BY <2>3, <1>14, <1>15, <1>16, <1>17, <1>18, <1>19
  <2>4. CASE UNCHANGED vars  BY <1>1, <2>4
  <2> QED  BY <2>1, <2>2, <2>3, <2>4 DEF Next
<1> QED  BY <1>0, <1>20 DEF PlacementInv, Kept

\* Register and assignBatchDiverse: whatever a registration races with, no agent is left
\* without a role and without a goroutine that is on its way to give it one.
THEOREM RegistrationsArePlaced == Spec => []EveryRegistrationIsPlaced
<1>1. Init => PlacementInv
  BY ServerInitType, TasksInit DEF Init, T!Init, PlacementInv, EveryRegistrationIsPlaced
<1>2. PlacementInv => EveryRegistrationIsPlaced  BY DEF PlacementInv
<1> QED  BY <1>1, <1>2, PlacementStep, PTL DEF Spec
=============================================================================
