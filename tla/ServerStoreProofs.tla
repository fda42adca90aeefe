------------------------- MODULE ServerStoreProofs -------------------------
(***************************************************************************)
(* Proofs about ServerStore, for any agents, pods and scenarios: what a    *)
(* restart would restore is the tree as it is, but for the agents placed   *)
(* anew since the last whole snapshot was begun; and of the pods that take *)
(* themselves for the leader only the holder of the lock has a session.    *)
(***************************************************************************)
EXTENDS ServerStore, FiniteSetTheorems, TLAPS

Roles == {"zone_leader", "relay"}
Row == [role : Roles, parent : Agents \cup {None}, online : {"yes", "no"}, age : 0..Stale]
Node == [role : Roles \cup {""}, parent : Agents \cup {None}, online : {"yes", "no"}, wired : {"yes", "no"}]
Snapshot ==
  {s \in [view : [Agents -> Node], todo : SUBSET Agents, half : Agents \cup {None}] : s.half \in s.todo \cup {None}}

\* Types; only the pods of the scenario run, and only a serving one writes a snapshot.
TypeOK ==
  /\ conf \in Scenarios
  /\ row \in [Agents -> Row]
  /\ pod \in [Pods -> {"down", "starting", "serving", "stuck"}]
  /\ tree \in [Pods -> [Agents -> Node]]
  /\ snap \in [Pods -> Snapshot \cup {NoSnap}]
  /\ streams \in [Pods -> SUBSET Agents]
  /\ \A p \in Pods : p \notin conf.pods => pod[p] = "down"
  /\ \A p \in Pods : pod[p] # "serving" => snap[p] = NoSnap

\* As far as the database can tell.
Alike(r, n) == r.role = n.role /\ r.parent = n.parent

\* Of the only pod: every node has a role (or its row would not be written); what is not
\* unsaved is on disk, and as it was when the snapshot being written was begun; rows that
\* are done are as in the view.
RolesKnown(p) == \A a \in Agents : tree[p][a].role \in Roles
OnDisk(p) == \A a \in Agents \ unsaved : Alike(row[a], tree[p][a])
InView(p) ==
  snap[p].todo # {} =>
    /\ \A a \in Agents : snap[p].view[a].role \in Roles
    /\ \A a \in Agents \ unsaved : Alike(snap[p].view[a], tree[p][a])
    /\ \A a \in Agents \ snap[p].todo : Alike(row[a], snap[p].view[a])
    /\ snap[p].half # None => row[snap[p].half].role = snap[p].view[snap[p].half].role
Faithful(p) == RolesKnown(p) /\ OnDisk(p) /\ InView(p)

StoreInv ==
  /\ TypeOK
  /\ \A p \in Pods : Cardinality(conf.pods) = 1 /\ pod[p] = "serving" => Faithful(p)

-----------------------------------------------------------------------------
(***************************************************************************)
(* What the operators on rows and nodes return.                            *)
(***************************************************************************)
LEMMA HeartbeatKeepsPlaces ==
  ASSUME NEW r \in [Agents -> Row], NEW as
  PROVE  /\ Heartbeat(r, as) \in [Agents -> Row]
         /\ \A a \in Agents : Alike(Heartbeat(r, as)[a], r[a])
<1>1. 0 \in 0..Stale
  BY StoreAssumption
<1>2. ASSUME NEW x \in Row
      PROVE  /\ [x EXCEPT !.online = "yes", !.age = 0] \in Row
             /\ Alike([x EXCEPT !.online = "yes", !.age = 0], x)
  <2> DEFINE y == [x EXCEPT !.online = "yes"]
  <2>1. y \in Row /\ Alike(y, x)
    BY DEF Row, Alike
  <2>2. [y EXCEPT !.age = 0] \in Row /\ Alike([y EXCEPT !.age = 0], y)
    <3> HIDE DEF y
    <3> QED
      BY <1>1, <2>1 DEF Row, Alike
  <2>3. [x EXCEPT !.online = "yes", !.age = 0] = [y EXCEPT !.age = 0]
    OBVIOUS
  <2>4. QED
    BY <2>1, <2>2, <2>3 DEF Alike
<1>3. QED
  BY <1>2 DEF Heartbeat, Alike

LEMMA OfflineKeepsPlaces ==
  ASSUME row \in [Agents -> Row], NEW root
  PROVE  /\ MarkAgentTreeOffline(root) \in [Agents -> Row]
         /\ \A a \in Agents : Alike(MarkAgentTreeOffline(root)[a], row[a])
  BY DEF MarkAgentTreeOffline, Row, Alike

LEMMA TouchKeepsPlaces ==
  ASSUME row \in [Agents -> Row], NEW roots
  PROVE  /\ TouchAgentTree(roots) \in [Agents -> Row]
         /\ \A a \in Agents : Alike(TouchAgentTree(roots)[a], row[a])
  BY StoreAssumption DEF TouchAgentTree, Row, Alike

LEMMA StaleKeepsPlaces ==
  ASSUME NEW r \in [Agents -> Row]
  PROVE  /\ MarkStaleAgentsOffline(r) \in [Agents -> Row]
         /\ \A a \in Agents : Alike(MarkStaleAgentsOffline(r)[a], r[a])
  BY DEF MarkStaleAgentsOffline, Row, Alike

LEMMA MarkOnlineKeepsRoles ==
  ASSUME NEW t \in [Agents -> Node], NEW as
  PROVE  /\ MarkOnline(t, as) \in [Agents -> Node]
         /\ \A a \in Agents : MarkOnline(t, as)[a].role = t[a].role
  BY DEF MarkOnline, Node

LEMMA PeersConnectedType ==
  ASSUME NEW t \in [Agents -> Node], NEW r \in Agents, NEW as
  PROVE  /\ PeersConnected(t, r, as) \in [Agents -> Node]
         /\ \A a \in Agents : t[a].role \in Roles => PeersConnected(t, r, as)[a].role \in Roles
<1>1. /\ Attached(t, r, as) \in [Agents -> Node]
      /\ \A a \in Agents : t[a].role \in Roles => Attached(t, r, as)[a].role \in Roles
  <2>1. ASSUME NEW a \in Agents
        PROVE  Observed(t, a, r) \in Node /\ (t[a].role \in Roles => Observed(t, a, r).role \in Roles)
    BY DEF Observed, Node, Roles
  <2>2. QED
    BY <2>1 DEF Attached
<1>2. QED
  BY <1>1, MarkOnlineKeepsRoles DEF PeersConnected

\* The only pod of the scenario is the only one that is up.
LEMMA Alone ==
  ASSUME TypeOK, Cardinality(conf.pods) = 1, NEW p \in Pods, NEW q \in Pods,
         pod[p] # "down", pod[q] # "down"
  PROVE  p = q
<1>1. p \in conf.pods /\ q \in conf.pods /\ conf.pods \in SUBSET Pods
  BY StoreAssumption DEF TypeOK
<1>2. IsFiniteSet(conf.pods)
  BY <1>1, StoreAssumption, FS_Subset
<1>3. PICK x : conf.pods = {x}
  BY <1>2, FS_Singleton
<1>4. QED
  BY <1>1, <1>3

-----------------------------------------------------------------------------
(***************************************************************************)
(* Types are kept.                                                         *)
(***************************************************************************)
LEMMA RowUpdates ==
  ASSUME NEW x \in Row
  PROVE  /\ \A v \in Roles : [x EXCEPT !.role = v] \in Row
         /\ \A v \in Agents \cup {None} : [x EXCEPT !.parent = v] \in Row
  BY DEF Row

LEMMA NoSnapFields == NoSnap.todo = {} /\ NoSnap.half = None
  BY DEF NoSnap

LEMMA InitTypes == Init => TypeOK
<1> SUFFICES ASSUME NEW s \in Scenarios, conf = s, Init,
                    row = [a \in Agents |-> [role |-> RoleIn(s.tree, a), parent |-> s.tree[a], online |-> "yes", age |-> 0]]
             PROVE  TypeOK
  BY DEF Init
<1>1. row \in [Agents -> Row]
  BY StoreAssumption DEF Row, Roles, RoleIn
<1>2. Blank \in Node
  BY DEF Blank, Node
<1>3. QED
  BY <1>1, <1>2 DEF Init, TypeOK

LEMMA PodStepTypes ==
  ASSUME TypeOK, NEW p \in Pods, PodStep(p) \/ LeaderPoll(p) \/ LoseSession(p) \/ StopPod(p)
  PROVE  TypeOK'
<1>1. CASE StartPod(p)
  BY <1>1 DEF StartPod, TypeOK
<1>2. CASE RehydrateTopology(p)
  <2>1. Restored \in [Agents -> Node]
    BY DEF Restored, TypeOK, Row, Node
  <2>2. p \in conf.pods
    BY <1>2 DEF RehydrateTopology, TypeOK
  <2>3. pod[p] = "starting" /\ snap[p] = NoSnap
    BY <1>2 DEF RehydrateTopology, TypeOK
  <2>4. QED
    BY <1>2, <2>1, <2>2, <2>3 DEF RehydrateTopology, TypeOK
<1>3. CASE ReapStaleAgents(p)
  BY <1>3, TouchKeepsPlaces, StaleKeepsPlaces DEF ReapStaleAgents, TypeOK
<1>4. CASE LeaderPoll(p)
  BY <1>4 DEF LeaderPoll, TypeOK
<1>5. CASE LoseSession(p)
  BY <1>5 DEF LoseSession, TypeOK
<1>6. CASE StopPod(p)
  BY <1>6 DEF StopPod, TypeOK
<1>7. QED
  BY <1>1, <1>2, <1>3, <1>4, <1>5, <1>6 DEF PodStep

LEMMA WriteTypes ==
  ASSUME TypeOK, NEW p \in Pods, Write(p)
  PROVE  TypeOK'
<1>1. CASE TakeSnapshot(p)
  <2>1. [view |-> tree[p], todo |-> Agents, half |-> None] \in Snapshot
    BY DEF Snapshot, TypeOK
  <2>2. QED
    BY <1>1, <2>1 DEF TakeSnapshot, TypeOK
<1>2. ASSUME NEW a \in Agents, WriteRole(p, a)
      PROVE  TypeOK'
  <2>1. snap[p] # NoSnap /\ a \in snap[p].todo
    BY <1>2, NoSnapFields DEF WriteRole
  <2>2. pod[p] = "serving" /\ snap[p] \in Snapshot
    BY <2>1 DEF TypeOK
  <2>3. [snap[p] EXCEPT !.half = a] \in Snapshot
    BY <2>1, <2>2 DEF Snapshot
  <2>4. row' \in [Agents -> Row]
    <3> DEFINE v == snap[p].view[a].role
    <3>1. v \in Roles \cup {""}
      BY <2>2 DEF Snapshot, Node
    <3>2. row' = IF v = "" THEN row ELSE [row EXCEPT ![a] = [row[a] EXCEPT !.role = v]]
      BY <1>2 DEF WriteRole, TypeOK
    <3> HIDE DEF v
    <3>3. QED
      BY <3>1, <3>2, RowUpdates DEF TypeOK
  <2>5. QED
    BY <1>2, <2>2, <2>3, <2>4 DEF WriteRole, TypeOK
<1>3. CASE WriteParent(p)
  <2>1. snap[p] # NoSnap /\ snap[p].half # None
    BY <1>3, NoSnapFields DEF WriteParent
  <2>2. pod[p] = "serving" /\ snap[p] \in Snapshot
    BY <2>1 DEF TypeOK
  <2>3. PICK left \in SUBSET Agents : left = snap[p].todo \ {snap[p].half}
    BY <2>2 DEF Snapshot
  <2>4. [view |-> snap[p].view, todo |-> left, half |-> None] \in Snapshot
    BY <2>2, <2>3 DEF Snapshot
  <2>5. snap' = [snap EXCEPT ![p] = IF left = {} THEN NoSnap ELSE [view |-> snap[p].view, todo |-> left, half |-> None]]
    BY <1>3, <2>3 DEF WriteParent
  <2>6. row' \in [Agents -> Row]
    <3>1. snap[p].half \in Agents /\ snap[p].view[snap[p].half].parent \in Agents \cup {None}
      BY <2>1, <2>2 DEF Snapshot, Node
    <3>2. row' = [row EXCEPT ![snap[p].half] = [row[snap[p].half] EXCEPT !.parent = snap[p].view[snap[p].half].parent]]
      BY <1>3 DEF WriteParent
    <3>3. QED
      BY <3>1, <3>2, RowUpdates DEF TypeOK
  <2>7. UNCHANGED <<conf, pod, tree, streams>>
    BY <1>3 DEF WriteParent
  <2>8. QED
    BY <2>2, <2>4, <2>5, <2>6, <2>7 DEF TypeOK
<1>4. QED
  BY <1>1, <1>2, <1>3 DEF Write

LEMMA GoneTypes ==
  ASSUME TypeOK, NEW p \in Pods, NEW a \in Agents, Gone(p, a)
  PROVE  /\ row' \in [Agents -> Row] /\ \A x \in Agents : Alike(row'[x], row[x])
         /\ streams' \in [Pods -> SUBSET Agents]
         /\ tree' \in [Pods -> [Agents -> Node]]
         /\ \A x \in Agents : Alike(tree'[p][x], tree[p][x])
<1>1. /\ tree' = [tree EXCEPT ![p] = [x \in Agents |-> IF x \in SubtreeIDs(tree[p], a) THEN [tree[p][x] EXCEPT !.online = "no"] ELSE tree[p][x]]]
      /\ tree[p] \in [Agents -> Node]
  BY DEF Gone, TypeOK
<1>2. ASSUME NEW x \in Node
      PROVE  [x EXCEPT !.online = "no"] \in Node /\ Alike([x EXCEPT !.online = "no"], x)
  BY DEF Node, Alike
<1>3. tree' \in [Pods -> [Agents -> Node]] /\ \A x \in Agents : Alike(tree'[p][x], tree[p][x])
  BY <1>1, <1>2 DEF TypeOK, Alike
<1>4. QED
  BY <1>3, OfflineKeepsPlaces DEF Gone, TypeOK

\* Promoted, marked online and with its peers back.
LEMMA OpenStreamTree ==
  ASSUME TypeOK, NEW p \in Pods, NEW a \in Agents, OpenStream(a, p)
  PROVE  /\ row' \in [Agents -> Row] /\ \A x \in Agents : Alike(row'[x], row[x])
         /\ \E t \in [Agents -> Node] :
              /\ tree' = [tree EXCEPT ![p] = t]
              /\ unsaved' = unsaved \cup Changed(p, t)
              /\ RolesKnown(p) => \A x \in Agents : t[x].role \in Roles
<1> DEFINE node == [tree[p][a] EXCEPT !.role = "zone_leader", !.parent = None, !.wired = "no"]
           promoted == IF tree[p][a].role = "zone_leader" THEN tree[p] ELSE [tree[p] EXCEPT ![a] = node]
           marked == MarkOnline(promoted, {a})
           t == PeersConnected(marked, a, Peers(a))
<1>1. /\ row' = Heartbeat(row, {a} \cup Reported(promoted, a, Peers(a)))
      /\ tree' = [tree EXCEPT ![p] = t]
      /\ unsaved' = unsaved \cup Changed(p, t)
  BY DEF OpenStream
<1>2. tree[p] \in [Agents -> Node]
  BY DEF TypeOK
<1>3. node \in Node /\ node.role \in Roles
  BY <1>2 DEF Node, Roles
<1> HIDE DEF node
<1>4. promoted \in [Agents -> Node] /\ (RolesKnown(p) => \A x \in Agents : promoted[x].role \in Roles)
  BY <1>2, <1>3 DEF RolesKnown
<1> HIDE DEF promoted
<1>5. marked \in [Agents -> Node] /\ (RolesKnown(p) => \A x \in Agents : marked[x].role \in Roles)
  BY <1>4, MarkOnlineKeepsRoles
<1> HIDE DEF marked
<1>6. t \in [Agents -> Node] /\ (RolesKnown(p) => \A x \in Agents : t[x].role \in Roles)
  BY <1>5, PeersConnectedType
<1>7. row' \in [Agents -> Row] /\ \A x \in Agents : Alike(row'[x], row[x])
  BY <1>1, HeartbeatKeepsPlaces DEF TypeOK
<1> HIDE DEF t
<1>8. QED
  BY <1>1, <1>6, <1>7

LEMMA AttachTree ==
  ASSUME TypeOK, NEW a \in Agents, NEW r \in Agents, Attach(a, r)
  PROVE  /\ row' \in [Agents -> Row] /\ \A x \in Agents : Alike(row'[x], row[x])
         /\ \E p \in Pods, t \in [Agents -> Node] :
              /\ tree' = [tree EXCEPT ![p] = t]
              /\ unsaved' = unsaved \cup Changed(p, t)
              /\ RolesKnown(p) => \A x \in Agents : t[x].role \in Roles
<1> DEFINE p == PodOf(r)
           t == PeersConnected(tree[p], r, {a})
<1>1. /\ p \in Pods
      /\ row' = Heartbeat(row, Reported(tree[p], r, {a}))
      /\ tree' = [tree EXCEPT ![p] = t]
      /\ unsaved' = unsaved \cup Changed(p, t)
  BY DEF Attach
<1> HIDE DEF p
<1>2. tree[p] \in [Agents -> Node]
  BY <1>1 DEF TypeOK
<1>3. t \in [Agents -> Node] /\ (RolesKnown(p) => \A x \in Agents : t[x].role \in Roles)
  BY <1>2, PeersConnectedType DEF RolesKnown
<1>4. row' \in [Agents -> Row] /\ \A x \in Agents : Alike(row'[x], row[x])
  BY <1>1, HeartbeatKeepsPlaces DEF TypeOK
<1> HIDE DEF t
<1>5. QED
  BY <1>1, <1>3, <1>4

LEMMA LeaveTypes ==
  ASSUME TypeOK, NEW a \in Agents, Leave(a)
  PROVE  /\ row' \in [Agents -> Row] /\ \A x \in Agents : Alike(row'[x], row[x])
         /\ streams' \in [Pods -> SUBSET Agents]
         /\ tree' \in [Pods -> [Agents -> Node]]
         /\ \A p \in Pods, x \in Agents : Alike(tree'[p][x], tree[p][x])
<1> DEFINE p == IF up[a] = None THEN None ELSE PodOf(up[a])
<1>1. CASE p \in Pods /\ pod[p] = "serving"
  <2>1. Gone(p, a)
    BY <1>1 DEF Leave
  <2>2. \A q \in Pods \ {p} : tree'[q] = tree[q]
    BY <2>1 DEF Gone, TypeOK
  <2> HIDE DEF p
  <2>3. QED
    BY <1>1, <2>1, <2>2, GoneTypes DEF Alike
<1>2. CASE ~(p \in Pods /\ pod[p] = "serving")
  <2>1. UNCHANGED <<tree, row, streams>>
    BY <1>2 DEF Leave
  <2>2. QED
    BY <2>1 DEF TypeOK, Alike
<1>3. QED
  BY <1>1, <1>2

LEMMA MeshStepTypes ==
  ASSUME TypeOK, NEW a \in Agents, AgentStep(a) \/ Break(a) \/ Die(a)
  PROVE  TypeOK'
<1>1. ASSUME NEW p \in Pods, OpenStream(a, p)
      PROVE  TypeOK'
  <2>1. row' \in [Agents -> Row] /\ tree' \in [Pods -> [Agents -> Node]]
    BY <1>1, OpenStreamTree DEF TypeOK
  <2>2. UNCHANGED <<conf, pod, snap>> /\ streams' = [streams EXCEPT ![p] = @ \cup {a}]
    BY <1>1 DEF OpenStream
  <2>3. QED
    BY <2>1, <2>2 DEF TypeOK
<1>2. ASSUME NEW r \in Agents, Attach(a, r)
      PROVE  TypeOK'
  <2>1. row' \in [Agents -> Row] /\ tree' \in [Pods -> [Agents -> Node]]
    BY <1>2, AttachTree DEF TypeOK
  <2>2. UNCHANGED <<conf, pod, snap, streams>>
    BY <1>2 DEF Attach
  <2>3. QED
    BY <2>1, <2>2 DEF TypeOK
<1>3. CASE Break(a) \/ Die(a)
  <2>1. Leave(a) /\ UNCHANGED <<conf, pod, snap>>
    BY <1>3 DEF Break, Die
  <2>2. QED
    BY <2>1, LeaveTypes DEF TypeOK
<1>4. QED
  BY <1>1, <1>2, <1>3 DEF AgentStep

LEMMA ClockTypes ==
  ASSUME TypeOK, Clock
  PROVE  TypeOK' /\ \A a \in Agents : Alike(row'[a], row[a])
<1>1. ASSUME NEW x \in Row
      PROVE  /\ [x EXCEPT !.age = IF @ < Stale THEN @ + 1 ELSE @] \in Row
             /\ Alike([x EXCEPT !.age = IF @ < Stale THEN @ + 1 ELSE @], x)
  <2> DEFINE n == IF x.age < Stale THEN x.age + 1 ELSE x.age
  <2>1. x.age \in 0..Stale
    BY DEF Row
  <2>2. n \in 0..Stale
    BY <2>1, StoreAssumption
  <2> HIDE DEF n
  <2>3. [x EXCEPT !.age = n] \in Row /\ Alike([x EXCEPT !.age = n], x)
    BY <2>2 DEF Row, Alike
  <2>4. QED
    BY <2>3 DEF n
<1>2. row' = [a \in Agents |-> [row[a] EXCEPT !.age = IF @ < Stale THEN @ + 1 ELSE @]]
  BY DEF Clock
<1>3. row' \in [Agents -> Row] /\ \A a \in Agents : Alike(row'[a], row[a])
  BY <1>1, <1>2 DEF TypeOK
<1>4. QED
  BY <1>3 DEF Clock, TypeOK

LEMMA TypesKept == TypeOK /\ [Next]_vars => TypeOK'
<1> SUFFICES ASSUME TypeOK, Next PROVE TypeOK'
  BY DEF vars, TypeOK
<1>1. QED
  BY ClockTypes, PodStepTypes, WriteTypes, MeshStepTypes DEF Next

-----------------------------------------------------------------------------
(***************************************************************************)
(* The database keeps up with the only pod's tree.                         *)
(***************************************************************************)
\* A step that writes no place to the table and leaves the snapshot alone.
LEMMA PlacesUnwritten ==
  ASSUME TypeOK, NEW p \in Pods, Faithful(p), snap'[p] = snap[p],
         \A a \in Agents : Alike(row'[a], row[a]),
         RolesKnown(p)',
         \A a \in Agents \ unsaved' : a \notin unsaved /\ Alike(tree'[p][a], tree[p][a])
  PROVE  Faithful(p)'
<1>1. OnDisk(p)'
  BY DEF Faithful, OnDisk, Alike
<1>2. InView(p)'
  <2>1. snap[p].todo # {} => snap[p] \in Snapshot
    BY NoSnapFields DEF TypeOK
  <2>2. snap[p].half # None /\ snap[p].todo # {} => snap[p].half \in Agents
    BY <2>1 DEF Snapshot
  <2>3. QED
    BY <2>2 DEF Faithful, InView, Alike
<1>3. QED
  BY <1>1, <1>2 DEF Faithful

\* A step that leaves all of it alone.
LEMMA StoreUntouched ==
  ASSUME NEW p \in Pods, Faithful(p), UNCHANGED <<row, tree, snap, unsaved>>
  PROVE  Faithful(p)'
  BY DEF Faithful, RolesKnown, OnDisk, InView

LEMMA RehydrateIsFaithful ==
  ASSUME TypeOK, Cardinality(conf.pods) = 1, NEW p \in Pods, RehydrateTopology(p), pod'[p] = "serving"
  PROVE  Faithful(p)'
<1>1. tree' = [tree EXCEPT ![p] = Restored] /\ row' = row /\ snap' = snap
  BY DEF RehydrateTopology, TypeOK
<1>2. pod[p] = "starting" /\ snap[p] = NoSnap
  BY DEF RehydrateTopology, TypeOK
<1>3. tree'[p] = Restored /\ \A a \in Agents : Restored[a].role = row[a].role /\ Restored[a].parent = row[a].parent
  BY <1>1 DEF TypeOK, Restored
<1>4. RolesKnown(p)' /\ OnDisk(p)'
  BY <1>1, <1>3 DEF RolesKnown, OnDisk, Alike, TypeOK, Row
<1>5. InView(p)'
  BY <1>1, <1>2, NoSnapFields DEF InView
<1>6. QED
  BY <1>4, <1>5 DEF Faithful

LEMMA TakeSnapshotIsFaithful ==
  ASSUME TypeOK, NEW p \in Pods, Faithful(p), TakeSnapshot(p)
  PROVE  Faithful(p)'
<1>1. snap'[p].view = tree[p] /\ snap'[p].todo = Agents /\ snap'[p].half = None
  BY DEF TakeSnapshot, TypeOK
<1>2. UNCHANGED <<row, tree, unsaved>>
  BY DEF TakeSnapshot
<1>3. QED
  BY <1>1, <1>2 DEF Faithful, RolesKnown, OnDisk, InView, Alike

LEMMA WriteRoleIsFaithful ==
  ASSUME TypeOK, NEW p \in Pods, Faithful(p), NEW a \in Agents, WriteRole(p, a)
  PROVE  Faithful(p)'
<1> DEFINE view == snap[p].view
<1>1. snap[p] # NoSnap /\ a \in snap[p].todo /\ snap[p].half = None
  BY NoSnapFields DEF WriteRole
<1>2. snap[p] \in Snapshot
  BY <1>1 DEF TypeOK
<1>3. snap'[p].view = view /\ snap'[p].todo = snap[p].todo /\ snap'[p].half = a
  BY <1>2 DEF WriteRole, TypeOK, Snapshot
<1>4. view[a].role \in Roles
  BY <1>1 DEF Faithful, InView
<1>5. row' = [row EXCEPT ![a].role = view[a].role]
  BY <1>4 DEF WriteRole, Roles
<1>6. /\ row'[a].role = view[a].role /\ row'[a].parent = row[a].parent
      /\ \A x \in Agents \ {a} : row'[x] = row[x]
  BY <1>5 DEF TypeOK, Row
<1>7. UNCHANGED <<tree, unsaved>>
  BY DEF WriteRole
<1>8. OnDisk(p)'
  BY <1>1, <1>6, <1>7 DEF Faithful, OnDisk, InView, Alike
<1>9. InView(p)'
  BY <1>1, <1>3, <1>6, <1>7 DEF Faithful, InView, Alike
<1>10. QED
  BY <1>7, <1>8, <1>9 DEF Faithful, RolesKnown

LEMMA WriteParentIsFaithful ==
  ASSUME TypeOK, NEW p \in Pods, Faithful(p), WriteParent(p)
  PROVE  Faithful(p)'
<1> DEFINE view == snap[p].view
           a == snap[p].half
           left == snap[p].todo \ {a}
<1>1. snap[p] # NoSnap /\ a # None
  BY NoSnapFields DEF WriteParent
<1>2. snap[p] \in Snapshot
  BY <1>1 DEF TypeOK
<1>3. a \in snap[p].todo /\ a \in Agents
  BY <1>1, <1>2 DEF Snapshot
<1>4. row' = [row EXCEPT ![a].parent = view[a].parent]
  BY DEF WriteParent
<1>5. /\ row'[a].parent = view[a].parent /\ row'[a].role = row[a].role
      /\ \A x \in Agents \ {a} : row'[x] = row[x]
  BY <1>3, <1>4 DEF TypeOK, Row
<1>6. /\ \A x \in Agents \ left : Alike(row'[x], view[x])
      /\ \A x \in Agents : view[x].role \in Roles
      /\ \A x \in Agents \ unsaved : Alike(view[x], tree[p][x])
      /\ \A x \in Agents \ unsaved : Alike(row'[x], tree[p][x])
  BY <1>1, <1>3, <1>5 DEF Faithful, OnDisk, InView, Alike
<1>7. tree' = tree
  BY DEF WriteParent
<1>8. CASE left = {}
  <2>1. /\ unsaved' = {x \in Agents : tree[p][x].parent # view[x].parent \/ tree[p][x].role # view[x].role}
        /\ snap'[p] = NoSnap
    BY <1>8 DEF WriteParent, TypeOK
  <2>2. OnDisk(p)'
    BY <1>6, <1>7, <1>8, <2>1 DEF OnDisk, Alike
  <2>3. InView(p)'
    BY <2>1, NoSnapFields DEF InView
  <2>4. QED
    BY <1>7, <2>2, <2>3 DEF Faithful, RolesKnown
<1>9. CASE left # {}
  <2>1. unsaved' = unsaved /\ snap'[p].view = view /\ snap'[p].todo = left /\ snap'[p].half = None
    BY <1>9 DEF WriteParent, TypeOK
  <2>2. OnDisk(p)' /\ InView(p)'
    BY <1>6, <1>7, <2>1 DEF OnDisk, InView
  <2>3. QED
    BY <1>7, <2>2 DEF Faithful, RolesKnown
<1>10. QED
  BY <1>8, <1>9

LEMMA PodStepIsFaithful ==
  ASSUME TypeOK, Cardinality(conf.pods) = 1, NEW p \in Pods, NEW q \in Pods,
         pod[p] = "serving" => Faithful(p), pod'[p] = "serving",
         PodStep(q) \/ LeaderPoll(q) \/ LoseSession(q) \/ StopPod(q)
  PROVE  Faithful(p)'
<1>1. CASE StartPod(q) \/ LeaderPoll(q) \/ LoseSession(q)
  <2>1. UNCHANGED <<row, tree, snap, unsaved>> /\ pod[p] = "serving"
    BY <1>1 DEF StartPod, LeaderPoll, LoseSession, TypeOK
  <2>2. QED
    BY <2>1, StoreUntouched
<1>2. CASE RehydrateTopology(q)
  <2>1. pod[q] = "starting" /\ \A x \in Pods \ {q} : pod'[x] = pod[x]
    BY <1>2 DEF RehydrateTopology, TypeOK
  <2>2. p = q
    BY <2>1, Alone
  <2>3. QED
    BY <1>2, <2>2, RehydrateIsFaithful
<1>3. CASE ReapStaleAgents(q)
  <2>1. \A a \in Agents : Alike(row'[a], row[a])
    BY <1>3, TouchKeepsPlaces, StaleKeepsPlaces DEF ReapStaleAgents, TypeOK, Alike
  <2>2. UNCHANGED <<pod, tree, snap, unsaved>>
    BY <1>3 DEF ReapStaleAgents
  <2>3. Faithful(p) /\ RolesKnown(p)'
    BY <2>2 DEF Faithful, RolesKnown
  <2>4. QED
    BY <2>1, <2>2, <2>3, PlacesUnwritten DEF Alike
<1>4. CASE StopPod(q)
  <2>1. pod[q] # "down" /\ pod' = [pod EXCEPT ![q] = "down"]
    BY <1>4 DEF StopPod
  <2>2. pod[p] = "serving" /\ p # q
    BY <2>1 DEF TypeOK
  <2>3. QED
    BY <2>1, <2>2, Alone
<1>5. QED
  BY <1>1, <1>2, <1>3, <1>4 DEF PodStep

LEMMA WriteIsFaithful ==
  ASSUME TypeOK, Cardinality(conf.pods) = 1, NEW p \in Pods, NEW q \in Pods,
         pod[p] = "serving" => Faithful(p), pod'[p] = "serving", Write(q)
  PROVE  Faithful(p)'
<1>1. pod' = pod
  BY DEF Write, TakeSnapshot, WriteRole, WriteParent
<1>2. pod[q] = "serving"
  <2>1. CASE TakeSnapshot(q)
    BY <2>1 DEF TakeSnapshot
  <2>2. CASE WriteParent(q) \/ \E a \in Agents : WriteRole(q, a)
    <3>1. snap[q] # NoSnap
      BY <2>2, NoSnapFields DEF WriteRole, WriteParent
    <3>2. QED
      BY <3>1 DEF TypeOK
  <2>3. QED
    BY <2>1, <2>2 DEF Write
<1>3. p = q
  BY <1>1, <1>2, Alone
<1>4. QED
  BY <1>1, <1>3, TakeSnapshotIsFaithful, WriteRoleIsFaithful, WriteParentIsFaithful DEF Write

LEMMA MeshStepIsFaithful ==
  ASSUME TypeOK, NEW p \in Pods, Faithful(p), NEW a \in Agents, AgentStep(a) \/ Break(a) \/ Die(a)
  PROVE  Faithful(p)'
<1>1. ASSUME NEW q \in Pods, NEW t \in [Agents -> Node],
             \A x \in Agents : Alike(row'[x], row[x]), snap' = snap,
             tree' = [tree EXCEPT ![q] = t], unsaved' = unsaved \cup Changed(q, t),
             RolesKnown(q) => \A x \in Agents : t[x].role \in Roles
      PROVE  Faithful(p)'
  <2>1. RolesKnown(p)'
    BY <1>1 DEF Faithful, RolesKnown, TypeOK
  <2>2. \A x \in Agents \ unsaved' : x \notin unsaved /\ Alike(tree'[p][x], tree[p][x])
    BY <1>1 DEF Changed, Alike, TypeOK
  <2>3. QED
    BY <1>1, <2>1, <2>2, PlacesUnwritten
<1>2. ASSUME NEW q \in Pods, OpenStream(a, q)
      PROVE  Faithful(p)'
  <2>1. snap' = snap
    BY <1>2 DEF OpenStream
  <2>2. QED
    BY <1>1, <1>2, <2>1, OpenStreamTree
<1>3. ASSUME NEW r \in Agents, Attach(a, r)
      PROVE  Faithful(p)'
  <2>1. snap' = snap
    BY <1>3 DEF Attach
  <2>2. QED
    BY <1>1, <1>3, <2>1, AttachTree
<1>4. CASE Break(a) \/ Die(a)
  <2>1. Leave(a) /\ UNCHANGED <<snap, unsaved>>
    BY <1>4 DEF Break, Die
  <2>2. RolesKnown(p)'
    BY <2>1, LeaveTypes DEF Faithful, RolesKnown, Alike
  <2>3. QED
    BY <2>1, <2>2, LeaveTypes, PlacesUnwritten
<1>5. QED
  BY <1>2, <1>3, <1>4 DEF AgentStep

LEMMA ClockIsFaithful ==
  ASSUME TypeOK, NEW p \in Pods, Faithful(p), Clock
  PROVE  Faithful(p)'
<1>1. UNCHANGED <<tree, snap, unsaved>>
  BY DEF Clock
<1>2. RolesKnown(p)'
  BY <1>1 DEF Faithful, RolesKnown
<1>3. QED
  BY <1>1, <1>2, ClockTypes, PlacesUnwritten DEF Alike

LEMMA StoreInvKept == StoreInv /\ [Next]_vars => StoreInv'
<1> SUFFICES ASSUME StoreInv, [Next]_vars
             PROVE  StoreInv'
  OBVIOUS
<1>1. TypeOK /\ TypeOK'
  BY TypesKept DEF StoreInv
<1>2. conf' = conf
  BY DEF Next, vars, Clock, PodStep, LeaderPoll, Write, LoseSession, StopPod, AgentStep, Break, Die, StartPod,
         RehydrateTopology, ReapStaleAgents, TakeSnapshot, WriteParent, WriteRole, OpenStream, Attach
<1>3. ASSUME NEW p \in Pods, Cardinality(conf.pods) = 1, pod'[p] = "serving"
      PROVE  Faithful(p)'
  <2>1. pod[p] = "serving" => Faithful(p)
    BY <1>3 DEF StoreInv
  <2>2. CASE UNCHANGED vars
    BY <1>3, <2>1, <2>2, StoreUntouched DEF vars
  <2>3. ASSUME NEW q \in Pods, PodStep(q) \/ LeaderPoll(q) \/ LoseSession(q) \/ StopPod(q)
        PROVE  Faithful(p)'
    BY <1>1, <1>3, <2>1, <2>3, PodStepIsFaithful
  <2>4. ASSUME NEW q \in Pods, Write(q)
        PROVE  Faithful(p)'
    BY <1>1, <1>3, <2>1, <2>4, WriteIsFaithful
  <2>5. ASSUME NEW a \in Agents, AgentStep(a) \/ Break(a) \/ Die(a)
        PROVE  Faithful(p)'
    <3>1. pod' = pod
      BY <2>5 DEF AgentStep, OpenStream, Attach, Break, Die
    <3>2. QED
      BY <1>1, <1>3, <2>1, <2>5, <3>1, MeshStepIsFaithful
  <2>6. CASE Clock
    <3>1. pod' = pod
      BY <2>6 DEF Clock
    <3>2. QED
      BY <1>1, <1>3, <2>1, <2>6, <3>1, ClockIsFaithful
  <2>7. QED
    BY <2>2, <2>3, <2>4, <2>5, <2>6 DEF Next
<1>4. QED
  BY <1>1, <1>2, <1>3 DEF StoreInv

\* What a restart of the server would restore from the agents table is its tree as it is,
\* but for agents placed anew since the last whole snapshot was begun: for any mesh, any
\* order of row writes, and crashes in the middle of them (snapshotTopologyOnce, Rehydrate).
THEOREM DiskKeepsUp == Spec => []DiskIsCurrent
<1>1. Init => StoreInv
  <2>1. Init => \A p \in Pods : pod[p] = "down"
    BY DEF Init
  <2>2. QED
    BY <2>1, InitTypes DEF StoreInv
<1>2. StoreInv => DiskIsCurrent
  BY DEF StoreInv, DiskIsCurrent, Faithful, OnDisk, Alike
<1>3. QED
  BY <1>1, <1>2, StoreInvKept, PTL DEF Spec

-----------------------------------------------------------------------------
\* A pod that takes itself for the leader without holding the lock has no session with
\* the database: PostgreSQL lets two servers be ready only while one is cut off
\* (postgresLeader.Run).
THEOREM NoTwoLeadersConnected == Spec => []LeadersHoldTheLock
<1> DEFINE HInv == LeadersHoldTheLock /\ isLeader \subseteq Pods
<1>1. Init => HInv
  BY DEF Init, LeadersHoldTheLock
<1>2. HInv /\ [Next]_vars => HInv'
  <2> SUFFICES ASSUME HInv, [Next]_vars PROVE HInv'
    OBVIOUS
  <2>1. ASSUME NEW p \in Pods, LeaderPoll(p)
        PROVE  HInv'
    BY <2>1, StoreAssumption DEF LeaderPoll, LeadersHoldTheLock
  <2>2. ASSUME NEW p \in Pods, LoseSession(p) \/ StopPod(p)
        PROVE  HInv'
    BY <2>2 DEF LoseSession, StopPod, LeadersHoldTheLock
  <2>3. CASE UNCHANGED electionVars
    BY <2>3 DEF electionVars, LeadersHoldTheLock
  <2>4. QED
    BY <2>1, <2>2, <2>3 DEF Next, vars, Clock, PodStep, Write, AgentStep, Break, Die, StartPod,
         RehydrateTopology, ReapStaleAgents, TakeSnapshot, WriteParent, WriteRole, OpenStream, Attach
<1>3. QED
  BY <1>1, <1>2, PTL DEF Spec
=============================================================================
