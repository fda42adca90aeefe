---------------------------- MODULE MeshTopology ----------------------------
(***************************************************************************)
(* The server's in-memory picture of the mesh: which agent hangs under     *)
(* which, who is a zone leader, who is online.  Every method takes the     *)
(* topology's one lock for its whole body, so a method is one step; this   *)
(* module is the methods called in any order, with any arguments, by any   *)
(* number of goroutines.  MeshServer composes it with its real callers.    *)
(*                                                                         *)
(* Addresses, hostnames and failure domains do not change after            *)
(* registration here and are constants.  A flap score is a decayed count   *)
(* of reboots, kept rounded down: a bump adds 1 and Decay may lower it at  *)
(* any time, which is exact for a whole-number threshold.                  *)
(***************************************************************************)
EXTENDS Integers, FiniteSets

CONSTANTS
  Agents,             \* every agent that may register
  NoAgent,            \* the empty parent ID
  MaxChildrenPerNode, \* placement budget of a node
  ProbationChildCap,  \* the budget of a node that keeps rebooting
  FlapThreshold,      \* reboots that put a node on probation; 0 disables it
  MaxFlap,            \* bound: flap scores above this are not told apart
  MaxDepth            \* bound: a link that would be deeper is not made

ASSUME NoAgentAssumption == NoAgent \notin Agents
ASSUME AgentsAssumption == IsFiniteSet(Agents)
ASSUME BudgetAssumption == MaxChildrenPerNode \in Nat /\ ProbationChildCap \in Nat
ASSUME FlapAssumption == FlapThreshold \in Nat /\ MaxFlap \in Nat
ASSUME DepthAssumption == MaxDepth \in Nat

VARIABLES
  nodes,        \* the registered agents
  role,         \* "" until placed, then "zone_leader" or "relay"
  parent,       \* parentID
  children,     \* the children set of each node
  depth,
  online,       \* the nodes marked online
  zoneLeaders,  \* the zone-leader index
  flap,         \* flap score
  mu,           \* "stuck" once a method never releases the lock
  observed      \* history: the nodes whose link was reported, not placed

links == <<role, parent, children, depth, zoneLeaders, observed>>
vars == <<nodes, links, online, flap, mu>>

Init ==
  /\ nodes = {}
  /\ role = [a \in Agents |-> ""]
  /\ parent = [a \in Agents |-> NoAgent]
  /\ children = [a \in Agents |-> {}]
  /\ depth = [a \in Agents |-> 0]
  /\ online = {}
  /\ zoneLeaders = {}
  /\ flap = [a \in Agents |-> 0]
  /\ mu = "free"
  /\ observed = {}

-----------------------------------------------------------------------------
(***************************************************************************)
(* Walks.  Going up follows parent pointers, going down follows children   *)
(* sets; both visit the least set closed under the pointer, in whatever    *)
(* order the loops take.                                                   *)
(***************************************************************************)

\* id and its ancestors.
Above(id) ==
  {x \in nodes : \A S \in SUBSET nodes :
     (id \in S /\ \A y \in S : parent[y] # NoAgent => parent[y] \in S) => x \in S}

\* SubtreeIDs: id and its descendants.
Below(id) ==
  {x \in nodes : \A S \in SUBSET nodes :
     (id \in S /\ \A y \in S : children[y] \subseteq S) => x \in S}

\* isFlakyLocked
Flaky(a) == FlapThreshold > 0 /\ flap[a] >= FlapThreshold

\* capacityLocked
Capacity(a) ==
  IF Flaky(a) /\ ProbationChildCap < MaxChildrenPerNode
  THEN ProbationChildCap ELSE MaxChildrenPerNode

Min2(x, y) == IF x < y THEN x ELSE y

-----------------------------------------------------------------------------
\* A registering agent comes online; one that was marked offline has flapped.
AddAgent(id) ==
  /\ mu = "free"
  /\ nodes' = nodes \cup {id}
  /\ online' = online \cup {id}
  /\ flap' = [flap EXCEPT ![id] = IF id \in nodes \ online
                                  THEN Min2(@ + 1, MaxFlap) ELSE @]
  /\ UNCHANGED <<links, mu>>

\* unlinkFromParentLocked
Unlinked(id) ==
  [p \in Agents |-> IF p = parent[id] THEN children[p] \ {id} ELSE children[p]]

AssignZoneLeader(id) ==
  /\ mu = "free"
  /\ id \in nodes
  /\ children' = Unlinked(id)
  /\ role' = [role EXCEPT ![id] = "zone_leader"]
  /\ parent' = [parent EXCEPT ![id] = NoAgent]
  /\ depth' = [depth EXCEPT ![id] = 0]
  /\ zoneLeaders' = zoneLeaders \cup {id}
  /\ observed' = observed \ {id}
  /\ UNCHANGED <<nodes, online, flap, mu>>

\* Mutant of Link: the old parent keeps its entry.
LinkKeepsOld(id, p) ==
  /\ depth[p] < MaxDepth
  /\ children' = [children EXCEPT ![p] = @ \cup {id}]
  /\ role' = [role EXCEPT ![id] = "relay"]
  /\ parent' = [parent EXCEPT ![id] = p]
  /\ depth' = [depth EXCEPT ![id] = depth[p] + 1]
  /\ zoneLeaders' = zoneLeaders \ {id}
  /\ UNCHANGED <<nodes, online, flap, mu>>

\* The writes AssignChild and AttachObserved share.
Link(id, p) ==
  /\ depth[p] < MaxDepth
  /\ children' = [Unlinked(id) EXCEPT ![p] = @ \cup {id}]
  /\ role' = [role EXCEPT ![id] = "relay"]
  /\ parent' = [parent EXCEPT ![id] = p]
  /\ depth' = [depth EXCEPT ![id] = depth[p] + 1]
  /\ zoneLeaders' = zoneLeaders \ {id}
  /\ UNCHANGED <<nodes, online, flap, mu>>

\* Mutant of CanAdopt: the budget check is off by one.
CanAdoptOneMore(id, p) ==
  /\ mu = "free"
  /\ id \in nodes
  /\ p \in nodes \cap online
  /\ Cardinality(children[p]) <= Capacity(p)

\* The server places id under p.  Nothing here looks at id's subtree.
CanAdopt(id, p) ==
  /\ mu = "free"
  /\ id \in nodes
  /\ p \in nodes \cap online
  /\ Cardinality(children[p]) < Capacity(p)

AssignChild(id, p) ==
  /\ CanAdopt(id, p)
  /\ Link(id, p)
  /\ observed' = observed \ {id}

\* Mutant of AttachObserved: only p's own parent is looked at.
AttachObservedOneUp(id, p) ==
  /\ mu = "free"
  /\ id # p
  /\ {id, p} \subseteq nodes
  /\ id # parent[p]
  /\ Link(id, p)
  /\ observed' = observed \cup {id}

\* A relay reported that id is attached to p.  Neither p's budget nor its
\* state matter; a link that would close a cycle is refused.
AttachObserved(id, p) ==
  /\ mu = "free"
  /\ id # p
  /\ {id, p} \subseteq nodes
  /\ id \notin Above(p)
  /\ \E x \in Above(p) : parent[x] = NoAgent
  /\ Link(id, p)
  /\ observed' = observed \cup {id}

\* The same call when p's chain runs into a cycle that id is not on: the walk
\* keeps no set of visited nodes, and never ends.
AttachObservedHangs(id, p) ==
  /\ mu = "free"
  /\ id # p
  /\ {id, p} \subseteq nodes
  /\ id \notin Above(p)
  /\ \A x \in Above(p) : parent[x] # NoAgent
  /\ mu' = "stuck"
  /\ UNCHANGED <<nodes, links, online, flap>>

ClearParent(id) ==
  /\ mu = "free"
  /\ id \in nodes
  /\ children' = Unlinked(id)
  /\ role' = [role EXCEPT ![id] = ""]
  /\ parent' = [parent EXCEPT ![id] = NoAgent]
  /\ depth' = [depth EXCEPT ![id] = 0]
  /\ zoneLeaders' = zoneLeaders \ {id}
  /\ observed' = observed \ {id}
  /\ UNCHANGED <<nodes, online, flap, mu>>

MarkOnline(id) ==
  /\ mu = "free"
  /\ online' = online \cup ({id} \cap nodes)
  /\ UNCHANGED <<nodes, links, flap, mu>>

MarkOffline(id) ==
  /\ mu = "free"
  /\ online' = online \ {id}
  /\ UNCHANGED <<nodes, links, flap, mu>>

\* The node and everything below it.
MarkSubtreeOffline(id) ==
  /\ mu = "free"
  /\ id \in nodes
  /\ online' = online \ Below(id)
  /\ UNCHANGED <<nodes, links, flap, mu>>

\* Delete a node; its children are left without a parent or a role.
Remove(id) ==
  /\ mu = "free"
  /\ id \in nodes
  /\ LET cut == children[id] \cup {id} IN
       /\ role' = [a \in Agents |-> IF a \in cut THEN "" ELSE role[a]]
       /\ parent' = [a \in Agents |-> IF a \in cut THEN NoAgent ELSE parent[a]]
       /\ depth' = [a \in Agents |-> IF a \in cut THEN 0 ELSE depth[a]]
       /\ observed' = observed \ cut
  /\ children' = [Unlinked(id) EXCEPT ![id] = {}]
  /\ zoneLeaders' = zoneLeaders \ {id}
  /\ nodes' = nodes \ {id}
  /\ online' = online \ {id}
  /\ flap' = [flap EXCEPT ![id] = 0]
  /\ UNCHANGED mu

\* Time passes without a reboot of id.
Decay(id) ==
  /\ flap[id] > 0
  /\ flap' = [flap EXCEPT ![id] = @ - 1]
  /\ UNCHANGED <<nodes, links, online, mu>>

Next ==
  \E id \in Agents :
    \/ AddAgent(id) \/ AssignZoneLeader(id) \/ ClearParent(id) \/ Remove(id)
    \/ MarkOnline(id) \/ MarkOffline(id) \/ MarkSubtreeOffline(id) \/ Decay(id)
    \/ \E p \in Agents :
         AssignChild(id, p) \/ AttachObserved(id, p) \/ AttachObservedHangs(id, p)

Spec == Init /\ [][Next]_vars

-----------------------------------------------------------------------------
TypeOK ==
  /\ nodes \subseteq Agents
  /\ role \in [Agents -> {"", "zone_leader", "relay"}]
  /\ parent \in [Agents -> Agents \cup {NoAgent}]
  /\ children \in [Agents -> SUBSET Agents]
  /\ depth \in [Agents -> Nat]
  /\ online \subseteq Agents
  /\ zoneLeaders \subseteq Agents
  /\ flap \in [Agents -> Nat]
  /\ mu \in {"free", "stuck"}
  /\ observed \subseteq Agents

\* The redundant records of one tree agree after any sequence of moves: the
\* children sets are the parent pointers read backwards, a node has a parent
\* exactly when it is a relay (and only then a positive depth), the zone-leader
\* index lists the zone leaders, and nothing refers to an unregistered agent.
LinksAgree ==
  /\ \A c, p \in Agents : c \in children[p] <=> parent[c] = p
  /\ \A a \in Agents : role[a] = "relay" <=> parent[a] # NoAgent
  /\ \A a \in Agents : role[a] = "zone_leader" <=> a \in zoneLeaders
  /\ \A a \in Agents : depth[a] > 0 <=> parent[a] # NoAgent
  /\ \A a \in Agents : parent[a] # NoAgent => a \in nodes /\ parent[a] \in nodes
  /\ zoneLeaders \cup online \cup observed \subseteq nodes

\* The walk up that decides who may speak for whom (IsWithinSubtree, behind
\* every origin check) and the walk down that decides who is lost with whom
\* (SubtreeIDs, MarkSubtreeOffline) see the same subtrees, cycles or not.
WalksAgree == \A a, d \in nodes : a \in Above(d) <=> d \in Below(a)

\* Whatever the server places stays within the budget; only links that were
\* reported as already made can take a node over it.
PlacementWithinBudget ==
  \A p \in Agents : Cardinality(children[p] \ observed) <= MaxChildrenPerNode

\* No set of nodes feeds on itself.
Acyclic == \A C \in SUBSET nodes : C # {} => \E a \in C : parent[a] \notin C

\* meshtopology.go:330 "refuse to record one however insistent the report": a
\* reported attachment never closes a cycle, nor does any other method but
\* AssignChild.
OnlyPlacementClosesCycles ==
  [][(Acyclic /\ ~Acyclic') => \E id, p \in Agents : AssignChild(id, p)]_vars
=============================================================================
