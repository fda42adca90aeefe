------------------------- MODULE MeshTopologyProofs -------------------------
(***************************************************************************)
(* Proofs about MeshTopology, for any fleet, budget and flap threshold.    *)
(***************************************************************************)
EXTENDS MeshTopology, FiniteSetTheorems, TLAPS

\* The methods that leave every link alone.
LinklessStep(id) ==
  \/ AddAgent(id) \/ MarkOnline(id) \/ MarkOffline(id)
  \/ MarkSubtreeOffline(id) \/ Decay(id)

\* unlinkFromParentLocked keeps children sets sets of agents.
LEMMA UnlinkedType ==
  ASSUME TypeOK, NEW id \in Agents
  PROVE  Unlinked(id) \in [Agents -> SUBSET Agents]
BY DEF TypeOK, Unlinked

\* Both ways of making a link keep the state well typed.
LEMMA LinkType ==
  ASSUME TypeOK, NEW id \in nodes, NEW p \in nodes, Link(id, p),
         observed' \subseteq Agents
  PROVE  TypeOK'
<1>1. id \in Agents /\ p \in Agents
  BY DEF TypeOK
<1>2. children' \in [Agents -> SUBSET Agents]
  BY <1>1, UnlinkedType DEF TypeOK, Link
<1>3. depth' \in [Agents -> Nat]
  <2>1. depth \in [Agents -> Nat] /\ depth' = [depth EXCEPT ![id] = depth[p] + 1]
    BY DEF TypeOK, Link
  <2>2. depth[p] + 1 \in Nat
    BY <1>1, <2>1
  <2>. QED  BY <1>1, <2>1, <2>2
<1>4. /\ role' \in [Agents -> {"", "zone_leader", "relay"}]
      /\ parent' \in [Agents -> Agents \cup {NoAgent}]
      /\ zoneLeaders' \subseteq Agents
  BY <1>1 DEF TypeOK, Link
<1>. QED  BY <1>2, <1>3, <1>4 DEF TypeOK, Link

\* Type correctness of the topology.
LEMMA TypeCorrect == Spec => []TypeOK
<1>1. Init => TypeOK
  <2> SUFFICES ASSUME Init PROVE TypeOK
    OBVIOUS
  <2>1. role \in [Agents -> {"", "zone_leader", "relay"}]
    BY DEF Init
  <2>2. parent \in [Agents -> Agents \cup {NoAgent}]
    BY DEF Init
  <2>3. children \in [Agents -> SUBSET Agents]
    BY DEF Init
  <2>4. depth \in [Agents -> Nat] /\ flap \in [Agents -> Nat]
    BY DEF Init
  <2>. QED  BY <2>1, <2>2, <2>3, <2>4 DEF Init, TypeOK
<1>2. TypeOK /\ [Next]_vars => TypeOK'
  <2> SUFFICES ASSUME TypeOK, [Next]_vars PROVE TypeOK'
    OBVIOUS
  <2>1. ASSUME NEW id \in Agents, AddAgent(id) PROVE TypeOK'
    <3>1. flap' \in [Agents -> Nat]
      <4>0. flap \in [Agents -> Nat]
        BY DEF TypeOK
      <4>1. flap[id] \in Nat /\ flap[id] + 1 \in Nat
        BY <4>0
      <4>2. Min2(flap[id] + 1, MaxFlap) \in Nat
        BY <4>1, FlapAssumption DEF Min2
      <4>3. PICK v \in Nat : flap' = [flap EXCEPT ![id] = v]
        BY <2>1, <4>1, <4>2 DEF AddAgent
      <4>. QED  BY <4>0, <4>3
    <3>. QED  BY <2>1, <3>1 DEF TypeOK, AddAgent, links
  <2>2. ASSUME NEW id \in Agents, AssignZoneLeader(id) \/ ClearParent(id)
        PROVE  TypeOK'
    <3>1. children' \in [Agents -> SUBSET Agents]
      BY <2>2, UnlinkedType DEF AssignZoneLeader, ClearParent
    <3>2. depth' \in [Agents -> Nat]
      <4>1. depth \in [Agents -> Nat] /\ depth' = [depth EXCEPT ![id] = 0]
        BY <2>2 DEF TypeOK, AssignZoneLeader, ClearParent
      <4>. QED  BY <4>1
    <3>. QED  BY <2>2, <3>1, <3>2 DEF TypeOK, AssignZoneLeader, ClearParent
  <2>3. ASSUME NEW id \in Agents, Remove(id) PROVE TypeOK'
    <3>1. children' \in [Agents -> SUBSET Agents]
      BY <2>3, UnlinkedType DEF Remove
    <3>2. depth' \in [Agents -> Nat]
      BY <2>3, DepthAssumption DEF TypeOK, Remove
    <3>3. flap' \in [Agents -> Nat]
      BY <2>3, FlapAssumption DEF TypeOK, Remove
    <3>4. /\ role' \in [Agents -> {"", "zone_leader", "relay"}]
          /\ parent' \in [Agents -> Agents \cup {NoAgent}]
      BY <2>3 DEF TypeOK, Remove
    <3>. QED  BY <2>3, <3>1, <3>2, <3>3, <3>4 DEF TypeOK, Remove
  <2>4. ASSUME NEW id \in Agents, MarkOnline(id) \/ MarkOffline(id)
        PROVE  TypeOK'
    BY <2>4 DEF TypeOK, MarkOnline, MarkOffline, links
  <2>5. ASSUME NEW id \in Agents, MarkSubtreeOffline(id) PROVE TypeOK'
    BY <2>5 DEF TypeOK, MarkSubtreeOffline, links
  <2>6. ASSUME NEW id \in Agents, Decay(id) PROVE TypeOK'
    <3>1. flap' \in [Agents -> Nat]
      <4>0. flap \in [Agents -> Nat]
        BY DEF TypeOK
      <4>1. flap[id] > 0 /\ flap' = [flap EXCEPT ![id] = flap[id] - 1]
        BY <2>6 DEF Decay
      <4>2. flap[id] - 1 \in Nat
        BY <4>0, <4>1
      <4>. QED  BY <4>0, <4>1, <4>2
    <3>. QED  BY <2>6, <3>1 DEF TypeOK, Decay, links
  <2>7. ASSUME NEW id \in Agents, NEW p \in Agents,
               AssignChild(id, p) \/ AttachObserved(id, p)
        PROVE  TypeOK'
    <3>1. id \in nodes /\ p \in nodes /\ Link(id, p) /\ observed' \subseteq Agents
      BY <2>7 DEF TypeOK, AssignChild, CanAdopt, AttachObserved
    <3>. QED  BY <3>1, LinkType
  <2>8. ASSUME NEW id \in Agents, NEW p \in Agents, AttachObservedHangs(id, p)
        PROVE  TypeOK'
    BY <2>8 DEF TypeOK, AttachObservedHangs, links
  <2>9. CASE UNCHANGED vars
    BY <2>9 DEF TypeOK, vars, links
  <2>. QED
    BY <2>1, <2>2, <2>3, <2>4, <2>5, <2>6, <2>7, <2>8, <2>9 DEF Next
<1>. QED  BY <1>1, <1>2, PTL DEF Spec

-----------------------------------------------------------------------------
(***************************************************************************)
(* The redundant records of the tree agree.                                *)
(***************************************************************************)

\* Where everyone hangs once id is linked to p.
LinkedUnder(id, p) ==
  /\ \A q \in Agents : children'[q] =
       IF q = p THEN children[q] \cup {id}
       ELSE IF q = parent[id] THEN children[q] \ {id} ELSE children[q]
  /\ \A c \in Agents : parent'[c] = IF c = id THEN p ELSE parent[c]
  /\ \A c \in Agents : role'[c] = IF c = id THEN "relay" ELSE role[c]

\* What a link changes, field by field.
LEMMA LinkEffect ==
  ASSUME TypeOK, NEW id \in nodes, NEW p \in nodes, Link(id, p)
  PROVE  /\ id \in Agents /\ p \in Agents /\ p # NoAgent
         /\ LinkedUnder(id, p)
         /\ \A c \in Agents : depth'[c] = IF c = id THEN depth[p] + 1 ELSE depth[c]
         /\ depth[p] \in Nat
<1>1. id \in Agents /\ p \in Agents /\ p # NoAgent
  BY NoAgentAssumption DEF TypeOK
<1>2. /\ children \in [Agents -> SUBSET Agents]
      /\ parent \in [Agents -> Agents \cup {NoAgent}]
      /\ role \in [Agents -> {"", "zone_leader", "relay"}]
      /\ depth \in [Agents -> Nat]
  BY DEF TypeOK
<1>3. \A q \in Agents : children'[q] =
        IF q = p THEN children[q] \cup {id}
        ELSE IF q = parent[id] THEN children[q] \ {id} ELSE children[q]
  <2>1. children' = [Unlinked(id) EXCEPT ![p] = Unlinked(id)[p] \cup {id}]
    BY DEF Link
  <2>2. /\ Unlinked(id) \in [Agents -> SUBSET Agents]
        /\ \A q \in Agents : Unlinked(id)[q] =
             IF q = parent[id] THEN children[q] \ {id} ELSE children[q]
    BY <1>1, <1>2, UnlinkedType DEF Unlinked
  <2>3. \A q \in Agents :
          children'[q] = IF q = p THEN Unlinked(id)[p] \cup {id} ELSE Unlinked(id)[q]
    BY <1>1, <2>1, <2>2
  <2>4. Unlinked(id)[p] \cup {id} = children[p] \cup {id}
    BY <1>1, <2>2
  <2>. QED  BY <2>2, <2>3, <2>4
<1>4. /\ \A c \in Agents : parent'[c] = IF c = id THEN p ELSE parent[c]
      /\ \A c \in Agents : role'[c] = IF c = id THEN "relay" ELSE role[c]
  BY <1>1, <1>2 DEF Link
<1>5. \A c \in Agents : depth'[c] = IF c = id THEN depth[p] + 1 ELSE depth[c]
  BY <1>1, <1>2 DEF Link
<1>. QED  BY <1>1, <1>2, <1>3, <1>4, <1>5 DEF LinkedUnder

\* Making a link keeps parent pointers, children sets and roles in agreement,
\* wherever the child was attached before.
LEMMA LinkKeepsLinks ==
  ASSUME TypeOK, LinksAgree, NEW id \in nodes, NEW p \in nodes, Link(id, p),
         observed' \subseteq observed \cup {id}
  PROVE  LinksAgree'
<1>0. /\ id \in Agents /\ p \in Agents /\ p # NoAgent
      /\ LinkedUnder(id, p)
      /\ \A c \in Agents : depth'[c] = IF c = id THEN depth[p] + 1 ELSE depth[c]
      /\ depth[p] \in Nat
  BY LinkEffect
<1>1. \A c, q \in Agents : c \in children'[q] <=> parent'[c] = q
  <2>1. \A c, q \in Agents : c \in children[q] <=> parent[c] = q
    BY DEF LinksAgree
  <2> SUFFICES ASSUME NEW c \in Agents, NEW q \in Agents
               PROVE  c \in children'[q] <=> parent'[c] = q
    OBVIOUS
  <2>2. c \in children[q] <=> parent[c] = q
    BY <2>1
  <2>3. /\ children'[q] = IF q = p THEN children[q] \cup {id}
                          ELSE IF q = parent[id] THEN children[q] \ {id} ELSE children[q]
        /\ parent'[c] = IF c = id THEN p ELSE parent[c]
    BY <1>0 DEF LinkedUnder
  <2>4. CASE c = id
    BY <2>2, <2>3, <2>4
  <2>5. CASE c # id
    BY <2>2, <2>3, <2>5
  <2>. QED  BY <2>4, <2>5
<1>2. \A a \in Agents : role'[a] = "relay" <=> parent'[a] # NoAgent
  <2>1. \A a \in Agents : role[a] = "relay" <=> parent[a] # NoAgent
    BY DEF LinksAgree
  <2>. QED  BY <2>1, <1>0 DEF LinkedUnder
<1>3. \A a \in Agents : role'[a] = "zone_leader" <=> a \in zoneLeaders'
  <2>1. \A a \in Agents : role[a] = "zone_leader" <=> a \in zoneLeaders
    BY DEF LinksAgree
  <2>2. zoneLeaders' = zoneLeaders \ {id}
    BY DEF Link
  <2>. QED  BY <2>1, <2>2, <1>0 DEF LinkedUnder
<1>4. \A a \in Agents : depth'[a] > 0 <=> parent'[a] # NoAgent
  <2>1. \A a \in Agents : depth[a] > 0 <=> parent[a] # NoAgent
    BY DEF LinksAgree
  <2>2. depth[p] \in Nat /\ depth[p] + 1 > 0
    BY <1>0
  <2>. QED  BY <2>1, <2>2, <1>0 DEF LinkedUnder
<1>5. \A a \in Agents : parent'[a] # NoAgent => a \in nodes' /\ parent'[a] \in nodes'
  <2>1. \A a \in Agents : parent[a] # NoAgent => a \in nodes /\ parent[a] \in nodes
    BY DEF LinksAgree
  <2>2. nodes' = nodes
    BY DEF Link
  <2>. QED  BY <2>1, <2>2, <1>0 DEF LinkedUnder
<1>6. zoneLeaders' \cup online' \cup observed' \subseteq nodes'
  BY DEF LinksAgree, Link
<1>. QED  BY <1>1, <1>2, <1>3, <1>4, <1>5, <1>6 DEF LinksAgree

\* Where everyone hangs once id is taken off its parent.
Detached(id) ==
  /\ \A q \in Agents : children'[q] =
       IF q = parent[id] THEN children[q] \ {id} ELSE children[q]
  /\ \A c \in Agents : parent'[c] = IF c = id THEN NoAgent ELSE parent[c]
  /\ \A c \in Agents : depth'[c] = IF c = id THEN 0 ELSE depth[c]

\* The role id is left with, and the zone-leader index.
Relabelled(id) ==
  /\ \A c \in Agents : c # id => role'[c] = role[c]
  /\ \/ role'[id] = "zone_leader" /\ zoneLeaders' = zoneLeaders \cup {id}
     \/ role'[id] = "" /\ zoneLeaders' = zoneLeaders \ {id}

\* What taking a node off its parent changes, field by field.
LEMMA DetachEffect ==
  ASSUME TypeOK, NEW id \in Agents, AssignZoneLeader(id) \/ ClearParent(id)
  PROVE  /\ Detached(id)
         /\ Relabelled(id)
         /\ id \in nodes /\ nodes' = nodes /\ online' = online
         /\ observed' = observed \ {id}
<1>1. /\ children \in [Agents -> SUBSET Agents]
      /\ parent \in [Agents -> Agents \cup {NoAgent}]
      /\ role \in [Agents -> {"", "zone_leader", "relay"}]
      /\ depth \in [Agents -> Nat]
  BY DEF TypeOK
<1>2. \A q \in Agents : children'[q] =
        IF q = parent[id] THEN children[q] \ {id} ELSE children[q]
  <2>1. children' = Unlinked(id)
    BY DEF AssignZoneLeader, ClearParent
  <2>. QED  BY <2>1 DEF Unlinked
<1>3. /\ parent' = [parent EXCEPT ![id] = NoAgent]
      /\ depth' = [depth EXCEPT ![id] = 0]
      /\ id \in nodes /\ nodes' = nodes /\ online' = online
      /\ observed' = observed \ {id}
  BY DEF AssignZoneLeader, ClearParent
<1>4. Relabelled(id)
  <2>1. CASE AssignZoneLeader(id)
    BY <1>1, <2>1 DEF AssignZoneLeader, Relabelled
  <2>2. CASE ClearParent(id)
    BY <1>1, <2>2 DEF ClearParent, Relabelled
  <2>. QED  BY <2>1, <2>2
<1>5. Detached(id)
  BY <1>1, <1>2, <1>3 DEF Detached
<1>. QED  BY <1>3, <1>4, <1>5

\* Taking a node off its parent, to lead a zone or to wait for a place, keeps
\* the records in agreement.
LEMMA DetachKeepsLinks ==
  ASSUME TypeOK, LinksAgree, NEW id \in Agents,
         AssignZoneLeader(id) \/ ClearParent(id)
  PROVE  LinksAgree'
<1>0. /\ Detached(id)
      /\ Relabelled(id)
      /\ id \in nodes /\ nodes' = nodes /\ online' = online
      /\ observed' = observed \ {id}
  BY DetachEffect
<1>1. \A c, q \in Agents : c \in children'[q] <=> parent'[c] = q
  <2>1. \A c, q \in Agents : c \in children[q] <=> parent[c] = q
    BY DEF LinksAgree
  <2> SUFFICES ASSUME NEW c \in Agents, NEW q \in Agents
               PROVE  c \in children'[q] <=> parent'[c] = q
    OBVIOUS
  <2>2. c \in children[q] <=> parent[c] = q
    BY <2>1
  <2>3. /\ children'[q] = IF q = parent[id] THEN children[q] \ {id} ELSE children[q]
        /\ parent'[c] = IF c = id THEN NoAgent ELSE parent[c]
        /\ q # NoAgent
    BY <1>0, NoAgentAssumption DEF Detached
  <2>4. CASE c = id
    BY <2>2, <2>3, <2>4
  <2>5. CASE c # id
    BY <2>2, <2>3, <2>5
  <2>. QED  BY <2>4, <2>5
<1>2. \A a \in Agents : role'[a] = "relay" <=> parent'[a] # NoAgent
  <2>1. \A a \in Agents : role[a] = "relay" <=> parent[a] # NoAgent
    BY DEF LinksAgree
  <2>. QED  BY <1>0, <2>1 DEF Detached, Relabelled
<1>3. \A a \in Agents : role'[a] = "zone_leader" <=> a \in zoneLeaders'
  <2>1. \A a \in Agents : role[a] = "zone_leader" <=> a \in zoneLeaders
    BY DEF LinksAgree
  <2>. QED  BY <1>0, <2>1 DEF Detached, Relabelled
<1>4. \A a \in Agents : depth'[a] > 0 <=> parent'[a] # NoAgent
  <2>1. \A a \in Agents : depth[a] > 0 <=> parent[a] # NoAgent
    BY DEF LinksAgree
  <2> SUFFICES ASSUME NEW a \in Agents
               PROVE  depth'[a] > 0 <=> parent'[a] # NoAgent
    OBVIOUS
  <2>2. /\ depth'[a] = IF a = id THEN 0 ELSE depth[a]
        /\ parent'[a] = IF a = id THEN NoAgent ELSE parent[a]
    BY <1>0 DEF Detached
  <2>. QED  BY <2>1, <2>2
<1>5. \A a \in Agents : parent'[a] # NoAgent => a \in nodes' /\ parent'[a] \in nodes'
  <2>1. \A a \in Agents : parent[a] # NoAgent => a \in nodes /\ parent[a] \in nodes
    BY DEF LinksAgree
  <2>. QED  BY <1>0, <2>1 DEF Detached, Relabelled
<1>6. zoneLeaders' \cup online' \cup observed' \subseteq nodes'
  BY <1>0 DEF LinksAgree, Relabelled
<1>. QED  BY <1>1, <1>2, <1>3, <1>4, <1>5, <1>6 DEF LinksAgree

\* Deleting a node leaves nothing pointing at it.
LEMMA RemoveKeepsLinks ==
  ASSUME TypeOK, LinksAgree, NEW id \in Agents, Remove(id)
  PROVE  LinksAgree'
<1> DEFINE cut == children[id] \cup {id}
<1>1. /\ children \in [Agents -> SUBSET Agents]
      /\ \A c, q \in Agents : c \in children[q] <=> parent[c] = q
      /\ \A a \in Agents : role[a] = "relay" <=> parent[a] # NoAgent
      /\ \A a \in Agents : role[a] = "zone_leader" <=> a \in zoneLeaders
      /\ \A a \in Agents : depth[a] > 0 <=> parent[a] # NoAgent
      /\ \A a \in Agents : parent[a] # NoAgent => a \in nodes /\ parent[a] \in nodes
  BY DEF TypeOK, LinksAgree
<1>2. \A q \in Agents : children'[q] =
        IF q = id THEN {}
        ELSE IF q = parent[id] THEN children[q] \ {id} ELSE children[q]
  <2>1. children' = [Unlinked(id) EXCEPT ![id] = {}]
    BY DEF Remove
  <2>. QED  BY <2>1, UnlinkedType DEF Unlinked
<1>3. \A c \in Agents :
        /\ parent'[c] = IF c \in cut THEN NoAgent ELSE parent[c]
        /\ role'[c] = IF c \in cut THEN "" ELSE role[c]
        /\ depth'[c] = IF c \in cut THEN 0 ELSE depth[c]
  BY DEF Remove
<1>4. /\ zoneLeaders' = zoneLeaders \ {id} /\ nodes' = nodes \ {id}
      /\ online' = online \ {id} /\ observed' \subseteq observed \ {id}
  BY DEF Remove
<1>5. \A c, q \in Agents : c \in children'[q] <=> parent'[c] = q
  <2> SUFFICES ASSUME NEW c \in Agents, NEW q \in Agents
               PROVE  c \in children'[q] <=> parent'[c] = q
    OBVIOUS
  <2>2. /\ c \in children[q] <=> parent[c] = q
        /\ c \in children[id] <=> parent[c] = id
        /\ q # NoAgent
    BY <1>1, NoAgentAssumption
  <2>3. /\ children'[q] = IF q = id THEN {}
                          ELSE IF q = parent[id] THEN children[q] \ {id} ELSE children[q]
        /\ parent'[c] = IF c \in cut THEN NoAgent ELSE parent[c]
    BY <1>2, <1>3
  <2>4. CASE c = id
    BY <2>2, <2>3, <2>4
  <2>5. CASE c # id
    BY <2>2, <2>3, <2>5
  <2>. QED  BY <2>4, <2>5
<1>6. \A a \in Agents : role'[a] = "relay" <=> parent'[a] # NoAgent
  BY <1>1, <1>3
<1>7. \A a \in Agents : role'[a] = "zone_leader" <=> a \in zoneLeaders'
  <2>1. \A a \in children[id] : a \in Agents /\ a \notin zoneLeaders
    BY <1>1, NoAgentAssumption
  <2>. QED  BY <1>1, <1>3, <1>4, <2>1
<1>8. \A a \in Agents : depth'[a] > 0 <=> parent'[a] # NoAgent
  <2> SUFFICES ASSUME NEW a \in Agents
               PROVE  depth'[a] > 0 <=> parent'[a] # NoAgent
    OBVIOUS
  <2>1. /\ depth'[a] = IF a \in cut THEN 0 ELSE depth[a]
        /\ parent'[a] = IF a \in cut THEN NoAgent ELSE parent[a]
        /\ depth[a] > 0 <=> parent[a] # NoAgent
    BY <1>1, <1>3
  <2>. QED  BY <2>1
<1>9. \A a \in Agents : parent'[a] # NoAgent => a \in nodes' /\ parent'[a] \in nodes'
  <2> SUFFICES ASSUME NEW a \in Agents, parent'[a] # NoAgent
               PROVE  a \in nodes' /\ parent'[a] \in nodes'
    OBVIOUS
  <2>1. a \notin cut /\ parent'[a] = parent[a] /\ parent[a] # NoAgent
    BY <1>3
  <2>2. a # id /\ parent[a] # id
    BY <1>1, <2>1
  <2>. QED  BY <1>1, <1>4, <2>1, <2>2
<1>10. zoneLeaders' \cup online' \cup observed' \subseteq nodes'
  BY <1>4 DEF LinksAgree
<1>. QED  BY <1>5, <1>6, <1>7, <1>8, <1>9, <1>10 DEF LinksAgree

\* Methods that only touch the online flag or the flap score.
LEMMA LinklessKeepsLinks ==
  ASSUME TypeOK, LinksAgree, NEW id \in Agents, LinklessStep(id)
  PROVE  LinksAgree'
<1>1. /\ links' = links
      /\ nodes \subseteq nodes'
      /\ online' \subseteq nodes'
  BY DEF LinklessStep, AddAgent, MarkOnline, MarkOffline, MarkSubtreeOffline,
         Decay, LinksAgree
<1>. QED  BY <1>1 DEF LinksAgree, links

\* The children sets, parent pointers, roles, depths and the zone-leader index
\* of the topology agree in every reachable state.
THEOREM TreeIsConsistent == Spec => []LinksAgree
<1>1. Init => LinksAgree
  <2> SUFFICES ASSUME Init PROVE LinksAgree
    OBVIOUS
  <2>1. /\ \A a \in Agents : parent[a] = NoAgent /\ role[a] = "" /\ children[a] = {}
        /\ zoneLeaders \cup online \cup observed \subseteq nodes
        /\ zoneLeaders = {}
    BY DEF Init
  <2>2. \A a \in Agents : depth[a] = 0
    BY DEF Init
  <2>3. \A c, p \in Agents : c \in children[p] <=> parent[c] = p
    BY <2>1, NoAgentAssumption
  <2>4. \A a \in Agents : depth[a] > 0 <=> parent[a] # NoAgent
    <3>1. ~(0 > 0)
      OBVIOUS
    <3>. QED  BY <2>1, <2>2, <3>1, Zenon
  <2>. QED  BY <2>1, <2>3, <2>4 DEF LinksAgree
<1>2. TypeOK /\ LinksAgree /\ [Next]_vars => LinksAgree'
  <2> SUFFICES ASSUME TypeOK, LinksAgree, [Next]_vars PROVE LinksAgree'
    OBVIOUS
  <2>1. ASSUME NEW id \in Agents, LinklessStep(id) PROVE LinksAgree'
    BY <2>1, LinklessKeepsLinks
  <2>2. ASSUME NEW id \in Agents, AssignZoneLeader(id) \/ ClearParent(id)
        PROVE  LinksAgree'
    BY <2>2, DetachKeepsLinks
  <2>3. ASSUME NEW id \in Agents, Remove(id) PROVE LinksAgree'
    BY <2>3, RemoveKeepsLinks
  <2>4. ASSUME NEW id \in Agents, NEW p \in Agents,
               AssignChild(id, p) \/ AttachObserved(id, p)
        PROVE  LinksAgree'
    <3>1. /\ id \in nodes /\ p \in nodes /\ Link(id, p)
          /\ observed' \subseteq observed \cup {id}
      BY <2>4 DEF AssignChild, CanAdopt, AttachObserved
    <3>. QED  BY <3>1, LinkKeepsLinks
  <2>5. ASSUME NEW id \in Agents, NEW p \in Agents, AttachObservedHangs(id, p)
        PROVE  LinksAgree'
    BY <2>5 DEF AttachObservedHangs, LinksAgree, links
  <2>6. CASE UNCHANGED vars
    BY <2>6 DEF LinksAgree, vars, links
  <2>. QED  BY <2>1, <2>2, <2>3, <2>4, <2>5, <2>6 DEF Next, LinklessStep
<1>. QED  BY <1>1, <1>2, TypeCorrect, PTL DEF Spec

-----------------------------------------------------------------------------
(***************************************************************************)
(* Walking up and walking down.                                            *)
(***************************************************************************)

\* A set closed under parents has a complement closed under children, and the
\* other way round; so the least closed sets of the two walks are dual.
LEMMA WalksAreDual ==
  ASSUME TypeOK, LinksAgree
  PROVE  WalksAgree
<1> DEFINE UpClosed(S) == \A y \in S : parent[y] # NoAgent => parent[y] \in S
           DownClosed(S) == \A y \in S : children[y] \subseteq S
<1>0. /\ nodes \subseteq Agents
      /\ children \in [Agents -> SUBSET Agents]
      /\ \A c, q \in Agents : c \in children[q] <=> parent[c] = q
      /\ \A c \in Agents : parent[c] # NoAgent => c \in nodes /\ parent[c] \in nodes
  BY DEF TypeOK, LinksAgree
<1>1. ASSUME NEW S \in SUBSET nodes, UpClosed(S) PROVE DownClosed(nodes \ S)
  <2> SUFFICES ASSUME NEW y \in nodes \ S, NEW c \in children[y]
               PROVE  c \in nodes \ S
    OBVIOUS
  <2>1. c \in Agents /\ parent[c] = y /\ y # NoAgent
    BY <1>0, NoAgentAssumption
  <2>2. c \in nodes
    BY <1>0, <2>1
  <2>. QED  BY <1>1, <2>1, <2>2
<1>2. ASSUME NEW S \in SUBSET nodes, DownClosed(S) PROVE UpClosed(nodes \ S)
  <2> SUFFICES ASSUME NEW y \in nodes \ S, parent[y] # NoAgent
               PROVE  parent[y] \in nodes \ S
    OBVIOUS
  <2>1. y \in Agents /\ parent[y] \in nodes /\ parent[y] \in Agents
    BY <1>0
  <2>2. y \in children[parent[y]]
    BY <1>0, <2>1
  <2>. QED  BY <1>2, <2>1, <2>2
<1>3. ASSUME NEW a \in nodes, NEW d \in nodes, a \notin Above(d)
      PROVE  d \notin Below(a)
  <2>1. PICK S \in SUBSET nodes : d \in S /\ UpClosed(S) /\ a \notin S
    BY <1>3 DEF Above
  <2>2. DownClosed(nodes \ S)
    BY <1>1, <2>1
  <2>3. a \in nodes \ S /\ d \notin nodes \ S /\ nodes \ S \in SUBSET nodes
    BY <2>1
  <2>. QED  BY <2>2, <2>3 DEF Below
<1>4. ASSUME NEW a \in nodes, NEW d \in nodes, d \notin Below(a)
      PROVE  a \notin Above(d)
  <2>1. PICK S \in SUBSET nodes : a \in S /\ DownClosed(S) /\ d \notin S
    BY <1>4 DEF Below
  <2>2. UpClosed(nodes \ S)
    BY <1>2, <2>1
  <2>3. d \in nodes \ S /\ a \notin nodes \ S /\ nodes \ S \in SUBSET nodes
    BY <2>1
  <2>. QED  BY <2>2, <2>3 DEF Above
<1>. QED  BY <1>3, <1>4 DEF WalksAgree

\* Origin checks and loss notifications always agree on who is below whom.
THEOREM SubtreesAgree == Spec => []WalksAgree
BY TypeCorrect, TreeIsConsistent, WalksAreDual, PTL

-----------------------------------------------------------------------------
(***************************************************************************)
(* Cycles.                                                                 *)
(***************************************************************************)

\* Keeping or clearing parent pointers closes no cycle.
LEMMA CuttingKeepsAcyclic ==
  ASSUME Acyclic, nodes' \subseteq Agents,
         \A a \in nodes' : (a \in nodes /\ parent'[a] = parent[a]) \/ parent'[a] = NoAgent
  PROVE  Acyclic'
<1> SUFFICES ASSUME NEW C \in SUBSET nodes', C # {}
             PROVE  \E a \in C : parent'[a] \notin C
  BY DEF Acyclic
<1>1. CASE \E a \in C : parent'[a] = NoAgent
  BY <1>1, NoAgentAssumption
<1>2. CASE \A a \in C : parent'[a] # NoAgent
  <2>1. \A a \in C : a \in nodes /\ parent'[a] = parent[a]
    BY <1>2
  <2>2. \E a \in C : parent[a] \notin C
    BY <2>1 DEF Acyclic
  <2>. QED  BY <2>1, <2>2
<1>. QED  BY <1>1, <1>2

\* A link to a node that is not at or below the child closes no cycle: a cycle
\* through the new link would already have been a cycle above the new parent.
LEMMA LinkKeepsAcyclic ==
  ASSUME TypeOK, LinksAgree, Acyclic, NEW id \in nodes, NEW p \in nodes,
         id \notin Above(p), Link(id, p)
  PROVE  Acyclic'
<1>0. id \in nodes /\ p \in nodes /\ id \notin Above(p) /\ Link(id, p)
  OBVIOUS
<1>1. nodes' = nodes /\ \A c \in Agents : parent'[c] = IF c = id THEN p ELSE parent[c]
  BY <1>0, LinkEffect DEF LinkedUnder, Link
<1>2. PICK S \in SUBSET nodes :
        p \in S /\ id \notin S /\ \A y \in S : parent[y] # NoAgent => parent[y] \in S
  BY <1>0 DEF Above
<1>3. nodes \subseteq Agents
  BY DEF TypeOK
<1> SUFFICES ASSUME NEW C \in SUBSET nodes, C # {},
                    \A a \in C : parent'[a] \in C
             PROVE  FALSE
  BY <1>1 DEF Acyclic
<1>4. CASE id \notin C
  <2>1. \A a \in C : parent[a] \in C
    BY <1>1, <1>3, <1>4
  <2>. QED  BY <2>1 DEF Acyclic
<1>5. CASE id \in C
  <2>1. p \in C \cap S /\ C \cap S \in SUBSET nodes
    BY <1>0, <1>1, <1>2, <1>3, <1>5
  <2>2. \A a \in C \cap S : parent[a] \in C \cap S
    <3> SUFFICES ASSUME NEW a \in C \cap S PROVE parent[a] \in C \cap S
      OBVIOUS
    <3>1. parent[a] \in C
      BY <1>1, <1>2, <1>3
    <3>2. parent[a] # NoAgent
      BY <1>3, <3>1, NoAgentAssumption
    <3>. QED  BY <1>2, <3>1, <3>2
  <2>. QED  BY <2>1, <2>2 DEF Acyclic
<1>. QED  BY <1>4, <1>5

\* So does what AttachObserved records, which looks for the child above the parent.
LEMMA ObservedLinkKeepsAcyclic ==
  ASSUME TypeOK, LinksAgree, Acyclic, NEW id \in Agents, NEW p \in Agents,
         AttachObserved(id, p)
  PROVE  Acyclic'
BY LinkKeepsAcyclic DEF AttachObserved

\* Every method but AssignChild keeps an acyclic topology acyclic.
LEMMA AcyclicStep ==
  ASSUME TypeOK, TypeOK', LinksAgree, Acyclic, [Next]_vars,
         ~\E id, p \in Agents : AssignChild(id, p)
  PROVE  Acyclic'
<1>0. nodes' \subseteq Agents
  BY DEF TypeOK
<1>1. ASSUME NEW id \in Agents, LinklessStep(id) PROVE Acyclic'
  <2>1. parent' = parent /\ nodes' \subseteq nodes \cup {id}
    BY <1>1 DEF LinklessStep, AddAgent, MarkOnline, MarkOffline,
                MarkSubtreeOffline, Decay, links
  <2>2. \A a \in Agents : parent[a] # NoAgent => a \in nodes
    BY DEF LinksAgree
  <2>. QED  BY <1>0, <2>1, <2>2, CuttingKeepsAcyclic
<1>2. ASSUME NEW id \in Agents, AssignZoneLeader(id) \/ ClearParent(id)
      PROVE  Acyclic'
  <2>1. nodes' = nodes /\ \A c \in Agents : parent'[c] = IF c = id THEN NoAgent ELSE parent[c]
    BY <1>2, DetachEffect DEF Detached
  <2>. QED  BY <1>0, <2>1, CuttingKeepsAcyclic
<1>3. ASSUME NEW id \in Agents, Remove(id) PROVE Acyclic'
  <2>1. /\ nodes' \subseteq nodes
        /\ \A c \in Agents : parent'[c] =
             IF c \in children[id] \cup {id} THEN NoAgent ELSE parent[c]
    BY <1>3 DEF Remove
  <2>. QED  BY <1>0, <2>1, CuttingKeepsAcyclic
<1>4. ASSUME NEW id \in Agents, NEW p \in Agents, AttachObserved(id, p)
      PROVE  Acyclic'
  BY <1>4, ObservedLinkKeepsAcyclic
<1>5. ASSUME NEW id \in Agents, NEW p \in Agents, AttachObservedHangs(id, p)
      PROVE  Acyclic'
  BY <1>5 DEF AttachObservedHangs, Acyclic, links
<1>6. CASE UNCHANGED vars
  BY <1>6 DEF Acyclic, vars, links
<1>. QED  BY <1>1, <1>2, <1>3, <1>4, <1>5, <1>6 DEF Next, LinklessStep

\* In a fleet of any size, the only method that can close a cycle is
\* AssignChild; reported attachments, however they are ordered, cannot.
THEOREM ReportsNeverCloseACycle == Spec => OnlyPlacementClosesCycles
<1>1. TypeOK /\ TypeOK' /\ LinksAgree /\ [Next]_vars =>
        [(Acyclic /\ ~Acyclic') => \E id, p \in Agents : AssignChild(id, p)]_vars
  BY AcyclicStep
<1>. QED  BY <1>1, TypeCorrect, TreeIsConsistent, PTL DEF Spec, OnlyPlacementClosesCycles

\* The endless ancestor walk is itself proof of a cycle.
LEMMA HangMeansCycle ==
  ASSUME TypeOK, LinksAgree, NEW id \in Agents, NEW p \in Agents,
         AttachObservedHangs(id, p)
  PROVE  ~Acyclic
<1>1. p \in nodes /\ \A x \in Above(p) : parent[x] # NoAgent
  BY DEF AttachObservedHangs
<1>2. p \in Above(p) /\ Above(p) \in SUBSET nodes
  BY <1>1 DEF Above
<1>3. \A x \in nodes : parent[x] # NoAgent => parent[x] \in nodes
  BY DEF TypeOK, LinksAgree
<1>4. \A x \in Above(p) : parent[x] \in Above(p)
  BY <1>1, <1>3 DEF Above
<1>. QED  BY <1>2, <1>4 DEF Acyclic

\* The lock is released again by every step of an acyclic topology.
LEMMA LockStep ==
  ASSUME TypeOK, LinksAgree, Acyclic, mu = "free", [Next]_vars
  PROVE  mu' = "free"
<1>1. ASSUME NEW id \in Agents, NEW p \in Agents, AttachObservedHangs(id, p) PROVE FALSE
  BY <1>1, HangMeansCycle
<1>2. ASSUME NEW id \in Agents, NEW p \in Agents, AssignChild(id, p) \/ AttachObserved(id, p)
      PROVE  mu' = "free"
  BY <1>2 DEF AssignChild, AttachObserved, Link
<1>3. ASSUME NEW id \in Agents,
             \/ AddAgent(id) \/ AssignZoneLeader(id) \/ ClearParent(id) \/ Remove(id)
             \/ MarkOnline(id) \/ MarkOffline(id) \/ MarkSubtreeOffline(id) \/ Decay(id)
      PROVE  mu' = "free"
  BY <1>3 DEF AddAgent, AssignZoneLeader, ClearParent, Remove, MarkOnline, MarkOffline,
              MarkSubtreeOffline, Decay
<1>4. CASE UNCHANGED vars
  BY <1>4 DEF vars
<1>. QED  BY <1>1, <1>2, <1>3, <1>4 DEF Next

\* Placement never puts a node at or below itself, which AssignChild does not see to.
PlacesAside == \A id, p \in Agents : AssignChild(id, p) => id \notin Above(p)
AsidePlacing == Init /\ [][Next /\ PlacesAside]_vars

\* A step of such a placement keeps the topology acyclic.
LEMMA AsideStep ==
  ASSUME TypeOK, TypeOK', LinksAgree, Acyclic, [Next /\ PlacesAside]_vars
  PROVE  Acyclic'
<1>1. ASSUME NEW id \in Agents, NEW p \in Agents, AssignChild(id, p), PlacesAside PROVE Acyclic'
  <2>1. id \in nodes /\ p \in nodes /\ id \notin Above(p) /\ Link(id, p)
    BY <1>1 DEF AssignChild, CanAdopt, PlacesAside
  <2>. QED  BY <2>1, LinkKeepsAcyclic
<1>2. CASE ~\E id, p \in Agents : AssignChild(id, p)
  BY <1>2, AcyclicStep
<1>3. CASE UNCHANGED vars
  BY <1>3 DEF vars, links, Acyclic
<1>. QED  BY <1>1, <1>2, <1>3

\* As long as no placement puts a node at or below itself, no report, in whatever order
\* and however wrong, makes AttachObserved walk for ever with the lock held: a hang takes a
\* cycle, only links make cycles, and reported ones cannot.
THEOREM ReportsNeverLoseTheLock == AsidePlacing => []((mu = "free") /\ Acyclic)
<1>1. Init => mu = "free" /\ Acyclic
  BY DEF Init, Acyclic
<1>2. /\ TypeOK /\ TypeOK' /\ LinksAgree /\ (mu = "free" /\ Acyclic) /\ [Next /\ PlacesAside]_vars
      => (mu = "free" /\ Acyclic)'
  BY LockStep, AsideStep
<1>3. [Next /\ PlacesAside]_vars => [Next]_vars
  OBVIOUS
<1>4. AsidePlacing => Spec
  BY <1>3, PTL DEF AsidePlacing, Spec
<1>. QED  BY <1>1, <1>2, <1>4, TypeCorrect, TreeIsConsistent, PTL DEF AsidePlacing

-----------------------------------------------------------------------------
(***************************************************************************)
(* The placement budget.                                                   *)
(***************************************************************************)

\* Losing placed children keeps a node within its budget.
LEMMA BudgetShrinks ==
  ASSUME TypeOK, PlacementWithinBudget, NEW q \in Agents,
         children'[q] \ observed' \subseteq children[q] \ observed
  PROVE  Cardinality(children'[q] \ observed') <= MaxChildrenPerNode
<1>1. children[q] \ observed \subseteq Agents
  BY DEF TypeOK
<1>2. IsFiniteSet(children[q] \ observed)
  BY <1>1, AgentsAssumption, FS_Subset
<1>3. /\ IsFiniteSet(children'[q] \ observed')
      /\ Cardinality(children'[q] \ observed') <= Cardinality(children[q] \ observed)
  BY <1>2, FS_Subset
<1>4. Cardinality(children'[q] \ observed') \in Nat /\ Cardinality(children[q] \ observed) \in Nat
  BY <1>2, <1>3, FS_CardinalityType
<1>5. Cardinality(children[q] \ observed) <= MaxChildrenPerNode
  BY DEF PlacementWithinBudget
<1>. QED  BY <1>3, <1>4, <1>5, BudgetAssumption

\* A placement is only made where there is room for it.
LEMMA PlacementHasRoom ==
  ASSUME TypeOK, LinksAgree, PlacementWithinBudget,
         NEW id \in Agents, NEW p \in Agents, AssignChild(id, p)
  PROVE  PlacementWithinBudget'
<1>0. /\ id \in nodes /\ p \in nodes /\ Link(id, p) /\ observed' = observed \ {id}
      /\ Cardinality(children[p]) < Capacity(p)
  BY DEF AssignChild, CanAdopt
<1>1. \A q \in Agents : children'[q] =
        IF q = p THEN children[q] \cup {id}
        ELSE IF q = parent[id] THEN children[q] \ {id} ELSE children[q]
  <2>1. LinkedUnder(id, p)
    BY <1>0, LinkEffect
  <2>. QED  BY <2>1 DEF LinkedUnder
<1>2. Cardinality(children'[p] \ observed') <= MaxChildrenPerNode
  <2>1. children[p] \subseteq Agents
    BY DEF TypeOK
  <2>2. IsFiniteSet(children[p]) /\ Cardinality(children[p]) \in Nat
    BY <2>1, AgentsAssumption, FS_Subset, FS_CardinalityType
  <2>3. Capacity(p) \in Nat /\ Capacity(p) <= MaxChildrenPerNode
    BY BudgetAssumption DEF Capacity
  <2>4. /\ IsFiniteSet(children[p] \cup {id})
        /\ Cardinality(children[p] \cup {id}) \in Nat
        /\ Cardinality(children[p] \cup {id}) <= Cardinality(children[p]) + 1
    <3>1. /\ IsFiniteSet(children[p] \cup {id})
          /\ Cardinality(children[p] \cup {id}) =
               IF id \in children[p] THEN Cardinality(children[p])
               ELSE Cardinality(children[p]) + 1
      BY <2>2, FS_AddElement
    <3>. QED  BY <2>2, <3>1
  <2>5. children'[p] \ observed' \subseteq children[p] \cup {id}
    BY <1>1
  <2>6. /\ Cardinality(children'[p] \ observed') <= Cardinality(children[p] \cup {id})
        /\ Cardinality(children'[p] \ observed') \in Nat
    BY <2>4, <2>5, FS_Subset, FS_CardinalityType
  <2>. QED  BY <1>0, <2>2, <2>3, <2>4, <2>6, BudgetAssumption
<1>3. ASSUME NEW q \in Agents, q # p
      PROVE  Cardinality(children'[q] \ observed') <= MaxChildrenPerNode
  <2>1. id \in children[q] => q = parent[id]
    BY DEF LinksAgree
  <2>2. children'[q] \ observed' \subseteq children[q] \ observed
    BY <1>0, <1>1, <1>3, <2>1
  <2>. QED  BY <2>2, BudgetShrinks
<1>. QED  BY <1>2, <1>3 DEF PlacementWithinBudget

\* The server itself never overloads a node, however registrations, peer
\* requests and reported failovers interleave.
THEOREM PlacementsFitTheBudget == Spec => []PlacementWithinBudget
<1>1. Init => PlacementWithinBudget
  <2> SUFFICES ASSUME Init, NEW p \in Agents
               PROVE  Cardinality(children[p] \ observed) <= MaxChildrenPerNode
    BY DEF PlacementWithinBudget
  <2>1. children[p] \ observed = {}
    BY DEF Init
  <2>2. Cardinality({}) = 0
    BY FS_EmptySet
  <2>. QED  BY <2>1, <2>2, BudgetAssumption
<1>2. TypeOK /\ LinksAgree /\ PlacementWithinBudget /\ [Next]_vars => PlacementWithinBudget'
  <2> SUFFICES ASSUME TypeOK, LinksAgree, PlacementWithinBudget, [Next]_vars
               PROVE  PlacementWithinBudget'
    OBVIOUS
  <2>0. \A c, q \in Agents : c \in children[q] <=> parent[c] = q
    BY DEF LinksAgree
  <2>1. ASSUME children' = children, observed' = observed
        PROVE  PlacementWithinBudget'
    BY <2>1 DEF PlacementWithinBudget
  <2>2. ASSUME NEW id \in Agents, AssignZoneLeader(id) \/ ClearParent(id)
        PROVE  PlacementWithinBudget'
    <3> SUFFICES ASSUME NEW q \in Agents
                 PROVE  Cardinality(children'[q] \ observed') <= MaxChildrenPerNode
      BY DEF PlacementWithinBudget
    <3>1. /\ children'[q] = IF q = parent[id] THEN children[q] \ {id} ELSE children[q]
          /\ observed' = observed \ {id}
      BY <2>2, DetachEffect DEF Detached
    <3>2. id \in children[q] => q = parent[id]
      BY <2>0
    <3>3. children'[q] \ observed' \subseteq children[q] \ observed
      BY <3>1, <3>2
    <3>. QED  BY <3>3, BudgetShrinks
  <2>3. ASSUME NEW id \in Agents, Remove(id) PROVE PlacementWithinBudget'
    <3> SUFFICES ASSUME NEW q \in Agents
                 PROVE  Cardinality(children'[q] \ observed') <= MaxChildrenPerNode
      BY DEF PlacementWithinBudget
    <3>1. /\ children'[q] = IF q = id THEN {}
                            ELSE IF q = parent[id] THEN children[q] \ {id} ELSE children[q]
          /\ observed' = observed \ (children[id] \cup {id})
      <4>1. children' = [Unlinked(id) EXCEPT ![id] = {}]
        BY <2>3 DEF Remove
      <4>2. observed' = observed \ (children[id] \cup {id})
        BY <2>3 DEF Remove
      <4>. QED  BY <4>1, <4>2, UnlinkedType DEF Unlinked
    <3>a. children[q] \subseteq Agents
      BY DEF TypeOK
    <3>b. \A c \in Agents : c \in children[q] /\ c \in children[id] => q = id
      BY <2>0
    <3>2. /\ id \in children[q] => q = parent[id]
          /\ \A c \in Agents : c \in children[q] /\ c \in children[id] => q = id
          /\ children[q] \subseteq Agents
      BY <2>0, <3>a, <3>b
    <3>3. children'[q] \ observed' \subseteq children[q] \ observed
      BY <3>1, <3>2
    <3>. QED  BY <3>3, BudgetShrinks
  <2>4. ASSUME NEW id \in Agents, NEW p \in Agents, AssignChild(id, p)
        PROVE  PlacementWithinBudget'
    BY <2>4, PlacementHasRoom
  <2>5. ASSUME NEW id \in Agents, NEW p \in Agents, AttachObserved(id, p)
        PROVE  PlacementWithinBudget'
    <3> SUFFICES ASSUME NEW q \in Agents
                 PROVE  Cardinality(children'[q] \ observed') <= MaxChildrenPerNode
      BY DEF PlacementWithinBudget
    <3>0. id \in nodes /\ p \in nodes /\ Link(id, p) /\ observed' = observed \cup {id}
      BY <2>5 DEF AttachObserved
    <3>1. children'[q] = IF q = p THEN children[q] \cup {id}
                         ELSE IF q = parent[id] THEN children[q] \ {id} ELSE children[q]
      BY <3>0, LinkEffect DEF LinkedUnder
    <3>2. children'[q] \ observed' \subseteq children[q] \ observed
      BY <3>0, <3>1
    <3>. QED  BY <3>2, BudgetShrinks
  <2>6. ASSUME NEW id \in Agents, LinklessStep(id) PROVE PlacementWithinBudget'
    BY <2>1, <2>6 DEF LinklessStep, AddAgent, MarkOnline, MarkOffline,
                      MarkSubtreeOffline, Decay, links
  <2>7. ASSUME NEW id \in Agents, NEW p \in Agents, AttachObservedHangs(id, p)
        PROVE  PlacementWithinBudget'
    BY <2>1, <2>7 DEF AttachObservedHangs, links
  <2>8. CASE UNCHANGED vars
    BY <2>1, <2>8 DEF vars, links
  <2>. QED  BY <2>2, <2>3, <2>4, <2>5, <2>6, <2>7, <2>8 DEF Next, LinklessStep
<1>. QED  BY <1>1, <1>2, TypeCorrect, TreeIsConsistent, PTL DEF Spec
=============================================================================
