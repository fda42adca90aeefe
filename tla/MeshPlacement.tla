---------------------------- MODULE MeshPlacement ----------------------------
(***************************************************************************)
(* How the topology chooses parents and zone leaders: the read-only        *)
(* methods of MeshTopology.  A method that scans a Go map and keeps the    *)
(* best entry may return any of the equally good ones, so each choice is   *)
(* the set of its possible results.                                        *)
(***************************************************************************)
EXTENDS MeshTopology

CONSTANTS
  Domain,             \* each agent's failure domain, NoDomain without an address
  NoDomain,
  DomainFlapMinNodes  \* flaky members that make a domain hot; 0 disables it

\* hotDomainsLocked
HotDomains ==
  {d \in {Domain[a] : a \in nodes} \ {NoDomain} :
     /\ DomainFlapMinNodes > 0
     /\ Cardinality({a \in nodes : Domain[a] = d /\ Flaky(a)}) >= DomainFlapMinNodes}

\* On probation itself, or in a domain where a correlated reboot is underway.
Risky(a) == Flaky(a) \/ Domain[a] \in HotDomains

\* The online, placed nodes with an address and room for one more child.
WithRoom ==
  {a \in online : /\ Domain[a] # NoDomain
                  /\ role[a] # ""
                  /\ Cardinality(children[a]) < Capacity(a)}

\* Stable before risky, then shallow before deep, then idle before loaded.
BetterParent(x, y) ==
  IF Risky(x) # Risky(y) THEN Risky(y)
  ELSE IF depth[x] # depth[y] THEN depth[x] < depth[y]
  ELSE Cardinality(children[x]) < Cardinality(children[y])

\* FindShallowestParentWithRoom
ShallowestParents == {x \in WithRoom : \A y \in WithRoom : ~BetterParent(y, x)}

\* CountOnlineZoneLeaders
OnlineZoneLeaders == zoneLeaders \cap online

\* A relay that carries children counts most, a domain of its own next.
PromotionScore(a) ==
  (IF children[a] # {} THEN 2 ELSE 0) +
  (IF Domain[a] = NoDomain \/ \A z \in OnlineZoneLeaders : Domain[z] # Domain[a]
   THEN 1 ELSE 0)

\* FindPromotionCandidate; the code breaks ties by agent ID.
PromotionCandidates ==
  LET fit == {a \in online : role[a] # "zone_leader" /\ ~Flaky(a)} IN
  {x \in fit : \A y \in fit : PromotionScore(y) <= PromotionScore(x)}
=============================================================================
