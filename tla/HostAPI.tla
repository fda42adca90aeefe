------------------------------ MODULE HostAPI ------------------------------
(***************************************************************************)
(* The HTTP API over the agents and api_tokens tables: authentication and  *)
(* scope, the rate limiters in front of queries and execs, tokens, the     *)
(* three tag handlers (which read a row and write it back), the tags that  *)
(* agents bring when they register, and the Ansible inventory.             *)
(*                                                                         *)
(* A name - a tag's key or value, an OS - is its words and the character   *)
(* between them, which sanitizeGroupName replaces.  Time is counted in the *)
(* time a limiter takes to earn one token.                                 *)
(***************************************************************************)
EXTENDS Integers, Sequences, SequencesExt, FiniteSets, Functions

CONSTANTS
  Hosts, Clients, TokenNames, Bootstrap,
  Tagged,           \* the hosts whose tags the clients work on
  TagSets,          \* what a client or an agent may send as tags
  Profiles,         \* what an agent may say of itself: os, arch, exec_enabled
  Fleet,            \* what the hosts said when they first registered
  Burst,            \* of the limiters "broadcast" and "single"
  MaxWrites, MaxTokens, MaxTime, MaxAdmitted  \* bounds: tag writes, tokens ever made,
                                              \* time, requests let through

VARIABLES
  agents,           \* the agents table
  tokens,           \* api_tokens: the secret and the scope of each name
  issued,           \* secrets made so far
  request,          \* each client's tag request between its read and its write
  buckets, now,     \* the limiters
  admitted,         \* history: when each limiter and key were let through
  writes,           \* history: tag writes so far
  asked, written,   \* history: what the writes asked for, and the last for each key
  raced             \* history: keys written between another handler's read and write

tagVars == <<agents, request, writes, asked, written, raced>>
tokenVars == <<tokens, issued>>
rateVars == <<buckets, now, admitted>>
apiVars == <<tagVars, tokenVars, rateVars>>

TagKeys == UNION {DOMAIN tags : tags \in TagSets}
NoToken == [secret |-> 0, scope |-> ""]
Idle == [op |-> "idle"]
Unused == [tokens |-> -1, last |-> 0]
Headers == [secret : 1..MaxTokens, spelled : {"Bearer", "bare"}]
Limiters == {"broadcast", "single"}

ASSUME HostAPIAssumption ==
  /\ Tagged \subseteq Hosts /\ IsFiniteSet(Hosts)
  /\ Burst \in [Limiters -> Nat]
  /\ \A tags \in TagSets : tags = [k \in DOMAIN tags |-> tags[k]] /\ IsFiniteSet(DOMAIN tags)

\* The first token, Bootstrap, is made on the command line.
APIInit ==
  /\ agents = [a \in Hosts |-> [profile |-> Fleet[a], online |-> "yes", tags |-> <<>>]]
  /\ tokens = [n \in TokenNames |-> IF n = Bootstrap THEN [secret |-> 1, scope |-> "admin"] ELSE NoToken]
  /\ issued = 1
  /\ request = [c \in Clients |-> Idle]
  /\ buckets = [l \in Limiters |-> [h \in Headers |-> Unused]]
  /\ now = 0
  /\ admitted = [l \in Limiters |-> [h \in Headers |-> <<>>]]
  /\ writes = 0
  /\ asked = [a \in Hosts |-> <<>>]
  /\ written = [a \in Hosts |-> [k \in TagKeys |-> 0]]
  /\ raced = [a \in Hosts |-> {}]

-----------------------------------------------------------------------------
(***************************************************************************)
(* Authentication and tokens.                                              *)
(***************************************************************************)

\* The row of the presented secret, however the header is spelled.
ValidateToken(h) == {n \in TokenNames : tokens[n] # NoToken /\ tokens[n].secret = h.secret}
RequireScope(token, scope) == token.scope \in {"admin", scope}

\* authMiddleware and requireScope.
Passes(h, scope) == \E n \in ValidateToken(h) : RequireScope(tokens[n], scope)

\* handleCreateToken: names are unique in the table, a scope is whatever it is called.
CreateToken(h, n, scope) ==
  /\ Passes(h, "admin")
  /\ tokens[n] = NoToken /\ issued < MaxTokens
  /\ issued' = issued + 1
  /\ tokens' = [tokens EXCEPT ![n] = [secret |-> issued + 1, scope |-> scope]]
  /\ UNCHANGED <<tagVars, rateVars>>

\* handleDeleteToken, the caller's own perhaps.
DeleteToken(h, n) ==
  /\ Passes(h, "admin")
  /\ tokens[n] # NoToken
  /\ tokens' = [tokens EXCEPT ![n] = NoToken]
  /\ UNCHANGED <<issued, tagVars, rateVars>>

-----------------------------------------------------------------------------
(***************************************************************************)
(* The rate limiters: a bucket for each Authorization header as spelled.   *)
(***************************************************************************)

\* (mutant) No burst limit on what is earned.
RefilledForever(l, b) == IF b = Unused THEN Burst[l] ELSE b.tokens + now - b.last

\* allow, before it takes a token: a new bucket is full, an old one has earned since.
Refilled(l, b) ==
  IF b = Unused THEN Burst[l]
  ELSE LET earned == b.tokens + now - b.last IN IF earned > Burst[l] THEN Burst[l] ELSE earned

AdmittedSoFar == FoldFunctionOnSet(+, 0, [x \in Limiters \X Headers |-> Len(admitted[x[1]][x[2]])], Limiters \X Headers)

RateLimit(l, h) ==
  /\ AdmittedSoFar < MaxAdmitted
  /\ LET have == Refilled(l, buckets[l][h]) IN
       /\ buckets' = [buckets EXCEPT ![l][h] = [tokens |-> IF have < 1 THEN have ELSE have - 1, last |-> now]]
       /\ admitted' = IF have < 1 THEN admitted ELSE [admitted EXCEPT ![l][h] = Append(@, now)]
  /\ UNCHANGED now

\* POST /api/v1/query.
Query(h) ==
  /\ Passes(h, "readonly")
  /\ RateLimit("broadcast", h)
  /\ UNCHANGED <<tagVars, tokenVars>>

\* POST /api/v1/exec, and exec_multi, which shares the limiter of the queries.
Exec(h, l) ==
  /\ Passes(h, "admin")
  /\ RateLimit(l, h)
  /\ UNCHANGED <<tagVars, tokenVars>>

Tick ==
  /\ now < MaxTime
  /\ now' = now + 1
  /\ UNCHANGED <<buckets, admitted, tagVars, tokenVars>>

-----------------------------------------------------------------------------
(***************************************************************************)
(* Tags.  A handler reads the agent's row and writes all of its tags back; *)
(* nothing keeps two of them apart.                                        *)
(***************************************************************************)

Overlay(tags, new) == [k \in DOMAIN tags \cup DOMAIN new |-> IF k \in DOMAIN new THEN new[k] ELSE tags[k]]
Without(tags, keys) == Restrict(tags, DOMAIN tags \ keys)

\* What each handler makes of the tags it was given and the row it works on.
SetTags(tags, body) == body
\* (mutant) PATCH as PUT.
MergeTagsReplacing(tags, body) == body
MergeTags(tags, body) == Overlay(tags, body)
DeleteTag(tags, body) == Without(tags, DOMAIN body)
Apply(op, tags, body) ==
  CASE op = "set" -> SetTags(tags, body) [] op = "merge" -> MergeTags(tags, body) [] op = "delete" -> DeleteTag(tags, body)

\* The keys an operation speaks of.
Touches(op, body) == IF op = "set" THEN TagKeys ELSE DOMAIN body

\* PUT, PATCH and DELETE /api/v1/hosts/{id}/tags: the read.  DELETE names one key.
ReadTags(c, h, op, a, body) ==
  /\ request[c] = Idle
  /\ Passes(h, "admin")
  /\ op = "delete" => Cardinality(DOMAIN body) = 1
  /\ request' = [request EXCEPT ![c] = [op |-> op, host |-> a, body |-> body, seen |-> agents[a].tags, at |-> writes]]
  /\ UNCHANGED <<agents, writes, asked, written, raced, tokenVars, rateVars>>

\* The write, of whole rows.
UpdateAgentTags(c) ==
  /\ request[c] # Idle /\ writes < MaxWrites
  /\ LET r == request[c]
         keys == Touches(r.op, r.body) IN
       /\ agents' = [agents EXCEPT ![r.host].tags = Apply(r.op, r.seen, r.body)]
       /\ writes' = writes + 1
       /\ asked' = [asked EXCEPT ![r.host] = IF r.op = "merge" THEN Overlay(@, r.body)
                                             ELSE IF r.op = "set" THEN r.body ELSE Without(@, keys)]
       /\ written' = [written EXCEPT ![r.host] = [k \in TagKeys |-> IF k \in keys THEN writes' ELSE @[k]]]
       /\ raced' = [raced EXCEPT ![r.host] = (@ \cup {k \in TagKeys : written[r.host][k] > r.at}) \ keys]
  /\ request' = [request EXCEPT ![c] = Idle]
  /\ UNCHANGED <<tokenVars, rateVars>>

\* A database error, or a client that has gone, ends the request.
AbandonTags(c) ==
  /\ request[c] # Idle
  /\ request' = [request EXCEPT ![c] = Idle]
  /\ UNCHANGED <<agents, writes, asked, written, raced, tokenVars, rateVars>>

\* ansible_ keys are the operators'.
IsReservedAgentTagKey(k) == k.words[1] = "ansible" /\ k.sep = "_"
AgentTags(tags) == Without(tags, {k \in DOMAIN tags : IsReservedAgentTagKey(k)})

\* Register: RegisterAgent merges the agent's tags into its row in one statement.
Register(a, profile, tags) ==
  /\ writes < MaxWrites
  /\ agents' = [agents EXCEPT ![a] = [profile |-> profile, online |-> "yes",
                                      tags |-> Overlay(@.tags, AgentTags(tags))]]
  /\ writes' = writes + 1
  /\ LET keys == {k \in DOMAIN tags : ~IsReservedAgentTagKey(k)} IN
       /\ asked' = [asked EXCEPT ![a] = Overlay(@, Restrict(tags, keys))]
       /\ written' = [written EXCEPT ![a] = [k \in TagKeys |-> IF k \in keys THEN writes' ELSE @[k]]]
       /\ raced' = [raced EXCEPT ![a] = @ \ keys]
  /\ UNCHANGED <<request, tokenVars, rateVars>>

\* The agent's stream ends, or the reaper finds it stale.
GoOffline(a) ==
  /\ agents[a].online = "yes"
  /\ agents' = [agents EXCEPT ![a].online = "no"]
  /\ UNCHANGED <<request, writes, asked, written, raced, tokenVars, rateVars>>

-----------------------------------------------------------------------------
(***************************************************************************)
(* The Ansible inventory: a group has hosts and children.                  *)
(***************************************************************************)

Online == {a \in Hosts : agents[a].online = "yes"}
SanitizeGroupName(name) == name.words
OsFamily(os) == IF os.words \in {<<"windows">>, <<"Windows">>} THEN "windows" ELSE "linux"
FamilyGroup(a) == <<"os", OsFamily(agents[a].profile.os)>>
DistroGroup(a) == <<"os">> \o SanitizeGroupName(agents[a].profile.os)
ArchGroup(a) == <<"arch", agents[a].profile.arch>>
TagGroup(k) == <<"tag">> \o SanitizeGroupName(k)
TagValueGroup(k, v) == TagGroup(k) \o SanitizeGroupName(v)

\* addInventoryGroups: the groups that list the host, and the parents of groups.
GroupsOf(a) ==
  {DistroGroup(a), ArchGroup(a)}
  \cup (IF agents[a].profile.exec = "yes" THEN {<<"exec", "enabled">>} ELSE {})
  \cup {TagValueGroup(k, agents[a].tags[k]) : k \in DOMAIN agents[a].tags}
ParentsOf(a) ==
  {<<TagGroup(k), TagValueGroup(k, agents[a].tags[k])>> : k \in DOMAIN agents[a].tags}
  \cup (IF DistroGroup(a) = FamilyGroup(a) THEN {} ELSE {<<FamilyGroup(a), DistroGroup(a)>>})

\* (mutant) A parent is no group of hosts.
EntryReplaced(listed, children) == [hosts |-> IF children = {} THEN listed ELSE {}, children |-> children]

\* handleInventory and buildInventoryJSON: a name that is a group of hosts and a parent
\* as well has one entry, with both.
Entry(listed, children) == [hosts |-> listed, children |-> children]
Inventory ==
  LET parents == UNION {ParentsOf(a) : a \in Online}
      names == (UNION {GroupsOf(a) : a \in Online}) \cup {pc[1] : pc \in parents} IN
    [g \in names |-> Entry({a \in Online : g \in GroupsOf(a)}, {pc[2] : pc \in {q \in parents : q[1] = g}})]

\* What "hosts: g" means to Ansible: the hosts of g and of the groups below it.
Reached(inventory, g) ==
  LET groups == DOMAIN inventory
      down[n \in 0..Cardinality(groups)] ==
        IF n = 0 THEN {g} \cap groups
        ELSE UNION {{d} \cup (groups \cap inventory[d].children) : d \in down[n - 1]}
  IN  UNION {inventory[d].hosts : d \in down[Cardinality(groups)]}

-----------------------------------------------------------------------------
TokenRequest == \E h \in Headers, n \in TokenNames :
  (\E scope \in {"admin", "readonly"} : CreateToken(h, n, scope)) \/ DeleteToken(h, n)
LimitedRequest == \E h \in Headers : Query(h) \/ \E l \in Limiters : Exec(h, l)
TagRequest == \E c \in Clients :
  \/ \E h \in Headers, op \in {"set", "merge", "delete"}, a \in Tagged, body \in TagSets : ReadTags(c, h, op, a, body)
  \/ UpdateAgentTags(c)
  \/ AbandonTags(c)
Reregister == \E a \in Tagged, tags \in TagSets : Register(a, agents[a].profile, tags)
FleetChange == \E a \in Hosts : (\E profile \in Profiles, tags \in TagSets : Register(a, profile, tags)) \/ GoOffline(a)

\* All of it; ServerData checks its tags, its fleet, and its tokens and limits apart.
APINext == TokenRequest \/ LimitedRequest \/ TagRequest \/ Reregister \/ FleetChange \/ Tick
APISpec == APIInit /\ [][APINext]_apiVars

-----------------------------------------------------------------------------
(***************************************************************************)
(* Properties.                                                             *)
(***************************************************************************)

\* A host's tags are what the writes to each of them, in the order they were made, asked
\* for - a PATCH adds and updates without removing, an agent's ansible_ keys count for
\* nothing - but for keys that were written between the read and the write of another
\* handler.
TagWritesLostOnlyToRaces ==
  \A a \in Hosts, k \in TagKeys :
    k \in raced[a] \/ Restrict(agents[a].tags, {k} \cap DOMAIN agents[a].tags)
                        = Restrict(asked[a], {k} \cap DOMAIN asked[a])

\* In any stretch of time a limiter lets no more requests of a key through than its
\* burst and what it earned in that time.
RateHolds ==
  \A l \in Limiters, h \in Headers : LET times == admitted[l][h] IN
    \A i \in 1..Len(times), j \in 1..Len(times) :
      i <= j => j - i + 1 <= Burst[l] + times[j] - times[i]

\* Every host that is online is reached by its OS family, its distribution, its
\* architecture, exec_enabled if it has it, and by tag_<key> and tag_<key>_<value> for each
\* of its tags, whatever names the keys and values of other hosts have.
InventoryReachesEveryHost ==
  \A a \in Online : LET tags == agents[a].tags IN
    /\ \A g \in {FamilyGroup(a), DistroGroup(a), ArchGroup(a)} : a \in Reached(Inventory, g)
    /\ agents[a].profile.exec = "yes" => a \in Reached(Inventory, <<"exec", "enabled">>)
    /\ \A k \in DOMAIN tags : a \in Reached(Inventory, TagGroup(k)) \cap Reached(Inventory, TagValueGroup(k, tags[k]))
=============================================================================
