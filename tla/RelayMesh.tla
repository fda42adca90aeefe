----------------------------- MODULE RelayMesh -----------------------------
(***************************************************************************)
(* The agents' side of the mesh: how an agent finds and keeps an upstream  *)
(* (connectLoop), how it serves the peers below it (RelayStream), and how  *)
(* the reports relays send upstream change what the server records of the  *)
(* tree, while links are cut and agents crash and restart.                 *)
(*                                                                         *)
(* A connection has two ends that notice its loss on their own: the client *)
(* in mainLoop, and the handler, whose steps (report the peer, enter it in *)
(* downstreams, forward, take it out, report the loss) interleave with all *)
(* else.  Reports travel hop by hop in order along each connection; one    *)
(* sent without an upstream is lost.                                       *)
(*                                                                         *)
(* The server's handlers are single steps here and its tree is reduced to  *)
(* parents and liveness; MeshServer has them in detail.  Tokens and        *)
(* certificates are Credentials' subject.                                  *)
(***************************************************************************)
EXTENDS Integers, Sequences, FiniteSets

CONSTANTS
  Agents, Server, None,
  Conns,          \* connections that may exist at once
  Scenarios,      \* the meshes to start from - each agent's upstream, the agents
                  \* that are just arriving there, whether fallbacks were handed
                  \* out, the children a node may have - and bounds: the cuts,
                  \* crashes, server hints and restarts to come
  Restarting      \* the agents that come back after a crash

FaultKinds == {"cut", "crash", "hint", "restart"}

ASSUME NodesAssumption ==
  /\ IsFiniteSet(Agents)
  /\ Server \notin Agents /\ None \notin Agents /\ None # Server /\ None \notin Conns
\* There are enough connections for the mesh to start from.
ASSUME ConnsAssumption == \E f \in [Agents -> Conns] : \A a, b \in Agents : a # b => f[a] # f[b]

ASSUME ScenariosAssumption ==
  \A s \in Scenarios :
    /\ s.tree \in [Agents -> Agents \cup {Server}]
    /\ \A S \in SUBSET Agents : S # {} => \E a \in S : s.tree[a] \notin S
    /\ s.arriving \subseteq Agents
    /\ \A a \in s.arriving, b \in Agents : s.tree[b] # a
    /\ s.fallbacks \in {"early", "given"}
    /\ s.maxChildren \in Nat
    /\ s.budget \in [FaultKinds -> Nat]

VARIABLES
  pc, role, parentAddr, fallbackAddrs,  \* each agent's connectLoop
  upstream,       \* a.upstreamStream
  downstreams,    \* a.downstreams: the connection of each peer
  announcing,     \* peers reannounceDownstreams has still to report
  conn, wire,     \* connections, and the reports under way on each
  parent, online, streams,              \* the server
  maxChildren,    \* the server's configuration
  faults, budget, \* faults so far, and those still to come
  races           \* history: "early", an agent was back before its loss was known
                  \* above; "unlisted", a relay re-announced its peers while one
                  \* was reported and not yet entered; "lost", the report of a move
                  \* was lost at a relay, or refused, and nobody will repeat it

agentVars == <<pc, role, parentAddr, fallbackAddrs, upstream, announcing>>
serverVars == <<parent, online, streams>>
env == <<maxChildren, faults, budget, races>>
vars == <<agentVars, downstreams, conn, wire, serverVars, env>>

Connection(a, to, link, phase, reassigned) ==
  [child |-> a, to |-> to, link |-> link, phase |-> phase, reassigned |-> reassigned]
Closed == Connection(None, None, "cut", "gone", "no")
Opened(a, to) == Connection(a, to, "up", "hello", "no")
Report(t, a, p) == [t |-> t, a |-> a, p |-> p]

-----------------------------------------------------------------------------
(***************************************************************************)
(* The server's tree.                                                      *)
(***************************************************************************)

\* id and its recorded ancestors: the least set with id and its members' parents.
Above(id) ==
  {x \in Agents : \A S \in SUBSET Agents :
     (id \in S /\ \A y \in S : parent[y] # None => parent[y] \in S) => x \in S}

Below(id) == {x \in Agents : id \in Above(x)}
Depth(id) == Cardinality(Above(id)) - 1
Load(id) == Cardinality({x \in Agents : parent[x] = id})
ZoneOf(id) == {x \in Above(id) : parent[x] = None}

WithRoom == {x \in online : Load(x) < maxChildren}

\* FindShallowestParentWithRoom
BetterParent(x, y) == IF Depth(x) = Depth(y) THEN Load(x) < Load(y) ELSE Depth(x) < Depth(y)
ShallowestParents == {x \in WithRoom : \A y \in WithRoom : ~BetterParent(y, x)}

\* Of some candidates up to two, another zone first, then the shallow and idle.
BestTwo(cands, primary) ==
  LET Before(x, y) ==
        LET xd == ZoneOf(x) # ZoneOf(primary)
            yd == ZoneOf(y) # ZoneOf(primary)
        IN  IF xd # yd THEN xd ELSE BetterParent(x, y)
      k == IF Cardinality(cands) < 2 THEN Cardinality(cands) ELSE 2
  IN  {s \in [1..k -> cands] :
         /\ k = 2 => s[1] # s[2] /\ ~Before(s[2], s[1])
         /\ \A y \in cands : (\A i \in 1..k : s[i] # y) => \A i \in 1..k : ~Before(y, s[i])}

\* FindFallbackParents: only the primary is left out, not the agent that asks nor
\* its subtree.
FallbackParents(primary) == BestTwo(WithRoom \ {primary}, primary)

\* originAllows: the sender, or an agent below it.
OriginAllows(origin, claimed) == origin \in Above(claimed)

-----------------------------------------------------------------------------
\* Every agent is up, placed in the tree and attached there, those arriving with
\* their hello on its way.  An agent has the fallbacks of its registration: none if
\* it came early, else agents that were not yet below it.
Start(s) ==
  LET c == CHOOSE f \in [Agents -> Conns] : \A a, b \in Agents : a # b => f[a] # f[b]
      Attached(a, p) == s.tree[a] = p /\ a \notin s.arriving
      Given(a) == IF s.tree[a] = Server \/ s.fallbacks = "early" THEN {<<>>}
                  ELSE BestTwo(WithRoom \ ({s.tree[a]} \cup Below(a)), s.tree[a])
  IN
  /\ maxChildren = s.maxChildren
  /\ pc = [a \in Agents |-> IF a \in s.arriving THEN "announce" ELSE "main"]
  /\ role = [a \in Agents |-> IF s.tree[a] = Server THEN "zone_leader" ELSE "relay"]
  /\ parentAddr = s.tree
  /\ parent = [a \in Agents |-> IF s.tree[a] = Server THEN None ELSE s.tree[a]]
  /\ online = Agents
  /\ fallbackAddrs \in {g \in [Agents -> UNION {Given(a) : a \in Agents}] : \A a \in Agents : g[a] \in Given(a)}
  /\ upstream = c
  /\ conn = [x \in Conns |->
       IF \E a \in Agents : c[a] = x
       THEN LET a == CHOOSE a \in Agents : c[a] = x IN
            Connection(a, s.tree[a], "up", IF a \in s.arriving THEN "hello" ELSE "serve", "no")
       ELSE Closed]
  /\ downstreams = [p \in Agents |-> [a \in Agents |-> IF Attached(a, p) THEN c[a] ELSE None]]
  /\ streams = [a \in Agents |-> IF Attached(a, Server) THEN c[a] ELSE None]
  /\ announcing = [a \in Agents |-> {}]
  /\ wire = [x \in Conns |-> <<>>]
  /\ faults = 0
  /\ budget = s.budget
  /\ races = {}

Init == \E s \in Scenarios : Start(s)

\* upstreamSend: into the upstream; without one, or once it is cut, nowhere.
Sent(w, a, m) ==
  IF upstream[a] = None THEN w
  ELSE IF conn[upstream[a]].link = "cut" THEN w
  ELSE [w EXCEPT ![upstream[a]] = Append(@, m)]

Running(a) == pc[a] # "crashed"
MayRestart(a) == ~Running(a) /\ a \in Restarting /\ budget["restart"] > 0

\* A report about a is under way, or about to be.
InFlight(a) ==
  \/ \E c \in Conns : \E i \in 1..Len(wire[c]) : wire[c][i].a = a
  \/ \E p \in Agents : a \in announcing[p]

\* The report of an attachment that the server does not have on record.
News(m) == m.t = "connected" /\ parent[m.a] # m.p

\* With connection c go reports of moves below its peer.  Of those to the peer
\* itself it speaks again once it is back.
LosesNews(c) == \E i \in 1..Len(wire[c]) : News(wire[c][i]) /\ wire[c][i].p # conn[c].child
Lost(loses) == races' = IF loses THEN races \cup {"lost"} ELSE races

\* Nothing is under way: every running agent sits in mainLoop on a connection
\* that works, and no report is in flight.
Quiet ==
  /\ \A a \in Agents : Running(a) => pc[a] = "main" /\ conn[upstream[a]].link = "up"
  /\ \A a \in Agents : ~Running(a) => ~MayRestart(a)
  /\ \A c \in Conns : wire[c] = <<>> /\ conn[c].phase \in {"serve", "gone"}
  /\ \A c \in Conns : conn[c] # Closed => conn[c].link = "up"

-----------------------------------------------------------------------------
(***************************************************************************)
(* connectLoop: the primary parent, the fallbacks, a new assignment, and   *)
(* if all fails a new registration.                                        *)
(***************************************************************************)

Fails(target) == target # Server /\ ~Running(target)
Goto(a, l) == pc' = [pc EXCEPT ![a] = l]

\* The stream to target opens and the hello is on its way.
Open(a, target) ==
  /\ ~Fails(target)
  /\ LET free == {c \in Conns : conn[c] = Closed /\ \A b \in Agents : upstream[b] # c}
         c == CHOOSE x \in free : TRUE IN
       /\ free # {}
       /\ conn' = [conn EXCEPT ![c] = Opened(a, target)]
       /\ upstream' = [upstream EXCEPT ![a] = c]
  /\ pc' = [pc EXCEPT ![a] = "announce"]

ConnectUpstream(a) ==
  /\ pc[a] = "primary"
  /\ \/ Open(a, parentAddr[a])
     \/ /\ Fails(parentAddr[a])
        /\ Goto(a, "fallback")
        /\ UNCHANGED <<conn, upstream>>
  /\ UNCHANGED <<role, parentAddr, fallbackAddrs, announcing, downstreams, wire, serverVars, env>>

\* Mutant of ConnectFallback: with no fallback left, the primary is tried again.
ConnectFallbackAgain(a) ==
  /\ pc[a] = "fallback"
  /\ LET live == {i \in 1..Len(fallbackAddrs[a]) : ~Fails(fallbackAddrs[a][i])} IN
     \/ \E i \in live : (\A j \in live : i <= j) /\ Open(a, fallbackAddrs[a][i])
     \/ live = {} /\ Goto(a, "primary") /\ UNCHANGED <<conn, upstream>>
  /\ UNCHANGED <<role, parentAddr, fallbackAddrs, announcing, downstreams, wire, serverVars, env>>

\* connectToAddr, for each fallback in turn; parentAddr still names the primary.
ConnectFallback(a) ==
  /\ pc[a] = "fallback"
  /\ LET live == {i \in 1..Len(fallbackAddrs[a]) : ~Fails(fallbackAddrs[a][i])} IN
     \/ \E i \in live : (\A j \in live : i <= j) /\ Open(a, fallbackAddrs[a][i])
     \/ live = {} /\ Goto(a, "ask") /\ UNCHANGED <<conn, upstream>>
  /\ UNCHANGED <<role, parentAddr, fallbackAddrs, announcing, downstreams, wire, serverVars, env>>

\* The assignment an agent takes over from the server.
TakeParent(a, p) ==
  /\ role' = [role EXCEPT ![a] = "relay"]
  /\ parentAddr' = [parentAddr EXCEPT ![a] = p]
  /\ \E f \in FallbackParents(p) : fallbackAddrs' = [fallbackAddrs EXCEPT ![a] = f]
  /\ parent' = [parent EXCEPT ![a] = p]

TakePromotion(a) ==
  /\ role' = [role EXCEPT ![a] = "zone_leader"]
  /\ parentAddr' = [parentAddr EXCEPT ![a] = Server]
  /\ fallbackAddrs' = [fallbackAddrs EXCEPT ![a] = <<>>]
  /\ parent' = [parent EXCEPT ![a] = None]

\* requestNewParent, and RequestPeers on the server.
RequestNewParent(a) ==
  /\ pc[a] = "ask"
  /\ \/ \E p \in ShallowestParents \ {a} : TakeParent(a, p)
     \/ (ShallowestParents = {} \/ a \in ShallowestParents) /\ TakePromotion(a)
  /\ Goto(a, "assigned")
  /\ UNCHANGED <<upstream, announcing, downstreams, conn, wire, online, streams, env>>

ConnectAssigned(a) ==
  /\ pc[a] = "assigned"
  /\ \/ Open(a, parentAddr[a])
     \/ Fails(parentAddr[a]) /\ Goto(a, "register") /\ UNCHANGED <<conn, upstream>>
  /\ UNCHANGED <<role, parentAddr, fallbackAddrs, announcing, downstreams, wire, serverVars, env>>

\* registerWithRetry and the assignment: the server takes the agent for online
\* at once.  Slots are full, so only a saturated tree makes it a zone leader.
Register(a) ==
  /\ pc[a] = "register"
  /\ online' = online \cup {a}
  /\ LET room == {x \in online \cup {a} : Load(x) < maxChildren}
         best == {x \in room : \A y \in room : ~BetterParent(y, x)} IN
     IF best = {} THEN TakePromotion(a) ELSE \E p \in best : TakeParent(a, p)
  /\ Goto(a, "primary")
  /\ UNCHANGED <<upstream, announcing, downstreams, conn, wire, streams, env>>

\* Mutant of Reannounce: peers that stayed are not vouched for.
ReannounceNobody(a) ==
  /\ pc[a] = "announce"
  /\ announcing' = announcing
  /\ Goto(a, "report")
  /\ UNCHANGED <<role, parentAddr, fallbackAddrs, upstream, downstreams, conn, wire, serverVars, env>>

\* reannounceDownstreams: list the peers, then report them one by one.
Reannounce(a) ==
  /\ pc[a] = "announce"
  /\ announcing' = [announcing EXCEPT ![a] = {x \in Agents : downstreams[a][x] # None}]
  /\ races' = IF \E c \in Conns : conn[c].to = a /\ conn[c].phase = "insert"
              THEN races \cup {"unlisted"} ELSE races
  /\ Goto(a, "report")
  /\ UNCHANGED <<role, parentAddr, fallbackAddrs, upstream, downstreams, conn, wire, serverVars, maxChildren, faults, budget>>

NotifyAnnounced(a) ==
  /\ pc[a] = "report"
  /\ \/ \E x \in announcing[a] :
          /\ wire' = Sent(wire, a, Report("connected", x, a))
          /\ announcing' = [announcing EXCEPT ![a] = @ \ {x}]
          /\ UNCHANGED pc
     \/ announcing[a] = {} /\ Goto(a, "main") /\ UNCHANGED <<wire, announcing>>
  /\ UNCHANGED <<role, parentAddr, fallbackAddrs, upstream, downstreams, conn, serverVars, env>>

\* mainLoop's receive failed: close, forget the stream, start over.
LoseUpstream(a) ==
  /\ pc[a] = "main"
  /\ LET c == upstream[a] IN
     /\ conn[c].link = "cut"
     /\ races' = IF conn[c] = Closed /\ ~InFlight(a) THEN races ELSE races \cup {"early"}
     /\ upstream' = [upstream EXCEPT ![a] = None]
  /\ Goto(a, "primary")
  /\ UNCHANGED <<role, parentAddr, fallbackAddrs, announcing, downstreams, conn, wire, serverVars, maxChildren, faults, budget>>

-----------------------------------------------------------------------------
(***************************************************************************)
(* RelayStream: the handler of one downstream peer at agent p.             *)
(***************************************************************************)
Serves(p, c, ph) == Running(p) /\ conn[c].to = p /\ conn[c].phase = ph
Phase(c, ph) == conn' = [conn EXCEPT ![c] = Connection(@.child, @.to, @.link, ph, @.reassigned)]

\* The peer's hello: report it, entered or not.
RelayHello(p, c) ==
  /\ Serves(p, c, "hello")
  /\ wire' = Sent(wire, p, Report("connected", conn[c].child, p))
  /\ Phase(c, "insert")
  /\ UNCHANGED <<agentVars, downstreams, serverVars, env>>

RelayInsert(p, c) ==
  /\ Serves(p, c, "insert")
  /\ downstreams' = [downstreams EXCEPT ![p][conn[c].child] = c]
  /\ Phase(c, "serve")
  /\ UNCHANGED <<agentVars, wire, serverVars, env>>

\* Forward one report; without an upstream the handler returns an error, and
\* with it goes the peer's stream.
RelayForward(p, c) ==
  /\ Serves(p, c, "serve")
  /\ wire[c] # <<>>
  /\ \/ /\ upstream[p] # None
        /\ wire' = Sent([wire EXCEPT ![c] = Tail(@)], p, Head(wire[c]))
        /\ Lost(conn[upstream[p]].link = "cut" /\ News(Head(wire[c])))
        /\ UNCHANGED conn
     \/ /\ upstream[p] # None => conn[upstream[p]].link = "cut"
        /\ conn' = [conn EXCEPT ![c] = Connection(@.child, @.to, "cut", "remove", @.reassigned)]
        /\ wire' = [wire EXCEPT ![c] = <<>>]
        /\ Lost(LosesNews(c))
  /\ UNCHANGED <<agentVars, downstreams, serverVars, maxChildren, faults, budget>>

\* The handler's receive failed.
RelayLost(p, c) ==
  /\ Serves(p, c, "serve")
  /\ conn[c].link = "cut"
  /\ Phase(c, "remove")
  /\ wire' = [wire EXCEPT ![c] = <<>>]
  /\ Lost(LosesNews(c))
  /\ UNCHANGED <<agentVars, downstreams, serverVars, maxChildren, faults, budget>>

\* Mutant of RelayRemove: the entry stays.
RelayRemoveNothing(p, c) ==
  /\ Serves(p, c, "remove")
  /\ Phase(c, "report")
  /\ UNCHANGED <<agentVars, downstreams, wire, serverVars, env>>

\* The deferred clean-up: take the peer's entry out, whichever stream it is.
RelayRemove(p, c) ==
  /\ Serves(p, c, "remove")
  /\ downstreams' = [downstreams EXCEPT ![p][conn[c].child] = None]
  /\ Phase(c, "report")
  /\ UNCHANGED <<agentVars, wire, serverVars, env>>

\* notifyPeerDisconnected
RelayReport(p, c) ==
  /\ Serves(p, c, "report")
  /\ wire' = Sent(wire, p, Report("disconnected", conn[c].child, None))
  /\ conn' = [conn EXCEPT ![c] = Closed]
  /\ UNCHANGED <<agentVars, downstreams, serverVars, env>>

-----------------------------------------------------------------------------
(***************************************************************************)
(* The server's end.                                                       *)
(***************************************************************************)
ServerAccept(c) ==
  /\ conn[c].to = Server /\ conn[c].phase = "hello"
  /\ streams' = [streams EXCEPT ![conn[c].child] = c]
  /\ online' = online \cup {conn[c].child}
  /\ Phase(c, "serve")
  /\ UNCHANGED <<agentVars, downstreams, wire, parent, env>>

\* handlePeerConnected: record the attachment unless it closes a cycle, then
\* take the peer and all below it for online.
PeerConnected(origin, a, p) ==
  /\ OriginAllows(origin, p)
  /\ parent' = IF a \in Above(p) THEN parent ELSE [parent EXCEPT ![a] = p]
  /\ online' = online \cup Below(a)

\* handlePeerDisconnected
PeerDisconnected(origin, a) ==
  /\ OriginAllows(origin, a)
  /\ online' = online \ Below(a)
  /\ UNCHANGED parent

ServerReceive(c) ==
  /\ conn[c].to = Server /\ conn[c].phase = "serve"
  /\ wire[c] # <<>>
  /\ LET m == Head(wire[c])
         origin == conn[c].child IN
     /\ \/ m.t = "connected" /\ PeerConnected(origin, m.a, m.p)
        \/ m.t = "disconnected" /\ PeerDisconnected(origin, m.a)
        \/ /\ ~OriginAllows(origin, IF m.t = "connected" THEN m.p ELSE m.a)
           /\ UNCHANGED <<parent, online>>
     /\ Lost(News(m) /\ (~OriginAllows(origin, m.p) \/ m.a \in Above(m.p)))
  /\ wire' = [wire EXCEPT ![c] = Tail(@)]
  /\ UNCHANGED <<agentVars, downstreams, conn, streams, maxChildren, faults, budget>>

\* closeAgentStream
ServerClose(c) ==
  /\ conn[c].to = Server /\ conn[c].phase = "serve" /\ conn[c].link = "cut"
  /\ LET a == conn[c].child IN
     /\ streams' = [streams EXCEPT ![a] = None]
     /\ online' = IF conn[c].reassigned = "yes" THEN online ELSE online \ Below(a)
  /\ conn' = [conn EXCEPT ![c] = Closed]
  /\ wire' = [wire EXCEPT ![c] = <<>>]
  /\ Lost(LosesNews(c))
  /\ UNCHANGED <<agentVars, downstreams, parent, maxChildren, faults, budget>>

-----------------------------------------------------------------------------
(***************************************************************************)
(* Faults, and the server's hint to move.                                  *)
(***************************************************************************)
Fault(kind) ==
  /\ budget[kind] > 0
  /\ budget' = [budget EXCEPT ![kind] = @ - 1]
  /\ faults' = faults + 1
  /\ UNCHANGED maxChildren

Cut(c) ==
  /\ Fault("cut")
  /\ conn[c].link = "up"
  /\ conn' = [conn EXCEPT ![c] = Connection(@.child, @.to, "cut", @.phase, @.reassigned)]
  /\ UNCHANGED <<agentVars, downstreams, wire, serverVars, races>>

\* The process dies, and with it its handlers and its end of every connection.
Crash(a) ==
  /\ Fault("crash")
  /\ Running(a)
  /\ Goto(a, "crashed")
  /\ upstream' = [upstream EXCEPT ![a] = None]
  /\ announcing' = [announcing EXCEPT ![a] = {}]
  /\ downstreams' = [downstreams EXCEPT ![a] = [x \in Agents |-> None]]
  /\ conn' = [c \in Conns |-> IF conn[c].to = a THEN Closed
                              ELSE IF conn[c].child = a THEN [conn[c] EXCEPT !.link = "cut"]
                              ELSE conn[c]]
  /\ wire' = [c \in Conns |-> IF conn[c].to = a THEN <<>> ELSE wire[c]]
  /\ Lost(\E c \in Conns : conn[c].to = a /\ LosesNews(c))
  /\ UNCHANGED <<role, parentAddr, fallbackAddrs, serverVars>>

\* Run from the start: nothing of the connection state was kept.
Restart(a) ==
  /\ MayRestart(a)
  /\ budget' = [budget EXCEPT !["restart"] = @ - 1]
  /\ races' = IF InFlight(a) \/ \E c \in Conns : conn[c].child = a THEN races \cup {"early"} ELSE races
  /\ Goto(a, "register")
  /\ UNCHANGED <<role, parentAddr, fallbackAddrs, upstream, announcing, downstreams, conn, wire, serverVars, maxChildren, faults>>

\* reassignOrphans tells an agent with a stream of its own to move below p;
\* handleServerMessage takes the assignment and closes the upstream.
PeerUpdate(a, p) ==
  /\ Fault("hint")
  /\ pc[a] = "main"
  /\ LET c == upstream[a] IN
     /\ conn[c].link = "up" /\ streams[a] = c
     /\ p \in ShallowestParents \ {a}
     /\ role' = [role EXCEPT ![a] = "relay"]
     /\ parentAddr' = [parentAddr EXCEPT ![a] = p]
     /\ \E f \in FallbackParents(p) : fallbackAddrs' = [fallbackAddrs EXCEPT ![a] = f]
     /\ conn' = [conn EXCEPT ![c] = Connection(@.child, @.to, "cut", @.phase, "yes")]
  /\ UNCHANGED <<pc, upstream, announcing, downstreams, wire, serverVars, races>>

AgentStep(a) ==
  \/ ConnectUpstream(a) \/ ConnectFallback(a) \/ RequestNewParent(a)
  \/ ConnectAssigned(a) \/ Register(a) \/ Reannounce(a) \/ NotifyAnnounced(a)
  \/ LoseUpstream(a) \/ Restart(a)

HandlerStep(c) ==
  \/ ServerAccept(c) \/ ServerReceive(c) \/ ServerClose(c)
  \/ \E p \in Agents :
       \/ RelayHello(p, c) \/ RelayInsert(p, c) \/ RelayForward(p, c)
       \/ RelayLost(p, c) \/ RelayRemove(p, c) \/ RelayReport(p, c)

Next ==
  \/ \E a \in Agents : AgentStep(a)
  \/ \E c \in Conns : HandlerStep(c)
  \/ \E c \in Conns : Cut(c)
  \/ \E a \in Agents : Crash(a)
  \/ \E a, p \in Agents : PeerUpdate(a, p)

Spec == Init /\ [][Next]_vars

\* Every goroutine that can go on does; an agent that dials waits for a connection
\* of the bounded pool only as long as others keep taking them.
FairSpec ==
  /\ Spec
  /\ \A a \in Agents : SF_vars(AgentStep(a))
  /\ \A c \in Conns : WF_vars(HandlerStep(c))

-----------------------------------------------------------------------------
Linked(x) == Running(x) /\ upstream[x] # None /\ conn[upstream[x]].link = "up"
To(x) == conn[upstream[x]].to

\* Agents that are linked with one another only.
Circle(S) == S # {} /\ \A x \in S : Linked(x) /\ To(x) \in S

\* The chain of upstream connections of a running agent gets to the server: there
\* is no way to go on along them for ever, nor to get stuck.
Reaches(a) ==
  \A S \in SUBSET (Agents \cup {Server}) :
    (a \in S /\ \A x \in S \cap Agents :
       Running(x) /\ upstream[x] # None /\ conn[upstream[x]] # Closed => conn[upstream[x]].to \in S)
    => Server \in S

\* A message relayed downstream is handed to a handler that serves that peer:
\* whatever dies or reconnects in whatever order, the table of an agent that
\* runs never points at a connection that is gone or is another peer's.
DownstreamsAreServed ==
  \A p, a \in Agents : Running(p) /\ downstreams[p][a] # None =>
    LET c == conn[downstreams[p][a]] IN
    c.child = a /\ c.to = p /\ c.phase \in {"serve", "remove"}

\* Faults heal.  Once all is quiet after any number of them, every agent that runs
\* is taken for online and routed to along the connections that exist, a subtree
\* swept offline by an ancestor's death included; after a single one nothing that
\* died is counted.  Three races excepted, see races.
FaultsHeal ==
  Quiet /\ races = {} =>
    /\ \A a \in Agents : Running(a) =>
         /\ a \in online /\ Reaches(a)
         /\ conn[upstream[a]].to = IF parent[a] = None THEN Server ELSE parent[a]
    /\ faults <= 1 => \A a \in online : Running(a)

\* The mesh settles after a fault: no agent is left reconnecting, and no report
\* circulates, forever.  After several it may also end with agents that are linked
\* in a circle, as one that was given itself for a fallback is, and dials it.
Settles == []<>(Quiet \/ (faults > 1 /\ \E S \in SUBSET Agents : Circle(S)))
=============================================================================
