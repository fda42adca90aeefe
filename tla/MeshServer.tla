----------------------------- MODULE MeshServer -----------------------------
(***************************************************************************)
(* The server's goroutines over the shared topology and the routing table  *)
(* of agent streams: registrations, peer requests, the life of a stream,   *)
(* attachment and loss reports, orphan reassignment and the filling of     *)
(* vacant zone-leader slots.                                               *)
(*                                                                         *)
(* The topology's lock and the routing table's lock are held for one call  *)
(* at a time, never across two; so a handler is a sequence of steps, each  *)
(* one a method of MeshPlacement/MeshTopology or one critical section over *)
(* the routing table, and what it read in one step may be stale in the     *)
(* next.                                                                   *)
(*                                                                         *)
(* Agents are the environment: a registered agent may lose or open streams *)
(* and ask for peers whenever it likes, and relays may report attachments  *)
(* and losses in any order.  A registration batch holds one registration.  *)
(* The database, the sessions in flight (BroadcastSession) and what agents *)
(* do with the replies are left out.                                       *)
(***************************************************************************)
EXTENDS Integers, FiniteSets

CONSTANTS
  Agents, NoAgent, MaxChildrenPerNode, ProbationChildCap, FlapThreshold,
  MaxFlap, MaxDepth, Domain, NoDomain, DomainFlapMinNodes,
  Host,             \* each agent's source IP
  MaxZoneLeaders,   \* zone-leader slots
  Enforce,          \* agent_origin_checks = enforce
  Conns, NoConn,    \* AgentStream calls that may be open at once
  Workers,          \* the other goroutines that may run at once
  MaxRegistrations, \* bound: registrations of one agent
  MaxEvents         \* bound: what agents do, in total

VARIABLES
  nodes, role, parent, children, depth, online, zoneLeaders, flap, mu, observed,
  streams,          \* s.streams: the connection routed to each agent
  conn,             \* each AgentStream call: its agent and how far it is
  task,             \* what each goroutine is in the middle of
  spawned,          \* goroutines started and not yet running
  registrations,    \* how often each agent registered
  events            \* environment events so far

T == INSTANCE MeshPlacement

topology == <<nodes, role, parent, children, depth, online, zoneLeaders, flap, mu, observed>>
routing == <<streams, conn>>
work == <<task, spawned>>
budget == <<registrations, events>>
vars == <<topology, routing, work, budget>>

Goroutines == Conns \cup Workers

\* The goroutine is at op, working on agent a, having read p and the set s.
Job(op, a, p, s) == [op |-> op, a |-> a, p |-> p, s |-> s]
Idle == Job("idle", NoAgent, NoAgent, {})
At(g, op) == task[g].op = op
Become(g, job) == task' = [task EXCEPT ![g] = job] /\ UNCHANGED spawned

NoStream == [agent |-> NoAgent, phase |-> "none", reassigned |-> "no"]

Init ==
  /\ T!Init
  /\ streams = [a \in Agents |-> NoConn]
  /\ conn = [c \in Conns |-> NoStream]
  /\ task = [g \in Goroutines |-> Idle]
  /\ spawned = {}
  /\ registrations = [a \in Agents |-> 0]
  /\ events = 0

\* Something an agent does reaches goroutine g.
Event(g) ==
  /\ task[g] = Idle
  /\ events < MaxEvents
  /\ events' = events + 1

-----------------------------------------------------------------------------
(***************************************************************************)
(* Register, and a batch of one in assignBatchDiverse.                     *)
(***************************************************************************)
Register(w, a) ==
  /\ Event(w)
  /\ registrations[a] < MaxRegistrations
  /\ registrations' = [registrations EXCEPT ![a] = @ + 1]
  /\ T!AddAgent(a)
  /\ Become(w, Job("count_slots", a, NoAgent, {}))
  /\ UNCHANGED routing

CountSlots(w) ==
  /\ At(w, "count_slots") /\ mu = "free"
  /\ Become(w, [task[w] EXCEPT !.op =
       IF Cardinality(T!OnlineZoneLeaders) < MaxZoneLeaders
       THEN "check_host" ELSE "place"])
  /\ UNCHANGED <<topology, routing, budget>>

\* Never stack a zone leader onto an address that has one, nor crown a
\* repeat-rebooter.
CheckHost(w) ==
  /\ At(w, "check_host") /\ mu = "free"
  /\ LET a == task[w].a IN
     Become(w, [task[w] EXCEPT !.op =
       IF T!Flaky(a) \/ \E z \in T!OnlineZoneLeaders : Host[z] = Host[a]
       THEN "place" ELSE "promote"])
  /\ UNCHANGED <<topology, routing, budget>>

\* applyRelayAssignment: choose a parent, then commit.
PlaceFind(w) ==
  /\ At(w, "place") /\ mu = "free"
  /\ \/ \E p \in T!ShallowestParents :
          Become(w, Job("place_commit", task[w].a, p, task[w].s))
     \/ /\ T!ShallowestParents = {}
        /\ Become(w, [task[w] EXCEPT !.op = "promote"])
  /\ UNCHANGED <<topology, routing, budget>>

\* Mutant of PlaceCommit: a refusal is not looked at.
PlaceCommitUnchecked(w) ==
  /\ At(w, "place_commit") /\ mu = "free"
  /\ \/ T!AssignChild(task[w].a, task[w].p)
     \/ ~T!CanAdopt(task[w].a, task[w].p) /\ UNCHANGED topology
  /\ Become(w, Idle)
  /\ UNCHANGED <<routing, budget>>

PlaceCommit(w) ==
  /\ At(w, "place_commit") /\ mu = "free"
  /\ \/ /\ T!AssignChild(task[w].a, task[w].p)
        /\ Become(w, Idle)
     \/ /\ ~T!CanAdopt(task[w].a, task[w].p)
        /\ Become(w, [task[w] EXCEPT !.op = "promote"])
        /\ UNCHANGED topology
  /\ UNCHANGED <<routing, budget>>

\* AssignZoneLeader, from any of the paths that give up on a parent.
Promote(w) ==
  /\ At(w, "promote")
  /\ T!AssignZoneLeader(task[w].a)
  /\ Become(w, IF task[w].s = {} THEN Idle
               ELSE Job("orphan", NoAgent, NoAgent, task[w].s))
  /\ UNCHANGED <<routing, budget>>

-----------------------------------------------------------------------------
(***************************************************************************)
(* RequestPeers: choose a parent for an agent that lost its own, then      *)
(* record it; whether that succeeded is not looked at.                     *)
(***************************************************************************)
RequestPeers(w, a) ==
  /\ Event(w) /\ mu = "free"
  /\ a \in nodes
  /\ \/ \E p \in T!ShallowestParents \ {a} : Become(w, Job("request_commit", a, p, {}))
     \/ /\ T!ShallowestParents = {} \/ a \in T!ShallowestParents
        /\ Become(w, Job("promote", a, NoAgent, {}))
  /\ UNCHANGED <<topology, routing, registrations>>

RequestCommit(w) ==
  /\ At(w, "request_commit") /\ mu = "free"
  /\ \/ T!AssignChild(task[w].a, task[w].p)
     \/ ~T!CanAdopt(task[w].a, task[w].p) /\ UNCHANGED topology
  /\ Become(w, Idle)
  /\ UNCHANGED <<routing, budget>>

-----------------------------------------------------------------------------
(***************************************************************************)
(* The life of an AgentStream call.                                        *)
(***************************************************************************)
OpenStream(c, a) ==
  /\ Event(c)
  /\ conn[c] = NoStream
  /\ a \in nodes
  /\ streams' = [streams EXCEPT ![a] = c]
  /\ conn' = [conn EXCEPT ![c] = [NoStream EXCEPT !.agent = a, !.phase = "routed"]]
  /\ UNCHANGED <<topology, work, registrations>>

StreamOnline(c) ==
  /\ conn[c].phase = "routed"
  /\ T!MarkOnline(conn[c].agent)
  /\ conn' = [conn EXCEPT ![c].phase = "open"]
  /\ UNCHANGED <<streams, work, budget>>

\* Mutant of CloseStream: the route is left behind.
CloseStreamKeepsRoute(c) ==
  /\ conn[c].phase = "open"
  /\ Event(c)
  /\ conn' = [conn EXCEPT ![c] = IF @.reassigned = "yes" THEN NoStream
                                 ELSE [@ EXCEPT !.phase = "closed"]]
  /\ UNCHANGED <<streams, topology, work, registrations>>

\* The receive loop ended.  closeAgentStream takes the agent's entry out of the
\* routing table, and is done if the agent had been sent elsewhere.
CloseStream(c) ==
  /\ conn[c].phase = "open"
  /\ Event(c)
  /\ streams' = [streams EXCEPT ![conn[c].agent] = NoConn]
  /\ conn' = [conn EXCEPT ![c] = IF @.reassigned = "yes" THEN NoStream
                                 ELSE [@ EXCEPT !.phase = "closed"]]
  /\ UNCHANGED <<topology, work, registrations>>

\* The agent's subtree is lost; two goroutines look after the rest.
LoseSubtree(c) ==
  /\ conn[c].phase = "closed"
  /\ LET a == conn[c].agent IN
       /\ T!MarkSubtreeOffline(a)
       /\ spawned' = spawned \cup {<<"orphans", a>>, <<"fill", a>>}
  /\ conn' = [conn EXCEPT ![c] = NoStream]
  /\ UNCHANGED <<streams, task, budget>>

-----------------------------------------------------------------------------
(***************************************************************************)
(* Reports from the mesh, handled by the receive loop of the stream they   *)
(* came in on.                                                             *)
(***************************************************************************)

\* originAllows: the sender itself, or an agent below it.
OriginAllows(origin, claimed) ==
  \/ ~Enforce
  \/ claimed = origin
  \/ {origin, claimed} \subseteq nodes /\ origin \in T!Above(claimed)

PeerConnected(c, child, p) ==
  /\ conn[c].phase = "open"
  /\ Event(c) /\ mu = "free"
  /\ OriginAllows(conn[c].agent, p)
  /\ Become(c, Job("attach", child, p, {}))
  /\ UNCHANGED <<topology, routing, registrations>>

Attach(c) ==
  /\ At(c, "attach")
  /\ LET a == task[c].a  p == task[c].p IN
     \/ T!AttachObserved(a, p) /\ Become(c, Job("vouch", a, p, {}))
     \/ T!AttachObservedHangs(a, p) /\ UNCHANGED work
     \/ /\ mu = "free"
        /\ a = p \/ ~({a, p} \subseteq nodes) \/ a \in T!Above(p)
        /\ Become(c, Job("vouch", a, p, {}))
        /\ UNCHANGED topology
  /\ UNCHANGED <<routing, budget>>

\* The child and everything below it is online again, one node at a time.
Vouch(c) ==
  /\ At(c, "vouch") /\ mu = "free"
  /\ LET a == task[c].a IN
     Become(c, Job("revive", a, NoAgent, {a} \cup T!Below(a)))
  /\ UNCHANGED <<topology, routing, budget>>

Revive(c) ==
  /\ At(c, "revive")
  /\ \E a \in task[c].s :
       /\ T!MarkOnline(a)
       /\ Become(c, IF task[c].s = {a} THEN Idle ELSE [task[c] EXCEPT !.s = @ \ {a}])
  /\ UNCHANGED <<routing, budget>>

\* A relay reports a child, or forwards a report; never its own loss.
PeerDisconnected(c, dead) ==
  /\ conn[c].phase = "open"
  /\ dead # conn[c].agent
  /\ Event(c) /\ mu = "free"
  /\ OriginAllows(conn[c].agent, dead)
  /\ Become(c, Job("lose", dead, NoAgent, {}))
  /\ UNCHANGED <<topology, routing, registrations>>

Lose(c) ==
  /\ At(c, "lose")
  /\ \/ T!MarkSubtreeOffline(task[c].a)
     \/ mu = "free" /\ task[c].a \notin nodes /\ UNCHANGED topology
  /\ Become(c, Idle)
  /\ UNCHANGED <<routing, budget>>

-----------------------------------------------------------------------------
(***************************************************************************)
(* reassignOrphans: list the online children of the lost agent, then find  *)
(* each a parent - promote it if there is none, otherwise only hint.       *)
(***************************************************************************)
StartOrphans(w, dead) ==
  /\ task[w] = Idle /\ mu = "free"
  /\ <<"orphans", dead>> \in spawned
  /\ spawned' = spawned \ {<<"orphans", dead>>}
  /\ LET listed == children[dead] \cap online IN
       task' = [task EXCEPT ![w] = IF listed = {} THEN Idle
                                   ELSE Job("orphan", NoAgent, NoAgent, listed)]
  /\ UNCHANGED <<topology, routing, budget>>

OrphanFind(w) ==
  /\ At(w, "orphan") /\ mu = "free"
  /\ \E a \in task[w].s :
       \/ \E p \in T!ShallowestParents \ {a} :
            Become(w, Job("hint", a, p, task[w].s \ {a}))
       \/ /\ T!ShallowestParents = {} \/ a \in T!ShallowestParents
          /\ Become(w, Job("promote", a, NoAgent, task[w].s \ {a}))
  /\ UNCHANGED <<topology, routing, budget>>

\* An orphan with a stream of its own is told where to go.
OrphanHint(w) ==
  /\ At(w, "hint")
  /\ LET c == streams[task[w].a] IN
     conn' = IF c = NoConn THEN conn ELSE [conn EXCEPT ![c].reassigned = "yes"]
  /\ Become(w, IF task[w].s = {} THEN Idle
               ELSE Job("orphan", NoAgent, NoAgent, task[w].s))
  /\ UNCHANGED <<topology, streams, budget>>

-----------------------------------------------------------------------------
(***************************************************************************)
(* fillVacantZoneLeaderSlot: count, choose, promote.                       *)
(***************************************************************************)
StartFill(w, dead) ==
  /\ task[w] = Idle /\ mu = "free"
  /\ <<"fill", dead>> \in spawned
  /\ spawned' = spawned \ {<<"fill", dead>>}
  /\ task' = [task EXCEPT ![w] =
       IF Cardinality(T!OnlineZoneLeaders) >= MaxZoneLeaders THEN Idle
       ELSE Job("fill", NoAgent, NoAgent, {})]
  /\ UNCHANGED <<topology, routing, budget>>

FillPick(w) ==
  /\ At(w, "fill") /\ mu = "free"
  /\ \/ \E a \in T!PromotionCandidates : Become(w, Job("promote", a, NoAgent, {}))
     \/ T!PromotionCandidates = {} /\ Become(w, Idle)
  /\ UNCHANGED <<topology, routing, budget>>

-----------------------------------------------------------------------------
\* Time passes without a reboot of a.
Decay(a) == T!Decay(a) /\ UNCHANGED <<routing, work, budget>>

Next ==
  \/ \E a \in Agents : Decay(a)
  \/ \E w \in Workers :
       \/ \E a \in Agents : Register(w, a) \/ RequestPeers(w, a)
       \/ \E a \in Agents : StartOrphans(w, a) \/ StartFill(w, a)
       \/ CountSlots(w) \/ CheckHost(w) \/ PlaceFind(w) \/ PlaceCommit(w)
       \/ Promote(w) \/ RequestCommit(w) \/ OrphanFind(w) \/ OrphanHint(w)
       \/ FillPick(w)
  \/ \E c \in Conns :
       \/ \E a \in Agents : OpenStream(c, a) \/ PeerDisconnected(c, a)
       \/ \E a, p \in Agents : PeerConnected(c, a, p)
       \/ StreamOnline(c) \/ CloseStream(c) \/ LoseSubtree(c)
       \/ Attach(c) \/ Vouch(c) \/ Revive(c) \/ Lose(c)

Spec == Init /\ [][Next]_vars

-----------------------------------------------------------------------------
Ops == {"idle", "count_slots", "check_host", "place", "place_commit", "promote",
        "request_commit", "attach", "vouch", "revive", "lose", "orphan", "hint",
        "fill"}

TypeOK ==
  /\ T!TypeOK
  /\ streams \in [Agents -> Conns \cup {NoConn}]
  /\ conn \in [Conns -> [agent : Agents \cup {NoAgent},
                         phase : {"none", "routed", "open", "closed"},
                         reassigned : {"yes", "no"}]]
  /\ task \in [Goroutines -> [op : Ops, a : Agents \cup {NoAgent},
                              p : Agents \cup {NoAgent}, s : SUBSET Agents]]
  /\ spawned \subseteq {"orphans", "fill"} \X Agents
  /\ registrations \in [Agents -> 0..MaxRegistrations]
  /\ events \in 0..MaxEvents

\* Broadcasts are never sent into a dead stream: whatever order streams of one
\* agent open, overlap and close in, the routing table only points at calls
\* whose receive loop still runs, under the right agent.
NoDeadRoute ==
  \A a \in Agents : streams[a] # NoConn =>
    /\ conn[streams[a]].agent = a
    /\ conn[streams[a]].phase \in {"routed", "open"}

\* No registration leaves its agent unplaced, whatever it races with: the slot
\* it saw may be taken and the parent it chose full or offline at commit, but
\* some goroutine is still on its way to a parent or a promotion.
EveryRegistrationIsPlaced ==
  \A a \in nodes : role[a] = "" =>
    \E w \in Workers :
      /\ task[w].a = a
      /\ task[w].op \in {"count_slots", "check_host", "place", "place_commit", "promote"}

\* server.go:88: the routing table holds the connected agents, so a stream
\* whose receive loop runs can be sent to.
OpenStreamIsRouted ==
  \A c \in Conns : conn[c].phase = "open" => streams[conn[c].agent] # NoConn
=============================================================================
