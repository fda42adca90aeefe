# dirq: a verification project in TLA+

dirq queries and commands a fleet of machines through a mesh: a few agents, the
zone leaders, hold a stream to the server; every other agent hangs below
another agent and is reached through it.  The server keeps the mesh's shape in
memory, places agents in it, follows it as agents come and go, and sends
queries, commands, files and deployments down the streams, collecting the
answers that come back up.

This directory models the server, the agents and the client where something can
go wrong that a test would hardly reach, checks the models with TLC on small
instances, and proves the central results with TLAPS for every size of fleet.
`PROJECT.json` is the index: components, runs, the source lines of every
definition, findings, hazards and theorems.

## The system

| Part | State | Operations | Meets |
|---|---|---|---|
| Broadcast session (`dispatch_accounting.go`, `dispatch_notifier.go`, dispatchers in `grpc.go`, `exec.go`, `deploy.go`) | pending set and counter under a mutex, result channel with one slot per target, entry in a global session map | register, sign, fan out, claim, send, collect, drain, time out, cancel, deregister | stream receive loops, stream close, peer reports, the reaper |
| Mesh topology (`meshtopology.go`) | nodes, parent, children, role, depth, online, zone-leader index, flap score, one RW lock | add, place, promote, record an attachment, mark online or offline, remove, choose parents and leaders | every handler; read by every dispatcher |
| Mesh handlers (`grpc.go`, `registration_batcher.go`, `rebalancer.go`, `origin.go`) | routing table of streams under its own lock; what each goroutine has read so far | Register, RequestPeers, AgentStream open and close, PeerConnected, PeerDisconnected, reassignOrphans, fillVacantZoneLeaderSlot | topology, sessions, agents |
| Agent, connections (`agent.go`) | upstream, downstream table, parent and fallbacks | connectLoop, mainLoop, RelayStream, reports, re-announcement | server, other agents |
| Agent, operations (`agent/exec.go`, `policy.go`) | files, running operations | exec, put, fetch, deploy, behind a gate and a policy | the upstream that answers go to |
| Exec and file routing, waves (`exec.go`, `deploy.go`, `waves.go`) | one session per request, relay path, audit rows | route or fan out, wait, time out; one wave after the other | topology, streams, agents |
| Query language and service (`query/`, `http.go`) | none | lex, parse, pre-filter, filter on the agent, project, aggregate; resolve the targets of a command | sessions, agents |
| Registration batcher | queue, timers | submit, early flush, timer flush | topology |
| Fact staging (`grpc.go`) | bounded map of staged facts, snapshot being written | stage, swap, write in chunks, final flush | database |
| Store (`server.go`, `reaper.go`, `postgres/leader.go`) | the agents table, an advisory lock | snapshot, rehydrate, touch, reap, elect | database, topology |
| Credentials (`rotation.go`, `mtls.go`, `signutil`, `agent.go`) | CA, signing key and its predecessor, certificates, tokens, agents' files | issue, persist, renew, check, rotate | every connection |
| Key files (`tlsutil`, `signutil`) | eight files | generate, load, reuse | server, agent and CLI on one host |
| HTTP API (`http.go`, `ratelimit.go`) | agents and token rows, token buckets | authenticate, limit, set/merge/delete tags, tokens, inventory | database |
| Client (`cmd/dirq`) | what it has read so far | exec, deploy, CVE and advisory scans | HTTP API |

What is hard here: a handler is several critical sections, and what it read in
one is stale in the next; an agent's old and new stream overlap; reports about
the mesh arrive late and out of order, or not at all; a real answer races the
news that its agent is gone; the tree is stored redundantly, and again in a
table that is written row by row; files that belong together are written one by
one; a timer is only meant as a backstop.  `hazards` in `PROJECT.json` lists each
of these at its line.

What makes the parts correct: a broadcast accounts for every target exactly
once and returns; the topology's records describe one forest; a placement keeps
its budget and never fails silently; routes, of the server and of relays, point
at what is alive; after a fault the server's picture of the mesh becomes right
again; a caller gets the answer of the host that was asked; a query reaches
exactly the hosts the WHERE clause holds of, and a command no other; a restart
finds the state that was left; nobody is locked out; nothing waits for ever.
Where the code falls short of one of these, the property that says it names the
exception, and the sections below list it.

## Modules

| Module | What it is |
|---|---|
| `FirstTerminal` | What a broadcast promises: at most one verdict per target, the first one wins, one outcome, complete only if all have one. |
| `BroadcastSession` | One broadcast with its dispatcher and the goroutines that report to it. `pending` and `accounted` are `sessionAccounting`; `results` the channel; `todo`/`hand` what a goroutine has still to report and what it has claimed but not sent; `pc` the dispatcher's position. |
| `MeshTopology` | `MeshTopology`'s methods, each one step because it holds the lock throughout. `observed` (history) tells links that were reported from links that were placed; `mu` is `"stuck"` when a method never returns. |
| `MeshPlacement` | The choices: parents with room and their ranking, promotion candidates, failure domains. A scan of a Go map yields the set of its possible results. |
| `MeshServer` | The handlers over `MeshPlacement` and the routing table, one step per critical section. `task[g]` is what goroutine `g` is in the middle of and what it has read; `conn[c]` the life of an `AgentStream` call; `spawned` the goroutines started by a close. |
| `RelayMesh` | Agents and server as one system: `pc[a]` is `connectLoop`'s position, `conn[c]` a connection with its two ends, `downstreams` the relays' tables, `wire` the reports on their way. The server's handlers are single steps. |
| `AgentOps` | One operation on an agent, as operators: gate, policy, write, run, respond, and the user a command runs as. |
| `ExecMesh` | Requests through the mesh: `call` is a handler with its session, `wire` the answers, `ops` what agents are at, `log` the audit rows, `disk` what they leave behind; connections break and agents attach elsewhere. Extends `AgentOps`. |
| `QueryParser`, `QueryEval`, `QueryService` | The query language's lexer and recursive descent; pre-filter, filters, hints and results; and the service that sends a query out and resolves a command's targets. `Grammar` and `Holds` in `QueryService` are the references they are compared with. |
| `ServerStore` | The agents table, snapshots, restarts, the reaper, and the election among pods. |
| `Credentials` | CA, signing key, certificates and tokens as generations; every agent's files and connection. |
| `RegistrationBatcher`, `FactStage`, `KeyFiles`, `HostAPI`, `RpmVersion`, `CommandClient` | One part each, as named. |
| `ServerData` | Puts those six in one specification. They share no variable, so a behaviour exercises one of them. |
| `...Proofs` | Theorems about the module they are named after; `ServerDataProofs` about all parts of `ServerData` but `KeyFiles` and `RpmVersion`. |
| `MC...` | Instances for TLC. |

`MeshServer` composes the handlers with `MeshTopology`: every step of a handler
that touches the tree is written as one of its methods;
`BroadcastSession` implements `FirstTerminal`; `RelayMesh`, `ExecMesh` and
`ServerStore` each take the parts they are not about from the others in
reduced form, as their headers say.

Operators called *mutant of ...* are plausible bugs.  They are not part of any
specification: each is put in place of the definition it follows to make sure
that the property it is paired with would notice.

### Abstractions

* A message is the event it reports; contents and addresses are left out.
  Signing either fails or does not.
* `BroadcastSession` stands for the query, exec and deploy dispatchers, which
  have the same shape.  The arrival ring and the progress ticker only inform
  the caller.
* A flap score is a count kept rounded down, which `Decay` may lower at any
  time.  Addresses, hosts and failure domains of an agent are constants.
* In `MeshServer` a registration batch holds one registration, the database is
  left out, and agents are an environment that may do anything a registered
  agent can do, in any order.
* In `RelayMesh` an agent that is refused or times out is one whose target does
  not run; the zone-leader slots are taken throughout, as in a mesh that has
  grown; the pool of connections is bounded.
* In `ExecMesh` a connection breaks and is made in one step at the child, and a
  message goes up the live connections in one step; send buffers are not full.
* Queries are real texts; values are naturals and short strings; the package
  look-up is what it returns.
* A certificate is the CA that signed it and its age, a key or CA its
  generation, a key file the run that made it and the CA it belongs to.
* Time is what the properties need of it: the reaper's rounds, the time a token
  takes, "expired" or not.

Arguments such as `Scenarios` bundle the start and the faults of one instance:
the actions are the same in all of them, the bounds differ.

## Runs

| Run | Checks | Instance |
|---|---|---|
| `broadcast` | `NoTerminalLost`, `ReturnsTheWinners`, refinement of `FirstTerminal`, `ReturnsOnceAccounted` (without the timer) | 2 targets and a bystander, 2 streams, 2 reporting goroutines besides the dispatcher, 1 reply per agent |
| `topology_methods` | `LinksAgree`, `WalksAgree`, `PlacementWithinBudget`, `OnlyPlacementClosesCycles` | 3 agents, budget 1, depth 2: a chain, every cycle, and a chain into a cycle |
| `server_handlers` | `NoDeadRoute`, `EveryRegistrationIsPlaced` | 3 agents in 2 racks, 2 overlapping streams, 2 goroutines, 6 events, probation on |
| `relay_mesh` | `DownstreamsAreServed`, `FaultsHeal`, `Settles` | 4 agents, a chain, a pair or two zones; a cut, a crash with or without restart, or a hint; two crashes in a chain; fallbacks given or not, room or not |
| `exec_mesh` | `AnswerIsFromTheTarget`, `RoutedRunsOnce`, `AuditAgrees`, `RelaysWaitForTheirChildren`, `DropsOnlyStaleAnswers`, `NothingLeftBehind`, `RunsAsAsked` | 4 agents; up to 2 requests and 2 breaks; every pair of defects of a request, every way to become a user, pairs of operations on one agent, bottom-up runs, a line of four agents |
| `query` | `ParsesAsGrammar`, `AnswersMatch`, `ExecOnlyWhereAsked` | 3 hosts; every clause of up to 5 words, every pair of 17 conditions under AND and OR, every LIKE pattern of up to 4 signs, a query that fails; nesting limit 5, pattern limit 3 |
| `store` | `DiskIsCurrent`, `OneLeaderInTheEnd`, `ReapsTheUncovered` | 3 agents; up to 4 moves, 2 snapshots, 2 crashes, 2 deaths; 2 pods with 2 lost sessions |
| `credentials` | `EveryAgentComesBack` | 2 agents, as a chain or side by side; up to 2 stops, 2 crashes, 2 birthdays of certificates; a CA or a key rotation; up to 2 tokens that expire, below a relay with 2 crashes, and at a server that stops and starts or changes its key |
| `server_data` | `ServerIsWhoItWas`; `QueueIsWatched`, `AllAnswered`; `StageBounded`, `NewestIsKept`, `FactsSettle`; `TagWritesLostOnlyToRaces`, `RateHolds`, `InventoryReachesEveryHost`; `CleanRunIsClean`, `ScanIsRight` | 3 runs that make files; 5 calls with a batch cap of 2; 3 keys with a stage cap of 2; 2 hosts, 2 clients, 2 tag sets whose group names collide, 3 writes; every version of up to three pieces against every other, and against those of up to two with another release; packages with an epoch, a host that gives its major version only |

Two targets are enough to tell one agent's events from another's and to have
one claimed while the other is being sent; two goroutines besides the
dispatcher make every race between a real and a synthetic event.  Three agents
make the shortest chain whose middle can move; the fourth of `relay_mesh` and
`exec_mesh` is another zone to move to.  Five calls with a cap of two leave a
timer behind twice.  Caps are as small as they may be, so that they are
reached.  `MaxDepth` is larger than any depth the events can build, except in
`topology_methods`, where it bounds depths that would otherwise grow for ever on
a cycle.  Deadlock is not checked: a broadcast ends, a mesh without faults, a
command that was answered and a server without requests rest.

Some properties name exceptions.  They are what the code really leaves open,
found as counterexamples to the property without them:

* `FaultsHeal`, by the history variable `races`: not if an agent was back before
  its loss was known above it (the late news then takes it offline), not if its relay
  re-announced its peers between reporting it and entering it, and not if the report
  of a move was lost where a relay had no upstream, or was refused: nobody repeats it.
  After two faults what is dead may still be counted, because whoever reconnects
  vouches for all that is recorded below it.  The mesh starts as a tree, and who is
  just arriving has nobody below it, for the same reason.
* `Settles`: after several faults the mesh may end with agents linked in a circle
  instead, see below.
* `RelaysWaitForTheirChildren`: of those deeper on record when the waves were made.
  What is below an agent is not deeper on record if it moved along with its relay
  and nobody has announced it again, so a relay can be acted on before such a child.
  Nor does it hold of children given up as lost, and of those that moved and were
  given the wave twice.
* `DropsOnlyStaleAnswers`: with two breaks an answer that came the right way can
  overtake the report that says so.
* `RoutedRunsOnce`: of one break.  With four, an agent on the route that has lost
  the next one floods, and the target, which has moved under it and taken the
  request up, moves again, under another agent of the route that has a copy.
* `AuditAgrees`: two requests with the same id share a row; and a target that took
  a request up twice answers it twice, the second time into the log only.
* `AnswersMatch`: for the clauses that are sent to the agents as filters.
* `ExecOnlyWhereAsked`: a command asked for with another kind of clause (OR or NOT
  over data, a LIKE pattern that reads as a number, a listed value with a comma)
  runs on every host that its tags and name do not rule out, whatever its data; so
  does one whose query for the hosts fails, here because its SELECT list sums up
  words.  What is left of the property then is that tags and name are heeded.
* `EveryAgentComesBack`: not an agent whose token is over a day old at a relay, or at
  a server that was started again since (`LockedOut`).
* `ScanIsRight`: where one of two versions goes on after the other ends, as 1.1.1k
  does after 1.1.1, vulnerable and patched may be taken for one another; a package
  with an epoch may be called vulnerable that is patched, but not the reverse; hosts
  that give only their major version are not assessed, and at best counted.
* `TagWritesLostOnlyToRaces`: a PATCH reads and writes back, so concurrent
  writes to the tags of one host can be lost.
* `ServerIsWhoItWas`: not if two processes found files missing at the same time.
* `NewestIsKept`, `FactsSettle`: not for keys dropped at the cap, or whose write
  failed, or staged after the final flush.

### What the code does not do

Each of these runs finds a behaviour that a comment in the code rules out; the
quotations are in `findings`.

| Run | Shows |
|---|---|
| `reopened_stream_unrouted` | The close of an old stream removes the route of the new one. |
| `agent_dies_answering` | An operation that ends while the upstream is gone dereferences nil. |
| `restart_hangs` | A snapshot cut short can leave a cycle in the table that the next start never leaves. |

### Known disagreements without a run of their own

Met while modelling, and visible in the models:

* A result claimed but not yet sent when a drain ends is lost, and the dispatch
  still reports complete (`grpc.go:782`, against `exec.go:1117-1118`).
* `MissingCount()` is 0 on every complete dispatch, whoever was written off
  (`grpc.go:644`, against `grpc.go:746-749`).
* A live zone leader that registers again can become its own parent
  (`registration_batcher.go:267`, against `server.go:214-216`); `RequestPeers` can
  put an agent under its own descendant.  When a peer is then reported to be attached
  below such a cycle, `AttachObserved` never finds a root and spins with the write
  lock held (`meshtopology.go:332`), and so does every handler after it.  In
  `MeshServer` a `RequestPeers` by the only zone leader, which is placed under itself,
  and one report of another agent attached to it are enough.
* An agent whose token is over a day old and that has to reconnect is let in only by
  a server that still remembers the token: a relay (`agent.go:1431`), and a server that
  was started again (`grpc.go:272`), refuse it.  The stream was opened, so `connectLoop`
  counts the agent as connected (`agent.go:389`), resets its backoff (`agent.go:453`) and
  dials again, for good, without registering; against
  `docs/how-to/tls-and-auth.md:160-162`, "at which point the agent re-registers
  automatically", and `docs/explanation/security.md:78`.
* Depths below a moved node are stale (`meshtopology.go:346`), while
  `waves.go:18-20` says "a child's depth is always its parent's + 1"; a child given up as lost may still run while
  its relay does (`waves.go:22`).
* Only the primary is left out of the fallbacks (`meshtopology.go:567`), so an agent
  can be given itself, or one below it.  If its parent and every other choice is
  gone it dials itself, `RelayStream` does not refuse, and what it reports comes
  back to it and is sent again, for good; `connectLoop` goes on to `RequestPeers`
  only after a connection that failed (`agent.go:395-428`).
* A report that is lost where a relay has no upstream is not repeated by that relay
  if it is about an agent further down (`agent.go:1480-1496`), so an agent that moved
  can stay on record where it was; against `agent.go:457-466`.
* A reconnected agent vouches for everything recorded below it, the dead included
  (`grpc.go:490` leaves them to the reaper, which spares whatever is on record below
  a live stream).
* An old stream's close marks a reconnected agent offline (`grpc.go:417`), and
  `reassignOrphans` lists online children after they were marked offline
  (`rebalancer.go:67`, against `rebalancer.go:17-19`).
* The reaper notifies sessions but does not mark the topology (`reaper.go:33-37`),
  and refreshes dead agents below a live stream.
* A rotation of the signing key locks out agents whose configuration pins the
  old one; a CA given inline is written back at every start.
* `dirq exec` exits 0 when hosts did not reply.  Hosts that did not answer the query
  for its targets are a warning only (`exec.go:150-154`), and not part of what
  `CleanRunIsClean` calls complete.
* `rpm.go:161` says RPM's algorithm, but version and release are walked as one text
  (`rpm.go:135-149`), so that 1-1.el8 counts as newer than 1a-1.el8 and a vulnerable
  package as patched, and 1-2.el8 as newer than 1.1-1.el8; `~` and `^` are not
  implemented, and left out of the model; versions reported by agents have no epoch
  (`modules/packages.go:92, 138`).  A host whose distribution version is only "9" is
  skipped (`redhat.go:310-312`).
* Filters of an OR that mixes tags and data are not sent to the agents, and a
  NOT over data excludes hosts in the pre-filter (`eval.go:27-30`).  Nothing evaluates
  them afterwards, while `docs/reference/query-dsl.md:30` says that complex expressions
  "are evaluated server-side"; and a command goes by what is left (`exec.go:774-777`).

### Fairness

`BroadcastSession`, `RegistrationBatcher`, `FactStage`, `ServerStore`: weak
fairness of each goroutine's next internal step.  The Go scheduler runs every
runnable goroutine, none of these steps blocks, mutexes are held for a few
instructions, and a timer that runs expires.  Replies, requests, faults and
cancellation are never assumed.

`RelayMesh` asks for strong fairness of an agent's steps, only because agents
share a bounded pool of connections in the model: one that dials must not wait
while others take turns.  In the code nothing is shared, and each agent's loop
runs on.

`Credentials` also assumes that the operator carries a rotation through and
restarts the server, and that files can be written in the end.

## Proofs

Each proof module finds an inductive invariant and derives the properties from
it; the headers say why the property alone is not inductive.

* `BroadcastSessionProofs`, any finite set of targets, any streams, subtrees,
  handlers and replies: `IInv`.  That a claimed event finds a free slot needs to
  know that no two places hold an event of one agent, that what they hold won
  its claim, and where the dispatcher is.  From it `NoTerminalLost`,
  `ReturnsTheWinners` and, step by step, the refinement of `FirstTerminal`.
* `MeshTopologyProofs`, any finite set of agents and any configuration:
  `TypeOK /\ LinksAgree`.  With it the two walks over the tree are duals of each
  other on any graph; a reported link whose parent chain ends at a root outside
  the child's subtree keeps the forest a forest; hence only `AssignChild` closes
  cycles.  `ReportsNeverLoseTheLock` is about the specification with placements that
  never put a node at or below itself: there no cycle comes about by any road, and
  with none above it the walk of `AttachObserved` ends, so the lock is always released;
  what the code lacks is that one check.  The budget bound is inductive together with
  the types.
* `MeshServerProofs`, any agents, streams and goroutines: the routing table points at streams that are routed or open; and a
  registered agent without a role is in the hands of a goroutine that is placing
  it.  The goroutines' records must keep their shape for this to be inductive.
* `RelayMeshProofs`, any mesh that starts as a tree, any pool and any faults:
  `MeshInv`.  Its part `RelayInv` is about the tables: entries are served, and the
  table of a crashed agent is empty, so that it is when it restarts.  The case that
  matters is the deferred clean-up, which takes out whatever the entry is: no other
  entry can point at that connection.  The rest is for `FaultsHeal`, which looks only
  at the end, when all is quiet, so that the invariant has to say of every moment
  before what is still to come:
  * `Tidy`: a running agent has one connection, its relay has entered that one, and
    a report about the agent is right or the agent has yet to notice that it was cut
    off;
  * `Healing`: whoever is recorded elsewhere than it is linked, or runs and is taken
    for offline, has a report under way that the server will accept, or it or somebody
    above it has yet to say hello and to speak for those below.  The argument follows
    a report up hop by hop: a relay that drops it is itself about to reconnect, and
    re-announces, or it was one of the reports that count as lost;
  * `NoIdleCircle`: agents linked in a circle have a hello or a report between them.
    With `Healing` it follows that when nothing is under way every chain of upstreams
    ends, and at the server;
  * `OneFault`: before the first fault everybody is where it was placed.  While one
    crash is the only fault, the loss of that agent is told, behind every report that
    it was there, along a path of agents that nothing disturbs.
* `ExecMeshProofs`, any mesh, requests, ids, configurations and number of breaks:
  `ExecInv`, the types and four parts.  `ToldInv`: what a caller was told is what
  its session's channel held, and that was checked against the target when it
  went in.  `LogInv`: a command that was taken up once is in one place - at work,
  on the wire, or accounted for (`OnePlace`) - so an update of the log is about the
  answer in the channel (`LogFollows`); the file handlers write their row
  themselves before they return (`FileLog`).  `DiskInv`: past its gate an operation
  was not refused, and what lies on the disk half-done belongs to an operation
  that will remove it.  From them `AnswerIsFromTheTarget`, `AuditAgrees`,
  `NothingLeftBehind` and `RunsAsAsked`.  `WaveInv`, on top of them: the waves to
  come are the rest of the plan made when the run began, so what is on its way or at
  work belongs to a wave that is out and is as that wave was made; of all waves out
  but the last, every agent has answered, was given up, or was given it twice.  That
  an agent that is done is not at work any more needs that one taken up once is in
  one place (`OneOp`).  An agent deeper on record is in an earlier wave by counting
  the depths above it (`DeeperGoFirst`), hence `RelaysWaitForTheirChildren`.
  Then of at most one break.  `TreesInv`: upstreams form trees, whatever breaks, so
  that a path can be reasoned about link by link (`AboveUnfolds`, `Climb`,
  `SamePath`).  `OnceInv`: no agent that is connected moves; what the server has as
  an agent's parent is where it began or where it is; where the server is behind, a
  report is on the wire, ahead of every answer and every report that came the same
  way later (`WiresInv`).  So when it reads an answer whose path is still the path,
  it knows the path: `DropsOnlyStaleAnswers`.  `RoutedInv`: a request that left along a route
  is one copy on it, with every next agent a peer of the one before, in the first tree or
  now; or an agent has lost the next one and handed it to all its peers (`Spread`), and
  then it is the one break, the copies are at connected agents, which do not move any
  more, none below another, so only one of them gets to the target: `RoutedRunsOnce`.
* `ServerStoreProofs`, any agents, pods and scenarios: `DiskIsCurrent` and
  `LeadersHoldTheLock`.  While a snapshot is written the table is neither the old
  tree nor the new one; what stays true is that rows already done are as in the
  view that is being written, and all rows not marked unsaved were right when it
  was taken.  Of the election: the lock's holder is the only pod that can have
  been told that it leads since it last lost its session.
* `KeyFilesProofs`, any number of generations, crashes and restarts: `KeyInv`.
  The server is who it was because the certificates are written by one process at
  a time, in an order, and no process passes by before the last of them is there,
  so that one file vouches for the others; the signing key is made once.
* `ServerDataProofs`:
  * the batcher, any calls and cap: what is held anywhere waits, so a call about
    to be submitted is held nowhere;
  * facts, any keys, streams and limits: the batcher waits only when it has gone
    through its snapshot, and a prepared result has a number;
  * tags, any hosts, clients and tag sets: what a handler has read agrees with what
    was asked for, but for keys known to be raced or written since (`ReadsAgree`);
  * the inventory, any hosts and tags: there are finitely many groups, so the search
    for the groups below a group takes a step at least and keeps what it has found;
    that its recursion has a value, and what that is, is shown by way of the least
    number for which it would fail (`DownExists`, `ReachedHosts`);
  * limiters, any limits: what a bucket holds and what it let through since any
    moment are together at most its burst and what it has earned since
    (`BucketOK`);
  * commands, any targets and waves: while nothing has failed, the count is at most
    the number of targets whose good answer was sent and is no longer on the wire
    (`CountOK`), whichever lines get lost;
  * `PartsKeepTheirSpecs` and `ServerDataIsSafe`: put together, each part behaves as
    its own specification says, so these hold of what the run checks.

The assumptions are the named `ASSUME`s of the modules: finite sets, natural
numbers, constants that are told apart, and enough connections to start from.
`ScenariosAssumption` of `RelayMesh` describes the meshes it starts from: a tree, in
which those that are just arriving have nobody below them yet.  Those that say more
describe inputs the code builds itself or refuses otherwise:
`ScenariosAssumption` of `ExecMesh`, that a request for one agent has that agent as
its only target (a handler's path parameter), that files go to one agent, and that
the depths on record agree with the tree to begin with;
`CommandsAssumption`, that waves are disjoint (`targetIDWavesByDepthDesc` puts each
target into one) and `--json` is on or off; `HostAPIAssumption`, that bursts are
natural numbers and the tags of a request a finite map; `StoreAssumption`, that every
parent in a tree is an agent or none.

The modules with theorems write recursion as recursive functions, and walk up the
tree in a bounded number of steps, or take the least set closed under parents
(`RelayMesh`), where the code loops until it finds no parent.

### Only model-checked

* Liveness, which TLAPS cannot prove: `ReturnsOnceAccounted`, `Settles`,
  `OneLeaderInTheEnd`, `ReapsTheUncovered`, `EveryAgentComesBack`, `AllAnswered`,
  `FactsSettle`.
* What recursion over texts computes: `ParsesAsGrammar`, `AnswersMatch`,
  `ExecOnlyWhereAsked` (recursive descent, written with `RECURSIVE`), `ScanIsRight`
  (segments of a version, which is a string to the provers and not a sequence).

## Not modelled

See `components`.  The order in which a batch of several registrations is spread
over hosts; read-only endpoints, metrics and debug pages; operating-system
probes; process control, Rego and cryptography, which are libraries; quoting for
shells; configuration and flags; the client's commands that only pass a request
on (`ask`, `mcp`, `grep`, `run`, `kb`, `doctor`); database statements that only
the conformance tests call; the output buffer, whose unit tests reach its
boundaries; generated code.
