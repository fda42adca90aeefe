------------------------------ MODULE ExecMesh ------------------------------
(***************************************************************************)
(* Work sent to agents through the mesh and answered back: a command, a    *)
(* file put or fetched on one agent (dispatchExec), routed along the path  *)
(* the server knows or fanned out when it knows none; and a command or a   *)
(* deploy on many, in one wave or bottom-up (handleExecMulti,              *)
(* handleBroadcastDeploy), while connections break and agents move.        *)
(*                                                                         *)
(* RelayMesh has how agents connect, and BroadcastSession how a wave is    *)
(* counted.  Here a connection breaks and is made in one step at the       *)
(* child; what held the other end notices later.  A message goes up the    *)
(* live connections in one step, and waits, in order, for the server.      *)
(***************************************************************************)
EXTENDS AgentOps

CONSTANTS
  Agents, Server, None,
  Calls,
  Scenarios  \* the tree, with depths; the requests, their ids, targets, whether
             \* bottom-up; each agent's configuration, what policies say; the bound
             \* on breaks

YesNo == {"yes", "no"}

\* What a request can be: everything handlers and agents look at.
Requests ==
  [kind : {"exec", "put", "fetch", "deploy"}, many : YesNo, bottomUp : YesNo, script : YesNo, become : YesNo,
   path : {"absolute", "relative"}, size : {"fits", "over"}, verdict : {"allow", "deny", "error"},
   user : STRING, method : {"", "sudo", "su"}, id : STRING, target : Agents \cup {None}, targets : SUBSET Agents,
   defects : SUBSET {"json", "fields", "aap", "agent", "disabled", "base64", "path", "query"}]

ASSUME NodesAssumption == IsFiniteSet(Agents) /\ {Server, None} \cap Agents = {} /\ Server # None

ASSUME ScenariosAssumption ==
  \A s \in Scenarios :
    /\ s.tree \in [Agents -> Agents \cup {Server}] /\ s.depth \in [Agents -> Nat]
    /\ \A a \in Agents : s.depth[a] = IF s.tree[a] = Server THEN 0 ELSE s.depth[s.tree[a]] + 1
    /\ DOMAIN s.calls \subseteq Calls
    /\ \A c \in DOMAIN s.calls :
         /\ s.calls[c] \in Requests
         /\ s.calls[c].kind \in {"put", "fetch"} => s.calls[c].many = "no"
         /\ s.calls[c].many = "no" /\ s.calls[c].kind # "deploy" =>
              s.calls[c].target \in Agents /\ s.calls[c].targets = {s.calls[c].target}
    /\ s.config \in [exec : {"on", "off"}, engine : {"none", "open", "closed"}, os : {"unix", "windows"},
                      identity : STRING, tools : SUBSET {"sudo", "su"}]
    /\ s.breaks \in Nat

VARIABLES
  s,          \* the scenario
  up,         \* each agent's upstreamStream
  down,       \* streams at the server, downstreams at a relay
  inbox,      \* messages under way to an agent
  wire,       \* messages from a zone leader the server has still to read
  parent, depth,  \* the server's topology
  recorded,   \* history: the depths, by call, when its waves were made
  call,       \* each request: phase, waves to come, the targets still waited for, reply
  sessions,   \* execSessions: request ids to the call waiting
  result,     \* the channel of a single-agent session, for one response
  log,        \* the audit log's entries
  updates,    \* updates of it a goroutine has still to make
  ops,        \* operations agents are at
  disk,
  runs,       \* history: how often an agent took up a call
  breaks,     \* history: how often a connection broke
  writtenOff, \* history: the agents, by call, given up while they may be running
  dead        \* agents that panicked

meshVars == <<up, down, inbox, wire, breaks>>
topology == <<parent, depth, recorded>>
serverVars == <<topology, call, sessions, result, log, updates, writtenOff>>
agentVars == <<ops, disk, runs, dead>>
vars == <<s, meshVars, serverVars, agentVars>>

Request(c) == s.calls[c]
Single(c) == Request(c).kind # "deploy" /\ Request(c).many = "no"
NoReply == [status |-> "none", agent |-> None]

Init ==
  /\ s \in Scenarios
  /\ up = s.tree /\ parent = s.tree /\ depth = s.depth /\ recorded = [c \in DOMAIN s.calls |-> s.depth]
  /\ down = [n \in Agents \cup {Server} |-> {x \in Agents : s.tree[x] = n}]
  /\ inbox = [a \in Agents |-> <<>>] /\ wire = [a \in Agents |-> <<>>]
  /\ call = [c \in DOMAIN s.calls |-> [phase |-> "new", waves |-> <<>>, pending |-> {}, routed |-> "no", reply |-> NoReply]]
  /\ sessions = <<>>
  /\ result = [c \in DOMAIN s.calls |-> <<>>]
  /\ log = [c \in DOMAIN s.calls |-> "none"]
  /\ updates = {}
  /\ ops = {}
  /\ disk = [a \in Agents |-> [f \in {<<"file", 0>>} |-> "whole"]]
  /\ runs = [a \in Agents |-> [c \in DOMAIN s.calls |-> 0]]
  /\ breaks = 0
  /\ writtenOff = {}
  /\ dead = {}

-----------------------------------------------------------------------------
(***************************************************************************)
(* The tree as it is, and as the server knows it.                          *)
(***************************************************************************)
\* From a node up to the server, along a map of parents; short of it if broken.
Last(q) == q[Len(q)]
Longer(chain, of) == IF Last(chain) \in {Server, None} THEN chain ELSE Append(chain, of[Last(chain)])
Above(a, of) ==
  LET chain[k \in 0..(Cardinality(Agents) + 1)] == IF k = 0 THEN <<a>> ELSE Longer(chain[k - 1], of)
  IN  chain[Cardinality(Agents) + 1]
Connected(a) == Last(Above(a, up)) = Server
ZoneLeader(a, of) == Above(a, of)[Len(Above(a, of)) - 1]
Subtree(a, of) == {x \in Agents : \E i \in 1..Len(Above(x, of)) : Above(x, of)[i] = a}

\* originAllows, enforcing.
OriginAllows(origin, claimed) == claimed = origin \/ claimed \in Subtree(origin, parent)

\* (mutant) Any answer to the request will do.
OriginTargetMismatchNever(target, claimed) == FALSE
OriginTargetMismatch(target, claimed) == claimed # target

\* PathFromZoneLeader
Path(a) ==
  LET chain == Above(a, parent) IN
  IF Last(chain) = Server THEN [i \in 1..(Len(chain) - 1) |-> chain[Len(chain) - i]] ELSE <<>>

\* Messages for each of the agents, on the connections that are.
Deliver(q, msgs) ==
  [a \in Agents |-> q[a] \o msgs[a]]
To(from, agents, m) ==
  [a \in Agents |-> IF a \in agents /\ up[a] = from THEN <<m>> ELSE <<>>]
-----------------------------------------------------------------------------
(***************************************************************************)
(* The server's side of a request for one agent.                           *)
(***************************************************************************)
\* What may be wrong with a request, in the order a handler looks for it; the answer.
FirstDefect(order, c) ==
  LET at == {i \in DOMAIN order : order[i] \in Request(c).defects} IN
  IF at = {} THEN "none" ELSE order[CHOOSE i \in at : \A j \in at : i <= j]
StatusOf(defect) ==
  CASE defect \in {"aap", "disabled"} -> "403" [] defect = "agent" -> "404" [] OTHER -> "400"

Asked(c, kind) == call[c].phase = "new" /\ Single(c) /\ Request(c).kind = kind
Refuse(c, defect) ==
  /\ call' = [call EXCEPT ![c].phase = "done", ![c].reply = [status |-> StatusOf(defect), agent |-> None]]
  /\ UNCHANGED sessions

\* The session dispatchExec makes; one of an earlier request of the same id is replaced.
OpenSession(c) ==
  /\ sessions' = [i \in DOMAIN sessions \cup {Request(c).id} |-> IF i = Request(c).id THEN c ELSE sessions[i]]
  /\ call' = [call EXCEPT ![c].phase = "open"]
Logged(c) == log' = [log EXCEPT ![c] = "open"]

\* The entry in the audit log is made before the command's input is decoded.
HandleExecCommand(c) ==
  LET defect == FirstDefect(<<"json", "fields", "aap", "agent", "disabled">>, c) IN
  /\ Asked(c, "exec")
  /\ \/ defect # "none" /\ Refuse(c, defect) /\ UNCHANGED log
     \/ defect = "none" /\ "base64" \in Request(c).defects /\ Logged(c) /\ Refuse(c, "base64")
     \/ defect = "none" /\ "base64" \notin Request(c).defects /\ Logged(c) /\ OpenSession(c)
  /\ UNCHANGED <<s, meshVars, topology, result, updates, writtenOff, agentVars>>

HandlePutFile(c) ==
  LET defect == FirstDefect(<<"json", "aap", "fields", "agent", "disabled", "base64">>, c) IN
  /\ Asked(c, "put")
  /\ \/ defect # "none" /\ Refuse(c, defect) /\ UNCHANGED log
     \/ defect = "none" /\ Logged(c) /\ OpenSession(c)
  /\ UNCHANGED <<s, meshVars, topology, result, updates, writtenOff, agentVars>>

HandleFetchFile(c) ==
  LET defect == FirstDefect(<<"json", "fields", "aap", "agent", "disabled">>, c) IN
  /\ Asked(c, "fetch")
  /\ \/ defect # "none" /\ Refuse(c, defect) /\ UNCHANGED log
     \/ defect = "none" /\ Logged(c) /\ OpenSession(c)
  /\ UNCHANGED <<s, meshVars, topology, result, updates, writtenOff, agentVars>>

\* A session ends: whatever the id leads to now is forgotten.
Forget(c) == [i \in DOMAIN sessions \ {Request(c).id} |-> sessions[i]]

SetRelayPath(m, path) == [m EXCEPT !.path = path]

\* The rest of dispatchExec: the route is the target's own stream, the path to it if
\* its zone leader has a stream, or all streams there are.  Those whose buffer is full
\* are left out.
Send(c) ==
  LET a == Request(c).target
      path == Path(a)
      direct == a \in down[Server]
      routed == ~direct /\ path # <<>> /\ path[1] \in down[Server]
      m == SetRelayPath([call |-> c, wave |-> 0, targets |-> {a}, path |-> <<>>], IF routed THEN path ELSE <<>>)
      to == CASE direct -> {a} [] routed -> {path[1]} [] OTHER -> down[Server]
  IN
  /\ call[c].phase = "open" /\ Single(c)
  /\ \E sent \in SUBSET to :
       IF sent = {}
       THEN /\ call' = [call EXCEPT ![c].phase = "done", ![c].reply = [status |-> "not sent", agent |-> None]]
            /\ sessions' = Forget(c)
            /\ UNCHANGED inbox
       ELSE /\ call' = [call EXCEPT ![c].phase = "waiting", ![c].routed = IF direct \/ routed THEN "yes" ELSE "no"]
            /\ inbox' = Deliver(inbox, To(Server, sent, m))
            /\ UNCHANGED sessions
  /\ UNCHANGED <<s, up, down, wire, breaks, topology, result, log, updates, writtenOff, agentVars>>

\* The response is the reply; put and fetch close their entry in the audit log, while a
\* command's was left to handleExecResponse.
Closed(c, status) == [x \in DOMAIN log |-> IF log[x] # "none" /\ Request(x).id = Request(c).id THEN status ELSE log[x]]

Answer(c, kind) ==
  /\ call[c].phase = "waiting" /\ Single(c) /\ Request(c).kind = kind /\ result[c] # <<>>
  /\ call' = [call EXCEPT ![c].phase = "done", ![c].reply = [status |-> result[c][1].status, agent |-> result[c][1].agent]]
  /\ sessions' = Forget(c)
  /\ UNCHANGED <<s, meshVars, topology, result, updates, writtenOff, agentVars>>

\* (mutant) The entry of a file that was put stays open.
AnswerPutFileOpen(c) == Answer(c, "put") /\ UNCHANGED log

AnswerExecCommand(c) == Answer(c, "exec") /\ UNCHANGED log
AnswerPutFile(c) == Answer(c, "put") /\ log' = Closed(c, result[c][1].status)
AnswerFetchFile(c) == Answer(c, "fetch") /\ log' = Closed(c, result[c][1].status)

Timeout(c) ==
  /\ call[c].phase = "waiting" /\ Single(c)
  /\ call' = [call EXCEPT ![c].phase = "done", ![c].reply = [status |-> "timeout", agent |-> None]]
  /\ sessions' = Forget(c)
  /\ UNCHANGED <<s, meshVars, topology, result, log, updates, writtenOff, agentVars>>

-----------------------------------------------------------------------------
(***************************************************************************)
(* The server's side of a request for many.                                *)
(***************************************************************************)
\* targetIDWavesByDepthDesc: those recorded as deepest first.
TargetIDWavesByDepthDesc(as, at) ==
  LET depths == {at[a] : a \in as}
      deeper(a) == {d \in depths : d > at[a]}
  IN  [i \in 1..Cardinality(depths) |-> {a \in as : Cardinality(deeper(a)) = i - 1}]

DecodeExecMultiRequest(c) == FirstDefect(<<"json", "fields", "base64">>, c)

\* "The check order is load-bearing": without the right user a request that names no
\* path is forbidden, not malformed.
DecodeDeployRequest(c) == FirstDefect(<<"json", "fields", "aap", "path", "base64">>, c)

\* The waves, all in one unless bottom-up; without targets there is nothing to do.
Begin(c, defect) ==
  /\ \/ defect # "none" /\ Refuse(c, defect) /\ UNCHANGED recorded
     \/ /\ defect = "none"
        /\ call' = [call EXCEPT ![c].phase = IF Request(c).targets = {} THEN "done" ELSE "wave",
                                ![c].waves = IF Request(c).bottomUp = "yes"
                                             THEN TargetIDWavesByDepthDesc(Request(c).targets, depth)
                                             ELSE <<Request(c).targets>>]
        /\ recorded' = [recorded EXCEPT ![c] = depth]
        /\ UNCHANGED sessions
  /\ UNCHANGED <<s, meshVars, parent, depth, result, log, updates, writtenOff, agentVars>>

HandleExecMulti(c) ==
  LET decoded == DecodeExecMultiRequest(c) IN
  /\ call[c].phase = "new" /\ ~Single(c) /\ Request(c).kind = "exec"
  /\ Begin(c, IF decoded # "none" THEN decoded ELSE FirstDefect(<<"aap", "query">>, c))

HandleBroadcastDeploy(c) ==
  LET decoded == DecodeDeployRequest(c) IN
  /\ call[c].phase = "new" /\ ~Single(c) /\ Request(c).kind = "deploy"
  /\ Begin(c, IF decoded # "none" THEN decoded ELSE FirstDefect(<<"query">>, c))

\* The next wave goes to every stream; agents under one whose buffer is full are given up.
DispatchWave(c, kind) ==
  LET wave == Head(call[c].waves)
      m == [call |-> c, wave |-> Len(call[c].waves), targets |-> wave, path |-> <<>>]
  IN
  /\ call[c].phase = "wave" /\ call[c].waves # <<>> /\ Request(c).kind = kind
  /\ \E full \in SUBSET down[Server] :
       LET gone == wave \cap UNION {Subtree(z, parent) : z \in full} IN
       /\ call' = [call EXCEPT ![c].phase = "waiting", ![c].pending = wave \ gone, ![c].waves = Tail(@)]
       /\ writtenOff' = writtenOff \cup {<<c, x>> : x \in gone}
       /\ inbox' = Deliver(inbox, To(Server, down[Server] \ full, m))
  /\ UNCHANGED <<s, up, down, wire, breaks, topology, sessions, result, log, updates, agentVars>>
DispatchExecWave(c) == DispatchWave(c, "exec")
DispatchDeployWave(c) == DispatchWave(c, "deploy")

\* All of a wave are accounted for: the next, or the end.
WaveDone(c) ==
  /\ call[c].phase = "waiting" /\ ~Single(c) /\ call[c].pending = {}
  /\ call' = [call EXCEPT ![c].phase = IF call[c].waves = <<>> THEN "done" ELSE "wave"]
  /\ UNCHANGED <<s, meshVars, topology, sessions, result, log, updates, writtenOff, agentVars>>

\* (mutant) The next wave goes out all the same.
WaveTimeoutGoesOn(c) ==
  /\ call[c].phase = "waiting" /\ ~Single(c) /\ call[c].pending # {}
  /\ call' = [call EXCEPT ![c].phase = IF call[c].waves = <<>> THEN "done" ELSE "wave", ![c].pending = {}]
  /\ UNCHANGED <<s, meshVars, topology, sessions, result, log, updates, writtenOff, agentVars>>

\* A wave runs out of time: the run stops.
WaveTimeout(c) ==
  /\ call[c].phase = "waiting" /\ ~Single(c) /\ call[c].pending # {}
  /\ call' = [call EXCEPT ![c].phase = "done", ![c].pending = {}, ![c].reply = [status |-> "stopped", agent |-> None]]
  /\ UNCHANGED <<s, meshVars, topology, sessions, result, log, updates, writtenOff, agentVars>>

-----------------------------------------------------------------------------
(***************************************************************************)
(* Agents.                                                                 *)
(***************************************************************************)
\* (mutant) All peers, route or no route.
RelayToDownstreamsAll(a, m) == down[a]

\* nextHop and relayToDownstreams: the next on the route, or all peers if that one
\* is not connected or there is no route; nobody if this agent is not on it.
RelayToDownstreams(a, m) ==
  LET at == {i \in 1..Len(m.path) : m.path[i] = a}
      i == CHOOSE x \in at : TRUE
  IN
  CASE m.path = <<>> -> down[a]
    [] m.path # <<>> /\ (at = {} \/ at = {Len(m.path)}) -> {}
    [] OTHER -> IF m.path[i + 1] \in down[a] THEN {m.path[i + 1]} ELSE down[a]

\* handleServerMessage: a broadcast goes on and is taken up if it is for us too, a
\* request for one agent is taken up or goes on.
HandleServerMessage(a) ==
  LET m == Head(inbox[a])
      mine == a \in m.targets
      to == IF Single(m.call) /\ mine THEN {} ELSE RelayToDownstreams(a, m)
  IN
  /\ inbox[a] # <<>>
  /\ inbox' = [Deliver(inbox, To(a, to, m)) EXCEPT ![a] = Tail(@)]
  /\ IF mine
     THEN /\ ops' = ops \cup {[agent |-> a, call |-> m.call, wave |-> m.wave, copy |-> runs[a][m.call],
                               step |-> "gate", outcome |-> "none", as |-> None]}
          /\ runs' = [runs EXCEPT ![a][m.call] = @ + 1]
     ELSE UNCHANGED <<ops, runs>>
  /\ UNCHANGED <<s, up, down, wire, breaks, serverVars, disk, dead>>

Advance(o, step, outcome) == ops' = (ops \ {o}) \cup {[o EXCEPT !.step = step, !.outcome = outcome]}
Content(o) == LET f == FileOf(Request(o.call), o.call) IN
  IF f \in DOMAIN disk[o.agent] THEN disk[o.agent][f] ELSE "absent"
Store(o, content) ==
  LET f == FileOf(Request(o.call), o.call) IN
  disk' = [disk EXCEPT ![o.agent] = [x \in DOMAIN @ \cup {f} |-> IF x = f THEN content ELSE @[x]]]

\* The gate of each handler.
Gate(o) ==
  LET req == Request(o.call) IN
  /\ o.step = "gate"
  /\ Advance(o, Gated(s.config, req, req.verdict), Refusal(s.config, req, req.verdict))
  /\ UNCHANGED <<s, meshVars, serverVars, disk, runs, dead>>

\* buildScriptCommand, writeDeployPackage, os.WriteFile: the file is made, filled, and
\* either may fail.
Write(o) ==
  /\ o.step = "write"
  /\ \/ /\ Request(o.call).kind = "put" => Starts(s.config, CommandOf(s.config, Request(o.call)))
        /\ Store(o, "cut") /\ Advance(o, "writing", "none")
     \/ Advance(o, "respond", WriteOutcome(Request(o.call))) /\ UNCHANGED disk
  /\ UNCHANGED <<s, meshVars, serverVars, runs, dead>>

Fill(o) ==
  LET req == Request(o.call) IN
  /\ o.step = "writing"
  /\ \/ /\ Store(o, "whole")
        /\ IF req.kind = "put" THEN Advance(o, "respond", "ok") ELSE Advance(o, "run", "none")
     \/ Store(o, WriteFailed(req)) /\ Advance(o, "respond", WriteOutcome(req))
     \/ /\ req.kind = "put" /\ req.become = "yes"  \* chmod failed
        /\ Store(o, "whole") /\ Advance(o, "respond", "failed")
  /\ UNCHANGED <<s, meshVars, serverVars, runs, dead>>

Stat(o) ==
  LET refused == Statted(Content(o), Request(o.call).size) IN
  /\ o.step = "stat"
  /\ IF refused = "none" THEN Advance(o, "run", "none") ELSE Advance(o, "respond", refused)
  /\ UNCHANGED <<s, meshVars, serverVars, disk, runs, dead>>

\* cmd.Run, the install, or the read, with what is removed after it.
Run(o) ==
  /\ o.step = "run"
  /\ LET command == CommandOf(s.config, Request(o.call)) IN
     \E outcome \in RunOutcomes(s.config, Request(o.call), Content(o)) :
       ops' = (ops \ {o}) \cup {[o EXCEPT !.step = "respond", !.outcome = outcome,
                                          !.as = IF Starts(s.config, command) THEN command.as ELSE None]}
  /\ IF AfterRun(Request(o.call), Content(o)) # Content(o) THEN Store(o, "absent") ELSE UNCHANGED disk
  /\ UNCHANGED <<s, meshVars, serverVars, runs, dead>>

\* A report or a response goes up: to the server, or to the first agent that has no
\* upstream, which then drops the peer it came from.
Broken(a) == LET chain == Above(a, up) IN chain[Len(chain) - 2]
SendUp(a, ms) ==
  IF Connected(a)
  THEN wire' = [wire EXCEPT ![ZoneLeader(a, up)] = @ \o ms] /\ UNCHANGED <<up, down, inbox>>
  ELSE /\ up' = [up EXCEPT ![Broken(a)] = None]
       /\ down' = [down EXCEPT ![up[Broken(a)]] = @ \ {Broken(a)}]
       /\ inbox' = [inbox EXCEPT ![Broken(a)] = <<>>]
       /\ UNCHANGED wire

\* sendExecResponse and its like use the stream directly.  With no upstream the send
\* fails, or once connectLoop has cleared it, panics.
Respond(o) ==
  LET a == o.agent IN
  /\ o.step = "respond"
  /\ \/ /\ up[a] # None
        /\ SendUp(a, <<[t |-> "response", agent |-> a, call |-> o.call, wave |-> o.wave, status |-> o.outcome,
                        via |-> Above(a, up)]>>)
        /\ ops' = ops \ {o} /\ UNCHANGED dead
     \/ /\ up[a] = None /\ ops' = ops \ {o} /\ UNCHANGED <<up, down, inbox, wire, dead>>
     \/ /\ up[a] = None /\ dead' = dead \cup {a} /\ ops' = {x \in ops : x.agent # a}
        /\ inbox' = [inbox EXCEPT ![a] = <<>>] /\ UNCHANGED <<up, down, wire>>
  /\ UNCHANGED <<s, breaks, serverVars, disk, runs>>

-----------------------------------------------------------------------------
(***************************************************************************)
(* Connections.                                                            *)
(***************************************************************************)
\* A connection breaks, or its other end died.
Cut(a) ==
  /\ up[a] # None
  /\ \/ up[a] \in dead
     \/ breaks < s.breaks
  /\ breaks' = breaks + 1
  /\ up' = [up EXCEPT ![a] = None]
  /\ inbox' = [inbox EXCEPT ![a] = <<>>]
  /\ UNCHANGED <<s, down, wire, serverVars, agentVars>>

\* Sessions that wait for agents in a lost subtree give them up.
NotifyGone(as) ==
  /\ call' = [c \in DOMAIN call |-> [call[c] EXCEPT !.pending = @ \ as]]
  /\ writtenOff' = writtenOff \cup UNION {{<<c, a>> : a \in as \cap call[c].pending} : c \in DOMAIN call}

\* closeAgentStream; what was not read is gone.
ServerNotices(a) ==
  /\ a \in down[Server] /\ up[a] # Server
  /\ down' = [down EXCEPT ![Server] = @ \ {a}]
  /\ wire' = [wire EXCEPT ![a] = <<>>]
  /\ NotifyGone(Subtree(a, parent))
  /\ UNCHANGED <<s, up, inbox, breaks, topology, sessions, result, log, updates, agentVars>>

\* A relay notices: RelayStream ends and reports it, if it has an upstream.
RelayNotices(p, a) ==
  /\ p \notin dead /\ a \in down[p] /\ up[a] # p
  /\ down' = [down EXCEPT ![p] = @ \ {a}]
  /\ IF Connected(p) THEN wire' = [wire EXCEPT ![ZoneLeader(p, up)] = @ \o <<[t |-> "lost", agent |-> a]>>]
     ELSE UNCHANGED wire
  /\ UNCHANGED <<s, up, inbox, breaks, serverVars, agentVars>>

\* An agent attaches again: a zone leader to the server, another to a relay that is
\* connected.  The relay reports it, and it re-announces the peers below it.
Attach(a, p) ==
  /\ up[a] = None /\ a \notin dead \cup down[p]
  /\ IF s.tree[a] = Server THEN p = Server ELSE p \in Agents \ (Subtree(a, up) \cup dead) /\ Connected(p)
  /\ up' = [up EXCEPT ![a] = p]
  /\ down' = [down EXCEPT ![p] = @ \cup {a}]
  /\ LET pc(x, y) == [t |-> "attached", agent |-> x, parent |-> y]
         announced == {pc(x, a) : x \in down[a]}
         zl == ZoneLeader(a, up')
     IN  \E order \in {q \in [1..Cardinality(announced) -> announced] : \A m \in announced : \E i \in DOMAIN q : q[i] = m} :
           wire' = [wire EXCEPT ![zl] = @ \o ((IF p = Server THEN <<>> ELSE <<pc(a, p)>>) \o order)]
  /\ UNCHANGED <<s, inbox, breaks, serverVars, agentVars>>

-----------------------------------------------------------------------------
(***************************************************************************)
(* The server reads a stream.                                              *)
(***************************************************************************)
\* (mutant) As if the report named a parent over its budget and was refused.
AttachedRefused(origin, m) == UNCHANGED <<topology, call, writtenOff, result, updates>>

\* handlePeerConnected: AttachObserved sets the depth of the agent and leaves those of
\* the agents below it.
Attached(origin, m) ==
  /\ IF OriginAllows(origin, m.parent) /\ m.parent \notin Subtree(m.agent, parent)
     THEN /\ parent' = [parent EXCEPT ![m.agent] = m.parent]
          /\ depth' = [depth EXCEPT ![m.agent] = depth[m.parent] + 1]
          /\ UNCHANGED recorded
     ELSE UNCHANGED topology
  /\ UNCHANGED <<call, writtenOff, result, updates>>

\* handlePeerDisconnected
Lost(origin, m) ==
  /\ IF OriginAllows(origin, m.agent) THEN NotifyGone(Subtree(m.agent, parent)) ELSE UNCHANGED <<call, writtenOff>>
  /\ UNCHANGED <<topology, result, updates>>

\* A response with a session of the wave: the agent is accounted for.
Claim(origin, m) ==
  IF OriginAllows(origin, m.agent) /\ call[m.call].phase = "waiting" /\ m.wave = Len(call[m.call].waves) + 1
  THEN [call EXCEPT ![m.call].pending = @ \ {m.agent}] ELSE call

\* A response for a session goes into its channel, if there is room and the session
\* is for that agent.
ForSession(m) == Request(m.call).id \in DOMAIN sessions
Mismatched(m) == ForSession(m) /\ OriginTargetMismatch(Request(sessions[Request(m.call).id]).target, m.agent)
IntoSession(m) ==
  LET c == sessions[Request(m.call).id] IN
  IF ForSession(m) /\ ~Mismatched(m) /\ result[c] = <<>> THEN [result EXCEPT ![c] = <<m>>] ELSE result

\* A command's response also goes to the audit log, with or without a session.
ExecResponse(origin, m) ==
  /\ IF OriginAllows(origin, m.agent) /\ ~Mismatched(m)
     THEN result' = IntoSession(m) /\ updates' = updates \cup {[call |-> m.call, status |-> m.status]}
     ELSE UNCHANGED <<result, updates>>
  /\ UNCHANGED <<topology, call, writtenOff>>

\* Without a session of the wave it is taken for a response of a single agent, whose
\* update finds no entry in the log.
ExecBroadcastResponse(origin, m) ==
  /\ call' = Claim(origin, m)
  /\ UNCHANGED <<topology, writtenOff, result, updates>>

DeployResponse(origin, m) ==
  /\ call' = Claim(origin, m)
  /\ UNCHANGED <<topology, writtenOff, result, updates>>

FileChunk(origin, m) ==
  /\ result' = IF OriginAllows(origin, m.agent) THEN IntoSession(m) ELSE result
  /\ UNCHANGED <<topology, call, writtenOff, updates>>

FetchResponse(origin, m) ==
  /\ result' = IF OriginAllows(origin, m.agent) THEN IntoSession(m) ELSE result
  /\ UNCHANGED <<topology, call, writtenOff, updates>>

Receive(z) ==
  /\ z \in down[Server] /\ wire[z] # <<>>
  /\ LET m == Head(wire[z]) IN
     \/ m.t = "attached" /\ Attached(z, m)
     \/ m.t = "lost" /\ Lost(z, m)
     \/ /\ m.t = "response"
        /\ LET kind == Request(m.call).kind IN
           \/ kind = "exec" /\ Single(m.call) /\ ExecResponse(z, m)
           \/ kind = "exec" /\ ~Single(m.call) /\ ExecBroadcastResponse(z, m)
           \/ kind = "deploy" /\ DeployResponse(z, m)
           \/ kind = "put" /\ FileChunk(z, m)
           \/ kind = "fetch" /\ FetchResponse(z, m)
  /\ wire' = [wire EXCEPT ![z] = Tail(@)]
  /\ UNCHANGED <<s, up, down, inbox, breaks, sessions, log, agentVars>>

\* The goroutine that updates the audit log.
UpdateExecLog(u) ==
  /\ u \in updates
  /\ updates' = updates \ {u}
  /\ log' = Closed(u.call, u.status)
  /\ UNCHANGED <<s, meshVars, topology, call, sessions, result, writtenOff, agentVars>>

-----------------------------------------------------------------------------
Next ==
  \/ \E c \in DOMAIN s.calls :
       \/ HandleExecCommand(c) \/ HandlePutFile(c) \/ HandleFetchFile(c)
       \/ Send(c) \/ AnswerExecCommand(c) \/ AnswerPutFile(c) \/ AnswerFetchFile(c) \/ Timeout(c)
       \/ HandleExecMulti(c) \/ HandleBroadcastDeploy(c) \/ DispatchExecWave(c) \/ DispatchDeployWave(c)
       \/ WaveDone(c) \/ WaveTimeout(c)
  \/ \E a \in Agents :
       \/ HandleServerMessage(a) \/ Cut(a) \/ ServerNotices(a) \/ Receive(a)
       \/ \E p \in Agents \cup {Server} : Attach(a, p)
       \/ \E p \in Agents : RelayNotices(p, a)
  \/ \E o \in ops : Gate(o) \/ Write(o) \/ Fill(o) \/ Stat(o) \/ Run(o) \/ Respond(o)
  \/ \E u \in updates : UpdateExecLog(u)

Spec == Init /\ [][Next]_vars

-----------------------------------------------------------------------------
SameId(c) == {d \in DOMAIN s.calls : Single(d) /\ Request(d).id = Request(c).id}
Answered(c) == Single(c) /\ call[c].reply.agent # None

\* A caller that is given an answer is given one of the agent it named, whoever else
\* saw the request, and also if two requests got the same id, which is the clock's.
AnswerIsFromTheTarget == \A c \in DOMAIN call : Answered(c) => call[c].reply.agent = Request(c).target

\* A request that left along a route is taken up at most once, wherever the one
\* connection that broke was.  (Of four breaks it can be twice: an agent on the route
\* that has lost the next one floods, and the target, which has moved under it and taken
\* the request up, moves again, under another agent of the route that has a copy.)
RoutedRunsOnce ==
  \A c \in DOMAIN call :
    Single(c) /\ call[c].routed = "yes" /\ breaks <= 1 => \A a \in Agents : runs[a][c] <= 1

\* Once its updates are made, the audit log tells of an answered request what the
\* caller was told, if its id was its own and the target took it up no more than once.
AuditAgrees ==
  \A c \in DOMAIN call :
    Answered(c) /\ SameId(c) = {c} /\ runs[Request(c).target][c] <= 1 /\ ~(\E u \in updates : u.call = c) =>
      log[c] = call[c].reply.status

\* While an agent works on a wave, no agent of the run that was on record as deeper when
\* the waves were made is still at work, except those given up as lost and those that
\* moved and were given the wave a second time.  (What is below an agent is deeper on
\* record, but if it moved along with that agent.)
RelaysWaitForTheirChildren ==
  \A o, x \in ops : LET at == recorded[o.call] IN
    o.call = x.call /\ ~Single(o.call) /\ Request(o.call).bottomUp = "yes" /\ at[x.agent] > at[o.agent]
    => <<x.call, x.agent>> \in writtenOff \/ runs[x.agent][x.call] > 1

\* The origin check drops only answers of agents that have left the way they came, as
\* long as one connection broke.
DropsOnlyStaleAnswers ==
  \A z \in down[Server] :
    wire[z] # <<>> /\ Head(wire[z]).t = "response" =>
      LET m == Head(wire[z]) IN
      ~OriginAllows(z, m.agent) /\ breaks <= 1 => m.via # Above(m.agent, up)

\* What an agent answered for and is done with has left no script behind, nor, unless
\* the write failed, a package; what was refused has written nothing at all.
NothingLeftBehind ==
  \A a \in Agents \ dead : \A c \in DOMAIN s.calls :
    LET f == FileOf(Request(c), c) IN
    runs[a][c] > 0 /\ ~(\E o \in ops : o.agent = a /\ o.call = c) /\ f \in DOMAIN disk[a] =>
      /\ Request(c).kind \in {"exec", "deploy"} => disk[a][f] \in {"absent", WriteFailed(Request(c))}
      /\ f[1] # "file" => Refusal(s.config, Request(c), Request(c).verdict) = "none"

\* What ran, ran as the user asked for: the agent's own without become, else the one
\* named or root; on Windows the service account stands for the administrator.  A
\* script there, and reading a file, is always the service account's.
RunsAsAsked ==
  \A o \in ops :
    LET req == Request(o.call) IN
    o.as # None =>
      \/ req.become = "yes" /\ s.config.os = "unix" /\ o.as = BecomeUser(req)
      \/ req.become = "yes" /\ s.config.os = "windows" /\ o.as = req.user
      \/ req.become = "no" /\ o.as = s.config.identity
      \/ /\ s.config.os = "windows" /\ o.as = s.config.identity
         /\ req.user \in {"", "Administrator", "SYSTEM"} \/ req.script = "yes" \/ req.kind = "fetch"

\* agent.go, upstreamSend: "Dropping one message is vastly better than a nil
\* dereference taking the agent down and its whole subtree off the mesh with it".
AgentSurvives == dead = {}
=============================================================================
