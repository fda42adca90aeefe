-------------------------- MODULE RelayMeshProofs --------------------------
(***************************************************************************)
(* For any mesh to start from and any faults, in any order.                *)
(*                                                                         *)
(* The table of downstream peers of an agent that runs only points at      *)
(* connections that are served for that peer (RelayInv).  For the          *)
(* induction the table of a crashed agent must be empty, so that it is     *)
(* when it restarts.                                                       *)
(*                                                                         *)
(* Faults heal: once all is quiet, every agent that runs is online and     *)
(* routed to where it is.  Quiet looks at the end only, so the invariant   *)
(* (MeshInv) says what is still to happen before it:                       *)
(*   Tidy          every running agent has one connection, the one its     *)
(*                 relay has entered, and what is reported of it is where  *)
(*                 it is, or it has yet to notice that it is cut off;      *)
(*   Healing       whoever is recorded elsewhere than it is linked, or is  *)
(*                 taken for offline while it runs, has a report under way *)
(*                 that puts it right, or is below an agent that has yet   *)
(*                 to say hello and to speak for those below it;           *)
(*   NoIdleCircle  agents linked in a circle have a hello or a report      *)
(*                 between them, so that once all is quiet every chain of  *)
(*                 upstreams ends, and at the server;                      *)
(*   OneFault      before the first fault everybody is where it was        *)
(*                 placed; while a crash is the only fault, the loss of    *)
(*                 the agent that crashed is told behind every report that *)
(*                 it was there, along a path that nothing disturbs.       *)
(* Tidy, Healing and OneFault end with the first of the races; races only  *)
(* grow, so the step lemmas may assume there is none after the step.       *)
(*                                                                         *)
(* The steps of RelayMesh are first reduced to their effects on the parts  *)
(* of the state that matter here (Effect); each invariant is then shown to *)
(* be kept by the agents' effects, the server's, the relays' and the       *)
(* faults'.                                                                *)
(***************************************************************************)
EXTENDS RelayMesh, TLAPS, SequenceTheorems, FiniteSetTheorems

IsConnection(r) == r = Connection(r.child, r.to, r.link, r.phase, r.reassigned)

ConnsAreConnections ==
  /\ conn = [c \in Conns |-> conn[c]]
  /\ \A c \in Conns : IsConnection(conn[c])

TablesTypeOK ==
  /\ downstreams \in [Agents -> [Agents -> Conns \cup {None}]]
  /\ pc = [a \in Agents |-> pc[a]]

CrashedServeNobody == \A p, a \in Agents : pc[p] = "crashed" => downstreams[p][a] = None

\* As DownstreamsAreServed, of every agent.
EntriesAreServed ==
  \A p, a \in Agents : downstreams[p][a] # None =>
    /\ conn[downstreams[p][a]].child = a
    /\ conn[downstreams[p][a]].to = p
    /\ conn[downstreams[p][a]].phase \in {"serve", "remove"}

RelayInv == ConnsAreConnections /\ TablesTypeOK /\ CrashedServeNobody /\ EntriesAreServed

-----------------------------------------------------------------------------
(***************************************************************************)
(* Connections.                                                            *)
(***************************************************************************)
LEMMA Fields ==
  ASSUME NEW a, NEW t, NEW l, NEW ph, NEW r
  PROVE  /\ IsConnection(Connection(a, t, l, ph, r))
         /\ Connection(a, t, l, ph, r).child = a
         /\ Connection(a, t, l, ph, r).to = t
         /\ Connection(a, t, l, ph, r).link = l
         /\ Connection(a, t, l, ph, r).phase = ph
         /\ Connection(a, t, l, ph, r).reassigned = r
BY DEF Connection, IsConnection

LEMMA ConnSet ==
  ASSUME ConnsAreConnections, NEW c \in Conns, NEW r, IsConnection(r), conn' = [conn EXCEPT ![c] = r]
  PROVE  ConnsAreConnections' /\ conn'[c] = r /\ \A d \in Conns \ {c} : conn'[d] = conn[d]
<1>1. conn'[c] = r /\ \A d \in Conns \ {c} : conn'[d] = conn[d]  BY DEF ConnsAreConnections
<1>2. conn' = [d \in Conns |-> conn'[d]]  BY DEF ConnsAreConnections
<1>3. ASSUME NEW d \in Conns PROVE IsConnection(conn'[d])  BY <1>1 DEF ConnsAreConnections
<1> QED  BY <1>1, <1>2, <1>3 DEF ConnsAreConnections

\* A handler goes on to its next phase.
LEMMA PhaseSet ==
  ASSUME ConnsAreConnections, NEW c \in Conns, NEW ph, Phase(c, ph)
  PROVE  /\ ConnsAreConnections'
         /\ \A d \in Conns \ {c} : conn'[d] = conn[d]
         /\ conn'[c].child = conn[c].child /\ conn'[c].to = conn[c].to /\ conn'[c].phase = ph
<1> DEFINE new == Connection(conn[c].child, conn[c].to, conn[c].link, ph, conn[c].reassigned)
<1>1. conn' = [conn EXCEPT ![c] = new]  BY DEF Phase
<1>2. IsConnection(new) /\ new.child = conn[c].child /\ new.to = conn[c].to /\ new.phase = ph  BY Fields
<1> HIDE DEF new
<1>3. ConnsAreConnections' /\ conn'[c] = new /\ \A d \in Conns \ {c} : conn'[d] = conn[d]
  BY <1>1, <1>2, ConnSet
<1> QED  BY <1>2, <1>3

-----------------------------------------------------------------------------
(***************************************************************************)
(* What a step must keep if it leaves the tables alone.                    *)
(***************************************************************************)
StillServed ==
  \A d \in Conns : conn[d].to \in Agents /\ conn[d].phase \in {"serve", "remove"} =>
    /\ conn'[d].child = conn[d].child
    /\ conn'[d].to = conn[d].to
    /\ conn'[d].phase \in {"serve", "remove"}

NoneCrashes ==
  /\ pc' = [a \in Agents |-> pc'[a]]
  /\ \A a \in Agents : pc'[a] = "crashed" => pc[a] = "crashed"

LEMMA TablesKept ==
  ASSUME RelayInv, downstreams' = downstreams, ConnsAreConnections', StillServed, NoneCrashes
  PROVE  RelayInv'
<1>1. TablesTypeOK'  BY DEF RelayInv, TablesTypeOK, NoneCrashes
<1>2. CrashedServeNobody'  BY DEF RelayInv, CrashedServeNobody, NoneCrashes
<1>3. EntriesAreServed'
  BY DEF RelayInv, TablesTypeOK, EntriesAreServed, StillServed
<1> QED  BY <1>1, <1>2, <1>3 DEF RelayInv

LEMMA ConnKept == ASSUME RelayInv, conn' = conn PROVE ConnsAreConnections' /\ StillServed
BY DEF RelayInv, ConnsAreConnections, StillServed

LEMMA GotoCrashesNone ==
  ASSUME RelayInv, NEW a \in Agents, NEW l, l # "crashed", Goto(a, l)
  PROVE  NoneCrashes
BY DEF RelayInv, TablesTypeOK, NoneCrashes, Goto

LEMMA PcKept == ASSUME RelayInv, pc' = pc PROVE NoneCrashes
BY DEF RelayInv, TablesTypeOK, NoneCrashes

\* A connection that was free is opened.
LEMMA OpenServes ==
  ASSUME RelayInv, NEW a \in Agents, NEW target, Open(a, target)
  PROVE  ConnsAreConnections' /\ StillServed /\ NoneCrashes
<1> DEFINE free == {c \in Conns : conn[c] = Closed /\ \A b \in Agents : upstream[b] # c}
           x == CHOOSE c \in free : TRUE
           new == Opened(a, target)
<1>1. x \in free  BY DEF Open
<1>2. conn' = [conn EXCEPT ![x] = new]  BY DEF Open
<1>3. x \in Conns /\ conn[x] = Closed  BY <1>1
<1>4. IsConnection(new)  BY Fields DEF Opened
<1> HIDE DEF x, new
<1>5. conn[x].phase = "gone"  BY <1>3, Fields DEF Closed
<1>6. ConnsAreConnections' /\ \A d \in Conns \ {x} : conn'[d] = conn[d]
  BY <1>2, <1>3, <1>4, ConnSet DEF RelayInv
<1>7. StillServed  BY <1>5, <1>6 DEF StillServed
<1>8. pc' = [pc EXCEPT ![a] = "announce"]  BY DEF Open
<1>9. NoneCrashes  BY <1>8 DEF NoneCrashes, RelayInv, TablesTypeOK
<1> QED  BY <1>6, <1>7, <1>9

\* One connection changes, and goes on being served if it was.
LEMMA SetServes ==
  ASSUME RelayInv, NEW c \in Conns, NEW r, IsConnection(r), conn' = [conn EXCEPT ![c] = r],
         conn[c].to \in Agents /\ conn[c].phase \in {"serve", "remove"} =>
           r.child = conn[c].child /\ r.to = conn[c].to /\ r.phase \in {"serve", "remove"}
  PROVE  ConnsAreConnections' /\ StillServed
<1>1. ConnsAreConnections' /\ conn'[c] = r /\ \A d \in Conns \ {c} : conn'[d] = conn[d]
  BY ConnSet DEF RelayInv
<1> QED  BY <1>1 DEF StillServed

LEMMA PhaseServes ==
  ASSUME RelayInv, NEW c \in Conns, NEW ph, Phase(c, ph),
         conn[c].to \in Agents /\ conn[c].phase \in {"serve", "remove"} => ph \in {"serve", "remove"}
  PROVE  ConnsAreConnections' /\ StillServed
<1>1. /\ ConnsAreConnections'
      /\ \A d \in Conns \ {c} : conn'[d] = conn[d]
      /\ conn'[c].child = conn[c].child /\ conn'[c].to = conn[c].to /\ conn'[c].phase = ph
  BY PhaseSet DEF RelayInv
<1> QED  BY <1>1 DEF StillServed

-----------------------------------------------------------------------------
(***************************************************************************)
(* The steps.                                                              *)
(***************************************************************************)
LEMMA AgentStepKeeps ==
  ASSUME RelayInv, NEW a \in Agents, AgentStep(a)
  PROVE  RelayInv'
<1>1. downstreams' = downstreams
  BY DEF AgentStep, ConnectUpstream, ConnectFallback, RequestNewParent, ConnectAssigned, Register,
         Reannounce, NotifyAnnounced, LoseUpstream, Restart
<1>2. ASSUME NEW t, Open(a, t) PROVE RelayInv'
  <2>1. ConnsAreConnections' /\ StillServed /\ NoneCrashes  BY <1>2, OpenServes
  <2> QED  BY <1>1, <2>1, TablesKept
<1>3. ASSUME NEW l, l # "crashed", Goto(a, l), conn' = conn PROVE RelayInv'
  <2>1. NoneCrashes  BY <1>3, GotoCrashesNone
  <2>2. ConnsAreConnections' /\ StillServed  BY <1>3, ConnKept
  <2> QED  BY <1>1, <2>1, <2>2, TablesKept
<1>4. ASSUME pc' = pc, conn' = conn PROVE RelayInv'
  <2>1. NoneCrashes  BY <1>4, PcKept
  <2>2. ConnsAreConnections' /\ StillServed  BY <1>4, ConnKept
  <2> QED  BY <1>1, <2>1, <2>2, TablesKept
<1>5. CASE ConnectUpstream(a)  BY <1>2, <1>3, <1>5 DEF ConnectUpstream
<1>6. CASE ConnectFallback(a)  BY <1>2, <1>3, <1>6 DEF ConnectFallback
<1>7. CASE RequestNewParent(a)  BY <1>3, <1>7 DEF RequestNewParent
<1>8. CASE ConnectAssigned(a)  BY <1>2, <1>3, <1>8 DEF ConnectAssigned
<1>9. CASE Register(a)  BY <1>3, <1>9 DEF Register
<1>10. CASE Reannounce(a)  BY <1>3, <1>10 DEF Reannounce
<1>11. CASE NotifyAnnounced(a)  BY <1>3, <1>4, <1>11 DEF NotifyAnnounced
<1>12. CASE LoseUpstream(a)  BY <1>3, <1>12 DEF LoseUpstream
<1>13. CASE Restart(a)  BY <1>3, <1>13 DEF Restart
<1> QED  BY <1>5, <1>6, <1>7, <1>8, <1>9, <1>10, <1>11, <1>12, <1>13 DEF AgentStep

\* The new entry's connection had no entry before: it was not served.
LEMMA InsertKeeps ==
  ASSUME RelayInv, NEW p \in Agents, NEW c \in Conns, RelayInsert(p, c)
  PROVE  RelayInv'
<1>1. /\ Running(p) /\ conn[c].to = p /\ conn[c].phase = "insert"
      /\ downstreams' = [downstreams EXCEPT ![p][conn[c].child] = c]
      /\ Phase(c, "serve") /\ pc' = pc
  BY DEF RelayInsert, Serves, agentVars
<1>2. /\ ConnsAreConnections'
      /\ \A d \in Conns \ {c} : conn'[d] = conn[d]
      /\ conn'[c].child = conn[c].child /\ conn'[c].to = conn[c].to /\ conn'[c].phase = "serve"
  BY <1>1, PhaseSet DEF RelayInv
<1>3. \A q, b \in Agents : downstreams'[q][b] =
        IF q = p /\ b = conn[c].child THEN c ELSE downstreams[q][b]
  BY <1>1 DEF RelayInv, TablesTypeOK
<1>4. TablesTypeOK'  BY <1>1 DEF RelayInv, TablesTypeOK
<1>5. CrashedServeNobody'  BY <1>1, <1>3 DEF RelayInv, CrashedServeNobody, Running
<1>6. ASSUME NEW q \in Agents, NEW b \in Agents, downstreams'[q][b] # None
      PROVE  /\ conn'[downstreams'[q][b]].child = b
             /\ conn'[downstreams'[q][b]].to = q
             /\ conn'[downstreams'[q][b]].phase \in {"serve", "remove"}
  <2>1. CASE q = p /\ b = conn[c].child  BY <1>1, <1>2, <1>3, <2>1
  <2>2. CASE ~(q = p /\ b = conn[c].child)
    <3>1. downstreams'[q][b] = downstreams[q][b]  BY <1>3, <2>2
    <3>2. /\ conn[downstreams[q][b]].child = b
          /\ conn[downstreams[q][b]].to = q
          /\ conn[downstreams[q][b]].phase \in {"serve", "remove"}
      BY <1>6, <3>1 DEF RelayInv, EntriesAreServed
    <3>3. downstreams[q][b] \in Conns \ {c}  BY <1>1, <1>6, <3>1, <3>2 DEF RelayInv, TablesTypeOK
    <3> QED  BY <1>2, <3>1, <3>2, <3>3
  <2> QED  BY <2>1, <2>2
<1> QED  BY <1>2, <1>4, <1>5, <1>6 DEF RelayInv, EntriesAreServed

\* Only the entry taken out can have pointed at this connection.
LEMMA RemoveKeeps ==
  ASSUME RelayInv, NEW p \in Agents, NEW c \in Conns, RelayRemove(p, c)
  PROVE  RelayInv'
<1>1. /\ conn[c].to = p
      /\ downstreams' = [downstreams EXCEPT ![p][conn[c].child] = None]
      /\ Phase(c, "report") /\ pc' = pc
  BY DEF RelayRemove, Serves, agentVars
<1>2. ConnsAreConnections' /\ \A d \in Conns \ {c} : conn'[d] = conn[d]
  BY <1>1, PhaseSet DEF RelayInv
<1>3. \A q, b \in Agents : downstreams'[q][b] =
        IF q = p /\ b = conn[c].child THEN None ELSE downstreams[q][b]
  BY <1>1 DEF RelayInv, TablesTypeOK
<1>4. TablesTypeOK'  BY <1>1 DEF RelayInv, TablesTypeOK
<1>5. CrashedServeNobody'  BY <1>1, <1>3 DEF RelayInv, CrashedServeNobody
<1>6. ASSUME NEW q \in Agents, NEW b \in Agents, downstreams'[q][b] # None
      PROVE  /\ conn'[downstreams'[q][b]].child = b
             /\ conn'[downstreams'[q][b]].to = q
             /\ conn'[downstreams'[q][b]].phase \in {"serve", "remove"}
  <2>1. downstreams'[q][b] = downstreams[q][b] /\ ~(q = p /\ b = conn[c].child)  BY <1>3, <1>6
  <2>2. /\ conn[downstreams[q][b]].child = b
        /\ conn[downstreams[q][b]].to = q
        /\ conn[downstreams[q][b]].phase \in {"serve", "remove"}
    BY <1>6, <2>1 DEF RelayInv, EntriesAreServed
  <2>3. downstreams[q][b] \in Conns \ {c}  BY <1>1, <1>6, <2>1, <2>2 DEF RelayInv, TablesTypeOK
  <2> QED  BY <1>2, <2>1, <2>2, <2>3
<1> QED  BY <1>2, <1>4, <1>5, <1>6 DEF RelayInv, EntriesAreServed

LEMMA HandlerStepKeeps ==
  ASSUME RelayInv, NEW c \in Conns, HandlerStep(c)
  PROVE  RelayInv'
<1>1. ASSUME downstreams' = downstreams, pc' = pc, ConnsAreConnections', StillServed PROVE RelayInv'
  <2>1. NoneCrashes  BY <1>1, PcKept
  <2> QED  BY <1>1, <2>1, TablesKept
<1>2. IsConnection(Closed)  BY Fields DEF Closed
<1>3. ASSUME conn' = [conn EXCEPT ![c] = Closed],
             ~(conn[c].to \in Agents /\ conn[c].phase \in {"serve", "remove"})
      PROVE  ConnsAreConnections' /\ StillServed
  BY <1>2, <1>3, SetServes
<1>4. CASE ServerAccept(c)
  <2>1. ConnsAreConnections' /\ StillServed
    BY <1>4, PhaseServes, NodesAssumption DEF ServerAccept
  <2> QED  BY <1>1, <1>4, <2>1 DEF ServerAccept, agentVars
<1>5. CASE ServerReceive(c)
  <2>1. ConnsAreConnections' /\ StillServed  BY <1>5, ConnKept DEF ServerReceive
  <2> QED  BY <1>1, <1>5, <2>1 DEF ServerReceive, agentVars
<1>6. CASE ServerClose(c)
  <2>1. ConnsAreConnections' /\ StillServed  BY <1>3, <1>6, NodesAssumption DEF ServerClose
  <2> QED  BY <1>1, <1>6, <2>1 DEF ServerClose, agentVars
<1>7. ASSUME NEW p \in Agents, RelayHello(p, c) PROVE RelayInv'
  <2>1. ConnsAreConnections' /\ StillServed  BY <1>7, PhaseServes DEF RelayHello, Serves
  <2> QED  BY <1>1, <1>7, <2>1 DEF RelayHello, agentVars
<1>8. ASSUME NEW p \in Agents, RelayForward(p, c) PROVE RelayInv'
  <2> DEFINE new == Connection(conn[c].child, conn[c].to, "cut", "remove", conn[c].reassigned)
  <2>1. IsConnection(new) /\ new.child = conn[c].child /\ new.to = conn[c].to /\ new.phase = "remove"
    BY Fields
  <2>2. conn' = conn \/ conn' = [conn EXCEPT ![c] = new]  BY <1>8 DEF RelayForward
  <2> HIDE DEF new
  <2>3. ConnsAreConnections' /\ StillServed  BY <2>1, <2>2, ConnKept, SetServes
  <2> QED  BY <1>1, <1>8, <2>3 DEF RelayForward, agentVars
<1>9. ASSUME NEW p \in Agents, RelayLost(p, c) PROVE RelayInv'
  <2>1. ConnsAreConnections' /\ StillServed  BY <1>9, PhaseServes DEF RelayLost
  <2> QED  BY <1>1, <1>9, <2>1 DEF RelayLost, agentVars
<1>10. ASSUME NEW p \in Agents, RelayReport(p, c) PROVE RelayInv'
  <2>1. ConnsAreConnections' /\ StillServed  BY <1>3, <1>10 DEF RelayReport, Serves
  <2> QED  BY <1>1, <1>10, <2>1 DEF RelayReport, agentVars
<1> QED  BY <1>4, <1>5, <1>6, <1>7, <1>8, <1>9, <1>10, InsertKeeps, RemoveKeeps DEF HandlerStep

\* A crash empties the agent's table and closes only the connections it served.
LEMMA CrashKeeps ==
  ASSUME RelayInv, NEW a \in Agents, Crash(a)
  PROVE  RelayInv'
<1>1. /\ pc' = [pc EXCEPT ![a] = "crashed"]
      /\ downstreams' = [downstreams EXCEPT ![a] = [x \in Agents |-> None]]
      /\ conn' = [c \in Conns |-> IF conn[c].to = a THEN Closed
                                  ELSE IF conn[c].child = a THEN [conn[c] EXCEPT !.link = "cut"]
                                  ELSE conn[c]]
  BY DEF Crash, Goto
<1>2. ASSUME NEW c \in Conns
      PROVE  [conn[c] EXCEPT !.link = "cut"]
               = Connection(conn[c].child, conn[c].to, "cut", conn[c].phase, conn[c].reassigned)
  <2>1. conn[c] = Connection(conn[c].child, conn[c].to, conn[c].link, conn[c].phase, conn[c].reassigned)
    BY DEF RelayInv, ConnsAreConnections, IsConnection
  <2> QED  BY <2>1 DEF Connection
<1>3. ASSUME NEW c \in Conns
      PROVE  /\ IsConnection(conn'[c])
             /\ conn[c].to # a => /\ conn'[c].child = conn[c].child
                                  /\ conn'[c].to = conn[c].to
                                  /\ conn'[c].phase = conn[c].phase
  <2>1. CASE conn[c].to = a
    <3>1. conn'[c] = Closed  BY <1>1, <2>1
    <3> QED  BY <2>1, <3>1, Fields DEF Closed
  <2>2. CASE conn[c].to # a /\ conn[c].child = a
    <3>1. conn'[c] = Connection(conn[c].child, conn[c].to, "cut", conn[c].phase, conn[c].reassigned)
      BY <1>1, <1>2, <2>2
    <3> QED  BY <3>1, Fields
  <2>3. CASE conn[c].to # a /\ conn[c].child # a
    <3>1. conn'[c] = conn[c]  BY <1>1, <2>3
    <3> QED  BY <3>1 DEF RelayInv, ConnsAreConnections
  <2> QED  BY <2>1, <2>2, <2>3
<1>4. conn' = [c \in Conns |-> conn'[c]]  BY <1>1
<1>5. ConnsAreConnections'  BY <1>3, <1>4 DEF ConnsAreConnections
<1>6. \A q, b \in Agents : downstreams'[q][b] = IF q = a THEN None ELSE downstreams[q][b]
  BY <1>1 DEF RelayInv, TablesTypeOK
<1>7. TablesTypeOK'  BY <1>1 DEF RelayInv, TablesTypeOK
<1>8. CrashedServeNobody'  BY <1>1, <1>6 DEF RelayInv, TablesTypeOK, CrashedServeNobody
<1>9. ASSUME NEW q \in Agents, NEW b \in Agents, downstreams'[q][b] # None
      PROVE  /\ conn'[downstreams'[q][b]].child = b
             /\ conn'[downstreams'[q][b]].to = q
             /\ conn'[downstreams'[q][b]].phase \in {"serve", "remove"}
  <2>1. q # a /\ downstreams'[q][b] = downstreams[q][b]  BY <1>6, <1>9
  <2>2. /\ downstreams[q][b] \in Conns
        /\ conn[downstreams[q][b]].child = b
        /\ conn[downstreams[q][b]].to = q
        /\ conn[downstreams[q][b]].phase \in {"serve", "remove"}
    BY <1>9, <2>1 DEF RelayInv, TablesTypeOK, EntriesAreServed
  <2> QED  BY <1>3, <2>1, <2>2
<1> QED  BY <1>5, <1>7, <1>8, <1>9 DEF RelayInv, EntriesAreServed

\* A connection is cut: its handler has yet to notice.
LEMMA CutKeeps ==
  ASSUME RelayInv, NEW c, NEW r, downstreams' = downstreams, pc' = pc,
         conn' = [conn EXCEPT ![c] = Connection(conn[c].child, conn[c].to, "cut", conn[c].phase, r)]
  PROVE  RelayInv'
<1> DEFINE new == Connection(conn[c].child, conn[c].to, "cut", conn[c].phase, r)
<1>1. IsConnection(new) /\ new.child = conn[c].child /\ new.to = conn[c].to /\ new.phase = conn[c].phase
  BY Fields
<1>2. conn' = [conn EXCEPT ![c] = new]  OBVIOUS
<1> HIDE DEF new
<1>3. CASE c \in Conns
  <2>1. ConnsAreConnections' /\ StillServed  BY <1>1, <1>2, <1>3, SetServes
  <2> QED  BY <2>1, PcKept, TablesKept
<1>4. CASE c \notin Conns
  <2>1. conn' = conn  BY <1>2, <1>4 DEF RelayInv, ConnsAreConnections
  <2> QED  BY <2>1, ConnKept, PcKept, TablesKept
<1> QED  BY <1>3, <1>4

LEMMA StepKeeps == RelayInv /\ [Next]_vars => RelayInv'
<1> SUFFICES ASSUME RelayInv, [Next]_vars PROVE RelayInv'  OBVIOUS
<1>1. ASSUME NEW c \in Conns, Cut(c) PROVE RelayInv'
  BY <1>1, CutKeeps DEF Cut, agentVars
<1>2. ASSUME NEW a \in Agents, NEW p \in Agents, PeerUpdate(a, p) PROVE RelayInv'
  BY <1>2, CutKeeps DEF PeerUpdate
<1>3. CASE UNCHANGED vars
  <2>1. downstreams' = downstreams /\ conn' = conn /\ pc' = pc  BY <1>3 DEF vars, agentVars
  <2> QED  BY <2>1, ConnKept, PcKept, TablesKept
<1> QED  BY <1>1, <1>2, <1>3, AgentStepKeeps, HandlerStepKeeps, CrashKeeps DEF Next

LEMMA InitHolds == Init => RelayInv
<1> SUFFICES ASSUME NEW s \in Scenarios, Start(s) PROVE RelayInv  BY DEF Init
<1> DEFINE f == CHOOSE g \in [Agents -> Conns] : \A a, b \in Agents : a # b => g[a] # g[b]
           At(x) == CHOOSE a \in Agents : f[a] = x
           Phase0(a) == IF a \in s.arriving THEN "hello" ELSE "serve"
<1>1. f \in [Agents -> Conns] /\ \A a, b \in Agents : a # b => f[a] # f[b]
  BY ConnsAssumption
<1>2. /\ pc = [a \in Agents |-> IF a \in s.arriving THEN "announce" ELSE "main"]
      /\ conn = [x \in Conns |-> IF \E a \in Agents : f[a] = x
                                 THEN Connection(At(x), s.tree[At(x)], "up", Phase0(At(x)), "no")
                                 ELSE Closed]
      /\ downstreams = [p \in Agents |-> [a \in Agents |->
           IF s.tree[a] = p /\ a \notin s.arriving THEN f[a] ELSE None]]
  BY DEF Start
<1>3. \A a \in Agents : At(f[a]) = a  BY <1>1
<1> HIDE DEF f, At
<1>4. ASSUME NEW x \in Conns PROVE IsConnection(conn[x])
  <2>1. CASE \E a \in Agents : f[a] = x
    <3>1. conn[x] = Connection(At(x), s.tree[At(x)], "up", Phase0(At(x)), "no")  BY <1>2, <2>1
    <3> QED  BY <3>1, Fields
  <2>2. CASE ~ \E a \in Agents : f[a] = x
    <3>1. conn[x] = Closed  BY <1>2, <2>2
    <3> QED  BY <3>1, Fields DEF Closed
  <2> QED  BY <2>1, <2>2
<1>5. conn = [x \in Conns |-> conn[x]]  BY <1>2
<1>6. TablesTypeOK  BY <1>1, <1>2 DEF TablesTypeOK
<1>7. CrashedServeNobody  BY <1>2 DEF CrashedServeNobody
<1>8. ASSUME NEW p \in Agents, NEW a \in Agents, downstreams[p][a] # None
      PROVE  /\ conn[downstreams[p][a]].child = a
             /\ conn[downstreams[p][a]].to = p
             /\ conn[downstreams[p][a]].phase \in {"serve", "remove"}
  <2>1. s.tree[a] = p /\ a \notin s.arriving /\ downstreams[p][a] = f[a]  BY <1>2, <1>8
  <2>2. conn[f[a]] = Connection(a, p, "up", "serve", "no")  BY <1>1, <1>2, <1>3, <2>1
  <2> QED  BY <2>1, <2>2, Fields
<1> QED  BY <1>4, <1>5, <1>6, <1>7, <1>8 DEF RelayInv, ConnsAreConnections, EntriesAreServed

\* Whatever dies, reconnects or is cut, in whatever order and however often: what
\* relayToDownstreams and routing find in a running agent's a.downstreams is a
\* handler that serves that very peer.
THEOREM PeersAreServed == Spec => []DownstreamsAreServed
<1>1. RelayInv => DownstreamsAreServed
  BY DEF RelayInv, EntriesAreServed, DownstreamsAreServed
<1> QED  BY <1>1, InitHolds, StepKeeps, PTL DEF Spec

(***************************************************************************)
(* Reports.                                                                *)
(***************************************************************************)
Attach(x, p) == Report("connected", x, p)
Detach(x) == Report("disconnected", x, None)
Reports == {Attach(x, p) : x, p \in Agents} \cup {Detach(x) : x \in Agents}

\* The report m is on its way along connection d.
On(d, m) == \E i \in 1..Len(wire[d]) : wire[d][i] = m

LEMMA ReportFields ==
  /\ \A x, p \in Agents : /\ Attach(x, p) \in Reports
                          /\ Attach(x, p).t = "connected" /\ Attach(x, p).a = x /\ Attach(x, p).p = p
  /\ \A x \in Agents : /\ Detach(x) \in Reports
                       /\ Detach(x).t = "disconnected" /\ Detach(x).a = x /\ Detach(x).p = None
BY DEF Reports, Attach, Detach, Report

LEMMA ReportKinds ==
  ASSUME NEW m \in Reports
  PROVE  /\ m.a \in Agents
         /\ \/ m.t = "connected" /\ m.p \in Agents /\ m = Attach(m.a, m.p)
            \/ m.t = "disconnected" /\ m = Detach(m.a)
BY DEF Reports, Attach, Detach, Report

LEMMA OnAppend ==
  ASSUME NEW s \in Seq(Reports), NEW m \in Reports, NEW n
  PROVE  (\E i \in 1..Len(Append(s, m)) : Append(s, m)[i] = n) <=> (\E i \in 1..Len(s) : s[i] = n) \/ n = m
<1>1. Len(s) \in Nat /\ Len(Append(s, m)) = Len(s) + 1  OBVIOUS
<1>2. \A i \in 1..Len(s) : Append(s, m)[i] = s[i]  OBVIOUS
<1>3. Append(s, m)[Len(s) + 1] = m  OBVIOUS
<1>4. 1..Len(Append(s, m)) = (1..Len(s)) \cup {Len(s) + 1}  BY <1>1
<1> DEFINE t == Append(s, m)
<1>5. \A i \in 1..Len(s) : t[i] = s[i]  BY <1>2
<1>6. t[Len(s) + 1] = m  BY <1>3
<1>7. 1..Len(t) = (1..Len(s)) \cup {Len(s) + 1}  BY <1>4
<1>8. Len(s) + 1 \in 1..Len(t)  BY <1>1, <1>7
<1> HIDE DEF t
<1>9. (\E i \in 1..Len(t) : t[i] = n) <=> (\E i \in 1..Len(s) : s[i] = n) \/ n = m
  BY <1>5, <1>6, <1>7, <1>8
<1> QED  BY <1>9 DEF t

LEMMA OnTail ==
  ASSUME NEW s \in Seq(Reports), s # <<>>, NEW n
  PROVE  /\ Tail(s) \in Seq(Reports) /\ Head(s) \in Reports
         /\ \E i \in 1..Len(s) : s[i] = Head(s)
         /\ (\E i \in 1..Len(Tail(s)) : Tail(s)[i] = n) => (\E i \in 1..Len(s) : s[i] = n)
         /\ (\E i \in 1..Len(s) : s[i] = n) => (\E i \in 1..Len(Tail(s)) : Tail(s)[i] = n) \/ n = Head(s)
<1>1. /\ Tail(s) \in Seq(Reports) /\ Head(s) \in Reports
      /\ Len(s) \in Nat /\ Len(s) >= 1 /\ Len(Tail(s)) = Len(s) - 1 /\ Head(s) = s[1]
  OBVIOUS
<1>2. \A i \in 1..Len(Tail(s)) : Tail(s)[i] = s[i + 1]  OBVIOUS
<1>3. ASSUME NEW i \in 1..Len(Tail(s)), Tail(s)[i] = n PROVE \E j \in 1..Len(s) : s[j] = n
  <2>1. i + 1 \in 1..Len(s) /\ s[i + 1] = n  BY <1>1, <1>2, <1>3
  <2> QED  BY <2>1
<1>4. ASSUME NEW i \in 1..Len(s), s[i] = n
      PROVE (\E j \in 1..Len(Tail(s)) : Tail(s)[j] = n) \/ n = Head(s)
  <2>1. CASE i = 1  BY <1>1, <1>4, <2>1
  <2>2. CASE i # 1
    <3>1. i - 1 \in 1..Len(Tail(s)) /\ (i - 1) + 1 = i  BY <1>1, <2>2
    <3>2. Tail(s)[i - 1] = n  BY <1>2, <1>4, <3>1
    <3> QED  BY <3>1, <3>2
  <2> QED  BY <2>1, <2>2
<1>5. 1 \in 1..Len(s) /\ s[1] = Head(s)  BY <1>1
<1>6. \E i \in 1..Len(s) : s[i] = Head(s)  BY <1>5
<1>7. (\E i \in 1..Len(Tail(s)) : Tail(s)[i] = n) => (\E i \in 1..Len(s) : s[i] = n)  BY <1>3
<1>8. (\E i \in 1..Len(s) : s[i] = n) => (\E i \in 1..Len(Tail(s)) : Tail(s)[i] = n) \/ n = Head(s)  BY <1>4
<1>9. Tail(s) \in Seq(Reports) /\ Head(s) \in Reports  BY <1>1
<1> QED  BY <1>6, <1>7, <1>8, <1>9, Zenon

(***************************************************************************)
(* What holds of the mesh after any faults.                                *)
(***************************************************************************)
PCs == {"primary", "fallback", "ask", "assigned", "register", "announce", "report", "main", "crashed"}
Attached == {"announce", "report", "main"}

MeshTypeOK ==
  /\ pc \in [Agents -> PCs]
  /\ parentAddr \in [Agents -> Agents \cup {Server}]
  /\ \A a \in Agents : \A i \in 1..Len(fallbackAddrs[a]) : fallbackAddrs[a][i] \in Agents
  /\ fallbackAddrs = [a \in Agents |-> fallbackAddrs[a]]
  /\ upstream \in [Agents -> Conns \cup {None}]
  /\ announcing \in [Agents -> SUBSET Agents]
  /\ parent \in [Agents -> Agents \cup {None}]
  /\ online \in SUBSET Agents
  /\ wire \in [Conns -> Seq(Reports)]

\* A connection is gone, or one of an agent to a node that runs.
ConnOK(c) ==
  \/ /\ conn[c].phase = "gone" /\ conn[c].child = None /\ conn[c].to = None
     /\ conn[c].link = "cut" /\ wire[c] = <<>>
  \/ /\ conn[c].child \in Agents
     /\ conn[c].link \in {"up", "cut"}
     /\ \/ /\ conn[c].to \in Agents /\ Running(conn[c].to)
           /\ conn[c].phase \in {"hello", "insert", "serve", "remove", "report"}
        \/ conn[c].to = Server /\ conn[c].phase \in {"hello", "serve"}
     /\ conn[c].phase \in {"remove", "report"} => (conn[c].link = "cut" /\ wire[c] = <<>>)

AgentOK(x) ==
  /\ upstream[x] # None <=> pc[x] \in Attached
  /\ upstream[x] # None => conn[upstream[x]].phase = "gone" \/ conn[upstream[x]].child = x
  /\ announcing[x] # {} => pc[x] = "report"

BaseInv ==
  /\ RelayInv
  /\ MeshTypeOK
  /\ \A c \in Conns : ConnOK(c)
  /\ \A x \in Agents : AgentOK(x)

-----------------------------------------------------------------------------
(***************************************************************************)
(* What each step does, as far as the invariants can tell.                 *)
(***************************************************************************)
Sets(c, a, t, l, ph) ==
  /\ conn'[c].child = a /\ conn'[c].to = t /\ conn'[c].link = l /\ conn'[c].phase = ph
  /\ \A d \in Conns \ {c} : conn'[d] = conn[d]

\* The report m is sent upstream by a; the head of a connection's reports is taken;
\* all of them are dropped.
Sends(a, m) ==
  /\ wire' = Sent(wire, a, m)
  /\ wire' \in [Conns -> Seq(Reports)]
  /\ \A d \in Conns : \A n \in Reports :
       On(d, n)' <=> On(d, n) \/ (n = m /\ d = upstream[a] /\ conn[d].link = "up")
Takes(c, m) ==
  /\ m = Head(wire[c]) /\ m \in Reports /\ On(c, m)
  /\ wire' = [wire EXCEPT ![c] = Tail(@)]
  /\ wire' \in [Conns -> Seq(Reports)]
  /\ \A d \in Conns : \A n \in Reports :
       /\ On(d, n)' => On(d, n)
       /\ On(d, n) => On(d, n)' \/ (d = c /\ n = m)
Passes(c, u, m) ==
  /\ m = Head(wire[c]) /\ m \in Reports /\ On(c, m)
  /\ wire' = LET w == [wire EXCEPT ![c] = Tail(@)] IN [w EXCEPT ![u] = Append(@, m)]
  /\ wire' \in [Conns -> Seq(Reports)]
  /\ \A d \in Conns : \A n \in Reports :
       /\ On(d, n)' => On(d, n) \/ (d = u /\ n = m)
       /\ On(d, n) => On(d, n)' \/ (d = c /\ n = m)
       /\ d = u /\ n = m => On(d, n)'
Clears(c) ==
  /\ wire' = [wire EXCEPT ![c] = <<>>]
  /\ wire' \in [Conns -> Seq(Reports)]
  /\ \A d \in Conns : \A n \in Reports : On(d, n)' <=> On(d, n) /\ d # c

agentPart == <<pc, parentAddr, fallbackAddrs, upstream, announcing>>
serverPart == <<parent, online>>
count == <<faults, budget>>

Opens(a, t, c) ==
  /\ c \in Conns /\ conn[c].phase = "gone" /\ \A b \in Agents : upstream[b] # c
  /\ t \in Agents \cup {Server} /\ (t \in Agents => Running(t))
  /\ \/ t = parentAddr[a] /\ pc[a] \in {"primary", "assigned"}
     \/ t \in Agents /\ pc[a] = "fallback"
  /\ upstream[a] = None
  /\ Sets(c, a, t, "up", "hello")
  /\ upstream' = [upstream EXCEPT ![a] = c]
  /\ pc' = [pc EXCEPT ![a] = "announce"]
  /\ UNCHANGED <<parentAddr, fallbackAddrs, announcing, downstreams, wire, serverPart, count, races>>

Moves(a, l) ==
  /\ \/ pc[a] = "primary" /\ l = "fallback" /\ parentAddr[a] # Server
     \/ pc[a] = "fallback" /\ l = "ask"
     \/ pc[a] = "assigned" /\ l = "register" /\ parentAddr[a] # Server
  /\ pc' = [pc EXCEPT ![a] = l]
  /\ UNCHANGED <<parentAddr, fallbackAddrs, upstream, announcing, downstreams, conn, wire, serverPart, count, races>>

TakesParent(a, p, l) ==
  /\ \/ pc[a] = "ask" /\ l = "assigned"
     \/ pc[a] = "register" /\ l = "primary"
  /\ p \in Agents \cup {Server}
  /\ pc' = [pc EXCEPT ![a] = l]
  /\ parentAddr' = [parentAddr EXCEPT ![a] = p]
  /\ parent' = [parent EXCEPT ![a] = IF p = Server THEN None ELSE p]
  /\ fallbackAddrs' = [b \in Agents |-> fallbackAddrs'[b]]
  /\ \A b \in Agents : \A i \in 1..Len(fallbackAddrs'[b]) : fallbackAddrs'[b][i] \in Agents
  /\ online \subseteq online' /\ online' \subseteq online \cup {a}
  /\ UNCHANGED <<upstream, announcing, downstreams, conn, wire, count, races>>

Announces(a) ==
  /\ pc[a] = "announce" /\ pc' = [pc EXCEPT ![a] = "report"]
  /\ announcing' = [announcing EXCEPT ![a] = {x \in Agents : downstreams[a][x] # None}]
  /\ races \subseteq races'
  /\ races' = {} => \A c \in Conns : ~(conn[c].to = a /\ conn[c].phase = "insert")
  /\ UNCHANGED <<parentAddr, fallbackAddrs, upstream, downstreams, conn, wire, serverPart, count>>

Notifies(a, x) ==
  /\ pc[a] = "report" /\ x \in announcing[a]
  /\ announcing' = [announcing EXCEPT ![a] = @ \ {x}]
  /\ Sends(a, Attach(x, a))
  /\ UNCHANGED <<pc, parentAddr, fallbackAddrs, upstream, downstreams, conn, serverPart, count, races>>

Finishes(a) ==
  /\ pc[a] = "report" /\ announcing[a] = {} /\ pc' = [pc EXCEPT ![a] = "main"]
  /\ UNCHANGED <<parentAddr, fallbackAddrs, upstream, announcing, downstreams, conn, wire, serverPart, count, races>>

Loses(a) ==
  /\ pc[a] = "main" /\ conn[upstream[a]].link = "cut"
  /\ races \subseteq races'
  /\ races' = {} => conn[upstream[a]].phase = "gone" /\ ~InFlight(a)
  /\ pc' = [pc EXCEPT ![a] = "primary"]
  /\ upstream' = [upstream EXCEPT ![a] = None]
  /\ UNCHANGED <<parentAddr, fallbackAddrs, announcing, downstreams, conn, wire, serverPart, count>>

Restarts(a) ==
  /\ pc[a] = "crashed" /\ pc' = [pc EXCEPT ![a] = "register"]
  /\ races \subseteq races'
  /\ races' = {} => ~InFlight(a) /\ \A c \in Conns : conn[c].child # a
  /\ UNCHANGED <<parentAddr, fallbackAddrs, upstream, announcing, downstreams, conn, wire, serverPart, faults>>

Accepts(c) ==
  /\ conn[c].to = Server /\ conn[c].phase = "hello"
  /\ Sets(c, conn[c].child, Server, conn[c].link, "serve")
  /\ online' = online \cup {conn[c].child}
  /\ UNCHANGED <<agentPart, downstreams, wire, parent, count, races>>

\* What the server makes of the report m: it records it, or refuses it.
Records(c, m) ==
  /\ conn[c].to = Server /\ conn[c].phase = "serve"
  /\ Takes(c, m)
  /\ m.t = "connected" /\ OriginAllows(conn[c].child, m.p)
  /\ parent' = IF m.a \in Above(m.p) THEN parent ELSE [parent EXCEPT ![m.a] = m.p]
  /\ online' = online \cup Below(m.a)
  /\ races \subseteq races'
  /\ races' = {} => ~News(m) \/ m.a \notin Above(m.p)
  /\ UNCHANGED <<agentPart, downstreams, conn, count>>

Discounts(c, m) ==
  /\ conn[c].to = Server /\ conn[c].phase = "serve"
  /\ Takes(c, m)
  /\ m.t = "disconnected" /\ OriginAllows(conn[c].child, m.a)
  /\ online' = online \ Below(m.a)
  /\ races \subseteq races'
  /\ UNCHANGED <<agentPart, downstreams, conn, parent, count>>

Refuses(c, m) ==
  /\ conn[c].to = Server /\ conn[c].phase = "serve"
  /\ Takes(c, m)
  /\ ~OriginAllows(conn[c].child, IF m.t = "connected" THEN m.p ELSE m.a)
  /\ races \subseteq races'
  /\ races' = {} => ~News(m)
  /\ UNCHANGED <<agentPart, downstreams, conn, serverPart, count>>

\* No report of a move below its peer goes with connection c.
KeepsNews(c) == \A m \in Reports : On(c, m) /\ News(m) => m.p = conn[c].child

Closes(c) ==
  /\ conn[c].to = Server /\ conn[c].phase = "serve" /\ conn[c].link = "cut"
  /\ Sets(c, None, None, "cut", "gone")
  /\ online' = online \/ online' = online \ Below(conn[c].child)
  /\ conn[c].reassigned # "yes" => online' = online \ Below(conn[c].child)
  /\ Clears(c)
  /\ races \subseteq races'
  /\ races' = {} => KeepsNews(c)
  /\ UNCHANGED <<agentPart, downstreams, parent, count>>

Hellos(p, c) ==
  /\ Serves(p, c, "hello")
  /\ Sets(c, conn[c].child, p, conn[c].link, "insert")
  /\ Sends(p, Attach(conn[c].child, p))
  /\ UNCHANGED <<agentPart, downstreams, serverPart, count, races>>

Inserts(p, c) ==
  /\ Serves(p, c, "insert")
  /\ Sets(c, conn[c].child, p, conn[c].link, "serve")
  /\ downstreams' = [downstreams EXCEPT ![p][conn[c].child] = c]
  /\ UNCHANGED <<agentPart, wire, serverPart, count, races>>

Forwards(p, c, m) ==
  /\ Serves(p, c, "serve")
  /\ upstream[p] \in Conns /\ conn[upstream[p]].link = "up"
  /\ Passes(c, upstream[p], m)
  /\ UNCHANGED <<agentPart, downstreams, conn, serverPart, count, races>>

\* The upstream is cut, and what was received is lost there.
Misses(p, c, m) ==
  /\ Serves(p, c, "serve")
  /\ upstream[p] \in Conns /\ conn[upstream[p]].link = "cut"
  /\ Takes(c, m)
  /\ races \subseteq races'
  /\ races' = {} => ~News(m)
  /\ UNCHANGED <<agentPart, downstreams, conn, serverPart, count>>

\* The handler ends.
Drops(p, c) ==
  /\ Serves(p, c, "serve")
  /\ conn[c].link = "cut" \/ upstream[p] = None \/ conn[upstream[p]].link = "cut"
  /\ Sets(c, conn[c].child, p, "cut", "remove")
  /\ Clears(c)
  /\ races \subseteq races'
  /\ races' = {} => KeepsNews(c)
  /\ UNCHANGED <<agentPart, downstreams, serverPart, count>>

TakesOut(p, c) ==
  /\ Serves(p, c, "remove")
  /\ Sets(c, conn[c].child, p, conn[c].link, "report")
  /\ downstreams' = [downstreams EXCEPT ![p][conn[c].child] = None]
  /\ UNCHANGED <<agentPart, wire, serverPart, count, races>>

TellsLoss(p, c) ==
  /\ Serves(p, c, "report")
  /\ Sets(c, None, None, "cut", "gone")
  /\ Sends(p, Detach(conn[c].child))
  /\ UNCHANGED <<agentPart, downstreams, serverPart, count, races>>

\* A link is cut, by a fault or because its agent is told to move.
Cuts(c) ==
  /\ c \in Conns /\ conn[c].link = "up"
  /\ Sets(c, conn[c].child, conn[c].to, "cut", conn[c].phase)
  /\ \/ parentAddr' = parentAddr
     \/ \E a, p \in Agents : parentAddr' = [parentAddr EXCEPT ![a] = p] /\ pc[a] = "main" /\ upstream[a] = c
  /\ fallbackAddrs' = [b \in Agents |-> fallbackAddrs'[b]]
  /\ \A b \in Agents : \A i \in 1..Len(fallbackAddrs'[b]) : fallbackAddrs'[b][i] \in Agents
  /\ faults' = faults + 1
  /\ UNCHANGED <<pc, upstream, announcing, downstreams, wire, serverPart, races>>

Crashes(a) ==
  /\ Running(a)
  /\ pc' = [pc EXCEPT ![a] = "crashed"]
  /\ upstream' = [upstream EXCEPT ![a] = None]
  /\ announcing' = [announcing EXCEPT ![a] = {}]
  /\ downstreams' = [downstreams EXCEPT ![a] = [x \in Agents |-> None]]
  /\ \A c \in Conns :
       IF conn[c].to = a
       THEN conn'[c].child = None /\ conn'[c].to = None /\ conn'[c].link = "cut" /\ conn'[c].phase = "gone"
       ELSE /\ conn'[c].child = conn[c].child /\ conn'[c].to = conn[c].to /\ conn'[c].phase = conn[c].phase
            /\ conn'[c].link = IF conn[c].child = a THEN "cut" ELSE conn[c].link
  /\ wire' = [c \in Conns |-> IF conn[c].to = a THEN <<>> ELSE wire[c]]
  /\ wire' \in [Conns -> Seq(Reports)]
  /\ \A d \in Conns : \A n \in Reports : On(d, n)' <=> On(d, n) /\ conn[d].to # a
  /\ races \subseteq races'
  /\ races' = {} => \A c \in Conns : conn[c].to = a => KeepsNews(c)
  /\ faults' = faults + 1
  /\ UNCHANGED <<parentAddr, fallbackAddrs, serverPart>>

AgentEffect(a) ==
  \/ \E t \in Agents \cup {Server} : \E c \in Conns : Opens(a, t, c)
  \/ \E l \in PCs : Moves(a, l)
  \/ \E p \in Agents \cup {Server} : \E l \in PCs : TakesParent(a, p, l)
  \/ Announces(a) \/ Finishes(a) \/ Loses(a) \/ Restarts(a)
  \/ \E x \in Agents : Notifies(a, x)

ServerEffect(c) ==
  \/ Accepts(c) \/ Closes(c)
  \/ \E m \in Reports : Records(c, m) \/ Discounts(c, m) \/ Refuses(c, m)

RelayEffect(p, c) ==
  \/ Hellos(p, c) \/ Inserts(p, c) \/ Drops(p, c) \/ TakesOut(p, c) \/ TellsLoss(p, c)
  \/ \E m \in Reports : Forwards(p, c, m) \/ Misses(p, c, m)

Effect ==
  \/ \E a \in Agents : AgentEffect(a) \/ Crashes(a)
  \/ \E c \in Conns : ServerEffect(c) \/ Cuts(c) \/ \E p \in Agents : RelayEffect(p, c)

Stutters == UNCHANGED <<agentPart, downstreams, conn, wire, serverPart, count, races>>

\* Connections by their fields.
LEMMA SetsOne ==
  ASSUME ConnsAreConnections, NEW c \in Conns, NEW a, NEW t, NEW l, NEW ph, NEW r,
         conn' = [conn EXCEPT ![c] = Connection(a, t, l, ph, r)]
  PROVE  Sets(c, a, t, l, ph)
<1> DEFINE new == Connection(a, t, l, ph, r)
<1>1. IsConnection(new) /\ new.child = a /\ new.to = t /\ new.link = l /\ new.phase = ph  BY Fields
<1>2. conn' = [conn EXCEPT ![c] = new]  OBVIOUS
<1> HIDE DEF new
<1> QED  BY <1>1, <1>2, ConnSet DEF Sets

LEMMA SetsPhase ==
  ASSUME ConnsAreConnections, NEW c \in Conns, NEW ph, Phase(c, ph)
  PROVE  Sets(c, conn[c].child, conn[c].to, conn[c].link, ph)
<1>1. conn' = [conn EXCEPT ![c] = Connection(conn[c].child, conn[c].to, conn[c].link, ph, conn[c].reassigned)]
  BY DEF Phase
<1> QED  BY <1>1, SetsOne

LEMMA SetsClosed ==
  ASSUME ConnsAreConnections, NEW c \in Conns, conn' = [conn EXCEPT ![c] = Closed]
  PROVE  Sets(c, None, None, "cut", "gone")
BY SetsOne DEF Closed

LEMMA ClosedFields ==
  ASSUME NEW c \in Conns, conn[c] = Closed
  PROVE  conn[c].phase = "gone" /\ conn[c].child = None /\ conn[c].to = None /\ conn[c].link = "cut"
BY Fields DEF Closed

\* Reports.
LEMMA SendsOne ==
  ASSUME MeshTypeOK, \A c \in Conns : conn[c].link \in {"up", "cut"},
         NEW a \in Agents, NEW m \in Reports, wire' = Sent(wire, a, m)
  PROVE  Sends(a, m)
<1>1. CASE upstream[a] = None \/ conn[upstream[a]].link = "cut"
  <2>1. wire' = wire  BY <1>1 DEF Sent
  <2>2. ASSUME NEW d \in Conns PROVE ~(d = upstream[a] /\ conn[d].link = "up")
    BY <1>1, NodesAssumption
  <2> QED  BY <2>1, <2>2 DEF Sends, On, MeshTypeOK
<1>2. CASE upstream[a] # None /\ conn[upstream[a]].link # "cut"
  <2>1. upstream[a] \in Conns /\ conn[upstream[a]].link = "up"  BY <1>2 DEF MeshTypeOK
  <2>2. wire' = [wire EXCEPT ![upstream[a]] = Append(@, m)]  BY <1>2 DEF Sent
  <2>3. wire \in [Conns -> Seq(Reports)]  BY DEF MeshTypeOK
  <2>4. wire' \in [Conns -> Seq(Reports)]  BY <2>1, <2>2, <2>3
  <2>5. ASSUME NEW d \in Conns, NEW n \in Reports
        PROVE  On(d, n)' <=> On(d, n) \/ (n = m /\ d = upstream[a] /\ conn[d].link = "up")
    <3>1. CASE d = upstream[a]
      <4>1. wire'[d] = Append(wire[d], m)  BY <2>1, <2>2, <2>3, <3>1
      <4>2. wire[d] \in Seq(Reports)  BY <2>3
      <4> QED  BY <2>1, <3>1, <4>1, <4>2, OnAppend DEF On
    <3>2. CASE d # upstream[a]
      <4>1. wire'[d] = wire[d]  BY <2>2, <2>3, <3>2
      <4> QED  BY <3>2, <4>1 DEF On
    <3> QED  BY <3>1, <3>2
  <2> QED  BY <2>4, <2>5 DEF Sends
<1> QED  BY <1>1, <1>2

LEMMA TakesOne ==
  ASSUME MeshTypeOK, NEW c \in Conns, wire[c] # <<>>, wire' = [wire EXCEPT ![c] = Tail(@)]
  PROVE  Takes(c, Head(wire[c]))
<1>1. wire \in [Conns -> Seq(Reports)]  BY DEF MeshTypeOK
<1>2. /\ Tail(wire[c]) \in Seq(Reports) /\ Head(wire[c]) \in Reports
      /\ \E i \in 1..Len(wire[c]) : wire[c][i] = Head(wire[c])
  BY <1>1, OnTail
<1>3. wire' \in [Conns -> Seq(Reports)]  BY <1>1, <1>2
<1>6. wire[c] \in Seq(Reports)  BY <1>1
<1>7. \A n : /\ (\E i \in 1..Len(Tail(wire[c])) : Tail(wire[c])[i] = n) => (\E i \in 1..Len(wire[c]) : wire[c][i] = n)
             /\ (\E i \in 1..Len(wire[c]) : wire[c][i] = n) => (\E i \in 1..Len(Tail(wire[c])) : Tail(wire[c])[i] = n) \/ n = Head(wire[c])
  BY <1>6, OnTail
<1>4. ASSUME NEW d \in Conns, NEW n \in Reports
      PROVE  /\ On(d, n)' => On(d, n)
             /\ On(d, n) => On(d, n)' \/ (d = c /\ n = Head(wire[c]))
  <2>1. CASE d = c
    <3>1. wire'[d] = Tail(wire[c])  BY <1>1, <2>1
    <3> QED  BY <1>7, <2>1, <3>1 DEF On
  <2>2. CASE d # c
    <3>1. wire'[d] = wire[d]  BY <1>1, <2>2
    <3> QED  BY <2>2, <3>1 DEF On
  <2> QED  BY <2>1, <2>2
<1>5. On(c, Head(wire[c]))  BY <1>2 DEF On
<1> QED  BY <1>2, <1>3, <1>4, <1>5 DEF Takes

LEMMA PassesOne ==
  ASSUME MeshTypeOK, NEW c \in Conns, NEW u \in Conns, wire[c] # <<>>,
         wire' = LET w == [wire EXCEPT ![c] = Tail(@)] IN [w EXCEPT ![u] = Append(@, Head(wire[c]))]
  PROVE  Passes(c, u, Head(wire[c]))
<1> DEFINE w == [wire EXCEPT ![c] = Tail(@)]
           m == Head(wire[c])
<1>1. wire \in [Conns -> Seq(Reports)]  BY DEF MeshTypeOK
<1>2. wire[c] \in Seq(Reports)  BY <1>1
<1>3. /\ Tail(wire[c]) \in Seq(Reports) /\ m \in Reports
      /\ \E i \in 1..Len(wire[c]) : wire[c][i] = m
  BY <1>2, OnTail
<1>4. w \in [Conns -> Seq(Reports)]  BY <1>1, <1>3
<1>5. w[u] \in Seq(Reports)  BY <1>4
<1>6. wire' = [w EXCEPT ![u] = Append(w[u], m)]  OBVIOUS
<1>7. \A d \in Conns : w[d] = IF d = c THEN Tail(wire[c]) ELSE wire[d]  BY <1>1
<1>9. wire' = LET v == [wire EXCEPT ![c] = Tail(@)] IN [v EXCEPT ![u] = Append(@, m)]  OBVIOUS
<1>0. m = Head(wire[c])  OBVIOUS
<1>16. m \in Reports  BY <1>3
<1>17. \A n : /\ (\E i \in 1..Len(Tail(wire[c])) : Tail(wire[c])[i] = n) => (\E i \in 1..Len(wire[c]) : wire[c][i] = n)
              /\ (\E i \in 1..Len(wire[c]) : wire[c][i] = n) => (\E i \in 1..Len(Tail(wire[c])) : Tail(wire[c])[i] = n) \/ n = m
  BY <1>2, OnTail
<1> HIDE DEF w, m
<1>8. ASSUME NEW d \in Conns, NEW n \in Reports
      PROVE  /\ (\E i \in 1..Len(w[d]) : w[d][i] = n) => On(d, n)
             /\ On(d, n) => (\E i \in 1..Len(w[d]) : w[d][i] = n) \/ (d = c /\ n = m)
  <2>1. CASE d = c
    <3>1. w[d] = Tail(wire[c])  BY <1>7, <2>1
    <3> QED  BY <1>17, <2>1, <3>1 DEF On
  <2>2. CASE d # c
    <3>1. w[d] = wire[d]  BY <1>7, <2>2
    <3> QED  BY <2>2, <3>1 DEF On
  <2> QED  BY <2>1, <2>2
<1>10. wire' \in [Conns -> Seq(Reports)]
  <2>1. Append(w[u], m) \in Seq(Reports)  BY <1>5, <1>16
  <2> QED  BY <1>4, <1>6, <2>1
<1>11. \A d \in Conns : wire'[d] = IF d = u THEN Append(w[u], m) ELSE w[d]  BY <1>4, <1>6
<1>12. ASSUME NEW d \in Conns, NEW n \in Reports
       PROVE  On(d, n)' <=> (\E i \in 1..Len(w[d]) : w[d][i] = n) \/ (d = u /\ n = m)
  <2>1. CASE d = u
    <3>1. wire'[d] = Append(w[u], m)  BY <1>11, <2>1
    <3>2. (\E i \in 1..Len(Append(w[u], m)) : Append(w[u], m)[i] = n) <=> (\E i \in 1..Len(w[u]) : w[u][i] = n) \/ n = m
      BY <1>5, <1>16, OnAppend
    <3> QED  BY <2>1, <3>1, <3>2 DEF On
  <2>2. CASE d # u
    <3>1. wire'[d] = w[d]  BY <1>11, <2>2
    <3> QED  BY <2>2, <3>1 DEF On
  <2> QED  BY <2>1, <2>2
<1>13. On(c, m)  BY <1>3, <1>0 DEF On
<1>15. \A d \in Conns : \A n \in Reports :
       /\ On(d, n)' => On(d, n) \/ (d = u /\ n = m)
       /\ On(d, n) => On(d, n)' \/ (d = c /\ n = m)
       /\ d = u /\ n = m => On(d, n)'
  BY <1>8, <1>12
<1>18. Passes(c, u, m)  BY <1>0, <1>9, <1>10, <1>13, <1>15, <1>16 DEF Passes
<1> QED  BY <1>0, <1>18

LEMMA ClearsOne ==
  ASSUME MeshTypeOK, NEW c \in Conns, wire' = [wire EXCEPT ![c] = <<>>]
  PROVE  Clears(c)
<1>1. wire \in [Conns -> Seq(Reports)]  BY DEF MeshTypeOK
<1>2. wire' \in [Conns -> Seq(Reports)]  BY <1>1
<1>3. \A d \in Conns : wire'[d] = IF d = c THEN <<>> ELSE wire[d]  BY <1>1
<1>4. ASSUME NEW d \in Conns, NEW n \in Reports PROVE On(d, n)' <=> On(d, n) /\ d # c
  BY <1>3 DEF On
<1> QED  BY <1>2, <1>4 DEF Clears

LEMMA KeepsNewsOne ==
  ASSUME MeshTypeOK, NEW c \in Conns, ~LosesNews(c)
  PROVE  KeepsNews(c)
BY DEF LosesNews, KeepsNews, On

LEMMA LostGrows ==
  ASSUME NEW l, Lost(l) PROVE races \subseteq races' /\ (races' = {} => ~l)
BY DEF Lost

LEMMA LinkIs == ASSUME BaseInv, NEW c \in Conns PROVE conn[c].link \in {"up", "cut"}
BY DEF BaseInv, ConnOK

\* Every connection's peer and end, by its phase.
LEMMA ConnIs ==
  ASSUME BaseInv, NEW c \in Conns, conn[c].phase # "gone"
  PROVE  /\ conn[c].child \in Agents
         /\ conn[c].to \in Agents \cup {Server}
BY DEF BaseInv, ConnOK

LEMMA OpensOne ==
  ASSUME BaseInv, NEW a \in Agents, NEW t \in Agents \cup {Server}, Open(a, t),
         \/ t = parentAddr[a] /\ pc[a] \in {"primary", "assigned"}
         \/ t \in Agents /\ pc[a] = "fallback",
         UNCHANGED <<parentAddr, fallbackAddrs, announcing, downstreams, wire, parent, online, faults, budget, races>>
  PROVE  \E c \in Conns : Opens(a, t, c)
<1> DEFINE free == {c \in Conns : conn[c] = Closed /\ \A b \in Agents : upstream[b] # c}
           x == CHOOSE c \in free : TRUE
<1>1. x \in free /\ conn' = [conn EXCEPT ![x] = Opened(a, t)] /\ upstream' = [upstream EXCEPT ![a] = x]
  BY DEF Open
<1>2. x \in Conns /\ conn[x] = Closed /\ \A b \in Agents : upstream[b] # x  BY <1>1
<1> HIDE DEF x
<1>3. conn[x].phase = "gone"  BY <1>2, ClosedFields
<1>4. Sets(x, a, t, "up", "hello")
  BY <1>1, <1>2, SetsOne DEF BaseInv, RelayInv, Opened
<1>5. upstream[a] = None
  BY DEF BaseInv, AgentOK, MeshTypeOK, Attached
<1>6. t \in Agents => Running(t)
  BY NodesAssumption DEF Open, Fails
<1>7. pc' = [pc EXCEPT ![a] = "announce"]  BY DEF Open
<1> QED  BY <1>1, <1>2, <1>3, <1>4, <1>5, <1>6, <1>7 DEF Opens, serverPart, count

LEMMA AgentEffects ==
  ASSUME BaseInv, NEW a \in Agents, AgentStep(a)
  PROVE  AgentEffect(a)
<1>1. CASE ConnectUpstream(a)
  <2>1. /\ pc[a] = "primary"
        /\ UNCHANGED <<parentAddr, fallbackAddrs, announcing, downstreams, wire, parent, online, faults, budget, races>>
    BY <1>1 DEF ConnectUpstream, serverVars, env
  <2>2. parentAddr[a] \in Agents \cup {Server}  BY DEF BaseInv, MeshTypeOK
  <2>3. CASE Open(a, parentAddr[a])
    BY <2>1, <2>2, <2>3, OpensOne DEF AgentEffect
  <2>4. CASE Fails(parentAddr[a]) /\ Goto(a, "fallback") /\ UNCHANGED <<conn, upstream>>
    <3>1. Moves(a, "fallback")
      BY <2>1, <2>4 DEF Moves, Fails, Goto, serverPart, count
    <3> QED  BY <3>1 DEF AgentEffect, PCs
  <2> QED  BY <1>1, <2>3, <2>4 DEF ConnectUpstream
<1>2. CASE ConnectFallback(a)
  <2>1. /\ pc[a] = "fallback"
        /\ UNCHANGED <<parentAddr, fallbackAddrs, announcing, downstreams, wire, parent, online, faults, budget, races>>
    BY <1>2 DEF ConnectFallback, serverVars, env
  <2>2. ASSUME NEW i \in 1..Len(fallbackAddrs[a]), Open(a, fallbackAddrs[a][i]) PROVE AgentEffect(a)
    <3>1. fallbackAddrs[a][i] \in Agents  BY DEF BaseInv, MeshTypeOK
    <3> QED  BY <2>1, <2>2, <3>1, OpensOne DEF AgentEffect
  <2>3. CASE Goto(a, "ask") /\ UNCHANGED <<conn, upstream>>
    <3>1. Moves(a, "ask")
      BY <2>1, <2>3 DEF Moves, Goto, serverPart, count
    <3> QED  BY <3>1 DEF AgentEffect, PCs
  <2> QED  BY <1>2, <2>2, <2>3 DEF ConnectFallback
<1> USE NodesAssumption
<1>3. ASSUME NEW p \in Agents, NEW l, TakeParent(a, p)
      PROVE  /\ parentAddr' = [parentAddr EXCEPT ![a] = p]
             /\ parent' = [parent EXCEPT ![a] = IF p = Server THEN None ELSE p]
             /\ fallbackAddrs' = [b \in Agents |-> fallbackAddrs'[b]]
             /\ \A b \in Agents : \A i \in 1..Len(fallbackAddrs'[b]) : fallbackAddrs'[b][i] \in Agents
  <2>1. PICK f \in FallbackParents(p) : fallbackAddrs' = [fallbackAddrs EXCEPT ![a] = f]
    BY <1>3 DEF TakeParent
  <2>2. \A i \in 1..Len(f) : f[i] \in Agents
    <3> DEFINE cands == WithRoom \ {p}
               k == IF Cardinality(cands) < 2 THEN Cardinality(cands) ELSE 2
    <3>1. f \in [1..k -> cands]  BY <2>1 DEF FallbackParents, BestTwo
    <3>2. cands \subseteq Agents  BY DEF WithRoom, BaseInv, MeshTypeOK
    <3>3. Cardinality(cands) \in Nat  BY <3>2, FS_Subset, FS_CardinalityType
    <3>4. k \in Nat  BY <3>3
    <3> HIDE DEF k, cands
    <3> QED  BY <3>1, <3>2, <3>4
  <2>3. fallbackAddrs' = [b \in Agents |-> IF b = a THEN f ELSE fallbackAddrs[b]]
    BY <2>1 DEF BaseInv, MeshTypeOK
  <2>4. fallbackAddrs' = [b \in Agents |-> fallbackAddrs'[b]]  BY <2>3
  <2>5. \A b \in Agents : \A i \in 1..Len(fallbackAddrs'[b]) : fallbackAddrs'[b][i] \in Agents
    <3> SUFFICES ASSUME NEW b \in Agents, NEW i \in 1..Len(fallbackAddrs'[b]) PROVE fallbackAddrs'[b][i] \in Agents
      OBVIOUS
    <3>1. fallbackAddrs'[b] = IF b = a THEN f ELSE fallbackAddrs[b]  BY <2>3
    <3> QED  BY <2>2, <3>1 DEF BaseInv, MeshTypeOK
  <2>6. parentAddr' = [parentAddr EXCEPT ![a] = p] /\ parent' = [parent EXCEPT ![a] = IF p = Server THEN None ELSE p]
    BY <1>3 DEF TakeParent
  <2> QED  BY <2>4, <2>5, <2>6
<1>4. ASSUME TakePromotion(a)
      PROVE  /\ parentAddr' = [parentAddr EXCEPT ![a] = Server]
             /\ parent' = [parent EXCEPT ![a] = None]
             /\ fallbackAddrs' = [b \in Agents |-> fallbackAddrs'[b]]
             /\ \A b \in Agents : \A i \in 1..Len(fallbackAddrs'[b]) : fallbackAddrs'[b][i] \in Agents
  <2>1. fallbackAddrs' = [b \in Agents |-> IF b = a THEN <<>> ELSE fallbackAddrs[b]]
    BY <1>4 DEF TakePromotion, BaseInv, MeshTypeOK
  <2>2. fallbackAddrs' = [b \in Agents |-> fallbackAddrs'[b]]  BY <2>1
  <2>3. \A b \in Agents : \A i \in 1..Len(fallbackAddrs'[b]) : fallbackAddrs'[b][i] \in Agents
    <3> SUFFICES ASSUME NEW b \in Agents, NEW i \in 1..Len(fallbackAddrs'[b]) PROVE fallbackAddrs'[b][i] \in Agents
      OBVIOUS
    <3>1. fallbackAddrs'[b] = IF b = a THEN <<>> ELSE fallbackAddrs[b]  BY <2>1
    <3> QED  BY <3>1 DEF BaseInv, MeshTypeOK
  <2> QED  BY <1>4, <2>2, <2>3 DEF TakePromotion
<1>5. CASE RequestNewParent(a)
  <2>1. /\ pc[a] = "ask" /\ pc' = [pc EXCEPT ![a] = "assigned"]
        /\ UNCHANGED <<upstream, announcing, downstreams, conn, wire, online, faults, budget, races>>
    BY <1>5 DEF RequestNewParent, Goto, env
  <2>2. ASSUME NEW p \in Agents, TakeParent(a, p) PROVE AgentEffect(a)
    <3>1. TakesParent(a, p, "assigned")  BY <1>3, <2>1, <2>2 DEF TakesParent, count
    <3> QED  BY <3>1 DEF AgentEffect, PCs
  <2>3. CASE TakePromotion(a)
    <3>1. TakesParent(a, Server, "assigned")  BY <1>4, <2>1, <2>3 DEF TakesParent, count
    <3> QED  BY <3>1 DEF AgentEffect, PCs
  <2>4. ShallowestParents \subseteq Agents  BY DEF ShallowestParents, WithRoom, BaseInv, MeshTypeOK
  <2> QED  BY <1>5, <2>2, <2>3, <2>4 DEF RequestNewParent
<1>6. CASE ConnectAssigned(a)
  <2>1. /\ pc[a] = "assigned"
        /\ UNCHANGED <<parentAddr, fallbackAddrs, announcing, downstreams, wire, parent, online, faults, budget, races>>
    BY <1>6 DEF ConnectAssigned, serverVars, env
  <2>2. parentAddr[a] \in Agents \cup {Server}  BY DEF BaseInv, MeshTypeOK
  <2>3. CASE Open(a, parentAddr[a])
    BY <2>1, <2>2, <2>3, OpensOne DEF AgentEffect
  <2>4. CASE Fails(parentAddr[a]) /\ Goto(a, "register") /\ UNCHANGED <<conn, upstream>>
    <3>1. Moves(a, "register")
      BY <2>1, <2>4 DEF Moves, Fails, Goto, serverPart, count
    <3> QED  BY <3>1 DEF AgentEffect, PCs
  <2> QED  BY <1>6, <2>3, <2>4 DEF ConnectAssigned
<1>7. CASE Register(a)
  <2> DEFINE room == {x \in online \cup {a} : Load(x) < maxChildren}
             best == {x \in room : \A y \in room : ~BetterParent(y, x)}
  <2>1. /\ pc[a] = "register" /\ pc' = [pc EXCEPT ![a] = "primary"]
        /\ online' = online \cup {a}
        /\ IF best = {} THEN TakePromotion(a) ELSE \E p \in best : TakeParent(a, p)
        /\ UNCHANGED <<upstream, announcing, downstreams, conn, wire, faults, budget, races>>
    BY <1>7 DEF Register, Goto, env
  <2>2. ASSUME NEW p \in Agents, TakeParent(a, p) PROVE AgentEffect(a)
    <3>1. TakesParent(a, p, "primary")  BY <1>3, <2>1, <2>2 DEF TakesParent, count
    <3> QED  BY <3>1 DEF AgentEffect, PCs
  <2>3. CASE TakePromotion(a)
    <3>1. TakesParent(a, Server, "primary")  BY <1>4, <2>1, <2>3 DEF TakesParent, count
    <3> QED  BY <3>1 DEF AgentEffect, PCs
  <2>4. best \subseteq Agents  BY DEF BaseInv, MeshTypeOK
  <2> HIDE DEF best
  <2> QED  BY <2>1, <2>2, <2>3, <2>4
<1>8. CASE Reannounce(a)
  <2>1. Announces(a)
    BY <1>8 DEF Reannounce, Announces, Goto, serverVars, serverPart, count
  <2> QED  BY <2>1 DEF AgentEffect
<1>9. CASE NotifyAnnounced(a)
  <2>1. /\ pc[a] = "report"
        /\ UNCHANGED <<parentAddr, fallbackAddrs, upstream, downstreams, conn, parent, online, faults, budget, races>>
    BY <1>9 DEF NotifyAnnounced, serverVars, env
  <2>2. ASSUME NEW x \in announcing[a], wire' = Sent(wire, a, Report("connected", x, a)), UNCHANGED pc,
               announcing' = [announcing EXCEPT ![a] = @ \ {x}]
        PROVE  AgentEffect(a)
    <3>1. x \in Agents  BY DEF BaseInv, MeshTypeOK
    <3>2. Sends(a, Attach(x, a))
      BY <2>2, <3>1, SendsOne, LinkIs, ReportFields DEF BaseInv, Attach
    <3>3. Notifies(a, x)  BY <2>1, <2>2, <3>2 DEF Notifies, serverPart, count
    <3> QED  BY <3>1, <3>3 DEF AgentEffect
  <2>3. ASSUME announcing[a] = {}, Goto(a, "main"), UNCHANGED <<wire, announcing>> PROVE AgentEffect(a)
    <3>1. Finishes(a)  BY <2>1, <2>3 DEF Finishes, Goto, serverPart, count
    <3> QED  BY <3>1 DEF AgentEffect
  <2> QED  BY <1>9, <2>2, <2>3 DEF NotifyAnnounced
<1>10. CASE LoseUpstream(a)
  <2>1. upstream[a] \in Conns
    BY <1>10 DEF LoseUpstream, BaseInv, AgentOK, MeshTypeOK, Attached
  <2>2. races' = {} => conn[upstream[a]] = Closed /\ ~InFlight(a)
    BY <1>10 DEF LoseUpstream
  <2>3. races' = {} => conn[upstream[a]].phase = "gone" /\ ~InFlight(a)
    BY <2>1, <2>2, ClosedFields
  <2>4. /\ pc[a] = "main" /\ conn[upstream[a]].link = "cut" /\ races \subseteq races'
        /\ upstream' = [upstream EXCEPT ![a] = None] /\ pc' = [pc EXCEPT ![a] = "primary"]
        /\ UNCHANGED <<parentAddr, fallbackAddrs, announcing, downstreams, conn, wire, parent, online, faults, budget>>
    BY <1>10 DEF LoseUpstream, Goto, serverVars
  <2>5. Loses(a)  BY <2>3, <2>4 DEF Loses, serverPart, count
  <2> QED  BY <2>5 DEF AgentEffect
<1>11. CASE Restart(a)
  <2>1. Restarts(a)
    BY <1>11 DEF Restart, MayRestart, Running, Restarts, Goto, serverVars, serverPart
  <2> QED  BY <2>1 DEF AgentEffect
<1> QED  BY <1>1, <1>2, <1>5, <1>6, <1>7, <1>8, <1>9, <1>10, <1>11 DEF AgentStep

LEMMA ServerEffects ==
  ASSUME BaseInv, NEW c \in Conns, ServerAccept(c) \/ ServerReceive(c) \/ ServerClose(c)
  PROVE  ServerEffect(c)
<1>0. ConnsAreConnections /\ MeshTypeOK  BY DEF BaseInv, RelayInv
<1>1. CASE ServerAccept(c)
  <2>1. Phase(c, "serve") /\ conn[c].to = Server  BY <1>1 DEF ServerAccept
  <2>2. Sets(c, conn[c].child, conn[c].to, conn[c].link, "serve")  BY <1>0, <2>1, SetsPhase
  <2>3. Accepts(c)
    BY <1>1, <2>1, <2>2 DEF ServerAccept, Accepts, agentPart, agentVars, env, count
  <2> QED  BY <2>3 DEF ServerEffect
<1>2. CASE ServerReceive(c)
  <2> DEFINE m == Head(wire[c])
             origin == conn[c].child
  <2>1. /\ conn[c].to = Server /\ conn[c].phase = "serve"
        /\ wire[c] # <<>> /\ wire' = [wire EXCEPT ![c] = Tail(@)]
        /\ \/ m.t = "connected" /\ PeerConnected(origin, m.a, m.p)
           \/ m.t = "disconnected" /\ PeerDisconnected(origin, m.a)
           \/ /\ ~OriginAllows(origin, IF m.t = "connected" THEN m.p ELSE m.a)
              /\ UNCHANGED <<parent, online>>
        /\ Lost(News(m) /\ (~OriginAllows(origin, m.p) \/ m.a \in Above(m.p)))
        /\ UNCHANGED <<agentVars, downstreams, conn, streams, maxChildren, faults, budget>>
    BY <1>2 DEF ServerReceive
  <2>2. Takes(c, m) /\ m \in Reports  BY <1>0, <2>1, TakesOne DEF Takes
  <2>3. races \subseteq races' /\ (races' = {} => ~(News(m) /\ (~OriginAllows(origin, m.p) \/ m.a \in Above(m.p))))
    BY <2>1, LostGrows
  <2> HIDE DEF m
  <2>4. CASE m.t = "connected" /\ PeerConnected(origin, m.a, m.p)
    <3>1. Records(c, m)
      BY <2>1, <2>2, <2>3, <2>4 DEF Records, PeerConnected, agentPart, agentVars, count
    <3> QED  BY <2>2, <3>1 DEF ServerEffect
  <2>5. CASE m.t = "disconnected" /\ PeerDisconnected(origin, m.a)
    <3>1. Discounts(c, m)
      BY <2>1, <2>2, <2>3, <2>5 DEF Discounts, PeerDisconnected, agentPart, agentVars, count
    <3> QED  BY <2>2, <3>1 DEF ServerEffect
  <2>6. CASE ~OriginAllows(origin, IF m.t = "connected" THEN m.p ELSE m.a) /\ UNCHANGED <<parent, online>>
    <3>1. races' = {} => ~News(m)  BY <2>3, <2>6 DEF News
    <3>2. Refuses(c, m)
      BY <2>1, <2>2, <2>3, <2>6, <3>1 DEF Refuses, agentPart, agentVars, serverPart, count
    <3> QED  BY <2>2, <3>2 DEF ServerEffect
  <2> QED  BY <2>1, <2>4, <2>5, <2>6
<1>3. CASE ServerClose(c)
  <2>1. /\ conn[c].to = Server /\ conn[c].phase = "serve" /\ conn[c].link = "cut"
        /\ online' = IF conn[c].reassigned = "yes" THEN online ELSE online \ Below(conn[c].child)
        /\ conn' = [conn EXCEPT ![c] = Closed]
        /\ wire' = [wire EXCEPT ![c] = <<>>]
        /\ Lost(LosesNews(c))
        /\ UNCHANGED <<agentVars, downstreams, parent, maxChildren, faults, budget>>
    BY <1>3 DEF ServerClose
  <2>2. Sets(c, None, None, "cut", "gone") /\ Clears(c)  BY <1>0, <2>1, SetsClosed, ClearsOne
  <2>3. races \subseteq races' /\ (races' = {} => KeepsNews(c))  BY <1>0, <2>1, LostGrows, KeepsNewsOne
  <2>4. Closes(c)  BY <2>1, <2>2, <2>3 DEF Closes, agentPart, agentVars, count
  <2> QED  BY <2>4 DEF ServerEffect
<1> QED  BY <1>1, <1>2, <1>3

LEMMA RelayEffects ==
  ASSUME BaseInv, NEW p \in Agents, NEW c \in Conns,
         \/ RelayHello(p, c) \/ RelayInsert(p, c) \/ RelayForward(p, c)
         \/ RelayLost(p, c) \/ RelayRemove(p, c) \/ RelayReport(p, c)
  PROVE  RelayEffect(p, c)
<1>0. ConnsAreConnections /\ MeshTypeOK /\ \A d \in Conns : conn[d].link \in {"up", "cut"}
  BY LinkIs DEF BaseInv, RelayInv
<1>1. ASSUME NEW ph, Serves(p, c, ph), ph # "gone" PROVE conn[c].child \in Agents /\ conn[c].to = p
  BY <1>1, ConnIs DEF Serves
<1>2. CASE RelayHello(p, c)
  <2>1. Serves(p, c, "hello") /\ Phase(c, "insert") /\ wire' = Sent(wire, p, Attach(conn[c].child, p))
    BY <1>2 DEF RelayHello, Attach
  <2>2. conn[c].child \in Agents /\ conn[c].to = p  BY <1>1, <2>1
  <2>3. Sends(p, Attach(conn[c].child, p))  BY <1>0, <2>1, <2>2, SendsOne, ReportFields
  <2>4. Sets(c, conn[c].child, p, conn[c].link, "insert")  BY <1>0, <2>1, <2>2, SetsPhase
  <2>5. Hellos(p, c)
    BY <1>2, <2>1, <2>3, <2>4 DEF RelayHello, Hellos, agentPart, agentVars, serverPart, serverVars, count, env
  <2> QED  BY <2>5 DEF RelayEffect
<1>3. CASE RelayInsert(p, c)
  <2>1. Serves(p, c, "insert") /\ Phase(c, "serve")  BY <1>3 DEF RelayInsert
  <2>2. Sets(c, conn[c].child, p, conn[c].link, "serve")  BY <1>0, <1>1, <2>1, SetsPhase
  <2>3. Inserts(p, c)
    BY <1>3, <2>2 DEF RelayInsert, Inserts, agentPart, agentVars, serverPart, serverVars, count, env
  <2> QED  BY <2>3 DEF RelayEffect
<1>4. CASE RelayForward(p, c)
  <2> DEFINE m == Head(wire[c])
             w == [wire EXCEPT ![c] = Tail(@)]
  <2>1. /\ Serves(p, c, "serve") /\ wire[c] # <<>>
        /\ UNCHANGED <<agentVars, downstreams, serverVars, maxChildren, faults, budget>>
    BY <1>4 DEF RelayForward
  <2>2. CASE /\ upstream[p] # None
             /\ wire' = Sent(w, p, m)
             /\ Lost(conn[upstream[p]].link = "cut" /\ News(m))
             /\ UNCHANGED conn
    <3>1. upstream[p] \in Conns  BY <1>0, <2>2 DEF MeshTypeOK
    <3>2. races \subseteq races' /\ (races' = {} => ~(conn[upstream[p]].link = "cut" /\ News(m)))
      BY <2>2, LostGrows
    <3>3. CASE conn[upstream[p]].link = "cut"
      <4>1. wire' = w  BY <2>2, <3>3 DEF Sent
      <4>2. Takes(c, m) /\ m \in Reports  BY <1>0, <2>1, <4>1, TakesOne DEF Takes
      <4>3. Misses(p, c, m)
        BY <2>1, <2>2, <3>1, <3>2, <3>3, <4>2 DEF Misses, agentPart, agentVars, serverPart, serverVars, count
      <4> QED  BY <4>2, <4>3 DEF RelayEffect
    <3>4. CASE conn[upstream[p]].link # "cut"
      <4>1. conn[upstream[p]].link = "up"  BY <1>0, <3>1, <3>4
      <4>2. wire' = LET v == [wire EXCEPT ![c] = Tail(@)] IN [v EXCEPT ![upstream[p]] = Append(@, Head(wire[c]))]
        BY <2>2, <3>4 DEF Sent
      <4>3. Passes(c, upstream[p], m) /\ m \in Reports
        BY <1>0, <2>1, <3>1, <4>2, PassesOne DEF Passes
      <4>4. races' = races  BY <2>2, <3>4 DEF Lost
      <4>5. Forwards(p, c, m)
        BY <2>1, <2>2, <3>1, <4>1, <4>3, <4>4 DEF Forwards, agentPart, agentVars, serverPart, serverVars, count
      <4> QED  BY <4>3, <4>5 DEF RelayEffect
    <3> QED  BY <3>3, <3>4
  <2>3. CASE /\ upstream[p] # None => conn[upstream[p]].link = "cut"
             /\ conn' = [conn EXCEPT ![c] = Connection(@.child, @.to, "cut", "remove", @.reassigned)]
             /\ wire' = [wire EXCEPT ![c] = <<>>]
             /\ Lost(LosesNews(c))
    <3>1. Sets(c, conn[c].child, conn[c].to, "cut", "remove")
      <4>1. conn' = [conn EXCEPT ![c] = Connection(conn[c].child, conn[c].to, "cut", "remove", conn[c].reassigned)]
        BY <2>3
      <4> QED  BY <1>0, <4>1, SetsOne
    <3>2. Clears(c) /\ conn[c].to = p  BY <1>0, <1>1, <2>1, <2>3, ClearsOne
    <3>3. races \subseteq races' /\ (races' = {} => KeepsNews(c))  BY <1>0, <2>3, LostGrows, KeepsNewsOne
    <3>4. Drops(p, c)
      BY <2>1, <2>3, <3>1, <3>2, <3>3 DEF Drops, agentPart, agentVars, serverPart, serverVars, count
    <3> QED  BY <3>4 DEF RelayEffect
  <2> QED  BY <1>4, <2>2, <2>3 DEF RelayForward
<1>5. CASE RelayLost(p, c)
  <2>1. /\ Serves(p, c, "serve") /\ conn[c].link = "cut" /\ Phase(c, "remove")
        /\ wire' = [wire EXCEPT ![c] = <<>>]
        /\ Lost(LosesNews(c))
    BY <1>5 DEF RelayLost
  <2>2. Sets(c, conn[c].child, p, "cut", "remove") /\ Clears(c)  BY <1>0, <1>1, <2>1, SetsPhase, ClearsOne
  <2>3. races \subseteq races' /\ (races' = {} => KeepsNews(c))  BY <1>0, <2>1, LostGrows, KeepsNewsOne
  <2>4. Drops(p, c)
    BY <1>5, <2>1, <2>2, <2>3 DEF RelayLost, Drops, agentPart, agentVars, serverPart, serverVars, count
  <2> QED  BY <2>4 DEF RelayEffect
<1>6. CASE RelayRemove(p, c)
  <2>1. Serves(p, c, "remove") /\ Phase(c, "report")  BY <1>6 DEF RelayRemove
  <2>2. Sets(c, conn[c].child, p, conn[c].link, "report")  BY <1>0, <1>1, <2>1, SetsPhase
  <2>3. TakesOut(p, c)
    BY <1>6, <2>2 DEF RelayRemove, TakesOut, agentPart, agentVars, serverPart, serverVars, count, env
  <2> QED  BY <2>3 DEF RelayEffect
<1>7. CASE RelayReport(p, c)
  <2>1. /\ Serves(p, c, "report") /\ conn' = [conn EXCEPT ![c] = Closed]
        /\ wire' = Sent(wire, p, Detach(conn[c].child))
    BY <1>7 DEF RelayReport, Detach
  <2>2. Sets(c, None, None, "cut", "gone")  BY <1>0, <2>1, SetsClosed
  <2>3. Sends(p, Detach(conn[c].child))  BY <1>0, <1>1, <2>1, SendsOne, ReportFields
  <2>4. TellsLoss(p, c)
    BY <1>7, <2>1, <2>2, <2>3 DEF RelayReport, TellsLoss, agentPart, agentVars, serverPart, serverVars, count, env
  <2> QED  BY <2>4 DEF RelayEffect
<1> QED  BY <1>2, <1>3, <1>4, <1>5, <1>6, <1>7

LEMMA CrashEffect ==
  ASSUME BaseInv, NEW a \in Agents, Crash(a)
  PROVE  Crashes(a)
<1>0. ConnsAreConnections /\ MeshTypeOK  BY DEF BaseInv, RelayInv
<1>1. /\ Running(a) /\ pc' = [pc EXCEPT ![a] = "crashed"]
      /\ upstream' = [upstream EXCEPT ![a] = None]
      /\ announcing' = [announcing EXCEPT ![a] = {}]
      /\ downstreams' = [downstreams EXCEPT ![a] = [x \in Agents |-> None]]
      /\ conn' = [c \in Conns |-> IF conn[c].to = a THEN Closed
                                  ELSE IF conn[c].child = a THEN [conn[c] EXCEPT !.link = "cut"]
                                  ELSE conn[c]]
      /\ wire' = [c \in Conns |-> IF conn[c].to = a THEN <<>> ELSE wire[c]]
      /\ Lost(\E c \in Conns : conn[c].to = a /\ LosesNews(c))
      /\ faults' = faults + 1
      /\ UNCHANGED <<parentAddr, fallbackAddrs, parent, online>>
  BY DEF Crash, Goto, Fault, serverVars
<1>2. ASSUME NEW c \in Conns
      PROVE  IF conn[c].to = a
             THEN conn'[c].child = None /\ conn'[c].to = None /\ conn'[c].link = "cut" /\ conn'[c].phase = "gone"
             ELSE /\ conn'[c].child = conn[c].child /\ conn'[c].to = conn[c].to /\ conn'[c].phase = conn[c].phase
                  /\ conn'[c].link = IF conn[c].child = a THEN "cut" ELSE conn[c].link
  <2>1. CASE conn[c].to = a
    <3>1. conn'[c] = Closed  BY <1>1, <2>1
    <3> QED  BY <2>1, <3>1, Fields DEF Closed
  <2>2. CASE conn[c].to # a /\ conn[c].child = a
    <3>1. conn[c] = Connection(conn[c].child, conn[c].to, conn[c].link, conn[c].phase, conn[c].reassigned)
      BY <1>0 DEF ConnsAreConnections, IsConnection
    <3>2. conn'[c] = [conn[c] EXCEPT !.link = "cut"]  BY <1>1, <2>2
    <3>3. [conn[c] EXCEPT !.link = "cut"]
            = Connection(conn[c].child, conn[c].to, "cut", conn[c].phase, conn[c].reassigned)
      BY <3>1 DEF Connection
    <3> QED  BY <2>2, <3>2, <3>3, Fields
  <2>3. CASE conn[c].to # a /\ conn[c].child # a
    <3>1. conn'[c] = conn[c]  BY <1>1, <2>3
    <3> QED  BY <2>3, <3>1
  <2> QED  BY <2>1, <2>2, <2>3
<1>3. wire' \in [Conns -> Seq(Reports)]  BY <1>0, <1>1 DEF MeshTypeOK
<1>4. ASSUME NEW d \in Conns, NEW n \in Reports PROVE On(d, n)' <=> On(d, n) /\ conn[d].to # a
  <2>1. wire'[d] = IF conn[d].to = a THEN <<>> ELSE wire[d]  BY <1>1
  <2> QED  BY <2>1 DEF On
<1>5. races \subseteq races' /\ (races' = {} => \A c \in Conns : conn[c].to = a => KeepsNews(c))
  BY <1>0, <1>1, LostGrows, KeepsNewsOne
<1> QED  BY <1>1, <1>2, <1>3, <1>4, <1>5 DEF Crashes, serverPart

LEMMA CutEffect ==
  ASSUME BaseInv, NEW c \in Conns, Cut(c)
  PROVE  Cuts(c)
<1>1. conn' = [conn EXCEPT ![c] = Connection(conn[c].child, conn[c].to, "cut", conn[c].phase, conn[c].reassigned)]
  BY DEF Cut
<1>2. Sets(c, conn[c].child, conn[c].to, "cut", conn[c].phase)  BY <1>1, SetsOne DEF BaseInv, RelayInv
<1>3. /\ conn[c].link = "up" /\ faults' = faults + 1
      /\ UNCHANGED <<pc, parentAddr, fallbackAddrs, upstream, announcing, downstreams, wire, parent, online, races>>
  BY DEF Cut, Fault, agentVars, serverVars
<1> QED  BY <1>2, <1>3 DEF Cuts, BaseInv, MeshTypeOK, serverPart

LEMMA HintEffect ==
  ASSUME BaseInv, NEW a \in Agents, NEW p \in Agents, PeerUpdate(a, p)
  PROVE  \E c \in Conns : Cuts(c)
<1> DEFINE c == upstream[a]
<1>1. c \in Conns  BY DEF PeerUpdate, BaseInv, AgentOK, MeshTypeOK, Attached
<1>2. conn' = [conn EXCEPT ![c] = Connection(conn[c].child, conn[c].to, "cut", conn[c].phase, "yes")]
  BY DEF PeerUpdate
<1>3. Sets(c, conn[c].child, conn[c].to, "cut", conn[c].phase)  BY <1>1, <1>2, SetsOne DEF BaseInv, RelayInv
<1>4. PICK f \in FallbackParents(p) : fallbackAddrs' = [fallbackAddrs EXCEPT ![a] = f]
  BY DEF PeerUpdate
<1>5. \A i \in 1..Len(f) : f[i] \in Agents
  <2> DEFINE cands == WithRoom \ {p}
             k == IF Cardinality(cands) < 2 THEN Cardinality(cands) ELSE 2
  <2>1. f \in [1..k -> cands]  BY <1>4 DEF FallbackParents, BestTwo
  <2>2. cands \subseteq Agents  BY DEF WithRoom, BaseInv, MeshTypeOK
  <2>3. Cardinality(cands) \in Nat  BY <2>2, NodesAssumption, FS_Subset, FS_CardinalityType
  <2>4. k \in Nat  BY <2>3
  <2> HIDE DEF k, cands
  <2> QED  BY <2>1, <2>2, <2>4
<1>6. fallbackAddrs' = [b \in Agents |-> IF b = a THEN f ELSE fallbackAddrs[b]]
  BY <1>4 DEF BaseInv, MeshTypeOK
<1>7. fallbackAddrs' = [b \in Agents |-> fallbackAddrs'[b]]  BY <1>6
<1>8. \A b \in Agents : \A i \in 1..Len(fallbackAddrs'[b]) : fallbackAddrs'[b][i] \in Agents
  <2> SUFFICES ASSUME NEW b \in Agents, NEW i \in 1..Len(fallbackAddrs'[b]) PROVE fallbackAddrs'[b][i] \in Agents
    OBVIOUS
  <2>1. fallbackAddrs'[b] = IF b = a THEN f ELSE fallbackAddrs[b]  BY <1>6
  <2> QED  BY <1>5, <2>1 DEF BaseInv, MeshTypeOK
<1>9. /\ conn[c].link = "up" /\ faults' = faults + 1 /\ pc[a] = "main"
      /\ parentAddr' = [parentAddr EXCEPT ![a] = p]
      /\ UNCHANGED <<pc, upstream, announcing, downstreams, wire, parent, online, races>>
  BY DEF PeerUpdate, Fault, serverVars
<1> QED  BY <1>1, <1>3, <1>7, <1>8, <1>9 DEF Cuts, serverPart

LEMMA StepEffects ==
  ASSUME BaseInv, [Next]_vars
  PROVE  Effect \/ Stutters
<1>1. ASSUME NEW a \in Agents, AgentStep(a) PROVE Effect  BY <1>1, AgentEffects DEF Effect
<1>2. ASSUME NEW c \in Conns, HandlerStep(c) PROVE Effect
  BY <1>2, ServerEffects, RelayEffects DEF Effect, HandlerStep
<1>3. ASSUME NEW c \in Conns, Cut(c) PROVE Effect  BY <1>3, CutEffect DEF Effect
<1>4. ASSUME NEW a \in Agents, Crash(a) PROVE Effect  BY <1>4, CrashEffect DEF Effect
<1>5. ASSUME NEW a \in Agents, NEW p \in Agents, PeerUpdate(a, p) PROVE Effect  BY <1>5, HintEffect DEF Effect
<1>6. CASE UNCHANGED vars
  BY <1>6 DEF vars, agentVars, serverVars, env, Stutters, agentPart, serverPart, count
<1> QED  BY <1>1, <1>2, <1>3, <1>4, <1>5, <1>6 DEF Next

\* The parts of BaseInv that are not RelayInv.
Shape == MeshTypeOK /\ (\A c \in Conns : ConnOK(c)) /\ (\A x \in Agents : AgentOK(x))

LEMMA AgentShape ==
  ASSUME BaseInv, NEW a \in Agents, AgentEffect(a)
  PROVE  Shape'
<1> USE NodesAssumption DEF PCs, Attached
<1>1. ASSUME NEW t \in Agents \cup {Server}, NEW c \in Conns, Opens(a, t, c) PROVE Shape'
  <2>1. MeshTypeOK'  BY <1>1 DEF Opens, BaseInv, MeshTypeOK, serverPart
  <2>2. ASSUME NEW d \in Conns PROVE ConnOK(d)'
    <3>1. CASE d = c  BY <1>1, <3>1 DEF Opens, Sets, ConnOK, BaseInv, MeshTypeOK, Running
    <3>2. CASE d # c
      <4>1. conn'[d] = conn[d] /\ wire'[d] = wire[d]  BY <1>1, <3>2 DEF Opens, Sets
      <4>2. \A p \in Agents : Running(p) => Running(p)'  BY <1>1 DEF Opens, Running, BaseInv, MeshTypeOK
      <4> QED  BY <4>1, <4>2 DEF BaseInv, ConnOK
    <3> QED  BY <3>1, <3>2
  <2>3. ASSUME NEW x \in Agents PROVE AgentOK(x)'
    <3>1. CASE x = a
      <4>1. upstream'[a] = c /\ pc'[a] = "announce" /\ announcing' = announcing /\ conn'[c].child = a
        BY <1>1 DEF Opens, Sets, BaseInv, MeshTypeOK
      <4>2. announcing[a] = {}  BY <1>1 DEF Opens, BaseInv, AgentOK
      <4> QED  BY <3>1, <4>1, <4>2 DEF AgentOK
    <3>2. CASE x # a
      <4>1. /\ upstream'[x] = upstream[x] /\ pc'[x] = pc[x] /\ announcing' = announcing
            /\ upstream[x] # c /\ upstream[x] \in Conns \cup {None}
            /\ \A d \in Conns \ {c} : conn'[d] = conn[d]
        BY <1>1, <3>2 DEF Opens, Sets, BaseInv, MeshTypeOK
      <4> QED  BY <4>1 DEF AgentOK, BaseInv
    <3> QED  BY <3>1, <3>2
  <2> QED  BY <2>1, <2>2, <2>3 DEF Shape
\* The steps of an agent that leave its upstream alone and nobody crashed.
<1>2. ASSUME conn' = conn, \A d \in Conns : wire'[d] = wire[d] \/ (wire[d] = <<>> => wire'[d] = <<>>) \/ conn[d].link = "up",
             MeshTypeOK', \A p \in Agents : Running(p) => Running(p)'
      PROVE  \A d \in Conns : ConnOK(d)'
  BY <1>2 DEF BaseInv, ConnOK
<1>3. ASSUME NEW l \in PCs, Moves(a, l) PROVE Shape'
  <2>1. MeshTypeOK' /\ conn' = conn /\ wire' = wire  BY <1>3 DEF Moves, BaseInv, MeshTypeOK, serverPart
  <2>2. \A p \in Agents : Running(p) => Running(p)'  BY <1>3 DEF Moves, Running, BaseInv, MeshTypeOK
  <2>3. \A x \in Agents : AgentOK(x)'  BY <1>3 DEF Moves, BaseInv, MeshTypeOK, AgentOK
  <2> QED  BY <1>2, <2>1, <2>2, <2>3 DEF Shape
<1>4. ASSUME NEW p \in Agents \cup {Server}, NEW l \in PCs, TakesParent(a, p, l) PROVE Shape'
  <2>1. MeshTypeOK' /\ conn' = conn /\ wire' = wire  BY <1>4 DEF TakesParent, BaseInv, MeshTypeOK
  <2>2. \A q \in Agents : Running(q) => Running(q)'  BY <1>4 DEF TakesParent, Running, BaseInv, MeshTypeOK
  <2>3. \A x \in Agents : AgentOK(x)'  BY <1>4 DEF TakesParent, BaseInv, MeshTypeOK, AgentOK
  <2> QED  BY <1>2, <2>1, <2>2, <2>3 DEF Shape
<1>5. CASE Announces(a)
  <2>1. MeshTypeOK' /\ conn' = conn /\ wire' = wire  BY <1>5 DEF Announces, BaseInv, MeshTypeOK, serverPart
  <2>2. \A q \in Agents : Running(q) => Running(q)'  BY <1>5 DEF Announces, Running, BaseInv, MeshTypeOK
  <2>3. \A x \in Agents : AgentOK(x)'  BY <1>5 DEF Announces, BaseInv, MeshTypeOK, AgentOK
  <2> QED  BY <1>2, <2>1, <2>2, <2>3 DEF Shape
<1>6. CASE Finishes(a)
  <2>1. MeshTypeOK' /\ conn' = conn /\ wire' = wire  BY <1>6 DEF Finishes, BaseInv, MeshTypeOK, serverPart
  <2>2. \A q \in Agents : Running(q) => Running(q)'  BY <1>6 DEF Finishes, Running, BaseInv, MeshTypeOK
  <2>3. \A x \in Agents : AgentOK(x)'  BY <1>6 DEF Finishes, BaseInv, MeshTypeOK, AgentOK
  <2> QED  BY <1>2, <2>1, <2>2, <2>3 DEF Shape
<1>7. CASE Loses(a)
  <2>1. MeshTypeOK' /\ conn' = conn /\ wire' = wire  BY <1>7 DEF Loses, BaseInv, MeshTypeOK, serverPart
  <2>2. \A q \in Agents : Running(q) => Running(q)'  BY <1>7 DEF Loses, Running, BaseInv, MeshTypeOK
  <2>3. \A x \in Agents : AgentOK(x)'  BY <1>7 DEF Loses, BaseInv, MeshTypeOK, AgentOK
  <2> QED  BY <1>2, <2>1, <2>2, <2>3 DEF Shape
<1>8. CASE Restarts(a)
  <2>1. MeshTypeOK' /\ conn' = conn /\ wire' = wire  BY <1>8 DEF Restarts, BaseInv, MeshTypeOK, serverPart
  <2>2. \A q \in Agents : Running(q) => Running(q)'  BY <1>8 DEF Restarts, Running, BaseInv, MeshTypeOK
  <2>3. \A x \in Agents : AgentOK(x)'  BY <1>8 DEF Restarts, BaseInv, MeshTypeOK, AgentOK
  <2> QED  BY <1>2, <2>1, <2>2, <2>3 DEF Shape
<1>9. ASSUME NEW x \in Agents, Notifies(a, x) PROVE Shape'
  <2>1. MeshTypeOK' /\ conn' = conn  BY <1>9 DEF Notifies, Sends, BaseInv, MeshTypeOK, serverPart
  <2>2. \A q \in Agents : Running(q) => Running(q)'  BY <1>9 DEF Notifies, Running
  <2>3. \A y \in Agents : AgentOK(y)'  BY <1>9 DEF Notifies, BaseInv, MeshTypeOK, AgentOK
  <2>4. ASSUME NEW d \in Conns PROVE wire'[d] = wire[d] \/ conn[d].link = "up"
    BY <1>9 DEF Notifies, Sends, Sent, BaseInv, MeshTypeOK, ConnOK
  <2> QED  BY <1>2, <2>1, <2>2, <2>3, <2>4 DEF Shape
<1> QED  BY <1>1, <1>3, <1>4, <1>5, <1>6, <1>7, <1>8, <1>9 DEF AgentEffect

\* A step that changes no agent's pc, upstream or announcements, and of the connections
\* only c, which is nobody else's.
LEMMA HandlerShape ==
  ASSUME BaseInv, NEW c \in Conns, conn[c].phase # "gone",
         MeshTypeOK', UNCHANGED <<pc, upstream, announcing>>,
         \A d \in Conns \ {c} : conn'[d] = conn[d],
         \A d \in Conns \ {c} : (wire[d] = <<>> => wire'[d] = <<>>) \/ conn[d].link = "up",
         \/ conn'[c].phase = "gone"
         \/ conn'[c].child = conn[c].child,
         ConnOK(c)'
  PROVE  Shape'
<1>1. ASSUME NEW d \in Conns PROVE ConnOK(d)'
  <2>1. CASE d = c  BY <2>1
  <2>2. CASE d # c
    <3>1. conn'[d] = conn[d] /\ pc' = pc  BY <2>2
    <3>2. \/ wire[d] = <<>> => wire'[d] = <<>>
          \/ conn[d].link = "up"
      BY <2>2
    <3>3. ConnOK(d)  BY DEF BaseInv
    <3> QED  BY <3>1, <3>2, <3>3 DEF ConnOK, Running
  <2> QED  BY <2>1, <2>2
<1>2. ASSUME NEW x \in Agents PROVE AgentOK(x)'
  <2>1. upstream[x] \in Conns \cup {None} /\ AgentOK(x)  BY DEF BaseInv, MeshTypeOK
  <2>2. CASE upstream[x] = c  BY <2>1, <2>2 DEF AgentOK
  <2>3. CASE upstream[x] # c  BY <2>1, <2>3 DEF AgentOK
  <2> QED  BY <2>2, <2>3
<1> QED  BY <1>1, <1>2 DEF Shape

\* What is sent goes along links that are up.
LEMMA SentWhereUp ==
  ASSUME BaseInv, NEW a \in Agents, NEW m, wire' = Sent(wire, a, m), NEW d \in Conns
  PROVE  wire'[d] = wire[d] \/ conn[d].link = "up"
BY LinkIs DEF Sent, BaseInv, MeshTypeOK

LEMMA ServerShape ==
  ASSUME BaseInv, NEW c \in Conns, ServerEffect(c)
  PROVE  Shape'
<1> USE NodesAssumption
<1>0. wire \in [Conns -> Seq(Reports)]  BY DEF BaseInv, MeshTypeOK
<1>1. CASE Accepts(c)
  <2>1. MeshTypeOK'  BY <1>1, ConnIs DEF Accepts, BaseInv, MeshTypeOK, agentPart
  <2>2. ConnOK(c)'  BY <1>1, ConnIs, LinkIs DEF Accepts, Sets, ConnOK
  <2> QED  BY <1>1, <2>1, <2>2, HandlerShape DEF Accepts, Sets, agentPart
<1>2. CASE Closes(c)
  <2>1. MeshTypeOK'  BY <1>2 DEF Closes, Clears, BaseInv, MeshTypeOK, agentPart
  <2>2. ConnOK(c)'  BY <1>0, <1>2 DEF Closes, Clears, Sets, ConnOK
  <2>3. \A d \in Conns \ {c} : wire'[d] = wire[d]  BY <1>0, <1>2 DEF Closes, Clears
  <2> QED  BY <1>2, <2>1, <2>2, <2>3, HandlerShape DEF Closes, Sets, agentPart
<1>3. ASSUME NEW m \in Reports, Takes(c, m), conn[c].to = Server, conn[c].phase = "serve", conn' = conn,
             UNCHANGED <<pc, upstream, announcing>>, MeshTypeOK'
      PROVE  Shape'
  <2>1. \A d \in Conns \ {c} : wire'[d] = wire[d]  BY <1>0, <1>3 DEF Takes
  <2>2. ConnOK(c)'  BY <1>3, ConnIs, LinkIs DEF ConnOK
  <2> QED  BY <1>3, <2>1, <2>2, HandlerShape
<1>4. ASSUME NEW m \in Reports, Records(c, m) PROVE Shape'
  <2>1. m.a \in Agents /\ m.p \in Agents  BY <1>4, ReportKinds DEF Records
  <2>2. parent' \in [Agents -> Agents \cup {None}]  BY <1>4, <2>1 DEF Records, BaseInv, MeshTypeOK
  <2>3. online' \in SUBSET Agents  BY <1>4 DEF Records, BaseInv, MeshTypeOK, Below
  <2>4. MeshTypeOK'  BY <1>4, <2>2, <2>3 DEF Records, Takes, BaseInv, MeshTypeOK, agentPart
  <2> QED  BY <1>3, <1>4, <2>4 DEF Records, agentPart
<1>5. ASSUME NEW m \in Reports, Discounts(c, m) PROVE Shape'
  <2>1. MeshTypeOK'  BY <1>5 DEF Discounts, Takes, BaseInv, MeshTypeOK, agentPart
  <2> QED  BY <1>3, <1>5, <2>1 DEF Discounts, agentPart
<1>6. ASSUME NEW m \in Reports, Refuses(c, m) PROVE Shape'
  <2>1. MeshTypeOK'  BY <1>6 DEF Refuses, Takes, BaseInv, MeshTypeOK, agentPart, serverPart
  <2> QED  BY <1>3, <1>6, <2>1 DEF Refuses, agentPart
<1> QED  BY <1>1, <1>2, <1>4, <1>5, <1>6 DEF ServerEffect

LEMMA RelayShape ==
  ASSUME BaseInv, NEW p \in Agents, NEW c \in Conns, RelayEffect(p, c)
  PROVE  Shape'
<1> USE NodesAssumption
<1>0. wire \in [Conns -> Seq(Reports)]  BY DEF BaseInv, MeshTypeOK
<1>a. ASSUME NEW ph, ph # "gone", Serves(p, c, ph)
      PROVE  conn[c].phase # "gone" /\ conn[c].child \in Agents /\ conn[c].to = p /\ Running(p) /\ conn[c].link \in {"up", "cut"}
  BY <1>a, ConnIs, LinkIs DEF Serves
<1>1. CASE Hellos(p, c)
  <2>1. MeshTypeOK'  BY <1>1 DEF Hellos, Sends, BaseInv, MeshTypeOK, agentPart, serverPart
  <2>2. ConnOK(c)'  BY <1>a, <1>1 DEF Hellos, Sets, ConnOK, agentPart, Running
  <2>3. \A d \in Conns : wire'[d] = wire[d] \/ conn[d].link = "up"  BY <1>1, SentWhereUp DEF Hellos, Sends
  <2>4. Serves(p, c, "hello")  BY <1>1 DEF Hellos
  <2> QED  BY <1>a, <1>1, <2>1, <2>2, <2>3, <2>4, HandlerShape DEF Hellos, Sets, agentPart
<1>2. CASE Inserts(p, c)
  <2>1. MeshTypeOK'  BY <1>2 DEF Inserts, BaseInv, MeshTypeOK, agentPart, serverPart
  <2>2. ConnOK(c)'  BY <1>a, <1>2 DEF Inserts, Sets, ConnOK, agentPart, Running
  <2>4. Serves(p, c, "insert")  BY <1>2 DEF Inserts
  <2> QED  BY <1>a, <1>2, <2>1, <2>2, <2>4, HandlerShape DEF Inserts, Sets, agentPart
<1>3. CASE Drops(p, c)
  <2>1. MeshTypeOK'  BY <1>3 DEF Drops, Clears, BaseInv, MeshTypeOK, agentPart, serverPart
  <2>2. ConnOK(c)'  BY <1>0, <1>a, <1>3 DEF Drops, Clears, Sets, ConnOK, agentPart, Running
  <2>3. \A d \in Conns \ {c} : wire'[d] = wire[d]  BY <1>0, <1>3 DEF Drops, Clears
  <2>4. Serves(p, c, "serve")  BY <1>3 DEF Drops
  <2> QED  BY <1>a, <1>3, <2>1, <2>2, <2>3, <2>4, HandlerShape DEF Drops, Sets, agentPart
<1>4. CASE TakesOut(p, c)
  <2>1. MeshTypeOK'  BY <1>4 DEF TakesOut, BaseInv, MeshTypeOK, agentPart, serverPart
  <2>4. Serves(p, c, "remove")  BY <1>4 DEF TakesOut
  <2>5. conn[c].link = "cut" /\ wire[c] = <<>>  BY <2>4 DEF BaseInv, ConnOK, Serves
  <2>2. ConnOK(c)'  BY <1>a, <1>4, <2>4, <2>5 DEF TakesOut, Sets, ConnOK, agentPart, Running
  <2> QED  BY <1>a, <1>4, <2>1, <2>2, <2>4, HandlerShape DEF TakesOut, Sets, agentPart
<1>5. CASE TellsLoss(p, c)
  <2>1. MeshTypeOK'  BY <1>5 DEF TellsLoss, Sends, BaseInv, MeshTypeOK, agentPart, serverPart
  <2>4. Serves(p, c, "report")  BY <1>5 DEF TellsLoss
  <2>5. conn[c].link = "cut" /\ wire[c] = <<>>  BY <2>4 DEF BaseInv, ConnOK, Serves
  <2>3. \A d \in Conns : wire'[d] = wire[d] \/ conn[d].link = "up"  BY <1>5, SentWhereUp DEF TellsLoss, Sends
  <2>2. ConnOK(c)'  BY <1>a, <1>5, <2>3, <2>5 DEF TellsLoss, Sets, ConnOK
  <2> QED  BY <1>a, <1>5, <2>1, <2>2, <2>3, <2>4, HandlerShape DEF TellsLoss, Sets, agentPart
<1>6. ASSUME NEW m \in Reports, Forwards(p, c, m) PROVE Shape'
  <2>1. MeshTypeOK' /\ conn' = conn  BY <1>6 DEF Forwards, Passes, BaseInv, MeshTypeOK, agentPart, serverPart
  <2>2. ConnOK(c)'  BY <1>a, <1>6 DEF Forwards, Serves, ConnOK, agentPart, Running
  <2>3. ASSUME NEW d \in Conns \ {c} PROVE wire'[d] = wire[d] \/ conn[d].link = "up"
    <3>1. CASE d = upstream[p]  BY <1>6, <3>1 DEF Forwards
    <3>2. CASE d # upstream[p]
      <4>1. wire'[d] = wire[d]
        <5> DEFINE w == [wire EXCEPT ![c] = Tail(@)]
        <5>1. w[d] = wire[d] /\ d \in DOMAIN w  BY <1>0
        <5>2. wire' = [w EXCEPT ![upstream[p]] = Append(@, m)]  BY <1>6 DEF Forwards, Passes
        <5> HIDE DEF w
        <5> QED  BY <3>2, <5>1, <5>2
      <4> QED  BY <4>1
    <3> QED  BY <3>1, <3>2
  <2>4. Serves(p, c, "serve")  BY <1>6 DEF Forwards
  <2> QED  BY <1>a, <1>6, <2>1, <2>2, <2>3, <2>4, HandlerShape DEF Forwards, agentPart
<1>7. ASSUME NEW m \in Reports, Misses(p, c, m) PROVE Shape'
  <2>1. MeshTypeOK' /\ conn' = conn  BY <1>7 DEF Misses, Takes, BaseInv, MeshTypeOK, agentPart, serverPart
  <2>2. ConnOK(c)'  BY <1>a, <1>7 DEF Misses, Serves, ConnOK, agentPart, Running
  <2>3. \A d \in Conns \ {c} : wire'[d] = wire[d]  BY <1>0, <1>7 DEF Misses, Takes
  <2>4. Serves(p, c, "serve")  BY <1>7 DEF Misses
  <2> QED  BY <1>a, <1>7, <2>1, <2>2, <2>3, <2>4, HandlerShape DEF Misses, agentPart
<1> QED  BY <1>1, <1>2, <1>3, <1>4, <1>5, <1>6, <1>7 DEF RelayEffect

LEMMA CutShape ==
  ASSUME BaseInv, NEW c \in Conns, Cuts(c)
  PROVE  Shape'
<1> USE NodesAssumption
<1>1. parentAddr' \in [Agents -> Agents \cup {Server}]
  BY DEF Cuts, BaseInv, MeshTypeOK
<1>2. MeshTypeOK'  BY <1>1 DEF Cuts, BaseInv, MeshTypeOK, serverPart
<1>3. ConnOK(c) /\ conn[c].link = "up"  BY DEF BaseInv, Cuts
<1>4. ConnOK(c)' /\ conn[c].phase # "gone"  BY <1>3 DEF Cuts, Sets, ConnOK, Running
<1> QED  BY <1>2, <1>4, HandlerShape DEF Cuts, Sets

LEMMA CrashShape ==
  ASSUME BaseInv, NEW a \in Agents, Crashes(a)
  PROVE  Shape'
<1> USE NodesAssumption DEF PCs, Attached
<1>1. MeshTypeOK'  BY DEF Crashes, BaseInv, MeshTypeOK, serverPart
<1>2. ASSUME NEW c \in Conns PROVE ConnOK(c)'
  <2>0. ConnOK(c)  BY DEF BaseInv
  <2>1. CASE conn[c].to = a
    <3>1. wire'[c] = <<>>  BY <2>1 DEF Crashes
    <3> QED  BY <2>1, <3>1 DEF Crashes, ConnOK
  <2>2. CASE conn[c].to # a
    <3>1. wire'[c] = wire[c]  BY <2>2 DEF Crashes
    <3>2. conn[c].to \in Agents => (Running(conn[c].to) => Running(conn[c].to)')
      BY <2>2 DEF Crashes, Running, BaseInv, MeshTypeOK
    <3>3. /\ conn'[c].child = conn[c].child /\ conn'[c].to = conn[c].to /\ conn'[c].phase = conn[c].phase
          /\ conn'[c].link = IF conn[c].child = a THEN "cut" ELSE conn[c].link
      BY <2>2 DEF Crashes
    <3> QED  BY <2>0, <3>1, <3>2, <3>3 DEF ConnOK
  <2> QED  BY <2>1, <2>2
<1>3. ASSUME NEW x \in Agents PROVE AgentOK(x)'
  <2>0. upstream[x] \in Conns \cup {None} /\ AgentOK(x)  BY DEF BaseInv, MeshTypeOK
  <2>1. CASE x = a  BY <2>1 DEF Crashes, AgentOK, BaseInv, MeshTypeOK
  <2>2. CASE x # a
    <3>1. upstream'[x] = upstream[x] /\ pc'[x] = pc[x] /\ announcing'[x] = announcing[x]
      BY <2>2 DEF Crashes, BaseInv, MeshTypeOK
    <3>2. upstream[x] \in Conns =>
            \/ conn'[upstream[x]].phase = "gone"
            \/ /\ conn'[upstream[x]].child = conn[upstream[x]].child
               /\ conn'[upstream[x]].phase = conn[upstream[x]].phase
      <4> SUFFICES ASSUME upstream[x] \in Conns
                   PROVE  \/ conn'[upstream[x]].phase = "gone"
                          \/ /\ conn'[upstream[x]].child = conn[upstream[x]].child
                             /\ conn'[upstream[x]].phase = conn[upstream[x]].phase
        OBVIOUS
      <4> DEFINE d == upstream[x]
      <4>1. \/ conn'[d].phase = "gone"
            \/ conn'[d].child = conn[d].child /\ conn'[d].phase = conn[d].phase
        BY DEF Crashes
      <4> QED  BY <4>1
    <3> QED  BY <2>0, <3>1, <3>2 DEF AgentOK
  <2> QED  BY <2>1, <2>2
<1> QED  BY <1>1, <1>2, <1>3 DEF Shape

LEMMA StutterShape == ASSUME BaseInv, Stutters PROVE Shape'
BY DEF BaseInv, Stutters, Shape, MeshTypeOK, ConnOK, AgentOK, Running, agentPart, serverPart, count

LEMMA BaseKept == BaseInv /\ [Next]_vars => BaseInv'
<1> SUFFICES ASSUME BaseInv, [Next]_vars PROVE BaseInv'  OBVIOUS
<1>1. Effect \/ Stutters  BY StepEffects
<1>2. Shape'
  BY <1>1, AgentShape, ServerShape, RelayShape, CutShape, CrashShape, StutterShape DEF Effect
<1>3. RelayInv'  BY StepKeeps DEF BaseInv
<1> QED  BY <1>2, <1>3 DEF BaseInv, Shape

\* A mesh to start from, every agent a having connection f[a].
StartsAs(s, f) ==
  /\ f \in [Agents -> Conns] /\ \A a, b \in Agents : a # b => f[a] # f[b]
  /\ pc = [a \in Agents |-> IF a \in s.arriving THEN "announce" ELSE "main"]
  /\ upstream = f /\ parentAddr = s.tree
  /\ parent = [a \in Agents |-> IF s.tree[a] = Server THEN None ELSE s.tree[a]]
  /\ \A a \in Agents : \A i \in 1..Len(fallbackAddrs[a]) : fallbackAddrs[a][i] \in Agents
  /\ fallbackAddrs = [a \in Agents |-> fallbackAddrs[a]]
  /\ \A a \in Agents : /\ conn[f[a]].child = a /\ conn[f[a]].to = s.tree[a] /\ conn[f[a]].link = "up"
                       /\ conn[f[a]].phase = IF a \in s.arriving THEN "hello" ELSE "serve"
  /\ \A c \in Conns : (\A a \in Agents : f[a] # c) =>
       conn[c].phase = "gone" /\ conn[c].child = None /\ conn[c].to = None /\ conn[c].link = "cut"
  /\ downstreams = [p \in Agents |-> [a \in Agents |->
       IF s.tree[a] = p /\ a \notin s.arriving THEN f[a] ELSE None]]
  /\ announcing = [a \in Agents |-> {}]
  /\ wire = [c \in Conns |-> <<>>]
  /\ online = Agents /\ faults = 0 /\ races = {}

LEMMA Starts ==
  ASSUME NEW s \in Scenarios, Start(s)
  PROVE  \E f : StartsAs(s, f)
<1> DEFINE f == CHOOSE g \in [Agents -> Conns] : \A a, b \in Agents : a # b => g[a] # g[b]
           At(x) == CHOOSE a \in Agents : f[a] = x
           Phase0(a) == IF a \in s.arriving THEN "hello" ELSE "serve"
           Given(a) == IF s.tree[a] = Server \/ s.fallbacks = "early" THEN {<<>>}
                       ELSE BestTwo(WithRoom \ ({s.tree[a]} \cup Below(a)), s.tree[a])
<1>1. f \in [Agents -> Conns] /\ \A a, b \in Agents : a # b => f[a] # f[b]
  BY ConnsAssumption
<1>2. /\ pc = [a \in Agents |-> IF a \in s.arriving THEN "announce" ELSE "main"]
      /\ upstream = f /\ parentAddr = s.tree
      /\ parent = [a \in Agents |-> IF s.tree[a] = Server THEN None ELSE s.tree[a]]
      /\ conn = [x \in Conns |-> IF \E a \in Agents : f[a] = x
                                 THEN Connection(At(x), s.tree[At(x)], "up", Phase0(At(x)), "no")
                                 ELSE Closed]
      /\ downstreams = [p \in Agents |-> [a \in Agents |->
           IF s.tree[a] = p /\ a \notin s.arriving THEN f[a] ELSE None]]
      /\ announcing = [a \in Agents |-> {}]
      /\ wire = [c \in Conns |-> <<>>]
      /\ online = Agents /\ faults = 0 /\ races = {}
      /\ fallbackAddrs \in {g \in [Agents -> UNION {Given(a) : a \in Agents}] : \A a \in Agents : g[a] \in Given(a)}
  BY DEF Start
<1>3. \A a \in Agents : At(f[a]) = a  BY <1>1
<1>4. ASSUME NEW a \in Agents, NEW g \in Given(a), NEW i \in 1..Len(g) PROVE g[i] \in Agents
  <2> DEFINE cands == WithRoom \ ({s.tree[a]} \cup Below(a))
             k == IF Cardinality(cands) < 2 THEN Cardinality(cands) ELSE 2
  <2>1. CASE g = <<>>  BY <1>4, <2>1
  <2>2. CASE g \in BestTwo(cands, s.tree[a])
    <3>1. g \in [1..k -> cands]  BY <2>2 DEF BestTwo
    <3>2. cands \subseteq Agents  BY <1>2 DEF WithRoom
    <3>3. Cardinality(cands) \in Nat  BY <3>2, NodesAssumption, FS_Subset, FS_CardinalityType
    <3>4. k \in Nat  BY <3>3
    <3> HIDE DEF k, cands
    <3> QED  BY <1>4, <3>1, <3>2, <3>4
  <2> QED  BY <1>4, <2>1, <2>2
<1>5. fallbackAddrs = [a \in Agents |-> fallbackAddrs[a]] /\ \A a \in Agents : fallbackAddrs[a] \in Given(a)
  BY <1>2
<1> HIDE DEF f, At, Given
<1>6. \A a \in Agents : \A i \in 1..Len(fallbackAddrs[a]) : fallbackAddrs[a][i] \in Agents
  BY <1>4, <1>5
<1>7. ASSUME NEW a \in Agents
      PROVE  /\ conn[f[a]].child = a /\ conn[f[a]].to = s.tree[a] /\ conn[f[a]].link = "up"
             /\ conn[f[a]].phase = IF a \in s.arriving THEN "hello" ELSE "serve"
  <2>1. conn[f[a]] = Connection(a, s.tree[a], "up", Phase0(a), "no")  BY <1>1, <1>2, <1>3
  <2> QED  BY <2>1, Fields
<1>8. ASSUME NEW c \in Conns, \A a \in Agents : f[a] # c
      PROVE  conn[c].phase = "gone" /\ conn[c].child = None /\ conn[c].to = None /\ conn[c].link = "cut"
  <2>1. conn[c] = Closed  BY <1>2, <1>8
  <2> QED  BY <2>1, ClosedFields
<1>9. StartsAs(s, f)  BY <1>1, <1>2, <1>5, <1>6, <1>7, <1>8 DEF StartsAs
<1> QED  BY <1>9

LEMMA StartBase ==
  ASSUME NEW s \in Scenarios, NEW f, StartsAs(s, f)
  PROVE  Shape
<1> USE NodesAssumption
<1>0. s.tree \in [Agents -> Agents \cup {Server}] /\ s.arriving \subseteq Agents  BY ScenariosAssumption
<1>1. MeshTypeOK  BY <1>0 DEF StartsAs, MeshTypeOK, PCs
<1>2. ASSUME NEW c \in Conns PROVE ConnOK(c)
  <2>1. wire[c] = <<>>  BY DEF StartsAs
  <2>2. CASE \A a \in Agents : f[a] # c  BY <2>1, <2>2 DEF StartsAs, ConnOK
  <2>3. ASSUME NEW a \in Agents, f[a] = c PROVE ConnOK(c)
    <3>1. /\ conn[c].child = a /\ conn[c].to = s.tree[a] /\ conn[c].link = "up"
          /\ conn[c].phase \in {"hello", "serve"}
      BY <2>3 DEF StartsAs
    <3>2. \A p \in Agents : Running(p)  BY DEF StartsAs, Running
    <3> QED  BY <1>0, <2>1, <3>1, <3>2 DEF ConnOK
  <2> QED  BY <2>2, <2>3
<1>3. ASSUME NEW x \in Agents PROVE AgentOK(x)  BY DEF StartsAs, AgentOK, Attached
<1> QED  BY <1>1, <1>2, <1>3 DEF Shape

-----------------------------------------------------------------------------
(***************************************************************************)
(* Agents connected in a circle.                                           *)
(***************************************************************************)
Ph(x) == conn[upstream[x]].phase
Busy(c) == \E m \in Reports : On(c, m)
Stirs(x) == Ph(x) = "hello" \/ Busy(upstream[x])

\* A report goes around in every circle, or a hello is on its way.
NoIdleCircle == \A S \in SUBSET Agents : Circle(S) => \E x \in S : Stirs(x)

LEMMA StartCircle ==
  ASSUME NEW s \in Scenarios, NEW f, StartsAs(s, f)
  PROVE  NoIdleCircle
<1> SUFFICES ASSUME NEW S \in SUBSET Agents, Circle(S) PROVE FALSE  BY DEF NoIdleCircle
<1>1. PICK a \in S : s.tree[a] \notin S  BY ScenariosAssumption DEF Circle
<1>2. To(a) = s.tree[a]  BY <1>1 DEF StartsAs, To
<1> QED  BY <1>1, <1>2 DEF Circle

\* The connection of a linked agent is its own.
LEMMA LinkedConn ==
  ASSUME BaseInv, NEW x \in Agents, Linked(x)
  PROVE  /\ upstream[x] \in Conns /\ conn[upstream[x]].child = x /\ Ph(x) # "gone"
         /\ pc[x] \in Attached
         /\ \/ To(x) \in Agents /\ Running(To(x)) /\ Ph(x) \in {"hello", "insert", "serve"}
            \/ To(x) = Server /\ Ph(x) \in {"hello", "serve"}
<1>1. upstream[x] \in Conns /\ AgentOK(x)  BY DEF Linked, BaseInv, MeshTypeOK
<1>2. ConnOK(upstream[x])  BY <1>1 DEF BaseInv
<1> QED  BY <1>1, <1>2 DEF AgentOK, ConnOK, Linked, To, Ph, Running

\* A circle after the step was one before, and stirs as before.
LEMMA CircleKept ==
  ASSUME BaseInv, NoIdleCircle, NEW S \in SUBSET Agents, Circle(S)',
         \A x \in S : Linked(x) /\ To(x) = To(x)' /\ (Stirs(x) => \E y \in S : Stirs(y)')
  PROVE  \E y \in S : Stirs(y)'
<1>1. Circle(S)  BY DEF Circle
<1> QED  BY <1>1 DEF NoIdleCircle

LEMMA AgentCircle ==
  ASSUME BaseInv, BaseInv', NoIdleCircle, NEW a \in Agents, AgentEffect(a)
  PROVE  NoIdleCircle'
<1> SUFFICES ASSUME NEW S \in SUBSET Agents, Circle(S)' PROVE \E y \in S : Stirs(y)'  BY DEF NoIdleCircle
<1>1. ASSUME NEW t \in Agents \cup {Server}, NEW c \in Conns, Opens(a, t, c) PROVE \E y \in S : Stirs(y)'
  <2>1. CASE a \in S
    <3>1. Ph(a)' = "hello"  BY <1>1 DEF Opens, Sets, Ph, BaseInv, MeshTypeOK
    <3> QED  BY <2>1, <3>1 DEF Stirs
  <2>2. CASE a \notin S
    <3>1. ASSUME NEW x \in S
          PROVE  Linked(x) /\ To(x) = To(x)' /\ (Stirs(x) => Stirs(x)')
      <4>1. x # a /\ Linked(x)'  BY <2>2, <3>1 DEF Circle
      <4>2. upstream'[x] = upstream[x] /\ upstream[x] # c /\ pc'[x] = pc[x] /\ wire' = wire
        BY <1>1, <4>1 DEF Opens, BaseInv, MeshTypeOK
      <4>3. upstream[x] # None  BY <4>1, <4>2 DEF Linked
      <4>4. conn'[upstream[x]] = conn[upstream[x]]
        BY <1>1, <4>2, <4>3 DEF Opens, Sets, BaseInv, MeshTypeOK
      <4> QED  BY <4>1, <4>2, <4>4 DEF Linked, To, Stirs, Ph, Busy, On, Running
    <3> QED  BY <3>1, CircleKept
  <2> QED  BY <2>1, <2>2
\* Nothing but pc, announcements and the tree changes.
<1>2. ASSUME UNCHANGED <<conn, wire>>,
             \A x \in Agents : (upstream'[x] = upstream[x] /\ (pc'[x] # "crashed" => pc[x] # "crashed")) \/ upstream'[x] = None
      PROVE  \E y \in S : Stirs(y)'
  <2>1. ASSUME NEW x \in S PROVE Linked(x) /\ To(x) = To(x)' /\ (Stirs(x) => Stirs(x)')
    <3>1. Linked(x)'  BY DEF Circle
    <3>2. upstream'[x] = upstream[x] /\ (pc'[x] # "crashed" => pc[x] # "crashed")  BY <1>2, <3>1 DEF Linked
    <3> QED  BY <1>2, <3>1, <3>2 DEF Linked, To, Stirs, Ph, Busy, On, Running
  <2> QED  BY <2>1, CircleKept
<1>3. ASSUME NEW l \in PCs, Moves(a, l) PROVE \E y \in S : Stirs(y)'
  BY <1>2, <1>3 DEF Moves, BaseInv, MeshTypeOK
<1>4. ASSUME NEW p \in Agents \cup {Server}, NEW l \in PCs, TakesParent(a, p, l) PROVE \E y \in S : Stirs(y)'
  BY <1>2, <1>4 DEF TakesParent, BaseInv, MeshTypeOK
<1>5. CASE Announces(a)  BY <1>2, <1>5 DEF Announces, BaseInv, MeshTypeOK
<1>6. CASE Finishes(a)  BY <1>2, <1>6 DEF Finishes, BaseInv, MeshTypeOK
<1>7. CASE Loses(a)  BY <1>2, <1>7 DEF Loses, BaseInv, MeshTypeOK
<1>8. CASE Restarts(a)
  <2>1. upstream[a] = None  BY <1>8 DEF Restarts, BaseInv, AgentOK, Attached
  <2> QED  BY <1>2, <1>8, <2>1 DEF Restarts, BaseInv, MeshTypeOK
<1>9. ASSUME NEW z \in Agents, Notifies(a, z) PROVE \E y \in S : Stirs(y)'
  <2>1. ASSUME NEW x \in S PROVE Linked(x) /\ To(x) = To(x)' /\ (Stirs(x) => Stirs(x)')
    <3>1. Linked(x)'  BY DEF Circle
    <3>2. UNCHANGED <<pc, upstream, conn>>  BY <1>9 DEF Notifies
    <3>3. Linked(x) /\ To(x) = To(x)' /\ Ph(x)' = Ph(x)  BY <3>1, <3>2 DEF Linked, To, Ph, Running
    <3>4. upstream[x] \in Conns  BY <3>3, LinkedConn
    <3>5. \A m \in Reports : On(upstream[x], m) => On(upstream[x], m)'
      <4> DEFINE d == upstream[x]
      <4>1. \A m \in Reports : On(d, m) => \E i \in 1..Len(wire'[d]) : wire'[d][i] = m
        BY <1>9, <3>4 DEF Notifies, Sends, On
      <4> QED  BY <3>2, <4>1 DEF On
    <3> QED  BY <3>2, <3>3, <3>5 DEF Stirs, Busy
  <2> QED  BY <2>1, CircleKept
<1> QED  BY <1>1, <1>3, <1>4, <1>5, <1>6, <1>7, <1>8, <1>9 DEF AgentEffect

LEMMA HandlerCircle ==
  ASSUME BaseInv, BaseInv', NoIdleCircle, NEW c \in Conns,
         ServerEffect(c) \/ \E p \in Agents : RelayEffect(p, c)
  PROVE  NoIdleCircle'
<1> SUFFICES ASSUME NEW S \in SUBSET Agents, Circle(S)' PROVE \E y \in S : Stirs(y)'  BY DEF NoIdleCircle
<1>0. UNCHANGED <<pc, upstream>>
  BY DEF ServerEffect, Accepts, Closes, Records, Discounts, Refuses, RelayEffect, Hellos, Inserts, Drops,
         TakesOut, TellsLoss, Forwards, Misses, agentPart
\* An agent linked after the step, whose connection is another or keeps its ends.
<1>1. ASSUME NEW x \in S, \/ upstream[x] # c /\ \A d \in Conns \ {c} : conn'[d] = conn[d]
                          \/ conn'[c].link = conn[c].link /\ conn'[c].to = conn[c].to /\ upstream[x] = c
      PROVE  Linked(x) /\ To(x) = To(x)' /\ upstream[x] \in Conns /\ Linked(x)'
  <2>1. Linked(x)'  BY DEF Circle
  <2>2. upstream'[x] \in Conns  BY <2>1 DEF Linked, BaseInv, MeshTypeOK
  <2> QED  BY <1>0, <1>1, <2>1, <2>2 DEF Linked, To, Running
<1>2. ASSUME NEW p \in S, Linked(p), upstream[p] \in Conns, NEW m \in Reports,
             \E i \in 1..Len(wire'[upstream[p]]) : wire'[upstream[p]][i] = m
      PROVE  \E y \in S : Stirs(y)'
  BY <1>0, <1>2 DEF Stirs, Busy, On
\* The connection is still what it was, but for reports from elsewhere.
<1>3. ASSUME \A d \in Conns \ {c} : conn'[d] = conn[d],
             conn'[c].link = conn[c].link /\ conn'[c].to = conn[c].to,
             (conn[c].phase = "hello" => conn'[c].phase = "hello") \/ conn[c].to \notin S,
             \A d \in Conns : \A m \in Reports : On(d, m) => On(d, m)'
      PROVE  \E y \in S : Stirs(y)'
  <2>1. ASSUME NEW x \in S PROVE Linked(x) /\ To(x) = To(x)' /\ (Stirs(x) => Stirs(x)')
    <3>1. Linked(x) /\ To(x) = To(x)' /\ upstream[x] \in Conns /\ Linked(x)'  BY <1>1, <1>3
    <3>2. To(x) \in S  BY <3>1 DEF Circle
    <3>3. Ph(x) = "hello" => Ph(x)' = "hello"  BY <1>0, <1>3, <3>1, <3>2 DEF Ph, To
    <3>4. Busy(upstream[x]) => Busy(upstream[x])'
      <4> DEFINE d == upstream[x]
      <4>1. \A m \in Reports : On(d, m) => \E i \in 1..Len(wire'[d]) : wire'[d][i] = m
        BY <1>3, <3>1 DEF On
      <4> QED  BY <1>0, <4>1 DEF Busy, On
    <3> QED  BY <3>1, <3>3, <3>4 DEF Stirs
  <2> QED  BY <2>1, CircleKept
<1>4. CASE conn[c].to = Server
  <2>1. conn[c].to \notin S  BY <1>4, NodesAssumption
  <2>2. ASSUME NEW x \in S PROVE upstream[x] # c
    <3>1. Linked(x)' /\ To(x)' \in S  BY DEF Circle
    <3>2. conn'[c].to \notin Agents
      <4>1. ServerEffect(c)
        BY <1>4, NodesAssumption DEF RelayEffect, Hellos, Inserts, Drops, TakesOut, TellsLoss, Forwards, Misses, Serves
      <4> QED  BY <1>4, <4>1, NodesAssumption DEF ServerEffect, Accepts, Closes, Records, Discounts, Refuses, Sets
    <3> QED  BY <1>0, <3>1, <3>2 DEF To
  <2>3. \A d \in Conns \ {c} : conn'[d] = conn[d] /\ \A m \in Reports : On(d, m) => On(d, m)'
    <3>1. ServerEffect(c)
      BY <1>4, NodesAssumption DEF RelayEffect, Hellos, Inserts, Drops, TakesOut, TellsLoss, Forwards, Misses, Serves
    <3>2. CASE Accepts(c)  BY <3>2 DEF Accepts, Sets, On
    <3>3. CASE Closes(c)  BY <3>3 DEF Closes, Sets, Clears
    <3>4. ASSUME NEW m \in Reports, Takes(c, m), conn' = conn
          PROVE  \A d \in Conns \ {c} : conn'[d] = conn[d] /\ \A n \in Reports : On(d, n) => On(d, n)'
      BY <3>4 DEF Takes
    <3> QED  BY <3>1, <3>2, <3>3, <3>4 DEF ServerEffect, Records, Discounts, Refuses
  <2>4. ASSUME NEW x \in S PROVE Linked(x) /\ To(x) = To(x)' /\ (Stirs(x) => Stirs(x)')
    <3>1. Linked(x) /\ To(x) = To(x)' /\ upstream[x] \in Conns \ {c}  BY <1>1, <2>2, <2>3
    <3> DEFINE d == upstream[x]
    <3>2. \A m \in Reports : On(d, m) => \E i \in 1..Len(wire'[d]) : wire'[d][i] = m
      BY <2>3, <3>1 DEF On
    <3>3. conn'[d] = conn[d]  BY <2>3, <3>1
    <3> QED  BY <1>0, <3>1, <3>2, <3>3 DEF Stirs, Ph, Busy, On
  <2> QED  BY <2>4, CircleKept
<1>5. ASSUME NEW p \in Agents, RelayEffect(p, c) PROVE \E y \in S : Stirs(y)'
  <2>0. conn[c].to = p
    BY <1>5 DEF RelayEffect, Hellos, Inserts, Drops, TakesOut, TellsLoss, Forwards, Misses, Serves
  \* What p sends, if it is linked, it sends into its upstream.
  <2>1. ASSUME p \in S, NEW m \in Reports, Sends(p, m), UNCHANGED <<pc, upstream>>, Linked(p), upstream[p] \in Conns
        PROVE  \E y \in S : Stirs(y)'
    <3> DEFINE d == upstream[p]
    <3>1. d \in Conns /\ conn[d].link = "up"  BY <2>1 DEF Linked
    <3>2. \E i \in 1..Len(wire'[d]) : wire'[d][i] = m  BY <2>1, <3>1 DEF Sends, On
    <3> QED  BY <1>2, <2>1, <3>2
  \* A connection that goes was cut.
  <2>2. ASSUME Sets(c, conn'[c].child, conn'[c].to, "cut", conn'[c].phase),
               \A d \in Conns \ {c} : \A m \in Reports : On(d, m) => On(d, m)'
        PROVE  \E y \in S : Stirs(y)'
    <3>1. ASSUME NEW x \in S PROVE Linked(x) /\ To(x) = To(x)' /\ (Stirs(x) => Stirs(x)')
      <4>1. Linked(x)'  BY DEF Circle
      <4>2. upstream[x] # c  BY <1>0, <2>2, <4>1 DEF Linked, Sets
      <4>3. Linked(x) /\ To(x) = To(x)' /\ upstream[x] \in Conns \ {c}  BY <1>1, <2>2, <4>2 DEF Sets
      <4> DEFINE d == upstream[x]
      <4>4. \A m \in Reports : On(d, m) => \E i \in 1..Len(wire'[d]) : wire'[d][i] = m
        BY <2>2, <4>3 DEF On
      <4>5. conn'[d] = conn[d]  BY <2>2, <4>3 DEF Sets
      <4> QED  BY <1>0, <4>3, <4>4, <4>5 DEF Stirs, Ph, Busy, On
    <3> QED  BY <3>1, CircleKept
  <2>3. CASE Hellos(p, c)
    <3>1. conn[c].child \in Agents  BY <2>3, ConnIs DEF Hellos, Serves
    <3>2. /\ \A d \in Conns \ {c} : conn'[d] = conn[d]
          /\ conn'[c].link = conn[c].link /\ conn'[c].to = conn[c].to
      BY <2>0, <2>3 DEF Hellos, Sets
    <3>3. CASE p \in S
      <4>1. Linked(p) /\ upstream[p] \in Conns  BY <1>1, <3>2, <3>3
      <4>2. Attach(conn[c].child, p) \in Reports  BY <3>1, ReportFields
      <4> QED  BY <1>0, <2>1, <2>3, <3>3, <4>1, <4>2 DEF Hellos
    <3>4. CASE p \notin S
      BY <1>3, <2>0, <2>3, <3>2, <3>4 DEF Hellos, Sends
    <3> QED  BY <3>3, <3>4
  <2>4. CASE Inserts(p, c)
    BY <1>3, <2>0, <2>4 DEF Inserts, Sets, On, Serves
  <2>5. CASE Drops(p, c)  BY <2>2, <2>5 DEF Drops, Sets, Clears
  <2>6. CASE TakesOut(p, c)
    <3>1. conn[c].link = "cut"  BY <2>6 DEF TakesOut, Serves, BaseInv, ConnOK
    <3> QED  BY <2>2, <2>6, <3>1 DEF TakesOut, Sets, On
  <2>7. CASE TellsLoss(p, c)  BY <2>2, <2>7 DEF TellsLoss, Sets, Sends
  <2>8. ASSUME NEW m \in Reports, Forwards(p, c, m) PROVE \E y \in S : Stirs(y)'
    <3>1. conn' = conn  BY <2>8 DEF Forwards
    <3>2. CASE p \in S
      <4>1. Linked(p) /\ upstream[p] \in Conns  BY <1>1, <3>1, <3>2
      <4> DEFINE d == upstream[p]
      <4>2. \A e \in Conns : e = upstream[p] => On(e, m)'  BY <2>8 DEF Forwards, Passes
      <4>3. \E i \in 1..Len(wire'[d]) : wire'[d][i] = m  BY <4>1, <4>2 DEF On
      <4> QED  BY <1>2, <3>2, <4>1, <4>3
    <3>3. CASE p \notin S
      <4>1. ASSUME NEW x \in S PROVE Linked(x) /\ To(x) = To(x)' /\ (Stirs(x) => Stirs(x)')
        <5>1. Linked(x) /\ To(x) = To(x)' /\ upstream[x] \in Conns /\ Linked(x)' /\ To(x)' \in S
          BY <1>1, <3>1 DEF Circle
        <5>2. upstream[x] # c  BY <2>0, <3>3, <5>1 DEF To
        <5> DEFINE d == upstream[x]
        <5>3. \A n \in Reports : On(d, n) => \E i \in 1..Len(wire'[d]) : wire'[d][i] = n
          BY <2>8, <5>1, <5>2 DEF Forwards, Passes, On
        <5> QED  BY <1>0, <3>1, <5>1, <5>3 DEF Stirs, Ph, Busy, On
      <4> QED  BY <4>1, CircleKept
    <3> QED  BY <3>2, <3>3
  <2>9. ASSUME NEW m \in Reports, Misses(p, c, m) PROVE \E y \in S : Stirs(y)'
    <3>1. conn' = conn  BY <2>9 DEF Misses
    <3>2. p \notin S
      <4>1. ASSUME p \in S PROVE FALSE
        <5>1. Linked(p)  BY <1>1, <3>1, <4>1
        <5> QED  BY <2>9, <5>1 DEF Misses, Linked
      <4> QED  BY <4>1
    <3>3. ASSUME NEW x \in S PROVE Linked(x) /\ To(x) = To(x)' /\ (Stirs(x) => Stirs(x)')
      <4>1. Linked(x) /\ To(x) = To(x)' /\ upstream[x] \in Conns /\ Linked(x)' /\ To(x)' \in S
        BY <1>1, <3>1 DEF Circle
      <4>2. upstream[x] # c  BY <2>0, <3>2, <4>1 DEF To
      <4> DEFINE d == upstream[x]
      <4>3. \A n \in Reports : On(d, n) => \E i \in 1..Len(wire'[d]) : wire'[d][i] = n
        BY <2>9, <4>1, <4>2 DEF Misses, Takes, On
      <4> QED  BY <1>0, <3>1, <4>1, <4>3 DEF Stirs, Ph, Busy, On
    <3> QED  BY <3>3, CircleKept
  <2> QED  BY <1>5, <2>3, <2>4, <2>5, <2>6, <2>7, <2>8, <2>9 DEF RelayEffect
<1>6. ServerEffect(c) => conn[c].to = Server
  BY DEF ServerEffect, Accepts, Closes, Records, Discounts, Refuses
<1> QED  BY <1>4, <1>5, <1>6

LEMMA FaultCircle ==
  ASSUME BaseInv, BaseInv', NoIdleCircle,
         (\E c \in Conns : Cuts(c)) \/ (\E a \in Agents : Crashes(a)) \/ Stutters
  PROVE  NoIdleCircle'
<1> SUFFICES ASSUME NEW S \in SUBSET Agents, Circle(S)' PROVE \E y \in S : Stirs(y)'  BY DEF NoIdleCircle
<1>1. ASSUME NEW c \in Conns, Cuts(c) PROVE \E y \in S : Stirs(y)'
  <2>1. ASSUME NEW x \in S PROVE Linked(x) /\ To(x) = To(x)' /\ (Stirs(x) => Stirs(x)')
    <3>1. Linked(x)'  BY DEF Circle
    <3>2. UNCHANGED <<pc, upstream, wire>> /\ upstream[x] # c /\ \A d \in Conns \ {c} : conn'[d] = conn[d]
      BY <1>1, <3>1 DEF Cuts, Sets, Linked
    <3>3. upstream[x] \in Conns  BY <3>1, <3>2 DEF Linked, BaseInv, MeshTypeOK
    <3> QED  BY <3>1, <3>2, <3>3 DEF Linked, To, Stirs, Ph, Busy, On, Running
  <2> QED  BY <2>1, CircleKept
<1>2. ASSUME NEW a \in Agents, Crashes(a) PROVE \E y \in S : Stirs(y)'
  <2>1. ASSUME NEW x \in S PROVE Linked(x) /\ To(x) = To(x)' /\ (Stirs(x) => Stirs(x)')
    <3>1. Linked(x)'  BY DEF Circle
    <3>2. x # a  BY <1>2, <3>1 DEF Crashes, Linked, Running, BaseInv, MeshTypeOK
    <3>3. upstream'[x] = upstream[x] /\ pc'[x] = pc[x]  BY <1>2, <3>2 DEF Crashes, BaseInv, MeshTypeOK
    <3> DEFINE d == upstream[x]
    <3>4. d \in Conns /\ conn'[d].link = "up"  BY <3>1, <3>3 DEF Linked, BaseInv, MeshTypeOK
    <3>5. conn[d].to # a /\ conn'[d].to = conn[d].to /\ conn'[d].phase = conn[d].phase /\ conn[d].link = "up"
      BY <1>2, <3>4 DEF Crashes
    <3>6. wire'[d] = wire[d]  BY <1>2, <3>4, <3>5 DEF Crashes
    <3> QED  BY <3>1, <3>3, <3>5, <3>6 DEF Linked, To, Stirs, Ph, Busy, On, Running
  <2> QED  BY <2>1, CircleKept
<1>3. CASE Stutters
  <2>1. ASSUME NEW x \in S PROVE Linked(x) /\ To(x) = To(x)' /\ (Stirs(x) => Stirs(x)')
    <3>1. Linked(x)'  BY DEF Circle
    <3> QED  BY <1>3, <3>1 DEF Stutters, agentPart, Linked, To, Stirs, Ph, Busy, On, Running
  <2> QED  BY <2>1, CircleKept
<1> QED  BY <1>1, <1>2, <1>3

LEMMA CircleStep == BaseInv /\ BaseInv' /\ NoIdleCircle /\ [Next]_vars => NoIdleCircle'
<1> SUFFICES ASSUME BaseInv, BaseInv', NoIdleCircle, [Next]_vars PROVE NoIdleCircle'  OBVIOUS
<1>1. Effect \/ Stutters  BY StepEffects
<1> QED  BY <1>1, AgentCircle, HandlerCircle, FaultCircle DEF Effect

(***************************************************************************)
(* While none of the excepted races has happened.                          *)
(***************************************************************************)
Pending(x, p) == (\E d \in Conns : On(d, Attach(x, p))) \/ x \in announcing[p]
Leaving(x) == \E d \in Conns : On(d, Detach(x))

\* A running agent has one connection, and its relay knows it.
LoneAt(c) == conn[c].phase # "gone" /\ Running(conn[c].child) => upstream[conn[c].child] = c
EnteredAt(c) ==
  conn[c].to \in Agents /\ conn[c].phase = "serve" /\ Running(conn[c].child) =>
    downstreams[conn[c].to][conn[c].child] = c

\* What is reported of a running agent is where it is, or it has yet to notice.
SpokenAt(x) ==
  Running(x) =>
    /\ \A p \in Agents : Pending(x, p) => upstream[x] # None /\ (conn[upstream[x]].link = "cut" \/ To(x) = p)
    /\ Leaving(x) => upstream[x] # None /\ conn[upstream[x]].link = "cut"

\* An agent that is to connect to the server is a root of the recorded tree.
LeaderAt(x) ==
  Running(x) /\ pc[x] # "register" =>
    /\ Linked(x) /\ To(x) = Server => parentAddr[x] = Server
    /\ parentAddr[x] = Server =>
         /\ parent[x] = None /\ pc[x] \notin {"fallback", "ask"}
         /\ upstream[x] # None => To(x) \notin Agents
         /\ \A p \in Agents : ~Pending(x, p)

Tidy ==
  /\ \A c \in Conns : LoneAt(c) /\ EnteredAt(c)
  /\ \A x \in Agents : SpokenAt(x) /\ LeaderAt(x)

LEMMA InFlightIs ==
  ASSUME BaseInv, NEW x \in Agents, ~InFlight(x)
  PROVE  ~Leaving(x) /\ \A p \in Agents : ~Pending(x, p)
BY ReportFields DEF InFlight, Leaving, Pending, On

LEMMA StartTidy ==
  ASSUME NEW s \in Scenarios, NEW f, StartsAs(s, f)
  PROVE  Tidy
<1> USE NodesAssumption
<1>0. s.tree \in [Agents -> Agents \cup {Server}] /\ s.arriving \subseteq Agents  BY ScenariosAssumption
<1>1. ASSUME NEW c \in Conns PROVE LoneAt(c) /\ EnteredAt(c)
  <2>1. CASE \A a \in Agents : f[a] # c  BY <2>1 DEF StartsAs, LoneAt, EnteredAt
  <2>2. ASSUME NEW a \in Agents, f[a] = c PROVE LoneAt(c) /\ EnteredAt(c)
    BY <1>0, <2>2 DEF StartsAs, LoneAt, EnteredAt
  <2> QED  BY <2>1, <2>2
<1>2. ASSUME NEW x \in Agents PROVE SpokenAt(x) /\ LeaderAt(x)
  <2>1. ~Leaving(x) /\ \A p \in Agents : ~Pending(x, p)
    BY DEF StartsAs, Leaving, Pending, On
  <2>2. /\ pc[x] \in {"announce", "main"} /\ parentAddr[x] = s.tree[x] /\ To(x) = s.tree[x]
        /\ parent[x] = IF s.tree[x] = Server THEN None ELSE s.tree[x]
    BY <1>0 DEF StartsAs, To
  <2> QED  BY <2>1, <2>2 DEF SpokenAt, LeaderAt
<1> QED  BY <1>1, <1>2 DEF Tidy

\* An agent to which nothing happens, but that it may be cut off and that less is
\* reported of it.
LEMMA AgentTidy ==
  ASSUME BaseInv, Tidy, NEW x \in Agents,
         pc'[x] = pc[x], upstream'[x] = upstream[x], parentAddr'[x] = parentAddr[x], parent'[x] = parent[x],
         \A u \in Conns : u = upstream[x] =>
           \/ conn'[u].link = conn[u].link /\ conn'[u].to = conn[u].to
           \/ conn'[u].link = "cut" /\ conn'[u].to \in {conn[u].to, None},
         \A p \in Agents : Pending(x, p)' => Pending(x, p),
         Leaving(x)' => Leaving(x)
  PROVE  SpokenAt(x)' /\ LeaderAt(x)'
<1>0. SpokenAt(x) /\ LeaderAt(x) /\ upstream[x] \in Conns \cup {None}  BY DEF Tidy, BaseInv, MeshTypeOK
<1>1. Running(x)' <=> Running(x)  BY DEF Running
<1>2. CASE upstream[x] = None
  <2>1. ~Linked(x)'  BY <1>2 DEF Linked
  <2> QED  BY <1>0, <1>1, <1>2, <2>1, NodesAssumption DEF SpokenAt, LeaderAt
<1>3. ASSUME NEW u \in Conns, u = upstream[x], upstream[x] # None PROVE SpokenAt(x)' /\ LeaderAt(x)'
  <2>1. \/ conn'[u].link = conn[u].link /\ conn'[u].to = conn[u].to
        \/ conn'[u].link = "cut" /\ conn'[u].to \in {conn[u].to, None}
    BY <1>3
  <2>2. Linked(x)' => Linked(x) /\ To(x)' = To(x)  BY <1>1, <1>3, <2>1 DEF Linked, To
  <2>3. SpokenAt(x)'  BY <1>0, <1>1, <1>3, <2>1 DEF SpokenAt, To
  <2>4. To(x)' \in {To(x), None}  BY <1>3, <2>1 DEF To
  <2>5. LeaderAt(x)'  BY <1>0, <1>1, <2>2, <2>4, NodesAssumption DEF LeaderAt
  <2> QED  BY <2>3, <2>5
<1> QED  BY <1>0, <1>2, <1>3

LEMMA OpensTidy ==
  ASSUME BaseInv, BaseInv', Tidy, NEW a \in Agents, NEW t \in Agents \cup {Server}, NEW c \in Conns, Opens(a, t, c)
  PROVE  Tidy'
<1> USE NodesAssumption
<1>0. pc \in [Agents -> PCs] /\ upstream \in [Agents -> Conns \cup {None}]  BY DEF BaseInv, MeshTypeOK
<1>1. /\ pc' = [pc EXCEPT ![a] = "announce"] /\ upstream' = [upstream EXCEPT ![a] = c] /\ upstream[a] = None
      /\ Sets(c, a, t, "up", "hello")
      /\ UNCHANGED <<parentAddr, announcing, downstreams, wire, parent>>
  BY DEF Opens, serverPart
<1>2. pc[a] \in {"primary", "assigned", "fallback"} /\ Running(a)  BY DEF Opens, Running
<1>3. \A x \in Agents : x # a => pc'[x] = pc[x] /\ upstream'[x] = upstream[x] /\ upstream[x] # c
  BY <1>0, <1>1 DEF Opens
<1>4. \A x, p \in Agents : (Pending(x, p)' => Pending(x, p)) /\ (Leaving(x)' => Leaving(x))
  BY <1>1 DEF Pending, Leaving, On
<1>5. ASSUME NEW d \in Conns PROVE LoneAt(d)' /\ EnteredAt(d)'
  <2>1. CASE d = c  BY <1>0, <1>1, <2>1 DEF Sets, LoneAt, EnteredAt
  <2>2. CASE d # c
    <3>1. conn'[d] = conn[d]  BY <1>1, <2>2 DEF Sets
    <3>2. LoneAt(d) /\ EnteredAt(d) /\ (conn[d].phase # "gone" => conn[d].child \in Agents)
      BY ConnIs DEF Tidy
    <3>3. conn[d].phase # "gone" => conn[d].child # a  BY <1>1, <1>2, <3>2 DEF LoneAt
    <3> QED  BY <1>1, <1>3, <3>1, <3>2, <3>3 DEF LoneAt, EnteredAt, Running
  <2> QED  BY <2>1, <2>2
<1>6. ASSUME NEW x \in Agents PROVE SpokenAt(x)' /\ LeaderAt(x)'
  <2>1. CASE x # a
    <3>1. \A u \in Conns : u = upstream[x] => conn'[u] = conn[u]  BY <1>1, <1>3, <2>1 DEF Sets
    <3> QED  BY <1>1, <1>3, <1>4, <2>1, <3>1, AgentTidy
  <2>2. CASE x = a
    <3>1. SpokenAt(a) /\ LeaderAt(a)  BY DEF Tidy
    <3>2. ~Leaving(a)' /\ \A p \in Agents : ~Pending(a, p)'  BY <1>1, <1>2, <1>4, <3>1 DEF SpokenAt
    <3>3. SpokenAt(a)'  BY <3>2 DEF SpokenAt
    <3>4. upstream'[a] = c /\ pc'[a] = "announce" /\ conn'[c].to = t  BY <1>0, <1>1 DEF Sets
    <3>5. t = Server => parentAddr[a] = Server  BY DEF Opens
    <3>6. parentAddr[a] = Server => t = Server /\ parent[a] = None
      BY <1>2, <3>1 DEF Opens, LeaderAt
    <3>7. LeaderAt(a)'  BY <1>1, <3>2, <3>4, <3>5, <3>6 DEF LeaderAt, To
    <3> QED  BY <2>2, <3>3, <3>7
  <2> QED  BY <2>1, <2>2
<1> QED  BY <1>5, <1>6 DEF Tidy

\* Neither connections nor upstreams change, except that a has none any more.
LEMMA ConnsTidy ==
  ASSUME BaseInv, Tidy, UNCHANGED <<conn, downstreams>>,
         \A x \in Agents : Running(x)' =>
            \/ Running(x) /\ upstream'[x] = upstream[x]
            \/ \A c \in Conns : conn[c].phase # "gone" => conn[c].child # x
  PROVE  \A c \in Conns : LoneAt(c)' /\ EnteredAt(c)'
<1> SUFFICES ASSUME NEW c \in Conns PROVE LoneAt(c)' /\ EnteredAt(c)'  OBVIOUS
<1>1. LoneAt(c) /\ EnteredAt(c) /\ (conn[c].phase # "gone" => conn[c].child \in Agents)  BY ConnIs DEF Tidy
<1> DEFINE x == conn[c].child
<1>2. CASE conn[c].phase = "gone"  BY <1>2 DEF LoneAt, EnteredAt
<1>3. CASE conn[c].phase # "gone" /\ pc'[x] # "crashed"
  <2>1. Running(x) /\ upstream'[x] = upstream[x]
    <3>1. x \in Agents  BY <1>1, <1>3
    <3>2. \A y \in Agents : pc'[y] # "crashed" =>
            \/ Running(y) /\ upstream'[y] = upstream[y]
            \/ \A d \in Conns : conn[d].phase # "gone" => conn[d].child # y
      BY DEF Running
    <3> QED  BY <1>3, <3>1, <3>2
  <2> QED  BY <1>1, <2>1 DEF LoneAt, EnteredAt
<1>4. CASE pc'[x] = "crashed"  BY <1>4 DEF LoneAt, EnteredAt, Running
<1> QED  BY <1>2, <1>3, <1>4

LEMMA AgentStepTidy ==
  ASSUME BaseInv, BaseInv', Tidy, races' = {}, NEW a \in Agents, AgentEffect(a)
  PROVE  Tidy'
<1> USE NodesAssumption
<1>0. pc \in [Agents -> PCs] /\ upstream \in [Agents -> Conns \cup {None}]  BY DEF BaseInv, MeshTypeOK
<1>1. \A t \in Agents \cup {Server} : \A c \in Conns : Opens(a, t, c) => Tidy'  BY OpensTidy
<1>b. ASSUME UNCHANGED <<wire, announcing>>
      PROVE \A x, p \in Agents : (Pending(x, p)' <=> Pending(x, p)) /\ (Leaving(x)' <=> Leaving(x))
  BY <1>b DEF Pending, Leaving, On
<1>c. SpokenAt(a) /\ LeaderAt(a)  BY DEF Tidy
<1>2. ASSUME NEW l \in PCs, Moves(a, l) PROVE Tidy'
  <2>1. /\ pc' = [pc EXCEPT ![a] = l]
        /\ UNCHANGED <<parentAddr, upstream, announcing, downstreams, conn, wire, parent>>
    BY <1>2 DEF Moves, serverPart
  <2>2. Running(a) /\ l # "crashed"  BY <1>2 DEF Moves, Running
  <2>3. \A c \in Conns : LoneAt(c)' /\ EnteredAt(c)'
    <3>1. \A x \in Agents : Running(x)' => Running(x)  BY <1>0, <2>1, <2>2 DEF Running
    <3> QED  BY <2>1, <3>1, ConnsTidy
  <2>4. ASSUME NEW x \in Agents, x # a PROVE SpokenAt(x)' /\ LeaderAt(x)'
    <3>1. pc'[x] = pc[x]  BY <1>0, <2>1, <2>4
    <3> QED  BY <1>b, <2>1, <3>1, AgentTidy
  <2>5. SpokenAt(a)'  BY <1>b, <1>c, <2>1, <2>2 DEF SpokenAt, To
  <2>6. LeaderAt(a)'
    <3>1. pc'[a] = l  BY <1>0, <2>1
    <3>2. l = "register" \/ parentAddr[a] # Server  BY <1>2, <1>c, <2>2 DEF Moves, LeaderAt
    <3>3. ~Linked(a)'  BY <1>0, <1>2, <2>1 DEF Moves, Linked, BaseInv, AgentOK, Attached
    <3> QED  BY <2>1, <3>1, <3>2, <3>3 DEF LeaderAt
  <2> QED  BY <2>3, <2>4, <2>5, <2>6 DEF Tidy
<1>3. ASSUME NEW p \in Agents \cup {Server}, NEW l \in PCs, TakesParent(a, p, l) PROVE Tidy'
  <2>1. /\ pc' = [pc EXCEPT ![a] = l] /\ parentAddr' = [parentAddr EXCEPT ![a] = p]
        /\ parent' = [parent EXCEPT ![a] = IF p = Server THEN None ELSE p]
        /\ UNCHANGED <<upstream, announcing, downstreams, conn, wire>>
        /\ l \in {"assigned", "primary"}
    BY <1>3 DEF TakesParent
  <2>2. Running(a)  BY <1>3 DEF TakesParent, Running
  <2>3. \A c \in Conns : LoneAt(c)' /\ EnteredAt(c)'
    <3>1. \A x \in Agents : Running(x)' => Running(x)  BY <1>0, <2>1, <2>2 DEF Running
    <3> QED  BY <2>1, <3>1, ConnsTidy
  <2>4. ASSUME NEW x \in Agents, x # a PROVE SpokenAt(x)' /\ LeaderAt(x)'
    <3>1. pc'[x] = pc[x] /\ parentAddr'[x] = parentAddr[x] /\ parent'[x] = parent[x]
      BY <2>1, <2>4 DEF BaseInv, MeshTypeOK
    <3> QED  BY <1>b, <2>1, <3>1, AgentTidy
  <2>5. upstream[a] = None  BY <1>3 DEF TakesParent, BaseInv, AgentOK, Attached
  <2>6. ~Leaving(a)' /\ \A q \in Agents : ~Pending(a, q)'  BY <1>b, <1>c, <2>1, <2>2, <2>5 DEF SpokenAt
  <2>7. LeaderAt(a)'
    <3>1. pc'[a] = l /\ parentAddr'[a] = p /\ parent'[a] = IF p = Server THEN None ELSE p
      BY <2>1 DEF BaseInv, MeshTypeOK
    <3>2. ~Linked(a)' /\ upstream'[a] = None  BY <2>1, <2>5 DEF Linked
    <3> QED  BY <2>1, <2>6, <3>1, <3>2 DEF LeaderAt
  <2>8. SpokenAt(a)'  BY <2>6 DEF SpokenAt
  <2> QED  BY <2>3, <2>4, <2>7, <2>8 DEF Tidy
<1>4. CASE Announces(a)
  <2>1. /\ pc[a] = "announce" /\ pc' = [pc EXCEPT ![a] = "report"]
        /\ announcing' = [announcing EXCEPT ![a] = {x \in Agents : downstreams[a][x] # None}]
        /\ UNCHANGED <<parentAddr, upstream, downstreams, conn, wire, parent>>
    BY <1>4 DEF Announces, serverPart
  <2>2. \A c \in Conns : LoneAt(c)' /\ EnteredAt(c)'
    <3>1. \A x \in Agents : Running(x)' => Running(x)  BY <1>0, <2>1 DEF Running
    <3> QED  BY <2>1, <3>1, ConnsTidy
  <2>3. \A x \in Agents : /\ pc'[x] \in {pc[x], "report"}
                          /\ Running(x)' <=> Running(x)
                          /\ (pc'[x] = "register" <=> pc[x] = "register")
                          /\ (pc'[x] \in {"fallback", "ask"} => pc[x] \in {"fallback", "ask"})
    BY <1>0, <2>1 DEF Running
  <2>4. ASSUME NEW x \in Agents, NEW p \in Agents, Pending(x, p)', ~Pending(x, p), Running(x)
        PROVE  p = a /\ upstream[x] # None /\ To(x) = a
    <3>1. p = a /\ downstreams[a][x] # None
      BY <2>1, <2>4 DEF Pending, On, BaseInv, MeshTypeOK
    <3> DEFINE d == downstreams[a][x]
    <3>2. d \in Conns /\ conn[d].child = x /\ conn[d].to = a /\ conn[d].phase # "gone"
      BY <3>1 DEF BaseInv, RelayInv, EntriesAreServed, TablesTypeOK
    <3>3. upstream[x] = d  BY <2>4, <3>2 DEF Tidy, LoneAt
    <3> QED  BY <3>1, <3>2, <3>3 DEF To
  <2>5. ASSUME NEW x \in Agents PROVE SpokenAt(x)' /\ LeaderAt(x)'
    <3>1. SpokenAt(x) /\ LeaderAt(x)  BY DEF Tidy
    <3>2. Leaving(x)' <=> Leaving(x)  BY <2>1 DEF Leaving, On
    <3>3. SpokenAt(x)'  BY <2>1, <2>3, <2>4, <3>1, <3>2 DEF SpokenAt, To
    <3>4. Running(x) /\ pc[x] # "register" /\ parentAddr[x] = Server => \A p \in Agents : ~Pending(x, p)'
      BY <2>4, <3>1 DEF LeaderAt
    <3>5. Linked(x)' <=> Linked(x)  BY <2>1, <2>3 DEF Linked
    <3>6. LeaderAt(x)'  BY <2>1, <2>3, <3>1, <3>4, <3>5 DEF LeaderAt, To
    <3> QED  BY <3>3, <3>6
  <2> QED  BY <2>2, <2>5 DEF Tidy
<1>5. CASE Finishes(a)
  <2>1. /\ pc[a] = "report" /\ pc' = [pc EXCEPT ![a] = "main"]
        /\ UNCHANGED <<parentAddr, upstream, announcing, downstreams, conn, wire, parent>>
    BY <1>5 DEF Finishes, serverPart
  <2>2. \A c \in Conns : LoneAt(c)' /\ EnteredAt(c)'
    <3>1. \A x \in Agents : Running(x)' => Running(x)  BY <1>0, <2>1 DEF Running
    <3> QED  BY <2>1, <3>1, ConnsTidy
  <2>3. ASSUME NEW x \in Agents, x # a PROVE SpokenAt(x)' /\ LeaderAt(x)'
    <3>1. pc'[x] = pc[x]  BY <1>0, <2>1, <2>3
    <3> QED  BY <1>b, <2>1, <3>1, AgentTidy
  <2>4. pc'[a] = "main" /\ Running(a)  BY <1>0, <2>1 DEF Running
  <2>5. SpokenAt(a)'  BY <1>b, <1>c, <2>1, <2>4 DEF SpokenAt, To
  <2>6. Linked(a)' <=> Linked(a)  BY <2>1, <2>4 DEF Linked, Running
  <2>7. LeaderAt(a)'  BY <1>b, <1>c, <2>1, <2>4, <2>6 DEF LeaderAt, To
  <2> QED  BY <2>2, <2>3, <2>5, <2>7 DEF Tidy
<1>6. CASE Loses(a)
  <2>1. /\ pc[a] = "main" /\ conn[upstream[a]].phase = "gone" /\ ~InFlight(a)
        /\ pc' = [pc EXCEPT ![a] = "primary"] /\ upstream' = [upstream EXCEPT ![a] = None]
        /\ UNCHANGED <<parentAddr, announcing, downstreams, conn, wire, parent>>
    BY <1>6 DEF Loses, serverPart
  <2>2. \A c \in Conns : LoneAt(c)' /\ EnteredAt(c)'
    <3>1. \A c \in Conns : conn[c].phase # "gone" => conn[c].child # a
      BY <2>1 DEF Tidy, LoneAt, Running
    <3>2. \A x \in Agents : x # a => upstream'[x] = upstream[x] /\ (Running(x)' => Running(x))
      BY <1>0, <2>1 DEF Running
    <3> QED  BY <2>1, <3>1, <3>2, ConnsTidy
  <2>3. ASSUME NEW x \in Agents, x # a PROVE SpokenAt(x)' /\ LeaderAt(x)'
    <3>1. pc'[x] = pc[x] /\ upstream'[x] = upstream[x]  BY <1>0, <2>1, <2>3
    <3> QED  BY <1>b, <2>1, <3>1, AgentTidy
  <2>4. ~Leaving(a)' /\ \A p \in Agents : ~Pending(a, p)'  BY <1>b, <2>1, InFlightIs
  <2>5. pc'[a] = "primary" /\ upstream'[a] = None /\ ~Linked(a)' /\ Running(a)
    BY <1>0, <2>1 DEF Linked, Running
  <2>6. SpokenAt(a)' /\ LeaderAt(a)'  BY <1>c, <2>1, <2>4, <2>5 DEF SpokenAt, LeaderAt
  <2> QED  BY <2>2, <2>3, <2>6 DEF Tidy
<1>7. CASE Restarts(a)
  <2>1. /\ pc' = [pc EXCEPT ![a] = "register"] /\ ~InFlight(a) /\ \A c \in Conns : conn[c].child # a
        /\ UNCHANGED <<parentAddr, upstream, announcing, downstreams, conn, wire, parent>>
    BY <1>7 DEF Restarts, serverPart
  <2>2. \A c \in Conns : LoneAt(c)' /\ EnteredAt(c)'
    <3>1. \A x \in Agents : x # a => (Running(x)' => Running(x))
      BY <1>0, <2>1 DEF Running
    <3> QED  BY <2>1, <3>1, ConnsTidy
  <2>3. ASSUME NEW x \in Agents, x # a PROVE SpokenAt(x)' /\ LeaderAt(x)'
    <3>1. pc'[x] = pc[x]  BY <1>0, <2>1, <2>3
    <3> QED  BY <1>b, <2>1, <3>1, AgentTidy
  <2>4. ~Leaving(a)' /\ \A p \in Agents : ~Pending(a, p)'  BY <1>b, <2>1, InFlightIs
  <2>5. pc'[a] = "register"  BY <1>0, <2>1
  <2>6. SpokenAt(a)' /\ LeaderAt(a)'  BY <2>4, <2>5 DEF SpokenAt, LeaderAt
  <2> QED  BY <2>2, <2>3, <2>6 DEF Tidy
<1>8. ASSUME NEW z \in Agents, Notifies(a, z) PROVE Tidy'
  <2>1. /\ z \in announcing[a] /\ announcing' = [announcing EXCEPT ![a] = @ \ {z}]
        /\ Sends(a, Attach(z, a))
        /\ UNCHANGED <<pc, parentAddr, upstream, downstreams, conn, parent>>
    BY <1>8 DEF Notifies, serverPart
  <2>2. \A c \in Conns : LoneAt(c)' /\ EnteredAt(c)'
    <3>1. \A x \in Agents : Running(x)' => Running(x)  BY <2>1 DEF Running
    <3> QED  BY <2>1, <3>1, ConnsTidy
  <2>3. ASSUME NEW x \in Agents PROVE (\A p \in Agents : Pending(x, p)' => Pending(x, p)) /\ (Leaving(x)' => Leaving(x))
    <3>1. ASSUME NEW d \in Conns, NEW n \in Reports, On(d, n)' PROVE On(d, n) \/ n = Attach(z, a)
      BY <2>1, <3>1 DEF Sends
    <3>2. Leaving(x)' => Leaving(x)
      BY <3>1, ReportFields DEF Leaving
    <3>3. ASSUME NEW p \in Agents, Pending(x, p)' PROVE Pending(x, p)
      <4>1. CASE x \in announcing'[p]  BY <2>1, <4>1 DEF Pending, BaseInv, MeshTypeOK
      <4>2. ASSUME NEW d \in Conns, On(d, Attach(x, p))' PROVE Pending(x, p)
        <5>1. On(d, Attach(x, p)) \/ Attach(x, p) = Attach(z, a)  BY <3>1, <4>2, ReportFields
        <5>2. Attach(x, p) = Attach(z, a) => x = z /\ p = a  BY ReportFields
        <5> QED  BY <2>1, <5>1, <5>2 DEF Pending
      <4> QED  BY <3>3, <4>1, <4>2 DEF Pending
    <3> QED  BY <3>2, <3>3
  <2>4. ASSUME NEW x \in Agents PROVE SpokenAt(x)' /\ LeaderAt(x)'
    BY <2>1, <2>3, AgentTidy
  <2> QED  BY <2>2, <2>4 DEF Tidy
<1> QED  BY <1>1, <1>2, <1>3, <1>4, <1>5, <1>6, <1>7, <1>8 DEF AgentEffect

\* A handler's step: no agent changes, and less is reported than was, but of the
\* connection's child.
LEMMA HandlerTidy ==
  ASSUME BaseInv, Tidy, NEW c \in Conns, UNCHANGED <<pc, upstream, parentAddr, parent>>,
         \A d \in Conns \ {c} : conn'[d] = conn[d],
         \/ conn'[c].link = conn[c].link /\ conn'[c].to = conn[c].to
         \/ conn'[c].link = "cut" /\ conn'[c].to \in {conn[c].to, None},
         NEW x \in Agents,
         \A p \in Agents : Pending(x, p)' => Pending(x, p),
         Leaving(x)' => Leaving(x)
  PROVE  SpokenAt(x)' /\ LeaderAt(x)'
<1>1. \A u \in Conns : u = upstream[x] =>
        \/ conn'[u].link = conn[u].link /\ conn'[u].to = conn[u].to
        \/ conn'[u].link = "cut" /\ conn'[u].to \in {conn[u].to, None}
  OBVIOUS
<1> QED  BY <1>1, AgentTidy

\* What is reported, when reports only leave the wires.
LEMMA FewerReports ==
  ASSUME UNCHANGED announcing, \A d \in Conns : \A n \in Reports : On(d, n)' => \E e \in Conns : On(e, n)
  PROVE  \A x \in Agents : (Leaving(x)' => Leaving(x)) /\ \A p \in Agents : Pending(x, p)' => Pending(x, p)
BY ReportFields DEF Pending, Leaving

LEMMA ServerStepTidy ==
  ASSUME BaseInv, BaseInv', Tidy, NEW c \in Conns, ServerEffect(c)
  PROVE  Tidy'
<1> USE NodesAssumption
<1>0. UNCHANGED <<pc, upstream, parentAddr, announcing, downstreams>>
  BY DEF ServerEffect, Accepts, Closes, Records, Discounts, Refuses, agentPart
<1>1. \A d \in Conns : \A n \in Reports : On(d, n)' => On(d, n)
  <2>1. CASE Accepts(c)  BY <2>1 DEF Accepts, On
  <2>2. CASE Closes(c)  BY <2>2 DEF Closes, Clears
  <2>3. ASSUME NEW m \in Reports, Takes(c, m) PROVE \A d \in Conns : \A n \in Reports : On(d, n)' => On(d, n)
    BY <2>3 DEF Takes
  <2> QED  BY <2>1, <2>2, <2>3 DEF ServerEffect, Records, Discounts, Refuses
<1>2. \A x \in Agents : (Leaving(x)' => Leaving(x)) /\ \A p \in Agents : Pending(x, p)' => Pending(x, p)
  BY <1>0, <1>1, FewerReports
<1>3. /\ conn[c].to = Server
      /\ \A d \in Conns \ {c} : conn'[d] = conn[d]
      /\ \/ conn'[c].link = conn[c].link /\ conn'[c].to = conn[c].to /\ conn'[c].child = conn[c].child /\ conn[c].phase # "gone"
         \/ conn'[c].link = "cut" /\ conn'[c].to = None /\ conn'[c].phase = "gone"
  BY DEF ServerEffect, Accepts, Closes, Records, Discounts, Refuses, Sets
<1>4. ASSUME NEW d \in Conns PROVE LoneAt(d)' /\ EnteredAt(d)'
  <2>1. LoneAt(d) /\ EnteredAt(d)  BY DEF Tidy
  <2>2. CASE d # c  BY <1>0, <1>3, <2>1, <2>2 DEF LoneAt, EnteredAt, Running
  <2>3. CASE d = c  BY <1>0, <1>3, <2>1, <2>3 DEF LoneAt, EnteredAt, Running
  <2> QED  BY <2>2, <2>3
<1>5. CASE parent' = parent
  <2>1. \A x \in Agents : SpokenAt(x)' /\ LeaderAt(x)'  BY <1>0, <1>2, <1>3, <1>5, HandlerTidy
  <2> QED  BY <1>4, <2>1 DEF Tidy
<1>6. ASSUME NEW m \in Reports, Records(c, m) PROVE Tidy'
  <2>1. conn' = conn /\ m \in Reports /\ On(c, m) /\ m.t = "connected"  BY <1>6 DEF Records, Takes
  <2>2. m.a \in Agents /\ m.p \in Agents /\ m = Attach(m.a, m.p)  BY <2>1, ReportKinds
  <2>3. Pending(m.a, m.p)  BY <2>1, <2>2 DEF Pending
  <2>4. \A x \in Agents : x # m.a => parent'[x] = parent[x]  BY <1>6, <2>2 DEF Records
  <2>5. ASSUME NEW x \in Agents, x # m.a PROVE SpokenAt(x)' /\ LeaderAt(x)'
    <3>1. parent'[x] = parent[x]  BY <2>4, <2>5
    <3> QED  BY <1>0, <1>2, <2>1, <3>1, AgentTidy
  <2> DEFINE z == m.a
  <2>6. z \in Agents /\ SpokenAt(z) /\ LeaderAt(z) /\ \E p \in Agents : Pending(z, p)  BY <2>2, <2>3 DEF Tidy
  <2> HIDE DEF z
  <2>7. (Leaving(z)' => Leaving(z)) /\ \A p \in Agents : Pending(z, p)' => Pending(z, p)  BY <1>2, <2>6
  <2>8. SpokenAt(z)'
    <3>1. z' = z  BY DEF z
    <3> QED  BY <1>0, <2>1, <2>6, <2>7, <3>1 DEF SpokenAt, To, Running
  <2>9. LeaderAt(z)'
    <3>1. ~Running(z) \/ pc[z] = "register" \/ parentAddr[z] # Server  BY <2>6 DEF LeaderAt
    <3>2. Linked(z)' => Linked(z) /\ To(z)' = To(z)
      BY <1>0, <2>1, <2>6 DEF Linked, To, Running
    <3> QED  BY <1>0, <2>6, <3>1, <3>2 DEF LeaderAt, Running
  <2>10. \A x \in Agents : SpokenAt(x)' /\ LeaderAt(x)'
    BY <2>5, <2>6, <2>8, <2>9 DEF z
  <2> QED  BY <1>4, <2>10 DEF Tidy
<1>7. parent' = parent \/ \E m \in Reports : Records(c, m)
  BY DEF ServerEffect, Accepts, Closes, Discounts, Refuses, serverPart
<1> QED  BY <1>5, <1>6, <1>7

LEMMA RelayStepTidy ==
  ASSUME BaseInv, BaseInv', Tidy, NEW p \in Agents, NEW c \in Conns, RelayEffect(p, c)
  PROVE  Tidy'
<1> USE NodesAssumption
<1> DEFINE y == conn[c].child
<1>0. UNCHANGED <<pc, upstream, parentAddr, announcing, parent>>
  BY DEF RelayEffect, Hellos, Inserts, Drops, TakesOut, TellsLoss, Forwards, Misses, agentPart, serverPart
<1>1. conn[c].to = p /\ conn[c].phase # "gone" /\ y \in Agents
  <2>1. \E ph : Serves(p, c, ph) /\ ph \in {"hello", "insert", "serve", "remove", "report"}
    BY DEF RelayEffect, Hellos, Inserts, Drops, TakesOut, TellsLoss, Forwards, Misses
  <2> QED  BY <2>1, ConnIs DEF Serves
<1>2. Running(y) => upstream[y] = c  BY <1>1 DEF Tidy, LoneAt
<1>3. /\ \A d \in Conns \ {c} : conn'[d] = conn[d]
      /\ \/ conn'[c].link = conn[c].link /\ conn'[c].to = conn[c].to
         \/ conn'[c].link = "cut" /\ conn'[c].to \in {conn[c].to, None}
  BY <1>1 DEF RelayEffect, Hellos, Inserts, Drops, TakesOut, TellsLoss, Forwards, Misses, Sets
\* The connections, when the table changes at most at the connection's child.
<1>4. ASSUME conn'[c].phase = "gone" \/ (conn'[c].child = y /\ conn'[c].to = p),
             conn'[c].phase = "serve" => downstreams'[p][y] = c \/ (conn[c].phase = "serve" /\ downstreams' = downstreams),
             \A q, x \in Agents : q # p \/ x # y => downstreams'[q][x] = downstreams[q][x]
      PROVE  \A d \in Conns : LoneAt(d)' /\ EnteredAt(d)'
  <2> SUFFICES ASSUME NEW d \in Conns PROVE LoneAt(d)' /\ EnteredAt(d)'  OBVIOUS
  <2>1. LoneAt(d) /\ EnteredAt(d) /\ (conn[d].phase # "gone" => conn[d].child \in Agents)  BY ConnIs DEF Tidy
  <2>2. CASE d = c
    <3>1. LoneAt(c)'  BY <1>0, <1>2, <1>4 DEF LoneAt, Running
    <3>2. EnteredAt(c)'  BY <1>0, <1>4, <2>1, <2>2, <1>1 DEF EnteredAt, Running
    <3> QED  BY <2>2, <3>1, <3>2
  <2>3. CASE d # c
    <3>1. conn'[d] = conn[d]  BY <1>3, <2>3
    <3>2. LoneAt(d)'  BY <1>0, <2>1, <3>1 DEF LoneAt, Running
    <3>3. conn[d].phase = "serve" /\ Running(conn[d].child) => conn[d].child # y
      BY <1>2, <2>1, <2>3 DEF LoneAt
    <3>5. \A q, x \in Agents : x # y => downstreams'[q][x] = downstreams[q][x]  BY <1>4
    <3>6. EnteredAt(d)'  BY <1>0, <2>1, <3>1, <3>3, <3>5 DEF EnteredAt, Running
    <3> QED  BY <3>2, <3>6
  <2> QED  BY <2>2, <2>3
\* The agents, when nothing new is reported.
<1>5. ASSUME \A d \in Conns : \A n \in Reports : On(d, n)' => \E e \in Conns : On(e, n)
      PROVE  \A x \in Agents : SpokenAt(x)' /\ LeaderAt(x)'
  <2>1. \A x \in Agents : (Leaving(x)' => Leaving(x)) /\ \A q \in Agents : Pending(x, q)' => Pending(x, q)
    BY <1>0, <1>5, FewerReports
  <2> QED  BY <1>0, <1>3, <2>1, HandlerTidy
<1>6. CASE Hellos(p, c)
  <2>1. /\ Sets(c, y, p, conn[c].link, "insert") /\ Sends(p, Attach(y, p)) /\ downstreams' = downstreams
    BY <1>6 DEF Hellos
  <2>2. \A d \in Conns : LoneAt(d)' /\ EnteredAt(d)'  BY <1>4, <2>1 DEF Sets
  <2>3. \A d \in Conns : \A n \in Reports : On(d, n)' => On(d, n) \/ n = Attach(y, p)  BY <2>1 DEF Sends
  <2>4. \A x \in Agents : /\ Leaving(x)' => Leaving(x)
                          /\ \A q \in Agents : Pending(x, q)' => Pending(x, q) \/ (x = y /\ q = p)
    <3>1. Attach(y, p) \in Reports /\ Attach(y, p).t = "connected" /\ Attach(y, p).a = y /\ Attach(y, p).p = p
      BY <1>1, ReportFields
    <3> HIDE DEF y
    <3> QED  BY <1>0, <2>3, <3>1, ReportFields DEF Leaving, Pending
  <2>5. ASSUME NEW x \in Agents, x # y PROVE SpokenAt(x)' /\ LeaderAt(x)'
    BY <1>0, <1>3, <2>4, <2>5, HandlerTidy
  <2>6. ASSUME NEW x \in Agents, x = y PROVE SpokenAt(x)' /\ LeaderAt(x)'
    <3>1. SpokenAt(x) /\ LeaderAt(x)  BY DEF Tidy
    <3>2. CASE ~Running(x)  BY <1>0, <3>2 DEF SpokenAt, LeaderAt, Running
    <3>3. CASE Running(x)
      <4>1. upstream[x] = c /\ To(x) = p /\ conn'[c].to = p /\ conn'[c].link = conn[c].link
        BY <1>1, <1>2, <2>1, <2>6, <3>3 DEF To, Sets
      <4>2. SpokenAt(x)'
        <5>1. \A q \in Agents : Pending(x, q)' => conn[c].link = "cut" \/ q = p
          BY <2>4, <3>1, <3>3, <4>1 DEF SpokenAt
        <5>2. Leaving(x)' => conn[c].link = "cut"  BY <2>4, <3>1, <3>3, <4>1 DEF SpokenAt
        <5>3. upstream'[x] = c /\ c # None /\ To(x)' = p  BY <1>0, <4>1 DEF To
        <5> QED  BY <4>1, <5>1, <5>2, <5>3 DEF SpokenAt
      <4>3. parentAddr[x] # Server \/ pc[x] = "register"  BY <3>1, <3>3, <4>1 DEF LeaderAt
      <4>4. To(x)' = p  BY <1>0, <4>1 DEF To
      <4>5. LeaderAt(x)'  BY <1>0, <4>3, <4>4 DEF LeaderAt
      <4> QED  BY <4>2, <4>5
    <3> QED  BY <3>2, <3>3
  <2> QED  BY <1>1, <2>2, <2>5, <2>6 DEF Tidy
<1>7. CASE Inserts(p, c)
  <2>1. Sets(c, y, p, conn[c].link, "serve") /\ downstreams' = [downstreams EXCEPT ![p][y] = c] /\ wire' = wire
    BY <1>7 DEF Inserts
  <2>2. /\ downstreams'[p][y] = c
        /\ \A q, x \in Agents : q # p \/ x # y => downstreams'[q][x] = downstreams[q][x]
    BY <1>1, <2>1 DEF BaseInv, RelayInv, TablesTypeOK
  <2>5. conn'[c].child = y /\ conn'[c].to = p  BY <2>1 DEF Sets
  <2>3. \A d \in Conns : LoneAt(d)' /\ EnteredAt(d)'
    <3>1. conn'[c].phase = "gone" \/ (conn'[c].child = y /\ conn'[c].to = p)  BY <2>5
    <3>2. conn'[c].phase = "serve" => downstreams'[p][y] = c \/ (conn[c].phase = "serve" /\ downstreams' = downstreams)  BY <2>2
    <3> QED  BY <1>4, <2>2, <3>1, <3>2, Zenon
  <2>4. \A x \in Agents : SpokenAt(x)' /\ LeaderAt(x)'  BY <1>5, <2>1 DEF On
  <2> QED  BY <2>3, <2>4 DEF Tidy
<1>8. CASE Drops(p, c)
  <2>1. Sets(c, y, p, "cut", "remove") /\ downstreams' = downstreams /\ Clears(c)  BY <1>8 DEF Drops
  <2>2. \A d \in Conns : LoneAt(d)' /\ EnteredAt(d)'  BY <1>4, <2>1 DEF Sets
  <2>3. \A x \in Agents : SpokenAt(x)' /\ LeaderAt(x)'  BY <1>5, <2>1 DEF Clears
  <2> QED  BY <2>2, <2>3 DEF Tidy
<1>9. CASE TakesOut(p, c)
  <2>1. Sets(c, y, p, conn[c].link, "report") /\ downstreams' = [downstreams EXCEPT ![p][y] = None] /\ wire' = wire
    BY <1>9 DEF TakesOut
  <2>2. conn'[c].child = y /\ conn'[c].to = p /\ conn'[c].phase = "report"  BY <2>1 DEF Sets
  <2>4. \A q, x \in Agents : q # p \/ x # y => downstreams'[q][x] = downstreams[q][x]
    BY <1>1, <2>1 DEF BaseInv, RelayInv, TablesTypeOK
  <2>5. \A d \in Conns : LoneAt(d)' /\ EnteredAt(d)'
    <3>1. conn'[c].phase = "gone" \/ (conn'[c].child = y /\ conn'[c].to = p)  BY <2>2
    <3>2. conn'[c].phase = "serve" => downstreams'[p][y] = c \/ (conn[c].phase = "serve" /\ downstreams' = downstreams)  BY <2>2
    <3> QED  BY <1>4, <2>4, <3>1, <3>2, Zenon
  <2>3. \A x \in Agents : SpokenAt(x)' /\ LeaderAt(x)'  BY <1>5, <2>1 DEF On
  <2> QED  BY <2>5, <2>3 DEF Tidy
<1>10. CASE TellsLoss(p, c)
  <2>1. Sets(c, None, None, "cut", "gone") /\ downstreams' = downstreams /\ Sends(p, Detach(y))
    BY <1>10 DEF TellsLoss
  <2>2. \A d \in Conns : LoneAt(d)' /\ EnteredAt(d)'  BY <1>4, <2>1 DEF Sets
  <2>3. \A d \in Conns : \A n \in Reports : On(d, n)' => On(d, n) \/ n = Detach(y)  BY <2>1 DEF Sends
  <2>4. \A x \in Agents : /\ Leaving(x)' => Leaving(x) \/ x = y
                          /\ \A q \in Agents : Pending(x, q)' => Pending(x, q)
    <3>1. Detach(y) \in Reports /\ Detach(y).t = "disconnected" /\ Detach(y).a = y
      BY <1>1, ReportFields
    <3> HIDE DEF y
    <3> QED  BY <1>0, <2>3, <3>1, ReportFields DEF Leaving, Pending
  <2>5. ASSUME NEW x \in Agents, x # y PROVE SpokenAt(x)' /\ LeaderAt(x)'
    BY <1>0, <1>3, <2>4, <2>5, HandlerTidy
  <2>6. ASSUME NEW x \in Agents, x = y PROVE SpokenAt(x)' /\ LeaderAt(x)'
    <3>1. SpokenAt(x) /\ LeaderAt(x)  BY DEF Tidy
    <3>2. CASE ~Running(x)  BY <1>0, <3>2 DEF SpokenAt, LeaderAt, Running
    <3>3. CASE Running(x)
      <4>1. upstream'[x] = c /\ c # None /\ conn'[c].link = "cut" /\ conn'[c].to = None
        BY <1>0, <1>2, <2>1, <2>6, <3>3 DEF Sets
      <4>2. SpokenAt(x)'  BY <4>1 DEF SpokenAt
      <4>3. ~Linked(x)' /\ To(x)' = None  BY <4>1 DEF Linked, To
      <4>4. LeaderAt(x)'  BY <1>0, <2>4, <3>1, <3>3, <4>3 DEF LeaderAt
      <4> QED  BY <4>2, <4>4
    <3> QED  BY <3>2, <3>3
  <2> QED  BY <1>1, <2>2, <2>5, <2>6 DEF Tidy
<1>11. ASSUME NEW m \in Reports, Forwards(p, c, m) \/ Misses(p, c, m) PROVE Tidy'
  <2>1. UNCHANGED <<conn, downstreams>> /\ conn[c].phase = "serve"  BY <1>11 DEF Forwards, Misses, Serves
  <2>2. \A d \in Conns : LoneAt(d)' /\ EnteredAt(d)'  BY <1>4, <1>1, <2>1
  <2>3. \A d \in Conns : \A n \in Reports : On(d, n)' => \E e \in Conns : On(e, n)
    BY <1>11 DEF Forwards, Misses, Passes, Takes
  <2>4. \A x \in Agents : SpokenAt(x)' /\ LeaderAt(x)'  BY <1>5, <2>3
  <2> QED  BY <2>2, <2>4 DEF Tidy
<1> QED  BY <1>6, <1>7, <1>8, <1>9, <1>10, <1>11 DEF RelayEffect

LEMMA FaultTidy ==
  ASSUME BaseInv, BaseInv', Tidy,
         (\E c \in Conns : Cuts(c)) \/ (\E a \in Agents : Crashes(a)) \/ Stutters
  PROVE  Tidy'
<1> USE NodesAssumption
<1>1. ASSUME NEW c \in Conns, Cuts(c) PROVE Tidy'
  <2>1. /\ UNCHANGED <<pc, upstream, announcing, downstreams, wire, parent>>
        /\ Sets(c, conn[c].child, conn[c].to, "cut", conn[c].phase)
    BY <1>1 DEF Cuts, serverPart
  <2>2. ASSUME NEW d \in Conns PROVE LoneAt(d)' /\ EnteredAt(d)'
    <3>1. /\ conn'[d].child = conn[d].child /\ conn'[d].to = conn[d].to /\ conn'[d].phase = conn[d].phase
          /\ LoneAt(d) /\ EnteredAt(d)
      BY <2>1 DEF Sets, Tidy
    <3> QED  BY <2>1, <3>1 DEF LoneAt, EnteredAt, Running
  <2>3. \A x \in Agents : (Leaving(x)' => Leaving(x)) /\ \A p \in Agents : Pending(x, p)' => Pending(x, p)
    BY <2>1 DEF Leaving, Pending, On
  <2>4. \A u \in Conns : \/ conn'[u].link = conn[u].link /\ conn'[u].to = conn[u].to
                         \/ conn'[u].link = "cut" /\ conn'[u].to \in {conn[u].to, None}
    BY <2>1 DEF Sets
  <2>5. ASSUME NEW x \in Agents, parentAddr'[x] = parentAddr[x] PROVE SpokenAt(x)' /\ LeaderAt(x)'
    BY <2>1, <2>3, <2>4, <2>5, AgentTidy
  <2>6. ASSUME NEW x \in Agents, parentAddr'[x] # parentAddr[x] PROVE SpokenAt(x)' /\ LeaderAt(x)'
    <3>1. upstream[x] = c /\ parentAddr'[x] \in Agents
      BY <1>1, <2>6 DEF Cuts, BaseInv, MeshTypeOK
    <3>2. upstream'[x] = c /\ c # None /\ conn'[c].link = "cut"  BY <2>1, <3>1 DEF Sets
    <3>3. SpokenAt(x)'  BY <3>2 DEF SpokenAt
    <3>4. ~Linked(x)' /\ parentAddr'[x] # Server  BY <3>1, <3>2 DEF Linked
    <3> QED  BY <3>3, <3>4 DEF LeaderAt
  <2> QED  BY <2>2, <2>5, <2>6 DEF Tidy
<1>2. ASSUME NEW a \in Agents, Crashes(a) PROVE Tidy'
  <2>0. pc \in [Agents -> PCs] /\ upstream \in [Agents -> Conns \cup {None}] /\ announcing \in [Agents -> SUBSET Agents]
    BY DEF BaseInv, MeshTypeOK
  <2>1. /\ pc' = [pc EXCEPT ![a] = "crashed"] /\ upstream' = [upstream EXCEPT ![a] = None]
        /\ announcing' = [announcing EXCEPT ![a] = {}]
        /\ downstreams' = [downstreams EXCEPT ![a] = [x \in Agents |-> None]]
        /\ UNCHANGED <<parentAddr, parent>>
    BY <1>2 DEF Crashes, serverPart
  <2>2. \A c \in Conns :
         IF conn[c].to = a
         THEN conn'[c].child = None /\ conn'[c].to = None /\ conn'[c].link = "cut" /\ conn'[c].phase = "gone"
         ELSE /\ conn'[c].child = conn[c].child /\ conn'[c].to = conn[c].to /\ conn'[c].phase = conn[c].phase
              /\ conn'[c].link = IF conn[c].child = a THEN "cut" ELSE conn[c].link
    BY <1>2 DEF Crashes
  <2>3. \A d \in Conns : \A n \in Reports : On(d, n)' => On(d, n)  BY <1>2 DEF Crashes
  <2>4. \A x \in Agents : (Leaving(x)' => Leaving(x)) /\ \A p \in Agents : Pending(x, p)' => Pending(x, p)
    BY <2>0, <2>1, <2>3, ReportFields DEF Leaving, Pending
  <2>5. pc'[a] = "crashed" /\ \A x \in Agents : x # a => pc'[x] = pc[x] /\ upstream'[x] = upstream[x]
    BY <2>0, <2>1
  <2>6. ASSUME NEW d \in Conns PROVE LoneAt(d)' /\ EnteredAt(d)'
    <3>1. LoneAt(d) /\ EnteredAt(d) /\ (conn[d].phase # "gone" => conn[d].child \in Agents)  BY ConnIs DEF Tidy
    <3>2. CASE conn[d].to = a  BY <2>2, <3>2 DEF LoneAt, EnteredAt
    <3>3. CASE conn[d].to # a
      <4>1. conn'[d].child = conn[d].child /\ conn'[d].to = conn[d].to /\ conn'[d].phase = conn[d].phase
        BY <2>2, <3>3
      <4>2. conn[d].to \in Agents => downstreams'[conn[d].to] = downstreams[conn[d].to]
        BY <2>1, <3>3 DEF BaseInv, RelayInv, TablesTypeOK
      <4>3. CASE conn[d].phase = "gone" \/ conn[d].child = a
        BY <2>5, <4>1, <4>3 DEF LoneAt, EnteredAt, Running
      <4>4. CASE conn[d].phase # "gone" /\ conn[d].child # a
        BY <2>5, <3>1, <4>1, <4>2, <4>4 DEF LoneAt, EnteredAt, Running
      <4> QED  BY <4>3, <4>4
    <3> QED  BY <3>2, <3>3
  <2>7. ASSUME NEW x \in Agents, x # a PROVE SpokenAt(x)' /\ LeaderAt(x)'
    <3>1. pc'[x] = pc[x] /\ upstream'[x] = upstream[x] /\ parentAddr'[x] = parentAddr[x] /\ parent'[x] = parent[x]
      BY <2>1, <2>5, <2>7
    <3>2. \A u \in Conns : \/ conn'[u].link = conn[u].link /\ conn'[u].to = conn[u].to
                           \/ conn'[u].link = "cut" /\ conn'[u].to \in {conn[u].to, None}
      BY <2>2
    <3> QED  BY <2>4, <3>1, <3>2, AgentTidy
  <2>8. SpokenAt(a)' /\ LeaderAt(a)'  BY <2>5 DEF SpokenAt, LeaderAt, Running
  <2> QED  BY <2>6, <2>7, <2>8 DEF Tidy
<1>3. CASE Stutters
  <2>1. UNCHANGED <<pc, upstream, parentAddr, parent, announcing, downstreams, conn, wire>>
    BY <1>3 DEF Stutters, agentPart, serverPart
  <2>2. \A x \in Agents : Running(x)' /\ Running(x)' => Running(x) /\ upstream'[x] = upstream[x]  BY <2>1 DEF Running
  <2>3. \A c \in Conns : LoneAt(c)' /\ EnteredAt(c)'  BY <2>1, <2>2, ConnsTidy
  <2>4. \A x \in Agents : (Leaving(x)' => Leaving(x)) /\ \A p \in Agents : Pending(x, p)' => Pending(x, p)
    BY <2>1 DEF Leaving, Pending, On
  <2>5. \A x \in Agents : SpokenAt(x)' /\ LeaderAt(x)'  BY <2>1, <2>4, AgentTidy
  <2> QED  BY <2>3, <2>5 DEF Tidy
<1> QED  BY <1>1, <1>2, <1>3

LEMMA RacesGrow == BaseInv /\ [Next]_vars => races \subseteq races'
<1> SUFFICES ASSUME BaseInv, [Next]_vars PROVE races \subseteq races'  OBVIOUS
<1>1. Effect \/ Stutters  BY StepEffects
<1>2. CASE Stutters  BY <1>2 DEF Stutters
<1>3. ASSUME NEW a \in Agents, AgentEffect(a) \/ Crashes(a) PROVE races \subseteq races'
  BY <1>3 DEF AgentEffect, Opens, Moves, TakesParent, Announces, Finishes, Loses, Restarts, Notifies, Crashes
<1>4. ASSUME NEW c \in Conns, ServerEffect(c) \/ Cuts(c) PROVE races \subseteq races'
  BY <1>4 DEF ServerEffect, Accepts, Closes, Records, Discounts, Refuses, Cuts
<1>5. ASSUME NEW c \in Conns, NEW p \in Agents, RelayEffect(p, c) PROVE races \subseteq races'
  BY <1>5 DEF RelayEffect, Hellos, Inserts, Drops, TakesOut, TellsLoss, Forwards, Misses
<1> QED  BY <1>1, <1>2, <1>3, <1>4, <1>5 DEF Effect

LEMMA TidyStep == BaseInv /\ BaseInv' /\ Tidy /\ races' = {} /\ [Next]_vars => Tidy'
<1> SUFFICES ASSUME BaseInv, BaseInv', Tidy, races' = {}, [Next]_vars PROVE Tidy'  OBVIOUS
<1>1. Effect \/ Stutters  BY StepEffects
<1> QED  BY <1>1, AgentStepTidy, ServerStepTidy, RelayStepTidy, FaultTidy DEF Effect

(***************************************************************************)
(* The recorded tree.  UpTo(f, a) is a and its ancestors when f gives each *)
(* agent's parent.                                                         *)
(***************************************************************************)
UpTo(f, a) ==
  {x \in Agents : \A S \in SUBSET Agents :
     (a \in S /\ \A y \in S : f[y] # None => f[y] \in S) => x \in S}
Trees == [Agents -> Agents \cup {None}]

LEMMA AboveIs == \A a : Above(a) = UpTo(parent, a) /\ Above(a)' = UpTo(parent', a)
BY DEF Above, UpTo

LEMMA UpToLeast ==
  ASSUME NEW f \in Trees, NEW a \in Agents, NEW S \in SUBSET Agents, a \in S,
         \A y \in S : f[y] # None => f[y] \in S
  PROVE  UpTo(f, a) \subseteq S
BY DEF UpTo

LEMMA UpToClosed ==
  ASSUME NEW f \in Trees, NEW a \in Agents
  PROVE  /\ UpTo(f, a) \in SUBSET Agents /\ a \in UpTo(f, a)
         /\ \A y \in UpTo(f, a) : f[y] # None => f[y] \in UpTo(f, a)
<1>1. UpTo(f, a) \in SUBSET Agents /\ a \in UpTo(f, a)  BY DEF UpTo
<1>2. ASSUME NEW y \in UpTo(f, a), f[y] # None PROVE f[y] \in UpTo(f, a)
  <2>1. y \in Agents /\ f[y] \in Agents  BY <1>1, <1>2 DEF Trees
  <2>2. ASSUME NEW S \in SUBSET Agents, a \in S, \A z \in S : f[z] # None => f[z] \in S
        PROVE  f[y] \in S
    <3>1. y \in S  BY <2>2 DEF UpTo
    <3> QED  BY <1>2, <2>2, <3>1
  <2> QED  BY <2>1, <2>2 DEF UpTo
<1> QED  BY <1>1, <1>2

LEMMA UpToMore ==
  ASSUME NEW f \in Trees, NEW a \in Agents, NEW b \in UpTo(f, a)
  PROVE  b \in Agents /\ UpTo(f, b) \subseteq UpTo(f, a)
<1>1. b \in Agents  BY UpToClosed
<1> QED  BY <1>1, UpToClosed, UpToLeast

\* Whoever else is in it is the parent of one of them.
LEMMA UpToLast ==
  ASSUME NEW f \in Trees, NEW a \in Agents, NEW x \in UpTo(f, a), x # a
  PROVE  \E w \in UpTo(f, a) : f[w] = x
<1> SUFFICES ASSUME \A w \in UpTo(f, a) : f[w] # x PROVE FALSE  OBVIOUS
<1> DEFINE S == UpTo(f, a) \ {x}
<1>1. S \in SUBSET Agents /\ a \in S  BY UpToClosed
<1>2. \A y \in S : f[y] # None => f[y] \in S  BY UpToClosed
<1> HIDE DEF S
<1>3. UpTo(f, a) \subseteq S  BY <1>1, <1>2, UpToLeast
<1> QED  BY <1>3 DEF S

\* It depends on their parents only.
LEMMA UpToSame ==
  ASSUME NEW f \in Trees, NEW g \in Trees, NEW a \in Agents, \A b \in UpTo(f, a) : g[b] = f[b]
  PROVE  UpTo(g, a) = UpTo(f, a)
<1>1. /\ UpTo(f, a) \in SUBSET Agents /\ a \in UpTo(f, a)
      /\ \A y \in UpTo(f, a) : f[y] # None => f[y] \in UpTo(f, a)
  BY UpToClosed
<1>2. UpTo(g, a) \subseteq UpTo(f, a)  BY <1>1, UpToLeast
<1>3. /\ UpTo(g, a) \in SUBSET Agents /\ a \in UpTo(g, a)
      /\ \A y \in UpTo(g, a) : g[y] # None => g[y] \in UpTo(g, a)
  BY UpToClosed
<1>4. \A y \in UpTo(g, a) : f[y] # None => f[y] \in UpTo(g, a)  BY <1>2, <1>3
<1>5. UpTo(f, a) \subseteq UpTo(g, a)  BY <1>3, <1>4, UpToLeast
<1> QED  BY <1>2, <1>5

\* An agent that is moved keeps what is below it.
LEMMA UpToMoved ==
  ASSUME NEW f \in Trees, NEW g \in Trees, NEW a \in Agents, NEW z \in Agents,
         \A b \in Agents \ {z} : g[b] = f[b], z \in UpTo(f, a)
  PROVE  z \in UpTo(g, a)
<1> SUFFICES ASSUME z \notin UpTo(g, a) PROVE FALSE  OBVIOUS
<1>1. \A b \in UpTo(g, a) : b \in Agents  BY UpToClosed
<1>2. \A b \in UpTo(g, a) : f[b] = g[b]  BY <1>1
<1>3. UpTo(f, a) = UpTo(g, a)  BY <1>2, UpToSame
<1> QED  BY <1>3

(***************************************************************************)
(* What is still to be told.  An agent recorded at another place than it   *)
(* is, or taken for offline, is not forgotten: it will say hello itself    *)
(* (Strong), its relay will speak of it (Strong), or a report of it is on  *)
(* its way (Carried, Told).                                                *)
(***************************************************************************)
Restless(p) == pc[p] \notin {"report", "main"} \/ conn[upstream[p]].link = "cut"
Strong(x) ==
  /\ Running(x)
  /\ \/ ~Linked(x)
     \/ Ph(x) = "hello"
     \/ \E p \in Agents :
          /\ p = To(x)
          /\ x \in announcing[p] \/ (Ph(x) \in {"insert", "serve"} /\ Restless(p))
Told(x) == \E d \in Conns, p \in Agents : p = To(x) /\ On(d, Attach(x, p))
\* On the first hop.
First(x) == Linked(x) /\ \E d \in Conns, p \in Agents : p = To(x) /\ conn[d].child = p /\ On(d, Attach(x, p))
\* The server will not refuse it if it only repeats what is recorded.
Carried(x) ==
  Linked(x) /\ \E d \in Conns, p \in Agents : On(d, Attach(x, p)) /\ (parent[x] = p => conn[d].child \in Above(p))
Witness(x) == Strong(x) \/ Carried(x)

Routed(x) == Linked(x) /\ To(x) \in Agents /\ parent[x] # To(x) => Strong(x) \/ Told(x)
Counted(a) == Running(a) /\ a \notin online => \E x \in Above(a) : Witness(x)
Vouched(x, w) ==
  Linked(x) /\ To(x) = Server /\ Ph(x) = "hello" /\ Linked(w) /\ To(w) = x =>
    Strong(w) \/ \E u \in Conns : u = upstream[x] /\ On(u, Attach(w, x))

RestlessOnesSpeak ==
  \A v, q \in Agents : BaseInv /\ Linked(v) /\ To(v) = q /\ Restless(q) => Strong(v)

LEMMA RestlessStrong == RestlessOnesSpeak
BY LinkedConn, NodesAssumption DEF RestlessOnesSpeak, Strong, Linked

FirstHopsCarry ==
  \A y \in Agents : BaseInv /\ First(y) => Carried(y) /\ Told(y)

LEMMA FirstCarried == FirstHopsCarry
<1> SUFFICES ASSUME NEW x \in Agents, BaseInv, First(x) PROVE Carried(x) /\ Told(x)  BY DEF FirstHopsCarry
<1>1. parent \in Trees  BY DEF BaseInv, MeshTypeOK, Trees
<1>2. \A p \in Agents : p \in Above(p)  BY <1>1, UpToClosed, AboveIs
<1> QED  BY <1>2 DEF First, Carried, Told

\* A report of an agent's attachment names the relay it has.
LEMMA ReportPlace ==
  \A x, p \in Agents : \A d \in Conns :
    BaseInv /\ Tidy /\ Linked(x) /\ On(d, Attach(x, p)) =>
      To(x) = p /\ conn[d].phase # "gone" /\ conn[d].child \in Agents
<1> SUFFICES ASSUME NEW x \in Agents, NEW p \in Agents, NEW d \in Conns, BaseInv, Tidy, Linked(x), On(d, Attach(x, p))
             PROVE To(x) = p /\ conn[d].phase # "gone" /\ conn[d].child \in Agents
  OBVIOUS
<1>1. Pending(x, p) /\ SpokenAt(x)  BY DEF Pending, Tidy
<1>2. To(x) = p  BY <1>1 DEF SpokenAt, Linked
<1>3. wire[d] # <<>>  BY DEF On
<1> QED  BY <1>2, <1>3, ConnIs DEF BaseInv, ConnOK

\* An agent that is not to be spoken of is where it is recorded.
OthersAreInPlace ==
  \A y \in Agents : BaseInv /\ Tidy /\ Routed(y) /\ Running(y) /\ ~Witness(y) =>
    /\ Linked(y)
    /\ \/ To(y) = Server /\ parent[y] = None
       \/ To(y) \in Agents /\ parent[y] = To(y) /\ Running(To(y))

LEMMA InPlace == OthersAreInPlace
<1> SUFFICES ASSUME NEW x \in Agents, BaseInv, Tidy, Routed(x), Running(x), ~Witness(x)
             PROVE /\ Linked(x)
                   /\ \/ To(x) = Server /\ parent[x] = None
                      \/ To(x) \in Agents /\ parent[x] = To(x) /\ Running(To(x))
  BY DEF OthersAreInPlace
<1>1. Linked(x)  BY DEF Witness, Strong
<1>2. CASE To(x) = Server
  <2>1. pc[x] # "register"  BY <1>1, LinkedConn DEF Attached
  <2>2. parent[x] = None  BY <1>1, <1>2, <2>1 DEF Tidy, LeaderAt
  <2> QED  BY <1>1, <1>2, <2>2
<1>3. CASE To(x) \in Agents
  <2>1. parent[x] # To(x) => Carried(x)
    BY <1>1, <1>3, ReportPlace DEF Routed, Witness, Carried, Told
  <2> QED  BY <1>1, <1>3, <2>1, LinkedConn, NodesAssumption DEF Witness
<1> QED  BY <1>1, <1>2, <1>3, LinkedConn

\* Below an agent that crashed there is one whose relay is gone.
OrphansSpeak ==
  \A b, z \in Agents :
    BaseInv /\ Tidy /\ (\A y \in Agents : Routed(y)) /\ Running(b) /\ z \in Above(b) /\ ~Running(z) =>
      \E w \in Above(b) : Witness(w)

LEMMA Orphaned == OrphansSpeak
<1> SUFFICES ASSUME NEW a \in Agents, NEW z \in Agents, BaseInv, Tidy, \A x \in Agents : Routed(x),
                    Running(a), z \in Above(a), ~Running(z), \A w \in Above(a) : ~Witness(w)
             PROVE FALSE
  BY DEF OrphansSpeak
<1>1. parent \in Trees  BY DEF BaseInv, MeshTypeOK, Trees
<1>2. /\ Above(a) \in SUBSET Agents /\ a \in Above(a)
      /\ \A y \in Above(a) : parent[y] # None => parent[y] \in Above(a)
  BY <1>1, UpToClosed, AboveIs
<1> DEFINE S == {x \in Above(a) : Running(x)}
<1>3. \A y \in S : parent[y] # None => parent[y] \in S
  <2> SUFFICES ASSUME NEW y \in S, parent[y] # None PROVE parent[y] \in S  OBVIOUS
  <2>1. y \in Agents /\ Running(y) /\ ~Witness(y) /\ Routed(y)  BY <1>2
  <2>2. parent[y] = To(y) /\ Running(To(y))  BY <2>1, InPlace DEF OthersAreInPlace
  <2> QED  BY <1>2, <2>2
<1>4. S \in SUBSET Agents /\ a \in S  BY <1>2
<1> HIDE DEF S
<1>5. Above(a) \subseteq S  BY <1>1, <1>3, <1>4, UpToLeast, AboveIs
<1> QED  BY <1>5 DEF S

\* The same after a step.
LEMMA RestlessStrongNext == RestlessOnesSpeak'
BY RestlessStrong, PTL
LEMMA FirstCarriedNext == FirstHopsCarry'
BY FirstCarried, PTL
LEMMA InPlaceNext == OthersAreInPlace'
BY InPlace, PTL
LEMMA OrphanedNext == OrphansSpeak'
BY Orphaned, PTL

(***************************************************************************)
(* What a step keeps of it.                                                *)
(***************************************************************************)
LinkKept(x) == Linked(x)' => Strong(x)' \/ (Linked(x) /\ upstream'[x] = upstream[x] /\ To(x)' = To(x))
StrongKept(x) == Strong(x) /\ Running(x)' => Strong(x)' \/ First(x)'
\* What became of the report that x is at p, on its way along d.
Handed(x, d, p) ==
  \/ ~Running(x)' \/ Strong(x)'
  \/ On(d, Attach(x, p))' /\ conn'[d].child = conn[d].child
  \/ /\ conn'[d] = conn[d]
     /\ \E u \in Conns, q \in Agents : q = conn[d].to /\ On(u, Attach(x, p))' /\ conn'[u].child = q
  \/ parent[x] = p /\ \A e \in Agents : e = conn[d].child /\ Running(e)' => Strong(e)'
  \/ parent[x] = p /\ conn[d].child \notin Above(p)
ReportsKept(x) ==
  \A d \in Conns, p \in Agents : Linked(x) /\ To(x) = p /\ On(d, Attach(x, p)) => Handed(x, d, p)
HelloKept(x) ==
  Linked(x)' /\ To(x)' = Server /\ Ph(x)' = "hello" =>
    \/ Restless(x)'
    \/ /\ Linked(x) /\ Ph(x) = "hello" /\ upstream'[x] = upstream[x] /\ To(x) = Server
       /\ \A u \in Conns : u = upstream[x] => \A n \in Reports : On(u, n) => On(u, n)'
Kept(x) == LinkKept(x) /\ StrongKept(x) /\ ReportsKept(x) /\ HelloKept(x)

LEMMA RoutedKept ==
  ASSUME BaseInv, NEW x \in Agents, Routed(x), LinkKept(x), ReportsKept(x),
         StrongKept(x) \/ (Linked(x)' => To(x)' \notin Agents), parent'[x] = parent[x]
  PROVE  Routed(x)'
<1> SUFFICES ASSUME Linked(x)', To(x)' \in Agents, parent'[x] # To(x)', ~Strong(x)'
             PROVE  Told(x)'
  BY DEF Routed
<1>1. Linked(x) /\ To(x)' = To(x) /\ StrongKept(x)  BY DEF LinkKept
<1>2. Running(x)'  BY DEF Linked
<1>3. CASE Strong(x)
  <2>1. First(x)'  BY <1>1, <1>2, <1>3 DEF StrongKept
  <2> QED  BY <2>1 DEF First, Told
<1>4. ASSUME NEW d \in Conns, NEW p \in Agents, p = To(x), On(d, Attach(x, p)) PROVE Told(x)'
  <2>1. Handed(x, d, p)  BY <1>1, <1>4 DEF ReportsKept
  <2>2. \E e \in Conns : On(e, Attach(x, p))'  BY <1>1, <1>2, <1>4, <2>1 DEF Handed
  <2> QED  BY <1>1, <1>4, <2>2 DEF Told
<1>5. Strong(x) \/ Told(x)  BY <1>1 DEF Routed
<1> QED  BY <1>3, <1>4, <1>5 DEF Told

LEMMA VouchedKept ==
  ASSUME BaseInv, BaseInv', Tidy', NEW x \in Agents, NEW w \in Agents, Vouched(x, w),
         LinkKept(w), HelloKept(x), StrongKept(w) \/ (Linked(w)' => To(w)' \notin Agents)
  PROVE  Vouched(x, w)'
<1> SUFFICES ASSUME Linked(x)', To(x)' = Server, Ph(x)' = "hello", Linked(w)', To(w)' = x, ~Strong(w)'
             PROVE  \E u \in Conns : u = upstream'[x] /\ On(u, Attach(w, x))'
  BY DEF Vouched
<1>1. Linked(w) /\ To(w) = x /\ StrongKept(w) /\ Running(w)'  BY DEF LinkKept, Linked
<1>2. ~Restless(x)'  BY RestlessStrongNext DEF RestlessOnesSpeak
<1>3. /\ Linked(x) /\ Ph(x) = "hello" /\ upstream'[x] = upstream[x] /\ To(x) = Server
      /\ \A u \in Conns : u = upstream[x] => \A n \in Reports : On(u, n) => On(u, n)'
  BY <1>2 DEF HelloKept
<1>4. CASE Strong(w)
  <2>1. First(w)'  BY <1>1, <1>4 DEF StrongKept
  <2>2. PICK d \in Conns : conn'[d].child = x /\ On(d, Attach(w, x))'  BY <2>1 DEF First, On
  <2>3. wire'[d] # <<>>  BY <2>2 DEF On
  <2>4. conn'[d].phase # "gone"  BY <2>3 DEF BaseInv, ConnOK
  <2>5. upstream'[x] = d  BY <2>2, <2>4 DEF Tidy, LoneAt, Linked
  <2> QED  BY <2>2, <2>5
<1>5. CASE \E u \in Conns : u = upstream[x] /\ On(u, Attach(w, x))
  BY <1>3, <1>5, ReportFields
<1> QED  BY <1>1, <1>3, <1>4, <1>5 DEF Vouched

\* Of an agent whose ancestors stay there is still something to be told.
LEMMA WitnessKept ==
  ASSUME BaseInv, BaseInv', Tidy, Tidy', \A x \in Agents : Routed(x)',
         NEW a \in Agents, Running(a)', \A b \in Above(a) : parent'[b] = parent[b],
         NEW x \in Above(a), Witness(x), LinkKept(x), StrongKept(x), ReportsKept(x)
  PROVE  \E w \in Above(a)' : Witness(w)'
<1>1. parent \in Trees /\ parent' \in Trees  BY DEF BaseInv, MeshTypeOK, Trees
<1>2. Above(a)' = Above(a)  BY <1>1, UpToSame, AboveIs
<1>3. Above(a) \in SUBSET Agents /\ \A y \in Above(a) : parent[y] # None => parent[y] \in Above(a)
  BY <1>1, UpToClosed, AboveIs
<1>4. \A b \in Above(a) : b \in Agents /\ Above(b) \subseteq Above(a) /\ Above(b)' = Above(b)
  <2> SUFFICES ASSUME NEW b \in Above(a) PROVE b \in Agents /\ Above(b) \subseteq Above(a) /\ Above(b)' = Above(b)
    OBVIOUS
  <2>1. b \in Agents /\ Above(b) \subseteq Above(a)  BY <1>1, UpToMore, AboveIs
  <2>2. \A e \in Above(b) : parent'[e] = parent[e]  BY <2>1
  <2>3. Above(b)' = Above(b)  BY <1>1, <2>1, <2>2, UpToSame, AboveIs
  <2> QED  BY <2>1, <2>3
<1> SUFFICES ASSUME \A w \in Above(a) : ~Witness(w)' PROVE FALSE  BY <1>2
<1>5. \A w \in Above(a) : Running(w)'  BY <1>2, <1>3, OrphanedNext DEF OrphansSpeak
<1>6. \A w \in Above(a) :
        /\ Linked(w)'
        /\ \/ To(w)' = Server /\ parent'[w] = None
           \/ To(w)' \in Agents /\ parent'[w] = To(w)'
  BY <1>3, <1>5, InPlaceNext DEF OthersAreInPlace
<1>7. ~Strong(x)' /\ ~First(x)'  BY <1>3, FirstCarriedNext DEF FirstHopsCarry, Witness
<1>8. ~Strong(x)  BY <1>5, <1>7 DEF StrongKept
<1>9. PICK d \in Conns, p \in Agents : Linked(x) /\ On(d, Attach(x, p)) /\ (parent[x] = p => conn[d].child \in Above(p))
  BY <1>8 DEF Witness, Carried
<1>e. PICK e : e = conn[d].child  OBVIOUS
<1>10. To(x) = p /\ conn[d].phase # "gone" /\ e \in Agents  BY <1>e, <1>3, <1>9, ReportPlace
<1>11. Handed(x, d, p)  BY <1>9, <1>10 DEF ReportsKept
<1>12. parent'[x] = parent[x] /\ Linked(x)'  BY <1>6
<1>13. parent[x] = p => p \in Above(a) /\ e \in Above(a) /\ Above(p)' = Above(p)
  BY <1>e, <1>3, <1>4, <1>9, NodesAssumption
<1>14. ~(On(d, Attach(x, p))' /\ conn'[d].child = conn[d].child)
  <2> SUFFICES ASSUME On(d, Attach(x, p))', conn'[d].child = e PROVE Carried(x)'  BY <1>e DEF Witness
  <2> QED  BY <1>e, <1>9, <1>12, <1>13 DEF Carried
<1>15. ASSUME conn'[d] = conn[d], NEW u \in Conns, NEW q \in Agents, q = conn[d].to, On(u, Attach(x, p))', conn'[u].child = q
       PROVE  FALSE
  <2>1. parent[x] = p /\ q \notin Above(p)'
    <3> SUFFICES ASSUME parent[x] = p => q \in Above(p)' PROVE Carried(x)'  BY DEF Witness
    <3> QED  BY <1>12, <1>15 DEF Carried
  <2>2. e \in Above(a) /\ e \in Above(p) /\ q \notin Above(p)  BY <1>e, <1>9, <1>13, <2>1
  <2>3. parent[e] # q /\ parent'[e] = parent[e]
    <3>1. parent[e] # None => parent[e] \in Above(p)  BY <1>1, <2>2, UpToClosed, AboveIs
    <3> QED  BY <2>2, <3>1, NodesAssumption
  <2>4. upstream'[e] = d
    <3>1. conn'[d].child = e /\ conn'[d].phase # "gone" /\ Running(e)'  BY <1>e, <1>5, <1>10, <1>15, <2>2
    <3>2. LoneAt(d)'  BY DEF Tidy
    <3> QED  BY <3>1, <3>2 DEF LoneAt
  <2>5. To(e)' = q  BY <1>15, <2>4 DEF To
  <2> QED  BY <1>6, <2>2, <2>3, <2>5, NodesAssumption
<1>16. parent[x] = p => ~(\A v \in Agents : v = conn[d].child /\ Running(v)' => Strong(v)')
  BY <1>e, <1>5, <1>10, <1>13 DEF Witness
<1>17. ~(parent[x] = p /\ conn[d].child \notin Above(p))  BY <1>9
<1> QED  BY <1>5, <1>7, <1>11, <1>14, <1>15, <1>16, <1>17 DEF Handed

\* The connection of x stays as it is, or is lost.
Stays(x) ==
  /\ upstream'[x] = upstream[x] \/ upstream'[x] = None
  /\ Running(x)' => Running(x) \/ upstream'[x] = None
  /\ \A u \in Conns : u = upstream[x] =>
       \/ conn'[u].link = "cut"
       \/ /\ conn'[u].link = conn[u].link /\ conn'[u].to = conn[u].to
          /\ conn'[u].phase = conn[u].phase \/ {conn[u].phase, conn'[u].phase} \subseteq {"insert", "serve"}

LEMMA StaysLinked ==
  ASSUME BaseInv, NEW x \in Agents, Stays(x), Linked(x)'
  PROVE  /\ Linked(x) /\ upstream'[x] = upstream[x] /\ upstream[x] \in Conns /\ To(x)' = To(x)
         /\ Ph(x)' = Ph(x) \/ {Ph(x), Ph(x)'} \subseteq {"insert", "serve"}
<1>1. upstream'[x] = upstream[x] /\ upstream[x] # None /\ Running(x)'  BY DEF Linked, Stays
<1>2. upstream[x] \in Conns  BY <1>1 DEF BaseInv, MeshTypeOK
<1>3. PICK u \in Conns : u = upstream[x] /\ upstream'[x] = u  BY <1>1, <1>2
<1>4. conn'[u].link = "up"  BY <1>3 DEF Linked
<1>5. /\ conn[u].link = "up" /\ conn'[u].to = conn[u].to
      /\ conn'[u].phase = conn[u].phase \/ {conn[u].phase, conn'[u].phase} \subseteq {"insert", "serve"}
  BY <1>3, <1>4 DEF Stays
<1>6. Running(x)  BY <1>1 DEF Stays
<1> QED  BY <1>1, <1>3, <1>5, <1>6 DEF Linked, To, Ph

LEMMA StaysLink ==
  ASSUME BaseInv, NEW x \in Agents, Stays(x)
  PROVE  LinkKept(x)
BY StaysLinked DEF LinkKept

\* Whoever had something to tell has.
SpeaksOn(p, x) == (Restless(p) => Restless(p)') /\ (x \in announcing[p] => x \in announcing'[p])

LEMMA StaysStrong ==
  ASSUME BaseInv, NEW x \in Agents, Stays(x),
         \A p \in Agents : Linked(x) /\ To(x) = p => SpeaksOn(p, x)
  PROVE  StrongKept(x)
<1> SUFFICES ASSUME Strong(x), Running(x)', Linked(x)' PROVE Strong(x)'  BY DEF StrongKept, Strong
<1>1. /\ Linked(x) /\ To(x)' = To(x)
      /\ Ph(x)' = Ph(x) \/ {Ph(x), Ph(x)'} \subseteq {"insert", "serve"}
  BY StaysLinked
<1>2. CASE Ph(x) = "hello"  BY <1>1, <1>2 DEF Strong
<1>3. ASSUME NEW p \in Agents, p = To(x), x \in announcing[p] \/ (Ph(x) \in {"insert", "serve"} /\ Restless(p))
      PROVE Strong(x)'
  <2>1. SpeaksOn(p, x)  BY <1>1, <1>3
  <2>2. p = To(x)' /\ (x \in announcing'[p] \/ (Ph(x)' \in {"insert", "serve"} /\ Restless(p)'))
    BY <1>1, <1>3, <2>1 DEF SpeaksOn
  <2> QED  BY <2>2 DEF Strong
<1> QED  BY <1>1, <1>2, <1>3 DEF Strong

LEMMA StaysHello ==
  ASSUME BaseInv, NEW x \in Agents, Stays(x),
         \A u \in Conns : conn[u].to = Server /\ conn[u].phase = "hello" => \A n \in Reports : On(u, n) => On(u, n)'
  PROVE  HelloKept(x)
<1> SUFFICES ASSUME Linked(x)', To(x)' = Server, Ph(x)' = "hello"
             PROVE /\ Linked(x) /\ Ph(x) = "hello" /\ upstream'[x] = upstream[x] /\ To(x) = Server
                   /\ \A u \in Conns : u = upstream[x] => \A n \in Reports : On(u, n) => On(u, n)'
  BY DEF HelloKept
<1>1. Linked(x) /\ upstream'[x] = upstream[x] /\ To(x) = Server /\ Ph(x) = "hello"  BY StaysLinked
<1> QED  BY <1>1 DEF To, Ph

LEMMA StaysReports ==
  ASSUME BaseInv, NEW x \in Agents,
         \A d \in Conns : \A n \in Reports : On(d, n) => On(d, n)' /\ conn'[d].child = conn[d].child
  PROVE  ReportsKept(x)
BY ReportFields DEF ReportsKept, Handed

LEMMA RestlessStays ==
  ASSUME BaseInv, NEW p \in Agents,
         \/ pc'[p] \notin {"report", "main"}
         \/ /\ pc'[p] = pc[p] \/ pc[p] \in {"report", "main"}
            /\ upstream'[p] = upstream[p]
            /\ \A u \in Conns : u = upstream[p] => conn'[u].link \in {conn[u].link, "cut"},
         Restless(p)
  PROVE  Restless(p)'
<1>1. CASE pc'[p] \notin {"report", "main"}  BY <1>1 DEF Restless
<1>2. CASE pc'[p] \in {"report", "main"} /\ pc[p] \in {"report", "main"}
  <2>1. upstream[p] \in Conns  BY <1>2 DEF BaseInv, MeshTypeOK, AgentOK, Attached
  <2> QED  BY <1>2, <2>1 DEF Restless
<1> QED  BY <1>1, <1>2

LEMMA OpensKept ==
  ASSUME BaseInv, Tidy, NEW a \in Agents, NEW t \in Agents \cup {Server}, NEW c \in Conns, Opens(a, t, c), NEW x \in Agents
  PROVE  Kept(x)
<1> USE NodesAssumption
<1>0. pc \in [Agents -> PCs] /\ upstream \in [Agents -> Conns \cup {None}]  BY DEF BaseInv, MeshTypeOK
<1>1. /\ pc' = [pc EXCEPT ![a] = "announce"] /\ upstream' = [upstream EXCEPT ![a] = c] /\ upstream[a] = None
      /\ Sets(c, a, t, "up", "hello") /\ conn[c].phase = "gone" /\ \A b \in Agents : upstream[b] # c
      /\ UNCHANGED <<announcing, wire>>
  BY DEF Opens
<1>2. pc'[a] = "announce" /\ upstream'[a] = c /\ \A y \in Agents : y # a => pc'[y] = pc[y] /\ upstream'[y] = upstream[y]
  BY <1>0, <1>1
<1>3. ReportsKept(x)
  <2>1. wire[c] = <<>>  BY <1>1 DEF BaseInv, ConnOK
  <2>2. \A d \in Conns : \A n \in Reports : On(d, n) => On(d, n)' /\ conn'[d].child = conn[d].child
    BY <1>1, <2>1 DEF On, Sets
  <2> QED  BY <2>2, StaysReports
<1>4. CASE x = a
  <2>1. Strong(a)'  BY <1>1, <1>2 DEF Strong, Sets, Ph, Running
  <2>2. Restless(a)'  BY <1>2 DEF Restless
  <2> QED  BY <1>3, <1>4, <2>1, <2>2 DEF Kept, LinkKept, StrongKept, HelloKept
<1>5. CASE x # a
  <2>1. Stays(x)  BY <1>1, <1>2, <1>5 DEF Stays, Sets, Running
  <2>2. \A p \in Agents : SpeaksOn(p, x)
    <3>1. \A p \in Agents : Restless(p) => Restless(p)'
      <4> SUFFICES ASSUME NEW p \in Agents, Restless(p) PROVE Restless(p)'  OBVIOUS
      <4>1. CASE p = a  BY <1>2, <4>1, RestlessStays
      <4>2. CASE p # a
        <5>1. pc'[p] = pc[p] /\ upstream'[p] = upstream[p] /\ \A u \in Conns : u = upstream[p] => conn'[u] = conn[u]
          BY <1>1, <1>2, <4>2 DEF Sets
        <5> QED  BY <5>1, RestlessStays
      <4> QED  BY <4>1, <4>2
    <3> QED  BY <1>1, <3>1 DEF SpeaksOn
  <2>3. HelloKept(x)  BY <1>1, <2>1, StaysHello DEF On
  <2> QED  BY <1>3, <2>1, <2>2, <2>3, StaysLink, StaysStrong DEF Kept
<1> QED  BY <1>4, <1>5

\* Steps of an agent that leave the connections alone.
LEMMA QuietKept ==
  ASSUME BaseInv, NEW a \in Agents, conn' = conn, wire' = wire,
         \A p \in Agents : p # a => pc'[p] = pc[p] /\ upstream'[p] = upstream[p],
         upstream'[a] \in {upstream[a], None}, Running(a)' => Running(a) \/ upstream'[a] = None,
         NEW x \in Agents, \A p \in Agents : Linked(x) /\ To(x) = p => SpeaksOn(p, x)
  PROVE  Kept(x)
<1>1. Stays(x)
  <2>1. upstream'[x] = upstream[x] \/ upstream'[x] = None  OBVIOUS
  <2>2. Running(x)' => Running(x) \/ upstream'[x] = None
    <3>1. CASE x = a  BY <3>1
    <3>2. CASE x # a  BY <3>2 DEF Running
    <3> QED  BY <3>1, <3>2
  <2> QED  BY <2>1, <2>2 DEF Stays
<1>2. ReportsKept(x) /\ HelloKept(x)  BY <1>1, StaysReports, StaysHello DEF On
<1> QED  BY <1>1, <1>2, StaysLink, StaysStrong DEF Kept

LEMMA AgentKept ==
  ASSUME BaseInv, Tidy, races' = {}, NEW a \in Agents, AgentEffect(a), NEW x \in Agents
  PROVE  Kept(x)
<1> USE NodesAssumption
<1>0. /\ pc \in [Agents -> PCs] /\ upstream \in [Agents -> Conns \cup {None}]
      /\ announcing \in [Agents -> SUBSET Agents]
  BY DEF BaseInv, MeshTypeOK
<1>1. \A t \in Agents \cup {Server} : \A c \in Conns : Opens(a, t, c) => Kept(x)  BY OpensKept
\* The agent goes on to another step, and stays restless if it was.
<1>2. ASSUME NEW l, pc' = [pc EXCEPT ![a] = l], l # "crashed",
             upstream' = upstream \/ upstream' = [upstream EXCEPT ![a] = None],
             pc[a] = "crashed" => upstream'[a] = None,
             \/ l \notin {"report", "main"}
             \/ pc[a] \in {"report", "main"} /\ upstream' = upstream,
             UNCHANGED <<conn, wire, announcing>>
      PROVE  Kept(x)
  <2>1. pc'[a] = l /\ \A p \in Agents : p # a => pc'[p] = pc[p] /\ upstream'[p] = upstream[p]  BY <1>0, <1>2
  <2>2. \A p \in Agents : Restless(p) => Restless(p)'
    <3> SUFFICES ASSUME NEW p \in Agents, Restless(p) PROVE Restless(p)'  OBVIOUS
    <3>1. \/ pc'[p] \notin {"report", "main"}
          \/ (pc'[p] = pc[p] \/ pc[p] \in {"report", "main"}) /\ upstream'[p] = upstream[p]
      BY <1>2, <2>1
    <3> QED  BY <1>2, <3>1, RestlessStays
  <2>3. \A p \in Agents : SpeaksOn(p, x)  BY <1>2, <2>2 DEF SpeaksOn
  <2>4. upstream'[a] \in {upstream[a], None} /\ (Running(a)' => Running(a) \/ upstream'[a] = None)
    BY <1>0, <1>2 DEF Running
  <2> QED  BY <1>2, <2>1, <2>3, <2>4, QuietKept
<1>3. ASSUME NEW l \in PCs, Moves(a, l) PROVE Kept(x)
  BY <1>2, <1>3 DEF Moves
<1>4. ASSUME NEW p \in Agents \cup {Server}, NEW l \in PCs, TakesParent(a, p, l) PROVE Kept(x)
  BY <1>2, <1>4 DEF TakesParent
<1>5. CASE Finishes(a)  BY <1>2, <1>5 DEF Finishes
<1>6. CASE Loses(a)  BY <1>0, <1>2, <1>6 DEF Loses
<1>7. CASE Restarts(a)
  <2>1. upstream[a] = None  BY <1>7 DEF Restarts, BaseInv, AgentOK, Attached
  <2> QED  BY <1>2, <1>7, <2>1 DEF Restarts
<1>8. CASE Announces(a)
  <2>1. /\ pc[a] = "announce" /\ pc' = [pc EXCEPT ![a] = "report"]
        /\ announcing' = [announcing EXCEPT ![a] = {y \in Agents : downstreams[a][y] # None}]
        /\ \A c \in Conns : ~(conn[c].to = a /\ conn[c].phase = "insert")
        /\ UNCHANGED <<upstream, conn, wire>>
    BY <1>8 DEF Announces
  <2>2. \A p \in Agents : p # a => pc'[p] = pc[p] /\ upstream'[p] = upstream[p] /\ announcing'[p] = announcing[p]
    BY <1>0, <2>1
  <2>3. announcing[a] = {}  BY <2>1 DEF BaseInv, AgentOK
  <2>4. ASSUME NEW p \in Agents, p # a PROVE SpeaksOn(p, x)
    BY <2>1, <2>2, <2>4, RestlessStays DEF SpeaksOn
  <2>5. CASE Linked(x) => To(x) # a
    <3>1. \A p \in Agents : Linked(x) /\ To(x) = p => SpeaksOn(p, x)  BY <2>4, <2>5
    <3>2. Running(a)' => Running(a)  BY <2>1 DEF Running
    <3> QED  BY <2>1, <2>2, <3>1, <3>2, QuietKept
  <2>6. CASE Linked(x) /\ To(x) = a
    <3>1. Stays(x)
      <4>1. Running(x)' => Running(x)  BY <2>6 DEF Linked
      <4> QED  BY <2>1, <4>1 DEF Stays
    <3>2. ReportsKept(x) /\ HelloKept(x) /\ LinkKept(x)
      BY <2>1, <3>1, StaysReports, StaysHello, StaysLink DEF On
    <3>3. StrongKept(x)
      <4>1. Linked(x)' /\ To(x)' = a /\ Ph(x)' = Ph(x) /\ Running(x)'
        <5>1. Running(x) /\ Running(x)'  BY <2>1, <2>2, <2>6, <1>0 DEF Linked, Running
        <5> QED  BY <2>1, <2>6, <5>1 DEF Linked, To, Ph
      <4>2. CASE Ph(x) = "hello"  BY <4>1, <4>2 DEF StrongKept, Strong
      <4>3. CASE Ph(x) # "hello"
        <5>1. upstream[x] \in Conns /\ Ph(x) = "serve" /\ conn[upstream[x]].child = x
          BY <2>1, <2>6, <4>3, LinkedConn DEF To, Ph
        <5>2. PICK u \in Conns : u = upstream[x]  BY <5>1
        <5>3. downstreams[a][x] = u
          <6>1. EnteredAt(u)  BY DEF Tidy
          <6> QED  BY <2>6, <5>1, <5>2, <6>1 DEF EnteredAt, To, Ph, Linked
        <5>4. x \in announcing'[a]  BY <1>0, <2>1, <5>2, <5>3
        <5> QED  BY <4>1, <5>4 DEF StrongKept, Strong
      <4> QED  BY <4>2, <4>3
    <3> QED  BY <3>2, <3>3 DEF Kept
  <2> QED  BY <2>5, <2>6
<1>9. ASSUME NEW z \in Agents, Notifies(a, z) PROVE Kept(x)
  <2>1. /\ pc[a] = "report" /\ announcing' = [announcing EXCEPT ![a] = @ \ {z}]
        /\ Sends(a, Attach(z, a)) /\ UNCHANGED <<pc, upstream, conn>>
    BY <1>9 DEF Notifies
  <2>2. Stays(x)  BY <2>1 DEF Stays, Running
  <2>3. \A d \in Conns : \A n \in Reports : On(d, n) => On(d, n)'  BY <2>1 DEF Sends
  <2>4. ReportsKept(x) /\ HelloKept(x) /\ LinkKept(x)
    BY <2>1, <2>2, <2>3, StaysReports, StaysHello, StaysLink
  <2>5. \A p \in Agents : /\ Restless(p) => Restless(p)'
                          /\ p # a \/ x # z => (x \in announcing[p] => x \in announcing'[p])
    BY <1>0, <2>1 DEF Restless
  <2>6. CASE x # z \/ (Linked(x) => To(x) # a)
    <3>1. \A p \in Agents : Linked(x) /\ To(x) = p => SpeaksOn(p, x)  BY <2>5, <2>6 DEF SpeaksOn
    <3>2. StrongKept(x)  BY <2>2, <3>1, StaysStrong
    <3> QED  BY <2>4, <3>2 DEF Kept
  <2>7. CASE x = z /\ Linked(x) /\ To(x) = a
    <3>1. Linked(x)' /\ To(x)' = a /\ Ph(x)' = Ph(x) /\ Running(x)'  BY <2>1, <2>7 DEF Linked, To, Ph, Running
    <3>2. upstream[a] \in Conns /\ AgentOK(a)  BY <2>1 DEF BaseInv, MeshTypeOK, AgentOK, Attached
    <3>3. CASE Restless(a)
      <4>1. Strong(x)'
        <5>1. Ph(x) \in {"hello", "insert", "serve"}  BY <2>7, LinkedConn
        <5> QED  BY <2>5, <3>1, <3>3, <5>1 DEF Strong
      <4> QED  BY <2>4, <4>1 DEF Kept, StrongKept
    <3>4. CASE ~Restless(a)
      <4>1. PICK u \in Conns : u = upstream[a] /\ conn[u].link = "up" /\ conn[u].child = a
        BY <2>1, <3>2, <3>4, ConnIs DEF Restless, AgentOK, BaseInv, ConnOK
      <4>2. On(u, Attach(x, a))'  BY <2>1, <2>7, <4>1, ReportFields DEF Sends
      <4>3. First(x)'  BY <2>1, <3>1, <4>1, <4>2 DEF First
      <4> QED  BY <2>4, <4>3 DEF Kept, StrongKept
    <3> QED  BY <3>3, <3>4
  <2> QED  BY <2>6, <2>7
<1> QED  BY <1>1, <1>3, <1>4, <1>5, <1>6, <1>7, <1>8, <1>9 DEF AgentEffect

\* The agent behind a connection that is cut has to say hello again.
LEMMA CutSpeaks ==
  ASSUME BaseInv, Tidy, NEW d \in Conns, conn[d].phase # "gone", conn'[d].link = "cut", NEW e \in Agents, e = conn[d].child,
         Running(e)', Running(e) /\ upstream'[e] = upstream[e]
  PROVE  Strong(e)' /\ upstream'[e] = d
<1>1. LoneAt(d)  BY DEF Tidy
<1>2. upstream'[e] = d  BY <1>1 DEF LoneAt
<1> QED  BY <1>2 DEF Strong, Linked

\* The reports of a connection that is cut are lost, none of them news about its own
\* relay's other peers.
LEMMA LostReports ==
  ASSUME BaseInv, BaseInv', Tidy, NEW d \in Conns, conn'[d].link = "cut", KeepsNews(d),
         \A e \in Agents : e = conn[d].child /\ Running(e)' => Running(e) /\ upstream'[e] = upstream[e],
         NEW x \in Agents, NEW p \in Agents, Linked(x), To(x) = p, On(d, Attach(x, p)), Stays(x)
  PROVE  Handed(x, d, p)
<1>1. conn[d].phase # "gone" /\ conn[d].child \in Agents  BY ReportPlace
<1>2. PICK e \in Agents : e = conn[d].child  BY <1>1
<1>3. Running(e)' => Strong(e)' /\ upstream'[e] = d  BY <1>1, <1>2, CutSpeaks
<1>4. CASE parent[x] = p  BY <1>2, <1>3, <1>4 DEF Handed
<1>5. CASE parent[x] # p
  <2>1. p = e
    <3>1. /\ Attach(x, p) \in Reports /\ Attach(x, p).t = "connected" /\ Attach(x, p).a = x /\ Attach(x, p).p = p
      BY ReportFields
    <3>2. News(Attach(x, p))  BY <1>5, <3>1 DEF News
    <3> QED  BY <1>2, <3>1, <3>2 DEF KeepsNews
  <2>2. Restless(e)'
    <3>1. CASE Running(e)'  BY <1>3, <3>1 DEF Restless
    <3>2. CASE ~Running(e)'  BY <3>2 DEF Restless, Running
    <3> QED  BY <3>1, <3>2
  <2>3. Linked(x)' => Strong(x)'
    <3>1. Linked(x)' => To(x)' = e  BY <2>1, StaysLinked
    <3> QED  BY <2>2, <3>1, RestlessStrongNext DEF RestlessOnesSpeak
  <2> QED  BY <2>3 DEF Handed, Strong
<1> QED  BY <1>4, <1>5

\* Where links are only cut and nothing is announced, the relays still speak.
LEMMA RelaysSpeak ==
  ASSUME BaseInv, UNCHANGED <<pc, upstream, announcing>>, \A u \in Conns : conn'[u].link \in {conn[u].link, "cut"}
  PROVE  \A p, x \in Agents : SpeaksOn(p, x)
BY RestlessStays DEF SpeaksOn

LEMMA ServerKept ==
  ASSUME BaseInv, BaseInv', Tidy, races' = {}, NEW c \in Conns, ServerEffect(c), NEW x \in Agents
  PROVE  /\ LinkKept(x) /\ HelloKept(x)
         /\ StrongKept(x) \/ (Accepts(c) /\ upstream[x] = c /\ conn[c].child = x /\ (Linked(x)' => To(x)' = Server))
         /\ ReportsKept(x) \/ \E m \in Reports : Records(c, m) /\ x = m.a
<1> USE NodesAssumption
<1>0. UNCHANGED <<pc, upstream, announcing>> /\ conn[c].to = Server
  BY DEF ServerEffect, Accepts, Closes, Records, Discounts, Refuses, agentPart
<1>1. CASE Accepts(c)
  <2>1. Sets(c, conn[c].child, Server, conn[c].link, "serve") /\ wire' = wire /\ conn[c].phase = "hello"
    BY <1>1 DEF Accepts
  <2>2. ReportsKept(x)
    <3>1. \A d \in Conns : \A n \in Reports : On(d, n) => On(d, n)' /\ conn'[d].child = conn[d].child
      BY <2>1 DEF Sets, On
    <3> QED  BY <3>1, StaysReports
  <2>3. CASE upstream[x] = c
    <3>1. LinkKept(x) /\ HelloKept(x) /\ (Linked(x)' => To(x)' = Server)
      BY <1>0, <2>1, <2>3 DEF Sets, LinkKept, HelloKept, Linked, To, Ph, Running
    <3>2. conn[c].child = x  BY <2>1, <2>3 DEF BaseInv, AgentOK
    <3> QED  BY <1>1, <2>2, <2>3, <3>1, <3>2
  <2>4. CASE upstream[x] # c
    <3>1. Stays(x)  BY <1>0, <2>1, <2>4 DEF Sets, Stays, Running
    <3>2. \A u \in Conns : conn'[u].link \in {conn[u].link, "cut"}  BY <2>1 DEF Sets
    <3>3. StrongKept(x)  BY <1>0, <3>1, <3>2, RelaysSpeak, StaysStrong
    <3>4. HelloKept(x)  BY <2>1, <3>1, StaysHello DEF On
    <3> QED  BY <2>2, <3>1, <3>3, <3>4, StaysLink
  <2> QED  BY <2>3, <2>4
<1>2. CASE Closes(c)
  <2>1. Sets(c, None, None, "cut", "gone") /\ Clears(c) /\ conn[c].phase = "serve" /\ KeepsNews(c)
    BY <1>2 DEF Closes
  <2>2. Stays(x)  BY <1>0, <2>1 DEF Sets, Stays, Running
  <2>3. \A u \in Conns : conn'[u].link \in {conn[u].link, "cut"}  BY <2>1 DEF Sets
  <2>4. StrongKept(x)  BY <1>0, <2>2, <2>3, RelaysSpeak, StaysStrong
  <2>5. HelloKept(x)  BY <2>1, <2>2, StaysHello DEF Clears
  <2>6. ReportsKept(x)
    <3> SUFFICES ASSUME NEW d \in Conns, NEW p \in Agents, Linked(x), To(x) = p, On(d, Attach(x, p))
                 PROVE  Handed(x, d, p)
      BY DEF ReportsKept
    <3>1. CASE d = c
      <4>1. \A e \in Agents : e = conn[d].child /\ Running(e)' => Running(e) /\ upstream'[e] = upstream[e]
        BY <1>0 DEF Running
      <4>2. conn'[d].link = "cut" /\ KeepsNews(d)  BY <2>1, <3>1 DEF Sets
      <4> QED  BY <2>2, <4>1, <4>2, LostReports
    <3>2. CASE d # c  BY <2>1, <3>2, ReportFields DEF Sets, Clears, Handed
    <3> QED  BY <3>1, <3>2
  <2> QED  BY <2>2, <2>4, <2>5, <2>6, StaysLink
<1>3. ASSUME NEW m \in Reports, Records(c, m) \/ Discounts(c, m) \/ Refuses(c, m)
      PROVE  /\ LinkKept(x) /\ HelloKept(x) /\ StrongKept(x)
             /\ ReportsKept(x) \/ (Records(c, m) /\ x = m.a)
  <2>1. Takes(c, m) /\ conn' = conn /\ conn[c].phase = "serve"  BY <1>3 DEF Records, Discounts, Refuses
  <2>2. Stays(x)  BY <1>0, <2>1 DEF Stays, Running
  <2>3. StrongKept(x)  BY <1>0, <2>1, <2>2, RelaysSpeak, StaysStrong
  <2>4. HelloKept(x)  BY <2>1, <2>2, StaysHello DEF Takes
  <2>5. ASSUME ~(Records(c, m) /\ x = m.a) PROVE ReportsKept(x)
    <3> SUFFICES ASSUME NEW d \in Conns, NEW p \in Agents, Linked(x), To(x) = p, On(d, Attach(x, p))
                 PROVE  Handed(x, d, p)
      BY DEF ReportsKept
    <3>1. /\ Attach(x, p) \in Reports /\ Attach(x, p).t = "connected" /\ Attach(x, p).a = x /\ Attach(x, p).p = p
      BY ReportFields
    <3>2. CASE d = c /\ Attach(x, p) = m
      <4>1. Refuses(c, m)  BY <1>3, <2>5, <3>1, <3>2 DEF Discounts
      <4>2. conn[c].child \notin Above(p) /\ ~News(m)  BY <3>1, <3>2, <4>1 DEF Refuses, OriginAllows
      <4>3. parent[x] = p  BY <3>1, <3>2, <4>2 DEF News
      <4> QED  BY <3>2, <4>2, <4>3 DEF Handed
    <3>3. CASE ~(d = c /\ Attach(x, p) = m)  BY <2>1, <3>1, <3>3 DEF Takes, Handed
    <3> QED  BY <3>2, <3>3
  <2> QED  BY <2>2, <2>3, <2>4, <2>5, StaysLink
<1> QED  BY <1>1, <1>2, <1>3 DEF ServerEffect

LEMMA RelayKept ==
  ASSUME BaseInv, BaseInv', Tidy, races' = {}, NEW p \in Agents, NEW c \in Conns, RelayEffect(p, c), NEW x \in Agents
  PROVE  Kept(x)
<1> USE NodesAssumption
<1>0. UNCHANGED <<pc, upstream, announcing>> /\ conn[c].to = p /\ Running(p) /\ conn[c].phase # "gone"
  BY DEF RelayEffect, Hellos, Inserts, Drops, TakesOut, TellsLoss, Forwards, Misses, Serves, agentPart
<1>y. PICK y \in Agents : y = conn[c].child  BY <1>0, ConnIs
<1>a. \A e \in Agents : Running(e)' => Running(e) /\ upstream'[e] = upstream[e]  BY <1>0 DEF Running
\* All is told, and the connection keeps its ends.
<1>1. ASSUME Stays(x), \A u \in Conns : conn'[u].link \in {conn[u].link, "cut"},
             \A d \in Conns \ {c} : \A n \in Reports : On(d, n) => On(d, n)'
      PROVE  LinkKept(x) /\ StrongKept(x) /\ HelloKept(x)
  BY <1>0, <1>1, RelaysSpeak, StaysStrong, StaysHello, StaysLink
<1>2. ASSUME \A d \in Conns : \A n \in Reports : On(d, n) => On(d, n)' /\ conn'[d].child = conn[d].child
      PROVE  ReportsKept(x)
  BY <1>2, StaysReports
<1>3. CASE Hellos(p, c)
  <2>1. Sets(c, y, p, conn[c].link, "insert") /\ Sends(p, Attach(y, p)) /\ conn[c].phase = "hello"
    BY <1>3, <1>y DEF Hellos, Serves
  <2>2. \A d \in Conns : \A n \in Reports : On(d, n) => On(d, n)' /\ conn'[d].child = conn[d].child
    BY <1>y, <2>1 DEF Sends, Sets
  <2>3. \A u \in Conns : conn'[u].link \in {conn[u].link, "cut"}  BY <2>1 DEF Sets
  <2>4. CASE upstream[x] # c
    <3>1. Stays(x)  BY <1>0, <2>1, <2>4 DEF Sets, Stays, Running
    <3> QED  BY <1>1, <1>2, <2>2, <2>3, <3>1 DEF Kept
  <2>5. CASE upstream[x] = c
    <3>1. x = y  BY <1>y, <2>1, <2>5 DEF BaseInv, AgentOK
    <3>2. LinkKept(x) /\ HelloKept(x)
      BY <1>0, <2>1, <2>5 DEF Sets, LinkKept, HelloKept, Linked, To, Ph, Running
    <3>3. StrongKept(x)
      <4> SUFFICES ASSUME Running(x)', Linked(x)' PROVE Strong(x)' \/ First(x)'  BY DEF StrongKept, Strong
      <4>1. To(x)' = p  BY <1>0, <2>1, <2>5 DEF Sets, To
      <4>2. CASE Restless(p)'
        BY <4>1, <4>2, RestlessStrongNext DEF RestlessOnesSpeak
      <4>3. CASE ~Restless(p)'
        <5>1. pc[p] \in {"report", "main"}  BY <1>0, <4>3 DEF Restless
        <5>2. upstream[p] \in Conns /\ AgentOK(p)  BY <5>1 DEF BaseInv, MeshTypeOK, AgentOK, Attached
        <5>3. PICK u \in Conns : u = upstream[p] /\ upstream'[p] = u  BY <1>0, <5>2
        <5>4. conn'[u].link # "cut"  BY <4>3, <5>3 DEF Restless
        <5>5. conn[u].link = "up" /\ conn[u].child = p /\ conn'[u].child = p
          <6>1. conn[u].link # "cut"  BY <2>3, <5>4
          <6>2. ConnOK(u)  BY DEF BaseInv
          <6>3. conn[u].link = "up" /\ conn[u].phase # "gone"  BY <6>1, <6>2 DEF ConnOK
          <6>4. conn[u].child = p  BY <5>2, <5>3, <6>3 DEF AgentOK
          <6> QED  BY <1>y, <2>1, <6>3, <6>4 DEF Sets
        <5>6. On(u, Attach(x, p))'  BY <2>1, <3>1, <5>3, <5>5, ReportFields DEF Sends
        <5> QED  BY <4>1, <5>5, <5>6 DEF First
      <4> QED  BY <4>2, <4>3
    <3> QED  BY <1>2, <2>2, <3>2, <3>3 DEF Kept
  <2> QED  BY <2>4, <2>5
<1>4. CASE Inserts(p, c)
  <2>1. Sets(c, y, p, conn[c].link, "serve") /\ wire' = wire /\ conn[c].phase = "insert"
    BY <1>4, <1>y DEF Inserts, Serves
  <2>2. Stays(x)  BY <1>0, <2>1 DEF Sets, Stays, Running
  <2>3. /\ \A u \in Conns : conn'[u].link \in {conn[u].link, "cut"}
        /\ \A d \in Conns : \A n \in Reports : On(d, n) => On(d, n)' /\ conn'[d].child = conn[d].child
    BY <1>y, <2>1 DEF Sets, On
  <2> QED  BY <1>1, <1>2, <2>2, <2>3 DEF Kept
<1>5. CASE Drops(p, c)
  <2>1. Sets(c, y, p, "cut", "remove") /\ Clears(c) /\ KeepsNews(c)  BY <1>5, <1>y DEF Drops
  <2>2. Stays(x)  BY <1>0, <2>1 DEF Sets, Stays, Running
  <2>3. /\ \A u \in Conns : conn'[u].link \in {conn[u].link, "cut"}
        /\ \A d \in Conns \ {c} : conn'[d] = conn[d] /\ \A n \in Reports : On(d, n) => On(d, n)'
    BY <2>1 DEF Sets, Clears
  <2>4. ReportsKept(x)
    <3> SUFFICES ASSUME NEW d \in Conns, NEW q \in Agents, Linked(x), To(x) = q, On(d, Attach(x, q))
                 PROVE  Handed(x, d, q)
      BY DEF ReportsKept
    <3>1. CASE d = c
      <4>1. \A e \in Agents : e = conn[d].child /\ Running(e)' => Running(e) /\ upstream'[e] = upstream[e]
        BY <1>a
      <4>2. conn'[d].link = "cut" /\ KeepsNews(d)  BY <2>1, <3>1 DEF Sets
      <4> QED  BY <2>2, <4>1, <4>2, LostReports
    <3>2. CASE d # c  BY <2>3, <3>2, ReportFields DEF Handed
    <3> QED  BY <3>1, <3>2
  <2> QED  BY <1>1, <2>2, <2>3, <2>4 DEF Kept
\* A cut connection on which nothing is under way.
<1>6. CASE TakesOut(p, c) \/ TellsLoss(p, c)
  <2>1. /\ conn[c].link = "cut" /\ wire[c] = <<>> /\ conn'[c].link = "cut"
        /\ \A d \in Conns \ {c} : conn'[d] = conn[d]
        /\ \A d \in Conns : \A n \in Reports : On(d, n) => On(d, n)'
    <3>1. conn[c].phase \in {"remove", "report"} /\ ConnOK(c)  BY <1>6 DEF TakesOut, TellsLoss, Serves, BaseInv
    <3>2. conn[c].link = "cut" /\ wire[c] = <<>>  BY <3>1 DEF ConnOK
    <3>3. CASE TakesOut(p, c)  BY <3>2, <3>3 DEF TakesOut, Sets, On
    <3>4. CASE TellsLoss(p, c)  BY <3>2, <3>4 DEF TellsLoss, Sets, Sends
    <3> QED  BY <1>6, <3>2, <3>3, <3>4
  <2>2. Stays(x)  BY <1>0, <2>1 DEF Stays, Running
  <2>3. \A n \in Reports : ~On(c, n)  BY <2>1 DEF On
  <2>4. ReportsKept(x)  BY <1>2, <2>1, <2>3
  <2> QED  BY <1>1, <2>1, <2>2, <2>4 DEF Kept
<1>7. ASSUME NEW m \in Reports, Forwards(p, c, m) PROVE Kept(x)
  <2>1. /\ conn' = conn /\ conn[c].phase = "serve" /\ Passes(c, upstream[p], m)
        /\ upstream[p] \in Conns /\ conn[upstream[p]].link = "up"
    BY <1>7 DEF Forwards, Serves
  <2>2. Stays(x)  BY <1>0, <2>1 DEF Stays, Running
  <2>3. \A d \in Conns : \A n \in Reports : On(d, n) => On(d, n)' \/ (d = c /\ n = m)  BY <2>1 DEF Passes
  <2>4. PICK u \in Conns : u = upstream[p]  BY <2>1
  <2>5. On(u, m)' /\ conn'[u].child = p
    <3>1. ConnOK(u) /\ AgentOK(p) /\ conn[u].link = "up"  BY <2>1, <2>4 DEF BaseInv
    <3>2. conn[u].phase # "gone"  BY <3>1 DEF ConnOK
    <3>3. conn[u].child = p  BY <2>4, <3>1, <3>2, NodesAssumption DEF AgentOK
    <3>4. On(u, m)'  BY <2>1, <2>4 DEF Passes
    <3> QED  BY <2>1, <3>3, <3>4
  <2>6. ReportsKept(x)
    <3> SUFFICES ASSUME NEW d \in Conns, NEW q \in Agents, Linked(x), To(x) = q, On(d, Attach(x, q))
                 PROVE  Handed(x, d, q)
      BY DEF ReportsKept
    <3>1. Attach(x, q) \in Reports  BY ReportFields
    <3>2. CASE d = c /\ Attach(x, q) = m
      <4>1. conn'[d] = conn[d] /\ conn[d].to = p /\ conn'[u].child = p /\ On(u, Attach(x, q))'
        BY <1>0, <2>1, <2>5, <3>2 DEF On
      <4> QED  BY <4>1 DEF Handed
    <3>3. CASE ~(d = c /\ Attach(x, q) = m)  BY <2>1, <2>3, <3>1, <3>3 DEF Handed
    <3> QED  BY <3>2, <3>3
  <2> QED  BY <1>1, <2>1, <2>2, <2>3, <2>6 DEF Kept
<1>8. ASSUME NEW m \in Reports, Misses(p, c, m) PROVE Kept(x)
  <2>1. /\ conn' = conn /\ conn[c].phase = "serve" /\ Takes(c, m) /\ ~News(m)
        /\ upstream[p] \in Conns /\ conn[upstream[p]].link = "cut"
    BY <1>8 DEF Misses, Serves
  <2>2. Stays(x)  BY <1>0, <2>1 DEF Stays, Running
  <2>3. \A d \in Conns : \A n \in Reports : On(d, n) => On(d, n)' \/ (d = c /\ n = m)  BY <2>1 DEF Takes
  <2>4. Running(y)' => Strong(y)'
    <3> SUFFICES ASSUME Running(y)', Linked(y)' PROVE Strong(y)'  BY DEF Strong
    <3>1. Running(y) /\ upstream'[y] = upstream[y]  BY <1>a
    <3>2. upstream'[y] = c  BY <1>0, <1>y, <3>1 DEF Tidy, LoneAt
    <3>3. To(y)' = p  BY <1>0, <2>1, <3>2 DEF To
    <3>4. Restless(p)'  BY <1>0, <2>1 DEF Restless
    <3> QED  BY <3>3, <3>4, RestlessStrongNext DEF RestlessOnesSpeak
  <2>6. ReportsKept(x)
    <3> SUFFICES ASSUME NEW d \in Conns, NEW q \in Agents, Linked(x), To(x) = q, On(d, Attach(x, q))
                 PROVE  Handed(x, d, q)
      BY DEF ReportsKept
    <3>1. /\ Attach(x, q) \in Reports /\ Attach(x, q).t = "connected" /\ Attach(x, q).a = x /\ Attach(x, q).p = q
      BY ReportFields
    <3>2. CASE d = c /\ Attach(x, q) = m
      <4>1. parent[x] = q  BY <2>1, <3>1, <3>2 DEF News
      <4>2. \A e \in Agents : e = conn[d].child /\ Running(e)' => Strong(e)'  BY <1>y, <2>4, <3>2
      <4> QED  BY <4>1, <4>2 DEF Handed
    <3>3. CASE ~(d = c /\ Attach(x, q) = m)  BY <2>1, <2>3, <3>1, <3>3 DEF Handed
    <3> QED  BY <3>2, <3>3
  <2> QED  BY <1>1, <2>1, <2>2, <2>3, <2>6 DEF Kept
<1> QED  BY <1>3, <1>4, <1>5, <1>6, <1>7, <1>8 DEF RelayEffect

LEMMA FaultKept ==
  ASSUME BaseInv, BaseInv', Tidy, races' = {}, NEW x \in Agents,
         (\E c \in Conns : Cuts(c)) \/ (\E a \in Agents : Crashes(a)) \/ Stutters
  PROVE  Kept(x)
<1> USE NodesAssumption
<1>1. ASSUME UNCHANGED <<pc, upstream, announcing, wire>>,
             \A u \in Conns : /\ conn'[u].child = conn[u].child /\ conn'[u].to = conn[u].to /\ conn'[u].phase = conn[u].phase
                              /\ conn'[u].link \in {conn[u].link, "cut"}
      PROVE  Kept(x)
  <2>1. Stays(x)  BY <1>1 DEF Stays, Running
  <2>2. \A d \in Conns : \A n \in Reports : On(d, n) => On(d, n)'  BY <1>1 DEF On
  <2> QED  BY <1>1, <2>1, <2>2, RelaysSpeak, StaysStrong, StaysHello, StaysLink, StaysReports DEF Kept
<1>2. ASSUME NEW c \in Conns, Cuts(c) PROVE Kept(x)  BY <1>1, <1>2 DEF Cuts, Sets
<1>3. CASE Stutters  BY <1>1, <1>3 DEF Stutters, agentPart
<1>4. ASSUME NEW a \in Agents, Crashes(a) PROVE Kept(x)
  <2>0. pc \in [Agents -> PCs] /\ upstream \in [Agents -> Conns \cup {None}] /\ announcing \in [Agents -> SUBSET Agents]
    BY DEF BaseInv, MeshTypeOK
  <2>1. /\ pc' = [pc EXCEPT ![a] = "crashed"] /\ upstream' = [upstream EXCEPT ![a] = None]
        /\ announcing' = [announcing EXCEPT ![a] = {}]
    BY <1>4 DEF Crashes
  <2>2. \A u \in Conns : conn'[u].link = "cut" \/ (conn[u].to # a /\ conn'[u].link = conn[u].link)
    BY <1>4 DEF Crashes
  <2>3. \A u \in Conns : conn[u].to # a =>
          conn'[u].child = conn[u].child /\ conn'[u].to = conn[u].to /\ conn'[u].phase = conn[u].phase
    BY <1>4 DEF Crashes
  <2>4. \A d \in Conns : \A n \in Reports : On(d, n)' <=> On(d, n) /\ conn[d].to # a  BY <1>4 DEF Crashes
  <2>5. pc'[a] = "crashed" /\ upstream'[a] = None
        /\ \A y \in Agents : y # a => pc'[y] = pc[y] /\ upstream'[y] = upstream[y] /\ announcing'[y] = announcing[y]
    BY <2>0, <2>1
  <2>6. Stays(x)
    <3>1. upstream'[x] \in {upstream[x], None} /\ (Running(x)' => Running(x))  BY <2>5 DEF Running
    <3> QED  BY <2>2, <2>3, <3>1 DEF Stays
  <2>7. ASSUME NEW p \in Agents, p # a PROVE SpeaksOn(p, x)
    BY <2>2, <2>5, <2>7, RestlessStays DEF SpeaksOn
  <2>8. StrongKept(x)
    <3>1. CASE Linked(x) => To(x) # a
      <4>1. \A p \in Agents : Linked(x) /\ To(x) = p => SpeaksOn(p, x)  BY <2>7, <3>1
      <4> QED  BY <2>6, <4>1, StaysStrong
    <3>2. CASE Linked(x) /\ To(x) = a
      <4>1. PICK u \in Conns : u = upstream[x]  BY <2>0, <3>2 DEF Linked
      <4>2. conn'[u].link = "cut"  BY <2>2, <3>2, <4>1 DEF To
      <4>3. ~Linked(x)'  BY <2>6, <4>1, <4>2 DEF Linked, Stays
      <4> QED  BY <4>3 DEF StrongKept, Strong
    <3> QED  BY <3>1, <3>2
  <2>9. HelloKept(x)  BY <2>4, <2>6, StaysHello
  <2>10. ReportsKept(x)
    <3> SUFFICES ASSUME NEW d \in Conns, NEW p \in Agents, Linked(x), To(x) = p, On(d, Attach(x, p))
                 PROVE  Handed(x, d, p)
      BY DEF ReportsKept
    <3>1. CASE conn[d].to = a
      <4>1. KeepsNews(d) /\ conn'[d].link = "cut"  BY <1>4, <2>2, <3>1 DEF Crashes
      <4>2. \A e \in Agents : e = conn[d].child /\ Running(e)' => Running(e) /\ upstream'[e] = upstream[e]
        BY <2>5 DEF Running
      <4> QED  BY <2>6, <4>1, <4>2, LostReports
    <3>2. CASE conn[d].to # a  BY <2>3, <2>4, <3>2, ReportFields DEF Handed
    <3> QED  BY <3>1, <3>2
  <2> QED  BY <2>6, <2>8, <2>9, <2>10, StaysLink DEF Kept
<1> QED  BY <1>2, <1>3, <1>4

Healing == \A x \in Agents : Routed(x) /\ Counted(x) /\ \A w \in Agents : Vouched(x, w)

LEMMA StartHealing ==
  ASSUME NEW s \in Scenarios, NEW f, StartsAs(s, f)
  PROVE  Healing
<1> USE NodesAssumption
<1>0. s.tree \in [Agents -> Agents \cup {Server}] /\ s.arriving \subseteq Agents /\ \A a \in s.arriving, b \in Agents : s.tree[b] # a
  BY ScenariosAssumption
<1>1. ASSUME NEW x \in Agents
      PROVE  /\ To(x) = s.tree[x] /\ parent[x] = (IF s.tree[x] = Server THEN None ELSE s.tree[x])
             /\ x \in online /\ Ph(x) = (IF x \in s.arriving THEN "hello" ELSE "serve")
  BY DEF StartsAs, To, Ph
<1>2. ASSUME NEW x \in Agents PROVE Routed(x) /\ Counted(x)
  BY <1>0, <1>1 DEF Routed, Counted
<1>3. ASSUME NEW x \in Agents, NEW w \in Agents PROVE Vouched(x, w)
  BY <1>0, <1>1 DEF Vouched
<1> QED  BY <1>2, <1>3 DEF Healing

LEMMA VouchedAll ==
  ASSUME BaseInv, BaseInv', Tidy', Healing, \A x \in Agents : LinkKept(x) /\ HelloKept(x),
         \A x \in Agents : StrongKept(x) \/ (Linked(x)' => To(x)' \notin Agents)
  PROVE  \A x, w \in Agents : Vouched(x, w)'
BY VouchedKept DEF Healing

\* Nothing is recorded, and nobody comes or goes.
LEMMA AllKept ==
  ASSUME BaseInv, BaseInv', Tidy, Tidy', Healing, \A x \in Agents : Kept(x),
         parent' = parent, online' = online, \A x \in Agents : Running(x)' => Running(x)
  PROVE  Healing'
<1>1. \A x \in Agents : Routed(x)'  BY RoutedKept DEF Healing, Kept
<1>2. \A x, w \in Agents : Vouched(x, w)'  BY VouchedAll DEF Kept
<1>3. ASSUME NEW a \in Agents, Running(a)', a \notin online' PROVE \E w \in Above(a)' : Witness(w)'
  <2>1. PICK x \in Above(a) : Witness(x)  BY <1>3 DEF Healing, Counted
  <2>2. Above(a) \subseteq Agents  BY DEF Above
  <2>3. LinkKept(x) /\ StrongKept(x) /\ ReportsKept(x)  BY <2>1, <2>2 DEF Kept
  <2> QED  BY <1>1, <1>3, <2>1, <2>3, WitnessKept
<1> QED  BY <1>1, <1>2, <1>3 DEF Healing, Counted

LEMMA AgentHeals ==
  ASSUME BaseInv, BaseInv', Tidy, Tidy', races' = {}, Healing, NEW a \in Agents, AgentEffect(a)
  PROVE  Healing'
<1> USE NodesAssumption
<1>0. /\ pc \in [Agents -> PCs] /\ upstream \in [Agents -> Conns \cup {None}]
      /\ parent \in Trees /\ parent' \in Trees
  BY DEF BaseInv, MeshTypeOK, Trees
<1>1. \A x \in Agents : Kept(x)  BY AgentKept
<1>2. \A x, w \in Agents : Vouched(x, w)'  BY <1>1, VouchedAll DEF Kept
<1>3. CASE Restarts(a)
  <2>1. pc' = [pc EXCEPT ![a] = "register"] /\ pc[a] = "crashed" /\ UNCHANGED <<upstream, parent, online>>
    BY <1>3 DEF Restarts, serverPart
  <2>2. upstream[a] = None  BY <2>1 DEF BaseInv, AgentOK, Attached
  <2>3. \A x \in Agents : Routed(x)'  BY <1>1, <2>1, RoutedKept DEF Healing, Kept
  <2>4. ASSUME NEW b \in Agents, Running(b)', b \notin online' PROVE \E w \in Above(b)' : Witness(w)'
    <3>1. CASE b = a
      <4>1. Witness(a)'  BY <2>1, <2>2, <2>4, <3>1 DEF Witness, Strong, Linked
      <4>2. a \in Above(a)'  BY <1>0, UpToClosed, AboveIs
      <4> QED  BY <3>1, <4>1, <4>2
    <3>2. CASE b # a
      <4>1. Running(b)  BY <2>1, <2>4, <3>2 DEF Running
      <4>2. PICK x \in Above(b) : Witness(x)  BY <2>1, <2>4, <4>1 DEF Healing, Counted
      <4>3. LinkKept(x) /\ StrongKept(x) /\ ReportsKept(x)  BY <1>1, <4>2 DEF Kept, Above
      <4> QED  BY <2>1, <2>3, <2>4, <4>2, <4>3, WitnessKept
    <3> QED  BY <3>1, <3>2
  <2> QED  BY <1>2, <2>3, <2>4 DEF Healing, Counted
<1>4. ASSUME NEW p \in Agents \cup {Server}, NEW l \in PCs, TakesParent(a, p, l) PROVE Healing'
  <2>1. /\ pc' = [pc EXCEPT ![a] = l] /\ pc[a] \in {"ask", "register"} /\ l \in {"assigned", "primary"}
        /\ parent' = [parent EXCEPT ![a] = IF p = Server THEN None ELSE p]
        /\ upstream' = upstream /\ online \subseteq online'
    BY <1>4 DEF TakesParent
  <2>2. upstream[a] = None  BY <2>1 DEF BaseInv, AgentOK, Attached
  <2>3. Running(a) /\ Running(a)' /\ ~Linked(a)' /\ \A x \in Agents : Running(x)' => Running(x)
    BY <1>0, <2>1, <2>2 DEF Running, Linked
  <2>4. \A x \in Agents \ {a} : parent'[x] = parent[x]  BY <2>1
  <2>5. \A x \in Agents : Routed(x)'
    <3> SUFFICES ASSUME NEW x \in Agents PROVE Routed(x)'  OBVIOUS
    <3>1. CASE x = a  BY <2>3, <3>1 DEF Routed
    <3>2. CASE x # a  BY <1>1, <2>4, <3>2, RoutedKept DEF Healing, Kept
    <3> QED  BY <3>1, <3>2
  <2>6. ASSUME NEW b \in Agents, Running(b)', b \notin online' PROVE \E w \in Above(b)' : Witness(w)'
    <3>1. CASE a \in Above(b)
      <4>1. a \in Above(b)'  BY <1>0, <2>4, <3>1, UpToMoved, AboveIs
      <4>2. Witness(a)'  BY <2>3 DEF Witness, Strong
      <4> QED  BY <4>1, <4>2
    <3>2. CASE a \notin Above(b)
      <4>1. PICK x \in Above(b) : Witness(x)  BY <2>1, <2>3, <2>6 DEF Healing, Counted
      <4>2. LinkKept(x) /\ StrongKept(x) /\ ReportsKept(x)  BY <1>1, <4>1 DEF Kept, Above
      <4>3. \A e \in Above(b) : parent'[e] = parent[e]  BY <2>4, <3>2 DEF Above
      <4> QED  BY <2>5, <2>6, <4>1, <4>2, <4>3, WitnessKept
    <3> QED  BY <3>1, <3>2
  <2> QED  BY <1>2, <2>5, <2>6 DEF Healing, Counted
<1>5. ASSUME parent' = parent /\ online' = online, \A x \in Agents : Running(x)' => Running(x) PROVE Healing'
  BY <1>1, <1>5, AllKept
<1>6. ASSUME NEW l, pc' = [pc EXCEPT ![a] = l], pc[a] # "crashed", UNCHANGED <<parent, online>> PROVE Healing'
  <2>1. \A x \in Agents : Running(x)' => Running(x)  BY <1>0, <1>6 DEF Running
  <2> QED  BY <1>5, <1>6, <2>1
<1>7. ASSUME NEW t \in Agents \cup {Server}, NEW c \in Conns, Opens(a, t, c) PROVE Healing'
  BY <1>6, <1>7 DEF Opens, serverPart
<1>8. ASSUME NEW l \in PCs, Moves(a, l) PROVE Healing'  BY <1>6, <1>8 DEF Moves, serverPart
<1>9. CASE Announces(a)  BY <1>6, <1>9 DEF Announces, serverPart
<1>10. CASE Finishes(a)  BY <1>6, <1>10 DEF Finishes, serverPart
<1>11. CASE Loses(a)  BY <1>6, <1>11 DEF Loses, serverPart
<1>12. ASSUME NEW x \in Agents, Notifies(a, x) PROVE Healing'
  <2>1. UNCHANGED <<pc, parent, online>>  BY <1>12 DEF Notifies, serverPart
  <2> QED  BY <1>5, <2>1 DEF Running
<1> QED  BY <1>3, <1>4, <1>7, <1>8, <1>9, <1>10, <1>11, <1>12 DEF AgentEffect

LEMMA ServerHeals ==
  ASSUME BaseInv, BaseInv', Tidy, Tidy', races' = {}, Healing, NEW c \in Conns, ServerEffect(c)
  PROVE  Healing'
<1> USE NodesAssumption
<1>0. /\ parent \in Trees /\ parent' \in Trees
      /\ UNCHANGED <<pc, upstream>> /\ conn[c].to = Server /\ conn[c].phase # "gone"
  BY DEF BaseInv, MeshTypeOK, Trees, ServerEffect, Accepts, Closes, Records, Discounts, Refuses, agentPart
<1>1. \A x \in Agents :
        /\ LinkKept(x) /\ HelloKept(x)
        /\ StrongKept(x) \/ (Accepts(c) /\ upstream[x] = c /\ conn[c].child = x /\ (Linked(x)' => To(x)' = Server))
        /\ ReportsKept(x) \/ \E m \in Reports : Records(c, m) /\ x = m.a
  BY ServerKept
<1>2. \A x, w \in Agents : Vouched(x, w)'  BY <1>1, VouchedAll
<1>y. PICK y \in Agents : y = conn[c].child  BY <1>0, ConnIs
<1>a. \A x \in Agents : x \in Above(x) /\ Above(x) \subseteq Agents  BY <1>0, UpToClosed, AboveIs
<1>b. \A x \in Agents : Running(x)' <=> Running(x)  BY <1>0 DEF Running
<1>3. ASSUME parent' = parent, ~\E m \in Reports : Records(c, m) PROVE \A x \in Agents : Routed(x)'
  <2> SUFFICES ASSUME NEW x \in Agents PROVE Routed(x)'  OBVIOUS
  <2>1. LinkKept(x) /\ ReportsKept(x) /\ (StrongKept(x) \/ (Linked(x)' => To(x)' \notin Agents))  BY <1>1, <1>3
  <2> QED  BY <1>3, <2>1, RoutedKept DEF Healing
\* Of an agent that was taken for offline before.
<1>4. ASSUME \A x \in Agents : Routed(x)', NEW a \in Agents, Running(a)', a \notin online,
             \A e \in Above(a) : parent'[e] = parent[e] /\ ReportsKept(e) /\ StrongKept(e)
      PROVE  \E w \in Above(a)' : Witness(w)'
  <2>1. PICK x \in Above(a) : Witness(x)  BY <1>4, <1>b DEF Healing, Counted
  <2>2. LinkKept(x) /\ StrongKept(x) /\ ReportsKept(x)  BY <1>1, <1>4, <1>a, <2>1
  <2> QED  BY <1>4, <2>1, <2>2, WitnessKept
\* Below one that crashed, or was cut off.
<1>5. ASSUME \A x \in Agents : Routed(x)', NEW a \in Agents, Running(a)', parent' = parent, NEW z \in Above(a), z \in Agents,
             Running(z)' => Strong(z)'
      PROVE  \E w \in Above(a)' : Witness(w)'
  <2>1. Above(a)' = Above(a)  BY <1>5, AboveIs
  <2>2. CASE Running(z)'  BY <1>5, <2>1, <2>2 DEF Witness
  <2>3. CASE ~Running(z)'  BY <1>5, <2>1, <2>3, OrphanedNext DEF OrphansSpeak
  <2> QED  BY <2>2, <2>3
<1>6. CASE Accepts(c)
  <2>1. /\ parent' = parent /\ online' = online \cup {y} /\ wire' = wire /\ conn[c].phase = "hello"
        /\ Sets(c, y, Server, conn[c].link, "serve")
    BY <1>6, <1>y DEF Accepts
  <2>2. ~\E m \in Reports : Records(c, m)  BY <2>1 DEF Records
  <2>3. \A x \in Agents : Routed(x)'  BY <1>3, <2>1, <2>2
  <2>4. ASSUME NEW a \in Agents, Running(a)', a \notin online', \A v \in Above(a)' : ~Witness(v)' PROVE FALSE
    <3>1. Above(a)' = Above(a) /\ Above(a) \subseteq Agents  BY <1>a, <2>1, AboveIs
    <3>2. \A v \in Above(a) : Running(v)'  BY <2>3, <2>4, <3>1, OrphanedNext DEF OrphansSpeak
    <3>3. PICK x \in Above(a) : Witness(x)  BY <1>b, <2>1, <2>4 DEF Healing, Counted
    <3>4. ~StrongKept(x)
      <4>1. LinkKept(x) /\ ReportsKept(x)  BY <1>1, <2>2, <3>1
      <4> QED  BY <2>1, <2>3, <2>4, <3>3, <4>1, WitnessKept
    <3>5. x = y /\ upstream[y] = c  BY <1>1, <1>y, <3>1, <3>4
    <3>6. Linked(y) /\ To(y) = Server /\ Ph(y) = "hello"
      <4>1. Linked(y)'  BY <3>4, <3>5 DEF StrongKept, Strong
      <4>2. Running(y)  BY <1>b, <4>1 DEF Linked
      <4>3. conn[c].link = "up"  BY <1>0, <2>1, <3>5, <4>1 DEF Linked, Sets
      <4> QED  BY <1>0, <2>1, <3>5, <4>2, <4>3 DEF Linked, To, Ph
    <3>7. PICK w \in Above(a) : parent[w] = y
      <4>1. y # a  BY <2>1, <2>4
      <4> QED  BY <1>0, <3>5, <4>1, UpToLast, AboveIs
    <3>8. w \in Agents /\ Linked(w)' /\ To(w)' = y
      <4>1. w \in Agents /\ Running(w)' /\ ~Witness(w)' /\ Routed(w)'  BY <2>3, <2>4, <3>1, <3>2
      <4>2. Linked(w)' /\ ((To(w)' = Server /\ parent'[w] = None) \/ parent'[w] = To(w)')
        BY <4>1, InPlaceNext DEF OthersAreInPlace
      <4> QED  BY <2>1, <3>7, <4>1, <4>2
    <3>9. Linked(w) /\ To(w) = y /\ ~Strong(w)' /\ ~First(w)'
      <4>1. ~Strong(w)' /\ ~First(w)'
        BY <2>4, <3>1, <3>8, FirstCarriedNext DEF FirstHopsCarry, Witness
      <4> QED  BY <1>1, <3>8, <4>1 DEF LinkKept
    <3>10. StrongKept(w)  BY <1>1, <1>y, <3>6, <3>8, <3>9
    <3>11. ~Strong(w)  BY <3>2, <3>9, <3>10 DEF StrongKept
    <3>12. On(c, Attach(w, y))
      <4>1. Vouched(y, w)  BY <3>8 DEF Healing
      <4> QED  BY <3>5, <3>6, <3>9, <3>11, <4>1 DEF Vouched
    <3>13. Carried(w)'
      <4>1. On(c, Attach(w, y))' /\ conn'[c].child = y /\ y \in Above(y)'
        BY <1>a, <2>1, <3>12, AboveIs DEF On, Sets
      <4> QED  BY <3>8, <4>1 DEF Carried
    <3> QED  BY <2>4, <3>1, <3>13 DEF Witness
  <2> QED  BY <1>2, <2>3, <2>4 DEF Healing, Counted
<1>7. CASE Closes(c)
  <2>1. /\ parent' = parent /\ (online' = online \/ online' = online \ Below(y))
        /\ conn[c].phase = "serve" /\ Sets(c, None, None, "cut", "gone")
    BY <1>7, <1>y DEF Closes
  <2>2. ~(\E m \in Reports : Records(c, m)) /\ ~Accepts(c)
    BY <2>1, <1>7 DEF Records, Accepts, Closes, Sets
  <2>3. \A x \in Agents : Routed(x)'  BY <1>3, <2>1, <2>2
  <2>4. ASSUME NEW a \in Agents, Running(a)', a \notin online' PROVE \E w \in Above(a)' : Witness(w)'
    <3>1. CASE a \notin online  BY <1>1, <1>4, <1>a, <2>1, <2>2, <2>3, <2>4, <3>1
    <3>2. CASE a \in online
      <4>1. y \in Above(a)  BY <2>1, <2>4, <3>2 DEF Below
      <4>2. Running(y)' => Strong(y)'  BY <1>0, <1>b, <1>y, <2>1, CutSpeaks DEF Sets
      <4> QED  BY <1>5, <2>1, <2>3, <2>4, <4>1, <4>2
    <3> QED  BY <3>1, <3>2
  <2> QED  BY <1>2, <2>3, <2>4 DEF Healing, Counted
<1>8. ASSUME NEW m \in Reports, Discounts(c, m) \/ Refuses(c, m) PROVE Healing'
  <2>1. parent' = parent /\ (online' = online \/ (Discounts(c, m) /\ online' = online \ Below(m.a)))
        /\ m = Head(wire[c]) /\ conn' = conn /\ On(c, m) /\ m.a \in Agents /\ conn[c].phase = "serve"
    BY <1>8, ReportKinds DEF Discounts, Refuses, Takes, serverPart
  <2>2. ~(\E n \in Reports : Records(c, n)) /\ ~Accepts(c)
    BY <1>8, <2>1 DEF Records, Accepts, Discounts, Refuses, Takes, OriginAllows
  <2>3. \A x \in Agents : Routed(x)'  BY <1>3, <2>1, <2>2
  <2>4. ASSUME NEW a \in Agents, Running(a)', a \notin online' PROVE \E w \in Above(a)' : Witness(w)'
    <3>1. CASE a \notin online  BY <1>1, <1>4, <1>a, <2>1, <2>2, <2>3, <2>4, <3>1
    <3>2. CASE a \in online
      <4>1. PICK z \in Agents : z = m.a  BY <2>1
      <4>2. z \in Above(a) /\ Discounts(c, m)  BY <2>1, <2>4, <3>2, <4>1 DEF Below
      <4>3. Leaving(z)
        <5>1. m.t = "disconnected" /\ m \in Reports  BY <4>2 DEF Discounts
        <5>2. m = Detach(z)
          <6>1. m.t # "connected"  BY <5>1
          <6> QED  BY <4>1, <6>1, ReportKinds
        <5> QED  BY <2>1, <5>2 DEF Leaving
      <4>4. Running(z)' => Strong(z)'
        <5>1. Running(z) => upstream[z] # None /\ conn[upstream[z]].link = "cut"  BY <4>3 DEF Tidy, SpokenAt
        <5> QED  BY <1>0, <1>b, <2>1, <5>1 DEF Strong, Linked
      <4> QED  BY <1>5, <2>1, <2>3, <2>4, <4>2, <4>4
    <3> QED  BY <3>1, <3>2
  <2> QED  BY <1>2, <2>3, <2>4 DEF Healing, Counted
<1>9. ASSUME NEW m \in Reports, Records(c, m) PROVE Healing'
  <2>1. /\ m.t = "connected" /\ On(c, m) /\ conn' = conn /\ m = Head(wire[c])
        /\ parent' = IF m.a \in Above(m.p) THEN parent ELSE [parent EXCEPT ![m.a] = m.p]
        /\ online' = online \cup Below(m.a)
        /\ ~News(m) \/ m.a \notin Above(m.p)
    BY <1>9 DEF Records, Takes
  <2>2. m.a \in Agents /\ m.p \in Agents /\ m = Attach(m.a, m.p)
    <3>1. m.t # "disconnected"  BY <2>1
    <3> QED  BY <2>1, <3>1, ReportKinds
  <2>3. PICK z \in Agents, p \in Agents : z = m.a /\ p = m.p  BY <2>2
  <2>4. On(c, Attach(z, p)) /\ \A x \in Agents \ {z} : parent'[x] = parent[x]  BY <2>1, <2>2, <2>3
  <2>5. \A n \in Reports : Records(c, n) => n = m  BY <2>1 DEF Records, Takes
  <2>6. ~Accepts(c)  BY <1>9 DEF Records, Accepts
  <2>7. \A x \in Agents : Routed(x)'
    <3> SUFFICES ASSUME NEW x \in Agents PROVE Routed(x)'  OBVIOUS
    <3>1. CASE x # z
      <4>1. LinkKept(x) /\ ReportsKept(x) /\ StrongKept(x) /\ parent'[x] = parent[x]
        BY <1>1, <2>3, <2>4, <2>5, <2>6, <3>1
      <4> QED  BY <4>1, RoutedKept DEF Healing
    <3>2. CASE x = z
      <4> SUFFICES ASSUME Linked(x)', To(x)' \in Agents, parent'[x] # To(x)' PROVE FALSE  BY DEF Routed
      <4>1. Linked(x) /\ To(x)' = To(x)  BY <1>0, <1>b, <2>1 DEF Linked, To
      <4>2. To(x) = p  BY <2>4, <3>2, <4>1, ReportPlace
      <4>3. parent'[z] = p
        <5>1. CASE z \in Above(p)
          <6>1. ~News(m)  BY <2>1, <2>3, <5>1
          <6> QED  BY <2>1, <2>3, <5>1, <6>1 DEF News
        <5>2. CASE z \notin Above(p)  BY <1>0, <2>1, <2>3, <5>2 DEF Trees
        <5> QED  BY <5>1, <5>2
      <4> QED  BY <3>2, <4>1, <4>2, <4>3
    <3> QED  BY <3>1, <3>2
  <2>8. ASSUME NEW a \in Agents, Running(a)', a \notin online' PROVE \E w \in Above(a)' : Witness(w)'
    <3>1. z \notin Above(a) /\ a \notin online  BY <2>1, <2>3, <2>8 DEF Below
    <3>2. \A e \in Above(a) : parent'[e] = parent[e] /\ ReportsKept(e) /\ StrongKept(e)
      <4> SUFFICES ASSUME NEW e \in Above(a) PROVE parent'[e] = parent[e] /\ ReportsKept(e) /\ StrongKept(e)
        OBVIOUS
      <4>1. e \in Agents /\ e # z  BY <1>a, <3>1
      <4> QED  BY <1>1, <2>3, <2>4, <2>5, <2>6, <4>1
    <3> QED  BY <1>4, <2>7, <2>8, <3>1, <3>2
  <2> QED  BY <1>2, <2>7, <2>8 DEF Healing, Counted
<1> QED  BY <1>6, <1>7, <1>8, <1>9 DEF ServerEffect

LEMMA HealingStep == BaseInv /\ BaseInv' /\ Tidy /\ Tidy' /\ races' = {} /\ Healing /\ [Next]_vars => Healing'
<1> SUFFICES ASSUME BaseInv, BaseInv', Tidy, Tidy', races' = {}, Healing, [Next]_vars PROVE Healing'  OBVIOUS
<1>1. Effect \/ Stutters  BY StepEffects
<1>2. ASSUME NEW p \in Agents, NEW c \in Conns, RelayEffect(p, c) PROVE Healing'
  <2>1. UNCHANGED <<pc, parent, online>>
    BY <1>2 DEF RelayEffect, Hellos, Inserts, Drops, TakesOut, TellsLoss, Forwards, Misses, agentPart, serverPart
  <2>2. \A x \in Agents : Kept(x)  BY <1>2, RelayKept
  <2> QED  BY <2>1, <2>2, AllKept DEF Running
<1>3. CASE (\E c \in Conns : Cuts(c)) \/ (\E a \in Agents : Crashes(a)) \/ Stutters
  <2>1. UNCHANGED <<parent, online>> /\ \A x \in Agents : Running(x)' => Running(x)
    BY <1>3 DEF Cuts, Crashes, Stutters, agentPart, serverPart, Running, BaseInv, MeshTypeOK
  <2>2. \A x \in Agents : Kept(x)  BY <1>3, FaultKept
  <2> QED  BY <2>1, <2>2, AllKept
<1> QED  BY <1>1, <1>2, <1>3, AgentHeals, ServerHeals DEF Effect

-----------------------------------------------------------------------------
(***************************************************************************)
(* When all is quiet nothing is left to be told.                           *)
(***************************************************************************)
LEMMA QuietMesh ==
  ASSUME BaseInv, Tidy, Healing, NoIdleCircle, Quiet, NEW a \in Agents, Running(a)
  PROVE  /\ a \in online /\ Reaches(a)
         /\ conn[upstream[a]].to = IF parent[a] = None THEN Server ELSE parent[a]
<1>1. ASSUME NEW x \in Agents, Running(x)
      PROVE  /\ pc[x] = "main" /\ Linked(x) /\ Ph(x) = "serve" /\ announcing[x] = {} /\ ~Restless(x)
             /\ upstream[x] \in Conns /\ conn[upstream[x]] # Closed
  <2>1. pc[x] = "main" /\ conn[upstream[x]].link = "up"  BY <1>1 DEF Quiet
  <2>2. upstream[x] # None /\ announcing[x] = {}  BY <2>1 DEF BaseInv, AgentOK, Attached
  <2>3. Linked(x)  BY <1>1, <2>1, <2>2 DEF Linked
  <2>4. upstream[x] \in Conns /\ Ph(x) # "gone"  BY <2>3, LinkedConn
  <2>5. Ph(x) = "serve"  BY <2>4 DEF Quiet, Ph
  <2>6. conn[upstream[x]] # Closed  BY <2>4, ClosedFields DEF Ph
  <2> QED  BY <2>1, <2>2, <2>3, <2>4, <2>5, <2>6 DEF Restless
<1>2. \A d \in Conns : \A m \in Reports : ~On(d, m)  BY DEF Quiet, On
<1>3. ASSUME NEW x \in Agents, Running(x) PROVE ~Strong(x)
  <2>1. Linked(x) /\ Ph(x) = "serve"  BY <1>1, <1>3
  <2>2. ASSUME NEW p \in Agents, p = To(x) PROVE announcing[p] = {} /\ ~Restless(p)
    <3>1. Running(p)  BY <2>1, <2>2, LinkedConn, NodesAssumption
    <3> QED  BY <1>1, <3>1
  <2> QED  BY <2>1, <2>2 DEF Strong
<1>4. ASSUME NEW x \in Agents PROVE ~Told(x) /\ ~Carried(x)
  BY <1>2, ReportFields DEF Told, Carried
<1>5. ASSUME NEW x \in Agents PROVE ~Witness(x)
  BY <1>3, <1>4 DEF Witness, Strong
<1>6. ASSUME NEW x \in Agents, Running(x)
      PROVE  /\ Linked(x)
             /\ \/ To(x) = Server /\ parent[x] = None
                \/ To(x) \in Agents /\ parent[x] = To(x) /\ Running(To(x))
  BY <1>5, <1>6, InPlace DEF OthersAreInPlace, Healing
<1>7. a \in online
  <2>1. parent \in Trees  BY DEF BaseInv, MeshTypeOK, Trees
  <2>2. \A x \in Above(a) : x \in Agents  BY <2>1, UpToClosed, AboveIs
  <2> QED  BY <1>5, <2>2 DEF Healing, Counted
<1>8. Reaches(a)
  <2> SUFFICES ASSUME NEW S \in SUBSET (Agents \cup {Server}), a \in S, Server \notin S,
                      \A x \in S \cap Agents :
                        Running(x) /\ upstream[x] # None /\ conn[upstream[x]] # Closed => conn[upstream[x]].to \in S
               PROVE  FALSE
    BY DEF Reaches
  <2> DEFINE C == {x \in S \cap Agents : Running(x)}
  <2>1. ASSUME NEW x \in C PROVE Linked(x) /\ To(x) \in C
    <3>1. x \in Agents /\ Running(x) /\ x \in S  OBVIOUS
    <3>2. Linked(x) /\ conn[upstream[x]] # Closed  BY <1>1, <3>1
    <3>3. To(x) \in S  BY <3>1, <3>2 DEF Linked, To
    <3>4. To(x) \in Agents /\ Running(To(x))  BY <1>6, <3>1, <3>3
    <3> QED  BY <3>2, <3>3, <3>4
  <2>2. C \in SUBSET Agents /\ C # {}  OBVIOUS
  <2> HIDE DEF C
  <2>3. Circle(C)  BY <2>1, <2>2 DEF Circle
  <2>4. PICK x \in C : Stirs(x)  BY <2>2, <2>3 DEF NoIdleCircle
  <2>5. Linked(x) /\ x \in Agents  BY <2>1, <2>2
  <2>6. Running(x) /\ upstream[x] \in Conns  BY <2>5, LinkedConn DEF Linked
  <2>7. Ph(x) = "serve"  BY <1>1, <2>5, <2>6
  <2> QED  BY <1>2, <2>4, <2>6, <2>7 DEF Stirs, Busy
<1>9. conn[upstream[a]].to = IF parent[a] = None THEN Server ELSE parent[a]
  <2>1. \A x \in Agents : x # None  BY NodesAssumption
  <2> QED  BY <1>6, <2>1 DEF To
<1> QED  BY <1>7, <1>8, <1>9

-----------------------------------------------------------------------------
(***************************************************************************)
(* Before the first fault, and while an agent that crashed is the only     *)
(* fault.                                                                  *)
(***************************************************************************)
Place(x) == IF parent[x] = None THEN Server ELSE parent[x]
Leaf(x) == \A y \in Agents : parent[y] # x
Rooted(x) == \A p \in Agents : p = parent[x] => x \notin Above(p)
Unhinted == \A c \in Conns : conn[c].reassigned # "yes"

\* The reports of x name its place, and have passed a part of the way up from there.
OnTheWay(x) ==
  \A d \in Conns, p \in Agents : On(d, Attach(x, p)) => p = parent[x] /\ conn[d].child \in Above(p)

\* Every agent is where it was placed, or just arrives there.
CalmAt(x) ==
  /\ Linked(x) /\ To(x) = Place(x) /\ announcing[x] = {} /\ Rooted(x) /\ ~Leaving(x) /\ OnTheWay(x)
  /\ pc[x] # "main" \/ Ph(x) # "serve" \/ (\E d \in Conns, p \in Agents : On(d, Attach(x, p))) => Leaf(x)
Calm == Unhinted /\ \A x \in Agents : CalmAt(x)

\* The agents above q stay connected as they are placed.
Steady(x) ==
  /\ pc[x] = "main" /\ Linked(x) /\ Ph(x) = "serve" /\ To(x) = Place(x)
  /\ \A p \in Agents : ~Pending(x, p)
PathStands(q) == \A x \in Above(q) : Rooted(x) /\ (x # q => Steady(x))

\* The connection that q had is at its place, and its loss is not reported before
\* it is gone.
LastLink(q) ==
  \A c \in Conns : conn[c].child = q =>
    /\ conn[c].link = "cut" /\ conn[c].to = Place(q) /\ ~Leaving(q)
    /\ \A e \in Conns : conn[e].child = q => e = c

LossOnTheWay(q) == \A d \in Conns : On(d, Detach(q)) => conn[d].child \in Above(q) \ {q}

InOrder(w, m, n) == \A i, j \in 1..Len(w) : w[i] = m /\ w[j] = n => i < j

\* No report that q is there follows one of its loss.
LossIsLast(q) ==
  /\ \A d, e \in Conns, p, y \in Agents :
       On(d, Detach(q)) /\ On(e, Attach(q, p)) /\ y = conn[d].child => conn[e].child \in Above(y)
  /\ \A d \in Conns, p \in Agents : InOrder(wire[d], Attach(q, p), Detach(q))

\* As long as q is counted, or may be, its loss is still to be told.
Missed(q) ==
  q \in online \/ (\E d \in Conns, p \in Agents : On(d, Attach(q, p))) =>
    (\E c \in Conns : conn[c].child = q) \/ Leaving(q)

Hurt(q) ==
  /\ Unhinted /\ \A x \in Agents : ~Running(x) => x = q
  /\ \A p \in Agents : q \notin announcing[p]
  /\ PathStands(q) /\ LastLink(q) /\ OnTheWay(q) /\ LossOnTheWay(q) /\ LossIsLast(q) /\ Missed(q)

OneFault ==
  /\ faults \in Nat
  /\ faults = 0 => Calm
  /\ faults = 1 => \A q \in Agents : ~Running(q) => Hurt(q)

-----------------------------------------------------------------------------
(***************************************************************************)
(* The path up, and the order of two reports.                              *)
(***************************************************************************)
\* Whoever is above an agent, but the agent itself, is above its parent.
LEMMA UpToRest ==
  ASSUME NEW f \in Trees, NEW a \in Agents, NEW x \in UpTo(f, a), x # a
  PROVE  f[a] \in Agents /\ x \in UpTo(f, f[a])
<1>1. f[a] \in Agents
  <2> SUFFICES ASSUME f[a] = None PROVE FALSE  BY DEF Trees
  <2> DEFINE S == {a}
  <2>1. S \in SUBSET Agents /\ a \in S /\ \A y \in S : f[y] # None => f[y] \in S  OBVIOUS
  <2> HIDE DEF S
  <2>2. UpTo(f, a) \subseteq S  BY <2>1, UpToLeast
  <2> QED  BY <2>2 DEF S
<1> DEFINE S == {a} \cup UpTo(f, f[a])
<1>2. /\ UpTo(f, f[a]) \in SUBSET Agents /\ f[a] \in UpTo(f, f[a])
      /\ \A y \in UpTo(f, f[a]) : f[y] # None => f[y] \in UpTo(f, f[a])
  BY <1>1, UpToClosed
<1>3. S \in SUBSET Agents /\ a \in S /\ \A y \in S : f[y] # None => f[y] \in S  BY <1>2
<1> HIDE DEF S
<1>4. UpTo(f, a) \subseteq S  BY <1>3, UpToLeast
<1> QED  BY <1>1, <1>4 DEF S

LEMMA OrderAppend ==
  ASSUME NEW s \in Seq(Reports), NEW k \in Reports, NEW m, NEW n, m # n, InOrder(s, m, n),
         k = m => \A i \in 1..Len(s) : s[i] # n
  PROVE  InOrder(Append(s, k), m, n)
<1> DEFINE t == Append(s, k)
<1>1. Len(s) \in Nat /\ Len(t) = Len(s) + 1 /\ t[Len(s) + 1] = k /\ \A i \in 1..Len(s) : t[i] = s[i]
  OBVIOUS
<1> HIDE DEF t
<1>2. SUFFICES ASSUME NEW i \in 1..Len(t), NEW j \in 1..Len(t), t[i] = m, t[j] = n PROVE i < j
  BY DEF InOrder, t
<1>3. CASE i \in 1..Len(s) /\ j \in 1..Len(s)
  <2>1. s[i] = m /\ s[j] = n  BY <1>1, <1>2, <1>3
  <2> QED  BY <1>3, <2>1 DEF InOrder
<1>4. CASE i = Len(s) + 1
  <2>1. k = m  BY <1>1, <1>2, <1>4
  <2>2. j # i  BY <1>2
  <2>3. j \in 1..Len(s)  BY <1>1, <1>4, <2>2
  <2>4. s[j] = n  BY <1>1, <1>2, <2>3
  <2> QED  BY <2>1, <2>3, <2>4
<1>5. CASE i \in 1..Len(s) /\ j = Len(s) + 1  BY <1>1, <1>5
<1> QED  BY <1>1, <1>3, <1>4, <1>5

LEMMA OrderTail ==
  ASSUME NEW s \in Seq(Reports), s # <<>>, NEW m, NEW n, InOrder(s, m, n)
  PROVE  /\ InOrder(Tail(s), m, n)
         /\ Head(s) = n => \A i \in 1..Len(s) : s[i] # m
<1> DEFINE t == Tail(s)
<1>1. /\ Len(s) \in Nat /\ Len(s) >= 1 /\ Len(t) = Len(s) - 1 /\ Head(s) = s[1]
      /\ \A i \in 1..Len(t) : t[i] = s[i + 1]
  OBVIOUS
<1> HIDE DEF t
<1>2. ASSUME NEW i \in 1..Len(t), NEW j \in 1..Len(t), t[i] = m, t[j] = n PROVE i < j
  <2>1. i + 1 \in 1..Len(s) /\ j + 1 \in 1..Len(s) /\ s[i + 1] = m /\ s[j + 1] = n  BY <1>1, <1>2
  <2>2. i + 1 < j + 1  BY <2>1 DEF InOrder
  <2> QED  BY <1>1, <2>2
<1>3. ASSUME Head(s) = n, NEW i \in 1..Len(s), s[i] = m PROVE FALSE
  <2>1. 1 \in 1..Len(s) /\ s[1] = n  BY <1>1, <1>3
  <2>2. i < 1  BY <1>3, <2>1 DEF InOrder
  <2> QED  BY <1>1, <2>2
<1>4. InOrder(t, m, n)  BY <1>2 DEF InOrder
<1> QED  BY <1>3, <1>4 DEF t

\* What steps do to the order of two reports along a connection.
LEMMA OrderSends ==
  ASSUME BaseInv, NEW a \in Agents, NEW k \in Reports, Sends(a, k), NEW d \in Conns, NEW m, NEW n, m # n,
         InOrder(wire[d], m, n), k = m => ~On(d, n)
  PROVE  InOrder(wire'[d], m, n)
<1>1. wire \in [Conns -> Seq(Reports)]  BY DEF BaseInv, MeshTypeOK
<1>2. wire'[d] = wire[d] \/ wire'[d] = Append(wire[d], k)  BY <1>1 DEF Sends, Sent
<1>3. wire[d] \in Seq(Reports)  BY <1>1
<1>4. k = m => \A i \in 1..Len(wire[d]) : wire[d][i] # n  BY DEF On
<1>5. InOrder(Append(wire[d], k), m, n)  BY <1>3, <1>4, OrderAppend
<1> QED  BY <1>2, <1>5

LEMMA OrderTakes ==
  ASSUME BaseInv, NEW c \in Conns, NEW k \in Reports, Takes(c, k), NEW d \in Conns, NEW m, NEW n,
         InOrder(wire[d], m, n)
  PROVE  InOrder(wire'[d], m, n) /\ (d = c /\ k = n => ~On(d, m))
<1>1. wire \in [Conns -> Seq(Reports)]  BY DEF BaseInv, MeshTypeOK
<1>2. wire'[d] = (IF d = c THEN Tail(wire[d]) ELSE wire[d])  BY <1>1 DEF Takes
<1>3. wire[d] \in Seq(Reports)  BY <1>1
<1>4. CASE d = c
  <2>1. wire[d] # <<>> /\ k = Head(wire[d])  BY <1>4 DEF Takes, On
  <2>2. InOrder(Tail(wire[d]), m, n) /\ (Head(wire[d]) = n => \A i \in 1..Len(wire[d]) : wire[d][i] # m)
    BY <1>3, <2>1, OrderTail
  <2> QED  BY <1>2, <1>4, <2>1, <2>2 DEF On
<1> QED  BY <1>2, <1>4

LEMMA OrderPasses ==
  ASSUME BaseInv, NEW c \in Conns, NEW u \in Conns, NEW k \in Reports, Passes(c, u, k), NEW d \in Conns,
         NEW m, NEW n, m # n, InOrder(wire[d], m, n), k = m /\ d = u => ~On(d, n)
  PROVE  InOrder(wire'[d], m, n) /\ (d = c /\ k = n => ~On(d, m))
<1> DEFINE w == [wire EXCEPT ![c] = Tail(@)]
<1>1. wire \in [Conns -> Seq(Reports)]  BY DEF BaseInv, MeshTypeOK
<1>0. wire[c] # <<>> /\ k = Head(wire[c])  BY DEF Passes, On
<1>2. \A e \in Conns : w[e] = IF e = c THEN Tail(wire[c]) ELSE wire[e]  BY <1>1
<1>3. wire[d] \in Seq(Reports)  BY <1>1
<1>8. wire[c] \in Seq(Reports)  BY <1>1
<1>4. w \in [Conns -> Seq(Reports)]
  <2>1. Tail(wire[c]) \in Seq(Reports)  BY <1>0, <1>8, OnTail
  <2> QED  BY <1>1, <2>1
<1>5. wire' = [w EXCEPT ![u] = Append(@, k)]  BY DEF Passes
<1>6. wire'[d] = IF d = u THEN Append(w[d], k) ELSE w[d]  BY <1>4, <1>5
<1> HIDE DEF w
<1>7. w[d] \in Seq(Reports)  BY <1>4
<1>9. InOrder(w[d], m, n) /\ (d = c /\ k = n => ~On(d, m))
  <2>1. CASE d = c
    <3>1. InOrder(Tail(wire[d]), m, n) /\ (Head(wire[d]) = n => \A i \in 1..Len(wire[d]) : wire[d][i] # m)
      BY <1>0, <1>3, <2>1, OrderTail
    <3> QED  BY <1>0, <1>2, <2>1, <3>1 DEF On
  <2> QED  BY <1>2, <2>1
<1>10. ASSUME k = m, d = u, NEW i \in 1..Len(w[d]), w[d][i] = n PROVE FALSE
  <2>1. CASE d = c
    <3>1. (\E j \in 1..Len(Tail(wire[c])) : Tail(wire[c])[j] = n) => (\E j \in 1..Len(wire[c]) : wire[c][j] = n)
      BY <1>0, <1>8, OnTail
    <3> QED  BY <1>2, <1>10, <2>1, <3>1 DEF On
  <2> QED  BY <1>2, <1>10, <2>1 DEF On
<1>11. InOrder(Append(w[d], k), m, n) \/ d # u
  <2>1. CASE d = u
    <3>1. k = m => \A i \in 1..Len(w[d]) : w[d][i] # n  BY <1>10, <2>1
    <3> QED  BY <1>7, <1>9, <3>1, OrderAppend
  <2> QED  BY <2>1
<1> QED  BY <1>6, <1>9, <1>11

LEMMA OrderEmpty == \A m, n : InOrder(<<>>, m, n)
BY DEF InOrder

-----------------------------------------------------------------------------
(***************************************************************************)
(* Only the server's hint marks a connection as one of an agent that was   *)
(* told to move, and only it and the faults count as faults.               *)
(***************************************************************************)
LEMMA OneUnhinted ==
  ASSUME BaseInv, Unhinted, NEW c \in Conns, NEW a, NEW t, NEW l, NEW ph, NEW r, r # "yes",
         conn' = [conn EXCEPT ![c] = Connection(a, t, l, ph, r)]
  PROVE  Unhinted'
<1> DEFINE new == Connection(a, t, l, ph, r)
<1>1. IsConnection(new) /\ new.reassigned = r  BY Fields
<1>2. conn' = [conn EXCEPT ![c] = new]  OBVIOUS
<1> HIDE DEF new
<1>3. conn'[c] = new /\ \A d \in Conns \ {c} : conn'[d] = conn[d]
  BY <1>1, <1>2, ConnSet DEF BaseInv, RelayInv
<1> QED  BY <1>1, <1>3 DEF Unhinted

LEMMA UnhintedKept ==
  ASSUME BaseInv, Unhinted, [Next]_vars PROVE Unhinted' \/ (faults' = faults + 1 /\ pc' = pc)
<1>1. ASSUME conn' = conn PROVE Unhinted'  BY <1>1 DEF Unhinted
<1>2. ASSUME NEW a, NEW t, Open(a, t) PROVE Unhinted'
  <2> DEFINE free == {c \in Conns : conn[c] = Closed /\ \A b \in Agents : upstream[b] # c}
             x == CHOOSE c \in free : TRUE
  <2>1. x \in Conns /\ conn' = [conn EXCEPT ![x] = Opened(a, t)]  BY <1>2 DEF Open
  <2> HIDE DEF x
  <2> QED  BY <2>1, OneUnhinted DEF Opened
<1>3. ASSUME NEW c \in Conns, NEW ph, Phase(c, ph) PROVE Unhinted'
  <2>1. conn' = [conn EXCEPT ![c] = Connection(conn[c].child, conn[c].to, conn[c].link, ph, conn[c].reassigned)]
    BY <1>3 DEF Phase
  <2> QED  BY <2>1, OneUnhinted DEF Unhinted
<1>4. ASSUME NEW c \in Conns, conn' = [conn EXCEPT ![c] = Closed] PROVE Unhinted'
  BY <1>4, OneUnhinted DEF Closed
<1>5. ASSUME NEW a \in Agents, AgentStep(a) PROVE Unhinted'
  <2>1. conn' = conn \/ \E t : Open(a, t)
    BY <1>5 DEF AgentStep, ConnectUpstream, ConnectFallback, RequestNewParent, ConnectAssigned, Register,
                Reannounce, NotifyAnnounced, LoseUpstream, Restart
  <2> QED  BY <1>1, <1>2, <2>1
<1>6. ASSUME NEW c \in Conns, HandlerStep(c) PROVE Unhinted'
  <2>1. CASE ServerAccept(c)  BY <1>3, <2>1 DEF ServerAccept
  <2>2. CASE ServerReceive(c)  BY <1>1, <2>2 DEF ServerReceive
  <2>3. CASE ServerClose(c)  BY <1>4, <2>3 DEF ServerClose
  <2>4. ASSUME NEW p \in Agents, RelayHello(p, c) \/ RelayInsert(p, c) \/ RelayLost(p, c) \/ RelayRemove(p, c)
        PROVE  Unhinted'
    BY <1>3, <2>4 DEF RelayHello, RelayInsert, RelayLost, RelayRemove
  <2>5. ASSUME NEW p \in Agents, RelayForward(p, c) PROVE Unhinted'
    <3>1. CASE conn' = [conn EXCEPT ![c] = Connection(@.child, @.to, "cut", "remove", @.reassigned)]
      <4>1. conn' = [conn EXCEPT ![c] = Connection(conn[c].child, conn[c].to, "cut", "remove", conn[c].reassigned)]
        BY <3>1
      <4> QED  BY <4>1, OneUnhinted DEF Unhinted
    <3> QED  BY <1>1, <2>5, <3>1 DEF RelayForward
  <2>6. ASSUME NEW p \in Agents, RelayReport(p, c) PROVE Unhinted'  BY <1>4, <2>6 DEF RelayReport
  <2> QED  BY <1>6, <2>1, <2>2, <2>3, <2>4, <2>5, <2>6 DEF HandlerStep
<1>7. ASSUME NEW a \in Agents, Crash(a) PROVE Unhinted'
  <2> SUFFICES ASSUME NEW c \in Conns PROVE conn'[c].reassigned # "yes"  BY DEF Unhinted
  <2>1. conn'[c] = IF conn[c].to = a THEN Closed ELSE IF conn[c].child = a THEN [conn[c] EXCEPT !.link = "cut"] ELSE conn[c]
    BY <1>7 DEF Crash
  <2>2. conn[c].reassigned # "yes"  BY DEF Unhinted
  <2>3. conn[c] = Connection(conn[c].child, conn[c].to, conn[c].link, conn[c].phase, conn[c].reassigned)
    BY DEF BaseInv, RelayInv, ConnsAreConnections, IsConnection
  <2>4. [conn[c] EXCEPT !.link = "cut"].reassigned = conn[c].reassigned  BY <2>3 DEF Connection
  <2>5. Closed.reassigned = "no"  BY Fields DEF Closed
  <2> QED  BY <2>1, <2>2, <2>4, <2>5
<1>8. ASSUME (\E c \in Conns : Cut(c)) \/ (\E a, p \in Agents : PeerUpdate(a, p)) PROVE faults' = faults + 1 /\ pc' = pc
  BY <1>8 DEF Cut, PeerUpdate, Fault, agentVars
<1>9. ASSUME UNCHANGED vars PROVE Unhinted'  BY <1>1, <1>9 DEF vars
<1> QED  BY <1>5, <1>6, <1>7, <1>8, <1>9 DEF Next

-----------------------------------------------------------------------------
(***************************************************************************)
(* Without a fault the mesh stays as it was placed.                        *)
(***************************************************************************)
\* What every step does to it that is no fault.
CalmStep ==
  /\ parent' = parent /\ announcing' = announcing
  /\ \A x \in Agents :
       /\ Running(x)' /\ upstream'[x] = upstream[x]
       /\ pc'[x] # "main" => pc[x] # "main"
       /\ \A u \in Conns : u = upstream[x] =>
            /\ conn'[u].link = conn[u].link /\ conn'[u].to = conn[u].to
            /\ conn'[u].phase # "serve" => conn[u].phase # "serve"
       /\ ~Leaving(x)'
       /\ \A d \in Conns, p \in Agents : On(d, Attach(x, p))' =>
            Leaf(x) /\ p = parent[x] /\ conn'[d].child \in Above(p)

LEMMA CalmKept ==
  ASSUME BaseInv, Calm, Unhinted', CalmStep
  PROVE  Calm'
<1>1. parent \in Trees /\ parent' = parent  BY DEF BaseInv, MeshTypeOK, Trees, CalmStep
<1>2. \A p \in Agents : Above(p)' = Above(p)  BY <1>1, AboveIs
<1> SUFFICES ASSUME NEW x \in Agents PROVE CalmAt(x)'  BY DEF Calm
<1>3. PICK u \in Conns : u = upstream[x] /\ upstream'[x] = u
  BY LinkedConn DEF Calm, CalmAt, CalmStep
<1>4. /\ conn'[u].link = conn[u].link /\ conn'[u].to = conn[u].to
      /\ conn'[u].phase # "serve" => conn[u].phase # "serve"
      /\ Running(x)' /\ announcing'[x] = announcing[x]
  BY <1>3 DEF CalmStep
<1>5. Linked(x)' /\ To(x)' = To(x) /\ (Ph(x)' # "serve" => Ph(x) # "serve")
  BY <1>3, <1>4, NodesAssumption DEF Linked, To, Ph, Calm, CalmAt
<1>6. Place(x)' = Place(x) /\ (Rooted(x) => Rooted(x)') /\ (Leaf(x) => Leaf(x)')
  BY <1>1, <1>2 DEF Place, Rooted, Leaf
<1>7. \A d \in Conns, p \in Agents : On(d, Attach(x, p))' => Leaf(x) /\ p = parent[x] /\ conn'[d].child \in Above(p)
  BY DEF CalmStep
<1>8. OnTheWay(x)'  BY <1>1, <1>2, <1>7 DEF OnTheWay
<1>9. pc'[x] # "main" => pc[x] # "main"  BY DEF CalmStep
<1>10. pc'[x] # "main" \/ Ph(x)' # "serve" \/ (\E d \in Conns, p \in Agents : On(d, Attach(x, p))') => Leaf(x)
  BY <1>5, <1>7, <1>9 DEF Calm, CalmAt
<1>11. ~Leaving(x)'  BY DEF CalmStep
<1> QED  BY <1>4, <1>5, <1>6, <1>8, <1>10, <1>11 DEF CalmAt, Calm

\* What is on its way, if a step sends nothing.
LEMMA CalmReports ==
  ASSUME BaseInv, Calm, \A d \in Conns : \A n \in Reports : On(d, n)' => On(d, n) /\ conn'[d].child = conn[d].child
  PROVE  \A x \in Agents :
           /\ ~Leaving(x)'
           /\ \A d \in Conns, p \in Agents : On(d, Attach(x, p))' => Leaf(x) /\ p = parent[x] /\ conn'[d].child \in Above(p)
BY ReportFields DEF Calm, CalmAt, OnTheWay, Leaving

\* The connections that exist are those the agents are linked with.
LEMMA CalmConn ==
  ASSUME BaseInv, Tidy, Calm, NEW c \in Conns, conn[c].phase # "gone"
  PROVE  \E x \in Agents : /\ x = conn[c].child /\ upstream[x] = c /\ conn[c].link = "up"
                           /\ conn[c].to = Place(x) /\ Running(x)
                           /\ conn[c].phase # "serve" => Leaf(x)
<1>1. PICK x \in Agents : x = conn[c].child  BY ConnIs
<1>2. Linked(x) /\ To(x) = Place(x) /\ (Ph(x) # "serve" => Leaf(x))  BY DEF Calm, CalmAt
<1>3. LoneAt(c)  BY DEF Tidy
<1>4. upstream[x] = c  BY <1>1, <1>2, <1>3 DEF LoneAt, Linked
<1> QED  BY <1>1, <1>2, <1>4 DEF Linked, To, Ph

LEMMA AgentCalm ==
  ASSUME BaseInv, Tidy, Calm, Unhinted', NEW a \in Agents, AgentEffect(a)
  PROVE  Calm'
<1>1. /\ pc \in [Agents -> PCs] /\ upstream \in [Agents -> Conns \cup {None}]
      /\ announcing \in [Agents -> SUBSET Agents]
  BY DEF BaseInv, MeshTypeOK
<1>2. /\ Linked(a) /\ announcing[a] = {} /\ pc[a] \in Attached /\ upstream[a] \in Conns
      /\ pc[a] # "main" => Leaf(a)
  BY LinkedConn DEF Calm, CalmAt
<1>3. upstream[a] # None /\ conn[upstream[a]].link = "up" /\ Running(a)  BY <1>2 DEF Linked
<1>4. \A x \in Agents : Running(x)  BY DEF Calm, CalmAt, Linked
<1>5. ASSUME UNCHANGED <<parent, announcing, upstream, conn, wire>>, \A x \in Agents : x # a => pc'[x] = pc[x],
             pc[a] # "main", Running(a)'
      PROVE  Calm'
  <2>1. \A x \in Agents : Running(x)'  BY <1>4, <1>5 DEF Running
  <2>2. \A d \in Conns : \A n \in Reports : On(d, n)' => On(d, n) /\ conn'[d].child = conn[d].child
    BY <1>5 DEF On
  <2>3. \A x \in Agents :
           /\ ~Leaving(x)'
           /\ \A d \in Conns, p \in Agents : On(d, Attach(x, p))' => Leaf(x) /\ p = parent[x] /\ conn'[d].child \in Above(p)
    BY <2>2, CalmReports
  <2>4. CalmStep  BY <1>5, <2>1, <2>3 DEF CalmStep
  <2> QED  BY <2>4, CalmKept
<1>6. CASE Announces(a)
  <2>1. /\ announcing' = [announcing EXCEPT ![a] = {x \in Agents : downstreams[a][x] # None}]
        /\ pc[a] = "announce" /\ pc' = [pc EXCEPT ![a] = "report"]
        /\ UNCHANGED <<parent, upstream, conn, wire>>
    BY <1>6 DEF Announces, serverPart
  <2>2. ASSUME NEW x \in Agents, downstreams[a][x] # None PROVE FALSE
    <3>1. PICK c \in Conns : c = downstreams[a][x]  BY <2>2 DEF BaseInv, RelayInv, TablesTypeOK
    <3>2. conn[c].child = x /\ conn[c].to = a /\ conn[c].phase \in {"serve", "remove"}
      BY <2>2, <3>1 DEF BaseInv, RelayInv, EntriesAreServed
    <3>3. Place(x) = a  BY <3>2, CalmConn
    <3> QED  BY <1>2, <2>1, <3>3, NodesAssumption DEF Place, Leaf
  <2>3. announcing' = announcing  BY <1>1, <1>2, <2>1, <2>2
  <2> QED  BY <1>1, <1>5, <2>1, <2>3 DEF Running
<1>7. CASE Finishes(a)
  <2>1. /\ UNCHANGED <<parent, upstream, announcing, conn, wire>>
        /\ pc[a] = "report" /\ pc' = [pc EXCEPT ![a] = "main"]
    BY <1>7 DEF Finishes, serverPart
  <2> QED  BY <1>1, <1>5, <2>1 DEF Running
<1>8. ~((\E t \in Agents \cup {Server} : \E c \in Conns : Opens(a, t, c)) \/ (\E l \in PCs : Moves(a, l))
        \/ (\E p \in Agents \cup {Server} : \E l \in PCs : TakesParent(a, p, l))
        \/ Loses(a) \/ Restarts(a) \/ \E x \in Agents : Notifies(a, x))
  BY <1>2, <1>3 DEF Opens, Moves, TakesParent, Loses, Restarts, Notifies, Attached, Running
<1> QED  BY <1>6, <1>7, <1>8 DEF AgentEffect

LEMMA ServerCalm ==
  ASSUME BaseInv, Tidy, Calm, Unhinted', NEW c \in Conns, ServerEffect(c)
  PROVE  Calm'
<1>1. /\ UNCHANGED <<pc, upstream, announcing>> /\ conn[c].to = Server /\ conn[c].phase # "gone"
      /\ conn[c].phase \in {"hello", "serve"}
  BY DEF ServerEffect, Accepts, Closes, Records, Discounts, Refuses, agentPart
<1>2. conn[c].link = "up"  BY <1>1, CalmConn
<1>3. ASSUME parent' = parent, \A d \in Conns : \A n \in Reports : On(d, n)' => On(d, n),
             \A d \in Conns : /\ conn'[d].child = conn[d].child /\ conn'[d].link = conn[d].link /\ conn'[d].to = conn[d].to
                              /\ conn'[d].phase # "serve" => conn[d].phase # "serve"
      PROVE  Calm'
  <2>1. \A x \in Agents : Running(x)'  BY <1>1 DEF Calm, CalmAt, Linked, Running
  <2>2. \A x \in Agents :
           /\ ~Leaving(x)'
           /\ \A d \in Conns, p \in Agents : On(d, Attach(x, p))' => Leaf(x) /\ p = parent[x] /\ conn'[d].child \in Above(p)
    BY <1>3, CalmReports
  <2>3. CalmStep  BY <1>1, <1>3, <2>1, <2>2 DEF CalmStep
  <2> QED  BY <2>3, CalmKept
<1>4. CASE Accepts(c)
  BY <1>1, <1>3, <1>4 DEF Accepts, Sets, On
<1>5. CASE Closes(c)  BY <1>2, <1>5, NodesAssumption DEF Closes
<1>6. ASSUME NEW m \in Reports, Records(c, m) PROVE Calm'
  <2>1. /\ m.a \in Agents /\ m.p \in Agents /\ m = Attach(m.a, m.p)
    BY <1>6, ReportKinds, ReportFields DEF Records
  <2>2. On(c, m)  BY <1>6 DEF Records, Takes
  <2>3. m.p = parent[m.a]  BY <2>1, <2>2 DEF Calm, CalmAt, OnTheWay
  <2>4. parent \in [Agents -> Agents \cup {None}]  BY DEF BaseInv, MeshTypeOK
  <2>5. parent' = parent  BY <1>6, <2>1, <2>3, <2>4 DEF Records
  <2> QED  BY <1>3, <1>6, <2>5 DEF Records, Takes
<1>7. ASSUME NEW m \in Reports, Discounts(c, m) PROVE Calm'
  <2>1. m.a \in Agents /\ m = Detach(m.a)  BY <1>7, ReportKinds DEF Discounts
  <2>2. On(c, m)  BY <1>7 DEF Discounts, Takes
  <2> QED  BY <2>1, <2>2 DEF Calm, CalmAt, Leaving
<1>8. ASSUME NEW m \in Reports, Refuses(c, m) PROVE Calm'
  BY <1>3, <1>8 DEF Refuses, Takes, serverPart
<1> QED  BY <1>4, <1>5, <1>6, <1>7, <1>8 DEF ServerEffect

LEMMA RelayCalm ==
  ASSUME BaseInv, Tidy, Calm, Unhinted', NEW p \in Agents, NEW c \in Conns, RelayEffect(p, c)
  PROVE  Calm'
<1>1. /\ UNCHANGED <<pc, upstream, announcing, parent>> /\ conn[c].to = p /\ conn[c].phase # "gone"
  BY DEF RelayEffect, Hellos, Inserts, Drops, TakesOut, TellsLoss, Forwards, Misses, Serves, agentPart, serverPart
<1>2. PICK y \in Agents : /\ y = conn[c].child /\ upstream[y] = c /\ conn[c].link = "up"
                          /\ p = Place(y) /\ Running(y) /\ (conn[c].phase # "serve" => Leaf(y))
  BY <1>1, CalmConn
<1>3. p = parent[y]  BY <1>2, NodesAssumption DEF Place
<1>4. PICK u \in Conns : u = upstream[p] /\ conn[u].link = "up" /\ conn[u].child = p /\ conn[u].phase # "gone"
  BY LinkedConn DEF Calm, CalmAt, Linked, Ph
<1>5. parent \in Trees  BY DEF BaseInv, MeshTypeOK, Trees
<1>6. ASSUME \A d \in Conns : /\ conn'[d].child = conn[d].child /\ conn'[d].link = conn[d].link /\ conn'[d].to = conn[d].to
                              /\ conn'[d].phase # "serve" => conn[d].phase # "serve",
             \A d \in Conns, x, q \in Agents : On(d, Attach(x, q))' =>
                On(d, Attach(x, q)) \/ (Leaf(x) /\ q = parent[x] /\ conn[d].child \in Above(q)),
             \A d \in Conns, x \in Agents : On(d, Detach(x))' => \E e \in Conns : On(e, Detach(x))
      PROVE  Calm'
  <2>1. \A x \in Agents : Running(x)' /\ ~Leaving(x)'
    BY <1>1, <1>6 DEF Calm, CalmAt, Linked, Running, Leaving
  <2>2. \A x, q \in Agents, d \in Conns : On(d, Attach(x, q))' => Leaf(x) /\ q = parent[x] /\ conn'[d].child \in Above(q)
    BY <1>6 DEF Calm, CalmAt, OnTheWay
  <2>3. CalmStep  BY <1>1, <1>6, <2>1, <2>2 DEF CalmStep
  <2> QED  BY <2>3, CalmKept
<1>7. CASE Hellos(p, c)
  <2>1. /\ Sets(c, conn[c].child, p, conn[c].link, "insert") /\ conn[c].phase = "hello"
        /\ \A d \in Conns : \A n \in Reports :
             On(d, n)' <=> On(d, n) \/ (n = Attach(y, p) /\ d = upstream[p] /\ conn[d].link = "up")
    BY <1>2, <1>7 DEF Hellos, Serves, Sends
  <2>2. p \in Above(p)  BY <1>5, UpToClosed, AboveIs
  <2>3. ASSUME NEW d \in Conns, NEW x \in Agents, NEW q \in Agents, On(d, Attach(x, q))', ~On(d, Attach(x, q))
        PROVE  Leaf(x) /\ q = parent[x] /\ conn[d].child \in Above(q)
    <3>1. Attach(x, q) = Attach(y, p) /\ d = u  BY <1>4, <2>1, <2>3, ReportFields
    <3>2. x = y /\ q = p  BY <3>1, ReportFields
    <3> QED  BY <1>2, <1>3, <1>4, <2>1, <2>2, <3>1, <3>2
  <2>4. \A d \in Conns, x \in Agents : On(d, Detach(x))' => On(d, Detach(x))  BY <2>1, ReportFields
  <2>5. \A d \in Conns : /\ conn'[d].child = conn[d].child /\ conn'[d].link = conn[d].link /\ conn'[d].to = conn[d].to
                         /\ conn'[d].phase # "serve" => conn[d].phase # "serve"
    BY <1>1, <2>1 DEF Sets
  <2> QED  BY <1>6, <2>3, <2>4, <2>5
<1>8. CASE Inserts(p, c)
  <2>1. /\ \A d \in Conns : /\ conn'[d].child = conn[d].child /\ conn'[d].link = conn[d].link /\ conn'[d].to = conn[d].to
                            /\ conn'[d].phase # "serve" => conn[d].phase # "serve"
        /\ wire' = wire
    BY <1>1, <1>8 DEF Inserts, Sets
  <2> QED  BY <1>6, <2>1 DEF On
<1>9. ~Drops(p, c)  BY <1>2, <1>4, NodesAssumption DEF Drops
<1>10. ~TakesOut(p, c) /\ ~TellsLoss(p, c)
  <2>1. ConnOK(c)  BY DEF BaseInv
  <2> QED  BY <1>2, <2>1 DEF TakesOut, TellsLoss, Serves, ConnOK
<1>11. ASSUME NEW m \in Reports, Forwards(p, c, m) PROVE Calm'
  <2>1. /\ conn' = conn /\ On(c, m)
        /\ \A d \in Conns : \A n \in Reports : On(d, n)' => On(d, n) \/ (d = u /\ n = m)
    BY <1>4, <1>11 DEF Forwards, Passes
  <2>2. ASSUME NEW d \in Conns, NEW x \in Agents, NEW q \in Agents, On(d, Attach(x, q))', ~On(d, Attach(x, q))
        PROVE  Leaf(x) /\ q = parent[x] /\ conn[d].child \in Above(q)
    <3>1. d = u /\ m = Attach(x, q)  BY <2>1, <2>2, ReportFields
    <3>2. On(c, Attach(x, q))  BY <2>1, <3>1
    <3>3. Leaf(x) /\ q = parent[x] /\ y \in Above(q)  BY <1>2, <3>2 DEF Calm, CalmAt, OnTheWay
    <3>4. p \in Above(q)  BY <1>3, <1>5, <3>3, UpToClosed, AboveIs, NodesAssumption
    <3> QED  BY <1>4, <3>1, <3>3, <3>4
  <2>3. \A d \in Conns, x \in Agents : On(d, Detach(x))' => On(d, Detach(x)) \/ On(c, Detach(x))
    BY <2>1, ReportFields
  <2> QED  BY <1>6, <2>1, <2>2, <2>3
<1>12. \A m \in Reports : ~Misses(p, c, m)  BY <1>4 DEF Misses
<1> QED  BY <1>7, <1>8, <1>9, <1>10, <1>11, <1>12 DEF RelayEffect

\* The crash of an agent in a calm mesh.
LEMMA CrashHurts ==
  ASSUME BaseInv, BaseInv', Tidy, Calm, Unhinted', NEW q \in Agents, Crashes(q)
  PROVE  Hurt(q)'
<1>1. /\ parent \in Trees /\ pc \in [Agents -> PCs] /\ upstream \in [Agents -> Conns \cup {None}]
      /\ announcing \in [Agents -> SUBSET Agents]
  BY DEF BaseInv, MeshTypeOK, Trees
<1>2. /\ pc' = [pc EXCEPT ![q] = "crashed"]
      /\ upstream' = [upstream EXCEPT ![q] = None]
      /\ announcing' = [announcing EXCEPT ![q] = {}]
      /\ parent' = parent
      /\ \A d \in Conns : \A n \in Reports : On(d, n)' => On(d, n) /\ conn[d].to # q
  BY DEF Crashes, serverPart
<1>c. \A c \in Conns :
        IF conn[c].to = q
        THEN conn'[c].child = None /\ conn'[c].to = None /\ conn'[c].link = "cut" /\ conn'[c].phase = "gone"
        ELSE /\ conn'[c].child = conn[c].child /\ conn'[c].to = conn[c].to /\ conn'[c].phase = conn[c].phase
             /\ conn'[c].link = IF conn[c].child = q THEN "cut" ELSE conn[c].link
  BY DEF Crashes
<1>3. \A p \in Agents : Above(p)' = Above(p) /\ Above(p) \in SUBSET Agents  BY <1>1, <1>2, AboveIs, UpToClosed
<1>4. \A x \in Agents : Running(x)' \/ x = q  BY <1>1, <1>2 DEF Calm, CalmAt, Linked, Running
<1>5. \A p \in Agents : announcing'[p] = {}  BY <1>1, <1>2 DEF Calm, CalmAt
<1>6. \A x \in Agents : ~Leaving(x)'  BY <1>2, ReportFields DEF Leaving, Calm, CalmAt
<1>7. ASSUME NEW x \in Above(q) PROVE Rooted(x)' /\ (x # q => Steady(x)')
  <2>1. x \in Agents /\ CalmAt(x) /\ CalmAt(q)  BY <1>3 DEF Calm
  <2>2. Rooted(x)'  BY <1>2, <1>3, <2>1 DEF Rooted, CalmAt
  <2>3. ASSUME x # q PROVE Steady(x)'
    <3>1. parent[q] \in Agents /\ x \in Above(parent[q])  BY <1>1, <2>3, UpToRest, AboveIs
    <3>2. ~Leaf(x)  BY <1>1, <2>3, UpToLast, AboveIs, <1>3 DEF Leaf
    <3>3. parent[x] # q
      <4>1. q \notin Above(parent[q])  BY <2>1, <3>1 DEF CalmAt, Rooted
      <4>2. parent[x] # None => parent[x] \in Above(parent[q])  BY <1>1, <3>1, UpToClosed, AboveIs
      <4> QED  BY <4>1, <4>2, NodesAssumption
    <3>4. To(x) # q  BY <2>1, <3>3, NodesAssumption DEF CalmAt, Place
    <3>5. /\ pc[x] = "main" /\ Ph(x) = "serve" /\ To(x) = Place(x) /\ Linked(x)
          /\ \A d \in Conns, p \in Agents : ~On(d, Attach(x, p))
      BY <2>1, <3>2 DEF CalmAt
    <3>6. PICK u \in Conns : u = upstream[x] /\ conn[u].child = x  BY <2>1, <3>5, LinkedConn
    <3>7. upstream'[x] = u /\ pc'[x] = "main" /\ conn[u].to # q  BY <1>1, <1>2, <2>1, <2>3, <3>4, <3>5, <3>6 DEF To
    <3>8. conn'[u].to = conn[u].to /\ conn'[u].phase = conn[u].phase /\ conn'[u].link = conn[u].link
      BY <1>c, <2>3, <3>6, <3>7
    <3>9. Linked(x)' /\ Ph(x)' = "serve" /\ To(x)' = To(x)
      BY <3>5, <3>6, <3>7, <3>8, NodesAssumption DEF Linked, Ph, To, Running
    <3>10. Place(x)' = Place(x)  BY <1>2 DEF Place
    <3>11. \A p \in Agents : ~Pending(x, p)'  BY <1>2, <1>5, <2>1, <3>5, ReportFields DEF Pending
    <3> QED  BY <3>5, <3>7, <3>9, <3>10, <3>11 DEF Steady
  <2> QED  BY <2>2, <2>3
<1>8. PathStands(q)'  BY <1>3, <1>7 DEF PathStands
<1>9. PICK u \in Conns : /\ u = upstream[q] /\ conn[u].child = q /\ conn[u].to = Place(q) /\ conn[u].to # q
  <2>1. CalmAt(q)  BY DEF Calm
  <2>2. parent[q] # q  BY <1>1, <2>1, UpToClosed, AboveIs DEF CalmAt, Rooted
  <2>3. Place(q) # q  BY <2>2, NodesAssumption DEF Place
  <2> QED  BY <2>1, <2>3, LinkedConn DEF CalmAt, To
<1>10. LastLink(q)'
  <2> SUFFICES ASSUME NEW c \in Conns, conn'[c].child = q
               PROVE  /\ conn'[c].link = "cut" /\ conn'[c].to = Place(q)'
                      /\ \A e \in Conns : conn'[e].child = q => e = c
    BY <1>6 DEF LastLink
  <2>1. ASSUME NEW e \in Conns, conn'[e].child = q PROVE e = u /\ conn'[e].to = conn[e].to /\ conn'[e].link = "cut"
    <3>1. conn[e].to # q /\ conn[e].child = q /\ conn'[e].to = conn[e].to /\ conn'[e].link = "cut"
      BY <1>c, <2>1, NodesAssumption
    <3>2. conn[e].phase # "gone"  BY <3>1, NodesAssumption DEF BaseInv, ConnOK
    <3> QED  BY <1>9, <3>1, <3>2, CalmConn
  <2>2. Place(q)' = Place(q)  BY <1>2 DEF Place
  <2> QED  BY <1>9, <2>1, <2>2
<1>11. OnTheWay(q)'
  <2> SUFFICES ASSUME NEW d \in Conns, NEW p \in Agents, On(d, Attach(q, p))'
               PROVE  p = parent[q] /\ conn'[d].child \in Above(p)
    BY <1>2, <1>3 DEF OnTheWay
  <2>1. On(d, Attach(q, p)) /\ conn[d].to # q  BY <1>2, ReportFields
  <2> QED  BY <1>c, <2>1 DEF Calm, CalmAt, OnTheWay
<1>12. \A d \in Conns : ~On(d, Detach(q))'  BY <1>6 DEF Leaving
<1>13. LossOnTheWay(q)' /\ LossIsLast(q)'
  BY <1>12 DEF LossOnTheWay, LossIsLast, InOrder, On
<1>14. Missed(q)'
  <2>1. conn'[u].child = q  BY <1>c, <1>9
  <2> QED  BY <2>1 DEF Missed
<1> QED  BY <1>4, <1>5, <1>8, <1>10, <1>11, <1>13, <1>14 DEF Hurt

-----------------------------------------------------------------------------
(***************************************************************************)
(* While an agent that crashed is the only fault.                          *)
(***************************************************************************)
\* Above the agent that crashed.
LEMMA OnPath ==
  ASSUME BaseInv, Tidy, NEW q \in Agents, PathStands(q), NEW x \in Above(q), x # q
  PROVE  /\ x \in Agents /\ Running(x) /\ pc[x] = "main" /\ \A p \in Agents : ~Pending(x, p)
         /\ \E u \in Conns : /\ u = upstream[x] /\ conn[u].child = x /\ conn[u].phase = "serve" /\ conn[u].link = "up"
                             /\ conn[u].to = Place(x)
                             /\ \A d \in Conns : conn[d].child = x => d = u
         /\ \/ parent[x] = None /\ Place(x) = Server
            \/ parent[x] \in Above(q) \ {q} /\ Place(x) = parent[x]
<1>1. parent \in Trees  BY DEF BaseInv, MeshTypeOK, Trees
<1>2. Above(q) \in SUBSET Agents /\ q \in Above(q) /\ \A y \in Above(q) : parent[y] # None => parent[y] \in Above(q)
  BY <1>1, UpToClosed, AboveIs
<1>3. Steady(x) /\ Rooted(q) /\ x \in Agents  BY <1>2 DEF PathStands
<1>4. Linked(x) /\ Running(x) /\ pc[x] = "main" /\ (\A p \in Agents : ~Pending(x, p))  BY <1>3 DEF Steady, Linked
<1>5. PICK u \in Conns : u = upstream[x] /\ conn[u].child = x  BY <1>3, <1>4, LinkedConn
<1>6. conn[u].phase = "serve" /\ conn[u].link = "up" /\ conn[u].to = Place(x)
  BY <1>3, <1>5 DEF Steady, Linked, To, Ph
<1>7. ASSUME NEW d \in Conns, conn[d].child = x PROVE d = u
  <2>1. conn[d].phase # "gone"  BY <1>3, <1>7, NodesAssumption DEF BaseInv, ConnOK
  <2> QED  BY <1>4, <1>5, <1>7, <2>1 DEF Tidy, LoneAt
<1>8. parent[q] \in Agents /\ x \in Above(parent[q])  BY <1>1, UpToRest, AboveIs
<1>9. q \notin Above(parent[q])  BY <1>3, <1>8 DEF Rooted
<1>10. parent[x] # None => parent[x] \in Above(parent[q])  BY <1>1, <1>8, UpToClosed, AboveIs
<1>11. parent[x] # None => parent[x] \in Above(q) \ {q}  BY <1>2, <1>9, <1>10
<1> QED  BY <1>3, <1>4, <1>5, <1>6, <1>7, <1>11 DEF Place

Undisturbed(x) ==
  /\ pc'[x] = pc[x] /\ upstream'[x] = upstream[x]
  /\ \A u \in Conns : u = upstream[x] =>
       conn'[u].link = conn[u].link /\ conn'[u].to = conn[u].to /\ conn'[u].phase = conn[u].phase
  /\ \A p \in Agents : Pending(x, p)' => Pending(x, p)

LEMMA PathKept ==
  ASSUME BaseInv, BaseInv', Tidy, NEW q \in Agents, PathStands(q), \A b \in Above(q) : parent'[b] = parent[b],
         \A x \in Above(q) \ {q} : Undisturbed(x)
  PROVE  /\ PathStands(q)' /\ Place(q)' = Place(q) /\ parent'[q] = parent[q]
         /\ \A p \in Above(q) : Above(p)' = Above(p)
<1>1. parent \in Trees /\ parent' \in Trees  BY DEF BaseInv, MeshTypeOK, Trees
<1>2. /\ Above(q) \in SUBSET Agents /\ q \in Above(q)
      /\ \A y \in Above(q) : parent[y] # None => parent[y] \in Above(q)
  BY <1>1, UpToClosed, AboveIs
<1>3. ASSUME NEW p \in Above(q) PROVE Above(p)' = Above(p)
  <2>1. p \in Agents /\ Above(p) \subseteq Above(q)  BY <1>1, UpToMore, AboveIs
  <2> QED  BY <1>1, <2>1, UpToSame, AboveIs
<1>4. ASSUME NEW x \in Above(q) PROVE Rooted(x)' /\ (x # q => Steady(x)')
  <2>1. x \in Agents /\ parent'[x] = parent[x] /\ Rooted(x)  BY <1>2 DEF PathStands
  <2>2. Rooted(x)'
    <3> SUFFICES ASSUME NEW p \in Agents, p = parent'[x] PROVE x \notin Above(p)'  BY DEF Rooted
    <3>1. p \in Above(q)  BY <1>2, <2>1, NodesAssumption
    <3> QED  BY <1>3, <2>1, <3>1 DEF Rooted
  <2>3. ASSUME x # q PROVE Steady(x)'
    <3>1. /\ Running(x) /\ pc[x] = "main" /\ \A p \in Agents : ~Pending(x, p)
      BY <2>3, OnPath
    <3>2. PICK u \in Conns : u = upstream[x] /\ conn[u].phase = "serve" /\ conn[u].link = "up" /\ conn[u].to = Place(x)
      BY <2>3, OnPath
    <3>3. /\ pc'[x] = "main" /\ upstream'[x] = u
          /\ conn'[u].phase = "serve" /\ conn'[u].link = "up" /\ conn'[u].to = Place(x)
          /\ \A p \in Agents : ~Pending(x, p)'
      BY <2>3, <3>1, <3>2 DEF Undisturbed
    <3>4. Place(x)' = Place(x)  BY <2>1 DEF Place
    <3>5. Linked(x)' /\ Ph(x)' = "serve" /\ To(x)' = Place(x)'
      BY <3>3, <3>4, NodesAssumption DEF Linked, Running, Ph, To
    <3> QED  BY <3>3, <3>5 DEF Steady
  <2> QED  BY <2>2, <2>3
<1>5. PathStands(q)'  BY <1>2, <1>3, <1>4 DEF PathStands
<1>6. parent'[q] = parent[q] /\ Place(q)' = Place(q)  BY <1>2 DEF Place
<1> QED  BY <1>3, <1>5, <1>6

\* A step that has nothing to do with q.
OthersMove(q) ==
  /\ \A x \in Agents : Running(x)' \/ x = q
  /\ \A p \in Agents : q \notin announcing'[p]
  /\ \A b \in Above(q) : parent'[b] = parent[b]
  /\ \A x \in Above(q) \ {q} : Undisturbed(x)
LinkStays(q) ==
  \A c \in Conns :
    conn'[c].child = q => conn[c].child = q /\ conn'[c].link = conn[c].link /\ conn'[c].to = conn[c].to
NothingSent(q) ==
  /\ \A d \in Conns : \A m \in Reports : m.a = q /\ On(d, m)' => On(d, m) /\ conn'[d].child = conn[d].child
  /\ \A d \in Conns, p \in Agents :
       InOrder(wire[d], Attach(q, p), Detach(q)) => InOrder(wire'[d], Attach(q, p), Detach(q))
StillMissed(q) ==
  /\ q \in online' =>
       q \in online \/ (\E d \in Conns, p \in Agents : On(d, Attach(q, p))) \/ \E c \in Conns : conn[c].child = q
  /\ \A c \in Conns : conn[c].child = q => conn'[c].child = q
  /\ Leaving(q) => Leaving(q)'

LEMMA SilentHurt ==
  ASSUME BaseInv, BaseInv', Tidy, NEW q \in Agents, Hurt(q), Unhinted',
         OthersMove(q), LinkStays(q), NothingSent(q), StillMissed(q) \/ Missed(q)'
  PROVE  Hurt(q)'
<1>1. /\ PathStands(q)' /\ Place(q)' = Place(q) /\ parent'[q] = parent[q]
      /\ \A p \in Above(q) : Above(p)' = Above(p)
  BY PathKept DEF Hurt, OthersMove
<1>2. parent \in Trees  BY DEF BaseInv, MeshTypeOK, Trees
<1>3. Above(q) \in SUBSET Agents /\ q \in Above(q) /\ \A y \in Above(q) : parent[y] # None => parent[y] \in Above(q)
  BY <1>2, UpToClosed, AboveIs
<1>4. \A p \in Agents : /\ Attach(q, p) \in Reports /\ Attach(q, p).a = q
                        /\ Detach(q) \in Reports /\ Detach(q).a = q
  BY ReportFields
<1>5. \A d \in Conns, p \in Agents : On(d, Attach(q, p))' => On(d, Attach(q, p)) /\ conn'[d].child = conn[d].child
  BY <1>4 DEF NothingSent
<1>6. \A d \in Conns : On(d, Detach(q))' => On(d, Detach(q)) /\ conn'[d].child = conn[d].child
  BY <1>4 DEF NothingSent
<1>7. LastLink(q)'
  <2> SUFFICES ASSUME NEW c \in Conns, conn'[c].child = q
               PROVE  /\ conn'[c].link = "cut" /\ conn'[c].to = Place(q) /\ ~Leaving(q)'
                      /\ \A e \in Conns : conn'[e].child = q => e = c
    BY <1>1 DEF LastLink
  <2>1. conn[c].child = q /\ conn'[c].link = conn[c].link /\ conn'[c].to = conn[c].to  BY DEF LinkStays
  <2>2. conn[c].link = "cut" /\ conn[c].to = Place(q) /\ ~Leaving(q) /\ \A e \in Conns : conn[e].child = q => e = c
    BY <2>1 DEF Hurt, LastLink
  <2>3. ~Leaving(q)'  BY <1>6, <2>2 DEF Leaving
  <2> QED  BY <2>1, <2>2, <2>3 DEF LinkStays
<1>8. OnTheWay(q)'
  <2> SUFFICES ASSUME NEW d \in Conns, NEW p \in Agents, On(d, Attach(q, p))'
               PROVE  p = parent[q] /\ conn'[d].child \in Above(p)'
    BY <1>1 DEF OnTheWay
  <2>1. p = parent[q] /\ conn[d].child \in Above(p) /\ conn'[d].child = conn[d].child
    BY <1>5 DEF Hurt, OnTheWay
  <2>2. p \in Above(q)  BY <1>3, <2>1, NodesAssumption
  <2> QED  BY <1>1, <2>1, <2>2
<1>9. LossOnTheWay(q)'
  BY <1>1, <1>3, <1>6 DEF LossOnTheWay, Hurt
<1>10. LossIsLast(q)'
  <2>1. ASSUME NEW d \in Conns, NEW e \in Conns, NEW p \in Agents, NEW y \in Agents,
               On(d, Detach(q))', On(e, Attach(q, p))', y = conn'[d].child
        PROVE  conn'[e].child \in Above(y)'
    <3>1. /\ On(d, Detach(q)) /\ conn'[d].child = conn[d].child
          /\ On(e, Attach(q, p)) /\ conn'[e].child = conn[e].child
      BY <1>5, <1>6, <2>1
    <3>2. conn[e].child \in Above(y)  BY <2>1, <3>1 DEF Hurt, LossIsLast
    <3>3. y \in Above(q)  BY <2>1, <3>1 DEF Hurt, LossOnTheWay
    <3> QED  BY <1>1, <3>1, <3>2, <3>3
  <2>2. \A d \in Conns, p \in Agents : InOrder(wire'[d], Attach(q, p), Detach(q))
    BY DEF NothingSent, Hurt, LossIsLast
  <2> QED  BY <2>1, <2>2 DEF LossIsLast
<1>11. StillMissed(q) => Missed(q)'
  <2> SUFFICES ASSUME StillMissed(q),
                      q \in online' \/ (\E d \in Conns, p \in Agents : On(d, Attach(q, p))')
               PROVE  (\E c \in Conns : conn'[c].child = q) \/ Leaving(q)'
    BY DEF Missed
  <2>1. q \in online \/ (\E d \in Conns, p \in Agents : On(d, Attach(q, p))) \/ \E c \in Conns : conn[c].child = q
    BY <1>5 DEF StillMissed
  <2>2. (\E c \in Conns : conn[c].child = q) \/ Leaving(q)  BY <2>1 DEF Hurt, Missed
  <2> QED  BY <2>2 DEF StillMissed
<1>12. Missed(q)' => Hurt(q)'
  BY <1>1, <1>7, <1>8, <1>9, <1>10 DEF Hurt, OthersMove
<1> QED  BY <1>11, <1>12

LEMMA AgentHurt ==
  ASSUME BaseInv, BaseInv', Tidy, NEW q \in Agents, ~Running(q)', Hurt(q), Unhinted', NEW a \in Agents, AgentEffect(a)
  PROVE  Hurt(q)'
<1>1. /\ pc \in [Agents -> PCs] /\ upstream \in [Agents -> Conns \cup {None}]
      /\ announcing \in [Agents -> SUBSET Agents] /\ parent \in Trees
  BY DEF BaseInv, MeshTypeOK, Trees
<1>2. Above(q) \in SUBSET Agents /\ q \in Above(q)  BY <1>1, UpToClosed, AboveIs
<1>3. \A x \in Agents : Running(x) \/ x = q  BY DEF Hurt
<1>4. ASSUME a \in Above(q), a # q PROVE FALSE
  <2>1. pc[a] = "main"  BY <1>4, OnPath DEF Hurt
  <2>2. upstream[a] # None /\ conn[upstream[a]].link = "up"  BY <1>4, OnPath, NodesAssumption DEF Hurt
  <2> QED  BY <2>1, <2>2 DEF AgentEffect, Opens, Moves, TakesParent, Announces, Finishes, Loses, Restarts, Notifies
<1>5. ~Restarts(a)
  <2> SUFFICES ASSUME Restarts(a) PROVE FALSE  OBVIOUS
  <2>1. a = q  BY <1>3 DEF Restarts, Running
  <2>2. Running(q)'  BY <1>1, <2>1 DEF Restarts, Running
  <2> QED  BY <2>2
<1>6. a # q
  <2> SUFFICES ASSUME a = q PROVE FALSE  OBVIOUS
  <2>1. pc'[q] = "crashed"  BY DEF Running
  <2> QED  BY <1>1, <1>5, <2>1
      DEF AgentEffect, Opens, Moves, TakesParent, Announces, Finishes, Loses, Notifies, Running
<1>7. a \notin Above(q)  BY <1>4, <1>6
<1>8. ASSUME UNCHANGED wire, \A x \in Agents : x # a => pc'[x] = pc[x] /\ upstream'[x] = upstream[x],
             Running(a)', \A b \in Agents : b # a => parent'[b] = parent[b],
             LinkStays(q), \A d \in Conns : wire[d] # <<>> => conn'[d].child = conn[d].child,
             \A d \in Conns : conn'[d] = conn[d] \/ \A b \in Agents : upstream[b] # d,
             \A p, x \in Agents : x \in Above(q) /\ x \in announcing'[p] => x \in announcing[p],
             StillMissed(q)
      PROVE  Hurt(q)'
  <2>1. \A d \in Conns : \A n : On(d, n)' => On(d, n)  BY <1>8 DEF On
  <2>2. \A x \in Agents : Running(x)' \/ x = q  BY <1>3, <1>8 DEF Running
  <2>3. ASSUME NEW x \in Above(q) \ {q} PROVE Undisturbed(x)
    <3>1. x \in Agents /\ x # a  BY <1>2, <1>7
    <3>2. \A p \in Agents : Pending(x, p)' => Pending(x, p)
      <4>1. \A d \in Conns, p \in Agents : On(d, Attach(x, p))' => On(d, Attach(x, p))  BY <2>1
      <4>2. \A p \in Agents : x \in announcing'[p] => x \in announcing[p]  BY <1>8, <3>1
      <4> QED  BY <4>1, <4>2 DEF Pending
    <3> QED  BY <1>8, <3>1, <3>2 DEF Undisturbed
  <2>4. OthersMove(q)  BY <1>2, <1>7, <1>8, <2>2, <2>3 DEF OthersMove, Hurt
  <2>5. \A d \in Conns : \A m \in Reports : On(d, m)' => On(d, m) /\ conn'[d].child = conn[d].child
    <3> SUFFICES ASSUME NEW d \in Conns, NEW m \in Reports, On(d, m)' PROVE On(d, m) /\ conn'[d].child = conn[d].child
      OBVIOUS
    <3>1. On(d, m)  BY <2>1
    <3>2. wire[d] # <<>>  BY <3>1 DEF On
    <3> QED  BY <1>8, <3>1, <3>2
  <2>6. NothingSent(q)  BY <1>8, <2>5 DEF NothingSent
  <2> QED  BY <1>8, <2>4, <2>6, SilentHurt
<1>9. ASSUME conn' = conn, wire' = wire, online' = online PROVE LinkStays(q) /\ StillMissed(q)
  BY <1>9 DEF LinkStays, StillMissed, Leaving, On
<1>10. ASSUME NEW t \in Agents \cup {Server}, NEW c \in Conns, Opens(a, t, c) PROVE Hurt(q)'
  <2>1. /\ conn[c].phase = "gone" /\ (\A b \in Agents : upstream[b] # c) /\ Sets(c, a, t, "up", "hello")
        /\ UNCHANGED <<announcing, wire, parent, online>>
        /\ upstream' = [upstream EXCEPT ![a] = c] /\ pc' = [pc EXCEPT ![a] = "announce"]
    BY <1>10 DEF Opens, serverPart
  <2>2. conn[c].child # q /\ wire[c] = <<>>  BY <2>1, NodesAssumption DEF BaseInv, ConnOK
  <2>3. LinkStays(q) /\ StillMissed(q)  BY <1>6, <2>1, <2>2 DEF LinkStays, Sets, StillMissed, Leaving, On
  <2>4. \A d \in Conns : wire[d] # <<>> => conn'[d].child = conn[d].child  BY <2>1, <2>2 DEF Sets
  <2>5. \A d \in Conns : conn'[d] = conn[d] \/ \A b \in Agents : upstream[b] # d  BY <2>1 DEF Sets
  <2>6. Running(a)' /\ \A x \in Agents : x # a => pc'[x] = pc[x] /\ upstream'[x] = upstream[x]
    BY <1>1, <2>1 DEF Running
  <2> QED  BY <1>8, <2>1, <2>3, <2>4, <2>5, <2>6
<1>11. ASSUME NEW l \in PCs, Moves(a, l) PROVE Hurt(q)'
  BY <1>1, <1>8, <1>9, <1>11 DEF Moves, serverPart, Running
<1>12. ASSUME NEW p \in Agents \cup {Server}, NEW l \in PCs, TakesParent(a, p, l) PROVE Hurt(q)'
  <2>1. LinkStays(q) /\ StillMissed(q)  BY <1>6, <1>12 DEF LinkStays, StillMissed, TakesParent, Leaving, On
  <2>2. Running(a)' /\ \A b \in Agents : b # a => parent'[b] = parent[b] /\ pc'[b] = pc[b]
    BY <1>1, <1>12 DEF TakesParent, Running, Trees
  <2> QED  BY <1>8, <1>12, <2>1, <2>2 DEF TakesParent
<1>13. CASE Announces(a)
  <2>1. /\ announcing' = [announcing EXCEPT ![a] = {x \in Agents : downstreams[a][x] # None}]
        /\ UNCHANGED <<parent, upstream, conn, wire, online>> /\ pc' = [pc EXCEPT ![a] = "report"]
    BY <1>13 DEF Announces, serverPart
  <2>2. ASSUME NEW x \in Above(q), downstreams[a][x] # None PROVE FALSE
    <3>0. x \in Agents  BY <1>2
    <3>1. PICK c \in Conns : c = downstreams[a][x]  BY <2>2, <3>0 DEF BaseInv, RelayInv, TablesTypeOK
    <3>2. conn[c].child = x /\ conn[c].to = a  BY <2>2, <3>0, <3>1 DEF BaseInv, RelayInv, EntriesAreServed
    <3>3. a = Place(x)
      <4>1. CASE x = q  BY <3>2, <4>1 DEF Hurt, LastLink
      <4>2. CASE x # q  BY <3>2, <4>2, OnPath DEF Hurt
      <4> QED  BY <4>1, <4>2
    <3>4. a = parent[x]  BY <3>3, NodesAssumption DEF Place
    <3> QED  BY <1>1, <1>7, <3>4, UpToClosed, AboveIs, NodesAssumption
  <2>3. \A p, x \in Agents : x \in Above(q) /\ x \in announcing'[p] => x \in announcing[p]
    BY <1>1, <2>1, <2>2
  <2>4. Running(a)' /\ \A x \in Agents : x # a => pc'[x] = pc[x]  BY <1>1, <2>1 DEF Running
  <2> QED  BY <1>8, <1>9, <2>1, <2>3, <2>4
<1>14. CASE Finishes(a)
  BY <1>1, <1>8, <1>9, <1>14 DEF Finishes, serverPart, Running
<1>15. CASE Loses(a)
  BY <1>1, <1>8, <1>9, <1>15 DEF Loses, serverPart, Running
<1>16. ASSUME NEW x \in Agents, Notifies(a, x) PROVE Hurt(q)'
  <2>1. /\ x \in announcing[a] /\ announcing' = [announcing EXCEPT ![a] = @ \ {x}]
        /\ Sends(a, Attach(x, a)) /\ UNCHANGED <<pc, upstream, conn, parent, online>>
        /\ \A d \in Conns : \A n \in Reports :
             On(d, n)' <=> On(d, n) \/ (n = Attach(x, a) /\ d = upstream[a] /\ conn[d].link = "up")
    BY <1>16 DEF Notifies, serverPart, Sends
  <2>2. x \notin Above(q)
    <3>1. x # q  BY <2>1 DEF Hurt
    <3> QED  BY <2>1, <3>1, OnPath DEF Hurt, Pending
  <2>3. \A y \in Above(q) : \A d \in Conns : \A n \in Reports : n.a = y => (On(d, n)' <=> On(d, n))
    BY <2>1, <2>2, ReportFields
  <2>4. \A p, y \in Agents : y \in announcing'[p] => y \in announcing[p]  BY <1>1, <2>1
  <2>5. ASSUME NEW y \in Above(q) \ {q} PROVE Undisturbed(y)
    <3>1. \A p \in Agents : Pending(y, p)' => Pending(y, p)
      <4>1. \A d \in Conns, p \in Agents : On(d, Attach(y, p))' => On(d, Attach(y, p))
        BY <1>2, <2>3, ReportFields
      <4> QED  BY <1>2, <2>4, <4>1 DEF Pending
    <3> QED  BY <2>1, <3>1 DEF Undisturbed
  <2>6. OthersMove(q)
    <3>1. \A y \in Agents : Running(y)' \/ y = q  BY <1>3, <2>1 DEF Running
    <3> QED  BY <2>1, <2>4, <2>5, <3>1 DEF OthersMove, Hurt
  <2>7. NothingSent(q)
    <3>1. ASSUME NEW d \in Conns, NEW p \in Agents, InOrder(wire[d], Attach(q, p), Detach(q))
          PROVE  InOrder(wire'[d], Attach(q, p), Detach(q))
      <4>1. Attach(x, a) # Attach(q, p) /\ Attach(q, p) # Detach(q) /\ Attach(x, a) \in Reports
        BY <1>2, <2>2, ReportFields
      <4> QED  BY <2>1, <3>1, <4>1, OrderSends
    <3> QED  BY <1>2, <2>1, <2>3, <3>1 DEF NothingSent
  <2>8. LinkStays(q) /\ StillMissed(q)  BY <2>1, ReportFields DEF LinkStays, StillMissed, Leaving
  <2> QED  BY <2>6, <2>7, <2>8, SilentHurt
<1> QED  BY <1>5, <1>10, <1>11, <1>12, <1>13, <1>14, <1>15, <1>16 DEF AgentEffect

LEMMA ServerHurt ==
  ASSUME BaseInv, BaseInv', Tidy, NEW q \in Agents, Hurt(q), Unhinted', NEW c \in Conns, ServerEffect(c)
  PROVE  Hurt(q)'
<1>1. /\ UNCHANGED <<pc, upstream, announcing>> /\ conn[c].to = Server /\ conn[c].phase \in {"hello", "serve"}
      /\ \A d \in Conns \ {c} : conn'[d] = conn[d]
  BY DEF ServerEffect, Accepts, Closes, Records, Discounts, Refuses, agentPart, Sets
<1>2. parent \in Trees  BY DEF BaseInv, MeshTypeOK, Trees
<1>3. Above(q) \in SUBSET Agents /\ q \in Above(q)  BY <1>2, UpToClosed, AboveIs
<1>4. ASSUME \A b \in Above(q) : parent'[b] = parent[b],
             \A d \in Conns : \A n \in Reports : On(d, n)' => On(d, n),
             \A u \in Conns : u = c /\ (\E x \in Above(q) \ {q} : conn[u].child = x) =>
                conn'[u].link = conn[u].link /\ conn'[u].to = conn[u].to /\ conn'[u].phase = conn[u].phase
      PROVE  OthersMove(q)
  <2>1. ASSUME NEW x \in Above(q) \ {q} PROVE Undisturbed(x)
    <3>1. \A p \in Agents : Pending(x, p)' => Pending(x, p)
      BY <1>1, <1>3, <1>4, ReportFields DEF Pending
    <3>2. PICK u \in Conns : u = upstream[x] /\ conn[u].child = x  BY OnPath DEF Hurt
    <3>3. conn'[u].link = conn[u].link /\ conn'[u].to = conn[u].to /\ conn'[u].phase = conn[u].phase
      BY <1>1, <1>4, <3>2
    <3> QED  BY <1>1, <3>1, <3>2, <3>3 DEF Undisturbed
  <2>2. \A x \in Agents : Running(x)' \/ x = q  BY <1>1 DEF Hurt, Running
  <2> QED  BY <1>1, <1>4, <2>1, <2>2 DEF OthersMove, Hurt
<1>5. ASSUME NEW m \in Reports, Takes(c, m), conn' = conn, \A b \in Above(q) : parent'[b] = parent[b]
      PROVE  /\ OthersMove(q) /\ LinkStays(q) /\ NothingSent(q)
             /\ m # Detach(q) => (Leaving(q) => Leaving(q)')
  <2>1. \A d \in Conns : \A n \in Reports :
          /\ On(d, n)' => On(d, n)
          /\ On(d, n) => On(d, n)' \/ (d = c /\ n = m)
    BY <1>5 DEF Takes
  <2>2. ASSUME NEW d \in Conns, NEW p \in Agents, InOrder(wire[d], Attach(q, p), Detach(q))
        PROVE  InOrder(wire'[d], Attach(q, p), Detach(q))
    BY <1>5, <2>2, OrderTakes
  <2>6. \A d \in Conns : \A n \in Reports : On(d, n)' => On(d, n)  BY <2>1
  <2>7. \A u \in Conns : conn'[u].link = conn[u].link /\ conn'[u].to = conn[u].to /\ conn'[u].phase = conn[u].phase
                          /\ conn'[u].child = conn[u].child
    BY <1>5
  <2>3. OthersMove(q)  BY <1>4, <1>5, <2>6, <2>7
  <2>4. LinkStays(q) /\ NothingSent(q)  BY <2>2, <2>6, <2>7 DEF LinkStays, NothingSent
  <2>5. m # Detach(q) => (Leaving(q) => Leaving(q)')  BY <2>1, ReportFields DEF Leaving
  <2> QED  BY <2>3, <2>4, <2>5
<1>6. CASE Accepts(c)
  <2>1. /\ Sets(c, conn[c].child, Server, conn[c].link, "serve") /\ conn[c].phase = "hello"
        /\ online' = online \cup {conn[c].child} /\ UNCHANGED <<wire, parent>>
    BY <1>6 DEF Accepts
  <2>2. \A x \in Above(q) \ {q} : conn[c].child # x
    <3> SUFFICES ASSUME NEW x \in Above(q) \ {q}, conn[c].child = x PROVE FALSE  OBVIOUS
    <3>1. conn[c].phase = "serve"  BY OnPath DEF Hurt
    <3> QED  BY <2>1, <3>1
  <2>3. OthersMove(q)  BY <1>4, <2>1, <2>2 DEF On
  <2>4. LinkStays(q) /\ NothingSent(q)  BY <1>1, <2>1 DEF LinkStays, NothingSent, On, Sets
  <2>5. StillMissed(q)  BY <1>1, <2>1 DEF StillMissed, Leaving, On, Sets
  <2> QED  BY <2>3, <2>4, <2>5, SilentHurt
<1>7. CASE Closes(c)
  <2>1. /\ conn[c].link = "cut" /\ Sets(c, None, None, "cut", "gone")
        /\ conn[c].reassigned # "yes" /\ online' = online \ Below(conn[c].child)
        /\ Clears(c) /\ parent' = parent
    BY <1>7 DEF Closes, Hurt, Unhinted
  <2>2. \A x \in Above(q) \ {q} : conn[c].child # x
    <3> SUFFICES ASSUME NEW x \in Above(q) \ {q}, conn[c].child = x PROVE FALSE  OBVIOUS
    <3>1. conn[c].link = "up"  BY OnPath DEF Hurt
    <3> QED  BY <2>1, <3>1
  <2>3. /\ \A d \in Conns : \A n \in Reports : On(d, n)' <=> On(d, n) /\ d # c
        /\ \A d \in Conns : wire'[d] = IF d = c THEN <<>> ELSE wire[d]
    BY <2>1 DEF Clears, BaseInv, MeshTypeOK
  <2>4. OthersMove(q)  BY <1>4, <2>1, <2>2, <2>3
  <2>5. NothingSent(q)
    <3>1. \A d \in Conns, p \in Agents :
       InOrder(wire[d], Attach(q, p), Detach(q)) => InOrder(wire'[d], Attach(q, p), Detach(q))
      BY <2>3, OrderEmpty
    <3> QED  BY <1>1, <2>3, <3>1 DEF NothingSent
  <2>6. CASE conn[c].child # q
    <3>1. LinkStays(q)  BY <1>1, <2>1, <2>6, NodesAssumption DEF LinkStays, Sets
    <3>2. Leaving(q) => Leaving(q)'
      <4>1. ~On(c, Detach(q))  BY <2>2 DEF Hurt, LossOnTheWay
      <4> QED  BY <2>3, <4>1, ReportFields DEF Leaving
    <3>3. StillMissed(q)  BY <1>1, <2>1, <2>6, <3>2 DEF StillMissed
    <3> QED  BY <2>4, <2>5, <3>1, <3>3, SilentHurt
  <2>7. CASE conn[c].child = q
    <3>1. Place(q) = Server /\ parent[q] = None /\ \A e \in Conns : conn[e].child = q => e = c
      BY <1>1, <1>2, <2>7, NodesAssumption DEF Hurt, LastLink, Place, Trees
    <3>2. ~(q \in online')  BY <1>3, <2>1, <2>7 DEF Below
    <3>3. \A d \in Conns, p \in Agents : ~On(d, Attach(q, p))
      BY <3>1, NodesAssumption DEF Hurt, OnTheWay
    <3>4. \A d \in Conns, p \in Agents : ~On(d, Attach(q, p))'  BY <2>3, <3>3, ReportFields
    <3>5. Missed(q)'  BY <3>2, <3>4 DEF Missed
    <3>6. LinkStays(q)  BY <1>1, <2>1, <3>1, NodesAssumption DEF LinkStays, Sets
    <3> QED  BY <2>4, <2>5, <3>5, <3>6, SilentHurt
  <2> QED  BY <2>6, <2>7
<1>8. ASSUME NEW m \in Reports, Records(c, m) PROVE Hurt(q)'
  <2>1. m.a \in Agents /\ m.p \in Agents /\ m = Attach(m.a, m.p)
    BY <1>8, ReportKinds, ReportFields DEF Records
  <2>2. Takes(c, m) /\ On(c, m) /\ conn' = conn  BY <1>8 DEF Records, Takes
  <2>3. ASSUME m.a \in Above(q) PROVE m.a = q /\ m.p = parent[q]
    <3>1. Pending(m.a, m.p)  BY <2>1, <2>2 DEF Pending
    <3>2. m.a = q  BY <2>1, <2>3, <3>1, OnPath DEF Hurt
    <3> QED  BY <2>1, <2>2, <3>2 DEF Hurt, OnTheWay
  <2>4. parent' = (IF m.a \in Above(m.p) THEN parent ELSE [parent EXCEPT ![m.a] = m.p]) /\ online' = online \cup Below(m.a)
    BY <1>8 DEF Records
  <2>5. \A b \in Above(q) : parent'[b] = parent[b]  BY <1>2, <1>3, <2>1, <2>3, <2>4 DEF Trees
  <2>6. q \in Below(m.a) => \E d \in Conns, p \in Agents : On(d, Attach(q, p))
    <3> SUFFICES ASSUME q \in Below(m.a) PROVE \E d \in Conns, p \in Agents : On(d, Attach(q, p))
      OBVIOUS
    <3>1. m.a \in Above(q)  BY DEF Below
    <3> QED  BY <2>1, <2>2, <2>3, <3>1
  <2>7. m # Detach(q)  BY <2>1, ReportFields
  <2>8. OthersMove(q) /\ LinkStays(q) /\ NothingSent(q) /\ (Leaving(q) => Leaving(q)')  BY <1>5, <2>2, <2>5, <2>7
  <2>9. StillMissed(q)  BY <2>2, <2>4, <2>6, <2>8 DEF StillMissed
  <2> QED  BY <2>8, <2>9, SilentHurt
<1>9. ASSUME NEW m \in Reports, Refuses(c, m) PROVE Hurt(q)'
  <2>1. /\ Takes(c, m) /\ On(c, m) /\ UNCHANGED <<conn, parent, online>>
        /\ ~OriginAllows(conn[c].child, IF m.t = "connected" THEN m.p ELSE m.a)
    BY <1>9 DEF Refuses, Takes, serverPart
  <2>2. m # Detach(q)
    <3> SUFFICES ASSUME m = Detach(q) PROVE FALSE  OBVIOUS
    <3>1. conn[c].child \in Above(q)  BY <2>1 DEF Hurt, LossOnTheWay
    <3>2. OriginAllows(conn[c].child, q)  BY <3>1 DEF OriginAllows
    <3> QED  BY <2>1, <3>2, ReportFields
  <2>3. OthersMove(q) /\ LinkStays(q) /\ NothingSent(q) /\ (Leaving(q) => Leaving(q)')  BY <1>5, <2>1, <2>2
  <2> QED  BY <2>1, <2>3, SilentHurt DEF StillMissed
<1>10. ASSUME NEW m \in Reports, Discounts(c, m) PROVE Hurt(q)'
  <2>1. /\ Takes(c, m) /\ On(c, m) /\ UNCHANGED <<conn, parent>>
        /\ online' = online \ Below(m.a) /\ m.a \in Agents /\ m = Detach(m.a)
    BY <1>10, ReportKinds DEF Discounts, Takes
  <2>2. /\ OthersMove(q) /\ LinkStays(q) /\ NothingSent(q)
        /\ m # Detach(q) => (Leaving(q) => Leaving(q)')
    BY <1>5, <2>1
  <2>3. CASE m # Detach(q)  BY <2>1, <2>2, <2>3, SilentHurt DEF StillMissed
  <2>4. CASE m = Detach(q)
    <3>1. m.a = q  BY <2>4, ReportFields
    <3>2. ~(q \in online')  BY <1>3, <2>1, <3>1 DEF Below
    <3>3. PICK y \in Above(q) \ {q} : y = conn[c].child  BY <2>1, <2>4 DEF Hurt, LossOnTheWay
    <3>4. y \in Agents /\ parent[y] = None /\ \A d \in Conns : conn[d].child = y => d = c
      <4>1. Place(y) = Server /\ y \in Agents /\ \A d \in Conns : conn[d].child = y => d = c
        BY <1>1, <3>3, OnPath DEF Hurt
      <4> QED  BY <1>2, <4>1, NodesAssumption DEF Place, Trees
    <3>5. Above(y) \subseteq {y}
      <4> DEFINE S == {y}
      <4>1. S \in SUBSET Agents /\ y \in S /\ \A z \in S : parent[z] # None => parent[z] \in S  BY <3>4
      <4> HIDE DEF S
      <4>2. Above(y) \subseteq S  BY <1>2, <3>4, <4>1, UpToLeast, AboveIs
      <4> QED  BY <4>2 DEF S
    <3>6. ASSUME NEW d \in Conns, NEW p \in Agents, On(d, Attach(q, p)) PROVE FALSE
      <4>1. conn[d].child \in Above(y)  BY <2>1, <2>4, <3>3, <3>4, <3>6 DEF Hurt, LossIsLast
      <4>2. d = c  BY <3>4, <3>5, <4>1
      <4>3. InOrder(wire[c], Attach(q, p), Detach(q))  BY DEF Hurt, LossIsLast
      <4>4. ~On(c, Attach(q, p))  BY <2>1, <2>4, <4>3, OrderTakes
      <4> QED  BY <3>6, <4>2, <4>4
    <3>7. \A d \in Conns, p \in Agents : ~On(d, Attach(q, p))'
      BY <3>6, <2>1, ReportFields DEF Takes
    <3>8. Missed(q)'  BY <3>2, <3>7 DEF Missed
    <3> QED  BY <2>2, <3>8, SilentHurt
  <2> QED  BY <2>3, <2>4
<1> QED  BY <1>6, <1>7, <1>8, <1>9, <1>10 DEF ServerEffect

\* A relay's handler that does nothing with a connection of the path, or only goes
\* on with one.
LEMMA RelayOthers ==
  ASSUME BaseInv, Tidy, NEW q \in Agents, Hurt(q), NEW c \in Conns,
         UNCHANGED <<pc, upstream, announcing, parent>>, \A d \in Conns \ {c} : conn'[d] = conn[d],
         \/ \A x \in Above(q) \ {q} : conn[c].child # x
         \/ conn'[c].link = conn[c].link /\ conn'[c].to = conn[c].to /\ conn'[c].phase = conn[c].phase,
         \A d \in Conns, x \in Above(q) \ {q}, p \in Agents : On(d, Attach(x, p))' => \E e \in Conns : On(e, Attach(x, p))
  PROVE  OthersMove(q)
<1>1. parent \in Trees  BY DEF BaseInv, MeshTypeOK, Trees
<1>2. ASSUME NEW x \in Above(q) \ {q} PROVE Undisturbed(x)
  <2>1. \A p \in Agents : Pending(x, p)' => Pending(x, p)  BY DEF Pending
  <2>2. PICK u \in Conns : u = upstream[x] /\ conn[u].child = x  BY OnPath DEF Hurt
  <2>3. conn'[u].link = conn[u].link /\ conn'[u].to = conn[u].to /\ conn'[u].phase = conn[u].phase
    BY <2>2
  <2> QED  BY <2>1, <2>2, <2>3 DEF Undisturbed
<1>3. \A x \in Agents : Running(x)' \/ x = q  BY DEF Hurt, Running
<1> QED  BY <1>2, <1>3 DEF OthersMove, Hurt

LEMMA RelaySilent ==
  ASSUME BaseInv, BaseInv', Tidy, NEW q \in Agents, ~Running(q), Hurt(q), Unhinted',
         NEW p \in Agents, NEW c \in Conns, RelayEffect(p, c),
         Hellos(p, c) \/ TellsLoss(p, c) => conn[c].child # q, \A m \in Reports : ~Forwards(p, c, m)
  PROVE  Hurt(q)'
<1>1. /\ UNCHANGED <<pc, upstream, announcing, parent, online>> /\ conn[c].to = p /\ Running(p) /\ conn[c].phase # "gone"
      /\ \A d \in Conns \ {c} : conn'[d] = conn[d]
  BY DEF RelayEffect, Hellos, Inserts, Drops, TakesOut, TellsLoss, Forwards, Misses, Serves, agentPart, serverPart, Sets
<1>2. parent \in Trees /\ wire \in [Conns -> Seq(Reports)]  BY DEF BaseInv, MeshTypeOK, Trees
<1>3. Above(q) \in SUBSET Agents /\ q \in Above(q) /\ \A y \in Above(q) : parent[y] # None => parent[y] \in Above(q)
  BY <1>2, UpToClosed, AboveIs
<1>4. p # q /\ conn[c].child \in Agents  BY <1>1, ConnIs
\* The relay of an agent of the path is one.
<1>5. ASSUME NEW x \in Above(q), x = conn[c].child
      PROVE  p = parent[x] /\ p \in Above(q) \ {q}
  <2>1. p = Place(x)
    <3>1. CASE x = q  BY <1>1, <1>5, <3>1 DEF Hurt, LastLink
    <3>2. CASE x # q  BY <1>1, <1>5, <3>2, OnPath DEF Hurt
    <3> QED  BY <3>1, <3>2
  <2>2. p = parent[x]  BY <2>1, NodesAssumption DEF Place
  <2> QED  BY <1>3, <1>4, <1>5, <2>2, NodesAssumption
<1>6. ASSUME p \in Above(q) \ {q}
      PROVE  \E u \in Conns : u = upstream[p] /\ conn[u].child = p /\ conn[u].link = "up" /\ u # c
                              /\ \A d \in Conns : conn[d].child = p => d = u
  <2>1. PICK u \in Conns : u = upstream[p] /\ conn[u].child = p /\ conn[u].link = "up" /\ conn[u].to = Place(p)
                           /\ \A d \in Conns : conn[d].child = p => d = u
    BY <1>6, OnPath DEF Hurt
  <2>2. Place(p) # p
    <3>1. PathStands(q) /\ Rooted(p)  BY <1>6 DEF Hurt, PathStands
    <3>2. p \in Above(p)  BY <1>2, UpToClosed, AboveIs
    <3> QED  BY <3>1, <3>2, NodesAssumption DEF Rooted, Place
  <2> QED  BY <1>1, <2>1, <2>2
\* An agent of the path has a handler that serves it.
<1>7. ASSUME conn[c].phase # "serve" PROVE \A x \in Above(q) \ {q} : conn[c].child # x
  BY <1>7, OnPath DEF Hurt
<1>8. ASSUME NEW m \in Reports, m.a \notin Above(q), Sends(p, m),
             conn'[c].child = conn[c].child \/ (wire[c] = <<>> /\ conn[c].link = "cut")
      PROVE  NothingSent(q) /\ (Leaving(q) => Leaving(q)')
             /\ \A d \in Conns, x \in Above(q) \ {q}, r \in Agents : On(d, Attach(x, r))' => \E e \in Conns : On(e, Attach(x, r))
  <2>1. \A d \in Conns : \A n \in Reports : On(d, n)' <=> On(d, n) \/ (n = m /\ d = upstream[p] /\ conn[d].link = "up")
    BY <1>8 DEF Sends
  <2>2. ASSUME NEW d \in Conns, NEW r \in Agents, InOrder(wire[d], Attach(q, r), Detach(q))
        PROVE  InOrder(wire'[d], Attach(q, r), Detach(q))
    <3>1. m # Attach(q, r) /\ Attach(q, r) # Detach(q)  BY <1>3, <1>8, ReportFields
    <3> QED  BY <1>8, <2>2, <3>1, OrderSends
  <2>3. ASSUME NEW d \in Conns, NEW n \in Reports, n.a = q, On(d, n)' PROVE On(d, n) /\ conn'[d].child = conn[d].child
    <3>1. On(d, n)  BY <1>3, <1>8, <2>1, <2>3
    <3>2. wire[d] # <<>>  BY <3>1 DEF On
    <3> QED  BY <1>1, <1>8, <3>1, <3>2
  <2>4. NothingSent(q)  BY <2>2, <2>3 DEF NothingSent
  <2>5. Leaving(q) => Leaving(q)'  BY <2>1, ReportFields DEF Leaving
  <2>6. ASSUME NEW d \in Conns, NEW x \in Above(q), NEW r \in Agents, On(d, Attach(x, r))' PROVE On(d, Attach(x, r))
    <3>1. Attach(x, r) \in Reports /\ Attach(x, r) # m  BY <1>3, <1>8, ReportFields
    <3> QED  BY <2>1, <2>6, <3>1
  <2> QED  BY <2>4, <2>5, <2>6
\* The same, when reports are only taken off c.
<1>9. ASSUME \A d \in Conns : \A n \in Reports : On(d, n)' => On(d, n), conn'[c].child = conn[c].child,
             \A d \in Conns, r \in Agents : InOrder(wire[d], Attach(q, r), Detach(q)) => InOrder(wire'[d], Attach(q, r), Detach(q))
      PROVE  NothingSent(q)
             /\ \A d \in Conns, x \in Above(q) \ {q}, r \in Agents : On(d, Attach(x, r))' => \E e \in Conns : On(e, Attach(x, r))
  <2>1. NothingSent(q)  BY <1>1, <1>9 DEF NothingSent
  <2>2. \A d \in Conns, x \in Above(q) \ {q}, r \in Agents : On(d, Attach(x, r))' => On(d, Attach(x, r))
    BY <1>3, <1>9, ReportFields
  <2> QED  BY <2>1, <2>2
<1>10. CASE Hellos(p, c) /\ conn[c].child # q
  <2>1. /\ conn[c].phase = "hello" /\ Sets(c, conn[c].child, p, conn[c].link, "insert")
        /\ Sends(p, Attach(conn[c].child, p))
    BY <1>10 DEF Hellos, Serves
  <2>2. conn[c].child \notin Above(q)  BY <1>7, <1>10, <2>1
  <2>3. Attach(conn[c].child, p) \in Reports /\ Attach(conn[c].child, p).a = conn[c].child  BY <1>4, ReportFields
  <2>4. conn'[c].child = conn[c].child  BY <2>1 DEF Sets
  <2>5. NothingSent(q) /\ (Leaving(q) => Leaving(q)')
        /\ \A d \in Conns, x \in Above(q) \ {q}, r \in Agents : On(d, Attach(x, r))' => \E e \in Conns : On(e, Attach(x, r))
    BY <1>8, <2>1, <2>2, <2>3, <2>4
  <2>6. OthersMove(q)  BY <1>1, <2>2, <2>5, RelayOthers
  <2>7. LinkStays(q)  BY <1>1, <2>1 DEF LinkStays, Sets
  <2>8. StillMissed(q)  BY <1>1, <2>4, <2>5 DEF StillMissed
  <2> QED  BY <2>5, <2>6, <2>7, <2>8, SilentHurt
<1>11. CASE Inserts(p, c) \/ TakesOut(p, c)
  <2>1. /\ conn[c].phase # "serve" /\ wire' = wire
        /\ conn'[c].child = conn[c].child /\ conn'[c].to = conn[c].to /\ conn'[c].link = conn[c].link
    BY <1>1, <1>11 DEF Inserts, TakesOut, Serves, Sets
  <2>2. NothingSent(q)
        /\ \A d \in Conns, x \in Above(q) \ {q}, r \in Agents : On(d, Attach(x, r))' => \E e \in Conns : On(e, Attach(x, r))
    BY <1>9, <2>1 DEF On
  <2>3. OthersMove(q)  BY <1>1, <1>7, <2>1, <2>2, RelayOthers
  <2>4. LinkStays(q)  BY <1>1, <2>1 DEF LinkStays
  <2>5. StillMissed(q)  BY <1>1, <2>1 DEF StillMissed, Leaving, On
  <2> QED  BY <2>2, <2>3, <2>4, <2>5, SilentHurt
<1>12. CASE Drops(p, c)
  <2>1. /\ conn[c].link = "cut" \/ upstream[p] = None \/ conn[upstream[p]].link = "cut"
        /\ Sets(c, conn[c].child, p, "cut", "remove") /\ Clears(c)
        /\ \A d \in Conns : \A n \in Reports : On(d, n)' <=> On(d, n) /\ d # c
        /\ \A d \in Conns : wire'[d] = IF d = c THEN <<>> ELSE wire[d]
    BY <1>2, <1>12 DEF Drops, Clears
  <2>2. ASSUME NEW x \in Above(q) \ {q}, conn[c].child = x PROVE FALSE
    <3>1. conn[c].link = "up"  BY <2>2, OnPath DEF Hurt
    <3>2. upstream[p] # None /\ conn[upstream[p]].link = "up"  BY <1>5, <1>6, <2>2, NodesAssumption
    <3> QED  BY <2>1, <3>1, <3>2
  <2>3. conn'[c].child = conn[c].child  BY <2>1 DEF Sets
  <2>4. \A d \in Conns, r \in Agents : InOrder(wire[d], Attach(q, r), Detach(q)) => InOrder(wire'[d], Attach(q, r), Detach(q))
    BY <2>1, OrderEmpty
  <2>5. NothingSent(q)
        /\ \A d \in Conns, x \in Above(q) \ {q}, r \in Agents : On(d, Attach(x, r))' => \E e \in Conns : On(e, Attach(x, r))
    BY <1>9, <2>1, <2>3, <2>4
  <2>6. OthersMove(q)  BY <1>1, <2>2, <2>5, RelayOthers
  <2>7. LinkStays(q)
    <3>1. conn[c].child = q => conn[c].link = "cut"  BY DEF Hurt, LastLink
    <3> QED  BY <1>1, <2>1, <3>1 DEF LinkStays, Sets
  <2>8. Leaving(q) => Leaving(q)'
    <3>1. ~On(c, Detach(q))  BY <2>2 DEF Hurt, LossOnTheWay
    <3> QED  BY <2>1, <3>1, ReportFields DEF Leaving
  <2>9. StillMissed(q)  BY <1>1, <2>3, <2>8 DEF StillMissed
  <2> QED  BY <2>5, <2>6, <2>7, <2>9, SilentHurt
<1>13. CASE TellsLoss(p, c) /\ conn[c].child # q
  <2>1. /\ conn[c].phase = "report" /\ Sets(c, None, None, "cut", "gone")
        /\ Sends(p, Detach(conn[c].child))
    BY <1>13 DEF TellsLoss, Serves
  <2>2. conn[c].child \notin Above(q)  BY <1>7, <1>13, <2>1
  <2>3. Detach(conn[c].child) \in Reports /\ Detach(conn[c].child).a = conn[c].child  BY <1>4, ReportFields
  <2>4. wire[c] = <<>> /\ conn[c].link = "cut"  BY <2>1 DEF BaseInv, ConnOK
  <2>5. NothingSent(q) /\ (Leaving(q) => Leaving(q)')
        /\ \A d \in Conns, x \in Above(q) \ {q}, r \in Agents : On(d, Attach(x, r))' => \E e \in Conns : On(e, Attach(x, r))
    BY <1>8, <2>1, <2>2, <2>3, <2>4
  <2>6. OthersMove(q)  BY <1>1, <2>2, <2>5, RelayOthers
  <2>7. LinkStays(q)  BY <1>1, <2>1, NodesAssumption DEF LinkStays, Sets
  <2>8. StillMissed(q)  BY <1>1, <1>13, <2>5 DEF StillMissed
  <2> QED  BY <2>5, <2>6, <2>7, <2>8, SilentHurt
<1>14. ASSUME NEW m \in Reports, Misses(p, c, m) PROVE Hurt(q)'
  <2>1. /\ conn[upstream[p]].link = "cut" /\ Takes(c, m) /\ On(c, m) /\ conn' = conn
        /\ \A d \in Conns : \A n \in Reports : /\ On(d, n)' => On(d, n)
                                               /\ On(d, n) => On(d, n)' \/ (d = c /\ n = m)
    BY <1>14 DEF Misses, Takes
  <2>2. ASSUME NEW d \in Conns, NEW r \in Agents, InOrder(wire[d], Attach(q, r), Detach(q))
        PROVE  InOrder(wire'[d], Attach(q, r), Detach(q))
    BY <2>1, <2>2, OrderTakes
  <2>3. m # Detach(q)
    <3> SUFFICES ASSUME m = Detach(q) PROVE FALSE  OBVIOUS
    <3>1. PICK x \in Above(q) \ {q} : x = conn[c].child  BY <2>1 DEF Hurt, LossOnTheWay
    <3>2. conn[upstream[p]].link = "up"  BY <1>5, <1>6, <3>1
    <3> QED  BY <2>1, <3>2
  <2>4. \A d \in Conns : \A n \in Reports : On(d, n)' => On(d, n)  BY <2>1
  <2>5. NothingSent(q)
        /\ \A d \in Conns, x \in Above(q) \ {q}, r \in Agents : On(d, Attach(x, r))' => \E e \in Conns : On(e, Attach(x, r))
    BY <1>9, <2>1, <2>2, <2>4
  <2>6. OthersMove(q)  BY <1>1, <2>1, <2>5, RelayOthers
  <2>7. LinkStays(q)  BY <2>1 DEF LinkStays
  <2>8. Leaving(q) => Leaving(q)'  BY <2>1, <2>3, ReportFields DEF Leaving
  <2>9. StillMissed(q)  BY <1>1, <2>1, <2>8 DEF StillMissed
  <2> QED  BY <2>5, <2>6, <2>7, <2>9, SilentHurt
<1> QED  BY <1>10, <1>11, <1>12, <1>13, <1>14 DEF RelayEffect
\* A step that goes on with what is reported of q.
LEMMA SpokenHurt ==
  ASSUME BaseInv, BaseInv', Tidy, NEW q \in Agents, Hurt(q), Unhinted', OthersMove(q), LinkStays(q), Missed(q)',
         (\E c \in Conns : conn'[c].child = q) => ~Leaving(q)',
         \A d \in Conns, r \in Agents : On(d, Attach(q, r))' => r = parent[q] /\ conn'[d].child \in Above(r),
         \A d \in Conns : On(d, Detach(q))' => conn'[d].child \in Above(q) \ {q},
         \A d, e \in Conns, r, y \in Agents :
            On(d, Detach(q))' /\ On(e, Attach(q, r))' /\ y = conn'[d].child => conn'[e].child \in Above(y),
         \A d \in Conns, r \in Agents : InOrder(wire'[d], Attach(q, r), Detach(q))
  PROVE  Hurt(q)'
<1>1. /\ PathStands(q)' /\ Place(q)' = Place(q) /\ parent'[q] = parent[q]
      /\ \A r \in Above(q) : Above(r)' = Above(r)
  BY PathKept DEF Hurt, OthersMove
<1>2. parent \in Trees  BY DEF BaseInv, MeshTypeOK, Trees
<1>3. Above(q) \in SUBSET Agents /\ q \in Above(q) /\ \A y \in Above(q) : parent[y] # None => parent[y] \in Above(q)
  BY <1>2, UpToClosed, AboveIs
<1>4. LastLink(q)'
  <2> SUFFICES ASSUME NEW c \in Conns, conn'[c].child = q
               PROVE  /\ conn'[c].link = "cut" /\ conn'[c].to = Place(q) /\ ~Leaving(q)'
                      /\ \A e \in Conns : conn'[e].child = q => e = c
    BY <1>1 DEF LastLink
  <2>1. conn[c].child = q /\ conn'[c].link = conn[c].link /\ conn'[c].to = conn[c].to  BY DEF LinkStays
  <2>2. conn[c].link = "cut" /\ conn[c].to = Place(q) /\ \A e \in Conns : conn[e].child = q => e = c
    BY <2>1 DEF Hurt, LastLink
  <2> QED  BY <2>1, <2>2 DEF LinkStays
<1>5. OnTheWay(q)'
  <2> SUFFICES ASSUME NEW d \in Conns, NEW r \in Agents, On(d, Attach(q, r))'
               PROVE  r = parent[q] /\ conn'[d].child \in Above(r)'
    BY <1>1 DEF OnTheWay
  <2>1. r = parent[q] /\ conn'[d].child \in Above(r)  OBVIOUS
  <2> QED  BY <1>1, <1>3, <2>1, NodesAssumption
<1>6. LossOnTheWay(q)'  BY <1>1, <1>3 DEF LossOnTheWay
<1>7. LossIsLast(q)'
  <2>1. ASSUME NEW d \in Conns, NEW e \in Conns, NEW r \in Agents, NEW y \in Agents,
               On(d, Detach(q))', On(e, Attach(q, r))', y = conn'[d].child
        PROVE  conn'[e].child \in Above(y)'
    <3>1. conn'[e].child \in Above(y) /\ y \in Above(q)  BY <2>1
    <3> QED  BY <1>1, <3>1
  <2> QED  BY <2>1 DEF LossIsLast
<1> QED  BY <1>1, <1>4, <1>5, <1>6, <1>7 DEF Hurt, OthersMove

\* The relay of an agent of the path, or of q, is on the path, and linked.
LEMMA PathRelay ==
  ASSUME BaseInv, Tidy, NEW q \in Agents, ~Running(q), Hurt(q), NEW c \in Conns, NEW x \in Above(q),
         x = conn[c].child, NEW p \in Agents, conn[c].to = p, Running(p)
  PROVE  /\ p = parent[x] /\ p \in Above(q) \ {q}
         /\ \E u \in Conns : u = upstream[p] /\ conn[u].child = p /\ conn[u].link = "up" /\ u # c
                             /\ \A d \in Conns : conn[d].child = p => d = u
<1>1. parent \in Trees  BY DEF BaseInv, MeshTypeOK, Trees
<1>2. Above(q) \in SUBSET Agents /\ \A y \in Above(q) : parent[y] # None => parent[y] \in Above(q)
  BY <1>1, UpToClosed, AboveIs
<1>3. p = Place(x)
  <2>1. CASE x = q  BY <2>1 DEF Hurt, LastLink
  <2>2. CASE x # q  BY <2>2, OnPath DEF Hurt
  <2> QED  BY <2>1, <2>2
<1>4. p = parent[x] /\ p \in Above(q) \ {q}  BY <1>2, <1>3, NodesAssumption DEF Place
<1>5. PICK u \in Conns : u = upstream[p] /\ conn[u].child = p /\ conn[u].link = "up" /\ conn[u].to = Place(p)
                         /\ \A d \in Conns : conn[d].child = p => d = u
  BY <1>4, OnPath DEF Hurt
<1>6. Place(p) # p
  <2>1. PathStands(q) /\ Rooted(p)  BY <1>4 DEF Hurt, PathStands
  <2>2. p \in Above(p)  BY <1>1, UpToClosed, AboveIs
  <2> QED  BY <2>1, <2>2, NodesAssumption DEF Rooted, Place
<1> QED  BY <1>4, <1>5, <1>6

\* Its handler reports q as it arrived.
LEMMA HelloHurt ==
  ASSUME BaseInv, BaseInv', Tidy, NEW q \in Agents, ~Running(q), Hurt(q), Unhinted',
         NEW p \in Agents, NEW c \in Conns, Hellos(p, c), conn[c].child = q
  PROVE  Hurt(q)'
<1>1. /\ UNCHANGED <<pc, upstream, announcing, parent, online>> /\ conn[c].to = p /\ Running(p) /\ conn[c].phase = "hello"
      /\ Sets(c, q, p, conn[c].link, "insert") /\ Sends(p, Attach(q, p))
      /\ \A d \in Conns : \A n \in Reports :
           On(d, n)' <=> On(d, n) \/ (n = Attach(q, p) /\ d = upstream[p] /\ conn[d].link = "up")
  BY DEF Hellos, Serves, agentPart, serverPart, Sends
<1>2. parent \in Trees  BY DEF BaseInv, MeshTypeOK, Trees
<1>3. Above(q) \in SUBSET Agents /\ q \in Above(q) /\ p \in Above(p)  BY <1>2, UpToClosed, AboveIs
<1>4. p = parent[q] /\ p \in Above(q) \ {q}  BY <1>1, <1>3, PathRelay
<1>5. PICK u \in Conns : u = upstream[p] /\ conn[u].child = p /\ conn[u].link = "up" /\ u # c  BY <1>1, <1>3, PathRelay
<1>6. \A d \in Conns : conn'[d].child = conn[d].child /\ conn'[d].to = conn[d].to /\ conn'[d].link = conn[d].link
                       /\ (d # c => conn'[d] = conn[d])
  BY <1>1 DEF Sets
<1>7. \A d \in Conns : ~On(d, Detach(q))  BY DEF Hurt, LastLink, Leaving
<1>8. \A d \in Conns : ~On(d, Detach(q))'  BY <1>1, <1>7, ReportFields
<1>9. OthersMove(q)
  <2>1. \A x \in Above(q) \ {q} : conn[c].child # x  OBVIOUS
  <2>2. \A d \in Conns, x \in Above(q) \ {q}, r \in Agents : On(d, Attach(x, r))' => \E e \in Conns : On(e, Attach(x, r))
    <3> SUFFICES ASSUME NEW d \in Conns, NEW x \in Above(q) \ {q}, NEW r \in Agents, On(d, Attach(x, r))' PROVE On(d, Attach(x, r))
      OBVIOUS
    <3>1. Attach(x, r) \in Reports /\ Attach(x, r) # Attach(q, p)  BY <1>3, ReportFields
    <3> QED  BY <1>1, <3>1
  <2> QED  BY <1>1, <1>6, <2>1, <2>2, RelayOthers
<1>10. LinkStays(q)  BY <1>6 DEF LinkStays
<1>11. Missed(q)'  BY <1>6 DEF Missed
<1>12. ASSUME NEW d \in Conns, NEW r \in Agents, On(d, Attach(q, r))' PROVE r = parent[q] /\ conn'[d].child \in Above(r)
  <2>1. CASE On(d, Attach(q, r))  BY <1>6, <2>1 DEF Hurt, OnTheWay
  <2>2. CASE ~On(d, Attach(q, r))
    <3>1. Attach(q, r) = Attach(q, p) /\ d = u  BY <1>1, <1>5, <1>12, <2>2, ReportFields
    <3>2. r = p  BY <3>1, ReportFields
    <3> QED  BY <1>3, <1>4, <1>5, <1>6, <3>1, <3>2
  <2> QED  BY <2>1, <2>2
<1>13. ASSUME NEW d \in Conns, NEW r \in Agents PROVE InOrder(wire'[d], Attach(q, r), Detach(q))
  <2>1. InOrder(wire[d], Attach(q, r), Detach(q))  BY DEF Hurt, LossIsLast
  <2>2. Attach(q, r) # Detach(q) /\ Attach(q, p) \in Reports  BY ReportFields
  <2> QED  BY <1>1, <1>7, <2>1, <2>2, OrderSends
<1>14. ~Leaving(q)'  BY <1>8 DEF Leaving
<1> QED  BY <1>8, <1>9, <1>10, <1>11, <1>12, <1>13, <1>14, SpokenHurt

\* And reports that it is gone.
LEMMA LossHurt ==
  ASSUME BaseInv, BaseInv', Tidy, NEW q \in Agents, ~Running(q), Hurt(q), Unhinted',
         NEW p \in Agents, NEW c \in Conns, TellsLoss(p, c), conn[c].child = q
  PROVE  Hurt(q)'
<1>1. /\ UNCHANGED <<pc, upstream, announcing, parent, online>> /\ conn[c].to = p /\ Running(p) /\ conn[c].phase = "report"
      /\ Sets(c, None, None, "cut", "gone") /\ Sends(p, Detach(q))
      /\ \A d \in Conns : \A n \in Reports :
           On(d, n)' <=> On(d, n) \/ (n = Detach(q) /\ d = upstream[p] /\ conn[d].link = "up")
  BY DEF TellsLoss, Serves, agentPart, serverPart, Sends
<1>2. parent \in Trees  BY DEF BaseInv, MeshTypeOK, Trees
<1>3. Above(q) \in SUBSET Agents /\ q \in Above(q)  BY <1>2, UpToClosed, AboveIs
<1>4. p = parent[q] /\ p \in Above(q) \ {q}  BY <1>1, <1>3, PathRelay
<1>5. PICK u \in Conns : u = upstream[p] /\ conn[u].child = p /\ conn[u].link = "up" /\ u # c  BY <1>1, <1>3, PathRelay
<1>6. \A d \in Conns : d # c => conn'[d] = conn[d]  BY <1>1 DEF Sets
<1>7. wire[c] = <<>> /\ \A e \in Conns : conn[e].child = q => e = c
  BY <1>1 DEF Hurt, LastLink, BaseInv, ConnOK
<1>8. \A d \in Conns, r \in Agents : On(d, Attach(q, r))' => On(d, Attach(q, r)) /\ d # c
  <2> SUFFICES ASSUME NEW d \in Conns, NEW r \in Agents, On(d, Attach(q, r))' PROVE On(d, Attach(q, r)) /\ d # c
    OBVIOUS
  <2>1. Attach(q, r) \in Reports /\ Attach(q, r) # Detach(q)  BY ReportFields
  <2>2. On(d, Attach(q, r))  BY <1>1, <2>1
  <2> QED  BY <1>7, <2>2 DEF On
<1>9. ~\E d \in Conns : On(d, Detach(q))  BY DEF Hurt, LastLink, Leaving
<1>10. \A d \in Conns : On(d, Detach(q))' <=> d = u  BY <1>1, <1>5, <1>9, ReportFields
<1>11. OthersMove(q)
  <2>1. \A x \in Above(q) \ {q} : conn[c].child # x  OBVIOUS
  <2>2. \A d \in Conns, x \in Above(q) \ {q}, r \in Agents : On(d, Attach(x, r))' => \E e \in Conns : On(e, Attach(x, r))
    <3> SUFFICES ASSUME NEW d \in Conns, NEW x \in Above(q) \ {q}, NEW r \in Agents, On(d, Attach(x, r))' PROVE On(d, Attach(x, r))
      OBVIOUS
    <3>1. Attach(x, r) \in Reports /\ Attach(x, r) # Detach(q)  BY <1>3, ReportFields
    <3> QED  BY <1>1, <3>1
  <2> QED  BY <1>1, <1>6, <2>1, <2>2, RelayOthers
<1>12. ~\E d \in Conns : conn'[d].child = q  BY <1>1, <1>6, <1>7, NodesAssumption DEF Sets
<1>13. LinkStays(q)  BY <1>12 DEF LinkStays
<1>14. Missed(q)'  BY <1>10 DEF Missed, Leaving
<1>15. \A d \in Conns, r \in Agents : On(d, Attach(q, r))' => r = parent[q] /\ conn'[d].child \in Above(r)
  BY <1>6, <1>8 DEF Hurt, OnTheWay
<1>16. \A d \in Conns : On(d, Detach(q))' => conn'[d].child \in Above(q) \ {q}
  BY <1>4, <1>5, <1>6, <1>10
<1>17. \A d, e \in Conns, r, y \in Agents :
         On(d, Detach(q))' /\ On(e, Attach(q, r))' /\ y = conn'[d].child => conn'[e].child \in Above(y)
  BY <1>4, <1>5, <1>6, <1>10, <1>15
<1>18. ASSUME NEW d \in Conns, NEW r \in Agents PROVE InOrder(wire'[d], Attach(q, r), Detach(q))
  <2>1. InOrder(wire[d], Attach(q, r), Detach(q))  BY DEF Hurt, LossIsLast
  <2>2. Attach(q, r) # Detach(q) /\ Detach(q) \in Reports  BY ReportFields
  <2> QED  BY <1>1, <2>1, <2>2, OrderSends
<1> QED  BY <1>11, <1>12, <1>13, <1>14, <1>15, <1>16, <1>17, <1>18, SpokenHurt

\* A report is passed on.
LEMMA ForwardHurt ==
  ASSUME BaseInv, BaseInv', Tidy, NEW q \in Agents, ~Running(q), Hurt(q), Unhinted',
         NEW p \in Agents, NEW c \in Conns, NEW m \in Reports, Forwards(p, c, m)
  PROVE  Hurt(q)'
<1>1. /\ UNCHANGED <<pc, upstream, announcing, parent, online, conn>> /\ conn[c].to = p /\ Running(p) /\ On(c, m)
  BY DEF Forwards, Serves, agentPart, serverPart, Passes
<1>u. PICK u \in Conns : u = upstream[p] /\ conn[u].link = "up" /\ Passes(c, u, m)  BY DEF Forwards
<1>2. \A d \in Conns : \A n \in Reports :
        /\ On(d, n)' => On(d, n) \/ (d = u /\ n = m)
        /\ On(d, n) => On(d, n)' \/ (d = c /\ n = m)
        /\ d = u /\ n = m => On(d, n)'
  BY <1>u DEF Passes
<1>3. parent \in Trees  BY DEF BaseInv, MeshTypeOK, Trees
<1>4. Above(q) \in SUBSET Agents /\ q \in Above(q)  BY <1>3, UpToClosed, AboveIs
<1>5. \A n \in Reports : (\E d \in Conns : On(d, n)') => \E d \in Conns : On(d, n)  BY <1>1, <1>2
<1>6. \A n \in Reports : (\E d \in Conns : On(d, n)) => \E d \in Conns : On(d, n)'  BY <1>2
<1>7. OthersMove(q)
  <2>1. \A d \in Conns, x \in Above(q) \ {q}, r \in Agents : On(d, Attach(x, r))' => \E e \in Conns : On(e, Attach(x, r))
    <3> SUFFICES ASSUME NEW d \in Conns, NEW x \in Above(q) \ {q}, NEW r \in Agents, On(d, Attach(x, r))'
                 PROVE  \E e \in Conns : On(e, Attach(x, r))
      OBVIOUS
    <3>1. Attach(x, r) \in Reports  BY <1>4, ReportFields
    <3> QED  BY <1>5, <3>1
  <2> QED  BY <1>1, <2>1, RelayOthers
<1>8. LinkStays(q)  BY <1>1 DEF LinkStays
<1>9. (Leaving(q) <=> Leaving(q)') /\ (\A r \in Agents : (\E d \in Conns : On(d, Attach(q, r))') => \E d \in Conns : On(d, Attach(q, r)))
  BY <1>5, <1>6, ReportFields DEF Leaving
<1>10. Missed(q)'
  <2> SUFFICES ASSUME q \in online \/ (\E d \in Conns, r \in Agents : On(d, Attach(q, r))')
               PROVE  (\E e \in Conns : conn[e].child = q) \/ Leaving(q)
    BY <1>1, <1>9 DEF Missed
  <2> QED  BY <1>9 DEF Hurt, Missed
<1>11. (\E e \in Conns : conn'[e].child = q) => ~Leaving(q)'  BY <1>1, <1>9 DEF Hurt, LastLink
\* The hop of a report about q, from y to p.
<1>12. ASSUME m.a = q
       PROVE  \E y \in Above(q) : /\ y = conn[c].child /\ p = parent[y] /\ p \in Above(q) \ {q} /\ conn[u].child = p
                                  /\ \A d \in Conns : conn[d].child = p => d = u
  <2>1. conn[c].child \in Above(q)
    <3>1. CASE m = Detach(q)  BY <1>1, <3>1 DEF Hurt, LossOnTheWay
    <3>2. ASSUME NEW r \in Agents, m = Attach(q, r) PROVE conn[c].child \in Above(q)
      <4>1. r = parent[q] /\ conn[c].child \in Above(r)  BY <1>1, <3>2 DEF Hurt, OnTheWay
      <4>2. r \in Above(q)  BY <1>3, <1>4, <4>1, UpToClosed, AboveIs, NodesAssumption
      <4> QED  BY <1>3, <4>1, <4>2, UpToMore, AboveIs
    <3> QED  BY <1>12, <3>1, <3>2, ReportKinds
  <2> QED  BY <1>1, <1>u, <2>1, PathRelay
<1>13. ASSUME NEW d \in Conns, NEW r \in Agents, On(d, Attach(q, r))', ~On(d, Attach(q, r))
       PROVE  m = Attach(q, r) /\ d = u /\ m.a = q
  BY <1>2, <1>13, ReportFields
<1>14. ASSUME NEW d \in Conns, On(d, Detach(q))', ~On(d, Detach(q))
       PROVE  m = Detach(q) /\ d = u /\ m.a = q
  BY <1>2, <1>14, ReportFields
<1>15. \A y, z \in Agents : y \in Above(z) /\ parent[y] # None => parent[y] \in Above(z)
  BY <1>3, UpToClosed, AboveIs
<1>16. ASSUME NEW d \in Conns, NEW r \in Agents, On(d, Attach(q, r))'
       PROVE  r = parent[q] /\ conn[d].child \in Above(r)
  <2>1. CASE On(d, Attach(q, r))  BY <2>1 DEF Hurt, OnTheWay
  <2>2. CASE ~On(d, Attach(q, r))
    <3>1. m = Attach(q, r) /\ d = u /\ m.a = q  BY <1>13, <1>16, <2>2
    <3>2. PICK y \in Above(q) : y = conn[c].child /\ p = parent[y] /\ conn[u].child = p  BY <1>12, <3>1
    <3>3. r = parent[q] /\ y \in Above(r)  BY <1>1, <3>1, <3>2 DEF Hurt, OnTheWay
    <3> QED  BY <1>4, <1>15, <3>1, <3>2, <3>3, NodesAssumption
  <2> QED  BY <2>1, <2>2
<1>17. ASSUME NEW d \in Conns, On(d, Detach(q))' PROVE conn[d].child \in Above(q) \ {q}
  <2>1. CASE On(d, Detach(q))  BY <2>1 DEF Hurt, LossOnTheWay
  <2>2. CASE ~On(d, Detach(q))  BY <1>12, <1>14, <1>17, <2>2
  <2> QED  BY <2>1, <2>2
\* A report that q is there was not behind one of its loss on c.
<1>18. ASSUME m = Detach(q), NEW d \in Conns, NEW r \in Agents, On(d, Attach(q, r)) PROVE conn[d].child \in Above(p)
  <2>1. m.a = q  BY <1>18, ReportFields
  <2>2. PICK y \in Above(q) : y = conn[c].child /\ p = parent[y]  BY <1>12, <2>1
  <2>3. conn[d].child \in Above(y) /\ y \in Agents  BY <1>1, <1>4, <1>18, <2>2 DEF Hurt, LossIsLast
  <2>4. conn[d].child # y
    <3> SUFFICES ASSUME conn[d].child = y PROVE FALSE  OBVIOUS
    <3>1. y \in Above(q) \ {q}  BY <1>1, <1>18, <2>2 DEF Hurt, LossOnTheWay
    <3>2. d = c  BY <2>2, <3>1, OnPath DEF Hurt
    <3>3. InOrder(wire[c], Attach(q, r), Detach(q)) /\ Attach(q, r) # Detach(q)
      BY ReportFields DEF Hurt, LossIsLast
    <3>4. ~On(c, Attach(q, r))
      <4>1. m = Attach(q, r) /\ c = u => ~On(c, Detach(q))  BY <1>18, <3>3
      <4> QED  BY <1>u, <1>18, <3>3, <4>1, OrderPasses
    <3> QED  BY <1>18, <3>2, <3>4
  <2> QED  BY <1>3, <2>2, <2>3, <2>4, UpToRest, AboveIs
\* No report that q is there gets behind one of its loss.
<1>19. ASSUME NEW r \in Agents, m = Attach(q, r), NEW d \in Conns, On(d, Detach(q)), NEW z \in Agents, z = conn[d].child
       PROVE  p \in Above(z) /\ d # u
  <2>1. m.a = q  BY <1>19, ReportFields
  <2>2. PICK y \in Above(q) : y = conn[c].child /\ p = parent[y] /\ conn[u].child = p  BY <1>12, <2>1
  <2>3. y \in Above(z)  BY <1>1, <1>19, <2>2 DEF Hurt, LossIsLast
  <2>4. p \in Above(z)  BY <1>4, <1>15, <2>2, <2>3, NodesAssumption
  <2>5. z # p  BY <1>4, <2>2, <2>3 DEF Hurt, PathStands, Rooted
  <2> QED  BY <1>19, <2>2, <2>4, <2>5
<1>20. ASSUME NEW d \in Conns, NEW e \in Conns, NEW r \in Agents, NEW y \in Agents,
              On(d, Detach(q))', On(e, Attach(q, r))', y = conn[d].child
       PROVE  conn[e].child \in Above(y)
  <2>1. CASE On(d, Detach(q)) /\ On(e, Attach(q, r))  BY <1>20, <2>1 DEF Hurt, LossIsLast
  <2>2. CASE ~On(d, Detach(q))
    <3>1. m = Detach(q) /\ d = u /\ m.a = q  BY <1>14, <1>20, <2>2
    <3>2. On(e, Attach(q, r))  BY <1>13, <1>20, <3>1, ReportFields
    <3>3. conn[u].child = p  BY <1>12, <3>1
    <3> QED  BY <1>18, <1>20, <3>1, <3>2, <3>3
  <2>3. CASE On(d, Detach(q)) /\ ~On(e, Attach(q, r))
    <3>1. m = Attach(q, r) /\ e = u /\ m.a = q  BY <1>13, <1>20, <2>3
    <3>2. conn[u].child = p  BY <1>12, <3>1
    <3> QED  BY <1>19, <1>20, <2>3, <3>1, <3>2
  <2> QED  BY <2>1, <2>2, <2>3
<1>21. ASSUME NEW d \in Conns, NEW r \in Agents PROVE InOrder(wire'[d], Attach(q, r), Detach(q))
  <2>1. InOrder(wire[d], Attach(q, r), Detach(q)) /\ Attach(q, r) # Detach(q)
    BY ReportFields DEF Hurt, LossIsLast
  <2>2. m = Attach(q, r) /\ d = u => ~On(d, Detach(q))
    <3> SUFFICES ASSUME m = Attach(q, r), d = u, On(u, Detach(q)) PROVE FALSE  OBVIOUS
    <3>1. m.a = q  BY ReportFields
    <3>2. conn[u].child = p  BY <1>12, <3>1
    <3> QED  BY <1>19, <3>2
  <2> QED  BY <1>u, <2>1, <2>2, OrderPasses
<1> QED  BY <1>1, <1>7, <1>8, <1>10, <1>11, <1>16, <1>17, <1>20, <1>21, SpokenHurt

LEMMA RelayHurt ==
  ASSUME BaseInv, BaseInv', Tidy, NEW q \in Agents, ~Running(q), Hurt(q), Unhinted',
         NEW p \in Agents, NEW c \in Conns, RelayEffect(p, c)
  PROVE  Hurt(q)'
<1>1. CASE Hellos(p, c) /\ conn[c].child = q  BY <1>1, HelloHurt
<1>2. CASE TellsLoss(p, c) /\ conn[c].child = q  BY <1>2, LossHurt
<1>3. CASE \E m \in Reports : Forwards(p, c, m)  BY <1>3, ForwardHurt
<1>4. CASE /\ Hellos(p, c) \/ TellsLoss(p, c) => conn[c].child # q
           /\ \A m \in Reports : ~Forwards(p, c, m)
  BY <1>4, RelaySilent
<1> QED  BY <1>1, <1>2, <1>3, <1>4

-----------------------------------------------------------------------------
(***************************************************************************)
(* From the start to the second fault.                                     *)
(***************************************************************************)
LEMMA StartUnhinted ==
  ASSUME NEW s \in Scenarios, Start(s)
  PROVE  Unhinted
<1> DEFINE f == CHOOSE g \in [Agents -> Conns] : \A a, b \in Agents : a # b => g[a] # g[b]
           At(x) == CHOOSE a \in Agents : f[a] = x
           Phase0(a) == IF a \in s.arriving THEN "hello" ELSE "serve"
<1>1. conn = [x \in Conns |-> IF \E a \in Agents : f[a] = x
                              THEN Connection(At(x), s.tree[At(x)], "up", Phase0(At(x)), "no")
                              ELSE Closed]
  BY DEF Start
<1> HIDE DEF f, At
<1>2. ASSUME NEW c \in Conns PROVE conn[c].reassigned # "yes"
  <2>1. conn[c] = Closed \/ conn[c] = Connection(At(c), s.tree[At(c)], "up", Phase0(At(c)), "no")  BY <1>1
  <2> QED  BY <2>1, Fields DEF Closed
<1> QED  BY <1>2 DEF Unhinted

\* The mesh starts as a tree.
LEMMA StartCalm ==
  ASSUME NEW s \in Scenarios, NEW f, StartsAs(s, f), Unhinted
  PROVE  Calm
<1>1. /\ s.tree \in [Agents -> Agents \cup {Server}] /\ s.arriving \subseteq Agents
      /\ \A S \in SUBSET Agents : S # {} => \E a \in S : s.tree[a] \notin S
      /\ \A a \in s.arriving, b \in Agents : s.tree[b] # a
  BY ScenariosAssumption
<1>2. /\ f \in [Agents -> Conns] /\ upstream = f
      /\ \A a \in Agents : parent[a] = IF s.tree[a] = Server THEN None ELSE s.tree[a]
      /\ \A a \in Agents : pc[a] = IF a \in s.arriving THEN "announce" ELSE "main"
      /\ \A a \in Agents : /\ conn[f[a]].to = s.tree[a] /\ conn[f[a]].link = "up"
                           /\ conn[f[a]].phase = IF a \in s.arriving THEN "hello" ELSE "serve"
                           /\ announcing[a] = {}
      /\ \A d \in Conns : wire[d] = <<>>
  BY DEF StartsAs
<1>3. parent \in Trees  BY <1>1 DEF StartsAs, Trees
<1>4. \A d \in Conns : \A m : ~On(d, m)  BY <1>2 DEF On
<1>5. ASSUME NEW x \in Agents, NEW p \in Agents, p = parent[x], x \in Above(p) PROVE FALSE
  <2> DEFINE S == {y \in Agents : x \in UpTo(parent, y)}
  <2>1. p \in S  BY <1>5, AboveIs
  <2>2. ASSUME NEW y \in S PROVE s.tree[y] \in S
    <3>1. y \in Agents /\ x \in UpTo(parent, y)  OBVIOUS
    <3>2. CASE y = x  BY <1>1, <1>2, <1>5, <2>1, <3>2, NodesAssumption
    <3>3. CASE y # x
      <4>1. parent[y] \in Agents /\ x \in UpTo(parent, parent[y])  BY <1>3, <3>1, <3>3, UpToRest
      <4>2. s.tree[y] = parent[y]  BY <1>1, <1>2, <3>1, <4>1, NodesAssumption
      <4> QED  BY <4>1, <4>2
    <3> QED  BY <3>2, <3>3
  <2>3. S \in SUBSET Agents /\ S # {}  BY <2>1
  <2> HIDE DEF S
  <2> QED  BY <1>1, <2>2, <2>3
<1>6. ASSUME NEW x \in Agents PROVE CalmAt(x)
  <2>1. Linked(x)  BY <1>2, NodesAssumption DEF Linked, Running
  <2>2. To(x) = Place(x)  BY <1>1, <1>2, NodesAssumption DEF To, Place
  <2>3. Rooted(x)  BY <1>5 DEF Rooted
  <2>4. ~Leaving(x) /\ OnTheWay(x)  BY <1>4 DEF Leaving, OnTheWay
  <2>5. x \in s.arriving => Leaf(x)  BY <1>1, <1>2, NodesAssumption DEF Leaf
  <2>6. pc[x] # "main" \/ Ph(x) # "serve" \/ (\E d \in Conns, p \in Agents : On(d, Attach(x, p))) => Leaf(x)
    BY <1>2, <1>4, <2>5 DEF Ph
  <2>7. announcing[x] = {}  BY <1>2
  <2> QED  BY <2>1, <2>2, <2>3, <2>4, <2>6, <2>7 DEF CalmAt
<1> QED  BY <1>6 DEF Calm

LEMMA StutterCalm == ASSUME BaseInv, Calm, Unhinted', Stutters PROVE Calm'
<1>1. UNCHANGED <<pc, upstream, announcing, conn, wire, parent>>  BY DEF Stutters, agentPart, serverPart
<1>2. \A d \in Conns : \A n \in Reports : On(d, n)' => On(d, n) /\ conn'[d].child = conn[d].child
  BY <1>1 DEF On
<1>3. \A x \in Agents :
        /\ ~Leaving(x)'
        /\ \A d \in Conns, p \in Agents : On(d, Attach(x, p))' => Leaf(x) /\ p = parent[x] /\ conn'[d].child \in Above(p)
  BY <1>2, CalmReports
<1>4. \A x \in Agents : Running(x)'  BY <1>1 DEF Calm, CalmAt, Linked, Running
<1>5. CalmStep  BY <1>1, <1>3, <1>4 DEF CalmStep
<1> QED  BY <1>5, CalmKept

LEMMA StutterHurt ==
  ASSUME BaseInv, BaseInv', Tidy, NEW q \in Agents, Hurt(q), Unhinted', Stutters PROVE Hurt(q)'
<1>1. UNCHANGED <<pc, upstream, announcing, conn, wire, parent, online>>  BY DEF Stutters, agentPart, serverPart
<1>2. \A d \in Conns, m \in Reports : On(d, m)' <=> On(d, m)  BY <1>1 DEF On
<1>3. ASSUME NEW x \in Agents PROVE Undisturbed(x)
  <2>1. \A p \in Agents : Pending(x, p)' => Pending(x, p)  BY <1>1, <1>2, ReportFields DEF Pending
  <2> QED  BY <1>1, <2>1 DEF Undisturbed
<1>4. parent \in Trees  BY DEF BaseInv, MeshTypeOK, Trees
<1>5. \A x \in Above(q) : x \in Agents  BY <1>4, UpToClosed, AboveIs
<1>6. OthersMove(q)  BY <1>1, <1>3, <1>5 DEF OthersMove, Hurt, Running
<1>7. LinkStays(q)  BY <1>1 DEF LinkStays
<1>8. NothingSent(q)  BY <1>1, <1>2 DEF NothingSent
<1>9. StillMissed(q)  BY <1>1, <1>2, ReportFields DEF StillMissed, Leaving
<1> QED  BY <1>6, <1>7, <1>8, <1>9, SilentHurt

LEMMA OneFaultStep == BaseInv /\ BaseInv' /\ Tidy /\ OneFault /\ [Next]_vars => OneFault'
<1> SUFFICES ASSUME BaseInv, BaseInv', Tidy, OneFault, [Next]_vars PROVE OneFault'  OBVIOUS
<1>1. Effect \/ Stutters  BY StepEffects
<1>2. pc \in [Agents -> PCs] /\ faults \in Nat  BY DEF BaseInv, MeshTypeOK, OneFault
<1>3. CASE \E c \in Conns : Cuts(c)
  <2>1. faults' = faults + 1 /\ pc' = pc  BY <1>3 DEF Cuts
  <2>2. faults = 0 => \A q \in Agents : Running(q)  BY DEF OneFault, Calm, CalmAt, Linked
  <2> QED  BY <1>2, <2>1, <2>2 DEF OneFault, Running
<1>4. ASSUME NEW a \in Agents, Crashes(a) PROVE OneFault'
  <2>1. faults' = faults + 1 /\ pc' = [pc EXCEPT ![a] = "crashed"] /\ Running(a)  BY <1>4 DEF Crashes
  <2>2. faults = 0 => Calm  BY DEF OneFault
  <2>3. Calm => \A q \in Agents : Running(q)  BY DEF Calm, CalmAt, Linked
  <2>4. Calm => Unhinted'
    <3>1. pc' # pc  BY <1>2, <2>1 DEF Running
    <3> QED  BY <3>1, UnhintedKept DEF Calm
  <2>5. ASSUME faults = 0, NEW q \in Agents, ~Running(q)' PROVE Hurt(q)'
    <3>1. q = a  BY <1>2, <2>1, <2>2, <2>3, <2>5 DEF Running
    <3>2. Crashes(q)  BY <1>4, <3>1
    <3> QED  BY <2>2, <2>4, <2>5, <3>2, CrashHurts
  <2> QED  BY <1>2, <2>1, <2>5 DEF OneFault
<1>5. ASSUME \/ \E a \in Agents : AgentEffect(a)
             \/ \E c \in Conns : ServerEffect(c) \/ \E p \in Agents : RelayEffect(p, c)
             \/ Stutters
      PROVE  OneFault'
  <2>1. faults' = faults
    <3>1. ASSUME NEW a \in Agents, AgentEffect(a) PROVE faults' = faults
      BY <3>1 DEF AgentEffect, Opens, Moves, TakesParent, Announces, Finishes, Loses, Restarts, Notifies, count
    <3>2. ASSUME NEW c \in Conns, ServerEffect(c) PROVE faults' = faults
      BY <3>2 DEF ServerEffect, Accepts, Closes, Records, Discounts, Refuses, count
    <3>3. ASSUME NEW c \in Conns, NEW p \in Agents, RelayEffect(p, c) PROVE faults' = faults
      BY <3>3 DEF RelayEffect, Hellos, Inserts, Drops, TakesOut, TellsLoss, Forwards, Misses, count
    <3> QED  BY <1>5, <3>1, <3>2, <3>3 DEF Stutters, count
  <2>2. ASSUME NEW q \in Agents, ~Running(q)' PROVE ~Running(q)
    <3>1. ASSUME NEW a \in Agents, AgentEffect(a) PROVE ~Running(q)
      <4>1. pc' = pc \/ \E l \in PCs \ {"crashed"} : pc' = [pc EXCEPT ![a] = l]
        BY <3>1 DEF AgentEffect, Opens, Moves, TakesParent, Announces, Finishes, Loses, Restarts, Notifies, PCs
      <4> QED  BY <1>2, <2>2, <4>1 DEF Running
    <3>2. ASSUME NEW c \in Conns, ServerEffect(c) PROVE pc' = pc
      BY <3>2 DEF ServerEffect, Accepts, Closes, Records, Discounts, Refuses, agentPart
    <3>3. ASSUME NEW c \in Conns, NEW p \in Agents, RelayEffect(p, c) PROVE pc' = pc
      BY <3>3 DEF RelayEffect, Hellos, Inserts, Drops, TakesOut, TellsLoss, Forwards, Misses, agentPart
    <3>4. Stutters => pc' = pc  BY DEF Stutters, agentPart
    <3> QED  BY <1>5, <2>2, <3>1, <3>2, <3>3, <3>4 DEF Running
  <2>3. Unhinted => Unhinted'  BY <1>2, <2>1, UnhintedKept
  <2>4. ASSUME Calm PROVE Calm'
    <3>1. Unhinted'  BY <2>3, <2>4 DEF Calm
    <3> QED  BY <1>5, <2>4, <3>1, AgentCalm, ServerCalm, RelayCalm, StutterCalm
  <2>5. ASSUME NEW q \in Agents, ~Running(q)', Hurt(q) PROVE Hurt(q)'
    <3>1. Unhinted'  BY <2>3, <2>5 DEF Hurt
    <3>2. ~Running(q)  BY <2>2, <2>5
    <3> QED  BY <1>5, <2>5, <3>1, <3>2, AgentHurt, ServerHurt, RelayHurt, StutterHurt
  <2> QED  BY <2>1, <2>2, <2>4, <2>5 DEF OneFault
<1> QED  BY <1>1, <1>3, <1>4, <1>5 DEF Effect

\* Whoever crashed, and is the only one that was hit, is not counted for long.
LEMMA QuietDead ==
  ASSUME BaseInv, Tidy, OneFault, Quiet, faults <= 1, NEW a \in Agents, a \in online
  PROVE  Running(a)
<1> SUFFICES ASSUME ~Running(a) PROVE FALSE  OBVIOUS
<1>1. faults = 1
  <2>1. faults = 0 => Running(a)  BY DEF OneFault, Calm, CalmAt, Linked
  <2> QED  BY <2>1 DEF OneFault
<1>2. LastLink(a) /\ Missed(a)  BY <1>1 DEF OneFault, Hurt
<1>3. ~Leaving(a)  BY DEF Quiet, Leaving, On
<1>4. PICK c \in Conns : conn[c].child = a  BY <1>2, <1>3 DEF Missed
<1>5. conn[c].link = "cut"  BY <1>2, <1>4 DEF LastLink
<1>6. conn[c] # Closed  BY <1>4, ClosedFields, NodesAssumption
<1> QED  BY <1>5, <1>6 DEF Quiet

-----------------------------------------------------------------------------
(***************************************************************************)
(* All of it together.                                                     *)
(***************************************************************************)
MeshInv ==
  /\ BaseInv
  /\ NoIdleCircle
  /\ races = {} => Tidy /\ Healing /\ OneFault

LEMMA MeshStarts == Init => MeshInv
<1> SUFFICES ASSUME NEW s \in Scenarios, Start(s) PROVE MeshInv  BY DEF Init
<1>1. PICK f : StartsAs(s, f)  BY Starts
<1>2. RelayInv  BY InitHolds DEF Init
<1>3. BaseInv  BY <1>1, <1>2, StartBase DEF BaseInv, Shape
<1>4. NoIdleCircle /\ Tidy /\ Healing  BY <1>1, StartCircle, StartTidy, StartHealing
<1>5. Calm  BY <1>1, StartUnhinted, StartCalm
<1>6. faults = 0  BY <1>1 DEF StartsAs
<1> QED  BY <1>3, <1>4, <1>5, <1>6 DEF MeshInv, OneFault

LEMMA MeshStep == MeshInv /\ [Next]_vars => MeshInv'
<1> SUFFICES ASSUME MeshInv, [Next]_vars PROVE MeshInv'  OBVIOUS
<1>1. BaseInv /\ BaseInv'  BY BaseKept DEF MeshInv
<1>2. NoIdleCircle'  BY <1>1, CircleStep DEF MeshInv
<1>3. ASSUME races' = {} PROVE Tidy' /\ Healing' /\ OneFault'
  <2>1. races = {}  BY <1>1, <1>3, RacesGrow
  <2>2. Tidy /\ Healing /\ OneFault  BY <2>1 DEF MeshInv
  <2>3. Tidy'  BY <1>1, <1>3, <2>2, TidyStep
  <2> QED  BY <1>1, <1>3, <2>2, <2>3, HealingStep, OneFaultStep
<1> QED  BY <1>1, <1>2, <1>3 DEF MeshInv

\* However often links are cut and agents crash, come back or are told to move:
\* agents that are linked in a circle - one that dialled itself as a fallback, say -
\* never look idle.  RelayStream reports its peer upstream and forwards what the peer
\* reports, so a hello or a report is on its way between them, for good.
THEOREM CirclesStir == Spec => []NoIdleCircle
<1>1. MeshInv => NoIdleCircle  BY DEF MeshInv
<1> QED  BY <1>1, MeshStarts, MeshStep, PTL DEF Spec

\* Faults heal in every mesh that starts as a tree: however many links are cut and
\* agents crash, come back or are told to move, in whatever order, once all is quiet
\* every running agent is online, has a way up to the server, and is on record where
\* it is connected, which is what reannounceDownstreams and handlePeerConnected are
\* for; and an agent whose crash was the only fault is not online.  Excepted are the
\* races that the history variable names.
THEOREM MeshHeals == Spec => []FaultsHeal
<1>1. MeshInv => FaultsHeal
  <2> SUFFICES ASSUME MeshInv, Quiet, races = {}
               PROVE  /\ \A a \in Agents : Running(a) =>
                           /\ a \in online /\ Reaches(a)
                           /\ conn[upstream[a]].to = IF parent[a] = None THEN Server ELSE parent[a]
                      /\ faults <= 1 => \A a \in online : Running(a)
    BY DEF FaultsHeal
  <2>1. BaseInv /\ NoIdleCircle /\ Tidy /\ Healing /\ OneFault  BY DEF MeshInv
  <2>2. online \subseteq Agents  BY <2>1 DEF BaseInv, MeshTypeOK
  <2> QED  BY <2>1, <2>2, QuietMesh, QuietDead
<1> QED  BY <1>1, MeshStarts, MeshStep, PTL DEF Spec
=============================================================================
