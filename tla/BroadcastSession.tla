-------------------------- MODULE BroadcastSession --------------------------
(***************************************************************************)
(* One broadcast (query, exec or deploy) on the dirq server: the           *)
(* dispatcher goroutine that registers the session, fans the request out   *)
(* to the zone-leader streams and collects results, and the goroutines     *)
(* that hand it terminal events - the stream receive loops that handle     *)
(* real responses, and whoever reports agents as gone (a closed stream, a  *)
(* PeerDisconnected, the reaper).                                          *)
(*                                                                         *)
(* All of them meet in sessionAccounting.ClaimAgent, a mutex-protected     *)
(* gate.  Claiming an agent and sending its result into the buffered       *)
(* channel are two steps, and so are reading Remaining() and receiving:    *)
(* every such boundary is a step of this module.                           *)
(*                                                                         *)
(* Messages are reduced to a terminal event: which agent, and whether it   *)
(* is a matching answer, a non-matching (failed) one, or synthetic.        *)
(***************************************************************************)
EXTENDS Integers, FiniteSets, Sequences

CONSTANTS
  Agents,       \* the fleet the server may hear of
  Targets,      \* the agents this broadcast waits for (targetIDs)
  Streams,      \* the connected zone-leader streams (s.streams)
  Subtree,      \* topology.SubtreeIDs of each stream's agent
  Handlers,     \* the other goroutines that report terminal events
  Dispatcher,   \* the goroutine that runs the dispatch
  None,         \* no terminal event
  MaxReplies    \* bound: how often one agent's reply may arrive

ASSUME TargetsAssumption == Targets \subseteq Agents /\ IsFiniteSet(Targets)
ASSUME SubtreeAssumption == Subtree \in [Streams -> SUBSET Agents]
ASSUME HandlersAssumption == IsFiniteSet(Handlers) /\ Dispatcher \notin Handlers
ASSUME RepliesAssumption == MaxReplies \in Nat

Kinds == {"match", "nomatch", "gone"}
Terminal == [agent : Agents, kind : Kinds]
ASSUME NoneAssumption == None \notin Terminal

Procs == Handlers \cup {Dispatcher}

VARIABLES
  \* sessionAccounting, guarded by its mutex
  pending,      \* agents without a terminal event yet
  accounted,    \* how many have one
  \* the session
  results,      \* the buffered channel, capacity Cardinality(Targets)
  \* goroutine-local state
  todo,         \* terminal events each goroutine has still to report
  hand,         \* the one it has claimed and not yet sent
  pc,           \* where the dispatcher is
  consumed,     \* what the dispatcher received, in order
  outcome,      \* how the dispatch ended
  responded,    \* AccountedCount() as reported with the outcome
  \* the mesh
  reached,      \* agents the request was sent towards
  replies,      \* how many replies of each agent arrived
  \* history
  winner        \* the kind of the terminal event that claimed each target

sessionVars == <<pc, outcome, responded>>
meshVars == <<reached, replies>>
vars == <<pending, accounted, results, todo, hand, pc, consumed,
          outcome, responded, reached, replies, winner>>

\* The session is in the global session map.
registered == pc \notin {"register", "closed"}

Idle(p) == todo[p] = {} /\ hand[p] = None

Init ==
  /\ pending = Targets
  /\ accounted = 0
  /\ results = <<>>
  /\ todo = [p \in Procs |-> {}]
  /\ hand = [p \in Procs |-> None]
  /\ pc = "register"
  /\ consumed = <<>>
  /\ outcome = "none"
  /\ responded = 0
  /\ reached = {}
  /\ replies = [a \in Agents |-> 0]
  /\ winner = [a \in Targets |-> "none"]

-----------------------------------------------------------------------------
(***************************************************************************)
(* Reporting a terminal event, the same two steps for every goroutine.     *)
(***************************************************************************)

\* Mutant of ClaimAgent: the first-terminal-wins gate is missing.
ClaimAgentTwice(p) ==
  /\ hand[p] = None
  /\ \E t \in todo[p] :
       /\ todo' = [todo EXCEPT ![p] = @ \ {t}]
       /\ t.agent \in Targets
       /\ pending' = pending \ {t.agent}
       /\ accounted' = accounted + 1
       /\ hand' = [hand EXCEPT ![p] = t]
       /\ winner' = [winner EXCEPT ![t.agent] = t.kind]
  /\ UNCHANGED <<results, consumed, sessionVars, meshVars>>

\* Mutant of ClaimAgent: a synthetic failure is claimed but never enqueued.
ClaimAgentSilent(p) ==
  /\ hand[p] = None
  /\ \E t \in todo[p] :
       /\ todo' = [todo EXCEPT ![p] = @ \ {t}]
       /\ \/ /\ t.agent \in pending
             /\ pending' = pending \ {t.agent}
             /\ accounted' = accounted + 1
             /\ hand' = [hand EXCEPT ![p] = IF t.kind = "gone" THEN None ELSE t]
             /\ winner' = [winner EXCEPT ![t.agent] = t.kind]
          \/ /\ t.agent \notin pending
             /\ UNCHANGED <<pending, accounted, hand, winner>>
  /\ UNCHANGED <<results, consumed, sessionVars, meshVars>>

\* Mutant of ClaimAgent: what it returns is not looked at, and the event is sent anyway.
ClaimAgentIgnored(p) ==
  /\ hand[p] = None
  /\ \E t \in todo[p] :
       /\ todo' = [todo EXCEPT ![p] = @ \ {t}]
       /\ hand' = [hand EXCEPT ![p] = IF t.agent \in Targets THEN t ELSE @]
       /\ \/ /\ t.agent \in pending
             /\ pending' = pending \ {t.agent}
             /\ accounted' = accounted + 1
             /\ winner' = [winner EXCEPT ![t.agent] = t.kind]
          \/ /\ t.agent \notin pending
             /\ UNCHANGED <<pending, accounted, winner>>
  /\ UNCHANGED <<results, consumed, sessionVars, meshVars>>

\* ClaimAgent on the next event of p's list; an agent that is not pending
\* (already accounted, or not a target) is skipped.
ClaimAgent(p) ==
  /\ hand[p] = None
  /\ \E t \in todo[p] :
       /\ todo' = [todo EXCEPT ![p] = @ \ {t}]
       /\ \/ /\ t.agent \in pending
             /\ pending' = pending \ {t.agent}
             /\ accounted' = accounted + 1
             /\ hand' = [hand EXCEPT ![p] = t]
             /\ winner' = [winner EXCEPT ![t.agent] = t.kind]
          \/ /\ t.agent \notin pending
             /\ UNCHANGED <<pending, accounted, hand, winner>>
  /\ UNCHANGED <<results, consumed, sessionVars, meshVars>>

\* The non-blocking send that follows a successful claim: a full channel
\* drops the event.
SendResult(p) ==
  /\ hand[p] # None
  /\ results' = IF Len(results) < Cardinality(Targets)
                THEN Append(results, hand[p]) ELSE results
  /\ hand' = [hand EXCEPT ![p] = None]
  /\ UNCHANGED <<pending, accounted, todo, consumed, winner, sessionVars, meshVars>>

\* A reply of agent a reaches a receive loop.  It is reported only if the
\* origin check lets it through and the session is still in the map.
HandleResult(h, a, kind, allowed) ==
  /\ Idle(h)
  /\ a \in reached
  /\ replies[a] < MaxReplies
  /\ replies' = [replies EXCEPT ![a] = @ + 1]
  /\ todo' = [todo EXCEPT ![h] = IF allowed /\ registered
                                 THEN {[agent |-> a, kind |-> kind]} ELSE {}]
  /\ UNCHANGED <<pending, accounted, results, hand, consumed, winner, reached,
                 sessionVars>>

\* notifySessionsAgentGone: the session pointer is taken while the session is
\* registered, and used for the whole list afterwards.
NotifyGone(h, gone) ==
  /\ Idle(h)
  /\ registered
  /\ gone # {}
  /\ todo' = [todo EXCEPT ![h] = [agent : gone, kind : {"gone"}]]
  /\ UNCHANGED <<pending, accounted, results, hand, consumed, winner,
                 sessionVars, meshVars>>

-----------------------------------------------------------------------------
(***************************************************************************)
(* The dispatcher.                                                         *)
(***************************************************************************)

\* The session enters the global session map.
RegisterSession ==
  /\ pc = "register"
  /\ pc' = "sign"
  /\ UNCHANGED <<pending, accounted, results, todo, hand, consumed, outcome,
                 responded, winner, meshVars>>

Return(o, n) ==
  /\ outcome' = o
  /\ responded' = n
  /\ pc' = "returning"

SignFails ==
  /\ pc = "sign"
  /\ Return("sign_failed", 0)
  /\ UNCHANGED <<pending, accounted, results, todo, hand, consumed, winner, meshVars>>

\* Non-blocking send to every stream under s.mu; the subtrees of the streams
\* whose buffer is full are then reported gone by the dispatcher itself.
Broadcast(full) ==
  /\ pc = "sign"
  /\ reached' = UNION {Subtree[s] : s \in Streams \ full}
  /\ todo' = [todo EXCEPT ![Dispatcher] =
                [agent : UNION {Subtree[s] : s \in full}, kind : {"gone"}]]
  /\ pc' = "check"
  /\ UNCHANGED <<pending, accounted, results, hand, consumed, outcome,
                 responded, winner, replies>>

\* Mutant of CheckRemaining: the loop stops one agent early.
CheckRemainingEarly ==
  /\ pc = "check"
  /\ Idle(Dispatcher)
  /\ pc' = IF Cardinality(pending) > 1 THEN "select" ELSE "drain"
  /\ UNCHANGED <<pending, accounted, results, todo, hand, consumed,
                 outcome, responded, winner, meshVars>>

\* The loop condition Remaining() > 0.
CheckRemaining ==
  /\ pc = "check"
  /\ Idle(Dispatcher)
  /\ pc' = IF pending # {} THEN "select" ELSE "drain"
  /\ UNCHANGED <<pending, accounted, results, todo, hand, consumed,
                 outcome, responded, winner, meshVars>>

Receive(from, to) ==
  /\ pc = from
  /\ results # <<>>
  /\ consumed' = Append(consumed, Head(results))
  /\ results' = Tail(results)
  /\ pc' = to
  /\ UNCHANGED <<pending, accounted, todo, hand, outcome, responded,
                 winner, meshVars>>

ReceiveResult == Receive("select", "check")

DrainResult == Receive("drain", "drain")

DrainDone ==
  /\ pc = "drain"
  /\ results = <<>>
  /\ Return("complete", accounted)
  /\ UNCHANGED <<pending, accounted, results, todo, hand, consumed, winner, meshVars>>

HardTimeout ==
  /\ pc = "select"
  /\ Return("hard_timeout", accounted)
  /\ UNCHANGED <<pending, accounted, results, todo, hand, consumed, winner, meshVars>>

Canceled ==
  /\ pc = "select"
  /\ Return("canceled", accounted)
  /\ UNCHANGED <<pending, accounted, results, todo, hand, consumed, winner, meshVars>>

\* The deferred delete takes the session out of the map.
Deregister ==
  /\ pc = "returning"
  /\ pc' = "closed"
  /\ UNCHANGED <<pending, accounted, results, todo, hand, consumed, outcome,
                 responded, winner, meshVars>>

-----------------------------------------------------------------------------
Report(p) == ClaimAgent(p) \/ SendResult(p)

Collect == CheckRemaining \/ ReceiveResult \/ DrainResult \/ DrainDone

Next ==
  \/ RegisterSession \/ SignFails \/ Deregister
  \/ \E full \in SUBSET Streams : Broadcast(full)
  \/ Collect \/ HardTimeout \/ Canceled
  \/ \E p \in Procs : Report(p)
  \/ \E h \in Handlers, a \in Agents, kind \in {"match", "nomatch"}, ok \in BOOLEAN :
       HandleResult(h, a, kind, ok)
  \/ \E h \in Handlers, gone \in SUBSET Agents : NotifyGone(h, gone)

Spec == Init /\ [][Next]_vars

(***************************************************************************)
(* Goroutines keep running: each one's next internal step is weakly fair.  *)
(* Nothing is assumed of replies, of gone notifications, of the request's  *)
(* context, or of the hard timer.                                          *)
(***************************************************************************)
Fairness ==
  /\ \A p \in Procs : WF_vars(Report(p))
  /\ WF_vars(RegisterSession)
  /\ WF_vars(SignFails \/ \E full \in SUBSET Streams : Broadcast(full))
  /\ WF_vars(Collect)
  /\ WF_vars(Deregister)

FairSpec == Spec /\ Fairness

-----------------------------------------------------------------------------
InHand == {p \in Procs : hand[p] # None}

TypeOK ==
  /\ pending \subseteq Targets
  /\ accounted \in Nat
  /\ results \in Seq(Terminal)
  /\ todo \in [Procs -> SUBSET Terminal]
  /\ hand \in [Procs -> Terminal \cup {None}]
  /\ pc \in {"register", "sign", "check", "select", "drain", "returning", "closed"}
  /\ consumed \in Seq(Terminal)
  /\ outcome \in {"none", "complete", "hard_timeout", "canceled", "sign_failed"}
  /\ responded \in Nat
  /\ reached \subseteq Agents
  /\ replies \in [Agents -> 0..MaxReplies]
  /\ winner \in [Targets -> Kinds \cup {"none"}]

\* No terminal event is ever lost or counted twice: every target is either
\* still pending or its event is in exactly one place - a goroutine's hand,
\* the channel, or the dispatcher.  In particular the "result channel full"
\* branch of handleQueryResult, handleExecBroadcastResponse,
\* handleDeployResponse and the three markGoneIn...Session is never taken.
NoTerminalLost ==
  Cardinality(pending) + Cardinality(InHand) + Len(results) + Len(consumed)
    = Cardinality(Targets)

\* What the dispatcher has taken from the channel, and hands its caller, is at most one
\* result of an agent, and the one that won the gate: no duplicate gets past it, and a late
\* real answer does not replace the synthetic failure that beat it, nor the other way round.
ReturnsTheWinners ==
  /\ \A i, j \in 1..Len(consumed) : consumed[i].agent = consumed[j].agent => i = j
  /\ \A i \in 1..Len(consumed) :
       consumed[i].agent \in Targets /\ winner[consumed[i].agent] = consumed[i].kind

\* t is the terminal event that claimed its agent.
Won(t) == t.agent \in Targets \ pending /\ winner[t.agent] = t.kind

\* Claimed events carry the winning kind, and no agent's event is in two
\* places.
Places ==
  /\ \A p \in InHand : Won(hand[p])
  /\ \A i \in 1..Len(results) : Won(results[i])
  /\ \A i \in 1..Len(consumed) : Won(consumed[i])
  /\ \A p, q \in InHand : hand[p].agent = hand[q].agent => p = q
  /\ \A i, j \in 1..Len(results) : results[i].agent = results[j].agent => i = j
  /\ \A i, j \in 1..Len(consumed) : consumed[i].agent = consumed[j].agent => i = j
  /\ \A p \in InHand, i \in 1..Len(results) : hand[p].agent # results[i].agent
  /\ \A p \in InHand, i \in 1..Len(consumed) : hand[p].agent # consumed[i].agent
  /\ \A i \in 1..Len(results), j \in 1..Len(consumed) :
       results[i].agent # consumed[j].agent

\* dispatch_accounting.go: "total - accounted == len(pending)", and what the
\* dispatcher's position says about the accounting.
Control ==
  /\ accounted + Cardinality(pending) = Cardinality(Targets)
  /\ \A a \in Targets : a \in pending <=> winner[a] = "none"
  /\ pc = "drain" => pending = {}
  /\ outcome = "complete" => pending = {} /\ responded = Cardinality(Targets)
  /\ outcome = "none" <=> pc \notin {"returning", "closed"}

\* The inductive invariant the proofs rest on: the conservation of terminal
\* events, where they are, and the dispatcher's control state together.
IInv == TypeOK /\ NoTerminalLost /\ Places /\ Control

\* The hard timer is only a backstop: once every target is accounted the
\* dispatch returns without it, because the goroutine that took the last slot
\* also wakes the dispatcher through the channel.
ReturnsOnceAccounted == (pending = {} /\ pc # "register") ~> pc = "closed"

\* The broadcast implements first-terminal-wins accounting.
Abstract == INSTANCE FirstTerminal WITH verdict <- winner
ImplementsFirstTerminal == Abstract!Spec
=============================================================================
