----------------------- MODULE BroadcastSessionProofs -----------------------
(***************************************************************************)
(* Proofs about BroadcastSession, for every set of agents, targets,        *)
(* streams and handler goroutines.                                         *)
(***************************************************************************)
EXTENDS BroadcastSession, FiniteSetTheorems, TLAPS

\* Type correctness of a broadcast session.
LEMMA TypeCorrect == Spec => []TypeOK
<1>. USE TargetsAssumption, SubtreeAssumption, HandlersAssumption, RepliesAssumption
     DEF TypeOK, Procs, Kinds, registered
<1>1. Init => TypeOK
  BY DEF Init
<1>2. TypeOK /\ [Next]_vars => TypeOK'
  <2>. SUFFICES ASSUME TypeOK, [Next]_vars PROVE TypeOK'
    OBVIOUS
  <2>1. ASSUME NEW p \in Procs, ClaimAgent(p) PROVE TypeOK'
    <3>1. PICK t \in todo[p] :
            /\ todo' = [todo EXCEPT ![p] = @ \ {t}]
            /\ \/ /\ t.agent \in pending
                  /\ pending' = pending \ {t.agent}
                  /\ accounted' = accounted + 1
                  /\ hand' = [hand EXCEPT ![p] = t]
                  /\ winner' = [winner EXCEPT ![t.agent] = t.kind]
               \/ /\ t.agent \notin pending
                  /\ UNCHANGED <<pending, accounted, hand, winner>>
      BY <2>1 DEF ClaimAgent
    <3>2. t \in Terminal /\ t.kind \in Kinds
      <4>1. t \in Terminal
        BY <3>1
      <4>. QED  BY <4>1 DEF Terminal
    <3>3. pending' \subseteq Targets /\ accounted' \in Nat
      BY <3>1
    <3>4. todo' \in [Procs -> SUBSET Terminal]
      BY <3>1
    <3>5. hand' \in [Procs -> Terminal \cup {None}]
      BY <3>1, <3>2
    <3>6. winner' \in [Targets -> Kinds \cup {"none"}]
      BY <3>1, <3>2
    <3>. QED  BY <2>1, <3>3, <3>4, <3>5, <3>6 DEF ClaimAgent, sessionVars, meshVars
  <2>2. ASSUME NEW p \in Procs, SendResult(p) PROVE TypeOK'
    BY <2>2 DEF SendResult, sessionVars, meshVars
  <2>3. ASSUME NEW h \in Handlers, NEW a \in Agents, NEW kind \in {"match", "nomatch"},
               NEW ok \in BOOLEAN, HandleResult(h, a, kind, ok)
        PROVE  TypeOK'
    BY <2>3 DEF HandleResult, sessionVars, Terminal
  <2>4. ASSUME NEW h \in Handlers, NEW gone \in SUBSET Agents, NotifyGone(h, gone)
        PROVE  TypeOK'
    <3>1. [agent : gone, kind : {"gone"}] \in SUBSET Terminal
      BY DEF Terminal
    <3>. QED  BY <2>4, <3>1 DEF NotifyGone, sessionVars, meshVars
  <2>5. ASSUME NEW full \in SUBSET Streams, Broadcast(full) PROVE TypeOK'
    <3>1. [agent : UNION {Subtree[s] : s \in full}, kind : {"gone"}] \in SUBSET Terminal
      BY DEF Terminal
    <3>2. UNION {Subtree[s] : s \in Streams \ full} \subseteq Agents
      OBVIOUS
    <3>. QED  BY <2>5, <3>1, <3>2 DEF Broadcast
  <2>6. CASE RegisterSession \/ SignFails \/ Deregister \/ HardTimeout \/ Canceled
    BY <2>6 DEF RegisterSession, SignFails, Deregister, HardTimeout, Canceled, Return,
                meshVars
  <2>7. CASE CheckRemaining \/ DrainDone
    BY <2>7 DEF CheckRemaining, DrainDone, Return, meshVars
  <2>8. CASE ReceiveResult \/ DrainResult
    <3>1. results # <<>> /\ results' = Tail(results) /\ consumed' = Append(consumed, Head(results))
      BY <2>8 DEF ReceiveResult, DrainResult, Receive
    <3>2. results' \in Seq(Terminal) /\ consumed' \in Seq(Terminal)
      BY <3>1
    <3>. QED  BY <2>8, <3>2 DEF ReceiveResult, DrainResult, Receive, meshVars
  <2>9. CASE UNCHANGED vars
    BY <2>9 DEF vars
  <2>. QED
    BY <2>1, <2>2, <2>3, <2>4, <2>5, <2>6, <2>7, <2>8, <2>9
       DEF Next, Report, Collect
<1>. QED  BY <1>1, <1>2, PTL DEF Spec

-----------------------------------------------------------------------------
(***************************************************************************)
(* The inductive invariant.                                                *)
(***************************************************************************)

\* What the steps that move terminal events work on.
core == <<pending, accounted, results, hand, consumed, winner>>

\* The sets the conservation law counts are finite.
LEMMA Finiteness ==
  ASSUME TypeOK
  PROVE  IsFiniteSet(pending) /\ IsFiniteSet(InHand) /\ IsFiniteSet(Targets)
<1>1. IsFiniteSet(pending) /\ IsFiniteSet(Targets)
  BY TargetsAssumption, FS_Subset DEF TypeOK
<1>2. IsFiniteSet(Procs)
  BY HandlersAssumption, FS_AddElement DEF Procs
<1>3. InHand \in SUBSET Procs
  BY DEF InHand
<1>. QED  BY <1>1, <1>2, <1>3, FS_Subset

\* ClaimAgent either skips an agent or moves it from pending to p's hand.
LEMMA ClaimEffect ==
  ASSUME TypeOK, NEW p \in Procs, ClaimAgent(p)
  PROVE  /\ UNCHANGED <<results, consumed, pc, outcome, responded>>
         /\ \/ UNCHANGED core
            \/ \E t \in Terminal :
                 /\ hand[p] = None
                 /\ t.agent \in pending
                 /\ pending' = pending \ {t.agent}
                 /\ accounted' = accounted + 1
                 /\ hand' = [hand EXCEPT ![p] = t]
                 /\ winner' = [winner EXCEPT ![t.agent] = t.kind]
<1>1. \A t \in todo[p] : t \in Terminal
  BY DEF TypeOK
<1>. QED  BY <1>1 DEF ClaimAgent, core, sessionVars

\* Steps that leave the events where they are.
LEMMA FrameSteps ==
  ASSUME [Next]_vars,
         ~ \E p \in Procs : Report(p),
         ~ (ReceiveResult \/ DrainResult)
  PROVE  UNCHANGED core
<1>. USE DEF core, meshVars, sessionVars, Return
<1>1. ASSUME NEW h \in Handlers, NEW a \in Agents, NEW kind \in {"match", "nomatch"},
             NEW ok \in BOOLEAN, HandleResult(h, a, kind, ok)
      PROVE  UNCHANGED core
  BY <1>1 DEF HandleResult
<1>2. ASSUME NEW h \in Handlers, NEW gone \in SUBSET Agents, NotifyGone(h, gone)
      PROVE  UNCHANGED core
  BY <1>2 DEF NotifyGone
<1>3. ASSUME NEW full \in SUBSET Streams, Broadcast(full) PROVE UNCHANGED core
  BY <1>3 DEF Broadcast
<1>4. CASE RegisterSession \/ SignFails \/ Deregister \/ HardTimeout \/ Canceled
  BY <1>4 DEF RegisterSession, SignFails, Deregister, HardTimeout, Canceled
<1>5. CASE CheckRemaining \/ DrainDone
  BY <1>5 DEF CheckRemaining, DrainDone
<1>6. CASE UNCHANGED vars
  BY <1>6 DEF vars
<1>. QED  BY <1>1, <1>2, <1>3, <1>4, <1>5, <1>6 DEF Next, Collect

\* Every step conserves terminal events; the channel has room whenever a
\* goroutine holds a claimed event.
LEMMA ConservationStep ==
  ASSUME TypeOK, TypeOK', NoTerminalLost, [Next]_vars
  PROVE  NoTerminalLost'
<1>. DEFINE N == Cardinality(Targets)
<1>1. /\ Cardinality(pending) \in Nat /\ Cardinality(InHand) \in Nat /\ N \in Nat
      /\ Len(results) \in Nat /\ Len(consumed) \in Nat
  BY Finiteness, FS_CardinalityType DEF TypeOK
<1>2. ASSUME NEW p \in Procs, ClaimAgent(p) PROVE NoTerminalLost'
  <2>1. CASE UNCHANGED core
    BY <2>1 DEF NoTerminalLost, core, InHand
  <2>2. ASSUME NEW t \in Terminal,
               /\ hand[p] = None
               /\ t.agent \in pending
               /\ pending' = pending \ {t.agent}
               /\ hand' = [hand EXCEPT ![p] = t]
               /\ UNCHANGED <<results, consumed>>
        PROVE  NoTerminalLost'
    <3>1. Cardinality(pending') = Cardinality(pending) - 1
      BY <2>2, Finiteness, FS_RemoveElement
    <3>2. InHand' = InHand \cup {p} /\ p \notin InHand
      BY <2>2, NoneAssumption DEF InHand, TypeOK
    <3>3. Cardinality(InHand') = Cardinality(InHand) + 1
      BY <3>2, Finiteness, FS_AddElement
    <3>. QED  BY <1>1, <2>2, <3>1, <3>3 DEF NoTerminalLost
  <2>. QED  BY <1>2, <2>1, <2>2, ClaimEffect
<1>3. ASSUME NEW p \in Procs, SendResult(p) PROVE NoTerminalLost'
  <2>1. InHand' = InHand \ {p} /\ p \in InHand
    BY <1>3 DEF SendResult, InHand, TypeOK
  <2>2. Cardinality(InHand') = Cardinality(InHand) - 1 /\ Cardinality(InHand) > 0
    <3>1. Cardinality(InHand) # 0
      BY <2>1, Finiteness, FS_EmptySet
    <3>2. Cardinality(InHand \ {p}) = Cardinality(InHand) - 1
      BY <2>1, Finiteness, FS_RemoveElement
    <3>. QED  BY <1>1, <2>1, <3>1, <3>2
  <2>3. Len(results) < N
    BY <1>1, <2>2 DEF NoTerminalLost
  <2>4. Len(results') = Len(results) + 1
    BY <1>3, <2>3 DEF SendResult, TypeOK
  <2>5. pending' = pending /\ consumed' = consumed
    BY <1>3 DEF SendResult
  <2>. QED  BY <1>1, <2>2, <2>4, <2>5 DEF NoTerminalLost
<1>4. CASE ReceiveResult \/ DrainResult
  <2>1. /\ results # <<>> /\ results' = Tail(results)
        /\ consumed' = Append(consumed, Head(results))
        /\ UNCHANGED <<pending, hand>>
    BY <1>4 DEF ReceiveResult, DrainResult, Receive
  <2>2. Len(results') = Len(results) - 1 /\ Len(consumed') = Len(consumed) + 1
    BY <2>1 DEF TypeOK
  <2>3. InHand' = InHand /\ pending' = pending
    BY <2>1 DEF InHand
  <2>. QED  BY <1>1, <2>2, <2>3 DEF NoTerminalLost
<1>5. CASE UNCHANGED core
  BY <1>5 DEF NoTerminalLost, core, InHand
<1>. QED  BY <1>2, <1>3, <1>4, <1>5, FrameSteps DEF Report

\* A claimed event keeps the right to its agent, and stays in one place.
LEMMA PlacesStep ==
  ASSUME TypeOK, TypeOK', NoTerminalLost, Places, Control, [Next]_vars
  PROVE  Places'
<1>1. ASSUME NEW p \in Procs, ClaimAgent(p) PROVE Places'
  <2>1. CASE UNCHANGED core
    BY <2>1 DEF Places, Won, core, InHand
  <2>2. ASSUME NEW t \in Terminal,
               /\ hand[p] = None
               /\ t.agent \in pending
               /\ pending' = pending \ {t.agent}
               /\ hand' = [hand EXCEPT ![p] = t]
               /\ winner' = [winner EXCEPT ![t.agent] = t.kind]
               /\ results' = results /\ consumed' = consumed
        PROVE  Places'
    <3>1. InHand' = InHand \cup {p} /\ p \notin InHand /\ hand'[p] = t
      BY <2>2, NoneAssumption DEF InHand, TypeOK
    <3>2. \A q \in InHand : hand'[q] = hand[q]
      BY <2>2, <3>1 DEF InHand, TypeOK
    <3>3. Won(t)'
      BY <2>2 DEF Won, TypeOK
    <3>4. \A u \in Terminal : Won(u) => Won(u)' /\ u.agent # t.agent
      BY <2>2 DEF Won, TypeOK
    <3>5. \A q \in InHand : hand[q] \in Terminal
      BY DEF InHand, TypeOK
    <3>6. /\ \A i \in 1..Len(results) : results[i] \in Terminal
          /\ \A i \in 1..Len(consumed) : consumed[i] \in Terminal
      BY DEF TypeOK
    <3>7. \A q \in InHand' : Won(hand[q])'
      BY <3>1, <3>2, <3>3, <3>4, <3>5 DEF Places
    <3>8. /\ \A i \in 1..Len(results) : Won(results[i])' /\ results[i].agent # t.agent
          /\ \A i \in 1..Len(consumed) : Won(consumed[i])' /\ consumed[i].agent # t.agent
      BY <2>2, <3>4, <3>6 DEF Places
    <3>9. \A q \in InHand : hand[q].agent # t.agent
      BY <3>4, <3>5 DEF Places
    <3>. HIDE DEF Won
    <3>. QED  BY <2>2, <3>1, <3>2, <3>7, <3>8, <3>9 DEF Places
  <2>. QED  BY <1>1, <2>1, <2>2, ClaimEffect
<1>2. ASSUME NEW p \in Procs, SendResult(p) PROVE Places'
  <2>1. InHand' = InHand \ {p} /\ p \in InHand /\ hand[p] \in Terminal
    BY <1>2 DEF SendResult, InHand, TypeOK
  <2>2. \A q \in InHand' : hand'[q] = hand[q]
    BY <1>2, <2>1 DEF SendResult, InHand, TypeOK
  <2>3. Len(results) < Cardinality(Targets)
    <3>1. Cardinality(InHand) # 0
      BY <2>1, Finiteness, FS_EmptySet
    <3>. QED  BY <3>1, Finiteness, FS_CardinalityType DEF NoTerminalLost, TypeOK
  <2>4. results' = Append(results, hand[p])
    BY <1>2, <2>3 DEF SendResult
  <2>5. /\ Len(results') = Len(results) + 1
        /\ \A i \in 1..Len(results) : results'[i] = results[i]
        /\ results'[Len(results) + 1] = hand[p]
        /\ Len(results) \in Nat
    BY <2>1, <2>4 DEF TypeOK
  <2>6. \A i \in 1..Len(results') : i \in 1..Len(results) \/ i = Len(results) + 1
    BY <2>5
  <2>7. pending' = pending /\ winner' = winner /\ consumed' = consumed
    BY <1>2 DEF SendResult
  <2>8. /\ \A q \in InHand' : Won(hand[q])'
        /\ \A i \in 1..Len(results') : Won(results[i])'
        /\ \A i \in 1..Len(consumed') : Won(consumed[i])'
    BY <2>1, <2>2, <2>5, <2>6, <2>7 DEF Places, Won
  <2>9. \A i, j \in 1..Len(results') : results'[i].agent = results'[j].agent => i = j
    BY <2>1, <2>5, <2>6 DEF Places
  <2>10. \A q \in InHand', i \in 1..Len(results') : hand'[q].agent # results'[i].agent
    BY <2>1, <2>2, <2>5, <2>6 DEF Places
  <2>11. \A i \in 1..Len(results'), j \in 1..Len(consumed') :
           results'[i].agent # consumed'[j].agent
    BY <2>1, <2>5, <2>6, <2>7 DEF Places
  <2>. QED  BY <2>1, <2>2, <2>7, <2>8, <2>9, <2>10, <2>11 DEF Places
<1>3. CASE ReceiveResult \/ DrainResult
  <2>1. /\ results # <<>> /\ results' = Tail(results)
        /\ consumed' = Append(consumed, Head(results))
        /\ pending' = pending /\ hand' = hand /\ winner' = winner
    BY <1>3 DEF ReceiveResult, DrainResult, Receive
  <2>2. /\ Len(results) \in Nat \ {0} /\ Len(results') = Len(results) - 1
        /\ \A i \in 1..Len(results') : i + 1 \in 1..Len(results) /\ results'[i] = results[i + 1]
    BY <2>1 DEF TypeOK
  <2>3. /\ Len(consumed) \in Nat /\ Len(consumed') = Len(consumed) + 1
        /\ \A i \in 1..Len(consumed) : consumed'[i] = consumed[i]
        /\ consumed'[Len(consumed) + 1] = results[1]
    BY <2>1 DEF TypeOK
  <2>4. \A i \in 1..Len(consumed') : i \in 1..Len(consumed) \/ i = Len(consumed) + 1
    BY <2>3
  <2>5. InHand' = InHand
    BY <2>1 DEF InHand
  <2>. QED  BY <2>1, <2>2, <2>3, <2>4, <2>5 DEF Places, Won
<1>4. CASE UNCHANGED core
  BY <1>4 DEF Places, Won, core, InHand
<1>. QED  BY <1>1, <1>2, <1>3, <1>4, FrameSteps DEF Report

\* The accounting counter, and what the dispatcher's position implies.
LEMMA ControlStep ==
  ASSUME TypeOK, TypeOK', Control, [Next]_vars
  PROVE  Control'
<1>1. /\ Cardinality(pending) \in Nat /\ Cardinality(Targets) \in Nat
      /\ accounted \in Nat /\ IsFiniteSet(pending)
  BY Finiteness, FS_CardinalityType DEF TypeOK
<1>2. ASSUME NEW p \in Procs, ClaimAgent(p) PROVE Control'
  <2>1. CASE UNCHANGED core
    BY <1>2, <2>1, ClaimEffect DEF Control, core
  <2>2. ASSUME NEW t \in Terminal,
               /\ t.agent \in pending
               /\ pending' = pending \ {t.agent}
               /\ accounted' = accounted + 1
               /\ winner' = [winner EXCEPT ![t.agent] = t.kind]
               /\ pc' = pc /\ outcome' = outcome /\ responded' = responded
        PROVE  Control'
    <3>1. Cardinality(pending') = Cardinality(pending) - 1
      BY <1>1, <2>2, FS_RemoveElement
    <3>2. \A a \in Targets : a \in pending' <=> winner'[a] = "none"
      <4>1. t.kind # "none"
        BY <2>2 DEF Terminal, Kinds
      <4>. QED  BY <2>2, <4>1 DEF Control, TypeOK
    <3>3. accounted' + Cardinality(pending') = Cardinality(Targets)
      BY <1>1, <2>2, <3>1 DEF Control
    <3>. QED  BY <2>2, <3>2, <3>3 DEF Control
  <2>. QED  BY <1>2, <2>1, <2>2, ClaimEffect
<1>3. ASSUME NEW p \in Procs, SendResult(p) PROVE Control'
  BY <1>3 DEF SendResult, sessionVars, Control
<1>4. CASE ReceiveResult \/ DrainResult
  BY <1>4 DEF ReceiveResult, DrainResult, Receive, Control
<1>5. ASSUME NEW h \in Handlers, NEW a \in Agents, NEW kind \in {"match", "nomatch"},
             NEW ok \in BOOLEAN, HandleResult(h, a, kind, ok)
      PROVE  Control'
  BY <1>5 DEF HandleResult, sessionVars, Control
<1>6. ASSUME NEW h \in Handlers, NEW gone \in SUBSET Agents, NotifyGone(h, gone)
      PROVE  Control'
  BY <1>6 DEF NotifyGone, sessionVars, Control
<1>7. ASSUME NEW full \in SUBSET Streams, Broadcast(full) PROVE Control'
  BY <1>7 DEF Broadcast, Control
<1>8. CASE RegisterSession \/ SignFails \/ Deregister \/ HardTimeout \/ Canceled
  BY <1>8 DEF RegisterSession, SignFails, Deregister, HardTimeout, Canceled, Return, Control
<1>9. CASE CheckRemaining
  BY <1>9 DEF CheckRemaining, Control
<1>10. CASE DrainDone
  <2>1. pending = {}
    BY <1>10 DEF DrainDone, Control
  <2>2. accounted = Cardinality(Targets)
    <3>1. Cardinality(pending) = 0
      BY <2>1, FS_EmptySet
    <3>. QED  BY <1>1, <3>1 DEF Control
  <2>. QED  BY <1>10, <2>1, <2>2 DEF DrainDone, Return, Control
<1>11. CASE UNCHANGED vars
  BY <1>11 DEF vars, Control
<1>. QED
  BY <1>2, <1>3, <1>4, <1>5, <1>6, <1>7, <1>8, <1>9, <1>10, <1>11
     DEF Next, Report, Collect

\* A freshly registered session has every target pending and nothing in flight.
LEMMA InitIInv == Init => IInv
<1>. SUFFICES ASSUME Init PROVE IInv
  OBVIOUS
<1>1. TypeOK
  BY TargetsAssumption, SubtreeAssumption, HandlersAssumption, RepliesAssumption
     DEF Init, TypeOK, Procs, Kinds
<1>2. InHand = {} /\ Cardinality(InHand) = 0
  BY FS_EmptySet DEF Init, InHand
<1>3. Cardinality(Targets) \in Nat
  BY TargetsAssumption, FS_CardinalityType
<1>4. NoTerminalLost
  BY <1>2, <1>3 DEF Init, NoTerminalLost
<1>5. Places
  BY <1>2 DEF Init, Places
<1>6. Control
  BY <1>3 DEF Init, Control
<1>. QED  BY <1>1, <1>4, <1>5, <1>6 DEF IInv

\* Terminal events are conserved in every reachable state, for any number of
\* agents, targets, streams and handler goroutines.
THEOREM Conservation == Spec => []IInv
<1>1. TypeOK /\ TypeOK' /\ IInv /\ [Next]_vars => IInv'
  BY ConservationStep, PlacesStep, ControlStep DEF IInv
<1>. QED  BY <1>1, InitIInv, TypeCorrect, PTL DEF Spec

\* The result channel never overflows and no claimed event is dropped: the
\* "result channel full" branches of the handlers are dead code.
THEOREM NeverLosesATerminal == Spec => []NoTerminalLost
<1>1. IInv => NoTerminalLost
  BY DEF IInv
<1>. QED  BY <1>1, Conservation, PTL

\* No caller ever sees two results for the same agent, or one that did not win the gate.
THEOREM CallerSeesTheWinners == Spec => []ReturnsTheWinners
<1>1. IInv => ReturnsTheWinners
  BY DEF IInv, Places, Won, ReturnsTheWinners
<1>. QED  BY <1>1, Conservation, PTL

-----------------------------------------------------------------------------
(***************************************************************************)
(* Refinement: a step of the session is a verdict, the end of the          *)
(* broadcast, or invisible to the abstract specification.                  *)
(***************************************************************************)

\* The claimed targets are exactly the judged ones, and accounted counts them.
LEMMA AccountedIsJudged ==
  ASSUME IInv
  PROVE  accounted = Abstract!Cardinality(Abstract!Judged)
<1>1. Abstract!Judged = Targets \ pending
  BY DEF IInv, Control, Abstract!Judged
<1>2. /\ IsFiniteSet(Targets) /\ IsFiniteSet(pending) /\ IsFiniteSet(Targets \ pending)
      /\ pending \cup (Targets \ pending) = Targets
      /\ pending \cap (Targets \ pending) = {}
  BY Finiteness, FS_Subset DEF IInv, TypeOK
<1>3. Cardinality(Targets) = Cardinality(pending) + Cardinality(Targets \ pending)
                             - Cardinality({})
  BY <1>2, FS_Union
<1>4. /\ Cardinality({}) = 0 /\ Cardinality(pending) \in Nat
      /\ Cardinality(Targets \ pending) \in Nat /\ Cardinality(Targets) \in Nat
  BY <1>2, FS_CardinalityType, FS_EmptySet
<1>5. accounted = Cardinality(Abstract!Judged)
  BY <1>1, <1>3, <1>4 DEF IInv, TypeOK, Control
<1>6. Cardinality(Abstract!Judged) = Abstract!Cardinality(Abstract!Judged)
  BY DEF Cardinality, Abstract!Cardinality
<1>. QED  BY <1>5, <1>6

\* The broadcast session implements first-terminal-wins accounting, whatever
\* the goroutines interleave.
THEOREM Refinement == Spec => ImplementsFirstTerminal
<1>. USE DEF Abstract!vars
<1>1. Init => Abstract!Init
  BY DEF Init, Abstract!Init
<1>2. IInv /\ IInv' /\ [Next]_vars => [Abstract!Next]_<<winner, outcome, responded>>
  <2>. SUFFICES ASSUME IInv, [Next]_vars
                PROVE  [Abstract!Next]_<<winner, outcome, responded>>
    OBVIOUS
  <2>1. ASSUME NEW p \in Procs, ClaimAgent(p)
        PROVE  [Abstract!Next]_<<winner, outcome, responded>>
    <3>1. TypeOK
      BY DEF IInv
    <3>2. CASE UNCHANGED core
      BY <2>1, <3>1, <3>2, ClaimEffect DEF core
    <3>3. ASSUME NEW t \in Terminal, t.agent \in pending,
                 winner' = [winner EXCEPT ![t.agent] = t.kind],
                 outcome' = outcome, responded' = responded
          PROVE  Abstract!Judge(t.agent, t.kind) /\ t.agent \in Targets
                 /\ t.kind \in Abstract!Verdicts
      <4>1. t.agent \in Targets /\ winner[t.agent] = "none"
        BY <3>3 DEF IInv, Control, TypeOK
      <4>2. t.kind \in Abstract!Verdicts
        BY <3>3 DEF Terminal, Kinds, Abstract!Verdicts
      <4>. QED  BY <3>3, <4>1, <4>2 DEF Abstract!Judge
    <3>. QED  BY <2>1, <3>1, <3>2, <3>3, ClaimEffect DEF Abstract!Next
  <2>2. ASSUME NEW p \in Procs, SendResult(p)
        PROVE  UNCHANGED <<winner, outcome, responded>>
    BY <2>2 DEF SendResult, sessionVars
  <2>3. CASE ReceiveResult \/ DrainResult \/ CheckRemaining \/ RegisterSession \/ Deregister
    BY <2>3 DEF ReceiveResult, DrainResult, Receive, CheckRemaining, RegisterSession,
                Deregister
  <2>4. ASSUME NEW h \in Handlers, NEW a \in Agents, NEW kind \in {"match", "nomatch"},
               NEW ok \in BOOLEAN, HandleResult(h, a, kind, ok)
        PROVE  UNCHANGED <<winner, outcome, responded>>
    BY <2>4 DEF HandleResult, sessionVars
  <2>5. ASSUME NEW h \in Handlers, NEW gone \in SUBSET Agents, NotifyGone(h, gone)
        PROVE  UNCHANGED <<winner, outcome, responded>>
    BY <2>5 DEF NotifyGone, sessionVars
  <2>6. ASSUME NEW full \in SUBSET Streams, Broadcast(full)
        PROVE  UNCHANGED <<winner, outcome, responded>>
    BY <2>6 DEF Broadcast
  <2>7. CASE SignFails
    <3>1. Abstract!Finish("sign_failed")
      BY <2>7 DEF SignFails, Return, IInv, Control, Abstract!Finish
    <3>. QED  BY <3>1 DEF Abstract!Next, Abstract!Outcomes
  <2>8. CASE HardTimeout \/ Canceled
    <3>1. outcome = "none" /\ responded' = accounted /\ winner' = winner
      BY <2>8 DEF HardTimeout, Canceled, Return, IInv, Control
    <3>2. responded' = Abstract!Cardinality(Abstract!Judged)
      BY <3>1, AccountedIsJudged
    <3>3. CASE HardTimeout
      <4>1. outcome' = "hard_timeout"
        BY <3>3 DEF HardTimeout, Return
      <4>2. Abstract!Finish("hard_timeout")
        BY <3>1, <3>2, <4>1 DEF Abstract!Finish
      <4>. QED  BY <4>2 DEF Abstract!Next, Abstract!Outcomes
    <3>4. CASE Canceled
      <4>1. outcome' = "canceled"
        BY <3>4 DEF Canceled, Return
      <4>2. Abstract!Finish("canceled")
        BY <3>1, <3>2, <4>1 DEF Abstract!Finish
      <4>. QED  BY <4>2 DEF Abstract!Next, Abstract!Outcomes
    <3>. QED  BY <2>8, <3>3, <3>4
  <2>9. CASE DrainDone
    <3>1. Abstract!Judged = Targets
      BY <2>9 DEF DrainDone, IInv, Control, Abstract!Judged
    <3>2. outcome = "none" /\ responded' = accounted /\ winner' = winner
      BY <2>9 DEF DrainDone, Return, IInv, Control
    <3>3. responded' = Abstract!Cardinality(Abstract!Judged)
      BY <3>2, AccountedIsJudged
    <3>4. outcome' = "complete"
      BY <2>9 DEF DrainDone, Return
    <3>5. Abstract!Finish("complete")
      BY <3>1, <3>2, <3>3, <3>4 DEF Abstract!Finish
    <3>. QED  BY <3>5 DEF Abstract!Next, Abstract!Outcomes
  <2>10. CASE UNCHANGED vars
    BY <2>10 DEF vars
  <2>. QED
    BY <2>1, <2>2, <2>3, <2>4, <2>5, <2>6, <2>7, <2>8, <2>9, <2>10
       DEF Next, Report, Collect
<1>. QED
  BY <1>1, <1>2, Conservation, PTL DEF Spec, ImplementsFirstTerminal, Abstract!Spec
=============================================================================
