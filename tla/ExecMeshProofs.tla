--------------------------- MODULE ExecMeshProofs ---------------------------
(***************************************************************************)
(* Proofs about ExecMesh, for any mesh, requests, ids, configurations and  *)
(* faults: who answers a caller, what the audit log says of it, what is    *)
(* left on an agent, as whom a command ran, in which order the waves of a  *)
(* bottom-up run go out; and, while no more than one connection breaks,    *)
(* that only stale answers are dropped, and that a request which left      *)
(* along a route runs once.                                                *)
(***************************************************************************)
EXTENDS ExecMesh, FiniteSetTheorems, WellFoundedInduction, TLAPS

IsSeq(q) == \E S : q \in Seq(S)
Steps == {"gate", "write", "writing", "stat", "run", "respond"}

Phases == {"new", "open", "waiting", "wave", "done"}
Statuses == Outcomes \cup {"none", "open", "400", "403", "404", "not sent", "timeout", "stopped"}
Reply == [status : Statuses, agent : Agents \cup {None}]
Call ==
  [phase : Phases, waves : Seq(SUBSET Agents), pending : SUBSET Agents, routed : YesNo, reply : Reply]
Ops(sc) ==
  [agent : Agents, call : DOMAIN sc.calls, wave : Nat, copy : Nat, step : Steps, outcome : Outcomes \cup {"none"},
   as : STRING \cup {"root", None}]

\* In a scenario and with a log: a request for one agent is heard of only by that agent,
\* and after its entry was made.
ForOne(sc, c) == sc.calls[c].kind # "deploy" /\ sc.calls[c].many = "no"
Known(sc, lg, c, agents) == ForOne(sc, c) => agents = {sc.calls[c].target} /\ lg[c] # "none"

MessageOK(sc, lg, m) == m.call \in DOMAIN sc.calls /\ m.wave \in Nat /\ Known(sc, lg, m.call, m.targets)
ReportOK(sc, lg, m) ==
  m.t = "response" =>
    m.agent \in Agents /\ m.call \in DOMAIN sc.calls /\ m.status \in Outcomes /\ Known(sc, lg, m.call, {m.agent})
OpOK(sc, lg, o) ==
  /\ o \in Ops(sc) /\ Known(sc, lg, o.call, {o.agent})
  /\ o.step = "respond" => o.outcome # "none"
  /\ o.step \in {"stat", "run"} => sc.calls[o.call].kind # "put"
MessagesOK(sc, lg, q) == IsSeq(q) /\ \A i \in 1..Len(q) : MessageOK(sc, lg, q[i])
ReportsOK(sc, lg, q) == IsSeq(q) /\ \A i \in 1..Len(q) : ReportOK(sc, lg, q[i])

ResultOK(sc, lg, c, r) == r # <<>> => ForOne(sc, c) /\ lg[c] # "none" /\ r = <<r[1]>> /\ r[1].status \in Outcomes
SessionsOK(sc, lg, ses) ==
  /\ ses = [i \in DOMAIN ses |-> ses[i]]
  /\ \A i \in DOMAIN ses :
       ses[i] \in DOMAIN sc.calls /\ ForOne(sc, ses[i]) /\ sc.calls[ses[i]].id = i /\ lg[ses[i]] # "none"
\* The log has an entry of a request from the moment it was looked at and found sound.
CallLogged(sc, lg, c, phase) ==
  ForOne(sc, c) =>
    /\ phase # "wave"
    /\ phase \in {"open", "waiting"} => lg[c] # "none"
    /\ phase = "new" => lg[c] = "none"

ServerTypes ==
  /\ s \in Scenarios
  /\ down \in [Agents \cup {Server} -> SUBSET Agents]
  /\ call \in [DOMAIN s.calls -> Call]
  /\ SessionsOK(s, log, sessions)
  /\ DOMAIN result = DOMAIN s.calls /\ result = [c \in DOMAIN s.calls |-> result[c]]
  /\ \A c \in DOMAIN s.calls : ResultOK(s, log, c, result[c])
  /\ log \in [DOMAIN s.calls -> Statuses]
  /\ updates \subseteq [call : DOMAIN s.calls, status : Outcomes]
  /\ \A u \in updates : Single(u.call) /\ Request(u.call).kind = "exec" /\ log[u.call] # "none"
  /\ \A c \in DOMAIN s.calls : CallLogged(s, log, c, call[c].phase)

InboxOK ==
  /\ inbox = [a \in Agents |-> inbox[a]]
  /\ \A a \in Agents : MessagesOK(s, log, inbox[a])
WireOK ==
  /\ wire = [a \in Agents |-> wire[a]]
  /\ \A a \in Agents : ReportsOK(s, log, wire[a])
OpsOK == \A o \in ops : OpOK(s, log, o)
DiskOK ==
  /\ disk = [a \in Agents |-> disk[a]]
  /\ runs \in [Agents -> [DOMAIN s.calls -> Nat]]

TypeOK == ServerTypes /\ InboxOK /\ WireOK /\ OpsOK /\ DiskOK

\* What a caller was or will be told is the answer in its session's channel, and that
\* is of the agent it named.
ToldInv ==
  \A c \in DOMAIN s.calls :
    /\ result[c] # <<>> => result[c][1].agent = Request(c).target
    /\ call[c].reply.agent # None =>
         Single(c) /\ call[c].phase = "done" /\ result[c] # <<>>
         /\ call[c].reply = [status |-> result[c][1].status, agent |-> result[c][1].agent]

\* A command that was taken up once is in one place: at its agent, on its way to the
\* server, or accounted for - in the channel, or with an update of the log to be made.
Alone(c) == Single(c) /\ SameId(c) = {c} /\ runs[Request(c).target][c] <= 1
Response(z, i, c) == i \in 1..Len(wire[z]) /\ wire[z][i].t = "response" /\ wire[z][i].call = c
AtWork(c) == \E o \in ops : o.call = c
UnderWay(c) == \E z \in Agents : \E i \in 1..Len(wire[z]) : Response(z, i, c)
Accounted(c) == result[c] # <<>> \/ \E u \in updates : u.call = c
OnePlace(c) ==
  /\ runs[Request(c).target][c] = 0 => ~AtWork(c) /\ ~UnderWay(c) /\ ~Accounted(c)
  /\ AtWork(c) => ~UnderWay(c) /\ ~Accounted(c)
  /\ UnderWay(c) => ~Accounted(c)
  /\ \A o, x \in ops : o.call = c /\ x.call = c => o = x
  /\ \A y, z \in Agents : \A i \in 1..Len(wire[y]), j \in 1..Len(wire[z]) : Response(y, i, c) /\ Response(z, j, c) => y = z /\ i = j
LogFollows(c) ==
  result[c] # <<>> =>
    /\ \A u \in updates : u.call = c => u.status = result[c][1].status
    /\ (\E u \in updates : u.call = c) \/ log[c] = result[c][1].status
FileLog(c) ==
  /\ call[c].phase \in {"open", "waiting"} => log[c] = "open"
  /\ call[c].reply.agent # None => log[c] = call[c].reply.status
LogInv ==
  \A c \in DOMAIN s.calls :
    /\ Alone(c) /\ Request(c).kind = "exec" => OnePlace(c) /\ LogFollows(c)
    /\ Single(c) /\ SameId(c) = {c} /\ Request(c).kind # "exec" => FileLog(c)

\* Past its gate an operation was not refused; a file that is not what a failed write
\* leaves belongs to an operation that will take it away.
DiskInv ==
  /\ \A o \in ops : o.step \in {"write", "writing", "stat", "run"} =>
       Refusal(s.config, Request(o.call), Request(o.call).verdict) = "none"
  /\ \A a \in Agents, c \in DOMAIN s.calls :
       LET f == FileOf(Request(c), c) IN
       f \in DOMAIN disk[a] =>
         /\ f[1] # "file" => Refusal(s.config, Request(c), Request(c).verdict) = "none"
         /\ a \notin dead /\ Request(c).kind \in {"exec", "deploy"} /\ disk[a][f] \notin {"absent", WriteFailed(Request(c))} =>
              \E o \in ops : o.agent = a /\ o.call = c /\ o.step \in {"writing", "run"}

ExecInv == TypeOK /\ ToldInv /\ LogInv /\ DiskInv /\ RunsAsAsked

-----------------------------------------------------------------------------
(***************************************************************************)
(* Sequences of whatever.                                                  *)
(***************************************************************************)
LEMMA ShortSeqs == IsSeq(<<>>) /\ Len(<<>>) = 0 /\ \A m : IsSeq(<<m>>) /\ Len(<<m>>) = 1 /\ <<m>>[1] = m
<1>1. <<>> \in Seq({}) /\ \A m : <<m>> \in Seq({m})
  OBVIOUS
<1>2. QED
  BY <1>1 DEF IsSeq

LEMMA SeqConcat ==
  ASSUME NEW q, NEW r, IsSeq(q), IsSeq(r)
  PROVE  /\ IsSeq(q \o r) /\ Len(q) \in Nat /\ Len(r) \in Nat /\ Len(q \o r) = Len(q) + Len(r)
         /\ \A i \in 1..Len(q) : (q \o r)[i] = q[i]
         /\ \A i \in 1..Len(q \o r) : i \notin 1..Len(q) => i - Len(q) \in 1..Len(r) /\ (q \o r)[i] = r[i - Len(q)]
<1>1. PICK S : q \in Seq(S)
  BY DEF IsSeq
<1>2. PICK T : r \in Seq(T)
  BY DEF IsSeq
<1>3. q \in Seq(S \cup T) /\ r \in Seq(S \cup T)
  BY <1>1, <1>2
<1>4. q \o r \in Seq(S \cup T)
  BY <1>3
<1>5. QED
  BY <1>3, <1>4 DEF IsSeq

LEMMA SeqTail ==
  ASSUME NEW q, IsSeq(q), q # <<>>
  PROVE  /\ IsSeq(Tail(q)) /\ Len(q) \in Nat \ {0} /\ Len(Tail(q)) = Len(q) - 1
         /\ Head(q) = q[1]
         /\ \A i \in 1..Len(Tail(q)) : i + 1 \in 1..Len(q) /\ Tail(q)[i] = q[i + 1]
<1>1. PICK S : q \in Seq(S)
  BY DEF IsSeq
<1>2. QED
  BY <1>1 DEF IsSeq

-----------------------------------------------------------------------------
(***************************************************************************)
(* Types: the parts of the state a step may leave alone.                   *)
(***************************************************************************)
\* Entries of the log are never taken back.
Keeps(sc, lg, lg2) == \A c \in DOMAIN sc.calls : lg[c] # "none" => lg2[c] # "none"

LEMMA MessagesStay ==
  ASSUME NEW sc, NEW lg, NEW lg2, Keeps(sc, lg, lg2), NEW q, MessagesOK(sc, lg, q)
  PROVE  MessagesOK(sc, lg2, q)
  BY DEF Keeps, MessagesOK, MessageOK, Known

LEMMA ReportsStay ==
  ASSUME NEW sc, NEW lg, NEW lg2, Keeps(sc, lg, lg2), NEW q, ReportsOK(sc, lg, q)
  PROVE  ReportsOK(sc, lg2, q)
  BY DEF Keeps, ReportsOK, ReportOK, Known

LEMMA OpStays ==
  ASSUME NEW sc, NEW lg, NEW lg2, Keeps(sc, lg, lg2), NEW o, OpOK(sc, lg, o)
  PROVE  OpOK(sc, lg2, o)
<1>1. o.call \in DOMAIN sc.calls
  BY DEF OpOK, Ops
<1>2. QED
  BY <1>1 DEF Keeps, OpOK, Known

\* A step that leaves all of them alone, or only the log's entries.
LEMMA AgentsStay ==
  ASSUME s' = s, Keeps(s, log, log')
  PROVE  /\ InboxOK /\ inbox' = inbox => InboxOK'
         /\ WireOK /\ wire' = wire => WireOK'
         /\ OpsOK /\ ops' = ops => OpsOK'
         /\ DiskOK /\ UNCHANGED <<disk, runs>> => DiskOK'
<1>1. InboxOK /\ inbox' = inbox => InboxOK'
  BY MessagesStay DEF InboxOK
<1>2. WireOK /\ wire' = wire => WireOK'
  BY ReportsStay DEF WireOK
<1>3. OpsOK /\ ops' = ops => OpsOK'
  BY OpStays DEF OpsOK
<1>4. QED
  BY <1>1, <1>2, <1>3 DEF DiskOK

-----------------------------------------------------------------------------
(***************************************************************************)
(* Types: queues are extended, cut or emptied.                             *)
(***************************************************************************)
LEMMA MessagesExtend ==
  ASSUME NEW sc, NEW lg, NEW q, NEW r, MessagesOK(sc, lg, q), MessagesOK(sc, lg, r)
  PROVE  MessagesOK(sc, lg, q \o r)
  BY SeqConcat DEF MessagesOK

LEMMA MessagesShrink ==
  ASSUME NEW sc, NEW lg
  PROVE  /\ MessagesOK(sc, lg, <<>>)
         /\ \A m : MessageOK(sc, lg, m) => MessagesOK(sc, lg, <<m>>)
         /\ \A q : MessagesOK(sc, lg, q) /\ q # <<>> => MessagesOK(sc, lg, Tail(q)) /\ MessageOK(sc, lg, Head(q))
<1>1. MessagesOK(sc, lg, <<>>)
  BY ShortSeqs DEF MessagesOK
<1>2. ASSUME NEW m, MessageOK(sc, lg, m) PROVE MessagesOK(sc, lg, <<m>>)
  <2>1. \A i \in 1..Len(<<m>>) : <<m>>[i] = m
    BY ShortSeqs
  <2>2. QED
    BY <1>2, <2>1, ShortSeqs DEF MessagesOK
<1>3. ASSUME NEW q, MessagesOK(sc, lg, q), q # <<>>
      PROVE  MessagesOK(sc, lg, Tail(q)) /\ MessageOK(sc, lg, Head(q))
  <2>1. IsSeq(q) /\ 1 \in 1..Len(q)
    BY <1>3, SeqTail DEF MessagesOK
  <2>2. QED
    BY <1>3, <2>1, SeqTail DEF MessagesOK
<1>4. QED
  BY <1>1, <1>2, <1>3

LEMMA ReportsExtend ==
  ASSUME NEW sc, NEW lg, NEW q, NEW r, ReportsOK(sc, lg, q), ReportsOK(sc, lg, r)
  PROVE  ReportsOK(sc, lg, q \o r)
  BY SeqConcat DEF ReportsOK

LEMMA ReportsShrink ==
  ASSUME NEW sc, NEW lg
  PROVE  /\ ReportsOK(sc, lg, <<>>)
         /\ \A m : ReportOK(sc, lg, m) => ReportsOK(sc, lg, <<m>>)
         /\ \A q : ReportsOK(sc, lg, q) /\ q # <<>> => ReportsOK(sc, lg, Tail(q)) /\ ReportOK(sc, lg, Head(q))
<1>1. ReportsOK(sc, lg, <<>>)
  BY ShortSeqs DEF ReportsOK
<1>2. ASSUME NEW m, ReportOK(sc, lg, m) PROVE ReportsOK(sc, lg, <<m>>)
  <2>1. \A i \in 1..Len(<<m>>) : <<m>>[i] = m
    BY ShortSeqs
  <2>2. QED
    BY <1>2, <2>1, ShortSeqs DEF ReportsOK
<1>3. ASSUME NEW q, ReportsOK(sc, lg, q), q # <<>>
      PROVE  ReportsOK(sc, lg, Tail(q)) /\ ReportOK(sc, lg, Head(q))
  <2>1. IsSeq(q) /\ 1 \in 1..Len(q)
    BY <1>3, SeqTail DEF ReportsOK
  <2>2. QED
    BY <1>3, <2>1, SeqTail DEF ReportsOK
<1>4. QED
  BY <1>1, <1>2, <1>3

LEMMA InboxAdd ==
  ASSUME NEW sc, NEW lg, NEW m, MessageOK(sc, lg, m), NEW who, NEW from, NEW a \in Agents, MessagesOK(sc, lg, inbox[a])
  PROVE  MessagesOK(sc, lg, Deliver(inbox, To(from, who, m))[a])
<1>1. Deliver(inbox, To(from, who, m))[a] = inbox[a] \o <<m>> \/ Deliver(inbox, To(from, who, m))[a] = inbox[a] \o <<>>
  BY DEF Deliver, To
<1>2. QED
  BY <1>1, MessagesShrink, MessagesExtend

LEMMA WireAdd ==
  ASSUME WireOK, NEW z, NEW ms, ReportsOK(s, log, ms), wire' = [wire EXCEPT ![z] = @ \o ms], s' = s, log' = log
  PROVE  WireOK'
<1>1. ASSUME NEW a \in Agents PROVE ReportsOK(s, log, wire'[a])
  BY ReportsExtend DEF WireOK
<1>2. wire' = [a \in Agents |-> wire'[a]]
  BY DEF WireOK
<1>3. QED
  BY <1>1, <1>2 DEF WireOK

LEMMA WireCut ==
  ASSUME WireOK, NEW a \in Agents, s' = s, log' = log,
         \/ wire' = [wire EXCEPT ![a] = <<>>]
         \/ wire[a] # <<>> /\ wire' = [wire EXCEPT ![a] = Tail(@)]
  PROVE  WireOK'
<1>1. ASSUME NEW b \in Agents PROVE ReportsOK(s, log, wire'[b])
  BY ReportsShrink DEF WireOK
<1>2. wire' = [b \in Agents |-> wire'[b]]
  BY DEF WireOK
<1>3. QED
  BY <1>1, <1>2 DEF WireOK

-----------------------------------------------------------------------------
(***************************************************************************)
(* Types: the server's side.                                               *)
(***************************************************************************)
LEMMA StatusType == \A defect : StatusOf(defect) \in Statuses
  BY DEF StatusOf, Statuses

LEMMA PhaseUpdate ==
  ASSUME NEW x \in Call, NEW v \in Phases
  PROVE  /\ [x EXCEPT !.phase = v] \in Call
         /\ [x EXCEPT !.phase = v].phase = v
         /\ [x EXCEPT !.phase = v].reply = x.reply
  BY DEF Call

LEMMA ReplyUpdate ==
  ASSUME NEW x \in Call, NEW v \in Phases, NEW r \in Reply
  PROVE  /\ [x EXCEPT !.phase = v, !.reply = r] \in Call
         /\ [x EXCEPT !.phase = v, !.reply = r].phase = v
         /\ [x EXCEPT !.phase = v, !.reply = r].reply = r
  BY DEF Call

LEMMA RefuseTypes ==
  ASSUME ServerTypes, NEW c \in DOMAIN s.calls, NEW defect, Refuse(c, defect)
  PROVE  /\ call' \in [DOMAIN s.calls -> Call]
         /\ call'[c].phase = "done" /\ call'[c].reply.agent = None
         /\ \A d \in DOMAIN s.calls \ {c} : call'[d] = call[d]
         /\ sessions' = sessions
<1> DEFINE r == [status |-> StatusOf(defect), agent |-> None]
<1>1. r \in Reply /\ r.agent = None
  BY StatusType DEF Reply
<1>2. call' = [call EXCEPT ![c] = [call[c] EXCEPT !.phase = "done", !.reply = r]] /\ sessions' = sessions
  BY DEF Refuse
<1>3. call[c] \in Call /\ "done" \in Phases
  BY DEF Phases, ServerTypes
<1> HIDE DEF r
<1> DEFINE x == [call[c] EXCEPT !.phase = "done", !.reply = r]
<1>4. x \in Call /\ x.phase = "done" /\ x.reply = r
  <2> DEFINE y == call[c]
  <2>1. y \in Call
    BY <1>3
  <2> HIDE DEF y
  <2>2. /\ [y EXCEPT !.phase = "done", !.reply = r] \in Call
        /\ [y EXCEPT !.phase = "done", !.reply = r].phase = "done"
        /\ [y EXCEPT !.phase = "done", !.reply = r].reply = r
    BY <1>1, <2>1 DEF Call, Phases
  <2>3. QED
    BY <2>2 DEF x, y
<1> HIDE DEF x
<1>5. call' = [call EXCEPT ![c] = x]
  BY <1>2 DEF x
<1>6. QED
  BY <1>1, <1>2, <1>4, <1>5 DEF ServerTypes

LEMMA OpenTypes ==
  ASSUME ServerTypes, NEW c \in DOMAIN s.calls, Single(c), OpenSession(c), Logged(c)
  PROVE  /\ call' \in [DOMAIN s.calls -> Call]
         /\ call'[c].phase = "open" /\ call'[c].reply = call[c].reply
         /\ \A d \in DOMAIN s.calls \ {c} : call'[d] = call[d]
         /\ SessionsOK(s, log', sessions')
<1>1. call' = [call EXCEPT ![c] = [call[c] EXCEPT !.phase = "open"]] /\ call[c] \in Call /\ "open" \in Phases
  BY DEF Phases, OpenSession, ServerTypes
<1> DEFINE x == [call[c] EXCEPT !.phase = "open"]
<1>2. x \in Call /\ x.phase = "open" /\ x.reply = call[c].reply
  BY <1>1, PhaseUpdate
<1> HIDE DEF x
<1>3. call' = [call EXCEPT ![c] = x]
  BY <1>1 DEF x
<1>4. sessions' = [i \in DOMAIN sessions \cup {s.calls[c].id} |-> IF i = s.calls[c].id THEN c ELSE sessions[i]]
  BY DEF OpenSession, Request
<1>5. log' = [log EXCEPT ![c] = "open"] /\ log \in [DOMAIN s.calls -> Statuses] /\ ForOne(s, c) /\ SessionsOK(s, log, sessions)
  BY DEF Logged, ServerTypes, Single, ForOne, Request
<1>6. SessionsOK(s, log', sessions')
  BY <1>4, <1>5 DEF SessionsOK
<1>7. QED
  BY <1>2, <1>3, <1>6 DEF ServerTypes

LEMMA ForgetTypes ==
  ASSUME ServerTypes, NEW c
  PROVE  SessionsOK(s, log, Forget(c))
  BY DEF Forget, ServerTypes, SessionsOK

LEMMA ClosedTypes ==
  ASSUME ServerTypes, NEW c, NEW status \in Outcomes
  PROVE  Closed(c, status) \in [DOMAIN s.calls -> Statuses] /\ Keeps(s, log, Closed(c, status))
  BY DEF Closed, ServerTypes, Keeps, Outcomes, Statuses

LEMMA SessionsStay ==
  ASSUME NEW lg2, NEW ses, Keeps(s, log, lg2), SessionsOK(s, log, ses)
  PROVE  SessionsOK(s, lg2, ses)
  BY DEF Keeps, SessionsOK

\* What the server's types need of a step that adds nothing to channels and updates.
LEMMA ServerStep ==
  ASSUME ServerTypes, s' = s, down' \in [Agents \cup {Server} -> SUBSET Agents], result' = result, updates' \subseteq updates,
         call' \in [DOMAIN s.calls -> Call], SessionsOK(s, log', sessions'),
         log' \in [DOMAIN s.calls -> Statuses], Keeps(s, log, log'),
         \A c \in DOMAIN s.calls : CallLogged(s, log', c, call'[c].phase)
  PROVE  ServerTypes'
<1>1. \A c \in DOMAIN s.calls : ResultOK(s, log', c, result[c])
  BY DEF ServerTypes, ResultOK, Keeps
<1>2. QED
  BY <1>1 DEF ServerTypes, Single, Request, Keeps

\* The handlers of a request for one agent.
LEMMA HandleTypes ==
  ASSUME ServerTypes, NEW c \in DOMAIN s.calls, HandleExecCommand(c) \/ HandlePutFile(c) \/ HandleFetchFile(c)
  PROVE  /\ ServerTypes' /\ s' = s /\ Keeps(s, log, log')
         /\ UNCHANGED <<meshVars, agentVars, result, updates>>
         /\ call[c].phase = "new" /\ Single(c)
         /\ call'[c].phase \in {"open", "done"}
         /\ call'[c].phase = "open" => call'[c].reply = call[c].reply
         /\ call'[c].phase = "done" => call'[c].reply.agent = None
         /\ \A d \in DOMAIN s.calls \ {c} : call'[d] = call[d] /\ log'[d] = log[d]
         /\ call'[c].phase = "open" => log'[c] = "open"
<1>1. /\ call[c].phase = "new" /\ Single(c) /\ ForOne(s, c) /\ s' = s /\ UNCHANGED <<meshVars, agentVars, result, updates>>
      /\ \/ \E defect : Refuse(c, defect) /\ (log' = log \/ Logged(c))
         \/ OpenSession(c) /\ Logged(c)
  BY DEF HandleExecCommand, HandlePutFile, HandleFetchFile, Asked, Single, ForOne, Request
<1>2. ASSUME log' = log \/ Logged(c)
      PROVE  /\ log' \in [DOMAIN s.calls -> Statuses] /\ Keeps(s, log, log')
             /\ \A d \in DOMAIN s.calls \ {c} : log'[d] = log[d]
             /\ Logged(c) => log'[c] = "open"
  BY <1>2 DEF Logged, ServerTypes, Statuses, Keeps
<1>3. down' \in [Agents \cup {Server} -> SUBSET Agents]
  BY <1>1 DEF meshVars, ServerTypes
<1>4. ASSUME NEW defect, Refuse(c, defect), log' = log \/ Logged(c)
      PROVE  /\ ServerTypes' /\ Keeps(s, log, log') /\ call'[c].phase = "done" /\ call'[c].reply.agent = None
             /\ \A d \in DOMAIN s.calls \ {c} : call'[d] = call[d] /\ log'[d] = log[d]
  <2>1. \A d \in DOMAIN s.calls : CallLogged(s, log', d, call'[d].phase)
    <3>1. CallLogged(s, log', c, call'[c].phase)
      BY <1>4, RefuseTypes DEF CallLogged
    <3>2. ASSUME NEW d \in DOMAIN s.calls \ {c} PROVE CallLogged(s, log', d, call'[d].phase)
      BY <1>2, <1>4, RefuseTypes DEF ServerTypes, CallLogged
    <3>3. QED
      BY <3>1, <3>2
  <2>2. SessionsOK(s, log', sessions')
    BY <1>2, <1>4, RefuseTypes, SessionsStay DEF ServerTypes
  <2>3. QED
    BY <1>1, <1>2, <1>3, <1>4, <2>1, <2>2, RefuseTypes, ServerStep
<1>5. ASSUME OpenSession(c), Logged(c)
      PROVE  /\ ServerTypes' /\ Keeps(s, log, log') /\ call'[c].phase = "open" /\ call'[c].reply = call[c].reply
             /\ \A d \in DOMAIN s.calls \ {c} : call'[d] = call[d] /\ log'[d] = log[d]
             /\ log'[c] = "open"
  <2>1. \A d \in DOMAIN s.calls : CallLogged(s, log', d, call'[d].phase)
    <3>1. CallLogged(s, log', c, call'[c].phase)
      BY <1>1, <1>2, <1>5, OpenTypes DEF CallLogged
    <3>2. ASSUME NEW d \in DOMAIN s.calls \ {c} PROVE CallLogged(s, log', d, call'[d].phase)
      <4>1. call'[d] = call[d]
        BY <1>1, <1>5, OpenTypes
      <4>2. log'[d] = log[d]
        BY <1>2, <1>5
      <4>3. CallLogged(s, log, d, call[d].phase)
        BY DEF ServerTypes
      <4>4. QED
        BY <4>1, <4>2, <4>3 DEF CallLogged
    <3>3. QED
      BY <3>1, <3>2
  <2>2. QED
    BY <1>1, <1>2, <1>3, <1>5, <2>1, OpenTypes, ServerStep
<1>6. QED
  BY <1>1, <1>4, <1>5

-----------------------------------------------------------------------------
(***************************************************************************)
(* Types: steps of the server that tell no caller anything new.            *)
(***************************************************************************)
Running == {"open", "waiting"}
NoNews(one, x, y) ==
  /\ y.reply.agent = None \/ (y.reply = x.reply /\ (x.phase = "done" => y.phase = "done"))
  /\ one => y.phase # "wave" /\ (y.phase = "new" => x.phase = "new") /\ (y.phase \in Running => x.phase \in Running)
Quiet(sc, old, new) == \A d \in DOMAIN sc.calls : NoNews(ForOne(sc, d), old[d], new[d])

LEMMA QuietStep ==
  ASSUME ServerTypes, s' = s, down' \in [Agents \cup {Server} -> SUBSET Agents], UNCHANGED <<result, updates, log>>,
         call' \in [DOMAIN s.calls -> Call], SessionsOK(s, log, sessions'), Quiet(s, call, call')
  PROVE  ServerTypes'
<1>1. \A d \in DOMAIN s.calls : CallLogged(s, log, d, call'[d].phase)
  BY DEF ServerTypes, Quiet, NoNews, CallLogged, Running
<1>2. log \in [DOMAIN s.calls -> Statuses] /\ Keeps(s, log, log)
  BY DEF ServerTypes, Keeps
<1>3. QED
  BY <1>1, <1>2, ServerStep

LEMMA QuietUpdate ==
  ASSUME ServerTypes, NEW c \in DOMAIN s.calls, NEW x \in Call, call' = [call EXCEPT ![c] = x],
         NoNews(ForOne(s, c), call[c], x)
  PROVE  call' \in [DOMAIN s.calls -> Call] /\ Quiet(s, call, call')
<1>1. call \in [DOMAIN s.calls -> Call]
  BY DEF ServerTypes
<1>2. \A d \in DOMAIN s.calls \ {c} : NoNews(ForOne(s, d), call[d], call'[d])
  <2>1. ASSUME NEW d \in DOMAIN s.calls \ {c} PROVE call'[d] = call[d] /\ (ForOne(s, d) => call[d].phase # "wave")
    BY <1>1 DEF ServerTypes, CallLogged
  <2>2. QED
    BY <2>1 DEF NoNews
<1>3. QED
  BY <1>1, <1>2 DEF Quiet

\* A call ends with a reply of nobody, or is waited for, or its waves are begun.
LEMMA EndUpdate ==
  ASSUME NEW x \in Call, NEW r \in Reply, r.agent = None, NEW one
  PROVE  [x EXCEPT !.phase = "done", !.reply = r] \in Call /\ NoNews(one, x, [x EXCEPT !.phase = "done", !.reply = r])
  BY DEF Call, Phases, NoNews, Running

LEMMA SendTypes ==
  ASSUME TypeOK, NEW c \in DOMAIN s.calls, Send(c)
  PROVE  TypeOK' /\ Quiet(s, call, call') /\ UNCHANGED <<s, wire, result, log, updates, agentVars>>
<1>1. UNCHANGED <<s, down, wire, result, log, updates, agentVars>> /\ call[c].phase = "open" /\ ServerTypes /\ Single(c)
  BY DEF Send, TypeOK
<1>2. ForOne(s, c) /\ log[c] # "none" /\ call[c] \in Call /\ Request(c).target \in Agents
  BY <1>1, ScenariosAssumption DEF ServerTypes, CallLogged, Single, ForOne, Request
<1> DEFINE a == Request(c).target
           path == Path(a)
           direct == a \in down[Server]
           routed == ~direct /\ path # <<>> /\ path[1] \in down[Server]
           p == IF routed THEN path ELSE <<>>
           m == SetRelayPath([call |-> c, wave |-> 0, targets |-> {a}, path |-> <<>>], p)
           to == CASE direct -> {a} [] routed -> {path[1]} [] OTHER -> down[Server]
           v == IF direct \/ routed THEN "yes" ELSE "no"
           y == call[c]
           r == [status |-> "not sent", agent |-> None]
<1>3. r \in Reply /\ r.agent = None /\ y \in Call /\ y.phase = "open" /\ v \in YesNo
  BY <1>1, <1>2 DEF Reply, Statuses, YesNo
<1> HIDE DEF p
<1>4. PICK sent \in SUBSET to :
         \/ /\ call' = [call EXCEPT ![c].phase = "done", ![c].reply = [status |-> "not sent", agent |-> None]]
            /\ sessions' = Forget(c) /\ inbox' = inbox
         \/ /\ call' = [call EXCEPT ![c].phase = "waiting", ![c].routed = v]
            /\ inbox' = Deliver(inbox, To(Server, sent, m)) /\ sessions' = sessions
  BY DEF Send, p
<1>5. MessageOK(s, log, m)
  <2>1. m.call = c /\ m.wave = 0 /\ m.targets = {Request(c).target}
    BY DEF SetRelayPath
  <2> HIDE DEF m
  <2>2. QED
    BY <1>2, <2>1 DEF MessageOK, Known, Request
<1>a. \/ /\ call' = [call EXCEPT ![c] = [y EXCEPT !.phase = "done", !.reply = r]]
         /\ sessions' = Forget(c) /\ inbox' = inbox
      \/ /\ call' = [call EXCEPT ![c] = [y EXCEPT !.phase = "waiting", !.routed = v]]
         /\ inbox' = Deliver(inbox, To(Server, sent, m)) /\ sessions' = sessions
  <2> HIDE DEF m, v
  <2>1. QED
    BY <1>4
<1> HIDE DEF m, v, y, r
<1>6. Keeps(s, log, log')
  BY <1>1 DEF Keeps
<1>7. CASE /\ call' = [call EXCEPT ![c] = [y EXCEPT !.phase = "done", !.reply = r]]
           /\ sessions' = Forget(c) /\ inbox' = inbox
  <2> DEFINE x == [y EXCEPT !.phase = "done", !.reply = r]
  <2>1. x \in Call /\ NoNews(ForOne(s, c), call[c], x)
    BY <1>3, EndUpdate DEF y
  <2>2. call' = [call EXCEPT ![c] = x]
    BY <1>7
  <2> HIDE DEF x
  <2>3. call' \in [DOMAIN s.calls -> Call] /\ Quiet(s, call, call')
    BY <1>1, <2>1, <2>2, QuietUpdate
  <2>4. ServerTypes'
    BY <1>1, <1>7, <2>3, QuietStep, ForgetTypes DEF ServerTypes
  <2>5. QED
    BY <1>1, <1>6, <1>7, <2>3, <2>4, AgentsStay DEF TypeOK, agentVars
<1>8. CASE /\ call' = [call EXCEPT ![c] = [y EXCEPT !.phase = "waiting", !.routed = v]]
           /\ inbox' = Deliver(inbox, To(Server, sent, m)) /\ sessions' = sessions
  <2> DEFINE x == [y EXCEPT !.phase = "waiting", !.routed = v]
  <2>1. x \in Call /\ NoNews(ForOne(s, c), y, x)
    BY <1>3 DEF Call, Phases, NoNews, Running
  <2>2. call' = [call EXCEPT ![c] = x]
    BY <1>8
  <2> HIDE DEF x
  <2>3. call' \in [DOMAIN s.calls -> Call] /\ Quiet(s, call, call')
    BY <1>1, <2>1, <2>2, QuietUpdate DEF y
  <2>4. ServerTypes'
    BY <1>1, <1>8, <2>3, QuietStep DEF ServerTypes
  <2>5. \A b \in Agents : MessagesOK(s, log, inbox'[b])
    BY <1>5, <1>8, InboxAdd DEF TypeOK, InboxOK
  <2>6. inbox' = [b \in Agents |-> inbox'[b]]
    BY <1>8 DEF Deliver
  <2>7. InboxOK'
    BY <1>1, <2>5, <2>6 DEF InboxOK
  <2>8. QED
    BY <1>1, <1>6, <2>3, <2>4, <2>7, AgentsStay DEF TypeOK, agentVars
<1>9. QED
  BY <1>a, <1>7, <1>8

LEMMA TimeoutTypes ==
  ASSUME TypeOK, NEW c \in DOMAIN s.calls, Timeout(c)
  PROVE  TypeOK' /\ Quiet(s, call, call') /\ UNCHANGED <<s, meshVars, result, log, updates, agentVars>>
<1>1. UNCHANGED <<s, meshVars, result, log, updates, agentVars>> /\ call[c].phase = "waiting" /\ ServerTypes /\ call[c] \in Call
  BY DEF Timeout, TypeOK, ServerTypes
<1> DEFINE y == call[c]
           r == [status |-> "timeout", agent |-> None]
<1>2. r \in Reply /\ r.agent = None /\ y \in Call
  BY <1>1 DEF Reply, Statuses
<1>3. call' = [call EXCEPT ![c] = [y EXCEPT !.phase = "done", !.reply = r]] /\ sessions' = Forget(c)
  BY DEF Timeout
<1> HIDE DEF y, r
<1> DEFINE x == [y EXCEPT !.phase = "done", !.reply = r]
<1>4. x \in Call /\ NoNews(ForOne(s, c), call[c], x)
  BY <1>2, EndUpdate DEF y
<1>5. call' = [call EXCEPT ![c] = x]
  BY <1>3
<1> HIDE DEF x
<1>6. call' \in [DOMAIN s.calls -> Call] /\ Quiet(s, call, call')
  BY <1>1, <1>4, <1>5, QuietUpdate
<1>7. ServerTypes'
  BY <1>1, <1>3, <1>6, QuietStep, ForgetTypes DEF ServerTypes, meshVars
<1>8. Keeps(s, log, log')
  BY <1>1 DEF Keeps
<1>9. QED
  BY <1>1, <1>6, <1>7, <1>8, AgentsStay DEF TypeOK, agentVars, meshVars

LEMMA AnswerTypes ==
  ASSUME TypeOK, ToldInv, NEW c \in DOMAIN s.calls, AnswerExecCommand(c) \/ AnswerPutFile(c) \/ AnswerFetchFile(c)
  PROVE  /\ TypeOK' /\ UNCHANGED <<s, meshVars, result, updates, agentVars>>
         /\ Single(c) /\ result[c] # <<>> /\ call[c].phase = "waiting"
         /\ call'[c].phase = "done" /\ call'[c].reply = [status |-> result[c][1].status, agent |-> result[c][1].agent]
         /\ \A d \in DOMAIN s.calls \ {c} : call'[d] = call[d]
         /\ \/ Request(c).kind = "exec" /\ log' = log
            \/ Request(c).kind # "exec" /\ log' = Closed(c, result[c][1].status)
<1>1. PICK kind :
         /\ Answer(c, kind) /\ Request(c).kind = kind
         /\ \/ kind = "exec" /\ log' = log
            \/ kind # "exec" /\ log' = Closed(c, result[c][1].status)
  <2>1. AnswerExecCommand(c) => Answer(c, "exec") /\ log' = log
    BY DEF AnswerExecCommand
  <2>2. AnswerPutFile(c) => Answer(c, "put") /\ log' = Closed(c, result[c][1].status)
    BY DEF AnswerPutFile
  <2>3. AnswerFetchFile(c) => Answer(c, "fetch") /\ log' = Closed(c, result[c][1].status)
    BY DEF AnswerFetchFile
  <2>4. \A kind : Answer(c, kind) => Request(c).kind = kind
    BY DEF Answer
  <2>5. QED
    BY <2>1, <2>2, <2>3, <2>4
<1>2. UNCHANGED <<s, meshVars, result, updates, agentVars>> /\ call[c].phase = "waiting" /\ ServerTypes /\ call[c] \in Call
      /\ Single(c) /\ result[c] # <<>>
  BY <1>1 DEF Answer, TypeOK, ServerTypes
<1>3. result[c][1].agent \in Agents /\ result[c][1].status \in Outcomes
  BY <1>2, ScenariosAssumption DEF ToldInv, ServerTypes, ResultOK, Single, Request
<1> DEFINE y == call[c]
           r == [status |-> result[c][1].status, agent |-> result[c][1].agent]
<1>4. r \in Reply /\ y \in Call
  BY <1>2, <1>3 DEF Reply, Statuses
<1>5. call' = [call EXCEPT ![c] = [y EXCEPT !.phase = "done", !.reply = r]] /\ sessions' = Forget(c)
  BY <1>1 DEF Answer
<1>6. log' \in [DOMAIN s.calls -> Statuses] /\ Keeps(s, log, log')
  <2>1. CASE log' = log
    BY <1>2, <2>1 DEF ServerTypes, Keeps
  <2>2. CASE log' = Closed(c, result[c][1].status)
    <3> DEFINE status == result[c][1].status
    <3>1. status \in Outcomes
      BY <1>3
    <3> HIDE DEF status
    <3>2. Closed(c, status) \in [DOMAIN s.calls -> Statuses] /\ Keeps(s, log, Closed(c, status))
      BY <1>2, <3>1, ClosedTypes
    <3>3. log' = Closed(c, status)
      BY <2>2 DEF status
    <3>4. QED
      BY <3>2, <3>3
  <2>3. QED
    BY <1>1, <2>1, <2>2
<1>7. call'[c].phase = "done" /\ call'[c].reply = r /\ call' \in [DOMAIN s.calls -> Call]
      /\ \A d \in DOMAIN s.calls \ {c} : call'[d] = call[d]
  <2> HIDE DEF r, y
  <2> DEFINE x == [y EXCEPT !.phase = "done", !.reply = r]
  <2>1. x \in Call /\ x.phase = "done" /\ x.reply = r
    BY <1>4 DEF Call, Phases
  <2>2. call' = [call EXCEPT ![c] = x]
    BY <1>5
  <2> HIDE DEF x
  <2>3. QED
    BY <1>2, <2>1, <2>2 DEF ServerTypes
<1> HIDE DEF r, y
<1>8. ServerTypes'
  <2>1. SessionsOK(s, log', sessions')
    BY <1>2, <1>5, <1>6, ForgetTypes, SessionsStay
  <2>2. ASSUME NEW d \in DOMAIN s.calls PROVE CallLogged(s, log', d, call'[d].phase)
    <3>1. \A e \in DOMAIN s.calls : log[e] = "none" => log'[e] = "none"
      BY <1>1, <1>2, <1>3 DEF Closed, ServerTypes
    <3>2. CASE d = c
      BY <1>7, <3>2 DEF CallLogged
    <3>3. CASE d # c
      BY <1>2, <1>6, <1>7, <3>1, <3>3 DEF ServerTypes, CallLogged, Keeps
    <3>4. QED
      BY <3>2, <3>3
  <2>3. QED
    BY <1>2, <1>6, <1>7, <2>1, <2>2, ServerStep DEF ServerTypes, meshVars
<1>9. QED
  BY <1>1, <1>2, <1>6, <1>7, <1>8, AgentsStay DEF TypeOK, agentVars, meshVars, r

LEMMA SeqOf ==
  ASSUME NEW S, NEW n \in Nat, NEW w \in [1..n -> S]
  PROVE  w \in Seq(S)
  OBVIOUS

LEMMA SeqElements ==
  ASSUME NEW S, NEW q \in Seq(S)
  PROVE  IsSeq(q) /\ \A i \in 1..Len(q) : q[i] \in S
  BY DEF IsSeq

LEMMA WavesType ==
  ASSUME NEW as \in SUBSET Agents, NEW at
  PROVE  TargetIDWavesByDepthDesc(as, at) \in Seq(SUBSET Agents)
<1> DEFINE depths == {at[a] : a \in as}
           f == [a \in as |-> at[a]]
<1>1. IsFiniteSet(as)
  BY NodesAssumption, FS_Subset
<1>2. f \in Surjection(as, depths)
  BY DEF Surjection
<1>3. Cardinality(depths) \in Nat
  <2> HIDE DEF depths, f
  <2>1. QED
    BY <1>1, <1>2, FS_Surjection, FS_CardinalityType
<1>4. TargetIDWavesByDepthDesc(as, at) \in [1..Cardinality(depths) -> SUBSET Agents]
  BY DEF TargetIDWavesByDepthDesc
<1> HIDE DEF depths
<1>5. QED
  BY <1>3, <1>4, SeqOf

\* A request for many moves on.
LEMMA MultiStep ==
  ASSUME TypeOK, NEW c \in DOMAIN s.calls, ~ForOne(s, c), NEW x \in Call, NoNews(FALSE, call[c], x),
         call' = [call EXCEPT ![c] = x], UNCHANGED <<s, down, wire, sessions, result, log, updates, agentVars>>, InboxOK'
  PROVE  TypeOK' /\ Quiet(s, call, call')
<1>1. NoNews(ForOne(s, c), call[c], x)
  BY DEF NoNews
<1>2. call' \in [DOMAIN s.calls -> Call] /\ Quiet(s, call, call')
  BY <1>1, QuietUpdate DEF TypeOK
<1>3. ServerTypes'
  BY <1>2, QuietStep DEF TypeOK, ServerTypes
<1>4. Keeps(s, log, log')
  BY DEF Keeps
<1>5. QED
  BY <1>2, <1>3, <1>4, AgentsStay DEF TypeOK, agentVars

LEMMA InboxStays ==
  ASSUME TypeOK, UNCHANGED <<s, log, inbox>>
  PROVE  InboxOK'
  BY DEF TypeOK, InboxOK

LEMMA BeginTypes ==
  ASSUME TypeOK, NEW c \in DOMAIN s.calls, call[c].phase = "new", ~Single(c), NEW defect, Begin(c, defect)
  PROVE  TypeOK' /\ Quiet(s, call, call') /\ UNCHANGED <<s, wire, result, log, updates, agentVars>>
<1>1. /\ UNCHANGED <<s, down, wire, result, log, updates, agentVars, inbox, sessions>> /\ ~ForOne(s, c) /\ call[c] \in Call
      /\ Request(c).targets \in SUBSET Agents
  BY ScenariosAssumption DEF Begin, Refuse, meshVars, Single, ForOne, Request, TypeOK, ServerTypes, Requests
<1>2. InboxOK'
  BY <1>1, InboxStays
<1> DEFINE y == call[c]
           r == [status |-> StatusOf(defect), agent |-> None]
           p == IF Request(c).targets = {} THEN "done" ELSE "wave"
           w == IF Request(c).bottomUp = "yes" THEN TargetIDWavesByDepthDesc(Request(c).targets, depth) ELSE <<Request(c).targets>>
<1>3. y \in Call /\ y.phase = "new" /\ r \in Reply /\ r.agent = None /\ p \in {"done", "wave"} /\ w \in Seq(SUBSET Agents)
  <2>1. <<Request(c).targets>> \in Seq(SUBSET Agents) /\ TargetIDWavesByDepthDesc(Request(c).targets, depth) \in Seq(SUBSET Agents)
    BY <1>1, WavesType
  <2>2. w \in Seq(SUBSET Agents)
    BY <2>1
  <2>3. QED
    BY <1>1, <2>2, StatusType DEF Reply
<1>4. \/ call' = [call EXCEPT ![c] = [y EXCEPT !.phase = "done", !.reply = r]]
      \/ call' = [call EXCEPT ![c] = [y EXCEPT !.phase = p, !.waves = w]]
  BY DEF Begin, Refuse
<1> HIDE DEF y, r, p, w
<1>5. CASE call' = [call EXCEPT ![c] = [y EXCEPT !.phase = "done", !.reply = r]]
  <2> DEFINE x == [y EXCEPT !.phase = "done", !.reply = r]
  <2>1. x \in Call /\ NoNews(FALSE, call[c], x)
    BY <1>3, EndUpdate DEF y
  <2>2. call' = [call EXCEPT ![c] = x]
    BY <1>5
  <2> HIDE DEF x
  <2>3. QED
    BY <1>1, <1>2, <2>1, <2>2, MultiStep
<1>6. CASE call' = [call EXCEPT ![c] = [y EXCEPT !.phase = p, !.waves = w]]
  <2> DEFINE x == [y EXCEPT !.phase = p, !.waves = w]
  <2>1. x \in Call /\ NoNews(FALSE, y, x)
    BY <1>3 DEF Call, Phases, NoNews
  <2>2. call' = [call EXCEPT ![c] = x]
    BY <1>6
  <2> HIDE DEF x
  <2>3. NoNews(FALSE, call[c], x)
    BY <2>1 DEF y
  <2>4. QED
    BY <1>1, <1>2, <2>1, <2>2, <2>3, MultiStep
<1>7. QED
  BY <1>4, <1>5, <1>6

LEMMA DispatchTypes ==
  ASSUME TypeOK, NEW c \in DOMAIN s.calls, NEW kind, DispatchWave(c, kind)
  PROVE  TypeOK' /\ Quiet(s, call, call') /\ UNCHANGED <<s, wire, result, log, updates, agentVars>>
<1>1. /\ UNCHANGED <<s, down, wire, result, log, updates, agentVars, sessions>> /\ call[c].phase = "wave"
      /\ call[c].waves # <<>> /\ call[c] \in Call /\ CallLogged(s, log, c, call[c].phase)
  BY DEF DispatchWave, TypeOK, ServerTypes
<1> DEFINE y == call[c]
           wave == Head(call[c].waves)
           m == [call |-> c, wave |-> Len(call[c].waves), targets |-> wave, path |-> <<>>]
<1>2. PICK full \in SUBSET down[Server] :
        /\ call' = [call EXCEPT ![c].phase = "waiting",
                               ![c].pending = wave \ (wave \cap UNION {Subtree(z, parent) : z \in full}), ![c].waves = Tail(@)]
        /\ inbox' = Deliver(inbox, To(Server, down[Server] \ full, m))
  BY DEF DispatchWave
<1> DEFINE gone == wave \cap UNION {Subtree(z, parent) : z \in full}
           rest == Tail(y.waves)
           left == wave \ gone
<1>3. ~ForOne(s, c)
  BY <1>1 DEF CallLogged
<1>4. y \in Call /\ y.phase = "wave" /\ rest \in Seq(SUBSET Agents) /\ left \in SUBSET Agents /\ Len(y.waves) \in Nat
  BY <1>1 DEF Call
<1>5. MessageOK(s, log, m)
  BY <1>3, <1>4 DEF MessageOK, Known
<1>6. call' = [call EXCEPT ![c] = [y EXCEPT !.phase = "waiting", !.pending = left, !.waves = rest]]
  BY <1>2
<1> HIDE DEF y, m, gone, rest, left
<1>7. InboxOK'
  <2>1. \A b \in Agents : MessagesOK(s, log, inbox'[b])
    BY <1>2, <1>5, InboxAdd DEF TypeOK, InboxOK
  <2>2. inbox' = [b \in Agents |-> inbox'[b]]
    BY <1>2 DEF Deliver
  <2>3. QED
    BY <1>1, <2>1, <2>2 DEF InboxOK
<1> DEFINE x == [y EXCEPT !.phase = "waiting", !.pending = left, !.waves = rest]
<1>8. x \in Call /\ NoNews(FALSE, y, x)
  BY <1>4 DEF Call, Phases, NoNews
<1>9. call' = [call EXCEPT ![c] = x]
  BY <1>6
<1> HIDE DEF x
<1>10. NoNews(FALSE, call[c], x)
  BY <1>8 DEF y
<1>11. QED
  BY <1>1, <1>3, <1>7, <1>8, <1>9, <1>10, MultiStep

LEMMA WaveEndTypes ==
  ASSUME TypeOK, NEW c \in DOMAIN s.calls, WaveDone(c) \/ WaveTimeout(c)
  PROVE  TypeOK' /\ Quiet(s, call, call') /\ UNCHANGED <<s, wire, result, log, updates, agentVars>>
<1>1. /\ UNCHANGED <<s, down, wire, result, log, updates, agentVars, inbox, sessions>> /\ ~ForOne(s, c) /\ call[c] \in Call
      /\ call[c].phase = "waiting"
  BY DEF WaveDone, WaveTimeout, meshVars, Single, ForOne, Request, TypeOK, ServerTypes
<1>2. InboxOK'
  BY <1>1, InboxStays
<1> DEFINE y == call[c]
           r == [status |-> "stopped", agent |-> None]
           p == IF call[c].waves = <<>> THEN "done" ELSE "wave"
<1>3. y \in Call /\ y.phase = "waiting" /\ r \in Reply /\ r.agent = None /\ p \in {"done", "wave"}
  BY <1>1 DEF Reply, Statuses
<1>4. \/ call' = [call EXCEPT ![c] = [y EXCEPT !.phase = p]]
      \/ call' = [call EXCEPT ![c] = [y EXCEPT !.phase = "done", !.pending = {}, !.reply = r]]
  BY DEF WaveDone, WaveTimeout
<1> HIDE DEF y, r, p
<1>5. CASE call' = [call EXCEPT ![c] = [y EXCEPT !.phase = p]]
  <2> DEFINE x == [y EXCEPT !.phase = p]
  <2>1. x \in Call /\ NoNews(FALSE, y, x)
    BY <1>3 DEF Call, Phases, NoNews
  <2>2. call' = [call EXCEPT ![c] = x]
    BY <1>5
  <2> HIDE DEF x
  <2>3. NoNews(FALSE, call[c], x)
    BY <2>1 DEF y
  <2>4. QED
    BY <1>1, <1>2, <2>1, <2>2, <2>3, MultiStep
<1>6. CASE call' = [call EXCEPT ![c] = [y EXCEPT !.phase = "done", !.pending = {}, !.reply = r]]
  <2> DEFINE x == [y EXCEPT !.phase = "done", !.pending = {}, !.reply = r]
  <2>1. x \in Call /\ NoNews(FALSE, y, x)
    BY <1>3 DEF Call, Phases, NoNews
  <2>2. call' = [call EXCEPT ![c] = x]
    BY <1>6
  <2> HIDE DEF x
  <2>3. NoNews(FALSE, call[c], x)
    BY <2>1 DEF y
  <2>4. QED
    BY <1>1, <1>2, <2>1, <2>2, <2>3, MultiStep
<1>7. QED
  BY <1>4, <1>5, <1>6

-----------------------------------------------------------------------------
(***************************************************************************)
(* Types: agents take messages, connections come and go.                   *)
(***************************************************************************)
\* The server's types of a step that is not the server's.
LEMMA ServerRests ==
  ASSUME ServerTypes, s' = s, down' \in [Agents \cup {Server} -> SUBSET Agents],
         UNCHANGED <<call, sessions, result, log, updates>>
  PROVE  ServerTypes'
  BY DEF ServerTypes, Single, Request

TakenUp(a, o) ==
  /\ ops' = ops \cup {o} /\ runs' = [runs EXCEPT ![a][o.call] = @ + 1]
  /\ o.agent = a /\ o.step = "gate" /\ o.as = None /\ o.call \in DOMAIN s.calls
  /\ ForOne(s, o.call) => a = s.calls[o.call].target
LEMMA TakeTypes ==
  ASSUME TypeOK, NEW a \in Agents, HandleServerMessage(a)
  PROVE  TypeOK' /\ UNCHANGED <<s, serverVars, wire, disk, dead>> /\ (UNCHANGED <<ops, runs>> \/ \E o : TakenUp(a, o))
<1> DEFINE m == Head(inbox[a])
           to == IF Single(m.call) /\ a \in m.targets THEN {} ELSE RelayToDownstreams(a, m)
           o == [agent |-> a, call |-> m.call, wave |-> m.wave, copy |-> runs[a][m.call], step |-> "gate", outcome |-> "none",
                 as |-> None]
<1>1. /\ inbox[a] # <<>> /\ inbox' = [Deliver(inbox, To(a, to, m)) EXCEPT ![a] = Tail(@)]
      /\ \/ UNCHANGED <<ops, runs>>
         \/ a \in m.targets /\ ops' = ops \cup {o} /\ runs' = [runs EXCEPT ![a][m.call] = @ + 1]
      /\ UNCHANGED <<s, down, serverVars, wire, disk, dead>>
  BY DEF HandleServerMessage
<1>2. MessagesOK(s, log, inbox[a])
  BY DEF TypeOK, InboxOK
<1>3. MessageOK(s, log, m)
  BY <1>1, <1>2, MessagesShrink
<1> HIDE DEF m, to
<1>4. ServerTypes' /\ WireOK'
  BY <1>1, ServerRests, AgentsStay DEF TypeOK, ServerTypes, serverVars, Keeps
<1>5. InboxOK'
  <2> DEFINE q == Deliver(inbox, To(a, to, m))
  <2>1. \A b \in Agents : MessagesOK(s, log, q[b])
    BY <1>3, InboxAdd DEF TypeOK, InboxOK
  <2>2. q[a] # <<>>
    <3>1. q[a] = inbox[a] \o <<m>> \/ q[a] = inbox[a] \o <<>>
      BY DEF Deliver, To
    <3>2. IsSeq(inbox[a]) /\ Len(inbox[a]) \in Nat \ {0}
      BY <1>1, <1>2, SeqTail DEF MessagesOK
    <3>3. Len(q[a]) > 0
      BY <3>1, <3>2, SeqConcat, ShortSeqs
    <3>4. QED
      BY <3>3, ShortSeqs
  <2>3. q = [b \in Agents |-> q[b]] /\ inbox' = [q EXCEPT ![a] = Tail(@)]
    BY <1>1 DEF Deliver
  <2> HIDE DEF q
  <2>4. \A b \in Agents : MessagesOK(s, log, inbox'[b])
    BY <2>1, <2>2, <2>3, MessagesShrink
  <2>5. inbox' = [b \in Agents |-> inbox'[b]]
    BY <2>3
  <2>6. QED
    BY <1>1, <2>4, <2>5 DEF InboxOK, serverVars
<1>6. CASE UNCHANGED <<ops, runs>>
  BY <1>1, <1>4, <1>5, <1>6, AgentsStay DEF TypeOK, serverVars, Keeps
<1>7. CASE a \in m.targets /\ ops' = ops \cup {o} /\ runs' = [runs EXCEPT ![a][m.call] = @ + 1]
  <2>1. m.call \in DOMAIN s.calls /\ m.wave \in Nat /\ (ForOne(s, m.call) => a = s.calls[m.call].target /\ log[m.call] # "none")
    BY <1>3, <1>7 DEF MessageOK, Known
  <2>2. runs \in [Agents -> [DOMAIN s.calls -> Nat]]
    BY DEF TypeOK, DiskOK
  <2>3. OpOK(s, log, o)
    BY <2>1, <2>2 DEF OpOK, Ops, Known, Steps
  <2>4. OpsOK'
    BY <1>1, <1>7, <2>3 DEF TypeOK, OpsOK, serverVars
  <2>5. DiskOK'
    BY <1>1, <1>7, <2>1, <2>2 DEF TypeOK, DiskOK
  <2>6. TakenUp(a, o)
    BY <1>7, <2>1 DEF TakenUp
  <2> HIDE DEF o
  <2>7. QED
    BY <1>1, <1>4, <1>5, <2>4, <2>5, <2>6 DEF TypeOK
<1>8. QED
  BY <1>1, <1>6, <1>7

\* Emptied queues of messages stay well-typed.
LEMMA InboxCut ==
  ASSUME TypeOK, NEW a, inbox' = [inbox EXCEPT ![a] = <<>>], UNCHANGED <<s, log>>
  PROVE  InboxOK'
<1>1. \A b \in Agents : MessagesOK(s, log, inbox'[b])
  BY MessagesShrink DEF TypeOK, InboxOK
<1>2. QED
  BY <1>1 DEF TypeOK, InboxOK

LEMMA CutTypes ==
  ASSUME TypeOK, NEW a \in Agents, Cut(a)
  PROVE  TypeOK' /\ UNCHANGED <<s, wire, serverVars, agentVars>>
<1>1. UNCHANGED <<s, down, wire, serverVars, agentVars>> /\ inbox' = [inbox EXCEPT ![a] = <<>>]
  BY DEF Cut
<1>2. InboxOK'
  BY <1>1, InboxCut DEF serverVars
<1>3. ServerTypes'
  BY <1>1, ServerRests DEF TypeOK, ServerTypes, serverVars
<1>4. QED
  BY <1>1, <1>2, <1>3, AgentsStay DEF TypeOK, serverVars, agentVars, Keeps

\* No response is under way that was not.
OldResponses == \A z \in Agents : \A i, c : Response(z, i, c)' => Response(z, i, c) /\ wire'[z][i] = wire[z][i]

\* Reports that are not responses.
LEMMA OtherReports ==
  ASSUME WireOK, NEW z0, NEW ms, IsSeq(ms), \A i \in 1..Len(ms) : ms[i].t # "response",
         wire' = [wire EXCEPT ![z0] = @ \o ms], s' = s, log' = log
  PROVE  WireOK' /\ OldResponses
<1>1. ReportsOK(s, log, ms)
  BY DEF ReportsOK, ReportOK
<1>2. ASSUME NEW z \in Agents, NEW i, NEW c, Response(z, i, c)'
      PROVE  Response(z, i, c) /\ wire'[z][i] = wire[z][i]
  <2>1. i \in 1..Len(wire'[z]) /\ wire'[z][i].t = "response" /\ wire'[z][i].call = c
    BY <1>2 DEF Response
  <2>2. CASE wire'[z] = wire[z]
    BY <2>1, <2>2 DEF Response
  <2>3. CASE wire'[z] # wire[z]
    <3>1. wire'[z] = wire[z] \o ms /\ IsSeq(wire[z])
      BY <2>3 DEF WireOK, ReportsOK
    <3>2. i \in 1..Len(wire[z])
      BY <2>1, <3>1, SeqConcat
    <3>3. QED
      BY <2>1, <3>1, <3>2, SeqConcat DEF Response
  <2>4. QED
    BY <2>2, <2>3
<1>3. QED
  BY <1>1, <1>2, WireAdd DEF OldResponses

LEMMA GoneTypes ==
  ASSUME ServerTypes, NEW as, NotifyGone(as)
  PROVE  /\ call' \in [DOMAIN s.calls -> Call] /\ Quiet(s, call, call')
         /\ \A c \in DOMAIN s.calls : call'[c].phase = call[c].phase /\ call'[c].reply = call[c].reply
<1>1. call \in [DOMAIN s.calls -> Call] /\ call' = [c \in DOMAIN s.calls |-> [call[c] EXCEPT !.pending = @ \ as]]
  BY DEF ServerTypes, NotifyGone
<1>2. ASSUME NEW c \in DOMAIN s.calls
      PROVE  call'[c] \in Call /\ call'[c].phase = call[c].phase /\ call'[c].reply = call[c].reply
  <2> DEFINE y == call[c]
  <2>1. y \in Call /\ call'[c] = [y EXCEPT !.pending = @ \ as]
    BY <1>1
  <2> HIDE DEF y
  <2>2. call'[c] \in Call /\ call'[c].phase = y.phase /\ call'[c].reply = y.reply
    BY <2>1 DEF Call
  <2>3. QED
    BY <2>2 DEF y
<1>3. \A c \in DOMAIN s.calls : ForOne(s, c) => call[c].phase # "wave"
  BY DEF ServerTypes, CallLogged
<1>4. QED
  BY <1>1, <1>2, <1>3 DEF Quiet, NoNews

LEMMA ServerNoticesTypes ==
  ASSUME TypeOK, NEW a \in Agents, ServerNotices(a)
  PROVE  /\ TypeOK' /\ Quiet(s, call, call') /\ UNCHANGED <<s, result, log, updates, agentVars>>
         /\ OldResponses
<1>1. /\ UNCHANGED <<s, inbox, sessions, result, log, updates, agentVars>>
      /\ down' = [down EXCEPT ![Server] = @ \ {a}] /\ wire' = [wire EXCEPT ![a] = <<>>] /\ NotifyGone(Subtree(a, parent))
  BY DEF ServerNotices
<1>2. call' \in [DOMAIN s.calls -> Call] /\ Quiet(s, call, call')
  BY <1>1, GoneTypes DEF TypeOK
<1>3. ServerTypes'
  <2>1. down' \in [Agents \cup {Server} -> SUBSET Agents] /\ SessionsOK(s, log, sessions')
    BY <1>1 DEF TypeOK, ServerTypes
  <2>2. QED
    BY <1>1, <1>2, <2>1, QuietStep DEF TypeOK
<1>4. WireOK'
  BY <1>1, WireCut DEF TypeOK
<1>5. OldResponses
  BY <1>1, ShortSeqs DEF TypeOK, WireOK, Response, OldResponses
<1>6. QED
  BY <1>1, <1>2, <1>3, <1>4, <1>5, AgentsStay DEF TypeOK, agentVars, Keeps

LEMMA RelayNoticesTypes ==
  ASSUME TypeOK, NEW p \in Agents, NEW a \in Agents, RelayNotices(p, a)
  PROVE  /\ TypeOK' /\ UNCHANGED <<s, serverVars, agentVars>>
         /\ OldResponses
<1> DEFINE ms == <<[t |-> "lost", agent |-> a]>>
<1>1. /\ UNCHANGED <<s, inbox, serverVars, agentVars>> /\ down' = [down EXCEPT ![p] = @ \ {a}]
      /\ wire' = [wire EXCEPT ![ZoneLeader(p, up)] = @ \o ms] \/ wire' = wire
  BY DEF RelayNotices
<1>2. IsSeq(ms) /\ \A i \in 1..Len(ms) : ms[i].t # "response"
  <2> DEFINE m == [t |-> "lost", agent |-> a]
  <2>1. m.t # "response"
    OBVIOUS
  <2> HIDE DEF m
  <2>2. IsSeq(<<m>>) /\ \A i \in 1..Len(<<m>>) : <<m>>[i] = m
    BY ShortSeqs
  <2>3. QED
    BY <2>1, <2>2 DEF m
<1> HIDE DEF ms
<1>3. WireOK' /\ OldResponses
  <2>1. CASE wire' = wire
    BY <1>1, <2>1, AgentsStay DEF TypeOK, serverVars, Keeps, Response, OldResponses
  <2>2. CASE wire' = [wire EXCEPT ![ZoneLeader(p, up)] = @ \o ms]
    BY <1>1, <1>2, <2>2, OtherReports DEF TypeOK, serverVars
  <2>3. QED
    BY <1>1, <2>1, <2>2
<1>4. ServerTypes'
  BY <1>1, ServerRests DEF TypeOK, ServerTypes, serverVars
<1>5. QED
  BY <1>1, <1>3, <1>4, AgentsStay DEF TypeOK, serverVars, agentVars, Keeps

LEMMA AttachTypes ==
  ASSUME TypeOK, NEW a \in Agents, NEW p \in Agents \cup {Server}, Attach(a, p)
  PROVE  /\ TypeOK' /\ UNCHANGED <<s, serverVars, agentVars>>
         /\ OldResponses
<1> DEFINE pc(x, y) == [t |-> "attached", agent |-> x, parent |-> y]
           announced == {pc(x, a) : x \in down[a]}
           first == IF p = Server THEN <<>> ELSE <<pc(a, p)>>
<1>1. /\ UNCHANGED <<s, inbox, serverVars, agentVars>> /\ down' = [down EXCEPT ![p] = @ \cup {a}]
      /\ \E order \in [1..Cardinality(announced) -> announced] :
           wire' = [wire EXCEPT ![ZoneLeader(a, up')] = @ \o (first \o order)]
  BY DEF Attach
<1>2. PICK order \in [1..Cardinality(announced) -> announced] : wire' = [wire EXCEPT ![ZoneLeader(a, up')] = @ \o (first \o order)]
  BY <1>1
<1>3. Cardinality(announced) \in Nat
  <2> DEFINE f == [x \in down[a] |-> pc(x, a)]
  <2>1. f \in Surjection(down[a], announced)
    BY DEF Surjection
  <2>2. IsFiniteSet(down[a])
    BY NodesAssumption, FS_Subset DEF TypeOK, ServerTypes
  <2> HIDE DEF announced, f
  <2>3. QED
    BY <2>1, <2>2, FS_Surjection, FS_CardinalityType
<1>4. \A m \in announced : m.t # "response"
  OBVIOUS
<1>5. IsSeq(order) /\ \A i \in 1..Len(order) : order[i].t # "response"
  <2> HIDE DEF announced
  <2>1. order \in Seq(announced)
    BY <1>3, SeqOf
  <2>2. IsSeq(order) /\ \A i \in 1..Len(order) : order[i] \in announced
    BY <2>1, SeqElements
  <2>3. QED
    BY <1>4, <2>2
<1>6. IsSeq(first) /\ \A i \in 1..Len(first) : first[i].t # "response"
  <2> DEFINE m == pc(a, p)
  <2>1. m.t # "response"
    OBVIOUS
  <2> HIDE DEF m
  <2>2. IsSeq(<<m>>) /\ (\A i \in 1..Len(<<m>>) : <<m>>[i] = m) /\ IsSeq(<<>>) /\ Len(<<>>) = 0
    BY ShortSeqs
  <2>3. first = <<>> \/ first = <<m>>
    BY DEF m
  <2> HIDE DEF first
  <2>4. QED
    BY <2>1, <2>2, <2>3
<1> HIDE DEF first, announced
<1> DEFINE ms == first \o order
<1>7. IsSeq(ms) /\ \A i \in 1..Len(ms) : ms[i].t # "response"
  BY <1>5, <1>6, SeqConcat
<1>8. wire' = [wire EXCEPT ![ZoneLeader(a, up')] = @ \o ms]
  BY <1>2
<1> HIDE DEF ms
<1>9. WireOK' /\ OldResponses
  BY <1>1, <1>7, <1>8, OtherReports DEF TypeOK, serverVars
<1>10. ServerTypes'
  BY <1>1, ServerRests DEF TypeOK, ServerTypes, serverVars
<1>11. QED
  BY <1>1, <1>9, <1>10, AgentsStay DEF TypeOK, serverVars, agentVars, Keeps

-----------------------------------------------------------------------------
(***************************************************************************)
(* Types: the server reads a stream.                                       *)
(***************************************************************************)
LEMMA QuietNone ==
  ASSUME ServerTypes
  PROVE  Quiet(s, call, call)
  BY DEF ServerTypes, CallLogged, Quiet, NoNews

\* A response goes into the channel of the session of its id, if that is of its agent.
Into(m, c) ==
  /\ c \in DOMAIN s.calls /\ Single(c) /\ log[c] # "none" /\ Request(c).id = Request(m.call).id /\ Request(c).target = m.agent
  /\ result[c] = <<>> /\ result' = [result EXCEPT ![c] = <<m>>]
LEMMA IntoTypes ==
  ASSUME ServerTypes, NEW m, result' = IntoSession(m)
  PROVE  /\ result' = result \/ \E c : Into(m, c)
         /\ ForSession(m) /\ ~Mismatched(m) /\ result' = result => result[sessions[Request(m.call).id]] # <<>>
<1> DEFINE i == Request(m.call).id
           c == sessions[i]
<1>1. CASE ForSession(m) /\ ~Mismatched(m) /\ result[c] = <<>>
  <2>1. c \in DOMAIN s.calls /\ Single(c) /\ log[c] # "none" /\ Request(c).id = i
    BY <1>1 DEF ServerTypes, SessionsOK, ForSession, Single, ForOne, Request
  <2>2. Request(c).target = m.agent
    BY <1>1 DEF Mismatched, OriginTargetMismatch
  <2>3. result' = [result EXCEPT ![c] = <<m>>]
    BY <1>1 DEF IntoSession
  <2>4. result'[c] = <<m>> /\ <<m>> # <<>>
    BY <2>1, <2>3, ShortSeqs DEF ServerTypes
  <2>5. Into(m, c)
    BY <1>1, <2>1, <2>2, <2>3 DEF Into
  <2> HIDE DEF c
  <2>6. QED
    BY <1>1, <2>4, <2>5
<1>2. CASE ~(ForSession(m) /\ ~Mismatched(m) /\ result[c] = <<>>)
  BY <1>2 DEF IntoSession
<1>3. QED
  BY <1>1, <1>2

LEMMA IntoResult ==
  ASSUME ServerTypes, NEW m, m.status \in Outcomes, NEW c, Into(m, c)
  PROVE  /\ DOMAIN result' = DOMAIN s.calls /\ result' = [d \in DOMAIN s.calls |-> result'[d]]
         /\ \A d \in DOMAIN s.calls : ResultOK(s, log, d, result'[d])
         /\ result'[c] = <<m>> /\ result'[c][1] = m /\ result'[c] # <<>>
         /\ \A d \in DOMAIN s.calls \ {c} : result'[d] = result[d]
<1>1. <<m>>[1] = m /\ <<m>> # <<>>
  BY ShortSeqs
<1>2. result = [d \in DOMAIN s.calls |-> result[d]] /\ result' = [result EXCEPT ![c] = <<m>>] /\ c \in DOMAIN s.calls
  BY DEF ServerTypes, Into
<1>3. result'[c] = <<m>> /\ \A d \in DOMAIN s.calls \ {c} : result'[d] = result[d]
  BY <1>2
<1>4. ResultOK(s, log, c, <<m>>)
  BY <1>1 DEF ResultOK, Into, Single, ForOne, Request
<1>5. QED
  BY <1>1, <1>2, <1>3, <1>4 DEF ServerTypes

\* What the server does with the first of a stream's messages.
Unheard == UNCHANGED <<result, updates>> /\ Quiet(s, call, call')
Heard(m) ==
  /\ m.t = "response" /\ Single(m.call) /\ UNCHANGED call /\ result' = IntoSession(m)
  /\ \/ Request(m.call).kind = "exec" /\ ~Mismatched(m) /\ updates' = updates \cup {[call |-> m.call, status |-> m.status]}
     \/ Request(m.call).kind # "exec" /\ UNCHANGED updates
LEMMA ClaimTypes ==
  ASSUME ServerTypes, NEW z, NEW m, call' = Claim(z, m)
  PROVE  call' \in [DOMAIN s.calls -> Call] /\ Quiet(s, call, call')
<1>1. call \in [DOMAIN s.calls -> Call]
  BY DEF ServerTypes
<1>2. CASE call' = call
  BY <1>1, <1>2, QuietNone
<1>3. CASE m.call \in DOMAIN s.calls /\ call' = [call EXCEPT ![m.call].pending = @ \ {m.agent}]
  <2> DEFINE y == call[m.call]
  <2>1. y \in Call /\ call' = [call EXCEPT ![m.call] = [y EXCEPT !.pending = @ \ {m.agent}]]
    BY <1>1, <1>3
  <2>2. ForOne(s, m.call) => y.phase # "wave"
    BY <1>3 DEF ServerTypes, CallLogged
  <2> HIDE DEF y
  <2> DEFINE x == [y EXCEPT !.pending = @ \ {m.agent}]
  <2>3. x \in Call /\ NoNews(ForOne(s, m.call), y, x)
    BY <2>1, <2>2 DEF Call, NoNews
  <2>4. call' = [call EXCEPT ![m.call] = x]
    BY <2>1
  <2> HIDE DEF x
  <2>5. QED
    BY <1>3, <2>3, <2>4, QuietUpdate DEF y
<1>4. CASE m.call \notin DOMAIN s.calls
  <2>1. call' = call
    BY <1>1, <1>4 DEF Claim
  <2>2. QED
    BY <1>2, <2>1
<1>5. QED
  BY <1>2, <1>3, <1>4 DEF Claim

LEMMA ReceiveTypes ==
  ASSUME TypeOK, NEW z \in Agents, Receive(z)
  PROVE  /\ TypeOK' /\ UNCHANGED <<s, log, agentVars>>
         /\ wire[z] # <<>> /\ wire' = [wire EXCEPT ![z] = Tail(@)]
         /\ Unheard \/ (ReportOK(s, log, Head(wire[z])) /\ Heard(Head(wire[z])))
<1> DEFINE m == Head(wire[z])
<1>1. /\ UNCHANGED <<s, down, inbox, sessions, log, agentVars>> /\ wire[z] # <<>> /\ wire' = [wire EXCEPT ![z] = Tail(@)]
      /\ \/ Attached(z, m) \/ Lost(z, m) \/ ExecBroadcastResponse(z, m) \/ DeployResponse(z, m)
         \/ m.t = "response" /\ Request(m.call).kind = "exec" /\ Single(m.call) /\ ExecResponse(z, m)
         \/ m.t = "response" /\ Request(m.call).kind = "put" /\ FileChunk(z, m)
         \/ m.t = "response" /\ Request(m.call).kind = "fetch" /\ FetchResponse(z, m)
  BY DEF Receive
<1>2. ReportOK(s, log, m)
  <2>1. ReportsOK(s, log, wire[z])
    BY DEF TypeOK, WireOK
  <2>2. QED
    BY <1>1, <2>1, ReportsShrink
<1> HIDE DEF m
<1>3. WireOK'
  BY <1>1, WireCut DEF TypeOK
<1>4. (Unheard /\ call' \in [DOMAIN s.calls -> Call]) \/ Heard(m)
  <2>1. call \in [DOMAIN s.calls -> Call] /\ Quiet(s, call, call) /\ ServerTypes
    BY QuietNone DEF TypeOK, ServerTypes
  <2>2. CASE Attached(z, m)
    BY <2>1, <2>2 DEF Attached, Unheard
  <2>3. CASE Lost(z, m)
    <3>1. NotifyGone(Subtree(m.agent, parent)) \/ call' = call
      BY <2>3 DEF Lost
    <3>2. UNCHANGED <<result, updates>>
      BY <2>3 DEF Lost
    <3>3. call' \in [DOMAIN s.calls -> Call] /\ Quiet(s, call, call')
      BY <2>1, <3>1, GoneTypes
    <3>4. QED
      BY <3>2, <3>3 DEF Unheard
  <2>4. CASE ExecBroadcastResponse(z, m)
    BY <2>1, <2>4, ClaimTypes DEF ExecBroadcastResponse, Unheard
  <2>5. CASE DeployResponse(z, m)
    BY <2>1, <2>5, ClaimTypes DEF DeployResponse, Unheard
  <2>6. CASE m.t = "response" /\ Request(m.call).kind = "exec" /\ Single(m.call) /\ ExecResponse(z, m)
    BY <2>1, <2>6 DEF ExecResponse, Unheard, Heard
  <2>7. ASSUME m.t = "response", Request(m.call).kind \in {"put", "fetch"} PROVE Single(m.call)
    BY <1>2, <2>7, ScenariosAssumption DEF ReportOK, TypeOK, ServerTypes, Single, Request
  <2>8. CASE m.t = "response" /\ Request(m.call).kind = "put" /\ FileChunk(z, m)
    BY <2>1, <2>7, <2>8 DEF FileChunk, Unheard, Heard
  <2>9. CASE m.t = "response" /\ Request(m.call).kind = "fetch" /\ FetchResponse(z, m)
    BY <2>1, <2>7, <2>9 DEF FetchResponse, Unheard, Heard
  <2>10. QED
    BY <1>1, <2>2, <2>3, <2>4, <2>5, <2>6, <2>8, <2>9
<1>5. ServerTypes'
  <2>1. down' \in [Agents \cup {Server} -> SUBSET Agents] /\ SessionsOK(s, log, sessions')
    BY <1>1 DEF TypeOK, ServerTypes
  <2>2. CASE Unheard /\ call' \in [DOMAIN s.calls -> Call]
    BY <1>1, <2>1, <2>2, QuietStep DEF Unheard, TypeOK
  <2>3. CASE Heard(m)
    <3>1. m.call \in DOMAIN s.calls /\ m.status \in Outcomes /\ (Single(m.call) => log[m.call] # "none")
      BY <1>2, <2>3 DEF ReportOK, Heard, Known, Single, ForOne, Request
    <3>2. /\ DOMAIN result' = DOMAIN s.calls /\ result' = [d \in DOMAIN s.calls |-> result'[d]]
          /\ \A d \in DOMAIN s.calls : ResultOK(s, log, d, result'[d])
      <4>1. result' = result \/ \E c : Into(m, c)
        BY <2>3, IntoTypes DEF Heard, TypeOK
      <4>2. CASE result' = result
        BY <4>2 DEF TypeOK, ServerTypes
      <4>3. CASE \E c : Into(m, c)
        BY <3>1, <4>3, IntoResult DEF TypeOK
      <4>4. QED
        BY <4>1, <4>2, <4>3
    <3>3. /\ updates' \subseteq [call : DOMAIN s.calls, status : Outcomes]
          /\ \A u \in updates' : Single(u.call) /\ Request(u.call).kind = "exec" /\ log[u.call] # "none"
      BY <2>3, <3>1 DEF Heard, TypeOK, ServerTypes
    <3>4. call' = call
      BY <2>3 DEF Heard
    <3>5. QED
      BY <1>1, <2>1, <3>2, <3>3, <3>4 DEF TypeOK, ServerTypes, Single, Request
  <2>4. QED
    BY <1>4, <2>2, <2>3
<1>6. QED
  BY <1>1, <1>2, <1>3, <1>4, <1>5, AgentsStay DEF TypeOK, agentVars, Keeps, m

-----------------------------------------------------------------------------
(***************************************************************************)
(* What the operators of AgentOps return.                                  *)
(***************************************************************************)
Past == {"write", "writing", "stat", "run"}

LEMMA RefusalType ==
  ASSUME NEW config, NEW req \in Requests, NEW verdict
  PROVE  Refusal(config, req, verdict) \in Outcomes \cup {"none"}
<1>1. req.kind \in {"exec", "put", "fetch", "deploy"}
  BY DEF Requests
<1>2. QED
  BY <1>1 DEF Refusal, ExecRefusal, PutRefusal, FetchRefusal, DeployRefusal, Allowed, Outcomes

LEMMA AdmittedType ==
  ASSUME NEW config, NEW req
  PROVE  Admitted(config, req) \in Past
  BY DEF Admitted, Past

LEMMA OutcomeTypes ==
  ASSUME NEW config, NEW req, NEW content, NEW size
  PROVE  /\ RunOutcomes(config, req, content) \subseteq Outcomes /\ WriteOutcome(req) \in Outcomes
         /\ Statted(content, size) \in Outcomes \cup {"none"}
<1>1. WriteOutcome(req) \in Outcomes /\ Statted(content, size) \in Outcomes \cup {"none"}
  BY DEF Outcomes, WriteOutcome, Statted
<1>2. ReadFileViaCommand(content, req.size) \in Outcomes /\ {"ok", "failed"} \subseteq Outcomes
  BY DEF Outcomes, ReadFileViaCommand
<1>3. QED
  BY <1>1, <1>2 DEF RunOutcomes

\* Whoever a command runs as, the request or the system says so.
AsAsked(config, req, as) ==
  \/ req.become = "yes" /\ config.os = "unix" /\ as = BecomeUser(req)
  \/ req.become = "yes" /\ config.os = "windows" /\ as = req.user
  \/ req.become = "no" /\ as = config.identity
  \/ /\ config.os = "windows" /\ as = config.identity
     /\ req.user \in {"", "Administrator", "SYSTEM"} \/ req.script = "yes" \/ req.kind = "fetch"
Asking(req, same) ==
  same.become = req.become /\ same.user = req.user /\ same.script = req.script /\ same.kind = req.kind

LEMMA BuiltAsAsked ==
  ASSUME NEW config, config.os \in {"unix", "windows"}, NEW req \in Requests, NEW same, Asking(req, same)
  PROVE  AsAsked(config, req, BuildCommand(config, same).as)
<1>1. req.become \in YesNo
  BY DEF Requests
<1>2. CASE config.os = "windows"
  BY <1>1, <1>2 DEF BuildCommand, BuildCommandWindows, Own, AsAsked, Asking, YesNo
<1>3. CASE config.os = "unix"
  BY <1>1, <1>3 DEF BuildCommand, BuildCommandUnix, Own, AsAsked, Asking, YesNo, Escalated, RunningAs, BecomeUser
<1>4. QED
  BY <1>2, <1>3

LEMMA CommandAsAsked ==
  ASSUME NEW config, config.os \in {"unix", "windows"}, NEW req \in Requests, req.kind # "put"
  PROVE  AsAsked(config, req, CommandOf(config, req).as)
<1>1. req.become \in YesNo /\ req.kind \in {"exec", "fetch", "deploy"} /\ req.script \in YesNo
  BY DEF Requests
<1>2. CASE req.kind = "exec" /\ req.script = "yes"
  <2>1. CommandOf(config, req) = BuildScriptCommand(config, req)
    BY <1>2 DEF CommandOf
  <2>2. QED
    BY <1>1, <1>2, <2>1 DEF BuildScriptCommand, BuildScriptCommandUnix, BuildScriptCommandWindows, Own, AsAsked, YesNo, Escalated
<1>3. CASE req.kind = "exec" /\ req.script = "no"
  <2>1. CommandOf(config, req) = BuildCommand(config, req)
    BY <1>3 DEF CommandOf
  <2>2. QED
    BY <2>1, BuiltAsAsked DEF Asking
<1>4. CASE req.kind = "deploy"
  <2> DEFINE same == [req EXCEPT !.method = ""]
  <2>1. CommandOf(config, req) = BuildCommand(config, same)
    BY <1>4 DEF CommandOf
  <2>2. Asking(req, same)
    BY DEF Asking, Requests
  <2> HIDE DEF same
  <2>3. QED
    BY <2>1, <2>2, BuiltAsAsked
<1>5. CASE req.kind = "fetch"
  <2>1. CommandOf(config, req) = FileCommand(config, req)
    BY <1>5 DEF CommandOf
  <2>2. QED
    BY <1>1, <1>5, <2>1 DEF FileCommand, Own, AsAsked, YesNo
<1>6. QED
  BY <1>1, <1>2, <1>3, <1>4, <1>5 DEF YesNo

-----------------------------------------------------------------------------
(***************************************************************************)
(* Types: operations.                                                      *)
(***************************************************************************)
\* An operation goes on: past its gate only if it was not refused.
Goes(o, x) ==
  /\ ops' = (ops \ {o}) \cup {x} /\ OpOK(s, log, x) /\ x.agent = o.agent /\ x.call = o.call /\ x.wave = o.wave
  /\ x.step \in Past => o.step \in Past \/ Refusal(s.config, Request(o.call), Request(o.call).verdict) = "none"
  /\ x.as \in {o.as, None} \/ AsAsked(s.config, Request(o.call), x.as)
Temporary(o) == Request(o.call).kind \in {"exec", "deploy"}
\* What it does to the file it writes, if that is one to be taken away again.
Keeping(o, x) ==
  \/ disk' = disk /\ (Temporary(o) /\ o.step \in {"writing", "run"} => x.step \in {"writing", "run"} \/ Content(o) = "absent")
  \/ /\ o.step \in Past
     /\ \E v : /\ Store(o, v)
               /\ Temporary(o) => x.step \in {"writing", "run"} \/ v \in {"absent", WriteFailed(Request(o.call))}

LEMMA OpFacts ==
  ASSUME TypeOK, NEW o \in ops
  PROVE  /\ o \in Ops(s) /\ OpOK(s, log, o) /\ o.agent \in Agents /\ o.call \in DOMAIN s.calls
         /\ Request(o.call) \in Requests /\ s.config.os \in {"unix", "windows"} /\ s.config.identity \in STRING
<1>1. o \in Ops(s) /\ OpOK(s, log, o) /\ s \in Scenarios
  BY DEF TypeOK, OpsOK, OpOK, ServerTypes
<1>2. o.agent \in Agents /\ o.call \in DOMAIN s.calls
  BY <1>1 DEF Ops
<1>3. Request(o.call) \in Requests
  BY <1>1, <1>2, ScenariosAssumption DEF Request
<1>4. s.config \in [exec : {"on", "off"}, engine : {"none", "open", "closed"}, os : {"unix", "windows"},
                     identity : STRING, tools : SUBSET {"sudo", "su"}]
  BY <1>1, ScenariosAssumption
<1>5. QED
  BY <1>1, <1>2, <1>3, <1>4

LEMMA Advances ==
  ASSUME TypeOK, NEW o \in ops, NEW step \in Steps, NEW outcome \in Outcomes \cup {"none"}, step = "respond" => outcome # "none",
         step \in {"stat", "run"} => Request(o.call).kind # "put", Advance(o, step, outcome),
         step \in Past => o.step \in Past \/ Refusal(s.config, Request(o.call), Request(o.call).verdict) = "none"
  PROVE  \E x : Goes(o, x) /\ x.step = step
<1> DEFINE x == [o EXCEPT !.step = step, !.outcome = outcome]
<1>1. /\ x \in Ops(s) /\ x.step = step /\ x.outcome = outcome /\ x.agent = o.agent /\ x.call = o.call /\ x.wave = o.wave /\ x.as = o.as
      /\ OpOK(s, log, o)
  BY OpFacts DEF Ops
<1>2. ops' = (ops \ {o}) \cup {x}
  BY DEF Advance
<1> HIDE DEF x
<1>3. OpOK(s, log, x)
  BY <1>1 DEF OpOK, Request
<1>4. Goes(o, x)
  BY <1>1, <1>2, <1>3 DEF Goes
<1>5. QED
  BY <1>1, <1>4

LEMMA GateGoes ==
  ASSUME TypeOK, NEW o \in ops, Gate(o)
  PROVE  \E x : Goes(o, x) /\ Keeping(o, x)
<1> DEFINE req == Request(o.call)
           step == Gated(s.config, req, req.verdict)
           outcome == Refusal(s.config, req, req.verdict)
<1>1. o.step = "gate" /\ Advance(o, step, outcome) /\ disk' = disk
  BY DEF Gate
<1>2. outcome \in Outcomes \cup {"none"}
  BY OpFacts, RefusalType
<1>3. /\ step \in Steps /\ (step = "respond" => outcome # "none") /\ (step \in Past => outcome = "none")
      /\ (step \in {"stat", "run"} => req.kind # "put")
  BY AdmittedType DEF Gated, Past, Steps, Admitted
<1>4. \E x : Goes(o, x)
  <2> HIDE DEF step, req
  <2>1. QED
    BY <1>1, <1>2, <1>3, Advances DEF req
<1>5. QED
  BY <1>1, <1>4 DEF Keeping

LEMMA WriteGoes ==
  ASSUME TypeOK, NEW o \in ops, Write(o)
  PROVE  \E x : Goes(o, x) /\ Keeping(o, x)
<1>1. o.step = "write" /\ o.step \in Past
  BY DEF Write, Past
<1>2. CASE Store(o, "cut") /\ Advance(o, "writing", "none")
  <2>1. PICK x : Goes(o, x) /\ x.step = "writing"
    <3>1. "writing" \in Steps /\ "writing" \notin {"stat", "run"} /\ "writing" # "respond" /\ "none" \in Outcomes \cup {"none"}
      BY DEF Steps
    <3>2. QED
      BY <1>1, <1>2, <3>1, Advances
  <2>2. QED
    BY <1>1, <1>2, <2>1 DEF Keeping
<1>3. CASE Advance(o, "respond", WriteOutcome(Request(o.call))) /\ disk' = disk
  <2>1. PICK x : Goes(o, x) /\ x.step = "respond"
    <3>1. "respond" \in Steps /\ "respond" \notin {"stat", "run"} /\ WriteOutcome(Request(o.call)) \in Outcomes /\ "none" \notin Outcomes
      BY OutcomeTypes DEF Steps, Outcomes
    <3>2. QED
      BY <1>1, <1>3, <3>1, Advances
  <2>2. QED
    BY <1>1, <1>3, <2>1 DEF Keeping
<1>4. QED
  BY <1>2, <1>3 DEF Write

LEMMA FillGoes ==
  ASSUME TypeOK, NEW o \in ops, Fill(o)
  PROVE  \E x : Goes(o, x) /\ Keeping(o, x)
<1> DEFINE req == Request(o.call)
<1>1. o.step \in Past
  BY DEF Fill, Past
<1>2. /\ {"respond", "run"} \subseteq Steps /\ "respond" \notin {"stat", "run"} /\ "none" \notin Outcomes
      /\ WriteOutcome(req) \in Outcomes /\ {"ok", "failed"} \subseteq Outcomes
  BY OutcomeTypes DEF Steps, Outcomes
<1>3. CASE Store(o, "whole") /\ req.kind = "put" /\ \E outcome \in {"ok", "failed"} : Advance(o, "respond", outcome)
  <2>1. PICK x : Goes(o, x)
    BY <1>1, <1>2, <1>3, Advances
  <2>2. ~Temporary(o)
    BY <1>3 DEF Temporary
  <2>3. QED
    BY <1>1, <1>3, <2>1, <2>2 DEF Keeping
<1>4. CASE Store(o, "whole") /\ req.kind # "put" /\ Advance(o, "run", "none")
  <2>1. PICK x : Goes(o, x) /\ x.step = "run"
    <3>1. "run" \in Steps /\ "run" # "respond" /\ "none" \in Outcomes \cup {"none"}
      BY DEF Steps
    <3>2. QED
      BY <1>1, <1>4, <3>1, Advances
  <2>2. QED
    BY <1>1, <1>4, <2>1 DEF Keeping
<1>5. CASE Store(o, WriteFailed(req)) /\ Advance(o, "respond", WriteOutcome(req))
  <2>1. PICK x : Goes(o, x)
    BY <1>1, <1>2, <1>5, Advances
  <2>2. QED
    BY <1>1, <1>5, <2>1 DEF Keeping
<1>6. QED
  BY <1>3, <1>4, <1>5 DEF Fill

LEMMA StatGoes ==
  ASSUME TypeOK, NEW o \in ops, Stat(o)
  PROVE  \E x : Goes(o, x) /\ Keeping(o, x)
<1> DEFINE refused == Statted(Content(o), Request(o.call).size)
<1>1. o.step \in Past /\ o.step = "stat" /\ disk' = disk /\ Request(o.call).kind # "put"
  BY OpFacts DEF Stat, Past, OpOK, Request
<1>2. /\ {"respond", "run"} \subseteq Steps /\ "respond" \notin {"stat", "run"} /\ "none" \notin Outcomes /\ "run" # "respond"
      /\ refused \in Outcomes \cup {"none"}
  BY OutcomeTypes DEF Steps, Outcomes
<1> HIDE DEF refused
<1>3. (refused = "none" /\ Advance(o, "run", "none")) \/ (refused # "none" /\ Advance(o, "respond", refused))
  BY DEF Stat, refused
<1>4. \E x : Goes(o, x)
  BY <1>1, <1>2, <1>3, Advances
<1>5. QED
  BY <1>1, <1>4 DEF Keeping

LEMMA RunGoes ==
  ASSUME TypeOK, NEW o \in ops, Run(o)
  PROVE  \E x : Goes(o, x) /\ Keeping(o, x)
<1> DEFINE command == CommandOf(s.config, Request(o.call))
           as == IF Starts(s.config, command) THEN command.as ELSE None
<1>1. o.step \in Past /\ o.step = "run" /\ Request(o.call).kind # "put"
  BY OpFacts DEF Run, Past, OpOK, Request
<1>2. PICK outcome \in RunOutcomes(s.config, Request(o.call), Content(o)) :
        ops' = (ops \ {o}) \cup {[o EXCEPT !.step = "respond", !.outcome = outcome, !.as = as]}
  BY DEF Run
<1>3. outcome \in Outcomes /\ outcome # "none"
  BY OutcomeTypes DEF Outcomes
<1>4. AsAsked(s.config, Request(o.call), command.as)
  BY <1>1, OpFacts, CommandAsAsked
<1> HIDE DEF command
<1>5. as \in STRING \cup {"root", None}
  BY <1>4, OpFacts DEF AsAsked, BecomeUser, Requests
<1>6. as = None \/ AsAsked(s.config, Request(o.call), as)
  BY <1>4
<1> HIDE DEF as
<1> DEFINE x == [o EXCEPT !.step = "respond", !.outcome = outcome, !.as = as]
<1>7. /\ x \in Ops(s) /\ x.step = "respond" /\ x.outcome = outcome /\ x.agent = o.agent /\ x.call = o.call /\ x.wave = o.wave
      /\ x.as = as /\ OpOK(s, log, o)
  BY <1>3, <1>5, OpFacts DEF Ops, Steps
<1>8. ops' = (ops \ {o}) \cup {x}
  BY <1>2
<1> HIDE DEF x
<1>9. Goes(o, x)
  BY <1>1, <1>3, <1>6, <1>7, <1>8 DEF Goes, OpOK
<1>10. Keeping(o, x)
  <2>1. CASE disk' = disk /\ AfterRun(Request(o.call), Content(o)) = Content(o)
    BY <2>1 DEF Keeping, Temporary, AfterRun
  <2>2. CASE Store(o, "absent")
    BY <1>1, <2>2 DEF Keeping
  <2>3. QED
    BY <2>1, <2>2 DEF Run
<1>11. QED
  BY <1>9, <1>10

AtIt(o) == Gate(o) \/ Write(o) \/ Fill(o) \/ Stat(o) \/ Run(o)
LEMMA OpTypes ==
  ASSUME TypeOK, NEW o \in ops, AtIt(o)
  PROVE  TypeOK' /\ UNCHANGED <<s, wire, serverVars, runs, dead>> /\ \E x : Goes(o, x) /\ Keeping(o, x)
<1>1. UNCHANGED <<s, down, inbox, wire, serverVars, runs, dead>>
  BY DEF AtIt, Gate, Write, Fill, Stat, Run, meshVars
<1>2. PICK x : Goes(o, x) /\ Keeping(o, x)
  BY GateGoes, WriteGoes, FillGoes, StatGoes, RunGoes DEF AtIt
<1>3. ServerTypes' /\ InboxOK' /\ WireOK'
  BY <1>1, ServerRests, AgentsStay DEF TypeOK, ServerTypes, serverVars, Keeps
<1>4. OpsOK'
  BY <1>1, <1>2 DEF TypeOK, OpsOK, Goes, serverVars
<1>5. DiskOK'
  BY <1>1, <1>2 DEF TypeOK, DiskOK, Keeping, Store
<1>6. QED
  BY <1>1, <1>2, <1>3, <1>4, <1>5 DEF TypeOK

\* An operation ends, with its response under way or lost; or its agent panics.
Sent(o, z, m) ==
  /\ wire' = [wire EXCEPT ![z] = @ \o <<m>>]
  /\ m.t = "response" /\ m.agent = o.agent /\ m.call = o.call /\ m.status = o.outcome
Ends(o) == ops' = ops \ {o} /\ dead' = dead /\ (wire' = wire \/ \E z, m : Sent(o, z, m))
Panics(o) == ops' = {x \in ops : x.agent # o.agent} /\ dead' = dead \cup {o.agent} /\ wire' = wire

LEMMA RespondTypes ==
  ASSUME TypeOK, NEW o \in ops, Respond(o)
  PROVE  TypeOK' /\ UNCHANGED <<s, serverVars, disk, runs>> /\ o.step = "respond" /\ (Ends(o) \/ Panics(o))
<1> DEFINE a == o.agent
           m == [t |-> "response", agent |-> a, call |-> o.call, wave |-> o.wave, status |-> o.outcome, via |-> Above(a, up)]
<1>1. UNCHANGED <<s, serverVars, disk, runs>> /\ o.step = "respond"
  BY DEF Respond
<1>2. \/ SendUp(a, <<m>>) /\ ops' = ops \ {o} /\ dead' = dead
      \/ UNCHANGED <<down, inbox, wire, dead>> /\ ops' = ops \ {o}
      \/ Panics(o) /\ inbox' = [inbox EXCEPT ![a] = <<>>] /\ down' = down
  BY DEF Respond, Panics
<1>3. m.t = "response" /\ m.agent = a /\ m.call = o.call /\ m.status = o.outcome
  OBVIOUS
<1> HIDE DEF m
<1>4. ReportOK(s, log, m)
  <2>1. o \in Ops(s) /\ Known(s, log, o.call, {a}) /\ o.outcome # "none"
    BY <1>1, OpFacts DEF OpOK
  <2>2. o.outcome \in Outcomes /\ a \in Agents /\ o.call \in DOMAIN s.calls
    BY <2>1 DEF Ops
  <2>3. QED
    BY <1>3, <2>1, <2>2 DEF ReportOK
<1>5. /\ WireOK' /\ InboxOK' /\ down' \in [Agents \cup {Server} -> SUBSET Agents]
      /\ Ends(o) \/ Panics(o)
  <2>1. WireOK /\ log' = log /\ down \in [Agents \cup {Server} -> SUBSET Agents]
    BY <1>1 DEF TypeOK, ServerTypes, serverVars
  <2>2. wire' = wire => WireOK'
    BY <1>1, <2>1, AgentsStay DEF Keeps
  <2>3. CASE UNCHANGED <<down, inbox, wire, dead>> /\ ops' = ops \ {o}
    BY <1>1, <2>1, <2>2, <2>3, InboxStays DEF Ends
  <2>4. CASE Panics(o) /\ inbox' = [inbox EXCEPT ![a] = <<>>] /\ down' = down
    BY <1>1, <2>1, <2>2, <2>4, InboxCut DEF Panics
  <2>5. CASE SendUp(a, <<m>>) /\ ops' = ops \ {o} /\ dead' = dead
    <3>1. CASE wire' = [wire EXCEPT ![ZoneLeader(a, up)] = @ \o <<m>>] /\ UNCHANGED <<down, inbox>>
      <4>1. ReportsOK(s, log, <<m>>)
        BY <1>4, ReportsShrink
      <4>2. WireOK'
        BY <1>1, <2>1, <3>1, <4>1, WireAdd
      <4>3. InboxOK'
        BY <1>1, <2>1, <3>1, InboxStays
      <4>4. Sent(o, ZoneLeader(a, up), m)
        BY <1>3, <3>1 DEF Sent
      <4>5. QED
        BY <2>1, <2>5, <3>1, <4>2, <4>3, <4>4 DEF Ends
    <3>2. CASE /\ down' = [down EXCEPT ![up[Broken(a)]] = @ \ {Broken(a)}]
               /\ inbox' = [inbox EXCEPT ![Broken(a)] = <<>>] /\ wire' = wire
      <4>1. down' \in [Agents \cup {Server} -> SUBSET Agents]
        BY <2>1, <3>2
      <4>2. InboxOK'
        BY <1>1, <2>1, <3>2, InboxCut
      <4>3. QED
        BY <2>2, <2>5, <3>2, <4>1, <4>2 DEF Ends
    <3>3. QED
      BY <2>5, <3>1, <3>2 DEF SendUp
  <2>6. QED
    BY <1>2, <2>3, <2>4, <2>5
<1>6. ServerTypes'
  BY <1>1, <1>5, ServerRests DEF TypeOK, serverVars
<1>7. OpsOK'
  BY <1>1, <1>5 DEF TypeOK, OpsOK, Ends, Panics, serverVars
<1>8. QED
  BY <1>1, <1>5, <1>6, <1>7, AgentsStay DEF TypeOK, serverVars, Keeps

LEMMA UpdateTypes ==
  ASSUME TypeOK, NEW u \in updates, UpdateExecLog(u)
  PROVE  /\ TypeOK' /\ UNCHANGED <<s, wire, call, result, agentVars>>
         /\ updates' = updates \ {u} /\ log' = Closed(u.call, u.status)
         /\ Single(u.call) /\ Request(u.call).kind = "exec" /\ u.call \in DOMAIN s.calls
<1>1. UNCHANGED <<s, meshVars, call, sessions, result, agentVars>> /\ updates' = updates \ {u} /\ log' = Closed(u.call, u.status)
  BY DEF UpdateExecLog
<1>2. u.call \in DOMAIN s.calls /\ u.status \in Outcomes /\ Single(u.call) /\ Request(u.call).kind = "exec"
  BY DEF TypeOK, ServerTypes
<1>3. log' \in [DOMAIN s.calls -> Statuses] /\ Keeps(s, log, log')
  BY <1>1, <1>2, ClosedTypes DEF TypeOK
<1>4. ASSUME NEW c \in DOMAIN s.calls PROVE CallLogged(s, log', c, call'[c].phase)
  <2>1. log[c] = "none" => log'[c] = "none"
    BY <1>1 DEF Closed, TypeOK, ServerTypes
  <2>2. QED
    BY <1>1, <1>3, <2>1 DEF TypeOK, ServerTypes, CallLogged, Keeps
<1>5. SessionsOK(s, log', sessions')
  BY <1>1, <1>3, SessionsStay DEF TypeOK, ServerTypes
<1>6. ServerTypes'
  BY <1>1, <1>3, <1>4, <1>5, ServerStep DEF TypeOK, ServerTypes, meshVars
<1>7. QED
  BY <1>1, <1>2, <1>3, <1>6, AgentsStay DEF TypeOK, agentVars, meshVars

-----------------------------------------------------------------------------
(***************************************************************************)
(* The steps, by what they do to what the invariants speak of.             *)
(***************************************************************************)
Silent ==
  /\ Quiet(s, call, call') /\ UNCHANGED <<s, result, log, updates, agentVars>>
  /\ OldResponses
Handles(c) == HandleExecCommand(c) \/ HandlePutFile(c) \/ HandleFetchFile(c)
Answers(c) == AnswerExecCommand(c) \/ AnswerPutFile(c) \/ AnswerFetchFile(c)
Loud ==
  \/ \E c \in DOMAIN s.calls : Handles(c) \/ Answers(c)
  \/ \E a \in Agents : HandleServerMessage(a) \/ Receive(a)
  \/ \E o \in ops : AtIt(o) \/ Respond(o)
  \/ \E u \in updates : UpdateExecLog(u)

LEMMA Rests ==
  ASSUME TypeOK, UNCHANGED <<s, wire, result, log, updates, agentVars>>, Quiet(s, call, call')
  PROVE  Silent
  BY DEF Silent, Response, OldResponses

LEMMA ServerSteps ==
  ASSUME TypeOK, ToldInv, NEW c \in DOMAIN s.calls,
         \/ Send(c) \/ Timeout(c) \/ HandleExecMulti(c) \/ HandleBroadcastDeploy(c)
         \/ DispatchExecWave(c) \/ DispatchDeployWave(c) \/ WaveDone(c) \/ WaveTimeout(c)
  PROVE  TypeOK' /\ Silent
<1>1. CASE Send(c)
  BY <1>1, SendTypes, Rests
<1>2. CASE Timeout(c)
  BY <1>2, TimeoutTypes, Rests DEF meshVars
<1>3. CASE HandleExecMulti(c)
  <2>1. call[c].phase = "new" /\ ~Single(c) /\ \E defect : Begin(c, defect)
    BY <1>3 DEF HandleExecMulti
  <2>2. QED
    BY <2>1, BeginTypes, Rests
<1>4. CASE HandleBroadcastDeploy(c)
  <2>1. call[c].phase = "new" /\ ~Single(c) /\ \E defect : Begin(c, defect)
    BY <1>4 DEF HandleBroadcastDeploy
  <2>2. QED
    BY <2>1, BeginTypes, Rests
<1>5. CASE DispatchExecWave(c) \/ DispatchDeployWave(c)
  BY <1>5, DispatchTypes, Rests DEF DispatchExecWave, DispatchDeployWave
<1>6. CASE WaveDone(c) \/ WaveTimeout(c)
  BY <1>6, WaveEndTypes, Rests
<1>7. QED
  BY <1>1, <1>2, <1>3, <1>4, <1>5, <1>6

LEMMA MeshSteps ==
  ASSUME TypeOK, NEW a \in Agents, NEW p \in Agents \cup {Server},
         Cut(a) \/ ServerNotices(a) \/ Attach(a, p) \/ (p \in Agents /\ RelayNotices(p, a))
  PROVE  TypeOK' /\ Silent
<1>1. Quiet(s, call, call) /\ (call' = call => Quiet(s, call, call'))
  BY QuietNone DEF TypeOK
<1>2. CASE Cut(a)
  BY <1>1, <1>2, CutTypes, Rests DEF serverVars
<1>3. CASE ServerNotices(a)
  BY <1>3, ServerNoticesTypes DEF Silent
<1>4. CASE Attach(a, p)
  BY <1>1, <1>4, AttachTypes DEF Silent, serverVars
<1>5. CASE p \in Agents /\ RelayNotices(p, a)
  BY <1>1, <1>5, RelayNoticesTypes DEF Silent, serverVars
<1>6. QED
  BY <1>2, <1>3, <1>4, <1>5

LEMMA LoudSteps ==
  ASSUME TypeOK, ToldInv, Loud
  PROVE  TypeOK'
<1>1. CASE \E c \in DOMAIN s.calls : Handles(c)
  <2>1. PICK c \in DOMAIN s.calls : Handles(c)
    BY <1>1
  <2>2. ServerTypes' /\ s' = s /\ Keeps(s, log, log') /\ UNCHANGED <<meshVars, agentVars>>
    BY <2>1, HandleTypes DEF Handles, TypeOK
  <2>3. QED
    BY <2>2, AgentsStay DEF TypeOK, meshVars, agentVars
<1>2. CASE \E c \in DOMAIN s.calls : Answers(c)
  BY <1>2, AnswerTypes DEF Answers
<1>3. CASE \E a \in Agents : HandleServerMessage(a) \/ Receive(a)
  BY <1>3, TakeTypes, ReceiveTypes
<1>4. CASE \E o \in ops : AtIt(o) \/ Respond(o)
  BY <1>4, OpTypes, RespondTypes
<1>5. CASE \E u \in updates : UpdateExecLog(u)
  BY <1>5, UpdateTypes
<1>6. QED
  BY <1>1, <1>2, <1>3, <1>4, <1>5 DEF Loud

LEMMA EveryStep ==
  ASSUME TypeOK, ToldInv, [Next]_vars
  PROVE  TypeOK' /\ (Silent \/ Loud)
<1>1. CASE UNCHANGED vars
  <2>1. UNCHANGED <<s, down, inbox, wire, call, sessions, result, log, updates, agentVars>>
    BY <1>1 DEF vars, meshVars, serverVars
  <2>2. Silent
    BY <2>1, QuietNone, Rests DEF TypeOK
  <2>3. ServerTypes'
    BY <2>1, ServerRests DEF TypeOK, ServerTypes
  <2>4. QED
    BY <2>1, <2>2, <2>3, AgentsStay DEF TypeOK, agentVars, Keeps
<1>2. CASE Next
  <2>1. \/ Loud
        \/ \E c \in DOMAIN s.calls :
             \/ Send(c) \/ Timeout(c) \/ HandleExecMulti(c) \/ HandleBroadcastDeploy(c)
             \/ DispatchExecWave(c) \/ DispatchDeployWave(c) \/ WaveDone(c) \/ WaveTimeout(c)
        \/ \E a \in Agents, p \in Agents \cup {Server} :
             Cut(a) \/ ServerNotices(a) \/ Attach(a, p) \/ (p \in Agents /\ RelayNotices(p, a))
    BY <1>2 DEF Next, Loud, Handles, Answers, AtIt
  <2>2. CASE Loud
    BY <2>2, LoudSteps
  <2>3. CASE \E c \in DOMAIN s.calls :
             \/ Send(c) \/ Timeout(c) \/ HandleExecMulti(c) \/ HandleBroadcastDeploy(c)
             \/ DispatchExecWave(c) \/ DispatchDeployWave(c) \/ WaveDone(c) \/ WaveTimeout(c)
    BY <2>3, ServerSteps
  <2>4. CASE \E a \in Agents, p \in Agents \cup {Server} :
             Cut(a) \/ ServerNotices(a) \/ Attach(a, p) \/ (p \in Agents /\ RelayNotices(p, a))
    BY <2>4, MeshSteps
  <2>5. QED
    BY <2>1, <2>2, <2>3, <2>4
<1>3. QED
  BY <1>1, <1>2

-----------------------------------------------------------------------------
(***************************************************************************)
(* Who answers, and as whom.                                               *)
(***************************************************************************)
\* Replies that are those there were, or of nobody.
LEMMA ToldSame ==
  ASSUME ToldInv, s' = s, result' = result,
         \A c \in DOMAIN s.calls :
           call'[c].reply.agent = None \/ (call'[c].reply = call[c].reply /\ (call[c].phase = "done" => call'[c].phase = "done"))
  PROVE  ToldInv'
  BY DEF ToldInv, Single, Request

LEMMA ToldStep ==
  ASSUME TypeOK, ToldInv, [Next]_vars
  PROVE  ToldInv'
<1>1. CASE Silent
  <2>1. s' = s /\ result' = result /\ Quiet(s, call, call')
    BY <1>1 DEF Silent
  <2>2. QED
    BY <2>1, ToldSame DEF Quiet, NoNews
<1>2. CASE \E c \in DOMAIN s.calls : Handles(c)
  <2>1. PICK c \in DOMAIN s.calls : Handles(c)
    BY <1>2
  <2>2. /\ s' = s /\ result' = result /\ call[c].phase = "new" /\ call'[c].phase \in {"open", "done"}
        /\ call'[c].phase = "open" => call'[c].reply = call[c].reply
        /\ call'[c].phase = "done" => call'[c].reply.agent = None
        /\ \A d \in DOMAIN s.calls \ {c} : call'[d] = call[d]
    BY <2>1, HandleTypes DEF Handles, TypeOK
  <2>3. call'[c].reply.agent = None
    BY <2>2 DEF ToldInv
  <2>4. QED
    BY <2>2, <2>3, ToldSame
<1>3. CASE \E c \in DOMAIN s.calls : Answers(c)
  <2>1. PICK c \in DOMAIN s.calls : Answers(c)
    BY <1>3
  <2>2. /\ UNCHANGED <<s, result>> /\ Single(c) /\ result[c] # <<>> /\ call'[c].phase = "done"
        /\ call'[c].reply = [status |-> result[c][1].status, agent |-> result[c][1].agent]
        /\ \A d \in DOMAIN s.calls \ {c} : call'[d] = call[d]
    BY <2>1, AnswerTypes DEF Answers
  <2>3. QED
    BY <2>2 DEF ToldInv, Single, Request
<1>4. CASE \E z \in Agents : Receive(z)
  <2>1. PICK z \in Agents : Receive(z)
    BY <1>4
  <2> DEFINE m == Head(wire[z])
  <2>2. s' = s /\ (Unheard \/ (ReportOK(s, log, m) /\ Heard(m)))
    BY <2>1, ReceiveTypes
  <2> HIDE DEF m
  <2>3. CASE Unheard
    BY <2>2, <2>3, ToldSame DEF Unheard, Quiet, NoNews
  <2>4. CASE ReportOK(s, log, m) /\ Heard(m)
    <3>1. call' = call /\ (result' = result \/ \E c : Into(m, c)) /\ m.status \in Outcomes
      BY <2>4, IntoTypes DEF Heard, ReportOK, TypeOK
    <3>2. CASE result' = result
      BY <2>2, <3>1, <3>2, ToldSame
    <3>3. CASE \E c : Into(m, c)
      <4>1. PICK c : Into(m, c)
        BY <3>3
      <4>2. /\ result'[c][1] = m /\ result'[c] # <<>> /\ result[c] = <<>> /\ Request(c).target = m.agent
            /\ \A d \in DOMAIN s.calls \ {c} : result'[d] = result[d]
        BY <3>1, <4>1, IntoResult DEF TypeOK, Into
      <4>3. QED
        BY <2>2, <3>1, <4>2 DEF ToldInv, Single, Request
    <3>4. QED
      BY <3>1, <3>2, <3>3
  <2>5. QED
    BY <2>2, <2>3, <2>4
<1>5. CASE \/ \E a \in Agents : HandleServerMessage(a)
           \/ \E o \in ops : AtIt(o) \/ Respond(o)
           \/ \E u \in updates : UpdateExecLog(u)
  <2>1. UNCHANGED <<s, call, result>>
    BY <1>5, TakeTypes, OpTypes, RespondTypes, UpdateTypes DEF serverVars
  <2>2. QED
    BY <2>1, ToldSame
<1>6. QED
  BY <1>1, <1>2, <1>3, <1>4, <1>5, EveryStep DEF Loud

\* Operations: those there were, one that starts, one that goes on.
LEMMA OpsOfStep ==
  ASSUME TypeOK, ToldInv, [Next]_vars
  PROVE  /\ s' = s
         /\ \/ ops' \subseteq ops
            \/ \E a \in Agents : \E o : TakenUp(a, o)
            \/ \E o \in ops : \E x : Goes(o, x)
<1>1. CASE Silent
  BY <1>1 DEF Silent, agentVars
<1>2. CASE \E c \in DOMAIN s.calls : Handles(c)
  <2>1. s' = s /\ ops' = ops
    BY <1>2, HandleTypes DEF Handles, TypeOK, agentVars
  <2>2. QED
    BY <2>1
<1>3. CASE \E c \in DOMAIN s.calls : Answers(c)
  <2>1. s' = s /\ ops' = ops
    BY <1>3, AnswerTypes DEF Answers, agentVars
  <2>2. QED
    BY <2>1
<1>4. CASE \E z \in Agents : Receive(z)
  <2>1. s' = s /\ ops' = ops
    BY <1>4, ReceiveTypes DEF agentVars
  <2>2. QED
    BY <2>1
<1>5. CASE \E a \in Agents : HandleServerMessage(a)
  BY <1>5, TakeTypes
<1>6. CASE \E o \in ops : AtIt(o)
  BY <1>6, OpTypes
<1>7. CASE \E o \in ops : Respond(o)
  <2>1. s' = s /\ ops' \subseteq ops
    BY <1>7, RespondTypes DEF Ends, Panics
  <2>2. QED
    BY <2>1
<1>8. CASE \E u \in updates : UpdateExecLog(u)
  <2>1. s' = s /\ ops' = ops
    BY <1>8, UpdateTypes DEF agentVars
  <2>2. QED
    BY <2>1
<1>9. QED
  BY <1>1, <1>2, <1>3, <1>4, <1>5, <1>6, <1>7, <1>8, EveryStep DEF Loud

LEMMA AsAskedStep ==
  ASSUME TypeOK, ToldInv, RunsAsAsked, [Next]_vars
  PROVE  RunsAsAsked'
<1>1. RunsAsAsked <=> \A o \in ops : o.as # None => AsAsked(s.config, Request(o.call), o.as)
  BY DEF RunsAsAsked, AsAsked
<1>2. s' = s /\ \A o \in ops' : o.as # None => AsAsked(s.config, Request(o.call), o.as)
  <2>1. CASE ops' \subseteq ops
    BY <1>1, <2>1, OpsOfStep
  <2>2. CASE \E a \in Agents : \E o : TakenUp(a, o)
    BY <1>1, <2>2, OpsOfStep DEF TakenUp
  <2>3. CASE \E o \in ops : \E x : Goes(o, x)
    BY <1>1, <2>3, OpsOfStep DEF Goes
  <2>4. QED
    BY <2>1, <2>2, <2>3, OpsOfStep
<1>3. QED
  BY <1>2 DEF RunsAsAsked, AsAsked, Request, BecomeUser

-----------------------------------------------------------------------------
(***************************************************************************)
(* What is left on an agent.                                               *)
(***************************************************************************)
LEMMA FilesOf ==
  ASSUME NEW r, NEW c, NEW q, NEW d
  PROVE  /\ FileOf(r, c)[1] # "file" <=> r.kind \in {"exec", "deploy"}
         /\ FileOf(r, c) = FileOf(q, d) /\ r.kind \in {"exec", "deploy"} => c = d
<1>1. CASE r.kind = "exec"
  BY <1>1 DEF FileOf
<1>2. CASE r.kind = "deploy"
  BY <1>2 DEF FileOf
<1>3. CASE r.kind \notin {"exec", "deploy"}
  BY <1>3 DEF FileOf
<1>4. QED
  BY <1>1, <1>2, <1>3

\* The two parts of DiskInv, on a state given by its parts.
NotRefused(sc, c) == Refusal(sc.config, sc.calls[c], sc.calls[c].verdict) = "none"
Needed(sc, now, a, c) == \E o \in now : o.agent = a /\ o.call = c /\ o.step \in {"writing", "run"}
Clean(sc, now, gone, files, a, c) ==
  sc.calls[c].kind \in {"exec", "deploy"} /\ FileOf(sc.calls[c], c) \in DOMAIN files =>
    /\ NotRefused(sc, c)
    /\ a \notin gone /\ files[FileOf(sc.calls[c], c)] \notin {"absent", WriteFailed(sc.calls[c])} => Needed(sc, now, a, c)

LEMMA DiskParts ==
  DiskInv <=> /\ \A o \in ops : o.step \in Past => NotRefused(s, o.call)
              /\ \A a \in Agents, c \in DOMAIN s.calls : Clean(s, ops, dead, disk[a], a, c)
<1>1. \A c : FileOf(Request(c), c)[1] # "file" <=> Request(c).kind \in {"exec", "deploy"}
  BY FilesOf
<1>2. QED
  BY <1>1 DEF DiskInv, Past, Request, NotRefused, Clean, Needed

LEMMA StoredFile ==
  ASSUME TypeOK, NEW o \in ops, NEW v, Store(o, v), NEW a \in Agents, NEW c \in DOMAIN s.calls, Request(c).kind \in {"exec", "deploy"}
  PROVE  LET f == FileOf(Request(c), c) IN
         \/ a = o.agent /\ c = o.call /\ disk'[a][f] = v
         \/ (a # o.agent \/ c # o.call) /\ (f \in DOMAIN disk'[a] => f \in DOMAIN disk[a] /\ disk'[a][f] = disk[a][f])
<1> DEFINE f == FileOf(Request(c), c)
           g == FileOf(Request(o.call), o.call)
<1>1. disk' = [disk EXCEPT ![o.agent] = [x \in DOMAIN @ \cup {g} |-> IF x = g THEN v ELSE @[x]]] /\ disk = [b \in Agents |-> disk[b]]
  BY DEF Store, TypeOK, DiskOK
<1>2. f = g => c = o.call
  BY FilesOf
<1>3. c = o.call => f = g
  OBVIOUS
<1> HIDE DEF f, g
<1>4. CASE a = o.agent /\ c = o.call
  BY <1>1, <1>3, <1>4 DEF f
<1>5. CASE a # o.agent
  BY <1>1, <1>5 DEF f
<1>6. CASE a = o.agent /\ c # o.call
  BY <1>1, <1>2, <1>6 DEF f
<1>7. QED
  BY <1>4, <1>5, <1>6

\* A file that nobody wrote, while whoever needs it is still there.
LEMMA CleanStays ==
  ASSUME NEW sc, NEW now, NEW now2, NEW gone, NEW gone2, gone \subseteq gone2, NEW files, NEW files2, NEW a, NEW c,
         Clean(sc, now, gone, files, a, c),
         FileOf(sc.calls[c], c) \in DOMAIN files2 =>
           FileOf(sc.calls[c], c) \in DOMAIN files /\ files2[FileOf(sc.calls[c], c)] = files[FileOf(sc.calls[c], c)],
         Needed(sc, now, a, c) => Needed(sc, now2, a, c) \/ a \in gone2
  PROVE  Clean(sc, now2, gone2, files2, a, c)
  BY DEF Clean

LEMMA DiskStep ==
  ASSUME TypeOK, ToldInv, DiskInv, [Next]_vars
  PROVE  DiskInv'
<1> DEFINE Now(o2, d2, k2) == /\ \A o \in o2 : o.step \in Past => NotRefused(s, o.call)
                              /\ \A a \in Agents, c \in DOMAIN s.calls : Clean(s, o2, d2, k2[a], a, c)
<1>1. Now(ops, dead, disk)
  BY DiskParts
<1>2. s' = s
  BY OpsOfStep
<1>3. SUFFICES Now(ops', dead', disk')
  <2>1. \A c : FileOf(s.calls[c], c)[1] # "file" <=> s.calls[c].kind \in {"exec", "deploy"}
    BY FilesOf
  <2>2. QED
    BY <1>2, <1>3, <2>1 DEF DiskInv, Past, Request, NotRefused, Clean, Needed
<1>4. CASE UNCHANGED agentVars
  BY <1>1, <1>4 DEF agentVars
<1>5. CASE \E a \in Agents : HandleServerMessage(a)
  <2>1. UNCHANGED <<disk, dead>> /\ (ops' = ops \/ \E b, o : TakenUp(b, o))
    BY <1>5, TakeTypes
  <2>2. \A o \in ops' : o.step \in Past => o \in ops
    BY <2>1 DEF TakenUp, Past
  <2>3. ops \subseteq ops'
    BY <2>1 DEF TakenUp
  <2>4. \A a \in Agents, c \in DOMAIN s.calls : Clean(s, ops', dead', disk'[a], a, c)
    BY <1>1, <2>1, <2>3, CleanStays DEF Needed
  <2>5. QED
    BY <1>1, <2>2, <2>4
<1>6. CASE \E o \in ops : AtIt(o)
  <2>1. PICK o \in ops : AtIt(o)
    BY <1>6
  <2>2. PICK x : Goes(o, x) /\ Keeping(o, x)
    BY <2>1, OpTypes
  <2>3. dead' = dead /\ ops' = (ops \ {o}) \cup {x} /\ x.agent = o.agent /\ x.call = o.call
    BY <2>1, <2>2, OpTypes DEF Goes
  <2>4. \A y \in ops' : y.step \in Past => NotRefused(s, y.call)
    <3>1. x.step \in Past => NotRefused(s, x.call)
      BY <1>1, <2>2 DEF Goes, NotRefused, Request
    <3>2. QED
      BY <1>1, <2>3, <3>1
  <2>5. ASSUME NEW a \in Agents, NEW c \in DOMAIN s.calls, Request(c).kind \in {"exec", "deploy"}
        PROVE  Clean(s, ops', dead', disk'[a], a, c)
    <3> DEFINE f == FileOf(s.calls[c], c)
    <3>1. Clean(s, ops, dead, disk[a], a, c)
      BY <1>1
    <3>2. a # o.agent \/ c # o.call => (Needed(s, ops, a, c) => Needed(s, ops', a, c))
      BY <2>3 DEF Needed
    <3>3. CASE (a # o.agent \/ c # o.call) /\ (f \in DOMAIN disk'[a] => f \in DOMAIN disk[a] /\ disk'[a][f] = disk[a][f])
      BY <2>3, <3>1, <3>2, <3>3, CleanStays
    <3>4. CASE a = o.agent /\ c = o.call /\ disk' = disk
      <4>1. x.step \in {"writing", "run"} => Needed(s, ops', a, c)
        BY <2>3, <3>4 DEF Needed
      <4>2. o.step \notin {"writing", "run"} => (Needed(s, ops, a, c) => Needed(s, ops', a, c))
        BY <2>3, <3>4 DEF Needed
      <4>3. CASE o.step \notin {"writing", "run"} \/ x.step \in {"writing", "run"}
        BY <2>3, <3>1, <3>4, <4>1, <4>2, <4>3, CleanStays
      <4>4. CASE o.step \in {"writing", "run"} /\ x.step \notin {"writing", "run"}
        <5>1. Content(o) = "absent" \/ \E v : Store(o, v) /\ v \in {"absent", WriteFailed(Request(c))}
          BY <2>2, <2>5, <3>4, <4>4 DEF Keeping, Temporary
        <5>2. f \in DOMAIN disk[a] => disk[a][f] \in {"absent", WriteFailed(Request(c))}
          <6>1. CASE Content(o) = "absent"
            BY <3>4, <6>1 DEF Content, Request
          <6>2. CASE \E v : Store(o, v) /\ v \in {"absent", WriteFailed(Request(c))}
            BY <2>5, <3>4, <6>2, StoredFile DEF Request
          <6>3. QED
            BY <5>1, <6>1, <6>2
        <5>3. QED
          BY <3>1, <3>4, <5>2 DEF Clean, Request
      <4>5. QED
        BY <4>3, <4>4
    <3>5. CASE /\ a = o.agent /\ c = o.call /\ o.step \in Past
               /\ \E v : /\ Store(o, v) /\ disk'[a][f] = v
                         /\ x.step \in {"writing", "run"} \/ v \in {"absent", WriteFailed(Request(c))}
      <4>1. NotRefused(s, c)
        BY <1>1, <3>5
      <4>2. x.step \in {"writing", "run"} => Needed(s, ops', a, c)
        BY <2>3, <3>5 DEF Needed
      <4>3. QED
        BY <3>5, <4>1, <4>2 DEF Clean, Request
    <3>6. CASE disk' = disk
      BY <3>3, <3>4, <3>6
    <3>7. CASE o.step \in Past /\ \E v : /\ Store(o, v)
                                         /\ Temporary(o) => x.step \in {"writing", "run"} \/ v \in {"absent", WriteFailed(Request(o.call))}
      <4>1. PICK v : /\ Store(o, v)
                     /\ Temporary(o) => x.step \in {"writing", "run"} \/ v \in {"absent", WriteFailed(Request(o.call))}
        BY <3>7
      <4>2. \/ a = o.agent /\ c = o.call /\ disk'[a][f] = v
            \/ (a # o.agent \/ c # o.call) /\ (f \in DOMAIN disk'[a] => f \in DOMAIN disk[a] /\ disk'[a][f] = disk[a][f])
        BY <2>5, <4>1, StoredFile DEF Request
      <4>3. a = o.agent /\ c = o.call => Temporary(o)
        BY <2>5 DEF Temporary
      <4>4. QED
        BY <3>3, <3>5, <3>7, <4>1, <4>2, <4>3
    <3>8. QED
      BY <2>2, <3>6, <3>7 DEF Keeping
  <2>6. \A a \in Agents, c \in DOMAIN s.calls : Clean(s, ops', dead', disk'[a], a, c)
    BY <2>5 DEF Clean, Request
  <2>7. QED
    BY <2>4, <2>6
<1>7. CASE \E o \in ops : Respond(o)
  <2>1. PICK o \in ops : Respond(o)
    BY <1>7
  <2>2. disk' = disk /\ o.step = "respond" /\ (Ends(o) \/ Panics(o))
    BY <2>1, RespondTypes
  <2>3. ops' \subseteq ops /\ dead \subseteq dead'
    BY <2>2 DEF Ends, Panics
  <2>4. \A a, c : Needed(s, ops, a, c) => Needed(s, ops', a, c) \/ a \in dead'
    BY <2>2 DEF Needed, Ends, Panics
  <2>5. \A a \in Agents, c \in DOMAIN s.calls : Clean(s, ops', dead', disk'[a], a, c)
    BY <1>1, <2>2, <2>3, <2>4, CleanStays
  <2>6. QED
    BY <1>1, <2>3, <2>5
<1>8. CASE \/ \E c \in DOMAIN s.calls : Handles(c) \/ Answers(c)
           \/ \E z \in Agents : Receive(z)
           \/ \E u \in updates : UpdateExecLog(u)
  <2>1. UNCHANGED agentVars
    BY <1>8, HandleTypes, AnswerTypes, ReceiveTypes, UpdateTypes DEF Handles, Answers, TypeOK
  <2>2. QED
    BY <1>4, <2>1
<1>9. CASE Silent
  BY <1>4, <1>9 DEF Silent
<1>10. QED
  BY <1>5, <1>6, <1>7, <1>8, <1>9, EveryStep DEF Loud

-----------------------------------------------------------------------------
(***************************************************************************)
(* What the audit log says.                                                *)
(***************************************************************************)
\* Only requests of its id close an entry.
LEMMA ClosedElsewhere ==
  ASSUME ServerTypes, NEW c \in DOMAIN s.calls, Single(c), NEW d \in DOMAIN s.calls, SameId(d) = {d}, c # d, NEW status
  PROVE  Closed(c, status)[d] = log[d]
<1>1. Request(c).id # Request(d).id
  BY DEF SameId
<1>2. QED
  BY <1>1 DEF Closed, ServerTypes

LEMMA FilesLogged ==
  ASSUME TypeOK, ToldInv, LogInv, [Next]_vars,
         NEW c \in DOMAIN s.calls, Single(c), SameId(c) = {c}, Request(c).kind # "exec"
  PROVE  FileLog(c)'
<1>1. FileLog(c)
  BY DEF LogInv
<1>2. ASSUME log'[c] = log[c],
             call'[c].phase \in {"open", "waiting"} => call[c].phase \in {"open", "waiting"},
             call'[c].reply.agent = None \/ call'[c].reply = call[c].reply
      PROVE  FileLog(c)'
  BY <1>1, <1>2 DEF FileLog
<1>3. CASE Silent
  <2>1. log' = log /\ NoNews(ForOne(s, c), call[c], call'[c]) /\ ForOne(s, c)
    BY <1>3 DEF Silent, Quiet, Single, ForOne, Request
  <2>2. QED
    BY <1>2, <2>1 DEF NoNews, Running
<1>4. CASE \E d \in DOMAIN s.calls : Handles(d)
  <2>1. PICK d \in DOMAIN s.calls : Handles(d)
    BY <1>4
  <2>2. /\ call[d].phase = "new" /\ call'[d].phase \in {"open", "done"}
        /\ call'[d].phase = "open" => call'[d].reply = call[d].reply /\ log'[d] = "open"
        /\ call'[d].phase = "done" => call'[d].reply.agent = None
        /\ \A e \in DOMAIN s.calls \ {d} : call'[e] = call[e] /\ log'[e] = log[e]
    BY <2>1, HandleTypes DEF Handles, TypeOK
  <2>3. CASE d = c
    <3>1. call[c].reply.agent = None
      BY <2>2, <2>3 DEF ToldInv
    <3>2. QED
      BY <2>2, <2>3, <3>1 DEF FileLog
  <2>4. CASE d # c
    BY <1>2, <2>2, <2>4
  <2>5. QED
    BY <2>3, <2>4
<1>5. CASE \E d \in DOMAIN s.calls : Answers(d)
  <2>1. PICK d \in DOMAIN s.calls : Answers(d)
    BY <1>5
  <2>2. /\ Single(d) /\ call[d].phase = "waiting" /\ call'[d].phase = "done"
        /\ call'[d].reply = [status |-> result[d][1].status, agent |-> result[d][1].agent]
        /\ \A e \in DOMAIN s.calls \ {d} : call'[e] = call[e]
        /\ \/ Request(d).kind = "exec" /\ log' = log
           \/ Request(d).kind # "exec" /\ log' = Closed(d, result[d][1].status)
    BY <2>1, AnswerTypes DEF Answers
  <2>3. CASE d = c
    <3>1. log[c] = "open" /\ log' = Closed(c, result[c][1].status)
      BY <1>1, <2>2, <2>3 DEF FileLog
    <3>2. log'[c] = result[c][1].status
      BY <3>1 DEF Closed, TypeOK, ServerTypes
    <3>3. QED
      BY <2>2, <2>3, <3>2 DEF FileLog
  <2>4. CASE d # c
    <3>1. log'[c] = log[c]
      BY <2>2, <2>4, ClosedElsewhere DEF TypeOK
    <3>2. QED
      BY <1>2, <2>2, <2>4, <3>1
  <2>5. QED
    BY <2>3, <2>4
<1>6. CASE \E z \in Agents : Receive(z)
  <2>1. log' = log /\ (Quiet(s, call, call') \/ call' = call)
    BY <1>6, ReceiveTypes DEF Unheard, Heard
  <2>2. NoNews(ForOne(s, c), call[c], call'[c]) \/ call' = call
    BY <2>1 DEF Quiet
  <2>3. ForOne(s, c)
    BY DEF Single, ForOne, Request
  <2>4. QED
    BY <1>2, <2>1, <2>2, <2>3 DEF NoNews, Running
<1>7. CASE (\E a \in Agents : HandleServerMessage(a)) \/ \E o \in ops : AtIt(o) \/ Respond(o)
  <2>1. UNCHANGED <<call, log>>
    BY <1>7, TakeTypes, OpTypes, RespondTypes DEF serverVars
  <2>2. QED
    BY <1>2, <2>1
<1>8. CASE \E u \in updates : UpdateExecLog(u)
  <2>1. PICK u \in updates : UpdateExecLog(u)
    BY <1>8
  <2>2. /\ call' = call /\ log' = Closed(u.call, u.status)
        /\ Single(u.call) /\ u.call \in DOMAIN s.calls /\ u.call # c
    BY <2>1, UpdateTypes
  <2>3. log'[c] = log[c]
    BY <2>2, ClosedElsewhere DEF TypeOK
  <2>4. QED
    BY <1>2, <2>2, <2>3
<1>9. QED
  BY <1>3, <1>4, <1>5, <1>6, <1>7, <1>8, EveryStep DEF Loud

\* Where a command's traces are can only shrink, if nothing is taken up, sent or read.
LEMMA PlaceStays ==
  ASSUME NEW c, OnePlace(c), s' = s, runs' = runs, ops' \subseteq ops, updates' \subseteq updates, result' = result,
         \A z \in Agents : \A i : Response(z, i, c)' => Response(z, i, c)
  PROVE  OnePlace(c)'
<1>1. /\ AtWork(c)' => AtWork(c)
      /\ Accounted(c)' => Accounted(c)
  BY DEF AtWork, Accounted
<1>2. UnderWay(c)' => UnderWay(c)
  <2>1. ASSUME NEW z \in Agents, NEW i \in 1..Len(wire'[z]), Response(z, i, c)' PROVE UnderWay(c)
    <3>1. Response(z, i, c) /\ i \in 1..Len(wire[z])
      BY <2>1 DEF Response
    <3>2. QED
      BY <3>1 DEF UnderWay
  <2>2. QED
    BY <2>1 DEF UnderWay
<1>3. \A y, z \in Agents : \A i \in 1..Len(wire'[y]), j \in 1..Len(wire'[z]) :
        Response(y, i, c)' /\ Response(z, j, c)' => y = z /\ i = j
  <2>1. \A z \in Agents : \A i : Response(z, i, c)' => i \in 1..Len(wire[z]) /\ Response(z, i, c)
    BY DEF Response
  <2>2. QED
    BY <2>1 DEF OnePlace
<1>4. Request(c)' = Request(c)
  BY DEF Request
<1>5. QED
  BY <1>1, <1>2, <1>3, <1>4 DEF OnePlace

LEMMA FollowsStays ==
  ASSUME NEW c, LogFollows(c), result' = result, updates' = updates, log'[c] = log[c]
  PROVE  LogFollows(c)'
  BY DEF LogFollows

\* An agent takes a command up.
LEMMA TakenLogged ==
  ASSUME TypeOK, NEW c \in DOMAIN s.calls, Single(c), SameId(c) = {c}, runs'[Request(c).target][c] <= 1,
         runs[Request(c).target][c] <= 1 => OnePlace(c) /\ LogFollows(c),
         NEW a \in Agents, HandleServerMessage(a)
  PROVE  OnePlace(c)' /\ LogFollows(c)'
<1> DEFINE t == Request(c).target
<1>1. UNCHANGED <<s, serverVars, wire>> /\ (UNCHANGED <<ops, runs>> \/ \E o : TakenUp(a, o))
  BY TakeTypes
<1>2. runs \in [Agents -> [DOMAIN s.calls -> Nat]] /\ t \in Agents
  BY ScenariosAssumption DEF TypeOK, DiskOK, ServerTypes, Single, Request
<1>3. CASE UNCHANGED <<ops, runs>>
  BY <1>1, <1>3, PlaceStays, FollowsStays DEF Response, serverVars
<1>4. ASSUME NEW o, TakenUp(a, o) PROVE OnePlace(c)' /\ LogFollows(c)'
  <2>1. /\ ops' = ops \cup {o} /\ runs' = [runs EXCEPT ![a][o.call] = @ + 1] /\ o.call \in DOMAIN s.calls
        /\ ForOne(s, o.call) => a = s.calls[o.call].target
    BY <1>4 DEF TakenUp
  <2>2. \A z \in Agents : \A i : Response(z, i, c)' <=> Response(z, i, c)
    BY <1>1 DEF Response
  <2>3. (UnderWay(c)' <=> UnderWay(c)) /\ (Accounted(c)' <=> Accounted(c)) /\ Request(c)' = Request(c)
    BY <1>1 DEF UnderWay, Response, Accounted, Request, serverVars
  <2>4. CASE o.call = c
    <3>1. a = t
      BY <2>1, <2>4 DEF ForOne, Single, Request
    <3>2. runs'[t][c] = runs[t][c] + 1 /\ runs[t][c] \in Nat
      BY <1>2, <2>1, <2>4, <3>1
    <3> HIDE DEF t
    <3>3. runs[t][c] = 0 /\ runs'[t][c] = 1
      BY <3>2 DEF t
    <3>4. OnePlace(c) /\ ~AtWork(c) /\ ~UnderWay(c) /\ ~Accounted(c)
      BY <3>3 DEF OnePlace, t
    <3>5. \A x, y \in ops' : x.call = c /\ y.call = c => x = y
      BY <2>1, <3>4 DEF AtWork
    <3>6. OnePlace(c)'
      BY <1>1, <2>2, <2>3, <3>3, <3>4, <3>5 DEF OnePlace, UnderWay, t, Request
    <3>7. result'[c] = <<>>
      BY <1>1, <3>4 DEF Accounted, serverVars
    <3>8. QED
      BY <3>6, <3>7 DEF LogFollows
  <2>5. CASE o.call # c
    <3>1. runs'[t][c] = runs[t][c]
      BY <1>2, <2>1, <2>5
    <3>2. OnePlace(c) /\ LogFollows(c)
      BY <3>1
    <3>3. \A x \in ops' : x.call = c => x \in ops
      BY <2>1, <2>5
    <3>4. AtWork(c)' <=> AtWork(c)
      BY <2>1, <2>5 DEF AtWork
    <3>5. OnePlace(c)'
      BY <1>1, <2>2, <2>3, <3>1, <3>2, <3>3, <3>4 DEF OnePlace, Request
    <3>6. QED
      BY <1>1, <3>2, <3>5, FollowsStays DEF serverVars
  <2>6. QED
    BY <2>4, <2>5
<1>5. QED
  BY <1>1, <1>3, <1>4

\* An agent works on, or answers.
LEMMA WorkLogged ==
  ASSUME TypeOK, NEW c \in DOMAIN s.calls, OnePlace(c), LogFollows(c), NEW o \in ops, AtIt(o) \/ Respond(o)
  PROVE  OnePlace(c)' /\ LogFollows(c)'
<1>1. UNCHANGED <<s, serverVars, runs>>
  BY OpTypes, RespondTypes
<1>2. LogFollows(c)'
  BY <1>1, FollowsStays DEF serverVars
<1>3. Request(c)' = Request(c) /\ (Accounted(c)' <=> Accounted(c))
  BY <1>1 DEF Request, Accounted, serverVars
<1>4. CASE AtIt(o)
  <2>1. PICK x : Goes(o, x)
    BY <1>4, OpTypes
  <2>2. wire' = wire /\ ops' = (ops \ {o}) \cup {x} /\ x.call = o.call
    BY <1>4, <2>1, OpTypes DEF Goes
  <2>3. AtWork(c)' <=> AtWork(c)
    BY <2>2 DEF AtWork
  <2>4. (UnderWay(c)' <=> UnderWay(c)) /\ \A z \in Agents : \A i : Response(z, i, c)' <=> Response(z, i, c)
    BY <2>2 DEF UnderWay, Response
  <2>5. \A y, z \in ops' : y.call = c /\ z.call = c => y = z
    BY <2>2 DEF OnePlace
  <2>6. QED
    BY <1>1, <1>2, <1>3, <2>2, <2>3, <2>4, <2>5 DEF OnePlace
<1>5. CASE Respond(o)
  <2>1. Ends(o) \/ Panics(o)
    BY <1>5, RespondTypes
  <2>2. CASE ops' \subseteq ops /\ wire' = wire
    BY <1>1, <1>2, <2>2, PlaceStays DEF Response, serverVars
  <2>3. ASSUME NEW z0, NEW m, Sent(o, z0, m), ops' = ops \ {o} PROVE OnePlace(c)'
    <3>1. /\ wire' = [wire EXCEPT ![z0] = @ \o <<m>>] /\ wire = [a \in Agents |-> wire[a]] /\ m.call = o.call
          /\ \A z \in Agents : IsSeq(wire[z])
      BY <2>3 DEF Sent, TypeOK, WireOK, ReportsOK
    <3>2. ASSUME NEW z \in Agents, NEW i, Response(z, i, c)'
          PROVE  Response(z, i, c) \/ (z = z0 /\ i = Len(wire[z0]) + 1 /\ c = o.call)
      <4>1. i \in 1..Len(wire'[z]) /\ wire'[z][i].t = "response" /\ wire'[z][i].call = c
        BY <3>2 DEF Response
      <4>2. CASE z # z0
        BY <3>1, <4>1, <4>2 DEF Response
      <4>3. CASE z = z0
        <5>1. wire'[z] = wire[z] \o <<m>> /\ IsSeq(wire[z]) /\ IsSeq(<<m>>) /\ Len(<<m>>) = 1 /\ <<m>>[1] = m
          BY <3>1, <4>3, ShortSeqs
        <5>2. CASE i \in 1..Len(wire[z])
          BY <4>1, <5>1, <5>2, SeqConcat DEF Response
        <5>3. CASE i \notin 1..Len(wire[z])
          <6>1. i - Len(wire[z]) \in 1..1 /\ wire'[z][i] = <<m>>[i - Len(wire[z])] /\ Len(wire[z]) \in Nat
            BY <4>1, <5>1, <5>3, SeqConcat
          <6>2. i = Len(wire[z]) + 1 /\ wire'[z][i] = m
            BY <4>1, <5>1, <6>1
          <6>3. QED
            BY <3>1, <4>1, <4>3, <6>2
        <5>4. QED
          BY <5>2, <5>3
      <4>4. QED
        BY <4>2, <4>3
    <3>3. CASE c # o.call
      <4>1. \A z \in Agents : \A i : Response(z, i, c)' => Response(z, i, c)
        BY <3>2, <3>3
      <4>2. QED
        BY <1>1, <2>3, <4>1, PlaceStays DEF serverVars
    <3>4. CASE c = o.call
      <4>1. AtWork(c) /\ ~UnderWay(c) /\ ~Accounted(c)
        BY <3>4 DEF AtWork, OnePlace
      <4>2. runs[Request(c).target][c] # 0
        BY <4>1 DEF OnePlace
      <4>3. \A z \in Agents : \A i : ~Response(z, i, c)
        BY <4>1 DEF UnderWay, Response
      <4>4. \A z \in Agents : \A i : Response(z, i, c)' => z = z0 /\ i = Len(wire[z0]) + 1
        BY <3>2, <4>3
      <4>5. \A x \in ops : x.call = c => x = o
        BY <3>4 DEF OnePlace
      <4>6. ~AtWork(c)'
        BY <2>3, <4>5 DEF AtWork
      <4>7. \A y, z \in ops' : y.call = c /\ z.call = c => y = z
        BY <2>3, <4>5
      <4>8. QED
        BY <1>1, <1>3, <4>1, <4>2, <4>4, <4>6, <4>7 DEF OnePlace
    <3>5. QED
      BY <3>3, <3>4
  <2>4. QED
    BY <1>2, <2>1, <2>2, <2>3 DEF Ends, Panics
<1>6. QED
  BY <1>4, <1>5

\* The server reads: a response that was under way is accounted for, or dropped.
LEMMA ReadLogged ==
  ASSUME TypeOK, NEW c \in DOMAIN s.calls, Single(c), SameId(c) = {c}, Request(c).kind = "exec", OnePlace(c), LogFollows(c),
         NEW z0 \in Agents, Receive(z0)
  PROVE  OnePlace(c)' /\ LogFollows(c)'
<1> DEFINE m == Head(wire[z0])
<1>1. /\ UNCHANGED <<s, log, agentVars>> /\ wire[z0] # <<>> /\ wire' = [wire EXCEPT ![z0] = Tail(@)]
      /\ Unheard \/ (ReportOK(s, log, m) /\ Heard(m))
      /\ IsSeq(wire[z0]) /\ wire = [a \in Agents |-> wire[a]]
  BY ReceiveTypes DEF TypeOK, WireOK, ReportsOK
<1>2. Len(wire[z0]) \in Nat \ {0} /\ m = wire[z0][1]
  BY <1>1, SeqTail
<1> HIDE DEF m
<1> DEFINE at(z, i) == IF z = z0 THEN i + 1 ELSE i
<1>3. ASSUME NEW z \in Agents, NEW i, Response(z, i, c)' PROVE Response(z, at(z, i), c) /\ i \in Nat \ {0}
  <2>1. i \in 1..Len(wire'[z]) /\ wire'[z][i].t = "response" /\ wire'[z][i].call = c
    BY <1>3 DEF Response
  <2>2. CASE z # z0
    BY <1>1, <2>1, <2>2 DEF Response
  <2>3. CASE z = z0
    <3>1. wire'[z] = Tail(wire[z0])
      BY <1>1, <2>3
    <3>2. i + 1 \in 1..Len(wire[z0]) /\ wire'[z][i] = wire[z0][i + 1]
      BY <1>1, <2>1, <3>1, SeqTail
    <3>3. QED
      BY <2>1, <2>3, <3>2 DEF Response
  <2>4. QED
    BY <2>2, <2>3
<1>4. UnderWay(c)' => UnderWay(c)
  <2>1. ASSUME NEW z \in Agents, NEW i, Response(z, i, c)' PROVE UnderWay(c)
    <3>1. Response(z, at(z, i), c) /\ at(z, i) \in 1..Len(wire[z])
      BY <1>3, <2>1 DEF Response
    <3>2. QED
      BY <3>1 DEF UnderWay
  <2>2. QED
    BY <2>1 DEF UnderWay
<1>5. \A y, z \in Agents : \A i \in 1..Len(wire'[y]), j \in 1..Len(wire'[z]) :
        Response(y, i, c)' /\ Response(z, j, c)' => y = z /\ i = j
  <2>1. ASSUME NEW y \in Agents, NEW z \in Agents, NEW i, NEW j, Response(y, i, c)', Response(z, j, c)' PROVE y = z /\ i = j
    <3>1. Response(y, at(y, i), c) /\ Response(z, at(z, j), c) /\ i \in Nat /\ j \in Nat
      BY <1>3, <2>1
    <3>2. at(y, i) \in 1..Len(wire[y]) /\ at(z, j) \in 1..Len(wire[z])
      BY <3>1 DEF Response
    <3>3. y = z /\ at(y, i) = at(z, j)
      BY <3>1, <3>2 DEF OnePlace
    <3>4. QED
      BY <3>1, <3>3
  <2>2. QED
    BY <2>1
<1>6. /\ AtWork(c)' <=> AtWork(c)
      /\ \A o, x \in ops' : o.call = c /\ x.call = c => o = x
      /\ runs'[Request(c)'.target][c] = runs[Request(c).target][c]
  BY <1>1 DEF AtWork, agentVars, OnePlace, Request
<1>7. CASE (Accounted(c)' => Accounted(c)) /\ LogFollows(c)'
  <2>1. QED
    BY <1>4, <1>5, <1>6, <1>7 DEF OnePlace
<1>8. CASE result'[c] = result[c] /\ \A u : u.call = c => (u \in updates' <=> u \in updates)
  BY <1>1, <1>7, <1>8 DEF Accounted, LogFollows
<1>9. CASE Unheard
  BY <1>8, <1>9 DEF Unheard
<1>10. CASE ReportOK(s, log, m) /\ Heard(m)
  <2>1. /\ m.t = "response" /\ m.call \in DOMAIN s.calls /\ m.status \in Outcomes /\ Single(m.call) /\ result' = IntoSession(m)
        /\ \/ Request(m.call).kind = "exec" /\ ~Mismatched(m) /\ updates' = updates \cup {[call |-> m.call, status |-> m.status]}
           \/ Request(m.call).kind # "exec" /\ UNCHANGED updates
    BY <1>10 DEF Heard, ReportOK
  <2>2. result' = result \/ \E d : Into(m, d)
    BY <2>1, IntoTypes DEF TypeOK
  <2>3. \A d : Into(m, d) => (d = c => m.call = c) /\ (m.call = c => d \in SameId(c))
    <3>1. \A d : Into(m, d) => d \in DOMAIN s.calls /\ Single(d) /\ Request(d).id = Request(m.call).id
      BY DEF Into
    <3>2. \A d : Into(m, d) /\ d = c => m.call \in SameId(c)
      BY <2>1, <3>1 DEF SameId
    <3>3. QED
      BY <3>1, <3>2 DEF SameId
  <2>4. \A d : Into(m, d) => (d = c <=> m.call = c)
    BY <2>3
  <2>5. CASE m.call # c
    <3>1. result'[c] = result[c]
      BY <2>1, <2>2, <2>4, <2>5, IntoResult DEF TypeOK
    <3>2. \A u : u.call = c => (u \in updates' <=> u \in updates)
      BY <2>1, <2>5
    <3>3. QED
      BY <1>8, <3>1, <3>2
  <2>6. CASE m.call = c
    <3>1. Response(z0, 1, c) /\ 1 \in 1..Len(wire[z0])
      BY <1>2, <2>1, <2>6 DEF Response
    <3>2. UnderWay(c) /\ ~AtWork(c) /\ ~Accounted(c) /\ runs[Request(c).target][c] # 0
      BY <3>1 DEF UnderWay, OnePlace
    <3>3. ~UnderWay(c)'
      <4>1. ASSUME NEW z \in Agents, NEW i, Response(z, i, c)' PROVE FALSE
        <5>1. Response(z, at(z, i), c) /\ i \in Nat \ {0}
          BY <1>3, <4>1
        <5>2. at(z, i) \in 1..Len(wire[z])
          BY <5>1 DEF Response
        <5>3. z = z0 /\ at(z, i) = 1
          BY <3>1, <5>1, <5>2 DEF OnePlace
        <5>4. QED
          BY <5>1, <5>3
      <4>2. QED
        BY <4>1 DEF UnderWay
    <3>4. OnePlace(c)'
      BY <1>5, <1>6, <3>2, <3>3 DEF OnePlace
    <3>5. LogFollows(c)'
      <4>1. result[c] = <<>> /\ \A u \in updates : u.call # c
        BY <3>2 DEF Accounted
      <4>2. CASE \E d : Into(m, d)
        <5>1. Into(m, c) /\ result'[c][1] = m
          BY <2>1, <2>4, <2>6, <4>2, IntoResult DEF TypeOK
        <5>2. CASE updates' = updates \cup {[call |-> m.call, status |-> m.status]}
          <6>1. \A u \in updates' : u.call = c => u.status = m.status
            BY <4>1, <5>2
          <6>2. \E u \in updates' : u.call = c
            <7> DEFINE v == [call |-> m.call, status |-> m.status]
            <7>1. v.call = c
              BY <2>6
            <7>2. v \in updates'
              BY <5>2
            <7> HIDE DEF v
            <7>3. QED
              BY <7>1, <7>2
          <6>3. QED
            BY <5>1, <6>1, <6>2 DEF LogFollows
        <5>3. QED
          BY <2>1, <2>6, <5>2
      <4>3. CASE result' = result
        BY <4>1, <4>3 DEF LogFollows
      <4>4. QED
        BY <2>2, <4>2, <4>3
    <3>6. QED
      BY <3>4, <3>5
  <2>7. QED
    BY <2>5, <2>6
<1>11. QED
  BY <1>1, <1>9, <1>10

LEMMA CommandsLogged ==
  ASSUME TypeOK, ToldInv, LogInv, [Next]_vars,
         NEW c \in DOMAIN s.calls, Single(c), SameId(c) = {c}, Request(c).kind = "exec", runs'[Request(c).target][c] <= 1
  PROVE  OnePlace(c)' /\ LogFollows(c)'
<1>1. runs[Request(c).target][c] <= 1 => OnePlace(c) /\ LogFollows(c)
  BY DEF LogInv, Alone
<1>2. CASE runs' = runs
  <2>1. OnePlace(c) /\ LogFollows(c)
    BY <1>1, <1>2
  <2>2. CASE Silent
    <3>1. UNCHANGED <<s, result, log, updates, ops>> /\ \A z \in Agents : \A i : Response(z, i, c)' => Response(z, i, c)
      BY <2>2 DEF Silent, OldResponses, agentVars
    <3>2. QED
      BY <1>2, <2>1, <3>1, PlaceStays, FollowsStays
  <2>3. CASE \E d \in DOMAIN s.calls : Handles(d)
    <3>1. PICK d \in DOMAIN s.calls : Handles(d)
      BY <2>3
    <3>2. /\ UNCHANGED <<s, wire, result, updates, ops>> /\ call[d].phase = "new" /\ Single(d)
          /\ \A e \in DOMAIN s.calls \ {d} : log'[e] = log[e]
      BY <3>1, HandleTypes DEF Handles, TypeOK, meshVars, agentVars
    <3>3. OnePlace(c)'
      BY <1>2, <2>1, <3>2, PlaceStays DEF Response
    <3>4. c = d => result[c] = <<>>
      BY <3>2 DEF TypeOK, ServerTypes, CallLogged, ResultOK, Single, ForOne, Request
    <3>5. LogFollows(c)'
      BY <2>1, <3>2, <3>4 DEF LogFollows
    <3>6. QED
      BY <3>3, <3>5
  <2>4. CASE \E d \in DOMAIN s.calls : Answers(d)
    <3>1. PICK d \in DOMAIN s.calls : Answers(d)
      BY <2>4
    <3>2. /\ UNCHANGED <<s, wire, result, updates, ops>> /\ Single(d)
          /\ \/ log' = log
             \/ Request(d).kind # "exec" /\ log' = Closed(d, result[d][1].status)
      BY <3>1, AnswerTypes DEF Answers, meshVars, agentVars
    <3>3. log'[c] = log[c]
      BY <3>2, ClosedElsewhere DEF TypeOK
    <3>4. QED
      BY <1>2, <2>1, <3>2, <3>3, PlaceStays, FollowsStays DEF Response
  <2>5. CASE \E z \in Agents : Receive(z)
    BY <2>1, <2>5, ReadLogged
  <2>6. CASE \E a \in Agents : HandleServerMessage(a)
    BY <1>1, <2>6, TakenLogged
  <2>7. CASE \E o \in ops : AtIt(o) \/ Respond(o)
    BY <2>1, <2>7, WorkLogged
  <2>8. CASE \E u \in updates : UpdateExecLog(u)
    <3>1. PICK u \in updates : UpdateExecLog(u)
      BY <2>8
    <3>2. /\ UNCHANGED <<s, wire, result, ops>> /\ updates' = updates \ {u} /\ log' = Closed(u.call, u.status)
          /\ Single(u.call) /\ u.call \in DOMAIN s.calls
      BY <3>1, UpdateTypes DEF agentVars
    <3>3. OnePlace(c)'
      BY <1>2, <2>1, <3>2, PlaceStays DEF Response
    <3>4. CASE u.call # c
      <4>1. log'[c] = log[c]
        BY <3>2, <3>4, ClosedElsewhere DEF TypeOK
      <4>2. QED
        BY <2>1, <3>2, <3>3, <3>4, <4>1 DEF LogFollows
    <3>5. CASE u.call = c
      <4>1. log'[c] = u.status
        BY <3>2, <3>5 DEF Closed, TypeOK, ServerTypes
      <4>2. result[c] # <<>> => u.status = result[c][1].status /\ \A v \in updates : v.call = c => v.status = result[c][1].status
        BY <2>1, <3>1, <3>5 DEF LogFollows
      <4>3. QED
        BY <3>2, <3>3, <4>1, <4>2 DEF LogFollows
    <3>6. QED
      BY <3>4, <3>5
  <2>9. QED
    BY <2>2, <2>3, <2>4, <2>5, <2>6, <2>7, <2>8, EveryStep DEF Loud
<1>3. CASE runs' # runs
  <2>1. CASE Silent
    BY <1>3, <2>1 DEF Silent, agentVars
  <2>2. CASE \E d \in DOMAIN s.calls : Handles(d) \/ Answers(d)
    BY <1>3, <2>2, HandleTypes, AnswerTypes DEF Handles, Answers, TypeOK, agentVars
  <2>3. CASE \/ \E z \in Agents : Receive(z)
             \/ \E o \in ops : AtIt(o) \/ Respond(o)
             \/ \E u \in updates : UpdateExecLog(u)
    BY <1>3, <2>3, ReceiveTypes, OpTypes, RespondTypes, UpdateTypes DEF agentVars
  <2>4. CASE \E a \in Agents : HandleServerMessage(a)
    BY <1>1, <2>4, TakenLogged
  <2>5. QED
    BY <2>1, <2>2, <2>3, <2>4, EveryStep DEF Loud
<1>4. QED
  BY <1>2, <1>3

LEMMA LogStep ==
  ASSUME TypeOK, ToldInv, LogInv, [Next]_vars
  PROVE  LogInv'
<1>1. s' = s
  BY OpsOfStep
<1>2. ASSUME NEW c \in DOMAIN s.calls
      PROVE  /\ Alone(c)' <=> Single(c) /\ SameId(c) = {c} /\ runs'[Request(c).target][c] <= 1
             /\ (Single(c) /\ SameId(c) = {c})' <=> Single(c) /\ SameId(c) = {c}
             /\ Request(c)' = Request(c)
  BY <1>1 DEF Alone, Single, SameId, Request
<1>3. QED
  BY <1>1, <1>2, CommandsLogged, FilesLogged DEF LogInv

-----------------------------------------------------------------------------
(***************************************************************************)
(* The invariant holds.                                                    *)
(***************************************************************************)
LEMMA InitTypes ==
  ASSUME Init
  PROVE  TypeOK
<1>1. /\ s \in Scenarios /\ s.tree \in [Agents -> Agents \cup {Server}]
      /\ call = [c \in DOMAIN s.calls |-> [phase |-> "new", waves |-> <<>>, pending |-> {}, routed |-> "no", reply |-> NoReply]]
      /\ down = [n \in Agents \cup {Server} |-> {x \in Agents : s.tree[x] = n}]
      /\ inbox = [a \in Agents |-> <<>>] /\ wire = [a \in Agents |-> <<>>] /\ sessions = <<>> /\ updates = {} /\ ops = {}
      /\ result = [c \in DOMAIN s.calls |-> <<>>] /\ log = [c \in DOMAIN s.calls |-> "none"]
      /\ runs = [a \in Agents |-> [c \in DOMAIN s.calls |-> 0]] /\ disk = [a \in Agents |-> [f \in {<<"file", 0>>} |-> "whole"]]
  BY ScenariosAssumption DEF Init
<1>2. [phase |-> "new", waves |-> <<>>, pending |-> {}, routed |-> "no", reply |-> NoReply] \in Call
  BY DEF Call, Phases, YesNo, NoReply, Reply, Statuses
<1>3. SessionsOK(s, log, sessions)
  BY <1>1 DEF SessionsOK
<1>4. \A c \in DOMAIN s.calls : ResultOK(s, log, c, result[c]) /\ CallLogged(s, log, c, call[c].phase)
  BY <1>1 DEF ResultOK, CallLogged
<1>5. ServerTypes
  <2>1. log \in [DOMAIN s.calls -> Statuses] /\ down \in [Agents \cup {Server} -> SUBSET Agents]
    BY <1>1 DEF Statuses
  <2>2. call \in [DOMAIN s.calls -> Call]
    BY <1>1, <1>2
  <2>3. QED
    BY <1>1, <1>3, <1>4, <2>1, <2>2 DEF ServerTypes
<1>6. InboxOK /\ WireOK
  BY <1>1, MessagesShrink, ReportsShrink DEF InboxOK, WireOK
<1>7. QED
  BY <1>1, <1>5, <1>6 DEF TypeOK, OpsOK, DiskOK

LEMMA InitOthers ==
  ASSUME Init
  PROVE  ToldInv /\ LogInv /\ DiskInv /\ RunsAsAsked
<1>1. /\ \A c \in DOMAIN s.calls : result[c] = <<>> /\ call[c].phase = "new" /\ call[c].reply.agent = None
      /\ updates = {} /\ ops = {} /\ \A z \in Agents : wire[z] = <<>>
      /\ \A a \in Agents : DOMAIN disk[a] = {<<"file", 0>>}
  BY DEF Init, NoReply
<1>2. ToldInv /\ RunsAsAsked
  BY <1>1 DEF ToldInv, RunsAsAsked
<1>3. LogInv
  <2>1. ASSUME NEW c \in DOMAIN s.calls PROVE OnePlace(c) /\ LogFollows(c) /\ FileLog(c)
    <3>1. ~AtWork(c) /\ ~UnderWay(c) /\ ~Accounted(c) /\ \A z \in Agents : \A i : ~Response(z, i, c)
      BY <1>1, ShortSeqs DEF AtWork, UnderWay, Accounted, Response
    <3>2. QED
      BY <1>1, <3>1 DEF OnePlace, LogFollows, FileLog
  <2>2. QED
    BY <2>1 DEF LogInv
<1>4. DiskInv
  <2>1. \A c : FileOf(Request(c), c) = <<"file", 0>> => FileOf(Request(c), c)[1] = "file" /\ Request(c).kind \notin {"exec", "deploy"}
    BY FilesOf
  <2>2. QED
    BY <1>1, <2>1 DEF DiskInv
<1>5. QED
  BY <1>2, <1>3, <1>4

\* The inductive invariant.
THEOREM ExecInvHolds == Spec => []ExecInv
<1>1. Init => ExecInv
  BY InitTypes, InitOthers DEF ExecInv
<1>2. ExecInv /\ [Next]_vars => ExecInv'
  <2>1. SUFFICES ASSUME ExecInv, [Next]_vars PROVE ExecInv'
    OBVIOUS
  <2>2. TypeOK'
    BY <2>1, EveryStep DEF ExecInv
  <2>3. ToldInv'
    BY <2>1, ToldStep DEF ExecInv
  <2>4. LogInv'
    BY <2>1, LogStep DEF ExecInv
  <2>5. DiskInv'
    BY <2>1, DiskStep DEF ExecInv
  <2>6. RunsAsAsked'
    BY <2>1, AsAskedStep DEF ExecInv
  <2>7. QED
    BY <2>2, <2>3, <2>4, <2>5, <2>6 DEF ExecInv
<1>3. QED
  BY <1>1, <1>2, PTL DEF Spec

\* A caller that dispatchExec gives an answer is given one of the agent it named,
\* whatever route the request took, whoever else answered, and whatever other request
\* was given the same id.
THEOREM CallersHearTheirTarget == Spec => []AnswerIsFromTheTarget
<1>1. ExecInv => AnswerIsFromTheTarget
  <2>1. SUFFICES ASSUME ExecInv, NEW c \in DOMAIN call, Answered(c) PROVE call[c].reply.agent = Request(c).target
    BY DEF AnswerIsFromTheTarget
  <2>2. c \in DOMAIN s.calls /\ call[c].reply.agent # None
    BY <2>1 DEF ExecInv, TypeOK, ServerTypes, Answered
  <2>3. ToldInv
    BY <2>1 DEF ExecInv
  <2>4. /\ call[c].reply = [status |-> result[c][1].status, agent |-> result[c][1].agent]
        /\ result[c][1].agent = Request(c).target
    BY <2>2, <2>3 DEF ToldInv
  <2>5. QED
    BY <2>4
<1>2. QED
  BY <1>1, ExecInvHolds, PTL

\* The audit log's entry of an answered request ends as the caller was told.
THEOREM LogSaysWhatWasTold == Spec => []AuditAgrees
<1>1. ExecInv => AuditAgrees
  <2>1. SUFFICES ASSUME ExecInv, NEW c \in DOMAIN call, Answered(c), SameId(c) = {c}, runs[Request(c).target][c] <= 1,
                        ~(\E u \in updates : u.call = c)
                 PROVE  log[c] = call[c].reply.status
    BY DEF AuditAgrees
  <2>2. c \in DOMAIN s.calls /\ call[c].reply.agent # None /\ Single(c)
    BY <2>1 DEF ExecInv, TypeOK, ServerTypes, Answered
  <2>3. CASE Request(c).kind = "exec"
    <3>1. result[c] # <<>> /\ call[c].reply = [status |-> result[c][1].status, agent |-> result[c][1].agent]
      BY <2>1, <2>2 DEF ExecInv, ToldInv
    <3>2. LogFollows(c)
      BY <2>1, <2>2, <2>3 DEF ExecInv, LogInv, Alone
    <3>3. QED
      BY <2>1, <3>1, <3>2 DEF LogFollows
  <2>4. CASE Request(c).kind # "exec"
    BY <2>1, <2>2, <2>4 DEF ExecInv, LogInv, FileLog
  <2>5. QED
    BY <2>3, <2>4
<1>2. QED
  BY <1>1, ExecInvHolds, PTL

\* Whatever was refused has written nothing, and what was done has left no script and
\* no package behind, on any agent that did not die of it.
THEOREM AgentsAreLeftClean == Spec => []NothingLeftBehind
<1>1. ExecInv => NothingLeftBehind
  <2>1. SUFFICES ASSUME ExecInv PROVE NothingLeftBehind
    OBVIOUS
  <2>2. QED
    BY <2>1 DEF ExecInv, DiskInv, NothingLeftBehind
<1>2. QED
  BY <1>1, ExecInvHolds, PTL

\* No command runs as anyone but whom the request, or the system for it, names.
THEOREM NobodyRunsAsAnother == Spec => []RunsAsAsked
<1>1. ExecInv => RunsAsAsked
  BY DEF ExecInv
<1>2. QED
  BY <1>1, ExecInvHolds, PTL

-----------------------------------------------------------------------------
(***************************************************************************)
(* The waves of bottom-up runs.  One invariant (WaveInv) says that a wave  *)
(* that is out is the one of that number in the plan made from the depths  *)
(* on record, and that all of the earlier ones are accounted for.          *)
(***************************************************************************)
\* A bottom-up run's waves as they were made, and those sent by now: numbered by what is
\* left of them when one goes out.
BottomUp(c) == ~Single(c) /\ Request(c).bottomUp = "yes"
Plan(c) == TargetIDWavesByDepthDesc(Request(c).targets, recorded[c])
Numbered(plan, w) == plan[Len(plan) - w + 1]
Underway(x) == x.phase # "new" /\ x.reply.status \in {"none", "stopped"}
IsOut(x, plan, w) == Underway(x) /\ w \in (Len(x.waves) + 1)..Len(plan)

\* An agent's work on a call: taken up once, it is at the agent or answered, not both.
Working(a, c) == \E o \in ops : o.agent = a /\ o.call = c
Replied(a, c) == \E z \in Agents : \E i \in 1..Len(wire[z]) : Response(z, i, c) /\ wire[z][i].agent = a
Told(a, c) == <<c, a>> \in writtenOff \/ runs[a][c] > 1 \/ (runs[a][c] = 1 /\ ~Working(a, c))
OneOp(a, c) ==
  /\ runs[a][c] = 0 => ~Working(a, c) /\ ~Replied(a, c)
  /\ runs[a][c] = 1 => ~(Working(a, c) /\ Replied(a, c))
  /\ runs[a][c] = 1 => \A o, x \in ops : o.agent = a /\ x.agent = a /\ o.call = c /\ x.call = c => o = x

\* The waves to come are the rest of the plan.
Rest(x, plan) ==
  Underway(x) =>
    /\ Len(x.waves) <= Len(plan)
    /\ \A j \in 1..Len(x.waves) : x.waves[j] = plan[Len(plan) - Len(x.waves) + j]
\* What is on its way or taken up belongs to a wave that is out.
MailOut(x, plan, c, q) ==
  \A i \in 1..Len(q) : q[i].call = c => IsOut(x, plan, q[i].wave) /\ q[i].targets = Numbered(plan, q[i].wave)
OpsOut(x, plan, c, now) ==
  \A o \in now : o.call = c => IsOut(x, plan, o.wave) /\ o.agent \in Numbered(plan, o.wave)
\* All of an earlier wave are accounted for, and of the last all that are not waited for.
Settled(x, plan, told) ==
  \A w \in 1..Len(plan) : IsOut(x, plan, w) =>
    \A a \in Numbered(plan, w) :
      a \in told \/ (w = Len(x.waves) + 1 /\ (x.phase = "done" \/ (x.phase = "waiting" /\ a \in x.pending)))
WavesOK(x, plan, c, box, now, told) ==
  /\ x.phase # "done" => x.reply.status = "none"
  /\ Rest(x, plan)
  /\ \A a \in Agents : MailOut(x, plan, c, box[a])
  /\ OpsOut(x, plan, c, now)
  /\ Settled(x, plan, told)
ToldOf(c) == {a \in Agents : Told(a, c)}
WaveInv ==
  /\ depth \in [Agents -> Nat] /\ recorded \in [DOMAIN s.calls -> [Agents -> Nat]]
  /\ \A a \in Agents : \A c \in DOMAIN s.calls : OneOp(a, c)
  /\ \A c \in DOMAIN s.calls : BottomUp(c) => WavesOK(call[c], Plan(c), c, inbox, ops, ToldOf(c))

-----------------------------------------------------------------------------
(***************************************************************************)
(* Waves: who is at work, and who has answered.                            *)
(***************************************************************************)
\* All work and all answers there are, there were.
OldWork == \A o \in ops' : \E p \in ops : o.agent = p.agent /\ o.call = p.call /\ o.wave = p.wave
OldReplies == \A a, c : Replied(a, c)' => Replied(a, c)

LEMMA RepliesStay ==
  ASSUME \A z \in Agents : \A i, c : Response(z, i, c)' => \E j : Response(z, j, c) /\ wire'[z][i] = wire[z][j]
  PROVE  OldReplies
<1>1. ASSUME NEW a, NEW c, NEW z \in Agents, NEW i \in 1..Len(wire'[z]), Response(z, i, c)', wire'[z][i].agent = a
      PROVE  Replied(a, c)
  <2>1. PICK j : Response(z, j, c) /\ wire'[z][i] = wire[z][j]
    BY <1>1
  <2>2. j \in 1..Len(wire[z]) /\ wire[z][j].agent = a
    BY <1>1, <2>1 DEF Response
  <2>3. QED
    BY <2>1, <2>2 DEF Replied
<1>2. SUFFICES ASSUME NEW a, NEW c, Replied(a, c)' PROVE Replied(a, c)
  BY DEF OldReplies
<1>3. PICK z \in Agents : \E i \in 1..Len(wire'[z]) : Response(z, i, c)' /\ wire'[z][i].agent = a
  BY <1>2 DEF Replied
<1>4. QED
  BY <1>1, <1>3

LEMMA TakenReplies ==
  ASSUME TypeOK, NEW z0 \in Agents, wire[z0] # <<>>, wire' = [wire EXCEPT ![z0] = Tail(@)]
  PROVE  OldReplies
<1>1. IsSeq(wire[z0]) /\ DOMAIN wire = Agents
  BY DEF TypeOK, WireOK, ReportsOK
<1>2. ASSUME NEW z \in Agents, NEW i, NEW c, Response(z, i, c)' PROVE \E j : Response(z, j, c) /\ wire'[z][i] = wire[z][j]
  <2>1. i \in 1..Len(wire'[z]) /\ wire'[z][i].t = "response" /\ wire'[z][i].call = c
    BY <1>2 DEF Response
  <2>2. CASE z # z0
    BY <1>1, <2>1, <2>2 DEF Response
  <2>3. CASE z = z0
    <3>1. wire'[z] = Tail(wire[z0])
      BY <1>1, <2>3
    <3>2. i + 1 \in 1..Len(wire[z0]) /\ wire'[z][i] = wire[z0][i + 1]
      BY <1>1, <2>1, <3>1, SeqTail
    <3>3. QED
      BY <2>1, <2>3, <3>2 DEF Response
  <2>4. QED
    BY <2>2, <2>3
<1>3. QED
  BY <1>2, RepliesStay

LEMMA SentReply ==
  ASSUME TypeOK, NEW o, NEW z0, NEW m, Sent(o, z0, m)
  PROVE  \A a, c : Replied(a, c)' => Replied(a, c) \/ (a = o.agent /\ c = o.call)
<1>1. ASSUME NEW a, NEW c, NEW z \in Agents, NEW i \in 1..Len(wire'[z]), Response(z, i, c)', wire'[z][i].agent = a
      PROVE  Replied(a, c) \/ (a = o.agent /\ c = o.call)
  <2>1. i \in 1..Len(wire'[z]) /\ wire'[z][i].t = "response" /\ wire'[z][i].call = c
    BY <1>1 DEF Response
  <2>2. CASE i \in 1..Len(wire[z]) /\ wire'[z][i] = wire[z][i]
    <3>1. Response(z, i, c) /\ wire[z][i].agent = a
      BY <1>1, <2>1, <2>2 DEF Response
    <3>2. QED
      BY <2>2, <3>1 DEF Replied
  <2>3. CASE wire'[z][i] = m
    BY <1>1, <2>1, <2>3 DEF Sent
  <2>4. wire'[z] = wire[z] \/ wire'[z] = wire[z] \o <<m>>
    BY DEF Sent, TypeOK, WireOK
  <2>5. IsSeq(wire[z]) /\ IsSeq(<<m>>) /\ Len(<<m>>) = 1 /\ <<m>>[1] = m
    BY ShortSeqs DEF TypeOK, WireOK, ReportsOK
  <2>6. CASE wire'[z] = wire[z] \o <<m>>
    <3>1. CASE i \in 1..Len(wire[z])
      BY <2>2, <2>5, <2>6, <3>1, SeqConcat
    <3>2. CASE i \notin 1..Len(wire[z])
      <4>1. i - Len(wire[z]) \in 1..1 /\ wire'[z][i] = <<m>>[i - Len(wire[z])]
        BY <2>1, <2>5, <2>6, <3>2, SeqConcat
      <4>2. i - Len(wire[z]) = 1
        BY <4>1
      <4>3. QED
        BY <2>3, <2>5, <4>1, <4>2
    <3>3. QED
      BY <3>1, <3>2
  <2>7. CASE wire'[z] = wire[z]
    BY <2>1, <2>2, <2>7
  <2>8. QED
    BY <2>4, <2>6, <2>7
<1>2. QED
  BY <1>1 DEF Replied

\* What a step does to the work and the answers.
LEMMA WorkOfStep ==
  ASSUME TypeOK, ToldInv, [Next]_vars
  PROVE  /\ s' = s
         /\ \/ runs' = runs /\ ops' \subseteq ops /\ OldReplies
            \/ runs' = runs /\ OldReplies /\ \E o \in ops : \E x : Goes(o, x)
            \/ runs' = runs /\ \E o \in ops : \E z, m : ops' = ops \ {o} /\ Sent(o, z, m)
            \/ OldReplies /\ \E a \in Agents : HandleServerMessage(a) /\ \E o : TakenUp(a, o)
<1>1. UNCHANGED wire => OldReplies
  BY RepliesStay DEF Response
<1>2. CASE Silent
  BY <1>2, RepliesStay DEF Silent, OldResponses, agentVars
<1>3. CASE \E c \in DOMAIN s.calls : Handles(c)
  <2>1. UNCHANGED <<s, ops, runs, wire>>
    BY <1>3, HandleTypes DEF Handles, TypeOK, agentVars, meshVars
  <2>2. QED
    BY <1>1, <2>1
<1>4. CASE \E c \in DOMAIN s.calls : Answers(c)
  <2>1. UNCHANGED <<s, ops, runs, wire>>
    BY <1>4, AnswerTypes DEF Answers, agentVars, meshVars
  <2>2. QED
    BY <1>1, <2>1
<1>5. CASE \E z \in Agents : Receive(z)
  <2>1. UNCHANGED <<s, ops, runs>> /\ OldReplies
    BY <1>5, ReceiveTypes, TakenReplies DEF agentVars
  <2>2. QED
    BY <2>1
<1>6. CASE \E a \in Agents : HandleServerMessage(a)
  <2>1. PICK a \in Agents : HandleServerMessage(a)
    BY <1>6
  <2>2. UNCHANGED <<s, wire>> /\ (UNCHANGED <<ops, runs>> \/ \E o : TakenUp(a, o))
    BY <2>1, TakeTypes
  <2>3. QED
    BY <1>1, <2>1, <2>2
<1>7. CASE \E o \in ops : AtIt(o)
  <2>1. PICK o \in ops : AtIt(o)
    BY <1>7
  <2>2. UNCHANGED <<s, wire, runs>> /\ \E x : Goes(o, x)
    BY <2>1, OpTypes
  <2>3. QED
    BY <1>1, <2>2
<1>8. CASE \E o \in ops : Respond(o)
  <2>1. PICK o \in ops : Respond(o)
    BY <1>8
  <2>2. s' = s /\ runs' = runs /\ (Ends(o) \/ Panics(o))
    BY <2>1, RespondTypes
  <2>3. CASE wire' = wire
    <3>1. ops' \subseteq ops
      BY <2>2 DEF Ends, Panics
    <3>2. QED
      BY <1>1, <2>2, <2>3, <3>1
  <2>4. CASE wire' # wire
    BY <2>2, <2>4 DEF Ends, Panics
  <2>5. QED
    BY <2>3, <2>4
<1>9. CASE \E u \in updates : UpdateExecLog(u)
  <2>1. UNCHANGED <<s, ops, runs, wire>>
    BY <1>9, UpdateTypes DEF agentVars
  <2>2. QED
    BY <1>1, <2>1
<1>10. QED
  BY <1>2, <1>3, <1>4, <1>5, <1>6, <1>7, <1>8, <1>9, EveryStep DEF Loud

LEMMA OneOpStep ==
  ASSUME TypeOK, ToldInv, [Next]_vars, NEW a \in Agents, NEW c \in DOMAIN s.calls, OneOp(a, c), writtenOff \subseteq writtenOff'
  PROVE  OneOp(a, c)' /\ (Told(a, c) => Told(a, c)')
<1>1. runs[a][c] \in Nat /\ runs \in [Agents -> [DOMAIN s.calls -> Nat]]
  BY DEF TypeOK, DiskOK
<1>2. CASE runs' = runs /\ ops' \subseteq ops /\ OldReplies
  <2>1. (Working(a, c)' => Working(a, c)) /\ (Replied(a, c)' => Replied(a, c))
    BY <1>2 DEF Working, OldReplies
  <2>2. QED
    BY <1>2, <2>1 DEF OneOp, Told
<1>3. CASE runs' = runs /\ OldReplies /\ \E o \in ops : \E x : Goes(o, x)
  <2>1. PICK o \in ops : \E x : ops' = (ops \ {o}) \cup {x} /\ x.agent = o.agent /\ x.call = o.call
    BY <1>3 DEF Goes
  <2>2. (Working(a, c)' => Working(a, c)) /\ (Replied(a, c)' => Replied(a, c))
    BY <1>3, <2>1 DEF Working, OldReplies
  <2>3. runs[a][c] = 1 => \A y, z \in ops' : y.agent = a /\ z.agent = a /\ y.call = c /\ z.call = c => y = z
    BY <2>1 DEF OneOp
  <2>4. QED
    BY <1>3, <2>2, <2>3 DEF OneOp, Told
<1>4. CASE runs' = runs /\ \E o \in ops : \E z, m : ops' = ops \ {o} /\ Sent(o, z, m)
  <2>1. PICK o \in ops : \E z, m : ops' = ops \ {o} /\ Sent(o, z, m)
    BY <1>4
  <2>2. (Working(a, c)' => Working(a, c)) /\ (Replied(a, c)' => Replied(a, c) \/ (a = o.agent /\ c = o.call))
    BY <2>1, SentReply DEF Working
  <2>3. a = o.agent /\ c = o.call => Working(a, c)
    BY DEF Working
  <2>4. runs[a][c] = 1 /\ a = o.agent /\ c = o.call => ~Working(a, c)'
    BY <2>1 DEF Working, OneOp
  <2>5. QED
    BY <1>4, <2>1, <2>2, <2>3, <2>4 DEF OneOp, Told
<1>5. CASE OldReplies /\ \E b \in Agents : \E o : TakenUp(b, o)
  <2>1. PICK b \in Agents : \E o : TakenUp(b, o)
    BY <1>5
  <2>2. PICK o : TakenUp(b, o)
    BY <2>1
  <2>3. /\ ops' = ops \cup {o} /\ runs' = [runs EXCEPT ![b] = [runs[b] EXCEPT ![o.call] = @ + 1]]
        /\ o.agent = b /\ o.call \in DOMAIN s.calls
    BY <2>2 DEF TakenUp
  <2>4. Replied(a, c)' => Replied(a, c)
    BY <1>5 DEF OldReplies
  <2>5. CASE o.agent = a /\ o.call = c
    <3>1. runs'[a][c] = runs[a][c] + 1
      BY <1>1, <2>3, <2>5
    <3>2. runs[a][c] = 0 => \A x, y \in ops' : x.agent = a /\ y.agent = a /\ x.call = c /\ y.call = c => x = y
      BY <2>3 DEF OneOp, Working
    <3>3. OneOp(a, c)'
      BY <1>1, <2>4, <3>1, <3>2 DEF OneOp
    <3>4. QED
      BY <1>1, <3>1, <3>3 DEF Told
  <2>6. CASE ~(o.agent = a /\ o.call = c)
    <3>1. runs'[a][c] = runs[a][c]
      BY <1>1, <2>3, <2>6
    <3>2. \A x \in ops' : x.agent = a /\ x.call = c => x \in ops
      BY <2>3, <2>6
    <3>3. Working(a, c)' => Working(a, c)
      BY <3>2 DEF Working
    <3>4. QED
      BY <2>4, <3>1, <3>2, <3>3 DEF OneOp, Told
  <2>7. QED
    BY <2>5, <2>6
<1>6. QED
  BY <1>2, <1>3, <1>4, <1>5, WorkOfStep

-----------------------------------------------------------------------------
(***************************************************************************)
(* Waves: what a step does to a bottom-up run and its messages.            *)
(***************************************************************************)
\* All there is under way to agents of a run, there was.
OldMail(c) ==
  \A a \in Agents : \A i \in 1..Len(inbox'[a]) :
    inbox'[a][i].call = c => \E b \in Agents : \E j \in 1..Len(inbox[b]) : inbox[b][j] = inbox'[a][i]
\* The run is where it was.
AtRest(c) == call'[c] = call[c] /\ recorded'[c] = recorded[c] /\ writtenOff \subseteq writtenOff'
Claimed(a, c) ==
  /\ Replied(a, c) /\ call' = [call EXCEPT ![c].pending = @ \ {a}]
  /\ recorded' = recorded /\ writtenOff' = writtenOff
GivenUp(as) == NotifyGone(as) /\ recorded' = recorded
Begins(c) == call[c].phase = "new" /\ \E defect : Begin(c, defect)
Dispatches(c) == \E kind : DispatchWave(c, kind)

LEMMA Delivered ==
  ASSUME InboxOK, NEW from, NEW who, NEW m, NEW a \in Agents, NEW i \in 1..Len(Deliver(inbox, To(from, who, m))[a])
  PROVE  /\ IsSeq(Deliver(inbox, To(from, who, m))[a])
         /\ \/ i \in 1..Len(inbox[a]) /\ Deliver(inbox, To(from, who, m))[a][i] = inbox[a][i]
            \/ Deliver(inbox, To(from, who, m))[a][i] = m /\ a \in who
<1> DEFINE q == Deliver(inbox, To(from, who, m))[a]
<1>1. (q = inbox[a] \o <<m>> /\ a \in who) \/ q = inbox[a] \o <<>>
  BY DEF Deliver, To
<1>2. IsSeq(inbox[a])
  BY DEF InboxOK, MessagesOK
<1>3. i \in 1..Len(q)
  OBVIOUS
<1> HIDE DEF q
<1>4. CASE q = inbox[a] \o <<m>> /\ a \in who
  <2>1. IsSeq(<<m>>) /\ Len(<<m>>) = 1 /\ <<m>>[1] = m
    BY ShortSeqs
  <2>2. i \notin 1..Len(inbox[a]) => i - Len(inbox[a]) \in 1..1 /\ q[i] = <<m>>[i - Len(inbox[a])]
    BY <1>2, <1>3, <1>4, <2>1, SeqConcat
  <2>3. i \notin 1..Len(inbox[a]) => i - Len(inbox[a]) = 1
    BY <2>2
  <2>4. i \in 1..Len(inbox[a]) => q[i] = inbox[a][i]
    BY <1>2, <1>4, <2>1, SeqConcat
  <2>5. IsSeq(q)
    BY <1>2, <1>4, <2>1, SeqConcat
  <2>6. QED
    BY <1>4, <2>1, <2>2, <2>3, <2>4, <2>5 DEF q
<1>5. CASE q = inbox[a] \o <<>>
  <2>1. IsSeq(q) /\ i \in 1..Len(inbox[a]) /\ q[i] = inbox[a][i]
    BY <1>2, <1>3, <1>5, ShortSeqs, SeqConcat
  <2>2. QED
    BY <2>1 DEF q
<1>6. QED
  BY <1>1, <1>4, <1>5

LEMMA MailStays ==
  ASSUME TypeOK, NEW c,
         \/ inbox' = inbox
         \/ \E a : inbox' = [inbox EXCEPT ![a] = <<>>]
         \/ \E from, who, m : m.call # c /\ inbox' = Deliver(inbox, To(from, who, m))
  PROVE  OldMail(c)
<1>1. InboxOK /\ DOMAIN inbox = Agents
  BY DEF TypeOK, InboxOK
<1>2. CASE inbox' = inbox
  BY <1>2 DEF OldMail
<1>3. CASE \E a : inbox' = [inbox EXCEPT ![a] = <<>>]
  <2>1. \A b \in Agents : inbox'[b] = inbox[b] \/ inbox'[b] = <<>>
    BY <1>1, <1>3
  <2>2. \A b \in Agents : \A i \in 1..Len(inbox'[b]) : inbox'[b] = inbox[b]
    BY <2>1, ShortSeqs
  <2>3. QED
    BY <2>2 DEF OldMail
<1>4. CASE \E from, who, m : m.call # c /\ inbox' = Deliver(inbox, To(from, who, m))
  <2>1. PICK from, who, m : m.call # c /\ inbox' = Deliver(inbox, To(from, who, m))
    BY <1>4
  <2>2. ASSUME NEW a \in Agents, NEW i \in 1..Len(inbox'[a]), inbox'[a][i].call = c
        PROVE  i \in 1..Len(inbox[a]) /\ inbox'[a][i] = inbox[a][i]
    BY <1>1, <2>1, <2>2, Delivered
  <2>3. QED
    BY <2>2 DEF OldMail
<1>5. QED
  BY <1>2, <1>3, <1>4

LEMMA TakenMail ==
  ASSUME TypeOK, NEW c, NEW a0 \in Agents, HandleServerMessage(a0)
  PROVE  OldMail(c)
<1> DEFINE m == Head(inbox[a0])
           to == IF Single(m.call) /\ a0 \in m.targets THEN {} ELSE RelayToDownstreams(a0, m)
           q == Deliver(inbox, To(a0, to, m))
<1>1. inbox[a0] # <<>> /\ inbox' = [q EXCEPT ![a0] = Tail(@)]
  BY DEF HandleServerMessage
<1>2. InboxOK /\ IsSeq(inbox[a0])
  BY DEF TypeOK, InboxOK, MessagesOK
<1>3. 1 \in 1..Len(inbox[a0]) /\ m = inbox[a0][1]
  BY <1>1, <1>2, SeqTail
<1> HIDE DEF m, to
<1>4. ASSUME NEW a \in Agents, NEW i \in 1..Len(q[a])
      PROVE  IsSeq(q[a]) /\ \E b \in Agents : \E j \in 1..Len(inbox[b]) : inbox[b][j] = q[a][i]
  BY <1>2, <1>3, <1>4, Delivered
<1>5. DOMAIN q = Agents
  BY DEF Deliver
<1> HIDE DEF q
<1>6. ASSUME NEW a \in Agents, NEW i \in 1..Len(inbox'[a])
      PROVE  \E b \in Agents : \E j \in 1..Len(inbox[b]) : inbox[b][j] = inbox'[a][i]
  <2>1. CASE a # a0
    <3>1. inbox'[a] = q[a]
      BY <1>1, <1>5, <2>1
    <3>2. QED
      BY <1>4, <1>6, <3>1
  <2>2. CASE a = a0
    <3>1. inbox'[a] = Tail(q[a])
      BY <1>1, <1>5, <2>2
    <3>2. CASE q[a] = <<>> \/ ~IsSeq(q[a])
      <4>1. IsSeq(q[a]) /\ Len(q[a]) # 0
        <5>1. q[a] = inbox[a0] \o <<m>> \/ q[a] = inbox[a0] \o <<>>
          BY <2>2 DEF q, Deliver, To
        <5>2. Len(inbox[a0]) \in Nat \ {0}
          BY <1>1, <1>2, SeqTail
        <5>3. PICK r : q[a] = inbox[a0] \o r /\ IsSeq(r)
          BY <5>1, ShortSeqs
        <5>4. IsSeq(inbox[a0] \o r) /\ Len(r) \in Nat /\ Len(inbox[a0] \o r) = Len(inbox[a0]) + Len(r)
          BY <1>2, <5>3, SeqConcat
        <5>5. QED
          BY <5>2, <5>3, <5>4
      <4>2. QED
        BY <3>2, <4>1, ShortSeqs
    <3>3. CASE q[a] # <<>> /\ IsSeq(q[a])
      <4>1. i + 1 \in 1..Len(q[a]) /\ inbox'[a][i] = q[a][i + 1]
        BY <1>6, <3>1, <3>3, SeqTail
      <4>2. QED
        BY <1>4, <4>1
    <3>4. QED
      BY <3>2, <3>3
  <2>3. QED
    BY <2>1, <2>2
<1>7. QED
  BY <1>6 DEF OldMail

LEMMA RunSingle ==
  ASSUME TypeOK, NEW c \in DOMAIN s.calls, BottomUp(c), NEW d \in DOMAIN s.calls,
         Handles(d) \/ Answers(d) \/ Send(d) \/ Timeout(d)
  PROVE  AtRest(c) /\ OldMail(c)
<1>1. Single(d) /\ d # c /\ call \in [DOMAIN s.calls -> Call]
  <2>1. Single(d)
    BY DEF Handles, HandleExecCommand, HandlePutFile, HandleFetchFile, Asked, Answers, AnswerExecCommand, AnswerPutFile,
           AnswerFetchFile, Answer, Send, Timeout
  <2>2. QED
    BY <2>1 DEF BottomUp, TypeOK, ServerTypes
<1>2. CASE Handles(d)
  <2>1. UNCHANGED <<inbox, recorded, writtenOff>> /\ (OpenSession(d) \/ \E defect : Refuse(d, defect))
    BY <1>2 DEF Handles, HandleExecCommand, HandlePutFile, HandleFetchFile, meshVars, topology
  <2>2. call'[c] = call[c]
    BY <1>1, <2>1 DEF OpenSession, Refuse
  <2>3. QED
    BY <2>1, <2>2, MailStays DEF AtRest
<1>3. CASE Answers(d) \/ Timeout(d)
  <2>1. UNCHANGED <<inbox, recorded, writtenOff>> /\ call'[c] = call[c]
    BY <1>1, <1>3 DEF Answers, AnswerExecCommand, AnswerPutFile, AnswerFetchFile, Answer, Timeout, meshVars, topology
  <2>2. QED
    BY <2>1, MailStays DEF AtRest
<1>4. CASE Send(d)
  <2>1. UNCHANGED <<recorded, writtenOff>> /\ call'[c] = call[c]
    BY <1>1, <1>4 DEF Send, topology
  <2>2. inbox' = inbox \/ \E who, path : LET m == SetRelayPath([call |-> d, wave |-> 0, targets |-> {Request(d).target}, path |-> <<>>], path)
                                         IN  inbox' = Deliver(inbox, To(Server, who, m))
    BY <1>4 DEF Send
  <2>3. \A path : SetRelayPath([call |-> d, wave |-> 0, targets |-> {Request(d).target}, path |-> <<>>], path).call # c
    BY <1>1 DEF SetRelayPath
  <2>4. inbox' = inbox \/ \E from, who, m : m.call # c /\ inbox' = Deliver(inbox, To(from, who, m))
    BY <2>2, <2>3
  <2>5. QED
    BY <2>1, <2>4, MailStays DEF AtRest
<1>5. QED
  BY <1>2, <1>3, <1>4

LEMMA RunMany ==
  ASSUME TypeOK, DOMAIN recorded = DOMAIN s.calls, NEW c \in DOMAIN s.calls, BottomUp(c), NEW d \in DOMAIN s.calls,
         HandleExecMulti(d) \/ HandleBroadcastDeploy(d) \/ DispatchExecWave(d) \/ DispatchDeployWave(d) \/ WaveDone(d) \/ WaveTimeout(d)
  PROVE  \/ OldMail(c) /\ (AtRest(c) \/ Begins(c) \/ WaveDone(c) \/ WaveTimeout(c))
         \/ Dispatches(c)
<1>1. call \in [DOMAIN s.calls -> Call]
  BY DEF TypeOK, ServerTypes
<1>2. CASE HandleExecMulti(d) \/ HandleBroadcastDeploy(d)
  <2>1. PICK defect : call[d].phase = "new" /\ Begin(d, defect)
    BY <1>2 DEF HandleExecMulti, HandleBroadcastDeploy
  <2>2. OldMail(c) /\ writtenOff' = writtenOff
    BY <2>1, MailStays DEF Begin, meshVars
  <2>3. CASE d = c
    BY <2>1, <2>2, <2>3 DEF Begins
  <2>4. CASE d # c
    <3>1. /\ \E x : call' = [call EXCEPT ![d] = x]
          /\ recorded' = recorded \/ recorded' = [recorded EXCEPT ![d] = depth]
      BY <2>1 DEF Begin, Refuse
    <3>2. call'[c] = call[c] /\ recorded'[c] = recorded[c]
      BY <1>1, <2>4, <3>1
    <3>3. QED
      BY <2>2, <3>2 DEF AtRest
  <2>5. QED
    BY <2>3, <2>4
<1>3. CASE DispatchExecWave(d) \/ DispatchDeployWave(d)
  <2>1. PICK kind : DispatchWave(d, kind)
    BY <1>3 DEF DispatchExecWave, DispatchDeployWave
  <2>2. CASE d = c
    BY <2>1, <2>2 DEF Dispatches
  <2>3. CASE d # c
    <3>1. recorded' = recorded /\ writtenOff \subseteq writtenOff' /\ \E x : call' = [call EXCEPT ![d] = x]
      BY <2>1 DEF DispatchWave, topology
    <3>2. call'[c] = call[c]
      BY <1>1, <2>3, <3>1
    <3>3. \E who : LET m == [call |-> d, wave |-> Len(call[d].waves), targets |-> Head(call[d].waves), path |-> <<>>]
                   IN  inbox' = Deliver(inbox, To(Server, who, m))
      BY <2>1 DEF DispatchWave
    <3>4. OldMail(c)
      <4> DEFINE m == [call |-> d, wave |-> Len(call[d].waves), targets |-> Head(call[d].waves), path |-> <<>>]
      <4>1. m.call # c /\ \E who : inbox' = Deliver(inbox, To(Server, who, m))
        BY <2>3, <3>3
      <4> HIDE DEF m
      <4>2. QED
        BY <4>1, MailStays
    <3>5. QED
      BY <3>1, <3>2, <3>4 DEF AtRest
  <2>4. QED
    BY <2>2, <2>3
<1>4. CASE WaveDone(d) \/ WaveTimeout(d)
  <2>1. OldMail(c) /\ UNCHANGED <<recorded, writtenOff>>
    BY <1>4, MailStays DEF WaveDone, WaveTimeout, meshVars, topology
  <2>2. CASE d = c
    BY <1>4, <2>1, <2>2
  <2>3. CASE d # c
    <3>1. call'[c] = call[c]
      BY <1>1, <1>4, <2>3 DEF WaveDone, WaveTimeout
    <3>2. QED
      BY <2>1, <3>1 DEF AtRest
  <2>4. QED
    BY <2>2, <2>3
<1>5. QED
  BY <1>2, <1>3, <1>4

LEMMA RunRead ==
  ASSUME TypeOK, NEW c \in DOMAIN s.calls, NEW z \in Agents, Receive(z)
  PROVE  OldMail(c) /\ (AtRest(c) \/ (\E a : Claimed(a, c)) \/ \E as : GivenUp(as))
<1> DEFINE m == Head(wire[z])
<1>1. call \in [DOMAIN s.calls -> Call]
  BY DEF TypeOK, ServerTypes
<1>2. /\ inbox' = inbox /\ wire[z] # <<>>
      /\ \/ Attached(z, m) \/ Lost(z, m)
         \/ m.t = "response" /\ (ExecBroadcastResponse(z, m) \/ DeployResponse(z, m))
         \/ ExecResponse(z, m) \/ FileChunk(z, m) \/ FetchResponse(z, m)
  BY DEF Receive
<1>3. OldMail(c)
  BY <1>2, MailStays
<1>4. 1 \in 1..Len(wire[z]) /\ m = wire[z][1]
  <2>1. IsSeq(wire[z])
    BY DEF TypeOK, WireOK, ReportsOK
  <2>2. QED
    BY <1>2, <2>1, SeqTail
<1> HIDE DEF m
<1>5. CASE Attached(z, m) \/ ExecResponse(z, m) \/ FileChunk(z, m) \/ FetchResponse(z, m)
  BY <1>3, <1>5 DEF Attached, ExecResponse, FileChunk, FetchResponse, topology, AtRest
<1>6. CASE Lost(z, m)
  <2>1. recorded' = recorded /\ (NotifyGone(Subtree(m.agent, parent)) \/ UNCHANGED <<call, writtenOff>>)
    BY <1>6 DEF Lost, topology
  <2>2. QED
    BY <1>3, <2>1 DEF GivenUp, AtRest
<1>7. CASE m.t = "response" /\ (ExecBroadcastResponse(z, m) \/ DeployResponse(z, m))
  <2>1. UNCHANGED <<recorded, writtenOff>> /\ (call' = call \/ call' = [call EXCEPT ![m.call].pending = @ \ {m.agent}])
    BY <1>7 DEF ExecBroadcastResponse, DeployResponse, Claim, topology
  <2>2. CASE call' = call \/ m.call # c
    <3>1. call'[c] = call[c]
      BY <1>1, <2>1, <2>2
    <3>2. QED
      BY <1>3, <2>1, <3>1 DEF AtRest
  <2>3. CASE m.call = c /\ call' = [call EXCEPT ![m.call].pending = @ \ {m.agent}]
    <3>1. Response(z, 1, c) /\ wire[z][1].agent = m.agent
      BY <1>4, <1>7, <2>3 DEF Response
    <3>2. Replied(m.agent, c)
      BY <1>4, <3>1 DEF Replied
    <3>3. QED
      BY <1>3, <2>1, <2>3, <3>2 DEF Claimed
  <2>4. QED
    BY <2>1, <2>2, <2>3
<1>8. QED
  BY <1>2, <1>5, <1>6, <1>7

LEMMA RunMesh ==
  ASSUME TypeOK, NEW c \in DOMAIN s.calls, NEW a \in Agents, NEW p \in Agents \cup {Server},
         HandleServerMessage(a) \/ Cut(a) \/ ServerNotices(a) \/ Receive(a) \/ Attach(a, p) \/ (p \in Agents /\ RelayNotices(p, a))
  PROVE  OldMail(c) /\ (AtRest(c) \/ (\E x : Claimed(x, c)) \/ \E as : GivenUp(as))
<1>1. UNCHANGED serverVars => AtRest(c)
  BY DEF serverVars, topology, AtRest
<1>2. CASE HandleServerMessage(a)
  BY <1>1, <1>2, TakenMail DEF HandleServerMessage
<1>3. CASE Cut(a)
  BY <1>1, <1>3, MailStays DEF Cut
<1>4. CASE ServerNotices(a)
  <2>1. inbox' = inbox /\ recorded' = recorded /\ NotifyGone(Subtree(a, parent))
    BY <1>4 DEF ServerNotices, topology
  <2>2. QED
    BY <2>1, MailStays DEF GivenUp
<1>5. CASE Receive(a)
  BY <1>5, RunRead
<1>6. CASE Attach(a, p)
  <2>1. inbox' = inbox /\ UNCHANGED serverVars
    BY <1>6 DEF Attach
  <2>2. QED
    BY <1>1, <2>1, MailStays
<1>7. CASE RelayNotices(p, a)
  BY <1>1, <1>7, MailStays DEF RelayNotices
<1>8. QED
  BY <1>2, <1>3, <1>4, <1>5, <1>6, <1>7

LEMMA RunOps ==
  ASSUME TypeOK, NEW c \in DOMAIN s.calls, NEW o \in ops, AtIt(o) \/ Respond(o)
  PROVE  OldMail(c) /\ AtRest(c)
<1>1. UNCHANGED serverVars
  BY OpTypes, RespondTypes
<1>2. AtRest(c)
  BY <1>1 DEF serverVars, topology, AtRest
<1>3. CASE AtIt(o)
  BY <1>2, <1>3, MailStays DEF AtIt, Gate, Write, Fill, Stat, Run, meshVars
<1>4. CASE Respond(o)
  <2>1. inbox' = inbox \/ \E a : inbox' = [inbox EXCEPT ![a] = <<>>]
    <3>1. ASSUME NEW ms, SendUp(o.agent, ms) PROVE inbox' = inbox \/ \E a : inbox' = [inbox EXCEPT ![a] = <<>>]
      BY <3>1 DEF SendUp
    <3>2. QED
      BY <1>4, <3>1 DEF Respond
  <2>2. QED
    BY <1>2, <2>1, MailStays
<1>5. QED
  BY <1>3, <1>4

\* What a step does to a bottom-up run.
LEMMA RunOfStep ==
  ASSUME TypeOK, DOMAIN recorded = DOMAIN s.calls, NEW c \in DOMAIN s.calls, BottomUp(c), [Next]_vars
  PROVE  \/ /\ OldMail(c)
            /\ \/ AtRest(c) \/ Begins(c) \/ WaveDone(c) \/ WaveTimeout(c)
               \/ (\E a : Claimed(a, c)) \/ (\E as : GivenUp(as))
         \/ Dispatches(c)
<1>1. CASE UNCHANGED vars
  BY <1>1, MailStays DEF vars, meshVars, serverVars, topology, AtRest
<1>2. CASE \E d \in DOMAIN s.calls : Handles(d) \/ Answers(d) \/ Send(d) \/ Timeout(d)
  BY <1>2, RunSingle
<1>3. CASE \E d \in DOMAIN s.calls :
             HandleExecMulti(d) \/ HandleBroadcastDeploy(d) \/ DispatchExecWave(d) \/ DispatchDeployWave(d)
             \/ WaveDone(d) \/ WaveTimeout(d)
  BY <1>3, RunMany
<1>4. CASE \E a \in Agents, p \in Agents \cup {Server} :
             \/ HandleServerMessage(a) \/ Cut(a) \/ ServerNotices(a) \/ Receive(a) \/ Attach(a, p)
             \/ (p \in Agents /\ RelayNotices(p, a))
  BY <1>4, RunMesh
<1>5. CASE \E o \in ops : AtIt(o) \/ Respond(o)
  BY <1>5, RunOps
<1>6. CASE \E u \in updates : UpdateExecLog(u)
  <2>1. UNCHANGED <<inbox, recorded, call, writtenOff>>
    BY <1>6 DEF UpdateExecLog, meshVars, topology
  <2>2. QED
    BY <2>1, MailStays DEF AtRest
<1>7. CASE Next
  <2>1. \/ \E d \in DOMAIN s.calls : Handles(d) \/ Answers(d) \/ Send(d) \/ Timeout(d)
        \/ \E d \in DOMAIN s.calls :
             HandleExecMulti(d) \/ HandleBroadcastDeploy(d) \/ DispatchExecWave(d) \/ DispatchDeployWave(d)
             \/ WaveDone(d) \/ WaveTimeout(d)
        \/ \E a \in Agents, p \in Agents \cup {Server} :
             \/ HandleServerMessage(a) \/ Cut(a) \/ ServerNotices(a) \/ Receive(a) \/ Attach(a, p)
             \/ (p \in Agents /\ RelayNotices(p, a))
        \/ \E o \in ops : AtIt(o) \/ Respond(o)
        \/ \E u \in updates : UpdateExecLog(u)
    BY <1>7 DEF Next, Handles, Answers, AtIt
  <2>2. QED
    BY <1>2, <1>3, <1>4, <1>5, <1>6, <2>1
<1>8. QED
  BY <1>1, <1>7

-----------------------------------------------------------------------------
(***************************************************************************)
(* Waves: the invariant of a bottom-up run.                                *)
(***************************************************************************)
\* Whatever is taken up was, or came by message.
Assigned(c, box, now, next) ==
  \A o \in next : o.call = c =>
    \/ \E p \in now : p.call = c /\ p.agent = o.agent /\ p.wave = o.wave
    \/ \E b \in Agents : \E j \in 1..Len(box[b]) : box[b][j].call = c /\ box[b][j].wave = o.wave /\ o.agent \in box[b][j].targets

LEMMA WorkAssigned ==
  ASSUME TypeOK, ToldInv, [Next]_vars, NEW c
  PROVE  Assigned(c, inbox, ops, ops')
<1>1. CASE ops' \subseteq ops
  BY <1>1 DEF Assigned
<1>2. CASE \E o \in ops : \E x : Goes(o, x)
  BY <1>2 DEF Assigned, Goes
<1>3. CASE \E o \in ops : ops' = ops \ {o}
  BY <1>3 DEF Assigned
<1>4. CASE \E a \in Agents : HandleServerMessage(a)
  <2>1. PICK a \in Agents : HandleServerMessage(a)
    BY <1>4
  <2> DEFINE m == Head(inbox[a])
             o == [agent |-> a, call |-> m.call, wave |-> m.wave, copy |-> runs[a][m.call], step |-> "gate",
                   outcome |-> "none", as |-> None]
  <2>2. inbox[a] # <<>> /\ (ops' = ops \/ (a \in m.targets /\ ops' = ops \cup {o}))
    BY <2>1 DEF HandleServerMessage
  <2>3. 1 \in 1..Len(inbox[a]) /\ m = inbox[a][1]
    <3>1. IsSeq(inbox[a])
      BY DEF TypeOK, InboxOK, MessagesOK
    <3>2. QED
      BY <2>2, <3>1, SeqTail
  <2>4. o.agent = a /\ o.call = m.call /\ o.wave = m.wave
    OBVIOUS
  <2> HIDE DEF m, o
  <2>5. QED
    BY <2>2, <2>3, <2>4 DEF Assigned
<1>5. QED
  BY <1>1, <1>2, <1>3, <1>4, WorkOfStep

LEMMA OutStays ==
  ASSUME NEW x \in Call, NEW y \in Call, NEW plan, Len(plan) \in Nat, Underway(x) => Underway(y),
         Len(y.waves) <= Len(x.waves), NEW w, IsOut(x, plan, w)
  PROVE  IsOut(y, plan, w)
<1>1. Len(x.waves) \in Nat /\ Len(y.waves) \in Nat
  BY DEF Call
<1>2. QED
  BY <1>1 DEF IsOut

\* Work that is assigned by messages that are out is out.
LEMMA WorkOut ==
  ASSUME NEW x, NEW plan, NEW c, NEW box, NEW now, NEW next, Assigned(c, box, now, next),
         \A a \in Agents : MailOut(x, plan, c, box[a]), OpsOut(x, plan, c, now)
  PROVE  OpsOut(x, plan, c, next)
  BY DEF Assigned, MailOut, OpsOut

\* The run makes no new waves and sends none.
LEMMA WavesStay ==
  ASSUME NEW x \in Call, NEW y \in Call, NEW plan, Len(plan) \in Nat, NEW c, NEW told, NEW told2, told \subseteq told2,
         WavesOK(x, plan, c, inbox, ops, told), OldMail(c), Assigned(c, inbox, ops, ops'),
         Underway(x) <=> Underway(y), y.waves = x.waves, y.phase # "done" => y.reply.status = "none",
         x.phase = "done" => y.phase = "done",
         \A a \in x.pending : x.phase = "waiting" => a \in told2 \/ y.phase = "done" \/ (y.phase = "waiting" /\ a \in y.pending)
  PROVE  WavesOK(y, plan, c, inbox', ops', told2)
<1>1. \A w : IsOut(y, plan, w) <=> IsOut(x, plan, w)
  BY DEF IsOut
<1>2. Rest(y, plan)
  BY DEF WavesOK, Rest
<1>3. OpsOut(y, plan, c, ops')
  <2>1. OpsOut(x, plan, c, ops')
    BY WorkOut DEF WavesOK
  <2>2. QED
    BY <1>1, <2>1 DEF OpsOut
<1>4. \A a \in Agents : MailOut(y, plan, c, inbox'[a])
  <2>1. ASSUME NEW a \in Agents, NEW i \in 1..Len(inbox'[a]), inbox'[a][i].call = c
        PROVE  IsOut(x, plan, inbox'[a][i].wave) /\ inbox'[a][i].targets = Numbered(plan, inbox'[a][i].wave)
    <3>1. PICK b \in Agents : \E j \in 1..Len(inbox[b]) : inbox[b][j] = inbox'[a][i]
      BY <2>1 DEF OldMail
    <3>2. MailOut(x, plan, c, inbox[b])
      BY DEF WavesOK
    <3>3. QED
      BY <2>1, <3>1, <3>2 DEF MailOut
  <2>2. QED
    BY <1>1, <2>1 DEF MailOut
<1>5. Settled(y, plan, told2)
  BY <1>1 DEF WavesOK, Settled
<1>6. QED
  BY <1>2, <1>3, <1>4, <1>5 DEF WavesOK

LEMMA PlanType ==
  ASSUME TypeOK, NEW c \in DOMAIN s.calls
  PROVE  /\ \A at : LET plan == TargetIDWavesByDepthDesc(Request(c).targets, at)
                    IN  plan \in Seq(SUBSET Agents) /\ Len(plan) \in Nat
         /\ Plan(c) \in Seq(SUBSET Agents) /\ Len(Plan(c)) \in Nat
<1>1. Request(c).targets \in SUBSET Agents
  BY ScenariosAssumption DEF TypeOK, ServerTypes, Request, Requests
<1>2. \A at : TargetIDWavesByDepthDesc(Request(c).targets, at) \in Seq(SUBSET Agents)
  BY <1>1, WavesType
<1>3. \A q \in Seq(SUBSET Agents) : Len(q) \in Nat
  OBVIOUS
<1>4. QED
  BY <1>2, <1>3 DEF Plan

\* The waves are made.
LEMMA WavesBegin ==
  ASSUME TypeOK, TypeOK', ToldInv, [Next]_vars, NEW c \in DOMAIN s.calls, BottomUp(c), recorded \in [DOMAIN s.calls -> [Agents -> Nat]],
         WavesOK(call[c], Plan(c), c, inbox, ops, ToldOf(c)), OldMail(c), Begins(c), s' = s
  PROVE  WavesOK(call'[c], Plan(c)', c, inbox', ops', ToldOf(c)')
<1> DEFINE x == call[c]
           y == call'[c]
<1>1. PICK defect : x.phase = "new" /\ Begin(c, defect)
  BY DEF Begins
<1>2. x \in Call /\ y \in Call /\ call \in [DOMAIN s.calls -> Call] /\ x.reply.status = "none"
  BY <1>1 DEF TypeOK, ServerTypes, WavesOK
<1>3. \A a \in Agents : \A i \in 1..Len(inbox'[a]) : inbox'[a][i].call # c
  <2>1. \A b \in Agents : \A j \in 1..Len(inbox[b]) : inbox[b][j].call # c
    BY <1>1 DEF WavesOK, MailOut, IsOut, Underway
  <2>2. ASSUME NEW a \in Agents, NEW i \in 1..Len(inbox'[a]), inbox'[a][i].call = c PROVE FALSE
    <3>1. PICK b \in Agents : \E j \in 1..Len(inbox[b]) : inbox[b][j] = inbox'[a][i]
      BY <2>2 DEF OldMail
    <3>2. QED
      BY <2>1, <2>2, <3>1
  <2>3. QED
    BY <2>2
<1>4. \A o \in ops' : o.call # c
  <2>1. OpsOut(x, Plan(c), c, ops')
    BY WorkOut, WorkAssigned DEF WavesOK
  <2>2. QED
    BY <1>1, <2>1 DEF OpsOut, IsOut, Underway
<1>5. Len(Plan(c)') \in Nat
  <2>1. Plan(c)' = TargetIDWavesByDepthDesc(Request(c).targets, recorded'[c])
    BY DEF Plan, Request
  <2>2. QED
    BY <2>1, PlanType
<1>6. CASE Refuse(c, defect)
  <2>1. call' = [call EXCEPT ![c] = [x EXCEPT !.phase = "done", !.reply = [status |-> StatusOf(defect), agent |-> None]]]
    BY <1>6 DEF Refuse
  <2>2. y.phase = "done" /\ y.reply.status \notin {"none", "stopped"}
    <3> HIDE DEF x
    <3> DEFINE r == [status |-> StatusOf(defect), agent |-> None]
    <3>1. r.status \notin {"none", "stopped"}
      BY DEF StatusOf
    <3> HIDE DEF r
    <3> DEFINE z == [x EXCEPT !.phase = "done", !.reply = r]
    <3>2. z.phase = "done" /\ z.reply = r
      BY <1>2 DEF Call
    <3>3. call' = [call EXCEPT ![c] = z]
      BY <2>1 DEF r
    <3> HIDE DEF z
    <3>4. QED
      BY <1>2, <3>1, <3>2, <3>3
  <2> HIDE DEF x, y
  <2>3. QED
    BY <1>3, <1>4, <2>2 DEF WavesOK, Rest, MailOut, OpsOut, Settled, IsOut, Underway, y
<1>7. CASE ~Refuse(c, defect)
  <2> DEFINE p == IF Request(c).targets = {} THEN "done" ELSE "wave"
             waves == TargetIDWavesByDepthDesc(Request(c).targets, depth)
  <2>1. call' = [call EXCEPT ![c] = [x EXCEPT !.phase = p, !.waves = waves]] /\ recorded' = [recorded EXCEPT ![c] = depth]
    BY <1>1, <1>7 DEF Begin, BottomUp
  <2>2. Plan(c)' = waves
    BY <2>1 DEF Plan, Request
  <2>3. y.phase \in {"done", "wave"} /\ y.waves = waves /\ y.reply = x.reply
    <3>1. p \in {"done", "wave"}
      OBVIOUS
    <3> HIDE DEF p, waves, x
    <3> DEFINE z == [x EXCEPT !.phase = p, !.waves = waves]
    <3>2. z.phase = p /\ z.waves = waves /\ z.reply = x.reply
      BY <1>2 DEF Call
    <3>3. call' = [call EXCEPT ![c] = z]
      BY <2>1
    <3> HIDE DEF z
    <3>4. QED
      BY <1>2, <3>1, <3>2, <3>3
  <2> HIDE DEF x, y, waves
  <2> DEFINE plan == Plan(c)'
  <2>4. y.waves = plan /\ Len(plan) \in Nat
    BY <1>5, <2>2, <2>3
  <2> HIDE DEF plan
  <2>5. \A w : ~IsOut(y, plan, w)
    BY <2>4 DEF IsOut
  <2>6. Rest(y, plan)
    BY <2>4 DEF Rest
  <2>7. WavesOK(y, plan, c, inbox', ops', ToldOf(c)')
    BY <1>2, <1>3, <1>4, <2>3, <2>5, <2>6 DEF WavesOK, MailOut, OpsOut, Settled
  <2>8. QED
    BY <2>7 DEF y, plan
<1>8. QED
  BY <1>6, <1>7

\* A wave goes out.
LEMMA WavesDispatch ==
  ASSUME TypeOK, TypeOK', ToldInv, [Next]_vars, NEW c \in DOMAIN s.calls, BottomUp(c),
         WavesOK(call[c], Plan(c), c, inbox, ops, ToldOf(c)), ToldOf(c) \subseteq ToldOf(c)', Dispatches(c), s' = s
  PROVE  WavesOK(call'[c], Plan(c)', c, inbox', ops', ToldOf(c)')
<1> DEFINE x == call[c]
           y == call'[c]
           plan == Plan(c)
           told == ToldOf(c)
           told2 == ToldOf(c)'
           wave == Head(x.waves)
           m == [call |-> c, wave |-> Len(x.waves), targets |-> wave, path |-> <<>>]
<1>1. PICK full \in SUBSET down[Server] :
        LET gone == wave \cap UNION {Subtree(z, parent) : z \in full} IN
        /\ x.phase = "wave" /\ x.waves # <<>> /\ recorded' = recorded
        /\ call' = [call EXCEPT ![c] = [x EXCEPT !.phase = "waiting", !.pending = wave \ gone, !.waves = Tail(@)]]
        /\ writtenOff' = writtenOff \cup {<<c, z>> : z \in gone}
        /\ inbox' = Deliver(inbox, To(Server, down[Server] \ full, m))
  BY DEF Dispatches, DispatchWave, topology
<1> DEFINE gone == wave \cap UNION {Subtree(z, parent) : z \in full}
<1>2. x \in Call /\ y \in Call /\ call \in [DOMAIN s.calls -> Call] /\ x.reply.status = "none" /\ x.phase = "wave"
  BY <1>1 DEF TypeOK, ServerTypes, WavesOK
<1>3. Plan(c)' = plan /\ Len(plan) \in Nat /\ plan \in Seq(SUBSET Agents)
  BY <1>1, PlanType DEF Plan, Request
<1>4. /\ Len(x.waves) \in Nat \ {0} /\ wave = x.waves[1] /\ wave \subseteq Agents
      /\ Tail(x.waves) \in Seq(SUBSET Agents) /\ Len(Tail(x.waves)) = Len(x.waves) - 1
      /\ \A j \in 1..Len(Tail(x.waves)) : j + 1 \in 1..Len(x.waves) /\ Tail(x.waves)[j] = x.waves[j + 1]
  <2>1. x.waves \in Seq(SUBSET Agents) /\ x.waves # <<>>
    BY <1>1, <1>2 DEF Call
  <2> DEFINE q == x.waves
  <2> HIDE DEF q, x
  <2>2. q \in Seq(SUBSET Agents) /\ q # <<>>
    BY <2>1 DEF q
  <2>3. /\ Len(q) \in Nat \ {0} /\ Head(q) = q[1] /\ q[1] \subseteq Agents
        /\ Tail(q) \in Seq(SUBSET Agents) /\ Len(Tail(q)) = Len(q) - 1
        /\ \A j \in 1..Len(Tail(q)) : j + 1 \in 1..Len(q) /\ Tail(q)[j] = q[j + 1]
    BY <2>2
  <2>4. QED
    BY <2>3 DEF q
<1>5. /\ y.phase = "waiting" /\ y.pending = wave \ gone /\ y.waves = Tail(x.waves) /\ y.reply = x.reply
  <2> DEFINE left == wave \ gone
             z == [x EXCEPT !.phase = "waiting", !.pending = left, !.waves = Tail(@)]
  <2>1. call' = [call EXCEPT ![c] = z]
    BY <1>1
  <2> HIDE DEF left, x
  <2>2. z.phase = "waiting" /\ z.pending = left /\ z.waves = Tail(x.waves) /\ z.reply = x.reply
    BY <1>2 DEF Call
  <2> HIDE DEF z
  <2>3. y = z
    BY <1>2, <2>1
  <2>4. QED
    BY <2>2, <2>3 DEF left
<1>6. \A a \in gone : a \in told2
  <2>1. \A a \in gone : <<c, a>> \in writtenOff' /\ a \in Agents
    BY <1>1, <1>4
  <2>2. QED
    BY <2>1 DEF ToldOf, Told
<1>7. inbox' = Deliver(inbox, To(Server, down[Server] \ full, m))
  BY <1>1
<1>8. m.call = c /\ m.wave = Len(x.waves) /\ m.targets = wave
  OBVIOUS
<1>9. WavesOK(x, plan, c, inbox, ops, told) /\ told \subseteq told2
  OBVIOUS
<1> HIDE DEF x, y, plan, told, told2, wave, m, gone
<1>10. Underway(x) /\ Underway(y)
  BY <1>2, <1>5 DEF Underway
<1> DEFINE n == Len(plan)
           l == Len(x.waves)
<1>11. l \in Nat \ {0} /\ n \in Nat /\ l <= n /\ Len(y.waves) = l - 1
  BY <1>3, <1>4, <1>5, <1>9, <1>10 DEF WavesOK, Rest
<1>12. \A w : IsOut(x, plan, w) => IsOut(y, plan, w)
  BY <1>10, <1>11 DEF IsOut
<1>13. IsOut(y, plan, l) /\ wave = Numbered(plan, l)
  <2>1. l \in l..n
    BY <1>11
  <2>2. IsOut(y, plan, l)
    BY <1>10, <1>11, <2>1 DEF IsOut
  <2>3. x.waves[1] = plan[n - l + 1]
    <3>1. 1 \in 1..l
      BY <1>11
    <3>2. QED
      BY <1>9, <1>10, <3>1 DEF WavesOK, Rest
  <2>4. QED
    BY <1>4, <2>2, <2>3 DEF Numbered
<1>14. Rest(y, plan)
  <2>1. ASSUME NEW j \in 1..(l - 1) PROVE y.waves[j] = plan[n - (l - 1) + j]
    <3>1. y.waves[j] = x.waves[j + 1] /\ j + 1 \in 1..l
      BY <1>4, <1>5, <1>11
    <3>2. x.waves[j + 1] = plan[n - l + (j + 1)]
      BY <1>9, <1>10, <3>1 DEF WavesOK, Rest
    <3>3. \A i, k, g \in Int : i - k + (g + 1) = i - (k - 1) + g
      OBVIOUS
    <3>4. l \in Int /\ n \in Int /\ j \in Int
      BY <1>11
    <3> HIDE DEF l, n
    <3>5. n - l + (j + 1) = n - (l - 1) + j
      BY <3>3, <3>4
    <3>6. QED
      BY <3>1, <3>2, <3>5
  <2>2. l - 1 <= n
    BY <1>11
  <2> HIDE DEF l, n
  <2>3. Len(y.waves) <= n /\ \A j \in 1..Len(y.waves) : y.waves[j] = plan[n - Len(y.waves) + j]
    BY <1>11, <2>1, <2>2
  <2>4. QED
    BY <2>3 DEF Rest, n
<1>15. \A a \in Agents : MailOut(y, plan, c, inbox'[a])
  <2>1. ASSUME NEW a \in Agents, NEW i \in 1..Len(inbox'[a]), inbox'[a][i].call = c
        PROVE  IsOut(y, plan, inbox'[a][i].wave) /\ inbox'[a][i].targets = Numbered(plan, inbox'[a][i].wave)
    <3>1. (i \in 1..Len(inbox[a]) /\ inbox'[a][i] = inbox[a][i]) \/ inbox'[a][i] = m
      BY <1>7, <2>1, Delivered DEF TypeOK
    <3>2. CASE inbox'[a][i] = m
      BY <1>8, <1>13, <3>2
    <3>3. CASE i \in 1..Len(inbox[a]) /\ inbox'[a][i] = inbox[a][i]
      <4>1. MailOut(x, plan, c, inbox[a])
        BY <1>9 DEF WavesOK
      <4>2. QED
        BY <1>12, <2>1, <3>3, <4>1 DEF MailOut
    <3>4. QED
      BY <3>1, <3>2, <3>3
  <2>2. QED
    BY <2>1 DEF MailOut
<1>16. OpsOut(y, plan, c, ops')
  <2>1. OpsOut(x, plan, c, ops')
    BY <1>9, WorkOut, WorkAssigned DEF WavesOK
  <2>2. QED
    BY <1>12, <2>1 DEF OpsOut
<1>17. Settled(y, plan, told2)
  <2>1. ASSUME NEW w \in 1..n, IsOut(y, plan, w), NEW a \in Numbered(plan, w)
        PROVE  a \in told2 \/ (w = Len(y.waves) + 1 /\ y.phase = "waiting" /\ a \in y.pending)
    <3>1. CASE w = l
      <4>1. a \in wave /\ w = Len(y.waves) + 1
        BY <1>11, <1>13, <2>1, <3>1
      <4>2. QED
        BY <1>5, <1>6, <4>1
    <3>2. CASE w # l
      <4>1. IsOut(x, plan, w)
        BY <1>10, <1>11, <2>1, <3>2 DEF IsOut
      <4>2. a \in told
        BY <1>2, <1>9, <2>1, <4>1 DEF WavesOK, Settled
      <4>3. QED
        BY <1>9, <4>2
    <3>3. QED
      BY <3>1, <3>2
  <2>2. QED
    BY <2>1 DEF Settled
<1>18. WavesOK(y, plan, c, inbox', ops', told2)
  BY <1>2, <1>5, <1>14, <1>15, <1>16, <1>17 DEF WavesOK
<1>19. QED
  BY <1>3, <1>18 DEF y, plan, told2

\* Any other step.
LEMMA WavesOther ==
  ASSUME TypeOK, TypeOK', ToldInv, [Next]_vars, NEW c \in DOMAIN s.calls, BottomUp(c),
         \A a \in Agents : OneOp(a, c), \A a \in Agents : OneOp(a, c)',
         WavesOK(call[c], Plan(c), c, inbox, ops, ToldOf(c)), ToldOf(c) \subseteq ToldOf(c)', OldMail(c), s' = s,
         AtRest(c) \/ WaveDone(c) \/ WaveTimeout(c) \/ (\E a : Claimed(a, c)) \/ (\E as : GivenUp(as))
  PROVE  WavesOK(call'[c], Plan(c)', c, inbox', ops', ToldOf(c)')
<1> DEFINE x == call[c]
           y == call'[c]
           plan == Plan(c)
<1>1. x \in Call /\ y \in Call /\ call \in [DOMAIN s.calls -> Call]
  BY DEF TypeOK, ServerTypes
<1>2. recorded'[c] = recorded[c]
  BY DEF AtRest, WaveDone, WaveTimeout, Claimed, GivenUp, topology
<1>3. Plan(c)' = plan /\ Len(plan) \in Nat
  BY <1>2, PlanType DEF Plan, Request
<1>4. Assigned(c, inbox, ops, ops')
  BY WorkAssigned
<1>5. x.phase # "done" => x.reply.status = "none"
  BY DEF WavesOK
<1> DEFINE Moves == /\ y.waves = x.waves /\ (x.phase = "new" <=> y.phase = "new") /\ (x.phase = "done" => y.phase = "done")
                    /\ y.reply = x.reply \/ (y.phase = "done" /\ y.reply.status = "stopped" /\ x.phase = "waiting")
                    /\ \A a \in x.pending : x.phase = "waiting" =>
                         a \in ToldOf(c)' \/ y.phase = "done" \/ (y.phase = "waiting" /\ a \in y.pending)
<1>6. ASSUME Moves PROVE WavesOK(y, plan, c, inbox', ops', ToldOf(c)')
  <2>1. Underway(x) <=> Underway(y)
    BY <1>5, <1>6 DEF Underway
  <2>2. y.phase # "done" => y.reply.status = "none"
    BY <1>5, <1>6
  <2>3. WavesOK(x, plan, c, inbox, ops, ToldOf(c))
    OBVIOUS
  <2> HIDE DEF x, y, plan
  <2>4. QED
    BY <1>1, <1>3, <1>4, <1>6, <2>1, <2>2, <2>3, WavesStay
<1>7. CASE AtRest(c)
  <2>1. y = x
    BY <1>7 DEF AtRest
  <2>2. Moves
    BY <2>1
  <2>3. QED
    BY <1>3, <1>6, <2>2
<1>8. CASE WaveDone(c)
  <2> DEFINE p == IF x.waves = <<>> THEN "done" ELSE "wave"
             z == [x EXCEPT !.phase = p]
  <2>1. x.phase = "waiting" /\ x.pending = {} /\ call' = [call EXCEPT ![c] = z]
    BY <1>8 DEF WaveDone
  <2>2. p \in {"done", "wave"}
    OBVIOUS
  <2> HIDE DEF p, x
  <2>3. z.phase = p /\ z.waves = x.waves /\ z.reply = x.reply
    BY <1>1 DEF Call
  <2> HIDE DEF z
  <2>4. y = z
    BY <1>1, <2>1
  <2>5. Moves
    BY <2>1, <2>2, <2>3, <2>4
  <2>6. QED
    BY <1>3, <1>6, <2>5 DEF x
<1>9. CASE WaveTimeout(c)
  <2> DEFINE r == [status |-> "stopped", agent |-> None]
             z == [x EXCEPT !.phase = "done", !.pending = {}, !.reply = r]
  <2>1. x.phase = "waiting" /\ call' = [call EXCEPT ![c] = z] /\ r.status = "stopped"
    BY <1>9 DEF WaveTimeout
  <2> HIDE DEF r, x
  <2>2. z.phase = "done" /\ z.waves = x.waves /\ z.reply = r
    BY <1>1 DEF Call
  <2> HIDE DEF z
  <2>3. y = z
    BY <1>1, <2>1
  <2>4. Moves
    BY <2>1, <2>2, <2>3
  <2>5. QED
    BY <1>3, <1>6, <2>4 DEF x
<1>10. ASSUME NEW as, y = [x EXCEPT !.pending = @ \ as], \A a \in as \cap x.pending : x.phase = "waiting" => a \in ToldOf(c)'
       PROVE  Moves
  <2>1. y.phase = x.phase /\ y.waves = x.waves /\ y.reply = x.reply /\ y.pending = x.pending \ as
    <3> HIDE DEF x, y
    <3>1. QED
      BY <1>1, <1>10 DEF Call
  <2>2. QED
    BY <1>10, <2>1
<1>11. x.pending \subseteq Agents
  <2> HIDE DEF x
  <2>1. QED
    BY <1>1 DEF Call
<1>12. CASE \E a : Claimed(a, c)
  <2>1. PICK a : Claimed(a, c)
    BY <1>12
  <2>2. y = [x EXCEPT !.pending = @ \ {a}]
    BY <1>1, <2>1 DEF Claimed
  <2>3. a \in Agents => a \in ToldOf(c)
    <3>1. ASSUME a \in Agents PROVE OneOp(a, c) /\ Replied(a, c) /\ runs[a][c] \in Nat
      BY <2>1, <3>1 DEF Claimed, TypeOK, DiskOK
    <3>2. QED
      BY <3>1 DEF OneOp, Told, ToldOf
  <2>4. \A b \in {a} \cap x.pending : b \in ToldOf(c)'
    BY <1>11, <2>3
  <2>5. Moves
    BY <1>10, <2>2, <2>4
  <2>6. QED
    BY <1>3, <1>6, <2>5
<1>13. CASE \E as : GivenUp(as)
  <2>1. PICK as : GivenUp(as)
    BY <1>13
  <2>2. y = [x EXCEPT !.pending = @ \ as]
    BY <1>1, <2>1 DEF GivenUp, NotifyGone
  <2>3. ASSUME NEW a \in as \cap x.pending PROVE <<c, a>> \in writtenOff'
    <3>1. c \in DOMAIN call /\ <<c, a>> \in {<<c, b>> : b \in as \cap call[c].pending}
      BY <1>1
    <3>2. writtenOff' = writtenOff \cup UNION {{<<d, b>> : b \in as \cap call[d].pending} : d \in DOMAIN call}
      BY <2>1 DEF GivenUp, NotifyGone
    <3>3. QED
      BY <3>1, <3>2
  <2>4. \A a \in as \cap x.pending : a \in ToldOf(c)'
    BY <1>11, <2>3 DEF ToldOf, Told
  <2>5. Moves
    BY <1>10, <2>2, <2>4
  <2>6. QED
    BY <1>3, <1>6, <2>5
<1>14. QED
  BY <1>7, <1>8, <1>9, <1>12, <1>13

-----------------------------------------------------------------------------
(***************************************************************************)
(* Waves: the invariant holds.                                             *)
(***************************************************************************)
LEMMA DepthStep ==
  ASSUME TypeOK, depth \in [Agents -> Nat], recorded \in [DOMAIN s.calls -> [Agents -> Nat]], [Next]_vars, s' = s
  PROVE  depth' \in [Agents -> Nat] /\ recorded' \in [DOMAIN s.calls -> [Agents -> Nat]] /\ writtenOff \subseteq writtenOff'
<1> DEFINE Begun == \E d \in DOMAIN s.calls : \E defect : Begin(d, defect)
           Moved == \E z \in Agents : \E m : Attached(z, m)
           Same == UNCHANGED <<depth, recorded>> /\ writtenOff \subseteq writtenOff'
<1>1. Same => depth' \in [Agents -> Nat] /\ recorded' \in [DOMAIN s.calls -> [Agents -> Nat]] /\ writtenOff \subseteq writtenOff'
  OBVIOUS
<1>2. CASE Begun
  <2>1. PICK d \in DOMAIN s.calls : \E defect : Begin(d, defect)
    BY <1>2
  <2>2. UNCHANGED <<depth, writtenOff>> /\ (recorded' = recorded \/ recorded' = [recorded EXCEPT ![d] = depth])
    BY <2>1 DEF Begin
  <2>3. QED
    BY <2>2
<1>3. CASE Moved
  <2>1. PICK z \in Agents : \E m : Attached(z, m)
    BY <1>3
  <2>2. PICK m : Attached(z, m)
    BY <2>1
  <2>3. /\ writtenOff' = writtenOff /\ recorded' = recorded
        /\ \/ depth' = depth
           \/ OriginAllows(z, m.parent) /\ depth' = [depth EXCEPT ![m.agent] = depth[m.parent] + 1]
    BY <2>2 DEF Attached, topology
  <2>4. OriginAllows(z, m.parent) => m.parent \in Agents
    BY DEF OriginAllows, Subtree
  <2>5. QED
    BY <2>3, <2>4
<1>4. CASE UNCHANGED vars
  BY <1>1, <1>4 DEF vars, serverVars, topology
<1>5. ASSUME NEW d \in DOMAIN s.calls,
             \/ Handles(d) \/ Answers(d) \/ Send(d) \/ Timeout(d) \/ HandleExecMulti(d) \/ HandleBroadcastDeploy(d)
             \/ DispatchExecWave(d) \/ DispatchDeployWave(d) \/ WaveDone(d) \/ WaveTimeout(d)
      PROVE  Begun \/ Same
  <2>1. CASE Handles(d) \/ Answers(d)
    BY <2>1 DEF Handles, HandleExecCommand, HandlePutFile, HandleFetchFile, Answers, AnswerExecCommand, AnswerPutFile,
                AnswerFetchFile, Answer, topology
  <2>2. CASE Send(d) \/ Timeout(d) \/ WaveDone(d) \/ WaveTimeout(d)
    BY <2>2 DEF Send, Timeout, WaveDone, WaveTimeout, topology
  <2>3. CASE HandleExecMulti(d) \/ HandleBroadcastDeploy(d)
    BY <2>3 DEF HandleExecMulti, HandleBroadcastDeploy
  <2>4. CASE DispatchExecWave(d) \/ DispatchDeployWave(d)
    BY <2>4 DEF DispatchExecWave, DispatchDeployWave, DispatchWave, topology
  <2>5. QED
    BY <1>5, <2>1, <2>2, <2>3, <2>4
<1>6. ASSUME NEW as, NotifyGone(as) PROVE writtenOff \subseteq writtenOff'
  BY <1>6 DEF NotifyGone
<1>7. ASSUME NEW a \in Agents, Receive(a) PROVE Moved \/ Same
  <2> DEFINE m == Head(wire[a])
  <2>1. Attached(a, m) \/ Lost(a, m) \/ ExecBroadcastResponse(a, m) \/ DeployResponse(a, m)
        \/ ExecResponse(a, m) \/ FileChunk(a, m) \/ FetchResponse(a, m)
    BY <1>7 DEF Receive
  <2> HIDE DEF m
  <2>2. CASE Lost(a, m)
    BY <1>6, <2>2 DEF Lost, topology
  <2>3. CASE ExecBroadcastResponse(a, m) \/ DeployResponse(a, m) \/ ExecResponse(a, m) \/ FileChunk(a, m) \/ FetchResponse(a, m)
    BY <2>3 DEF ExecBroadcastResponse, DeployResponse, ExecResponse, FileChunk, FetchResponse, topology
  <2>4. QED
    BY <2>1, <2>2, <2>3
<1>8. ASSUME NEW a \in Agents, NEW p \in Agents \cup {Server},
             HandleServerMessage(a) \/ Cut(a) \/ ServerNotices(a) \/ Attach(a, p) \/ (p \in Agents /\ RelayNotices(p, a))
      PROVE  Same
  <2>1. CASE ServerNotices(a)
    BY <1>6, <2>1 DEF ServerNotices, topology
  <2>2. CASE HandleServerMessage(a) \/ Cut(a) \/ Attach(a, p) \/ RelayNotices(p, a)
    <3>1. UNCHANGED serverVars
      BY <2>2 DEF HandleServerMessage, Cut, Attach, RelayNotices
    <3>2. QED
      BY <3>1 DEF serverVars, topology
  <2>3. QED
    BY <1>8, <2>1, <2>2
<1>9. ASSUME NEW o \in ops, AtIt(o) \/ Respond(o) PROVE Same
  BY <1>9, OpTypes, RespondTypes DEF serverVars, topology
<1>10. ASSUME NEW u \in updates, UpdateExecLog(u) PROVE Same
  BY <1>10 DEF UpdateExecLog, topology
<1>11. CASE Next
  <2>1. \/ \E d \in DOMAIN s.calls :
             \/ Handles(d) \/ Answers(d) \/ Send(d) \/ Timeout(d) \/ HandleExecMulti(d) \/ HandleBroadcastDeploy(d)
             \/ DispatchExecWave(d) \/ DispatchDeployWave(d) \/ WaveDone(d) \/ WaveTimeout(d)
        \/ \E a \in Agents, p \in Agents \cup {Server} :
             HandleServerMessage(a) \/ Cut(a) \/ ServerNotices(a) \/ Attach(a, p) \/ (p \in Agents /\ RelayNotices(p, a))
        \/ \E a \in Agents : Receive(a)
        \/ \E o \in ops : AtIt(o) \/ Respond(o)
        \/ \E u \in updates : UpdateExecLog(u)
    BY <1>11 DEF Next, Handles, Answers, AtIt
  <2> HIDE DEF Begun, Moved, Same
  <2>2. Begun \/ Moved \/ Same
    BY <1>5, <1>7, <1>8, <1>9, <1>10, <2>1
  <2>3. QED
    BY <1>1, <1>2, <1>3, <2>2
<1>12. QED
  BY <1>4, <1>11

LEMMA InitWaves ==
  ASSUME Init
  PROVE  WaveInv
<1>1. /\ s \in Scenarios /\ depth = s.depth /\ recorded = [c \in DOMAIN s.calls |-> s.depth] /\ ops = {}
      /\ \A a \in Agents : inbox[a] = <<>> /\ wire[a] = <<>> /\ \A c \in DOMAIN s.calls : runs[a][c] = 0
      /\ \A c \in DOMAIN s.calls : call[c].phase = "new" /\ call[c].reply.status = "none"
  BY DEF Init, NoReply
<1>2. depth \in [Agents -> Nat] /\ recorded \in [DOMAIN s.calls -> [Agents -> Nat]]
  BY <1>1, ScenariosAssumption
<1>3. ASSUME NEW a \in Agents, NEW c \in DOMAIN s.calls PROVE OneOp(a, c)
  <2>1. ~Working(a, c) /\ ~Replied(a, c)
    BY <1>1, ShortSeqs DEF Working, Replied
  <2>2. QED
    BY <1>1, <2>1 DEF OneOp
<1>4. ASSUME NEW c \in DOMAIN s.calls PROVE WavesOK(call[c], Plan(c), c, inbox, ops, ToldOf(c))
  <2> DEFINE x == call[c]
             plan == Plan(c)
             told == ToldOf(c)
  <2>1. x.reply.status = "none" /\ ~Underway(x) /\ ops = {}
    BY <1>1 DEF Underway
  <2>2. ASSUME NEW a \in Agents PROVE MailOut(x, plan, c, inbox[a])
    <3>1. inbox[a] = <<>>
      BY <1>1
    <3> HIDE DEF x, plan
    <3>2. QED
      BY <3>1 DEF MailOut
  <2> HIDE DEF x, plan, told
  <2>3. Rest(x, plan) /\ Settled(x, plan, told)
    BY <2>1 DEF Rest, Settled, IsOut
  <2>4. OpsOut(x, plan, c, ops)
    BY <2>1 DEF OpsOut
  <2>5. WavesOK(x, plan, c, inbox, ops, told)
    BY <2>1, <2>2, <2>3, <2>4 DEF WavesOK
  <2>6. QED
    BY <2>5 DEF x, plan, told
<1>5. QED
  BY <1>2, <1>3, <1>4 DEF WaveInv

LEMMA WaveStep ==
  ASSUME TypeOK, TypeOK', ToldInv, WaveInv, [Next]_vars
  PROVE  WaveInv'
<1>1. s' = s
  BY OpsOfStep
<1>2. depth' \in [Agents -> Nat] /\ recorded' \in [DOMAIN s.calls -> [Agents -> Nat]] /\ writtenOff \subseteq writtenOff'
  BY <1>1, DepthStep DEF WaveInv
<1>3. \A a \in Agents : \A c \in DOMAIN s.calls : OneOp(a, c) /\ OneOp(a, c)' /\ (Told(a, c) => Told(a, c)')
  BY <1>2, OneOpStep DEF WaveInv
<1>4. ASSUME NEW c \in DOMAIN s.calls, BottomUp(c)
      PROVE  WavesOK(call'[c], Plan(c)', c, inbox', ops', ToldOf(c)')
  <2>1. ToldOf(c) \subseteq ToldOf(c)'
    BY <1>3 DEF ToldOf
  <2>2. WavesOK(call[c], Plan(c), c, inbox, ops, ToldOf(c)) /\ recorded \in [DOMAIN s.calls -> [Agents -> Nat]]
    BY <1>4 DEF WaveInv
  <2>3. CASE Dispatches(c)
    BY <1>1, <1>4, <2>1, <2>2, <2>3, WavesDispatch
  <2>4. CASE OldMail(c) /\ Begins(c)
    BY <1>1, <1>4, <2>2, <2>4, WavesBegin
  <2>5. CASE /\ OldMail(c)
             /\ AtRest(c) \/ WaveDone(c) \/ WaveTimeout(c) \/ (\E a : Claimed(a, c)) \/ (\E as : GivenUp(as))
    BY <1>1, <1>3, <1>4, <2>1, <2>2, <2>5, WavesOther
  <2>6. DOMAIN recorded = DOMAIN s.calls
    BY <2>2
  <2>7. QED
    BY <1>4, <2>3, <2>4, <2>5, <2>6, RunOfStep
<1>5. \A c : BottomUp(c)' <=> BottomUp(c)
  BY <1>1 DEF BottomUp, Single, Request
<1>6. QED
  BY <1>1, <1>2, <1>3, <1>4, <1>5 DEF WaveInv

\* Of two of the run's agents the one on record as deeper is in an earlier wave.
LEMMA DeeperGoFirst ==
  ASSUME TypeOK, NEW c \in DOMAIN s.calls, recorded[c] \in [Agents -> Nat],
         NEW v \in 1..Len(Plan(c)), NEW w \in 1..Len(Plan(c)), NEW a \in Numbered(Plan(c), v), NEW b \in Numbered(Plan(c), w),
         recorded[c][b] > recorded[c][a]
  PROVE  w > v
<1> DEFINE as == Request(c).targets
           at == recorded[c]
           depths == {at[x] : x \in as}
           deeper(x) == {d \in depths : d > at[x]}
           n == Cardinality(depths)
<1>1. as \subseteq Agents /\ IsFiniteSet(as)
  <2>1. as \subseteq Agents
    BY ScenariosAssumption DEF TypeOK, ServerTypes, Request, Requests
  <2>2. QED
    BY <2>1, NodesAssumption, FS_Subset
<1>2. IsFiniteSet(depths)
  <2> DEFINE f == [x \in as |-> at[x]]
  <2>1. f \in Surjection(as, depths)
    BY DEF Surjection
  <2> HIDE DEF f, depths, as
  <2>2. QED
    BY <1>1, <2>1, FS_Surjection
<1>3. n \in Nat
  BY <1>2, FS_CardinalityType
<1>4. Plan(c) = [i \in 1..n |-> {x \in as : Cardinality(deeper(x)) = i - 1}] /\ Len(Plan(c)) = n
  <2>1. Plan(c) = [i \in 1..n |-> {x \in as : Cardinality(deeper(x)) = i - 1}]
    BY DEF Plan, TargetIDWavesByDepthDesc
  <2> HIDE DEF n
  <2>2. QED
    BY <1>3, <2>1
<1>5. ASSUME NEW u \in 1..Len(Plan(c)), NEW x \in Numbered(Plan(c), u) PROVE x \in as /\ Cardinality(deeper(x)) = n - u
  <2>1. n - u + 1 \in 1..n
    BY <1>3, <1>4
  <2>2. Numbered(Plan(c), u) = {z \in as : Cardinality(deeper(z)) = (n - u + 1) - 1}
    <3> DEFINE W(i) == {z \in as : Cardinality(deeper(z)) = i - 1}
    <3>1. Plan(c) = [i \in 1..n |-> W(i)]
      BY <1>4
    <3> HIDE DEF W, n
    <3>2. Plan(c)[n - u + 1] = W(n - u + 1)
      BY <2>1, <3>1
    <3>3. QED
      BY <1>4, <3>2 DEF Numbered, W
  <2>3. (n - u + 1) - 1 = n - u
    BY <1>3, <1>4
  <2> HIDE DEF n, deeper
  <2>4. QED
    BY <2>2, <2>3
<1>6. a \in as /\ Cardinality(deeper(a)) = n - v /\ b \in as /\ Cardinality(deeper(b)) = n - w
  BY <1>5
<1>7. at[a] \in Nat /\ at[b] \in Nat /\ depths \subseteq Nat /\ at[b] > at[a] /\ at[b] \in depths
  BY <1>1, <1>6
<1>8. deeper(b) \subseteq deeper(a) /\ at[b] \in deeper(a) /\ at[b] \notin deeper(b)
  <2> DEFINE l == at[a]
             h == at[b]
  <2>1. l \in Nat /\ h \in Nat /\ depths \subseteq Nat /\ h > l /\ h \in depths
    BY <1>7
  <2> HIDE DEF l, h, depths, at
  <2>2. /\ {d \in depths : d > h} \subseteq {d \in depths : d > l}
        /\ h \in {d \in depths : d > l} /\ h \notin {d \in depths : d > h}
    <3>1. \A d \in depths : d > h => d > l
      BY <2>1
    <3>2. ~(h > h)
      BY <2>1
    <3>3. QED
      BY <2>1, <3>1, <3>2
  <2>3. QED
    BY <2>2 DEF l, h
<1>9. Cardinality(deeper(b)) < Cardinality(deeper(a))
  <2> DEFINE A == deeper(a)
             B == deeper(b)
  <2>1. A \in SUBSET depths /\ B \in SUBSET A /\ A # B
    BY <1>8
  <2> HIDE DEF A, B, depths
  <2>2. IsFiniteSet(A) /\ IsFiniteSet(B) /\ Cardinality(B) <= Cardinality(A) /\ Cardinality(A) # Cardinality(B)
    BY <1>2, <2>1, FS_Subset
  <2>3. Cardinality(A) \in Nat /\ Cardinality(B) \in Nat
    BY <2>2, FS_CardinalityType
  <2>4. Cardinality(B) < Cardinality(A)
    BY <2>2, <2>3
  <2>5. QED
    BY <2>4 DEF A, B
<1>10. v \in Int /\ w \in Int
  OBVIOUS
<1> HIDE DEF n, deeper
<1>11. QED
  BY <1>3, <1>6, <1>9, <1>10

\* What the waves of bottom-up runs rest on is never broken.
THEOREM WavesHold == Spec => [](ExecInv /\ WaveInv)
<1>1. Init => WaveInv
  BY InitWaves
<1>2. ExecInv /\ ExecInv' /\ WaveInv /\ [Next]_vars => WaveInv'
  BY WaveStep DEF ExecInv
<1>3. QED
  BY <1>1, <1>2, ExecInvHolds, PTL DEF Spec

\* While an agent is at work on a wave of a bottom-up run, every agent of the run that
\* was deeper on record when the waves were made has done what it was asked, whatever
\* breaks and whoever moves; those given up are excepted, and those given it twice.
THEOREM DeeperAgentsGoFirst == Spec => []RelaysWaitForTheirChildren
<1>1. ExecInv /\ WaveInv => RelaysWaitForTheirChildren
  <2>1. SUFFICES ASSUME ExecInv, WaveInv, NEW o \in ops, NEW x \in ops, o.call = x.call, ~Single(o.call),
                        Request(o.call).bottomUp = "yes", recorded[o.call][x.agent] > recorded[o.call][o.agent]
                 PROVE  <<x.call, x.agent>> \in writtenOff \/ runs[x.agent][x.call] > 1
    BY DEF RelaysWaitForTheirChildren
  <2> DEFINE c == o.call
             plan == Plan(c)
             told == ToldOf(c)
             r == call[c]
  <2>2. TypeOK /\ c \in DOMAIN s.calls /\ x.agent \in Agents /\ BottomUp(c) /\ recorded[c] \in [Agents -> Nat]
    BY <2>1, OpFacts DEF ExecInv, WaveInv, BottomUp
  <2>3. WavesOK(r, plan, c, inbox, ops, told) /\ r \in Call
    BY <2>1, <2>2 DEF WaveInv, TypeOK, ServerTypes
  <2>4. Len(plan) \in Nat /\ Len(r.waves) \in Nat
    BY <2>2, <2>3, PlanType DEF Call
  <2>5. /\ IsOut(r, plan, o.wave) /\ o.agent \in Numbered(plan, o.wave)
        /\ IsOut(r, plan, x.wave) /\ x.agent \in Numbered(plan, x.wave)
    BY <2>1, <2>3 DEF WavesOK, OpsOut
  <2>6. o.wave \in (Len(r.waves) + 1)..Len(plan) /\ x.wave \in (Len(r.waves) + 1)..Len(plan)
    BY <2>5 DEF IsOut
  <2>7. o.wave \in 1..Len(plan) /\ x.wave \in 1..Len(plan)
    BY <2>4, <2>6
  <2>8. x.wave > o.wave
    BY <2>1, <2>2, <2>5, <2>7, DeeperGoFirst
  <2>9. x.wave # Len(r.waves) + 1
    BY <2>4, <2>6, <2>8
  <2>10. x.agent \in told
    BY <2>3, <2>5, <2>7, <2>9 DEF WavesOK, Settled
  <2>11. Working(x.agent, c)
    BY <2>1 DEF Working
  <2>12. QED
    BY <2>1, <2>10, <2>11 DEF ToldOf, Told
<1>2. QED
  BY <1>1, WavesHold, PTL

-----------------------------------------------------------------------------
(***************************************************************************)
(* Paths up a map of parents.                                              *)
(***************************************************************************)
Parents == [Agents -> Agents \cup {Server, None}]
Ended(q) == Last(q) \in {Server, None}
HasEnd(x, of) == Ended(Above(x, of))
\* From everywhere the path comes to an end.
Grounded(of) == of \in Parents /\ \A x \in Agents : HasEnd(x, of)

Less == {p \in Nat \X Nat : p[1] < p[2]}
LEMMA LeastNumber == ASSUME NEW T \in SUBSET Nat, T # {} PROVE \E x \in T : \A y \in T : x <= y
<1>1. IsWellFoundedOn(Less, Nat)
  BY NatLessThanWellFounded DEF OpToRel, Less
<1>2. PICK x \in T : \A y \in T : <<y, x>> \notin Less
  BY <1>1, WFMin
<1>3. \A y \in T : ~(y < x)
  BY <1>2 DEF Less
<1> QED  BY <1>3

LEMMA NoAgents == Server \notin Agents /\ None \notin Agents /\ Server # None
  BY NodesAssumption

\* The first steps of a path.
IsWalk(x, of, n, w) == w = [k \in 0..n |-> IF k = 0 THEN <<x>> ELSE Longer(w[k - 1], of)]
LEMMA WalkExists ==
  ASSUME NEW x, NEW of, NEW n \in Nat
  PROVE  \E w : IsWalk(x, of, n, w)
<1> DEFINE Bad == {m \in Nat : ~\E w : IsWalk(x, of, m, w)}
           L(q) == Longer(q, of)
<1>1. ASSUME NEW m \in Nat, m # 0, NEW f, IsWalk(x, of, m - 1, f) PROVE \E w : IsWalk(x, of, m, w)
  <2> DEFINE h == [k \in 0..m |-> IF k = 0 THEN <<x>> ELSE L(f[k - 1])]
  <2>1. f = [k \in 0..(m - 1) |-> IF k = 0 THEN <<x>> ELSE L(f[k - 1])]
    BY <1>1 DEF IsWalk
  <2> HIDE DEF L
  <2>2. \A k \in 0..(m - 1) : h[k] = f[k]
    BY <1>1, <2>1
  <2>3. \A k \in 0..m : k # 0 => k - 1 \in 0..(m - 1)
    BY <1>1
  <2>4. h = [k \in 0..m |-> IF k = 0 THEN <<x>> ELSE L(h[k - 1])]
    BY <2>2, <2>3
  <2>5. IsWalk(x, of, m, h)
    BY <2>4 DEF IsWalk, L
  <2> QED  BY <2>5
<1>2. 0 \notin Bad
  <2> DEFINE h == [k \in 0..0 |-> <<x>>]
  <2>1. h = [k \in 0..0 |-> IF k = 0 THEN <<x>> ELSE L(h[k - 1])]
    OBVIOUS
  <2>2. IsWalk(x, of, 0, h)
    BY <2>1 DEF IsWalk
  <2> QED  BY <2>2
<1>3. ASSUME Bad # {} PROVE FALSE
  <2>1. PICK m \in Bad : \A k \in Bad : m <= k
    BY <1>3, LeastNumber
  <2>2. m \in Nat /\ m # 0 /\ m - 1 \in Nat /\ m - 1 \notin Bad
    BY <1>2, <2>1
  <2>3. PICK f : IsWalk(x, of, m - 1, f)
    BY <2>2
  <2> QED  BY <1>1, <2>1, <2>2, <2>3
<1> QED  BY <1>3

\* Above is the last step of such a walk.
N == Cardinality(Agents) + 1
WalkOf(x, of) == CHOOSE w : IsWalk(x, of, N, w)
LEMMA AboveWalks ==
  ASSUME NEW x, NEW of
  PROVE  /\ N \in Nat \ {0}
         /\ IsWalk(x, of, N, WalkOf(x, of))
         /\ Above(x, of) = WalkOf(x, of)[N]
         /\ WalkOf(x, of)[0] = <<x>>
         /\ \A k \in 1..N : k - 1 \in 0..N /\ WalkOf(x, of)[k] = Longer(WalkOf(x, of)[k - 1], of)
<1>1. N \in Nat \ {0}
  BY NodesAssumption, FS_CardinalityType DEF N
<1>2. IsWalk(x, of, N, WalkOf(x, of))
  <2>1. \E w : IsWalk(x, of, N, w)
    BY <1>1, WalkExists
  <2> QED  BY <2>1 DEF WalkOf
<1>3. Above(x, of) = WalkOf(x, of)[N]
  BY DEF Above, WalkOf, IsWalk, N
<1>4. \A k \in 0..N : WalkOf(x, of)[k] = IF k = 0 THEN <<x>> ELSE Longer(WalkOf(x, of)[k - 1], of)
  BY <1>2 DEF IsWalk
<1> QED  BY <1>1, <1>2, <1>3, <1>4

Nodes == Agents \cup {Server, None}
WalkOK(x, of, q) ==
  /\ q \in Seq(Nodes) /\ q # <<>> /\ q[1] = x
  /\ \A i \in 1..(Len(q) - 1) : q[i] \in Agents /\ q[i + 1] = of[q[i]]

LEMMA LongerWalk ==
  ASSUME NEW x, NEW of \in Parents, NEW q, WalkOK(x, of, q)
  PROVE  /\ WalkOK(x, of, Longer(q, of))
         /\ Ended(q) => Longer(q, of) = q
         /\ ~Ended(q) => Len(Longer(q, of)) = Len(q) + 1
<1>1. Len(q) \in Nat \ {0} /\ Last(q) \in Nodes /\ Len(q) \in 1..Len(q)
  BY DEF WalkOK, Last
<1>2. CASE Ended(q)
  BY <1>2 DEF Ended, Longer
<1>3. CASE ~Ended(q)
  <2> DEFINE y == Last(q)
             r == Append(q, of[y])
  <2>1. y \in Agents /\ of[y] \in Nodes
    BY <1>1, <1>3 DEF Ended, Nodes, Parents
  <2>2. Longer(q, of) = r
    BY <1>3 DEF Ended, Longer
  <2>3. r \in Seq(Nodes) /\ Len(r) = Len(q) + 1 /\ r[Len(q) + 1] = of[y] /\ \A i \in 1..Len(q) : r[i] = q[i]
    BY <2>1 DEF WalkOK
  <2>4. y = q[Len(q)]
    BY DEF Last
  <2>5. ASSUME NEW i \in 1..(Len(r) - 1) PROVE r[i] \in Agents /\ r[i + 1] = of[r[i]]
    <3>1. CASE i = Len(q)
      BY <1>1, <2>1, <2>3, <2>4, <3>1
    <3>2. CASE i # Len(q)
      <4>1. i \in 1..(Len(q) - 1) /\ i \in 1..Len(q) /\ i + 1 \in 1..Len(q)
        BY <1>1, <2>3, <3>2
      <4> QED  BY <2>3, <4>1 DEF WalkOK
    <3> QED  BY <3>1, <3>2
  <2>6. r # <<>> /\ r[1] = x
    BY <1>1, <2>3 DEF WalkOK
  <2> QED  BY <1>3, <2>2, <2>3, <2>5, <2>6 DEF WalkOK
<1> QED  BY <1>2, <1>3

\* A path has the links of the map, and is as long as it can be before it ends.
LEMMA PathWalk ==
  ASSUME NEW x \in Nodes, NEW of \in Parents
  PROVE  /\ WalkOK(x, of, Above(x, of))
         /\ ~HasEnd(x, of) => Len(Above(x, of)) = N + 1
<1> DEFINE w == WalkOf(x, of)
           Good(k) == WalkOK(x, of, w[k]) /\ (~Ended(w[k]) => Len(w[k]) = k + 1)
           Bad == {k \in 0..N : ~Good(k)}
<1>1. N \in Nat \ {0} /\ w[0] = <<x>> /\ Above(x, of) = w[N]
  BY AboveWalks
<1>2. \A k \in 1..N : k - 1 \in 0..N /\ w[k] = Longer(w[k - 1], of)
  BY AboveWalks
<1> HIDE DEF w
<1>3. Good(0)
  <2>1. <<x>> \in Seq(Nodes) /\ Len(<<x>>) = 1 /\ <<x>>[1] = x /\ <<x>> # <<>>
    OBVIOUS
  <2> QED  BY <1>1, <2>1 DEF WalkOK
<1>4. ASSUME Bad # {} PROVE FALSE
  <2>1. PICK k \in Bad : \A i \in Bad : k <= i
    <3>1. Bad \in SUBSET Nat
      BY <1>1
    <3> HIDE DEF Bad
    <3> QED  BY <1>4, <3>1, LeastNumber
  <2>2. k \in 1..N /\ k - 1 \in 0..N /\ Good(k - 1)
    <3> HIDE DEF Good
    <3>1. k \in 0..N /\ k # 0
      BY <1>3, <2>1
    <3>2. k - 1 \in 0..N /\ ~(k <= k - 1)
      BY <1>1, <3>1
    <3> QED  BY <1>1, <2>1, <3>1, <3>2
  <2>3. Good(k - 1) /\ w[k] = Longer(w[k - 1], of)
    BY <1>2, <2>2
  <2>4. WalkOK(x, of, w[k]) /\ (Ended(w[k - 1]) => w[k] = w[k - 1]) /\ (~Ended(w[k - 1]) => Len(w[k]) = Len(w[k - 1]) + 1)
    BY <2>3, LongerWalk
  <2>5. ~Ended(w[k]) => Len(w[k]) = k + 1
    BY <2>2, <2>3, <2>4
  <2> QED  BY <2>1, <2>4, <2>5
<1>5. N \in 0..N
  BY <1>1
<1> QED  BY <1>1, <1>4, <1>5 DEF HasEnd

\* There is one way to the end.
LEMMA OneWay ==
  ASSUME NEW x, NEW of \in Parents, NEW p, NEW q, WalkOK(x, of, p), WalkOK(x, of, q), Ended(p), Ended(q)
  PROVE  p = q
<1>1. p \in Seq(Nodes) /\ q \in Seq(Nodes) /\ Len(p) \in Nat \ {0} /\ Len(q) \in Nat \ {0}
  BY DEF WalkOK
<1> DEFINE Bad == {i \in Nat : i \in 1..Len(p) /\ i \in 1..Len(q) /\ p[i] # q[i]}
<1>2. ASSUME Bad # {} PROVE FALSE
  <2>1. PICK i \in Bad : \A j \in Bad : i <= j
    BY <1>2, LeastNumber
  <2>2. i # 1
    BY <2>1 DEF WalkOK
  <2>3. i - 1 \in Nat /\ i - 1 \in 1..(Len(p) - 1) /\ i - 1 \in 1..(Len(q) - 1) /\ i - 1 \notin Bad
    BY <1>1, <2>1, <2>2
  <2>4. p[i - 1] = q[i - 1]
    BY <1>1, <2>3
  <2>5. p[(i - 1) + 1] = of[p[i - 1]] /\ q[(i - 1) + 1] = of[q[i - 1]] /\ (i - 1) + 1 = i
    BY <2>1, <2>3 DEF WalkOK
  <2> QED  BY <2>1, <2>4, <2>5
<1>3. p[Len(p)] \notin Agents /\ q[Len(q)] \notin Agents
  BY NoAgents DEF Ended, Last
<1>4. Len(p) = Len(q)
  <2>1. ASSUME Len(p) < Len(q) PROVE FALSE
    <3>1. Len(p) \in 1..(Len(q) - 1) /\ Len(p) \in 1..Len(p) /\ Len(p) \in 1..Len(q)
      BY <1>1, <2>1
    <3>2. q[Len(p)] \in Agents /\ p[Len(p)] = q[Len(p)]
      BY <1>2, <3>1 DEF WalkOK
    <3> QED  BY <1>3, <3>2
  <2>2. ASSUME Len(q) < Len(p) PROVE FALSE
    <3>1. Len(q) \in 1..(Len(p) - 1) /\ Len(q) \in 1..Len(p) /\ Len(q) \in 1..Len(q)
      BY <1>1, <2>2
    <3>2. p[Len(q)] \in Agents /\ p[Len(q)] = q[Len(q)]
      BY <1>2, <3>1 DEF WalkOK
    <3> QED  BY <1>3, <3>2
  <2> QED  BY <1>1, <2>1, <2>2
<1>5. \A i \in 1..Len(p) : p[i] = q[i]
  BY <1>1, <1>2, <1>4
<1> QED  BY <1>1, <1>4, <1>5

\* How a path goes on from its first step.
LEMMA AboveUnfolds ==
  ASSUME NEW of, Grounded(of), NEW x \in Agents
  PROVE  /\ of[x] \in Nodes
         /\ of[x] \in Agents => Above(x, of) = <<x>> \o Above(of[x], of)
         /\ of[x] \notin Agents => Above(x, of) = <<x, of[x]>>
         /\ Above(x, of) \in Seq(Nodes) /\ Len(Above(x, of)) \in Nat \ {0, 1} /\ Above(x, of)[1] = x
<1>1. of \in Parents /\ of[x] \in Nodes /\ x \in Nodes /\ HasEnd(x, of)
  BY DEF Grounded, Parents, Nodes
<1>2. WalkOK(x, of, Above(x, of)) /\ Ended(Above(x, of))
  BY <1>1, PathWalk DEF HasEnd
<1>3. ASSUME of[x] \in Agents PROVE Above(x, of) = <<x>> \o Above(of[x], of)
  <2> DEFINE q == Above(of[x], of)
             r == <<x>> \o q
  <2>1. WalkOK(of[x], of, q) /\ Ended(q)
    BY <1>1, <1>3, PathWalk DEF Grounded, HasEnd
  <2> HIDE DEF q
  <2>2. q \in Seq(Nodes) /\ Len(q) \in Nat \ {0} /\ <<x>> \in Seq(Nodes) /\ Len(<<x>>) = 1 /\ <<x>>[1] = x /\ q[1] = of[x]
    BY <1>1, <2>1 DEF WalkOK
  <2>3. r \in Seq(Nodes) /\ Len(r) = Len(q) + 1 /\ r[1] = x /\ \A i \in 1..Len(q) : r[i + 1] = q[i]
    BY <2>2
  <2>4. ASSUME NEW i \in 1..(Len(r) - 1) PROVE r[i] \in Agents /\ r[i + 1] = of[r[i]]
    <3>1. CASE i = 1
      BY <2>2, <2>3, <3>1
    <3>2. CASE i # 1
      <4>1. i - 1 \in 1..(Len(q) - 1) /\ i - 1 \in 1..Len(q) /\ i \in 1..Len(q) /\ (i - 1) + 1 = i
        BY <2>2, <2>3, <3>2
      <4>2. q[i - 1] \in Agents /\ q[(i - 1) + 1] = of[q[i - 1]]
        BY <2>1, <4>1 DEF WalkOK
      <4>3. r[(i - 1) + 1] = q[i - 1] /\ r[i + 1] = q[i]
        BY <2>3, <4>1
      <4> QED  BY <4>1, <4>2, <4>3
    <3> QED  BY <3>1, <3>2
  <2>5. WalkOK(x, of, r)
    <3>1. r # <<>>
      BY <2>2, <2>3
    <3> QED  BY <2>3, <2>4, <3>1 DEF WalkOK
  <2>6. Ended(r)
    <3>1. r[Len(r)] = q[Len(q)]
      BY <2>2, <2>3
    <3> QED  BY <2>1, <3>1 DEF Ended, Last
  <2> QED  BY <1>1, <1>2, <2>5, <2>6, OneWay DEF q
<1>4. ASSUME of[x] \notin Agents PROVE Above(x, of) = <<x, of[x]>>
  <2> DEFINE r == <<x, of[x]>>
  <2>1. r \in Seq(Nodes) /\ Len(r) = 2 /\ r[1] = x /\ r[2] = of[x] /\ r # <<>>
    BY <1>1
  <2> HIDE DEF r
  <2>2. \A i \in 1..(Len(r) - 1) : i = 1
    BY <2>1
  <2>3. WalkOK(x, of, r)
    BY <2>1, <2>2 DEF WalkOK
  <2>4. Ended(r)
    BY <1>1, <1>4, <2>1 DEF Ended, Last, Nodes
  <2> QED  BY <1>1, <1>2, <2>3, <2>4, OneWay DEF r
<1>5. Above(x, of) \in Seq(Nodes) /\ Len(Above(x, of)) \in Nat \ {0, 1} /\ Above(x, of)[1] = x
  <2> DEFINE q == Above(x, of)
  <2>1. q \in Seq(Nodes) /\ Len(q) \in Nat /\ q # <<>> /\ q[1] = x /\ q[Len(q)] \notin Agents
    BY <1>2, NoAgents DEF WalkOK, Ended, Last
  <2> HIDE DEF q
  <2>2. Len(q) # 0 /\ Len(q) # 1
    BY <2>1
  <2> QED  BY <2>1, <2>2 DEF q
<1> QED  BY <1>1, <1>3, <1>4, <1>5

\* What holds of an agent whenever it holds of the one above it holds of all.
LEMMA Climb ==
  ASSUME NEW of, Grounded(of), NEW S,
         \A x \in Agents : (of[x] \in Agents => of[x] \in S) => x \in S
  PROVE  Agents \subseteq S
<1> DEFINE Long == {n \in Nat : \E x \in Agents : x \notin S /\ n = Len(Above(x, of))}
<1>1. ASSUME Long # {} PROVE FALSE
  <2>1. PICK n \in Long : \A k \in Long : n <= k
    BY <1>1, LeastNumber
  <2>2. PICK x \in Agents : x \notin S /\ n = Len(Above(x, of))
    BY <2>1
  <2>3. of[x] \in Agents /\ of[x] \notin S
    BY <2>2
  <2> DEFINE y == of[x]
             q == Above(y, of)
  <2>4. q \in Seq(Nodes) /\ Len(q) \in Nat
    BY <2>3, AboveUnfolds
  <2>5. Above(x, of) = <<x>> \o q /\ x \in Nodes
    BY <2>3, AboveUnfolds DEF Nodes
  <2>6. Len(q) \in Long
    BY <2>3, <2>4
  <2> HIDE DEF q
  <2>7. Len(Above(x, of)) = Len(q) + 1
    BY <2>4, <2>5
  <2> QED  BY <2>1, <2>2, <2>4, <2>6, <2>7
<1>2. ASSUME NEW x \in Agents PROVE x \in S
  <2>1. Len(Above(x, of)) \in Nat
    BY AboveUnfolds
  <2> QED  BY <1>1, <2>1
<1> QED  BY <1>2

\* A map along which a number goes down has no cycle.
LEMMA RankedIsGrounded ==
  ASSUME NEW of \in Parents, NEW r, \A x \in Agents : r[x] \in Nat /\ (of[x] \in Agents => r[of[x]] < r[x])
  PROVE  Grounded(of)
<1>1. ASSUME NEW x \in Agents, ~HasEnd(x, of) PROVE FALSE
  <2> DEFINE q == Above(x, of)
             n == Len(q)
  <2>1. WalkOK(x, of, q) /\ n = N + 1 /\ N \in Nat \ {0} /\ ~Ended(q)
    BY <1>1, PathWalk, AboveWalks DEF Nodes, HasEnd
  <2> HIDE DEF q
  <2>2. \A i \in 1..n : q[i] \in Agents
    <3>1. q[n] \in Agents
      BY <2>1 DEF WalkOK, Ended, Last, Nodes
    <3> QED  BY <2>1, <3>1 DEF WalkOK
  <2>3. ASSUME NEW i \in 1..n PROVE \A j \in 1..n : i < j => r[q[j]] < r[q[i]]
    <3> DEFINE Bad == {j \in Nat : j \in 1..n /\ i < j /\ ~(r[q[j]] < r[q[i]])}
    <3>1. ASSUME Bad # {} PROVE FALSE
      <4>1. PICK j \in Bad : \A k \in Bad : j <= k
        BY <3>1, LeastNumber
      <4>2. j - 1 \in Nat /\ j - 1 \in 1..(n - 1) /\ j - 1 \in 1..n /\ j - 1 \notin Bad /\ (j - 1) + 1 = j /\ j \in 1..n
        BY <2>1, <2>3, <4>1
      <4>3. q[j] = of[q[j - 1]] /\ q[j] \in Agents /\ q[j - 1] \in Agents /\ q[i] \in Agents
        BY <2>1, <2>2, <4>2 DEF WalkOK
      <4>4. r[q[j]] < r[q[j - 1]] /\ r[q[j]] \in Nat /\ r[q[j - 1]] \in Nat /\ r[q[i]] \in Nat
        BY <4>3
      <4>5. j - 1 = i \/ r[q[j - 1]] < r[q[i]]
        BY <2>3, <4>1, <4>2
      <4> QED  BY <4>1, <4>4, <4>5
    <3> QED  BY <2>1, <3>1
  <2> DEFINE f == [i \in 1..n |-> q[i]]
  <2>4. f \in Injection(1..n, Agents)
    <3>1. f \in [1..n -> Agents]
      BY <2>2
    <3>2. ASSUME NEW i \in 1..n, NEW j \in 1..n, f[i] = f[j] PROVE i = j
      <4>1. r[q[i]] \in Nat /\ q[i] = q[j]
        BY <2>2, <3>2
      <4>2. ~(i < j) /\ ~(j < i)
        BY <2>3, <4>1
      <4>3. i \in Nat /\ j \in Nat
        BY <2>1
      <4> QED  BY <4>2, <4>3
    <3> HIDE DEF f
    <3>3. IsInjective(f)
      BY <3>1, <3>2 DEF IsInjective
    <3> QED  BY <3>1, <3>3 DEF Injection
  <2> HIDE DEF f
  <2>5. Cardinality(1..n) <= Cardinality(Agents)
    BY <2>4, FS_Injection, NodesAssumption
  <2>6. Cardinality(1..n) = n
    <3>1. 1 \in Int /\ n \in Int /\ ~(1 > n)
      BY <2>1
    <3>2. Cardinality(1..n) = n - 1 + 1
      BY <3>1, FS_Interval
    <3> QED  BY <2>1, <3>2
  <2>7. Cardinality(Agents) \in Nat
    BY NodesAssumption, FS_CardinalityType
  <2> QED  BY <2>1, <2>5, <2>6, <2>7 DEF N
<1> QED  BY <1>1 DEF Grounded

-----------------------------------------------------------------------------
(***************************************************************************)
(* What is below an agent, and what is connected, one step at a time.      *)
(***************************************************************************)
ConnectedIn(x, of) == Last(Above(x, of)) = Server

LEMMA OneStepUp ==
  ASSUME NEW of, Grounded(of), NEW x \in Agents
  PROVE  /\ \A y \in Agents : x \in Subtree(y, of) <=> x = y \/ (of[x] \in Agents /\ of[x] \in Subtree(y, of))
         /\ ConnectedIn(x, of) <=> of[x] = Server \/ (of[x] \in Agents /\ ConnectedIn(of[x], of))
         /\ ZoneLeader(x, of) = IF of[x] \in Agents THEN ZoneLeader(of[x], of) ELSE x
         /\ of[x] \in Agents => Len(Above(x, of)) = Len(Above(of[x], of)) + 1
<1>1. of[x] \in Nodes
  BY AboveUnfolds
<1>2. CASE of[x] \in Agents
  <2> DEFINE y == of[x]
             q == Above(y, of)
             r == Above(x, of)
  <2>1. q \in Seq(Nodes) /\ Len(q) \in Nat \ {0, 1} /\ x \in Nodes /\ r = <<x>> \o q
    BY <1>2, AboveUnfolds DEF Nodes
  <2> HIDE DEF q, r
  <2>2. Len(r) = Len(q) + 1 /\ r[1] = x /\ \A i \in 1..Len(q) : r[i + 1] = q[i]
    BY <2>1
  <2>3. Last(r) = Last(q) /\ r[Len(r) - 1] = q[Len(q) - 1]
    <3>1. Len(q) \in 1..Len(q) /\ Len(q) - 1 \in 1..Len(q) /\ (Len(q) - 1) + 1 = Len(r) - 1
      BY <2>1, <2>2
    <3> QED  BY <2>2, <3>1 DEF Last
  <2>4. ASSUME NEW z \in Agents
        PROVE  (\E i \in 1..Len(r) : r[i] = z) <=> x = z \/ \E i \in 1..Len(q) : q[i] = z
    <3>1. ASSUME NEW i \in 1..Len(r), r[i] = z PROVE x = z \/ \E j \in 1..Len(q) : q[j] = z
      <4>1. CASE i = 1
        BY <2>2, <3>1, <4>1
      <4>2. CASE i # 1
        <5>1. i - 1 \in 1..Len(q) /\ (i - 1) + 1 = i
          BY <2>1, <2>2, <4>2
        <5> QED  BY <2>2, <3>1, <5>1
      <4> QED  BY <4>1, <4>2
    <3>2. ASSUME NEW i \in 1..Len(q), q[i] = z PROVE \E j \in 1..Len(r) : r[j] = z
      <4>1. i + 1 \in 1..Len(r)
        BY <2>1, <2>2
      <4> QED  BY <2>2, <3>2, <4>1
    <3>3. 1 \in 1..Len(r)
      BY <2>1, <2>2
    <3> QED  BY <2>2, <3>1, <3>2, <3>3
  <2> QED  BY <1>2, <2>1, <2>2, <2>3, <2>4, NoAgents DEF q, r, ConnectedIn, ZoneLeader, Subtree
<1>3. CASE of[x] \notin Agents
  <2> DEFINE r == <<x, of[x]>>
  <2>1. Above(x, of) = r
    BY <1>3, AboveUnfolds
  <2>2. Len(r) = 2 /\ r[1] = x /\ r[2] = of[x] /\ 1 \in 1..2 /\ 2 \in 1..2 /\ \A i \in 1..2 : i = 1 \/ i = 2
    OBVIOUS
  <2> HIDE DEF r
  <2>3. Last(r) = of[x] /\ r[Len(r) - 1] = x
    BY <2>2 DEF Last
  <2>4. \A y \in Agents : (\E i \in 1..Len(r) : r[i] = y) <=> x = y
    BY <1>3, <2>2
  <2> QED  BY <1>3, <2>1, <2>3, <2>4, NoAgents DEF ConnectedIn, ZoneLeader, Subtree
<1> QED  BY <1>2, <1>3

LEMMA BelowLonger ==
  ASSUME NEW of, Grounded(of), NEW y \in Agents
  PROVE  \A x \in Agents : x \in Subtree(y, of) => x = y \/ Len(Above(y, of)) < Len(Above(x, of))
<1> DEFINE S == {x \in Agents : x \in Subtree(y, of) => x = y \/ Len(Above(y, of)) < Len(Above(x, of))}
<1>1. ASSUME NEW x \in Agents, of[x] \in Agents => of[x] \in S PROVE x \in S
  <2>1. ASSUME x \in Subtree(y, of), x # y PROVE Len(Above(y, of)) < Len(Above(x, of))
    <3>1. of[x] \in Agents /\ of[x] \in Subtree(y, of) /\ Len(Above(x, of)) = Len(Above(of[x], of)) + 1
      BY <2>1, OneStepUp
    <3>2. of[x] = y \/ Len(Above(y, of)) < Len(Above(of[x], of))
      BY <1>1, <3>1
    <3>3. Len(Above(y, of)) \in Nat /\ Len(Above(of[x], of)) \in Nat
      BY <3>1, AboveUnfolds
    <3> QED  BY <3>1, <3>2, <3>3
  <2> QED  BY <2>1
<1>2. Agents \subseteq S
  <2> HIDE DEF S
  <2> QED  BY <1>1, Climb
<1> QED  BY <1>2

LEMMA BelowOrder ==
  ASSUME NEW of, Grounded(of)
  PROVE  /\ \A x \in Agents : x \in Subtree(x, of)
         /\ \A x, y \in Agents : x \in Subtree(y, of) /\ y \in Subtree(x, of) => x = y
         /\ \A x \in Agents : of[x] \in Agents => x \in Subtree(of[x], of) /\ of[x] \notin Subtree(x, of)
         /\ \A x, y, z \in Agents : x \in Subtree(y, of) /\ y \in Subtree(z, of) => x \in Subtree(z, of)
<1>1. \A x \in Agents : x \in Subtree(x, of)
  BY OneStepUp
<1>2. ASSUME NEW x \in Agents, NEW y \in Agents, x \in Subtree(y, of), y \in Subtree(x, of) PROVE x = y
  <2>1. x = y \/ (Len(Above(y, of)) < Len(Above(x, of)) /\ Len(Above(x, of)) < Len(Above(y, of)))
    BY <1>2, BelowLonger
  <2>2. Len(Above(y, of)) \in Nat /\ Len(Above(x, of)) \in Nat
    BY AboveUnfolds
  <2> QED  BY <2>1, <2>2
<1>3. ASSUME NEW x \in Agents, of[x] \in Agents PROVE x \in Subtree(of[x], of) /\ of[x] \notin Subtree(x, of)
  <2>1. x \in Subtree(of[x], of) /\ Len(Above(x, of)) = Len(Above(of[x], of)) + 1 /\ Len(Above(of[x], of)) \in Nat
    BY <1>1, <1>3, OneStepUp, AboveUnfolds
  <2>2. of[x] # x
    BY <2>1
  <2> QED  BY <1>2, <1>3, <2>1, <2>2
<1>4. ASSUME NEW y \in Agents, NEW z \in Agents, y \in Subtree(z, of) PROVE \A x \in Agents : x \in Subtree(y, of) => x \in Subtree(z, of)
  <2> DEFINE S == {x \in Agents : x \in Subtree(y, of) => x \in Subtree(z, of)}
  <2>1. ASSUME NEW x \in Agents, of[x] \in Agents => of[x] \in S PROVE x \in S
    BY <1>4, <2>1, OneStepUp
  <2>2. Agents \subseteq S
    <3> HIDE DEF S
    <3> QED  BY <2>1, Climb
  <2> QED  BY <2>2
<1> QED  BY <1>1, <1>2, <1>3, <1>4

\* All that is below an agent is connected as it is, and through the same zone leader.
LEMMA BelowConnected ==
  ASSUME NEW of, Grounded(of), NEW y \in Agents
  PROVE  \A x \in Agents : x \in Subtree(y, of) => (ConnectedIn(x, of) <=> ConnectedIn(y, of)) /\ ZoneLeader(x, of) = ZoneLeader(y, of)
<1> DEFINE S == {x \in Agents : x \in Subtree(y, of) =>
                   (ConnectedIn(x, of) <=> ConnectedIn(y, of)) /\ ZoneLeader(x, of) = ZoneLeader(y, of)}
<1>1. ASSUME NEW x \in Agents, of[x] \in Agents => of[x] \in S PROVE x \in S
  <2>1. CASE of[x] \in Agents
    <3>1. (ConnectedIn(x, of) <=> ConnectedIn(of[x], of)) /\ ZoneLeader(x, of) = ZoneLeader(of[x], of)
      BY <2>1, OneStepUp, NoAgents
    <3> QED  BY <1>1, <2>1, <3>1, OneStepUp
  <2>2. CASE of[x] \notin Agents
    BY <2>2, OneStepUp
  <2> QED  BY <2>1, <2>2
<1>2. Agents \subseteq S
  <2> HIDE DEF S
  <2> QED  BY <1>1, Climb
<1> QED  BY <1>2

LEMMA LeaderAbove ==
  ASSUME NEW of, Grounded(of)
  PROVE  \A x \in Agents : /\ ZoneLeader(x, of) \in Agents /\ x \in Subtree(ZoneLeader(x, of), of)
                           /\ ConnectedIn(x, of) => of[ZoneLeader(x, of)] = Server
<1> DEFINE S == {x \in Agents : /\ ZoneLeader(x, of) \in Agents /\ x \in Subtree(ZoneLeader(x, of), of)
                                /\ ConnectedIn(x, of) => of[ZoneLeader(x, of)] = Server}
<1>1. ASSUME NEW x \in Agents, of[x] \in Agents => of[x] \in S PROVE x \in S
  <2>1. CASE of[x] \in Agents
    <3>1. (ConnectedIn(x, of) <=> ConnectedIn(of[x], of)) /\ ZoneLeader(x, of) = ZoneLeader(of[x], of)
      BY <2>1, OneStepUp, NoAgents
    <3> QED  BY <1>1, <2>1, <3>1, OneStepUp
  <2>2. CASE of[x] \notin Agents
    BY <2>2, OneStepUp
  <2> QED  BY <2>1, <2>2
<1>2. Agents \subseteq S
  <2> HIDE DEF S
  <2> QED  BY <1>1, Climb
<1> QED  BY <1>2

-----------------------------------------------------------------------------
(***************************************************************************)
(* Two maps: the same path if they agree along it.                         *)
(***************************************************************************)
LEMMA SamePath ==
  ASSUME NEW f, Grounded(f), NEW g, Grounded(g)
  PROVE  \A x \in Agents : (\A y \in Agents : x \in Subtree(y, f) => g[y] = f[y]) => Above(x, g) = Above(x, f)
<1> DEFINE S == {x \in Agents : (\A y \in Agents : x \in Subtree(y, f) => g[y] = f[y]) => Above(x, g) = Above(x, f)}
<1>1. ASSUME NEW x \in Agents, f[x] \in Agents => f[x] \in S PROVE x \in S
  <2>1. ASSUME \A y \in Agents : x \in Subtree(y, f) => g[y] = f[y] PROVE Above(x, g) = Above(x, f)
    <3>1. g[x] = f[x]
      BY <2>1, BelowOrder
    <3>2. CASE f[x] \in Agents
      <4>1. \A y \in Agents : f[x] \in Subtree(y, f) => g[y] = f[y]
        BY <2>1, <3>2, OneStepUp
      <4>2. Above(f[x], g) = Above(f[x], f)
        BY <1>1, <3>2, <4>1
      <4>3. Above(x, f) = <<x>> \o Above(f[x], f)
        BY <3>2, AboveUnfolds
      <4>4. Above(x, g) = <<x>> \o Above(g[x], g)
        BY <3>1, <3>2, AboveUnfolds
      <4> QED  BY <3>1, <4>2, <4>3, <4>4
    <3>3. CASE f[x] \notin Agents
      <4>1. Above(x, f) = <<x, f[x]>>
        BY <3>3, AboveUnfolds
      <4>2. Above(x, g) = <<x, g[x]>>
        BY <3>1, <3>3, AboveUnfolds
      <4> QED  BY <3>1, <4>1, <4>2
    <3> QED  BY <3>2, <3>3
  <2> QED  BY <2>1
<1>2. Agents \subseteq S
  <2> HIDE DEF S
  <2> QED  BY <1>1, Climb
<1> QED  BY <1>2

LEMMA SameLinks ==
  ASSUME NEW f, Grounded(f), NEW g, Grounded(g), NEW x \in Agents, Above(x, f) = Above(x, g)
  PROVE  \A y \in Agents : x \in Subtree(y, f) => g[y] = f[y]
<1> DEFINE q == Above(x, f)
<1>1. WalkOK(x, f, q) /\ WalkOK(x, g, q) /\ Ended(q)
  BY PathWalk DEF Grounded, HasEnd, Nodes
<1>2. \A y \in Agents : x \in Subtree(y, f) => \E i \in 1..Len(q) : q[i] = y
  BY DEF Subtree
<1> HIDE DEF q
<1>3. q[Len(q)] \notin Agents /\ Len(q) \in Nat
  BY <1>1, NoAgents DEF WalkOK, Ended, Last
<1>4. ASSUME NEW y \in Agents, NEW i \in 1..Len(q), q[i] = y PROVE g[y] = f[y]
  <2>1. i \in 1..(Len(q) - 1)
    BY <1>3, <1>4
  <2> QED  BY <1>1, <1>4, <2>1 DEF WalkOK
<1> QED  BY <1>2, <1>4

LEMMA SameBelow ==
  ASSUME NEW f, Grounded(f), NEW g, Grounded(g), NEW x \in Agents, Above(x, g) = Above(x, f)
  PROVE  /\ ConnectedIn(x, g) <=> ConnectedIn(x, f)
         /\ ZoneLeader(x, g) = ZoneLeader(x, f)
         /\ \A y \in Agents : x \in Subtree(y, g) <=> x \in Subtree(y, f)
  BY DEF ConnectedIn, ZoneLeader, Subtree

\* If no connected agent is moved, all those paths are as they were.
Frozen(f, g) == Grounded(f) /\ Grounded(g) /\ \A x \in Agents : ConnectedIn(x, f) => g[x] = f[x]
LEMMA FrozenPaths ==
  ASSUME NEW f, NEW g, Frozen(f, g)
  PROVE  \A x \in Agents : ConnectedIn(x, f) =>
           /\ Above(x, g) = Above(x, f) /\ ConnectedIn(x, g) /\ ZoneLeader(x, g) = ZoneLeader(x, f)
           /\ \A y \in Agents : x \in Subtree(y, g) <=> x \in Subtree(y, f)
<1>1. ASSUME NEW x \in Agents, ConnectedIn(x, f) PROVE Above(x, g) = Above(x, f)
  <2>1. \A y \in Agents : x \in Subtree(y, f) => g[y] = f[y]
    BY <1>1, BelowConnected DEF Frozen
  <2> QED  BY <2>1, SamePath DEF Frozen
<1> QED  BY <1>1, SameBelow DEF Frozen

\* An agent that is sent to the end, or to one that is not below it.
LEMMA Redirected ==
  ASSUME NEW f, Grounded(f), NEW a \in Agents, NEW p \in Nodes, p \in Agents => p \notin Subtree(a, f)
  PROVE  Grounded([f EXCEPT ![a] = p])
<1> DEFINE g == [f EXCEPT ![a] = p]
           long(x) == Len(Above(x, f))
           more == IF p \in Agents THEN long(p) ELSE 0
           r == [x \in Agents |-> IF x \in Subtree(a, f) THEN long(x) + more ELSE long(x)]
<1>1. g \in Parents /\ g[a] = p /\ \A x \in Agents \ {a} : g[x] = f[x]
  BY DEF Grounded, Parents, Nodes
<1>2. \A x \in Agents : long(x) \in Nat \ {0, 1}
  BY AboveUnfolds
<1>3. more \in Nat
  BY <1>2
<1>4. \A x \in Agents : r[x] = IF x \in Subtree(a, f) THEN long(x) + more ELSE long(x)
  OBVIOUS
<1>5. \A x \in Agents : f[x] \in Agents => long(x) = long(f[x]) + 1
  BY OneStepUp
<1>6. \A x \in Agents : x \in Subtree(a, f) <=> x = a \/ (f[x] \in Agents /\ f[x] \in Subtree(a, f))
  BY OneStepUp
<1> HIDE DEF g, r
<1>7. ASSUME NEW x \in Agents PROVE r[x] \in Nat /\ (g[x] \in Agents => r[g[x]] < r[x])
  <2> HIDE DEF long
  <2>1. long(x) \in Nat \ {0, 1} /\ r[x] \in Nat
    BY <1>2, <1>3, <1>4
  <2>2. CASE x = a
    <3>1. r[x] = long(x) + more
      BY <1>4, <1>6, <2>2
    <3>2. g[x] = p
      BY <1>1, <2>2
    <3>3. p \in Agents => r[p] = more
      BY <1>4
    <3> QED  BY <1>3, <2>1, <3>1, <3>2, <3>3
  <2>3. CASE x # a
    <3>1. g[x] = f[x]
      BY <1>1, <2>3
    <3>2. ASSUME f[x] \in Agents PROVE r[f[x]] < r[x]
      <4>1. long(x) = long(f[x]) + 1 /\ long(f[x]) \in Nat
        BY <1>2, <1>5, <3>2
      <4>2. x \in Subtree(a, f) <=> f[x] \in Subtree(a, f)
        BY <1>6, <2>3, <3>2
      <4>3. r[x] = (IF x \in Subtree(a, f) THEN long(x) + more ELSE long(x))
            /\ r[f[x]] = (IF f[x] \in Subtree(a, f) THEN long(f[x]) + more ELSE long(f[x]))
        BY <1>4, <3>2
      <4> QED  BY <1>3, <4>1, <4>2, <4>3
    <3> QED  BY <2>1, <3>1, <3>2
  <2> QED  BY <2>2, <2>3
<1> QED  BY <1>1, <1>7, RankedIsGrounded DEF g

-----------------------------------------------------------------------------
(***************************************************************************)
(* The mesh and what the server knows of it, while one connection breaks.  *)
(***************************************************************************)
\* Always: no cycles; a zone leader has no other parent; an agent's upstream has it
\* among its peers, and without one nothing is under way to it.
TreesInv ==
  /\ breaks \in Nat /\ Grounded(up)
  /\ \A x \in Agents : (up[x] \in Agents => s.tree[x] # Server) /\ (up[x] = Server => s.tree[x] = Server)
  /\ \A x \in Agents : up[x] # None => x \in down[up[x]]
  /\ \A x \in Agents : up[x] = None => inbox[x] = <<>>

\* Until a connection breaks all is as it was made.
Whole ==
  breaks = 0 =>
    /\ up = s.tree /\ parent = s.tree
    /\ \A n \in Agents \cup {Server} : \A x \in Agents : x \in down[n] <=> s.tree[x] = n
    /\ \A z \in Agents : \A i \in 1..Len(wire[z]) : wire[z][i].t = "response"

\* After one: what is cut off has not moved; a peer that left is missed, and one that is
\* missing was lost, only by a relay that is connected; what the server has of an agent
\* is where it began, or where it is.
MapsInv ==
  /\ Grounded(parent)
  /\ \A x \in Agents : ConnectedIn(x, up) \/ up[x] \in {None, s.tree[x]}
  /\ \A n \in Agents : \A x \in down[n] : up[x] # n => ConnectedIn(n, up)
  /\ \A x, n \in Agents : s.tree[x] = n /\ x \notin down[n] => ConnectedIn(n, up) \/ up[n] = None
  /\ \A y \in Agents : parent[y] = s.tree[y] \/ (ConnectedIn(y, up) /\ parent[y] = up[y])

\* The server knows where an agent is, or a report of it comes before the i-th message.
ReportOf(y, m) == m.t = "attached" /\ m.agent = y /\ m.parent = up[y]
Reported(y, z, i) == parent[y] = up[y] \/ \E k \in 1..Len(wire[z]) : k < i /\ ReportOf(y, wire[z][k])
PathReported(x, z, i) == \A y \in Agents : x \in Subtree(y, up) => Reported(y, z, i)

AttachedOK(z, i, m) ==
  /\ m.agent \in Agents /\ m.parent \in Agents
  /\ ConnectedIn(m.agent, up) /\ up[m.agent] = m.parent /\ ZoneLeader(m.agent, up) = z
  /\ PathReported(m.parent, z, i)
ResponseOK(z, i, m) ==
  /\ m.agent \in Agents /\ \E k \in 1..Len(m.via) : m.via[k] = z
  /\ \/ m.via = Above(m.agent, s.tree)
     \/ ConnectedIn(m.agent, up) /\ m.via = Above(m.agent, up) /\ PathReported(m.agent, z, i)
WiresInv ==
  /\ \A y \in Agents : ConnectedIn(y, up) => Reported(y, ZoneLeader(y, up), Len(wire[ZoneLeader(y, up)]) + 1)
  /\ \A z \in Agents : \A i \in 1..Len(wire[z]) :
       /\ wire[z][i].t = "attached" => AttachedOK(z, i, wire[z][i])
       /\ wire[z][i].t = "response" => ResponseOK(z, i, wire[z][i])

OnceInv == breaks <= 1 => Whole /\ MapsInv /\ WiresInv

LEMMA ScenarioTree ==
  ASSUME s \in Scenarios
  PROVE  /\ s.tree \in [Agents -> Agents \cup {Server}] /\ Grounded(s.tree)
         /\ \A x \in Agents : ConnectedIn(x, s.tree)
<1>1. s.tree \in [Agents -> Agents \cup {Server}] /\ s.depth \in [Agents -> Nat]
      /\ \A a \in Agents : s.depth[a] = IF s.tree[a] = Server THEN 0 ELSE s.depth[s.tree[a]] + 1
  BY ScenariosAssumption
<1> DEFINE f == s.tree
           r == s.depth
<1>2. f \in Parents /\ \A x \in Agents : f[x] \in Agents \cup {Server}
  BY <1>1 DEF Parents
<1>3. \A x \in Agents : r[x] \in Nat /\ (f[x] \in Agents => r[f[x]] < r[x])
  BY <1>1, NoAgents
<1> HIDE DEF f, r
<1>4. Grounded(f)
  BY <1>2, <1>3, RankedIsGrounded
<1> DEFINE S == {x \in Agents : ConnectedIn(x, f)}
<1>5. ASSUME NEW x \in Agents, f[x] \in Agents => f[x] \in S PROVE x \in S
  BY <1>2, <1>4, <1>5, OneStepUp
<1>6. Agents \subseteq S
  <2> HIDE DEF S
  <2> QED  BY <1>4, <1>5, Climb
<1> QED  BY <1>1, <1>4, <1>6 DEF f

\* Then all are connected, and nothing there is to notice or to attach.
LEMMA WholeFacts ==
  ASSUME TypeOK, TreesInv, OnceInv, breaks = 0
  PROVE  /\ up = s.tree /\ parent = s.tree /\ \A x \in Agents : ConnectedIn(x, up) /\ up[x] # None
         /\ \A n \in Agents \cup {Server} : \A x \in Agents : x \in down[n] <=> up[x] = n
<1>1. s \in Scenarios
  BY DEF TypeOK, ServerTypes
<1>2. Whole
  BY DEF OnceInv
<1> QED  BY <1>1, <1>2, ScenarioTree, NoAgents DEF Whole

\* The first agent on the way up without an upstream, and the one below it.
LEMMA BrokenPath ==
  ASSUME Grounded(up), NEW a \in Agents, up[a] # None, ~ConnectedIn(a, up)
  PROVE  /\ Broken(a) \in Agents /\ up[Broken(a)] \in Agents /\ up[up[Broken(a)]] = None
         /\ ~ConnectedIn(Broken(a), up)
<1> DEFINE q == Above(a, up)
           n == Len(q)
<1>1. WalkOK(a, up, q) /\ Ended(q) /\ n \in Nat \ {0, 1}
  BY PathWalk, AboveUnfolds DEF Grounded, HasEnd, Nodes
<1>2. Broken(a) = q[n - 2]
  BY DEF Broken
<1>3. q[n] = None /\ q[1] = a
  BY <1>1 DEF Ended, ConnectedIn, Last, WalkOK
<1> HIDE DEF n, q
<1>a. n \in Nat /\ n >= 2
  BY <1>1
<1>4. n - 1 \in 1..(n - 1) /\ (n - 1) + 1 = n
  BY <1>a
<1>5. q[n - 1] \in Agents /\ up[q[n - 1]] = None
  BY <1>1, <1>3, <1>4 DEF WalkOK, n
<1>6. n # 2
  BY <1>3, <1>5
<1>7. n - 2 \in 1..(n - 1) /\ (n - 2) + 1 = n - 1
  BY <1>a, <1>6
<1>8. q[n - 2] \in Agents /\ up[q[n - 2]] = q[n - 1]
  BY <1>1, <1>7 DEF WalkOK, n
<1> DEFINE b == q[n - 2]
<1>9. ~ConnectedIn(b, up)
  BY <1>5, <1>8, OneStepUp, NoAgents
<1> QED  BY <1>2, <1>5, <1>8, <1>9

-----------------------------------------------------------------------------
(***************************************************************************)
(* What a step does to the mesh.                                           *)
(***************************************************************************)
\* Nothing new for agents without an upstream.
NoneForLost == \A x \in Agents : up[x] = None /\ inbox[x] = <<>> => inbox'[x] = <<>>
Still == UNCHANGED <<s, up, down, wire, parent, breaks>> /\ NoneForLost
Takes(z, m) == m.t = "attached" /\ OriginAllows(z, m.parent) /\ m.parent \notin Subtree(m.agent, parent)
Reads(z) ==
  /\ UNCHANGED <<s, up, down, inbox, breaks>>
  /\ wire[z] # <<>> /\ wire' = [wire EXCEPT ![z] = Tail(@)]
  /\ LET m == Head(wire[z]) IN parent' = IF Takes(z, m) THEN [parent EXCEPT ![m.agent] = m.parent] ELSE parent
Writes(z, m) == UNCHANGED <<s, up, inbox, parent, breaks>> /\ wire' = [wire EXCEPT ![z] = @ \o <<m>>]
Reply1(a, m) == m.t = "response" /\ m.agent = a /\ m.via = Above(a, up)
Responds(a) ==
  /\ ConnectedIn(a, up) /\ down' = down
  /\ \E m : Reply1(a, m) /\ Writes(ZoneLeader(a, up), m)
Drops(x) ==
  /\ up[x] \in Agents /\ up[up[x]] = None /\ ~ConnectedIn(x, up)
  /\ up' = [up EXCEPT ![x] = None]
  /\ down' = [down EXCEPT ![up[x]] = @ \ {x}]
  /\ inbox' = [inbox EXCEPT ![x] = <<>>]
  /\ UNCHANGED <<s, wire, parent, breaks>>

LEMMA OfRespond ==
  ASSUME TypeOK, TreesInv, NEW o \in ops, Respond(o)
  PROVE  Still \/ (\E a \in Agents : Responds(a)) \/ \E x \in Agents : Drops(x)
<1> DEFINE a == o.agent
<1>1. a \in Agents
  BY DEF TypeOK, OpsOK, OpOK, Ops
<1>2. UNCHANGED <<s, breaks, parent>>
  BY DEF Respond, serverVars, topology
<1>3. CASE up[a] = None
  <2>1. UNCHANGED <<up, down, wire>> /\ (inbox' = inbox \/ inbox' = [inbox EXCEPT ![a] = <<>>])
    BY <1>3 DEF Respond
  <2>2. DOMAIN inbox = Agents
    BY DEF TypeOK, InboxOK
  <2> HIDE DEF a
  <2>3. \A x \in Agents : inbox'[x] = inbox[x] \/ inbox'[x] = <<>>
    BY <2>1, <2>2
  <2>4. NoneForLost
    BY <2>3 DEF NoneForLost
  <2> QED  BY <1>2, <2>1, <2>4 DEF Still
<1>4. CASE up[a] # None
  <2> DEFINE m == [t |-> "response", agent |-> a, call |-> o.call, wave |-> o.wave, status |-> o.outcome, via |-> Above(a, up)]
  <2>1. SendUp(a, <<m>>)
    BY <1>4 DEF Respond
  <2>2. Reply1(a, m)
    BY DEF Reply1
  <2> HIDE DEF m
  <2>3. CASE ConnectedIn(a, up)
    BY <1>1, <1>2, <2>1, <2>2, <2>3 DEF SendUp, Connected, ConnectedIn, Responds, Writes
  <2>4. CASE ~ConnectedIn(a, up)
    <3>1. /\ Broken(a) \in Agents /\ up[Broken(a)] \in Agents /\ up[up[Broken(a)]] = None
          /\ ~ConnectedIn(Broken(a), up)
      BY <1>1, <1>4, <2>4, BrokenPath DEF TreesInv
    <3>2. Drops(Broken(a))
      BY <1>2, <2>1, <2>4, <3>1 DEF SendUp, Connected, ConnectedIn, Drops
    <3> QED  BY <3>1, <3>2
  <2> QED  BY <2>3, <2>4
<1> QED  BY <1>3, <1>4

LEMMA OfReceive ==
  ASSUME TypeOK, NEW z \in Agents, Receive(z)
  PROVE  Reads(z)
<1> DEFINE m == Head(wire[z])
<1>1. UNCHANGED <<s, up, down, inbox, breaks>> /\ wire[z] # <<>> /\ wire' = [wire EXCEPT ![z] = Tail(@)]
  BY DEF Receive
<1>2. \/ m.t = "attached" /\ Attached(z, m)
      \/ m.t # "attached" /\ UNCHANGED topology
  BY DEF Receive, Lost, ExecResponse, ExecBroadcastResponse, DeployResponse, FileChunk, FetchResponse
<1>3. parent' = IF Takes(z, m) THEN [parent EXCEPT ![m.agent] = m.parent] ELSE parent
  <2> HIDE DEF m
  <2> QED  BY <1>2 DEF Attached, Takes, topology
<1> QED  BY <1>1, <1>3 DEF Reads

LEMMA NoneDelivered ==
  ASSUME TypeOK, NEW from, from # None, NEW who, NEW m, NEW x \in Agents, up[x] = None, inbox[x] = <<>>
  PROVE  Deliver(inbox, To(from, who, m))[x] = <<>>
<1>1. Deliver(inbox, To(from, who, m))[x] = inbox[x] \o <<>>
  BY DEF Deliver, To
<1> QED  BY <1>1, SeqConcat, ShortSeqs

LEMMA OfTake ==
  ASSUME TypeOK, NEW a \in Agents, HandleServerMessage(a)
  PROVE  Still
<1> DEFINE m == Head(inbox[a])
           to == IF Single(m.call) /\ a \in m.targets THEN {} ELSE RelayToDownstreams(a, m)
           q == Deliver(inbox, To(a, to, m))
<1>1. inbox[a] # <<>> /\ inbox' = [q EXCEPT ![a] = Tail(@)] /\ UNCHANGED <<s, up, down, wire, parent, breaks>>
  BY DEF HandleServerMessage, serverVars, topology
<1>2. \A x \in Agents : up[x] = None /\ inbox[x] = <<>> => q[x] = <<>>
  BY NoneDelivered, NoAgents
<1> HIDE DEF q
<1>3. NoneForLost
  BY <1>1, <1>2 DEF NoneForLost
<1> QED  BY <1>1, <1>3 DEF Still

LEMMA OfServer ==
  ASSUME TypeOK, NEW c \in DOMAIN s.calls,
         \/ Handles(c) \/ Send(c) \/ Answers(c) \/ Timeout(c)
         \/ HandleExecMulti(c) \/ HandleBroadcastDeploy(c) \/ DispatchExecWave(c) \/ DispatchDeployWave(c)
         \/ WaveDone(c) \/ WaveTimeout(c)
  PROVE  Still
<1>1. inbox' = inbox => NoneForLost
  BY DEF NoneForLost
<1>2. CASE Handles(c)
  BY <1>1, <1>2 DEF Handles, HandleExecCommand, HandlePutFile, HandleFetchFile, meshVars, topology, Still
<1>3. CASE Answers(c)
  BY <1>1, <1>3 DEF Answers, AnswerExecCommand, AnswerPutFile, AnswerFetchFile, Answer, meshVars, topology, Still
<1>4. CASE Timeout(c) \/ WaveDone(c) \/ WaveTimeout(c)
  BY <1>1, <1>4 DEF Timeout, WaveDone, WaveTimeout, meshVars, topology, Still
<1>5. CASE HandleExecMulti(c) \/ HandleBroadcastDeploy(c)
  BY <1>1, <1>5 DEF HandleExecMulti, HandleBroadcastDeploy, Begin, meshVars, topology, Still
<1>6. CASE Send(c)
  <2>1. UNCHANGED <<s, up, down, wire, parent, breaks>> /\ (inbox' = inbox \/ \E who, m : inbox' = Deliver(inbox, To(Server, who, m)))
    BY <1>6 DEF Send, topology
  <2> QED  BY <1>1, <2>1, NoneDelivered, NoAgents DEF NoneForLost, Still
<1>7. CASE DispatchExecWave(c) \/ DispatchDeployWave(c)
  <2>1. UNCHANGED <<s, up, down, wire, parent, breaks>> /\ \E who, m : inbox' = Deliver(inbox, To(Server, who, m))
    BY <1>7 DEF DispatchExecWave, DispatchDeployWave, DispatchWave, topology
  <2> QED  BY <2>1, NoneDelivered, NoAgents DEF NoneForLost, Still
<1> QED  BY <1>2, <1>3, <1>4, <1>5, <1>6, <1>7

\* Every step leaves the mesh as it is, or is one of these.
LEMMA MeshOfStep ==
  ASSUME TypeOK, TreesInv, [Next]_vars
  PROVE  \/ Still
         \/ \E a \in Agents : Reads(a) \/ Responds(a) \/ Drops(a) \/ Cut(a) \/ ServerNotices(a)
         \/ \E a \in Agents : \E p \in Agents \cup {Server} : Attach(a, p) \/ (p \in Agents /\ RelayNotices(p, a))
<1>1. inbox' = inbox => NoneForLost
  BY DEF NoneForLost
<1>2. CASE UNCHANGED vars
  BY <1>1, <1>2 DEF vars, meshVars, serverVars, topology, Still
<1>3. CASE \E c \in DOMAIN s.calls :
             \/ Handles(c) \/ Send(c) \/ Answers(c) \/ Timeout(c)
             \/ HandleExecMulti(c) \/ HandleBroadcastDeploy(c) \/ DispatchExecWave(c) \/ DispatchDeployWave(c)
             \/ WaveDone(c) \/ WaveTimeout(c)
  BY <1>3, OfServer
<1>4. CASE \E a \in Agents : HandleServerMessage(a) \/ Receive(a)
  BY <1>4, OfTake, OfReceive
<1>5. CASE \E o \in ops : AtIt(o)
  BY <1>1, <1>5 DEF AtIt, Gate, Write, Fill, Stat, Run, meshVars, serverVars, topology, Still
<1>6. CASE \E o \in ops : Respond(o)
  BY <1>6, OfRespond
<1>7. CASE \E u \in updates : UpdateExecLog(u)
  BY <1>1, <1>7 DEF UpdateExecLog, meshVars, topology, Still
<1>8. CASE Next
  BY <1>3, <1>4, <1>5, <1>6, <1>7, <1>8 DEF Next, Handles, Answers, AtIt
<1> QED  BY <1>2, <1>8

LEMMA TreesStep ==
  ASSUME TypeOK, TreesInv, [Next]_vars
  PROVE  TreesInv'
<1>1. /\ breaks \in Nat /\ Grounded(up) /\ up \in Parents
      /\ \A x \in Agents : (up[x] \in Agents => s.tree[x] # Server) /\ (up[x] = Server => s.tree[x] = Server)
      /\ \A x \in Agents : up[x] # None => x \in down[up[x]]
      /\ \A x \in Agents : up[x] = None => inbox[x] = <<>>
  BY DEF TreesInv, Grounded
<1>2. down \in [Agents \cup {Server} -> SUBSET Agents] /\ DOMAIN inbox = Agents /\ DOMAIN up = Agents
  BY <1>1 DEF TypeOK, ServerTypes, InboxOK, Parents
<1>3. \A x \in Agents : up[x] # None => up[x] \in Agents \cup {Server}
  BY <1>1 DEF Parents
<1>4. CASE Still
  BY <1>1, <1>4 DEF Still, NoneForLost, TreesInv
<1>5. CASE \E a \in Agents : Reads(a) \/ Responds(a)
  <2>1. UNCHANGED <<s, up, down, inbox, breaks>>
    BY <1>5 DEF Reads, Responds, Writes
  <2> QED  BY <1>1, <2>1 DEF TreesInv
<1>6. ASSUME NEW b \in Agents, up' = [up EXCEPT ![b] = None], inbox' = [inbox EXCEPT ![b] = <<>>], s' = s, breaks' \in Nat,
             down' = down \/ down' = [down EXCEPT ![up[b]] = @ \ {b}]
      PROVE  TreesInv'
  <2>1. Grounded(up')
    BY <1>1, <1>6, Redirected, NoAgents DEF Nodes
  <2>2. up'[b] = None /\ inbox'[b] = <<>> /\ \A x \in Agents \ {b} : up'[x] = up[x] /\ inbox'[x] = inbox[x]
    BY <1>2, <1>6
  <2>3. \A x \in Agents \ {b} : up[x] # None => x \in down'[up[x]]
    BY <1>1, <1>2, <1>3, <1>6
  <2> QED  BY <1>1, <1>6, <2>1, <2>2, <2>3, NoAgents DEF TreesInv
<1>7. CASE \E a \in Agents : Drops(a) \/ Cut(a)
  <2>1. PICK a \in Agents : Drops(a) \/ Cut(a)
    BY <1>7
  <2>2. /\ up' = [up EXCEPT ![a] = None] /\ inbox' = [inbox EXCEPT ![a] = <<>>] /\ s' = s /\ breaks' \in Nat
        /\ down' = down \/ down' = [down EXCEPT ![up[a]] = @ \ {a}]
    BY <1>1, <2>1 DEF Drops, Cut
  <2> QED  BY <1>6, <2>2
<1>8. ASSUME NEW n \in Agents \cup {Server}, NEW a \in Agents, up[a] # n, down' = [down EXCEPT ![n] = @ \ {a}],
             UNCHANGED <<s, up, inbox, breaks>>
      PROVE  TreesInv'
  <2>1. \A x \in Agents : up[x] # None => x \in down'[up[x]]
    BY <1>1, <1>2, <1>3, <1>8
  <2> QED  BY <1>1, <1>8, <2>1 DEF TreesInv
<1>9. CASE \E a \in Agents : ServerNotices(a) \/ \E p \in Agents : RelayNotices(p, a)
  <2>1. PICK a \in Agents : ServerNotices(a) \/ \E p \in Agents : RelayNotices(p, a)
    BY <1>9
  <2>2. CASE ServerNotices(a)
    BY <1>8, <2>2 DEF ServerNotices
  <2>3. CASE \E p \in Agents : RelayNotices(p, a)
    BY <1>8, <2>3 DEF RelayNotices
  <2> QED  BY <2>1, <2>2, <2>3
<1>10. CASE \E a \in Agents : \E p \in Agents \cup {Server} : Attach(a, p)
  <2>1. PICK a \in Agents : \E p \in Agents \cup {Server} : Attach(a, p)
    BY <1>10
  <2>2. PICK p \in Agents \cup {Server} : Attach(a, p)
    BY <2>1
  <2>3. /\ up[a] = None /\ IF s.tree[a] = Server THEN p = Server ELSE p \in Agents \ Subtree(a, up)
        /\ up' = [up EXCEPT ![a] = p] /\ down' = [down EXCEPT ![p] = @ \cup {a}] /\ UNCHANGED <<s, inbox, breaks>>
    BY <2>2 DEF Attach
  <2>4. Grounded(up')
    BY <1>1, <2>3, Redirected, NoAgents DEF Nodes
  <2>5. up'[a] = p /\ \A x \in Agents \ {a} : up'[x] = up[x]
    BY <1>2, <2>3
  <2>6. a \in down'[p] /\ \A n \in Agents \cup {Server} : down[n] \subseteq down'[n]
    BY <1>2, <2>3
  <2>7. \A x \in Agents : up'[x] # None => x \in down'[up'[x]]
    BY <1>1, <1>3, <2>5, <2>6
  <2>8. \A x \in Agents : (up'[x] \in Agents => s'.tree[x] # Server) /\ (up'[x] = Server => s'.tree[x] = Server)
    BY <1>1, <2>3, <2>5, NoAgents
  <2>9. \A x \in Agents : up'[x] = None => inbox'[x] = <<>>
    BY <1>1, <2>3, <2>5, NoAgents
  <2> QED  BY <1>1, <2>3, <2>4, <2>7, <2>8, <2>9 DEF TreesInv
<1> QED  BY <1>4, <1>5, <1>7, <1>9, <1>10, MeshOfStep

-----------------------------------------------------------------------------
(***************************************************************************)
(* The maps, step by step.                                                 *)
(***************************************************************************)
\* Steps at which no connected agent moves, and none is new among the missing.
LEMMA MapsFrozen ==
  ASSUME MapsInv, Frozen(up, up'), s' = s, parent' = parent,
         \A x \in Agents : up'[x] = up[x] \/ up'[x] = None \/ ConnectedIn(x, up'),
         \A n \in Agents : \A x \in down'[n] : up'[x] # n => ConnectedIn(n, up') \/ (x \in down[n] /\ up[x] # n),
         \A x \in Agents, n \in Agents : s.tree[x] = n /\ x \notin down'[n] =>
             x \notin down[n] \/ ConnectedIn(n, up') \/ up'[n] = None
  PROVE  MapsInv'
<1>1. \A x \in Agents : ConnectedIn(x, up) => ConnectedIn(x, up') /\ up'[x] = up[x]
  BY FrozenPaths DEF Frozen
<1>2. \A x \in Agents : ConnectedIn(x, up') \/ up'[x] \in {None, s'.tree[x]}
  BY <1>1 DEF MapsInv
<1>3. \A n \in Agents : \A x \in down'[n] : up'[x] # n => ConnectedIn(n, up')
  BY <1>1 DEF MapsInv
<1>4. \A x, n \in Agents : s'.tree[x] = n /\ x \notin down'[n] => ConnectedIn(n, up') \/ up'[n] = None
  BY <1>1 DEF MapsInv
<1>5. \A y \in Agents : parent'[y] = s'.tree[y] \/ (ConnectedIn(y, up') /\ parent'[y] = up'[y])
  BY <1>1 DEF MapsInv
<1>6. Grounded(parent')
  BY DEF MapsInv
<1> QED  BY <1>2, <1>3, <1>4, <1>5, <1>6 DEF MapsInv

LEMMA DropMaps ==
  ASSUME TypeOK, TreesInv, MapsInv, NEW b \in Agents, Drops(b)
  PROVE  MapsInv' /\ Frozen(up, up') /\ Grounded(up')
<1>1. /\ up[b] \in Agents /\ up[up[b]] = None /\ ~ConnectedIn(b, up)
      /\ up' = [up EXCEPT ![b] = None] /\ down' = [down EXCEPT ![up[b]] = @ \ {b}]
      /\ UNCHANGED <<s, wire, parent, breaks>>
  BY DEF Drops
<1>2. Grounded(up) /\ up \in Parents /\ down \in [Agents \cup {Server} -> SUBSET Agents]
  BY DEF TreesInv, Grounded, TypeOK, ServerTypes
<1>3. Grounded(up')
  BY <1>1, <1>2, Redirected, NoAgents DEF Nodes
<1>4. up'[b] = None /\ \A x \in Agents \ {b} : up'[x] = up[x]
  BY <1>1, <1>2 DEF Parents
<1>5. Frozen(up, up')
  BY <1>1, <1>2, <1>3, <1>4 DEF Frozen
<1>6. down'[up[b]] = down[up[b]] \ {b} /\ \A n \in Agents : n # up[b] => down'[n] = down[n]
  BY <1>1, <1>2
<1>7. up[b] # b /\ up'[up[b]] = None
  BY <1>1, <1>4, NoAgents
<1>8. \A n \in Agents : \A x \in down'[n] : up'[x] # n => x \in down[n] /\ up[x] # n
  <2>1. SUFFICES ASSUME NEW n \in Agents, NEW x \in down'[n], up'[x] # n PROVE x \in down[n] /\ up[x] # n
    OBVIOUS
  <2>2. x \in down[n] /\ x \in Agents
    BY <1>2, <1>6
  <2> QED  BY <1>4, <1>6, <2>1, <2>2
<1>9. \A x \in Agents, n \in Agents : s.tree[x] = n /\ x \notin down'[n] => x \notin down[n] \/ up'[n] = None
  BY <1>6, <1>7
<1>10. \A x \in Agents : up'[x] = up[x] \/ up'[x] = None
  BY <1>4
<1> QED  BY <1>1, <1>3, <1>5, <1>8, <1>9, <1>10, MapsFrozen

LEMMA CutMaps ==
  ASSUME TypeOK, TreesInv, OnceInv, breaks = 0, NEW a \in Agents, Cut(a)
  PROVE  MapsInv' /\ Grounded(up') /\ up' = [up EXCEPT ![a] = None] /\ UNCHANGED <<s, wire, parent, down>>
<1>1. up' = [up EXCEPT ![a] = None] /\ UNCHANGED <<s, wire, parent, down>>
  BY DEF Cut, serverVars, topology
<1>2. /\ up = s.tree /\ parent = s.tree /\ \A x \in Agents : ConnectedIn(x, up) /\ up[x] # None
      /\ \A n \in Agents \cup {Server} : \A x \in Agents : x \in down[n] <=> up[x] = n
  BY WholeFacts
<1>3. Grounded(up) /\ up \in Parents /\ MapsInv /\ down \in [Agents \cup {Server} -> SUBSET Agents]
  BY DEF TreesInv, Grounded, OnceInv, TypeOK, ServerTypes
<1>4. Grounded(up')
  BY <1>1, <1>3, Redirected, NoAgents DEF Nodes
<1>5. up'[a] = None /\ \A x \in Agents \ {a} : up'[x] = up[x]
  BY <1>1, <1>3 DEF Parents
<1>6. ASSUME NEW n \in Agents, n = up[a] PROVE ConnectedIn(n, up')
  <2>1. n \notin Subtree(a, up)
    BY <1>3, <1>6, BelowOrder
  <2>2. \A y \in Agents : n \in Subtree(y, up) => up'[y] = up[y]
    BY <1>5, <2>1
  <2>3. Above(n, up') = Above(n, up)
    BY <1>3, <1>4, <2>2, SamePath
  <2> QED  BY <1>2, <1>3, <1>4, <2>3, SameBelow
<1>7. \A n \in Agents : \A x \in down'[n] : up'[x] # n => ConnectedIn(n, up')
  <2>1. SUFFICES ASSUME NEW n \in Agents, NEW x \in down'[n], up'[x] # n PROVE ConnectedIn(n, up')
    OBVIOUS
  <2>2. x \in Agents /\ up[x] = n
    BY <1>1, <1>2, <1>3
  <2> QED  BY <1>5, <1>6, <2>1, <2>2
<1>8. \A x, n \in Agents : s'.tree[x] = n => x \in down'[n]
  BY <1>1, <1>2
<1>9. \A x \in Agents : up'[x] \in {None, s'.tree[x]} /\ parent'[x] = s'.tree[x]
  BY <1>1, <1>2, <1>5
<1>10. Grounded(parent')
  BY <1>1, <1>3 DEF MapsInv
<1>11. MapsInv'
  BY <1>7, <1>8, <1>9, <1>10 DEF MapsInv
<1> QED  BY <1>1, <1>4, <1>11

\* A peer that went elsewhere is no longer counted.
LEMMA NoticeMaps ==
  ASSUME TypeOK, TreesInv, MapsInv, NEW p \in Agents \cup {Server}, NEW a \in Agents, a \in down[p], up[a] # p,
         down' = [down EXCEPT ![p] = @ \ {a}], UNCHANGED <<s, up, parent>>
  PROVE  MapsInv' /\ Frozen(up, up')
<1>1. Grounded(up) /\ down \in [Agents \cup {Server} -> SUBSET Agents]
  BY DEF TreesInv, TypeOK, ServerTypes
<1>2. Frozen(up, up')
  BY <1>1 DEF Frozen
<1>3. p \in Agents => ConnectedIn(p, up)
  BY DEF MapsInv
<1>4. \A n \in Agents : down'[n] \subseteq down[n] /\ (down'[n] = down[n] \/ n = p)
  BY <1>1
<1>5. \A x \in Agents, n \in Agents : s.tree[x] = n /\ x \notin down'[n] => x \notin down[n] \/ ConnectedIn(n, up')
  BY <1>3, <1>4
<1>6. \A n \in Agents : \A x \in down'[n] : up'[x] # n => (x \in down[n] /\ up[x] # n)
  BY <1>4
<1> QED  BY <1>2, <1>5, <1>6, MapsFrozen

\* An agent attaches, and all below it are connected again.
LEMMA AttachMaps ==
  ASSUME TypeOK, TreesInv, MapsInv, NEW a \in Agents, NEW p \in Agents \cup {Server}, Attach(a, p)
  PROVE  /\ MapsInv' /\ Frozen(up, up') /\ Grounded(up') /\ up'[a] = p /\ \A x \in Agents \ {a} : up'[x] = up[x]
         /\ \A x \in Subtree(a, up) : ConnectedIn(x, up')
         /\ \A x \in Agents : ConnectedIn(x, up') => ConnectedIn(x, up) \/ x \in Subtree(a, up)
         /\ p \in Agents => ConnectedIn(p, up)
<1>1. /\ up[a] = None /\ IF s.tree[a] = Server THEN p = Server ELSE p \in Agents \ Subtree(a, up) /\ Connected(p)
      /\ up' = [up EXCEPT ![a] = p] /\ down' = [down EXCEPT ![p] = @ \cup {a}] /\ UNCHANGED <<s, inbox, breaks, parent>>
  BY DEF Attach, serverVars, topology
<1>2. Grounded(up) /\ up \in Parents /\ down \in [Agents \cup {Server} -> SUBSET Agents]
  BY DEF TreesInv, Grounded, TypeOK, ServerTypes
<1>3. Grounded(up')
  BY <1>1, <1>2, Redirected, NoAgents DEF Nodes
<1>4. up'[a] = p /\ \A x \in Agents \ {a} : up'[x] = up[x]
  BY <1>1, <1>2 DEF Parents
<1>5. ~ConnectedIn(a, up)
  BY <1>1, <1>2, OneStepUp, NoAgents
<1>6. Frozen(up, up')
  BY <1>2, <1>3, <1>4, <1>5 DEF Frozen
<1>7. p \in Agents => ConnectedIn(p, up) /\ ConnectedIn(p, up')
  <2>1. p \in Agents => ConnectedIn(p, up)
    BY <1>1, NoAgents DEF Connected, ConnectedIn
  <2> QED  BY <1>6, <2>1, FrozenPaths
<1>8. ConnectedIn(a, up')
  BY <1>3, <1>4, <1>7, OneStepUp
<1>9. \A x \in Subtree(a, up) : ConnectedIn(x, up')
  <2> DEFINE S == {x \in Agents : x \in Subtree(a, up) => ConnectedIn(x, up')}
  <2>1. ASSUME NEW x \in Agents, up[x] \in Agents => up[x] \in S PROVE x \in S
    BY <1>2, <1>3, <1>4, <1>8, <2>1, OneStepUp
  <2>2. Agents \subseteq S
    <3> HIDE DEF S
    <3> QED  BY <1>2, <2>1, Climb
  <2> QED  BY <2>2 DEF Subtree
<1>10. ASSUME NEW x \in Agents, x \notin Subtree(a, up) PROVE ConnectedIn(x, up') <=> ConnectedIn(x, up)
  <2>1. \A y \in Agents : x \in Subtree(y, up) => up'[y] = up[y]
    BY <1>4, <1>10
  <2>2. Above(x, up') = Above(x, up)
    BY <1>2, <1>3, <2>1, SamePath
  <2> QED  BY <1>2, <1>3, <2>2, SameBelow
<1>11. \A n \in Agents : down[n] \subseteq down'[n] /\ \A x \in down'[n] : x \in down[n] \/ (n = p /\ x = a)
  BY <1>1, <1>2
<1>12. \A n \in Agents : \A x \in down'[n] : up'[x] # n => x \in down[n] /\ (up[x] # n)
  <2>1. SUFFICES ASSUME NEW n \in Agents, NEW x \in down'[n], up'[x] # n PROVE x \in down[n] /\ up[x] # n
    OBVIOUS
  <2>2. x \in down[n] /\ x \in Agents
    BY <1>2, <1>4, <1>11, <2>1
  <2> QED  BY <1>1, <1>4, <2>1, <2>2, NoAgents
<1>13. \A x \in Agents, n \in Agents : s.tree[x] = n /\ x \notin down'[n] => x \notin down[n]
  BY <1>11
<1>14. \A x \in Agents : up'[x] = up[x] \/ ConnectedIn(x, up')
  BY <1>4, <1>8
<1>15. MapsInv'
  BY <1>1, <1>6, <1>12, <1>13, <1>14, MapsFrozen
<1> QED  BY <1>3, <1>4, <1>6, <1>7, <1>9, <1>10, <1>15

-----------------------------------------------------------------------------
(***************************************************************************)
(* What is on its way to the server, step by step.                         *)
(***************************************************************************)
LEMMA WireSeqs ==
  ASSUME TypeOK
  PROVE  DOMAIN wire = Agents /\ \A z \in Agents : IsSeq(wire[z]) /\ Len(wire[z]) \in Nat
<1>1. ASSUME NEW z \in Agents PROVE IsSeq(wire[z]) /\ Len(wire[z]) \in Nat
  <2>1. IsSeq(wire[z])
    BY DEF TypeOK, WireOK, ReportsOK
  <2>2. PICK S : wire[z] \in Seq(S)
    BY <2>1 DEF IsSeq
  <2> QED  BY <2>1, <2>2
<1>2. DOMAIN wire = Agents
  BY DEF TypeOK, WireOK
<1> QED  BY <1>1, <1>2

\* What was told stays told, while more is said.
LEMMA ReportsKept ==
  ASSUME Frozen(up, up'), s' = s, parent' = parent, NEW z, Len(wire[z]) \in Nat, Len(wire'[z]) \in Nat,
         Len(wire[z]) <= Len(wire'[z]), \A k \in 1..Len(wire[z]) : wire'[z][k] = wire[z][k]
  PROVE  /\ \A y \in Agents : \A i, j \in Nat : ConnectedIn(y, up) /\ Reported(y, z, i) /\ i <= j => Reported(y, z, j)'
         /\ \A x \in Agents : \A i, j \in Nat : ConnectedIn(x, up) /\ PathReported(x, z, i) /\ i <= j => PathReported(x, z, j)'
         /\ \A i \in 1..Len(wire[z]) : \A m : (AttachedOK(z, i, m) => AttachedOK(z, i, m)') /\ (ResponseOK(z, i, m) => ResponseOK(z, i, m)')
<1>1. ASSUME NEW y \in Agents, NEW i \in Nat, NEW j \in Nat, ConnectedIn(y, up), Reported(y, z, i), i <= j
      PROVE  Reported(y, z, j)'
  <2>1. up'[y] = up[y]
    BY <1>1 DEF Frozen
  <2>2. CASE parent[y] = up[y]
    BY <2>1, <2>2 DEF Reported
  <2>3. CASE \E k \in 1..Len(wire[z]) : k < i /\ ReportOf(y, wire[z][k])
    <3>1. PICK k \in 1..Len(wire[z]) : k < i /\ ReportOf(y, wire[z][k])
      BY <2>3
    <3>2. k \in 1..Len(wire'[z]) /\ k < j
      BY <1>1, <3>1
    <3>3. ReportOf(y, wire[z][k])'
      BY <2>1, <3>1 DEF ReportOf
    <3> QED  BY <3>1, <3>2, <3>3 DEF Reported, ReportOf
  <2> QED  BY <1>1, <2>2, <2>3 DEF Reported
<1>2. ASSUME NEW x \in Agents, NEW i \in Nat, NEW j \in Nat, ConnectedIn(x, up), PathReported(x, z, i), i <= j
      PROVE  PathReported(x, z, j)'
  <2>1. ASSUME NEW y \in Agents, x \in Subtree(y, up') PROVE Reported(y, z, j)'
    <3>1. x \in Subtree(y, up)
      BY <1>2, <2>1, FrozenPaths
    <3>2. ConnectedIn(y, up) /\ Reported(y, z, i)
      BY <1>2, <3>1, BelowConnected DEF Frozen, PathReported
    <3> QED  BY <1>1, <1>2, <3>2
  <2> QED  BY <2>1 DEF PathReported
<1>3. ASSUME NEW i \in 1..Len(wire[z]), NEW m, AttachedOK(z, i, m) PROVE AttachedOK(z, i, m)'
  <2>1. /\ m.agent \in Agents /\ m.parent \in Agents
        /\ ConnectedIn(m.agent, up) /\ up[m.agent] = m.parent /\ ZoneLeader(m.agent, up) = z
        /\ PathReported(m.parent, z, i)
    BY <1>3 DEF AttachedOK
  <2>2. ConnectedIn(m.parent, up)
    BY <2>1, OneStepUp, NoAgents DEF Frozen
  <2>3. PathReported(m.parent, z, i)'
    BY <1>2, <2>1, <2>2
  <2>4. ConnectedIn(m.agent, up') /\ up'[m.agent] = m.parent /\ ZoneLeader(m.agent, up') = z
    BY <2>1, FrozenPaths DEF Frozen
  <2> QED  BY <2>1, <2>3, <2>4 DEF AttachedOK
<1>4. ASSUME NEW i \in 1..Len(wire[z]), NEW m, ResponseOK(z, i, m) PROVE ResponseOK(z, i, m)'
  <2>1. m.agent \in Agents /\ \E k \in 1..Len(m.via) : m.via[k] = z
    BY <1>4 DEF ResponseOK
  <2>2. CASE m.via = Above(m.agent, s.tree)
    BY <2>1, <2>2 DEF ResponseOK
  <2>3. CASE ConnectedIn(m.agent, up) /\ m.via = Above(m.agent, up) /\ PathReported(m.agent, z, i)
    <3>1. PathReported(m.agent, z, i)'
      BY <1>2, <2>1, <2>3
    <3>2. ConnectedIn(m.agent, up') /\ m.via = Above(m.agent, up')
      BY <2>1, <2>3, FrozenPaths
    <3> QED  BY <2>1, <3>1, <3>2 DEF ResponseOK
  <2> QED  BY <1>4, <2>2, <2>3 DEF ResponseOK
<1> QED  BY <1>1, <1>2, <1>3, <1>4

LEMMA WiresMore ==
  ASSUME TypeOK, WiresInv, Frozen(up, up'), s' = s, parent' = parent, NEW z \in Agents, NEW ms, IsSeq(ms),
         NEW n, n = Len(wire[z]), wire' = [wire EXCEPT ![z] = @ \o ms],
         \A j \in 1..Len(ms) : /\ ms[j].t = "attached" => AttachedOK(z, n + j, ms[j])'
                               /\ ms[j].t = "response" => ResponseOK(z, n + j, ms[j])',
         \A y \in Agents : (ConnectedIn(y, up))' /\ ~ConnectedIn(y, up) =>
           Reported(y, ZoneLeader(y, up), Len(wire[ZoneLeader(y, up)]) + 1)'
  PROVE  WiresInv'
<1>1. DOMAIN wire = Agents /\ \A y \in Agents : IsSeq(wire[y]) /\ Len(wire[y]) \in Nat
  BY WireSeqs
<1>2. wire'[z] = wire[z] \o ms /\ \A y \in Agents \ {z} : wire'[y] = wire[y]
  BY <1>1
<1>3. Len(ms) \in Nat /\ Len(wire'[z]) = Len(wire[z]) + Len(ms) /\ Len(wire'[z]) \in Nat
      /\ (\A k \in 1..Len(wire[z]) : wire'[z][k] = wire[z][k])
      /\ \A k \in 1..Len(wire'[z]) : k \notin 1..Len(wire[z]) => k - Len(wire[z]) \in 1..Len(ms) /\ wire'[z][k] = ms[k - Len(wire[z])]
  BY <1>1, <1>2, SeqConcat
<1>4. \A y \in Agents : /\ Len(wire[y]) \in Nat /\ Len(wire'[y]) \in Nat /\ Len(wire[y]) <= Len(wire'[y])
                        /\ \A k \in 1..Len(wire[y]) : wire'[y][k] = wire[y][k]
  BY <1>1, <1>2, <1>3
<1>5. ASSUME NEW y \in Agents, NEW i \in 1..Len(wire'[y]), NEW m, m = wire'[y][i]
      PROVE  /\ m.t = "attached" => AttachedOK(y, i, m)'
             /\ m.t = "response" => ResponseOK(y, i, m)'
  <2>1. CASE i \in 1..Len(wire[y])
    <3>1. m = wire[y][i]
      BY <1>4, <1>5, <2>1
    <3>2. (m.t = "attached" => AttachedOK(y, i, m)) /\ (m.t = "response" => ResponseOK(y, i, m))
      BY <2>1, <3>1 DEF WiresInv
    <3>3. (AttachedOK(y, i, m) => AttachedOK(y, i, m)') /\ (ResponseOK(y, i, m) => ResponseOK(y, i, m)')
      BY <1>4, <2>1, ReportsKept
    <3> QED  BY <3>2, <3>3
  <2>2. CASE i \notin 1..Len(wire[y])
    <3>1. y = z
      BY <1>2, <2>2
    <3> DEFINE j == i - n
    <3>2. j \in 1..Len(ms) /\ m = ms[j]
      BY <1>3, <1>5, <2>2, <3>1
    <3>3. n + j = i
      BY <1>3, <2>2, <3>1
    <3> HIDE DEF j
    <3> QED  BY <3>1, <3>2, <3>3
  <2> QED  BY <2>1, <2>2
<1>6. ASSUME NEW y \in Agents, ConnectedIn(y, up')
      PROVE  Reported(y, ZoneLeader(y, up), Len(wire[ZoneLeader(y, up)]) + 1)'
  <2>1. CASE ~ConnectedIn(y, up)
    BY <1>6, <2>1
  <2>2. CASE ConnectedIn(y, up)
    <3>1. PICK x \in Agents : x = ZoneLeader(y, up) /\ ZoneLeader(y, up') = x
      BY <2>2, LeaderAbove, FrozenPaths DEF Frozen
    <3>2. PICK i : i = Len(wire[x]) + 1
      OBVIOUS
    <3>3. PICK j : j = Len(wire'[x]) + 1
      OBVIOUS
    <3>4. Reported(y, x, i) /\ i \in Nat /\ j \in Nat /\ i <= j
      BY <1>4, <2>2, <3>1, <3>2, <3>3 DEF WiresInv
    <3>5. Reported(y, x, j)'
      BY <1>4, <2>2, <3>1, <3>4, ReportsKept
    <3>6. (Reported(y, ZoneLeader(y, up), Len(wire[ZoneLeader(y, up)]) + 1))' <=> Reported(y, x, j)'
      BY <3>1, <3>3
    <3> QED  BY <3>5, <3>6
  <2> QED  BY <2>1, <2>2
<1>7. \A y \in Agents : \A i \in 1..Len(wire'[y]) :
         /\ wire'[y][i].t = "attached" => (AttachedOK(y, i, wire[y][i]))'
         /\ wire'[y][i].t = "response" => (ResponseOK(y, i, wire[y][i]))'
  <2>1. SUFFICES ASSUME NEW y \in Agents, NEW i \in 1..Len(wire'[y])
                 PROVE  /\ wire'[y][i].t = "attached" => (AttachedOK(y, i, wire[y][i]))'
                        /\ wire'[y][i].t = "response" => (ResponseOK(y, i, wire[y][i]))'
    OBVIOUS
  <2>2. PICK m : m = wire'[y][i]
    OBVIOUS
  <2>3. (m.t = "attached" => AttachedOK(y, i, m)') /\ (m.t = "response" => ResponseOK(y, i, m)')
    BY <1>5, <2>2
  <2> QED  BY <2>2, <2>3
<1> QED  BY <1>6, <1>7 DEF WiresInv

\* Cutting connects nobody.
LEMMA Unjoined ==
  ASSUME NEW f, Grounded(f), NEW b \in Agents, NEW g, g = [f EXCEPT ![b] = None]
  PROVE  Grounded(g) /\ \A x \in Agents : ConnectedIn(x, g) => ConnectedIn(x, f) /\ Above(x, f) = Above(x, g)
<1>1. Grounded(g)
  BY Redirected, NoAgents DEF Nodes
<1>2. g[b] = None /\ \A x \in Agents \ {b} : g[x] = f[x]
  BY DEF Grounded, Parents
<1>3. ~ConnectedIn(b, g)
  BY <1>1, <1>2, OneStepUp, NoAgents
<1>4. ASSUME NEW x \in Agents, ConnectedIn(x, g) PROVE ConnectedIn(x, f) /\ Above(x, f) = Above(x, g)
  <2>1. x \notin Subtree(b, g)
    BY <1>1, <1>3, <1>4, BelowConnected
  <2>2. \A y \in Agents : x \in Subtree(y, g) => f[y] = g[y]
    BY <1>2, <2>1
  <2>3. Above(x, f) = Above(x, g)
    BY <1>1, <2>2, SamePath
  <2> QED  BY <1>1, <1>4, <2>3, SameBelow
<1> QED  BY <1>1, <1>4

LEMMA RespondWires ==
  ASSUME TypeOK, TreesInv, MapsInv, WiresInv, NEW a \in Agents, Responds(a)
  PROVE  WiresInv'
<1>1. Grounded(up)
  BY DEF TreesInv
<1>2. PICK m : Reply1(a, m) /\ Writes(ZoneLeader(a, up), m)
  BY DEF Responds
<1>3. PICK z \in Agents : z = ZoneLeader(a, up)
  BY <1>1, LeaderAbove
<1>4. PICK n : n = Len(wire[z])
  OBVIOUS
<1>5. UNCHANGED <<s, up, parent>> /\ wire' = [wire EXCEPT ![z] = @ \o <<m>>] /\ ConnectedIn(a, up)
  BY <1>2, <1>3 DEF Writes, Responds
<1>6. Frozen(up, up')
  BY <1>1, <1>5 DEF Frozen
<1>7. n \in Nat /\ DOMAIN wire = Agents /\ IsSeq(wire[z])
  BY <1>4, WireSeqs
<1>8. IsSeq(<<m>>) /\ Len(<<m>>) = 1 /\ <<m>>[1] = m
  BY ShortSeqs
<1>9. PathReported(a, z, n + 1)
  <2>1. ASSUME NEW y \in Agents, a \in Subtree(y, up) PROVE Reported(y, z, n + 1)
    <3>1. ConnectedIn(y, up) /\ ZoneLeader(y, up) = z
      BY <1>1, <1>3, <1>5, <2>1, BelowConnected
    <3> QED  BY <1>4, <3>1 DEF WiresInv
  <2> QED  BY <2>1 DEF PathReported
<1>10. \E k \in 1..Len(m.via) : m.via[k] = z
  <2>1. a \in Subtree(z, up) /\ m.via = Above(a, up)
    BY <1>1, <1>2, <1>3, LeaderAbove DEF Reply1
  <2> QED  BY <2>1 DEF Subtree
<1>11. ResponseOK(z, n + 1, m)'
  <2>1. PathReported(a, z, n + 1)'
    <3>1. wire'[z] = wire[z] \o <<m>>
      BY <1>5, <1>7
    <3>2. Len(wire'[z]) = Len(wire[z]) + 1 /\ \A k \in 1..Len(wire[z]) : wire'[z][k] = wire[z][k]
      BY <1>7, <1>8, <3>1, SeqConcat
    <3>3. n + 1 \in Nat /\ Len(wire[z]) \in Nat /\ Len(wire'[z]) \in Nat /\ Len(wire[z]) <= Len(wire'[z])
      BY <1>4, <1>7, <3>2
    <3> QED  BY <1>5, <1>6, <1>9, <3>2, <3>3, ReportsKept
  <2> QED  BY <1>2, <1>5, <1>10, <2>1 DEF ResponseOK, Reply1
<1>12. \A j \in 1..Len(<<m>>) : j = 1 /\ <<m>>[j] = m
  BY <1>8
<1>13. m.t # "attached"
  BY <1>2 DEF Reply1
<1>14. PICK ms : ms = <<m>>
  OBVIOUS
<1>15. \A j \in 1..Len(ms) : /\ ms[j].t = "attached" => AttachedOK(z, n + j, ms[j])'
                             /\ ms[j].t = "response" => ResponseOK(z, n + j, ms[j])'
  BY <1>11, <1>12, <1>13, <1>14
<1> QED  BY <1>4, <1>5, <1>6, <1>8, <1>14, <1>15, WiresMore

\* Nothing is said.
LEMMA SilentWires ==
  ASSUME TypeOK, TreesInv, WiresInv, Frozen(up, up'), UNCHANGED <<s, parent, wire>>,
         \A y \in Agents : ConnectedIn(y, up') => ConnectedIn(y, up)
  PROVE  WiresInv'
<1>1. DOMAIN wire = Agents /\ \A y \in Agents : IsSeq(wire[y]) /\ Len(wire[y]) \in Nat
  BY WireSeqs
<1>2. ASSUME NEW y \in Agents, NEW i \in 1..Len(wire[y]), NEW m, m = wire[y][i]
      PROVE  /\ m.t = "attached" => AttachedOK(y, i, m)'
             /\ m.t = "response" => ResponseOK(y, i, m)'
  <2>1. (m.t = "attached" => AttachedOK(y, i, m)) /\ (m.t = "response" => ResponseOK(y, i, m))
    BY <1>2 DEF WiresInv
  <2>2. (AttachedOK(y, i, m) => AttachedOK(y, i, m)') /\ (ResponseOK(y, i, m) => ResponseOK(y, i, m)')
    BY <1>1, ReportsKept
  <2> QED  BY <2>1, <2>2
<1>3. ASSUME NEW y \in Agents, ConnectedIn(y, up')
      PROVE  Reported(y, ZoneLeader(y, up), Len(wire[ZoneLeader(y, up)]) + 1)'
  <2>1. ConnectedIn(y, up)
    BY <1>3
  <2>2. PICK x \in Agents : x = ZoneLeader(y, up) /\ ZoneLeader(y, up') = x
    BY <2>1, LeaderAbove, FrozenPaths DEF Frozen
  <2>3. PICK i : i = Len(wire[x]) + 1
    OBVIOUS
  <2>4. Reported(y, x, i) /\ i \in Nat
    BY <1>1, <2>1, <2>2, <2>3 DEF WiresInv
  <2>5. Reported(y, x, i)'
    BY <1>1, <2>1, <2>4, ReportsKept
  <2>6. (Reported(y, ZoneLeader(y, up), Len(wire[ZoneLeader(y, up)]) + 1))' <=> Reported(y, x, i)'
    BY <2>2, <2>3
  <2> QED  BY <2>5, <2>6
<1>4. \A y \in Agents : \A i \in 1..Len(wire'[y]) :
         /\ wire'[y][i].t = "attached" => (AttachedOK(y, i, wire[y][i]))'
         /\ wire'[y][i].t = "response" => (ResponseOK(y, i, wire[y][i]))'
  <2>1. SUFFICES ASSUME NEW y \in Agents, NEW i \in 1..Len(wire'[y])
                 PROVE  /\ wire'[y][i].t = "attached" => (AttachedOK(y, i, wire[y][i]))'
                        /\ wire'[y][i].t = "response" => (ResponseOK(y, i, wire[y][i]))'
    OBVIOUS
  <2>2. PICK m : m = wire[y][i] /\ m = wire'[y][i]
    OBVIOUS
  <2>3. (m.t = "attached" => AttachedOK(y, i, m)') /\ (m.t = "response" => ResponseOK(y, i, m)')
    BY <1>2, <2>2
  <2> QED  BY <2>2, <2>3
<1> QED  BY <1>3, <1>4 DEF WiresInv

\* A connection breaks, for the first time.
LEMMA CutWires ==
  ASSUME TypeOK, TreesInv, OnceInv, breaks = 0, NEW a \in Agents, Cut(a)
  PROVE  WiresInv'
<1>1. up = s.tree /\ parent = s.tree /\ Grounded(up) /\ WiresInv
      /\ \A z \in Agents : \A i \in 1..Len(wire[z]) : wire[z][i].t = "response"
  BY WholeFacts DEF TreesInv, OnceInv, Whole
<1>2. Grounded(up') /\ up' = [up EXCEPT ![a] = None] /\ UNCHANGED <<s, wire, parent>>
  BY CutMaps
<1>3. up'[a] = None /\ \A x \in Agents \ {a} : up'[x] = up[x]
  BY <1>1, <1>2 DEF Grounded, Parents
<1>4. ASSUME NEW y \in Agents, ConnectedIn(y, up')
      PROVE  Reported(y, ZoneLeader(y, up), Len(wire[ZoneLeader(y, up)]) + 1)'
  <2>1. y # a
    BY <1>2, <1>3, <1>4, OneStepUp, NoAgents
  <2>2. parent'[y] = up'[y]
    BY <1>1, <1>2, <1>3, <2>1
  <2> QED  BY <2>2 DEF Reported
<1>5. ASSUME NEW y \in Agents, NEW i \in 1..Len(wire[y]), NEW m, m = wire[y][i]
      PROVE  m.t = "response" /\ ResponseOK(y, i, m)'
  <2>1. m.t = "response" /\ ResponseOK(y, i, m)
    BY <1>1, <1>5 DEF WiresInv
  <2>2. m.via = Above(m.agent, s.tree)
    BY <1>1, <2>1 DEF ResponseOK
  <2> QED  BY <1>2, <2>1, <2>2 DEF ResponseOK
<1>6. \A y \in Agents : \A i \in 1..Len(wire'[y]) :
         /\ wire'[y][i].t = "attached" => (AttachedOK(y, i, wire[y][i]))'
         /\ wire'[y][i].t = "response" => (ResponseOK(y, i, wire[y][i]))'
  <2>1. SUFFICES ASSUME NEW y \in Agents, NEW i \in 1..Len(wire'[y])
                 PROVE  wire'[y][i].t # "attached" /\ (ResponseOK(y, i, wire[y][i]))'
    OBVIOUS
  <2>2. PICK m : m = wire[y][i] /\ m = wire'[y][i]
    BY <1>2
  <2>3. m.t = "response" /\ ResponseOK(y, i, m)'
    BY <1>2, <1>5, <2>2
  <2> QED  BY <2>2, <2>3
<1> QED  BY <1>4, <1>6 DEF WiresInv

\* What a lost stream held is gone.
LEMMA ServerNoticesWires ==
  ASSUME TypeOK, TreesInv, WiresInv, NEW a \in Agents, ServerNotices(a)
  PROVE  WiresInv'
<1>1. DOMAIN wire = Agents /\ Grounded(up)
  BY WireSeqs DEF TreesInv
<1>2. up[a] # Server /\ wire' = [wire EXCEPT ![a] = <<>>] /\ UNCHANGED <<s, up, parent>>
  BY DEF ServerNotices, topology
<1>3. wire'[a] = <<>> /\ \A y \in Agents \ {a} : wire'[y] = wire[y]
  BY <1>1, <1>2
<1>4. \A y \in Agents : ConnectedIn(y, up) => ZoneLeader(y, up) \in Agents \ {a}
  BY <1>1, <1>2, LeaderAbove
<1>6. \A x \in Agents, z \in Agents \ {a} : \A i :
        (Reported(x, z, i) => Reported(x, z, i)') /\ (PathReported(x, z, i) => PathReported(x, z, i)')
  BY <1>2, <1>3 DEF Reported, ReportOf, PathReported
<1>7. ASSUME NEW y \in Agents, ConnectedIn(y, up')
      PROVE  Reported(y, ZoneLeader(y, up), Len(wire[ZoneLeader(y, up)]) + 1)'
  <2>1. ConnectedIn(y, up)
    BY <1>2, <1>7
  <2>2. PICK x \in Agents \ {a} : x = ZoneLeader(y, up)
    BY <1>4, <2>1
  <2>3. PICK i : i = Len(wire[x]) + 1
    OBVIOUS
  <2>4. Reported(y, x, i)'
    BY <1>6, <2>1, <2>2, <2>3 DEF WiresInv
  <2>5. (Reported(y, ZoneLeader(y, up), Len(wire[ZoneLeader(y, up)]) + 1))' <=> Reported(y, x, i)'
    BY <1>2, <1>3, <2>2, <2>3
  <2> QED  BY <2>4, <2>5
<1>8. \A y \in Agents : \A i \in 1..Len(wire'[y]) :
         /\ wire'[y][i].t = "attached" => (AttachedOK(y, i, wire[y][i]))'
         /\ wire'[y][i].t = "response" => (ResponseOK(y, i, wire[y][i]))'
  <2>1. SUFFICES ASSUME NEW y \in Agents, NEW i \in 1..Len(wire'[y])
                 PROVE  /\ wire'[y][i].t = "attached" => (AttachedOK(y, i, wire[y][i]))'
                        /\ wire'[y][i].t = "response" => (ResponseOK(y, i, wire[y][i]))'
    OBVIOUS
  <2>2. y # a
    BY <1>3, <2>1, ShortSeqs
  <2>3. PICK m : m = wire[y][i] /\ m = wire'[y][i]
    BY <1>3, <2>2
  <2>4. (m.t = "attached" => AttachedOK(y, i, m)) /\ (m.t = "response" => ResponseOK(y, i, m))
    BY <1>3, <2>2, <2>3 DEF WiresInv
  <2>5. (AttachedOK(y, i, m) => AttachedOK(y, i, m)') /\ (ResponseOK(y, i, m) => ResponseOK(y, i, m)')
    BY <1>2, <1>6, <2>2 DEF AttachedOK, ResponseOK
  <2> QED  BY <2>3, <2>4, <2>5
<1> QED  BY <1>7, <1>8 DEF WiresInv

LEMMA RelayNoticesWires ==
  ASSUME TypeOK, TreesInv, WiresInv, NEW p \in Agents, NEW a \in Agents, RelayNotices(p, a)
  PROVE  WiresInv'
<1>1. Grounded(up) /\ UNCHANGED <<s, up, parent>>
  BY DEF TreesInv, RelayNotices, serverVars, topology
<1>2. Frozen(up, up')
  BY <1>1 DEF Frozen
<1>3. CASE ~Connected(p)
  BY <1>1, <1>2, <1>3, SilentWires DEF RelayNotices
<1>4. CASE Connected(p)
  <2>1. PICK m : m = [t |-> "lost", agent |-> a]
    OBVIOUS
  <2>2. PICK z \in Agents : z = ZoneLeader(p, up)
    BY <1>1, LeaderAbove
  <2>3. PICK n : n = Len(wire[z])
    OBVIOUS
  <2>4. PICK ms : ms = <<m>>
    OBVIOUS
  <2>5. wire' = [wire EXCEPT ![z] = @ \o ms]
    BY <1>4, <2>1, <2>2, <2>4 DEF RelayNotices
  <2>6. IsSeq(ms) /\ \A j \in 1..Len(ms) : ms[j] = m
    BY <2>4, ShortSeqs
  <2>7. m.t # "attached" /\ m.t # "response"
    BY <2>1
  <2>8. \A j \in 1..Len(ms) : ms[j].t # "attached" /\ ms[j].t # "response"
    BY <2>6, <2>7
  <2>9. \A y \in Agents : (ConnectedIn(y, up))' => ConnectedIn(y, up)
    BY <1>1
  <2> HIDE DEF WiresInv
  <2> QED  BY <1>1, <1>2, <2>3, <2>5, <2>6, <2>8, <2>9, WiresMore
<1> QED  BY <1>3, <1>4

\* What is sent up when an agent attaches: first that it did, then its peers.
Report(y, q) == [t |-> "attached", agent |-> y, parent |-> q]
LEMMA AttachSends ==
  ASSUME TypeOK, NEW a \in Agents, NEW p \in Agents \cup {Server}, Attach(a, p)
  PROVE  \E ms : /\ IsSeq(ms) /\ wire' = [wire EXCEPT ![ZoneLeader(a, up')] = @ \o ms]
                 /\ p # Server => Len(ms) >= 1 /\ ms[1] = Report(a, p)
                 /\ \A j \in 1..Len(ms) : \/ p # Server /\ ms[j] = Report(a, p)
                                          \/ (p # Server => 1 < j) /\ \E x \in down[a] : ms[j] = Report(x, a)
<1> DEFINE announced == {Report(x, a) : x \in down[a]}
           first == IF p = Server THEN <<>> ELSE <<Report(a, p)>>
<1>1. \E order \in [1..Cardinality(announced) -> announced] :
        wire' = [wire EXCEPT ![ZoneLeader(a, up')] = @ \o (first \o order)]
  BY DEF Attach, Report
<1>2. PICK order \in [1..Cardinality(announced) -> announced] : wire' = [wire EXCEPT ![ZoneLeader(a, up')] = @ \o (first \o order)]
  BY <1>1
<1>3. Cardinality(announced) \in Nat
  <2> DEFINE f == [x \in down[a] |-> Report(x, a)]
  <2>1. f \in Surjection(down[a], announced)
    BY DEF Surjection
  <2>2. IsFiniteSet(down[a])
    BY NodesAssumption, FS_Subset DEF TypeOK, ServerTypes
  <2> HIDE DEF announced, f
  <2> QED  BY <2>1, <2>2, FS_Surjection, FS_CardinalityType
<1>4. IsSeq(order) /\ \A i \in 1..Len(order) : order[i] \in announced
  <2> HIDE DEF announced
  <2>1. order \in Seq(announced)
    BY <1>3, SeqOf
  <2> QED  BY <2>1, SeqElements
<1>5. PICK m : m = Report(a, p)
  OBVIOUS
<1>6. IsSeq(<<m>>) /\ Len(<<m>>) = 1 /\ <<m>>[1] = m /\ IsSeq(<<>>) /\ Len(<<>>) = 0
  BY ShortSeqs
<1>7. first = IF p = Server THEN <<>> ELSE <<m>>
  BY <1>5
<1> HIDE DEF first
<1>8. IsSeq(first) /\ Len(first) = (IF p = Server THEN 0 ELSE 1) /\ (p # Server => first[1] = m)
  BY <1>6, <1>7
<1> DEFINE ms == first \o order
<1>9. IsSeq(ms) /\ Len(order) \in Nat /\ Len(ms) = Len(first) + Len(order) /\ (\A i \in 1..Len(first) : ms[i] = first[i])
      /\ \A i \in 1..Len(ms) : i \notin 1..Len(first) => i - Len(first) \in 1..Len(order) /\ ms[i] = order[i - Len(first)]
  BY <1>4, <1>8, SeqConcat
<1> HIDE DEF announced
<1>10. \A j \in 1..Len(ms) : \/ p # Server /\ ms[j] = m
                             \/ (p # Server => 1 < j) /\ ms[j] \in announced
  <2> SUFFICES ASSUME NEW j \in 1..Len(ms)
               PROVE  \/ p # Server /\ ms[j] = m
                      \/ (p # Server => 1 < j) /\ ms[j] \in announced
    OBVIOUS
  <2> HIDE DEF ms
  <2>1. CASE j \in 1..Len(first)
    <3>1. p # Server /\ j = 1
      BY <1>8, <2>1
    <3> QED  BY <1>8, <1>9, <2>1, <3>1
  <2>2. CASE j \notin 1..Len(first)
    <3>1. ms[j] \in announced
      BY <1>4, <1>9, <2>2
    <3>2. p # Server => 1 < j
      BY <1>8, <2>2
    <3> QED  BY <3>1, <3>2
  <2> QED  BY <2>1, <2>2
<1>11. p # Server => Len(ms) >= 1 /\ ms[1] = m
  <2> HIDE DEF ms
  <2> QED  BY <1>8, <1>9
<1>12. wire' = [wire EXCEPT ![ZoneLeader(a, up')] = @ \o ms]
  BY <1>2 DEF ms
<1>13. \A x : x \in announced => \E y \in down[a] : x = Report(y, a)
  BY DEF announced
<1>14. \A j \in 1..Len(ms) : \/ p # Server /\ ms[j] = Report(a, p)
                             \/ (p # Server => 1 < j) /\ \E x \in down[a] : ms[j] = Report(x, a)
  <2> HIDE DEF ms
  <2> QED  BY <1>5, <1>10, <1>13
<1>15. IsSeq(ms) /\ (p # Server => Len(ms) >= 1 /\ ms[1] = Report(a, p))
  <2> HIDE DEF ms
  <2> QED  BY <1>5, <1>9, <1>11
<1> HIDE DEF ms
<1> QED  BY <1>12, <1>14, <1>15

LEMMA AttachWires ==
  ASSUME TypeOK, TreesInv, MapsInv, WiresInv, NEW a \in Agents, NEW p \in Agents \cup {Server}, Attach(a, p)
  PROVE  WiresInv'
<1>1. /\ Frozen(up, up') /\ Grounded(up) /\ Grounded(up') /\ up'[a] = p /\ \A x \in Agents \ {a} : up'[x] = up[x]
      /\ \A x \in Subtree(a, up) : ConnectedIn(x, up')
      /\ \A x \in Agents : ConnectedIn(x, up') => ConnectedIn(x, up) \/ x \in Subtree(a, up)
      /\ p \in Agents => ConnectedIn(p, up)
  BY AttachMaps DEF TreesInv
<1>2. UNCHANGED <<s, parent>> /\ up[a] = None /\ (s.tree[a] = Server => p = Server) /\ (p = Server => s.tree[a] = Server)
  BY NoAgents DEF Attach, serverVars, topology
<1>3. ~ConnectedIn(a, up) /\ a \in Subtree(a, up) /\ a \in Subtree(a, up')
  BY <1>1, <1>2, OneStepUp, NoAgents
<1>4. PICK z \in Agents : z = ZoneLeader(a, up')
  BY <1>1, LeaderAbove
<1>a. PICK ms : /\ IsSeq(ms) /\ wire' = [wire EXCEPT ![ZoneLeader(a, up')] = @ \o ms]
                /\ p # Server => Len(ms) >= 1 /\ ms[1] = Report(a, p)
                /\ \A j \in 1..Len(ms) : \/ p # Server /\ ms[j] = Report(a, p)
                                         \/ (p # Server => 1 < j) /\ \E x \in down[a] : ms[j] = Report(x, a)
  BY AttachSends
<1>5. /\ IsSeq(ms) /\ wire' = [wire EXCEPT ![z] = @ \o ms]
      /\ p # Server => Len(ms) >= 1 /\ ms[1] = Report(a, p)
      /\ \A j \in 1..Len(ms) : \/ p # Server /\ ms[j] = Report(a, p)
                               \/ (p # Server => 1 < j) /\ \E x \in down[a] : ms[j] = Report(x, a)
  BY <1>4, <1>a
<1>6. PICK n : n = Len(wire[z])
  OBVIOUS
<1>7. DOMAIN wire = Agents /\ IsSeq(wire[z]) /\ n \in Nat
  BY <1>6, WireSeqs
<1>8. wire'[z] = wire[z] \o ms
  BY <1>5, <1>7
<1>9. /\ Len(ms) \in Nat /\ Len(wire'[z]) = n + Len(ms) /\ Len(wire'[z]) \in Nat /\ n <= Len(wire'[z])
      /\ \A k \in 1..n : wire'[z][k] = wire[z][k]
      /\ \A k \in 1..Len(wire'[z]) : k \notin 1..n => wire'[z][k] = ms[k - n]
  BY <1>5, <1>6, <1>7, <1>8, SeqConcat
<1>10. ASSUME p # Server PROVE n + 1 \in 1..Len(wire'[z]) /\ wire'[z][n + 1] = Report(a, p)
  <2>1. Len(ms) >= 1 /\ ms[1] = Report(a, p)
    BY <1>5, <1>10
  <2>2. n + 1 \in 1..Len(wire'[z]) /\ n + 1 \notin 1..n /\ (n + 1) - n = 1
    BY <1>7, <1>9, <2>1
  <2> QED  BY <1>9, <2>1, <2>2
<1>11. ASSUME p # Server, NEW i \in Nat, n + 1 < i PROVE Reported(a, z, i)'
  <2>1. ReportOf(a, Report(a, p))'
    BY <1>1 DEF ReportOf, Report
  <2> HIDE DEF Report
  <2>2. ReportOf(a, wire[z][n + 1])'
    BY <1>10, <1>11, <2>1 DEF ReportOf
  <2> QED  BY <1>10, <1>11, <2>2 DEF Reported
<1>12. ASSUME p = Server, NEW i PROVE Reported(a, z, i)'
  <2>1. parent[a] = Server
    BY <1>2, <1>3, <1>12 DEF MapsInv
  <2> QED  BY <1>1, <1>2, <1>12, <2>1 DEF Reported
<1>13. ASSUME p \in Agents, NEW y \in Agents, p \in Subtree(y, up'), NEW i \in Nat, n + 1 <= i PROVE Reported(y, z, i)'
  <2>1. ConnectedIn(p, up) /\ p \in Subtree(y, up) /\ ZoneLeader(p, up') = ZoneLeader(p, up)
    BY <1>1, <1>13, FrozenPaths
  <2>2. ZoneLeader(p, up') = z
    BY <1>1, <1>4, <1>13, OneStepUp
  <2>3. ConnectedIn(y, up) /\ ZoneLeader(y, up) = z
    BY <1>1, <1>13, <2>1, <2>2, BelowConnected
  <2>4. Reported(y, z, n + 1) /\ n + 1 \in Nat
    BY <1>6, <1>7, <2>3 DEF WiresInv
  <2> QED  BY <1>1, <1>2, <1>6, <1>7, <1>9, <1>13, <2>3, <2>4, ReportsKept
<1>14. \A x \in down[a] : x \in Agents /\ up[x] = a /\ x # a /\ up'[x] = a
  <2>1. down[a] \subseteq Agents
    BY DEF TypeOK, ServerTypes
  <2>2. \A x \in down[a] : up[x] = a
    BY <1>3 DEF MapsInv
  <2> QED  BY <1>1, <1>2, <2>1, <2>2, NoAgents
<1>15. ASSUME NEW j \in 1..Len(ms), NEW m, m = ms[j] PROVE m.t = "attached" /\ AttachedOK(z, n + j, m)'
  <2>1. j \in Nat /\ n + j \in Nat /\ n + 1 <= n + j /\ (1 < j => n + 1 < n + j)
    BY <1>7, <1>9
  <2>2. CASE p # Server /\ m = Report(a, p)
    <3>1. m.t = "attached" /\ m.agent = a /\ m.parent = p
      BY <2>2 DEF Report
    <3>2. p \in Agents
      BY <2>2
    <3>3. PathReported(p, z, n + j)'
      BY <1>13, <2>1, <3>2 DEF PathReported
    <3> QED  BY <1>1, <1>3, <1>4, <3>1, <3>2, <3>3 DEF AttachedOK
  <2>3. CASE (p # Server => 1 < j) /\ \E x \in down[a] : m = Report(x, a)
    <3>1. PICK x \in down[a] : m = Report(x, a)
      BY <2>3
    <3>2. m.t = "attached" /\ m.agent = x /\ m.parent = a
      BY <3>1 DEF Report
    <3>3. x \in Agents /\ up[x] = a /\ up'[x] = a
      BY <1>14
    <3>4. ConnectedIn(x, up') /\ ZoneLeader(x, up') = z
      BY <1>1, <1>3, <1>4, <3>3, OneStepUp
    <3>5. ASSUME NEW y \in Agents, a \in Subtree(y, up') PROVE Reported(y, z, n + j)'
      <4>1. CASE y = a
        BY <1>11, <1>12, <2>1, <2>3, <4>1
      <4>2. CASE y # a
        <5>1. p \in Agents /\ p \in Subtree(y, up')
          BY <1>1, <3>5, <4>2, OneStepUp
        <5> QED  BY <1>13, <2>1, <5>1
      <4> QED  BY <4>1, <4>2
    <3>6. PathReported(a, z, n + j)'
      BY <3>5 DEF PathReported
    <3> QED  BY <3>2, <3>3, <3>4, <3>6 DEF AttachedOK
  <2> QED  BY <1>5, <1>15, <2>2, <2>3
<1>16. ASSUME NEW x \in Agents, x \in Subtree(a, up) PROVE ZoneLeader(x, up') = z
  <2> DEFINE S == {y \in Agents : y \in Subtree(a, up) => y \in Subtree(a, up')}
  <2>1. ASSUME NEW y \in Agents, up[y] \in Agents => up[y] \in S PROVE y \in S
    BY <1>1, <1>3, <2>1, OneStepUp
  <2>2. Agents \subseteq S
    <3> HIDE DEF S
    <3> QED  BY <1>1, <2>1, Climb
  <2> QED  BY <1>1, <1>4, <1>16, <2>2, BelowConnected
<1>17. ASSUME NEW y \in Agents, (ConnectedIn(y, up))', ~ConnectedIn(y, up)
       PROVE  Reported(y, ZoneLeader(y, up), Len(wire[ZoneLeader(y, up)]) + 1)'
  <2>1. y \in Subtree(a, up) /\ ZoneLeader(y, up') = z
    BY <1>1, <1>16, <1>17
  <2>2. PICK i : i = Len(wire'[z]) + 1
    OBVIOUS
  <2>3. Reported(y, z, i)'
    <3>1. CASE y # a
      <4>1. up[y] \in Agents
        BY <1>1, <2>1, <3>1, OneStepUp
      <4>2. up[y] = s.tree[y] /\ parent[y] = s.tree[y]
        BY <1>17, <4>1, NoAgents DEF MapsInv
      <4> QED  BY <1>1, <1>2, <3>1, <4>2 DEF Reported
    <3>2. CASE y = a /\ p = Server
      BY <1>12, <3>2
    <3>3. CASE y = a /\ p # Server
      <4>1. i \in Nat /\ n + 1 < i
        BY <1>7, <1>9, <1>10, <2>2, <3>3
      <4> QED  BY <1>11, <3>3, <4>1
    <3> QED  BY <3>1, <3>2, <3>3
  <2>4. (Reported(y, ZoneLeader(y, up), Len(wire[ZoneLeader(y, up)]) + 1))' <=> Reported(y, z, i)'
    BY <2>1, <2>2
  <2> QED  BY <2>3, <2>4
<1>18. \A j \in 1..Len(ms) : /\ ms[j].t = "attached" => AttachedOK(z, n + j, ms[j])'
                             /\ ms[j].t = "response" => ResponseOK(z, n + j, ms[j])'
  BY <1>15
<1> HIDE DEF WiresInv
<1> QED  BY <1>1, <1>2, <1>5, <1>6, <1>17, <1>18, WiresMore

\* A report that is next is one the server takes.
LEMMA ReportTaken ==
  ASSUME TreesInv, MapsInv, NEW z \in Agents, NEW m, m.t = "attached", AttachedOK(z, 1, m)
  PROVE  Takes(z, m) /\ m.agent \in Agents /\ m.parent \in Agents /\ up[m.agent] = m.parent /\ ConnectedIn(m.agent, up)
         /\ m.parent \notin Subtree(m.agent, parent)
<1>1. Grounded(up) /\ Grounded(parent)
  BY DEF TreesInv, MapsInv
<1>2. PICK x \in Agents : x = m.agent
  BY DEF AttachedOK
<1>3. PICK p \in Agents : p = m.parent
  BY DEF AttachedOK
<1>4. ConnectedIn(x, up) /\ up[x] = p /\ ZoneLeader(x, up) = z /\ PathReported(p, z, 1)
  BY <1>2, <1>3 DEF AttachedOK
<1>5. \A y \in Agents : p \in Subtree(y, up) => parent[y] = up[y]
  BY <1>4, WireSeqs DEF PathReported, Reported
<1>6. Above(p, parent) = Above(p, up)
  BY <1>1, <1>5, SamePath
<1>7. \A y \in Agents : p \in Subtree(y, parent) <=> p \in Subtree(y, up)
  BY <1>1, <1>6, SameBelow
<1>8. ZoneLeader(p, up) = z /\ p \in Subtree(z, up)
  BY <1>1, <1>4, OneStepUp, LeaderAbove
<1>9. p \notin Subtree(x, up)
  BY <1>1, <1>4, BelowOrder
<1> QED  BY <1>2, <1>3, <1>4, <1>7, <1>8, <1>9 DEF Takes, OriginAllows

LEMMA ReadKnown ==
  ASSUME TypeOK, TreesInv, MapsInv, WiresInv, NEW z \in Agents, Reads(z)
  PROVE  /\ UNCHANGED <<s, up, down>> /\ DOMAIN wire = Agents
         /\ \A y \in Agents : (parent[y] = up[y] \/ ReportOf(y, wire[z][1]) => parent'[y] = up[y])
                              /\ (parent'[y] = parent[y] \/ (parent'[y] = up[y] /\ ConnectedIn(y, up)))
         /\ Grounded(parent')
         /\ Len(wire'[z]) = Len(wire[z]) - 1 /\ Len(wire[z]) \in Nat \ {0}
         /\ \A i \in 1..Len(wire'[z]) : i + 1 \in 1..Len(wire[z]) /\ wire'[z][i] = wire[z][i + 1]
         /\ \A x \in Agents \ {z} : wire'[x] = wire[x]
<1>1. DOMAIN wire = Agents /\ IsSeq(wire[z])
  BY WireSeqs
<1>2. UNCHANGED <<s, up, down>> /\ wire[z] # <<>> /\ wire' = [wire EXCEPT ![z] = Tail(@)]
  BY DEF Reads
<1>3. wire'[z] = Tail(wire[z]) /\ \A x \in Agents \ {z} : wire'[x] = wire[x]
  BY <1>1, <1>2
<1>4. /\ Len(wire'[z]) = Len(wire[z]) - 1 /\ Len(wire[z]) \in Nat \ {0} /\ Head(wire[z]) = wire[z][1]
      /\ \A i \in 1..Len(wire'[z]) : i + 1 \in 1..Len(wire[z]) /\ wire'[z][i] = wire[z][i + 1]
  BY <1>1, <1>2, <1>3, SeqTail
<1>5. PICK m : m = wire[z][1]
  OBVIOUS
<1>6. 1 \in 1..Len(wire[z])
  BY <1>4
<1>7. parent' = IF Takes(z, m) THEN [parent EXCEPT ![m.agent] = m.parent] ELSE parent
  BY <1>4, <1>5 DEF Reads
<1>8. Grounded(parent) /\ parent \in Parents
  BY DEF MapsInv, Grounded
<1>9. CASE m.t = "attached"
  <2>1. AttachedOK(z, 1, m)
    BY <1>5, <1>6, <1>9 DEF WiresInv
  <2>2. Takes(z, m) /\ m.agent \in Agents /\ m.parent \in Agents /\ up[m.agent] = m.parent /\ ConnectedIn(m.agent, up)
        /\ m.parent \notin Subtree(m.agent, parent)
    BY <1>9, <2>1, ReportTaken
  <2>3. parent' = [parent EXCEPT ![m.agent] = m.parent]
    BY <1>7, <2>2
  <2>4. parent'[m.agent] = m.parent /\ \A y \in Agents \ {m.agent} : parent'[y] = parent[y]
    BY <1>8, <2>2, <2>3 DEF Parents
  <2>5. Grounded(parent')
    <3>1. PICK x \in Agents : x = m.agent
      BY <2>2
    <3>2. PICK p \in Agents : p = m.parent
      BY <2>2
    <3>3. p \in Nodes /\ p \notin Subtree(x, parent) /\ parent' = [parent EXCEPT ![x] = p]
      BY <2>2, <2>3, <3>1, <3>2 DEF Nodes
    <3> QED  BY <1>8, <3>3, Redirected
  <2>6. \A y \in Agents : /\ parent[y] = up[y] \/ ReportOf(y, m) => parent'[y] = up[y]
                          /\ parent'[y] = parent[y] \/ (parent'[y] = up[y] /\ ConnectedIn(y, up))
    BY <2>2, <2>4 DEF ReportOf
  <2> QED  BY <1>1, <1>2, <1>3, <1>4, <1>5, <2>5, <2>6
<1>10. CASE m.t # "attached"
  <2>1. parent' = parent /\ \A y \in Agents : ~ReportOf(y, m)
    BY <1>7, <1>10 DEF Takes, ReportOf
  <2> QED  BY <1>1, <1>2, <1>3, <1>4, <1>5, <1>8, <2>1
<1> QED  BY <1>9, <1>10

LEMMA ReadStep ==
  ASSUME TypeOK, TreesInv, MapsInv, WiresInv, NEW z \in Agents, Reads(z)
  PROVE  MapsInv' /\ WiresInv'
<1>1. /\ UNCHANGED <<s, up, down>> /\ Grounded(up)
      /\ \A y \in Agents : (parent[y] = up[y] \/ ReportOf(y, wire[z][1]) => parent'[y] = up[y])
                           /\ (parent'[y] = parent[y] \/ (parent'[y] = up[y] /\ ConnectedIn(y, up)))
      /\ Grounded(parent')
      /\ Len(wire'[z]) = Len(wire[z]) - 1 /\ Len(wire[z]) \in Nat \ {0}
      /\ \A i \in 1..Len(wire'[z]) : i + 1 \in 1..Len(wire[z]) /\ wire'[z][i] = wire[z][i + 1]
      /\ \A x \in Agents \ {z} : wire'[x] = wire[x]
  BY ReadKnown DEF TreesInv
<1>2. MapsInv'
  <2>1. \A y \in Agents : parent'[y] = s'.tree[y] \/ (ConnectedIn(y, up') /\ parent'[y] = up'[y])
    BY <1>1 DEF MapsInv
  <2> QED  BY <1>1, <2>1 DEF MapsInv
<1>3. ASSUME NEW y \in Agents, NEW x \in Agents \ {z}, NEW i, Reported(y, x, i) PROVE Reported(y, x, i)'
  BY <1>1, <1>3 DEF Reported, ReportOf
<1>4. ASSUME NEW y \in Agents, NEW i \in Nat, Reported(y, z, i + 1) PROVE Reported(y, z, i)'
  <2>1. CASE parent[y] = up[y]
    BY <1>1, <2>1 DEF Reported
  <2>2. CASE parent[y] # up[y]
    <3>1. PICK k \in 1..Len(wire[z]) : k < i + 1 /\ ReportOf(y, wire[z][k])
      BY <1>4, <2>2 DEF Reported
    <3>2. CASE k = 1
      BY <1>1, <3>1, <3>2 DEF Reported
    <3>3. CASE k # 1
      <4>1. k - 1 \in 1..Len(wire'[z]) /\ (k - 1) + 1 = k /\ k - 1 < i
        BY <1>1, <3>1, <3>3
      <4>2. wire'[z][k - 1] = wire[z][k]
        BY <1>1, <4>1
      <4>3. (ReportOf(y, wire[z][k - 1]))'
        BY <1>1, <3>1, <4>2 DEF ReportOf
      <4> QED  BY <4>1, <4>3 DEF Reported
    <3> QED  BY <3>2, <3>3
  <2> QED  BY <2>1, <2>2
<1>5. \A x \in Agents : \A y \in Agents \ {z} : \A i : PathReported(x, y, i) => PathReported(x, y, i)'
  BY <1>1, <1>3 DEF PathReported
<1>6. \A x \in Agents : \A i \in Nat : PathReported(x, z, i + 1) => PathReported(x, z, i)'
  BY <1>1, <1>4 DEF PathReported
<1>7. ASSUME NEW x \in Agents, (ConnectedIn(x, up))'
      PROVE  Reported(x, ZoneLeader(x, up), Len(wire[ZoneLeader(x, up)]) + 1)'
  <2>1. PICK y \in Agents : y = ZoneLeader(x, up)
    BY <1>1, LeaderAbove
  <2>2. PICK i : i = Len(wire'[y]) + 1
    OBVIOUS
  <2>3. Reported(x, y, Len(wire[y]) + 1)
    BY <1>1, <1>7, <2>1 DEF WiresInv
  <2>4. Reported(x, y, i)'
    <3>1. CASE y = z
      <4>1. i \in Nat /\ i + 1 = Len(wire[z]) + 1
        BY <1>1, <2>2, <3>1
      <4>2. Reported(x, z, i + 1)
        BY <2>3, <3>1, <4>1
      <4> QED  BY <1>4, <3>1, <4>1, <4>2
    <3>2. CASE y # z
      BY <1>1, <1>3, <2>2, <2>3, <3>2
    <3> QED  BY <3>1, <3>2
  <2>5. (Reported(x, ZoneLeader(x, up), Len(wire[ZoneLeader(x, up)]) + 1))' <=> Reported(x, y, i)'
    BY <1>1, <2>1, <2>2
  <2> QED  BY <2>4, <2>5
<1>8. ASSUME NEW y \in Agents, NEW i \in 1..Len(wire'[y]), NEW m, m = wire'[y][i]
      PROVE  /\ m.t = "attached" => AttachedOK(y, i, m)'
             /\ m.t = "response" => ResponseOK(y, i, m)'
  <2>1. CASE y # z
    <3>1. wire'[y] = wire[y]
      BY <1>1, <2>1
    <3>2. (m.t = "attached" => AttachedOK(y, i, m)) /\ (m.t = "response" => ResponseOK(y, i, m))
      BY <1>8, <3>1 DEF WiresInv
    <3> QED  BY <1>1, <1>5, <2>1, <3>2 DEF AttachedOK, ResponseOK
  <2>2. CASE y = z
    <3>1. i \in Nat /\ i + 1 \in 1..Len(wire[z]) /\ m = wire[z][i + 1]
      BY <1>1, <1>8, <2>2
    <3>2. (m.t = "attached" => AttachedOK(z, i + 1, m)) /\ (m.t = "response" => ResponseOK(z, i + 1, m))
      BY <3>1 DEF WiresInv
    <3> QED  BY <1>1, <1>6, <2>2, <3>1, <3>2 DEF AttachedOK, ResponseOK
  <2> QED  BY <2>1, <2>2
<1>9. \A y \in Agents : \A i \in 1..Len(wire'[y]) :
         /\ wire'[y][i].t = "attached" => (AttachedOK(y, i, wire[y][i]))'
         /\ wire'[y][i].t = "response" => (ResponseOK(y, i, wire[y][i]))'
  <2>1. SUFFICES ASSUME NEW y \in Agents, NEW i \in 1..Len(wire'[y])
                 PROVE  /\ wire'[y][i].t = "attached" => (AttachedOK(y, i, wire[y][i]))'
                        /\ wire'[y][i].t = "response" => (ResponseOK(y, i, wire[y][i]))'
    OBVIOUS
  <2>2. PICK m : m = wire'[y][i]
    OBVIOUS
  <2>3. (m.t = "attached" => AttachedOK(y, i, m)') /\ (m.t = "response" => ResponseOK(y, i, m)')
    BY <1>8, <2>2
  <2> QED  BY <2>2, <2>3
<1>10. WiresInv'
  BY <1>7, <1>9 DEF WiresInv
<1> QED  BY <1>2, <1>10

-----------------------------------------------------------------------------
\* Before a connection broke, and up to one, whatever the step.
LEMMA WholeStep ==
  ASSUME TypeOK, TypeOK', TreesInv, OnceInv, breaks' = 0, breaks = 0, [Next]_vars
  PROVE  Whole'
<1>1. /\ up = s.tree /\ parent = s.tree /\ Grounded(up) /\ \A x \in Agents : ConnectedIn(x, up) /\ up[x] # None
      /\ \A n \in Agents \cup {Server} : \A x \in Agents : x \in down[n] <=> up[x] = n
      /\ \A z \in Agents : \A i \in 1..Len(wire[z]) : wire[z][i].t = "response"
  BY WholeFacts DEF TreesInv, OnceInv, Whole
<1>2. CASE Still
  BY <1>1, <1>2 DEF Still, Whole
<1>3. CASE \E a \in Agents : Reads(a)
  <2>1. PICK z \in Agents : Reads(z)
    BY <1>3
  <2>2. DOMAIN wire = Agents /\ IsSeq(wire[z]) /\ wire[z] # <<>> /\ UNCHANGED <<s, up, down>> /\ wire' = [wire EXCEPT ![z] = Tail(@)]
    BY <2>1, WireSeqs DEF Reads
  <2>3. /\ 1 \in 1..Len(wire[z]) /\ Head(wire[z]) = wire[z][1]
        /\ \A i \in 1..Len(Tail(wire[z])) : i + 1 \in 1..Len(wire[z]) /\ Tail(wire[z])[i] = wire[z][i + 1]
    BY <2>2, SeqTail
  <2>4. PICK m : m = Head(wire[z])
    OBVIOUS
  <2>5. m.t # "attached"
    BY <1>1, <2>3, <2>4
  <2>6. parent' = parent
    BY <2>1, <2>4, <2>5 DEF Reads, Takes
  <2>7. \A y \in Agents : \A i \in 1..Len(wire'[y]) : wire'[y][i].t = "response"
    <3>1. SUFFICES ASSUME NEW y \in Agents, NEW i \in 1..Len(wire'[y]) PROVE wire'[y][i].t = "response"
      OBVIOUS
    <3>2. CASE y = z
      BY <1>1, <2>2, <2>3, <3>1, <3>2
    <3>3. CASE y # z
      BY <1>1, <2>2, <3>1, <3>3
    <3> QED  BY <3>2, <3>3
  <2> QED  BY <1>1, <2>2, <2>6, <2>7 DEF Whole
<1>4. CASE \E a \in Agents : Responds(a)
  <2>1. PICK a \in Agents : Responds(a)
    BY <1>4
  <2>2. PICK m : Reply1(a, m) /\ Writes(ZoneLeader(a, up), m)
    BY <2>1 DEF Responds
  <2>3. PICK z : z = ZoneLeader(a, up)
    OBVIOUS
  <2>4. UNCHANGED <<s, up, down, parent>> /\ wire' = [wire EXCEPT ![z] = @ \o <<m>>] /\ m.t = "response"
    BY <2>1, <2>2, <2>3 DEF Responds, Writes, Reply1
  <2>5. \A y \in Agents : \A i \in 1..Len(wire'[y]) : wire'[y][i].t = "response"
    <3>1. SUFFICES ASSUME NEW y \in Agents, NEW i \in 1..Len(wire'[y]) PROVE wire'[y][i].t = "response"
      OBVIOUS
    <3>2. wire'[y] = wire[y] \/ wire'[y] = wire[y] \o <<m>>
      BY <2>4, WireSeqs
    <3>3. IsSeq(wire[y]) /\ IsSeq(<<m>>) /\ \A k \in 1..Len(<<m>>) : <<m>>[k] = m
      BY WireSeqs, ShortSeqs
    <3>4. CASE wire'[y] = wire[y]
      BY <1>1, <3>1, <3>4
    <3>5. CASE wire'[y] = wire[y] \o <<m>>
      BY <1>1, <2>4, <3>1, <3>3, <3>5, SeqConcat
    <3> QED  BY <3>2, <3>4, <3>5
  <2> QED  BY <1>1, <2>4, <2>5 DEF Whole
<1>5. ~\E a \in Agents : Drops(a)
  BY <1>1 DEF Drops
<1>6. ~\E a \in Agents : Cut(a)
  BY DEF Cut
<1>7. ~\E a \in Agents : ServerNotices(a)
  BY <1>1 DEF ServerNotices
<1>8. ~\E a, p \in Agents : RelayNotices(p, a)
  BY <1>1 DEF RelayNotices
<1>9. ~\E a \in Agents : \E p \in Agents \cup {Server} : Attach(a, p)
  BY <1>1 DEF Attach
<1> QED  BY <1>2, <1>3, <1>4, <1>5, <1>6, <1>7, <1>8, <1>9, MeshOfStep

LEMMA OnceStep ==
  ASSUME TypeOK, TypeOK', TreesInv, OnceInv, [Next]_vars
  PROVE  OnceInv'
<1>1. breaks \in Nat
  BY DEF TreesInv
<1>2. SUFFICES ASSUME breaks' <= 1 PROVE Whole' /\ MapsInv' /\ WiresInv'
  BY DEF OnceInv
<1>3. Grounded(up)
  BY DEF TreesInv
<1>4. CASE \E a \in Agents : Cut(a)
  <2>1. PICK a \in Agents : Cut(a)
    BY <1>4
  <2>2. breaks' = breaks + 1
    BY <2>1 DEF Cut
  <2>3. breaks = 0 /\ breaks' # 0
    BY <1>1, <1>2, <2>2
  <2> QED  BY <2>1, <2>3, CutMaps, CutWires DEF Whole
<1>5. CASE ~\E a \in Agents : Cut(a)
  <2>1. breaks' = breaks
    BY <1>5, MeshOfStep DEF Still, Reads, Responds, Writes, Drops, ServerNotices, Attach, RelayNotices
  <2>2. MapsInv /\ WiresInv
    BY <1>2, <2>1 DEF OnceInv
  <2>3. Whole'
    <3>1. CASE breaks' = 0
      BY <2>1, <3>1, WholeStep
    <3>2. CASE breaks' # 0
      BY <3>2 DEF Whole
    <3> QED  BY <3>1, <3>2
  <2>4. CASE Still
    <3>1. UNCHANGED <<s, up, down, wire, parent>>
      BY <2>4 DEF Still
    <3>2. MapsInv'
      BY <2>2, <3>1 DEF MapsInv
    <3>3. WiresInv'
      BY <2>2, <3>1 DEF WiresInv, AttachedOK, ResponseOK, PathReported, Reported, ReportOf
    <3> QED  BY <2>3, <3>2, <3>3
  <2>5. CASE \E a \in Agents : Reads(a)
    BY <2>2, <2>3, <2>5, ReadStep
  <2>6. CASE \E a \in Agents : Responds(a)
    <3>1. UNCHANGED <<s, up, down, parent>>
      BY <2>6 DEF Responds, Writes
    <3>2. MapsInv'
      BY <2>2, <3>1 DEF MapsInv
    <3> QED  BY <2>2, <2>3, <2>6, <3>2, RespondWires
  <2>7. CASE \E a \in Agents : Drops(a)
    <3>1. PICK a \in Agents : Drops(a)
      BY <2>7
    <3>2. MapsInv' /\ Frozen(up, up') /\ up' = [up EXCEPT ![a] = None] /\ UNCHANGED <<s, parent, wire>>
      BY <2>2, <3>1, DropMaps DEF Drops
    <3>3. \A y \in Agents : ConnectedIn(y, up') => ConnectedIn(y, up)
      BY <1>3, <3>2, Unjoined
    <3>4. WiresInv'
      BY <2>2, <3>2, <3>3, SilentWires
    <3> QED  BY <2>3, <3>2, <3>4
  <2>8. CASE \E a \in Agents : ServerNotices(a)
    <3>1. PICK a \in Agents : ServerNotices(a)
      BY <2>8
    <3>2. a \in down[Server] /\ up[a] # Server /\ down' = [down EXCEPT ![Server] = @ \ {a}] /\ UNCHANGED <<s, up, parent>>
      BY <3>1 DEF ServerNotices, topology
    <3>3. MapsInv'
      BY <2>2, <3>2, NoticeMaps
    <3> QED  BY <2>2, <2>3, <3>1, <3>3, ServerNoticesWires
  <2>9. CASE \E a, p \in Agents : RelayNotices(p, a)
    <3>1. PICK a \in Agents : \E p \in Agents : RelayNotices(p, a)
      BY <2>9
    <3>2. PICK p \in Agents : RelayNotices(p, a)
      BY <3>1
    <3>3. a \in down[p] /\ up[a] # p /\ down' = [down EXCEPT ![p] = @ \ {a}] /\ UNCHANGED <<s, up, parent>>
      BY <3>2 DEF RelayNotices, serverVars, topology
    <3>4. MapsInv'
      BY <2>2, <3>3, NoticeMaps
    <3> QED  BY <2>2, <2>3, <3>2, <3>4, RelayNoticesWires
  <2>10. CASE \E a \in Agents : \E p \in Agents \cup {Server} : Attach(a, p)
    BY <2>2, <2>3, <2>10, AttachMaps, AttachWires
  <2> QED  BY <1>5, <2>4, <2>5, <2>6, <2>7, <2>8, <2>9, <2>10, MeshOfStep
<1> QED  BY <1>4, <1>5

-----------------------------------------------------------------------------
(***************************************************************************)
(* The mesh and what is on its wires: the invariants hold.                 *)
(***************************************************************************)
LEMMA InitMesh ==
  ASSUME Init
  PROVE  TreesInv /\ OnceInv
<1>1. /\ s \in Scenarios /\ up = s.tree /\ parent = s.tree /\ breaks = 0
      /\ down = [n \in Agents \cup {Server} |-> {x \in Agents : s.tree[x] = n}]
      /\ inbox = [a \in Agents |-> <<>>] /\ wire = [a \in Agents |-> <<>>]
  BY DEF Init
<1>2. up \in [Agents -> Agents \cup {Server}] /\ Grounded(up) /\ \A x \in Agents : ConnectedIn(x, up)
  BY <1>1, ScenarioTree
<1>3. \A n \in Agents \cup {Server} : \A x \in Agents : x \in down[n] <=> up[x] = n
  BY <1>1
<1>4. \A z \in Agents : \A i \in 1..Len(wire[z]) : FALSE
  BY <1>1, ShortSeqs
<1>5. TreesInv
  BY <1>1, <1>2, <1>3, NoAgents DEF TreesInv
<1>6. Whole /\ MapsInv
  BY <1>1, <1>2, <1>3, <1>4 DEF Whole, MapsInv
<1>7. WiresInv
  BY <1>1, <1>4 DEF WiresInv, Reported
<1> QED  BY <1>5, <1>6, <1>7 DEF OnceInv

\* The upstreams form trees whatever breaks; while one connection at most has broken, what
\* the server knows of them is what it was told at first or what they are, and reports of
\* what it does not know are on their way, ahead of the answers that depend on them.
THEOREM MeshHolds == Spec => [](ExecInv /\ TreesInv /\ OnceInv)
<1>1. Init => TreesInv /\ OnceInv
  BY InitMesh
<1>2. (TreesInv /\ OnceInv) /\ ExecInv /\ ExecInv' /\ [Next]_vars => (TreesInv /\ OnceInv)'
  BY TreesStep, OnceStep DEF ExecInv
<1> QED  BY <1>1, <1>2, ExecInvHolds, PTL DEF Spec

\* The origin check (originAllows) drops no answer of an agent that is still where it
\* answered from, if at most one connection broke: by the time the server reads the answer
\* it has read where that agent and those above it are.
THEOREM OnlyStaleAnswersAreDropped == Spec => []DropsOnlyStaleAnswers
<1>1. ExecInv /\ TreesInv /\ OnceInv => DropsOnlyStaleAnswers
  <2>1. SUFFICES ASSUME ExecInv, TreesInv, OnceInv, breaks <= 1, NEW z \in down[Server], NEW m, m = Head(wire[z]),
                        wire[z] # <<>>, m.t = "response", m.via = Above(m.agent, up)
                 PROVE  OriginAllows(z, m.agent)
    BY DEF DropsOnlyStaleAnswers
  <2>2. TypeOK /\ MapsInv /\ WiresInv /\ Grounded(up) /\ s \in Scenarios /\ z \in Agents
    BY <2>1 DEF ExecInv, OnceInv, TreesInv, TypeOK, ServerTypes
  <2>3. IsSeq(wire[z])
    BY <2>2, WireSeqs
  <2>4. 1 \in 1..Len(wire[z]) /\ m = wire[z][1]
    BY <2>1, <2>3, SeqTail
  <2>5. ResponseOK(z, 1, m)
    BY <2>1, <2>2, <2>4 DEF WiresInv
  <2>6. m.agent \in Agents /\ Grounded(parent) /\ Grounded(s.tree)
    BY <2>2, <2>5, ScenarioTree DEF ResponseOK, MapsInv
  <2>7. \A y \in Agents : m.agent \in Subtree(y, up) => parent[y] = up[y]
    <3>1. CASE m.via = Above(m.agent, s.tree)
      <4>1. \A y \in Agents : m.agent \in Subtree(y, up) => s.tree[y] = up[y]
        BY <2>1, <2>2, <2>6, <3>1, SameLinks
      <4> QED  BY <2>2, <4>1 DEF MapsInv
    <3>2. CASE PathReported(m.agent, z, 1)
      <4>1. \A k \in 1..Len(wire[z]) : ~(k < 1)
        BY <2>3, SeqTail
      <4> QED  BY <3>2, <4>1 DEF PathReported, Reported
    <3> QED  BY <2>5, <3>1, <3>2 DEF ResponseOK
  <2>8. Above(m.agent, parent) = Above(m.agent, up)
    BY <2>2, <2>6, <2>7, SamePath
  <2>9. m.agent \in Subtree(z, parent)
    BY <2>1, <2>5, <2>6, <2>8 DEF ResponseOK, Subtree
  <2> QED  BY <2>9 DEF OriginAllows
<1> QED  BY <1>1, MeshHolds, PTL

-----------------------------------------------------------------------------
(***************************************************************************)
(* How often a request that left along a route is taken up.                *)
(***************************************************************************)
\* A copy of a request under way to an agent.
At(box, a, i, c) == i \in 1..Len(box[a]) /\ box[a][i].call = c
\* What is under way of it was; a message may have moved up one place.
Place(d, a, i) == IF a \in d THEN i + 1 ELSE i
Shifted(box, box2, c) ==
  \E d \in SUBSET Agents : \A a \in Agents : \A i : At(box2, a, i, c) =>
    At(box, a, Place(d, a, i), c) /\ box2[a][i] = box[a][Place(d, a, i)]

\* A route: from the agent reached so far every next one is a peer of the one before, in
\* the tree as it was made or as it is; it comes to its end once.
Link(tree, of, x, n) == tree[x] = n \/ (ConnectedIn(x, of) /\ of[x] = n)
RouteOK(tree, of, t, a, path) ==
  IF path = <<>> THEN a = t
  ELSE /\ IsSeq(path)
       /\ \A k \in 1..Len(path) : path[k] \in Agents /\ (path[k] = path[Len(path)] => k = Len(path))
       /\ \A k \in 1..Len(path) : k # Len(path) => Link(tree, of, path[k + 1], path[k])
\* One copy at most, on its way along a route, as long as the target has not taken it up.
OnRoute(tree, of, box, ran, t, c) ==
  /\ \A a, b \in Agents : \A i, j : At(box, a, i, c) /\ At(box, b, j, c) => a = b /\ i = j
  /\ \A a \in Agents : \A i : At(box, a, i, c) => ran = 0 /\ RouteOK(tree, of, t, a, box[a][i].path)
\* Handed to all peers: copies at connected agents, none below another, and none at the
\* target or above it once that has taken one up.
Spread(of, box, ran, t, c) ==
  /\ \A a \in Agents : \A i : At(box, a, i, c) => ConnectedIn(a, of)
  /\ \A a, b \in Agents : \A i, j : At(box, a, i, c) /\ At(box, b, j, c) /\ b \in Subtree(a, of) => a = b /\ i = j
  /\ ran = 1 => ConnectedIn(t, of) /\ \A a \in Agents : \A i : At(box, a, i, c) => t \notin Subtree(a, of)
\* A request for one agent: nothing of it before it is sent; sent along a route, it is on
\* that, or, after the one break, spread.
RouteInv(c, t) ==
  /\ call[c].phase \in {"new", "open"} =>
       call[c].routed = "no" /\ runs[t][c] = 0 /\ \A a \in Agents : \A i : ~At(inbox, a, i, c)
  /\ \A a \in Agents : a # t => runs[a][c] = 0
  /\ call[c].routed = "yes" /\ breaks <= 1 =>
       /\ runs[t][c] <= 1
       /\ OnRoute(s.tree, up, inbox, runs[t][c], t, c) \/ (breaks = 1 /\ Spread(up, inbox, runs[t][c], t, c))
RoutedInv == \A c \in DOMAIN s.calls : Single(c) => RouteInv(c, Request(c).target)

\* Steps at which no connected agent moves leave it so.
LEMMA ShiftKeeps ==
  ASSUME NEW box, NEW box2, NEW c, Shifted(box, box2, c), NEW tree, NEW of, NEW of2, Frozen(of, of2), NEW ran, NEW t \in Agents
  PROVE  /\ (\A a \in Agents : \A i : ~At(box, a, i, c)) => \A a \in Agents : \A i : ~At(box2, a, i, c)
         /\ OnRoute(tree, of, box, ran, t, c) => OnRoute(tree, of2, box2, ran, t, c)
         /\ Spread(of, box, ran, t, c) => Spread(of2, box2, ran, t, c)
<1>1. PICK d \in SUBSET Agents : \A a \in Agents : \A i : At(box2, a, i, c) =>
               At(box, a, Place(d, a, i), c) /\ box2[a][i] = box[a][Place(d, a, i)]
  BY DEF Shifted
<1>2. ASSUME NEW a \in Agents, NEW i, NEW j, At(box2, a, i, c), At(box2, a, j, c), Place(d, a, i) = Place(d, a, j)
      PROVE  i = j
  <2>1. i \in Int /\ j \in Int
    BY <1>2 DEF At
  <2> QED  BY <1>2, <2>1 DEF Place
<1>3. \A x \in Agents : ConnectedIn(x, of) =>
        of2[x] = of[x] /\ ConnectedIn(x, of2) /\ \A y \in Agents : x \in Subtree(y, of2) <=> x \in Subtree(y, of)
  BY FrozenPaths DEF Frozen
<1>4. \A a \in Agents : \A path : RouteOK(tree, of, t, a, path) => RouteOK(tree, of2, t, a, path)
  BY <1>3 DEF RouteOK, Link
<1>5. ASSUME OnRoute(tree, of, box, ran, t, c) PROVE OnRoute(tree, of2, box2, ran, t, c)
  <2>1. ASSUME NEW a \in Agents, NEW b \in Agents, NEW i, NEW j, At(box2, a, i, c), At(box2, b, j, c) PROVE a = b /\ i = j
    <3>1. a = b /\ Place(d, a, i) = Place(d, b, j)
      BY <1>1, <1>5, <2>1 DEF OnRoute
    <3> QED  BY <1>2, <2>1, <3>1
  <2>2. ASSUME NEW a \in Agents, NEW i, At(box2, a, i, c) PROVE ran = 0 /\ RouteOK(tree, of2, t, a, box2[a][i].path)
    <3>1. PICK j : j = Place(d, a, i)
      OBVIOUS
    <3>2. At(box, a, j, c) /\ box2[a][i] = box[a][j]
      BY <1>1, <2>2, <3>1
    <3> QED  BY <1>4, <1>5, <3>2 DEF OnRoute
  <2> QED  BY <2>1, <2>2 DEF OnRoute
<1>6. ASSUME Spread(of, box, ran, t, c) PROVE Spread(of2, box2, ran, t, c)
  <2>1. ASSUME NEW a \in Agents, NEW i, At(box2, a, i, c) PROVE ConnectedIn(a, of) /\ ConnectedIn(a, of2)
    BY <1>1, <1>3, <1>6, <2>1 DEF Spread
  <2>2. ASSUME NEW a \in Agents, NEW b \in Agents, NEW i, NEW j, At(box2, a, i, c), At(box2, b, j, c), b \in Subtree(a, of2)
        PROVE  a = b /\ i = j
    <3>1. b \in Subtree(a, of)
      BY <1>3, <2>1, <2>2
    <3>2. a = b /\ Place(d, a, i) = Place(d, b, j)
      BY <1>1, <1>6, <2>2, <3>1 DEF Spread
    <3> QED  BY <1>2, <2>2, <3>2
  <2>3. ASSUME ran = 1 PROVE ConnectedIn(t, of2) /\ \A a \in Agents : \A i : At(box2, a, i, c) => t \notin Subtree(a, of2)
    BY <1>1, <1>3, <1>6, <2>3 DEF Spread
  <2> QED  BY <2>1, <2>2, <2>3 DEF Spread
<1> QED  BY <1>1, <1>5, <1>6

LEMMA Appended ==
  ASSUME InboxOK, NEW from, NEW who, NEW m, NEW a \in Agents
  PROVE  LET q == Deliver(inbox, To(from, who, m))[a] IN
         /\ IsSeq(q) /\ IsSeq(inbox[a]) /\ Len(q) \in Nat /\ Len(inbox[a]) \in Nat /\ Len(inbox[a]) <= Len(q)
         /\ \A i \in 1..Len(q) :
              \/ i \in 1..Len(inbox[a]) /\ q[i] = inbox[a][i]
              \/ i = Len(inbox[a]) + 1 /\ q[i] = m /\ a \in who /\ up[a] = from
<1> DEFINE q == Deliver(inbox, To(from, who, m))[a]
<1>1. (q = inbox[a] \o <<m>> /\ a \in who /\ up[a] = from) \/ q = inbox[a] \o <<>>
  BY DEF Deliver, To
<1>2. IsSeq(inbox[a]) /\ IsSeq(<<m>>) /\ IsSeq(<<>>) /\ Len(<<m>>) = 1 /\ <<m>>[1] = m /\ Len(<<>>) = 0
  BY ShortSeqs DEF InboxOK, MessagesOK
<1> HIDE DEF q
<1>3. CASE q = inbox[a] \o <<m>> /\ a \in who /\ up[a] = from
  <2>1. /\ IsSeq(q) /\ Len(inbox[a]) \in Nat /\ Len(q) = Len(inbox[a]) + 1
        /\ \A i \in 1..Len(inbox[a]) : q[i] = inbox[a][i]
        /\ \A i \in 1..Len(q) : i \notin 1..Len(inbox[a]) => i - Len(inbox[a]) \in 1..1 /\ q[i] = <<m>>[i - Len(inbox[a])]
    BY <1>2, <1>3, SeqConcat
  <2>2. ASSUME NEW i \in 1..Len(q), i \notin 1..Len(inbox[a]) PROVE i = Len(inbox[a]) + 1 /\ q[i] = m
    <3>1. i - Len(inbox[a]) = 1
      BY <2>1, <2>2
    <3> QED  BY <1>2, <2>1, <2>2, <3>1
  <2> QED  BY <1>2, <1>3, <2>1, <2>2 DEF q
<1>4. CASE q = inbox[a] \o <<>>
  <2>1. /\ IsSeq(q) /\ Len(inbox[a]) \in Nat /\ Len(q) = Len(inbox[a]) + 0
        /\ \A i \in 1..Len(inbox[a]) : q[i] = inbox[a][i]
    BY <1>2, <1>4, SeqConcat
  <2> QED  BY <1>2, <2>1 DEF q
<1> QED  BY <1>1, <1>3, <1>4

LEMMA ShiftNone ==
  ASSUME TypeOK, NEW c,
         \/ inbox' = inbox
         \/ \E a : inbox' = [inbox EXCEPT ![a] = <<>>]
         \/ \E from, who, m : m.call # c /\ inbox' = Deliver(inbox, To(from, who, m))
  PROVE  Shifted(inbox, inbox', c)
<1>1. InboxOK /\ DOMAIN inbox = Agents
  BY DEF TypeOK, InboxOK
<1>2. SUFFICES ASSUME NEW a \in Agents, NEW i, At(inbox', a, i, c) PROVE At(inbox, a, i, c) /\ inbox'[a][i] = inbox[a][i]
  <2>1. {} \in SUBSET Agents /\ \A a, i : Place({}, a, i) = i
    BY DEF Place
  <2> QED  BY <2>1 DEF Shifted
<1>3. CASE inbox' = inbox
  BY <1>2, <1>3
<1>4. CASE \E b : inbox' = [inbox EXCEPT ![b] = <<>>]
  <2>1. inbox'[a] = inbox[a] \/ inbox'[a] = <<>>
    BY <1>1, <1>4
  <2>2. ~At(inbox', a, i, c) \/ inbox'[a] # <<>>
    BY ShortSeqs DEF At
  <2> QED  BY <1>2, <2>1, <2>2 DEF At
<1>5. CASE \E from, who, m : m.call # c /\ inbox' = Deliver(inbox, To(from, who, m))
  <2>1. PICK from, who, m : m.call # c /\ inbox' = Deliver(inbox, To(from, who, m))
    BY <1>5
  <2>2. i \in 1..Len(inbox'[a]) /\ inbox'[a][i].call = c
    BY <1>2 DEF At
  <2>3. \/ i \in 1..Len(inbox[a]) /\ inbox'[a][i] = inbox[a][i]
        \/ inbox'[a][i] = m
    BY <1>1, <2>1, <2>2, Appended
  <2> QED  BY <2>1, <2>2, <2>3 DEF At
<1> QED  BY <1>1, <1>3, <1>4, <1>5

\* What the agent hands on when it takes a message up.
Onward(a, m) == IF Single(m.call) /\ a \in m.targets THEN {} ELSE RelayToDownstreams(a, m)
LEMMA TakenFrom ==
  ASSUME TypeOK, NEW b \in Agents, HandleServerMessage(b), up[b] # b, NEW m, m = Head(inbox[b])
  PROVE  /\ 1 \in 1..Len(inbox[b]) /\ m = inbox[b][1]
         /\ \A a \in Agents : \A i \in 1..Len(inbox'[a]) :
              \/ /\ Place({b}, a, i) \in 1..Len(inbox[a]) /\ inbox'[a][i] = inbox[a][Place({b}, a, i)]
                 /\ a = b => Place({b}, a, i) # 1
              \/ /\ a \in Onward(b, m) /\ up[a] = b /\ a # b
                 /\ i = Len(inbox[a]) + 1 /\ i \notin 1..Len(inbox[a]) /\ inbox'[a][i] = m
<1>1. InboxOK /\ DOMAIN inbox = Agents /\ inbox[b] # <<>>
  BY DEF TypeOK, InboxOK, HandleServerMessage
<1>2. IsSeq(inbox[b])
  BY <1>1 DEF InboxOK, MessagesOK
<1>3. 1 \in 1..Len(inbox[b]) /\ m = inbox[b][1] /\ Len(inbox[b]) \in Nat \ {0}
  BY <1>1, <1>2, SeqTail
<1> DEFINE q == Deliver(inbox, To(b, Onward(b, m), m))
<1>4. inbox' = [q EXCEPT ![b] = Tail(@)] /\ DOMAIN q = Agents
  BY DEF HandleServerMessage, Onward, Deliver
<1>5. ASSUME NEW a \in Agents
      PROVE  /\ IsSeq(q[a]) /\ Len(q[a]) \in Nat /\ Len(inbox[a]) \in Nat /\ Len(inbox[a]) <= Len(q[a])
             /\ \A i \in 1..Len(q[a]) :
                  \/ i \in 1..Len(inbox[a]) /\ q[a][i] = inbox[a][i]
                  \/ i = Len(inbox[a]) + 1 /\ q[a][i] = m /\ a \in Onward(b, m) /\ up[a] = b
  BY <1>1, Appended
<1> HIDE DEF q
<1>6. ASSUME NEW a \in Agents, NEW i \in 1..Len(inbox'[a]), a # b
      PROVE  \/ Place({b}, a, i) \in 1..Len(inbox[a]) /\ inbox'[a][i] = inbox[a][Place({b}, a, i)]
             \/ /\ a \in Onward(b, m) /\ up[a] = b
                /\ i = Len(inbox[a]) + 1 /\ i \notin 1..Len(inbox[a]) /\ inbox'[a][i] = m
  <2>1. inbox'[a] = q[a] /\ Place({b}, a, i) = i
    BY <1>4, <1>6 DEF Place
  <2>2. \/ i \in 1..Len(inbox[a]) /\ q[a][i] = inbox[a][i]
        \/ i = Len(inbox[a]) + 1 /\ q[a][i] = m /\ a \in Onward(b, m) /\ up[a] = b
    BY <1>5, <1>6, <2>1
  <2>3. Len(inbox[a]) + 1 \notin 1..Len(inbox[a])
    BY <1>5
  <2> QED  BY <2>1, <2>2, <2>3
<1>7. ASSUME NEW i \in 1..Len(inbox'[b])
      PROVE  Place({b}, b, i) \in 1..Len(inbox[b]) /\ inbox'[b][i] = inbox[b][Place({b}, b, i)] /\ Place({b}, b, i) # 1
  <2>1. inbox'[b] = Tail(q[b]) /\ Place({b}, b, i) = i + 1
    BY <1>4 DEF Place
  <2>2. q[b] # <<>>
    BY <1>3, <1>5, ShortSeqs
  <2>3. i + 1 \in 1..Len(q[b]) /\ Tail(q[b])[i] = q[b][i + 1]
    BY <1>5, <1>7, <2>1, <2>2, SeqTail
  <2>4. i + 1 \in 1..Len(inbox[b]) /\ q[b][i + 1] = inbox[b][i + 1]
    BY <1>5, <2>3
  <2>5. i \in Nat /\ i >= 1
    BY <1>7, <2>3
  <2> QED  BY <2>1, <2>3, <2>4, <2>5
<1> QED  BY <1>3, <1>6, <1>7

-----------------------------------------------------------------------------
(***************************************************************************)
(* What a step does to a request for one agent.                            *)
(***************************************************************************)
Early == {"new", "open"}
Before(c) == call'[c].routed = call[c].routed /\ (call'[c].phase \in Early => call[c].phase \in Early)
Rested(c) == Shifted(inbox, inbox', c) /\ Before(c) /\ \A a \in Agents : runs'[a][c] = runs[a][c]
Taken(c) == \E a \in Agents : HandleServerMessage(a) /\ Head(inbox[a]).call = c

LEMMA BeforeUpdate ==
  ASSUME TypeOK, NEW c \in DOMAIN s.calls, NEW d, NEW x, call' = [call EXCEPT ![d] = x],
         d = c => x.routed = call[c].routed /\ (x.phase \in Early => call[c].phase \in Early)
  PROVE  Before(c)
<1>1. call \in [DOMAIN s.calls -> Call]
  BY DEF TypeOK, ServerTypes
<1>2. CASE d = c
  <2>1. call'[c] = x
    BY <1>1, <1>2
  <2> QED  BY <1>2, <2>1 DEF Before
<1>3. CASE d # c
  <2>1. call'[c] = call[c]
    BY <1>1, <1>3
  <2> QED  BY <2>1 DEF Before
<1> QED  BY <1>2, <1>3

LEMMA PhaseBefore ==
  ASSUME TypeOK, NEW c \in DOMAIN s.calls, NEW d,
         \/ \E p, r : p \notin Early /\ call' = [call EXCEPT ![d].phase = p, ![d].reply = r]
         \/ call[d].phase \in Early /\ \E p : call' = [call EXCEPT ![d].phase = p]
         \/ \E p : p \notin Early /\ call' = [call EXCEPT ![d].phase = p]
  PROVE  Before(c)
<1>1. CASE d \in DOMAIN s.calls
  <2>1. call[d] \in Call
    BY <1>1 DEF TypeOK, ServerTypes
  <2> DEFINE y == call[d]
  <2>2. \A p, r : /\ [y EXCEPT !.phase = p].routed = y.routed /\ [y EXCEPT !.phase = p].phase = p
                  /\ [y EXCEPT !.phase = p, !.reply = r].routed = y.routed /\ [y EXCEPT !.phase = p, !.reply = r].phase = p
    BY <2>1 DEF Call
  <2> HIDE DEF y
  <2>3. CASE \E p, r : p \notin Early /\ call' = [call EXCEPT ![d].phase = p, ![d].reply = r]
    <3>1. PICK p, r : p \notin Early /\ call' = [call EXCEPT ![d].phase = p, ![d].reply = r]
      BY <2>3
    <3> DEFINE x == [y EXCEPT !.phase = p, !.reply = r]
    <3>2. call' = [call EXCEPT ![d] = x]
      BY <3>1 DEF y
    <3>3. d = c => x.routed = call[c].routed /\ (x.phase \in Early => call[c].phase \in Early)
      BY <2>2, <3>1 DEF y
    <3> HIDE DEF x
    <3> QED  BY <3>2, <3>3, BeforeUpdate
  <2>4. CASE \E p : (p \notin Early \/ call[d].phase \in Early) /\ call' = [call EXCEPT ![d].phase = p]
    <3>1. PICK p : (p \notin Early \/ call[d].phase \in Early) /\ call' = [call EXCEPT ![d].phase = p]
      BY <2>4
    <3> DEFINE x == [y EXCEPT !.phase = p]
    <3>2. call' = [call EXCEPT ![d] = x]
      BY <3>1 DEF y
    <3>3. d = c => x.routed = call[c].routed /\ (x.phase \in Early => call[c].phase \in Early)
      BY <2>2, <3>1 DEF y
    <3> HIDE DEF x
    <3> QED  BY <3>2, <3>3, BeforeUpdate
  <2> QED  BY <2>3, <2>4
<1>2. CASE d \notin DOMAIN s.calls
  <2>1. call'[c] = call[c]
    BY <1>2 DEF TypeOK, ServerTypes
  <2> QED  BY <2>1 DEF Before
<1> QED  BY <1>1, <1>2

LEMMA RouteServer ==
  ASSUME TypeOK, NEW c \in DOMAIN s.calls, Single(c), NEW d \in DOMAIN s.calls,
         \/ Handles(d) \/ Answers(d) \/ Timeout(d) \/ (Send(d) /\ d # c)
         \/ HandleExecMulti(d) \/ HandleBroadcastDeploy(d) \/ DispatchExecWave(d) \/ DispatchDeployWave(d) \/ WaveDone(d) \/ WaveTimeout(d)
  PROVE  Rested(c)
<1>1. call \in [DOMAIN s.calls -> Call]
  BY DEF TypeOK, ServerTypes
<1>2. CASE Handles(d)
  <2>1. call[d].phase = "new" /\ UNCHANGED <<inbox, runs>> /\ (OpenSession(d) \/ \E defect : Refuse(d, defect))
    BY <1>2 DEF Handles, HandleExecCommand, HandlePutFile, HandleFetchFile, Asked, meshVars, agentVars
  <2>2. Before(c)
    <3>1. "done" \notin Early /\ "new" \in Early
      BY DEF Early
    <3> QED  BY <2>1, <3>1, PhaseBefore DEF OpenSession, Refuse
  <2> QED  BY <2>1, <2>2, ShiftNone DEF Rested
<1>3. CASE Answers(d) \/ Timeout(d)
  <2>1. UNCHANGED <<inbox, runs>> /\ \E r : call' = [call EXCEPT ![d].phase = "done", ![d].reply = r]
    BY <1>3 DEF Answers, AnswerExecCommand, AnswerPutFile, AnswerFetchFile, Answer, Timeout, meshVars, topology, agentVars
  <2>2. "done" \notin Early
    BY DEF Early
  <2> QED  BY <2>1, <2>2, PhaseBefore, ShiftNone DEF Rested
<1>4. CASE Send(d) /\ d # c
  <2>1. runs' = runs /\ call'[c] = call[c]
    BY <1>1, <1>4 DEF Send, agentVars
  <2>2. inbox' = inbox \/ \E who, path : LET m == SetRelayPath([call |-> d, wave |-> 0, targets |-> {Request(d).target}, path |-> <<>>], path)
                                         IN  inbox' = Deliver(inbox, To(Server, who, m))
    BY <1>4 DEF Send
  <2>3. \A path : SetRelayPath([call |-> d, wave |-> 0, targets |-> {Request(d).target}, path |-> <<>>], path).call # c
    BY <1>4 DEF SetRelayPath
  <2>4. inbox' = inbox \/ \E from, who, m : m.call # c /\ inbox' = Deliver(inbox, To(from, who, m))
    BY <2>2, <2>3
  <2> QED  BY <2>1, <2>4, ShiftNone DEF Rested, Before
<1>5. CASE HandleExecMulti(d) \/ HandleBroadcastDeploy(d) \/ WaveDone(d) \/ WaveTimeout(d)
  <2>1. ~Single(d) /\ UNCHANGED <<inbox, runs>> /\ \E x : call' = [call EXCEPT ![d] = x]
    BY <1>5 DEF HandleExecMulti, HandleBroadcastDeploy, Begin, Refuse, WaveDone, WaveTimeout, Single, meshVars, agentVars
  <2>2. call'[c] = call[c]
    BY <1>1, <2>1
  <2> QED  BY <2>1, <2>2, ShiftNone DEF Rested, Before
<1>6. CASE DispatchExecWave(d) \/ DispatchDeployWave(d)
  <2>1. call[d].phase = "wave" /\ runs' = runs /\ \E x : call' = [call EXCEPT ![d] = x]
    BY <1>6 DEF DispatchExecWave, DispatchDeployWave, DispatchWave, agentVars
  <2>2. d # c
    BY <2>1 DEF TypeOK, ServerTypes, CallLogged, Single, ForOne, Request
  <2>3. call'[c] = call[c]
    BY <1>1, <2>1, <2>2
  <2> DEFINE m == [call |-> d, wave |-> Len(call[d].waves), targets |-> Head(call[d].waves), path |-> <<>>]
  <2>4. m.call # c /\ \E who : inbox' = Deliver(inbox, To(Server, who, m))
    BY <1>6, <2>2 DEF DispatchExecWave, DispatchDeployWave, DispatchWave
  <2> HIDE DEF m
  <2>5. Shifted(inbox, inbox', c)
    BY <2>4, ShiftNone
  <2> QED  BY <2>1, <2>3, <2>5 DEF Rested, Before
<1> QED  BY <1>2, <1>3, <1>4, <1>5, <1>6

LEMMA RouteTake ==
  ASSUME TypeOK, TreesInv, NEW c \in DOMAIN s.calls, NEW a \in Agents, HandleServerMessage(a), Head(inbox[a]).call # c
  PROVE  Rested(c)
<1>1. up[a] # a
  BY BelowOrder DEF TreesInv
<1>2. PICK m : m = Head(inbox[a])
  OBVIOUS
<1>3. m.call # c
  BY <1>2
<1>4. Shifted(inbox, inbox', c)
  <2>1. ASSUME NEW x \in Agents, NEW i, At(inbox', x, i, c)
        PROVE  At(inbox, x, Place({a}, x, i), c) /\ inbox'[x][i] = inbox[x][Place({a}, x, i)]
    <3>1. i \in 1..Len(inbox'[x]) /\ inbox'[x][i].call = c
      BY <2>1 DEF At
    <3>2. Place({a}, x, i) \in 1..Len(inbox[x]) /\ inbox'[x][i] = inbox[x][Place({a}, x, i)]
      BY <1>1, <1>2, <1>3, <3>1, TakenFrom
    <3> QED  BY <3>1, <3>2 DEF At
  <2> QED  BY <2>1 DEF Shifted
<1>5. runs' = runs \/ runs' = [runs EXCEPT ![a][m.call] = @ + 1]
  BY <1>2 DEF HandleServerMessage
<1>6. \A x \in Agents : runs'[x][c] = runs[x][c]
  BY <1>3, <1>5 DEF TypeOK, DiskOK
<1>7. call' = call
  BY DEF HandleServerMessage, serverVars
<1> QED  BY <1>4, <1>6, <1>7 DEF Rested, Before

LEMMA RouteCalm ==
  ASSUME TypeOK, NEW c \in DOMAIN s.calls, inbox' = inbox \/ \E a : inbox' = [inbox EXCEPT ![a] = <<>>], runs' = runs,
         call' = call \/ \E as : NotifyGone(as) \/ \E m, z : call' = Claim(z, m)
  PROVE  Rested(c)
<1>1. call \in [DOMAIN s.calls -> Call]
  BY DEF TypeOK, ServerTypes
<1>2. Before(c)
  <2>1. CASE call' = call
    BY <2>1 DEF Before
  <2>2. CASE \E as : NotifyGone(as)
    <3>1. PICK as : NotifyGone(as)
      BY <2>2
    <3>2. call'[c] = [call[c] EXCEPT !.pending = @ \ as]
      BY <1>1, <3>1 DEF NotifyGone
    <3> QED  BY <1>1, <3>2 DEF Before, Call
  <2>3. CASE \E m, z : call' = Claim(z, m)
    <3>1. PICK m, z : call' = Claim(z, m)
      BY <2>3
    <3>2. call' = call \/ call' = [call EXCEPT ![m.call].pending = @ \ {m.agent}]
      BY <3>1 DEF Claim
    <3>3. call'[c] = call[c] \/ call'[c] = [call[c] EXCEPT !.pending = @ \ {m.agent}]
      BY <1>1, <3>2
    <3> QED  BY <1>1, <3>3 DEF Before, Call
  <2> QED  BY <2>1, <2>2, <2>3
<1> QED  BY <1>2, ShiftNone DEF Rested

LEMMA RouteMesh ==
  ASSUME TypeOK, NEW c \in DOMAIN s.calls, NEW a \in Agents, NEW p \in Agents \cup {Server},
         Cut(a) \/ ServerNotices(a) \/ Receive(a) \/ Attach(a, p) \/ (p \in Agents /\ RelayNotices(p, a))
  PROVE  Rested(c)
<1>1. CASE Cut(a)
  BY <1>1, RouteCalm DEF Cut, serverVars, agentVars
<1>2. CASE ServerNotices(a)
  BY <1>2, RouteCalm DEF ServerNotices, agentVars
<1>3. CASE Receive(a)
  <2>1. inbox' = inbox /\ runs' = runs /\ \E m :
          Attached(a, m) \/ Lost(a, m) \/ ExecResponse(a, m) \/ ExecBroadcastResponse(a, m) \/ DeployResponse(a, m)
          \/ FileChunk(a, m) \/ FetchResponse(a, m)
    BY <1>3 DEF Receive, agentVars
  <2>2. call' = call \/ \E as : NotifyGone(as) \/ \E m, z : call' = Claim(z, m)
    BY <2>1 DEF Attached, Lost, ExecResponse, ExecBroadcastResponse, DeployResponse, FileChunk, FetchResponse
  <2> QED  BY <2>1, <2>2, RouteCalm
<1>4. CASE Attach(a, p)
  BY <1>4, RouteCalm DEF Attach, serverVars, agentVars
<1>5. CASE p \in Agents /\ RelayNotices(p, a)
  BY <1>5, RouteCalm DEF RelayNotices, serverVars, agentVars
<1> QED  BY <1>1, <1>2, <1>3, <1>4, <1>5

\* A step leaves the request at rest, or sends it, or an agent takes up a copy of it.
LEMMA RouteOfStep ==
  ASSUME TypeOK, TreesInv, NEW c \in DOMAIN s.calls, Single(c), [Next]_vars
  PROVE  Rested(c) \/ Send(c) \/ Taken(c)
<1>1. CASE UNCHANGED vars
  BY <1>1, RouteCalm DEF vars, meshVars, serverVars, agentVars
<1>2. CASE \E d \in DOMAIN s.calls :
             \/ Handles(d) \/ Answers(d) \/ Timeout(d) \/ Send(d)
             \/ HandleExecMulti(d) \/ HandleBroadcastDeploy(d) \/ DispatchExecWave(d) \/ DispatchDeployWave(d)
             \/ WaveDone(d) \/ WaveTimeout(d)
  BY <1>2, RouteServer
<1>3. CASE \E a \in Agents : HandleServerMessage(a)
  BY <1>3, RouteTake DEF Taken
<1>4. CASE \E a \in Agents, p \in Agents \cup {Server} :
             Cut(a) \/ ServerNotices(a) \/ Receive(a) \/ Attach(a, p) \/ (p \in Agents /\ RelayNotices(p, a))
  BY <1>4, RouteMesh
<1>5. CASE \E o \in ops : AtIt(o)
  BY <1>5, RouteCalm DEF AtIt, Gate, Write, Fill, Stat, Run, meshVars, serverVars
<1>6. CASE \E o \in ops : Respond(o)
  <2>1. PICK o \in ops : Respond(o)
    BY <1>6
  <2>2. inbox' = inbox \/ \E a : inbox' = [inbox EXCEPT ![a] = <<>>]
    <3>1. ASSUME NEW ms, SendUp(o.agent, ms) PROVE inbox' = inbox \/ \E a : inbox' = [inbox EXCEPT ![a] = <<>>]
      BY <3>1 DEF SendUp
    <3> QED  BY <2>1, <3>1 DEF Respond
  <2> QED  BY <2>1, <2>2, RouteCalm DEF Respond, serverVars
<1>7. CASE \E u \in updates : UpdateExecLog(u)
  BY <1>7, RouteCalm DEF UpdateExecLog, meshVars, agentVars
<1>8. CASE Next
  <2>1. \/ \E d \in DOMAIN s.calls :
             \/ Handles(d) \/ Answers(d) \/ Timeout(d) \/ Send(d)
             \/ HandleExecMulti(d) \/ HandleBroadcastDeploy(d) \/ DispatchExecWave(d) \/ DispatchDeployWave(d)
             \/ WaveDone(d) \/ WaveTimeout(d)
        \/ \E a \in Agents : HandleServerMessage(a)
        \/ \E a \in Agents, p \in Agents \cup {Server} :
             Cut(a) \/ ServerNotices(a) \/ Receive(a) \/ Attach(a, p) \/ (p \in Agents /\ RelayNotices(p, a))
        \/ \E o \in ops : AtIt(o) \/ Respond(o)
        \/ \E u \in updates : UpdateExecLog(u)
    BY <1>8 DEF Next, Handles, Answers, AtIt
  <2> QED  BY <1>2, <1>3, <1>4, <1>5, <1>6, <1>7, <2>1
<1> QED  BY <1>1, <1>8

-----------------------------------------------------------------------------
(***************************************************************************)
(* Routes: the invariant.                                                  *)
(***************************************************************************)
\* Unless a connection breaks no connected agent moves.
LEMMA ConnectedStay ==
  ASSUME TypeOK, TreesInv, TreesInv', [Next]_vars
  PROVE  s' = s /\ (Frozen(up, up') \/ \E a \in Agents : Cut(a)) /\ (breaks' = breaks \/ \E a \in Agents : Cut(a))
<1>1. Grounded(up) /\ Grounded(up') /\ DOMAIN up = Agents
  BY DEF TreesInv, Grounded, Parents
<1>2. CASE Still \/ \E a \in Agents : Reads(a) \/ Responds(a) \/ ServerNotices(a) \/ \E p \in Agents : RelayNotices(p, a)
  <2>1. UNCHANGED <<s, up, breaks>>
    BY <1>2 DEF Still, Reads, Responds, Writes, ServerNotices, RelayNotices
  <2> QED  BY <1>1, <2>1 DEF Frozen
<1>3. CASE \E a \in Agents : Drops(a) \/ \E p \in Agents \cup {Server} : Attach(a, p)
  <2>1. PICK a \in Agents : Drops(a) \/ \E p \in Agents \cup {Server} : Attach(a, p)
    BY <1>3
  <2>2. PICK p : up' = [up EXCEPT ![a] = p] /\ UNCHANGED <<s, breaks>> /\ (up[a] = None \/ ~ConnectedIn(a, up))
    BY <2>1 DEF Drops, Attach
  <2>3. ~ConnectedIn(a, up)
    BY <1>1, <2>2, OneStepUp, NoAgents
  <2>4. \A x \in Agents : ConnectedIn(x, up) => up'[x] = up[x]
    BY <1>1, <2>2, <2>3
  <2> QED  BY <1>1, <2>2, <2>4 DEF Frozen
<1>4. CASE \E a \in Agents : Cut(a)
  BY <1>4 DEF Cut
<1> QED  BY <1>2, <1>3, <1>4, MeshOfStep

LEMMA RestedStep ==
  ASSUME TypeOK, TreesInv, TreesInv', OnceInv, [Next]_vars, NEW c \in DOMAIN s.calls, NEW t \in Agents, RouteInv(c, t), Rested(c)
  PROVE  RouteInv(c, t)'
<1>1. /\ Shifted(inbox, inbox', c) /\ call'[c].routed = call[c].routed /\ (call'[c].phase \in Early => call[c].phase \in Early)
      /\ \A a \in Agents : runs'[a][c] = runs[a][c]
  BY DEF Rested, Before
<1>2. /\ call[c].phase \in Early =>
           call[c].routed = "no" /\ runs[t][c] = 0 /\ \A a \in Agents : \A i : ~At(inbox, a, i, c)
      /\ \A a \in Agents : a # t => runs[a][c] = 0
      /\ call[c].routed = "yes" /\ breaks <= 1 =>
           /\ runs[t][c] <= 1
           /\ OnRoute(s.tree, up, inbox, runs[t][c], t, c) \/ (breaks = 1 /\ Spread(up, inbox, runs[t][c], t, c))
  BY DEF RouteInv, Early
<1>3. PICK ran : ran = runs[t][c] /\ ran = runs'[t][c]
  BY <1>1
<1>4. s' = s /\ (Frozen(up, up') \/ \E a \in Agents : Cut(a)) /\ (breaks' = breaks \/ \E a \in Agents : Cut(a))
  BY ConnectedStay
<1>5. Frozen(up, up)
  BY DEF TreesInv, Frozen
<1>6. ASSUME call'[c].phase \in Early PROVE call'[c].routed = "no" /\ ran = 0 /\ \A a \in Agents : \A i : ~At(inbox', a, i, c)
  <2>1. \A a \in Agents : \A i : ~At(inbox, a, i, c)
    BY <1>1, <1>2, <1>6
  <2>2. \A a \in Agents : \A i : ~At(inbox', a, i, c)
    BY <1>1, <2>1 DEF Shifted
  <2> QED  BY <1>1, <1>2, <1>3, <1>6, <2>2
<1>7. ASSUME call'[c].routed = "yes", breaks' <= 1
      PROVE  /\ ran <= 1
             /\ OnRoute(s'.tree, up', inbox', ran, t, c) \/ (breaks' = 1 /\ Spread(up', inbox', ran, t, c))
  <2>1. CASE \E a \in Agents : Cut(a)
    <3>1. PICK a \in Agents : Cut(a)
      BY <2>1
    <3>2. breaks = 0 /\ breaks' = 1
      BY <1>7, <3>1 DEF Cut, TreesInv
    <3>3. ran <= 1 /\ OnRoute(s.tree, up, inbox, ran, t, c)
      BY <1>1, <1>2, <1>3, <1>7, <3>2
    <3>4. up = s.tree
      BY <3>2, WholeFacts
    <3>5. OnRoute(s.tree, up, inbox', ran, t, c)
      BY <1>1, <1>5, <3>3, ShiftKeeps
    <3>6. \A b, path : RouteOK(s.tree, up, t, b, path) => RouteOK(s.tree, up', t, b, path)
      BY <3>4 DEF RouteOK, Link
    <3>7. OnRoute(s.tree, up', inbox', ran, t, c)
      BY <3>5, <3>6 DEF OnRoute
    <3> QED  BY <1>4, <3>3, <3>7
  <2>2. CASE Frozen(up, up') /\ breaks' = breaks
    <3>1. ran <= 1 /\ (OnRoute(s.tree, up, inbox, ran, t, c) \/ (breaks = 1 /\ Spread(up, inbox, ran, t, c)))
      BY <1>1, <1>2, <1>3, <1>7, <2>2
    <3>2. /\ OnRoute(s.tree, up, inbox, ran, t, c) => OnRoute(s.tree, up', inbox', ran, t, c)
          /\ Spread(up, inbox, ran, t, c) => Spread(up', inbox', ran, t, c)
      BY <1>1, <2>2, ShiftKeeps
    <3> QED  BY <1>4, <2>2, <3>1, <3>2
  <2> QED  BY <1>4, <2>1, <2>2
<1>8. \A a \in Agents : a # t => runs'[a][c] = 0
  BY <1>1, <1>2
<1> QED  BY <1>3, <1>6, <1>7, <1>8 DEF RouteInv, Early

\* The path a request leaves with.
LEMMA PathOnRoute ==
  ASSUME TypeOK, TreesInv, MapsInv, NEW t \in Agents, Path(t) # <<>>
  PROVE  Path(t)[1] \in Agents /\ RouteOK(s.tree, up, t, Path(t)[1], Path(t))
<1> DEFINE q == Above(t, parent)
           n == Len(q)
           p == Path(t)
<1>1. Grounded(parent) /\ \A y \in Agents : parent[y] = s.tree[y] \/ (ConnectedIn(y, up) /\ parent[y] = up[y])
  BY DEF MapsInv
<1>2. WalkOK(t, parent, q) /\ n \in Nat \ {0, 1}
  BY <1>1, PathWalk, AboveUnfolds DEF Grounded, Nodes
<1>3. p = [i \in 1..(n - 1) |-> q[n - i]]
  BY DEF Path
<1> HIDE DEF p, n
<1>4. p \in Seq(Agents) /\ Len(p) = n - 1 /\ \A i \in 1..(n - 1) : p[i] = q[n - i] /\ n - i \in 1..(n - 1) /\ q[n - i] \in Agents
  <2>1. \A i \in 1..(n - 1) : n - i \in 1..(n - 1)
    BY <1>2
  <2>2. \A i \in 1..(n - 1) : q[n - i] \in Agents
    BY <1>2, <2>1 DEF WalkOK, n
  <2>3. p \in [1..(n - 1) -> Agents] /\ n - 1 \in Nat
    BY <1>2, <1>3, <2>2
  <2> QED  BY <1>3, <2>1, <2>2, <2>3
<1>5. ASSUME NEW k \in 1..(n - 1), k # n - 1 PROVE Link(s.tree, up, p[k + 1], p[k])
  <2>1. k + 1 \in 1..(n - 1) /\ n - (k + 1) \in 1..(n - 1) /\ (n - (k + 1)) + 1 = n - k
    BY <1>2, <1>5
  <2>2. p[k] = q[n - k] /\ p[k + 1] = q[n - (k + 1)]
    BY <1>4, <2>1
  <2> DEFINE j == n - (k + 1)
  <2>3. q[j + 1] = parent[q[j]] /\ q[j] \in Agents
    BY <1>2, <2>1 DEF WalkOK, n
  <2>4. parent[p[k + 1]] = p[k] /\ p[k + 1] \in Agents
    BY <2>1, <2>2, <2>3
  <2> QED  BY <1>1, <2>4 DEF Link
<1>6. ASSUME NEW k \in 1..(n - 1), p[k] = p[n - 1] PROVE k = n - 1
  <2>1. n - 1 \in 1..(n - 1) /\ n - (n - 1) = 1
    BY <1>2
  <2>2. q[n - k] = q[1] /\ q[1] = t /\ n - k \in 1..(n - 1)
    BY <1>2, <1>4, <1>6, <2>1 DEF WalkOK
  <2>3. ASSUME n - k # 1 PROVE FALSE
    <3> DEFINE j == n - k
    <3>1. j \in 1..(n - 1) /\ j # 1 /\ q[j] = t
      BY <2>2, <2>3
    <3>2. parent[t] \in Agents
      <4>1. CASE parent[t] \notin Agents
        <5>1. q = <<t, parent[t]>>
          BY <1>1, <4>1, AboveUnfolds
        <5>2. n = 2
          BY <5>1 DEF n
        <5> QED  BY <3>1, <5>2
      <4> QED  BY <4>1
    <3> DEFINE r == Above(parent[t], parent)
    <3>3. q = <<t>> \o r /\ r \in Seq(Nodes)
      BY <1>1, <3>2, AboveUnfolds
    <3>4. parent[t] \notin Subtree(t, parent)
      BY <1>1, <3>2, BelowOrder
    <3>5. \A i \in 1..Len(r) : r[i] # t
      BY <3>2, <3>4 DEF Subtree
    <3> HIDE DEF q, r, j
    <3>6. Len(<<t>>) = 1 /\ <<t>> \in Seq(Nodes) /\ n = 1 + Len(r) /\ Len(r) \in Nat
      BY <3>3 DEF Nodes, n
    <3>7. j - 1 \in 1..Len(r) /\ j \in 1..n
      BY <3>1, <3>6
    <3>8. q[j] = r[j - 1]
      BY <3>1, <3>3, <3>6, <3>7 DEF n
    <3> QED  BY <3>1, <3>5, <3>7, <3>8
  <2> QED  BY <1>2, <2>3
<1>7. p # <<>> /\ 1 \in 1..(n - 1) /\ n - 1 = Len(p)
  BY <1>2, <1>4
<1>8. IsSeq(p)
  BY <1>4 DEF IsSeq
<1> HIDE DEF q
<1>9. RouteOK(s.tree, up, t, p[1], p)
  BY <1>4, <1>5, <1>6, <1>7, <1>8 DEF RouteOK
<1> QED  BY <1>4, <1>7, <1>9 DEF p

\* The request leaves: one copy, on its route.
LEMMA SendStep ==
  ASSUME TypeOK, TreesInv, OnceInv, NEW c \in DOMAIN s.calls, Send(c), RouteInv(c, Request(c).target)
  PROVE  RouteInv(c, Request(c).target)'
<1> DEFINE t == Request(c).target
           path == Path(t)
           direct == t \in down[Server]
           routed == ~direct /\ path # <<>> /\ path[1] \in down[Server]
           p == IF routed THEN path ELSE <<>>
           m == SetRelayPath([call |-> c, wave |-> 0, targets |-> {t}, path |-> <<>>], p)
           to == CASE direct -> {t} [] routed -> {path[1]} [] OTHER -> down[Server]
           v == IF direct \/ routed THEN "yes" ELSE "no"
<1>1. /\ UNCHANGED <<s, up, breaks, runs>> /\ call[c].phase = "open"
      /\ call \in [DOMAIN s.calls -> Call] /\ InboxOK /\ DOMAIN inbox = Agents /\ t \in Agents
  <2>1. Single(c) /\ s \in Scenarios
    BY DEF Send, TypeOK, ServerTypes
  <2>2. t \in Agents
    BY <2>1, ScenariosAssumption DEF Single, Request
  <2> QED  BY <2>2 DEF Send, agentVars, TypeOK, ServerTypes, InboxOK
<1>2. m.call = c /\ m.path = p
  BY DEF SetRelayPath
<1>3. /\ runs[t][c] = 0 /\ call[c].routed = "no" /\ \A a \in Agents : \A i : ~At(inbox, a, i, c)
      /\ \A a \in Agents : a # t => runs[a][c] = 0
  BY <1>1 DEF RouteInv
<1>4. PICK sent \in SUBSET to :
         \/ /\ call' = [call EXCEPT ![c].phase = "done", ![c].reply = [status |-> "not sent", agent |-> None]]
            /\ inbox' = inbox
         \/ /\ call' = [call EXCEPT ![c].phase = "waiting", ![c].routed = v]
            /\ inbox' = Deliver(inbox, To(Server, sent, m))
  BY DEF Send
<1> HIDE DEF m, p
<1>5. CASE call' = [call EXCEPT ![c].phase = "done", ![c].reply = [status |-> "not sent", agent |-> None]]
  <2>1. call'[c].phase = "done" /\ call'[c].routed = "no"
    BY <1>1, <1>3, <1>5 DEF Call
  <2> QED  BY <1>1, <1>3, <2>1 DEF RouteInv, Request
<1>6. CASE /\ call' = [call EXCEPT ![c].phase = "waiting", ![c].routed = v]
           /\ inbox' = Deliver(inbox, To(Server, sent, m))
  <2>1. call'[c].phase = "waiting" /\ call'[c].routed = v
    BY <1>1, <1>6 DEF Call
  <2>2. ASSUME v = "yes", breaks <= 1 PROVE OnRoute(s.tree, up, inbox', 0, t, c)
    <3>1. PICK f \in Agents : to = {f} /\ RouteOK(s.tree, up, t, f, p)
      <4>1. CASE direct
        <5>1. p = <<>> /\ to = {t}
          BY <4>1 DEF p
        <5> QED  BY <1>1, <5>1 DEF RouteOK
      <4>2. CASE routed
        <5>1. p = path /\ to = {path[1]} /\ path # <<>>
          BY <4>2 DEF p
        <5>2. MapsInv
          BY <2>2 DEF OnceInv
        <5>3. path[1] \in Agents /\ RouteOK(s.tree, up, t, path[1], path)
          BY <1>1, <5>1, <5>2, PathOnRoute
        <5> QED  BY <5>1, <5>3
      <4> QED  BY <2>2, <4>1, <4>2
    <3> HIDE DEF to, t
    <3>2. ASSUME NEW a \in Agents, NEW i, At(inbox', a, i, c) PROVE a = f /\ i = Len(inbox[a]) + 1 /\ inbox'[a][i] = m
      <4>1. i \in 1..Len(inbox'[a]) /\ inbox'[a][i].call = c /\ inbox'[a] = Deliver(inbox, To(Server, sent, m))[a]
        BY <1>6, <3>2 DEF At
      <4>2. \/ i \in 1..Len(inbox[a]) /\ inbox'[a][i] = inbox[a][i]
            \/ i = Len(inbox[a]) + 1 /\ inbox'[a][i] = m /\ a \in sent
        BY <1>1, <4>1, Appended
      <4>3. ~(i \in 1..Len(inbox[a]) /\ inbox'[a][i] = inbox[a][i])
        BY <1>3, <4>1 DEF At
      <4> QED  BY <3>1, <4>2, <4>3
    <3> QED  BY <1>2, <3>1, <3>2 DEF OnRoute
  <2> QED  BY <1>1, <1>3, <2>1, <2>2 DEF RouteInv, Request
<1> QED  BY <1>4, <1>5, <1>6

\* Where an agent that a copy on its route has reached sends it, if it is not the target:
\* nowhere, to the next agent, or, having lost that one, to all its peers.
LEMMA NextHop ==
  ASSUME TypeOK, TreesInv, OnceInv, breaks <= 1, NEW a \in Agents, inbox[a] # <<>>, NEW t, a # t,
         NEW m, RouteOK(s.tree, up, t, a, m.path)
  PROVE  \/ RelayToDownstreams(a, m) = {}
         \/ m.path # <<>> /\ \E x \in Agents : RelayToDownstreams(a, m) = {x} /\ RouteOK(s.tree, up, t, x, m.path)
         \/ RelayToDownstreams(a, m) = down[a] /\ breaks = 1 /\ ConnectedIn(a, up)
<1> DEFINE q == m.path
           at == {i \in 1..Len(q) : q[i] = a}
           i == CHOOSE x \in at : TRUE
<1>1. /\ q # <<>> /\ IsSeq(q)
      /\ \A k \in 1..Len(q) : q[k] \in Agents /\ (q[k] = q[Len(q)] => k = Len(q))
      /\ \A k \in 1..Len(q) : k # Len(q) => Link(s.tree, up, q[k + 1], q[k])
  BY DEF RouteOK
<1>2. \A x : RouteOK(s.tree, up, t, x, q)
  BY DEF RouteOK
<1>3. Len(q) \in Nat \ {0}
  BY <1>1, SeqTail
<1> HIDE DEF q
<1>4. CASE at = {} \/ at = {Len(q)}
  BY <1>1, <1>4 DEF RelayToDownstreams, q
<1>5. CASE at # {} /\ at # {Len(q)}
  <2>1. i \in at
    BY <1>5
  <2> DEFINE x == q[i + 1]
  <2>2. RelayToDownstreams(a, m) = IF x \in down[a] THEN {x} ELSE down[a]
    BY <1>1, <1>5 DEF RelayToDownstreams, q
  <2> HIDE DEF i
  <2>3. i \in 1..Len(q) /\ q[i] = a
    BY <2>1
  <2>4. i # Len(q)
    <3>1. ASSUME i = Len(q) PROVE at = {Len(q)}
      BY <1>1, <2>1, <2>3, <3>1
    <3> QED  BY <1>5, <3>1
  <2>5. i + 1 \in 1..Len(q)
    BY <1>3, <2>3, <2>4
  <2>6. x \in Agents /\ Link(s.tree, up, x, a)
    BY <1>1, <2>3, <2>4, <2>5
  <2>7. CASE x \in down[a]
    BY <1>1, <1>2, <2>2, <2>6, <2>7 DEF q
  <2>8. CASE x \notin down[a]
    <3>1. s.tree[x] = a
      BY <2>6, <2>8, NoAgents DEF Link, TreesInv
    <3>2. up[a] # None
      BY DEF TreesInv
    <3>3. ConnectedIn(a, up)
      BY <2>6, <2>8, <3>1, <3>2 DEF OnceInv, MapsInv
    <3>4. breaks # 0
      <4>1. ASSUME breaks = 0 PROVE x \in down[a]
        BY <2>6, <3>1, <4>1, WholeFacts
      <4> QED  BY <2>8, <4>1
    <3>5. breaks = 1
      BY <3>4 DEF TreesInv
    <3> QED  BY <2>2, <2>8, <3>3, <3>5
  <2> QED  BY <2>7, <2>8
<1> QED  BY <1>4, <1>5

\* An agent takes up a message: what there is of it then.
TakesUp(b, m, t, c) ==
  /\ At(inbox, b, 1, c) /\ m = inbox[b][1] /\ inbox[b] # <<>> /\ up[b] # b /\ t \in Agents
  /\ UNCHANGED <<s, up, breaks, call>>
  /\ \A a \in Agents : \A i : At(inbox', a, i, c) =>
       \/ At(inbox, a, Place({b}, a, i), c) /\ inbox'[a][i] = inbox[a][Place({b}, a, i)] /\ (a = b => Place({b}, a, i) # 1)
       \/ a \in Onward(b, m) /\ up[a] = b /\ i = Len(inbox[a]) + 1 /\ ~At(inbox, a, i, c) /\ inbox'[a][i] = m
  /\ b = t => Onward(b, m) = {} /\ runs'[t][c] = runs[t][c] + 1
  /\ b # t => Onward(b, m) = RelayToDownstreams(b, m) /\ runs'[t][c] = runs[t][c]
  /\ \A a \in Agents : a # t => runs'[a][c] = runs[a][c]
LEMMA TakenFacts ==
  ASSUME TypeOK, TreesInv, NEW c \in DOMAIN s.calls, Single(c), NEW b \in Agents, HandleServerMessage(b),
         NEW m, m = Head(inbox[b]), m.call = c, NEW t, t = Request(c).target
  PROVE  TakesUp(b, m, t, c)
<1>1. up[b] # b
  BY BelowOrder DEF TreesInv
<1>2. 1 \in 1..Len(inbox[b]) /\ m = inbox[b][1] /\ inbox[b] # <<>>
  <2>1. inbox[b] # <<>>
    BY DEF HandleServerMessage
  <2>2. 1 \in 1..Len(inbox[b]) /\ m = inbox[b][1]
    BY <1>1, TakenFrom
  <2> QED  BY <2>1, <2>2
<1>3. MessageOK(s, log, m)
  BY <1>2 DEF TypeOK, InboxOK, MessagesOK
<1>4. ForOne(s, c) /\ m.targets = {t} /\ s \in Scenarios
  BY <1>3 DEF MessageOK, Known, Single, ForOne, Request, TypeOK, ServerTypes
<1>5. t \in Agents
  BY <1>4, ScenariosAssumption DEF ForOne, Request
<1>6. UNCHANGED <<s, up, breaks, call>>
  BY DEF HandleServerMessage, serverVars
<1>7. ASSUME NEW a \in Agents, NEW i, At(inbox', a, i, c)
      PROVE  \/ At(inbox, a, Place({b}, a, i), c) /\ inbox'[a][i] = inbox[a][Place({b}, a, i)] /\ (a = b => Place({b}, a, i) # 1)
             \/ a \in Onward(b, m) /\ up[a] = b /\ i = Len(inbox[a]) + 1 /\ ~At(inbox, a, i, c) /\ inbox'[a][i] = m
  <2>1. i \in 1..Len(inbox'[a]) /\ inbox'[a][i].call = c
    BY <1>7 DEF At
  <2>2. \/ /\ Place({b}, a, i) \in 1..Len(inbox[a]) /\ inbox'[a][i] = inbox[a][Place({b}, a, i)]
           /\ a = b => Place({b}, a, i) # 1
        \/ /\ a \in Onward(b, m) /\ up[a] = b /\ a # b
           /\ i = Len(inbox[a]) + 1 /\ i \notin 1..Len(inbox[a]) /\ inbox'[a][i] = m
    BY <1>1, <2>1, TakenFrom
  <2> QED  BY <2>1, <2>2 DEF At
<1>8. runs \in [Agents -> [DOMAIN s.calls -> Nat]]
  BY DEF TypeOK, DiskOK
<1>9. b \in m.targets <=> b = t
  BY <1>4
<1>10. IF b = t THEN runs' = [runs EXCEPT ![b][c] = @ + 1] ELSE runs' = runs
  BY <1>9 DEF HandleServerMessage
<1>11. /\ b = t => Onward(b, m) = {} /\ runs'[t][c] = runs[t][c] + 1
       /\ b # t => Onward(b, m) = RelayToDownstreams(b, m) /\ runs'[t][c] = runs[t][c]
       /\ \A a \in Agents : a # t => runs'[a][c] = runs[a][c]
  <2>1. b = t => Onward(b, m) = {}
    BY <1>9 DEF Onward
  <2>2. b # t => Onward(b, m) = RelayToDownstreams(b, m)
    BY <1>9 DEF Onward
  <2> QED  BY <1>5, <1>8, <1>10, <2>1, <2>2
<1>12. At(inbox, b, 1, c)
  BY <1>2 DEF At
<1> QED  BY <1>1, <1>2, <1>5, <1>6, <1>7, <1>11, <1>12 DEF TakesUp

LEMMA Moved ==
  ASSUME NEW a, NEW b, NEW c, NEW i, NEW j, NEW box, At(box, a, i, c), At(box, a, j, c), Place({b}, a, i) = Place({b}, a, j)
  PROVE  i = j
<1>1. i \in Int /\ j \in Int
  BY DEF At
<1> QED  BY <1>1 DEF Place

\* From its route.
LEMMA TakenOnRoute ==
  ASSUME TypeOK, TreesInv, OnceInv, breaks <= 1, NEW c \in DOMAIN s.calls, Single(c), NEW b \in Agents, HandleServerMessage(b),
         Head(inbox[b]).call = c, NEW t, t = Request(c).target, OnRoute(s.tree, up, inbox, runs[t][c], t, c)
  PROVE  /\ runs'[t][c] <= 1
         /\ OnRoute(s.tree, up, inbox', runs'[t][c], t, c) \/ (breaks = 1 /\ Spread(up, inbox', runs'[t][c], t, c))
<1>1. PICK m : m = Head(inbox[b])
  OBVIOUS
<1>2. /\ At(inbox, b, 1, c) /\ m = inbox[b][1] /\ inbox[b] # <<>> /\ t \in Agents
      /\ \A a \in Agents : \A i : At(inbox', a, i, c) =>
              \/ At(inbox, a, Place({b}, a, i), c) /\ (a = b => Place({b}, a, i) # 1)
              \/ a \in Onward(b, m) /\ up[a] = b /\ i = Len(inbox[a]) + 1 /\ inbox'[a][i] = m
      /\ b = t => Onward(b, m) = {} /\ runs'[t][c] = runs[t][c] + 1
      /\ b # t => Onward(b, m) = RelayToDownstreams(b, m) /\ runs'[t][c] = runs[t][c]
  <2>1. m.call = c
    BY <1>1
  <2>2. TakesUp(b, m, t, c)
    BY <1>1, <2>1, TakenFacts
  <2> QED  BY <2>2 DEF TakesUp
<1>3. runs[t][c] = 0 /\ RouteOK(s.tree, up, t, b, m.path)
  BY <1>2 DEF OnRoute
<1>4. ASSUME NEW a \in Agents, NEW i, At(inbox', a, i, c)
      PROVE  a \in Onward(b, m) /\ up[a] = b /\ i = Len(inbox[a]) + 1 /\ inbox'[a][i] = m
  <2>1. ASSUME At(inbox, a, Place({b}, a, i), c), a = b => Place({b}, a, i) # 1 PROVE FALSE
    BY <1>2, <2>1 DEF OnRoute
  <2> QED  BY <1>2, <1>4, <2>1
<1>5. CASE Onward(b, m) = {}
  <2>1. OnRoute(s.tree, up, inbox', runs'[t][c], t, c)
    BY <1>4, <1>5 DEF OnRoute
  <2> QED  BY <1>2, <1>3, <2>1
<1>6. CASE b # t /\ \E x \in Agents : Onward(b, m) = {x} /\ RouteOK(s.tree, up, t, x, m.path)
  <2>1. PICK x \in Agents : Onward(b, m) = {x} /\ RouteOK(s.tree, up, t, x, m.path)
    BY <1>6
  <2>2. runs'[t][c] = 0
    BY <1>2, <1>3, <1>6
  <2>3. OnRoute(s.tree, up, inbox', 0, t, c)
    BY <1>4, <2>1 DEF OnRoute
  <2> QED  BY <2>2, <2>3
<1>7. CASE b # t /\ breaks = 1 /\ ConnectedIn(b, up)
  <2>1. runs'[t][c] = 0
    BY <1>2, <1>3, <1>7
  <2>2. Grounded(up)
    BY DEF TreesInv
  <2>3. \A a \in Agents : \A i : At(inbox', a, i, c) => ConnectedIn(a, up)
    BY <1>4, <1>7, <2>2, OneStepUp
  <2>4. ASSUME NEW x \in Agents, NEW y \in Agents, NEW i, NEW j, At(inbox', x, i, c), At(inbox', y, j, c), y \in Subtree(x, up)
        PROVE  x = y /\ i = j
    <3>1. up[x] = b /\ up[y] = b
      BY <1>4, <2>4
    <3>2. x = y \/ b \in Subtree(x, up)
      BY <2>2, <2>4, <3>1, OneStepUp
    <3>3. x = y
      BY <2>2, <3>1, <3>2, BelowOrder
    <3> QED  BY <1>4, <2>4, <3>3
  <2>5. Spread(up, inbox', 0, t, c)
    BY <2>3, <2>4 DEF Spread
  <2> QED  BY <1>7, <2>1, <2>5
<1>8. CASE b # t
  <2>1. \/ Onward(b, m) = {} \/ \E x \in Agents : Onward(b, m) = {x} /\ RouteOK(s.tree, up, t, x, m.path)
        \/ breaks = 1 /\ ConnectedIn(b, up)
    <3>1. \/ RelayToDownstreams(b, m) = {}
          \/ m.path # <<>> /\ \E x \in Agents : RelayToDownstreams(b, m) = {x} /\ RouteOK(s.tree, up, t, x, m.path)
          \/ RelayToDownstreams(b, m) = down[b] /\ breaks = 1 /\ ConnectedIn(b, up)
      <4>1. inbox[b] # <<>> /\ b # t /\ RouteOK(s.tree, up, t, b, m.path)
        BY <1>2, <1>3, <1>8
      <4> QED  BY <4>1, NextHop
    <3> QED  BY <1>2, <1>8, <3>1
  <2> QED  BY <1>5, <1>6, <1>7, <1>8, <2>1
<1> QED  BY <1>2, <1>5, <1>8

\* From among the copies of one that was spread.
LEMMA TakenSpread ==
  ASSUME TypeOK, TreesInv, NEW c \in DOMAIN s.calls, Single(c), NEW b \in Agents, HandleServerMessage(b),
         Head(inbox[b]).call = c, NEW t, t = Request(c).target, runs[t][c] <= 1, Spread(up, inbox, runs[t][c], t, c)
  PROVE  runs'[t][c] <= 1 /\ Spread(up, inbox', runs'[t][c], t, c)
<1>1. PICK m : m = Head(inbox[b])
  OBVIOUS
<1>2. /\ At(inbox, b, 1, c) /\ t \in Agents
      /\ \A a \in Agents : \A i : At(inbox', a, i, c) =>
              \/ At(inbox, a, Place({b}, a, i), c) /\ (a = b => Place({b}, a, i) # 1)
              \/ a \in Onward(b, m) /\ up[a] = b /\ i = Len(inbox[a]) + 1
      /\ b = t => Onward(b, m) = {} /\ runs'[t][c] = runs[t][c] + 1
      /\ b # t => runs'[t][c] = runs[t][c]
  <2>1. m.call = c
    BY <1>1
  <2>2. TakesUp(b, m, t, c)
    BY <1>1, <2>1, TakenFacts
  <2> QED  BY <2>2 DEF TakesUp
<1>3. Grounded(up) /\ runs[t][c] \in Nat
  BY <1>2 DEF TreesInv, TypeOK, DiskOK
<1>4. ConnectedIn(b, up)
  BY <1>2 DEF Spread
\* Old copies are neither above nor below the one that was taken.
<1>5. ASSUME NEW a \in Agents, NEW i, At(inbox, a, i, c), a = b => i # 1
      PROVE  b \notin Subtree(a, up) /\ a \notin Subtree(b, up)
  BY <1>2, <1>5 DEF Spread
<1>6. ASSUME NEW a \in Agents, NEW i, At(inbox', a, i, c) PROVE ConnectedIn(a, up)
  <2>1. CASE At(inbox, a, Place({b}, a, i), c)
    BY <2>1 DEF Spread
  <2>2. CASE up[a] = b
    BY <1>3, <1>4, <2>2, OneStepUp
  <2> QED  BY <1>2, <1>6, <2>1, <2>2
<1>7. ASSUME NEW x \in Agents, NEW y \in Agents, NEW i, NEW j, At(inbox', x, i, c), At(inbox', y, j, c), y \in Subtree(x, up)
      PROVE  x = y /\ i = j
  <2>1. CASE /\ At(inbox, x, Place({b}, x, i), c) /\ (x = b => Place({b}, x, i) # 1)
             /\ At(inbox, y, Place({b}, y, j), c) /\ (y = b => Place({b}, y, j) # 1)
    <3>1. x = y /\ Place({b}, x, i) = Place({b}, y, j)
      BY <1>7, <2>1 DEF Spread
    <3> QED  BY <1>7, <3>1, Moved
  <2>2. CASE up[x] = b /\ At(inbox, y, Place({b}, y, j), c) /\ (y = b => Place({b}, y, j) # 1)
    <3>1. y \notin Subtree(b, up)
      BY <1>5, <2>2
    <3>2. x \in Subtree(b, up)
      BY <1>3, <2>2, BelowOrder
    <3> QED  BY <1>3, <1>7, <3>1, <3>2, BelowOrder
  <2>3. CASE up[y] = b /\ At(inbox, x, Place({b}, x, i), c) /\ (x = b => Place({b}, x, i) # 1)
    <3>1. b \notin Subtree(x, up) /\ x \notin Subtree(b, up)
      BY <1>5, <2>3
    <3>2. y \in Subtree(b, up)
      BY <1>3, <2>3, BelowOrder
    <3> QED  BY <1>3, <1>7, <2>3, <3>1, <3>2, OneStepUp
  <2>4. CASE up[x] = b /\ i = Len(inbox[x]) + 1 /\ up[y] = b /\ j = Len(inbox[y]) + 1
    <3>1. x = y \/ b \in Subtree(x, up)
      BY <1>3, <1>7, <2>4, OneStepUp
    <3>2. x = y
      BY <1>3, <2>4, <3>1, BelowOrder
    <3> QED  BY <2>4, <3>2
  <2> QED  BY <1>2, <1>7, <2>1, <2>2, <2>3, <2>4
<1>8. CASE b = t
  <2>1. runs[t][c] # 1
    <3>1. t \in Subtree(t, up)
      BY <1>2, <1>3, BelowOrder
    <3> QED  BY <1>2, <1>8, <3>1 DEF Spread
  <2>2. runs'[t][c] = 1
    BY <1>2, <1>3, <1>8, <2>1
  <2>3. ASSUME NEW a \in Agents, NEW i, At(inbox', a, i, c) PROVE t \notin Subtree(a, up)
    BY <1>2, <1>5, <1>8, <2>3
  <2>4. Spread(up, inbox', 1, t, c)
    BY <1>4, <1>6, <1>7, <1>8, <2>3 DEF Spread
  <2> QED  BY <2>2, <2>4
<1>9. CASE b # t
  <2>1. runs'[t][c] = runs[t][c]
    BY <1>2, <1>9
  <2>2. ASSUME runs[t][c] = 1 PROVE ConnectedIn(t, up) /\ \A a \in Agents : \A i : At(inbox', a, i, c) => t \notin Subtree(a, up)
    <3>1. ConnectedIn(t, up) /\ t \notin Subtree(b, up)
      BY <1>2, <2>2 DEF Spread
    <3>2. ASSUME NEW a \in Agents, NEW i, At(inbox', a, i, c) PROVE t \notin Subtree(a, up)
      <4>1. CASE At(inbox, a, Place({b}, a, i), c)
        BY <2>2, <4>1 DEF Spread
      <4>2. CASE up[a] = b
        <5>1. a \in Subtree(b, up)
          BY <1>3, <4>2, BelowOrder
        <5> QED  BY <1>2, <1>3, <3>1, <5>1, BelowOrder
      <4> QED  BY <1>2, <3>2, <4>1, <4>2
    <3> QED  BY <3>1, <3>2
  <2>3. Spread(up, inbox', runs[t][c], t, c)
    BY <1>6, <1>7, <2>2 DEF Spread
  <2> QED  BY <2>1, <2>3
<1> QED  BY <1>8, <1>9

LEMMA RoutedStep ==
  ASSUME TypeOK, TreesInv, TreesInv', OnceInv, RoutedInv, [Next]_vars
  PROVE  RoutedInv'
<1>1. s' = s
  BY ConnectedStay
<1>2. SUFFICES ASSUME NEW c \in DOMAIN s.calls, Single(c) PROVE \E t : t = Request(c).target /\ RouteInv(c, t)'
  BY <1>1 DEF RoutedInv, Single, Request
<1>3. PICK t : t = Request(c).target
  OBVIOUS
<1>4. s \in Scenarios /\ RouteInv(c, t)
  BY <1>2, <1>3 DEF TypeOK, ServerTypes, RoutedInv
<1>5. t \in Agents
  BY <1>2, <1>3, <1>4, ScenariosAssumption DEF Single, Request
<1>6. CASE Rested(c)
  BY <1>3, <1>4, <1>5, <1>6, RestedStep
<1>7. CASE Send(c)
  <2>1. RouteInv(c, Request(c).target)'
    BY <1>3, <1>4, <1>7, SendStep
  <2>2. t = (Request(c).target)'
    BY <1>1, <1>3 DEF Request
  <2>3. RouteInv(c, t)' <=> RouteInv(c, Request(c).target)'
    BY <2>2 DEF RouteInv
  <2> QED  BY <1>3, <2>1, <2>3
<1>8. CASE Taken(c)
  <2>1. PICK b \in Agents : HandleServerMessage(b) /\ Head(inbox[b]).call = c
    BY <1>8 DEF Taken
  <2>2. PICK m : m = Head(inbox[b])
    OBVIOUS
  <2>3. m.call = c
    BY <2>1, <2>2
  <2>4. TakesUp(b, m, t, c)
    BY <1>2, <1>3, <2>1, <2>2, <2>3, TakenFacts
  <2>5. At(inbox, b, 1, c) /\ UNCHANGED <<s, up, breaks, call>> /\ \A a \in Agents : a # t => runs'[a][c] = runs[a][c]
    BY <2>4 DEF TakesUp
  <2>6. call[c].phase \notin {"new", "open"} /\ \A a \in Agents : a # t => runs'[a][c] = 0
    BY <1>4, <2>5 DEF RouteInv
  <2>7. ASSUME call[c].routed = "yes", breaks <= 1
        PROVE  /\ runs'[t][c] <= 1
               /\ OnRoute(s.tree, up, inbox', runs'[t][c], t, c) \/ (breaks = 1 /\ Spread(up, inbox', runs'[t][c], t, c))
    <3>1. CASE OnRoute(s.tree, up, inbox, runs[t][c], t, c)
      BY <1>2, <1>3, <2>1, <2>7, <3>1, TakenOnRoute
    <3>2. CASE breaks = 1 /\ runs[t][c] <= 1 /\ Spread(up, inbox, runs[t][c], t, c)
      BY <1>2, <1>3, <2>1, <3>2, TakenSpread
    <3> QED  BY <1>4, <2>7, <3>1, <3>2 DEF RouteInv
  <2>8. RouteInv(c, t)'
    BY <2>5, <2>6, <2>7 DEF RouteInv
  <2> QED  BY <1>3, <2>8
<1> QED  BY <1>2, <1>6, <1>7, <1>8, RouteOfStep

LEMMA InitRouted ==
  ASSUME Init
  PROVE  RoutedInv
<1>1. /\ s \in Scenarios /\ inbox = [a \in Agents |-> <<>>] /\ runs = [a \in Agents |-> [c \in DOMAIN s.calls |-> 0]]
      /\ call = [c \in DOMAIN s.calls |-> [phase |-> "new", waves |-> <<>>, pending |-> {}, routed |-> "no", reply |-> NoReply]]
  BY DEF Init
<1>2. \A c : \A a \in Agents : \A i : ~At(inbox, a, i, c)
  BY <1>1, ShortSeqs DEF At
<1>3. ASSUME NEW c \in DOMAIN s.calls, Single(c) PROVE Request(c).target \in Agents
  BY <1>1, <1>3, ScenariosAssumption DEF Single, Request
<1>4. \A c \in DOMAIN s.calls : call[c].routed = "no" /\ \A a \in Agents : runs[a][c] = 0
  BY <1>1
<1> QED  BY <1>2, <1>3, <1>4 DEF RoutedInv, RouteInv

\* A request dispatchExec sent along a route is taken up at most once, wherever the one
\* connection that broke was, and though an agent on the route that has lost the next one
\* hands it to all its peers.
THEOREM RoutedRequestsRunOnce == Spec => []RoutedRunsOnce
<1>1. Init => RoutedInv
  BY InitRouted
<1>2. RoutedInv /\ (ExecInv /\ TreesInv /\ OnceInv) /\ (ExecInv /\ TreesInv /\ OnceInv)' /\ [Next]_vars => RoutedInv'
  BY RoutedStep DEF ExecInv
<1>3. ExecInv /\ RoutedInv => RoutedRunsOnce
  <2>1. SUFFICES ASSUME ExecInv, RoutedInv, NEW c \in DOMAIN call, Single(c), call[c].routed = "yes", breaks <= 1, NEW a \in Agents
                 PROVE  runs[a][c] <= 1
    BY DEF RoutedRunsOnce
  <2>2. c \in DOMAIN s.calls /\ runs[a][c] \in Nat
    BY <2>1 DEF ExecInv, TypeOK, ServerTypes, DiskOK
  <2>3. RouteInv(c, Request(c).target)
    BY <2>1, <2>2 DEF RoutedInv
  <2> QED  BY <2>1, <2>2, <2>3 DEF RouteInv
<1> QED  BY <1>1, <1>2, <1>3, MeshHolds, PTL DEF Spec
=============================================================================
