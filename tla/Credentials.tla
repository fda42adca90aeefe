---------------------------- MODULE Credentials ----------------------------
(***************************************************************************)
(* What lets an agent in: the certificates of the mesh and its CA, the     *)
(* server's signing key, and the session tokens signed with it - how they  *)
(* are issued, kept on disk, renewed, checked at every connection, and     *)
(* rotated while the mesh runs.                                            *)
(*                                                                         *)
(* A key or a CA is of the first or the second generation.  A certificate  *)
(* is the CA that signed it and its age; a token is the key that signed it *)
(* and whether its 24 hours are over.  Where an agent connects is fixed    *)
(* (RelayMesh has that).                                                   *)
(***************************************************************************)
EXTENDS Naturals, FiniteSets

CONSTANTS
  Agents, Server,
  Scenarios  \* each agent's upstream; whether agent.conf has the CA inline or as a file,
             \* and pins the signing key; what rotates; how often servers stop, agents
             \* crash or are cut off, certificates age and tokens expire

ASSUME CredentialsAssumption ==
  \A s \in Scenarios :
    /\ s.upstream \in [Agents -> Agents \cup {Server}]
    /\ s.ca \in {"inline", "file"} /\ s.pinned \in {"yes", "no"}
    /\ s.rotate \subseteq {"ca", "signing_key"}
    /\ s.budget \in [{"stop", "crash", "age", "expire"} -> Nat]

VARIABLES
  conf, budget,
  server,   \* up; key, oldKeys; ca, oldCA, cert (of what CA); sessions: whose token it remembers
  agent,    \* pc; token; keys its verifier has; tls: the files in use; relay: what it serves with
  disk,     \* mtls-client.crt, .key and ca.crt
  writing,  \* the certificate an agent is saving, and the file it is at
  inbox     \* the rotate commands on their way to an agent

vars == <<conf, budget, server, agent, disk, writing, inbox>>

NoToken == [by |-> "none", late |-> "no"]
NoRelay == [cert |-> "none", age |-> "fresh", pool |-> {}]
NotWriting == [step |-> "no", cert |-> "none"]
NoFiles == [crt |-> "none", age |-> "fresh", key |-> "none", ca |-> "none"]
Off == [pc |-> "off", token |-> NoToken, keys |-> {}, tls |-> [cert |-> "no", ca |-> "conf"], relay |-> NoRelay]

Init ==
  \E s \in Scenarios :
    /\ conf = s /\ budget = s.budget
    /\ server = [up |-> "yes", key |-> "first", oldKeys |-> {}, ca |-> "first", oldCA |-> {}, cert |-> "first", sessions |-> {}]
    /\ agent = [a \in Agents |-> Off]
    /\ disk = [a \in Agents |-> NoFiles]
    /\ writing = [a \in Agents |-> NotWriting]
    /\ inbox = [a \in Agents |-> {}]

Spend(kind) == budget[kind] > 0 /\ budget' = [budget EXCEPT ![kind] = @ - 1]
Below(a) == {c \in Agents : conf.upstream[c] = a}
Set(a, pc) == agent' = [agent EXCEPT ![a].pc = pc]

\* The streams to x are cut: mainLoop ends, and connectLoop starts over.
CutOff(x, ags) == [a \in Agents |-> IF conf.upstream[a] = x /\ ags[a].pc \in {"hello", "on"} THEN [ags[a] EXCEPT !.pc = "try"] ELSE ags[a]]

-----------------------------------------------------------------------------
(***************************************************************************)
(* TLS.                                                                    *)
(***************************************************************************)
\* loadCAPool, of the file the agent goes by when it dials.
LoadCAPool(a) == IF agent[a].tls.ca = "conf" THEN {"first"} ELSE {disk[a].ca}

\* ClientCredentials with the agent's certificate: its two files must be a pair.
ClientCredentials(a) == agent[a].tls.cert = "yes" /\ disk[a].key = "its"

Verified(crt, age, pool) == crt \in pool /\ age # "expired"

\* The CAs the server verifies clients by (ServerCredentialsMixedAuthWithReloader).
MixedAuth == {server.ca} \cup server.oldCA

\* A client of any method but Register must have shown a certificate that verifies.
EnforceMTLS(a) == ClientCredentials(a) /\ Verified(disk[a].crt, disk[a].age, MixedAuth)

\* grpcDialOpts, and the server's side of it.
DialServer(a) == server.up = "yes" /\ server.cert \in LoadCAPool(a) /\ EnforceMTLS(a)

\* peerDialOpts: a relay demands a certificate, and goes by what it loaded when it
\* began to serve.
DialPeer(a, p) ==
  /\ agent[p].relay # NoRelay /\ ClientCredentials(a)
  /\ Verified(agent[p].relay.cert, agent[p].relay.age, LoadCAPool(a))
  /\ Verified(disk[a].crt, disk[a].age, agent[p].relay.pool)

\* registrationDialOpts: no certificate is shown.
DialToRegister(a) == server.up = "yes" /\ server.cert \in LoadCAPool(a)

-----------------------------------------------------------------------------
(***************************************************************************)
(* An agent starts and registers.                                          *)
(***************************************************************************)
\* ConfigFromEnv: a CA inline in agent.conf is written out, over whatever is there.
ConfigFromEnv(files) == IF conf.ca = "inline" THEN [files EXCEPT !.ca = "first"] ELSE files

\* loadExistingMTLSCert: the certificate of an earlier run is gone by again, with its CA.
LoadExistingMTLSCert(files) ==
  LET has == files.crt # "none" /\ files.key # "none" IN
  [cert |-> IF has THEN "yes" ELSE "no",
   ca |-> IF conf.ca = "inline" \/ (has /\ files.ca # "none") THEN "disk" ELSE "conf"]

\* Run up to registration.
Run(a) ==
  LET files == ConfigFromEnv(disk[a]) IN
  /\ agent[a].pc = "off"
  /\ disk' = [disk EXCEPT ![a] = files]
  /\ agent' = [agent EXCEPT ![a] = [Off EXCEPT !.pc = "register", !.tls = LoadExistingMTLSCert(files)]]
  /\ UNCHANGED <<conf, budget, server, writing, inbox>>

\* The verifier that setServerVerifier makes, unless the pinned key is another.
SetServerVerifier == {server.key} \cup server.oldKeys
PinMismatch == conf.pinned = "yes" /\ server.key # "first"

SignToken == [by |-> server.key, late |-> "no"]
IssueCert == [step |-> "crt", cert |-> server.ca]

\* Register on the server and the agent's handling of the answer: a token, the signing
\* keys, and a certificate to save.
Register(a) ==
  /\ agent[a].pc = "register" /\ DialToRegister(a)
  /\ server' = [server EXCEPT !.sessions = @ \cup {a}]
  /\ agent' = [agent EXCEPT ![a].token = SignToken,
                            ![a].keys = IF PinMismatch THEN @ ELSE SetServerVerifier,
                            ![a].pc = IF PinMismatch THEN "register" ELSE "save"]
  /\ writing' = IF PinMismatch THEN writing ELSE [writing EXCEPT ![a] = IssueCert]
  /\ UNCHANGED <<conf, budget, disk, inbox>>

\* persistMTLSCert, a file at a time: the certificate, its key, and the CA, which is the
\* one that signed it and no other.
WriteCert(a) ==
  /\ writing[a].step = "crt"
  /\ disk' = [disk EXCEPT ![a].crt = writing[a].cert, ![a].age = "fresh",
                          ![a].key = IF @ = "none" THEN "none" ELSE "another"]
  /\ writing' = [writing EXCEPT ![a].step = "key"]
  /\ UNCHANGED <<conf, budget, server, agent, inbox>>

WriteKey(a) ==
  /\ writing[a].step = "key"
  /\ disk' = [disk EXCEPT ![a].key = "its"]
  /\ writing' = [writing EXCEPT ![a].step = "ca"]
  /\ UNCHANGED <<conf, budget, server, agent, inbox>>

\* With the last file the agent goes by them; after a first registration serveRelay loads
\* them too, once.
WriteCA(a) ==
  LET cert == writing[a].cert
      serving == [cert |-> disk[a].crt, age |-> disk[a].age, pool |-> {cert}]
  IN
  /\ writing[a].step = "ca"
  /\ disk' = [disk EXCEPT ![a].ca = cert]
  /\ agent' = [agent EXCEPT ![a].tls = [cert |-> "yes", ca |-> "disk"],
                            ![a].relay = IF @ = NoRelay THEN serving ELSE @,
                            ![a].pc = IF @ = "save" THEN "try" ELSE @]
  /\ writing' = [writing EXCEPT ![a] = NotWriting]
  /\ UNCHANGED <<conf, budget, server, inbox>>

Persist(a) == WriteCert(a) \/ WriteKey(a) \/ WriteCA(a)

-----------------------------------------------------------------------------
(***************************************************************************)
(* It connects.                                                            *)
(***************************************************************************)
Dial(a) == IF conf.upstream[a] = Server THEN DialServer(a) ELSE DialPeer(a, conf.upstream[a])

\* connectUpstream: a stream that can be opened counts as connected ...
Connect(a) ==
  /\ agent[a].pc = "try" /\ Dial(a)
  /\ Set(a, "hello")
  /\ UNCHANGED <<conf, budget, server, disk, writing, inbox>>

\* ... and when none can, and a new parent is none either, connectLoop registers again.
Reregister(a) ==
  /\ agent[a].pc = "try" /\ ~Dial(a)
  /\ Set(a, "register")
  /\ UNCHANGED <<conf, budget, server, disk, writing, inbox>>

\* verifyTokenWith
VerifyToken(keys, token) == token.by \in keys /\ token.late = "no"

\* Mutant of AuthenticateAgentStream: the keys of before are forgotten.
AuthenticateNewKeyOnly(a) == a \in server.sessions \/ VerifyToken({server.key}, agent[a].token)

\* authenticateAgentStream: the token the server remembers, however old, or one whose
\* signature and age it can check, by its keys of now and before.
AuthenticateAgentStream(a) ==
  a \in server.sessions \/ VerifyToken({server.key} \cup server.oldKeys, agent[a].token)

\* RelayStream goes by the relay's verifier.
RelayStream(a, p) == VerifyToken(agent[p].keys, agent[a].token)

Admitted(a) ==
  IF conf.upstream[a] = Server THEN AuthenticateAgentStream(a) ELSE RelayStream(a, conf.upstream[a])

\* The hello is answered by nothing, or by the end of the stream, and connectLoop dials again.
Hello(a) ==
  /\ agent[a].pc = "hello"
  /\ Set(a, IF Admitted(a) THEN "on" ELSE "try")
  /\ UNCHANGED <<conf, budget, server, disk, writing, inbox>>

-----------------------------------------------------------------------------
(***************************************************************************)
(* Renewal and rotation.                                                   *)
(***************************************************************************)
\* RenewCert: to the agent whose certificate was shown, another.
RenewCert(a) == IF EnforceMTLS(a) THEN IssueCert ELSE NotWriting

\* renewCert, of the agent: it takes the certificate, and does not look at the keys in
\* the answer.
AskToRenewCert(a) ==
  IF DialServer(a) /\ writing[a] = NotWriting THEN [writing EXCEPT ![a] = RenewCert(a)] ELSE writing

CertExpiresWithinAMonth(a) == disk[a].age # "fresh"

\* The check of every 12 hours, and the one when a connection is made.
RenewIfDue(a) ==
  /\ agent[a].pc = "on" /\ CertExpiresWithinAMonth(a)
  /\ writing' = AskToRenewCert(a)
  /\ UNCHANGED <<conf, budget, server, agent, disk, inbox>>

\* broadcastRotation: the command goes out on the open streams, signed with the key of now.
SignServerMessage(kind) == [kind |-> kind, by |-> server.key, key |-> server.key]
BroadcastRotation(kind) ==
  LET heard == {a \in Below(Server) : agent[a].pc = "on"} IN
  /\ \E a \in heard : inbox[a] = {}
  /\ inbox' = [a \in Agents |-> IF a \in heard THEN inbox[a] \cup {SignServerMessage(kind)} ELSE inbox[a]]

\* handleRotate, as the operator asks for it, until it has reached all.
Reached(kind, a) == IF kind = "signing_key" THEN server.key \in agent[a].keys ELSE disk[a].ca = server.ca
Rotating(kind) == IF kind = "signing_key" THEN server.oldKeys # {} ELSE server.oldCA # {}
HandleRotate(kind) ==
  /\ server.up = "yes" /\ Rotating(kind) /\ \E a \in Agents : ~Reached(kind, a)
  /\ BroadcastRotation(kind)
  /\ UNCHANGED <<conf, budget, server, agent, disk, writing>>

VerifyServerMessage(a, m) == m.by \in agent[a].keys

\* handleServerMessage: what the verifier does not know is dropped, and the rest is
\* passed on and done (handleRotateCommand).
HandleRotateCommand(a) ==
  \E m \in inbox[a] :
    LET taken == [inbox EXCEPT ![a] = @ \ {m}]
        passed == [c \in Agents |-> IF c \in Below(a) /\ agent[c].pc = "on" THEN taken[c] \cup {m} ELSE taken[c]]
    IN
    /\ agent[a].pc = "on"
    /\ \/ ~VerifyServerMessage(a, m) /\ inbox' = taken /\ UNCHANGED <<agent, writing>>
       \/ /\ VerifyServerMessage(a, m) /\ m.kind = "signing_key"
          /\ inbox' = passed
          /\ agent' = [agent EXCEPT ![a].keys = @ \cup {m.key}]
          /\ UNCHANGED writing
       \/ /\ VerifyServerMessage(a, m) /\ m.kind = "ca"
          /\ inbox' = passed
          /\ writing' = AskToRenewCert(a)
          /\ UNCHANGED agent
    /\ UNCHANGED <<conf, budget, server, disk>>
-----------------------------------------------------------------------------
(***************************************************************************)
(* The server stops and starts, also to take another configuration; agents *)
(* crash; certificates and tokens age.                                     *)
(***************************************************************************)
\* What is wrong with the server's configuration, as the procedures for rotation go.
NewKey == "signing_key" \in conf.rotate /\ server.key = "first"
NewCA == "ca" \in conf.rotate /\ server.ca = "first"
OldKeyOver == server.oldKeys # {} /\ \A a \in Agents : Reached("signing_key", a)
OldCAOver == server.oldCA # {} /\ server.cert = server.ca /\ \A a \in Agents : disk[a].crt = server.ca

\* The tokens it remembered are gone with the process.
StopServer ==
  /\ server.up = "yes"
  /\ \/ NewKey \/ NewCA \/ OldKeyOver \/ OldCAOver
     \/ budget.stop > 0
  /\ budget' = IF NewKey \/ NewCA \/ OldKeyOver \/ OldCAOver THEN budget ELSE [budget EXCEPT !.stop = @ - 1]
  /\ server' = [server EXCEPT !.up = "no", !.sessions = {}]
  /\ agent' = CutOff(Server, agent)
  /\ inbox' = [a \in Agents |-> IF a \in Below(Server) THEN {} ELSE inbox[a]]
  /\ UNCHANGED <<conf, disk, writing>>

\* Start loads the CA, the one before, and the signing keys.
StartServer ==
  /\ server.up = "no"
  /\ server' = [server EXCEPT !.up = "yes",
       !.key = IF NewKey THEN "second" ELSE @,
       !.oldKeys = IF NewKey THEN {"first"} ELSE IF OldKeyOver THEN {} ELSE @,
       !.ca = IF NewCA THEN "second" ELSE @,
       !.oldCA = IF NewCA THEN {"first"} ELSE IF OldCAOver THEN {} ELSE @]
  /\ UNCHANGED <<conf, budget, agent, disk, writing, inbox>>

\* The operator replaces the server's certificate when all agents have the CA, and
\* CertReloader takes it from then on.
Reload ==
  /\ server.cert # server.ca /\ \A a \in Agents : disk[a].ca = server.ca
  /\ server' = [server EXCEPT !.cert = server.ca]
  /\ UNCHANGED <<conf, budget, agent, disk, writing, inbox>>

Crash(a) ==
  /\ Spend("crash")
  /\ agent[a].pc # "off"
  /\ agent' = CutOff(a, [agent EXCEPT ![a] = Off])
  /\ writing' = [writing EXCEPT ![a] = NotWriting]
  /\ inbox' = [c \in Agents |-> IF c = a \/ c \in Below(a) THEN {} ELSE inbox[c]]
  /\ UNCHANGED <<conf, server, disk>>

\* A connection is lost.
Drop(a) ==
  /\ Spend("crash")
  /\ agent[a].pc = "on"
  /\ Set(a, "try")
  /\ inbox' = [inbox EXCEPT ![a] = {}]
  /\ UNCHANGED <<conf, server, disk, writing>>

\* A month before its end a certificate is due.  It ends only for an agent that could not
\* renew it for that month, but what a relay serves with ends regardless.
Older(age) == IF age = "fresh" THEN "soon" ELSE "expired"
Age(a) ==
  /\ Spend("age")
  /\ disk[a].crt # "none" /\ writing[a] = NotWriting
  /\ agent[a].pc = "on" => disk[a].age = "fresh"
  /\ disk' = [disk EXCEPT ![a].age = Older(@)]
  /\ agent' = [agent EXCEPT ![a].relay = IF @ = NoRelay THEN @ ELSE [@ EXCEPT !.age = Older(@)]]
  /\ UNCHANGED <<conf, server, writing, inbox>>

\* A day after it was issued.
Expire(a) ==
  /\ Spend("expire")
  /\ agent[a].token # NoToken /\ agent[a].token.late = "no"
  /\ agent' = [agent EXCEPT ![a].token.late = "yes"]
  /\ UNCHANGED <<conf, server, disk, writing, inbox>>

-----------------------------------------------------------------------------
AgentStep(a) ==
  \/ Run(a) \/ Register(a) \/ Connect(a) \/ Reregister(a) \/ Hello(a)
  \/ HandleRotateCommand(a) \/ RenewIfDue(a)
Operator == Reload \/ \E kind \in {"ca", "signing_key"} : HandleRotate(kind)

Next ==
  \/ StopServer \/ StartServer \/ Operator
  \/ \E a \in Agents : AgentStep(a) \/ Persist(a) \/ Crash(a) \/ Drop(a) \/ Age(a) \/ Expire(a)

Spec == Init /\ [][Next]_vars

\* The loops of an agent come round, a file is written in the end, and the operator
\* carries a rotation through.
FairSpec ==
  /\ Spec
  /\ WF_vars(StartServer) /\ WF_vars(NewKey /\ StopServer) /\ WF_vars(NewCA /\ StopServer)
  /\ WF_vars(Reload) /\ WF_vars(Operator)
  /\ \A a \in Agents :
       /\ WF_vars(Run(a)) /\ WF_vars(Register(a)) /\ WF_vars(Connect(a) \/ Reregister(a)) /\ WF_vars(Hello(a))
       /\ WF_vars(HandleRotateCommand(a)) /\ WF_vars(RenewIfDue(a)) /\ WF_vars(Persist(a))

-----------------------------------------------------------------------------
\* The token is over a day old and the peer goes by nothing else: a relay always does, a
\* server that was started again since, too.  The stream is opened all the same, which is
\* what connectLoop takes for connected, so it dials again for good and never registers.
LockedOut(a) ==
  /\ agent[a].pc \in {"try", "hello"} /\ Dial(a)
  /\ agent[a].token.late = "yes" /\ ~Admitted(a)

\* Whatever stops and crashes, between any two files written too, and however
\* certificates age and the CA or the signing key of a mesh without relays is exchanged,
\* every agent is connected in the end, except one that is locked out by the age of its
\* token: that is the only thing that keeps an agent out for good.
EveryAgentComesBack == <>[](\A a \in Agents : agent[a].pc = "on" \/ LockedOut(a))
=============================================================================
