-------------------------- MODULE KeyFilesProofs --------------------------
(***************************************************************************)
(* However often its processes crash and restart, and whoever supplied the *)
(* CA, the server that comes up is who the agents know, unless two         *)
(* processes made the files at the same time: ServerIsWhoItWas.            *)
(* It is not inductive.  What keeps it is how the files come to be written *)
(* (KeyInv):                                                               *)
(*   - the signing key is made once, and who loads it has it               *)
(*     (SigningKeyStays);                                                  *)
(*   - a CA the operator supplied is never replaced (OperatorsFiles);      *)
(*   - one process writes a generation of certificates at a time           *)
(*     (OneWriter), in the order of Certs (InOrder), so that the last file *)
(*     vouches for the others (OneGeneration);                             *)
(*   - no process passes by before the last file is there (NobodyIsEarly), *)
(*     and who has passed goes by what is on disk (AllGoByIt).             *)
(***************************************************************************)
EXTENDS KeyFiles, TLAPS

CertFiles == {"ca.crt", "ca.key", "server.crt", "server.key", "agent.crt", "agent.key"}
File == [made : Int, ca : Nat]
Process == [pc : {"off", "certs", "load", "sign", "publish", "up"}, made : Nat, todo : Seq(Files),
            cert : File, ca : Nat, signer : Int]

KeyTypeOK ==
  /\ supplied \in {"yes", "no"} /\ overlap \in {"yes", "no"}
  /\ file \in [Files -> File]
  /\ proc \in [Processes -> Process]
  /\ generations \in Nat
  /\ known \in [ca : Nat, signer : Int]

Public == Tail(Signing)

\* What a generation of all files has still to write: the end of Certs.
IsRest(todo) == Len(todo) \in 1..6 /\ \A j \in 1..Len(todo) : todo[j] = Certs[6 - Len(todo) + j]

\* Who is where, and has what to write: process p, which is at w.
WorkerOK(p, w, theirs) ==
  /\ w.pc \notin {"certs", "sign"} => w.todo = <<>>
  /\ w.pc = "certs" =>
       /\ w.todo # <<>> /\ w.made > 0
       /\ theirs = "yes" => p = "cli" /\ \A j \in 1..Len(w.todo) : w.todo[j] \in CertFiles \ {"ca.key"}
       /\ theirs = "no" => p # "cli" /\ IsRest(w.todo)
  /\ w.pc = "sign" => p = "server" /\ w.todo \in {<<>>, Signing, Public}
  /\ w.pc = "publish" => p = "server"
  /\ p = "cli" => w.pc \in {"off", "certs"}
  /\ p = "agent" /\ theirs = "yes" => w.pc = "off"
Workers == \A p \in Processes : WorkerOK(p, proc[p], supplied)

\* The signing key is made once; whoever loads it has it.
SigningKeyStays ==
  /\ proc["server"].pc = "sign" /\ proc["server"].todo = Signing =>
       proc["server"].made > 0 /\ ~Whole("server_signing.key")
  /\ proc["server"].pc = "sign" /\ proc["server"].todo = Public =>
       Whole("server_signing.key") /\ file["server_signing.key"].made = proc["server"].made
  /\ proc["server"].pc \in {"publish", "up"} =>
       Whole("server_signing.key") /\ proc["server"].signer = file["server_signing.key"].made
  /\ known.ca # 0 => Whole("server_signing.key") /\ known.signer = file["server_signing.key"].made

\* The operator's CA is the one there is.
OperatorsFiles ==
  supplied = "yes" =>
    /\ file["ca.key"] = [made |-> OperatorsCA, ca |-> OperatorsCA]
    /\ \A f \in CertFiles : Whole(f) => file[f].ca = OperatorsCA
    /\ proc["server"].pc \in {"sign", "publish", "up"} =>
         proc["server"].ca = OperatorsCA /\ proc["server"].cert.ca = OperatorsCA
    /\ known.ca \in {0, OperatorsCA}
    /\ proc["server"].pc = "up" => known.ca = OperatorsCA

\* All files are of one generation once the last of them is there, which no process
\* passes by without; until then one process writes them, in order.
OneWriter == \A p, q \in Processes : proc[p].pc = "certs" /\ proc[q].pc = "certs" => p = q
OneGeneration ==
  file["agent.key"] # Absent =>
    /\ file["ca.crt"].made > 0 /\ file["ca.crt"].ca = file["ca.crt"].made
    /\ \A f \in CertFiles \ {"agent.key"} : file[f] = file["ca.crt"]
    /\ file["agent.key"] \in {Cut, file["ca.crt"]}
InOrder ==
  \A p \in Processes : proc[p].pc = "certs" =>
    /\ \A j \in 1..(6 - Len(proc[p].todo)) : file[Certs[j]] = [made |-> proc[p].made, ca |-> proc[p].made]
    /\ file["agent.key"] # Absent => Len(proc[p].todo) = 1 /\ file["agent.key"] = Cut
NobodyIsEarly ==
  \A p \in Processes : proc[p].pc \in {"load", "sign", "publish", "up"} => file["agent.key"] # Absent
AllGoByIt ==
  /\ proc["server"].pc \in {"sign", "publish", "up"} =>
       proc["server"].ca = file["ca.crt"].ca /\ proc["server"].cert.ca = file["ca.crt"].ca
  /\ proc["agent"].pc = "up" => proc["agent"].ca = file["ca.crt"].ca
  /\ known.ca # 0 => file["agent.key"] # Absent /\ known.ca = file["ca.crt"].ca
  /\ proc["server"].pc = "up" => known.ca # 0
OwnFilesHold == OneWriter /\ OneGeneration /\ InOrder /\ NobodyIsEarly /\ AllGoByIt
OwnFiles == supplied = "no" /\ overlap = "no" => OwnFilesHold

KeyInv == KeyTypeOK /\ Workers /\ SigningKeyStays /\ OperatorsFiles /\ OwnFiles

-----------------------------------------------------------------------------
LEMMA TheFiles ==
  /\ Len(Certs) = 6 /\ DOMAIN Certs = 1..6
  /\ Certs[1] = "ca.crt" /\ Certs[2] = "ca.key" /\ Certs[3] = "server.crt"
  /\ Certs[4] = "server.key" /\ Certs[5] = "agent.crt" /\ Certs[6] = "agent.key"
  /\ Files = CertFiles \cup {"server_signing.key", "server_signing.pub"}
  /\ Certs \in Seq(Files) /\ CertsOfCA \in Seq(Files) /\ Signing \in Seq(Files) /\ Public \in Seq(Files)
<1>1. /\ Len(Certs) = 6 /\ DOMAIN Certs = 1..6
      /\ Certs[1] = "ca.crt" /\ Certs[2] = "ca.key" /\ Certs[3] = "server.crt"
      /\ Certs[4] = "server.key" /\ Certs[5] = "agent.crt" /\ Certs[6] = "agent.key"
  BY DEF Certs
<1>2. DOMAIN Signing = 1..2 /\ Signing[1] = "server_signing.key" /\ Signing[2] = "server_signing.pub"
  BY DEF Signing
<1>3. \A i \in 1..6 : i \in {1, 2, 3, 4, 5, 6}  OBVIOUS
<1>4. \A i \in 1..2 : i \in {1, 2}  OBVIOUS
<1>5. {Certs[i] : i \in DOMAIN Certs} = CertFiles  BY <1>1, <1>3 DEF CertFiles
<1>6. {Signing[i] : i \in DOMAIN Signing} = {"server_signing.key", "server_signing.pub"}  BY <1>2, <1>4
<1>7. Files = CertFiles \cup {"server_signing.key", "server_signing.pub"}  BY <1>5, <1>6 DEF Files
<1>8. Certs \in Seq(Files)  BY <1>7 DEF Certs, CertFiles
<1>9. CertsOfCA \in Seq(Files)  BY <1>7 DEF CertsOfCA, CertFiles
<1>10. Signing \in Seq(Files)  BY <1>7 DEF Signing
<1>11. Public \in Seq(Files)  BY <1>10 DEF Public, Signing
<1> QED  BY <1>1, <1>7, <1>8, <1>9, <1>10, <1>11

LEMMA CertsDiffer ==
  /\ \A i \in 1..6 : Certs[i] \in CertFiles /\ (Certs[i] = "agent.key" <=> i = 6)
  /\ \A i, j \in 1..6 : i # j => Certs[i] # Certs[j]
<1>1. \A i \in 1..6 : i = 1 \/ i = 2 \/ i = 3 \/ i = 4 \/ i = 5 \/ i = 6  OBVIOUS
<1>2. /\ Certs[1] = "ca.crt" /\ Certs[2] = "ca.key" /\ Certs[3] = "server.crt"
      /\ Certs[4] = "server.key" /\ Certs[5] = "agent.crt" /\ Certs[6] = "agent.key"
  BY TheFiles
<1> HIDE DEF Certs
<1>3. \A i \in 1..6 : Certs[i] \in CertFiles /\ (Certs[i] = "agent.key" <=> i = 6)
  BY <1>1, <1>2 DEF CertFiles
<1>4. ASSUME NEW i \in 1..6, NEW j \in 1..6, Certs[i] = Certs[j] PROVE i = j
  <2>1. CASE i = 1  BY <1>1, <1>2, <1>4, <2>1
  <2>2. CASE i = 2  BY <1>1, <1>2, <1>4, <2>2
  <2>3. CASE i = 3  BY <1>1, <1>2, <1>4, <2>3
  <2>4. CASE i = 4  BY <1>1, <1>2, <1>4, <2>4
  <2>5. CASE i = 5  BY <1>1, <1>2, <1>4, <2>5
  <2>6. CASE i = 6  BY <1>1, <1>2, <1>4, <2>6
  <2> QED  BY <1>1, <2>1, <2>2, <2>3, <2>4, <2>5, <2>6
<1> QED  BY <1>3, <1>4

LEMMA CertsAreFiles ==
  ASSUME KeyTypeOK, NEW f \in CertFiles
  PROVE  f \in Files /\ file[f] \in File /\ file[f].ca \in Nat /\ file[f].made \in Int
<1>1. f \in Files  BY TheFiles
<1> QED  BY <1>1 DEF KeyTypeOK, File

LEMMA NoLength == \A todo \in Seq(Files) : Len(todo) = 0 <=> todo = <<>>
OBVIOUS

LEMMA SigningKeyThenPublic ==
  /\ Len(Signing) = 2 /\ Head(Signing) = "server_signing.key" /\ Tail(Signing) = Public /\ Signing # <<>>
  /\ Len(Public) = 1 /\ Head(Public) = "server_signing.pub" /\ Tail(Public) = <<>> /\ Public # <<>>
  /\ Signing # Public
BY DEF Signing, Public

LEMMA StoppedIsProcess == Stopped \in Process
BY DEF Stopped, Process, File, Absent

-----------------------------------------------------------------------------
LEMMA KeyInitInv == KeyInit => KeyInv
<1> SUFFICES ASSUME KeyInit PROVE KeyInv  OBVIOUS
<1> USE DEF KeyInit
<1>1. KeyTypeOK
  <2>1. \A f \in Files : file[f] \in File  BY DEF File, Absent, OperatorsCA
  <2> QED  BY <2>1, StoppedIsProcess DEF KeyTypeOK
<1>2. \A p \in Processes : proc[p] = Stopped  OBVIOUS
<1>3. "server" \in Processes /\ "agent" \in Processes  BY DEF Processes
<1>4. Workers  BY <1>2 DEF Workers, WorkerOK, Stopped
<1>5. SigningKeyStays  BY <1>2, <1>3 DEF SigningKeyStays, Stopped
<1>6. OperatorsFiles
  BY <1>2, <1>3, TheFiles DEF OperatorsFiles, Stopped, CertFiles, Whole, Absent, OperatorsCA
<1>7. OwnFiles  BY <1>2, <1>3, TheFiles DEF OwnFiles, OwnFilesHold, OneWriter, OneGeneration, InOrder, NobodyIsEarly, AllGoByIt, Stopped, CertFiles
<1> QED  BY <1>1, <1>4, <1>5, <1>6, <1>7 DEF KeyInv

\* What a step leaves to be shown of the processes.
LEMMA WorkersStep ==
  ASSUME Workers, supplied' = supplied, NEW p \in Processes, WorkerOK(p, proc'[p], supplied),
         \A q \in Processes : q # p => proc'[q] = proc[q]
  PROVE  Workers'
BY DEF Workers

LEMMA ProcessStep ==
  ASSUME KeyTypeOK, NEW p \in Processes, proc'[p] \in Process, proc' = [q \in Processes |-> proc'[q]],
         \A q \in Processes : q # p => proc'[q] = proc[q]
  PROVE  proc' \in [Processes -> Process]
BY DEF KeyTypeOK

LEMMA ProcessMade ==
  ASSUME NEW pc \in {"off", "certs", "load", "sign", "publish", "up"}, NEW made \in Nat, NEW todo \in Seq(Files),
         NEW cert \in File, NEW ca \in Nat, NEW signer \in Int
  PROVE  [pc |-> pc, made |-> made, todo |-> todo, cert |-> cert, ca |-> ca, signer |-> signer] \in Process
BY DEF Process

LEMMA ProcessFields ==
  ASSUME NEW w \in Process
  PROVE  /\ w.pc \in {"off", "certs", "load", "sign", "publish", "up"} /\ w.made \in Nat /\ w.todo \in Seq(Files)
         /\ w.cert \in File /\ w.ca \in Nat /\ w.signer \in Int
BY DEF Process

LEMMA ProcessLoads ==
  ASSUME NEW w \in Process, NEW a, NEW b, NEW c
  PROVE  [w EXCEPT !.pc = a, !.cert = b, !.ca = c] =
           [pc |-> a, made |-> w.made, todo |-> w.todo, cert |-> b, ca |-> c, signer |-> w.signer]
<1> DEFINE new == [w EXCEPT !.pc = a, !.cert = b, !.ca = c]
<1>1. new = [w EXCEPT !.pc = a, !.cert = b, !.ca = c]  OBVIOUS
<1> HIDE DEF new
<1>2. new = [pc |-> a, made |-> w.made, todo |-> w.todo, cert |-> b, ca |-> c, signer |-> w.signer]
  BY <1>1 DEF Process
<1> QED  BY <1>1, <1>2

LEMMA ProcessBegins ==
  ASSUME NEW w \in Process, NEW a, NEW b
  PROVE  [w EXCEPT !.made = a, !.todo = b] =
           [pc |-> w.pc, made |-> a, todo |-> b, cert |-> w.cert, ca |-> w.ca, signer |-> w.signer]
<1> DEFINE new == [w EXCEPT !.made = a, !.todo = b]
<1>1. new = [w EXCEPT !.made = a, !.todo = b]  OBVIOUS
<1> HIDE DEF new
<1>2. new = [pc |-> w.pc, made |-> a, todo |-> b, cert |-> w.cert, ca |-> w.ca, signer |-> w.signer]
  BY <1>1 DEF Process
<1> QED  BY <1>1, <1>2

LEMMA ProcessSigns ==
  ASSUME NEW w \in Process, NEW a, NEW b
  PROVE  [w EXCEPT !.pc = a, !.signer = b] =
           [pc |-> a, made |-> w.made, todo |-> w.todo, cert |-> w.cert, ca |-> w.ca, signer |-> b]
<1> DEFINE new == [w EXCEPT !.pc = a, !.signer = b]
<1>1. new = [w EXCEPT !.pc = a, !.signer = b]  OBVIOUS
<1> HIDE DEF new
<1>2. new = [pc |-> a, made |-> w.made, todo |-> w.todo, cert |-> w.cert, ca |-> w.ca, signer |-> b]
  BY <1>1 DEF Process
<1> QED  BY <1>1, <1>2

LEMMA ProcessPins ==
  ASSUME NEW w \in Process, NEW a, NEW b
  PROVE  [w EXCEPT !.pc = a, !.ca = b] =
           [pc |-> a, made |-> w.made, todo |-> w.todo, cert |-> w.cert, ca |-> b, signer |-> w.signer]
<1> DEFINE new == [w EXCEPT !.pc = a, !.ca = b]
<1>1. new = [w EXCEPT !.pc = a, !.ca = b]  OBVIOUS
<1> HIDE DEF new
<1>2. new = [pc |-> a, made |-> w.made, todo |-> w.todo, cert |-> w.cert, ca |-> b, signer |-> w.signer]
  BY <1>1 DEF Process
<1> QED  BY <1>1, <1>2

LEMMA ProcessReloads ==
  ASSUME NEW w \in Process, NEW a
  PROVE  [w EXCEPT !.cert = a] =
           [pc |-> w.pc, made |-> w.made, todo |-> w.todo, cert |-> a, ca |-> w.ca, signer |-> w.signer]
BY DEF Process

-----------------------------------------------------------------------------
\* A process that writes: what is next, and that it is rightly a file of its own.
LEMMA NextFile ==
  ASSUME KeyTypeOK, Workers, NEW p \in Processes, Writing(p)
  PROVE  LET todo == proc[p].todo IN
         /\ todo \in Seq(Files) /\ Len(todo) \in Nat \ {0} /\ Head(todo) = todo[1] /\ Head(todo) \in Files
         /\ Len(Tail(todo)) = Len(todo) - 1 /\ Tail(todo) \in Seq(Files)
         /\ \A j \in 1..Len(Tail(todo)) : Tail(todo)[j] = todo[j + 1]
         /\ Len(todo) = 1 <=> Tail(todo) = <<>>
         /\ proc[p].pc \in {"certs", "sign"}
<1> DEFINE todo == proc[p].todo
<1>1. todo \in Seq(Files)  BY DEF KeyTypeOK, Process
<1>2. todo # <<>>  BY DEF Writing
<1>3. proc[p].pc \in {"certs", "sign"}  BY <1>2 DEF Workers, WorkerOK
<1> HIDE DEF todo
<1>4. /\ Len(todo) \in Nat \ {0} /\ Head(todo) = todo[1] /\ Head(todo) \in Files
      /\ Len(Tail(todo)) = Len(todo) - 1 /\ Tail(todo) \in Seq(Files)
      /\ \A j \in 1..Len(Tail(todo)) : Tail(todo)[j] = todo[j + 1]
  BY <1>1, <1>2
<1>5. Len(todo) = 1 <=> Tail(todo) = <<>>
  <2>1. Len(Tail(todo)) = 0 <=> Tail(todo) = <<>>  BY <1>4, NoLength
  <2>2. Len(todo) \in Nat /\ Len(Tail(todo)) = Len(todo) - 1  BY <1>4
  <2> QED  BY <2>1, <2>2
<1> QED  BY <1>1, <1>3, <1>4, <1>5 DEF todo

\* The file a generation of all files is at, and how many it has made.
LEMMA PlaceOfRest ==
  ASSUME NEW todo \in Seq(Files), IsRest(todo)
  PROVE  /\ Len(todo) \in 1..6 /\ todo[1] = Certs[7 - Len(todo)] /\ todo[1] \in CertFiles
         /\ todo[1] = "agent.key" <=> Len(todo) = 1
         /\ \A j \in 1..(6 - Len(todo)) : Certs[j] # todo[1] /\ Certs[j] \in CertFiles
         /\ Len(todo) # 1 => IsRest(Tail(todo))
<1>1. Len(todo) \in 1..6 /\ todo[1] = Certs[7 - Len(todo)]  BY DEF IsRest
<1>2. 7 - Len(todo) \in 1..6 /\ (7 - Len(todo) = 6 <=> Len(todo) = 1)
  <2>1. \A n \in 1..6 : 7 - n \in 1..6 /\ (7 - n = 6 <=> n = 1)  OBVIOUS
  <2> QED  BY <1>1, <2>1
<1>3. todo[1] \in CertFiles /\ (todo[1] = "agent.key" <=> Len(todo) = 1)
  BY <1>1, <1>2, CertsDiffer
<1>4. ASSUME NEW j \in 1..(6 - Len(todo)) PROVE Certs[j] # todo[1] /\ Certs[j] \in CertFiles
  <2>1. j \in 1..6 /\ j # 7 - Len(todo)  BY <1>1
  <2> QED  BY <1>1, <1>2, <2>1, CertsDiffer
<1>5. ASSUME Len(todo) # 1 PROVE IsRest(Tail(todo))
  <2>0. \A n \in 1..6 : n # 1 => n - 1 \in 1..6  OBVIOUS
  <2>1. Len(Tail(todo)) = Len(todo) - 1 /\ Len(Tail(todo)) \in 1..6  BY <1>1, <1>5, <2>0
  <2>2. \A j \in 1..Len(Tail(todo)) : Tail(todo)[j] = todo[j + 1]  BY <2>1
  <2>3. ASSUME NEW j \in 1..Len(Tail(todo)) PROVE Tail(todo)[j] = Certs[6 - Len(Tail(todo)) + j]
    <3>0. \A n, k \in 1..6 : k = n - 1 =>
            \A i \in 1..k : i + 1 \in 1..n /\ 6 - n + (i + 1) = 6 - k + i
      OBVIOUS
    <3>1. j + 1 \in 1..Len(todo) /\ 6 - Len(todo) + (j + 1) = 6 - Len(Tail(todo)) + j
      BY <1>1, <2>1, <3>0
    <3>2. todo[j + 1] = Certs[6 - Len(todo) + (j + 1)]  BY <3>1 DEF IsRest
    <3> QED  BY <2>2, <3>1, <3>2
  <2> QED  BY <2>1, <2>3 DEF IsRest
<1> QED  BY <1>1, <1>3, <1>4, <1>5

LEMMA TruncateInv ==
  ASSUME KeyInv, NEW p \in Processes, Truncate(p)
  PROVE  KeyInv'
<1> DEFINE todo == proc[p].todo
           f == Head(todo)
<1> USE DEF KeyInv
<1>1. /\ proc' = proc /\ supplied' = supplied /\ overlap' = overlap /\ known' = known
      /\ generations' = generations /\ Writing(p)
  BY DEF Truncate
<1>2. /\ todo \in Seq(Files) /\ f \in Files /\ f = todo[1] /\ Len(todo) \in Nat \ {0}
      /\ proc[p].pc \in {"certs", "sign"}
  BY <1>1, NextFile
<1>3. file[f] # Cut /\ \A g \in Files : file'[g] = IF g = f THEN Cut ELSE file[g]
  BY DEF Truncate, KeyTypeOK
<1>4. Cut \in File /\ ~(Cut.made > 0) /\ Cut # Absent  BY DEF Cut, File, Absent
<1>5. KeyTypeOK'
  BY <1>1, <1>2, <1>3, <1>4 DEF KeyTypeOK, Truncate
<1>6. Workers'  BY <1>1 DEF Workers, WorkerOK
<1>7. CertFiles \subseteq Files /\ "server_signing.key" \in Files \ CertFiles  BY TheFiles DEF CertFiles
<1>8. "server" \in Processes /\ "agent" \in Processes  BY DEF Processes
<1>9. CASE proc[p].pc = "sign"
  <2>1. p = "server" /\ todo \in {Signing, Public}  BY <1>1, <1>9 DEF Workers, WorkerOK, Writing
  <2>2. f \notin CertFiles  BY <2>1, SigningKeyThenPublic DEF CertFiles
  <2>3. \A g \in CertFiles : file'[g] = file[g]  BY <1>3, <1>7, <2>2
  <2>4. OperatorsFiles'
    BY <1>1, <2>3 DEF OperatorsFiles, Whole, CertFiles
  <2>5. OwnFiles'
    <3>1. \A q \in Processes : proc[q].pc = "certs" /\ supplied = "no" =>
            \A j \in 1..(6 - Len(proc[q].todo)) : file'[Certs[j]] = file[Certs[j]]
      BY <2>3, PlaceOfRest DEF Workers, WorkerOK, KeyTypeOK, Process
    <3> QED  BY <1>1, <2>3, <3>1 DEF OwnFiles, OwnFilesHold, OneWriter, OneGeneration, InOrder, NobodyIsEarly, AllGoByIt, CertFiles
  <2>6. SigningKeyStays'
    <3>1. CASE todo = Signing
      <4>1. f = "server_signing.key" /\ known.ca = 0
        BY <1>9, <2>1, <3>1, SigningKeyThenPublic DEF SigningKeyStays
      <4> QED  BY <1>1, <1>3, <1>4, <1>7, <1>9, <2>1, <3>1, <4>1, SigningKeyThenPublic DEF SigningKeyStays, Whole
    <3>2. CASE todo = Public
      <4>1. f # "server_signing.key"  BY <3>2, SigningKeyThenPublic
      <4>2. file'["server_signing.key"] = file["server_signing.key"]  BY <1>3, <1>7, <4>1
      <4> QED  BY <1>1, <4>2 DEF SigningKeyStays, Whole
    <3> QED  BY <2>1, <3>1, <3>2
  <2> QED  BY <1>5, <1>6, <2>4, <2>5, <2>6
<1>10. CASE proc[p].pc = "certs"
  <2>1. f \in CertFiles
    <3>1. CASE supplied = "yes"
      <4>1. 1 \in 1..Len(todo)  BY <1>2
      <4> QED  BY <1>2, <1>10, <3>1, <4>1 DEF Workers, WorkerOK
    <3>2. CASE supplied = "no"  BY <1>2, <1>10, <3>2, PlaceOfRest DEF Workers, WorkerOK
    <3> QED  BY <3>1, <3>2 DEF KeyTypeOK
  <2>2. file'["server_signing.key"] = file["server_signing.key"]  BY <1>3, <1>7, <2>1
  <2>3. SigningKeyStays'  BY <1>1, <2>2 DEF SigningKeyStays, Whole
  <2>4. OperatorsFiles'
    <3>1. SUFFICES ASSUME supplied = "yes" PROVE OperatorsFiles'  BY <1>1 DEF OperatorsFiles
    <3>2. 1 \in 1..Len(todo)  BY <1>2
    <3>3. f # "ca.key"  BY <1>2, <1>10, <3>1, <3>2 DEF Workers, WorkerOK
    <3>4. "ca.key" \in CertFiles  BY DEF CertFiles
    <3>5. file'["ca.key"] = file["ca.key"]  BY <1>3, <1>7, <3>3, <3>4
    <3>6. \A g \in CertFiles : file'[g].made > 0 => file'[g] = file[g]  BY <1>3, <1>4, <1>7
    <3> QED  BY <1>1, <3>1, <3>5, <3>6 DEF OperatorsFiles, Whole
  <2>5. OwnFiles'
    <3>1. SUFFICES ASSUME supplied = "no", overlap = "no" PROVE OwnFiles'  BY <1>1 DEF OwnFiles, OwnFilesHold, OneWriter, OneGeneration, InOrder, NobodyIsEarly, AllGoByIt
    <3>2. IsRest(todo)  BY <1>10, <3>1 DEF Workers, WorkerOK
    <3>3. "agent.key" \in CertFiles  BY DEF CertFiles
    <3>4. file["agent.key"] = Absent
      <4>1. SUFFICES ASSUME file["agent.key"] # Absent PROVE FALSE  OBVIOUS
      <4>2. Len(todo) = 1 /\ file["agent.key"] = Cut  BY <1>10, <3>1, <4>1 DEF OwnFiles, OwnFilesHold, OneWriter, OneGeneration, InOrder, NobodyIsEarly, AllGoByIt
      <4>3. f = "agent.key"  BY <1>2, <3>2, <4>2, PlaceOfRest
      <4> QED  BY <1>3, <4>2, <4>3
    <3>5. \A q \in Processes : proc[q].pc = "certs" => q = p  BY <1>10, <3>1 DEF OwnFiles, OwnFilesHold, OneWriter, OneGeneration, InOrder, NobodyIsEarly, AllGoByIt
    <3>6. \A j \in 1..(6 - Len(todo)) : file'[Certs[j]] = file[Certs[j]]
      BY <1>2, <1>3, <1>7, <3>2, PlaceOfRest
    <3>7. \A j \in 1..(6 - Len(todo)) : file'[Certs[j]] = [made |-> proc[p].made, ca |-> proc[p].made]
      BY <1>10, <3>1, <3>6 DEF OwnFiles, OwnFilesHold, OneWriter, OneGeneration, InOrder, NobodyIsEarly, AllGoByIt
    <3>8. CASE Len(todo) # 1
      <4>1. f # "agent.key"  BY <1>2, <3>2, <3>8, PlaceOfRest
      <4>2. file'["agent.key"] = Absent  BY <1>3, <1>7, <3>3, <3>4, <4>1
      <4> QED  BY <1>1, <1>8, <1>10, <3>1, <3>4, <3>5, <3>7, <4>2 DEF OwnFiles, OwnFilesHold, OneWriter, OneGeneration, InOrder, NobodyIsEarly, AllGoByIt
    <3>9. CASE Len(todo) = 1
      <4>1. file'["agent.key"] = Cut  BY <1>2, <1>3, <1>7, <3>2, <3>3, <3>9, PlaceOfRest
      <4>2. \A g \in CertFiles \ {"agent.key"} : file'[g] = [made |-> proc[p].made, ca |-> proc[p].made]
        BY <3>7, <3>9, TheFiles DEF CertFiles
      <4>3. proc[p].made > 0  BY <1>10 DEF Workers, WorkerOK
      <4>4. "ca.crt" \in CertFiles \ {"agent.key"}  BY DEF CertFiles
      <4>5. \A q \in Processes : proc[q].pc \notin {"load", "sign", "publish", "up"}  BY <3>1, <3>4 DEF OwnFiles, OwnFilesHold, OneWriter, OneGeneration, InOrder, NobodyIsEarly, AllGoByIt
      <4>6. known.ca = 0  BY <3>1, <3>4 DEF OwnFiles, OwnFilesHold, OneWriter, OneGeneration, InOrder, NobodyIsEarly, AllGoByIt
      <4>7. proc[p].made \in Nat  BY DEF KeyTypeOK, Process
      <4>8. file'["ca.crt"].made = proc[p].made /\ file'["ca.crt"].ca = proc[p].made  BY <4>2, <4>4
      <4>9. \A g \in CertFiles \ {"agent.key"} : file'[g] = file'["ca.crt"]  BY <4>2, <4>4
      <4>10. \A q \in Processes : proc[q].pc = "certs" =>
               /\ \A j \in 1..(6 - Len(proc[q].todo)) :
                    file'[Certs[j]] = [made |-> proc[q].made, ca |-> proc[q].made]
               /\ Len(proc[q].todo) = 1
        BY <3>5, <3>7, <3>9
      <4> QED  BY <1>1, <1>8, <3>5, <4>1, <4>3, <4>5, <4>6, <4>8, <4>9, <4>10 DEF OwnFiles, OwnFilesHold, OneWriter, OneGeneration, InOrder, NobodyIsEarly, AllGoByIt
    <3> QED  BY <3>8, <3>9
  <2> QED  BY <1>5, <1>6, <2>3, <2>4, <2>5
<1> QED  BY <1>2, <1>9, <1>10

LEMMA FillInv ==
  ASSUME KeyInv, NEW p \in Processes, Fill(p)
  PROVE  KeyInv'
<1> DEFINE todo == proc[p].todo
           f == Head(todo)
           made == proc[p].made
           new == proc'[p]
<1> USE DEF KeyInv
<1>1. supplied' = supplied /\ overlap' = overlap /\ known' = known /\ generations' = generations /\ Writing(p)
  BY DEF Fill
<1>2. /\ todo \in Seq(Files) /\ f \in Files /\ f = todo[1] /\ Len(todo) \in Nat \ {0}
      /\ Len(Tail(todo)) = Len(todo) - 1 /\ Tail(todo) \in Seq(Files)
      /\ \A j \in 1..Len(Tail(todo)) : Tail(todo)[j] = todo[j + 1]
      /\ Len(todo) = 1 <=> Tail(todo) = <<>>
      /\ proc[p].pc \in {"certs", "sign"}
  BY <1>1, NextFile
<1>3. /\ file[f] = Cut
      /\ file'[f] = [made |-> made, ca |-> IF supplied = "yes" THEN OperatorsCA ELSE made]
      /\ \A g \in Files : g # f => file'[g] = file[g]
  BY <1>2 DEF Fill, KeyTypeOK
<1>4. proc[p] \in Process /\ made \in Nat  BY DEF KeyTypeOK, Process
<1>5. \A q \in Processes : q # p => proc'[q] = proc[q]  BY DEF Fill, KeyTypeOK
<1>6. new = [proc[p] EXCEPT !.todo = Tail(@), !.pc = AfterFile(p),
               !.signer = IF proc[p].pc = "sign" THEN made ELSE @]
  BY DEF Fill, KeyTypeOK
<1>7. /\ new.todo = Tail(todo) /\ new.made = made /\ new.cert = proc[p].cert /\ new.ca = proc[p].ca
      /\ new.signer = IF proc[p].pc = "sign" THEN made ELSE proc[p].signer
      /\ new.pc = AfterFile(p)
  BY <1>4, <1>6 DEF Process
<1>8. /\ Len(todo) # 1 => new.pc = proc[p].pc
      /\ Len(todo) = 1 /\ p = "cli" => new.pc = "off"
      /\ Len(todo) = 1 /\ p # "cli" /\ proc[p].pc = "sign" => new.pc = "publish"
      /\ Len(todo) = 1 /\ p # "cli" /\ proc[p].pc = "certs" => new.pc = "load"
  <2>1. Len(todo) > 1 <=> Len(todo) # 1
    <3>1. \A n \in Nat \ {0} : n > 1 <=> n # 1  OBVIOUS
    <3> QED  BY <1>2, <3>1
  <2>2. new.pc = IF Len(todo) > 1 THEN proc[p].pc
                 ELSE IF p = "cli" THEN "off" ELSE IF proc[p].pc = "sign" THEN "publish" ELSE "load"
    BY <1>7 DEF AfterFile
  <2> HIDE DEF new, todo
  <2> QED  BY <2>1, <2>2
<1>9. new = [pc |-> new.pc, made |-> made, todo |-> Tail(todo), cert |-> proc[p].cert, ca |-> proc[p].ca,
             signer |-> new.signer]
  BY <1>4, <1>6, <1>7 DEF Process
<1>10. new.pc \in {"off", "certs", "load", "sign", "publish", "up"} /\ new.signer \in Int
       /\ proc[p].cert \in File /\ proc[p].ca \in Nat
  BY <1>2, <1>4, <1>7, <1>8 DEF Process
<1>11. new \in Process
  <2>1. Tail(todo) \in Seq(Files)  BY <1>2
  <2> DEFINE rest == Tail(todo)
  <2> HIDE DEF new, made, rest
  <2>2. [pc |-> new.pc, made |-> made, todo |-> rest, cert |-> proc[p].cert, ca |-> proc[p].ca,
         signer |-> new.signer] \in Process
    BY <1>4, <1>10, <2>1, ProcessMade DEF rest
  <2> QED  BY <1>9, <2>2 DEF rest
<1> HIDE DEF new, todo, f, made
<1>12. KeyTypeOK'
  <2>1. proc' \in [Processes -> Process]
    <3>1. proc' = [q \in Processes |-> proc'[q]]
      <4>1. proc = [q \in Processes |-> proc[q]]  BY DEF KeyTypeOK
      <4> QED  BY <4>1 DEF Fill
    <3> QED  BY <1>5, <1>11, <3>1, ProcessStep DEF new
  <2>2. file' \in [Files -> File]
    <3>1. file' = [g \in Files |-> file'[g]]  BY DEF Fill, KeyTypeOK
    <3>2. file'[f] \in File  BY <1>3, <1>4 DEF File, OperatorsCA
    <3>3. \A g \in Files : file'[g] \in File  BY <1>3, <3>2 DEF KeyTypeOK
    <3> QED  BY <3>1, <3>3
  <2> QED  BY <1>1, <2>1, <2>2 DEF KeyTypeOK
<1>13. CertFiles \subseteq Files /\ "server_signing.key" \in Files \ CertFiles  BY TheFiles DEF CertFiles
<1>14. "server" \in Processes /\ "agent" \in Processes  BY DEF Processes
<1>15. CASE proc[p].pc = "sign"
  <2>1. p = "server" /\ todo \in {Signing, Public}  BY <1>1, <1>15 DEF Workers, WorkerOK, Writing, todo
  <2>2. f \notin CertFiles  BY <2>1, SigningKeyThenPublic DEF CertFiles, f
  <2>3. \A g \in CertFiles : file'[g] = file[g]  BY <1>3, <1>13, <2>2
  <2>4. Workers'
    <3>1. CASE todo = Signing
      <4>1. Tail(todo) = Public /\ Len(todo) # 1  BY <3>1, SigningKeyThenPublic
      <4>2. WorkerOK(p, new, supplied)  BY <1>7, <1>8, <1>15, <2>1, <4>1 DEF WorkerOK
      <4> QED  BY <1>1, <1>5, <4>2, WorkersStep DEF new
    <3>2. CASE todo = Public
      <4>1. Tail(todo) = <<>> /\ Len(todo) = 1  BY <3>2, SigningKeyThenPublic
      <4>2. WorkerOK(p, new, supplied)  BY <1>7, <1>8, <1>15, <2>1, <4>1 DEF WorkerOK
      <4> QED  BY <1>1, <1>5, <4>2, WorkersStep DEF new
    <3> QED  BY <2>1, <3>1, <3>2
  <2>5. new.pc \in {"sign", "publish"}
    BY <1>8, <1>15, <2>1
  <2>6. OperatorsFiles'
    BY <1>1, <1>5, <1>7, <1>15, <2>1, <2>3, <2>5 DEF OperatorsFiles, Whole, CertFiles, new
  <2>7. OwnFiles'
    <3>1. SUFFICES ASSUME supplied = "no", overlap = "no" PROVE OwnFiles'  BY <1>1 DEF OwnFiles, OwnFilesHold, OneWriter, OneGeneration, InOrder, NobodyIsEarly, AllGoByIt
    <3>2. \A q \in Processes : proc[q].pc = "certs" => q # p /\ proc'[q] = proc[q]
      BY <1>5, <1>15
    <3>3. \A q \in Processes : proc'[q].pc = "certs" => proc[q].pc = "certs"
      BY <1>5, <2>5 DEF new
    <3>4. \A q \in Processes : proc[q].pc = "certs" =>
            \A j \in 1..(6 - Len(proc[q].todo)) : file'[Certs[j]] = file[Certs[j]]
      BY <2>3, <3>1, PlaceOfRest DEF Workers, WorkerOK, KeyTypeOK, Process
    <3>5. proc'["agent"] = proc["agent"]  BY <1>5, <1>14, <2>1
    <3>6. \A q \in Processes : proc'[q].pc \in {"load", "sign", "publish", "up"} =>
             proc[q].pc \in {"load", "sign", "publish", "up"}
      BY <1>5, <1>15 DEF new
    <3>7. /\ proc'["server"].pc # "up" /\ proc["server"].pc = "sign"
          /\ proc'["server"].ca = proc["server"].ca /\ proc'["server"].cert = proc["server"].cert
      BY <1>7, <1>15, <2>1, <2>5 DEF new
    <3>8. OwnFilesHold  BY <3>1 DEF OwnFiles
    <3>9. \A g \in {"agent.key", "ca.crt"} : file'[g] = file[g]  BY <2>3 DEF CertFiles
    <3>10. OneWriter'  BY <3>3, <3>8 DEF OwnFilesHold, OneWriter
    <3>11. OneGeneration'  BY <2>3, <3>8, <3>9 DEF OwnFilesHold, OneGeneration
    <3>12. InOrder'
      <4>1. SUFFICES ASSUME NEW q \in Processes, proc'[q].pc = "certs"
                     PROVE  /\ \A j \in 1..(6 - Len(proc'[q].todo)) :
                                 file'[Certs[j]] = [made |-> proc'[q].made, ca |-> proc'[q].made]
                            /\ file'["agent.key"] # Absent => Len(proc'[q].todo) = 1 /\ file'["agent.key"] = Cut
        BY DEF InOrder
      <4>2. proc[q].pc = "certs" /\ proc'[q] = proc[q]  BY <3>2, <3>3, <4>1
      <4> QED  BY <3>4, <3>8, <3>9, <4>2 DEF OwnFilesHold, InOrder
    <3>13. NobodyIsEarly'  BY <3>6, <3>8, <3>9 DEF OwnFilesHold, NobodyIsEarly
    <3>14. AllGoByIt'  BY <1>1, <3>5, <3>7, <3>8, <3>9 DEF OwnFilesHold, AllGoByIt
    <3> QED  BY <3>10, <3>11, <3>12, <3>13, <3>14 DEF OwnFiles, OwnFilesHold
  <2>8. SigningKeyStays'
    <3>1. CASE todo = Signing
      <4>1. f = "server_signing.key" /\ Tail(todo) = Public /\ Len(todo) # 1 /\ Public # Signing
        BY <3>1, SigningKeyThenPublic DEF f
      <4>2. known.ca = 0 /\ made > 0
        BY <1>15, <2>1, <3>1 DEF SigningKeyStays, todo, made
      <4>3. file'["server_signing.key"].made = made  BY <1>3, <4>1
      <4> QED  BY <1>1, <1>7, <1>8, <1>15, <2>1, <4>1, <4>2, <4>3 DEF SigningKeyStays, Whole, new
    <3>2. CASE todo = Public
      <4>1. f # "server_signing.key" /\ Tail(todo) = <<>> /\ Len(todo) = 1 /\ <<>> # Signing /\ <<>> # Public
        BY <3>2, SigningKeyThenPublic DEF f
      <4>2. file'["server_signing.key"] = file["server_signing.key"]  BY <1>3, <1>13, <4>1
      <4>3. Whole("server_signing.key") /\ file["server_signing.key"].made = made
        BY <1>15, <2>1, <3>2 DEF SigningKeyStays, todo, made
      <4> QED  BY <1>1, <1>7, <1>8, <1>15, <2>1, <4>1, <4>2, <4>3 DEF SigningKeyStays, Whole, new
    <3> QED  BY <2>1, <3>1, <3>2
  <2> QED  BY <1>12, <2>4, <2>6, <2>7, <2>8
<1>16. CASE proc[p].pc = "certs"
  <2>1. CASE supplied = "yes"
    <3>1. p = "cli" /\ \A j \in 1..Len(todo) : todo[j] \in CertFiles \ {"ca.key"}
      BY <1>16, <2>1 DEF Workers, WorkerOK, todo
    <3>2. f \in CertFiles \ {"ca.key"}
      <4>1. 1 \in 1..Len(todo)  BY <1>2
      <4> QED  BY <1>2, <3>1, <4>1
    <3>3. \A j \in 1..Len(Tail(todo)) : Tail(todo)[j] \in CertFiles \ {"ca.key"}
      <4>1. \A j \in 1..Len(Tail(todo)) : j + 1 \in 1..Len(todo)  BY <1>2
      <4> QED  BY <1>2, <3>1, <4>1
    <3>4. Workers'
      <4>1. proc[p].made > 0 /\ made = proc[p].made  BY <1>16 DEF Workers, WorkerOK, made
      <4>2. ~(p = "agent") /\ p # "server"  BY <3>1
      <4>3. (new.pc = "certs" /\ Tail(todo) # <<>>) \/ (new.pc = "off" /\ Tail(todo) = <<>>)
        BY <1>2, <1>8, <1>16, <3>1
      <4>4. WorkerOK(p, new, supplied)  BY <1>7, <2>1, <3>1, <3>3, <4>1, <4>2, <4>3 DEF WorkerOK
      <4> QED  BY <1>1, <1>5, <4>4, WorkersStep DEF new
    <3>5. proc'["server"] = proc["server"] /\ proc'["agent"] = proc["agent"]  BY <1>5, <1>14, <3>1
    <3>6. file'["server_signing.key"] = file["server_signing.key"]  BY <1>3, <1>13, <3>2
    <3>7. SigningKeyStays'  BY <1>1, <3>5, <3>6 DEF SigningKeyStays, Whole
    <3>8. OperatorsFiles'
      <4>1. file'["ca.key"] = file["ca.key"]  BY <1>3, <1>13, <3>2 DEF CertFiles
      <4>2. \A g \in CertFiles : Whole(g)' => file'[g].ca = OperatorsCA
        BY <1>3, <1>13, <2>1 DEF OperatorsFiles, Whole
      <4> QED  BY <1>1, <3>5, <4>1, <4>2 DEF OperatorsFiles
    <3>9. OwnFiles'  BY <1>1, <2>1 DEF OwnFiles, OwnFilesHold, OneWriter, OneGeneration, InOrder, NobodyIsEarly, AllGoByIt
    <3> QED  BY <1>12, <3>4, <3>7, <3>8, <3>9
  <2>2. CASE supplied = "no"
    <3>1. p # "cli" /\ IsRest(todo) /\ made > 0  BY <1>16, <2>2 DEF Workers, WorkerOK, todo, made
    <3>2. /\ Len(todo) \in 1..6 /\ f \in CertFiles /\ (f = "agent.key" <=> Len(todo) = 1)
          /\ f = Certs[7 - Len(todo)]
          /\ \A j \in 1..(6 - Len(todo)) : Certs[j] # f /\ Certs[j] \in CertFiles
          /\ Len(todo) # 1 => IsRest(Tail(todo))
      BY <1>2, <3>1, PlaceOfRest
    <3>3. (new.pc = "certs" /\ Len(todo) # 1) \/ (new.pc = "load" /\ Len(todo) = 1)
      BY <1>8, <1>16, <3>1
    <3>4. Workers'
      <4>1. p # "agent" \/ supplied # "yes"  BY <2>2
      <4>2. new.made > 0  BY <1>7, <3>1
      <4>3. WorkerOK(p, new, supplied)  BY <1>2, <1>7, <2>2, <3>1, <3>2, <3>3, <4>1, <4>2 DEF WorkerOK
      <4> QED  BY <1>1, <1>5, <4>3, WorkersStep DEF new
    <3>5. file'["server_signing.key"] = file["server_signing.key"]  BY <1>3, <1>13, <3>2
    <3>6. SigningKeyStays'
      <4>1. proc'["server"] = proc["server"] \/ proc'["server"].pc \in {"certs", "load"}
        BY <1>5, <1>14, <3>3 DEF new
      <4> QED  BY <1>1, <3>5, <4>1 DEF SigningKeyStays, Whole
    <3>7. OperatorsFiles'  BY <1>1, <2>2 DEF OperatorsFiles
    <3>8. OwnFiles'
      <4>1. SUFFICES ASSUME overlap = "no" PROVE OwnFiles'  BY <1>1 DEF OwnFiles, OwnFilesHold, OneWriter, OneGeneration, InOrder, NobodyIsEarly, AllGoByIt
      <4>2. \A q \in Processes : proc[q].pc = "certs" => q = p  BY <1>16, <2>2, <4>1 DEF OwnFiles, OwnFilesHold, OneWriter, OneGeneration, InOrder, NobodyIsEarly, AllGoByIt
      <4>3. \A q \in Processes : proc'[q].pc = "certs" => q = p  BY <1>5, <4>2
      <4>4. "agent.key" \in CertFiles /\ "ca.crt" \in CertFiles \ {"agent.key"}  BY DEF CertFiles
      <4>5. file'[f] = [made |-> made, ca |-> made]  BY <1>3, <2>2
      <4>6. \A j \in 1..(6 - Len(todo)) : file'[Certs[j]] = [made |-> made, ca |-> made]
        <5>1. \A j \in 1..(6 - Len(todo)) : file[Certs[j]] = [made |-> made, ca |-> made]
          BY <1>16, <2>2, <4>1 DEF OwnFiles, OwnFilesHold, OneWriter, OneGeneration, InOrder, NobodyIsEarly, AllGoByIt, todo, made
        <5> QED  BY <1>3, <1>13, <3>2, <5>1
      <4>7. CASE Len(todo) # 1
        <5>1. file["agent.key"] = Absent  BY <1>16, <2>2, <4>1, <4>7 DEF OwnFiles, OwnFilesHold, OneWriter, OneGeneration, InOrder, NobodyIsEarly, AllGoByIt, todo
        <5>2. file'["agent.key"] = Absent  BY <1>3, <1>13, <3>2, <4>4, <4>7, <5>1
        <5>3. \A q \in Processes : proc'[q].pc \notin {"load", "sign", "publish", "up"}
          BY <1>5, <2>2, <3>3, <4>1, <4>7, <5>1 DEF OwnFiles, OwnFilesHold, OneWriter, OneGeneration, InOrder, NobodyIsEarly, AllGoByIt, new
        <5>4. known.ca = 0  BY <2>2, <4>1, <5>1 DEF OwnFiles, OwnFilesHold, OneWriter, OneGeneration, InOrder, NobodyIsEarly, AllGoByIt
        <5>5. \A j \in 1..(6 - Len(Tail(todo))) : file'[Certs[j]] = [made |-> made, ca |-> made]
          <6>1. \A n \in 1..6 : \A j \in 1..(6 - (n - 1)) : j \in 1..(6 - n) \/ j = 7 - n  OBVIOUS
          <6>2. \A j \in 1..(6 - Len(Tail(todo))) : j \in 1..(6 - Len(todo)) \/ j = 7 - Len(todo)
            BY <1>2, <3>2, <6>1
          <6> QED  BY <3>2, <4>5, <4>6, <6>2
        <5>6. \A q \in Processes : proc'[q].pc = "certs" =>
                \A j \in 1..(6 - Len(proc'[q].todo)) :
                  file'[Certs[j]] = [made |-> proc'[q].made, ca |-> proc'[q].made]
          BY <1>7, <4>3, <5>5 DEF new
        <5> QED  BY <1>1, <1>14, <4>3, <5>2, <5>3, <5>4, <5>6 DEF OwnFiles, OwnFilesHold, OneWriter, OneGeneration, InOrder, NobodyIsEarly, AllGoByIt
      <4>8. CASE Len(todo) = 1
        <5>1. f = "agent.key" /\ new.pc = "load"  BY <3>2, <3>3, <4>8
        <5>2. \A q \in Processes : proc'[q].pc # "certs"  BY <4>3, <5>1 DEF new
        <5>3. \A g \in CertFiles \ {"agent.key"} : file'[g] = [made |-> made, ca |-> made]
          BY <4>6, <4>8, TheFiles DEF CertFiles
        <5>4. file'["agent.key"] = [made |-> made, ca |-> made]  BY <4>5, <5>1
        <5>5. file["agent.key"] = Cut /\ Cut # Absent  BY <1>3, <5>1 DEF Cut, Absent
        <5>6. file'["agent.key"] # Absent  BY <3>1, <5>4 DEF Absent
        <5>7. \A g \in CertFiles \ {"agent.key"} : file'[g] = file[g]
          BY <1>3, <1>13, <5>1
        <5>8. proc'["agent"].pc = "up" => proc'["agent"] = proc["agent"]  BY <1>5, <1>14, <5>1 DEF new
        <5>9. proc'["server"].pc \in {"sign", "publish", "up"} => proc'["server"] = proc["server"]
          BY <1>5, <1>14, <5>1 DEF new
        <5>10. file'["ca.crt"].made = made /\ file'["ca.crt"].ca = made  BY <4>4, <5>3
        <5>11. \A g \in CertFiles \ {"agent.key"} : file'[g] = file'["ca.crt"]  BY <4>4, <5>3
        <5>12. file'["agent.key"] = file'["ca.crt"]  BY <4>4, <5>3, <5>4
        <5>13. file'["ca.crt"] = file["ca.crt"]  BY <4>4, <5>7
        <5> QED
          BY <1>1, <2>2, <3>1, <4>1, <5>2, <5>5, <5>6, <5>8, <5>9, <5>10, <5>11, <5>12, <5>13 DEF OwnFiles, OwnFilesHold, OneWriter, OneGeneration, InOrder, NobodyIsEarly, AllGoByIt
      <4> QED  BY <4>7, <4>8
    <3> QED  BY <1>12, <3>4, <3>6, <3>7, <3>8
  <2> QED  BY <2>1, <2>2 DEF KeyTypeOK
<1> QED  BY <1>2, <1>15, <1>16

-----------------------------------------------------------------------------
\* A run of the generator begins.
LEMMA GenerateInv ==
  ASSUME KeyInv, NEW p \in Processes, NEW todo \in Seq(Files), Generate(p, todo), UNCHANGED <<supplied, file, known>>,
         proc[p].pc = "off", todo # <<>>,
         supplied = "yes" => p = "cli" /\ \A j \in 1..Len(todo) : todo[j] \in CertFiles \ {"ca.key"},
         supplied = "no" => p # "cli" /\ IsRest(todo) /\ Len(todo) = 6,
         supplied = "no" /\ overlap = "no" => file["agent.key"] = Absent
  PROVE  KeyInv'
<1> DEFINE new == proc'[p]
<1> USE DEF KeyInv
<1>1. /\ generations \in Nat /\ generations' = generations + 1 /\ generations + 1 > 0
      /\ supplied' = supplied /\ file' = file /\ known' = known
  BY DEF Generate, KeyTypeOK
<1>2. proc[p] \in Process  BY DEF KeyTypeOK
<1>3. \A q \in Processes : q # p => proc'[q] = proc[q]  BY DEF Generate, KeyTypeOK
<1>4. new = [proc[p] EXCEPT !.pc = "certs", !.made = generations + 1, !.todo = todo]  BY DEF Generate, KeyTypeOK
<1>5. proc' = [q \in Processes |-> proc'[q]]
  <2>1. proc = [q \in Processes |-> proc[q]]  BY DEF KeyTypeOK
  <2> QED  BY <2>1 DEF Generate
<1>6. /\ new.pc = "certs" /\ new.made = generations + 1 /\ new.todo = todo
      /\ new \in Process
  <2> DEFINE w == proc[p]
             g == generations + 1
  <2>1. /\ w \in Process /\ new = [w EXCEPT !.pc = "certs", !.made = g, !.todo = todo]
        /\ g \in Nat
    BY <1>1, <1>2, <1>4
  <2> HIDE DEF new, w, g
  <2>2. /\ new = [pc |-> "certs", made |-> g, todo |-> todo, cert |-> w.cert, ca |-> w.ca, signer |-> w.signer]
        /\ w.cert \in File /\ w.ca \in Nat /\ w.signer \in Int
    BY <2>1 DEF Process
  <2>3. new.pc = "certs" /\ new.made = g /\ new.todo = todo  BY <2>2
  <2>4. "certs" \in {"off", "certs", "load", "sign", "publish", "up"}  OBVIOUS
  <2>5. [pc |-> "certs", made |-> g, todo |-> todo, cert |-> w.cert, ca |-> w.ca, signer |-> w.signer] \in Process
    BY <2>1, <2>2, <2>4, ProcessMade
  <2> QED  BY <2>2, <2>3, <2>5 DEF g
<1> HIDE DEF new
<1>7. KeyTypeOK'
  <2>1. proc' \in [Processes -> Process]  BY <1>3, <1>5, <1>6, ProcessStep DEF new
  <2>2. overlap' \in {"yes", "no"}  BY DEF Generate, KeyTypeOK
  <2>3. generations + 1 \in Nat  BY <1>1
  <2> QED  BY <1>1, <2>1, <2>2, <2>3 DEF KeyTypeOK
<1>8. Workers'
  <2>1. supplied = "yes" \/ supplied = "no"  BY DEF KeyTypeOK
  <2>2. WorkerOK(p, new, supplied)  BY <1>1, <1>6, <2>1 DEF WorkerOK
  <2> QED  BY <1>1, <1>3, <2>2, WorkersStep DEF new
<1>9. "server" \in Processes /\ "agent" \in Processes  BY DEF Processes
<1>10. proc'["server"] = proc["server"] \/ proc'["server"].pc = "certs"  BY <1>3, <1>6, <1>9 DEF new
<1>11. proc'["agent"] = proc["agent"] \/ proc'["agent"].pc = "certs"  BY <1>3, <1>6, <1>9 DEF new
<1>12. SigningKeyStays'  BY <1>1, <1>10 DEF SigningKeyStays, Whole
<1>13. OperatorsFiles'  BY <1>1, <1>10 DEF OperatorsFiles, Whole
<1>14. OwnFiles'
  <2>1. SUFFICES ASSUME supplied = "no", overlap' = "no" PROVE OwnFilesHold'  BY <1>1 DEF OwnFiles
  <2>2. overlap = "no" /\ \A q \in Processes \ {p} : ~Writing(q)
    BY <2>1 DEF Generate
  <2>3. OwnFilesHold  BY <2>1, <2>2 DEF OwnFiles
  <2>4. \A q \in Processes : q # p => proc[q].pc # "certs"
    BY <2>2 DEF Workers, WorkerOK, Writing
  <2>5. OneWriter'  BY <1>3, <2>4 DEF OneWriter
  <2>6. OneGeneration'  BY <1>1, <2>3 DEF OwnFilesHold, OneGeneration
  <2>7. InOrder'
    <3>0. Len(new.todo) = 6  BY <1>1, <1>6, <2>1
    <3>1. \A j \in 1..(6 - Len(new.todo)) : FALSE  BY <3>0
    <3>2. file'["agent.key"] = Absent  BY <1>1, <2>1, <2>2
    <3> QED  BY <1>3, <2>4, <3>1, <3>2 DEF InOrder, new
  <2>8. NobodyIsEarly'  BY <1>1, <1>3, <1>6, <2>3 DEF OwnFilesHold, NobodyIsEarly, new
  <2>9. AllGoByIt'  BY <1>1, <1>10, <1>11, <2>3 DEF OwnFilesHold, AllGoByIt
  <2> QED  BY <2>5, <2>6, <2>7, <2>8, <2>9 DEF OwnFilesHold
<1> QED  BY <1>7, <1>8, <1>12, <1>13, <1>14

\* A step that touches no file and begins no generation, of one process.
LEMMA QuietStep ==
  ASSUME KeyInv, NEW p \in Processes,
         supplied' = supplied, file' = file, overlap' = overlap, generations' \in Nat,
         known' \in [ca : Nat, signer : Int],
         \A q \in Processes : q # p => proc'[q] = proc[q],
         proc' = [q \in Processes |-> proc'[q]],
         proc'[p] \in Process, proc'[p].pc # "certs", WorkerOK(p, proc'[p], supplied),
         SigningKeyStays', OperatorsFiles',
         supplied = "no" /\ OwnFilesHold => NobodyIsEarly' /\ AllGoByIt'
  PROVE  KeyInv'
<1> USE DEF KeyInv
<1>1. KeyTypeOK'
  <2>1. proc' \in [Processes -> Process]  BY ProcessStep
  <2> QED  BY <2>1 DEF KeyTypeOK
<1>2. Workers'  BY WorkersStep
<1>3. OwnFiles'
  <2>1. SUFFICES ASSUME supplied = "no", overlap = "no" PROVE OwnFilesHold'  BY DEF OwnFiles
  <2>2. OwnFilesHold  BY <2>1 DEF OwnFiles
  <2>3. \A q \in Processes : proc'[q].pc = "certs" => proc[q].pc = "certs" /\ proc'[q] = proc[q]
    OBVIOUS
  <2>4. OneWriter'  BY <2>2, <2>3 DEF OwnFilesHold, OneWriter
  <2>5. OneGeneration'  BY <2>2 DEF OwnFilesHold, OneGeneration
  <2>6. InOrder'
    <3>1. SUFFICES ASSUME NEW q \in Processes, proc'[q].pc = "certs"
                   PROVE  /\ \A j \in 1..(6 - Len(proc'[q].todo)) :
                               file'[Certs[j]] = [made |-> proc'[q].made, ca |-> proc'[q].made]
                          /\ file'["agent.key"] # Absent => Len(proc'[q].todo) = 1 /\ file'["agent.key"] = Cut
      BY DEF InOrder
    <3>2. proc[q].pc = "certs" /\ proc'[q] = proc[q]  BY <2>3, <3>1
    <3> QED  BY <2>2, <3>2 DEF OwnFilesHold, InOrder
  <2> QED  BY <2>1, <2>2, <2>4, <2>5, <2>6 DEF OwnFilesHold
<1> QED  BY <1>1, <1>2, <1>3

LEMMA EnsureCertsInv ==
  ASSUME KeyInv, NEW p \in Processes, EnsureCerts(p)
  PROVE  KeyInv'
<1> USE DEF KeyInv
<1>1. /\ supplied' = supplied /\ file' = file /\ known' = known
      /\ proc[p].pc = "off" /\ p # "cli" /\ (p = "agent" => supplied = "no")
  BY DEF EnsureCerts
<1>2. CASE supplied = "yes" \/ FilesExist
  <2> DEFINE new == proc'[p]
  <2>1. Goto(p, "load") /\ generations' = generations /\ overlap' = overlap
    BY <1>2 DEF EnsureCerts
  <2>2. proc[p] \in Process /\ \A q \in Processes : q # p => proc'[q] = proc[q]
    BY <2>1 DEF Goto, KeyTypeOK
  <2>3. new = [proc[p] EXCEPT !.pc = "load"]  BY <2>1 DEF Goto, KeyTypeOK
  <2>4. proc' = [q \in Processes |-> proc'[q]]
    <3>1. proc = [q \in Processes |-> proc[q]]  BY DEF KeyTypeOK
    <3> QED  BY <2>1, <3>1 DEF Goto
  <2>5. new \in Process /\ new.pc = "load" /\ new.todo = proc[p].todo  BY <2>2, <2>3 DEF Process
  <2> HIDE DEF new
  <2>6. proc[p].todo = <<>>  BY <1>1 DEF Workers, WorkerOK
  <2>7. WorkerOK(p, new, supplied)
    <3>1. p = "agent" => supplied # "yes"  BY <1>1
    <3> QED  BY <1>1, <2>5, <2>6, <3>1 DEF WorkerOK
  <2>8. "server" \in Processes /\ "agent" \in Processes  BY DEF Processes
  <2>9. proc'["server"] = proc["server"] \/ proc'["server"].pc = "load"  BY <2>2, <2>5, <2>8 DEF new
  <2>10. proc'["agent"] = proc["agent"] \/ proc'["agent"].pc = "load"  BY <2>2, <2>5, <2>8 DEF new
  <2>11. SigningKeyStays'  BY <1>1, <2>9 DEF SigningKeyStays, Whole
  <2>12. OperatorsFiles'  BY <1>1, <2>9 DEF OperatorsFiles, Whole
  <2>13. ASSUME supplied = "no", OwnFilesHold PROVE NobodyIsEarly' /\ AllGoByIt'
    <3>1. file["agent.key"] # Absent
      <4>1. FilesExist  BY <1>2, <2>13
      <4>2. 6 \in DOMAIN Certs /\ Certs[6] = "agent.key"  BY TheFiles
      <4> QED  BY <4>1, <4>2 DEF FilesExist
    <3>2. NobodyIsEarly'  BY <1>1, <3>1 DEF NobodyIsEarly
    <3>3. AllGoByIt'  BY <1>1, <2>9, <2>10, <2>13 DEF OwnFilesHold, AllGoByIt
    <3> QED  BY <3>2, <3>3
  <2>14. generations' \in Nat /\ known' \in [ca : Nat, signer : Int]  BY <1>1, <2>1 DEF KeyTypeOK
  <2> QED
    BY <1>1, <2>1, <2>2, <2>4, <2>5, <2>7, <2>11, <2>12, <2>13, <2>14, QuietStep DEF new
<1>3. CASE ~(supplied = "yes" \/ FilesExist)
  <2>1. Generate(p, Certs)  BY <1>3 DEF EnsureCerts, GenerateSelfSigned
  <2>2. supplied = "no"  BY <1>3 DEF KeyTypeOK
  <2>3. Certs \in Seq(Files) /\ Len(Certs) = 6  BY TheFiles
  <2>4. Certs # <<>>  BY <2>3, NoLength
  <2>5. IsRest(Certs)
    <3>1. \A j \in 1..6 : 6 - 6 + j = j  OBVIOUS
    <3>2. \A j \in 1..Len(Certs) : Certs[j] = Certs[6 - Len(Certs) + j]  BY <2>3, <3>1
    <3> QED  BY <2>3, <3>2 DEF IsRest
  <2>6. ASSUME overlap = "no", file["agent.key"] # Absent PROVE FALSE
    <3>1. PICK i \in DOMAIN Certs : file[Certs[i]] = Absent  BY <1>3 DEF FilesExist
    <3>2. Certs[i] \in CertFiles  BY <3>1, TheFiles, CertsDiffer
    <3>3. OneGeneration  BY <2>2, <2>6 DEF OwnFiles, OwnFilesHold
    <3>4. Certs[i] # "agent.key"  BY <2>6, <3>1
    <3>5. file["ca.crt"] = Absent /\ file["ca.crt"].made > 0
      BY <2>6, <3>1, <3>2, <3>3, <3>4 DEF OneGeneration
    <3> QED  BY <3>5 DEF Absent
  <2> QED  BY <1>1, <2>1, <2>2, <2>3, <2>4, <2>5, <2>6, GenerateInv
<1> QED  BY <1>2, <1>3

LEMMA GenerateWithCAInv ==
  ASSUME KeyInv, GenerateWithCA
  PROVE  KeyInv'
<1> USE DEF KeyInv
<1>1. supplied = "yes" /\ proc["cli"].pc = "off" /\ Generate("cli", CertsOfCA) /\ UNCHANGED <<supplied, file, known>>
  BY DEF GenerateWithCA
<1>2. "cli" \in Processes  BY DEF Processes
<1>3. CertsOfCA \in Seq(Files)  BY TheFiles
<1>4. Len(CertsOfCA) = 5 /\ \A j \in 1..5 : CertsOfCA[j] \in CertFiles \ {"ca.key"}
  <2>1. /\ Len(CertsOfCA) = 5
        /\ CertsOfCA[1] = "ca.crt" /\ CertsOfCA[2] = "server.crt" /\ CertsOfCA[3] = "server.key"
        /\ CertsOfCA[4] = "agent.crt" /\ CertsOfCA[5] = "agent.key"
    BY DEF CertsOfCA
  <2>2. \A j \in 1..5 : j = 1 \/ j = 2 \/ j = 3 \/ j = 4 \/ j = 5  OBVIOUS
  <2> QED  BY <2>1, <2>2 DEF CertFiles
<1>5. CertsOfCA # <<>>  BY <1>3, <1>4, NoLength
<1>6. /\ supplied = "yes" => "cli" = "cli" /\ \A j \in 1..Len(CertsOfCA) : CertsOfCA[j] \in CertFiles \ {"ca.key"}
      /\ supplied # "no"
  BY <1>1, <1>4
<1> QED  BY <1>1, <1>2, <1>3, <1>5, <1>6, GenerateInv

-----------------------------------------------------------------------------
LEMMA DieInv ==
  ASSUME KeyInv, NEW p \in Processes, Die(p)
  PROVE  KeyInv'
<1> USE DEF KeyInv
<1>1. /\ supplied' = supplied /\ file' = file /\ overlap' = overlap /\ generations' = generations
      /\ known' = known /\ proc' = [proc EXCEPT ![p] = Stopped]
  BY DEF Die
<1>2. proc'[p] = Stopped /\ \A q \in Processes : q # p => proc'[q] = proc[q]  BY <1>1 DEF KeyTypeOK
<1>3. proc' = [q \in Processes |-> proc'[q]]
  <2>1. proc = [q \in Processes |-> proc[q]]  BY DEF KeyTypeOK
  <2> QED  BY <1>1, <2>1
<1>4. Stopped.pc = "off" /\ Stopped.todo = <<>> /\ Stopped \in Process  BY StoppedIsProcess DEF Stopped
<1>5. WorkerOK(p, proc'[p], supplied)  BY <1>2, <1>4 DEF WorkerOK
<1>6. \A q \in Processes : proc'[q] = proc[q] \/ proc'[q].pc = "off"  BY <1>2, <1>4
<1>7. "server" \in Processes /\ "agent" \in Processes  BY DEF Processes
<1>8. SigningKeyStays'  BY <1>1, <1>6, <1>7 DEF SigningKeyStays, Whole
<1>9. OperatorsFiles'  BY <1>1, <1>6, <1>7 DEF OperatorsFiles, Whole
<1>10. ASSUME supplied = "no", OwnFilesHold PROVE NobodyIsEarly' /\ AllGoByIt'
  <2>1. NobodyIsEarly'  BY <1>1, <1>6, <1>10 DEF OwnFilesHold, NobodyIsEarly
  <2>2. AllGoByIt'  BY <1>1, <1>6, <1>7, <1>10 DEF OwnFilesHold, AllGoByIt
  <2> QED  BY <2>1, <2>2
<1>11. generations' \in Nat /\ known' \in [ca : Nat, signer : Int]  BY <1>1 DEF KeyTypeOK
<1> QED  BY <1>1, <1>2, <1>3, <1>4, <1>5, <1>8, <1>9, <1>10, <1>11, QuietStep

\* The server moves: what of its new record matters.
LEMMA ServerStep ==
  ASSUME KeyInv, UNCHANGED <<supplied, file, overlap>>, generations' \in Nat, known' \in [ca : Nat, signer : Int],
         NEW new \in Process, proc' = [proc EXCEPT !["server"] = new],
         new.pc # "certs", WorkerOK("server", new, supplied),
         SigningKeyStays', OperatorsFiles',
         supplied = "no" /\ OwnFilesHold => NobodyIsEarly' /\ AllGoByIt'
  PROVE  KeyInv'
<1> USE DEF KeyInv
<1>1. "server" \in Processes  BY DEF Processes
<1>2. proc'["server"] = new /\ \A q \in Processes : q # "server" => proc'[q] = proc[q]  BY <1>1 DEF KeyTypeOK
<1>3. proc' = [q \in Processes |-> proc'[q]]
  <2>1. proc = [q \in Processes |-> proc[q]]  BY DEF KeyTypeOK
  <2> QED  BY <2>1
<1> QED  BY <1>1, <1>2, <1>3, QuietStep

LEMMA ServerStopsInv ==
  ASSUME KeyInv, UNCHANGED <<supplied, file, generations, overlap, known>>,
         proc' = [proc EXCEPT !["server"] = Stopped], proc["server"] # Stopped
  PROVE  KeyInv'
<1>1. "server" \in Processes /\ Die("server")  BY DEF Processes, Die
<1> QED  BY <1>1, DieInv

LEMMA LoadServerCertsInv ==
  ASSUME KeyInv, LoadServerCerts
  PROVE  KeyInv'
<1> DEFINE w == proc["server"]
           new == [w EXCEPT !.pc = "sign", !.cert = file["server.crt"], !.ca = file["ca.crt"].ca]
<1> USE DEF KeyInv
<1>1. /\ supplied' = supplied /\ file' = file /\ overlap' = overlap /\ generations' = generations
      /\ known' = known /\ w.pc = "load"
  BY DEF LoadServerCerts
<1>2. "server" \in Processes /\ "agent" \in Processes /\ w \in Process  BY DEF Processes, KeyTypeOK
<1>3. CASE ~(KeyPair("server.crt", "server.key") /\ LoadCA)
  <2>1. proc' = [proc EXCEPT !["server"] = Stopped]  BY <1>3 DEF LoadServerCerts
  <2>2. w # Stopped  BY <1>1 DEF Stopped
  <2> QED  BY <1>1, <2>1, <2>2, ServerStopsInv
<1>4. CASE KeyPair("server.crt", "server.key") /\ LoadCA
  <2>1. proc' = [proc EXCEPT !["server"] = new]  BY <1>2, <1>4 DEF LoadServerCerts, KeyTypeOK
  <2>2. {"ca.crt", "ca.key", "server.crt", "server.key"} \subseteq CertFiles \ {"agent.key"} /\ CertFiles \subseteq Files
    BY TheFiles DEF CertFiles
  <2>3. Whole("server.crt") /\ Whole("ca.crt")  BY <1>4 DEF KeyPair, LoadCA
  <2>4. w.todo = <<>>  BY <1>1, <1>2 DEF Workers, WorkerOK
  <2>5. file["server.crt"] \in File /\ file["ca.crt"].ca \in Nat  BY <2>2 DEF KeyTypeOK, File
  <2>6. /\ new = [pc |-> "sign", made |-> w.made, todo |-> w.todo, cert |-> file["server.crt"],
                  ca |-> file["ca.crt"].ca, signer |-> w.signer]
        /\ w.made \in Nat /\ w.todo \in Seq(Files) /\ w.signer \in Int
    <3> DEFINE cert == file["server.crt"]
               ca == file["ca.crt"].ca
    <3> HIDE DEF w, cert, ca
    <3>1. [w EXCEPT !.pc = "sign", !.cert = cert, !.ca = ca] =
            [pc |-> "sign", made |-> w.made, todo |-> w.todo, cert |-> cert, ca |-> ca, signer |-> w.signer]
      BY <1>2, ProcessLoads
    <3> QED  BY <1>2, <3>1, ProcessFields DEF cert, ca
  <2> HIDE DEF new, w
  <2>7. new.pc = "sign" /\ new.todo = <<>> /\ new.cert = file["server.crt"] /\ new.ca = file["ca.crt"].ca
    BY <2>4, <2>6
  <2>8. "sign" \in {"off", "certs", "load", "sign", "publish", "up"}  OBVIOUS
  <2>9. new \in Process  BY <2>5, <2>6, <2>8, ProcessMade
  <2>10. WorkerOK("server", new, supplied)  BY <2>7 DEF WorkerOK
  <2>11. proc'["server"] = new /\ \A q \in Processes : q # "server" => proc'[q] = proc[q]
    BY <1>2, <2>1 DEF KeyTypeOK
  <2>12. SigningKeyStays'  BY <1>1, <2>7, <2>11, SigningKeyThenPublic DEF SigningKeyStays, Whole
  <2>13. OperatorsFiles'  BY <1>1, <2>2, <2>3, <2>7, <2>11 DEF OperatorsFiles, Whole
  <2>14. ASSUME supplied = "no", OwnFilesHold PROVE NobodyIsEarly' /\ AllGoByIt'
    <3>1. file["agent.key"] # Absent  BY <1>1, <1>2, <2>14 DEF OwnFilesHold, NobodyIsEarly, w
    <3>2. file["server.crt"].ca = file["ca.crt"].ca
      BY <2>2, <2>14, <3>1 DEF OwnFilesHold, OneGeneration
    <3>3. NobodyIsEarly'  BY <1>1, <3>1 DEF NobodyIsEarly
    <3>4. proc'["agent"] = proc["agent"]  BY <1>2, <2>11
    <3>5. AllGoByIt'  BY <1>1, <2>7, <2>11, <2>14, <3>2, <3>4 DEF OwnFilesHold, AllGoByIt
    <3> QED  BY <3>3, <3>5
  <2>15. generations' \in Nat /\ known' \in [ca : Nat, signer : Int]  BY <1>1 DEF KeyTypeOK
  <2>16. new.pc # "certs"  BY <2>7
  <2> QED  BY <1>1, <2>1, <2>9, <2>10, <2>12, <2>13, <2>14, <2>15, <2>16, ServerStep
<1> QED  BY <1>3, <1>4

LEMMA EnsureServerSignerInv ==
  ASSUME KeyInv, EnsureServerSigner
  PROVE  KeyInv'
<1> DEFINE w == proc["server"]
           key == file["server_signing.key"]
<1> USE DEF KeyInv
<1>1. /\ supplied' = supplied /\ file' = file /\ overlap' = overlap /\ known' = known
      /\ w.pc = "sign" /\ w.todo = <<>>
  BY DEF EnsureServerSigner, Writing
<1>2. "server" \in Processes /\ "agent" \in Processes /\ w \in Process  BY DEF Processes, KeyTypeOK
<1>3. key \in File  BY TheFiles DEF KeyTypeOK
<1>4. known' \in [ca : Nat, signer : Int] /\ generations \in Nat  BY <1>1 DEF KeyTypeOK
\* What a server that goes on in any of these ways keeps.
<1>5. ASSUME NEW new \in Process, proc' = [proc EXCEPT !["server"] = new], new.pc \in {"sign", "publish"},
             new.cert = w.cert, new.ca = w.ca
      PROVE  /\ OperatorsFiles' /\ new.pc # "certs"
             /\ supplied = "no" /\ OwnFilesHold => NobodyIsEarly' /\ AllGoByIt'
  <2>1. proc'["server"] = new /\ \A q \in Processes : q # "server" => proc'[q] = proc[q]
    BY <1>2, <1>5 DEF KeyTypeOK
  <2>2. OperatorsFiles'  BY <1>1, <1>5, <2>1 DEF OperatorsFiles, Whole
  <2>3. ASSUME supplied = "no", OwnFilesHold PROVE NobodyIsEarly' /\ AllGoByIt'
    <3>1. file["agent.key"] # Absent  BY <1>1, <1>2, <2>3 DEF OwnFilesHold, NobodyIsEarly
    <3>2. NobodyIsEarly'  BY <1>1, <3>1 DEF NobodyIsEarly
    <3>3. proc'["agent"] = proc["agent"]  BY <1>2, <2>1
    <3>4. AllGoByIt'  BY <1>1, <1>5, <2>1, <2>3, <3>3 DEF OwnFilesHold, AllGoByIt
    <3> QED  BY <3>2, <3>4
  <2> QED  BY <1>5, <2>2, <2>3
<1>6. CASE key = Absent
  <2> DEFINE g == generations + 1
             new == [w EXCEPT !.made = g, !.todo = Signing]
  <2>1. generations' = g /\ g \in Nat /\ g > 0 /\ proc' = [proc EXCEPT !["server"] = new]
    <3>1. proc' = [proc EXCEPT !["server"] = new] /\ generations' = g
      BY <1>6 DEF EnsureServerSigner
    <3>2. g \in Nat /\ g > 0  BY <1>4
    <3> QED  BY <3>1, <3>2
  <2> HIDE DEF g
  <2>2. /\ new = [pc |-> "sign", made |-> g, todo |-> Signing, cert |-> w.cert, ca |-> w.ca, signer |-> w.signer]
        /\ w.cert \in File /\ w.ca \in Nat /\ w.signer \in Int
    <3> DEFINE todo == Signing
    <3> HIDE DEF w, todo
    <3>1. [w EXCEPT !.made = g, !.todo = todo] =
            [pc |-> w.pc, made |-> g, todo |-> todo, cert |-> w.cert, ca |-> w.ca, signer |-> w.signer]
      BY <1>2, ProcessBegins
    <3> QED  BY <1>1, <1>2, <3>1, ProcessFields DEF todo
  <2> HIDE DEF new, w
  <2>3. "sign" \in {"off", "certs", "load", "sign", "publish", "up"} /\ Signing \in Seq(Files)  BY TheFiles
  <2>4. new \in Process  BY <2>1, <2>2, <2>3, ProcessMade
  <2>5. new.pc = "sign" /\ new.made = g /\ new.todo = Signing /\ new.cert = w.cert /\ new.ca = w.ca  BY <2>2
  <2>6. WorkerOK("server", new, supplied)  BY <2>5 DEF WorkerOK
  <2>7. proc'["server"] = new  BY <1>2, <2>1 DEF KeyTypeOK
  <2>8. SigningKeyStays'
    <3>1. ~Whole("server_signing.key")  BY <1>6 DEF Whole, Absent
    <3>2. known.ca = 0  BY <3>1 DEF SigningKeyStays
    <3> QED  BY <1>1, <2>1, <2>5, <2>7, <3>1, <3>2, SigningKeyThenPublic DEF SigningKeyStays, Whole
  <2>9. /\ OperatorsFiles' /\ new.pc # "certs"
        /\ supplied = "no" /\ OwnFilesHold => NobodyIsEarly' /\ AllGoByIt'
    BY <1>5, <2>1, <2>4, <2>5
  <2>10. generations' \in Nat  BY <2>1
  <2> QED  BY <1>1, <1>4, <2>1, <2>4, <2>6, <2>8, <2>9, <2>10, ServerStep
<1>7. CASE key # Absent /\ LoadSigner
  <2> DEFINE new == [w EXCEPT !.pc = "publish", !.signer = key.made]
  <2>1. generations' = generations /\ proc' = [proc EXCEPT !["server"] = new]
    BY <1>2, <1>7 DEF EnsureServerSigner, KeyTypeOK
  <2>2. /\ new = [pc |-> "publish", made |-> w.made, todo |-> w.todo, cert |-> w.cert, ca |-> w.ca, signer |-> key.made]
        /\ w.made \in Nat /\ w.todo \in Seq(Files) /\ w.cert \in File /\ w.ca \in Nat /\ key.made \in Int
    <3> HIDE DEF w
    <3>1. key.made \in Int  BY <1>3 DEF File
    <3> HIDE DEF key
    <3> QED  BY <1>2, <3>1, ProcessFields, ProcessSigns
  <2> HIDE DEF new, w, key
  <2>3. "publish" \in {"off", "certs", "load", "sign", "publish", "up"}  OBVIOUS
  <2>4. new \in Process  BY <2>2, <2>3, ProcessMade
  <2>5. new.pc = "publish" /\ new.todo = <<>> /\ new.signer = key.made /\ new.cert = w.cert /\ new.ca = w.ca
    BY <1>1, <2>2
  <2>6. WorkerOK("server", new, supplied)  BY <2>5 DEF WorkerOK
  <2>7. proc'["server"] = new  BY <1>2, <2>1 DEF KeyTypeOK
  <2>8. SigningKeyStays'
    <3>1. Whole("server_signing.key")  BY <1>7 DEF LoadSigner
    <3> QED  BY <1>1, <2>5, <2>7, <3>1 DEF SigningKeyStays, Whole, key
  <2>9. /\ OperatorsFiles' /\ new.pc # "certs"
        /\ supplied = "no" /\ OwnFilesHold => NobodyIsEarly' /\ AllGoByIt'
    BY <1>5, <2>1, <2>4, <2>5
  <2>10. generations' \in Nat  BY <1>4, <2>1
  <2> QED  BY <1>1, <1>4, <2>1, <2>4, <2>6, <2>8, <2>9, <2>10, ServerStep
<1>8. CASE key # Absent /\ ~LoadSigner
  <2>1. generations' = generations /\ proc' = [proc EXCEPT !["server"] = Stopped]
    BY <1>8 DEF EnsureServerSigner
  <2>2. w # Stopped  BY <1>1 DEF Stopped
  <2> QED  BY <1>1, <2>1, <2>2, ServerStopsInv
<1> QED  BY <1>6, <1>7, <1>8

LEMMA WriteAgentConfigInv ==
  ASSUME KeyInv, WriteAgentConfig
  PROVE  KeyInv'
<1> DEFINE w == proc["server"]
           new == [w EXCEPT !.pc = "up"]
<1> USE DEF KeyInv
<1>1. /\ supplied' = supplied /\ file' = file /\ overlap' = overlap /\ generations' = generations
      /\ w.pc = "publish"
      /\ known' = IF known.ca = 0 THEN [ca |-> w.ca, signer |-> w.signer] ELSE known
  BY DEF WriteAgentConfig
<1>2. "server" \in Processes /\ "agent" \in Processes /\ w \in Process  BY DEF Processes, KeyTypeOK
<1>3. proc' = [proc EXCEPT !["server"] = new]  BY <1>2 DEF WriteAgentConfig, Goto, KeyTypeOK
<1>4. /\ new \in Process /\ new.pc = "up" /\ new.todo = w.todo /\ new.cert = w.cert /\ new.ca = w.ca
      /\ new.signer = w.signer
  BY <1>2 DEF Process
<1>5. known' \in [ca : Nat, signer : Int] /\ generations' \in Nat
  <2>1. w.ca \in Nat /\ w.signer \in Int  BY <1>2, ProcessFields
  <2> QED  BY <1>1, <2>1 DEF KeyTypeOK
<1> HIDE DEF new
<1>6. proc'["server"] = new /\ \A q \in Processes : q # "server" => proc'[q] = proc[q]
  BY <1>2, <1>3 DEF KeyTypeOK
<1>7. w.todo = <<>>  BY <1>1, <1>2 DEF Workers, WorkerOK
<1>8. WorkerOK("server", new, supplied)  BY <1>4, <1>7 DEF WorkerOK
<1>9. known'.ca = IF known.ca = 0 THEN w.ca ELSE known.ca  BY <1>1
<1>10. known'.signer = IF known.ca = 0 THEN w.signer ELSE known.signer  BY <1>1
<1>11. SigningKeyStays'
  <2>1. Whole("server_signing.key") /\ w.signer = file["server_signing.key"].made  BY <1>1 DEF SigningKeyStays
  <2>2. known'.signer = file["server_signing.key"].made  BY <1>10, <2>1 DEF SigningKeyStays
  <2> QED  BY <1>1, <1>4, <1>6, <2>1, <2>2 DEF SigningKeyStays, Whole
<1>12. OperatorsFiles'  BY <1>1, <1>4, <1>6, <1>9 DEF OperatorsFiles, Whole
<1>13. ASSUME supplied = "no", OwnFilesHold PROVE NobodyIsEarly' /\ AllGoByIt'
  <2>1. file["agent.key"] # Absent  BY <1>1, <1>2, <1>13 DEF OwnFilesHold, NobodyIsEarly
  <2>2. file["ca.crt"].ca > 0  BY <1>13, <2>1 DEF OwnFilesHold, OneGeneration
  <2>3. w.ca = file["ca.crt"].ca /\ w.cert.ca = file["ca.crt"].ca  BY <1>1, <1>13 DEF OwnFilesHold, AllGoByIt
  <2>4. known.ca # 0 => known.ca = file["ca.crt"].ca  BY <1>13 DEF OwnFilesHold, AllGoByIt
  <2>5. known'.ca = file["ca.crt"].ca  BY <1>9, <2>3, <2>4
  <2>6. known'.ca # 0
    <3>1. "ca.crt" \in CertFiles  BY DEF CertFiles
    <3>2. file["ca.crt"].ca \in Nat  BY <3>1, CertsAreFiles
    <3> QED  BY <2>2, <2>5, <3>2
  <2>7. NobodyIsEarly'  BY <1>1, <2>1 DEF NobodyIsEarly
  <2>8. proc'["agent"] = proc["agent"]  BY <1>2, <1>6
  <2>9. proc'["agent"].pc = "up" => proc'["agent"].ca = file["ca.crt"].ca
    BY <1>13, <2>8 DEF OwnFilesHold, AllGoByIt
  <2>10. AllGoByIt'  BY <1>1, <1>4, <1>6, <2>1, <2>3, <2>5, <2>6, <2>9 DEF AllGoByIt
  <2> QED  BY <2>7, <2>10
<1> QED  BY <1>1, <1>3, <1>4, <1>5, <1>8, <1>11, <1>12, <1>13, ServerStep

LEMMA ReloadInv ==
  ASSUME KeyInv, Reload
  PROVE  KeyInv'
<1> DEFINE w == proc["server"]
           crt == file["server.crt"]
           new == [w EXCEPT !.cert = crt]
<1> USE DEF KeyInv
<1>1. /\ supplied' = supplied /\ file' = file /\ overlap' = overlap /\ generations' = generations
      /\ known' = known /\ w.pc = "up" /\ Whole("server.crt")
  BY DEF Reload, KeyPair
<1>2. "server" \in Processes /\ "agent" \in Processes /\ w \in Process  BY DEF Processes, KeyTypeOK
<1>3. proc' = [proc EXCEPT !["server"] = new]  BY <1>2 DEF Reload, KeyTypeOK
<1>4. crt \in File
  <2>1. "server.crt" \in CertFiles  BY DEF CertFiles
  <2> QED  BY <2>1, CertsAreFiles
<1>5. new \in Process /\ new.pc = "up" /\ new.todo = w.todo /\ new.cert = crt /\ new.ca = w.ca /\ new.signer = w.signer
  <2> HIDE DEF w, crt
  <2> QED  BY <1>1, <1>2, <1>4 DEF Process, w
<1> HIDE DEF new
<1>6. proc'["server"] = new /\ \A q \in Processes : q # "server" => proc'[q] = proc[q]
  BY <1>2, <1>3 DEF KeyTypeOK
<1>7. w.todo = <<>>  BY <1>1, <1>2 DEF Workers, WorkerOK
<1>8. WorkerOK("server", new, supplied)  BY <1>5, <1>7 DEF WorkerOK
<1>9. SigningKeyStays'  BY <1>1, <1>5, <1>6 DEF SigningKeyStays, Whole
<1>10. OperatorsFiles'
  <2>1. "server.crt" \in CertFiles  BY DEF CertFiles
  <2> QED  BY <1>1, <1>5, <1>6, <2>1 DEF OperatorsFiles, Whole
<1>11. ASSUME supplied = "no", OwnFilesHold PROVE NobodyIsEarly' /\ AllGoByIt'
  <2>1. file["agent.key"] # Absent  BY <1>1, <1>2, <1>11 DEF OwnFilesHold, NobodyIsEarly
  <2>2. crt = file["ca.crt"]
    <3>1. "server.crt" \in CertFiles \ {"agent.key"}  BY DEF CertFiles
    <3> QED  BY <1>11, <2>1, <3>1 DEF OwnFilesHold, OneGeneration
  <2>3. NobodyIsEarly'  BY <1>1, <2>1 DEF NobodyIsEarly
  <2>4. proc'["agent"] = proc["agent"]  BY <1>2, <1>6
  <2>5. AllGoByIt'  BY <1>1, <1>5, <1>6, <1>11, <2>2, <2>4 DEF OwnFilesHold, AllGoByIt
  <2> QED  BY <2>3, <2>5
<1>12. generations' \in Nat /\ known' \in [ca : Nat, signer : Int]  BY <1>1 DEF KeyTypeOK
<1>13. new.pc # "certs"  BY <1>5
<1> QED  BY <1>1, <1>3, <1>5, <1>8, <1>9, <1>10, <1>11, <1>12, <1>13, ServerStep

LEMMA RegistrationDialOptsInv ==
  ASSUME KeyInv, RegistrationDialOpts
  PROVE  KeyInv'
<1> DEFINE w == proc["agent"]
           ca == file["ca.crt"].ca
           new == [w EXCEPT !.pc = "up", !.ca = ca]
<1> USE DEF KeyInv
<1>1. /\ supplied' = supplied /\ file' = file /\ overlap' = overlap /\ generations' = generations
      /\ known' = known /\ w.pc \in {"load", "up"}
  BY DEF RegistrationDialOpts
<1>2. "server" \in Processes /\ "agent" \in Processes /\ w \in Process  BY DEF Processes, KeyTypeOK
<1>3. proc' = [proc EXCEPT !["agent"] = new]  BY <1>2 DEF RegistrationDialOpts, KeyTypeOK
<1>4. ca \in Nat
  <2>1. "ca.crt" \in CertFiles  BY DEF CertFiles
  <2> QED  BY <2>1, CertsAreFiles
<1>5. /\ new = [pc |-> "up", made |-> w.made, todo |-> w.todo, cert |-> w.cert, ca |-> ca, signer |-> w.signer]
      /\ w.made \in Nat /\ w.todo \in Seq(Files) /\ w.cert \in File /\ w.signer \in Int
  <2> HIDE DEF w, ca
  <2> QED  BY <1>2, ProcessFields, ProcessPins
<1> HIDE DEF new, ca
<1>6. "up" \in {"off", "certs", "load", "sign", "publish", "up"}  OBVIOUS
<1>7. new \in Process  BY <1>4, <1>5, <1>6, ProcessMade
<1>8. new.pc = "up" /\ new.todo = w.todo /\ new.ca = ca  BY <1>5
<1>9. proc'["agent"] = new /\ \A q \in Processes : q # "agent" => proc'[q] = proc[q]
  BY <1>2, <1>3 DEF KeyTypeOK
<1>10. proc' = [q \in Processes |-> proc'[q]]
  <2>1. proc = [q \in Processes |-> proc[q]]  BY DEF KeyTypeOK
  <2> QED  BY <1>3, <2>1
<1>11. WorkerOK("agent", new, supplied)
  <2>1. w.todo = <<>> /\ supplied # "yes"  BY <1>1, <1>2 DEF Workers, WorkerOK
  <2> QED  BY <1>8, <2>1 DEF WorkerOK
<1>12. proc'["server"] = proc["server"]  BY <1>2, <1>9
<1>13. SigningKeyStays'  BY <1>1, <1>12 DEF SigningKeyStays, Whole
<1>14. OperatorsFiles'  BY <1>1, <1>12 DEF OperatorsFiles, Whole
<1>15. ASSUME supplied = "no", OwnFilesHold PROVE NobodyIsEarly' /\ AllGoByIt'
  <2>1. NobodyIsEarly'
    <3>1. \A q \in Processes : proc'[q].pc = proc[q].pc \/ (q = "agent" /\ proc[q].pc = "load")
      BY <1>1, <1>8, <1>9
    <3> QED  BY <1>1, <1>15, <3>1 DEF OwnFilesHold, NobodyIsEarly
  <2>2. AllGoByIt'  BY <1>1, <1>8, <1>9, <1>12, <1>15 DEF OwnFilesHold, AllGoByIt, ca
  <2> QED  BY <2>1, <2>2
<1>16. generations' \in Nat /\ known' \in [ca : Nat, signer : Int]  BY <1>1 DEF KeyTypeOK
<1>17. new.pc # "certs" /\ proc'["agent"] = new  BY <1>8, <1>9
<1> QED
  BY <1>1, <1>2, <1>7, <1>9, <1>10, <1>11, <1>13, <1>14, <1>15, <1>16, <1>17, QuietStep

-----------------------------------------------------------------------------
LEMMA KeyNextInv == KeyInv /\ [KeyNext]_keyVars => KeyInv'
<1> SUFFICES ASSUME KeyInv, [KeyNext]_keyVars PROVE KeyInv'  OBVIOUS
<1>1. CASE KeyNext
  <2>1. ASSUME NEW p \in Processes, EnsureCerts(p) PROVE KeyInv'  BY <2>1, EnsureCertsInv
  <2>2. ASSUME NEW p \in Processes, Truncate(p) PROVE KeyInv'  BY <2>2, TruncateInv
  <2>3. ASSUME NEW p \in Processes, Fill(p) PROVE KeyInv'  BY <2>3, FillInv
  <2>4. ASSUME NEW p \in Processes, Die(p) PROVE KeyInv'  BY <2>4, DieInv
  <2> QED
    BY <1>1, <2>1, <2>2, <2>3, <2>4, GenerateWithCAInv, LoadServerCertsInv, EnsureServerSignerInv,
       WriteAgentConfigInv, RegistrationDialOptsInv, ReloadInv
    DEF KeyNext
<1>2. CASE UNCHANGED keyVars
  BY <1>2 DEF keyVars, KeyInv, KeyTypeOK, Workers, SigningKeyStays, OperatorsFiles, OwnFiles, OwnFilesHold,
     OneWriter, OneGeneration, InOrder, NobodyIsEarly, AllGoByIt, Whole
<1> QED  BY <1>1, <1>2

LEMMA KeyInvSays == KeyInv => ServerIsWhoItWas
<1> SUFFICES ASSUME KeyInv, overlap = "no"
             PROVE  /\ proc["server"].pc = "up" =>
                         /\ [ca |-> proc["server"].ca, signer |-> proc["server"].signer] = known
                         /\ proc["server"].cert.ca = known.ca
                         /\ file["ca.key"].ca = known.ca
                    /\ proc["server"].pc = "up" /\ proc["agent"].pc = "up" => proc["agent"].ca = known.ca
  BY DEF ServerIsWhoItWas
<1> USE DEF KeyInv
<1>1. known \in [ca : Nat, signer : Int] /\ "agent" \in Processes /\ "server" \in Processes
  BY DEF KeyTypeOK, Processes
<1>2. SUFFICES ASSUME proc["server"].pc = "up"
               PROVE  /\ proc["server"].ca = known.ca /\ proc["server"].signer = known.signer
                      /\ proc["server"].cert.ca = known.ca /\ file["ca.key"].ca = known.ca
                      /\ proc["agent"].pc = "up" => proc["agent"].ca = known.ca
  BY <1>1
<1>3. CASE supplied = "yes"
  <2>1. known.ca = OperatorsCA /\ OperatorsCA # 0  BY <1>2, <1>3 DEF OperatorsFiles, OperatorsCA
  <2>2. proc["server"].signer = known.signer  BY <1>2, <2>1 DEF SigningKeyStays
  <2>3. proc["agent"].pc = "off"  BY <1>1, <1>3 DEF Workers, WorkerOK
  <2> QED  BY <1>2, <1>3, <2>1, <2>2, <2>3 DEF OperatorsFiles
<1>4. CASE supplied = "no"
  <2>1. OwnFilesHold  BY <1>4 DEF OwnFiles
  <2>2. known.ca # 0 /\ known.ca = file["ca.crt"].ca /\ file["agent.key"] # Absent
    BY <1>2, <2>1 DEF OwnFilesHold, AllGoByIt
  <2>3. proc["server"].signer = known.signer  BY <1>2, <2>2 DEF SigningKeyStays
  <2>4. file["ca.key"] = file["ca.crt"]
    <3>1. "ca.key" \in CertFiles \ {"agent.key"}  BY DEF CertFiles
    <3> QED  BY <2>1, <2>2, <3>1 DEF OwnFilesHold, OneGeneration
  <2> QED  BY <1>2, <2>1, <2>2, <2>3, <2>4 DEF OwnFilesHold, AllGoByIt
<1> QED  BY <1>3, <1>4 DEF KeyTypeOK

\* Whatever process dies while it writes whatever file, and whoever makes the files
\* again, a server that comes up is the server its agents know: the CA and the signing key
\* they pinned, and a certificate that CA signed - if no two processes made them at once
\* (EnsureCerts, GenerateSelfSigned, EnsureServerSigner, Server.Start).
THEOREM ServerStaysItself == KeySpec => []ServerIsWhoItWas
<1>1. KeySpec => []KeyInv  BY KeyInitInv, KeyNextInv, PTL DEF KeySpec
<1> QED  BY <1>1, KeyInvSays, PTL
=============================================================================
