------------------------------ MODULE KeyFiles ------------------------------
(***************************************************************************)
(* How the server, an agent on the same host and "dirq cert generate" make *)
(* and load the files everybody's trust hangs on: a CA, certificates with  *)
(* their keys, and the signing key (tlsutil.EnsureCerts and                *)
(* GenerateSelfSigned or GenerateWithCA, signutil.EnsureServerSigner,      *)
(* Server.Start).  Files are written one by one, truncated first; a        *)
(* process may die, or a write fail, which ends it, in between.            *)
(*                                                                         *)
(* A file is [made, ca]: the run that made it (0 for no file, -1 for one   *)
(* that is cut short) and the CA it is, or is signed by.                   *)
(***************************************************************************)
EXTENDS Integers, Sequences

CONSTANT MaxGenerations     \* bound on the generations

ASSUME KeyFilesAssumption == MaxGenerations \in Nat

Processes == {"server", "agent", "cli"}
Certs == <<"ca.crt", "ca.key", "server.crt", "server.key", "agent.crt", "agent.key">>
CertsOfCA == <<"ca.crt", "server.crt", "server.key", "agent.crt", "agent.key">>
Signing == <<"server_signing.key", "server_signing.pub">>
Files == {Certs[i] : i \in DOMAIN Certs} \cup {Signing[i] : i \in DOMAIN Signing}

VARIABLES
  supplied,     \* "no", or "yes": the server's certificates are the operator's, of a CA of theirs
  file,         \* the files
  proc,         \* each process: where it is, what it has still to write, and what it loaded
  generations,  \* how many there were
  overlap,      \* history: whether one began while another was writing: "yes" or "no"
  known         \* history: the CA and the signing key the server came up with first

keyVars == <<supplied, file, proc, generations, overlap, known>>

Absent == [made |-> 0, ca |-> 0]
Cut == [made |-> -1, ca |-> 0]
Stopped == [pc |-> "off", made |-> 0, todo |-> <<>>, cert |-> Absent, ca |-> 0, signer |-> 0]
OperatorsCA == 100

KeyInit ==
  /\ supplied \in {"yes", "no"}
  /\ file = [f \in Files |-> IF supplied = "yes" /\ f = "ca.key"
                             THEN [made |-> OperatorsCA, ca |-> OperatorsCA] ELSE Absent]
  /\ proc = [p \in Processes |-> Stopped]
  /\ generations = 0
  /\ overlap = "no"
  /\ known = [ca |-> 0, signer |-> 0]

FilesExist == \A i \in DOMAIN Certs : file[Certs[i]] # Absent
Whole(f) == file[f].made > 0
Writing(p) == proc[p].todo # <<>>

-----------------------------------------------------------------------------
(***************************************************************************)
(* Making the files.                                                       *)
(***************************************************************************)

\* A run of the generator begins: keys are made, files are to be written.
Generate(p, todo) ==
  /\ generations < MaxGenerations
  /\ generations' = generations + 1
  /\ proc' = [proc EXCEPT ![p].pc = "certs", ![p].made = generations + 1, ![p].todo = todo]
  /\ overlap' = IF \E q \in Processes \ {p} : Writing(q) THEN "yes" ELSE overlap

Goto(p, pc) == proc' = [proc EXCEPT ![p].pc = pc]

\* (mutant) Only what is missing is made.
GenerateMissing(p) == Generate(p, SelectSeq(Certs, LAMBDA f : file[f] = Absent))

\* GenerateSelfSigned: nothing if every file is there, else all of them anew.
GenerateSelfSigned(p) == Generate(p, Certs)

\* EnsureCerts: the operator's files are left alone.
EnsureCerts(p) ==
  /\ proc[p].pc = "off" /\ p # "cli"
  /\ p = "agent" => supplied = "no"
  /\ IF supplied = "yes" \/ FilesExist
     THEN Goto(p, "load") /\ UNCHANGED <<generations, overlap>>
     ELSE GenerateSelfSigned(p)
  /\ UNCHANGED <<supplied, file, known>>

\* dirq cert generate, with a CA of the operator's: over whatever is there.
GenerateWithCA ==
  /\ supplied = "yes" /\ proc["cli"].pc = "off"
  /\ Generate("cli", CertsOfCA)
  /\ UNCHANGED <<supplied, file, known>>

\* writePEM, writeKeyPEM, os.WriteFile: open and truncate ...
Truncate(p) ==
  /\ Writing(p) /\ file[Head(proc[p].todo)] # Cut
  /\ file' = [file EXCEPT ![Head(proc[p].todo)] = Cut]
  /\ UNCHANGED <<supplied, proc, generations, overlap, known>>

\* Where a process goes from a file it has made.
AfterFile(p) ==
  IF Len(proc[p].todo) > 1 THEN proc[p].pc
  ELSE IF p = "cli" THEN "off" ELSE IF proc[p].pc = "sign" THEN "publish" ELSE "load"

\* ... and fill.
Fill(p) ==
  /\ Writing(p) /\ file[Head(proc[p].todo)] = Cut
  /\ file' = [file EXCEPT ![Head(proc[p].todo)] = [made |-> proc[p].made,
                            ca |-> IF supplied = "yes" THEN OperatorsCA ELSE proc[p].made]]
  /\ proc' = [proc EXCEPT ![p].todo = Tail(@), ![p].pc = AfterFile(p),
                          ![p].signer = IF proc[p].pc = "sign" THEN proc[p].made ELSE @]
  /\ UNCHANGED <<supplied, generations, overlap, known>>

-----------------------------------------------------------------------------
(***************************************************************************)
(* Loading them: Server.Start, and the agent's Run.                        *)
(***************************************************************************)

\* NewCertReloader: the certificate and its key must be a pair.
KeyPair(crt, key) == Whole(crt) /\ file[key] = file[crt]

\* LoadCA: both parse; nobody looks whether they belong together.
LoadCA == Whole("ca.crt") /\ Whole("ca.key")

\* A process that cannot load what it needs ends.
LoadServerCerts ==
  /\ proc["server"].pc = "load"
  /\ IF KeyPair("server.crt", "server.key") /\ LoadCA
     THEN proc' = [proc EXCEPT !["server"].pc = "sign", !["server"].cert = file["server.crt"],
                               !["server"].ca = file["ca.crt"].ca]
     ELSE proc' = [proc EXCEPT !["server"] = Stopped]
  /\ UNCHANGED <<supplied, file, generations, overlap, known>>

\* EnsureServerSigner: made if there is no private key, else read from that alone.
LoadSigner == Whole("server_signing.key")
EnsureServerSigner ==
  /\ proc["server"].pc = "sign" /\ ~Writing("server")
  /\ IF file["server_signing.key"] = Absent
     THEN /\ generations < MaxGenerations
          /\ generations' = generations + 1
          /\ proc' = [proc EXCEPT !["server"].made = generations + 1, !["server"].todo = Signing]
     ELSE /\ UNCHANGED generations
          /\ IF LoadSigner
             THEN proc' = [proc EXCEPT !["server"].pc = "publish", !["server"].signer = file["server_signing.key"].made]
             ELSE proc' = [proc EXCEPT !["server"] = Stopped]
  /\ UNCHANGED <<supplied, file, overlap, known>>

\* The server is up: agent.conf is written, with its CA and key, and agents pin them.
WriteAgentConfig ==
  /\ proc["server"].pc = "publish"
  /\ Goto("server", "up")
  /\ known' = IF known.ca = 0 THEN [ca |-> proc["server"].ca, signer |-> proc["server"].signer] ELSE known
  /\ UNCHANGED <<supplied, file, generations, overlap>>

\* An agent on this host dials to register: it goes by the CA it finds, and by no
\* certificate of its own; it dials again if that file does not parse.
RegistrationDialOpts ==
  /\ proc["agent"].pc \in {"load", "up"} /\ Whole("ca.crt")
  /\ proc' = [proc EXCEPT !["agent"].pc = "up", !["agent"].ca = file["ca.crt"].ca]
  /\ UNCHANGED <<supplied, file, generations, overlap, known>>

\* CertReloader.Reload, on a signal or by the clock: a pair that does not load is not taken.
Reload ==
  /\ proc["server"].pc = "up" /\ KeyPair("server.crt", "server.key")
  /\ proc' = [proc EXCEPT !["server"].cert = file["server.crt"]]
  /\ UNCHANGED <<supplied, file, generations, overlap, known>>

\* The process dies, or a write of it fails.
Die(p) ==
  /\ proc[p] # Stopped
  /\ proc' = [proc EXCEPT ![p] = Stopped]
  /\ UNCHANGED <<supplied, file, generations, overlap, known>>

KeyNext ==
  \/ \E p \in Processes : EnsureCerts(p) \/ Truncate(p) \/ Fill(p) \/ Die(p)
  \/ GenerateWithCA \/ LoadServerCerts \/ EnsureServerSigner \/ WriteAgentConfig
  \/ RegistrationDialOpts \/ Reload

KeySpec == KeyInit /\ [][KeyNext]_keyVars

-----------------------------------------------------------------------------
(***************************************************************************)
(* Properties.                                                             *)
(***************************************************************************)

\* Whenever it comes up again, after whatever crash while whatever was written, the
\* server is who it was: its CA and signing key are those its agents pinned, its
\* certificate verifies by that CA, and so does what an agent on this host goes by - but
\* if two processes, each of which found files missing, made them at the same time.
ServerIsWhoItWas ==
  overlap = "no" =>
    /\ proc["server"].pc = "up" =>
         /\ [ca |-> proc["server"].ca, signer |-> proc["server"].signer] = known
         /\ proc["server"].cert.ca = known.ca
         /\ file["ca.key"].ca = known.ca
    /\ proc["server"].pc = "up" /\ proc["agent"].pc = "up" => proc["agent"].ca = known.ca
=============================================================================
