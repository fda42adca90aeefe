---------------------------- MODULE CommandClient ----------------------------
(***************************************************************************)
(* The client's commands that act on a fleet and sum up how it went: exec  *)
(* and deploy, which read the server's stream of result lines, and the     *)
(* scans for a CVE or an advisory, which compare the fleet's packages with *)
(* the fixes Red Hat lists (cmd/dirq).                                     *)
(*                                                                         *)
(* A result line is of a target and "ok", "rc" (a nonzero exit code) or    *)
(* "failed", or of no target: the server could not sign, or stopped.       *)
(***************************************************************************)
EXTENDS RpmVersion, SequencesExt, FiniteSets

CONSTANTS
  Commands,       \* what may be run, and what is outside for it to meet
  NoTarget

VARIABLES
  cmd,            \* the command
  client,         \* where it is, what it has counted, said, and returned
  server,         \* of exec and deploy: how far the server's handler is
  wire,           \* the lines not yet read
  ran,            \* what each target answered the server
  fixes,          \* of a scan: what Red Hat lists
  report          \* of a scan: what it printed

clientVars == <<cmd, client, server, wire, ran, fixes, report>>

NoReport == [printed |-> "no"]
Streaming(c) == c.name \in {"exec", "deploy"}
TargetsOf(c) == IF Streaming(c) THEN UNION {c.waves[i] : i \in 1..Len(c.waves)} ELSE {}

\* Every target is of one wave.
ASSUME CommandsAssumption ==
  \A c \in Commands :
    /\ IsFiniteSet(TargetsOf(c)) /\ NoTarget \notin TargetsOf(c)
    /\ Streaming(c) => c.json \in {"yes", "no"} /\ Len(c.waves) \in Nat
    /\ Streaming(c) => \A i, j \in 1..Len(c.waves) : i # j => c.waves[i] \cap c.waves[j] = {}

ClientInit ==
  /\ cmd \in Commands
  /\ client = [at |-> "start", received |-> 0, failures |-> 0, said |-> "nothing", exit |-> "none"]
  /\ server = [at |-> "idle", wave |-> 1, left |-> {}]
  /\ wire = <<>>
  /\ ran = [t \in TargetsOf(cmd) |-> "nothing"]
  /\ fixes = {} /\ report = NoReport

Go(at) == client' = [client EXCEPT !.at = at]
Finish(said, exit) == client' = [client EXCEPT !.at = "done", !.said = said, !.exit = exit]

Arguments(name, next) ==
  /\ client.at = "start" /\ cmd.name = name
  /\ \/ cmd.usage = "bad" /\ Finish("nothing", "error")
     \/ cmd.usage = "good" /\ Go(next)
  /\ UNCHANGED <<cmd, server, wire, ran, fixes, report>>

\* No command, or a script that cannot be read.
ExecArguments == Arguments("exec", "review")
\* No package, one of no known kind, or one that cannot be read.
DeployArguments == Arguments("deploy", "review")
\* Not the id of a CVE, or of an advisory.
CVEArguments == Arguments("cve", "fetch")
ErrataArguments == Arguments("errata", "fetch")

\* runReview: what the model objects to, the operator decides; without an answer
\* from it the command goes on.
RunReview ==
  /\ client.at = "review"
  /\ \/ Go("request")
     \/ cmd.review = "on" /\ Finish("nothing", "error")
  /\ UNCHANGED <<cmd, server, wire, ran, fixes, report>>

-----------------------------------------------------------------------------
(***************************************************************************)
(* exec and deploy.  The server's handler writes a header, then one wave   *)
(* of results after the other.                                             *)
(***************************************************************************)
Line(type, target, how) == [type |-> type, target |-> target, how |-> how]
Says(line) == wire' = Append(wire, line)

\* apiStreamRequest: no connection, an error status, or the beginning of a stream.
ApiStreamRequest ==
  /\ client.at = "request"
  /\ \/ Finish("nothing", "error") /\ UNCHANGED <<server, wire>>
     \/ /\ Go("header")
        /\ Says(Line("header", NoTarget, "ok"))
        /\ server' = [at |-> IF TargetsOf(cmd) = {} THEN "ended" ELSE "signing", wave |-> 1,
                      left |-> IF TargetsOf(cmd) = {} THEN {} ELSE cmd.waves[1]]
  /\ UNCHANGED <<cmd, ran, fixes, report>>

\* A bottom-up run that leaves a wave unfinished says so and ends.
Stops(lines) ==
  /\ server' = [server EXCEPT !.at = "ended"]
  /\ wire' = wire \o lines \o IF Len(cmd.waves) > 1 THEN <<Line("result", NoTarget, "failed")>> ELSE <<>>
  /\ UNCHANGED <<cmd, client, ran, fixes, report>>

SignWave ==
  /\ server.at = "signing"
  /\ \/ Stops(<<Line("result", NoTarget, "failed")>>)
     \/ server' = [server EXCEPT !.at = "streaming"] /\ UNCHANGED <<cmd, client, wire, ran, fixes, report>>

EmitResult(t, how) ==
  /\ server.at = "streaming" /\ t \in server.left
  /\ server' = [server EXCEPT !.left = @ \ {t}]
  /\ ran' = [ran EXCEPT ![t] = how]
  /\ Says(Line("result", t, how))
  /\ UNCHANGED <<cmd, client, fixes, report>>

\* A claimed result that the drain does not wait for, see BroadcastSession.
MissResult(t) ==
  /\ server.at = "streaming" /\ t \in server.left
  /\ server' = [server EXCEPT !.left = @ \ {t}]
  /\ UNCHANGED <<cmd, client, wire, ran, fixes, report>>

\* The progress ticker of streamExecResults; one line at a time is in the stream.
EmitProgress ==
  /\ server.at = "streaming" /\ server.left # {} /\ cmd.name = "exec"
  /\ ~\E i \in 1..Len(wire) : wire[i].type = "progress"
  /\ Says(Line("progress", NoTarget, "ok"))
  /\ UNCHANGED <<cmd, client, server, ran, fixes, report>>

EndWave ==
  /\ server.at = "streaming"
  /\ \/ server.left # {} /\ Stops(<<>>)
     \/ /\ server.left = {}
        /\ server' = IF server.wave = Len(cmd.waves) THEN [server EXCEPT !.at = "ended"]
                     ELSE [at |-> "signing", wave |-> server.wave + 1, left |-> cmd.waves[server.wave + 1]]
        /\ UNCHANGED <<cmd, client, wire, ran, fixes, report>>

\* The connection breaks: lines are lost, the first of them perhaps half read.
Break ==
  /\ server.at \in {"signing", "streaming", "ended"} /\ client.at # "done"
  /\ \E n \in 0..Len(wire) :
       \E half \in {<<>>} \cup (IF n < Len(wire) THEN {<<Line("half", NoTarget, "failed")>>} ELSE {}) :
         wire' = SubSeq(wire, 1, n) \o half
  /\ server' = [server EXCEPT !.at = "broken"]
  /\ UNCHANGED <<cmd, client, ran, fixes, report>>

StreamEnded == wire = <<>> /\ server.at \in {"ended", "broken"}

\* How many hosts did not answer the query for the targets, which the header says too,
\* exec warns of, and it changes nothing else.
ReadHeader(name) ==
  /\ client.at = "header" /\ cmd.name = name
  /\ \/ StreamEnded /\ Finish("nothing", "error") /\ UNCHANGED wire
     \/ /\ wire # <<>> /\ wire' = Tail(wire)
        /\ CASE wire[1].type = "half" -> Finish("nothing", "error")
             [] wire[1].type = "header" /\ TargetsOf(cmd) = {} -> Finish("none matched", "ok")
             [] OTHER -> Go("reading")
  /\ UNCHANGED <<cmd, server, ran, fixes, report>>

ExecHeader == ReadHeader("exec")
DeployHeader == ReadHeader("deploy")

ReadResult(name, fails) ==
  /\ client.at = "reading" /\ cmd.name = name /\ wire # <<>>
  /\ wire' = Tail(wire)
  /\ IF wire[1].type = "half" THEN Finish("nothing", "error")
     ELSE client' = [client EXCEPT !.received = @ + 1, !.failures = @ + IF fails THEN 1 ELSE 0]
  /\ UNCHANGED <<cmd, server, ran, fixes, report>>

\* With --json exec prints the line, and counts no failure.
ExecResult ==
  \/ ReadResult("exec", cmd.json = "no" /\ wire[1].how # "ok") /\ wire[1].type # "progress"
  \/ /\ client.at = "reading" /\ wire # <<>> /\ wire[1].type = "progress"
     /\ wire' = Tail(wire)
     /\ UNCHANGED <<cmd, client, server, ran, fixes, report>>
DeployResult == ReadResult("deploy", wire[1].how # "ok")

Exit == IF client.failures > 0 THEN "error" ELSE "ok"
Coverage == IF client.received < Cardinality(TargetsOf(cmd)) THEN "partial" ELSE "complete"

\* dec.More() is false at the end of the stream, and when reading fails.
SumUp(name, said) ==
  /\ client.at = "reading" /\ cmd.name = name /\ StreamEnded
  /\ Finish(said, Exit)
  /\ UNCHANGED <<cmd, server, wire, ran, fixes, report>>

ExecSumUp == SumUp("exec", IF cmd.json = "yes" THEN "nothing" ELSE Coverage)

\* Mutant of DeploySumUp: the replies are not counted against the targets.
DeploySumUpUncounted == SumUp("deploy", "complete")

DeploySumUp == SumUp("deploy", Coverage)

-----------------------------------------------------------------------------
(***************************************************************************)
(* Scans.  Red Hat's answer lists releases [package, cpe] and, of a CVE,   *)
(* packages without a fix [state, package, cpe]; the fleet's answer rows   *)
(* [host, success, distro, kernel, packages].                              *)
(***************************************************************************)
IsKpatch(name) == Len(name) >= 6 /\ SubSeq(name, 1, 6) = "kpatch"
Fix(name, rhel, version) == [name |-> name, rhel |-> rhel, version |-> version]
SameKey(f, g) == f.name = g.name /\ f.rhel = g.rhel

\* fetchRedHatCVE: of each package and RHEL major version, what is listed first.
CVEFixes(answer) ==
  LET Released(r) ==
        LET p == ParseRPMNEVRA(r.package) IN Fix(p.name, ExtractRHELVersion(r.cpe), p.version)
      Affected(s) == Fix(s.package, ExtractRHELVersion(s.cpe), "")
      releases == [i \in 1..Len(answer.releases) |-> Released(answer.releases[i])]
      affected == [i \in 1..Len(answer.states) |->
                     IF answer.states[i].state = "Affected" THEN Affected(answer.states[i]) ELSE Fix("", "", "")]
      listed == SelectSeq(releases \o affected, LAMBDA f : f.name # "" /\ f.rhel # "" /\ ~IsKpatch(f.name))
  IN  {listed[i] : i \in {j \in 1..Len(listed) : \A k \in 1..(j - 1) : ~SameKey(listed[k], listed[j])}}

Releases(answer) ==
  LET Released(r) == LET p == ParseRPMNEVRA(r.package) IN Fix(p.name, DetectRHELMajor(p.version), p.version) IN
  {f \in {Released(answer.releases[i]) : i \in 1..Len(answer.releases)} :
     f.name # "" /\ f.rhel # "" /\ ~IsKpatch(f.name)}

\* fetchRedHatAdvisory: of each, the highest version.
AdvisoryFixes(answer) ==
  {f \in Releases(answer) : \A g \in Releases(answer) : SameKey(f, g) => RpmVersionCompare(g.version, f.version) <= 0}

FixesOf(c) == IF c.name = "cve" THEN CVEFixes(c.answer) ELSE AdvisoryFixes(c.answer)

Fetch(name, found) ==
  /\ cmd.name = name
  /\ \/ Finish("nothing", "error") /\ UNCHANGED fixes
     \/ (IF found = {} THEN Finish("no packages", "ok") ELSE Go("query")) /\ fixes' = found
  /\ UNCHANGED <<cmd, server, wire, ran, report>>

FetchCVE(found) == Fetch("cve", found)
FetchErrata(found) == Fetch("errata", found)

IsKernel(name) == name \in {"kernel", "kernel-rt"}
Assessed(r, p) == [host |-> r.host, rhel |-> DetectRHELMajor(r.distro), name |-> p.name,
                version |-> IF IsKernel(p.name) THEN r.kernel ELSE p.version]
\* The packages to assess, in order: of the rows that have a RHEL version.
Assessable(rows) ==
  LET good == SelectSeq(rows, LAMBDA r : r.success = "yes" /\ DetectRHELMajor(r.distro) # "") IN
  FlattenSeq([i \in 1..Len(good) |-> [j \in 1..Len(good[i].packages) |-> Assessed(good[i], good[i].packages[j])]])

\* assessFleetScan, for one entry: a kernel is judged once, by the one that runs.
Verdict(entries, i, reportNoFix) ==
  LET e == entries[i]
      again == IsKernel(e.name) /\ \E j \in 1..(i - 1) : entries[j].host = e.host /\ entries[j].name = e.name
      here == {f \in fixes : f.name = e.name /\ f.rhel = e.rhel}
      fix == CHOOSE f \in here : TRUE
      unfixed == IF reportNoFix THEN "no fix" ELSE "skipped"
  IN
  CASE e.name = "" \/ again \/ (IsKernel(e.name) /\ e.version = "") -> "skipped"
    [] here = {} -> IF \E f \in fixes : f.name = e.name THEN unfixed ELSE "skipped"
    [] here # {} /\ fix.version = "" -> unfixed
    [] OTHER -> IF RpmVersionCompare(e.version, fix.version) < 0 THEN "vulnerable" ELSE "patched"

\* countNotAssessed, when the list of hosts can be had.
RHELNames == {"rhel", "redhat", "red hat enterprise linux", "centos", "rocky", "almalinux", "alma", "oracle"}
NotAssessed(rows, hosts) ==
  LET assessed == {rows[i].host : i \in {j \in 1..Len(rows) :
                     rows[j].success = "yes" /\ DetectRHELMajor(rows[j].distro) # ""}}
      up == {h \in hosts : h.online = "yes"}
  IN  [nonRHEL |-> Cardinality({h \in up : h.os \notin RHELNames}),
       silent |-> Cardinality({h \in up : h.os \in RHELNames /\ h.host \notin assessed})]

JudgeAll(entries, reportNoFix) ==
  [i \in 1..Len(entries) |->
     [host |-> entries[i].host, name |-> entries[i].name, version |-> entries[i].version,
      verdict |-> Verdict(entries, i, reportNoFix)]]
AssessFleetScan(rows, reportNoFix) ==
  SelectSeq(JudgeAll(Assessable(rows), reportNoFix), LAMBDA l : l.verdict # "skipped")

\* queryFleetPkgs, and what is printed of its result.
Scan(name, lines) ==
  /\ cmd.name = name
  /\ \/ Finish("nothing", "error") /\ UNCHANGED report
     \/ cmd.json = "yes" /\ Finish("raw", "ok") /\ UNCHANGED report
     \/ /\ cmd.json = "no"
        /\ \E uncounted \in {[nonRHEL |-> 0, silent |-> 0], NotAssessed(cmd.rows, cmd.hosts)} :
             report' = [printed |-> "yes", lines |-> lines, uncounted |-> uncounted]
        /\ Finish("summary", IF \A i \in 1..Len(lines) : lines[i].verdict = "patched" THEN "ok" ELSE "error")
  /\ UNCHANGED <<cmd, server, wire, ran, fixes>>

ScanCVE(lines) == Scan("cve", lines)
ScanErrata(lines) == Scan("errata", lines)

ClientNext ==
  \/ ExecArguments \/ DeployArguments \/ CVEArguments \/ ErrataArguments
  \/ RunReview \/ ApiStreamRequest \/ SignWave \/ EmitProgress \/ EndWave \/ Break
  \/ \E t \in TargetsOf(cmd) : MissResult(t) \/ \E how \in {"ok", "rc", "failed"} : EmitResult(t, how)
  \/ ExecHeader \/ DeployHeader \/ ExecResult \/ DeployResult \/ ExecSumUp \/ DeploySumUp
  \/ /\ client.at = "fetch"
     /\ \E found \in {FixesOf(cmd)} : FetchCVE(found) \/ FetchErrata(found)
  \/ /\ client.at = "query"
     /\ \E lines \in {AssessFleetScan(cmd.rows, cmd.name = "cve")} : ScanCVE(lines) \/ ScanErrata(lines)

ClientSpec == ClientInit /\ [][ClientNext]_clientVars

-----------------------------------------------------------------------------
\* deploy.go:170-174, "Without this a partial deploy reads as a clean success": an exec or
\* deploy that says it is complete, and exits well, was answered well by every target,
\* whichever lines were lost, are of no target, or count for nothing.
CleanRunIsClean ==
  client.said = "complete" /\ client.exit = "ok" => \A t \in TargetsOf(cmd) : ran[t] = "ok"

\* The releases and states of Red Hat's list that count for a package: of a CVE what is
\* first for the host's RHEL version, of an advisory all.
OnTheList == SelectSeq(cmd.answer.releases \o cmd.answer.states, LAMBDA f : f.state \in {"Fixed", "Affected"})
Counts(p) ==
  LET here == {i \in 1..Len(OnTheList) : OnTheList[i].name = p.name /\ OnTheList[i].rhel = p.rhel} IN
  {OnTheList[i] : i \in IF cmd.name = "cve" /\ here # {} THEN {FirstOf(here)} ELSE here}

\* What a package deserves, by that list and RPM's own comparison.
Deserves(p) ==
  LET elsewhere == \E i \in 1..Len(OnTheList) : OnTheList[i].name = p.name IN
  CASE \E f \in Counts(p) : f.state = "Affected" -> "no fix"
    [] \E f \in Counts(p) : f.state = "Fixed" /\ RpmOlder([epoch |-> p.epoch, rest |-> p.version], SplitEpoch(f.version)) -> "vulnerable"
    [] Counts(p) = {} -> IF cmd.name = "cve" /\ elsewhere THEN "no fix" ELSE "nothing"
    [] OTHER -> "patched"

\* What is installed, or of a kernel runs, on the hosts that answered.
Installed(rows) ==
  UNION {{[host |-> r.host, rhel |-> r.rhel, name |-> p.name, epoch |-> p.epoch,
           version |-> IF IsKernel(p.name) THEN r.kernel ELSE p.version] : p \in ToSet(r.packages)} :
         r \in {x \in ToSet(rows) : x.success = "yes"}}
Known(p) == IsKernel(p.name) => p.version # ""

\* A distribution version "9" has no RHEL version for the scan (redhat.go:310-312).
SaysMinor(r) == Places(r.distro, ".") # {}

\* rpm.go:161 walks version-release as one text, so that a version may be compared with
\* the other's release.
Misread(p) ==
  LET versions == {p.version} \cup {SplitEpoch(f.version).rest : f \in Counts(p)} IN
  \E v, w \in versions : GoesOn(v, w)

\* A scan says of every package what it deserves.  It says nothing of a host that does not
\* report a minor version.  Of a package with an epoch, which no agent reports
\* (modules/packages.go:92, 138), it may raise a false alarm, but never hides that it is
\* vulnerable.  Where one of the versions compared goes on after the other ends, it may take
\* either for the other.  A kernel is reported once, if it is known which one runs.
ScanIsRight ==
  report.printed = "yes" =>
    LET packages == {p \in Installed(SelectSeq(cmd.rows, SaysMinor)) : Known(p)}
        Names(l, p) == l.host = p.host /\ l.name = p.name /\ l.version = p.version
        Said(p) == {l.verdict : l \in {x \in ToSet(report.lines) : Names(x, p)}}
        Due(p) == {Deserves(p)} \ {"nothing"}
    IN
    /\ \A i \in 1..Len(report.lines) : \E p \in packages : Names(report.lines[i], p)
    /\ \A p \in packages :
         \/ Said(p) = Due(p)
         \/ p.epoch # 0 /\ Due(p) = {"patched"} /\ Said(p) = {"vulnerable"}
         \/ Misread(p) /\ {Due(p), Said(p)} = {{"patched"}, {"vulnerable"}}
    /\ \A i, j \in 1..Len(report.lines) :
         IsKernel(report.lines[i].name) /\ report.lines[i].host = report.lines[j].host
           /\ report.lines[i].name = report.lines[j].name => i = j
=============================================================================
