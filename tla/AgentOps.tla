------------------------------ MODULE AgentOps ------------------------------
(***************************************************************************)
(* What an agent does with a command, a file to store, a file to send or a *)
(* package to install (handleExecRequest, handlePutFile, handleFetchFile,  *)
(* handleDeploy), as operators on one operation.                           *)
(*                                                                         *)
(* A request is [kind, script, path, size, become, user, method]; an       *)
(* operation goes through the steps "gate", "write", "writing", "stat",    *)
(* "run", "respond".  An agent's disk maps files to "absent", "cut"        *)
(* (partly written), or "whole".  An agent's configuration is whether      *)
(* exec is on, its policy engine, its system, the user it runs as, and     *)
(* the tools installed there.                                              *)
(***************************************************************************)
EXTENDS Integers, Sequences, FiniteSets

Outcomes == {"disabled", "invalid", "denied", "setup", "failed", "ok"}

\* evalPolicy: without an engine all is allowed; an evaluation that fails decides as
\* the engine is configured.
EvalPolicy(engine, verdict) ==
  \/ engine = "none"
  \/ verdict = "allow"
  \/ verdict = "error" /\ engine = "open"

Allowed(config, verdict) == IF EvalPolicy(config.engine, verdict) THEN "none" ELSE "denied"

\* The checks each handler makes, in order, before it touches anything.
ExecRefusal(config, req, verdict) ==
  IF config.exec = "off" THEN "disabled" ELSE Allowed(config, verdict)
PutRefusal(config, req, verdict) ==
  CASE config.exec = "off" -> "disabled"
    [] config.exec # "off" /\ (req.path = "relative" \/ req.size = "over") -> "invalid"
    [] OTHER -> Allowed(config, verdict)
FetchRefusal(config, req, verdict) ==
  CASE config.exec = "off" -> "disabled"
    [] config.exec # "off" /\ req.path = "relative" -> "invalid"
    [] OTHER -> Allowed(config, verdict)
DeployRefusal(config, req, verdict) ==
  CASE config.exec = "off" -> "disabled"
    [] config.exec # "off" /\ req.path = "relative" -> "invalid"
    [] OTHER -> Allowed(config, verdict)

Refusal(config, req, verdict) ==
  CASE req.kind = "exec" -> ExecRefusal(config, req, verdict)
    [] req.kind = "put" -> PutRefusal(config, req, verdict)
    [] req.kind = "fetch" -> FetchRefusal(config, req, verdict)
    [] req.kind = "deploy" -> DeployRefusal(config, req, verdict)

\* Where an operation goes once admitted.
Admitted(config, req) ==
  CASE req.kind = "exec" -> IF req.script = "yes" THEN "write" ELSE "run"
    [] req.kind = "fetch" -> IF req.become = "yes" /\ config.os # "windows" THEN "run" ELSE "stat"
    [] OTHER -> "write"

-----------------------------------------------------------------------------
(***************************************************************************)
(* As whom a command runs, and the tool that takes.                        *)
(***************************************************************************)
Own(config) == [as |-> config.identity, needs |-> "none"]
BecomeUser(req) == IF req.user = "" THEN "root" ELSE req.user
RunningAs(config, user) == config.identity = user
Escalated(req) == [as |-> BecomeUser(req), needs |-> IF req.method = "su" THEN "su" ELSE "sudo"]

\* (mutant) Whoever is root need not become anyone.
BuildCommandUnixRoot(config, req) ==
  IF req.become = "no" \/ config.identity = "root" THEN Own(config) ELSE Escalated(req)

BuildCommandUnix(config, req) ==
  IF req.become = "no" \/ RunningAs(config, BecomeUser(req)) THEN Own(config) ELSE Escalated(req)

\* A script goes through sudo or su also if the agent is that user.
BuildScriptCommandUnix(config, req) == IF req.become = "no" THEN Own(config) ELSE Escalated(req)

\* The service account, or a scheduled task of the user.
BuildCommandWindows(config, req) ==
  IF req.become = "no" \/ req.user \in {"", "Administrator", "SYSTEM"} THEN Own(config)
  ELSE [as |-> req.user, needs |-> "none"]

\* become is not looked at.
BuildScriptCommandWindows(config, req) == Own(config)

BuildScriptCommand(config, req) ==
  IF config.os = "windows" THEN BuildScriptCommandWindows(config, req) ELSE BuildScriptCommandUnix(config, req)
BuildCommand(config, req) ==
  IF config.os = "windows" THEN BuildCommandWindows(config, req) ELSE BuildCommandUnix(config, req)

\* Files are read and written by the agent, or on Unix through sudo.
FileCommand(config, req) ==
  IF req.become = "yes" /\ config.os # "windows" THEN [as |-> BecomeUser(req), needs |-> "sudo"] ELSE Own(config)

CommandOf(config, req) ==
  CASE req.kind = "exec" /\ req.script = "yes" -> BuildScriptCommand(config, req)
    [] req.kind = "exec" /\ req.script = "no" -> BuildCommand(config, req)
    [] req.kind = "deploy" -> BuildCommand(config, [req EXCEPT !.method = ""])
    [] OTHER -> FileCommand(config, req)
Starts(config, command) == command.needs \in config.tools \cup {"none"}

-----------------------------------------------------------------------------
\* (mutant) The temporary script of a command is written before the gate.
AdmittedEarly(config, req, verdict) ==
  IF req.kind = "exec" /\ req.script = "yes" THEN "write"
  ELSE IF Refusal(config, req, verdict) = "none" THEN Admitted(config, req) ELSE "respond"

Gated(config, req, verdict) ==
  IF Refusal(config, req, verdict) = "none" THEN Admitted(config, req) ELSE "respond"

\* What each operation writes: a script of its own, the file asked for, the package.
FileOf(req, c) ==
  CASE req.kind = "exec" -> <<"script", c>>
    [] req.kind = "deploy" -> <<"package", c>>
    [] OTHER -> <<"file", 0>>

\* boundedBuffer and readFileViaCommand: a file past the limit is cut, and then
\* refused; the direct read refuses it by its size (Statted).
ReadFileViaCommand(content, size) ==
  IF content = "absent" \/ size = "over" THEN "failed" ELSE "ok"

Statted(content, size) == IF content = "absent" \/ size = "over" THEN "failed" ELSE "none"

\* A write that does not succeed leaves what it wrote, but a script is taken away.
WriteFailed(req) == IF req.kind = "exec" THEN "absent" ELSE "cut"
WriteOutcome(req) == IF req.kind = "exec" THEN "setup" ELSE "failed"

\* Once a command has run its script is removed, and the package whatever the
\* install did.
AfterRun(req, content) == IF req.kind \in {"exec", "deploy"} THEN "absent" ELSE content

\* How running may end: a command that exits, with any code, succeeded, and sudo not
\* found is such a code; an install succeeds only with code 0, and not without its
\* package; a read through a command as above.
RunOutcomes(config, req, content) ==
  LET starts == Starts(config, CommandOf(config, req)) IN
  CASE req.kind = "exec" -> {"ok", "failed"}
    [] req.kind = "deploy" -> IF content = "whole" /\ starts THEN {"ok", "failed"} ELSE {"failed"}
    [] OTHER -> {IF starts THEN ReadFileViaCommand(content, req.size) ELSE "failed", "failed"}
=============================================================================
