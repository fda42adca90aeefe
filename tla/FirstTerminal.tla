--------------------------- MODULE FirstTerminal ---------------------------
(***************************************************************************)
(* What a broadcast promises its caller, with the goroutines, the result   *)
(* channel and the session map left out: every target agent gets at most   *)
(* one terminal verdict, the first one reported wins for good, and the     *)
(* broadcast ends once, reporting how many targets had a verdict then.  It *)
(* may call itself complete only when every target has one.                *)
(*                                                                         *)
(* BroadcastSession implements this specification.                         *)
(***************************************************************************)
EXTENDS Integers, FiniteSets

CONSTANT Targets        \* the agents the broadcast waits for

VARIABLES
  verdict,              \* each target's terminal event, "none" so far
  outcome,              \* how the broadcast ended, "none" while it runs
  responded             \* the number of verdicts the outcome reports

vars == <<verdict, outcome, responded>>

Verdicts == {"match", "nomatch", "gone"}
Outcomes == {"complete", "hard_timeout", "canceled", "sign_failed"}

Judged == {a \in Targets : verdict[a] # "none"}

Init ==
  /\ verdict = [a \in Targets |-> "none"]
  /\ outcome = "none"
  /\ responded = 0

\* The first terminal event of an agent, real or synthetic.
Judge(a, v) ==
  /\ verdict[a] = "none"
  /\ verdict' = [verdict EXCEPT ![a] = v]
  /\ UNCHANGED <<outcome, responded>>

\* The broadcast returns to its caller.
Finish(o) ==
  /\ outcome = "none"
  /\ o = "complete" => Judged = Targets
  /\ outcome' = o
  /\ responded' = IF o = "sign_failed" THEN 0 ELSE Cardinality(Judged)
  /\ UNCHANGED verdict

Next ==
  \/ \E a \in Targets, v \in Verdicts : Judge(a, v)
  \/ \E o \in Outcomes : Finish(o)

Spec == Init /\ [][Next]_vars
=============================================================================
