----------------------------- MODULE ServerData -----------------------------
(***************************************************************************)
(* The server's data: the key files it starts from, registrations waiting  *)
(* for their batch, facts on their way to the table, the HTTP API over     *)
(* agents and tokens, and the client's commands over that API.  They share *)
(* no variable, so a behaviour exercises one of them: interleaving them    *)
(* would add states and no case.                                           *)
(***************************************************************************)
EXTENDS RegistrationBatcher, FactStage, HostAPI, KeyFiles, CommandClient

CONSTANT Parts      \* the parts that may act

ASSUME PartsAssumption == Parts \subseteq {"keys", "registrations", "facts", "tags", "fleet", "limits", "commands"}

VARIABLE part

vars == <<part, keyVars, batcherVars, factVars, apiVars, clientVars>>

SomeCommand == CHOOSE c \in Commands : TRUE

Init ==
  /\ part \in Parts /\ KeyInit /\ BatcherInit /\ FactInit /\ APIInit /\ ClientInit
  /\ part # "keys" => supplied = "no"      \* it matters to no other part
  /\ part # "commands" => cmd = SomeCommand

Act(p, A, others) == part = p /\ A /\ UNCHANGED <<part, others>>
Registrations(A) == Act("registrations", A, <<keyVars, factVars, apiVars, clientVars>>)
Facts(A) == Act("facts", A, <<keyVars, batcherVars, apiVars, clientVars>>)
API(p, A) == Act(p, A, <<keyVars, batcherVars, factVars, clientVars>>)

Next ==
  \/ Act("keys", KeyNext, <<batcherVars, factVars, apiVars, clientVars>>)
  \/ Act("commands", ClientNext, <<keyVars, batcherVars, factVars, apiVars>>)
  \/ Registrations(BatcherNext)
  \/ Facts(FactNext)
  \/ API("tags", TagRequest \/ Reregister)
  \/ API("fleet", FleetChange)
  \/ API("limits", TokenRequest \/ LimitedRequest \/ Tick)

\* The fairness of the parts; clients promise nothing.
FairSpec ==
  /\ Init /\ [][Next]_vars
  /\ WF_vars(Registrations(Expire)) /\ WF_vars(Registrations(TimerFire))
  /\ WF_vars(Registrations(\E batch \in batches : FlushBatch(batch)))
  /\ WF_vars(Facts(RunFactBatcher))
=============================================================================
