----------------------------- MODULE FactStage -----------------------------
(***************************************************************************)
(* How the modules of query results become rows of the facts table:        *)
(* stageFacts on each stream's receive loop, the bounded staging map, and  *)
(* runFactBatcher, which swaps the map for a fresh one and writes what it  *)
(* held in chunks.                                                         *)
(*                                                                         *)
(* A fact is the number of the result that carried it.  An agent's results *)
(* may come in on any stream, as it moves in the mesh.                     *)
(***************************************************************************)
EXTENDS Integers, FiniteSets

CONSTANTS
  Streams,      \* receive loops of AgentStream
  Keys,         \* (agent_id, module)
  StageCap,     \* FactStageCap
  FlushSize,    \* FactFlushSize
  WriteChunk,   \* factWriteChunk
  MaxResults    \* bound on the results

ASSUME StageAssumption ==
  /\ IsFiniteSet(Keys)
  /\ StageCap \in Nat \ {0} /\ FlushSize \in Nat \ {0} /\ WriteChunk \in Nat \ {0}
  /\ MaxResults \in Nat

VARIABLES
  prepared,     \* each stream: the result it has marshalled (keys and number)
  stage,        \* factStage: the number staged for a key, 0 for none
  signal,       \* the streams about to signal
  signalled,    \* whether factFlushSignal, a channel of one, holds a signal: "yes" or "no"
  batcher,      \* "wait", "write" a snapshot, "final" (the last one), "done"
  snapshot,     \* the rows still to be written, as the stage
  cancelled,    \* the server's context: "no" or "yes"
  facts,        \* the facts table
  results,      \* how many results came in
  latest,       \* history: the last result taken for a key
  lost          \* history: the keys whose last result was dropped, or whose write failed

factVars == <<prepared, stage, signal, signalled, batcher, snapshot, cancelled, facts, results, latest, lost>>

Nothing == [keys |-> {}, number |-> 0]
Empty == [k \in Keys |-> 0]
Held(rows) == {k \in Keys : rows[k] # 0}

FactInit ==
  /\ prepared = [s \in Streams |-> Nothing]
  /\ stage = Empty
  /\ signal = {}
  /\ signalled = "no"
  /\ batcher = "wait" /\ snapshot = Empty /\ cancelled = "no"
  /\ facts = Empty
  /\ results = 0
  /\ latest = Empty /\ lost = {}

-----------------------------------------------------------------------------
(***************************************************************************)
(* The receive loops.                                                      *)
(***************************************************************************)

\* handleQueryResult of a success: the modules are marshalled outside the lock.
Prepare(s, ks) ==
  /\ prepared[s] = Nothing /\ s \notin signal
  /\ ks # {} /\ results < MaxResults
  /\ results' = results + 1
  /\ prepared' = [prepared EXCEPT ![s] = [keys |-> ks, number |-> results + 1]]
  /\ UNCHANGED <<stage, signal, signalled, batcher, snapshot, cancelled, facts, latest, lost>>

\* (mutant) The cap is looked at once for a result.
AdmitsAll(kept, ks) == Cardinality(Held(stage)) < StageCap /\ kept = ks

\* The keys that get in: those already staged, and new ones - in the order of a map, so
\* any of them - while the stage has room.
Admits(kept, ks) ==
  LET new == ks \ Held(stage) IN
    /\ kept \subseteq ks
    /\ ks \cap Held(stage) \subseteq kept
    /\ \/ kept = ks
       \/ Cardinality(Held(stage) \cup kept) >= StageCap
    /\ \/ kept \cap new = {}
       \/ Cardinality(Held(stage) \cup kept) <= StageCap

\* Under the lock; one result replaces another for the same key.  What is staged after
\* the last swap nobody writes.
Commit(s, kept) ==
  /\ prepared[s] # Nothing
  /\ Admits(kept, prepared[s].keys)
  /\ stage' = [k \in Keys |-> IF k \in kept THEN prepared[s].number ELSE stage[k]]
  /\ prepared' = [prepared EXCEPT ![s] = Nothing]
  /\ signal' = IF Cardinality(Held(stage')) >= FlushSize THEN signal \cup {s} ELSE signal
  /\ latest' = [k \in Keys |-> IF k \in prepared[s].keys THEN prepared[s].number ELSE latest[k]]
  /\ lost' = (lost \ prepared[s].keys)
             \cup (IF batcher \in {"final", "done"} THEN prepared[s].keys ELSE prepared[s].keys \ kept)
  /\ UNCHANGED <<signalled, batcher, snapshot, cancelled, facts, results>>

\* Outside the lock again; a signal already in the channel is enough.
Signal(s) ==
  /\ s \in signal
  /\ signal' = signal \ {s}
  /\ signalled' = "yes"
  /\ UNCHANGED <<prepared, stage, batcher, snapshot, cancelled, facts, results, latest, lost>>

-----------------------------------------------------------------------------
(***************************************************************************)
(* The batcher.                                                            *)
(***************************************************************************)

\* flushFactStage swaps the map under the lock.
Swap == snapshot' = stage /\ stage' = Empty

\* The ticker or a signal, even when the context is cancelled as well: select takes
\* either.
Flush ==
  /\ batcher = "wait"
  /\ signalled' \in {signalled, "no"}
  /\ \/ Held(stage) = {} /\ UNCHANGED <<batcher, snapshot, stage>>
     \/ Held(stage) # {} /\ batcher' = "write" /\ Swap
  /\ UNCHANGED <<prepared, signal, cancelled, facts, results, latest, lost>>

\* (mutant) The batcher just stops.
NoFinalFlush ==
  /\ batcher = "wait" /\ cancelled = "yes"
  /\ batcher' = "done"
  /\ UNCHANGED <<snapshot, stage, prepared, signal, signalled, cancelled, facts, results, latest, lost>>

\* ctx.Done(): a last flush, with a context that is never cancelled, and the end.
FinalFlush ==
  /\ batcher = "wait" /\ cancelled = "yes"
  /\ batcher' = "final" /\ Swap
  /\ UNCHANGED <<prepared, signal, signalled, cancelled, facts, results, latest, lost>>

\* BulkUpsertFacts: one transaction, all of the chunk or nothing.
Upserted(chunk) ==
  /\ facts' = [k \in Keys |-> IF k \in chunk THEN snapshot[k] ELSE facts[k]]
  /\ UNCHANGED lost
UpsertFailed(chunk) ==
  /\ UNCHANGED facts
  /\ lost' = lost \cup {k \in chunk : snapshot[k] = latest[k]}

\* The next chunk; an error - the database's, the 30 seconds', a context that was
\* cancelled - is logged and the loop goes on.
WriteNext(chunk) ==
  /\ batcher \in {"write", "final"}
  /\ chunk \subseteq Held(snapshot) /\ chunk # {}
  /\ \/ Cardinality(chunk) = WriteChunk
     \/ Cardinality(chunk) <= WriteChunk /\ chunk = Held(snapshot)
  /\ snapshot' = [k \in Keys |-> IF k \in chunk THEN 0 ELSE snapshot[k]]
  /\ \/ UpsertFailed(chunk)
     \/ ~(cancelled = "yes" /\ batcher = "write") /\ Upserted(chunk)
  /\ UNCHANGED <<prepared, stage, signal, signalled, batcher, cancelled, results, latest>>

\* (mutant) The stage is cleared after the writes.
EndFlushClears ==
  /\ batcher \in {"write", "final"} /\ Held(snapshot) = {}
  /\ batcher' = IF batcher = "final" THEN "done" ELSE "wait"
  /\ stage' = Empty
  /\ UNCHANGED <<prepared, signal, signalled, snapshot, cancelled, facts, results, latest, lost>>

EndFlush ==
  /\ batcher \in {"write", "final"} /\ Held(snapshot) = {}
  /\ batcher' = IF batcher = "final" THEN "done" ELSE "wait"
  /\ UNCHANGED <<prepared, stage, signal, signalled, snapshot, cancelled, facts, results, latest, lost>>

\* The server stops.
Cancel ==
  /\ cancelled = "no"
  /\ cancelled' = "yes"
  /\ UNCHANGED <<prepared, stage, signal, signalled, batcher, snapshot, facts, results, latest, lost>>

Receive == \E s \in Streams : \/ \E ks \in SUBSET Keys : Prepare(s, ks) \/ Commit(s, ks)
                              \/ Signal(s)
RunFactBatcher == Flush \/ FinalFlush \/ (\E chunk \in SUBSET Keys : WriteNext(chunk)) \/ EndFlush

FactNext == Receive \/ RunFactBatcher \/ Cancel

\* The ticker makes the batcher go round whether or not it is signalled.
FactFairness == WF_factVars(RunFactBatcher)

FactSpec == FactInit /\ [][FactNext]_factVars /\ FactFairness

-----------------------------------------------------------------------------
(***************************************************************************)
(* Properties.                                                             *)
(***************************************************************************)

\* The stage never holds more keys than its cap, however many results are committed
\* and however many modules they carry.
StageBounded == Cardinality(Held(stage)) <= StageCap

\* The last result taken for a key is in the table, in the stage, or in the snapshot -
\* with nothing newer in its way - unless it was dropped or its write failed; results
\* that come in during a write are not lost with it.
NewestIsKept ==
  \A k \in Keys : \/ k \in lost
                  \/ stage[k] = latest[k]
                  \/ stage[k] = 0 /\ snapshot[k] = latest[k]
                  \/ stage[k] = 0 /\ snapshot[k] = 0 /\ facts[k] = latest[k]

\* In the end the table has the last result of every key, but for those.
FactsSettle == <>[](\A k \in Keys : facts[k] = latest[k] \/ k \in lost)
=============================================================================
