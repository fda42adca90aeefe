-------------------------- MODULE ServerDataProofs --------------------------
(***************************************************************************)
(* What holds of the server's data, and of a command over it, for any      *)
(* number of calls, streams, keys, hosts, clients and targets: one         *)
(* inductive invariant for each part.  KeyFilesProofs has the key files.   *)
(***************************************************************************)
EXTENDS ServerData, FiniteSetTheorems, WellFoundedInduction, TLAPS

-----------------------------------------------------------------------------
(***************************************************************************)
(* Registrations.  QueueIsWatched is not inductive: that a batch taken off *)
(* the queue brings no second copy of a call needs the converse, that what *)
(* is held anywhere waits (HeldAreWaiting), so that a call about to be     *)
(* submitted is held nowhere.                                              *)
(***************************************************************************)

BatcherTypeOK ==
  /\ call \in [Calls -> {"idle", "waiting", "answered"}]
  /\ queue \in Seq(Calls)
  /\ batches \in SUBSET Seq(Calls)

HeldAreWaiting ==
  /\ \A r \in Holds(queue) : call[r] = "waiting"
  /\ \A batch \in batches : \A r \in Holds(batch) : call[r] = "waiting"

BatcherInv == BatcherTypeOK /\ HeldAreWaiting /\ QueueIsWatched

-----------------------------------------------------------------------------
\* submit appends a call: the queue then holds it and what it held.
LEMMA HoldsAppended ==
  ASSUME NEW q \in Seq(Calls), NEW r \in Calls
  PROVE  Holds(Append(q, r)) = Holds(q) \cup {r}
<1>1. Len(Append(q, r)) = Len(q) + 1 /\ Len(q) \in Nat  OBVIOUS
<1>2. \A i \in 1..Len(q) : Append(q, r)[i] = q[i]  OBVIOUS
<1>3. Append(q, r)[Len(q) + 1] = r  OBVIOUS
<1> QED  BY <1>1, <1>2, <1>3 DEF Holds

LEMMA HoldsNothing == Holds(<<>>) = {}
BY DEF Holds

LEMMA HoldsCalls == ASSUME NEW q \in Seq(Calls) PROVE Holds(q) \subseteq Calls
BY DEF Holds

-----------------------------------------------------------------------------
LEMMA BatcherInitInv == BatcherInit => BatcherInv
BY HoldsNothing DEF BatcherInit, BatcherInv, BatcherTypeOK, HeldAreWaiting, QueueIsWatched

\* Moving all of a queue into a batch of its own, with the timer let go, loses no call.
LEMMA BatchTaken ==
  ASSUME BatcherTypeOK, HeldAreWaiting, QueueIsWatched, NEW q \in Seq(Calls), NEW r,
         Holds(q) = Holds(queue) \cup {r}, r \in Calls, call[r] = "idle",
         call' = [call EXCEPT ![r] = "waiting"], queue' = <<>>, batches' = batches \cup {q}
  PROVE  BatcherInv'
<1>1. BatcherTypeOK'  BY DEF BatcherTypeOK
<1>2. \A x \in Calls : x # r => call'[x] = call[x]  BY DEF BatcherTypeOK
<1>3. call'[r] = "waiting"  BY DEF BatcherTypeOK
<1>4. r \notin Holds(queue) /\ \A batch \in batches : r \notin Holds(batch)  BY DEF HeldAreWaiting
<1>5. Holds(queue') = {}  BY HoldsNothing
<1>6. HeldAreWaiting'
  <2>1. \A x \in Holds(q) : call'[x] = "waiting"
    BY <1>2, <1>3, HoldsCalls DEF HeldAreWaiting, BatcherTypeOK
  <2>2. \A batch \in batches : \A x \in Holds(batch) : call'[x] = "waiting"
    BY <1>2, <1>3, HoldsCalls DEF HeldAreWaiting, BatcherTypeOK
  <2> QED  BY <1>5, <2>1, <2>2 DEF HeldAreWaiting
<1>7. ASSUME NEW x \in Calls, call'[x] = "waiting"
      PROVE  \E batch \in batches' : x \in Holds(batch) /\ \A other \in batches' \ {batch} : x \notin Holds(other)
  <2>1. CASE x \in Holds(q)
    <3>1. \A batch \in batches : x \notin Holds(batch)
      <4>1. CASE x = r  BY <1>4, <4>1
      <4>2. CASE x # r  BY <1>2, <1>7, <2>1, <4>2 DEF QueueIsWatched
      <4> QED  BY <4>1, <4>2
    <3> WITNESS q \in batches'
    <3> QED  BY <2>1, <3>1
  <2>2. CASE x \notin Holds(q)
    <3>1. call[x] = "waiting" /\ x \notin Holds(queue)  BY <1>2, <1>7, <2>2
    <3>2. PICK batch \in batches : x \in Holds(batch) /\ \A other \in batches \ {batch} : x \notin Holds(other)
      BY <3>1 DEF QueueIsWatched
    <3> WITNESS batch \in batches'
    <3> QED  BY <2>2, <3>2
  <2> QED  BY <2>1, <2>2
<1>8. QueueIsWatched'
  <2>1. queue' = <<>>  OBVIOUS
  <2> QED  BY <1>5, <1>7, <2>1 DEF QueueIsWatched
<1> QED  BY <1>1, <1>6, <1>8 DEF BatcherInv

LEMMA BatcherNextInv == BatcherInv /\ [BatcherNext]_batcherVars => BatcherInv'
<1> SUFFICES ASSUME BatcherInv, [BatcherNext]_batcherVars PROVE BatcherInv'  OBVIOUS
<1> USE DEF BatcherInv
<1>1. CASE UNCHANGED batcherVars
  BY <1>1 DEF batcherVars, BatcherTypeOK, HeldAreWaiting, QueueIsWatched
<1>2. ASSUME NEW r \in Calls, Submit(r) PROVE BatcherInv'
  <2> DEFINE q == Append(queue, r)
  <2>1. q \in Seq(Calls) /\ Holds(q) = Holds(queue) \cup {r}
    BY HoldsAppended DEF BatcherTypeOK
  <2>2. CASE Len(q) >= BatchCap
    <3>1. EarlyFlush(q)  BY <1>2, <2>2 DEF Submit
    <3> HIDE DEF q
    <3> QED  BY <1>2, <2>1, <3>1, BatchTaken DEF Submit, EarlyFlush
  <2>3. CASE ~(Len(q) >= BatchCap)
    <3>1. Enqueue(q)  BY <1>2, <2>3 DEF Submit
    <3> HIDE DEF q
    <3>2. queue' = q /\ batches' = batches /\ timer' # "nil"  BY <3>1 DEF Enqueue
    <3>3. BatcherTypeOK'  BY <1>2, <2>1, <3>2 DEF Submit, BatcherTypeOK
    <3>4. \A x \in Calls : x # r => call'[x] = call[x]  BY <1>2 DEF Submit, BatcherTypeOK
    <3>5. call'[r] = "waiting" /\ call[r] = "idle"  BY <1>2 DEF Submit, BatcherTypeOK
    <3>6. \A batch \in batches : r \notin Holds(batch)  BY <3>5 DEF HeldAreWaiting
    <3>7. HeldAreWaiting'
      <4>1. \A x \in Holds(q) : call'[x] = "waiting"
        BY <2>1, <3>4, <3>5, HoldsCalls DEF HeldAreWaiting, BatcherTypeOK
      <4>2. \A batch \in batches : \A x \in Holds(batch) : call'[x] = "waiting"
        BY <3>4, <3>5, HoldsCalls DEF HeldAreWaiting, BatcherTypeOK
      <4> QED  BY <3>2, <4>1, <4>2 DEF HeldAreWaiting
    <3>8. QueueIsWatched'
      <4>1. SUFFICES ASSUME NEW x \in Calls, call'[x] = "waiting"
                     PROVE  \/ x \in Holds(q) /\ \A batch \in batches : x \notin Holds(batch)
                            \/ x \notin Holds(q)
                               /\ \E batch \in batches : x \in Holds(batch)
                                    /\ \A other \in batches \ {batch} : x \notin Holds(other)
        BY <3>2 DEF QueueIsWatched
      <4>2. CASE x = r  BY <2>1, <3>6, <4>2
      <4>3. CASE x # r
        <5>1. call[x] = "waiting"  BY <3>4, <4>1, <4>3
        <5> QED  BY <2>1, <4>3, <5>1 DEF QueueIsWatched
      <4> QED  BY <4>2, <4>3
    <3> QED  BY <3>3, <3>7, <3>8
  <2> QED  BY <2>2, <2>3
<1>3. CASE Expire
  BY <1>3 DEF Expire, BatcherTypeOK, HeldAreWaiting, QueueIsWatched
<1>4. CASE TimerFire
  <2>1. TakeQueue /\ call' = call  BY <1>4 DEF TimerFire
  <2>2. queue' = <<>> /\ Holds(queue') = {}  BY <2>1, HoldsNothing DEF TakeQueue
  <2>3. CASE queue = <<>>
    BY <2>1, <2>2, <2>3, HoldsNothing DEF TakeQueue, BatcherTypeOK, HeldAreWaiting, QueueIsWatched
  <2>4. CASE queue # <<>>
    <3>1. batches' = batches \cup {queue}  BY <2>1, <2>4 DEF TakeQueue
    <3>2. BatcherTypeOK'  BY <2>1, <2>2, <3>1 DEF BatcherTypeOK
    <3>3. HeldAreWaiting'  BY <2>1, <2>2, <3>1 DEF HeldAreWaiting
    <3>4. ASSUME NEW x \in Calls, call[x] = "waiting"
          PROVE  \E batch \in batches' : x \in Holds(batch) /\ \A other \in batches' \ {batch} : x \notin Holds(other)
      <4>1. CASE x \in Holds(queue)
        <5>1. \A batch \in batches : x \notin Holds(batch)  BY <3>4, <4>1 DEF QueueIsWatched
        <5>2. queue \in batches'  BY <3>1
        <5>3. \A other \in batches' \ {queue} : x \notin Holds(other)  BY <3>1, <5>1
        <5> QED  BY <4>1, <5>2, <5>3
      <4>2. CASE x \notin Holds(queue)
        <5>1. PICK batch \in batches : x \in Holds(batch) /\ \A other \in batches \ {batch} : x \notin Holds(other)
          BY <3>4, <4>2 DEF QueueIsWatched
        <5>2. batch \in batches'  BY <3>1
        <5>3. \A other \in batches' \ {batch} : x \notin Holds(other)  BY <3>1, <4>2, <5>1
        <5> QED  BY <5>1, <5>2, <5>3
      <4> QED  BY <4>1, <4>2
    <3>5. QueueIsWatched'  BY <2>1, <2>2, <3>4 DEF QueueIsWatched
    <3> QED  BY <3>2, <3>3, <3>5
  <2> QED  BY <2>3, <2>4
<1>5. ASSUME NEW done \in batches, FlushBatch(done) PROVE BatcherInv'
  <2>1. batches' = batches \ {done} /\ queue' = queue /\ timer' = timer  BY <1>5 DEF FlushBatch
  <2>2. \A x \in Calls : call'[x] = IF x \in Holds(done) THEN "answered" ELSE call[x]  BY <1>5 DEF FlushBatch
  <2>3. BatcherTypeOK'  BY <1>5, <2>1 DEF FlushBatch, BatcherTypeOK
  <2>4. HeldAreWaiting'
    <3>1. ASSUME NEW x \in Holds(queue) PROVE call'[x] = "waiting"
      <4>1. x \in Calls /\ call[x] = "waiting"  BY <3>1, HoldsCalls DEF HeldAreWaiting, BatcherTypeOK
      <4>2. x \notin Holds(done)  BY <1>5, <3>1, <4>1 DEF QueueIsWatched
      <4> QED  BY <2>2, <4>1, <4>2
    <3>2. ASSUME NEW batch \in batches', NEW x \in Holds(batch) PROVE call'[x] = "waiting"
      <4>1. x \in Calls /\ call[x] = "waiting"  BY <2>1, <3>2, HoldsCalls DEF HeldAreWaiting, BatcherTypeOK
      <4>2. x \notin Holds(done)  BY <1>5, <2>1, <3>2, <4>1 DEF QueueIsWatched
      <4> QED  BY <2>2, <4>1, <4>2
    <3> QED  BY <2>1, <3>1, <3>2 DEF HeldAreWaiting
  <2>5. QueueIsWatched'
    <3>1. SUFFICES ASSUME NEW x \in Calls, call'[x] = "waiting"
                   PROVE  \/ x \in Holds(queue) /\ \A batch \in batches' : x \notin Holds(batch)
                          \/ x \notin Holds(queue)
                             /\ \E batch \in batches' : x \in Holds(batch)
                                  /\ \A other \in batches' \ {batch} : x \notin Holds(other)
      BY <2>1 DEF QueueIsWatched
    <3>2. x \notin Holds(done) /\ call[x] = "waiting"  BY <2>2, <3>1
    <3> QED  BY <2>1, <3>2 DEF QueueIsWatched
  <2> QED  BY <2>3, <2>4, <2>5
<1> QED  BY <1>1, <1>2, <1>3, <1>4, <1>5 DEF BatcherNext

\* submit, timerFire and flushBatch in any order: a queue that is not empty has a timer,
\* and every Register call that waits is held in exactly one place.
THEOREM NoCallIsForgotten == BatcherSpec => []QueueIsWatched
<1>1. BatcherInv => QueueIsWatched  BY DEF BatcherInv
<1> QED  BY <1>1, BatcherInitInv, BatcherNextInv, PTL DEF BatcherSpec

-----------------------------------------------------------------------------
(***************************************************************************)
(* Facts.  StageBounded needs to know that a prepared result has a number, *)
(* so that exactly the keys that were admitted are held afterwards.        *)
(* NewestIsKept needs to know that the snapshot is used up whenever the    *)
(* batcher may take another one: else the swap would overwrite it.         *)
(***************************************************************************)

Rows == [Keys -> Nat]
Prepared == [keys : SUBSET Keys, number : Nat]

FactTypeOK ==
  /\ prepared \in [Streams -> Prepared]
  /\ stage \in Rows /\ snapshot \in Rows /\ facts \in Rows /\ latest \in Rows
  /\ results \in Nat

\* A stream holds nothing, or a result that has a number.
ResultsAreNumbered == \A s \in Streams : prepared[s].number = 0 => prepared[s] = Nothing

\* The batcher only waits when it has gone through its snapshot.
SnapshotIsUsedUp == batcher = "wait" => Held(snapshot) = {}

FactInv == FactTypeOK /\ ResultsAreNumbered /\ SnapshotIsUsedUp /\ NewestIsKept

-----------------------------------------------------------------------------
\* stageFacts: after a commit exactly the keys that were held and those admitted are held.
LEMMA CommitHolds ==
  ASSUME FactTypeOK, ResultsAreNumbered, NEW s \in Streams, NEW kept \in SUBSET Keys, Commit(s, kept)
  PROVE  Held(stage') = Held(stage) \cup kept
<1>1. prepared[s].number # 0  BY DEF Commit, ResultsAreNumbered
<1>2. prepared[s].number \in Nat  BY DEF FactTypeOK, Prepared
<1>3. \A k \in Keys : stage'[k] = IF k \in kept THEN prepared[s].number ELSE stage[k]
  BY DEF Commit
<1> QED  BY <1>1, <1>2, <1>3 DEF Held

LEMMA EmptyHoldsNothing == Empty \in Rows /\ Held(Empty) = {}
BY DEF Empty, Held, Rows

-----------------------------------------------------------------------------
LEMMA FactInitInv == FactInit => FactInv
<1> SUFFICES ASSUME FactInit PROVE FactInv  OBVIOUS
<1> USE EmptyHoldsNothing
<1>1. FactTypeOK
  BY DEF FactInit, FactTypeOK, Nothing, Prepared
<1>2. ResultsAreNumbered  BY DEF FactInit, ResultsAreNumbered
<1>3. SnapshotIsUsedUp  BY DEF FactInit, SnapshotIsUsedUp
<1>4. NewestIsKept  BY DEF FactInit, NewestIsKept, Empty
<1> QED  BY <1>1, <1>2, <1>3, <1>4 DEF FactInv

\* flushFactStage: taking the stage away loses nothing, since the last snapshot is used up.
LEMMA SwapKeeps ==
  ASSUME FactInv, batcher = "wait", Swap, UNCHANGED <<facts, latest, lost>>
  PROVE  stage' \in Rows /\ snapshot' \in Rows /\ NewestIsKept'
<1>1. \A k \in Keys : snapshot[k] = 0
  BY DEF FactInv, SnapshotIsUsedUp, Held
<1>2. stage' \in Rows /\ snapshot' \in Rows
  BY EmptyHoldsNothing DEF Swap, FactInv, FactTypeOK
<1>3. \A k \in Keys : stage'[k] = 0 /\ snapshot'[k] = stage[k]
  BY DEF Swap, Empty
<1>4. NewestIsKept'
  BY <1>1, <1>3 DEF FactInv, NewestIsKept
<1> QED  BY <1>2, <1>4

LEMMA FactNextInv == FactInv /\ [FactNext]_factVars => FactInv'
<1> SUFFICES ASSUME FactInv, [FactNext]_factVars PROVE FactInv'  OBVIOUS
<1> USE DEF FactInv
<1>1. CASE UNCHANGED factVars
  BY <1>1 DEF factVars, FactTypeOK, ResultsAreNumbered, SnapshotIsUsedUp, NewestIsKept, Held
<1>2. ASSUME NEW s \in Streams, NEW ks \in SUBSET Keys, Prepare(s, ks) PROVE FactInv'
  <2>1. FactTypeOK'
    BY <1>2 DEF Prepare, FactTypeOK, Prepared
  <2>2. ResultsAreNumbered'
    BY <1>2 DEF Prepare, ResultsAreNumbered, FactTypeOK, Prepared
  <2>3. SnapshotIsUsedUp' /\ NewestIsKept'
    BY <1>2 DEF Prepare, SnapshotIsUsedUp, NewestIsKept, Held
  <2> QED  BY <2>1, <2>2, <2>3
<1>3. ASSUME NEW s \in Streams, NEW kept \in SUBSET Keys, Commit(s, kept) PROVE FactInv'
  <2>1. FactTypeOK'
    BY <1>3 DEF Commit, FactTypeOK, Prepared, Nothing, Rows
  <2>2. ResultsAreNumbered'
    BY <1>3 DEF Commit, ResultsAreNumbered, FactTypeOK
  <2>3. SnapshotIsUsedUp'
    BY <1>3 DEF Commit, SnapshotIsUsedUp, Held
  <2>4. kept \subseteq prepared[s].keys
    BY <1>3 DEF Commit, Admits
  <2>5. SUFFICES ASSUME NEW k \in Keys, k \notin lost'
                 PROVE  \/ stage'[k] = latest'[k]
                        \/ stage'[k] = 0 /\ snapshot'[k] = latest'[k]
                        \/ stage'[k] = 0 /\ snapshot'[k] = 0 /\ facts'[k] = latest'[k]
    BY <2>1, <2>2, <2>3 DEF NewestIsKept
  <2>6. CASE k \in prepared[s].keys
    <3>1. k \in kept  BY <1>3, <2>5, <2>6 DEF Commit
    <3> QED  BY <1>3, <2>6, <3>1 DEF Commit
  <2>7. CASE k \notin prepared[s].keys
    <3>1. k \notin lost  BY <1>3, <2>5, <2>7 DEF Commit
    <3>2. stage'[k] = stage[k] /\ latest'[k] = latest[k]  BY <1>3, <2>4, <2>7 DEF Commit
    <3> QED  BY <1>3, <3>1, <3>2 DEF Commit, NewestIsKept
  <2> QED  BY <2>6, <2>7
<1>4. ASSUME NEW s \in Streams, Signal(s) PROVE FactInv'
  BY <1>4 DEF Signal, FactTypeOK, ResultsAreNumbered, SnapshotIsUsedUp, NewestIsKept, Held
<1>5. CASE Flush
  <2>1. CASE Held(stage) = {} /\ UNCHANGED <<batcher, snapshot, stage>>
    BY <1>5, <2>1 DEF Flush, FactTypeOK, ResultsAreNumbered, SnapshotIsUsedUp, NewestIsKept, Held
  <2>2. CASE batcher' = "write" /\ Swap
    <3>1. stage' \in Rows /\ snapshot' \in Rows /\ NewestIsKept'
      BY <1>5, <2>2, SwapKeeps DEF Flush
    <3> QED  BY <1>5, <2>2, <3>1 DEF Flush, FactTypeOK, ResultsAreNumbered, SnapshotIsUsedUp
  <2> QED  BY <1>5, <2>1, <2>2 DEF Flush
<1>6. CASE FinalFlush
  <2>1. stage' \in Rows /\ snapshot' \in Rows /\ NewestIsKept'
    BY <1>6, SwapKeeps DEF FinalFlush
  <2> QED  BY <1>6, <2>1 DEF FinalFlush, FactTypeOK, ResultsAreNumbered, SnapshotIsUsedUp
<1>7. ASSUME NEW chunk \in SUBSET Keys, WriteNext(chunk) PROVE FactInv'
  <2>1. FactTypeOK' /\ ResultsAreNumbered' /\ SnapshotIsUsedUp'
    <3>1. snapshot' \in Rows  BY <1>7 DEF WriteNext, FactTypeOK, Rows
    <3>2. facts' \in Rows
      BY <1>7 DEF WriteNext, Upserted, UpsertFailed, FactTypeOK, Rows
    <3> QED  BY <1>7, <3>1, <3>2 DEF WriteNext, FactTypeOK, ResultsAreNumbered, SnapshotIsUsedUp
  <2>2. SUFFICES ASSUME NEW k \in Keys, k \notin lost'
                 PROVE  \/ stage'[k] = latest'[k]
                        \/ stage'[k] = 0 /\ snapshot'[k] = latest'[k]
                        \/ stage'[k] = 0 /\ snapshot'[k] = 0 /\ facts'[k] = latest'[k]
    BY <2>1 DEF NewestIsKept
  <2>3. stage'[k] = stage[k] /\ latest'[k] = latest[k] /\ k \notin lost
    BY <1>7, <2>2 DEF WriteNext, Upserted, UpsertFailed
  <2>4. CASE k \notin chunk
    BY <1>7, <2>3, <2>4 DEF WriteNext, Upserted, UpsertFailed, NewestIsKept
  <2>5. CASE k \in chunk
    <3>1. snapshot[k] # 0 /\ snapshot'[k] = 0  BY <1>7, <2>5 DEF WriteNext, Held
    <3>2. CASE stage[k] = latest[k]  BY <2>3, <3>2
    <3>3. CASE stage[k] = 0 /\ snapshot[k] = latest[k]
      <4>1. ~UpsertFailed(chunk)  BY <2>2, <2>5, <3>3 DEF UpsertFailed
      <4>2. facts'[k] = latest[k]  BY <1>7, <2>5, <3>3, <4>1 DEF WriteNext, Upserted
      <4> QED  BY <2>3, <3>1, <3>3, <4>2
    <3> QED  BY <2>3, <3>1, <3>2, <3>3 DEF NewestIsKept
  <2> QED  BY <2>4, <2>5
<1>8. CASE EndFlush
  BY <1>8 DEF EndFlush, FactTypeOK, ResultsAreNumbered, SnapshotIsUsedUp, NewestIsKept, Held
<1>9. CASE Cancel
  BY <1>9 DEF Cancel, FactTypeOK, ResultsAreNumbered, SnapshotIsUsedUp, NewestIsKept, Held
<1> QED  BY <1>1, <1>2, <1>3, <1>4, <1>5, <1>6, <1>7, <1>8, <1>9 DEF FactNext, Receive, RunFactBatcher

-----------------------------------------------------------------------------
\* stageFacts, runFactBatcher: the newest result of a key is in the stage, the snapshot or
\* the table, with nothing newer in its way, unless it was dropped or its write failed.
THEOREM NewestSurvives == FactSpec => []NewestIsKept
<1>1. FactInv => NewestIsKept  BY DEF FactInv
<1> QED  BY <1>1, FactInitInv, FactNextInv, PTL DEF FactSpec

\* What a step does to the size of the stage.
LEMMA StageStep == FactInv /\ StageBounded /\ [FactNext]_factVars => StageBounded'
<1> SUFFICES ASSUME FactInv, StageBounded, [FactNext]_factVars PROVE StageBounded'  OBVIOUS
<1>0. StageCap \in Nat /\ Cardinality({}) = 0  BY StageAssumption, FS_EmptySet
<1>1. ASSUME Held(stage') = {} PROVE StageBounded'
  <2>1. Cardinality(Held(stage')) = 0  BY <1>0, <1>1
  <2> QED  BY <1>0, <2>1 DEF StageBounded
<1>2. CASE stage' = stage  BY <1>2 DEF StageBounded, Held
<1>3. ASSUME NEW s \in Streams, NEW kept \in SUBSET Keys, Commit(s, kept) PROVE StageBounded'
  <2>1. Held(stage') = Held(stage) \cup kept  BY <1>3, CommitHolds DEF FactInv
  <2>2. CASE kept \cap (prepared[s].keys \ Held(stage)) = {}
    <3>1. Held(stage') = Held(stage)  BY <1>3, <2>1, <2>2 DEF Commit, Admits
    <3> QED  BY <3>1 DEF StageBounded, Held
  <2>3. CASE Cardinality(Held(stage) \cup kept) <= StageCap
    BY <2>1, <2>3 DEF StageBounded, Held
  <2> QED  BY <1>3, <2>2, <2>3 DEF Commit, Admits
<1>4. CASE Swap
  <2>1. Held(stage') = {}  BY <1>4, EmptyHoldsNothing DEF Swap, Held
  <2> QED  BY <1>1, <2>1
<1> QED
  BY <1>2, <1>3, <1>4 DEF FactNext, Receive, RunFactBatcher, Prepare, Signal, Flush, FinalFlush,
     WriteNext, EndFlush, Cancel, factVars

\* stageFacts: whatever the results carry, the stage never holds more keys than its cap.
THEOREM StageStaysBounded == FactSpec => []StageBounded
<1>1. FactInit => StageBounded
  BY EmptyHoldsNothing, StageAssumption, FS_EmptySet DEF FactInit, StageBounded
<1> QED  BY <1>1, FactInitInv, FactNextInv, StageStep, PTL DEF FactSpec

-----------------------------------------------------------------------------
(***************************************************************************)
(* Tags.  TagWritesLostOnlyToRaces is of rows; what makes it stay is what  *)
(* is true of a handler between its read and its write (ReadsAgree): for   *)
(* every key it saw what was asked for, or the key is known to be raced,   *)
(* or has been written since - and then its own write, if it does not      *)
(* speak of the key, makes it raced.                                       *)
(***************************************************************************)

\* Tags as they are kept: finitely many of the keys, with a value each.
TagValues == UNION {{tags[k] : k \in DOMAIN tags} : tags \in TagSets}
TagMaps == UNION {[K -> TagValues] : K \in {keys \in SUBSET TagKeys : IsFiniteSet(keys)}}
Said == Profiles \cup {Fleet[a] : a \in Hosts}
Operations == {"set", "merge", "delete"}
TagRequests == [op : Operations, host : Hosts, body : TagMaps, seen : TagMaps, at : Nat]

TagTypeOK ==
  /\ agents \in [Hosts -> [profile : Said, online : {"yes", "no"}, tags : TagMaps]]
  /\ request \in [Clients -> TagRequests \cup {Idle}]
  /\ writes \in Nat
  /\ asked \in [Hosts -> TagMaps]
  /\ written \in [Hosts -> [TagKeys -> Nat]]
  /\ raced \in [Hosts -> SUBSET TagKeys]

\* Two rows say the same of a key.
Agrees(tags, others, k) ==
  /\ k \in DOMAIN tags <=> k \in DOMAIN others
  /\ k \in DOMAIN tags => tags[k] = others[k]

\* What is kept is what was asked for, but for what was raced.
RowsAgree == \A a \in Hosts, k \in TagKeys : k \in raced[a] \/ Agrees(agents[a].tags, asked[a], k)

\* What a handler has read of a key is still what was asked for, was already raced, or
\* has been written since.
SightOK(r) ==
  /\ r.at <= writes
  /\ \A k \in TagKeys : \/ k \in raced[r.host]
                        \/ written[r.host][k] > r.at
                        \/ Agrees(r.seen, asked[r.host], k)
ReadsAgree == \A c \in Clients : request[c] # Idle => SightOK(request[c])

TagInv == TagTypeOK /\ RowsAgree /\ ReadsAgree

-----------------------------------------------------------------------------
LEMMA TagSetsAreMaps == TagSets \subseteq TagMaps
<1> SUFFICES ASSUME NEW tags \in TagSets PROVE tags \in TagMaps  OBVIOUS
<1>1. tags = [k \in DOMAIN tags |-> tags[k]]  BY HostAPIAssumption
<1>2. DOMAIN tags \in SUBSET TagKeys /\ IsFiniteSet(DOMAIN tags)  BY HostAPIAssumption DEF TagKeys
<1>3. \A k \in DOMAIN tags : tags[k] \in TagValues  BY DEF TagValues
<1>4. tags \in [DOMAIN tags -> TagValues]  BY <1>1, <1>3
<1> QED  BY <1>2, <1>4 DEF TagMaps

LEMMA MapOf ==
  ASSUME NEW tags \in TagMaps
  PROVE  /\ DOMAIN tags \subseteq TagKeys /\ tags = [k \in DOMAIN tags |-> tags[k]]
         /\ \A k \in DOMAIN tags : tags[k] \in TagValues
         /\ IsFiniteSet(DOMAIN tags)
<1>1. PICK K \in SUBSET TagKeys : IsFiniteSet(K) /\ tags \in [K -> TagValues]  BY DEF TagMaps
<1> QED  BY <1>1

LEMMA MapMade ==
  ASSUME NEW K \in SUBSET TagKeys, IsFiniteSet(K), NEW tags \in [K -> TagValues]
  PROVE  tags \in TagMaps
BY DEF TagMaps

LEMMA NoTags == <<>> \in TagMaps /\ DOMAIN <<>> = {}
<1>1. DOMAIN <<>> = {}  OBVIOUS
<1>2. <<>> \in [{} -> TagValues]  OBVIOUS
<1> QED  BY <1>1, <1>2, MapMade, FS_EmptySet

LEMMA OverlayMade ==
  ASSUME NEW tags \in TagMaps, NEW new \in TagMaps
  PROVE  /\ Overlay(tags, new) \in TagMaps
         /\ DOMAIN Overlay(tags, new) = DOMAIN tags \cup DOMAIN new
         /\ \A k \in DOMAIN new : Overlay(tags, new)[k] = new[k]
         /\ \A k \in DOMAIN tags \ DOMAIN new : Overlay(tags, new)[k] = tags[k]
<1>1. DOMAIN tags \cup DOMAIN new \in SUBSET TagKeys /\ IsFiniteSet(DOMAIN tags \cup DOMAIN new)  BY MapOf, FS_Union
<1>2. Overlay(tags, new) \in [DOMAIN tags \cup DOMAIN new -> TagValues]  BY MapOf DEF Overlay
<1>3. Overlay(tags, new) \in TagMaps  BY <1>1, <1>2, MapMade
<1> QED  BY <1>3 DEF Overlay

LEMMA WithoutMade ==
  ASSUME NEW tags \in TagMaps, NEW keys
  PROVE  /\ Without(tags, keys) \in TagMaps
         /\ DOMAIN Without(tags, keys) = DOMAIN tags \ keys
         /\ \A k \in DOMAIN tags \ keys : Without(tags, keys)[k] = tags[k]
<1>1. DOMAIN tags \ keys \in SUBSET TagKeys /\ IsFiniteSet(DOMAIN tags \ keys)  BY MapOf, FS_Difference
<1>2. Without(tags, keys) \in [DOMAIN tags \ keys -> TagValues]  BY MapOf DEF Without, Restrict
<1>3. Without(tags, keys) \in TagMaps  BY <1>1, <1>2, MapMade
<1> QED  BY <1>3 DEF Without, Restrict

\* What an agent brings, without the reserved keys.
LEMMA AgentTagsMade ==
  ASSUME NEW tags \in TagMaps
  PROVE  LET keys == {k \in DOMAIN tags : ~IsReservedAgentTagKey(k)} IN
         /\ AgentTags(tags) = Restrict(tags, keys) /\ AgentTags(tags) \in TagMaps
         /\ DOMAIN AgentTags(tags) = keys
<1> DEFINE keys == {k \in DOMAIN tags : ~IsReservedAgentTagKey(k)}
<1>1. DOMAIN tags \ {k \in DOMAIN tags : IsReservedAgentTagKey(k)} = keys  OBVIOUS
<1>2. AgentTags(tags) = Restrict(tags, keys)  BY <1>1 DEF AgentTags, Without
<1>3. AgentTags(tags) \in TagMaps  BY WithoutMade DEF AgentTags
<1> QED  BY <1>2, <1>3 DEF Restrict

\* The row after a write, and what was asked for, say the same of the keys written, and
\* of any other key what they said before.
LEMMA AppliedAgrees ==
  ASSUME NEW op \in Operations, NEW seen \in TagMaps, NEW row \in TagMaps, NEW body \in TagMaps
  PROVE  LET now2 == IF op = "merge" THEN Overlay(row, body)
                     ELSE IF op = "set" THEN body ELSE Without(row, Touches(op, body))
             kept == Apply(op, seen, body)
         IN  /\ kept \in TagMaps /\ now2 \in TagMaps
             /\ \A k \in TagKeys \cap Touches(op, body) : Agrees(kept, now2, k)
             /\ \A k \in TagKeys \ Touches(op, body) : Agrees(seen, row, k) => Agrees(kept, now2, k)
             /\ \A k \in TagKeys \ Touches(op, body), other \in TagMaps : Agrees(other, row, k) => Agrees(other, now2, k)
<1>1. CASE op = "set"
  <2>1. Apply(op, seen, body) = body  BY <1>1 DEF Apply, SetTags
  <2>2. Touches(op, body) = TagKeys  BY <1>1 DEF Touches
  <2> QED  BY <1>1, <2>1, <2>2 DEF Agrees
<1>2. CASE op = "merge"
  <2> DEFINE kept == Overlay(seen, body)
             now2 == Overlay(row, body)
  <2>1. Apply(op, seen, body) = kept  BY <1>2 DEF Apply, MergeTags
  <2>2. Touches(op, body) = DOMAIN body  BY <1>2 DEF Touches
  <2>3. /\ kept \in TagMaps /\ now2 \in TagMaps
        /\ DOMAIN kept = DOMAIN seen \cup DOMAIN body /\ DOMAIN now2 = DOMAIN row \cup DOMAIN body
        /\ \A k \in DOMAIN body : kept[k] = body[k] /\ now2[k] = body[k]
        /\ \A k \in DOMAIN seen \ DOMAIN body : kept[k] = seen[k]
        /\ \A k \in DOMAIN row \ DOMAIN body : now2[k] = row[k]
    BY OverlayMade
  <2> HIDE DEF kept, now2
  <2>4. \A k \in DOMAIN body : Agrees(kept, now2, k)  BY <2>3 DEF Agrees
  <2>5. \A k \in TagKeys \ DOMAIN body : Agrees(seen, row, k) => Agrees(kept, now2, k)  BY <2>3 DEF Agrees
  <2>6. \A k \in TagKeys \ DOMAIN body, other \in TagMaps : Agrees(other, row, k) => Agrees(other, now2, k)
    BY <2>3 DEF Agrees
  <2> QED  BY <1>2, <2>1, <2>2, <2>3, <2>4, <2>5, <2>6 DEF now2
<1>3. CASE op = "delete"
  <2> DEFINE keys == DOMAIN body
             kept == Without(seen, keys)
             now2 == Without(row, keys)
  <2>1. Apply(op, seen, body) = kept  BY <1>3 DEF Apply, DeleteTag
  <2>2. Touches(op, body) = keys  BY <1>3 DEF Touches
  <2>3. /\ kept \in TagMaps /\ now2 \in TagMaps
        /\ DOMAIN kept = DOMAIN seen \ keys /\ DOMAIN now2 = DOMAIN row \ keys
        /\ \A k \in DOMAIN seen \ keys : kept[k] = seen[k]
        /\ \A k \in DOMAIN row \ keys : now2[k] = row[k]
    BY WithoutMade
  <2> HIDE DEF kept, now2
  <2>4. \A k \in keys : Agrees(kept, now2, k)  BY <2>3 DEF Agrees
  <2>5. \A k \in TagKeys \ keys : Agrees(seen, row, k) => Agrees(kept, now2, k)  BY <2>3 DEF Agrees
  <2>6. \A k \in TagKeys \ keys, other \in TagMaps : Agrees(other, row, k) => Agrees(other, now2, k)
    BY <2>3 DEF Agrees
  <2>7. (IF op = "merge" THEN Overlay(row, body) ELSE IF op = "set" THEN body ELSE Without(row, Touches(op, body))) = now2
    BY <1>3, <2>2 DEF now2
  <2> QED  BY <2>1, <2>2, <2>3, <2>4, <2>5, <2>6, <2>7
<1> QED  BY <1>1, <1>2, <1>3 DEF Operations

\* A write of keys of host h, by a handler or by the agent, leaves what every other handler
\* has read right, or known to be old.
LEMMA RowWritten ==
  ASSUME TagInv, NEW h \in Hosts, NEW keys \in SUBSET TagKeys, NEW overtaken \in SUBSET TagKeys,
         writes' = writes + 1,
         \A a \in Hosts \ {h} : /\ agents'[a].tags = agents[a].tags /\ asked'[a] = asked[a]
                                /\ written'[a] = written[a] /\ raced'[a] = raced[a],
         raced'[h] = (raced[h] \cup overtaken) \ keys,
         \A k \in TagKeys : written'[h][k] = IF k \in keys THEN writes + 1 ELSE written[h][k],
         \A k \in keys : Agrees(agents'[h].tags, asked'[h], k),
         \A k \in TagKeys \ keys : k \in raced[h] \cup overtaken \/ Agrees(agents'[h].tags, asked'[h], k),
         \A k \in TagKeys \ keys, other \in TagMaps :
            Agrees(other, asked[h], k) => Agrees(other, asked'[h], k),
         \A c \in Clients : request'[c] = request[c] \/ request'[c] = Idle
  PROVE  RowsAgree' /\ ReadsAgree'
<1>1. RowsAgree'
  <2>1. SUFFICES ASSUME NEW a \in Hosts, NEW k \in TagKeys PROVE k \in raced'[a] \/ Agrees(agents'[a].tags, asked'[a], k)
    BY DEF RowsAgree, Agrees
  <2>2. CASE a = h  BY <2>1, <2>2
  <2>3. CASE a # h
    <3>1. k \in raced[a] \/ Agrees(agents[a].tags, asked[a], k)  BY <2>1 DEF TagInv, RowsAgree
    <3> QED  BY <2>1, <2>3, <3>1
  <2> QED  BY <2>2, <2>3
<1>2. ASSUME NEW c \in Clients, request'[c] # Idle PROVE SightOK(request[c])'
  <2> DEFINE r == request[c]
  <2>1. request'[c] = r /\ r # Idle  BY <1>2
  <2>2. r \in TagRequests  BY <2>1 DEF TagInv, TagTypeOK
  <2>3. r.host \in Hosts /\ r.seen \in TagMaps /\ r.at \in Nat /\ writes \in Nat
    BY <2>2 DEF TagRequests, TagInv, TagTypeOK
  <2>4. r.at <= writes /\ \A k \in TagKeys : \/ k \in raced[r.host]
                                             \/ written[r.host][k] > r.at
                                             \/ Agrees(r.seen, asked[r.host], k)
    BY <2>1 DEF TagInv, ReadsAgree, SightOK
  <2> HIDE DEF r
  <2>5. r.at <= writes'  BY <2>3, <2>4
  <2>6. ASSUME NEW k \in TagKeys
        PROVE  k \in raced'[r.host] \/ written'[r.host][k] > r.at \/ Agrees(r.seen, asked'[r.host], k)
    <3>1. CASE r.host # h  BY <2>3, <2>4, <3>1
    <3>2. CASE r.host = h /\ k \in keys
      <4>1. written'[h][k] = writes + 1  BY <3>2
      <4> QED  BY <2>3, <2>4, <3>2, <4>1
    <3>3. CASE r.host = h /\ k \notin keys
      <4>1. written'[h][k] = written[h][k]  BY <3>3
      <4>2. k \in raced[h] => k \in raced'[h]  BY <3>3
      <4>3. Agrees(r.seen, asked[h], k) => Agrees(r.seen, asked'[h], k)  BY <2>3, <3>3
      <4> QED  BY <2>4, <3>3, <4>1, <4>2, <4>3
    <3> QED  BY <3>1, <3>2, <3>3
  <2> QED  BY <2>1, <2>5, <2>6 DEF SightOK, Agrees
<1>3. ReadsAgree'  BY <1>2 DEF ReadsAgree, SightOK, Agrees
<1> QED  BY <1>1, <1>3

-----------------------------------------------------------------------------
LEMMA TagInitInv == APIInit => TagInv
<1> SUFFICES ASSUME APIInit PROVE TagInv  OBVIOUS
<1> USE DEF APIInit
<1>1. TagTypeOK  BY NoTags DEF TagTypeOK, Said
<1>2. RowsAgree  BY DEF RowsAgree, Agrees
<1>3. ReadsAgree  BY DEF ReadsAgree
<1> QED  BY <1>1, <1>2, <1>3 DEF TagInv

LEMMA ReadTagsInv ==
  ASSUME TagInv, NEW c \in Clients, NEW h, NEW op \in Operations, NEW a \in Hosts, NEW body \in TagMaps,
         ReadTags(c, h, op, a, body)
  PROVE  TagInv'
<1> USE DEF TagInv
<1> DEFINE r == [op |-> op, host |-> a, body |-> body, seen |-> agents[a].tags, at |-> writes]
<1>1. /\ request' = [request EXCEPT ![c] = r]
      /\ agents' = agents /\ writes' = writes /\ asked' = asked /\ written' = written /\ raced' = raced
  BY DEF ReadTags
<1>2. agents[a].tags \in TagMaps /\ writes \in Nat  BY DEF TagTypeOK
<1>3. r \in TagRequests /\ r.host = a /\ r.seen = agents[a].tags /\ r.at = writes
  BY <1>2 DEF TagRequests
<1> HIDE DEF r
<1>4. TagTypeOK'  BY <1>1, <1>3 DEF TagTypeOK
<1>5. RowsAgree'  BY <1>1 DEF RowsAgree, Agrees
<1>6. SightOK(r)
  <2>1. r.at <= writes  BY <1>2, <1>3
  <2>2. \A k \in TagKeys : k \in raced[a] \/ Agrees(agents[a].tags, asked[a], k)  BY DEF RowsAgree
  <2> QED  BY <1>3, <2>1, <2>2 DEF SightOK
<1>7. \A d \in Clients : request'[d] # Idle => SightOK(request'[d])
  BY <1>1, <1>6 DEF ReadsAgree, TagTypeOK
<1>8. ReadsAgree'  BY <1>1, <1>7 DEF ReadsAgree, SightOK, Agrees
<1> QED  BY <1>4, <1>5, <1>8

LEMMA UpdateAgentTagsInv ==
  ASSUME TagInv, NEW c \in Clients, UpdateAgentTags(c)
  PROVE  TagInv'
<1> USE DEF TagInv
<1> DEFINE r == request[c]
           keys == Touches(r.op, r.body) \cap TagKeys
           overtaken == {k \in TagKeys : written[r.host][k] > r.at}
           row == asked[r.host]
           wanted == IF r.op = "merge" THEN Overlay(row, r.body)
                     ELSE IF r.op = "set" THEN r.body ELSE Without(row, Touches(r.op, r.body))
           kept == Apply(r.op, r.seen, r.body)
<1>1. /\ r # Idle
      /\ agents' = [agents EXCEPT ![r.host].tags = kept]
      /\ writes' = writes + 1
      /\ asked' = [asked EXCEPT ![r.host] = wanted]
      /\ written' = [written EXCEPT ![r.host] = [k \in TagKeys |-> IF k \in Touches(r.op, r.body) THEN writes' ELSE @[k]]]
      /\ raced' = [raced EXCEPT ![r.host] = (@ \cup overtaken) \ Touches(r.op, r.body)]
      /\ request' = [request EXCEPT ![c] = Idle]
  BY DEF UpdateAgentTags
<1>2. r \in TagRequests  BY <1>1 DEF TagTypeOK
<1>3. r.op \in Operations /\ r.host \in Hosts /\ r.body \in TagMaps /\ r.seen \in TagMaps /\ r.at \in Nat
  BY <1>2 DEF TagRequests
<1>4. row \in TagMaps /\ writes \in Nat /\ writes + 1 \in Nat  BY <1>3 DEF TagTypeOK
<1>5. /\ kept \in TagMaps /\ wanted \in TagMaps
      /\ \A k \in keys : Agrees(kept, wanted, k)
      /\ \A k \in TagKeys \ keys : Agrees(r.seen, row, k) => Agrees(kept, wanted, k)
      /\ \A k \in TagKeys \ keys, other \in TagMaps : Agrees(other, row, k) => Agrees(other, wanted, k)
  <2> HIDE DEF r, row
  <2>1. TagKeys \ keys = TagKeys \ Touches(r.op, r.body)  OBVIOUS
  <2> QED  BY <1>3, <1>4, <2>1, AppliedAgrees
<1>6. SightOK(r)  BY <1>1 DEF ReadsAgree
<1>7. Touches(r.op, r.body) \subseteq TagKeys  BY <1>3, MapOf DEF Touches
<1>8. keys = Touches(r.op, r.body)  BY <1>7
<1> HIDE DEF r, kept, wanted, keys
<1>9. TagTypeOK'
  <2>1. agents' \in [Hosts -> [profile : Said, online : {"yes", "no"}, tags : TagMaps]]
    BY <1>1, <1>3, <1>5 DEF TagTypeOK
  <2>2. request' \in [Clients -> TagRequests \cup {Idle}]  BY <1>1 DEF TagTypeOK
  <2>3. asked' \in [Hosts -> TagMaps]  BY <1>1, <1>3, <1>5 DEF TagTypeOK
  <2>4. written' \in [Hosts -> [TagKeys -> Nat]]  BY <1>1, <1>3, <1>4 DEF TagTypeOK
  <2>5. raced' \in [Hosts -> SUBSET TagKeys]  BY <1>1, <1>3 DEF TagTypeOK
  <2> QED  BY <1>1, <1>4, <2>1, <2>2, <2>3, <2>4, <2>5 DEF TagTypeOK
<1>10. agents'[r.host].tags = kept /\ asked'[r.host] = wanted  BY <1>1, <1>3 DEF TagTypeOK
<1>11. \A a \in Hosts \ {r.host} : /\ agents'[a].tags = agents[a].tags /\ asked'[a] = asked[a]
                                   /\ written'[a] = written[a] /\ raced'[a] = raced[a]
  BY <1>1, <1>3 DEF TagTypeOK
<1>12. raced'[r.host] = (raced[r.host] \cup overtaken) \ keys  BY <1>1, <1>3, <1>8 DEF TagTypeOK
<1>13. \A k \in TagKeys : written'[r.host][k] = IF k \in keys THEN writes + 1 ELSE written[r.host][k]
  BY <1>1, <1>3, <1>8 DEF TagTypeOK
<1>14. \A d \in Clients : request'[d] = request[d] \/ request'[d] = Idle  BY <1>1 DEF TagTypeOK
<1>15. \A k \in TagKeys \ keys : k \in raced[r.host] \cup overtaken \/ Agrees(agents'[r.host].tags, asked'[r.host], k)
  BY <1>5, <1>6, <1>10 DEF SightOK
<1>16. keys \in SUBSET TagKeys /\ overtaken \in SUBSET TagKeys  BY DEF keys
<1> HIDE DEF overtaken
<1>17. /\ \A k \in keys : Agrees(agents'[r.host].tags, asked'[r.host], k)
       /\ \A k \in TagKeys \ keys, other \in TagMaps :
            Agrees(other, asked[r.host], k) => Agrees(other, asked'[r.host], k)
  BY <1>5, <1>10
<1>18. RowsAgree' /\ ReadsAgree'
  BY <1>1, <1>3, <1>11, <1>12, <1>13, <1>14, <1>15, <1>16, <1>17, RowWritten
<1> QED  BY <1>9, <1>18

LEMMA AbandonTagsInv ==
  ASSUME TagInv, NEW c \in Clients, AbandonTags(c)
  PROVE  TagInv'
<1> USE DEF TagInv
<1>1. /\ request' = [request EXCEPT ![c] = Idle]
      /\ agents' = agents /\ writes' = writes /\ asked' = asked /\ written' = written /\ raced' = raced
  BY DEF AbandonTags
<1>2. TagTypeOK'  BY <1>1 DEF TagTypeOK
<1>3. RowsAgree'  BY <1>1 DEF RowsAgree, Agrees
<1>4. \A d \in Clients : request'[d] # Idle => request'[d] = request[d]  BY <1>1 DEF TagTypeOK
<1>5. ReadsAgree'  BY <1>1, <1>4 DEF ReadsAgree, SightOK, Agrees
<1> QED  BY <1>2, <1>3, <1>5

LEMMA RegisterInv ==
  ASSUME TagInv, NEW a \in Hosts, NEW profile \in Said, NEW tags \in TagSets, Register(a, profile, tags)
  PROVE  TagInv'
<1> USE DEF TagInv
<1> DEFINE keys == {k \in DOMAIN tags : ~IsReservedAgentTagKey(k)}
           brought == AgentTags(tags)
           row == agents[a].tags
           kept == Overlay(row, brought)
           wanted == Overlay(asked[a], brought)
<1>1. tags \in TagMaps  BY TagSetsAreMaps
<1>2. brought = Restrict(tags, keys) /\ brought \in TagMaps /\ DOMAIN brought = keys /\ keys \subseteq TagKeys
  BY <1>1, AgentTagsMade, MapOf
<1>3. /\ agents' = [agents EXCEPT ![a] = [profile |-> profile, online |-> "yes", tags |-> kept]]
      /\ writes' = writes + 1
      /\ asked' = [asked EXCEPT ![a] = wanted]
      /\ written' = [written EXCEPT ![a] = [k \in TagKeys |-> IF k \in keys THEN writes' ELSE @[k]]]
      /\ raced' = [raced EXCEPT ![a] = @ \ keys]
      /\ request' = request
  BY <1>2 DEF Register, TagTypeOK
<1>4. row \in TagMaps /\ asked[a] \in TagMaps /\ writes \in Nat /\ writes + 1 \in Nat  BY DEF TagTypeOK
<1> HIDE DEF brought, row, keys
<1>5. /\ kept \in TagMaps /\ wanted \in TagMaps
      /\ DOMAIN kept = DOMAIN row \cup keys /\ DOMAIN wanted = DOMAIN asked[a] \cup keys
      /\ \A k \in keys : kept[k] = brought[k] /\ wanted[k] = brought[k]
      /\ \A k \in DOMAIN row \ keys : kept[k] = row[k]
      /\ \A k \in DOMAIN asked[a] \ keys : wanted[k] = asked[a][k]
  <2>1. /\ kept \in TagMaps /\ DOMAIN kept = DOMAIN row \cup DOMAIN brought
        /\ \A k \in DOMAIN brought : kept[k] = brought[k]
        /\ \A k \in DOMAIN row \ DOMAIN brought : kept[k] = row[k]
    BY <1>2, <1>4, OverlayMade
  <2>2. /\ wanted \in TagMaps /\ DOMAIN wanted = DOMAIN asked[a] \cup DOMAIN brought
        /\ \A k \in DOMAIN brought : wanted[k] = brought[k]
        /\ \A k \in DOMAIN asked[a] \ DOMAIN brought : wanted[k] = asked[a][k]
    BY <1>2, <1>4, OverlayMade
  <2> HIDE DEF kept, wanted
  <2> QED  BY <1>2, <2>1, <2>2
<1> HIDE DEF kept, wanted
<1>6. TagTypeOK'
  <2>1. agents' \in [Hosts -> [profile : Said, online : {"yes", "no"}, tags : TagMaps]]
    BY <1>3, <1>5 DEF TagTypeOK
  <2>2. asked' \in [Hosts -> TagMaps]  BY <1>3, <1>5 DEF TagTypeOK
  <2>3. written' \in [Hosts -> [TagKeys -> Nat]]  BY <1>3, <1>4 DEF TagTypeOK
  <2>4. raced' \in [Hosts -> SUBSET TagKeys]  BY <1>3 DEF TagTypeOK
  <2> QED  BY <1>3, <1>4, <2>1, <2>2, <2>3, <2>4 DEF TagTypeOK
<1>7. agents'[a].tags = kept /\ asked'[a] = wanted  BY <1>3 DEF TagTypeOK
<1>8. \A b \in Hosts \ {a} : /\ agents'[b].tags = agents[b].tags /\ asked'[b] = asked[b]
                             /\ written'[b] = written[b] /\ raced'[b] = raced[b]
  BY <1>3 DEF TagTypeOK
<1>9. raced'[a] = (raced[a] \cup {}) \ keys  BY <1>3 DEF TagTypeOK
<1>10. \A k \in TagKeys : written'[a][k] = IF k \in keys THEN writes + 1 ELSE written[a][k]
  BY <1>3 DEF TagTypeOK
<1>11. \A k \in keys : Agrees(agents'[a].tags, asked'[a], k)  BY <1>5, <1>7 DEF Agrees
<1>12. \A k \in TagKeys \ keys : k \in raced[a] \cup {} \/ Agrees(agents'[a].tags, asked'[a], k)
  <2>1. \A k \in TagKeys : k \in raced[a] \/ Agrees(row, asked[a], k)  BY DEF RowsAgree, row
  <2>2. \A k \in TagKeys \ keys : Agrees(row, asked[a], k) => Agrees(kept, wanted, k)  BY <1>5 DEF Agrees
  <2> QED  BY <1>7, <2>1, <2>2
<1>13. \A k \in TagKeys \ keys, other \in TagMaps : Agrees(other, asked[a], k) => Agrees(other, asked'[a], k)
  BY <1>5, <1>7 DEF Agrees
<1>14. {} \in SUBSET TagKeys /\ keys \in SUBSET TagKeys  BY <1>2
<1>15. RowsAgree' /\ ReadsAgree'
  BY <1>3, <1>8, <1>9, <1>10, <1>11, <1>12, <1>13, <1>14, RowWritten
<1> QED  BY <1>6, <1>15

LEMMA GoOfflineInv ==
  ASSUME TagInv, NEW a \in Hosts, GoOffline(a)
  PROVE  TagInv'
<1> USE DEF TagInv
<1>1. /\ agents' = [agents EXCEPT ![a].online = "no"]
      /\ request' = request /\ writes' = writes /\ asked' = asked /\ written' = written /\ raced' = raced
  BY DEF GoOffline
<1>2. TagTypeOK'  BY <1>1 DEF TagTypeOK
<1>3. \A b \in Hosts : agents'[b].tags = agents[b].tags  BY <1>1 DEF TagTypeOK
<1>4. RowsAgree'  BY <1>1, <1>3 DEF RowsAgree, Agrees
<1>5. ReadsAgree'  BY <1>1 DEF ReadsAgree, SightOK, Agrees
<1> QED  BY <1>2, <1>4, <1>5

LEMMA TagInvStays == TagInv /\ UNCHANGED tagVars => TagInv'
BY DEF tagVars, TagInv, TagTypeOK, RowsAgree, ReadsAgree, SightOK, Agrees

LEMMA TagNextInv == TagInv /\ [APINext]_apiVars => TagInv'
<1> SUFFICES ASSUME TagInv, [APINext]_apiVars PROVE TagInv'  OBVIOUS
<1>1. CASE UNCHANGED apiVars  BY <1>1, TagInvStays DEF apiVars
<1>2. CASE TokenRequest
  <2>1. UNCHANGED tagVars  BY <1>2 DEF TokenRequest, CreateToken, DeleteToken
  <2> QED  BY <2>1, TagInvStays
<1>3. CASE LimitedRequest
  <2>1. UNCHANGED tagVars  BY <1>3 DEF LimitedRequest, Query, Exec
  <2> QED  BY <2>1, TagInvStays
<1>4. CASE Tick
  <2>1. UNCHANGED tagVars  BY <1>4 DEF Tick
  <2> QED  BY <2>1, TagInvStays
<1>5. CASE TagRequest
  <2>1. ASSUME NEW c \in Clients, NEW h \in Headers, NEW op \in {"set", "merge", "delete"}, NEW a \in Tagged,
               NEW body \in TagSets, ReadTags(c, h, op, a, body)
        PROVE  TagInv'
    <3>1. a \in Hosts /\ body \in TagMaps  BY HostAPIAssumption, TagSetsAreMaps
    <3> QED  BY <2>1, <3>1, ReadTagsInv DEF Operations
  <2>2. ASSUME NEW c \in Clients, UpdateAgentTags(c) PROVE TagInv'  BY <2>2, UpdateAgentTagsInv
  <2>3. ASSUME NEW c \in Clients, AbandonTags(c) PROVE TagInv'  BY <2>3, AbandonTagsInv
  <2> QED  BY <1>5, <2>1, <2>2, <2>3 DEF TagRequest
<1>6. CASE Reregister
  <2>1. PICK a \in Tagged, tags \in TagSets : Register(a, agents[a].profile, tags)  BY <1>6 DEF Reregister
  <2>2. a \in Hosts  BY HostAPIAssumption
  <2>3. agents[a].profile \in Said  BY <2>2 DEF TagInv, TagTypeOK
  <2> QED  BY <2>1, <2>2, <2>3, RegisterInv
<1>7. CASE FleetChange
  <2>1. ASSUME NEW a \in Hosts, NEW profile \in Profiles, NEW tags \in TagSets, Register(a, profile, tags)
        PROVE  TagInv'
    <3>1. profile \in Said  BY DEF Said
    <3> QED  BY <2>1, <3>1, RegisterInv
  <2>2. ASSUME NEW a \in Hosts, GoOffline(a) PROVE TagInv'  BY <2>2, GoOfflineInv
  <2> QED  BY <1>7, <2>1, <2>2 DEF FleetChange
<1> QED  BY <1>1, <1>2, <1>3, <1>4, <1>5, <1>6, <1>7 DEF APINext

LEMMA TagInvSays == TagInv => TagWritesLostOnlyToRaces
<1> SUFFICES ASSUME TagInv, NEW a \in Hosts, NEW k \in TagKeys, k \notin raced[a]
             PROVE  Restrict(agents[a].tags, {k} \cap DOMAIN agents[a].tags)
                      = Restrict(asked[a], {k} \cap DOMAIN asked[a])
  BY DEF TagWritesLostOnlyToRaces
<1>1. Agrees(agents[a].tags, asked[a], k)  BY DEF TagInv, RowsAgree
<1>2. {k} \cap DOMAIN agents[a].tags = {k} \cap DOMAIN asked[a]  BY <1>1 DEF Agrees
<1> QED  BY <1>1, <1>2 DEF Agrees, Restrict

\* Whatever handlers and agents read and write the tags of whatever hosts, in any order, a
\* key has what the writes to it asked for, the last of them last, but if another handler's
\* write came between its own handler's read and write (handleSetTags, handleMergeTags,
\* handleDeleteTag, RegisterAgent).
THEOREM TagsAreAsAsked == APISpec => []TagWritesLostOnlyToRaces
<1>1. APISpec => []TagInv  BY TagInitInv, TagNextInv, PTL DEF APISpec
<1> QED  BY <1>1, TagInvSays, PTL

-----------------------------------------------------------------------------
(***************************************************************************)
(* The inventory.  It is computed of the hosts as they are; what has to be *)
(* known is that there are finitely many groups, and what the recursion    *)
(* that looks for the groups below a group finds.                          *)
(***************************************************************************)
\* Any set of natural numbers has a least one.
Less == {ss \in Nat \X Nat : ss[1] < ss[2]}
LEMMA LeastNumber == ASSUME NEW T \in SUBSET Nat, T # {} PROVE \E x \in T : \A y \in T : x <= y
<1>1. IsWellFoundedOn(Less, Nat)
  BY NatLessThanWellFounded DEF OpToRel, Less
<1>2. PICK x \in T : \A y \in T : <<y, x>> \notin Less
  BY <1>1, WFMin
<1>3. \A y \in T : ~(y < x)
  BY <1>2 DEF Less
<1> QED  BY <1>3

\* The groups at most so many steps below g, the first included; found step by step, so
\* they are what the recursion in Reached says.
Below(inventory, S) == UNION {{d} \cup (DOMAIN inventory \cap inventory[d].children) : d \in S}
IsDown(inventory, g, N, down) ==
  down = [n \in 0..N |-> IF n = 0 THEN {g} \cap DOMAIN inventory ELSE Below(inventory, down[n - 1])]
LEMMA DownExists ==
  ASSUME NEW inventory, NEW g, NEW N \in Nat
  PROVE  \E down : IsDown(inventory, g, N, down)
<1> DEFINE S0 == {g} \cap DOMAIN inventory
           Bad == {m \in Nat : ~\E down : IsDown(inventory, g, m, down)}
           B(S) == Below(inventory, S)
<1>1. ASSUME NEW m \in Nat, m # 0, NEW f, IsDown(inventory, g, m - 1, f) PROVE \E down : IsDown(inventory, g, m, down)
  <2> DEFINE h == [n \in 0..m |-> IF n = 0 THEN S0 ELSE B(f[n - 1])]
  <2>1. f = [n \in 0..(m - 1) |-> IF n = 0 THEN S0 ELSE B(f[n - 1])]
    BY <1>1 DEF IsDown
  <2> HIDE DEF S0, B
  <2>2. \A n \in 0..(m - 1) : h[n] = f[n]
    BY <1>1, <2>1
  <2>3. \A n \in 0..m : n # 0 => n - 1 \in 0..(m - 1)
    BY <1>1
  <2>4. h = [n \in 0..m |-> IF n = 0 THEN S0 ELSE B(h[n - 1])]
    BY <2>2, <2>3
  <2>5. IsDown(inventory, g, m, h)
    BY <2>4 DEF IsDown, S0, B
  <2> QED  BY <2>5
<1>2. 0 \notin Bad
  <2> DEFINE h == [n \in 0..0 |-> S0]
  <2>1. h = [n \in 0..0 |-> IF n = 0 THEN S0 ELSE B(h[n - 1])]
    OBVIOUS
  <2>2. IsDown(inventory, g, 0, h)
    BY <2>1 DEF IsDown
  <2> QED  BY <2>2
<1>3. ASSUME Bad # {} PROVE FALSE
  <2>1. PICK m \in Bad : \A k \in Bad : m <= k
    BY <1>3, LeastNumber
  <2>2. m \in Nat /\ m # 0 /\ m - 1 \in Nat /\ m - 1 \notin Bad
    BY <1>2, <2>1
  <2>3. PICK f : IsDown(inventory, g, m - 1, f)
    BY <2>2
  <2> QED  BY <1>1, <2>1, <2>2, <2>3
<1> QED  BY <1>3

\* A group reaches its own hosts, and those of the groups below it.
LEMMA ReachedHosts ==
  ASSUME NEW inventory, IsFiniteSet(DOMAIN inventory), NEW g \in DOMAIN inventory
  PROVE  /\ inventory[g].hosts \subseteq Reached(inventory, g)
         /\ \A d \in DOMAIN inventory \cap inventory[g].children : inventory[d].hosts \subseteq Reached(inventory, g)
<1> DEFINE groups == DOMAIN inventory
           N == Cardinality(groups)
           Down(f) == f = [n \in 0..N |-> IF n = 0 THEN {g} \cap groups
                                          ELSE UNION {{d} \cup (groups \cap inventory[d].children) : d \in f[n - 1]}]
           down == CHOOSE f : Down(f)
<1>1. N \in Nat /\ N # 0
  BY FS_CardinalityType, FS_EmptySet
<1>2. Reached(inventory, g) = UNION {inventory[d].hosts : d \in down[N]}
  BY DEF Reached
<1>3. IsDown(inventory, g, N, down)
  <2>1. \E f : Down(f)
    <3> HIDE DEF N
    <3>1. PICK f : IsDown(inventory, g, N, f)
      BY <1>1, DownExists
    <3>2. Down(f)
      BY <3>1 DEF IsDown, Below
    <3> HIDE DEF Down
    <3> QED  BY <3>2
  <2>2. Down(down)
    <3> HIDE DEF Down
    <3> QED  BY <2>1
  <2> QED  BY <2>2 DEF IsDown, Below
<1> HIDE DEF down, N
<1>4. \A n \in 0..N : down[n] = IF n = 0 THEN {g} ELSE Below(inventory, down[n - 1])
  BY <1>3 DEF IsDown
<1>5. g \in down[1] /\ groups \cap inventory[g].children \subseteq down[1]
  <2>1. 0 \in 0..N /\ 1 \in 0..N /\ 1 - 1 = 0
    BY <1>1
  <2>2. down[0] = {g} /\ down[1] = Below(inventory, down[0])
    BY <1>4, <2>1
  <2> QED  BY <2>2 DEF Below
<1>6. ASSUME NEW d \in down[1] PROVE d \in down[N]
  <2> DEFINE Without1 == {n \in Nat : n \in 1..N /\ d \notin down[n]}
  <2>1. ASSUME Without1 # {} PROVE FALSE
    <3>1. PICK n \in Without1 : \A k \in Without1 : n <= k
      BY <2>1, LeastNumber
    <3>2. n \in 1..N /\ n # 1 /\ n - 1 \in 1..N /\ n - 1 \in Nat /\ n - 1 \notin Without1
      BY <1>1, <1>6, <3>1
    <3>3. d \in down[n - 1] /\ n \in 0..N /\ n # 0
      BY <3>2
    <3>4. down[n] = Below(inventory, down[n - 1])
      BY <1>4, <3>3
    <3>5. d \in down[n]
      BY <3>3, <3>4 DEF Below
    <3> QED  BY <3>1, <3>5
  <2> QED  BY <1>1, <2>1
<1>7. \A d \in down[1] : inventory[d].hosts \subseteq Reached(inventory, g)
  BY <1>2, <1>6
<1> QED  BY <1>5, <1>7

LEMMA FiniteImage ==
  ASSUME NEW f, IsFiniteSet(DOMAIN f)
  PROVE  IsFiniteSet({f[x] : x \in DOMAIN f})
<1> DEFINE S == DOMAIN f
           g == [x \in S |-> f[x]]
           T == {f[x] : x \in S}
<1>1. g \in Surjection(S, T)  BY DEF Surjection
<1> HIDE DEF g, T
<1>2. IsFiniteSet(T)  BY <1>1, FS_Surjection
<1> QED  BY <1>2 DEF T

LEMMA FinitePair ==
  ASSUME NEW x, NEW y
  PROVE  IsFiniteSet({x, y})
<1>1. {x, y} = {x} \cup {y}  OBVIOUS
<1>2. IsFiniteSet({x}) /\ IsFiniteSet({y})  BY FS_Singleton
<1>3. IsFiniteSet({x} \cup {y})  BY <1>2, FS_Union
<1> QED  BY <1>1, <1>3

LEMMA GroupsAreFinite ==
  ASSUME TagInv, NEW a \in Hosts
  PROVE  IsFiniteSet(GroupsOf(a)) /\ IsFiniteSet({pc[1] : pc \in ParentsOf(a)})
<1> DEFINE tags == agents[a].tags
           keys == DOMAIN tags
           value == [k \in keys |-> TagValueGroup(k, tags[k])]
           parent == [k \in keys |-> TagGroup(k)]
           values == {value[k] : k \in keys}
           parents == {parent[k] : k \in keys}
           exec == IF agents[a].profile.exec = "yes" THEN {<<"exec", "enabled">>} ELSE {}
<1>1. IsFiniteSet(keys)
  BY MapOf DEF TagInv, TagTypeOK
<1>2. IsFiniteSet(values) /\ IsFiniteSet(parents)
  <2>1. DOMAIN value = keys /\ DOMAIN parent = keys
    OBVIOUS
  <2> HIDE DEF value, parent, keys
  <2> QED  BY <1>1, <2>1, FiniteImage
<1>3. GroupsOf(a) = {DistroGroup(a), ArchGroup(a)} \cup exec \cup values
  <2>1. values = {TagValueGroup(k, tags[k]) : k \in keys}
    OBVIOUS
  <2> HIDE DEF values
  <2> QED  BY <2>1 DEF GroupsOf
<1>4. \A pc \in ParentsOf(a) : pc[1] \in parents \cup {FamilyGroup(a)}
  BY DEF ParentsOf
<1>5. IsFiniteSet({DistroGroup(a), ArchGroup(a)}) /\ IsFiniteSet(exec) /\ IsFiniteSet({FamilyGroup(a)})
  BY FinitePair, FS_EmptySet, FS_Singleton
<1> HIDE DEF exec, values, parents
<1>6. {pc[1] : pc \in ParentsOf(a)} \subseteq parents \cup {FamilyGroup(a)}
  BY <1>4
<1>7. IsFiniteSet({pc[1] : pc \in ParentsOf(a)})
  BY <1>2, <1>5, <1>6, FS_Union, FS_Subset
<1> QED  BY <1>2, <1>3, <1>5, <1>7, FS_Union

LEMMA InventoryIsFinite == TagInv => IsFiniteSet(DOMAIN Inventory)
<1> SUFFICES ASSUME TagInv PROVE IsFiniteSet(DOMAIN Inventory)  OBVIOUS
<1> DEFINE group == [a \in Online |-> GroupsOf(a) \cup {pc[1] : pc \in ParentsOf(a)}]
           all == {group[a] : a \in Online}
<1>1. Online \subseteq Hosts /\ IsFiniteSet(Online)
  BY HostAPIAssumption, FS_Subset DEF Online
<1>2. \A a \in Online : IsFiniteSet(group[a])
  BY <1>1, GroupsAreFinite, FS_Union
<1>3. DOMAIN group = Online
  OBVIOUS
<1>4. IsFiniteSet(all)
  <2> HIDE DEF group
  <2> QED  BY <1>1, <1>3, FiniteImage
<1>5. IsFiniteSet(UNION all)
  BY <1>2, <1>4, FS_UNION
<1>6. DOMAIN Inventory = UNION all
  <2> DEFINE parents == UNION {ParentsOf(a) : a \in Online}
  <2>1. DOMAIN Inventory = (UNION {GroupsOf(a) : a \in Online}) \cup {pc[1] : pc \in parents}
    BY DEF Inventory
  <2>2. \A a \in Online : group[a] = GroupsOf(a) \cup {pc[1] : pc \in ParentsOf(a)}
    OBVIOUS
  <2> HIDE DEF group
  <2>3. UNION all = (UNION {GroupsOf(a) : a \in Online}) \cup (UNION {{pc[1] : pc \in ParentsOf(a)} : a \in Online})
    BY <2>2
  <2>4. {pc[1] : pc \in parents} = UNION {{pc[1] : pc \in ParentsOf(a)} : a \in Online}
    OBVIOUS
  <2> QED  BY <2>1, <2>3, <2>4
<1> QED  BY <1>5, <1>6

\* A host is reached by each group that lists it, and by the parents of those groups.
LEMMA HostIsReached ==
  ASSUME TagInv, NEW a \in Online, NEW g \in GroupsOf(a)
  PROVE  /\ a \in Reached(Inventory, g)
         /\ \A p : <<p, g>> \in ParentsOf(a) => a \in Reached(Inventory, p)
<1> DEFINE parents == UNION {ParentsOf(x) : x \in Online}
           names == (UNION {GroupsOf(x) : x \in Online}) \cup {pc[1] : pc \in parents}
           listed(n) == {x \in Online : n \in GroupsOf(x)}
           children(n) == {pc[2] : pc \in {q \in parents : q[1] = n}}
<1>1. Inventory = [n \in names |-> [hosts |-> listed(n), children |-> children(n)]]
  BY DEF Inventory, Entry
<1> HIDE DEF names, listed, children
<1>2. DOMAIN Inventory = names /\ \A n \in names : Inventory[n].hosts = listed(n) /\ Inventory[n].children = children(n)
  BY <1>1
<1>3. IsFiniteSet(DOMAIN Inventory)
  BY InventoryIsFinite
<1>4. g \in names /\ a \in listed(g)
  BY DEF names, listed
<1>5. a \in Reached(Inventory, g)
  BY <1>2, <1>3, <1>4, ReachedHosts
<1>6. ASSUME NEW p, <<p, g>> \in ParentsOf(a) PROVE a \in Reached(Inventory, p)
  <2>1. <<p, g>> \in parents /\ <<p, g>>[1] = p /\ <<p, g>>[2] = g
    BY <1>6
  <2>2. p \in names /\ g \in children(p)
    BY <2>1 DEF names, children
  <2> QED  BY <1>2, <1>3, <1>4, <2>2, ReachedHosts
<1> QED  BY <1>5, <1>6

LEMMA InventoryReaches == TagInv => InventoryReachesEveryHost
<1> SUFFICES ASSUME TagInv, NEW a \in Online
             PROVE  LET tags == agents[a].tags IN
                    /\ \A g \in {FamilyGroup(a), DistroGroup(a), ArchGroup(a)} : a \in Reached(Inventory, g)
                    /\ agents[a].profile.exec = "yes" => a \in Reached(Inventory, <<"exec", "enabled">>)
                    /\ \A k \in DOMAIN tags :
                         a \in Reached(Inventory, TagGroup(k)) \cap Reached(Inventory, TagValueGroup(k, tags[k]))
  BY DEF InventoryReachesEveryHost
<1>1. DistroGroup(a) \in GroupsOf(a) /\ ArchGroup(a) \in GroupsOf(a)
  BY DEF GroupsOf
<1>2. FamilyGroup(a) = DistroGroup(a) \/ <<FamilyGroup(a), DistroGroup(a)>> \in ParentsOf(a)
  BY DEF ParentsOf
<1>3. agents[a].profile.exec = "yes" => <<"exec", "enabled">> \in GroupsOf(a)
  BY DEF GroupsOf
<1>4. ASSUME NEW k \in DOMAIN agents[a].tags
      PROVE  LET g == TagValueGroup(k, agents[a].tags[k]) IN g \in GroupsOf(a) /\ <<TagGroup(k), g>> \in ParentsOf(a)
  BY DEF GroupsOf, ParentsOf
<1> QED  BY <1>1, <1>2, <1>3, <1>4, HostIsReached

\* Every host that is online is reached by the groups of its family, distribution,
\* architecture and tags, whatever names the keys and values of other hosts have.
THEOREM InventoryHasEveryHost == APISpec => []InventoryReachesEveryHost
<1>1. APISpec => []TagInv  BY TagInitInv, TagNextInv, PTL DEF APISpec
<1> QED  BY <1>1, InventoryReaches, PTL

-----------------------------------------------------------------------------
(***************************************************************************)
(* The limiters.  RateHolds speaks of what was let through; what makes it  *)
(* stay is that what a bucket holds, and what it let through since any     *)
(* moment, are together no more than its burst and what it has earned      *)
(* since (BucketOK).                                                       *)
(***************************************************************************)
Buckets == [tokens : Int, last : Nat]
RateTypeOK ==
  /\ now \in Nat
  /\ buckets \in [Limiters -> [Headers -> Buckets]]
  /\ admitted \in [Limiters -> [Headers -> Seq(Nat)]]

\* A bucket of a limiter with this burst, what it let through, and the time.
BucketOK(burst, b, times, t) ==
  /\ b = Unused => times = <<>>
  /\ b # Unused => b.tokens \in 0..burst /\ b.last \in 0..t
  /\ \A i \in 1..Len(times) :
       /\ times[i] <= b.last
       /\ Len(times) - i + 1 + b.tokens <= burst + b.last - times[i]
  /\ \A i \in 1..Len(times), j \in 1..Len(times) : i <= j => j - i + 1 <= burst + times[j] - times[i]

RateInv == RateTypeOK /\ \A l \in Limiters, h \in Headers : BucketOK(Burst[l], buckets[l][h], admitted[l][h], now)

LEMMA RateInitInv == APIInit => RateInv
<1> SUFFICES ASSUME APIInit PROVE RateInv  OBVIOUS
<1> USE DEF APIInit
<1>1. Unused \in Buckets  BY DEF Unused, Buckets
<1>2. RateTypeOK  BY <1>1 DEF RateTypeOK
<1>3. Len(<<>>) = 0  OBVIOUS
<1>4. \A burst \in Nat : BucketOK(burst, Unused, <<>>, 0)  BY <1>3 DEF BucketOK
<1>5. \A l \in Limiters, h \in Headers : Burst[l] \in Nat /\ buckets[l][h] = Unused /\ admitted[l][h] = <<>> /\ now = 0
  BY HostAPIAssumption
<1> QED  BY <1>2, <1>4, <1>5 DEF RateInv

\* allow, for one bucket: have is what it holds now, and it lets one through if it can.
LEMMA AllowKeeps ==
  ASSUME NEW burst \in Nat, NEW b \in Buckets, NEW times \in Seq(Nat), NEW t \in Nat, BucketOK(burst, b, times, t),
         NEW have \in Int, have = IF b = Unused THEN burst
                                  ELSE IF b.tokens + t - b.last > burst THEN burst ELSE b.tokens + t - b.last,
         NEW left \in Buckets, left = [tokens |-> IF have < 1 THEN have ELSE have - 1, last |-> t],
         NEW after \in Seq(Nat), after = IF have < 1 THEN times ELSE Append(times, t)
  PROVE  BucketOK(burst, left, after, t)
<1>1. b.tokens \in Int /\ b.last \in Nat  BY DEF Buckets
<1>2. have \in 0..burst
  <2>1. CASE b = Unused  BY <2>1
  <2>2. CASE b # Unused
    <3>1. b.tokens \in 0..burst /\ b.last \in 0..t  BY <2>2 DEF BucketOK
    <3> HIDE DEF BucketOK
    <3> QED  BY <1>1, <2>2, <3>1
  <2> QED  BY <2>1, <2>2
<1>3. \A i \in 1..Len(times) : /\ times[i] \in Nat /\ times[i] <= t
                               /\ Len(times) - i + 1 + have <= burst + t - times[i]
  <2>1. SUFFICES ASSUME NEW i \in 1..Len(times)
                 PROVE  times[i] \in Nat /\ times[i] <= t /\ Len(times) - i + 1 + have <= burst + t - times[i]
    OBVIOUS
  <2>2. times # <<>>  BY <2>1
  <2>3. b # Unused  BY <2>2 DEF BucketOK
  <2>4. b.last \in 0..t  BY <2>3 DEF BucketOK
  <2>5. times[i] <= b.last /\ Len(times) - i + 1 + b.tokens <= burst + b.last - times[i]
    BY <2>1 DEF BucketOK
  <2>6. have <= b.tokens + t - b.last  BY <1>1, <2>3, <2>4
  <2>7. times[i] \in Nat /\ Len(times) \in Nat /\ i \in Nat  BY <2>1
  <2>8. \A n, k, x, c, d, e, f \in Int :
          n - k + 1 + c <= burst + d - x /\ e <= c + f - d => n - k + 1 + e <= burst + f - x
    OBVIOUS
  <2>9. Len(times) - i + 1 + have <= burst + t - times[i]
    <3> DEFINE n == Len(times)
               x == times[i]
               c == b.tokens
               d == b.last
    <3>1. n \in Int /\ i \in Int /\ x \in Int /\ c \in Int /\ d \in Int /\ t \in Int /\ have \in Int
      BY <1>1, <2>7
    <3>2. n - i + 1 + c <= burst + d - x /\ have <= c + t - d  BY <2>5, <2>6
    <3> HIDE DEF n, x, c, d
    <3>3. n - i + 1 + have <= burst + t - x  BY <2>8, <3>1, <3>2
    <3> QED  BY <3>3 DEF n, x
  <2>10. times[i] <= t  BY <1>1, <2>4, <2>5, <2>7
  <2> QED  BY <2>7, <2>9, <2>10
<1>4. \A i, j \in 1..Len(times) : i <= j => j - i + 1 <= burst + times[j] - times[i]  BY DEF BucketOK
<1>5. left # Unused /\ left.last = t /\ left.last \in 0..t
  <2>1. left.tokens \in Nat  BY <1>2
  <2>2. Unused.tokens \notin Nat  BY DEF Unused
  <2> QED  BY <2>1, <2>2
<1>6. CASE have < 1
  <2>1. after = times /\ left.tokens = have  BY <1>6
  <2> HIDE DEF BucketOK
  <2>2. left.tokens \in 0..burst  BY <1>2, <2>1
  <2>3. \A i \in 1..Len(times) : times[i] <= left.last /\ Len(times) - i + 1 + left.tokens <= burst + left.last - times[i]
    BY <1>3, <1>5, <2>1
  <2> QED  BY <1>4, <1>5, <2>1, <2>2, <2>3 DEF BucketOK
<1>7. CASE ~(have < 1)
  <2>1. after = Append(times, t) /\ left.tokens = have - 1  BY <1>7
  <2>2. left.tokens \in 0..burst  BY <1>2, <1>7, <2>1
  <2> DEFINE n == Len(times)
  <2>3. n \in Nat /\ Len(after) = n + 1 /\ after[n + 1] = t /\ \A i \in 1..n : after[i] = times[i]
    BY <2>1
  <2>4. \A i \in 1..n : times[i] \in Nat /\ times[i] <= t /\ n - i + 1 + have <= burst + t - times[i]
    BY <1>3
  <2>5. \A i, j \in 1..n : i <= j => j - i + 1 <= burst + times[j] - times[i]  BY <1>4
  <2> HIDE DEF n
  <2>6. \A i \in 1..(n + 1) : i = n + 1 \/ i \in 1..n  BY <2>3
  <2>7. \A i \in 1..(n + 1) : /\ after[i] <= left.last
                              /\ (n + 1) - i + 1 + left.tokens <= burst + left.last - after[i]
    <3>1. SUFFICES ASSUME NEW i \in 1..(n + 1)
                   PROVE  after[i] <= t /\ (n + 1) - i + 1 + (have - 1) <= burst + t - after[i]
      BY <1>5, <2>1
    <3>2. CASE i = n + 1  BY <1>2, <2>3, <3>2
    <3>3. CASE i \in 1..n
      <4>1. after[i] = times[i] /\ times[i] \in Nat /\ times[i] <= t /\ n - i + 1 + have <= burst + t - times[i]
        BY <2>3, <2>4, <3>3
      <4>2. \A k, x \in Int : n - k + 1 + have <= burst + t - x => (n + 1) - k + 1 + (have - 1) <= burst + t - x
        BY <1>2, <2>3
      <4>3. (n + 1) - i + 1 + (have - 1) <= burst + t - times[i]  BY <3>3, <4>1, <4>2
      <4> QED  BY <4>1, <4>3
    <3> QED  BY <2>6, <3>2, <3>3
  <2>8. \A i, j \in 1..(n + 1) : i <= j => j - i + 1 <= burst + after[j] - after[i]
    <3>1. SUFFICES ASSUME NEW i \in 1..(n + 1), NEW j \in 1..(n + 1), i <= j
                   PROVE  j - i + 1 <= burst + after[j] - after[i]
      OBVIOUS
    <3>2. CASE j \in 1..n
      <4>1. i \in 1..n  BY <2>3, <3>1, <3>2
      <4> QED  BY <2>3, <2>5, <3>1, <3>2, <4>1
    <3>3. CASE j = n + 1 /\ i \in 1..n
      <4>1. after[i] = times[i] /\ after[j] = t /\ times[i] \in Nat /\ n - i + 1 + have <= burst + t - times[i]
        BY <2>3, <2>4, <3>3
      <4>2. \A k, x \in Int : n - k + 1 + have <= burst + t - x => (n + 1) - k + 1 <= burst + t - x
        BY <1>2, <1>7, <2>3
      <4>3. (n + 1) - i + 1 <= burst + t - times[i]  BY <3>3, <4>1, <4>2
      <4> QED  BY <3>3, <4>1, <4>3
    <3>4. CASE j = n + 1 /\ i = n + 1
      <4>1. after[i] = t /\ after[j] = t  BY <2>3, <3>4
      <4> QED  BY <1>2, <1>7, <2>3, <3>4, <4>1
    <3> QED  BY <2>6, <3>2, <3>3, <3>4
  <2> QED  BY <1>5, <2>2, <2>3, <2>7, <2>8 DEF BucketOK
<1> QED  BY <1>6, <1>7

LEMMA RateLimitInv ==
  ASSUME RateInv, NEW l \in Limiters, NEW h \in Headers, RateLimit(l, h)
  PROVE  RateInv'
<1> USE DEF RateInv
<1> DEFINE b == buckets[l][h]
           times == admitted[l][h]
           have == Refilled(l, b)
           left == [tokens |-> IF have < 1 THEN have ELSE have - 1, last |-> now]
           after == IF have < 1 THEN times ELSE Append(times, now)
<1>1. /\ buckets' = [buckets EXCEPT ![l][h] = left] /\ now' = now
      /\ admitted' = IF have < 1 THEN admitted ELSE [admitted EXCEPT ![l][h] = Append(@, now)]
  BY DEF RateLimit
<1>2. b \in Buckets /\ times \in Seq(Nat) /\ now \in Nat /\ Burst[l] \in Nat  BY HostAPIAssumption DEF RateTypeOK
<1>3. have = IF b = Unused THEN Burst[l]
             ELSE IF b.tokens + now - b.last > Burst[l] THEN Burst[l] ELSE b.tokens + now - b.last
  BY DEF Refilled
<1>4. b.tokens \in Int /\ b.last \in Nat  BY <1>2 DEF Buckets
<1> HIDE DEF b, have, times
<1>5. have \in Int  BY <1>2, <1>3, <1>4
<1>6. left \in Buckets  BY <1>2, <1>5 DEF Buckets
<1>7. after \in Seq(Nat)  BY <1>2
<1>8. admitted' = [admitted EXCEPT ![l][h] = after]
  <2>1. CASE have < 1
    <3>1. admitted = [admitted EXCEPT ![l][h] = admitted[l][h]]  BY DEF RateTypeOK
    <3> QED  BY <1>1, <2>1, <3>1 DEF times
  <2>2. CASE ~(have < 1)  BY <1>1, <2>2 DEF times
  <2> QED  BY <2>1, <2>2
<1>9. BucketOK(Burst[l], b, times, now)  BY DEF b, times
<1>10. BucketOK(Burst[l], left, after, now)
  <2> DEFINE newLeft == left
             newAfter == after
  <2>1. newLeft = [tokens |-> IF have < 1 THEN have ELSE have - 1, last |-> now] /\ newLeft \in Buckets
    BY <1>6
  <2>2. newAfter = (IF have < 1 THEN times ELSE Append(times, now)) /\ newAfter \in Seq(Nat)  BY <1>7
  <2> HIDE DEF newLeft, newAfter
  <2>3. BucketOK(Burst[l], newLeft, newAfter, now)
    BY <1>2, <1>3, <1>5, <1>9, <2>1, <2>2, AllowKeeps
  <2> QED  BY <2>3 DEF newLeft, newAfter
<1> HIDE DEF left, after
<1>11. RateTypeOK'  BY <1>1, <1>6, <1>7, <1>8 DEF RateTypeOK
<1>12. ASSUME NEW m \in Limiters, NEW g \in Headers
       PROVE  BucketOK(Burst[m], buckets'[m][g], admitted'[m][g], now)
  <2>1. CASE m = l /\ g = h
    <3>1. buckets'[m][g] = left /\ admitted'[m][g] = after  BY <1>1, <1>8, <2>1 DEF RateTypeOK
    <3> QED  BY <1>10, <2>1, <3>1
  <2>2. CASE ~(m = l /\ g = h)
    <3>1. buckets'[m][g] = buckets[m][g] /\ admitted'[m][g] = admitted[m][g]
      BY <1>1, <1>8, <2>2 DEF RateTypeOK
    <3> QED  BY <3>1
  <2> QED  BY <2>1, <2>2
<1> QED  BY <1>1, <1>11, <1>12

LEMMA RateInvStays == RateInv /\ UNCHANGED rateVars => RateInv'
BY DEF rateVars, RateInv, RateTypeOK, BucketOK

LEMMA RateNextInv == RateInv /\ [APINext]_apiVars => RateInv'
<1> SUFFICES ASSUME RateInv, [APINext]_apiVars PROVE RateInv'  OBVIOUS
<1>1. CASE LimitedRequest
  <2>1. PICK h \in Headers : Query(h) \/ \E l \in Limiters : Exec(h, l)  BY <1>1 DEF LimitedRequest
  <2>2. \E l \in Limiters : RateLimit(l, h)  BY <2>1 DEF Query, Exec, Limiters
  <2> QED  BY <2>2, RateLimitInv
<1>2. CASE Tick
  <2>1. now' = now + 1 /\ UNCHANGED <<buckets, admitted>> /\ now \in Nat  BY <1>2 DEF Tick, RateInv, RateTypeOK
  <2>2. RateTypeOK'  BY <2>1 DEF RateInv, RateTypeOK
  <2>3. ASSUME NEW l \in Limiters, NEW h \in Headers
        PROVE  BucketOK(Burst[l], buckets[l][h], admitted[l][h], now + 1)
    <3>1. BucketOK(Burst[l], buckets[l][h], admitted[l][h], now)  BY DEF RateInv
    <3>2. \A x \in 0..now : x \in 0..(now + 1)  BY <2>1
    <3> QED  BY <3>1, <3>2 DEF BucketOK
  <2> QED  BY <2>1, <2>2, <2>3 DEF RateInv
<1>3. CASE ~LimitedRequest /\ ~Tick
  <2>1. UNCHANGED rateVars
    BY <1>3 DEF APINext, apiVars, TokenRequest, CreateToken, DeleteToken, TagRequest, ReadTags, UpdateAgentTags,
       AbandonTags, Reregister, FleetChange, Register, GoOffline
  <2> QED  BY <2>1, RateInvStays
<1> QED  BY <1>1, <1>2, <1>3

LEMMA RateInvSays == RateInv => RateHolds
BY DEF RateInv, BucketOK, RateHolds

\* However a client spaces its requests, and whatever tokens come and go, between any two
\* moments a limiter has let no more of one Authorization header's requests through than
\* its burst and what it earned in between (RateLimiter.allow).
THEOREM RatesHold == APISpec => []RateHolds
<1>1. APISpec => []RateInv  BY RateInitInv, RateNextInv, PTL DEF APISpec
<1> QED  BY <1>1, RateInvSays, PTL

-----------------------------------------------------------------------------
(***************************************************************************)
(* Commands.  CleanRunIsClean is of the end of a run; what makes it true   *)
(* there is that all along, while nothing has failed, the count is at most *)
(* the number of targets that answered well and whose line is no longer on *)
(* the wire (CountOK) - which a lost line can only raise.                  *)
(***************************************************************************)

Answers == {"ok", "rc", "failed"}
Lines(c) == [type : {"header", "result", "progress", "half"}, target : TargetsOf(c) \cup {NoTarget}, how : Answers]
Sayings == {"nothing", "none matched", "partial", "complete", "no packages", "raw", "summary"}

ClientStates == [at : {"start", "review", "request", "header", "reading", "fetch", "query", "done"},
            received : Nat, failures : Nat, said : Sayings, exit : {"none", "ok", "error"}]

ClientTypeOK ==
  /\ cmd \in Commands
  /\ client \in ClientStates
  /\ server \in [at : {"idle", "signing", "streaming", "ended", "broken"}, wave : Nat, left : SUBSET TargetsOf(cmd)]
  /\ wire \in Seq(Lines(cmd))
  /\ ran \in [TargetsOf(cmd) -> Answers \cup {"nothing"}]

\* A line that counts for no target: never as a good answer.
Nobodys(c, l) ==
  /\ l.target = NoTarget /\ l.type # "header"
  /\ l.type = "result" => l.how # "ok"
  /\ l.type = "progress" => c.name = "exec"

\* The lines on the wire are the header, nobody's, and one for each of some targets,
\* which says what that target answered.
WireOK(c, w, answers) ==
  /\ \A i \in 1..Len(w) :
       \/ w[i].type = "header" /\ i = 1
       \/ Nobodys(c, w[i])
       \/ w[i].type = "result" /\ w[i].target \in TargetsOf(c) /\ answers[w[i].target] = w[i].how
  /\ \A i, j \in 1..Len(w) :
       w[i].type = "result" /\ w[j].type = "result" /\ w[i].target = w[j].target /\ w[i].target # NoTarget => i = j
Headless(w) == \A i \in 1..Len(w) : w[i].type # "header"

\* The targets whose good answer is read, or lost.
OnWire(w, t) == \E i \in 1..Len(w) : w[i].type = "result" /\ w[i].target = t
Got(c, w, answers) == {t \in TargetsOf(c) : answers[t] = "ok" /\ ~OnWire(w, t)}

\* What the server has not come to has not answered.
ServerOK(c, s, w, answers) ==
  /\ s.at = "idle" => w = <<>> /\ \A t \in TargetsOf(c) : answers[t] = "nothing"
  /\ s.at \in {"signing", "streaming"} =>
       /\ TargetsOf(c) # {} /\ s.wave \in 1..Len(c.waves) /\ s.left \subseteq c.waves[s.wave]
       /\ \A t \in s.left : answers[t] = "nothing"
       /\ \A j \in 1..Len(c.waves) : j > s.wave => \A t \in c.waves[j] : answers[t] = "nothing"

\* Good lines are counted at most once for each target.
Counting(c) == c.name = "deploy" \/ c.json = "no"
CountOK(c, who, w, answers) ==
  Counting(c) /\ who.failures = 0 => who.received <= Cardinality(Got(c, w, answers))

ClientInv ==
  /\ ClientTypeOK
  /\ WireOK(cmd, wire, ran) /\ ServerOK(cmd, server, wire, ran) /\ CountOK(cmd, client, wire, ran)
  /\ client.at \in {"start", "review", "request"} => server.at = "idle"
  /\ client.at = "reading" => Headless(wire)
  /\ client.said = "complete" => client.at = "done"
  /\ client.said = "complete" /\ client.exit = "ok" =>
       server.at \in {"ended", "broken"} /\ \A t \in TargetsOf(cmd) : ran[t] = "ok"

-----------------------------------------------------------------------------
LEMMA GotIsFinite ==
  ASSUME NEW c \in Commands, NEW w, NEW answers
  PROVE  /\ IsFiniteSet(Got(c, w, answers)) /\ Cardinality(Got(c, w, answers)) \in Nat
         /\ Cardinality(Got(c, w, answers)) <= Cardinality(TargetsOf(c)) /\ Cardinality(TargetsOf(c)) \in Nat
         /\ Cardinality(Got(c, w, answers)) = Cardinality(TargetsOf(c)) => Got(c, w, answers) = TargetsOf(c)
<1>1. IsFiniteSet(TargetsOf(c))  BY CommandsAssumption
<1>2. Got(c, w, answers) \subseteq TargetsOf(c)  BY DEF Got
<1> QED  BY <1>1, <1>2, FS_Subset, FS_CardinalityType

LEMMA GotGrows ==
  ASSUME NEW c \in Commands, NEW who, who.received \in Nat, NEW w, NEW v, NEW answers,
         Got(c, w, answers) \subseteq Got(c, v, answers), CountOK(c, who, w, answers)
  PROVE  CountOK(c, who, v, answers)
<1>1. /\ Cardinality(Got(c, w, answers)) <= Cardinality(Got(c, v, answers))
      /\ Cardinality(Got(c, w, answers)) \in Nat /\ Cardinality(Got(c, v, answers)) \in Nat
  BY GotIsFinite, FS_Subset
<1> QED  BY <1>1 DEF CountOK

\* Lines lost from the end, and lines of nobody, change nothing for the targets.
LEMMA WireChanged ==
  ASSUME NEW c, NEW w, NEW v, NEW answers, WireOK(c, w, answers), NoTarget \notin TargetsOf(c),
         Len(w) \in Nat, Len(v) \in Nat,
         \A i \in 1..Len(v) : (i \in 1..Len(w) /\ v[i] = w[i]) \/ Nobodys(c, v[i])
  PROVE  /\ WireOK(c, v, answers) /\ Got(c, w, answers) \subseteq Got(c, v, answers)
         /\ Headless(w) => Headless(v)
<1>1. ASSUME NEW i \in 1..Len(v)
      PROVE  \/ v[i].type = "header" /\ i = 1
             \/ Nobodys(c, v[i])
             \/ v[i].type = "result" /\ v[i].target \in TargetsOf(c) /\ answers[v[i].target] = v[i].how
  <2>1. CASE Nobodys(c, v[i])  BY <2>1
  <2>2. CASE i \in 1..Len(w) /\ v[i] = w[i]
    <3>1. \/ w[i].type = "header" /\ i = 1
          \/ Nobodys(c, w[i])
          \/ w[i].type = "result" /\ w[i].target \in TargetsOf(c) /\ answers[w[i].target] = w[i].how
      BY <2>2 DEF WireOK
    <3> QED  BY <2>2, <3>1
  <2> QED  BY <2>1, <2>2
<1>2. \A i \in 1..Len(v) : v[i].target # NoTarget => i \in 1..Len(w) /\ v[i] = w[i]  BY DEF Nobodys
<1>3. ASSUME NEW i \in 1..Len(v), NEW j \in 1..Len(v),
             v[i].type = "result", v[j].type = "result", v[i].target = v[j].target, v[i].target # NoTarget
      PROVE  i = j
  <2>1. i \in 1..Len(w) /\ j \in 1..Len(w) /\ v[i] = w[i] /\ v[j] = w[j]  BY <1>2, <1>3
  <2> QED  BY <1>3, <2>1 DEF WireOK
<1>4. \A t \in TargetsOf(c) : OnWire(v, t) => OnWire(w, t)  BY <1>2 DEF OnWire
<1>5. Headless(w) => Headless(v)  BY DEF Headless, Nobodys
<1> QED  BY <1>1, <1>3, <1>4, <1>5 DEF WireOK, Got

\* A line is read: if it is the good answer of a target, that one was not got before.
LEMMA WireRead ==
  ASSUME NEW c, NEW S, NEW w \in Seq(S), w # <<>>, NEW answers, WireOK(c, w, answers), NoTarget \notin TargetsOf(c)
  PROVE  /\ WireOK(c, Tail(w), answers) /\ Headless(Tail(w))
         /\ Got(c, w, answers) \subseteq Got(c, Tail(w), answers)
         /\ w[1].type = "result" /\ w[1].how = "ok" =>
              /\ w[1].target \in Got(c, Tail(w), answers) \ Got(c, w, answers)
<1> DEFINE v == Tail(w)
<1>1. /\ Len(w) \in Nat /\ Len(w) >= 1 /\ Len(v) = Len(w) - 1 /\ Len(v) \in Nat
      /\ \A i \in 1..Len(v) : v[i] = w[i + 1]
  BY DEF v
<1>2. \A i \in 1..Len(v) : i + 1 \in 1..Len(w) /\ i + 1 # 1 /\ i \in Int  BY <1>1
<1> HIDE DEF v
<1>3. ASSUME NEW i \in 1..Len(v)
      PROVE  \/ Nobodys(c, v[i])
             \/ v[i].type = "result" /\ v[i].target \in TargetsOf(c) /\ answers[v[i].target] = v[i].how
  BY <1>1, <1>2 DEF WireOK
<1>4. ASSUME NEW i \in 1..Len(v), NEW j \in 1..Len(v),
             v[i].type = "result", v[j].type = "result", v[i].target = v[j].target, v[i].target # NoTarget
      PROVE  i = j
  <2>1. v[i] = w[i + 1] /\ v[j] = w[j + 1] /\ i + 1 \in 1..Len(w) /\ j + 1 \in 1..Len(w)  BY <1>1, <1>2
  <2>2. i + 1 = j + 1  BY <1>4, <2>1 DEF WireOK
  <2> QED  BY <1>2, <2>2
<1>5. Headless(v)  BY <1>3 DEF Headless, Nobodys
<1>6. \A t \in TargetsOf(c) : OnWire(v, t) => OnWire(w, t)  BY <1>1, <1>2 DEF OnWire
<1>7. Got(c, w, answers) \subseteq Got(c, v, answers)  BY <1>6 DEF Got
<1>8. ASSUME w[1].type = "result", w[1].how = "ok"
      PROVE  w[1].target \in Got(c, v, answers) \ Got(c, w, answers)
  <2>0. 1 \in 1..Len(w)  BY <1>1
  <2>1. w[1].target \in TargetsOf(c) /\ answers[w[1].target] = "ok"  BY <1>8, <2>0 DEF WireOK, Nobodys
  <2>2. OnWire(w, w[1].target)  BY <1>8, <2>0 DEF OnWire
  <2>3. ~OnWire(v, w[1].target)
    <3>1. SUFFICES ASSUME NEW i \in 1..Len(v), v[i].type = "result", v[i].target = w[1].target PROVE FALSE
      BY DEF OnWire
    <3>2. v[i] = w[i + 1] /\ i + 1 \in 1..Len(w) /\ i + 1 # 1  BY <1>1, <1>2
    <3>3. w[1].target # NoTarget  BY <2>1
    <3> QED  BY <1>8, <2>0, <3>1, <3>2, <3>3 DEF WireOK
  <2> QED  BY <2>1, <2>2, <2>3 DEF Got
<1>9. WireOK(c, v, answers)  BY <1>3, <1>4 DEF WireOK
<1> QED  BY <1>5, <1>7, <1>8, <1>9 DEF v

-----------------------------------------------------------------------------
LEMMA ClientInitInv == ClientInit => ClientInv
<1> SUFFICES ASSUME ClientInit PROVE ClientInv  OBVIOUS
<1> USE DEF ClientInit
<1>1. ClientTypeOK
  BY DEF ClientTypeOK, ClientStates, Sayings
<1>2. Len(wire) = 0  OBVIOUS
<1>3. WireOK(cmd, wire, ran)  BY <1>2 DEF WireOK
<1>4. ServerOK(cmd, server, wire, ran)  BY DEF ServerOK
<1>5. CountOK(cmd, client, wire, ran)  BY GotIsFinite DEF CountOK
<1> QED  BY <1>1, <1>3, <1>4, <1>5 DEF ClientInv

LEMMA CommandKept == ClientInv => cmd \in Commands /\ NoTarget \notin TargetsOf(cmd) /\ IsFiniteSet(TargetsOf(cmd))
BY CommandsAssumption DEF ClientInv, ClientTypeOK, ClientStates

\* The client goes on, having read nothing, and counts and promises nothing.
LEMMA ClientMoves ==
  ASSUME ClientInv, UNCHANGED <<cmd, server, wire, ran>>, client.at # "done",
         NEW at \in {"start", "review", "request", "header", "reading", "fetch", "query", "done"},
         NEW said \in Sayings, NEW exit \in {"none", "ok", "error"},
         client' = [client EXCEPT !.at = at, !.said = said, !.exit = exit],
         at # "reading", at \in {"start", "review", "request"} => server.at = "idle", said # "complete"
  PROVE  ClientInv'
<1> USE DEF ClientInv
<1>1. /\ client'.at = at /\ client'.said = said /\ client'.exit = exit
      /\ client'.received = client.received /\ client'.failures = client.failures
  BY DEF ClientTypeOK, ClientStates
<1>2. ClientTypeOK'  BY DEF ClientTypeOK, ClientStates
<1>3. CountOK(cmd, client', wire, ran)  BY <1>1 DEF CountOK
<1> QED  BY <1>1, <1>2, <1>3

LEMMA GoInv ==
  ASSUME ClientInv, UNCHANGED <<cmd, server, wire, ran>>, client.at # "done",
         NEW at \in {"review", "request", "fetch", "query"}, Go(at),
         at \in {"review", "request"} => server.at = "idle"
  PROVE  ClientInv'
<1>1. client' = [client EXCEPT !.at = at, !.said = client.said, !.exit = client.exit]
  BY DEF Go, ClientInv, ClientTypeOK, ClientStates
<1>2. client.said \in Sayings /\ client.exit \in {"none", "ok", "error"} /\ client.said # "complete"
  BY DEF ClientInv, ClientTypeOK, ClientStates
<1> QED  BY <1>1, <1>2, ClientMoves

LEMMA FinishInv ==
  ASSUME ClientInv, UNCHANGED <<cmd, server, wire, ran>>, client.at # "done",
         NEW said \in Sayings \ {"complete"}, NEW exit \in {"ok", "error"}, Finish(said, exit)
  PROVE  ClientInv'
<1>1. client' = [client EXCEPT !.at = "done", !.said = said, !.exit = exit]  BY DEF Finish
<1> QED  BY <1>1, ClientMoves

LEMMA ArgumentsInv ==
  ASSUME ClientInv, NEW name, NEW next \in {"review", "fetch"}, Arguments(name, next)
  PROVE  ClientInv'
<1>1. client.at = "start" /\ server.at = "idle" /\ UNCHANGED <<cmd, server, wire, ran>>
  BY DEF Arguments, ClientInv
<1>2. Finish("nothing", "error") \/ Go(next)  BY DEF Arguments
<1>3. "nothing" \in Sayings \ {"complete"}  BY DEF Sayings
<1> QED  BY <1>1, <1>2, <1>3, GoInv, FinishInv

LEMMA RunReviewInv ==
  ASSUME ClientInv, RunReview
  PROVE  ClientInv'
<1>1. client.at = "review" /\ server.at = "idle" /\ UNCHANGED <<cmd, server, wire, ran>>
  BY DEF RunReview, ClientInv
<1>2. Finish("nothing", "error") \/ Go("request")  BY DEF RunReview
<1>3. "nothing" \in Sayings \ {"complete"}  BY DEF Sayings
<1> QED  BY <1>1, <1>2, <1>3, GoInv, FinishInv

LEMMA FetchInv ==
  ASSUME ClientInv, client.at = "fetch", NEW name, NEW found, Fetch(name, found)
  PROVE  ClientInv'
<1>1. UNCHANGED <<cmd, server, wire, ran>>  BY DEF Fetch
<1>2. Finish("nothing", "error") \/ Finish("no packages", "ok") \/ Go("query")  BY DEF Fetch
<1>3. "nothing" \in Sayings \ {"complete"} /\ "no packages" \in Sayings \ {"complete"}  BY DEF Sayings
<1> QED  BY <1>1, <1>2, <1>3, GoInv, FinishInv

LEMMA ScanInv ==
  ASSUME ClientInv, client.at = "query", NEW name, NEW lines, Scan(name, lines)
  PROVE  ClientInv'
<1>1. UNCHANGED <<cmd, server, wire, ran>>  BY DEF Scan
<1>2. \/ Finish("nothing", "error") \/ Finish("raw", "ok")
      \/ Finish("summary", "ok") \/ Finish("summary", "error")
  BY DEF Scan
<1>3. /\ "nothing" \in Sayings \ {"complete"} /\ "raw" \in Sayings \ {"complete"}
      /\ "summary" \in Sayings \ {"complete"}
  BY DEF Sayings
<1> QED  BY <1>1, <1>2, <1>3, FinishInv

\* Reading.  What is left of the wire, and the count.
LEMMA ReadMoves ==
  ASSUME ClientInv, UNCHANGED <<cmd, server, ran>>, client.at \in {"header", "reading"}, wire # <<>>, wire' = Tail(wire),
         ClientTypeOK', client'.at \in {"reading", "done"}, client'.said # "complete",
         \/ client'.received = client.received /\ client'.failures = client.failures
         \/ client'.received = client.received + 1 /\ client'.failures = client.failures
              /\ (Counting(cmd) => wire[1].type = "result" /\ wire[1].how = "ok")
         \/ client'.received = client.received + 1 /\ client'.failures = client.failures + 1
  PROVE  ClientInv'
<1> USE DEF ClientInv
<1>1. /\ WireOK(cmd, wire', ran) /\ Headless(wire')
      /\ Got(cmd, wire, ran) \subseteq Got(cmd, wire', ran)
      /\ wire[1].type = "result" /\ wire[1].how = "ok" =>
           wire[1].target \in Got(cmd, wire', ran) \ Got(cmd, wire, ran)
  <2>1. wire \in Seq(Lines(cmd))  BY DEF ClientTypeOK, ClientStates
  <2> QED  BY <2>1, CommandKept, WireRead
<1>2. server.at # "idle"  BY DEF ServerOK
<1>3. ServerOK(cmd, server, wire', ran)  BY <1>2 DEF ServerOK
<1>4. client.received \in Nat /\ client.failures \in Nat /\ client'.received \in Nat  BY DEF ClientTypeOK, ClientStates
<1>5. CountOK(cmd, client', wire', ran)
  <2> DEFINE before == Cardinality(Got(cmd, wire, ran))
             after == Cardinality(Got(cmd, wire', ran))
  <2>1. before \in Nat /\ after \in Nat /\ before <= after
    BY <1>1, CommandKept, GotIsFinite, FS_Subset
  <2>2. ASSUME NEW t \in Got(cmd, wire', ran) \ Got(cmd, wire, ran) PROVE before + 1 <= after
    <3>1. /\ IsFiniteSet(Got(cmd, wire, ran)) /\ IsFiniteSet(Got(cmd, wire', ran))
      BY CommandKept, GotIsFinite
    <3>2. Cardinality(Got(cmd, wire, ran) \cup {t}) = before + 1 /\ IsFiniteSet(Got(cmd, wire, ran) \cup {t})
      BY <2>2, <3>1, FS_AddElement
    <3>3. Got(cmd, wire, ran) \cup {t} \subseteq Got(cmd, wire', ran)  BY <1>1, <2>2
    <3> QED  BY <3>1, <3>2, <3>3, FS_Subset
  <2>3. SUFFICES ASSUME Counting(cmd), client'.failures = 0 PROVE client'.received <= after  BY DEF CountOK
  <2> HIDE DEF before, after
  <2>4. client.failures = 0  BY <1>4, <2>3
  <2>5. client.received <= before  BY <2>3, <2>4 DEF CountOK, before
  <2>6. CASE client'.received = client.received  BY <1>4, <2>1, <2>5, <2>6
  <2>7. CASE client'.received = client.received + 1
    <3>1. wire[1].type = "result" /\ wire[1].how = "ok"  BY <1>4, <2>3, <2>4, <2>7
    <3>2. before + 1 <= after  BY <1>1, <2>2, <3>1
    <3> QED  BY <1>4, <2>1, <2>5, <2>7, <3>2
  <2> QED  BY <2>6, <2>7
<1> QED  BY <1>1, <1>2, <1>3, <1>5

LEMMA ReadHeaderInv ==
  ASSUME ClientInv, NEW name, ReadHeader(name)
  PROVE  ClientInv'
<1> USE DEF ClientInv
<1>1. client.at = "header" /\ UNCHANGED <<cmd, server, ran>>  BY DEF ReadHeader
<1>2. "nothing" \in Sayings \ {"complete"} /\ "none matched" \in Sayings \ {"complete"}  BY DEF Sayings
<1>3. CASE Finish("nothing", "error") /\ UNCHANGED wire
  BY <1>1, <1>2, <1>3, FinishInv
<1>4. CASE wire # <<>> /\ wire' = Tail(wire)
           /\ (Finish("nothing", "error") \/ Finish("none matched", "ok") \/ Go("reading"))
  <2>1. \/ client' = [client EXCEPT !.at = "done", !.said = "nothing", !.exit = "error"]
        \/ client' = [client EXCEPT !.at = "done", !.said = "none matched", !.exit = "ok"]
        \/ client' = [client EXCEPT !.at = "reading"]
    BY <1>4 DEF Finish, Go
  <2>2. ClientTypeOK'
    <3>1. wire \in Seq(Lines(cmd))  BY DEF ClientTypeOK
    <3>2. wire' \in Seq(Lines(cmd))
      <4>1. wire # <<>> /\ wire' = Tail(wire)  BY <1>4
      <4> HIDE DEF ReadHeader
      <4> QED  BY <3>1, <4>1
    <3>3. client' \in ClientStates  BY <1>2, <2>1 DEF ClientTypeOK, ClientStates
    <3> QED  BY <1>1, <3>2, <3>3 DEF ClientTypeOK
  <2>3. client'.received = client.received /\ client'.failures = client.failures
    BY <2>1 DEF ClientTypeOK, ClientStates
  <2>4. client'.at \in {"reading", "done"} /\ client'.said # "complete"
    BY <1>1, <2>1 DEF ClientTypeOK, ClientStates
  <2> QED  BY <1>1, <1>4, <2>2, <2>3, <2>4, ReadMoves
<1>5. \/ Finish("nothing", "error") /\ UNCHANGED wire
      \/ wire # <<>> /\ wire' = Tail(wire)
           /\ (Finish("nothing", "error") \/ Finish("none matched", "ok") \/ Go("reading"))
  BY DEF ReadHeader
<1> QED  BY <1>3, <1>4, <1>5

LEMMA ReadResultInv ==
  ASSUME ClientInv, NEW name, NEW fails \in BOOLEAN, ReadResult(name, fails),
         Counting(cmd) /\ wire[1].type # "half" /\ ~fails => wire[1].type = "result" /\ wire[1].how = "ok"
  PROVE  ClientInv'
<1> USE DEF ClientInv
<1>1. client.at = "reading" /\ wire # <<>> /\ wire' = Tail(wire) /\ UNCHANGED <<cmd, server, ran>>
  BY DEF ReadResult
<1>2. "nothing" \in Sayings  BY DEF Sayings
<1>3. wire' \in Seq(Lines(cmd))  BY <1>1 DEF ClientTypeOK, ClientStates
<1>4. client.said # "complete" /\ client.received \in Nat /\ client.failures \in Nat  BY <1>1 DEF ClientTypeOK, ClientStates
<1>5. CASE wire[1].type = "half"
  <2>1. client' = [client EXCEPT !.at = "done", !.said = "nothing", !.exit = "error"]
    BY <1>5 DEF ReadResult, Finish
  <2>2. ClientTypeOK'  BY <1>1, <1>2, <1>3, <2>1 DEF ClientTypeOK, ClientStates
  <2>3. /\ client'.received = client.received /\ client'.failures = client.failures
        /\ client'.at = "done" /\ client'.said = "nothing"
    BY <2>1 DEF ClientTypeOK, ClientStates
  <2> QED  BY <1>1, <2>2, <2>3, ReadMoves
<1>6. CASE wire[1].type # "half" /\ fails
  <2>1. client' = [client EXCEPT !.received = @ + 1, !.failures = @ + 1]  BY <1>6 DEF ReadResult
  <2>2. ClientTypeOK'
    <3>1. client.received + 1 \in Nat /\ client.failures + 1 \in Nat  BY <1>4
    <3>2. client' \in ClientStates  BY <2>1, <3>1 DEF ClientTypeOK, ClientStates
    <3> QED  BY <1>1, <1>3, <3>2 DEF ClientTypeOK
  <2>3. /\ client'.received = client.received + 1 /\ client'.failures = client.failures + 1
        /\ client'.at = "reading" /\ client'.said = client.said
    BY <1>1, <2>1 DEF ClientTypeOK, ClientStates
  <2> QED  BY <1>1, <1>4, <2>2, <2>3, ReadMoves
<1>7. CASE wire[1].type # "half" /\ ~fails
  <2>1. client' = [client EXCEPT !.received = @ + 1, !.failures = @ + 0]  BY <1>7 DEF ReadResult
  <2>2. ClientTypeOK'
    <3>1. client.received + 1 \in Nat /\ client.failures + 0 \in Nat  BY <1>4
    <3>2. client' \in ClientStates  BY <2>1, <3>1 DEF ClientTypeOK, ClientStates
    <3> QED  BY <1>1, <1>3, <3>2 DEF ClientTypeOK
  <2>3. /\ client'.received = client.received + 1 /\ client'.failures = client.failures
        /\ client'.at = "reading" /\ client'.said = client.said
    BY <1>1, <1>4, <2>1 DEF ClientTypeOK, ClientStates
  <2> QED  BY <1>1, <1>4, <1>7, <2>2, <2>3, ReadMoves
<1> QED  BY <1>5, <1>6, <1>7

\* What the line is that counts for good.
LEMMA GoodLine ==
  ASSUME ClientInv, client.at = "reading", wire # <<>>, wire[1].type # "half", wire[1].how = "ok",
         wire[1].type = "progress" => cmd.name # "exec"
  PROVE  wire[1].type = "result"
<1>1. 1 \in 1..Len(wire) /\ wire[1] \in Lines(cmd)  BY DEF ClientInv, ClientTypeOK, ClientStates
<1>2. wire[1].type # "header"  BY <1>1 DEF ClientInv, Headless
<1>3. \/ Nobodys(cmd, wire[1])
      \/ wire[1].type = "result"
  BY <1>1, <1>2 DEF ClientInv, WireOK
<1>4. wire[1].type \in {"header", "result", "progress", "half"}  BY <1>1 DEF Lines
<1> QED  BY <1>2, <1>3, <1>4 DEF Nobodys

LEMMA ExecResultInv ==
  ASSUME ClientInv, ExecResult
  PROVE  ClientInv'
<1>1. CASE ReadResult("exec", cmd.json = "no" /\ wire[1].how # "ok") /\ wire[1].type # "progress"
  <2> DEFINE fails == cmd.json = "no" /\ wire[1].how # "ok"
  <2>1. client.at = "reading" /\ wire # <<>> /\ cmd.name = "exec"  BY <1>1 DEF ReadResult
  <2>2. fails \in BOOLEAN  OBVIOUS
  <2>3. Counting(cmd) => cmd.json = "no"  BY <2>1 DEF Counting
  <2>4. Counting(cmd) /\ wire[1].type # "half" /\ ~fails => wire[1].type = "result" /\ wire[1].how = "ok"
    BY <1>1, <2>1, <2>3, GoodLine
  <2> HIDE DEF fails
  <2>5. ReadResult("exec", fails)  BY <1>1 DEF fails
  <2> QED  BY <2>2, <2>4, <2>5, ReadResultInv
<1>2. CASE /\ client.at = "reading" /\ wire # <<>> /\ wire[1].type = "progress"
           /\ wire' = Tail(wire)
           /\ UNCHANGED <<cmd, client, server, ran, fixes, report>>
  <2>1. wire' \in Seq(Lines(cmd))  BY <1>2 DEF ClientInv, ClientTypeOK, ClientStates
  <2>2. ClientTypeOK'  BY <1>2, <2>1 DEF ClientInv, ClientTypeOK, ClientStates
  <2>3. client.said # "complete"  BY <1>2 DEF ClientInv
  <2> QED  BY <1>2, <2>2, <2>3, ReadMoves
<1> QED  BY <1>1, <1>2 DEF ExecResult

LEMMA DeployResultInv ==
  ASSUME ClientInv, DeployResult
  PROVE  ClientInv'
<1> DEFINE fails == wire[1].how # "ok"
<1>1. client.at = "reading" /\ wire # <<>> /\ cmd.name = "deploy"  BY DEF DeployResult, ReadResult
<1>2. fails \in BOOLEAN  OBVIOUS
<1>3. Counting(cmd) /\ wire[1].type # "half" /\ ~fails => wire[1].type = "result" /\ wire[1].how = "ok"
  BY <1>1, GoodLine
<1> HIDE DEF fails
<1>4. ReadResult("deploy", fails)  BY DEF DeployResult, fails
<1> QED  BY <1>2, <1>3, <1>4, ReadResultInv

\* Every target that could be got was, and none is left to answer.
LEMMA SumUpInv ==
  ASSUME ClientInv, NEW name, NEW said \in Sayings, SumUp(name, said),
         said = "complete" => Counting(cmd) /\ said = Coverage
  PROVE  ClientInv'
<1> USE DEF ClientInv
<1>1. /\ client.at = "reading" /\ StreamEnded /\ UNCHANGED <<cmd, server, wire, ran>>
      /\ client' = [client EXCEPT !.at = "done", !.said = said, !.exit = Exit]
  BY DEF SumUp, Finish
<1>2. Exit \in {"ok", "error"} /\ (Exit = "ok" => ~(client.failures > 0))  BY DEF Exit
<1> HIDE DEF Exit
<1>3. CASE said # "complete"
  <2>1. said \in Sayings \ {"complete"}  BY <1>3
  <2>2. Finish(said, Exit)  BY DEF SumUp
  <2> QED  BY <1>1, <1>2, <2>1, <2>2, FinishInv
<1>4. CASE said = "complete"
  <2>1. /\ client'.at = "done" /\ client'.said = "complete" /\ client'.exit = Exit
        /\ client'.received = client.received /\ client'.failures = client.failures
    BY <1>1, <1>4 DEF ClientTypeOK, ClientStates
  <2>2. ClientTypeOK'  BY <1>1, <1>2 DEF ClientTypeOK, ClientStates
  <2>3. CountOK(cmd, client', wire, ran)  BY <2>1 DEF CountOK
  <2>4. server.at \in {"ended", "broken"}  BY <1>1 DEF StreamEnded
  <2>5. ASSUME Exit = "ok" PROVE \A t \in TargetsOf(cmd) : ran[t] = "ok"
    <3>1. client.received \in Nat /\ client.failures \in Nat  BY DEF ClientTypeOK, ClientStates
    <3>2. client.failures = 0  BY <1>2, <2>5, <3>1
    <3>3. client.received <= Cardinality(Got(cmd, wire, ran))  BY <1>4, <3>2 DEF CountOK
    <3>4. ~(client.received < Cardinality(TargetsOf(cmd)))  BY <1>4 DEF Coverage
    <3>5. /\ Cardinality(Got(cmd, wire, ran)) \in Nat /\ Cardinality(TargetsOf(cmd)) \in Nat
          /\ Cardinality(Got(cmd, wire, ran)) <= Cardinality(TargetsOf(cmd))
          /\ Cardinality(Got(cmd, wire, ran)) = Cardinality(TargetsOf(cmd)) => Got(cmd, wire, ran) = TargetsOf(cmd)
      BY CommandKept, GotIsFinite
    <3>6. Got(cmd, wire, ran) = TargetsOf(cmd)  BY <3>1, <3>3, <3>4, <3>5
    <3> QED  BY <3>6 DEF Got
  <2> QED  BY <1>1, <2>1, <2>2, <2>3, <2>4, <2>5
<1> QED  BY <1>3, <1>4

LEMMA ExecSumUpInv ==
  ASSUME ClientInv, ExecSumUp
  PROVE  ClientInv'
<1> DEFINE said == IF cmd.json = "yes" THEN "nothing" ELSE Coverage
<1>1. SumUp("exec", said) /\ cmd.name = "exec"  BY DEF ExecSumUp, SumUp
<1>2. said \in Sayings  BY DEF Sayings, Coverage
<1>3. said = "complete" => said = Coverage /\ cmd.json # "yes"  OBVIOUS
<1> HIDE DEF said
<1>4. cmd.name \in {"exec", "deploy"} /\ cmd \in Commands  BY <1>1 DEF ClientInv, ClientTypeOK, ClientStates
<1>5. cmd.json # "yes" => cmd.json = "no"  BY <1>4, CommandsAssumption DEF Streaming
<1> QED  BY <1>1, <1>2, <1>3, <1>5, SumUpInv DEF Counting

LEMMA DeploySumUpInv ==
  ASSUME ClientInv, DeploySumUp
  PROVE  ClientInv'
<1>1. SumUp("deploy", Coverage) /\ cmd.name = "deploy"  BY DEF DeploySumUp, SumUp
<1>2. Coverage \in Sayings  BY DEF Sayings, Coverage
<1> QED  BY <1>1, <1>2, SumUpInv DEF Counting

-----------------------------------------------------------------------------
\* The server goes on: what it writes is nobody's or what a target just answered, and what
\* it has still to come to has not answered.
LEMMA ServerMoves ==
  ASSUME ClientInv, UNCHANGED <<cmd, client>>, server.at # "idle",
         client.said = "complete" /\ client.exit = "ok" => server'.at \in {"ended", "broken"} /\ ran' = ran,
         server' \in [at : {"idle", "signing", "streaming", "ended", "broken"}, wave : Nat, left : SUBSET TargetsOf(cmd)],
         server'.at # "idle", wire' \in Seq(Lines(cmd)), ran' \in [TargetsOf(cmd) -> Answers \cup {"nothing"}],
         WireOK(cmd, wire', ran'), ServerOK(cmd, server', wire', ran'),
         Headless(wire) => Headless(wire'),
         Got(cmd, wire, ran) \subseteq Got(cmd, wire', ran')
  PROVE  ClientInv'
<1> USE DEF ClientInv
<1>1. ClientTypeOK'  BY DEF ClientTypeOK
<1>2. CountOK(cmd, client, wire', ran')
  <2>1. /\ Cardinality(Got(cmd, wire, ran)) <= Cardinality(Got(cmd, wire', ran'))
        /\ Cardinality(Got(cmd, wire, ran)) \in Nat /\ Cardinality(Got(cmd, wire', ran')) \in Nat
    BY CommandKept, GotIsFinite, FS_Subset
  <2>2. client.received \in Nat  BY DEF ClientTypeOK, ClientStates
  <2> QED  BY <2>1, <2>2 DEF CountOK
<1> QED  BY <1>1, <1>2

LEMMA LineMade ==
  ASSUME NEW c, NEW type \in {"header", "result", "progress", "half"}, NEW target \in TargetsOf(c) \cup {NoTarget},
         NEW how \in Answers
  PROVE  /\ Line(type, target, how) \in Lines(c)
         /\ Line(type, target, how).type = type /\ Line(type, target, how).target = target
         /\ Line(type, target, how).how = how
BY DEF Line, Lines

LEMMA NobodysLines ==
  ASSUME NEW c
  PROVE  LET failed == Line("result", NoTarget, "failed")
             half == Line("half", NoTarget, "failed")
             progress == Line("progress", NoTarget, "ok")
         IN  /\ failed \in Lines(c) /\ Nobodys(c, failed)
             /\ half \in Lines(c) /\ Nobodys(c, half)
             /\ progress \in Lines(c) /\ (c.name = "exec" => Nobodys(c, progress))
<1> DEFINE failed == Line("result", NoTarget, "failed")
           half == Line("half", NoTarget, "failed")
           progress == Line("progress", NoTarget, "ok")
<1>1. /\ failed \in Lines(c) /\ failed.type = "result" /\ failed.target = NoTarget /\ failed.how = "failed"
      /\ half \in Lines(c) /\ half.type = "half" /\ half.target = NoTarget
      /\ progress \in Lines(c) /\ progress.type = "progress" /\ progress.target = NoTarget
  BY LineMade DEF Answers
<1> HIDE DEF failed, half, progress
<1>2. Nobodys(c, failed) /\ Nobodys(c, half) /\ (c.name = "exec" => Nobodys(c, progress))
  BY <1>1 DEF Nobodys
<1> QED  BY <1>1, <1>2 DEF failed, half, progress

\* What one more of a line, or none, makes of a wire.
IsWith(c, v, w, x) ==
  /\ v \in Seq(Lines(c)) /\ Len(v) \in Nat /\ Len(w) \in Nat
  /\ \A i \in 1..Len(v) : (i \in 1..Len(w) /\ v[i] = w[i]) \/ v[i] = x

LEMMA NoLineAdded ==
  ASSUME NEW c, NEW w \in Seq(Lines(c)), NEW x
  PROVE  IsWith(c, w \o <<>>, w, x)
BY DEF IsWith

LEMMA LineAdded ==
  ASSUME NEW c, NEW w \in Seq(Lines(c)), NEW x \in Lines(c)
  PROVE  IsWith(c, w \o <<x>>, w, x)
<1> DEFINE v == w \o <<x>>
<1>1. v \in Seq(Lines(c)) /\ Len(v) = Len(w) + 1 /\ v[Len(w) + 1] = x /\ Len(w) \in Nat  OBVIOUS
<1>2. \A i \in 1..Len(w) : v[i] = w[i]  OBVIOUS
<1> HIDE DEF v
<1>3. IsWith(c, v, w, x)  BY <1>1, <1>2 DEF IsWith
<1> QED  BY <1>3 DEF v

LEMMA ApiStreamRequestInv ==
  ASSUME ClientInv, ApiStreamRequest
  PROVE  ClientInv'
<1> USE DEF ClientInv
<1>1. client.at = "request" /\ server.at = "idle" /\ cmd' = cmd /\ ran' = ran  BY DEF ApiStreamRequest
<1>2. wire = <<>> /\ \A t \in TargetsOf(cmd) : ran[t] = "nothing"  BY <1>1 DEF ServerOK
<1>3. CASE Finish("nothing", "error") /\ UNCHANGED <<server, wire>>
  <2>1. "nothing" \in Sayings \ {"complete"}  BY DEF Sayings
  <2> QED  BY <1>1, <1>3, <2>1, FinishInv
<1>4. CASE /\ Go("header")
           /\ Says(Line("header", NoTarget, "ok"))
           /\ server' = [at |-> IF TargetsOf(cmd) = {} THEN "ended" ELSE "signing", wave |-> 1,
                         left |-> IF TargetsOf(cmd) = {} THEN {} ELSE cmd.waves[1]]
  <2> DEFINE header == Line("header", NoTarget, "ok")
  <2>1. header \in Lines(cmd) /\ header.type = "header"  BY LineMade DEF Answers
  <2> HIDE DEF header
  <2>2. wire' = <<header>>  BY <1>2, <1>4 DEF Says, header
  <2>3. wire' \in Seq(Lines(cmd)) /\ Len(wire') = 1 /\ wire'[1] = header  BY <2>1, <2>2
  <2>4. \A i \in 1..1 : i = 1  OBVIOUS
  <2>5. WireOK(cmd, wire', ran)  BY <2>1, <2>3, <2>4 DEF WireOK
  <2>6. client' = [client EXCEPT !.at = "header"]  BY <1>4 DEF Go
  <2>7. client' \in ClientStates /\ client'.at = "header" /\ client'.said = client.said /\ client'.received = client.received
        /\ client'.failures = client.failures
    BY <2>6 DEF ClientTypeOK, ClientStates
  <2>8. TargetsOf(cmd) # {} =>
          /\ Streaming(cmd) /\ 1 \in 1..Len(cmd.waves) /\ cmd.waves[1] \subseteq TargetsOf(cmd)
          /\ \A j \in 1..Len(cmd.waves) : cmd.waves[j] \subseteq TargetsOf(cmd)
    <3>1. SUFFICES ASSUME TargetsOf(cmd) # {} PROVE Streaming(cmd) /\ 1 \in 1..Len(cmd.waves)
                     /\ \A j \in 1..Len(cmd.waves) : cmd.waves[j] \subseteq TargetsOf(cmd)
      OBVIOUS
    <3>2. Streaming(cmd) /\ TargetsOf(cmd) = UNION {cmd.waves[i] : i \in 1..Len(cmd.waves)}
      BY <3>1 DEF TargetsOf
    <3>3. PICK i \in 1..Len(cmd.waves) : cmd.waves[i] # {}  BY <3>1, <3>2
    <3>4. Len(cmd.waves) \in Nat  BY <3>2, CommandKept, CommandsAssumption
    <3>5. 1 \in 1..Len(cmd.waves)  BY <3>3, <3>4
    <3> QED  BY <3>2, <3>5
  <2>9. /\ server' \in [at : {"idle", "signing", "streaming", "ended", "broken"}, wave : Nat, left : SUBSET TargetsOf(cmd)]
        /\ server'.at # "idle"
    BY <1>4, <2>8
  <2>10. ServerOK(cmd, server', wire', ran)
    <3>1. CASE TargetsOf(cmd) = {}  BY <1>4, <3>1 DEF ServerOK
    <3>2. CASE TargetsOf(cmd) # {}
      <4>1. server'.at = "signing" /\ server'.wave = 1 /\ server'.left = cmd.waves[1]  BY <1>4, <3>2
      <4> QED  BY <1>2, <2>8, <3>2, <4>1 DEF ServerOK
    <3> QED  BY <3>1, <3>2
  <2>11. CountOK(cmd, client', wire', ran)
    <3>1. Got(cmd, wire, ran) \subseteq Got(cmd, wire', ran)  BY <1>2 DEF Got
    <3>2. client.received \in Nat  BY DEF ClientTypeOK, ClientStates
    <3>3. CountOK(cmd, client, wire', ran)  BY <3>1, <3>2, CommandKept, GotGrows
    <3> QED  BY <2>7, <3>3 DEF CountOK
  <2>12. ClientTypeOK'  BY <1>1, <2>3, <2>7, <2>9 DEF ClientTypeOK
  <2> QED  BY <1>1, <2>5, <2>7, <2>9, <2>10, <2>11, <2>12
<1> QED  BY <1>3, <1>4 DEF ApiStreamRequest

\* Where the server is while it signs or streams.
LEMMA ServerPlace ==
  ASSUME ClientInv, server.at \in {"signing", "streaming"}
  PROVE  /\ Streaming(cmd) /\ Len(cmd.waves) \in Nat /\ server.wave \in 1..Len(cmd.waves)
         /\ \A j \in 1..Len(cmd.waves) : cmd.waves[j] \subseteq TargetsOf(cmd)
         /\ \A i, j \in 1..Len(cmd.waves) : i # j => cmd.waves[i] \cap cmd.waves[j] = {}
         /\ ~(client.said = "complete" /\ client.exit = "ok")
         /\ server = [at |-> server.at, wave |-> server.wave, left |-> server.left]
<1> USE DEF ClientInv
<1>1. TargetsOf(cmd) # {} /\ server.wave \in 1..Len(cmd.waves)  BY DEF ServerOK
<1>2. Streaming(cmd) /\ TargetsOf(cmd) = UNION {cmd.waves[i] : i \in 1..Len(cmd.waves)}  BY <1>1 DEF TargetsOf
<1>3. /\ Len(cmd.waves) \in Nat
      /\ \A i, j \in 1..Len(cmd.waves) : i # j => cmd.waves[i] \cap cmd.waves[j] = {}
  BY <1>2, CommandKept, CommandsAssumption
<1>4. server = [at |-> server.at, wave |-> server.wave, left |-> server.left]  BY DEF ClientTypeOK
<1> QED  BY <1>1, <1>2, <1>3, <1>4

LEMMA StopsInv ==
  ASSUME ClientInv, server.at \in {"signing", "streaming"},
         NEW lines \in {<<>>, <<Line("result", NoTarget, "failed")>>}, Stops(lines)
  PROVE  ClientInv'
<1> USE DEF ClientInv
<1> DEFINE failed == Line("result", NoTarget, "failed")
           more == IF Len(cmd.waves) > 1 THEN <<failed>> ELSE <<>>
<1>1. server' = [server EXCEPT !.at = "ended"] /\ UNCHANGED <<cmd, client, ran>> /\ wire' = wire \o lines \o more
  BY DEF Stops
<1>2. failed \in Lines(cmd) /\ Nobodys(cmd, failed)  BY NobodysLines
<1> HIDE DEF failed
<1>3. (lines = <<>> \/ lines = <<failed>>) /\ (more = <<>> \/ more = <<failed>>)  BY DEF failed
<1> HIDE DEF more
<1>4. wire \in Seq(Lines(cmd))  BY DEF ClientTypeOK
<1> DEFINE said == wire \o lines
<1>5. said = wire \o lines /\ wire' = said \o more  BY <1>1
<1> HIDE DEF said
<1>6. /\ wire' \in Seq(Lines(cmd)) /\ Len(wire') \in Nat /\ Len(wire) \in Nat
      /\ \A i \in 1..Len(wire') : (i \in 1..Len(wire) /\ wire'[i] = wire[i]) \/ wire'[i] = failed
  <2>1. IsWith(cmd, said, wire, failed)
    <3>1. CASE lines = <<>>  BY <1>4, <1>5, <3>1, NoLineAdded
    <3>2. CASE lines = <<failed>>  BY <1>2, <1>4, <1>5, <3>2, LineAdded
    <3> QED  BY <1>3, <3>1, <3>2
  <2>2. said \in Seq(Lines(cmd))  BY <2>1 DEF IsWith
  <2>3. IsWith(cmd, wire', said, failed)
    <3>1. CASE more = <<>>  BY <1>5, <2>2, <3>1, NoLineAdded
    <3>2. CASE more = <<failed>>  BY <1>2, <1>5, <2>2, <3>2, LineAdded
    <3> QED  BY <1>3, <3>1, <3>2
  <2> QED  BY <2>1, <2>3 DEF IsWith
<1>7. /\ WireOK(cmd, wire', ran) /\ Got(cmd, wire, ran) \subseteq Got(cmd, wire', ran)
      /\ Headless(wire) => Headless(wire')
  BY <1>2, <1>6, CommandKept, WireChanged
<1>8. /\ server' \in [at : {"idle", "signing", "streaming", "ended", "broken"}, wave : Nat, left : SUBSET TargetsOf(cmd)]
      /\ server'.at = "ended"
  BY <1>1 DEF ClientTypeOK
<1>9. ServerOK(cmd, server', wire', ran)  BY <1>8 DEF ServerOK
<1>10. ran \in [TargetsOf(cmd) -> Answers \cup {"nothing"}]  BY DEF ClientTypeOK
<1> QED  BY <1>1, <1>6, <1>7, <1>8, <1>9, <1>10, ServerPlace, ServerMoves

\* A server that goes on with what is left, and writes nothing.
LEMMA ServerGoesOn ==
  ASSUME ClientInv, server.at \in {"signing", "streaming"}, UNCHANGED <<cmd, client, wire, ran>>,
         server' \in [at : {"idle", "signing", "streaming", "ended", "broken"}, wave : Nat, left : SUBSET TargetsOf(cmd)],
         server'.at # "idle", ServerOK(cmd, server', wire, ran)
  PROVE  ClientInv'
<1>1. ran \in [TargetsOf(cmd) -> Answers \cup {"nothing"}] /\ wire \in Seq(Lines(cmd)) /\ WireOK(cmd, wire, ran)
  BY DEF ClientInv, ClientTypeOK
<1> QED  BY <1>1, ServerPlace, ServerMoves

LEMMA SignWaveInv ==
  ASSUME ClientInv, SignWave
  PROVE  ClientInv'
<1> USE DEF ClientInv
<1>1. server.at = "signing"  BY DEF SignWave
<1>2. CASE Stops(<<Line("result", NoTarget, "failed")>>)  BY <1>1, <1>2, StopsInv
<1>3. CASE server' = [server EXCEPT !.at = "streaming"] /\ UNCHANGED <<cmd, client, wire, ran>>
  <2>1. /\ server' \in [at : {"idle", "signing", "streaming", "ended", "broken"}, wave : Nat, left : SUBSET TargetsOf(cmd)]
        /\ server'.at = "streaming" /\ server'.wave = server.wave /\ server'.left = server.left
    BY <1>3 DEF ClientTypeOK
  <2>2. ServerOK(cmd, server', wire, ran)  BY <1>1, <2>1 DEF ServerOK
  <2> QED  BY <1>1, <1>3, <2>1, <2>2, ServerGoesOn
<1> QED  BY <1>2, <1>3 DEF SignWave

LEMMA MissResultInv ==
  ASSUME ClientInv, NEW t \in TargetsOf(cmd), MissResult(t)
  PROVE  ClientInv'
<1> USE DEF ClientInv
<1>1. server.at = "streaming" /\ server' = [server EXCEPT !.left = @ \ {t}] /\ UNCHANGED <<cmd, client, wire, ran>>
  BY DEF MissResult
<1>2. /\ server' \in [at : {"idle", "signing", "streaming", "ended", "broken"}, wave : Nat, left : SUBSET TargetsOf(cmd)]
      /\ server'.at = "streaming" /\ server'.wave = server.wave /\ server'.left = server.left \ {t}
  BY <1>1 DEF ClientTypeOK
<1>3. ServerOK(cmd, server', wire, ran)  BY <1>1, <1>2 DEF ServerOK
<1> QED  BY <1>1, <1>2, <1>3, ServerGoesOn

LEMMA EmitProgressInv ==
  ASSUME ClientInv, EmitProgress
  PROVE  ClientInv'
<1> USE DEF ClientInv
<1> DEFINE progress == Line("progress", NoTarget, "ok")
<1>1. /\ server.at = "streaming" /\ cmd.name = "exec" /\ UNCHANGED <<cmd, client, server, ran>>
      /\ wire' = Append(wire, progress)
  BY DEF EmitProgress, Says
<1>2. progress \in Lines(cmd) /\ Nobodys(cmd, progress)  BY <1>1, NobodysLines
<1> HIDE DEF progress
<1>3. wire \in Seq(Lines(cmd))  BY DEF ClientTypeOK
<1>4. /\ wire' \in Seq(Lines(cmd)) /\ Len(wire') \in Nat /\ Len(wire) \in Nat
      /\ \A i \in 1..Len(wire') : (i \in 1..Len(wire) /\ wire'[i] = wire[i]) \/ wire'[i] = progress
  BY <1>1, <1>2, <1>3
<1>5. /\ WireOK(cmd, wire', ran) /\ Got(cmd, wire, ran) \subseteq Got(cmd, wire', ran)
      /\ Headless(wire) => Headless(wire')
  BY <1>2, <1>4, CommandKept, WireChanged
<1>6. ServerOK(cmd, server', wire', ran)  BY <1>1 DEF ServerOK
<1>7. /\ ran \in [TargetsOf(cmd) -> Answers \cup {"nothing"}]
      /\ server' \in [at : {"idle", "signing", "streaming", "ended", "broken"}, wave : Nat, left : SUBSET TargetsOf(cmd)]
  BY <1>1 DEF ClientTypeOK
<1> QED  BY <1>1, <1>4, <1>5, <1>6, <1>7, ServerPlace, ServerMoves

LEMMA EndWaveInv ==
  ASSUME ClientInv, EndWave
  PROVE  ClientInv'
<1> USE DEF ClientInv
<1>1. server.at = "streaming"  BY DEF EndWave
<1>2. CASE Stops(<<>>)  BY <1>1, <1>2, StopsInv
<1>3. CASE server' = [server EXCEPT !.at = "ended"] /\ UNCHANGED <<cmd, client, wire, ran>>
  <2>1. /\ server' \in [at : {"idle", "signing", "streaming", "ended", "broken"}, wave : Nat, left : SUBSET TargetsOf(cmd)]
        /\ server'.at = "ended"
    BY <1>3 DEF ClientTypeOK
  <2>2. ServerOK(cmd, server', wire, ran)  BY <2>1 DEF ServerOK
  <2> QED  BY <1>1, <1>3, <2>1, <2>2, ServerGoesOn
<1>4. CASE /\ server.wave # Len(cmd.waves)
           /\ server' = [at |-> "signing", wave |-> server.wave + 1, left |-> cmd.waves[server.wave + 1]]
           /\ UNCHANGED <<cmd, client, wire, ran>>
  <2> DEFINE next == server.wave + 1
  <2>1. next \in 1..Len(cmd.waves) /\ next \in Nat /\ next > server.wave /\ \A j \in 1..Len(cmd.waves) : j > next => j > server.wave
    BY <1>1, <1>4, ServerPlace
  <2> HIDE DEF next
  <2>2. server' = [at |-> "signing", wave |-> next, left |-> cmd.waves[next]]  BY <1>4 DEF next
  <2>3. cmd.waves[next] \subseteq TargetsOf(cmd)  BY <1>1, <2>1, ServerPlace
  <2>4. /\ server' \in [at : {"idle", "signing", "streaming", "ended", "broken"}, wave : Nat, left : SUBSET TargetsOf(cmd)]
        /\ server'.at = "signing" /\ server'.wave = next /\ server'.left = cmd.waves[next]
    BY <2>1, <2>2, <2>3
  <2>5. ServerOK(cmd, server', wire, ran)  BY <1>1, <2>1, <2>4 DEF ServerOK
  <2> QED  BY <1>1, <1>4, <2>4, <2>5, ServerGoesOn
<1> QED  BY <1>2, <1>3, <1>4 DEF EndWave

LEMMA BreakInv ==
  ASSUME ClientInv, Break
  PROVE  ClientInv'
<1> USE DEF ClientInv
<1> DEFINE half == Line("half", NoTarget, "failed")
<1>1. /\ server.at # "idle" /\ client.at # "done" /\ server' = [server EXCEPT !.at = "broken"]
      /\ UNCHANGED <<cmd, client, ran>>
  BY DEF Break
<1>2. half \in Lines(cmd) /\ Nobodys(cmd, half)  BY NobodysLines
<1> HIDE DEF half
<1>3. PICK n \in 0..Len(wire) : wire' = SubSeq(wire, 1, n) \o <<>> \/ wire' = SubSeq(wire, 1, n) \o <<half>>
  BY DEF Break, half
<1>4. wire \in Seq(Lines(cmd)) /\ Len(wire) \in Nat /\ n \in Nat /\ n <= Len(wire)  BY DEF ClientTypeOK
<1> DEFINE kept == SubSeq(wire, 1, n)
<1>5. kept \in Seq(Lines(cmd)) /\ Len(kept) = n /\ \A i \in 1..n : kept[i] = wire[i] /\ i \in 1..Len(wire)
  BY <1>4
<1> HIDE DEF kept
<1>6. wire' = kept \o <<>> \/ wire' = kept \o <<half>>  BY <1>3 DEF kept
<1>7. /\ wire' \in Seq(Lines(cmd)) /\ Len(wire') \in Nat
      /\ \A i \in 1..Len(wire') : (i \in 1..Len(wire) /\ wire'[i] = wire[i]) \/ wire'[i] = half
  <2>1. IsWith(cmd, wire', kept, half)
    <3>1. CASE wire' = kept \o <<>>  BY <1>5, <3>1, NoLineAdded
    <3>2. CASE wire' = kept \o <<half>>  BY <1>2, <1>5, <3>2, LineAdded
    <3> QED  BY <1>6, <3>1, <3>2
  <2> QED  BY <1>5, <2>1 DEF IsWith
<1>8. /\ WireOK(cmd, wire', ran) /\ Got(cmd, wire, ran) \subseteq Got(cmd, wire', ran)
      /\ Headless(wire) => Headless(wire')
  BY <1>2, <1>4, <1>7, CommandKept, WireChanged
<1>9. /\ server' \in [at : {"idle", "signing", "streaming", "ended", "broken"}, wave : Nat, left : SUBSET TargetsOf(cmd)]
      /\ server'.at = "broken"
  BY <1>1 DEF ClientTypeOK
<1>10. ServerOK(cmd, server', wire', ran)  BY <1>9 DEF ServerOK
<1>11. ran \in [TargetsOf(cmd) -> Answers \cup {"nothing"}]  BY DEF ClientTypeOK
<1> QED  BY <1>1, <1>7, <1>8, <1>9, <1>10, <1>11, ServerMoves

LEMMA EmitResultInv ==
  ASSUME ClientInv, NEW t \in TargetsOf(cmd), NEW how \in Answers, EmitResult(t, how)
  PROVE  ClientInv'
<1> USE DEF ClientInv
<1> DEFINE line == Line("result", t, how)
<1>1. /\ server.at = "streaming" /\ t \in server.left /\ server' = [server EXCEPT !.left = @ \ {t}]
      /\ ran' = [ran EXCEPT ![t] = how] /\ wire' = Append(wire, line) /\ UNCHANGED <<cmd, client>>
  BY DEF EmitResult, Says
<1>2. line \in Lines(cmd) /\ line.type = "result" /\ line.target = t /\ line.how = how  BY LineMade
<1> HIDE DEF line
<1>3. ran[t] = "nothing" /\ t # NoTarget  BY <1>1, CommandKept DEF ServerOK
<1>4. wire \in Seq(Lines(cmd)) /\ ran \in [TargetsOf(cmd) -> Answers \cup {"nothing"}]  BY DEF ClientTypeOK
<1>5. /\ ran' \in [TargetsOf(cmd) -> Answers \cup {"nothing"}] /\ ran'[t] = how
      /\ \A u \in TargetsOf(cmd) \ {t} : ran'[u] = ran[u]
  BY <1>1, <1>4
<1> DEFINE n == Len(wire)
<1>6. /\ wire' \in Seq(Lines(cmd)) /\ n \in Nat /\ Len(wire') = n + 1 /\ wire'[n + 1] = line
      /\ \A i \in 1..n : wire'[i] = wire[i]
      /\ \A i \in 1..(n + 1) : i \in 1..n \/ i = n + 1
  BY <1>1, <1>2, <1>4
<1> HIDE DEF n
<1>7. \A i \in 1..n : wire[i].type = "result" => wire[i].target # t
  <2>1. SUFFICES ASSUME NEW i \in 1..n, wire[i].type = "result", wire[i].target = t PROVE FALSE  OBVIOUS
  <2>2. ran[t] = wire[i].how  BY <1>3, <2>1 DEF WireOK, Nobodys, n
  <2>3. wire[i] \in Lines(cmd)  BY <1>4, <2>1 DEF n
  <2>4. wire[i].how \in Answers  BY <2>3 DEF Lines
  <2> QED  BY <1>3, <2>2, <2>4 DEF Answers
<1>8. WireOK(cmd, wire', ran')
  <2>1. ASSUME NEW i \in 1..(n + 1)
        PROVE  \/ wire'[i].type = "header" /\ i = 1
               \/ Nobodys(cmd, wire'[i])
               \/ wire'[i].type = "result" /\ wire'[i].target \in TargetsOf(cmd) /\ ran'[wire'[i].target] = wire'[i].how
    <3>1. CASE i = n + 1  BY <1>2, <1>5, <1>6, <3>1
    <3>2. CASE i \in 1..n
      <4>1. \/ wire[i].type = "header" /\ i = 1
            \/ Nobodys(cmd, wire[i])
            \/ wire[i].type = "result" /\ wire[i].target \in TargetsOf(cmd) /\ ran[wire[i].target] = wire[i].how
        BY <3>2 DEF WireOK, n
      <4>2. wire[i].type = "result" => wire[i].target # t  BY <1>7, <3>2
      <4> QED  BY <1>5, <1>6, <3>2, <4>1, <4>2
    <3> QED  BY <1>6, <2>1, <3>1, <3>2
  <2>2. ASSUME NEW i \in 1..(n + 1), NEW j \in 1..(n + 1), wire'[i].type = "result", wire'[j].type = "result",
               wire'[i].target = wire'[j].target, wire'[i].target # NoTarget
        PROVE  i = j
    <3>1. CASE i \in 1..n /\ j \in 1..n  BY <1>6, <2>2, <3>1 DEF WireOK, n
    <3>2. CASE i \in 1..n /\ j = n + 1  BY <1>2, <1>6, <1>7, <2>2, <3>2
    <3>3. CASE i = n + 1 /\ j \in 1..n  BY <1>2, <1>6, <1>7, <2>2, <3>3
    <3>4. CASE i = n + 1 /\ j = n + 1  BY <3>4
    <3> QED  BY <1>6, <3>1, <3>2, <3>3, <3>4
  <2> QED  BY <1>6, <2>1, <2>2 DEF WireOK
<1>9. Headless(wire) => Headless(wire')
  <2>1. \A i \in 1..(n + 1) : (i \in 1..n /\ wire'[i] = wire[i]) \/ wire'[i].type = "result"  BY <1>2, <1>6
  <2> QED  BY <1>6, <2>1 DEF Headless, n
<1>10. Got(cmd, wire, ran) \subseteq Got(cmd, wire', ran')
  <2>1. SUFFICES ASSUME NEW u \in TargetsOf(cmd), ran[u] = "ok", ~OnWire(wire, u)
                 PROVE  ran'[u] = "ok" /\ ~OnWire(wire', u)
    BY DEF Got
  <2>2. u # t  BY <1>3, <2>1
  <2>3. \A i \in 1..(n + 1) : wire'[i].type = "result" /\ wire'[i].target = u => i \in 1..n /\ wire'[i] = wire[i]
    BY <1>2, <1>6, <2>2
  <2>4. ~OnWire(wire', u)  BY <1>6, <2>1, <2>3 DEF OnWire, n
  <2> QED  BY <1>5, <2>1, <2>2, <2>4
<1>11. /\ server' \in [at : {"idle", "signing", "streaming", "ended", "broken"}, wave : Nat, left : SUBSET TargetsOf(cmd)]
       /\ server'.at = "streaming" /\ server'.wave = server.wave /\ server'.left = server.left \ {t}
  BY <1>1 DEF ClientTypeOK
<1>12. ServerOK(cmd, server', wire', ran')
  <2>1. t \in cmd.waves[server.wave] /\ server.left \subseteq cmd.waves[server.wave]  BY <1>1 DEF ServerOK
  <2>2. \A j \in 1..Len(cmd.waves) : j > server.wave => t \notin cmd.waves[j]
    <3>1. SUFFICES ASSUME NEW j \in 1..Len(cmd.waves), j > server.wave PROVE t \notin cmd.waves[j]  OBVIOUS
    <3>2. server.wave \in 1..Len(cmd.waves) /\ Len(cmd.waves) \in Nat  BY <1>1, ServerPlace
    <3>3. j # server.wave  BY <3>1, <3>2
    <3> QED  BY <1>1, <2>1, <3>2, <3>3, ServerPlace
  <2>3. \A j \in 1..Len(cmd.waves) : cmd.waves[j] \subseteq TargetsOf(cmd)  BY <1>1, ServerPlace
  <2>4. \A u \in server.left \ {t} : u \in TargetsOf(cmd) /\ ran'[u] = "nothing"
    BY <1>1, <1>5 DEF ServerOK, ClientTypeOK
  <2>5. \A j \in 1..Len(cmd.waves) : j > server.wave => \A u \in cmd.waves[j] : ran'[u] = "nothing"
    BY <1>1, <1>5, <2>2, <2>3 DEF ServerOK
  <2> QED  BY <1>1, <1>11, <2>1, <2>4, <2>5 DEF ServerOK
<1> QED  BY <1>1, <1>5, <1>6, <1>8, <1>9, <1>10, <1>11, <1>12, ServerPlace, ServerMoves

-----------------------------------------------------------------------------
LEMMA ClientNextInv == ClientInv /\ [ClientNext]_clientVars => ClientInv'
<1> SUFFICES ASSUME ClientInv, [ClientNext]_clientVars PROVE ClientInv'  OBVIOUS
<1>1. CASE UNCHANGED clientVars
  BY <1>1 DEF clientVars, ClientInv, ClientTypeOK
<1>2. CASE ExecArguments \/ DeployArguments \/ CVEArguments \/ ErrataArguments
  BY <1>2, ArgumentsInv DEF ExecArguments, DeployArguments, CVEArguments, ErrataArguments
<1>3. CASE ExecHeader \/ DeployHeader  BY <1>3, ReadHeaderInv DEF ExecHeader, DeployHeader
<1>4. CASE client.at = "fetch" /\ \E found \in {FixesOf(cmd)} : FetchCVE(found) \/ FetchErrata(found)
  <2>1. PICK found : Fetch("cve", found) \/ Fetch("errata", found)  BY <1>4 DEF FetchCVE, FetchErrata
  <2> QED  BY <1>4, <2>1, FetchInv
<1>5. CASE client.at = "query"
           /\ \E lines \in {AssessFleetScan(cmd.rows, cmd.name = "cve")} : ScanCVE(lines) \/ ScanErrata(lines)
  <2>1. PICK lines : Scan("cve", lines) \/ Scan("errata", lines)  BY <1>5 DEF ScanCVE, ScanErrata
  <2> QED  BY <1>5, <2>1, ScanInv
<1>6. ASSUME NEW t \in TargetsOf(cmd), MissResult(t) PROVE ClientInv'  BY <1>6, MissResultInv
<1>7. ASSUME NEW t \in TargetsOf(cmd), NEW how \in {"ok", "rc", "failed"}, EmitResult(t, how) PROVE ClientInv'
  BY <1>7, EmitResultInv DEF Answers
<1> QED
  BY <1>1, <1>2, <1>3, <1>4, <1>5, <1>6, <1>7, RunReviewInv, ApiStreamRequestInv, SignWaveInv, EmitProgressInv,
     EndWaveInv, BreakInv, ExecResultInv, DeployResultInv, ExecSumUpInv, DeploySumUpInv
  DEF ClientNext

LEMMA ClientInvSays == ClientInv => CleanRunIsClean
BY DEF ClientInv, CleanRunIsClean

\* Whichever lines the connection loses, whichever results the server misses or cannot ask
\* for, in however many waves: an exec or a deploy that says it is complete and exits well
\* was answered well by every one of its targets (streamExecResults, runDeployCommand).
THEOREM CleanMeansEveryTarget == ClientSpec => []CleanRunIsClean
<1>1. ClientSpec => []ClientInv  BY ClientInitInv, ClientNextInv, PTL DEF ClientSpec
<1> QED  BY <1>1, ClientInvSays, PTL

-----------------------------------------------------------------------------
\* ServerData lets one part act at a time; each part moves as its own specification says,
\* so what is proved of a part holds of it there.
THEOREM PartsKeepTheirSpecs ==
  FairSpec => /\ KeySpec /\ APISpec /\ ClientSpec
              /\ BatcherInit /\ [][BatcherNext]_batcherVars
              /\ FactInit /\ [][FactNext]_factVars
<1>1. ASSUME [Next]_vars
      PROVE  /\ [KeyNext]_keyVars /\ [BatcherNext]_batcherVars /\ [FactNext]_factVars
             /\ [APINext]_apiVars /\ [ClientNext]_clientVars
  <2>1. CASE UNCHANGED vars  BY <2>1 DEF vars
  <2>2. CASE Act("keys", KeyNext, <<batcherVars, factVars, apiVars, clientVars>>)  BY <2>2 DEF Act
  <2>3. CASE Act("commands", ClientNext, <<keyVars, batcherVars, factVars, apiVars>>)  BY <2>3 DEF Act
  <2>4. CASE Registrations(BatcherNext)  BY <2>4 DEF Registrations, Act
  <2>5. CASE Facts(FactNext)  BY <2>5 DEF Facts, Act
  <2>6. CASE API("tags", TagRequest \/ Reregister) \/ API("fleet", FleetChange)
             \/ API("limits", TokenRequest \/ LimitedRequest \/ Tick)
    BY <2>6 DEF API, Act, APINext
  <2> QED  BY <1>1, <2>1, <2>2, <2>3, <2>4, <2>5, <2>6 DEF Next
<1> QED  BY <1>1, PTL DEF FairSpec, Init, KeySpec, APISpec, ClientSpec

\* What the run checks of the parts together, whatever the order they act in: no call is
\* forgotten by the batcher, the newest result of each fact survives, no tag is lost but
\* to a race, the inventory reaches every host, no limiter lets through more than its
\* rate, no clean exit hides a target.
THEOREM ServerDataIsSafe ==
  FairSpec => [](/\ QueueIsWatched /\ NewestIsKept
                 /\ TagWritesLostOnlyToRaces /\ InventoryReachesEveryHost
                 /\ RateHolds /\ CleanRunIsClean)
<1>1. BatcherInv => QueueIsWatched  BY DEF BatcherInv
<1>2. FactInv => NewestIsKept  BY DEF FactInv
<1>3. FairSpec => []QueueIsWatched
  BY <1>1, PartsKeepTheirSpecs, BatcherInitInv, BatcherNextInv, PTL
<1>4. FairSpec => []NewestIsKept
  BY <1>2, PartsKeepTheirSpecs, FactInitInv, FactNextInv, PTL
<1>5. FairSpec => [](/\ TagWritesLostOnlyToRaces /\ InventoryReachesEveryHost
                     /\ RateHolds /\ CleanRunIsClean)
  BY PartsKeepTheirSpecs, TagsAreAsAsked, InventoryHasEveryHost, RatesHold, CleanMeansEveryTarget, PTL
<1> QED  BY <1>3, <1>4, <1>5, PTL
=============================================================================
