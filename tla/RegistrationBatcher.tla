------------------------ MODULE RegistrationBatcher ------------------------
(***************************************************************************)
(* The window in which Register calls wait to be placed together:          *)
(* submit, timerFire and flushBatch of registration_batcher.go.  What a    *)
(* batch is assigned is MeshPlacement's; here is who wakes whom.           *)
(*                                                                         *)
(* A timer of time.AfterFunc runs, expires (its goroutine then waits for   *)
(* the batcher's lock) and calls timerFire.  Stop only prevents one that   *)
(* has not expired.  b.timer refers to one timer; the others, which an     *)
(* early flush or a late timerFire has let go of, are loose.               *)
(***************************************************************************)
EXTENDS Integers, Sequences

CONSTANTS
  Calls,      \* Register calls
  BatchCap    \* batchCap

ASSUME BatcherAssumption == BatchCap \in Nat \ {0}

VARIABLES
  call,       \* each call: "idle", "waiting" in submit, "answered"
  queue,      \* b.queue
  timer,      \* b.timer: "nil", or the timer it refers to, "running" or "expired"
  loose,      \* how many other timers are running, and how many have expired
  batches     \* the batches taken off the queue and not yet answered

batcherVars == <<call, queue, timer, loose, batches>>

BatcherInit ==
  /\ call = [r \in Calls |-> "idle"]
  /\ queue = <<>>
  /\ timer = "nil"
  /\ loose = [running |-> 0, expired |-> 0]
  /\ batches = {}

Holds(batch) == {batch[i] : i \in 1..Len(batch)}

\* An early flush takes the queue and stops the timer, which may have expired.
EarlyFlush(batch) ==
  /\ batches' = batches \cup {batch}
  /\ queue' = <<>>
  /\ timer' = "nil"
  /\ loose' = IF timer = "expired" THEN [loose EXCEPT !.expired = @ + 1] ELSE loose

\* (mutant) Nobody starts the timer.
EnqueueOnly(batch) == queue' = batch /\ UNCHANGED <<timer, loose, batches>>

\* The first of a batch starts the timer.
Enqueue(batch) ==
  /\ queue' = batch
  /\ timer' = IF timer = "nil" THEN "running" ELSE timer
  /\ UNCHANGED <<loose, batches>>

Submit(r) ==
  /\ call[r] = "idle"
  /\ call' = [call EXCEPT ![r] = "waiting"]
  /\ LET batch == Append(queue, r) IN
       IF Len(batch) >= BatchCap THEN EarlyFlush(batch) ELSE Enqueue(batch)

\* A timer runs out; its goroutine is on its way to the lock.
Expire ==
  /\ \/ /\ timer = "running"
        /\ timer' = "expired"
        /\ UNCHANGED loose
     \/ /\ loose.running > 0
        /\ loose' = [running |-> loose.running - 1, expired |-> loose.expired + 1]
        /\ UNCHANGED timer
  /\ UNCHANGED <<call, queue, batches>>

\* (mutant) b.timer is not reset to nil.
KeepsTheTimer ==
  /\ queue' = <<>>
  /\ timer' = "spent"
  /\ batches' = IF queue = <<>> THEN batches ELSE batches \cup {queue}

\* timerFire holds the lock: it takes the queue and forgets b.timer, whichever timer
\* that is.
TakeQueue ==
  /\ queue' = <<>>
  /\ timer' = "nil"
  /\ batches' = IF queue = <<>> THEN batches ELSE batches \cup {queue}

TimerFire ==
  /\ \/ /\ timer = "expired"
        /\ UNCHANGED loose
     \/ /\ loose.expired > 0
        /\ loose' = CASE timer = "running" -> [running |-> loose.running + 1, expired |-> loose.expired - 1]
                      [] timer = "expired" -> loose
                      [] OTHER             -> [loose EXCEPT !.expired = @ - 1]
  /\ TakeQueue
  /\ UNCHANGED call

\* flushBatch: every call of the batch has its assignment; resp has room for it, so no
\* answer waits for a reader.
FlushBatch(batch) ==
  /\ batch \in batches
  /\ batches' = batches \ {batch}
  /\ call' = [r \in Calls |-> IF r \in Holds(batch) THEN "answered" ELSE call[r]]
  /\ UNCHANGED <<queue, timer, loose>>

BatcherNext ==
  \/ \E r \in Calls : Submit(r)
  \/ Expire
  \/ TimerFire
  \/ \E batch \in batches : FlushBatch(batch)

\* Timers run out, and goroutines that can run do.
BatcherFairness == WF_batcherVars(Expire) /\ WF_batcherVars(TimerFire)
                   /\ WF_batcherVars(\E batch \in batches : FlushBatch(batch))

BatcherSpec == BatcherInit /\ [][BatcherNext]_batcherVars /\ BatcherFairness

-----------------------------------------------------------------------------
(***************************************************************************)
(* Properties.                                                             *)
(***************************************************************************)

\* A queue that is not empty has a timer that will come for it (submit arms one only
\* when b.timer is nil), and every call that waits is held in exactly one place: the
\* queue or one batch.  An early flush, a late timerFire and a submit may come in any
\* order.
QueueIsWatched ==
  /\ queue # <<>> => timer # "nil"
  /\ \A r \in Calls : call[r] = "waiting" =>
       \/ r \in Holds(queue) /\ \A batch \in batches : r \notin Holds(batch)
       \/ r \notin Holds(queue)
          /\ \E batch \in batches : r \in Holds(batch)
                                    /\ \A other \in batches \ {batch} : r \notin Holds(other)

\* Every Register call that waits in submit is answered.
AllAnswered == \A r \in Calls : []<>(call[r] # "waiting")
=============================================================================
