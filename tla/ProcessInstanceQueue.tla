------------------------ MODULE ProcessInstanceQueue ------------------------
(***************************************************************************)
(* The process_instance_queue table used as a lock per process instance:   *)
(* ProcessInstanceQueueService (dequeued, _dequeue, _dequeue_with_retries, *)
(* _enqueue), ProcessInstanceLockService (thread-local lock context,       *)
(* remove_stale_locks) and the status writes ErrorHandlingService makes    *)
(* around them.                                                            *)
(*                                                                         *)
(* A worker is one value of ProcessInstanceLockService.locked_by(): a web  *)
(* thread, a scheduler job or a celery child process.  It runs jobs; a job *)
(* enters and leaves `with dequeued(instance)` blocks, nested at will.     *)
(* The steps are the database commits and the reads between them.          *)
(***************************************************************************)
EXTENDS Integers, Sequences, FiniteSets

CONSTANTS
    Workers,          \* lock identities (domain:uuid:thread_id:index)
    Instances,        \* process instances, each with its queue row
    NoWorker,         \* locked_by IS NULL
    NoInstance,
    MaxAttempts,      \* the max_attempts values callers pass to dequeued
    LockDuration,     \* MAX_INSTANCE_LOCK_DURATION_IN_SECONDS, in ticks
    JobLimit,         \* how long a job may run (celery time_limit), in ticks
    MaxDepth,         \* bound on nested dequeued blocks in one job
    Crashes,          \* can a worker be killed in the middle of a job?
    IdentityReuse,    \* does a killed worker's successor get its locked_by?
    SaveStatuses,     \* statuses a job body may save
    FaultStatuses     \* what handle_error sets: error, or suspended

ASSUME QueueConstants ==
    /\ NoWorker \notin Workers /\ NoInstance \notin Instances
    /\ MaxAttempts \subseteq Nat \ {0}
    /\ LockDuration \in Nat \ {0} /\ JobLimit \in Nat /\ MaxDepth \in Nat \ {0}
    /\ Crashes \in BOOLEAN /\ IdentityReuse \in BOOLEAN

VARIABLES
    row,      \* process_instance_queue: locked_by, time since locked_at, status
    status,   \* process_instance.status
    locks,    \* thread-local ctx["locks"] of each worker
    frames,   \* each job's open dequeued blocks, innermost first
    pc,       \* where each worker is
    want,     \* the instance a worker is dequeueing, and the attempts made
    exc,      \* the exception travelling through a worker's blocks
    elapsed,  \* how long each worker's job has run
    sweep     \* remove_stale_locks: the entry in hand, the entries to come

vars == <<row, status, locks, frames, pc, want, exc, elapsed, sweep>>
workerVars == <<locks, frames, pc, want, exc, elapsed>>

Statuses == {"not_started"} \cup SaveStatuses \cup FaultStatuses

Row   == [locked_by : Workers \cup {NoWorker}, age : 0..LockDuration, status : Statuses]
Frame == [inst : Instances, reentering : BOOLEAN]
Want  == [inst : Instances \cup {NoInstance}, attempt : Nat, max : Nat]

PCs  == {"idle", "body", "update", "check", "sleep", "unwind", "enqueue", "rejected", "dead"}
Dequeueing == {"update", "check", "sleep", "rejected"}
Excs == {"none", "cannot_be_run", "error"}

NoWant == [inst |-> NoInstance, attempt |-> 0, max |-> 0]
Unlocked(r) == [r EXCEPT !.locked_by = NoWorker, !.age = 0]

TypeOK ==
    /\ row \in [Instances -> Row]
    /\ status \in [Instances -> Statuses]
    /\ locks \in [Workers -> SUBSET Instances]
    /\ frames \in [Workers -> Seq(Frame)]
    /\ pc \in [Workers -> PCs]
    /\ want \in [Workers -> Want]
    /\ \A w \in Workers : pc[w] \in Dequeueing => want[w].inst \in Instances
    /\ exc \in [Workers -> Excs]
    /\ elapsed \in [Workers -> 0..JobLimit]
    /\ sweep \in [entry : Instances \cup {NoInstance}, todo : SUBSET Instances]

(* enqueue_new_process_instance: the row is created with its instance. *)
Init ==
    /\ row = [i \in Instances |-> [locked_by |-> NoWorker, age |-> 0, status |-> "not_started"]]
    /\ status = [i \in Instances |-> "not_started"]
    /\ locks = [w \in Workers |-> {}]
    /\ frames = [w \in Workers |-> <<>>]
    /\ pc = [w \in Workers |-> "idle"]
    /\ want = [w \in Workers |-> NoWant]
    /\ exc = [w \in Workers |-> "none"]
    /\ elapsed = [w \in Workers |-> 0]
    /\ sweep = [entry |-> NoInstance, todo |-> {}]

-----------------------------------------------------------------------------
(* Jobs *)

(* set_thread_local_locking_context: a job starts with no locks recorded. *)
StartJob(w) ==
    /\ pc[w] = "idle"
    /\ pc' = [pc EXCEPT ![w] = "body"]
    /\ locks' = [locks EXCEPT ![w] = {}]
    /\ elapsed' = [elapsed EXCEPT ![w] = 0]
    /\ UNCHANGED <<row, status, frames, want, exc, sweep>>

(* The job returns, or its exception reaches whoever started it. *)
EndJob(w) ==
    /\ frames[w] = <<>>
    /\ pc[w] \in {"body", "unwind", "rejected"}
    /\ pc' = [pc EXCEPT ![w] = "idle"]
    /\ want' = [want EXCEPT ![w] = NoWant]
    /\ exc' = [exc EXCEPT ![w] = "none"]
    /\ UNCHANGED <<row, status, locks, frames, elapsed, sweep>>

(* The engine runs inside a dequeued block and runtime.save() commits a    *)
(* status; _run_and_save asserts only that the thread recorded the lock.   *)
RunAndSave(w) ==
    /\ pc[w] = "body" /\ frames[w] # <<>>
    /\ Head(frames[w]).inst \in locks[w]
    /\ \E s \in SaveStatuses : status' = [status EXCEPT ![Head(frames[w]).inst] = s]
    /\ UNCHANGED <<row, workerVars, sweep>>

-----------------------------------------------------------------------------
(* with ProcessInstanceQueueService.dequeued(i, max_attempts=max): *)

(* Faulty variant: the re-entered block believes it took the lock itself.  *)
ReenterAsOwner(w, i) ==
    /\ pc[w] = "body" /\ Len(frames[w]) < MaxDepth
    /\ i \in locks[w]
    /\ frames' = [frames EXCEPT ![w] = <<[inst |-> i, reentering |-> FALSE]>> \o @]
    /\ UNCHANGED <<row, status, locks, pc, want, exc, elapsed, sweep>>

(* A thread that already recorded the lock re-enters without the database. *)
Reenter(w, i) ==
    /\ pc[w] = "body" /\ Len(frames[w]) < MaxDepth
    /\ i \in locks[w]
    /\ frames' = [frames EXCEPT ![w] = <<[inst |-> i, reentering |-> TRUE]>> \o @]
    /\ UNCHANGED <<row, status, locks, pc, want, exc, elapsed, sweep>>

BeginDequeue(w, i, max) ==
    /\ pc[w] = "body" /\ Len(frames[w]) < MaxDepth
    /\ i \notin locks[w]
    /\ pc' = [pc EXCEPT ![w] = "update"]
    /\ want' = [want EXCEPT ![w] = [inst |-> i, attempt |-> 1, max |-> max]]
    /\ UNCHANGED <<row, status, locks, frames, exc, elapsed, sweep>>

(* Faulty variant: the UPDATE without its locked_by IS NULL filter. *)
DequeueUpdateUnfiltered(w) ==
    /\ pc[w] = "update"
    /\ row' = [row EXCEPT ![want[w].inst].locked_by = w, ![want[w].inst].age = 0]
    /\ pc' = [pc EXCEPT ![w] = "check"]
    /\ UNCHANGED <<status, locks, frames, want, exc, elapsed, sweep>>

(* UPDATE ... SET locked_by = me WHERE locked_by IS NULL; commit. *)
DequeueUpdate(w) ==
    LET i == want[w].inst IN
    /\ pc[w] = "update"
    /\ row' = IF row[i].locked_by = NoWorker
                THEN [row EXCEPT ![i].locked_by = w, ![i].age = 0]
                ELSE row
    /\ pc' = [pc EXCEPT ![w] = "check"]
    /\ UNCHANGED <<status, locks, frames, want, exc, elapsed, sweep>>

(* Faulty variant: any non-NULL locked_by read back counts as success. *)
DequeueAcquireUnchecked(w) ==
    LET i == want[w].inst IN
    /\ pc[w] = "check"
    /\ row[i].locked_by # NoWorker
    /\ locks' = [locks EXCEPT ![w] = @ \cup {i}]
    /\ frames' = [frames EXCEPT ![w] = <<[inst |-> i, reentering |-> FALSE]>> \o @]
    /\ want' = [want EXCEPT ![w] = NoWant]
    /\ pc' = [pc EXCEPT ![w] = "body"]
    /\ UNCHANGED <<row, status, exc, elapsed, sweep>>

(* The row is read back: the lock is ours iff it carries our identity. *)
DequeueAcquire(w) ==
    LET i == want[w].inst IN
    /\ pc[w] = "check"
    /\ row[i].locked_by = w
    /\ locks' = [locks EXCEPT ![w] = @ \cup {i}]
    /\ frames' = [frames EXCEPT ![w] = <<[inst |-> i, reentering |-> FALSE]>> \o @]
    /\ want' = [want EXCEPT ![w] = NoWant]
    /\ pc' = [pc EXCEPT ![w] = "body"]
    /\ UNCHANGED <<row, status, exc, elapsed, sweep>>

(* Faulty variant: the retry loop never counts its attempts. *)
DequeueRetryUncounted(w) ==
    /\ pc[w] = "check"
    /\ row[want[w].inst].locked_by # w
    /\ want[w].attempt < want[w].max
    /\ pc' = [pc EXCEPT ![w] = "sleep"]
    /\ UNCHANGED <<row, status, locks, frames, want, exc, elapsed, sweep>>

DequeueRetry(w) ==
    /\ pc[w] = "check"
    /\ row[want[w].inst].locked_by # w
    /\ want[w].attempt < want[w].max
    /\ want' = [want EXCEPT ![w].attempt = @ + 1]
    /\ pc' = [pc EXCEPT ![w] = "sleep"]
    /\ UNCHANGED <<row, status, locks, frames, exc, elapsed, sweep>>

WakeUp(w) ==
    /\ pc[w] = "sleep"
    /\ pc' = [pc EXCEPT ![w] = "update"]
    /\ UNCHANGED <<row, status, locks, frames, want, exc, elapsed, sweep>>

(* Faulty variant: the error no longer says which instance was locked. *)
DequeueGiveUpNameless(w) ==
    /\ pc[w] = "check"
    /\ row[want[w].inst].locked_by # w
    /\ want[w].attempt >= want[w].max
    /\ pc' = [pc EXCEPT ![w] = IF frames[w] = <<>> THEN "rejected" ELSE "body"]
    /\ want' = [want EXCEPT ![w] = NoWant]
    /\ UNCHANGED <<row, status, locks, frames, exc, elapsed, sweep>>

(* ProcessInstanceIsAlreadyLockedError.  A job that tries a second          *)
(* instance (message delivery) goes on to the next candidate; otherwise    *)
(* the exception leaves the outermost dequeued.                             *)
DequeueGiveUp(w) ==
    /\ pc[w] = "check"
    /\ row[want[w].inst].locked_by # w
    /\ want[w].attempt >= want[w].max
    /\ pc' = [pc EXCEPT ![w] = IF frames[w] = <<>> THEN "rejected" ELSE "body"]
    /\ want' = [want EXCEPT ![w] = IF frames[w] = <<>> THEN @ ELSE NoWant]
    /\ UNCHANGED <<row, status, locks, frames, exc, elapsed, sweep>>

(* terminate, suspend and resume answer AlreadyLocked with handle_error:   *)
(* the status of an instance somebody else is running is overwritten.      *)
HandleRejected(w) ==
    /\ pc[w] = "rejected"
    /\ \E s \in FaultStatuses : status' = [status EXCEPT ![want[w].inst] = s]
    /\ pc' = [pc EXCEPT ![w] = "unwind"]
    /\ want' = [want EXCEPT ![w] = NoWant]
    /\ UNCHANGED <<row, locks, frames, exc, elapsed, sweep>>

-----------------------------------------------------------------------------
(* Leaving a dequeued block *)

Pop(w) == frames' = [frames EXCEPT ![w] = Tail(@)]

Raise(w, kind) ==
    /\ pc[w] = "body" /\ frames[w] # <<>>
    /\ exc' = [exc EXCEPT ![w] = kind]
    /\ pc' = [pc EXCEPT ![w] = "unwind"]
    /\ UNCHANGED <<row, status, locks, frames, want, elapsed, sweep>>

(* A re-entered block neither handles the error nor releases. *)
LeaveReentered(w) ==
    /\ pc[w] \in {"body", "unwind"} /\ frames[w] # <<>>
    /\ Head(frames[w]).reentering
    /\ Pop(w)
    /\ UNCHANGED <<row, status, locks, pc, want, exc, elapsed, sweep>>

LeaveNormally(w) ==
    /\ pc[w] = "body" /\ frames[w] # <<>>
    /\ ~Head(frames[w]).reentering
    /\ pc' = [pc EXCEPT ![w] = "enqueue"]
    /\ UNCHANGED <<row, status, locks, frames, want, exc, elapsed, sweep>>

(* ErrorHandlingService.handle_error, before the lock is given back.       *)
(* ProcessInstanceCannotBeRunError is not an error of the instance.        *)
LeaveByException(w) ==
    /\ pc[w] = "unwind" /\ frames[w] # <<>>
    /\ ~Head(frames[w]).reentering
    /\ IF exc[w] = "error"
         THEN \E s \in FaultStatuses : status' = [status EXCEPT ![Head(frames[w]).inst] = s]
         ELSE UNCHANGED status
    /\ pc' = [pc EXCEPT ![w] = "enqueue"]
    /\ UNCHANGED <<row, locks, frames, want, exc, elapsed, sweep>>

(* Faulty variant: the row keeps the status it had when it was dequeued. *)
EnqueueKeepsStatus(w) ==
    LET i == Head(frames[w]).inst IN
    /\ pc[w] = "enqueue" /\ frames[w] # <<>>
    /\ i \in locks[w]
    /\ locks' = [locks EXCEPT ![w] = @ \ {i}]
    /\ row' = [row EXCEPT ![i] = Unlocked(@)]
    /\ Pop(w)
    /\ pc' = [pc EXCEPT ![w] = IF exc[w] = "none" THEN "body" ELSE "unwind"]
    /\ UNCHANGED <<status, want, exc, elapsed, sweep>>

(* _enqueue: drop the thread-local record, then write the row, whoever     *)
(* holds it by now.  Time until run_at is unaffected: run_at := max(now).  *)
Enqueue(w) ==
    LET i == Head(frames[w]).inst IN
    /\ pc[w] = "enqueue" /\ frames[w] # <<>>
    /\ i \in locks[w]
    /\ locks' = [locks EXCEPT ![w] = @ \ {i}]
    /\ row' = [row EXCEPT ![i] = [Unlocked(row[i]) EXCEPT !.status = status[i]]]
    /\ Pop(w)
    /\ pc' = [pc EXCEPT ![w] = IF exc[w] = "none" THEN "body" ELSE "unwind"]
    /\ UNCHANGED <<status, want, exc, elapsed, sweep>>

-----------------------------------------------------------------------------
(* The environment: time, kills, and the stale lock sweep *)

Busy(w) == pc[w] \notin {"idle", "dead"}

(* One tick passes.  JobLimit is a promise of the environment: a job that  *)
(* has run that long ends, or is killed, before the next tick.             *)
Tick ==
    /\ \A w \in Workers : Busy(w) => elapsed[w] < JobLimit
    /\ elapsed' = [w \in Workers |-> IF Busy(w) THEN elapsed[w] + 1 ELSE elapsed[w]]
    /\ row' = [i \in Instances |->
                 IF row[i].locked_by # NoWorker /\ row[i].age < LockDuration
                   THEN [row[i] EXCEPT !.age = @ + 1] ELSE row[i]]
    /\ UNCHANGED <<status, locks, frames, pc, want, exc, sweep>>

(* The process is killed: its thread-locals go, the rows it locked stay.   *)
Crash(w) ==
    /\ Crashes /\ Busy(w)
    /\ pc' = [pc EXCEPT ![w] = "dead"]
    /\ locks' = [locks EXCEPT ![w] = {}]
    /\ frames' = [frames EXCEPT ![w] = <<>>]
    /\ want' = [want EXCEPT ![w] = NoWant]
    /\ exc' = [exc EXCEPT ![w] = "none"]
    /\ elapsed' = [elapsed EXCEPT ![w] = 0]
    /\ UNCHANGED <<row, status, sweep>>

(* Its successor in the pool forked from the same parent has the same      *)
(* uuid, thread id and billiard index, hence the same locked_by.           *)
Restart(w) ==
    /\ IdentityReuse /\ pc[w] = "dead"
    /\ pc' = [pc EXCEPT ![w] = "idle"]
    /\ UNCHANGED <<row, status, locks, frames, want, exc, elapsed, sweep>>

(* Faulty variant: a lock counts as stale one tick early. *)
StaleTooSoon(i) == row[i].locked_by # NoWorker /\ row[i].age >= LockDuration - 1

(* locked_at <= now - MAX_INSTANCE_LOCK_DURATION_IN_SECONDS. *)
Stale(i) == row[i].locked_by # NoWorker /\ row[i].age >= LockDuration

(* remove_stale_locks: all stale rows are read, the first is in hand.      *)
SweepScan ==
    /\ sweep.entry = NoInstance /\ sweep.todo = {}
    /\ \E i \in Instances :
         /\ Stale(i)
         /\ sweep' = [entry |-> i, todo |-> {j \in Instances : Stale(j)} \ {i}]
    /\ UNCHANGED <<row, status, workerVars>>

(* Faulty variant: locked_at is reset and locked_by is forgotten. *)
SweepClearHalf ==
    /\ sweep.entry # NoInstance
    /\ row' = [row EXCEPT ![sweep.entry].age = 0]
    /\ sweep' = [sweep EXCEPT !.entry = NoInstance]
    /\ UNCHANGED <<status, workerVars>>

(* The write by primary key: locked_by := NULL, whatever it is by now.     *)
SweepClear ==
    /\ sweep.entry # NoInstance
    /\ row' = [row EXCEPT ![sweep.entry] = Unlocked(@)]
    /\ sweep' = [sweep EXCEPT !.entry = NoInstance]
    /\ UNCHANGED <<status, workerVars>>

(* The commit expired the loaded rows: the next one is read again, and     *)
(* left alone only if nobody at all holds it.                              *)
SweepNext(i) ==
    /\ sweep.entry = NoInstance
    /\ i \in sweep.todo
    /\ sweep' = [entry |-> IF row[i].locked_by = NoWorker THEN NoInstance ELSE i,
                 todo  |-> sweep.todo \ {i}]
    /\ UNCHANGED <<row, status, workerVars>>

-----------------------------------------------------------------------------
WorkerStep(w) ==
    \/ StartJob(w) \/ EndJob(w) \/ RunAndSave(w)
    \/ \E i \in Instances : Reenter(w, i)
    \/ \E i \in Instances, m \in MaxAttempts : BeginDequeue(w, i, m)
    \/ DequeueUpdate(w) \/ DequeueAcquire(w) \/ DequeueRetry(w)
    \/ WakeUp(w) \/ DequeueGiveUp(w) \/ HandleRejected(w)
    \/ \E k \in Excs \ {"none"} : Raise(w, k)
    \/ LeaveReentered(w) \/ LeaveNormally(w) \/ LeaveByException(w) \/ Enqueue(w)
    \/ Crash(w) \/ Restart(w)

SweepStep == SweepScan \/ SweepClear \/ \E i \in Instances : SweepNext(i)

Next == (\E w \in Workers : WorkerStep(w)) \/ SweepStep \/ Tick

Spec == Init /\ [][Next]_vars

(* Fairness for what the program does by itself: the engine leaves its     *)
(* blocks, retries wake up, the scheduler runs its sweep, time passes, and *)
(* a job does not open new blocks for ever (it has a time limit).          *)
(* StartJob, nested blocks, exceptions and kills are nobody's duty.        *)
Finish(w) ==
    \/ EndJob(w) \/ DequeueUpdate(w) \/ DequeueAcquire(w) \/ DequeueRetry(w)
    \/ WakeUp(w) \/ DequeueGiveUp(w) \/ HandleRejected(w)
    \/ LeaveReentered(w) \/ LeaveNormally(w) \/ LeaveByException(w) \/ Enqueue(w)

Fairness ==
    /\ \A w \in Workers : WF_vars(Finish(w)) /\ SF_vars(EndJob(w))
    /\ WF_vars(SweepStep)
    /\ SF_vars(Tick)

FairSpec == Spec /\ Fairness

-----------------------------------------------------------------------------
(* Properties *)

(* The timing under which the sweep only ever meets dead workers' locks:   *)
(* every job ends before MAX_INSTANCE_LOCK_DURATION_IN_SECONDS, and no     *)
(* worker comes back under the identity of a killed one.                   *)
PromptJobs == JobLimit < LockDuration /\ ~IdentityReuse

(* What the thread-local context records is what the table says: a thread  *)
(* inside `dequeued` owns the row it is working under (PromptJobs).        *)
LockAgreement ==
    \A w \in Workers : \A i \in locks[w] : row[i].locked_by = w

(* Two threads are never inside dequeued blocks of one instance, which is  *)
(* what keeps two runtimes from saving over each other.                    *)
MutualExclusion ==
    \A v, w \in Workers : v # w => locks[v] \cap locks[w] = {}

(* _enqueue never raises ExpectedLockNotFoundError, and a thread that has  *)
(* left its last block leaves no record behind that would let its next     *)
(* request slip in as a re-entry.  Holds however late, killed or swept.    *)
ReleaseFindsLock ==
    \A w \in Workers :
        /\ pc[w] = "enqueue" => frames[w] # <<>> /\ Head(frames[w]).inst \in locks[w]
        /\ frames[w] = <<>> => locks[w] = {}

(* An instance that could be run and is not locked is filed in the queue   *)
(* under its own status, so the pollers (entries_with_status) can see it:  *)
(* every save and handle_error reaches the row when the lock is given back.*)
StatusPublished ==
    \A i \in Instances :
        row[i].locked_by = NoWorker /\ status[i] \notin FaultStatuses
            => row[i].status = status[i]

(* A lock leaves its owner only by the owner's own _enqueue, or after the  *)
(* owner was killed: neither the sweep nor another thread's unconditional  *)
(* _enqueue takes it away.                                                 *)
OnlyOwnerReleases ==
    [][\A i \in Instances : \A w \in Workers :
         row[i].locked_by = w /\ row'[i].locked_by # w
            => pc[w] = "dead" \/ i \in locks[w] \ locks'[w]]_vars

(* The queue implements the lock of InstanceLock. *)
Lock == INSTANCE InstanceLock
          WITH holders <- [i \in Instances |-> {w \in Workers : i \in locks[w]}]

(* Refinement of the abstract per-instance lock by dequeued/_enqueue. *)
RefinesInstanceLock == Lock!Spec

(* A row locked by a killed worker does not stay locked by it forever:     *)
(* remove_stale_locks (or the worker's successor) gives it back.           *)
CrashedLockRecovered ==
    \A w \in Workers, i \in Instances :
        (row[i].locked_by = w /\ pc[w] = "dead") ~> row[i].locked_by # w

(* Every dequeued() returns or raises: attempts are bounded, so jobs that  *)
(* try each other's instances while holding their own do not wait forever. *)
DequeueEnds ==
    \A w \in Workers : (pc[w] = "update") ~> (pc[w] \in {"body", "rejected", "dead"})
=============================================================================
