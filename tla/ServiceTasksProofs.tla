------------------------- MODULE ServiceTasksProofs -------------------------
(***************************************************************************)
(* What ServiceTasks guarantees for any number of retries, any backoff and *)
(* any polling interval.  The invariant counts the calls of the connector  *)
(* against the attempts the task remembers (CallInv) and says what the     *)
(* flags of the future_task row tell of the instance (RowInv).             *)
(* And about Runner, for any tasks: its sessions go on from what they      *)
(* showed, and its unit tests replay what was recorded.                    *)
(***************************************************************************)
EXTENDS ServiceTasks, Runner, SequenceTheorems, WellFoundedInduction, TLAPS

Ended == {"COMPLETED", "ERROR", "CANCELLED"}

(* The attempts are the calls but one until the task has ended, and the    *)
(* task is never READY again between two steps: a due retry is called as   *)
(* soon as it is consumed.                                                 *)
CallInv ==
    /\ CallsBounded
    /\ task.state = "READY" => calls = 0 /\ task.tries = 0 /\ task.at = None
    /\ task.state = "STARTED" => calls = task.tries + 1
    /\ task.state = "STARTED" /\ task.at # None => task.tries < Retries
    /\ svcLock.pc = "call" => task.state = "STARTED" /\ task.at = None

(* A row is queued only while it is due within the interval, completed     *)
(* only when the task has ended, archived only while the instance may not  *)
(* run; and the lock is held only while it may.                            *)
RowInv ==
    /\ future.queued => future.left < Interval
    /\ future.completed => task.state \in Ended
    /\ future.archived => ~allowed_to_run(svcStatus) \/ task.state \in Ended
    /\ svcLock # Free => allowed_to_run(svcStatus)

IInv == ServiceTasksTypeOK /\ CallInv /\ RowInv /\ RetryNotForgotten /\ RetriesAreTransient

-----------------------------------------------------------------------------
(* The operators *)

(* An answer's status codes are numbers; the one an error is reported with *)
(* is a number too.                                                        *)
LEMMA Answers ==
    /\ \A r \in call_connector : error_status_code(r) \in Nat
    /\ \A u \in Upstream : error_status_code(async_http_on_post(u)) \in Nat
  <1>1. \A u \in Upstream : error_status_code(async_http_on_post(u)) \in Nat
    BY ServiceTaskConstants DEF error_status_code, async_http_on_post
  <1>2. \A u \in Upstream : error_status_code(http_connector_do(u)) \in Nat
    BY ServiceTaskConstants DEF error_status_code, http_connector_do
  <1>. QED
    BY <1>1, <1>2 DEF call_connector, error_status_code

(* The records the actions write have the types of the variables.          *)
LEMMA ConstantRecords ==
    /\ Plain \in Jobs /\ Free \in Locks /\ NoRow \in Rows
    /\ Free.pc = "free" /\ ~NoRow.queued /\ ~NoRow.completed /\ ~NoRow.archived
  BY DEF Plain, Jobs, Free, Locks, NoRow, Rows

(* How far a worker is with its lock.                                      *)
LEMMA LockMoves ==
    ASSUME NEW l \in Locks, NEW q \in {"free", "steps", "call", "save", "request"}
    PROVE  /\ [l EXCEPT !.pc = q] \in Locks /\ [l EXCEPT !.pc = q].pc = q
           /\ [l EXCEPT !.pc = q, !.pass = 2] \in Locks /\ [l EXCEPT !.pc = q, !.pass = 2].pc = q
           /\ [l EXCEPT !.pass = 2] \in Locks /\ [l EXCEPT !.pass = 2].pc = l.pc
  <1>1. PICK two \in 1 .. 2 : two = 2
    OBVIOUS
  <1>2. [l EXCEPT !.pc = q] \in Locks /\ [l EXCEPT !.pc = q].pc = q
    BY Zenon DEF Locks
  <1>3. /\ [l EXCEPT !.pc = q, !.pass = two] \in Locks
        /\ [l EXCEPT !.pc = q, !.pass = two].pc = q
    BY Zenon DEF Locks
  <1>4. [l EXCEPT !.pass = two] \in Locks /\ [l EXCEPT !.pass = two].pc = l.pc
    BY Zenon DEF Locks
  <1>. QED
    BY <1>1, <1>2, <1>3, <1>4, Zenon

(* A pass that ends goes on to the next one, or to the save.               *)
LEMMA OnwardKeeps ==
    ASSUME svcLock \in Locks, Onward
    PROVE  svcLock' \in Locks /\ svcLock'.pc \in {"steps", "save"} /\ svcLock' # Free
  <1>1. svcLock' \in Locks /\ svcLock'.pc \in {"steps", "save"}
    BY LockMoves, Zenon DEF Onward
  <1>. QED
    BY <1>1, ConstantRecords

(* An ended task.                                                          *)
LEMMA EndedTask ==
    ASSUME NEW t \in Tasks, NEW s \in Ended
    PROVE  /\ [t EXCEPT !.state = s] \in Tasks /\ [t EXCEPT !.state = s].state = s
           /\ clear_retry_state([t EXCEPT !.state = s]) \in Tasks
           /\ clear_retry_state([t EXCEPT !.state = s]).state = s
  <1>1. [t EXCEPT !.state = s] \in Tasks /\ [t EXCEPT !.state = s].state = s
    BY DEF Tasks, Ended
  <1>2. 0 \in 0 .. Retries
    BY ServiceTaskConstants
  <1>3. \A x \in Tasks : clear_retry_state(x) \in Tasks /\ clear_retry_state(x).state = x.state
    BY <1>2 DEF Tasks, clear_retry_state
  <1>. QED
    BY <1>1, <1>3, Zenon

(* Time brings the retry, the row and the jobs nearer and changes nothing  *)
(* else about them.                                                        *)
LEMMA TickEffect ==
    ASSUME ServiceTasksTypeOK, Tick
    PROVE  /\ task' \in Tasks /\ task'.state = task.state /\ task'.tries = task.tries
           /\ task'.at = None <=> task.at = None
           /\ future' \in Rows /\ future'.left <= future.left
           /\ future'.row = future.row /\ future'.queued = future.queued
           /\ future'.completed = future.completed /\ future'.archived = future.archived
           /\ svcJobs' \subseteq Jobs /\ (svcJobs # {} => svcJobs' # {})
  <1>. DEFINE Down(n) == IF n \in {0, None} THEN n ELSE n - 1
  <1>1. \A n \in Nat \cup {None} : Down(n) \in Nat \cup {None} /\ (Down(n) = None <=> n = None)
    BY DEF None
  <1>2. \A n \in Nat : Down(n) \in Nat /\ Down(n) <= n
    BY DEF None
  <1>3. /\ task' = [task EXCEPT !.at = Down(task.at)]
        /\ future' = [future EXCEPT !.left = Down(future.left)]
        /\ svcJobs' = {[j EXCEPT !.left = Down(j.left)] : j \in svcJobs}
    BY DEF Tick
  <1>. HIDE DEF Down
  <1>4. /\ task' \in Tasks /\ task'.state = task.state /\ task'.tries = task.tries
        /\ task'.at = None <=> task.at = None
    BY <1>1, <1>3 DEF ServiceTasksTypeOK, Tasks
  <1>5. PICK n \in Nat : n = Down(future.left) /\ n <= future.left
    BY <1>2 DEF ServiceTasksTypeOK, Rows
  <1>6. /\ future' \in Rows /\ future'.left = n
        /\ future'.row = future.row /\ future'.queued = future.queued
        /\ future'.completed = future.completed /\ future'.archived = future.archived
    BY <1>3, <1>5, Zenon DEF ServiceTasksTypeOK, Rows
  <1>7. \A j \in Jobs, k \in Nat : [j EXCEPT !.left = k] \in Jobs
    BY DEF Jobs
  <1>8. \A j \in svcJobs : j \in Jobs /\ Down(j.left) \in Nat
    BY <1>2 DEF ServiceTasksTypeOK, Jobs
  <1>9. svcJobs' \subseteq Jobs /\ (svcJobs # {} => svcJobs' # {})
    BY <1>3, <1>7, <1>8
  <1>. QED
    BY <1>4, <1>5, <1>6, <1>9, Zenon

(* A retry is scheduled only for a failure that may pass and while there   *)
(* are attempts left, at a time of its own.                                *)
LEMMA Scheduled ==
    ASSUME NEW t \in Tasks, NEW code, should_retry(t, code)
    PROVE  /\ schedule_retry(t) \in Tasks
           /\ schedule_retry(t).state = "STARTED" /\ schedule_retry(t).tries = t.tries
           /\ schedule_retry(t).at \in Nat /\ schedule_retry(t).at # None
           /\ t.tries < Retries /\ (code >= 500 \/ code = 429)
  <1>1. t.tries < Retries /\ (code >= 500 \/ code = 429)
    BY DEF should_retry, is_transient_error
  <1>2. t.tries + 1 \in 1 .. Retries
    BY <1>1, ServiceTaskConstants DEF Tasks
  <1>3. PICK n \in Nat : n = Backoff ^ (t.tries + 1)
    BY <1>2, ServiceTaskConstants
  <1>4. schedule_retry(t) = [t EXCEPT !.state = "STARTED", !.at = n]
    BY <1>3 DEF schedule_retry
  <1>5. n # None
    BY DEF None
  <1>6. /\ schedule_retry(t) \in Tasks /\ schedule_retry(t).state = "STARTED"
        /\ schedule_retry(t).tries = t.tries /\ schedule_retry(t).at = n
    BY <1>4 DEF Tasks
  <1>. QED
    BY <1>1, <1>3, <1>5, <1>6, Zenon

(* queue_future_task adds one job.                                         *)
LEMMA Published ==
    ASSUME NEW jobs \in SUBSET Jobs, NEW left \in Nat
    PROVE  queue_future_task(jobs, left) \subseteq Jobs /\ queue_future_task(jobs, left) # {}
  <1>1. left + Buffer \in Nat
    BY DEF Buffer
  <1>2. PICK j \in Jobs : j = [left |-> left + Buffer, guid |-> TRUE]
    BY <1>1, Zenon DEF Jobs
  <1>. QED
    BY <1>2, Zenon DEF queue_future_task

(* Archiving or completing a row leaves its time and its other flags.      *)
LEMMA RowFlags ==
    ASSUME NEW f \in Rows, NEW b \in BOOLEAN
    PROVE  /\ [f EXCEPT !.archived = b] \in Rows /\ [f EXCEPT !.completed = b] \in Rows
           /\ [f EXCEPT !.completed = b].queued = f.queued
           /\ [f EXCEPT !.completed = b].left = f.left
           /\ [f EXCEPT !.completed = b].archived = f.archived
  BY Zenon DEF Rows

(* What a pass does: it calls a task that is ready or whose retry is due,  *)
(* or it leaves the task alone.                                            *)
Calls ==
    /\ task' \in Tasks /\ task'.state = "STARTED" /\ task'.at = None
    /\ calls' = calls + 1 /\ calls' = task'.tries + 1 /\ calls' <= Retries + 1
    /\ task.state \notin Ended
    /\ svcLock' \in Locks /\ svcLock'.pc = "call"
Passes ==
    /\ task' = task /\ calls' = calls
    /\ svcLock' \in Locks /\ svcLock'.pc \in {"steps", "save"}

(* Execute is one or the other.                                            *)
LEMMA ExecuteEffect ==
    ASSUME ServiceTasksTypeOK, CallInv, Execute
    PROVE  Calls \/ Passes
  <1>1. PICK t : t = refresh_due_service_task_retries(task)
    OBVIOUS
  <1>2. /\ svcLock.pc = "steps"
        /\ t.state = "READY" => /\ task' = [t EXCEPT !.state = "STARTED"] /\ calls' = calls + 1
                               /\ svcLock' = [svcLock EXCEPT !.pc = "call"]
        /\ t.state # "READY" => /\ task' = t /\ calls' = calls
                               /\ svcLock' \in {[svcLock EXCEPT !.pass = 2], [svcLock EXCEPT !.pc = "save"]}
    BY <1>1, Zenon DEF Execute
  <1>3. /\ [svcLock EXCEPT !.pc = "call"] \in Locks /\ [svcLock EXCEPT !.pc = "call"].pc = "call"
        /\ [svcLock EXCEPT !.pass = 2] \in Locks /\ [svcLock EXCEPT !.pass = 2].pc = "steps"
        /\ [svcLock EXCEPT !.pc = "save"] \in Locks /\ [svcLock EXCEPT !.pc = "save"].pc = "save"
    BY <1>2, LockMoves DEF ServiceTasksTypeOK
  <1>4. CASE task.state = "STARTED" /\ task.at = 0
    <2>1. task.tries + 1 \in 0 .. Retries /\ calls = task.tries + 1
      BY <1>4, ServiceTaskConstants DEF CallInv, ServiceTasksTypeOK, Tasks, None
    <2>2. t = [task EXCEPT !.state = "READY", !.at = None, !.tries = task.tries + 1]
      BY <1>1, <1>4 DEF refresh_due_service_task_retries, consume_scheduled_retry
    <2>3. /\ t \in Tasks /\ t.state = "READY" /\ t.at = None /\ t.tries = task.tries + 1
      BY <2>1, <2>2 DEF ServiceTasksTypeOK, Tasks, None
    <2>4. /\ task' \in Tasks /\ task'.state = "STARTED" /\ task'.at = None
          /\ task'.tries = task.tries + 1
      BY <1>2, <2>3 DEF Tasks
    <2>5. calls' = calls + 1 /\ calls' = task'.tries + 1 /\ calls' <= Retries + 1
      BY <1>2, <2>1, <2>3, <2>4, ServiceTaskConstants DEF ServiceTasksTypeOK, Tasks
    <2>6. task.state \notin Ended
      BY <1>4 DEF Ended
    <2>. QED
      BY <1>2, <1>3, <2>3, <2>4, <2>5, <2>6, Zenon DEF Calls
  <1>5. CASE ~(task.state = "STARTED" /\ task.at = 0)
    <2>1. t = task
      BY <1>1, <1>5 DEF refresh_due_service_task_retries
    <2>2. CASE task.state = "READY"
      <3>1. /\ task' \in Tasks /\ task'.state = "STARTED" /\ task'.at = None /\ task'.tries = 0
        BY <1>2, <2>1, <2>2 DEF CallInv, ServiceTasksTypeOK, Tasks
      <3>2. calls' = calls + 1 /\ calls' = task'.tries + 1 /\ calls' <= Retries + 1
        BY <1>2, <2>1, <2>2, <3>1, ServiceTaskConstants DEF CallInv
      <3>3. task.state \notin Ended
        BY <2>2 DEF Ended
      <3>. QED
        BY <1>2, <1>3, <2>1, <2>2, <3>1, <3>2, <3>3, Zenon DEF Calls
    <2>3. CASE task.state # "READY"
      BY <1>2, <1>3, <2>1, <2>3, Zenon DEF Passes
    <2>. QED
      BY <2>2, <2>3
  <1>. QED
    BY <1>4, <1>5

(* A job is published for a retry that is due soon, and otherwise the row  *)
(* is left for the poll: the queued flag survives only for the same time,  *)
(* which was soon when it was set.                                         *)
LEMMA ScheduleKeeps ==
    ASSUME NEW t \in Tasks, schedule_waiting_timer_events(t),
           future \in Rows, svcJobs \subseteq Jobs, future.queued => future.left < Interval
    PROVE  /\ future' \in Rows /\ svcJobs' \subseteq Jobs
           /\ future'.queued => future'.left < Interval
           /\ future'.completed = future.completed /\ future'.archived = future.archived
           /\ t.state = "STARTED" /\ t.at # None => svcJobs' # {} \/ (future'.row /\ ~future'.queued)
  <1>1. CASE ~(t.state = "STARTED" /\ t.at # None)
    BY <1>1 DEF schedule_waiting_timer_events
  <1>2. CASE t.state = "STARTED" /\ t.at # None
    <2>. DEFINE soon == is_happening_soon(t.at)
    <2>1. t.at \in Nat /\ soon \in BOOLEAN /\ (soon <=> t.at < Interval)
      BY <1>2 DEF Tasks, is_happening_soon
    <2>2. future' = insert_or_update(future, t.at, soon)
      BY <1>2 DEF schedule_waiting_timer_events
    <2>3. svcJobs' = IF soon THEN queue_future_task(svcJobs, t.at) ELSE svcJobs
      BY <1>2 DEF schedule_waiting_timer_events
    <2>. HIDE DEF soon
    <2>4. PICK q \in BOOLEAN : q = (soon \/ (future.queued /\ future.left = t.at))
      OBVIOUS
    <2>5. future' = [future EXCEPT !.row = TRUE, !.left = t.at, !.queued = q]
      BY <2>2, <2>4 DEF insert_or_update
    <2>6. /\ future' \in Rows /\ future'.queued = q /\ future'.left = t.at /\ future'.row
          /\ future'.completed = future.completed /\ future'.archived = future.archived
      BY <2>1, <2>5, Zenon DEF Rows
    <2>7. q => soon
      BY <2>1, <2>4
    <2>8. t.at + Buffer \in Nat
      BY <2>1 DEF Buffer
    <2>9. PICK j \in Jobs : j = [left |-> t.at + Buffer, guid |-> TRUE]
      BY <2>8, Zenon DEF Jobs
    <2>10. svcJobs' \subseteq Jobs /\ (soon => svcJobs' # {})
      BY <2>3, <2>9, Zenon DEF queue_future_task
    <2>11. future'.queued => future'.left < Interval
      BY <2>1, <2>6, <2>7, Zenon
    <2>12. svcJobs' # {} \/ (future'.row /\ ~future'.queued)
      BY <2>6, <2>7, <2>10, Zenon
    <2>. QED
      BY <1>2, <2>6, <2>10, <2>11, <2>12, Zenon
  <1>. QED
    BY <1>1, <1>2

-----------------------------------------------------------------------------
(* The invariant *)

(* A new instance.                                                         *)
LEMMA InitInv == ServiceTasksInit => IInv
  <1>. SUFFICES ASSUME ServiceTasksInit PROVE IInv
    OBVIOUS
  <1>1. ServiceTasksTypeOK
    <2>1. task \in Tasks
      BY ServiceTaskConstants DEF ServiceTasksInit, Tasks, None
    <2>. QED
      BY <2>1, ConstantRecords DEF ServiceTasksInit, ServiceTasksTypeOK
  <1>2. CallInv
    BY ServiceTaskConstants DEF ServiceTasksInit, CallInv, CallsBounded, Free
  <1>3. RowInv
    BY ConstantRecords DEF ServiceTasksInit, RowInv, allowed_to_run
  <1>4. RetryNotForgotten /\ RetriesAreTransient
    BY DEF ServiceTasksInit, RetryNotForgotten, RetriesAreTransient
  <1>. QED
    BY <1>1, <1>2, <1>3, <1>4 DEF IInv

(* Every action keeps the invariant.                                       *)
LEMMA StepInv == IInv /\ [ServiceTasksNext]_svcVars => IInv'
  <1>. SUFFICES ASSUME IInv, [ServiceTasksNext]_svcVars PROVE IInv'
    OBVIOUS
  <1>. USE DEF IInv
  <1>1. CASE Tick
    <2>u. UNCHANGED <<svcStatus, svcLock, calls, waiting, cause>>
      BY <1>1 DEF Tick
    <2>1. ServiceTasksTypeOK'
      BY <1>1, <2>u, TickEffect DEF ServiceTasksTypeOK
    <2>2. CallInv'
      BY <1>1, <2>u, TickEffect DEF CallInv, CallsBounded
    <2>3. RowInv'
      <3>1. future.left \in Nat /\ future'.left \in Nat /\ future'.left <= future.left
        BY <1>1, TickEffect DEF ServiceTasksTypeOK, Rows
      <3>2. future.left < Interval => future'.left < Interval
        BY <3>1, ServiceTaskConstants
      <3>. QED
        BY <1>1, <2>u, <3>2, TickEffect, Zenon DEF RowInv, allowed_to_run
    <2>4. RetryNotForgotten'
      BY <1>1, <2>u, TickEffect, Zenon DEF RetryNotForgotten, allowed_to_run
    <2>5. RetriesAreTransient'
      BY <1>1, <2>u, TickEffect DEF RetriesAreTransient
    <2>. QED
      BY <2>1, <2>2, <2>3, <2>4, <2>5
  <1>2. CASE do_process_future_tasks
    <2>1. ServiceTasksTypeOK'
      <3>1. svcJobs' \subseteq Jobs /\ future' \in Rows
        <4>1. svcJobs \in SUBSET Jobs /\ future.left \in Nat /\ future \in Rows
          BY DEF ServiceTasksTypeOK, Rows
        <4>. QED
          BY ZenonT(40), <1>2, <4>1, Published, RowFlags, Zenon DEF do_process_future_tasks
      <3>. QED
        BY <1>2, <3>1 DEF do_process_future_tasks, ServiceTasksTypeOK
    <2>2. CallInv'
      BY <1>2 DEF do_process_future_tasks, CallInv, CallsBounded
    <2>3. RowInv'
      BY <1>2 DEF do_process_future_tasks, ServiceTasksTypeOK, RowInv, Rows
    <2>4. RetryNotForgotten'
      BY <1>2 DEF do_process_future_tasks, imminent_future_tasks, RetryNotForgotten
    <2>5. RetriesAreTransient'
      BY <1>2 DEF do_process_future_tasks, RetriesAreTransient
    <2>. QED
      BY <2>1, <2>2, <2>3, <2>4, <2>5
  <1>3. CASE Execute
    <2>u. /\ UNCHANGED <<future, svcJobs, svcStatus, waiting, cause>>
          /\ svcLock.pc = "steps" /\ svcLock # Free
      BY <1>3, ConstantRecords DEF Execute
    <2>r. allowed_to_run(svcStatus)
      BY <2>u, Zenon DEF RowInv
    <2>c. CASE Calls
      <3>1. ServiceTasksTypeOK'
        BY <2>u, <2>c DEF Calls, ServiceTasksTypeOK
      <3>2. CallInv'
        BY <2>c, Zenon DEF Calls, CallInv, CallsBounded
      <3>3. RowInv'
        BY <2>u, <2>c, <2>r, Zenon DEF Calls, RowInv, allowed_to_run
      <3>4. RetryNotForgotten' /\ RetriesAreTransient'
        BY <2>c, Zenon DEF Calls, RetryNotForgotten, RetriesAreTransient
      <3>. QED
        BY <3>1, <3>2, <3>3, <3>4
    <2>p. CASE Passes
      <3>1. ServiceTasksTypeOK'
        BY <2>u, <2>p DEF Passes, ServiceTasksTypeOK
      <3>2. CallInv'
        BY <2>p DEF Passes, CallInv, CallsBounded
      <3>3. RowInv'
        BY <2>u, <2>p, <2>r, Zenon DEF Passes, RowInv, allowed_to_run
      <3>4. svcLock' # Free
        BY <2>p, ConstantRecords DEF Passes
      <3>5. RetryNotForgotten' /\ RetriesAreTransient'
        BY SMTT(30), <2>u, <2>p, <3>4, Zenon DEF Passes, RetryNotForgotten, RetriesAreTransient
      <3>. QED
        BY <3>1, <3>2, <3>3, <3>5
    <2>. QED
      BY <1>3, <2>c, <2>p, ExecuteEffect
  <1>4. CASE SaveAndRelease
    <2>u. /\ UNCHANGED <<task, calls, waiting, cause>>
          /\ svcLock.pc = "save" /\ svcLock # Free /\ svcLock' = Free /\ svcStatus' = status_of(task)
      BY <1>4, ConstantRecords DEF SaveAndRelease
    <2>r. allowed_to_run(svcStatus)
      BY <2>u, Zenon DEF RowInv
    <2>s. /\ status_of(task) \in {"running", "waiting", "suspended", "error", "complete"}
          /\ task.state = "STARTED" => task.state \notin Ended
      BY DEF status_of, Ended
    <2>2. CallInv'
      BY <2>u, ConstantRecords DEF CallInv, CallsBounded
    <2>5. RetriesAreTransient'
      BY <2>u DEF RetriesAreTransient
    <2>c. CASE /\ svcLock.guid /\ task.state \in Ended /\ future.row
               /\ future' = [future EXCEPT !.completed = TRUE] /\ UNCHANGED svcJobs
      <3>1. /\ future' \in Rows /\ future'.queued = future.queued /\ future'.left = future.left
            /\ future'.archived = future.archived
        BY <2>c, RowFlags, Zenon DEF ServiceTasksTypeOK
      <3>2. ServiceTasksTypeOK'
        BY <2>u, <2>s, <2>c, <3>1, ConstantRecords DEF ServiceTasksTypeOK
      <3>3. RowInv'
        BY <2>u, <2>c, <3>1, Zenon DEF RowInv
      <3>4. RetryNotForgotten'
        BY <2>u, <2>s, <2>c, Zenon DEF RetryNotForgotten
      <3>. QED
        BY <2>2, <2>5, <3>2, <3>3, <3>4
    <2>d. CASE schedule_waiting_timer_events(task)
      <3>1. /\ future' \in Rows /\ svcJobs' \subseteq Jobs
            /\ future'.queued => future'.left < Interval
            /\ future'.completed = future.completed /\ future'.archived = future.archived
            /\ task.state = "STARTED" /\ task.at # None =>
                   svcJobs' # {} \/ (future'.row /\ ~future'.queued)
        BY <2>d, ScheduleKeeps, Zenon DEF ServiceTasksTypeOK, RowInv
      <3>2. ServiceTasksTypeOK'
        BY <2>u, <2>s, <3>1, ConstantRecords DEF ServiceTasksTypeOK
      <3>3. RowInv'
        BY <2>u, <2>r, <3>1, Zenon DEF RowInv
      <3>4. RetryNotForgotten'
        BY <2>u, <2>r, <2>s, <3>1, Zenon DEF RowInv, RetryNotForgotten
      <3>. QED
        BY <2>2, <2>5, <3>2, <3>3, <3>4
    <2>. QED
      BY <1>4, <2>c, <2>d, Zenon DEF SaveAndRelease, Ended
  <1>5. CASE \E j \in svcJobs, again \in BOOLEAN : run_queued_process_instance(j, again)
    <2>1. ServiceTasksTypeOK'
      <3>1. PICK j \in svcJobs, again \in BOOLEAN : run_queued_process_instance(j, again)
        BY <1>5
      <3>2. \A g \in BOOLEAN : [pc |-> "steps", guid |-> g, pass |-> 1] \in Locks
        BY DEF Locks
      <3>3. j.guid \in BOOLEAN
        BY DEF ServiceTasksTypeOK, Jobs
      <3>4. svcLock' \in Locks /\ svcJobs' \subseteq Jobs
        BY <3>1, <3>2, <3>3, Zenon DEF run_queued_process_instance, ServiceTasksTypeOK
      <3>. QED
        BY <3>1, <3>4 DEF run_queued_process_instance, ServiceTasksTypeOK
    <2>2. CallInv'
      BY <1>5 DEF run_queued_process_instance, CallInv, CallsBounded
    <2>3. RowInv'
      BY <1>5 DEF run_queued_process_instance, RowInv
    <2>4. RetryNotForgotten'
      BY <1>5, ConstantRecords DEF run_queued_process_instance, RetryNotForgotten
    <2>5. RetriesAreTransient'
      BY <1>5 DEF run_queued_process_instance, RetriesAreTransient
    <2>. QED
      BY <2>1, <2>2, <2>3, <2>4, <2>5
  <1>6. ASSUME NEW r \in call_connector, Return(r)
        PROVE  IInv'
    <2>u. UNCHANGED <<future, svcJobs, calls>> /\ svcLock.pc = "call" /\ svcLock # Free
      BY <1>6, ConstantRecords DEF Return
    <2>r. allowed_to_run(svcStatus)
      BY <2>u, Zenon DEF RowInv
    <2>t. /\ task.state = "STARTED" /\ task.at = None /\ task.state \notin Ended
          /\ calls = task.tries + 1 /\ calls \in 1 .. calls
      BY <2>u DEF CallInv, Ended, ServiceTasksTypeOK, Tasks
    <2>e. error_status_code(r) \in Nat
      BY <1>6, Answers
    <2>a. CASE /\ waiting' = waiting \cup {calls} /\ UNCHANGED <<task, svcStatus, cause>> /\ Onward
      <3>1. svcLock' \in Locks /\ svcLock'.pc \in {"steps", "save"} /\ svcLock' # Free
        BY <2>a, OnwardKeeps DEF ServiceTasksTypeOK
      <3>2. ServiceTasksTypeOK'
        BY <2>u, <2>t, <2>a, <3>1 DEF ServiceTasksTypeOK
      <3>3. CallInv'
        BY <2>u, <2>a, <3>1 DEF CallInv, CallsBounded
      <3>4. RowInv' /\ RetryNotForgotten' /\ RetriesAreTransient'
        BY <2>u, <2>r, <2>a, <3>1 DEF RowInv, RetryNotForgotten, RetriesAreTransient
      <3>. QED
        BY <3>2, <3>3, <3>4
    <2>b. CASE /\ task' = clear_retry_state([task EXCEPT !.state = "COMPLETED"])
               /\ UNCHANGED <<waiting, svcStatus, cause>> /\ Onward
      <3>1. svcLock' \in Locks /\ svcLock'.pc \in {"steps", "save"} /\ svcLock' # Free
        BY <2>b, OnwardKeeps DEF ServiceTasksTypeOK
      <3>2. task' \in Tasks /\ task'.state = "COMPLETED" /\ task'.state \in Ended
        BY <2>b, EndedTask DEF ServiceTasksTypeOK, Ended
      <3>3. ServiceTasksTypeOK'
        BY <2>u, <2>b, <3>1, <3>2 DEF ServiceTasksTypeOK
      <3>4. CallInv'
        BY <2>u, <2>t, <3>1, <3>2 DEF CallInv, CallsBounded
      <3>5. RowInv' /\ RetryNotForgotten' /\ RetriesAreTransient'
        BY <2>u, <2>r, <2>b, <3>1, <3>2 DEF RowInv, RetryNotForgotten, RetriesAreTransient
      <3>. QED
        BY <3>3, <3>4, <3>5
    <2>c. CASE /\ cause' = error_status_code(r) /\ should_retry(task, error_status_code(r))
               /\ task' = schedule_retry(task) /\ UNCHANGED <<waiting, svcStatus>> /\ Onward
      <3>1. svcLock' \in Locks /\ svcLock'.pc \in {"steps", "save"} /\ svcLock' # Free
        BY <2>c, OnwardKeeps DEF ServiceTasksTypeOK
      <3>2. /\ task' \in Tasks /\ task'.state = "STARTED" /\ task'.tries = task.tries
            /\ task.tries < Retries /\ (cause' >= 500 \/ cause' = 429)
        BY <2>c, Scheduled DEF ServiceTasksTypeOK
      <3>3. ServiceTasksTypeOK'
        BY <2>u, <2>e, <2>c, <3>1, <3>2 DEF ServiceTasksTypeOK
      <3>4. CallInv'
        BY <2>u, <2>t, <3>1, <3>2 DEF CallInv, CallsBounded
      <3>5. RetriesAreTransient'
        BY <3>2 DEF RetriesAreTransient
      <3>6. RowInv' /\ RetryNotForgotten'
        BY <2>u, <2>r, <2>t, <2>c, <3>1, Zenon DEF RowInv, RetryNotForgotten, allowed_to_run
      <3>. QED
        BY <3>3, <3>4, <3>5, <3>6
    <2>d. CASE /\ cause' = error_status_code(r) /\ task' = [task EXCEPT !.state = "ERROR"]
               /\ svcStatus' = "error" /\ svcLock' = Free /\ UNCHANGED waiting
      <3>1. task' \in Tasks /\ task'.state = "ERROR" /\ task'.state \in Ended
        BY <2>d, EndedTask DEF ServiceTasksTypeOK, Ended
      <3>2. ServiceTasksTypeOK'
        BY <2>u, <2>e, <2>d, <3>1, ConstantRecords DEF ServiceTasksTypeOK
      <3>3. CallInv'
        BY <2>u, <2>d, <3>1, ConstantRecords DEF CallInv, CallsBounded
      <3>4. RowInv' /\ RetryNotForgotten' /\ RetriesAreTransient'
        BY <2>u, <2>d, <3>1, Zenon DEF RowInv, RetryNotForgotten, RetriesAreTransient
      <3>. QED
        BY <3>2, <3>3, <3>4
    <2>. QED
      BY <1>6, <2>a, <2>b, <2>c, <2>d, Zenon DEF Return
  <1>7. ASSUME NEW r \in call_connector, catch_error_codes(r)
        PROVE  IInv'
    <2>u. /\ UNCHANGED <<future, svcJobs, svcStatus, calls, waiting>> /\ cause' = error_status_code(r)
          /\ svcLock.pc = "call" /\ svcLock # Free
      BY <1>7, ConstantRecords DEF catch_error_codes
    <2>1. svcLock' \in Locks /\ svcLock'.pc \in {"steps", "save"} /\ svcLock' # Free
      BY <1>7, OnwardKeeps DEF ServiceTasksTypeOK, catch_error_codes
    <2>2. task' \in Tasks /\ task'.state = "CANCELLED" /\ task'.state \in Ended
      BY <1>7, EndedTask DEF ServiceTasksTypeOK, Ended, catch_error_codes
    <2>3. cause' \in Nat
      BY <1>7, <2>u, Answers
    <2>4. ServiceTasksTypeOK'
      BY <2>u, <2>1, <2>2, <2>3 DEF ServiceTasksTypeOK
    <2>5. CallInv'
      BY <2>u, <2>1, <2>2 DEF CallInv, CallsBounded
    <2>6. RowInv' /\ RetryNotForgotten' /\ RetriesAreTransient'
      BY <2>u, <2>1, <2>2 DEF RowInv, RetryNotForgotten, RetriesAreTransient
    <2>. QED
      BY <2>4, <2>5, <2>6
  <1>8. CASE \E w \in waiting, sync \in BOOLEAN : get_callback_body(w, sync)
    <2>1. ServiceTasksTypeOK'
      BY <1>8, ConstantRecords DEF get_callback_body, ServiceTasksTypeOK, Tasks
    <2>2. CallInv'
      BY <1>8, ConstantRecords DEF get_callback_body, service_task_submit_callback, CallInv,
         CallsBounded
    <2>3. RowInv'
      BY <1>8 DEF get_callback_body, service_task_submit_callback, RowInv, Ended
    <2>4. RetryNotForgotten'
      BY <1>8 DEF get_callback_body, RetryNotForgotten
    <2>5. RetriesAreTransient'
      BY <1>8 DEF get_callback_body, RetriesAreTransient
    <2>. QED
      BY <2>1, <2>2, <2>3, <2>4, <2>5
  <1>9. CASE \E w \in waiting : invalid_callback_body(w)
    <2>1. ServiceTasksTypeOK'
      BY <1>9 DEF invalid_callback_body, ServiceTasksTypeOK
    <2>2. CallInv'
      BY <1>9 DEF invalid_callback_body, CallInv, CallsBounded
    <2>3. RowInv'
      BY <1>9 DEF invalid_callback_body, service_task_submit_callback, RowInv,
         allowed_to_run
    <2>4. RetryNotForgotten'
      BY <1>9 DEF invalid_callback_body, RetryNotForgotten, allowed_to_run
    <2>5. RetriesAreTransient'
      BY <1>9 DEF invalid_callback_body, RetriesAreTransient
    <2>. QED
      BY <2>1, <2>2, <2>3, <2>4, <2>5
  <1>10. ASSUME NEW w \in waiting, NEW u \in Upstream,
               schedule_retry_for_callback_error(w, async_http_on_post(u))
         PROVE  IInv'
    <2>. DEFINE code == error_status_code(async_http_on_post(u))
    <2>u. /\ UNCHANGED <<svcLock, calls, waiting>> /\ cause' = code /\ code \in Nat
          /\ svcLock = Free /\ svcLock.pc = "free" /\ task.state = "STARTED"
          /\ allowed_to_run(svcStatus)
      BY <1>10, Answers, ConstantRecords DEF schedule_retry_for_callback_error,
         service_task_submit_callback
    <2>t. calls = task.tries + 1 /\ task.state \notin Ended
      BY <2>u DEF CallInv, Ended
    <2>c. CASE /\ should_retry(task, code) /\ task' = schedule_retry(task) /\ svcStatus' = "waiting"
               /\ schedule_waiting_timer_events(schedule_retry(task))
      <3>1. /\ task' \in Tasks /\ task'.state = "STARTED" /\ task'.tries = task.tries
            /\ task.tries < Retries /\ (code >= 500 \/ code = 429)
        BY <2>c, Scheduled DEF ServiceTasksTypeOK
      <3>t. PICK t \in Tasks : /\ t = schedule_retry(task) /\ t.state = "STARTED" /\ t.at # None
                               /\ schedule_waiting_timer_events(t)
        BY <2>c, Scheduled DEF ServiceTasksTypeOK
      <3>2. /\ future' \in Rows /\ svcJobs' \subseteq Jobs
            /\ future'.queued => future'.left < Interval
            /\ future'.completed = future.completed /\ future'.archived = future.archived
            /\ svcJobs' # {} \/ (future'.row /\ ~future'.queued)
        BY <3>t, ScheduleKeeps, Zenon DEF ServiceTasksTypeOK, RowInv
      <3>3. ServiceTasksTypeOK'
        BY <2>u, <2>c, <3>1, <3>2 DEF ServiceTasksTypeOK
      <3>4. CallInv'
        BY <2>u, <2>t, <3>1 DEF CallInv, CallsBounded
      <3>5. RowInv'
        BY <2>u, <2>t, <3>2, Zenon DEF RowInv
      <3>6. RetryNotForgotten'
        BY <2>u, <2>t, <3>2, Zenon DEF RowInv, RetryNotForgotten
      <3>7. RetriesAreTransient'
        BY <2>u, <3>1 DEF RetriesAreTransient
      <3>. QED
        BY <3>3, <3>4, <3>5, <3>6, <3>7
    <2>d. CASE /\ task' = [task EXCEPT !.state = "ERROR"] /\ svcStatus' = "error"
               /\ UNCHANGED <<future, svcJobs>>
      <3>1. task' \in Tasks /\ task'.state = "ERROR" /\ task'.state \in Ended
        BY <2>d, EndedTask DEF ServiceTasksTypeOK, Ended
      <3>2. ServiceTasksTypeOK'
        BY <2>u, <2>d, <3>1 DEF ServiceTasksTypeOK
      <3>3. CallInv'
        BY <2>u, <3>1 DEF CallInv, CallsBounded
      <3>4. RowInv' /\ RetryNotForgotten' /\ RetriesAreTransient'
        BY <2>u, <2>d, <3>1, Zenon DEF RowInv, RetryNotForgotten, RetriesAreTransient
      <3>. QED
        BY <3>2, <3>3, <3>4
    <2>. QED
      BY <1>10, <2>c, <2>d, Zenon DEF schedule_retry_for_callback_error
  <1>11. CASE Submit
    <2>1. ServiceTasksTypeOK'
      BY <1>11 DEF Submit, ServiceTasksTypeOK, Locks
    <2>2. CallInv'
      BY <1>11 DEF Submit, CallInv, CallsBounded
    <2>3. RowInv'
      BY <1>11 DEF Submit, RowInv
    <2>4. RetryNotForgotten'
      BY <1>11 DEF Submit, RetryNotForgotten
    <2>5. RetriesAreTransient'
      BY <1>11 DEF Submit, RetriesAreTransient
    <2>. QED
      BY <2>1, <2>2, <2>3, <2>4, <2>5
  <1>12. CASE Submitted
    <2>1. ServiceTasksTypeOK'
      BY <1>12, ConstantRecords DEF Submitted, ServiceTasksTypeOK
    <2>2. CallInv'
      BY <1>12, ConstantRecords DEF Submitted, CallInv, CallsBounded
    <2>3. RowInv'
      BY <1>12, ConstantRecords DEF Submitted, RowInv
    <2>4. RetryNotForgotten'
      BY <1>12 DEF Submitted, RetryNotForgotten
    <2>5. RetriesAreTransient'
      BY <1>12 DEF Submitted, RetriesAreTransient
    <2>. QED
      BY <2>1, <2>2, <2>3, <2>4, <2>5
  <1>13. CASE suspend
    <2>1. ServiceTasksTypeOK'
      BY <1>13 DEF suspend, ServiceTasksTypeOK
    <2>2. CallInv'
      BY <1>13 DEF suspend, CallInv, CallsBounded
    <2>3. RowInv'
      BY <1>13 DEF suspend, RowInv, allowed_to_run
    <2>4. RetryNotForgotten'
      BY <1>13 DEF suspend, RetryNotForgotten, allowed_to_run
    <2>5. RetriesAreTransient'
      BY <1>13 DEF suspend, RetriesAreTransient
    <2>. QED
      BY <2>1, <2>2, <2>3, <2>4, <2>5
  <1>14. CASE resume
    <2>1. ServiceTasksTypeOK'
      BY <1>14, ConstantRecords DEF resume, ServiceTasksTypeOK, Rows
    <2>2. CallInv'
      BY <1>14 DEF resume, CallInv, CallsBounded
    <2>3. RowInv'
      BY <1>14 DEF resume, RowInv
    <2>4. RetryNotForgotten'
      BY <1>14 DEF resume, RetryNotForgotten
    <2>5. RetriesAreTransient'
      BY <1>14 DEF resume, RetriesAreTransient
    <2>. QED
      BY <2>1, <2>2, <2>3, <2>4, <2>5
  <1>15. CASE UNCHANGED svcVars
    <2>1. ServiceTasksTypeOK'
      BY <1>15 DEF svcVars, ServiceTasksTypeOK
    <2>2. CallInv'
      BY <1>15 DEF svcVars, CallInv, CallsBounded
    <2>3. RowInv'
      BY <1>15 DEF svcVars, RowInv
    <2>4. RetryNotForgotten'
      BY <1>15 DEF svcVars, RetryNotForgotten
    <2>5. RetriesAreTransient'
      BY <1>15 DEF svcVars, RetriesAreTransient
    <2>. QED
      BY <2>1, <2>2, <2>3, <2>4, <2>5
  <1>. QED
    BY <1>1, <1>2, <1>3, <1>4, <1>5, <1>6, <1>7, <1>8, <1>9, <1>10, <1>11, <1>12, <1>13,
       <1>14, <1>15 DEF ServiceTasksNext

(* ServiceTasks keeps its invariant.                                       *)
THEOREM Invariant == ServiceTasksSpec => []IInv
  BY InitInv, StepInv, PTL DEF ServiceTasksSpec

(* However jobs are delivered twice and callbacks come late or repeated,   *)
(* for any retries attribute, backoff_base and polling intervals: the      *)
(* connector is called once more than there are retries at most, only for  *)
(* failures that may pass, and a scheduled retry of an instance that may   *)
(* run always has a job or an open future_task row that the poll will      *)
(* publish (custom_service_task, do_process_future_tasks).                 *)
THEOREM RetriesAreSound == ServiceTasksSpec => []RetriesSound
  <1>1. IInv => RetriesSound
    BY DEF IInv, CallInv, RetriesSound
  <1>. QED
    BY <1>1, Invariant, PTL

--------------------------------------------------------------------------------
(* Runner: its sessions and unit tests, for any tasks and recordings.      *)

(* A set of numbers that has one has a least one. *)
LEMMA Least == ASSUME NEW S \in SUBSET Nat, S # {} PROVE \E x \in S : \A y \in S : x <= y
<1>1. PICK x \in S : \A y \in S : <<y, x>> \notin OpToRel(<, Nat)
    BY NatLessThanWellFounded, WFMin
<1>2. ASSUME NEW y \in S PROVE x <= y
    <2>1. x \in Nat /\ y \in Nat
        OBVIOUS
    <2>2. ~(y < x)
        BY <1>1, <2>1 DEF OpToRel
    <2> QED BY <2>1, <2>2
<1> QED BY <1>2

(* A task is of one of the three kinds. *)
LEMMA Kinds == /\ Len(TaskKind) \in Nat /\ RunTasks \subseteq Nat \ {0}
               /\ \A t \in RunTasks : TaskKind[t] \in {"script", "custom", "timer"}
<1>1. Len(TaskKind) \in Nat
    BY RunnerConstants
<1>2. RunTasks \subseteq Nat \ {0}
    BY <1>1 DEF RunTasks
<1>3. \A t \in RunTasks : TaskKind[t] \in {"script", "custom", "timer"}
    BY RunnerConstants, ElementOfSeq DEF RunTasks
<1> QED BY <1>1, <1>2, <1>3

(* Settling starts tasks that were not started, and timers only wait. *)
LEMMA Settled ==
    ASSUME NEW w \in States
    PROVE  /\ Settle(w) \in States
           /\ \A t \in RunTasks : \/ Settle(w)[t] = w[t]
                                  \/ Settle(w)[t] = "WAITING"
                                  \/ Settle(w)[t] = "READY" /\ TaskKind[t] # "timer"
BY DEF Settle, States

LEMMA Done ==
    ASSUME NEW w \in States, NEW t \in RunTasks
    PROVE  /\ [w EXCEPT ![t] = "COMPLETED"] \in States /\ Complete(w, t) \in States
           /\ \A u \in RunTasks : \/ u = t
                                  \/ Complete(w, t)[u] = w[u]
                                  \/ Complete(w, t)[u] = "WAITING"
                                  \/ Complete(w, t)[u] = "READY" /\ TaskKind[u] # "timer"
<1> DEFINE v == [w EXCEPT ![t] = "COMPLETED"]
<1>1. v \in States
    BY DEF States
<1>2. \A u \in RunTasks : u # t => v[u] = w[u]
    BY DEF States
<1>3. Complete(w, t) = Settle(v)
    BY DEF Complete
<1> HIDE DEF v
<1>4. Settle(v) \in States
    BY <1>1, Settled
<1>5. ASSUME NEW u \in RunTasks, u # t
      PROVE  \/ Settle(v)[u] = w[u]
             \/ Settle(v)[u] = "WAITING"
             \/ Settle(v)[u] = "READY" /\ TaskKind[u] # "timer"
    BY <1>1, <1>2, <1>5, Settled
<1> QED BY <1>1, <1>3, <1>4, <1>5 DEF v

(* Running, forcing and starting a workflow give workflows. *)
LEMMA Moves ==
    /\ NewWorkflow \in States
    /\ \A w \in States, t \in RunTasks : /\ Run(w, t) \in States
                                         /\ force_timer_event(w, t) \in States
<1>1. [t \in RunTasks |-> "FUTURE"] \in States
    BY DEF States
<1>2. NewWorkflow \in States
    BY <1>1, Settled DEF NewWorkflow
<1>3. ASSUME NEW w \in States, NEW t \in RunTasks
      PROVE  Run(w, t) \in States /\ force_timer_event(w, t) \in States
    <2>1. [w EXCEPT ![t] = "STARTED"] \in States /\ [w EXCEPT ![t] = "READY"] \in States
        BY DEF States
    <2> QED BY <2>1, Done DEF Run, force_timer_event
<1> QED BY <1>2, <1>3

(* The next task is READY. *)
LEMMA NextTask ==
    ASSUME NEW w, NEW from
    PROVE  next_task(w, from) = 0 \/ (next_task(w, from) \in RunTasks /\ w[next_task(w, from)] = "READY")
<1> DEFINE ready == {t \in RunTasks : w[t] = "READY"}
           after == {t \in ready : t = from \/ from \in Before[t]}
           S     == IF after # {} THEN after ELSE ready
<1>1. S \subseteq ready /\ S \in SUBSET Nat
    BY Kinds
<1>2. CASE S = {}
    BY <1>2 DEF next_task
<1>3. CASE S # {}
    <2>1. \E t \in S : \A u \in S : t <= u
        BY <1>1, <1>3, Least
    <2>2. (CHOOSE t \in S : \A u \in S : t <= u) \in S
        BY <2>1
    <2>3. next_task(w, from) = CHOOSE t \in S : \A u \in S : t <= u
        BY <1>3 DEF next_task
    <2> HIDE DEF S
    <2>4. next_task(w, from) \in S
        BY <2>2, <2>3
    <2> QED BY <2>4, <1>1
<1> QED BY <1>2, <1>3

--------------------------------------------------------------------------------
(* The loop of _advance_workflow *)

(* One round of the loop, with f for the rest of it. *)
Round(f, a, greedy) ==
    IF a.t = 0 \/ a.n = 0 THEN a.w
    ELSE LET done == IF a.w[a.t] = "STARTED" THEN Complete(a.w, a.t) ELSE Run(a.w, a.t)
             nxt  == next_task(done, a.t)
         IN  IF nxt = 0 \/ ~greedy \/ TaskKind[nxt] = "custom" THEN done
             ELSE f[[w |-> done, t |-> nxt, n |-> a.n - 1]]

(* At most k rounds. *)
Within(k) == {a \in Loops : a.n <= k}
LoopTo(g, k, greedy) ==
    /\ g \in [Within(k) -> States]
    /\ \A a \in Within(k) : g[a] = Round(g, a, greedy)

(* A round gives a workflow if the rest does, and it looks only at shorter *)
(* rests.                                                                  *)
LEMMA RoundIs ==
    ASSUME NEW a \in Loops, NEW greedy, NEW f, NEW g,
           a.n # 0 => \A b \in Within(a.n - 1) : f[b] = g[b] /\ f[b] \in States
    PROVE  Round(f, a, greedy) = Round(g, a, greedy) /\ Round(f, a, greedy) \in States
<1>1. a.w \in States /\ a.t \in RunTasks \cup {0} /\ a.n \in 0 .. Len(TaskKind)
    BY DEF Loops
<1>2. CASE a.t = 0 \/ a.n = 0
    BY <1>1, <1>2 DEF Round
<1>3. CASE ~(a.t = 0 \/ a.n = 0)
    <2> DEFINE done == IF a.w[a.t] = "STARTED" THEN Complete(a.w, a.t) ELSE Run(a.w, a.t)
               nxt  == next_task(done, a.t)
               b    == [w |-> done, t |-> nxt, n |-> a.n - 1]
    <2>1. done \in States
        BY <1>1, <1>3, Done, Moves
    <2>2. nxt \in RunTasks \cup {0}
        BY NextTask
    <2>3. a.n - 1 \in 0 .. Len(TaskKind)
        BY <1>1, <1>3, Kinds
    <2>4. \A h : Round(h, a, greedy) =
                 IF nxt = 0 \/ ~greedy \/ TaskKind[nxt] = "custom" THEN done ELSE h[b]
        BY <1>3 DEF Round
    <2> HIDE DEF done, nxt
    <2>5. b \in Within(a.n - 1)
        BY <2>1, <2>2, <2>3 DEF Loops, Within
    <2>6. f[b] = g[b] /\ f[b] \in States
        BY <1>3, <2>5
    <2> QED BY <2>1, <2>4, <2>6
<1> QED BY <1>2, <1>3

(* The loop exists, whatever the number of its rounds. *)
LEMMA LoopExists ==
    ASSUME NEW greedy, NEW k \in Nat
    PROVE  \E g : LoopTo(g, k, greedy)
<1> DEFINE Fails == {j \in Nat : ~ \E g : LoopTo(g, j, greedy)}
<1> SUFFICES ASSUME Fails # {} PROVE FALSE
    OBVIOUS
<1>1. PICK j \in Fails : \A i \in Fails : j <= i
    <2>1. Fails \in SUBSET Nat
        OBVIOUS
    <2> HIDE DEF Fails
    <2> QED BY <2>1, Least
<1>2. j \in Nat /\ ~ \E g : LoopTo(g, j, greedy)
    BY <1>1
<1>3. \E f : j # 0 => LoopTo(f, j - 1, greedy)
    <2>1. CASE j = 0
        BY <2>1
    <2>2. CASE j # 0
        <3>1. j - 1 \in Nat /\ ~(j <= j - 1)
            BY <1>2, <2>2
        <3>2. j - 1 \notin Fails
            BY <1>1, <3>1
        <3> QED BY <3>1, <3>2
    <2> QED BY <2>1, <2>2
<1>4. PICK f : j # 0 => LoopTo(f, j - 1, greedy)
    BY <1>3
<1> DEFINE g == [a \in Within(j) |-> Round(f, a, greedy)]
<1> HIDE DEF Fails
<1>5. ASSUME NEW a \in Within(j), a.n # 0, NEW b \in Within(a.n - 1)
      PROVE  j # 0 /\ b \in Within(j - 1) /\ b \in Within(j)
    BY <1>2, <1>5, Kinds DEF Within, Loops
<1>6. ASSUME NEW b, j # 0, b \in Within(j - 1), b \in Within(j)
      PROVE  f[b] = g[b] /\ f[b] \in States
    BY <1>4, <1>6 DEF LoopTo
<1>7. ASSUME NEW a \in Within(j)
      PROVE  g[a] \in States /\ g[a] = Round(g, a, greedy)
    <2>1. a \in Loops
        BY DEF Within
    <2>2. a.n # 0 => \A b \in Within(a.n - 1) : f[b] = g[b] /\ f[b] \in States
        BY <1>5, <1>6
    <2>3. g[a] = Round(f, a, greedy)
        OBVIOUS
    <2> HIDE DEF g
    <2> QED BY <2>1, <2>2, <2>3, RoundIs
<1>8. g \in [Within(j) -> States]
    BY <1>7
<1>9. LoopTo(g, j, greedy)
    <2> HIDE DEF g
    <2> QED BY <1>7, <1>8 DEF LoopTo
<1> QED BY <1>2, <1>9

(* A run of the strategy ends in a workflow. *)
LEMMA LoopIs ==
    ASSUME NEW greedy
    PROVE  Loop(greedy) = [a \in Loops |-> Round(Loop(greedy), a, greedy)]
<1>1. Loop(greedy) = CHOOSE f : f = [a \in Loops |-> Round(f, a, greedy)]
    BY DEF Loop, Round
<1>2. PICK g : LoopTo(g, Len(TaskKind), greedy)
    BY LoopExists, Kinds
<1>3. Within(Len(TaskKind)) = Loops
    <2>1. ASSUME NEW a \in Loops PROVE a.n <= Len(TaskKind)
        <3>1. a.n \in 0 .. Len(TaskKind)
            BY DEF Loops
        <3> QED BY <3>1, Kinds
    <2> QED BY <2>1 DEF Within
<1>4. g = [a \in Loops |-> Round(g, a, greedy)]
    BY <1>2, <1>3 DEF LoopTo
<1> QED BY <1>1, <1>4

LEMMA LoopGives ==
    ASSUME NEW greedy, NEW a \in Loops
    PROVE  Loop(greedy)[a] \in States
<1> DEFINE f     == Loop(greedy)
           Fails == {a1.n : a1 \in {b \in Loops : f[b] \notin States}}
<1>1. \A b \in Loops : f[b] = Round(f, b, greedy)
    BY LoopIs
<1> HIDE DEF f
<1> SUFFICES ASSUME Fails # {} PROVE FALSE
    BY DEF f
<1>2. Fails \in SUBSET Nat
    BY DEF Loops
<1>3. PICK j \in Fails : \A i \in Fails : j <= i
    <2> HIDE DEF Fails
    <2> QED BY <1>2, Least
<1>4. PICK b \in Loops : f[b] \notin States /\ b.n = j
    BY <1>3
<1>5. ASSUME b.n # 0, NEW c \in Within(b.n - 1) PROVE f[c] \in States
    <2>1. c \in Loops /\ c.n \in Nat /\ b.n \in Nat /\ c.n <= b.n - 1
        BY DEF Within, Loops
    <2>2. c.n \notin Fails
        <3>1. ~(j <= c.n)
            BY <1>4, <2>1
        <3> HIDE DEF Fails
        <3> QED BY <1>3, <3>1
    <2> QED BY <2>1, <2>2
<1>6. Round(f, b, greedy) \in States
    BY <1>5, RoundIs
<1> QED BY <1>1, <1>4, <1>6

LEMMA StrategyGives ==
    ASSUME NEW w \in States, NEW t \in RunTasks \cup {0}, NEW greedy
    PROVE  run_strategy(w, t, greedy) \in States
<1>1. [w |-> w, t |-> t, n |-> Len(TaskKind)] \in Loops
    BY Kinds DEF Loops
<1> QED BY <1>1, LoopGives DEF run_strategy

--------------------------------------------------------------------------------
(* The inductive invariant *)

(* The history has what was shown, but for the states that were dropped. *)
HistoryInv ==
    \A i \in DOMAIN history : history[i] = NoWorkflow \/ history[i] = shown[i]

(* A unit test: what left READY or passed it without an answer is a script. *)
Given(t) == \E i \in DOMAIN tape.ran : tape.ran[i] = t
Ends == {"none", "completed", "no_ready_task", "fixture_exhausted", "fixture_task_mismatch",
         "recorded_timer_not_waiting"}
Tapes == [left : Seq(RunTasks), ran : Seq(RunTasks), wf : States \cup {NoWorkflow},
          end : Ends, from : Seq(RunTasks)]
TapeInv ==
    /\ tape \in Tapes
    /\ tape.wf # NoWorkflow =>
          \A t \in RunTasks :
             \/ Given(t)
             \/ TaskKind[t] = "script"
             \/ TaskKind[t] = "custom" /\ tape.wf[t] # "COMPLETED"
             \/ TaskKind[t] = "timer" /\ tape.wf[t] \notin {"READY", "COMPLETED"}

Test(left, ran, wf, end) ==
    [left |-> left, ran |-> ran, wf |-> wf, end |-> end, from |-> tape.from]

RunnerInv == RunnerSound /\ HistoryInv /\ TapeInv

LEMMA RunnerStarts == RunnerInit => RunnerInv
<1> SUFFICES ASSUME RunnerInit PROVE RunnerInv
    OBVIOUS
<1> USE DEF RunnerInit
<1>1. RunnerTypeOK
    BY RunnerConstants DEF RunnerTypeOK, NoTape
<1>2. HistoryInv
    BY DEF HistoryInv
<1>3. tape \in Tapes /\ tape.wf = NoWorkflow
    <2>1. tape = [left |-> <<>>, ran |-> <<>>, wf |-> NoWorkflow, end |-> "none", from |-> <<>>]
        BY DEF NoTape
    <2>2. <<>> \in Seq(RunTasks)
        BY EmptySeq
    <2> QED BY <2>1, <2>2 DEF Tapes, Ends
<1>4. ReplayFaithful
    <2>1. <<>> \o <<>> = <<>>
        BY ConcatEmptySeq, EmptySeq
    <2> QED BY <2>1 DEF ReplayFaithful, NoTape
<1>5. JumpResumes
    BY DEF JumpResumes
<1> QED BY <1>1, <1>2, <1>3, <1>4, <1>5 DEF RunnerInv, RunnerSound, TapeInv

(* An answer moves from what is left to what was given. *)
LEMMA AnswerGiven ==
    ASSUME NEW ran \in Seq(RunTasks), NEW left \in Seq(RunTasks), left # <<>>
    PROVE  /\ Append(ran, Head(left)) \in Seq(RunTasks) /\ Tail(left) \in Seq(RunTasks)
           /\ Append(ran, Head(left)) \o Tail(left) = ran \o left
           /\ \E i \in DOMAIN Append(ran, Head(left)) : Append(ran, Head(left))[i] = Head(left)
           /\ \A i \in DOMAIN ran : /\ i \in DOMAIN Append(ran, Head(left))
                                   /\ Append(ran, Head(left))[i] = ran[i]
<1>1. Head(left) \in RunTasks /\ Tail(left) \in Seq(RunTasks)
    BY HeadTailProperties
<1>2. <<Head(left)>> \in Seq(RunTasks)
    BY <1>1
<1>3. left = <<Head(left)>> \o Tail(left)
    <2>1. Len(left) \in Nat \ {0}
        BY EmptySeq
    <2>2. SubSeq(left, 1, Len(left)) = <<left[1]>> \o SubSeq(left, 2, Len(left))
        BY <2>1, SubSeqRecursiveFirst
    <2>3. SubSeq(left, 1, Len(left)) = left /\ SubSeq(left, 2, Len(left)) = Tail(left)
        BY SubSeqFull, TailIsSubSeq
    <2>4. Head(left) = left[1]
        OBVIOUS
    <2> QED BY <2>2, <2>3, <2>4
<1>4. Append(ran, Head(left)) = ran \o <<Head(left)>>
    BY <1>1, AppendIsConcat
<1>5. Append(ran, Head(left)) \o Tail(left) = ran \o (<<Head(left)>> \o Tail(left))
    BY <1>1, <1>2, <1>4, ConcatAssociative
<1>6. /\ Append(ran, Head(left)) \in Seq(RunTasks)
      /\ Len(Append(ran, Head(left))) = Len(ran) + 1
      /\ \A i \in 1 .. Len(ran) : Append(ran, Head(left))[i] = ran[i]
      /\ Append(ran, Head(left))[Len(ran) + 1] = Head(left)
    BY <1>1, AppendProperties
<1>7. DOMAIN Append(ran, Head(left)) = 1 .. Len(ran) + 1 /\ DOMAIN ran = 1 .. Len(ran) /\ Len(ran) \in Nat
    BY <1>6
<1> QED BY <1>1, <1>3, <1>5, <1>6, <1>7

(* A step of a session. *)
LEMMA AdvanceGoesOn ==
    ASSUME RunnerInv, NEW jump \in 0 .. MaxSteps, NEW pick \in RunTasks \cup {0},
           NEW greedy \in BOOLEAN, advance_workflow(jump, pick, greedy)
    PROVE  RunnerInv'
<1> DEFINE state == IF jump = 0 THEN NoWorkflow ELSE history[jump]
           w     == hydrate_workflow(state)
           t     == IF pick = 0 THEN next_task(w, 0) ELSE pick
           w0    == IF pick # 0 /\ w[pick] = "WAITING" THEN force_timer_event(w, pick) ELSE w
           out   == run_strategy(w0, t, greedy)
<1> USE DEF RunnerInv, RunnerSound
<1>1. /\ jump \in 0 .. Len(history) /\ Len(history) < MaxSteps
      /\ cachedWorkflow' = out /\ build_response(out) /\ tape' = tape
      /\ resumed' = <<IF jump = 0 THEN cachedWorkflow
                      ELSE IF state = NoWorkflow THEN state ELSE shown[jump], w>>
    BY DEF advance_workflow
<1>2. /\ Len(history) \in Nat /\ DOMAIN history = 1 .. Len(history)
      /\ DOMAIN shown = 1 .. Len(history) /\ Len(shown) = Len(history)
    BY DEF RunnerTypeOK
<1>3. state \in States \cup {NoWorkflow}
    BY <1>1, <1>2, ElementOfSeq DEF RunnerTypeOK
<1>4. w \in States
    BY <1>3, Moves DEF hydrate_workflow, RunnerTypeOK
<1>5. w0 \in States
    BY <1>4, Moves
<1>6. t \in RunTasks \cup {0}
    BY NextTask
<1>7. out \in States
    BY <1>5, <1>6, StrategyGives
<1>8. JumpResumes'
    <2>1. CASE jump = 0
        BY <1>1, <2>1 DEF JumpResumes, hydrate_workflow
    <2>2. CASE jump # 0
        <3>1. jump \in DOMAIN history
            BY <1>1, <1>2, <2>2
        <3>2. state = NoWorkflow \/ state = shown[jump]
            BY <2>2, <3>1 DEF HistoryInv
        <3> QED BY <1>1, <2>2, <3>2 DEF JumpResumes, hydrate_workflow
    <2> QED BY <2>1, <2>2
<1> HIDE DEF out, w, w0, t, state
<1> DEFINE steps == Append(history, out)
           old   == Len(steps) - HistoryCap
<1>9. /\ steps \in Seq(States \cup {NoWorkflow}) /\ Len(steps) = Len(history) + 1
      /\ \A i \in 1 .. Len(history) : steps[i] = history[i]
      /\ steps[Len(history) + 1] = out
    BY <1>7, AppendProperties DEF RunnerTypeOK
<1>10. /\ shown' \in Seq(States) /\ Len(shown') = Len(history) + 1
       /\ \A i \in 1 .. Len(history) : shown'[i] = shown[i]
       /\ shown'[Len(history) + 1] = out
    BY <1>1, <1>2, <1>7, AppendProperties DEF RunnerTypeOK, build_response
<1>11. history' = IF old > 0 THEN [steps EXCEPT ![old] = NoWorkflow] ELSE steps
    BY <1>1 DEF build_response
<1> HIDE DEF steps
<1>12. /\ history' \in Seq(States \cup {NoWorkflow}) /\ Len(history') = Len(history) + 1
       /\ \A i \in 1 .. Len(history) + 1 : history'[i] = steps[i] \/ history'[i] = NoWorkflow
    <2>1. CASE ~(old > 0)
        BY <1>9, <1>11, <2>1
    <2>2. CASE old > 0
        <3>1. old \in 1 .. Len(steps)
            BY <1>2, <1>9, <2>2, RunnerConstants
        <3>2. /\ [steps EXCEPT ![old] = NoWorkflow] \in Seq(States \cup {NoWorkflow})
              /\ Len([steps EXCEPT ![old] = NoWorkflow]) = Len(steps)
              /\ \A i \in 1 .. Len(steps) :
                    [steps EXCEPT ![old] = NoWorkflow][i] = IF i = old THEN NoWorkflow ELSE steps[i]
            <4>1. NoWorkflow \in States \cup {NoWorkflow}
                OBVIOUS
            <4> HIDE DEF old
            <4> QED BY <1>9, <3>1, <4>1, ExceptSeq
        <3> HIDE DEF old
        <3> QED BY <1>9, <1>11, <2>2, <3>2
    <2> QED BY <2>1, <2>2
<1>13. HistoryInv'
    <2> SUFFICES ASSUME NEW i \in DOMAIN history' PROVE history'[i] = NoWorkflow \/ history'[i] = shown'[i]
        BY DEF HistoryInv
    <2>1. i \in 1 .. Len(history) + 1
        BY <1>12
    <2>2. CASE i \in 1 .. Len(history)
        BY <1>2, <1>9, <1>10, <1>12, <2>1, <2>2 DEF HistoryInv
    <2>3. CASE i = Len(history) + 1
        BY <1>9, <1>10, <1>12, <2>1, <2>3
    <2> QED BY <1>2, <2>1, <2>2, <2>3
<1>14. RunnerTypeOK'
    BY <1>1, <1>2, <1>7, <1>10, <1>12, RunnerConstants DEF RunnerTypeOK
<1>15. ReplayFaithful' /\ TapeInv'
    BY <1>1 DEF ReplayFaithful, TapeInv, Given
<1> QED BY <1>8, <1>13, <1>14, <1>15

LEMMA TruncateGoesOn ==
    ASSUME RunnerInv, NEW step \in 1 .. MaxSteps, truncate_step_history(step)
    PROVE  RunnerInv'
<1> USE DEF RunnerInv, RunnerSound
<1>1. /\ step \in 1 .. Len(history) /\ history' = SubSeq(history, 1, step)
      /\ shown' = SubSeq(shown, 1, step)
      /\ cachedWorkflow' = cachedWorkflow /\ resumed' = resumed /\ tape' = tape
    BY DEF truncate_step_history
<1>2. /\ Len(history) \in Nat /\ DOMAIN history = 1 .. Len(history)
      /\ DOMAIN shown = 1 .. Len(history) /\ Len(shown) = Len(history)
    BY DEF RunnerTypeOK
<1>3. step \in Int /\ 1 \in Int /\ 1 <= step /\ step - 1 + 1 = step
    BY <1>1, <1>2
<1>4. /\ \A i \in 1 .. step : history[i] \in States \cup {NoWorkflow}
      /\ \A i \in 1 .. step : shown[i] \in States
    BY <1>1, <1>2, ElementOfSeq DEF RunnerTypeOK
<1>5. /\ history' \in Seq(States \cup {NoWorkflow}) /\ Len(history') = step
      /\ \A i \in 1 .. step : history'[i] = history[1 + i - 1]
    BY <1>1, <1>3, <1>4, SubSeqProperties
<1>6. /\ shown' \in Seq(States) /\ Len(shown') = step
      /\ \A i \in 1 .. step : shown'[i] = shown[1 + i - 1]
    BY <1>1, <1>3, <1>4, SubSeqProperties
<1>7. HistoryInv'
    <2> SUFFICES ASSUME NEW i \in DOMAIN history' PROVE history'[i] = NoWorkflow \/ history'[i] = shown'[i]
        BY DEF HistoryInv
    <2>1. i \in 1 .. step /\ 1 + i - 1 = i /\ i \in DOMAIN history
        BY <1>1, <1>2, <1>5
    <2> QED BY <1>5, <1>6, <2>1 DEF HistoryInv
<1>8. RunnerTypeOK'
    BY <1>1, <1>2, <1>5, <1>6 DEF RunnerTypeOK
<1>9. ReplayFaithful' /\ TapeInv' /\ JumpResumes'
    BY <1>1 DEF ReplayFaithful, TapeInv, Given, JumpResumes
<1> QED BY <1>7, <1>8, <1>9

(* A step of a unit test leaves the sessions alone. *)
LEMMA SessionStays ==
    ASSUME RunnerInv, UNCHANGED <<cachedWorkflow, history, shown, resumed>>,
           ReplayFaithful', TapeInv'
    PROVE  RunnerInv'
BY DEF RunnerInv, RunnerSound, RunnerTypeOK, HistoryInv, JumpResumes, TapeInv, Tapes

(* A unit test that goes on with a workflow, its answers as before. *)
LEMMA TestStays ==
    ASSUME RunnerInv, Testing, NEW w \in States, tape' = Test(tape.left, tape.ran, w, tape.end),
           \A t \in RunTasks : Given(t) \/ TaskKind[t] = "script" \/ w[t] = tape.wf[t]
                               \/ w[t] = "WAITING" \/ (w[t] = "READY" /\ TaskKind[t] # "timer")
    PROVE  ReplayFaithful' /\ TapeInv'
<1> USE DEF RunnerInv, RunnerSound
<1>1. /\ tape.end = "none" /\ tape.wf # NoWorkflow /\ tape' \in Tapes /\ tape'.end = tape.end
      /\ tape'.ran = tape.ran /\ tape'.left = tape.left /\ tape'.from = tape.from /\ tape'.wf = w
    BY DEF Testing, TapeInv, Tapes, Test
<1>2. ReplayFaithful'
    BY <1>1 DEF ReplayFaithful
<1>3. \A t \in RunTasks : Given(t)' <=> Given(t)
    BY <1>1 DEF Given
<1>4. TapeInv'
    BY <1>1, <1>3, Kinds DEF TapeInv
<1> QED BY <1>2, <1>4

(* A unit test that gives the answer at the head of the recording. *)
LEMMA AnswerStays ==
    ASSUME RunnerInv, Testing, NEW w \in States, NEW t \in RunTasks,
           tape.left # <<>>, t = Head(tape.left),
           tape' = Test(Tail(tape.left), Append(tape.ran, t), w, tape.end),
           \A u \in RunTasks : u = t \/ w[u] = tape.wf[u]
                               \/ w[u] = "WAITING" \/ (w[u] = "READY" /\ TaskKind[u] # "timer")
    PROVE  ReplayFaithful' /\ TapeInv'
<1> USE DEF RunnerInv, RunnerSound
<1>1. /\ tape \in Tapes /\ tape.ran \in Seq(RunTasks) /\ tape.left \in Seq(RunTasks)
      /\ tape.end = "none" /\ tape.wf # NoWorkflow
    BY DEF Testing, TapeInv, Tapes
<1>2. /\ Append(tape.ran, t) \in Seq(RunTasks) /\ Tail(tape.left) \in Seq(RunTasks)
      /\ Append(tape.ran, t) \o Tail(tape.left) = tape.ran \o tape.left
      /\ \E i \in DOMAIN Append(tape.ran, t) : Append(tape.ran, t)[i] = t
      /\ \A i \in DOMAIN tape.ran : /\ i \in DOMAIN Append(tape.ran, t)
                                    /\ Append(tape.ran, t)[i] = tape.ran[i]
    <2> DEFINE ran == tape.ran
               left == tape.left
    <2>1. ran \in Seq(RunTasks) /\ left \in Seq(RunTasks) /\ left # <<>> /\ t = Head(left)
        BY <1>1
    <2> HIDE DEF ran, left
    <2>2. /\ Append(ran, Head(left)) \in Seq(RunTasks) /\ Tail(left) \in Seq(RunTasks)
          /\ Append(ran, Head(left)) \o Tail(left) = ran \o left
          /\ \E i \in DOMAIN Append(ran, Head(left)) : Append(ran, Head(left))[i] = Head(left)
          /\ \A i \in DOMAIN ran : /\ i \in DOMAIN Append(ran, Head(left))
                                  /\ Append(ran, Head(left))[i] = ran[i]
        BY <2>1, AnswerGiven
    <2> QED BY <2>1, <2>2 DEF ran, left
<1>3. /\ tape' \in Tapes /\ tape'.end = "none" /\ tape'.wf = w /\ tape'.from = tape.from
      /\ tape'.ran = Append(tape.ran, t) /\ tape'.left = Tail(tape.left)
    BY <1>1, <1>2 DEF Tapes, Ends, Test
<1>4. ReplayFaithful'
    BY <1>2, <1>3 DEF ReplayFaithful
<1>5. \A u \in RunTasks : (Given(u) => Given(u)') /\ Given(t)'
    BY <1>2, <1>3 DEF Given
<1>6. TapeInv'
    BY <1>1, <1>3, <1>5, Kinds DEF TapeInv
<1> QED BY <1>4, <1>6

(* A unit test that ends. *)
LEMMA TestEnds ==
    ASSUME RunnerInv, NEW e \in Ends, tape' = Test(tape.left, tape.ran, tape.wf, e),
           e = "completed" => Testing /\ Completed(tape.wf)
    PROVE  ReplayFaithful' /\ TapeInv'
<1> USE DEF RunnerInv, RunnerSound
<1>1. /\ tape' \in Tapes /\ tape'.end = e /\ tape'.wf = tape.wf /\ tape'.from = tape.from
      /\ tape'.ran = tape.ran /\ tape'.left = tape.left
    BY DEF TapeInv, Tapes, Test
<1>2. e = "completed" => \A t \in RunTasks : TaskKind[t] # "script" => Given(t)
    BY Kinds DEF Testing, Completed, TapeInv
<1>3. ReplayFaithful'
    BY <1>1, <1>2 DEF ReplayFaithful, Given
<1>4. TapeInv'
    BY <1>1 DEF TapeInv, Given
<1> QED BY <1>3, <1>4

LEMMA TestStarts ==
    ASSUME RunnerInv, NEW r \in Recordings, StartTest(r)
    PROVE  RunnerInv'
<1>1. r \in Seq(RunTasks)
    <2>1. PICK n \in 0 .. 3 : r \in [1 .. n -> RunTasks]
        BY DEF Recordings
    <2> QED BY <2>1
<1>2. <<>> \o r = r
    BY <1>1, ConcatEmptySeq
<1>3. tape' = [left |-> r, ran |-> <<>>, wf |-> NewWorkflow, end |-> "none", from |-> r]
    BY DEF StartTest, NoTape
<1>4. \A t \in RunTasks : NewWorkflow[t] \in {"FUTURE", "WAITING"} \/ (NewWorkflow[t] = "READY" /\ TaskKind[t] # "timer")
    <2> DEFINE start == [u \in RunTasks |-> "FUTURE"]
    <2>1. start \in States /\ \A t \in RunTasks : start[t] = "FUTURE"
        BY DEF States
    <2> HIDE DEF start
    <2>2. \A t \in RunTasks : Settle(start)[t] \in {"FUTURE", "WAITING"} \/ (Settle(start)[t] = "READY" /\ TaskKind[t] # "timer")
        BY <2>1, Settled
    <2> QED BY <2>2 DEF NewWorkflow, start
<1>5. ReplayFaithful'
    BY <1>2, <1>3 DEF ReplayFaithful
<1>6. TapeInv'
    <2>1. tape' \in Tapes /\ tape'.wf = NewWorkflow
        <3>1. <<>> \in Seq(RunTasks) /\ NewWorkflow \in States
            BY EmptySeq, Moves
        <3> QED BY <1>1, <1>3, <3>1 DEF Tapes, Ends
    <2> QED BY <1>4, <2>1, Kinds DEF TapeInv
<1> QED BY <1>5, <1>6, SessionStays DEF StartTest

LEMMA RunnerGoesOn == RunnerInv /\ [RunnerNext]_runVars => RunnerInv'
<1> SUFFICES ASSUME RunnerInv, [RunnerNext]_runVars PROVE RunnerInv'
    OBVIOUS
<1>w. tape.wf # NoWorkflow => tape.wf \in States
    BY DEF RunnerInv, TapeInv, Tapes
<1>t. tape = Test(tape.left, tape.ran, tape.wf, tape.end)
    BY DEF RunnerInv, TapeInv, Tapes, Test
<1>f. fixture_cursor # 0 => /\ tape.left # <<>> /\ fixture_cursor = Head(tape.left)
                            /\ fixture_cursor \in RunTasks
    <2>1. tape.left \in Seq(RunTasks)
        BY DEF RunnerInv, TapeInv, Tapes
    <2> QED BY <2>1, HeadTailProperties DEF fixture_cursor
<1>1. CASE \E jump \in 0 .. MaxSteps, pick \in RunTasks \cup {0}, greedy \in BOOLEAN :
                advance_workflow(jump, pick, greedy)
    BY <1>1, AdvanceGoesOn
<1>2. CASE \E step \in 1 .. MaxSteps : truncate_step_history(step)
    BY <1>2, TruncateGoesOn
<1>3. CASE clear_workflow_cache
    <2>1. RunnerTypeOK'
        BY <1>3, RunnerConstants DEF clear_workflow_cache, RunnerTypeOK, RunnerInv, RunnerSound
    <2> QED BY <1>3, <2>1 DEF clear_workflow_cache, RunnerInv, RunnerSound, HistoryInv, JumpResumes,
                              ReplayFaithful, TapeInv, Given
<1>4. CASE \E r \in Recordings : StartTest(r)
    BY <1>4, TestStarts
<1>5. CASE script_step
    <2> DEFINE t == next_task(tape.wf, 0)
    <2>1. /\ Testing /\ t # 0 /\ TaskKind[t] # "custom"
          /\ tape' = Test(tape.left, tape.ran, Complete(tape.wf, t), tape.end)
          /\ UNCHANGED <<cachedWorkflow, history, shown, resumed>>
        BY <1>t, <1>5 DEF script_step, Test
    <2>2. tape.wf \in States /\ tape.wf # NoWorkflow
        BY <1>w, <2>1 DEF Testing
    <2>3. t \in RunTasks /\ tape.wf[t] = "READY"
        BY <2>1, NextTask
    <2> HIDE DEF t
    <2>4. Given(t) \/ TaskKind[t] = "script"
        BY <2>1, <2>2, <2>3, Kinds DEF RunnerInv, TapeInv
    <2>5. \A u \in RunTasks : Given(u) \/ TaskKind[u] = "script" \/ Complete(tape.wf, t)[u] = tape.wf[u]
             \/ Complete(tape.wf, t)[u] = "WAITING"
             \/ (Complete(tape.wf, t)[u] = "READY" /\ TaskKind[u] # "timer")
        BY <2>2, <2>3, <2>4, Done
    <2>6. Complete(tape.wf, t) \in States
        BY <2>2, <2>3, Done
    <2>7. ReplayFaithful' /\ TapeInv'
        BY <2>1, <2>5, <2>6, TestStays
    <2> QED BY <2>1, <2>7, SessionStays
<1>6. CASE replay_recorded_timer
    <2>1. Testing /\ fixture_cursor # 0 /\ UNCHANGED <<cachedWorkflow, history, shown, resumed>>
        BY <1>6 DEF replay_recorded_timer
    <2>2. tape.wf \in States
        BY <1>w, <2>1 DEF Testing
    <2>3. CASE tape.wf[fixture_cursor] = "WAITING"
        <3> DEFINE w == force_timer_event(tape.wf, fixture_cursor)
        <3>1. tape' = Test(Tail(tape.left), Append(tape.ran, fixture_cursor), w, tape.end)
            BY <1>t, <1>6, <2>3 DEF replay_recorded_timer, Test
        <3>2. w \in States
            BY <1>f, <2>1, <2>2, Moves
        <3>3. \A u \in RunTasks : u = fixture_cursor \/ w[u] = tape.wf[u]
            BY <2>2 DEF force_timer_event, States
        <3> HIDE DEF w
        <3>4. ReplayFaithful' /\ TapeInv'
            BY <1>f, <2>1, <3>1, <3>2, <3>3, AnswerStays
        <3> QED BY <2>1, <3>4, SessionStays
    <2>4. CASE tape.wf[fixture_cursor] # "WAITING"
        <3>1. tape' = Test(tape.left, tape.ran, tape.wf, "recorded_timer_not_waiting")
            BY <1>t, <1>6, <2>4 DEF replay_recorded_timer, Test
        <3>2. ReplayFaithful' /\ TapeInv'
            BY <3>1, TestEnds DEF Ends
        <3> QED BY <2>1, <3>2, SessionStays
    <2> QED BY <2>3, <2>4
<1>7. CASE replay_task
    <2> DEFINE t == next_task(tape.wf, 0)
    <2>1. /\ Testing /\ t # 0 /\ UNCHANGED <<cachedWorkflow, history, shown, resumed>>
          /\ tape' = IF fixture_cursor = 0 THEN [tape EXCEPT !.end = "fixture_exhausted"]
                     ELSE IF fixture_cursor # t THEN [tape EXCEPT !.end = "fixture_task_mismatch"]
                     ELSE [tape EXCEPT !.wf = Complete(@, t), !.ran = Append(@, t), !.left = Tail(@)]
        BY <1>7 DEF replay_task
    <2>2. tape.wf \in States /\ t \in RunTasks
        BY <1>w, <2>1, NextTask DEF Testing
    <2> HIDE DEF t
    <2>3. CASE fixture_cursor = 0
        <3>1. tape' = Test(tape.left, tape.ran, tape.wf, "fixture_exhausted")
            BY <1>t, <2>1, <2>3 DEF Test
        <3>2. ReplayFaithful' /\ TapeInv'
            BY <3>1, TestEnds DEF Ends
        <3> QED BY <2>1, <3>2, SessionStays
    <2>4. CASE fixture_cursor # 0 /\ fixture_cursor # t
        <3>1. tape' = Test(tape.left, tape.ran, tape.wf, "fixture_task_mismatch")
            BY <1>t, <2>1, <2>4 DEF Test
        <3>2. ReplayFaithful' /\ TapeInv'
            BY <3>1, TestEnds DEF Ends
        <3> QED BY <2>1, <3>2, SessionStays
    <2>5. CASE fixture_cursor # 0 /\ fixture_cursor = t
        <3>1. tape' = Test(Tail(tape.left), Append(tape.ran, t), Complete(tape.wf, t), tape.end)
            BY <1>t, <2>1, <2>5 DEF Test
        <3>2. /\ Complete(tape.wf, t) \in States
              /\ \A u \in RunTasks : u = t \/ Complete(tape.wf, t)[u] = tape.wf[u]
                   \/ Complete(tape.wf, t)[u] = "WAITING"
                   \/ (Complete(tape.wf, t)[u] = "READY" /\ TaskKind[u] # "timer")
            BY <2>2, Done
        <3>3. ReplayFaithful' /\ TapeInv'
            BY <1>f, <2>1, <2>2, <2>5, <3>1, <3>2, AnswerStays
        <3> QED BY <2>1, <3>3, SessionStays
    <2> QED BY <2>3, <2>4, <2>5
<1>8. CASE EndTest
    <2>1. /\ Testing /\ UNCHANGED <<cachedWorkflow, history, shown, resumed>>
          /\ tape' = Test(tape.left, tape.ran, tape.wf, IF Completed(tape.wf) THEN "completed" ELSE "no_ready_task")
        BY <1>t, <1>8 DEF EndTest, Test
    <2>2. CASE Completed(tape.wf)
        <3>1. ReplayFaithful' /\ TapeInv'
            BY <2>1, <2>2, TestEnds DEF Ends
        <3> QED BY <2>1, <3>1, SessionStays
    <2>3. CASE ~Completed(tape.wf)
        <3>1. ReplayFaithful' /\ TapeInv'
            BY <2>1, <2>3, TestEnds DEF Ends
        <3> QED BY <2>1, <3>1, SessionStays
    <2> QED BY <2>2, <2>3
<1>9. CASE UNCHANGED runVars
    BY <1>9 DEF runVars, RunnerInv, RunnerSound, RunnerTypeOK, HistoryInv, JumpResumes,
                ReplayFaithful, TapeInv, Given
<1> QED BY <1>1, <1>2, <1>3, <1>4, <1>5, <1>6, <1>7, <1>8, <1>9 DEF RunnerNext

(* A session goes on from the state its client was shown, and a unit test  *)
(* that completes has given every answer to the task it was recorded for   *)
(* (advance_workflow, hydrate_workflow, build_response).                   *)
THEOREM RunnerIsSound == RunnerSpec => []RunnerSound
<1>1. RunnerInv => RunnerSound
    BY DEF RunnerInv
<1> QED BY <1>1, RunnerStarts, RunnerGoesOn, PTL DEF RunnerSpec

=============================================================================
