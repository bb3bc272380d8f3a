---------------------------- MODULE ServiceTasks ----------------------------
(***************************************************************************)
(* A service task that calls a connector, its retries, the callback of a   *)
(* connector that answered 202, and the future_task row and celery jobs    *)
(* that bring the instance back when a retry is due (custom_service_task,  *)
(* service_task_service, service_task_delegate, workflow_execution_service *)
(* and background_processing_service, with celery enabled).                *)
(*                                                                         *)
(* Times are what is left until they come, so that Tick counts them down.  *)
(* The instance has the service task and an end event.  The lock is taken  *)
(* as in ProcessInstanceQueue; an operation that makes no call while it    *)
(* holds the lock is one step.                                             *)
(***************************************************************************)
EXTENDS Integers

CONSTANTS Retries,     \* the operator's retries attribute
          Backoff,     \* its backoff_base
          Interval,    \* ..._FUTURE_TASK_EXECUTION_INTERVAL_IN_SECONDS
          Lookahead,   \* ..._FUTURE_TASK_LOOKAHEAD_IN_SECONDS
          Upstream     \* status codes of the service behind the connector; 0: unreachable

(* The delays that backoff_base raises to the attempts are numbers of      *)
(* seconds, and a status code is a number.                                 *)
ASSUME ServiceTaskConstants ==
    /\ Retries \in Nat /\ Interval \in Nat /\ Lookahead \in Nat /\ Upstream \subseteq Nat
    /\ \A k \in 1 .. Retries : Backoff ^ k \in Nat

None   == -1   \* no retry_at, no failure
Buffer == 1    \* queue_future_task_if_appropriate: against rounding and clock skew

VARIABLES task,      \* the service task: state, retries_attempted, retry_at
          future,    \* its future_task row
          svcJobs,   \* process_instance_run jobs in the broker
          svcStatus, \* process_instance.status
          svcLock,   \* who has the instance and how far it is
          calls,     \* calls of the connector so far
          waiting,   \* accepted calls, whose connector may call back
          cause      \* ghost: the status code that made the last failure

svcVars == <<task, future, svcJobs, svcStatus, svcLock, calls, waiting, cause>>

NoRow == [row |-> FALSE, left |-> 0, queued |-> FALSE, completed |-> FALSE, archived |-> FALSE]
Free  == [pc |-> "free", guid |-> FALSE, pass |-> 1]
Plain == [left |-> 0, guid |-> FALSE]

Tasks == [state : {"READY", "STARTED", "COMPLETED", "ERROR", "CANCELLED"},
          tries : 0 .. Retries, at : Nat \cup {None}]
Rows  == [row : BOOLEAN, left : Nat, queued : BOOLEAN, completed : BOOLEAN, archived : BOOLEAN]
Jobs  == [left : Nat, guid : BOOLEAN]
Locks == [pc : {"free", "steps", "call", "save", "request"}, guid : BOOLEAN, pass : 1 .. 2]

ServiceTasksTypeOK ==
    /\ task \in Tasks /\ future \in Rows /\ svcJobs \subseteq Jobs /\ svcLock \in Locks
    /\ svcStatus \in {"running", "waiting", "suspended", "error", "complete"}
    /\ calls \in Nat /\ waiting \subseteq 1 .. calls /\ cause \in Nat \cup {None}

ServiceTasksInit ==
    /\ task = [state |-> "READY", tries |-> 0, at |-> None]
    /\ future = NoRow /\ svcJobs = {Plain} /\ svcStatus = "running" /\ svcLock = Free
    /\ calls = 0 /\ waiting = {} /\ cause = None

allowed_to_run(s) == s \notin {"complete", "error", "suspended"}

-----------------------------------------------------------------------------
(* What a connector answers: the HTTP status of the connector itself, the  *)
(* http_status of the service it called (0: it does not say) and whether   *)
(* it names an error.                                                      *)

(* The connector that runs in the backend's process. *)
http_connector_do(u) ==
    IF u = 0 THEN [status |-> 500, http |-> 0, err |-> TRUE]
             ELSE [status |-> 200, http |-> u, err |-> u >= 300]

(* The async HTTP connector proxy. *)
async_http_on_post(u) ==
    IF u = 0 THEN [status |-> 200, http |-> 500, err |-> TRUE]
             ELSE [status |-> 200, http |-> u, err |-> u >= 300]

(* Another proxy: accepted, down, an answer that is no JSON, a bad status. *)
call_connector ==
    {http_connector_do(u) : u \in Upstream} \cup {async_http_on_post(u) : u \in Upstream}
    \cup {[status |-> 202, http |-> 0, err |-> FALSE], [status |-> 500, http |-> 0, err |-> TRUE],
          [status |-> 200, http |-> 0, err |-> TRUE], [status |-> 404, http |-> 0, err |-> FALSE]}

check_for_errors(r) == r.http >= 300 \/ r.err \/ r.status >= 300
error_status_code(r) == IF r.http >= 300 THEN r.http ELSE r.status
is_transient_error(code) == code >= 500 \/ code = 429

-----------------------------------------------------------------------------
(* CustomServiceTask *)

should_retry(t, code) == is_transient_error(code) /\ t.tries < Retries

schedule_retry(t) == [t EXCEPT !.state = "STARTED", !.at = Backoff ^ (t.tries + 1)]

(* Faulty variant: the count stays where it is. *)
ConsumeUncounted(t) == [t EXCEPT !.state = "READY", !.at = None]

consume_scheduled_retry(t) == [t EXCEPT !.state = "READY", !.at = None, !.tries = @ + 1]

clear_retry_state(t) == [t EXCEPT !.tries = 0, !.at = None]

refresh_due_service_task_retries(t) ==
    IF t.state = "STARTED" /\ t.at = 0 THEN consume_scheduled_retry(t) ELSE t

-----------------------------------------------------------------------------
(* The future_task row and the jobs *)

is_happening_soon(left) == left < Interval

queue_future_task(jobs, left) == jobs \cup {[left |-> left + Buffer, guid |-> TRUE]}

(* insert_or_update leaves completed and archived alone, and the queued    *)
(* time too unless a job was published for it.                             *)
insert_or_update(f, left, soon) ==
    [f EXCEPT !.row = TRUE, !.left = left, !.queued = soon \/ (f.queued /\ f.left = left)]

(* Faulty variant: a task that has a row is taken to be scheduled. *)
ScheduleNewRows(t) ==
    IF t.state = "STARTED" /\ t.at # None /\ ~future.row
    THEN /\ future' = insert_or_update(future, t.at, is_happening_soon(t.at))
         /\ svcJobs' = IF is_happening_soon(t.at) THEN queue_future_task(svcJobs, t.at) ELSE svcJobs
    ELSE UNCHANGED <<future, svcJobs>>

schedule_waiting_timer_events(t) ==
    IF t.state = "STARTED" /\ t.at # None
    THEN /\ future' = insert_or_update(future, t.at, is_happening_soon(t.at))
         /\ svcJobs' = IF is_happening_soon(t.at) THEN queue_future_task(svcJobs, t.at) ELSE svcJobs
    ELSE UNCHANGED <<future, svcJobs>>

(* The poll of the scheduler: a row whose job was not published by the run *)
(* that wrote it is published on every poll.                               *)
imminent_future_tasks ==
    future.row /\ ~future.completed /\ ~future.archived /\ future.left < Lookahead /\ ~future.queued

do_process_future_tasks ==
    /\ imminent_future_tasks
    /\ IF allowed_to_run(svcStatus)
       THEN svcJobs' = queue_future_task(svcJobs, future.left) /\ UNCHANGED future
       ELSE future' = [future EXCEPT !.archived = TRUE] /\ UNCHANGED svcJobs
    /\ UNCHANGED <<task, svcStatus, svcLock, calls, waiting, cause>>

Tick ==
    LET Down(n) == IF n \in {0, None} THEN n ELSE n - 1
    IN  /\ \/ task.at \notin {0, None} \/ future.left > 0 \/ \E j \in svcJobs : j.left > 0
        /\ task' = [task EXCEPT !.at = Down(@)]
        /\ future' = [future EXCEPT !.left = Down(@)]
        /\ svcJobs' = {[j EXCEPT !.left = Down(@)] : j \in svcJobs}
        /\ UNCHANGED <<svcStatus, svcLock, calls, waiting, cause>>

-----------------------------------------------------------------------------
(* A worker runs the instance *)

(* The broker hands over a job, and may hand it over again.  An instance   *)
(* that is locked or may not run ends the job: nothing asks for it again.  *)
run_queued_process_instance(j, again) ==
    /\ j.left = 0
    /\ svcJobs' = IF again THEN svcJobs ELSE svcJobs \ {j}
    /\ svcLock' = IF svcLock = Free /\ allowed_to_run(svcStatus)
                  THEN [pc |-> "steps", guid |-> j.guid, pass |-> 1] ELSE svcLock
    /\ UNCHANGED <<task, future, svcStatus, calls, waiting, cause>>

(* Each of the two passes of a job: due retries become READY, and a READY  *)
(* service task is called.                                                 *)
Execute ==
    LET t == refresh_due_service_task_retries(task)
    IN  /\ svcLock.pc = "steps"
        /\ IF t.state = "READY"
           THEN /\ task' = [t EXCEPT !.state = "STARTED"] /\ calls' = calls + 1
                /\ svcLock' = [svcLock EXCEPT !.pc = "call"]
           ELSE /\ task' = t /\ UNCHANGED calls
                /\ svcLock' = IF svcLock.pass = 1 THEN [svcLock EXCEPT !.pass = 2]
                                                  ELSE [svcLock EXCEPT !.pc = "save"]
        /\ UNCHANGED <<future, svcJobs, svcStatus, waiting, cause>>

Onward == svcLock' = IF svcLock.pass = 1 THEN [svcLock EXCEPT !.pc = "steps", !.pass = 2]
                                         ELSE [svcLock EXCEPT !.pc = "save"]

(* An error ends the run in an exception, and the instance in error. *)
Return(r) ==
    /\ svcLock.pc = "call"
    /\ IF ~check_for_errors(r)
       THEN /\ IF r.status = 202
               THEN waiting' = waiting \cup {calls} /\ UNCHANGED task
               ELSE task' = clear_retry_state([task EXCEPT !.state = "COMPLETED"]) /\ UNCHANGED waiting
            /\ Onward /\ UNCHANGED <<svcStatus, cause>>
       ELSE /\ cause' = error_status_code(r)
            /\ IF should_retry(task, error_status_code(r))
               THEN task' = schedule_retry(task) /\ Onward /\ UNCHANGED svcStatus
               ELSE /\ task' = [task EXCEPT !.state = "ERROR"]
                    /\ svcStatus' = "error" /\ svcLock' = Free
            /\ UNCHANGED waiting
    /\ UNCHANGED <<future, svcJobs, calls>>

(* A boundary event of the diagram catches the error code. *)
catch_error_codes(r) ==
    /\ svcLock.pc = "call" /\ check_for_errors(r)
    /\ task' = clear_retry_state([task EXCEPT !.state = "CANCELLED"])
    /\ cause' = error_status_code(r) /\ Onward
    /\ UNCHANGED <<future, svcJobs, svcStatus, calls, waiting>>

status_of(t) == IF t.state \in {"COMPLETED", "CANCELLED"} THEN "complete"
                ELSE IF t.state = "READY" THEN "running" ELSE "waiting"

(* The save of the second pass, the retry's row and job, and, for a job    *)
(* that names the task, the end of its future task.                        *)
SaveAndRelease ==
    /\ svcLock.pc = "save"
    /\ svcStatus' = status_of(task)
    /\ IF svcLock.guid /\ task.state \in {"COMPLETED", "ERROR", "CANCELLED"} /\ future.row
       THEN future' = [future EXCEPT !.completed = TRUE] /\ UNCHANGED svcJobs
       ELSE schedule_waiting_timer_events(task)
    /\ svcLock' = Free
    /\ UNCHANGED <<task, calls, waiting, cause>>

-----------------------------------------------------------------------------
(* complete_waiting_callback: the connector of an accepted call reports.   *)
(* It may do so late, twice, or not at all; the task does not remember     *)
(* which call it waits for.                                                *)

service_task_submit_callback(w) == w \in waiting /\ svcLock = Free /\ task.state = "STARTED"

get_callback_body(w, sync) ==
    /\ service_task_submit_callback(w)
    /\ ~sync \/ allowed_to_run(svcStatus)
    /\ task' = [task EXCEPT !.state = "COMPLETED"]
    /\ svcStatus' = IF sync THEN "complete" ELSE "running"
    /\ svcJobs' = IF sync THEN svcJobs ELSE svcJobs \cup {Plain}
    /\ UNCHANGED <<future, svcLock, calls, waiting, cause>>

(* A body the endpoint cannot use faults the instance. *)
invalid_callback_body(w) ==
    /\ service_task_submit_callback(w)
    /\ svcStatus' = "error"
    /\ UNCHANGED <<task, future, svcJobs, svcLock, calls, waiting, cause>>

schedule_retry_for_callback_error(w, r) ==
    /\ service_task_submit_callback(w)
    /\ check_for_errors(r) /\ allowed_to_run(svcStatus)
    /\ cause' = error_status_code(r)
    /\ IF should_retry(task, error_status_code(r))
       THEN /\ task' = schedule_retry(task) /\ svcStatus' = "waiting"
            /\ schedule_waiting_timer_events(schedule_retry(task))
       ELSE /\ task' = [task EXCEPT !.state = "ERROR"] /\ svcStatus' = "error"
            /\ UNCHANGED <<future, svcJobs>>
    /\ UNCHANGED <<svcLock, calls, waiting>>

-----------------------------------------------------------------------------
(* Requests of users of the same instance *)

(* A submit of another task saves and asks for a run when it lets go. *)
Submit ==
    /\ svcLock = Free /\ allowed_to_run(svcStatus)
    /\ svcLock' = [Free EXCEPT !.pc = "request"]
    /\ UNCHANGED <<task, future, svcJobs, svcStatus, calls, waiting, cause>>

Submitted ==
    /\ svcLock.pc = "request"
    /\ svcLock' = Free /\ svcStatus' = "running" /\ svcJobs' = svcJobs \cup {Plain}
    /\ UNCHANGED <<task, future, calls, waiting, cause>>

suspend ==
    /\ svcLock = Free /\ svcStatus' = "suspended"
    /\ UNCHANGED <<task, future, svcJobs, svcLock, calls, waiting, cause>>

(* Refused while a task is in error; brings archived rows back to life. *)
resume ==
    /\ svcLock = Free /\ svcStatus = "suspended" /\ task.state # "ERROR"
    /\ svcStatus' = "waiting"
    /\ future' = IF future.completed THEN future ELSE [future EXCEPT !.archived = FALSE]
    /\ svcJobs' = svcJobs \cup {Plain}
    /\ UNCHANGED <<task, svcLock, calls, waiting, cause>>

ServiceTasksNext ==
    \/ Tick \/ do_process_future_tasks \/ Execute \/ SaveAndRelease
    \/ \E j \in svcJobs, again \in BOOLEAN : run_queued_process_instance(j, again)
    \/ \E r \in call_connector : Return(r)
    \/ \E r \in call_connector : catch_error_codes(r)
    \/ \E w \in waiting, sync \in BOOLEAN : get_callback_body(w, sync)
    \/ \E w \in waiting : invalid_callback_body(w)
    \/ \E w \in waiting, u \in Upstream : schedule_retry_for_callback_error(w, async_http_on_post(u))
    \/ Submit \/ Submitted \/ suspend \/ resume

ServiceTasksSpec == ServiceTasksInit /\ [][ServiceTasksNext]_svcVars

-----------------------------------------------------------------------------
(* Retries bound the calls of the connector, whatever jobs are delivered   *)
(* twice and whatever late or repeated callbacks arrive.                   *)
CallsBounded == calls <= Retries + 1

(* A retry is never forgotten: while one is scheduled and the instance is  *)
(* free to run, a job is on its way or the poll will publish one, however  *)
(* many jobs found the instance locked or suspended before.                *)
RetryNotForgotten ==
    (task.state = "STARTED" /\ task.at # None /\ svcLock = Free /\ allowed_to_run(svcStatus)) =>
        \/ svcJobs # {}
        \/ future.row /\ ~future.completed /\ ~future.archived /\ ~future.queued

(* Only a failure that may pass (429, 5xx, unreachable) schedules a retry. *)
RetriesAreTransient ==
    (task.state = "STARTED" /\ task.at # None) => (cause = 429 \/ cause >= 500)

(* The three together, on states of the right type.                        *)
RetriesSound == ServiceTasksTypeOK /\ CallsBounded /\ RetryNotForgotten /\ RetriesAreTransient
=============================================================================
