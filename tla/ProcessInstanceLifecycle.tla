---------------------- MODULE ProcessInstanceLifecycle ----------------------
(***************************************************************************)
(* What the requests, the pollers and the celery workers do to one process *)
(* instance: process_instances_controller, ProcessInstanceRuntime,         *)
(* ProcessInstanceService and process_instance_operations.                 *)
(*                                                                         *)
(* The BPMN process is a sequence of tasks.  An actor is a thread; it      *)
(* loads the workflow from the task rows into a runtime, runs it, and      *)
(* saves it back.  The lock is the one ProcessInstanceQueue implements     *)
(* (InstanceLock).  The steps are the commits and the reads between them.  *)
(***************************************************************************)
EXTENDS Integers, Sequences

CONSTANTS
    Actors, NoActor,
    Kind,           \* the tasks of the process: "engine", "human" or "timer"
    Modes,          \* deployments: [queue |-> SPIFFWORKFLOW_BACKEND_CELERY_ENABLED,
                    \*               ops |-> the operations its users invoke]
    SyncModes,      \* can a caller ask for synchronous execution? (set of BOOLEAN)
    ResetWhen,      \* statuses in which they reset (the frontend offers it when suspended)
    TaskFails,      \* can an engine task raise?
    FaultStatus,    \* fault_or_suspend_on_exception: "error" or "suspended"
    MaxJobs,        \* bound on run jobs in the broker
    MaxRequests     \* bound on what users ask for

(* The start event comes first: a human task is offered once a run saved.  *)
ASSUME KindAssumption == Kind \in Seq({"engine", "human", "timer"}) /\ Kind # <<>> /\ Kind[1] = "engine"

ASSUME LifecycleConstants ==
    /\ NoActor \notin Actors
    /\ SyncModes \subseteq BOOLEAN /\ TaskFails \in BOOLEAN
    /\ FaultStatus \in {"error", "suspended"}
    /\ MaxJobs \in Nat /\ MaxRequests \in Nat

VARIABLES
    status,    \* process_instance.status
    wf,        \* the task rows: tasks completed, and what became of the next
    row,       \* process_instance_queue.status
    lock,      \* process_instance_queue.locked_by
    exists,    \* FALSE once the instance was deleted
    jobs,      \* process_instance_run jobs in the broker
    mode,      \* this deployment
    due,       \* timers whose time has come
    act,       \* each actor: where it is, in what operation, with which runtime
    ran,       \* ghost: how often each task ran since it was last rewound
    commits,   \* ghost: parity of the saves made under the lock
    rewound,   \* ghost: has somebody reset the instance?
    asked      \* requests so far

lifeVars == <<status, wf, row, lock, exists, jobs, mode, due, act, ran, commits, rewound, asked>>

N == Len(Kind)
Wf == [done : 0..N, next : {"live", "error", "cancelled"}]
terminal_statuses == {"complete", "error", "terminated"}
Statuses == terminal_statuses
            \cup {"not_started", "running", "waiting", "user_input_required", "suspended"}
RequestOps == {"direct", "terminate", "suspend", "resume", "submit", "manual", "event",
               "stream", "reset"}
Ops  == RequestOps \cup {"none", "job", "poll"}
PCs  == {"idle", "lock", "load", "run", "commit", "fault", "release", "gap", "relock",
         "rewind", "restore"}
Actor == [pc : PCs, op : Ops, rt : Wf, base : {0, 1}, n : 0..3,
          sync : BOOLEAN, want : Statuses, was : BOOLEAN, exc : BOOLEAN]
Idle == [pc |-> "idle", op |-> "none", rt |-> [done |-> 0, next |-> "live"], base |-> 0,
         n |-> 0, sync |-> FALSE, want |-> "running", was |-> FALSE, exc |-> FALSE]

TypeOK ==
    /\ status \in Statuses /\ row \in Statuses /\ wf \in Wf
    /\ lock \in Actors \cup {NoActor} /\ exists \in BOOLEAN /\ mode \in Modes
    /\ jobs \in 0..MaxJobs /\ due \subseteq 1..N /\ commits \in {0, 1} /\ rewound \in BOOLEAN /\ asked \in 0..MaxRequests
    /\ ran \in [1..N -> 0..2]
    /\ act \in [Actors -> Actor]

Init ==
    /\ status = "not_started" /\ row = "not_started"
    /\ wf = [done |-> 0, next |-> "live"] /\ lock = NoActor /\ exists = TRUE
    /\ jobs = 0 /\ mode \in Modes /\ due = {} /\ act = [a \in Actors |-> Idle]
    /\ ran = [k \in 1..N |-> 0] /\ commits = 0 /\ rewound = FALSE /\ asked = 0

-----------------------------------------------------------------------------
(* What the code reads off an instance *)

has_terminal_status(s) == s \in terminal_statuses
allowed_to_run(s)      == ~has_terminal_status(s) /\ s # "suspended"
can_submit_task(s)     == ~has_terminal_status(s) /\ s # "suspended"

(* The task after the completed ones, if it is READY or WAITING. *)
Current(w) == IF w.done < N /\ w.next = "live" THEN Kind[w.done + 1] ELSE "none"
Ready(w, d) == Current(w) = "engine" \/ (Current(w) = "timer" /\ w.done + 1 \in d)

status_of(w, d) ==
    CASE w.next = "cancelled" \/ w.done = N        -> "complete"
      [] w.next = "live" /\ Current(w) = "human"   -> "user_input_required"
      [] w.next = "live" /\ Ready(w, d)            -> "running"
      [] OTHER                                     -> "waiting"

should_queue_process_instance(sync) == mode.queue /\ ~sync

Goto(a, label) == act' = [act EXCEPT ![a].pc = label]
Ask == asked < MaxRequests /\ asked' = asked + 1
Begin(a, op, sync) ==
    /\ act[a].pc = "idle" /\ exists /\ Ask
    /\ act' = [act EXCEPT ![a] = [Idle EXCEPT !.pc = "lock", !.op = op, !.sync = sync]]
Publish == jobs' = IF jobs < MaxJobs THEN jobs + 1 ELSE jobs

-----------------------------------------------------------------------------
(* Requests: the tests they make before they ask for the lock *)

process_instance_run(a, sync, force) ==
    /\ "run" \in mode.ops
    /\ status = "not_started" \/ force
    /\ IF should_queue_process_instance(sync)
       THEN act[a].pc = "idle" /\ exists /\ Ask /\ Publish /\ UNCHANGED act
       ELSE Begin(a, "direct", sync) /\ UNCHANGED jobs
    /\ UNCHANGED <<status, wf, row, lock, exists, mode, due, ran, commits, rewound>>

process_instance_terminate(a) ==
    /\ "terminate" \in mode.ops /\ Begin(a, "terminate", FALSE)
    /\ UNCHANGED <<status, wf, row, lock, exists, jobs, mode, due, ran, commits, rewound>>

process_instance_suspend(a) ==
    /\ "suspend" \in mode.ops /\ Begin(a, "suspend", FALSE)
    /\ UNCHANGED <<status, wf, row, lock, exists, jobs, mode, due, ran, commits, rewound>>

process_instance_resume(a) ==
    /\ "resume" \in mode.ops /\ Begin(a, "resume", FALSE)
    /\ UNCHANGED <<status, wf, row, lock, exists, jobs, mode, due, ran, commits, rewound>>

task_submit_shared(a, sync) ==
    /\ "submit" \in mode.ops
    /\ can_submit_task(status) /\ Current(wf) = "human"
    /\ Begin(a, "submit", sync)
    /\ UNCHANGED <<status, wf, row, lock, exists, jobs, mode, due, ran, commits, rewound>>

manual_complete_request(a) ==
    /\ "manual" \in mode.ops
    /\ status = "suspended"
    /\ Begin(a, "manual", FALSE)
    /\ UNCHANGED <<status, wf, row, lock, exists, jobs, mode, due, ran, commits, rewound>>

send_bpmn_event(a) ==
    /\ "event" \in mode.ops /\ Begin(a, "event", FALSE)
    /\ UNCHANGED <<status, wf, row, lock, exists, jobs, mode, due, ran, commits, rewound>>

(* The interstitial page: runs tasks under the lock it takes, streams only *)
(* when it cannot have it.                                                 *)
dequeued_interstitial_stream(a) ==
    /\ "stream" \in mode.ops /\ Begin(a, "stream", FALSE)
    /\ UNCHANGED <<status, wf, row, lock, exists, jobs, mode, due, ran, commits, rewound>>

process_instance_delete(a) ==
    /\ "delete" \in mode.ops
    /\ act[a].pc = "idle" /\ exists /\ has_terminal_status(status) /\ Ask
    /\ exists' = FALSE
    /\ UNCHANGED <<status, wf, row, lock, jobs, mode, due, act, ran, commits, rewound>>

-----------------------------------------------------------------------------
(* Background work *)

(* do_waiting: peek_many on the row's status and an unlocked row; the      *)
(* instance is published, or run by the poller itself.  The scheduler runs *)
(* one poller per status, never two of the same.                           *)
do_waiting(a, value) ==
    /\ row = value /\ lock = NoActor /\ exists
    /\ \A b \in Actors : ~(act[b].op = "poll" /\ act[b].want = value)
    /\ act[a].pc = "idle"
    /\ IF should_queue_process_instance(FALSE)
       THEN jobs < MaxJobs /\ Publish /\ UNCHANGED act
       ELSE act' = [act EXCEPT ![a] =
                [Idle EXCEPT !.pc = "lock", !.op = "poll", !.want = value]] /\ UNCHANGED jobs
    /\ UNCHANGED <<status, wf, row, lock, exists, mode, due, ran, commits, rewound, asked>>

(* A worker takes a run job; the job of a deleted instance is skipped. *)
run_queued_process_instance(a) ==
    /\ act[a].pc = "idle" /\ jobs > 0
    /\ jobs' = jobs - 1
    /\ act' = IF exists THEN [act EXCEPT ![a] = [Idle EXCEPT !.pc = "lock", !.op = "job"]] ELSE act
    /\ UNCHANGED <<status, wf, row, lock, exists, mode, due, ran, commits, rewound, asked>>

TimerDue(k) ==
    /\ Kind[k] = "timer" /\ due' = due \cup {k}
    /\ UNCHANGED <<status, wf, row, lock, exists, jobs, mode, act, ran, commits, rewound, asked>>

-----------------------------------------------------------------------------
(* with ProcessInstanceQueueService.dequeued(process_instance) *)

(* Faulty variant: takes the lock from whoever has it. *)
DequeueAnyway(a) ==
    /\ act[a].pc \in {"lock", "relock"} /\ exists
    /\ lock' = a
    /\ Goto(a, CASE act[a].pc = "relock"             -> "run"
                 [] act[a].op \in {"suspend", "resume"} -> "commit"
                 [] OTHER                            -> "load")
    /\ UNCHANGED <<status, wf, row, exists, jobs, mode, due, ran, commits, rewound, asked>>

(* The first lock of a direct run and the one do_engine_steps takes for    *)
(* itself; the other operations load their runtime under their only lock.  *)
Dequeue(a) ==
    /\ act[a].pc \in {"lock", "relock"} /\ exists /\ lock = NoActor
    /\ lock' = a
    /\ Goto(a, CASE act[a].pc = "relock"             -> "run"
                 [] act[a].op \in {"suspend", "resume"} -> "commit"
                 [] OTHER                            -> "load")
    /\ UNCHANGED <<status, wf, row, exists, jobs, mode, due, ran, commits, rewound, asked>>

(* Faulty variant: a submit retries without end. *)
AlreadyLockedRetries(a) ==
    /\ act[a].pc \in {"lock", "relock"} /\ exists /\ lock \notin {NoActor, a}
    /\ act' = [act EXCEPT ![a] = IF act[a].op = "submit" THEN [@ EXCEPT !.n = @ + 1] ELSE Idle]
    /\ status' = IF act[a].op \in {"direct", "terminate", "suspend", "resume", "event"}
                 THEN FaultStatus ELSE status
    /\ UNCHANGED <<wf, row, lock, exists, jobs, mode, due, ran, commits, rewound, asked>>

(* AlreadyLocked.  terminate, suspend, resume, run and send_bpmn_event     *)
(* answer it with handle_error, which writes the status; a submit tries    *)
(* three times; a job reports "locked", a poller will try again later.     *)
AlreadyLocked(a) ==
    /\ act[a].pc \in {"lock", "relock"} /\ exists /\ lock \notin {NoActor, a}
    /\ IF act[a].op = "submit" /\ act[a].n < 2
       THEN act' = [act EXCEPT ![a].n = @ + 1] /\ UNCHANGED status
       ELSE /\ act' = [act EXCEPT ![a] = Idle]
            /\ status' = IF act[a].op \in {"direct", "terminate", "suspend", "resume", "event"}
                         THEN FaultStatus ELSE status
    /\ UNCHANGED <<wf, row, lock, exists, jobs, mode, due, ran, commits, rewound, asked>>

(* The queue row went with the instance: nothing can be locked any more. *)
NotEnqueued(a) ==
    /\ act[a].pc \notin {"idle"} /\ ~exists
    /\ act' = [act EXCEPT ![a] = Idle]
    /\ lock' = IF lock = a THEN NoActor ELSE lock
    /\ UNCHANGED <<status, wf, row, exists, jobs, mode, due, ran, commits, rewound, asked>>

(* Faulty variant: a job runs whatever the status is. *)
LoadRuntimeUnchecked(a) ==
    /\ act[a].pc = "load" /\ exists
    /\ act' = [act EXCEPT
            ![a].rt = wf, ![a].base = commits, ![a].was = status = "suspended",
            ![a].pc = CASE act[a].op \in {"direct", "poll"}         -> "release"
                        [] act[a].op \in {"terminate", "manual"}    -> "commit"
                        [] OTHER                                    -> "run"]
    /\ UNCHANGED <<status, wf, row, lock, exists, jobs, mode, due, ran, commits, rewound, asked>>

(* ProcessInstanceRuntime(process_instance): the workflow as the task rows *)
(* have it.  An unrunnable instance, or a submitted task that is not READY *)
(* any more, raises inside the block.                                      *)
LoadRuntime(a) ==
    /\ act[a].pc = "load" /\ exists
    /\ LET gone == act[a].op = "submit" /\ Current(wf) # "human"
           stop == act[a].op \in {"job", "event", "stream"} /\ ~allowed_to_run(status)
       IN act' = [act EXCEPT
            ![a].rt = wf, ![a].base = commits, ![a].exc = gone \/ stop,
            ![a].was = status = "suspended",
            ![a].pc = CASE gone                                       -> "fault"
                        [] stop \/ act[a].op \in {"direct", "poll"}   -> "release"
                        [] act[a].op \in {"terminate", "manual"}      -> "commit"
                        [] OTHER                                      -> "run"]
    /\ UNCHANGED <<status, wf, row, lock, exists, jobs, mode, due, ran, commits, rewound, asked>>

(* Between the two locks of run_process_instance_with_runtime: a poller    *)
(* skips an instance whose status moved; do_engine_steps refuses one that  *)
(* may not run, which process_instance_run answers with handle_error.      *)
run_process_instance_with_runtime(a) ==
    /\ act[a].pc = "gap" /\ exists
    /\ IF (act[a].op = "poll" /\ status # act[a].want) \/ ~allowed_to_run(status)
       THEN /\ act' = [act EXCEPT ![a] = Idle]
            /\ status' = IF act[a].op = "direct" THEN FaultStatus ELSE status
       ELSE Goto(a, "relock") /\ UNCHANGED status
    /\ UNCHANGED <<wf, row, lock, exists, jobs, mode, due, ran, commits, rewound, asked>>

-----------------------------------------------------------------------------
(* Running and saving a runtime *)

(* How far the engine gets: automatic tasks and timers that are due. *)
Reach(w, d) ==
    CHOOSE m \in 0..N - w.done :
        /\ w.next = "live" \/ m = 0
        /\ \A j \in 1..m : Kind[w.done + j] = "engine" \/ w.done + j \in d
        /\ w.next = "live" /\ w.done + m < N =>
              ~(Kind[w.done + m + 1] = "engine" \/ w.done + m + 1 \in d)

(* run_current_ready_tasks takes one step, greedy all, the strategies that *)
(* stop at instructions or at the auto-save limits at least one.           *)
StepsToRun(a) ==
    LET m == Reach(act[a].rt, due) IN
    IF act[a].op = "job" /\ act[a].n = 0 THEN {IF m = 0 THEN 0 ELSE 1}
    ELSE IF act[a].sync THEN {m}
    ELSE IF m = 0 THEN {0} ELSE 1..m

Advance(w, m) == [w EXCEPT !.done = @ + m]

(* runtime.save(): the task rows, the status, one commit. *)
save(a, w, s) ==
    /\ wf' = w /\ status' = s
    /\ commits' = IF lock = a THEN 1 - commits ELSE commits

(* Counts to 2: once, or more than once. *)
RanSteps(w, m) ==
    [k \in 1..N |-> IF k > w.done /\ k <= w.done + m /\ ran[k] < 2 THEN ran[k] + 1 ELSE ran[k]]

(* do_engine_steps: _run_and_save, and for a job the second pass that      *)
(* run_queued_process_instance makes with a runtime it loads again.        *)
do_engine_steps(a) ==
    /\ act[a].pc = "run" /\ exists
    /\ act[a].op # "submit" \/ act[a].n = 3
    /\ \E m \in StepsToRun(a) :
         LET w == Advance(act[a].rt, m) IN
         \/ /\ save(a, w, status_of(w, due))
            /\ ran' = RanSteps(act[a].rt, m)
            /\ act' = [act EXCEPT ![a].rt = w, ![a].n = 1, ![a].base = commits',
                  ![a].pc = IF act[a].op = "job" /\ act[a].n = 0 THEN "load" ELSE "release"]
         \/ /\ TaskFails /\ Current(w) = "engine" /\ m < Reach(act[a].rt, due)
            /\ save(a, [w EXCEPT !.next = "error"], "waiting")
            /\ ran' = RanSteps(act[a].rt, m)
            /\ act' = [act EXCEPT ![a].exc = TRUE, ![a].pc = "fault", ![a].n = 1,
                                  ![a].base = commits']
    /\ UNCHANGED <<row, lock, exists, jobs, mode, due, rewound, asked>>

(* complete_form_task: the human task, saved; then the engine, unless a    *)
(* worker is going to do that.                                             *)
complete_form_task(a) ==
    /\ act[a].pc = "run" /\ act[a].op = "submit" /\ act[a].n # 3 /\ exists
    /\ LET w == Advance(act[a].rt, 1) IN
         /\ save(a, w, status_of(w, due))
         /\ ran' = RanSteps(act[a].rt, 1)
         /\ act' = [act EXCEPT ![a].rt = w, ![a].n = 3, ![a].base = commits',
               ![a].pc = IF should_queue_process_instance(act[a].sync) THEN "release" ELSE "run"]
    /\ UNCHANGED <<row, lock, exists, jobs, mode, due, rewound, asked>>

(* manual_complete_task: the current task, also one in ERROR; the save     *)
(* resets the status, which is then put back.                              *)
manual_complete_task(a) ==
    /\ act[a].pc = "commit" /\ act[a].op = "manual" /\ exists
    /\ IF act[a].rt.done < N /\ act[a].rt.next # "cancelled"
       THEN \/ LET w == [Advance(act[a].rt, 1) EXCEPT !.next = "live"] IN
               /\ save(a, w, status_of(w, due)) /\ ran' = RanSteps(act[a].rt, 1)
               /\ Goto(a, "restore")
            \/ /\ TaskFails /\ Kind[act[a].rt.done + 1] = "engine"
               /\ save(a, [act[a].rt EXCEPT !.next = "error"], "waiting") /\ UNCHANGED ran
               /\ act' = [act EXCEPT ![a].pc = "restore", ![a].exc = TRUE]
       ELSE /\ act' = [act EXCEPT ![a].pc = "fault", ![a].exc = TRUE]
            /\ UNCHANGED <<wf, status, commits, ran>>
    /\ UNCHANGED <<row, lock, exists, jobs, mode, due, rewound, asked>>

(* terminate: the tasks are cancelled and saved, and a cancelled workflow  *)
(* is complete; the status follows in a second commit.                     *)
remove_spiff_tasks_for_termination(a) ==
    /\ act[a].pc = "commit" /\ act[a].op = "terminate" /\ exists
    /\ save(a, [act[a].rt EXCEPT !.next = IF act[a].rt.done < N THEN "cancelled" ELSE @], "complete")
    /\ Goto(a, "restore")
    /\ UNCHANGED <<row, lock, exists, jobs, mode, due, ran, rewound, asked>>

terminate(a) ==
    /\ act[a].pc = "restore" /\ act[a].op = "terminate" /\ exists
    /\ status' = "terminated" /\ Goto(a, "release")
    /\ UNCHANGED <<wf, row, lock, exists, jobs, mode, due, ran, commits, rewound, asked>>

(* _save_and_restore_suspension_state, second commit. *)
save_and_restore_suspension_state(a) ==
    /\ act[a].pc = "restore" /\ act[a].op \in {"manual", "reset"} /\ exists
    /\ status' = IF act[a].was THEN "suspended" ELSE status
    /\ act' = IF act[a].op = "reset" THEN [act EXCEPT ![a] = Idle]
              ELSE [act EXCEPT ![a].pc = IF act[a].exc THEN "fault" ELSE "release"]
    /\ UNCHANGED <<wf, row, lock, exists, jobs, mode, due, ran, commits, rewound, asked>>

suspend(a) ==
    /\ act[a].pc = "commit" /\ act[a].op = "suspend" /\ exists
    /\ status' = "suspended" /\ Goto(a, "release")
    /\ UNCHANGED <<wf, row, lock, exists, jobs, mode, due, ran, commits, rewound, asked>>

resume(a) ==
    /\ act[a].pc = "commit" /\ act[a].op = "resume" /\ exists
    /\ IF wf.next = "error"
       THEN act' = [act EXCEPT ![a].pc = "fault", ![a].exc = TRUE] /\ UNCHANGED status
       ELSE Goto(a, "release") /\ status' = "waiting"
    /\ UNCHANGED <<wf, row, lock, exists, jobs, mode, due, ran, commits, rewound, asked>>

(* reset_process takes no lock: it loads, rewinds, saves and puts the      *)
(* suspension back.                                                        *)
process_instance_reset(a) ==
    /\ "reset" \in mode.ops /\ act[a].pc = "idle" /\ exists /\ status \in ResetWhen
    /\ act' = [act EXCEPT ![a] = [Idle EXCEPT !.pc = "rewind", !.op = "reset", !.rt = wf,
                                              !.was = status = "suspended"]]
    /\ Ask /\ rewound' = TRUE
    /\ UNCHANGED <<status, wf, row, lock, exists, jobs, mode, due, ran, commits>>

reset_process(a, k) ==
    /\ act[a].pc = "rewind" /\ exists /\ k <= act[a].rt.done + 1
    /\ LET w == [done |-> k - 1, next |-> "live"] IN save(a, w, status_of(w, due))
    /\ ran' = [j \in 1..N |-> IF j >= k THEN 0 ELSE ran[j]]
    /\ Goto(a, "restore")
    /\ UNCHANGED <<row, lock, exists, jobs, mode, due, rewound, asked>>

-----------------------------------------------------------------------------
(* Leaving the block *)

(* dequeued's except clause: handle_error writes the fault status. *)
handle_error(a) ==
    /\ act[a].pc = "fault" /\ exists
    /\ status' = FaultStatus /\ Goto(a, "release")
    /\ UNCHANGED <<wf, row, lock, exists, jobs, mode, due, ran, commits, rewound, asked>>

(* Faulty variant: the row keeps the status it had. *)
EnqueueKeepsStatus(a) ==
    /\ act[a].pc = "release" /\ exists
    /\ lock' = NoActor
    /\ act' = [act EXCEPT ![a] = Idle]
    /\ UNCHANGED <<status, wf, row, exists, jobs, mode, due, ran, commits, rewound, asked>>

(* _enqueue publishes the status with the unlocked row.  Then a direct run *)
(* goes on to its second lock; a resume, a submit and a job that left      *)
(* ready tasks publish a run.                                              *)
Enqueue(a) ==
    /\ act[a].pc = "release" /\ exists
    /\ lock' = NoActor /\ row' = status
    /\ act' = [act EXCEPT ![a] =
         IF act[a].op \in {"direct", "poll"} /\ act[a].n = 0 /\ ~act[a].exc
         THEN [@ EXCEPT !.pc = "gap"] ELSE Idle]
    /\ IF /\ ~act[a].exc
          /\ \/ act[a].op = "resume" /\ mode.queue
             \/ act[a].op = "submit" /\ should_queue_process_instance(act[a].sync)
             \/ act[a].op = "job" /\ Ready(act[a].rt, due)
       THEN Publish ELSE UNCHANGED jobs
    /\ UNCHANGED <<status, wf, exists, mode, due, ran, commits, rewound, asked>>

-----------------------------------------------------------------------------
Request(a) ==
    \/ \E sync \in SyncModes, force \in BOOLEAN : process_instance_run(a, sync, force)
    \/ \E sync \in SyncModes : task_submit_shared(a, sync)
    \/ process_instance_terminate(a) \/ process_instance_suspend(a) \/ process_instance_resume(a)
    \/ manual_complete_request(a) \/ send_bpmn_event(a) \/ dequeued_interstitial_stream(a)
    \/ process_instance_delete(a) \/ process_instance_reset(a)

Poll(a) == \E v \in {"not_started", "running", "waiting", "user_input_required"} : do_waiting(a, v)

Step(a) ==
    \/ Dequeue(a) \/ AlreadyLocked(a) \/ NotEnqueued(a) \/ LoadRuntime(a)
    \/ run_process_instance_with_runtime(a) \/ do_engine_steps(a) \/ complete_form_task(a)
    \/ manual_complete_task(a) \/ remove_spiff_tasks_for_termination(a) \/ terminate(a)
    \/ save_and_restore_suspension_state(a) \/ suspend(a) \/ resume(a)
    \/ \E k \in 1..N : reset_process(a, k)
    \/ handle_error(a) \/ Enqueue(a)

Next ==
    \/ \E a \in Actors : Request(a) \/ Poll(a) \/ run_queued_process_instance(a) \/ Step(a)
    \/ \E k \in 1..N : TimerDue(k)

Spec == Init /\ [][Next]_lifeVars

(* Pollers run on a schedule, workers consume the broker's queue, threads  *)
(* go on with what they began, and time passes.                            *)
FairSpec ==
    /\ Spec
    /\ \A a \in Actors : WF_lifeVars(Step(a))
    /\ SF_lifeVars(\E a \in Actors : Poll(a))
    /\ SF_lifeVars(\E a \in Actors : run_queued_process_instance(a))
    /\ \A k \in 1..N : WF_lifeVars(TimerDue(k))

-----------------------------------------------------------------------------
(* Properties *)

(* A runtime that is saved under the lock it was loaded under is never     *)
(* stale: no other holder saved in between.  (A direct run loads under one *)
(* lock and saves under the next: it is the exception.)                    *)
RuntimeCurrent ==
    \A a \in Actors :
        act[a].pc \in {"run", "commit"}
        /\ act[a].op \notin {"direct", "poll", "suspend", "resume"} => act[a].base = commits

(* No task runs twice, unless the instance was rewound (a reset takes no   *)
(* lock) or somebody runs directly, in two locks.                          *)
RunsOnce == mode.queue /\ ~rewound => \A k \in 1..N : ran[k] <= 1

(* Both: the lock of dequeued, held from load to save, keeps one worker's  *)
(* run from being saved over another's.                                    *)
NoLostRun == RuntimeCurrent /\ RunsOnce

(* A worker never takes an instance out of suspension, however late its    *)
(* job arrives; a reset, which shows another status for a moment, is the   *)
(* exception.                                                              *)
JobsRespectSuspend ==
    [][\A a \in Actors : ~rewound /\ act[a].op = "job" /\ act'[a] # act[a]
                            /\ status = "suspended" => status' = "suspended"]_lifeVars

(* "The process instance remains suspended until you resume it"            *)
(* (docs/how_to_guides/manage_processes.md:89): only a resume, a           *)
(* terminate, a rewind, the manual completion that puts the suspension     *)
(* back, and an error may write another status over it.                    *)
SuspendHolds ==
    [][\A a \in Actors :
          act'[a] # act[a] /\ status = "suspended" /\ status' \notin {"suspended", FaultStatus}
          => act[a].op \in {"resume", "terminate", "reset", "manual"}]_lifeVars

(* An instance that may run and has a ready task does not stay there. *)
RunnableRuns ==
    (exists /\ allowed_to_run(status) /\ Ready(wf, due))
        ~> (~exists \/ ~allowed_to_run(status) \/ ~Ready(wf, due))
=============================================================================
