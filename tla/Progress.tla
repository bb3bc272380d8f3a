-------------------------------- MODULE Progress --------------------------------
(* The progress page: a background job runs an instance's automated tasks and *)
(* queues the instructions some of them have for the user, and the tabs that  *)
(* show the page poll process_instance_progress, which hands the queued       *)
(* instructions out, marks them as retrieved, and says where to go next.      *)
(*                                                                            *)
(* A job under the instance's lock (run_queued_process_instance) first runs   *)
(* the ready task with the strategy run_current_ready_tasks and saves, then   *)
(* runs on with queue_instructions_for_end_user, which stops before a task    *)
(* that has instructions, to save after a while, or when nothing is ready.    *)
EXTENDS Naturals, FiniteSets, Sequences

CONSTANTS
  TaskKinds,  \* the tasks in order: "auto", "note" (has instructions), "human"
  MaxTasks,   \* SPIFFWORKFLOW_BACKEND_AUTO_SAVE_MAX_TASKS
  Tabs        \* the browser tabs on the page

\* The first task is SpiffWorkflow's Start, which has no instructions.
ASSUME ProgressConstants ==
  /\ TaskKinds \in Seq({"auto", "note", "human"}) /\ TaskKinds # <<>>
  /\ TaskKinds[1] = "auto"
  /\ MaxTasks \in Nat \ {0}

VARIABLES
  next,       \* the task that is ready, as saved; after the last one, Len(TaskKinds) + 1
  pgStatus,   \* the instance's status, as saved
  noted,      \* task_instructions_for_end_user: "none", "new" or "retrieved"
  job,        \* the running job: its step, the task it is at, its notes, tasks run
  failed,     \* the tasks with a task_failed event, oldest first
  tab,        \* what each tab is doing, and the entries it has read
  seen,       \* the instructions some tab has shown
  lost,       \* those in an answer that never reached its tab
  cut         \* the tasks that were ready when a job ended without looking at them

pgVars == <<next, pgStatus, noted, job, failed, tab, seen, lost, cut>>

--------------------------------------------------------------------------------
AllTasks == 1..Len(TaskKinds)
Notes == {t \in AllTasks : TaskKinds[t] = "note"}
Kind(t) == IF t \in AllTasks THEN TaskKinds[t] ELSE "end"
Automated(t) == Kind(t) \in {"auto", "note"}

NoJob == [step |-> "none", at |-> 1, notes |-> {}, ran |-> 0]
Polling == [does |-> "polls", entries |-> {}, answer |-> "none"]

\* The status a save gives an instance whose ready task is t.
StatusAt(t) == CASE Automated(t) -> "running"
                 [] Kind(t) = "human" -> "user_input_required"
                 [] OTHER -> "complete"

ProgressInit ==
  /\ next = 1
  /\ pgStatus = "not_started"
  /\ noted = [t \in Notes |-> "none"]
  /\ job = NoJob
  /\ failed = <<>>
  /\ tab = [b \in Tabs |-> Polling]
  /\ seen = {}
  /\ lost = {}
  /\ cut = {}

--------------------------------------------------------------------------------
\* INSERT IGNORE: an instruction that is there, retrieved or not, stays as it is.
insert_or_update_record(notes) ==
  [t \in Notes |-> IF t \in notes /\ noted[t] = "none" THEN "new" ELSE noted[t]]

\* The instructions of the tasks that are ready; human tasks show their own.
add_instruction_for_end_user_if_appropriate(t) == {t} \cap Notes

\* The job's first run: the ready task runs, and the instance is saved.
RunCurrentReadyTasks ==
  /\ job = NoJob
  /\ pgStatus \in {"not_started", "running"}
  /\ next' = next + 1
  /\ pgStatus' = StatusAt(next + 1)
  /\ job' = [step |-> "queues", at |-> next + 1, notes |-> {}, ran |-> 0]
  /\ UNCHANGED <<noted, failed, tab, seen, lost, cut>>

\* Faulty variant: one task too many.
BreakLate(ran, overtime) == ran > MaxTasks \/ overtime

\* The automatic save: the loop breaks once it has run MaxTasks tasks, or when
\* it is over the time it has (AUTO_SAVE_MAX_SECONDS).
should_break_after(ran, overtime) == ran >= MaxTasks \/ overtime

\* One turn of spiff_run's loop under queue_instructions_for_end_user, in
\* memory: the instructions go into the session, and the loop breaks before a
\* task that has some, and when no automated task is ready.
QueueInstructions(overtime) ==
  LET notes == job.notes \cup add_instruction_for_end_user_if_appropriate(job.at)
      breaks == should_break_after(job.ran + 1, overtime)
  IN  /\ job.step = "queues"
      /\ IF Kind(job.at) # "auto"
         THEN /\ job' = [job EXCEPT !.notes = notes, !.step = "saves"]
              /\ UNCHANGED cut
         ELSE /\ job' = [job EXCEPT
                   !.notes = notes, !.at = @ + 1, !.ran = @ + 1,
                   !.step = IF breaks THEN "saves" ELSE "queues"]
              /\ cut' = cut \cup IF breaks THEN {job.at + 1} ELSE {}
      /\ UNCHANGED <<next, pgStatus, noted, failed, tab, seen, lost>>

\* The save of the second run commits tasks, status and instructions together.
SaveJob ==
  /\ job.step = "saves"
  /\ next' = job.at
  /\ pgStatus' = StatusAt(job.at)
  /\ noted' = insert_or_update_record(job.notes)
  /\ job' = NoJob
  /\ UNCHANGED <<failed, tab, seen, lost, cut>>

\* A task raises, in the first run or the second: what ran is saved all the
\* same, with the event, and handle_error sets the status.
TaskFails(t) ==
  /\ \/ job = NoJob /\ pgStatus \in {"not_started", "running"} /\ t = next
     \/ job.step = "queues" /\ Kind(job.at) = "auto" /\ t = job.at
  /\ next' = t
  /\ pgStatus' = "error"
  /\ noted' = insert_or_update_record(job.notes)
  /\ failed' = Append(failed, t)
  /\ job' = NoJob
  /\ UNCHANGED <<tab, seen, lost, cut>>

\* The worker is killed; the instance stays as the first run saved it.
KillJob ==
  /\ job # NoJob
  /\ job' = NoJob
  /\ cut' = cut \cup {next}
  /\ UNCHANGED <<next, pgStatus, noted, failed, tab, seen, lost>>

\* Faulty variant: the next instructions are left to the job.
SubmitOnly ==
  /\ job = NoJob
  /\ pgStatus = "user_input_required"
  /\ next' = next + 1
  /\ pgStatus' = StatusAt(next + 1)
  /\ UNCHANGED <<noted, job, failed, tab, seen, lost, cut>>

\* The user submits the form: the task completes, the instructions of the task
\* that becomes ready are queued, and the instance is to run in the background.
complete_form_task ==
  /\ job = NoJob
  /\ pgStatus = "user_input_required"
  /\ next' = next + 1
  /\ pgStatus' = StatusAt(next + 1)
  /\ noted' = insert_or_update_record(
                add_instruction_for_end_user_if_appropriate(next + 1))
  /\ UNCHANGED <<job, failed, tab, seen, lost, cut>>

--------------------------------------------------------------------------------
\* What the page is told: the user's next human task, or that the instance does
\* not run on by itself, with the latest error when there is one.
next_human_task_for_user == pgStatus = "user_input_required" /\ Kind(next) = "human"

process_instance_progress ==
  IF next_human_task_for_user THEN "task"
  ELSE IF pgStatus \in {"not_started", "running"} THEN "none"
  ELSE IF pgStatus = "error" /\ failed # <<>> THEN "error" ELSE "instance"

entries_for_process_instance == {t \in Notes : noted[t] = "new"}

\* The poll reads the instance and the entries.
Poll(b) ==
  /\ tab[b].does = "polls"
  /\ tab' = [tab EXCEPT ![b] = [does |-> "marks",
                                entries |-> entries_for_process_instance,
                                answer |-> process_instance_progress]]
  /\ UNCHANGED <<next, pgStatus, noted, job, failed, seen, lost, cut>>

\* Faulty variant: every new entry is marked, read or not.
MarkAll(b) == [t \in Notes |-> IF noted[t] = "new" THEN "retrieved" ELSE noted[t]]

\* It then marks the entries it read, commits, and answers.
retrieve_and_clear(b) ==
  [t \in Notes |-> IF t \in tab[b].entries THEN "retrieved" ELSE noted[t]]

\* The page goes where the answer says, or shows the instructions and polls on.
Answered(b) ==
  /\ tab[b].does = "marks"
  /\ noted' = retrieve_and_clear(b)
  /\ seen' = seen \cup tab[b].entries
  /\ tab' = [tab EXCEPT ![b] =
       IF tab[b].answer = "none" THEN Polling
       ELSE [does |-> "left", entries |-> {}, answer |-> tab[b].answer]]
  /\ UNCHANGED <<next, pgStatus, job, failed, lost, cut>>

\* The answer is lost on its way: the page stops.
AnswerLost(b) ==
  /\ tab[b].does = "marks"
  /\ noted' = retrieve_and_clear(b)
  /\ lost' = lost \cup tab[b].entries
  /\ tab' = [tab EXCEPT ![b] = [does |-> "left", entries |-> {}, answer |-> "none"]]
  /\ UNCHANGED <<next, pgStatus, job, failed, seen, cut>>

\* The user opens the page again (after the form, or from the instance).
OpenPage(b) ==
  /\ tab[b].does = "left"
  /\ pgStatus \in {"not_started", "running"}
  /\ tab' = [tab EXCEPT ![b] = Polling]
  /\ UNCHANGED <<next, pgStatus, noted, job, failed, seen, lost, cut>>

ProgressNext ==
  \/ RunCurrentReadyTasks
  \/ \E overtime \in BOOLEAN : QueueInstructions(overtime)
  \/ SaveJob
  \/ \E t \in AllTasks : TaskFails(t)
  \/ KillJob
  \/ complete_form_task
  \/ \E b \in Tabs : Poll(b)
  \/ \E b \in Tabs : Answered(b)
  \/ \E b \in Tabs : AnswerLost(b)
  \/ \E b \in Tabs : OpenPage(b)

ProgressSpec == ProgressInit /\ [][ProgressNext]_pgVars

--------------------------------------------------------------------------------
ProgressTypeOK ==
  /\ next \in 1..(Len(TaskKinds) + 1)
  /\ pgStatus \in {"not_started", "running", "user_input_required", "complete", "error"}
  /\ noted \in [Notes -> {"none", "new", "retrieved"}]
  /\ job \in [step : {"none", "queues", "saves"}, at : 1..(Len(TaskKinds) + 1),
              notes : SUBSET Notes, ran : 0..MaxTasks]
  /\ failed \in Seq(AllTasks)
  /\ tab \in [Tabs -> [does : {"polls", "marks", "left"}, entries : SUBSET Notes,
                       answer : {"none", "task", "instance", "error"}]]
  /\ seen \subseteq Notes
  /\ lost \subseteq Notes

\* A task with instructions runs only after its instructions were queued, unless
\* a job ended right before it without looking (killed, or to save).
InstructionsQueued ==
  \A t \in Notes : t < next /\ noted[t] = "none" => t \in cut

\* Whatever two tabs and the job do to the queue in between, an instruction that
\* counts as retrieved was shown in a tab, is about to be, or was in an answer
\* that got lost.
RetrievedIsSeen ==
  \A t \in Notes : noted[t] = "retrieved" =>
    \/ t \in seen \cup lost
    \/ \E b \in Tabs : tab[b].does = "marks" /\ t \in tab[b].entries

\* Both, and the types.
ProgressSound == ProgressTypeOK /\ InstructionsQueued /\ RetrievedIsSeen

================================================================================
