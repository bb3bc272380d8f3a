------------------------------- MODULE Runner -------------------------------
(***************************************************************************)
(* spiff_arena_common/runner.py: the runner behind the editor's debugger   *)
(* and the BPMN unit tests.  A session keeps its workflow and the full     *)
(* state after every step; the client names a step to jump back to.  A     *)
(* unit test replays a recording, the stack of answers given to the tasks  *)
(* that wait for somebody.                                                 *)
(*                                                                         *)
(* A workflow is its tasks 1, 2, ... in tree order; a task becomes READY   *)
(* when the tasks before it are done.  Its data is the set of tasks whose  *)
(* answer it was given.                                                    *)
(***************************************************************************)
EXTENDS Naturals, Sequences, FiniteSets

CONSTANTS TaskKind,    \* sequence of "script", "custom" (waits for an answer), "timer"
          Before,      \* Before[t]: the tasks that must be done before t
          HistoryCap,  \* STEP_HISTORY_CAP
          MaxSteps     \* bound on the steps of a session

ASSUME RunnerConstants ==
    /\ TaskKind \in Seq({"script", "custom", "timer"})
    /\ HistoryCap \in Nat /\ MaxSteps \in Nat

RunTasks == 1 .. Len(TaskKind)

VARIABLES cachedWorkflow, \* _workflow_cache: the session's workflow, or NoWorkflow
          history,        \* _step_history_cache: full states, evicted ones NoWorkflow
          shown,          \* ghost: the state each response showed to the client
          resumed,        \* ghost: <<what the client meant to continue from, what was>>
          tape            \* a unit test: the answers still to replay, and what happened

runVars == <<cachedWorkflow, history, shown, resumed, tape>>

NoWorkflow == [t \in {} |-> "none"]
NoTape == [left |-> <<>>, ran |-> <<>>, wf |-> NoWorkflow, end |-> "none", from |-> <<>>]
States == [RunTasks -> {"FUTURE", "READY", "WAITING", "STARTED", "COMPLETED"}]

RunnerTypeOK ==
    /\ cachedWorkflow \in States \cup {NoWorkflow}
    /\ history \in Seq(States \cup {NoWorkflow}) /\ Len(history) <= MaxSteps
    /\ shown \in Seq(States) /\ Len(shown) = Len(history)
    /\ tape.wf \in States \cup {NoWorkflow}

-----------------------------------------------------------------------------
(* SpiffWorkflow: what completing a task makes of the others.  A timer     *)
(* waits, every other task is READY.                                       *)
Settle(w) ==
    [t \in RunTasks |->
        IF w[t] = "FUTURE" /\ \A b \in Before[t] : w[b] = "COMPLETED"
        THEN IF TaskKind[t] = "timer" THEN "WAITING" ELSE "READY"
        ELSE w[t]]

NewWorkflow == Settle([t \in RunTasks |-> "FUTURE"])
Completed(w) == \A t \in RunTasks : w[t] = "COMPLETED"
Complete(w, t) == Settle([w EXCEPT ![t] = "COMPLETED"])

(* A task of the runner's own classes stops in STARTED, for its answer. *)
Run(w, t) == IF TaskKind[t] = "custom" THEN [w EXCEPT ![t] = "STARTED"] ELSE Complete(w, t)

force_timer_event(w, t) == [w EXCEPT ![t] = "READY"]

(* The next READY task, looked for after the completed one first; 0: none. *)
next_task(w, from) ==
    LET ready == {t \in RunTasks : w[t] = "READY"}
        after == {t \in ready : t = from \/ from \in Before[t]}
        S     == IF after # {} THEN after ELSE ready
    IN  IF S = {} THEN 0 ELSE CHOOSE t \in S : \A u \in S : t <= u

(* The loop of _advance_workflow: run the task, find the next, stop where  *)
(* the strategy says.  n bounds the iterations (5000 in the code).         *)
Loops == [w : States, t : RunTasks \cup {0}, n : 0 .. Len(TaskKind)]
Loop(greedy) ==
    LET advance[a \in Loops] ==
            IF a.t = 0 \/ a.n = 0 THEN a.w
            ELSE LET done == IF a.w[a.t] = "STARTED" THEN Complete(a.w, a.t) ELSE Run(a.w, a.t)
                     nxt  == next_task(done, a.t)
                 IN  IF nxt = 0 \/ ~greedy \/ TaskKind[nxt] = "custom" THEN done
                     ELSE advance[[w |-> done, t |-> nxt, n |-> a.n - 1]]
    IN  advance

run_strategy(start, first, greedy) == Loop(greedy)[[w |-> start, t |-> first, n |-> Len(TaskKind)]]

-----------------------------------------------------------------------------
(* A session of the debugger *)

(* Faulty variant: the cached workflow wins over the state asked for. *)
HydrateCached(state) ==
    IF cachedWorkflow # NoWorkflow THEN cachedWorkflow
    ELSE IF state # NoWorkflow THEN state ELSE NewWorkflow

(* No state: the cached workflow.  A state: that one.  Neither: a new one. *)
hydrate_workflow(state) ==
    IF state # NoWorkflow THEN state
    ELSE IF cachedWorkflow # NoWorkflow THEN cachedWorkflow ELSE NewWorkflow

(* The full state goes to the history; beyond the cap the oldest one kept  *)
(* makes room, its place staying for the indices.                          *)
build_response(w) ==
    LET steps == Append(history, w)
        old   == Len(steps) - HistoryCap
    IN  /\ history' = IF old > 0 THEN [steps EXCEPT ![old] = NoWorkflow] ELSE steps
        /\ shown' = Append(shown, w)

(* The tasks a client can complete, or force when they are timers. *)
Pending(w) == {t \in RunTasks : w[t] = "STARTED" \/ w[t] = "READY" \/ w[t] = "WAITING"}

(* jump = 0: go on from where the session is. *)
advance_workflow(jump, pick, greedy) ==
    LET state == IF jump = 0 THEN NoWorkflow ELSE history[jump]
        w     == hydrate_workflow(state)
        t     == IF pick = 0 THEN next_task(w, 0) ELSE pick
        w0    == IF pick # 0 /\ w[pick] = "WAITING" THEN force_timer_event(w, pick) ELSE w
        out   == run_strategy(w0, t, greedy)
    IN  /\ Len(history) < MaxSteps /\ jump \in 0 .. Len(history)
        /\ pick = 0 \/ pick \in Pending(w)
        /\ cachedWorkflow' = out
        /\ build_response(out)
        /\ resumed' = <<IF jump = 0 THEN cachedWorkflow
                        ELSE IF state = NoWorkflow THEN state ELSE shown[jump], w>>
        /\ UNCHANGED tape

truncate_step_history(step) ==
    /\ step \in 1 .. Len(history)
    /\ history' = SubSeq(history, 1, step) /\ shown' = SubSeq(shown, 1, step)
    /\ UNCHANGED <<cachedWorkflow, resumed, tape>>

clear_workflow_cache ==
    /\ cachedWorkflow # NoWorkflow
    /\ cachedWorkflow' = NoWorkflow /\ history' = <<>> /\ shown' = <<>>
    /\ resumed' = <<NoWorkflow, NoWorkflow>>
    /\ UNCHANGED tape

-----------------------------------------------------------------------------
(* A unit test replays a recording: the tasks that waited, in the order    *)
(* they were answered.  The recording may be of another version of the     *)
(* diagram, so it names any tasks.                                         *)

Recordings == {r \in UNION {[1 .. n -> RunTasks] : n \in 0 .. 3} :
                  \A i \in DOMAIN r : TaskKind[r[i]] # "script"}

StartTest(r) ==
    /\ tape.end = "none" /\ tape.wf = NoWorkflow /\ history = <<>>
    /\ tape' = [NoTape EXCEPT !.left = r, !.wf = NewWorkflow, !.from = r]
    /\ UNCHANGED <<cachedWorkflow, history, shown, resumed>>

Testing == tape.end = "none" /\ tape.wf # NoWorkflow

(* READY scripts run, and timers that were forced; the loop stops at a     *)
(* task that waits for an answer.                                          *)
script_step ==
    LET t == next_task(tape.wf, 0)
    IN  /\ Testing /\ t # 0 /\ TaskKind[t] # "custom"
        /\ tape' = [tape EXCEPT !.wf = Complete(@, t)]
        /\ UNCHANGED <<cachedWorkflow, history, shown, resumed>>

AtCheckpoint == LET t == next_task(tape.wf, 0) IN t # 0 => TaskKind[t] = "custom"
fixture_cursor == IF tape.left = <<>> THEN 0 ELSE Head(tape.left)

(* A recorded timer is forced as soon as it waits. *)
replay_recorded_timer ==
    /\ Testing /\ fixture_cursor # 0 /\ TaskKind[fixture_cursor] = "timer"
    /\ IF tape.wf[fixture_cursor] = "WAITING"
       THEN tape' = [tape EXCEPT !.wf = force_timer_event(@, fixture_cursor),
                                 !.ran = Append(@, fixture_cursor), !.left = Tail(@)]
       ELSE AtCheckpoint /\ tape' = [tape EXCEPT !.end = "recorded_timer_not_waiting"]
    /\ UNCHANGED <<cachedWorkflow, history, shown, resumed>>

(* Faulty variant: any waiting task takes the next answer. *)
ReplayAnyTask ==
    LET t == next_task(tape.wf, 0)
    IN  /\ Testing /\ t # 0 /\ TaskKind[t] = "custom"
        /\ ~(fixture_cursor # 0 /\ TaskKind[fixture_cursor] = "timer")
        /\ tape' = IF fixture_cursor = 0 THEN [tape EXCEPT !.end = "fixture_exhausted"]
                   ELSE [tape EXCEPT !.wf = Complete(@, t), !.ran = Append(@, t), !.left = Tail(@)]
        /\ UNCHANGED <<cachedWorkflow, history, shown, resumed>>

replay_task ==
    LET t == next_task(tape.wf, 0)
    IN  /\ Testing /\ t # 0 /\ TaskKind[t] = "custom"
        /\ ~(fixture_cursor # 0 /\ TaskKind[fixture_cursor] = "timer")
        /\ tape' = IF fixture_cursor = 0 THEN [tape EXCEPT !.end = "fixture_exhausted"]
                   ELSE IF fixture_cursor # t THEN [tape EXCEPT !.end = "fixture_task_mismatch"]
                   ELSE [tape EXCEPT !.wf = Complete(@, t), !.ran = Append(@, t), !.left = Tail(@)]
        /\ UNCHANGED <<cachedWorkflow, history, shown, resumed>>

EndTest ==
    /\ Testing /\ next_task(tape.wf, 0) = 0
    /\ ~(fixture_cursor # 0 /\ TaskKind[fixture_cursor] = "timer")
    /\ tape' = [tape EXCEPT !.end = IF Completed(tape.wf) THEN "completed" ELSE "no_ready_task"]
    /\ UNCHANGED <<cachedWorkflow, history, shown, resumed>>

-----------------------------------------------------------------------------
RunnerInit ==
    /\ cachedWorkflow = NoWorkflow /\ history = <<>> /\ shown = <<>>
    /\ resumed = <<NoWorkflow, NoWorkflow>> /\ tape = NoTape

RunnerNext ==
    \/ \E jump \in 0 .. MaxSteps, pick \in RunTasks \cup {0}, greedy \in BOOLEAN :
          advance_workflow(jump, pick, greedy)
    \/ \E step \in 1 .. MaxSteps : truncate_step_history(step)
    \/ clear_workflow_cache
    \/ \E r \in Recordings : StartTest(r)
    \/ script_step \/ replay_recorded_timer \/ replay_task \/ EndTest

RunnerSpec == RunnerInit /\ [][RunnerNext]_runVars

-----------------------------------------------------------------------------
(* A step goes on from the state the client was shown for the step it      *)
(* names, if the history still has it (else from where the session is).    *)
JumpResumes ==
    resumed[1] # NoWorkflow => resumed[1] = resumed[2]

(* A unit test completes only if every answer went to the task it was      *)
(* recorded for, and the answers it did not get to are the last ones.      *)
ReplayFaithful ==
    /\ tape.ran \o tape.left = tape.from
    /\ tape.end = "completed" => \A t \in RunTasks : TaskKind[t] # "script" =>
                                    \E i \in DOMAIN tape.ran : tape.ran[i] = t

(* Both, on states of the right type. *)
RunnerSound == RunnerTypeOK /\ JumpResumes /\ ReplayFaithful
=============================================================================
