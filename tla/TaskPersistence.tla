--------------------------- MODULE TaskPersistence ---------------------------
(***************************************************************************)
(* Persistence of one process instance's task tree (task_service.py, the   *)
(* TaskModelSavingDelegate of workflow_execution_service.py and            *)
(* process_instance_persistence_service.py).  A run loads the tree from    *)
(* the tables, with the data of finished tasks and finished subprocesses   *)
(* left out, lets SpiffWorkflow change it, and saves only what it believes *)
(* changed.  A rewind (reset_process) loads everything and deletes.        *)
(*                                                                         *)
(* Tasks are numbered as they are created; 0 stands for no parent and for  *)
(* the top level process.  A task's process is 0 or the subprocess task it *)
(* belongs to.  Data 0 is the empty dictionary.                            *)
(***************************************************************************)
EXTENDS Naturals, FiniteSets, Functions, TLC

CONSTANTS MaxTasks, Data

Unfinished == {"FUTURE", "READY", "WAITING", "STARTED"}
Finished == {"COMPLETED", "CANCELLED", "ERROR"}
Guids == 1 .. MaxTasks

VARIABLES phase,   \* "idle", "run", "saved" or "reset": what the loaded tree is
          tree,    \* SpiffWorkflow's tasks in memory: guid -> record
          pend,    \* TaskService.task_models: guid -> row to write
          gone,    \* removed_spiff_tasks, with the parents they had
          rows,    \* table task
          procs,   \* table bpmn_process
          jsons,   \* table json_data
          done,    \* ghost: the data each task completed with
          born     \* guids given out

tpVars == <<phase, tree, pend, gone, rows, procs, jsons, done, born>>

None == [g \in {} |-> 0]
Task(st, parent, data, proc) ==
    [st |-> st, parent |-> parent, kids |-> {}, data |-> data, proc |-> proc]

TypeOK ==
    LET Tasks == [st : Unfinished \cup Finished, parent : 0 .. MaxTasks, kids : SUBSET Guids,
                  data : Data \cup {0}, proc : 0 .. MaxTasks]
        Forest(f) == DOMAIN f \subseteq 1 .. born /\ \A g \in DOMAIN f : f[g] \in Tasks
    IN  /\ phase \in {"idle", "run", "saved", "reset"}
        /\ born \in 0 .. MaxTasks
        /\ Forest(tree) /\ Forest(pend) /\ Forest(rows) /\ Forest(gone)
        /\ procs \subseteq 0 .. born
        /\ jsons \subseteq Data \cup {0}

(* A new instance: its root task is in memory and nothing is stored. *)
Init ==
    /\ phase = "run"
    /\ tree = (1 :> Task("READY", 0, 0, 0))
    /\ pend = None
    /\ gone = None
    /\ rows = None
    /\ procs = {}
    /\ jsons = {}
    /\ done = None
    /\ born = 1

-----------------------------------------------------------------------------
(* A task and what hangs below it: its children and, for a subprocess task, *)
(* the tasks of that process.  Parents are older than their children.      *)
Below(f, t) ==
    LET in[g \in 0 .. MaxTasks] ==
          /\ g \in DOMAIN f
          /\ \/ g = t
             \/ g > 0 /\ g > f[g].parent /\ in[f[g].parent]
             \/ g > 0 /\ g > f[g].proc /\ in[f[g].proc]
    IN  {g \in DOMAIN f : in[g]}

(* The tasks SpiffWorkflow reaches from the roots of its processes. *)
Linked(f) ==
    LET in[g \in 0 .. MaxTasks] ==
          /\ g \in DOMAIN f
          /\ f[g].parent = 0 \/ (f[g].parent < g /\ in[f[g].parent] /\ g \in f[f[g].parent].kids)
    IN  [g \in {h \in DOMAIN f : in[h]} |-> f[g]]

Without(f, S) == Restrict(f, DOMAIN f \ S)
Overlay(f, h) == [g \in DOMAIN f \cup DOMAIN h |-> IF g \in DOMAIN h THEN h[g] ELSE f[g]]
Open(t) == phase \in {"run", "saved"} /\ t \in DOMAIN tree

-----------------------------------------------------------------------------
(* SpiffWorkflow, external: the changes it makes to the tree in a run.     *)

(* A ready task predicts a child. *)
Predict(t) ==
    /\ Open(t) /\ tree[t].st = "READY" /\ tree[t].kids = {} /\ born < MaxTasks
    /\ tree' = [tree EXCEPT ![t].kids = {born + 1}] @@ ((born + 1) :> Task("FUTURE", t, 0, tree[t].proc))
    /\ born' = born + 1
    /\ phase' = "run"
    /\ UNCHANGED <<pend, gone, rows, procs, jsons, done>>

(* update_task_model: a row takes everything from the task.  The first     *)
(* task of a process that has no row yet brings the other tasks of the     *)
(* process along (add_bpmn_process, add_tasks_to_bpmn_process).            *)
update_task_model(f, S) ==
    LET new == {f[g].proc : g \in S} \ (procs \cup {pend[g].proc : g \in DOMAIN pend})
    IN  Restrict(f, S \cup {g \in DOMAIN f : f[g].proc \in new})

(* A task completes and did_complete_task serialises it at once: predicted *)
(* children come alive with its data or are removed, another may appear,   *)
(* a last task of a subprocess completes the subprocess task too.          *)
Complete(t) ==
    /\ Open(t) /\ tree[t].st = "READY"
    /\ \E d \in Data, keep \in SUBSET tree[t].kids, extra \in {0} \cup (born + 1 .. born + 1),
          st \in {"READY", "WAITING"} :
         LET kids == keep \cup ({extra} \ {0})
             cut == UNION {Below(tree, k) : k \in tree[t].kids \ keep}
             own == [tree EXCEPT ![t].st = "COMPLETED", ![t].kids = kids, ![t].data = d]
             s == tree[t].proc
             last == /\ s # 0 /\ kids = {}
                     /\ \A g \in DOMAIN tree \ (cut \cup {t}) : tree[g].proc = s => tree[g].st \in Finished
             new == [g \in (DOMAIN tree \ cut) \cup kids |->
                       IF g \in kids THEN Task(st, t, d, s)
                       ELSE IF last /\ g = s THEN [tree[s] EXCEPT !.st = "COMPLETED", !.data = d]
                       ELSE own[g]]
             over == {t} \cup (IF last THEN {s} ELSE {})
         IN  /\ extra <= MaxTasks
             /\ tree' = new
             /\ pend' = Overlay(pend, update_task_model(new, over))
             /\ gone' = Overlay(gone, Restrict(tree, cut))
             /\ done' = Overlay(done, [g \in over |-> d])
             /\ born' = IF extra = 0 THEN born ELSE extra
    /\ phase' = "run"
    /\ UNCHANGED <<rows, procs, jsons>>

(* A ready task turns out to be a subprocess: its process gets a root. *)
EnterSubprocess(t) ==
    /\ Open(t) /\ tree[t].st = "READY" /\ tree[t].proc = 0 /\ born < MaxTasks
    /\ tree' = [tree EXCEPT ![t].st = "STARTED"] @@ ((born + 1) :> Task("READY", 0, tree[t].data, t))
    /\ born' = born + 1
    /\ phase' = "run"
    /\ UNCHANGED <<pend, gone, rows, procs, jsons, done>>

(* An event arrives, or an event cancels a task and everything unfinished  *)
(* below it, whose predictions go; a task may also fail.                   *)
Catch(t) ==
    /\ Open(t) /\ tree[t].st = "WAITING"
    /\ tree' = [tree EXCEPT ![t].st = "READY"]
    /\ phase' = "run"
    /\ UNCHANGED <<pend, gone, rows, procs, jsons, done, born>>
Stop(t, st) ==
    /\ Open(t) /\ tree[t].st \in Unfinished \ {"FUTURE"}
    /\ st = "ERROR" => tree[t].st = "READY"
    /\ LET cut == {g \in Below(tree, t) : tree[g].st = "FUTURE"}
       IN  /\ tree' = [g \in DOMAIN tree \ cut |->
                         IF g \in Below(tree, t) /\ tree[g].st \in Unfinished
                         THEN [tree[g] EXCEPT !.st = st, !.kids = @ \ cut]
                         ELSE tree[g]]
           /\ gone' = Overlay(gone, Restrict(tree, cut))
    /\ phase' = "run"
    /\ UNCHANGED <<pend, rows, procs, jsons, done, born>>

(* did_remove_task: the engine takes back a live branch (an instance of a  *)
(* multi-instance task, say): one that stands as an earlier run stored it, *)
(* or, under an unfinished task, one that has not started.                 *)
Drop(t) ==
    /\ Open(t) /\ tree[t].st \in {"READY", "WAITING", "STARTED"} /\ tree[t].parent # 0
    /\ \/ tree[tree[t].parent].st # "COMPLETED" /\ tree[t].st # "STARTED"
       \/ \A g \in Below(tree, t) : g \in DOMAIN rows /\ rows[g].st = tree[g].st
    /\ LET cut == Below(tree, t)
       IN  /\ tree' = Without([tree EXCEPT ![tree[t].parent].kids = @ \ {t}], cut)
           /\ gone' = Overlay(gone, Restrict(tree, cut))
    /\ phase' = "run"
    /\ UNCHANGED <<pend, rows, procs, jsons, done, born>>

-----------------------------------------------------------------------------
(* find_existing_task_model: the row to be written, or the stored one. *)
find_existing_task_model(models) == Overlay(rows, models)

(* Faulty variant: completed tasks too. *)
EveryState == Unfinished \cup Finished

(* The states add_object_to_db_session serialises again: all but COMPLETED, *)
(* whose rows were written when they completed.                            *)
StatesToUpdate == (Unfinished \cup Finished) \ {"COMPLETED"}

(* Removed tasks whose row is to be deleted: those persisted as live. *)
DeletedGuids(models) ==
    {g \in DOMAIN gone : /\ g \in DOMAIN find_existing_task_model(models)
                         /\ find_existing_task_model(models)[g].st \in {"READY", "WAITING", "STARTED"}}

(* Faulty variant: links to deleted tasks stay. *)
PruneNothing(models, deleted) == models

(* prune_deleted_child_references: the parents of deleted tasks lose the   *)
(* link; nothing else of the parent's row changes.                         *)
prune_deleted_child_references(models, deleted) ==
    LET parents == {gone[g].parent : g \in deleted} \ (deleted \cup {0})
        found == Without(find_existing_task_model(models), deleted)
        pruned == [p \in parents \cap DOMAIN found |-> [found[p] EXCEPT !.kids = @ \ deleted]]
    IN  Overlay(models, pruned)

(* update_json_data_on_db_model_and_return_dict_if_updated: only data      *)
(* whose hash differs from the row's is written to json_data.              *)
json_data_dicts(models) ==
    {models[g].data : g \in {h \in DOMAIN models : h \notin DOMAIN rows \/ rows[h].data # models[h].data}}

(* save_objects_to_database: rows are written at once; the deletions, where *)
(* a process takes its tasks with it, reach the database with the flush.   *)
save_objects_to_database(models, deleted) ==
    /\ rows' = Without(Overlay(rows, models),
                       deleted \cup {g \in DOMAIN rows : rows[g].proc \in deleted})
    /\ procs' = (procs \cup {models[g].proc : g \in DOMAIN models}) \ deleted
    /\ jsons' = jsons \cup json_data_dicts(models)

(* add_object_to_db_session and the commit of the run's save. *)
add_object_to_db_session ==
    LET updated == {g \in DOMAIN tree : tree[g].st \in StatesToUpdate}
        models == Overlay(pend, update_task_model(tree, updated))
        deleted == DeletedGuids(models)
    IN  /\ phase = "run"
        /\ save_objects_to_database(
             prune_deleted_child_references(Without(models, deleted), deleted), deleted)
        /\ pend' = None
        /\ gone' = None
        /\ phase' = "saved"
        /\ UNCHANGED <<tree, done, born>>

(* The run ends, or its worker dies with what it has not saved. *)
Unload ==
    /\ phase # "idle" /\ rows # None
    /\ phase' = "idle"
    /\ tree' = None /\ pend' = None /\ gone' = None
    /\ UNCHANGED <<rows, procs, jsons, done, born>>

-----------------------------------------------------------------------------
(* get_tasks_dict: which tasks come with their data. *)
task_guids_to_add(loaded, full) ==
    IF full THEN DOMAIN loaded
    ELSE LET live == {g \in DOMAIN loaded : loaded[g].st \notin {"COMPLETED", "ERROR"}}
         IN  live \cup ({loaded[g].parent : g \in live} \ {0})

(* get_full_bpmn_process_dict: without completed subprocesses unless full. *)
get_full_bpmn_process_dict(full) ==
    LET open == {p \in procs : p = 0 \/ full \/ (p \in DOMAIN rows /\ rows[p].st \notin Finished)}
        loaded == [g \in {h \in DOMAIN rows : rows[h].proc \in open} |-> rows[g]]
        add == task_guids_to_add(loaded, full)
    IN  Linked([g \in DOMAIN loaded |-> [loaded[g] EXCEPT !.data = IF g \in add THEN @ ELSE 0]])

Load ==
    /\ phase = "idle"
    /\ tree' = get_full_bpmn_process_dict(FALSE)
    /\ phase' = "saved"
    /\ UNCHANGED <<pend, gone, rows, procs, jsons, done, born>>

-----------------------------------------------------------------------------
(* Faulty variant: the rewind loads what a run loads. *)
ResetLoadsPart == get_full_bpmn_process_dict(FALSE)

(* reset_process loads the data of completed tasks, and completed          *)
(* subprocesses, because the rewind serialises finished tasks again.       *)
ResetLoads == get_full_bpmn_process_dict(TRUE)

(* reset_from_task_id, external: what hangs below t goes, t is ready with  *)
(* its parent's data; for a task of a subprocess the subprocess task is    *)
(* open again and what followed it goes as well.                           *)
ResetTree(f, t) ==
    LET s == f[t].proc
        inside == {g \in Below(f, t) : g # t}
        after == IF s = 0 THEN {} ELSE UNION {Below(f, k) : k \in f[s].kids}
        cut == inside \cup after
        base == IF f[t].parent = 0 THEN f[t].data ELSE f[f[t].parent].data
    IN  [g \in DOMAIN f \ cut |->
           IF g = t THEN [f[t] EXCEPT !.st = "READY", !.kids = {}, !.data = base]
           ELSE IF s # 0 /\ g = s THEN [f[s] EXCEPT !.st = "STARTED", !.kids = {}]
           ELSE f[g]]

(* sync_parents_for_deleted_spiff_tasks: every surviving ancestor. *)
SyncedParents(f, cut) ==
    {g \in DOMAIN f \ cut : \E d \in cut : d \in Below([h \in DOMAIN f |-> [f[h] EXCEPT !.proc = 0]], g)}

(* reset_process with update_all_tasks_from_spiff_tasks: the deleted rows, *)
(* the ancestors and the tasks whose state changed, child links outside    *)
(* the tree pruned, one save.                                              *)
reset_process(t) ==
    LET f == ResetLoads
    IN  /\ phase = "idle" /\ t \in DOMAIN f
        /\ f[t].st \in Finished \/ f[t].st = "READY"
        /\ LET new == ResetTree(f, t)
               cut == DOMAIN f \ DOMAIN new
               models == update_task_model(new, SyncedParents(f, cut)
                                           \cup {g \in DOMAIN new : new[g].st # f[g].st})
           IN  /\ save_objects_to_database(
                    [g \in DOMAIN models |-> [models[g] EXCEPT !.kids = @ \cap DOMAIN new]], cut)
               /\ tree' = new
        /\ phase' = "reset"
        /\ UNCHANGED <<pend, gone, done, born>>

Next ==
    \/ \E t \in Guids : Predict(t) \/ Complete(t) \/ EnterSubprocess(t) \/ Catch(t) \/ Drop(t)
                          \/ Stop(t, "CANCELLED") \/ Stop(t, "ERROR") \/ reset_process(t)
    \/ add_object_to_db_session
    \/ Unload
    \/ Load

-----------------------------------------------------------------------------
(* What a run or a rewind has saved, the next load gives back: the same    *)
(* tasks in the same states with the same children, no removed task among  *)
(* them, no link to a missing row, unfinished tasks with their data, and   *)
(* every row's data stored.                                                *)
Restorable ==
    /\ phase \in {"saved", "reset"} =>
         LET back == get_full_bpmn_process_dict(FALSE)
             open(g) == tree[g].proc = 0 \/ tree[tree[g].proc].st \notin Finished
         IN  /\ DOMAIN back = {g \in DOMAIN tree : open(g)}
             /\ \A g \in DOMAIN back :
                   /\ back[g].st = tree[g].st
                   /\ back[g].kids = tree[g].kids
                   /\ tree[g].st \in Unfinished => back[g].data = tree[g].data
    /\ \A g \in DOMAIN rows : rows[g].data \in jsons /\ rows[g].proc \in procs

(* A completed task keeps the data it completed with, however often the    *)
(* instance is loaded without that data, run, saved and rewound.           *)
DataKept == \A g \in DOMAIN rows \cap DOMAIN done :
               rows[g].st = "COMPLETED" => rows[g].data = done[g]
=============================================================================
