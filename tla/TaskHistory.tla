------------------------------ MODULE TaskHistory ------------------------------
(* What the process instance page shows of an instance's tree of processes:   *)
(* the state of each task now (_process_instance_task_list), the state of the *)
(* diagram as it was when a completed task ran ("view at"), and the value a   *)
(* data object has for a process of the tree (_process_data_fetcher).         *)
(*                                                                            *)
(* A task row's guid is its position in rows; the process a subprocess task   *)
(* opened has the task's guid, and the top level process is 0. Because a task *)
(* identifier belongs to one process definition, and a process definition to  *)
(* one subprocess task here, an identifier stands for the path of definitions *)
(* that leads to it.                                                          *)
EXTENDS Naturals, FiniteSets, Sequences, SequencesExt

CONSTANTS
  Home,       \* the subprocess task each task identifier lies in, or "top"
  Multi,      \* the identifiers of multi-instance and loop tasks
  Defines,    \* the processes that define the data object: identifiers or "top"
  MaxRows     \* bound: tasks the instance ever has

VARIABLES
  rows,       \* the task rows: identifier, process, state, times
  value,      \* the data object each process's json data holds: its last writer
  clock,      \* the time of the latest change
  lastEnded,  \* history: the row of each identifier that ended last
  before      \* history: lastEnded as it was when a row ended

thVars == <<rows, value, clock, lastEnded, before>>

--------------------------------------------------------------------------------
Ids == DOMAIN Home
Subprocesses == {Home[k] : k \in Ids} \ {"top"}
Guids == DOMAIN rows
NoEnd == 0
NoValue == 0
NoRows == [k \in Ids |-> 0]

Init ==
  /\ rows = <<>>
  /\ value = [q \in 0..MaxRows |-> NoValue]
  /\ clock = 0
  /\ lastEnded = NoRows
  /\ before = <<>>

--------------------------------------------------------------------------------
Opened(q) == IF q = 0 THEN "top" ELSE rows[q].id

\* task_models_of_parent_bpmn_processes: the subprocess tasks a row lies in.
EnclosingOf[i \in 1..MaxRows] ==
  IF rows[i].process = 0 THEN {} ELSE {rows[i].process} \cup EnclosingOf[rows[i].process]
task_models_of_parent_bpmn_processes(i) == EnclosingOf[i]

\* bpmn_process_and_descendants: a row is listed for a process it lies in, at
\* any depth.
bpmn_process_and_descendants(q) ==
  {i \in Guids : q \in {0} \cup task_models_of_parent_bpmn_processes(i)}

\* The engine finds a data object in the nearest process that defines it.
DefinerOf[q \in 0..MaxRows] ==
  IF q = 0 \/ Opened(q) \in Defines THEN q ELSE DefinerOf[rows[q].process]

--------------------------------------------------------------------------------
\* SpiffWorkflow: a task of an open process becomes ready. A looping task and a
\* loop back reach the same identifier again.
TaskReady(k, q) ==
  /\ Len(rows) < MaxRows
  /\ q \in {0} \cup Guids
  /\ Opened(q) = Home[k]
  /\ q # 0 => rows[q].state = "STARTED"
  /\ ~\E i \in Guids : rows[i].id = k /\ rows[i].process = q /\ rows[i].end = NoEnd
  /\ clock' = clock + 1
  /\ rows' = Append(rows, [id |-> k, process |-> q, end |-> NoEnd, changed |-> clock + 1,
                           state |-> IF k \in Subprocesses THEN "STARTED" ELSE "READY"])
  /\ UNCHANGED <<value, lastEnded, before>>

\* A task completes, a subprocess when every task in it has; a plain task writes
\* the data object.
TaskCompletes(i) ==
  LET inside == {j \in Guids : rows[j].process = i}
  IN  /\ rows[i].end = NoEnd
      /\ rows[i].id \in Subprocesses =>
           inside # {} /\ \A j \in inside : rows[j].end # NoEnd
      /\ clock' = clock + 1
      /\ rows' = [rows EXCEPT ![i].state = "COMPLETED", ![i].end = clock + 1,
                              ![i].changed = clock + 1]
      /\ value' = IF rows[i].id \in Subprocesses THEN value
                  ELSE [value EXCEPT ![DefinerOf[rows[i].process]] = i]
      /\ lastEnded' = [lastEnded EXCEPT ![rows[i].id] = i]
      /\ before' = [j \in (DOMAIN before) \cup {i} |->
                      IF j = i THEN lastEnded ELSE before[j]]

Next ==
  \/ \E k \in Ids, q \in 0..MaxRows : TaskReady(k, q)
  \/ \E i \in Guids : TaskCompletes(i)

Spec == Init /\ [][Next]_thVars

--------------------------------------------------------------------------------
\* Faulty variant: the tasks a task lies in are left out.
EndedOnly(q, to) ==
  {i \in bpmn_process_and_descendants(q) :
     to # 0 => rows[i].end # NoEnd /\ rows[i].end <= rows[to].end}

\* The query: the rows of the process, or, viewed at a task, those that had
\* ended when it did and the subprocess tasks it lies in. to is 0 for "now".
task_model_query(q, to) ==
  {i \in bpmn_process_and_descendants(q) :
     to # 0 => \/ rows[i].end # NoEnd /\ rows[i].end <= rows[to].end
               \/ i \in task_models_of_parent_bpmn_processes(to)}

\* The rows are taken in the order the database gives them, which nothing fixes:
\* here by age, or the newest first.
Orders(found) ==
  LET oldest == SetToSortSeq(found, <)
  IN  {oldest, Reverse(oldest)}

\* Faulty variant: the oldest row of an identifier wins.
KeepFirst(kept, i) ==
  IF kept.recent[rows[i].id] = 0
  THEN [kept EXCEPT !.recent[rows[i].id] = i, !.relevant = @ \cup {i}]
  ELSE kept

\* Of each identifier the row with the latest change is kept, of a
\* multi-instance task every row; the subprocesses seen to be relevant on the
\* way are remembered, and only their tasks are returned.
KeepRecent(kept, i) ==
  CASE rows[i].id \in Multi ->
         [kept EXCEPT !.more = @ \cup {i}, !.relevant = @ \cup {i}]
    [] rows[i].id \notin Multi /\ (\/ kept.recent[rows[i].id] = 0
                                   \/ rows[kept.recent[rows[i].id]].changed < rows[i].changed) ->
         [kept EXCEPT !.recent[rows[i].id] = i, !.relevant = @ \cup {i}]
    [] OTHER -> kept

most_recent_tasks(q, order) ==
  LET kept == FoldLeft(KeepRecent, [recent |-> NoRows, more |-> {}, relevant |-> {q, 0}],
                       order)
  IN  {i \in {kept.recent[k] : k \in Ids} \cup kept.more :
         i # 0 /\ rows[i].process \in kept.relevant}

\* Viewed at a task, the task itself is shown as READY and the subprocess tasks
\* it lies in as WAITING where they ended later or not at all.
ShownState(i, to) ==
  CASE to # 0 /\ i = to -> "READY"
    [] /\ to # 0
       /\ i \in task_models_of_parent_bpmn_processes(to)
       /\ rows[i].end = NoEnd \/ rows[to].end < rows[i].end -> "WAITING"
    [] OTHER -> rows[i].state

\* Faulty variant: the data object of the whole instance.
TopLevel(q) == 0

\* The data object of a process: the value in the process's own data, or else
\* the one of the nearest process around it that defines the object.
get_bpmn_process_with_data_object(q) == DefinerOf[q]

process_data_fetcher(q) ==
  IF value[q] # NoValue \/ q = 0 THEN value[q]
  ELSE value[get_bpmn_process_with_data_object(q)]

--------------------------------------------------------------------------------
TypeOK ==
  /\ rows \in Seq([id : Ids, process : 0..MaxRows, end : 0..(2 * MaxRows),
                   changed : 1..(2 * MaxRows),
                   state : {"READY", "STARTED", "COMPLETED"}])
  /\ value \in [0..MaxRows -> 0..MaxRows]
  /\ clock \in 0..(2 * MaxRows)
  /\ lastEnded \in [Ids -> 0..MaxRows]

\* The row of an identifier that changed last, among some rows.
Newest(i, among) ==
  \A j \in among : rows[j].id = rows[i].id => rows[j].changed <= rows[i].changed

\* The page shows, whatever order the rows come in, at most one row of an
\* identifier, and every task of the latest round of each loop: the newest row
\* of its identifier, in subprocesses that are the newest of theirs.
LatestRoundShown ==
  \A order \in Orders(Guids) :
    LET shown == most_recent_tasks(0, order)
    IN  /\ \A i, j \in shown : rows[i].id = rows[j].id /\ i # j => rows[i].id \in Multi
        /\ \A i \in Guids :
             (\A j \in {i} \cup task_models_of_parent_bpmn_processes(i) : Newest(j, Guids))
               => i \in shown

\* Viewed at a completed task, the page shows the past: that task as ready, the
\* subprocess tasks around it as waiting, as completed only what had completed
\* last by then, and all of it that lies in subprocesses that had ended by then,
\* or that the task lies in, and were not entered again.
ViewedAtIsPast ==
  \A to \in {i \in Guids : rows[i].state = "COMPLETED"} :
    \A order \in Orders(task_model_query(0, to)) :
      LET shown == most_recent_tasks(0, order)
          found == task_model_query(0, to)
          ended == {before[to][k] : k \in Ids} \ {0}
          Round(i) == \A j \in task_models_of_parent_bpmn_processes(i) :
                        j \in found /\ Newest(j, found)
      IN  /\ to \in shown /\ ShownState(to, to) = "READY"
          /\ \A j \in task_models_of_parent_bpmn_processes(to) :
               j \in shown /\ ShownState(j, to) = "WAITING"
          /\ \A i \in shown \ {to} : ShownState(i, to) = "COMPLETED" =>
               rows[i].id \in Multi \/ i \in ended
          /\ \A i \in ended : Round(i) /\ Newest(i, found) => i \in shown

\* The value shown for a process of the tree is the one its tasks read: the last
\* write of a task whose nearest defining process is the same.
DataObjectIsNearest ==
  \A q \in {0} \cup {i \in Guids : rows[i].id \in Subprocesses} :
    LET writers == {i \in Guids : /\ rows[i].end # NoEnd
                                  /\ rows[i].id \notin Subprocesses
                                  /\ DefinerOf[rows[i].process] = DefinerOf[q]}
    IN  IF writers = {} THEN process_data_fetcher(q) = NoValue
        ELSE /\ process_data_fetcher(q) \in writers
             /\ \A i \in writers : rows[i].end <= rows[process_data_fetcher(q)].end

HistorySound == LatestRoundShown /\ ViewedAtIsPast /\ DataObjectIsNearest

================================================================================
