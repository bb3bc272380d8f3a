------------------------------ MODULE Reports -------------------------------
(***************************************************************************)
(* The lists of process instances (process_instance_report_service): a     *)
(* report is a set of filters, compiled to one query over instances, human *)
(* tasks, their users and groups, and group membership.                    *)
(*                                                                         *)
(* A query is a join: an instance is listed when some row, a choice of one *)
(* of its tasks and of one group of that task, passes every condition at   *)
(* once.  The tables are HumanTasks' state; here they change freely, so    *)
(* what holds does so for whatever assignments and memberships there are.  *)
(* Columns, order and pages are left out.                                  *)
(***************************************************************************)
EXTENDS Naturals, Sequences, FiniteSets, SequencesExt

CONSTANTS Users, Groups,
          Values,      \* values of the one metadata key
          MaxTasks     \* bound: human tasks of the instance

Nobody   == "nobody"
Another  == "another"      \* a user outside of Users: no filter relates two users
NoGroup  == "no group"     \* NULL of an outer join, and a filter that is absent
AnyGroup == "any group"    \* the empty user_group_identifier
NoValue  == "no value"     \* the instance has no such metadata

terminal_statuses == {"complete", "error", "terminated"}
active_statuses   == {"not_started", "running", "user_input_required", "waiting"}
all_statuses      == terminal_statuses \cup active_statuses \cup {"suspended"}

VARIABLES instance,    \* initiator, status and metadata of the instance
          humanTasks,  \* its human_task rows, by id
          memberOf     \* user_group_assignment: groups of each user

repVars == <<instance, humanTasks, memberOf>>

NotThere == [by |-> Nobody, status |-> "not_started", value |-> NoValue]

TypeOK ==
    /\ instance \in [by : Users \cup {Nobody, Another}, status : all_statuses, value : Values \cup {"", NoValue}]
    /\ Len(humanTasks) <= MaxTasks
    /\ \A t \in Range(humanTasks) :
          t \in [groups : SUBSET Groups, users : SUBSET Users, by : Users \cup {Nobody}, done : BOOLEAN]
    /\ memberOf \in [Users -> SUBSET Groups]

Init ==
    /\ instance = NotThere /\ humanTasks = <<>>
    /\ memberOf = [u \in Users |-> {}]

Open == {t \in Range(humanTasks) : ~t.done}

-----------------------------------------------------------------------------
(* What changes the tables *)

(* An instance starts and stores its metadata. *)
Start(u, v) ==
    /\ instance = NotThere
    /\ instance' = [by |-> u, status |-> "running", value |-> v]
    /\ UNCHANGED <<humanTasks, memberOf>>

(* _create_new_human_task, with its owners and its groups *)
create_human_task(users, groups) ==
    /\ instance.by # Nobody /\ instance.status \in active_statuses /\ Len(humanTasks) < MaxTasks
    /\ humanTasks' = Append(humanTasks, [groups |-> groups, users |-> users, by |-> Nobody, done |-> FALSE])
    /\ instance' = [instance EXCEPT !.status = "user_input_required"]
    /\ UNCHANGED memberOf

(* A task is completed by a user, or closed by the engine (Nobody). *)
complete_human_task(i, u) ==
    /\ ~humanTasks[i].done /\ u \in humanTasks[i].users \cup {Nobody}
    /\ humanTasks' = [humanTasks EXCEPT ![i].done = TRUE, ![i].by = u]
    /\ instance' = [instance EXCEPT !.status = IF Cardinality({j \in DOMAIN humanTasks : ~humanTasks[j].done}) = 1
                                               THEN "waiting" ELSE @]
    /\ UNCHANGED memberOf

(* The instance is suspended, resumed, or ends. *)
SetStatus(s) ==
    /\ instance.by # Nobody /\ instance.status \notin terminal_statuses
    /\ CASE s = "user_input_required" -> instance.status = "suspended" /\ Open # {}
         [] s = "complete"            -> Open = {} /\ instance.status # "suspended"
         [] OTHER                     -> TRUE
    /\ instance' = [instance EXCEPT !.status = s]
    /\ UNCHANGED <<humanTasks, memberOf>>

user_group_assignment(u, groups) ==
    /\ memberOf[u] # groups /\ memberOf' = [memberOf EXCEPT ![u] = groups]
    /\ UNCHANGED <<instance, humanTasks>>

-----------------------------------------------------------------------------
(* The query *)

(* Left join of a task with its human_task_group rows *)
GroupRows(t) == IF t.groups = {} THEN {NoGroup} ELSE t.groups

filter_by_with_relation_to_me(u) ==
    instance.by = u \/ \E t \in Range(humanTasks) : u \in t.users

filter_by_instances_with_tasks_completed_by_me(t, u) ==
    instance.by # u /\ t.by = u

(* A bug: only tasks that have no group. *)
WaitingWithoutGroup(t, u) ==
    /\ instance.by # u /\ ~t.done /\ u \in t.users
    /\ t.groups = {}

(* The outer join with the groups of the user finds nothing for one of the *)
(* groups of the task, or the task has none.                               *)
filter_by_instances_with_tasks_waiting_for_me(t, u) ==
    /\ instance.by # u /\ ~t.done /\ u \in t.users
    /\ \E row \in GroupRows(t) : row = NoGroup \/ row \notin memberOf[u]

(* A bug: the group of the task need not be the user's. *)
GroupOfAnyone(t, u, f) ==
    /\ f.statuses \subseteq active_statuses =>
           ~t.done /\ (f.waitingForMe \/ u \in t.users)
    /\ \E g \in t.groups : f.group \in {AnyGroup, g}

filter_by_user_group_identifier(t, u, f) ==
    /\ f.statuses \subseteq active_statuses =>
           ~t.done /\ (f.waitingForMe \/ u \in t.users)
    /\ \E g \in t.groups : f.group \in {AnyGroup, g} /\ g \in memberOf[u]

(* get_basic_query and the status filter *)
get_basic_query(u, f) ==
    /\ instance.by # Nobody
    /\ f.initiatedByMe => instance.by = u
    /\ instance.status \in f.statuses

(* Metadata filters are conditions of an inner join with the value, but    *)
(* for is_empty, which keeps the outer join.                               *)
add_where_clauses_for_process_instance_metadata_filters(f) ==
    CASE f.operator = "none"         -> TRUE
      [] f.operator = "is_empty"     -> instance.value \in {NoValue, ""}
      [] f.operator = "is_not_empty" -> instance.value # NoValue
      [] f.operator = "equals"       -> instance.value = f.operand
      [] f.operator = "not_equals"   -> instance.value \notin {NoValue, f.operand}

(* Both of the by-me filters are refused; the empty group identifier with  *)
(* the relation to me joins the human tasks twice, which the database      *)
(* refuses.                                                                *)
Refused(f) ==
    \/ f.completedByMe /\ f.waitingForMe
    \/ f.relation /\ f.group = AnyGroup /\ ~f.completedByMe /\ ~f.waitingForMe

(* run_process_instance_report: is the instance listed for the user? *)
run_process_instance_report(u, f) ==
    /\ ~Refused(f)
    /\ get_basic_query(u, f)
    /\ add_where_clauses_for_process_instance_metadata_filters(f)
    /\ (f.relation /\ ~f.completedByMe /\ ~f.waitingForMe /\ f.group = NoGroup) =>
           filter_by_with_relation_to_me(u)
    /\ (f.completedByMe \/ f.waitingForMe \/ f.group # NoGroup) =>
           \E t \in Range(humanTasks) :
              /\ f.completedByMe => filter_by_instances_with_tasks_completed_by_me(t, u)
              /\ f.waitingForMe => filter_by_instances_with_tasks_waiting_for_me(t, u)
              /\ f.group # NoGroup => filter_by_user_group_identifier(t, u, f)

(* A bug: the oldest open task, whoever it is for. *)
OldestTask(u, restricted) ==
    LET of == {i \in DOMAIN humanTasks : ~humanTasks[i].done}
    IN  {i \in of : \A j \in of : i <= j}

(* add_human_task_fields: the oldest open task shown with the instance, of *)
(* the user's when the report is of those waiting for the user             *)
add_human_task_fields(u, restricted) ==
    LET of == {i \in DOMAIN humanTasks : ~humanTasks[i].done /\ (restricted => u \in humanTasks[i].users)}
    IN  {i \in of : \A j \in of : i <= j}

NoFilters == [initiatedByMe |-> FALSE, statuses |-> all_statuses, completedByMe |-> FALSE,
              waitingForMe |-> FALSE, group |-> NoGroup, relation |-> FALSE,
              operator |-> "none", operand |-> ""]

(* The reports that come with the system, compiled for the user *)
system_metadata_map ==
    [completed_instances_initiated_by_me |->
        [NoFilters EXCEPT !.initiatedByMe = TRUE, !.statuses = terminal_statuses],
     in_progress_instances_initiated_by_me |->
        [NoFilters EXCEPT !.initiatedByMe = TRUE, !.statuses = all_statuses \ terminal_statuses],
     completed_instances_with_tasks_completed_by_me |->
        [NoFilters EXCEPT !.completedByMe = TRUE, !.statuses = terminal_statuses],
     in_progress_instances_with_tasks_for_me |->
        [NoFilters EXCEPT !.waitingForMe = TRUE, !.statuses = active_statuses],
     in_progress_instances_with_tasks |->
        [NoFilters EXCEPT !.statuses = active_statuses]]

(* process_instance_list_for_me: the relation to me is added to the        *)
(* filters of the request.                                                 *)
process_instance_list_for_me(u, f) == run_process_instance_report(u, [f EXCEPT !.relation = TRUE])

Next ==
    \/ \E u \in Users \cup {Another}, v \in Values \cup {"", NoValue} : Start(u, v)
    \/ \E users \in SUBSET Users, groups \in SUBSET Groups : create_human_task(users, groups)
    \/ \E i \in DOMAIN humanTasks, u \in Users \cup {Nobody} : complete_human_task(i, u)
    \/ \E s \in {"user_input_required", "suspended", "complete", "terminated"} : SetStatus(s)
    \/ \E u \in Users, groups \in SUBSET Groups : user_group_assignment(u, groups)

Spec == Init /\ [][Next]_repVars

-----------------------------------------------------------------------------
Listed(u, name) == run_process_instance_report(u, system_metadata_map[name])

(* An open task a user is assigned to is never lost between the lists: its *)
(* instance, if it is active, is in the list of those the user started, of *)
(* those with tasks waiting for the user, or of those waiting for one of   *)
(* the user's groups; and the task shown as waiting for the user is one    *)
(* the user is assigned to                                                 *)
(* (filter_by_instances_with_tasks_waiting_for_me, add_human_task_fields). *)
TasksAreFound ==
    \A u \in Users :
       /\ instance.status \in active_statuses /\ (\E t \in Open : u \in t.users) =>
             \/ Listed(u, "in_progress_instances_initiated_by_me")
             \/ Listed(u, "in_progress_instances_with_tasks_for_me")
             \/ \E g \in memberOf[u] :
                   run_process_instance_report(u,
                      [system_metadata_map["in_progress_instances_with_tasks"] EXCEPT !.group = g])
       /\ Listed(u, "in_progress_instances_with_tasks_for_me") =>
             \A i \in add_human_task_fields(u, TRUE) : u \in humanTasks[i].users

(* The list for me has only instances the user started, has a task of or   *)
(* completed one of, or that have a task of one of the user's groups,      *)
(* whatever other filters the request brings: the relation is tested only  *)
(* where no other filter stands for it (run_process_instance_report).      *)
ForMeIsMine ==
    \A u \in Users, completed, waiting \in BOOLEAN, group \in Groups \cup {NoGroup, AnyGroup},
       statuses \in {all_statuses, active_statuses} :
       process_instance_list_for_me(u, [NoFilters EXCEPT !.completedByMe = completed,
             !.waitingForMe = waiting, !.group = group, !.statuses = statuses]) =>
          \/ instance.by = u
          \/ \E t \in Range(humanTasks) : u \in t.users \/ t.by = u \/ t.groups \cap memberOf[u] # {}

(* Nothing falls between two opposite filters: an instance with the        *)
(* metadata is in one of equals and not_equals, and any instance in        *)
(* is_empty or is_not_empty                                                *)
(* (add_where_clauses_for_process_instance_metadata_filters).              *)
FiltersAreExhaustive ==
    LET By(op, x) == run_process_instance_report(CHOOSE u \in Users : TRUE,
                        [NoFilters EXCEPT !.operator = op, !.operand = x])
    IN  instance.by # Nobody =>
           /\ By("is_empty", "") \/ By("is_not_empty", "")
           /\ instance.value # NoValue =>
                 \A x \in Values \cup {""} : By("equals", x) # By("not_equals", x)

(* All three. *)
ReportsSound == TasksAreFound /\ ForMeIsMine /\ FiltersAreExhaustive
=============================================================================
