----------------------------- MODULE HumanTasks -----------------------------
(***************************************************************************)
(* Who may complete which human task: the rows human_task, human_task_user, *)
(* human_task_group, human_task_user_waiting, user_group_assignment and    *)
(* user_group_assignment_waiting, and the operations that keep them in     *)
(* step: ProcessInstanceRuntime.save, complete_task, UserService,          *)
(* AuthorizationService and the tasks controller.                          *)
(* An operation is one step up to its commit; submitting a task and saving *)
(* a draft test first and write later.                                     *)
(***************************************************************************)
EXTENDS Integers, FiniteSets

CONSTANTS
    Users, NoUser,
    Initiator,      \* process_initiator
    Guest,          \* UserService.find_or_create_guest_user
    Groups, DefaultGroup,
    Anybody,        \* a REGEX: entry that every username matches
    HTasks, NoTask, \* task guids
    Definition,     \* the task definition path of each: what a draft is kept under
    Lanes, NoLane,  \* what a task's lane says: [kind, group, names, groups]
    Claims,         \* the group claims tokens carry
    YamlGroups,     \* what permissions.yaml and the refresh-permissions scripts list
    MaxChanges      \* bound: sign-ins, refreshes, group changes and assignments

ASSUME HumanTaskConstants ==
    /\ Initiator \in Users /\ Guest \in Users /\ Anybody \notin Users /\ DefaultGroup \in Groups
    /\ NoTask \notin HTasks /\ MaxChanges \in Nat
    /\ \A l \in Lanes : l.group \in Groups /\ l.groups \subseteq Groups /\ l.names \subseteq Users
    /\ \A c \in Claims : c.authority \in BOOLEAN /\ c.groups \subseteq Groups
    /\ \A y \in YamlGroups : y \subseteq (Users \cup {Anybody}) \X Groups

VARIABLES
    account,     \* users that exist
    member,      \* user_group_assignment
    pending,     \* user_group_assignment_waiting
    engine,      \* the state of the task in the workflow
    lane,        \* the lane it is in
    humanTask,   \* human_task rows: [state, by]
    owner,       \* human_task_user: added_by for each task and user, or "no"
    taskGroup,   \* human_task_group
    waitingUser, \* human_task_user_waiting
    draft,       \* task_draft_data
    submitting,  \* a request past its authorization: the task it submits
    drafting,    \* likewise for the draft being saved, if any
    refreshed,   \* ghost: has refresh_permissions removed a membership?
    changes      \* sign-ins, refreshes, group changes and assignments so far

htVars == <<account, member, pending, engine, lane, humanTask, owner, taskGroup, waitingUser,
            draft, submitting, drafting, refreshed, changes>>
assignVars == <<engine, lane, humanTask, taskGroup, draft, submitting, drafting>>
workVars   == <<account, member, pending, refreshed, changes>>

AddedBy == {"guest", "lane_assignment", "lane_owner", "manual", "process_initiator"}

HumanTasksTypeOK ==
    /\ account \subseteq Users /\ member \subseteq account \X Groups
    /\ pending \subseteq (Users \cup {Anybody}) \X Groups
    /\ engine \in [HTasks -> {"future", "ready", "completed", "cancelled"}]
    /\ lane \in [HTasks -> Lanes \cup {NoLane}]
    /\ humanTask \in [HTasks -> [state : {"none", "open", "done"}, by : Users \cup {NoUser}]]
    /\ owner \in [HTasks -> [Users -> AddedBy \cup {"no"}]]
    /\ taskGroup \subseteq HTasks \X Groups /\ waitingUser \subseteq HTasks \X Users
    /\ draft \subseteq {Definition[t] : t \in HTasks}
    /\ submitting \in [Users -> HTasks \cup {NoTask}] /\ drafting \in HTasks \cup {NoTask}
    /\ refreshed \in BOOLEAN /\ changes \in 0..MaxChanges

HumanTasksInit ==
    /\ account = {Initiator, Guest} /\ member = {} /\ pending = {}
    /\ engine = [t \in HTasks |-> "future"] /\ lane = [t \in HTasks |-> NoLane]
    /\ humanTask = [t \in HTasks |-> [state |-> "none", by |-> NoUser]]
    /\ owner = [t \in HTasks |-> [u \in Users |-> "no"]]
    /\ taskGroup = {} /\ waitingUser = {} /\ draft = {}
    /\ submitting = [u \in Users |-> NoTask] /\ drafting = NoTask
    /\ refreshed = FALSE /\ changes = 0

Open(t)      == humanTask[t].state = "open"
GroupsOf(t)  == {g \in Groups : <<t, g>> \in taskGroup}
MemberOf(m, u) == {g \in Groups : <<u, g>> \in m}

-----------------------------------------------------------------------------
(* Group membership carries task assignments with it *)

(* Open tasks of the groups a user joined that the user does not own yet;  *)
(* a task's lane_assignment_id is always null now.                         *)
get_tasks_for_new_groups(o, u, new) ==
    {t \in HTasks : Open(t) /\ GroupsOf(t) \cap new # {} /\ o[t][u] = "no"}

(* Group-based assignments to open tasks of the groups a user left. *)
get_assignments_for_old_groups(o, u, old) ==
    {t \in HTasks : /\ Open(t) /\ GroupsOf(t) \cap old # {}
                    /\ o[t][u] \in {"lane_assignment", "lane_owner"}}

(* A lane_owner stays; so does who still is in one of the task's groups. *)
remove_assignments_without_group_access(o, m, u, tasks) ==
    {t \in tasks : o[t][u] # "lane_owner" /\ GroupsOf(t) \cap MemberOf(m, u) = {}}

update_human_task_assignments_for_user(o, m, u, new, old) ==
    LET plus  == get_tasks_for_new_groups(o, u, new)
        minus == remove_assignments_without_group_access(
                     o, m, u, get_assignments_for_old_groups(o, u, old))
    IN  [t \in HTasks |->
            [o[t] EXCEPT ![u] = CASE t \in plus  -> "lane_assignment"
                                  [] t \in minus -> "no"
                                  [] OTHER       -> @]]

Change == changes < MaxChanges /\ changes' = changes + 1

(* Joining or leaving several groups, one commit after the other. *)
Join(o, m, u, new) ==
    update_human_task_assignments_for_user(o, m \cup ({u} \X new), u, new \ MemberOf(m, u), {})
Leave(o, m, u, old) ==
    update_human_task_assignments_for_user(o, m \ ({u} \X old), u, {}, old)

(* Faulty variant: the membership alone. *)
AddUserToGroupOnly(u, g) ==
    /\ Change /\ u \in account /\ <<u, g>> \notin member
    /\ member' = member \cup {<<u, g>>}
    /\ UNCHANGED <<account, pending, owner, waitingUser, refreshed>> /\ UNCHANGED assignVars

add_user_to_group(u, g) ==
    /\ Change /\ u \in account /\ <<u, g>> \notin member
    /\ member' = member \cup {<<u, g>>}
    /\ owner' = Join(owner, member, u, {g})
    /\ UNCHANGED <<account, pending, waitingUser, refreshed>> /\ UNCHANGED assignVars

(* Faulty variant: tasks of the group stay assigned. *)
RemoveUserKeepsTasks(u, g) ==
    /\ Change /\ <<u, g>> \in member
    /\ member' = member \ {<<u, g>>}
    /\ UNCHANGED <<account, pending, owner, waitingUser, refreshed>> /\ UNCHANGED assignVars

remove_user_from_group(u, g) ==
    /\ Change /\ <<u, g>> \in member
    /\ member' = member \ {<<u, g>>}
    /\ owner' = Leave(owner, member, u, {g})
    /\ UNCHANGED <<account, pending, waitingUser, refreshed>> /\ UNCHANGED assignVars

-----------------------------------------------------------------------------
(* Users appear *)

(* The groups that wait for a new user, by name or by pattern. *)
apply_waiting_group_assignments(u) ==
    {g \in Groups : <<u, g>> \in pending \/ <<Anybody, g>> \in pending}

(* The tasks that wait for a new user; an assignment that exists is left.  *)
apply_waiting_human_task_assignments(o, u) ==
    [t \in HTasks |->
        [o[t] EXCEPT ![u] = IF <<t, u>> \in waitingUser /\ Open(t) /\ @ = "no" THEN "lane_owner" ELSE @]]

(* Faulty variant: nothing that waits for the user is applied. *)
CreateUserAlone(u) == [member |-> member, owner |-> owner, pending |-> pending, waiting |-> waitingUser]

(* The rows after create_user: the user, its principal, then what waited.  *)
create_user(u) ==
    LET gs == apply_waiting_group_assignments(u)
    IN  [member  |-> member \cup ({u} \X gs),
         owner   |-> apply_waiting_human_task_assignments(Join(owner, member, u, gs), u),
         pending |-> {p \in pending : p[1] # u},
         waiting |-> {w \in waitingUser : w[2] # u \/ ~Open(w[1])}]

(* A sign-in: create or find the user, add the token's groups, the groups  *)
(* permissions.yaml lists the user in and the default group, then leave    *)
(* the others.  Without group claims nothing is left.                      *)
create_user_from_sign_in(u, claims, yaml) ==
    LET new   == u \notin account
        after == create_user(u)
        m0    == IF new THEN after.member ELSE member
        o0    == IF new THEN after.owner ELSE owner
        mine  == {g \in Groups : <<u, g>> \in yaml}
        want  == claims.groups \cup mine \cup {DefaultGroup}
        m1    == m0 \cup ({u} \X want)
        o1    == Join(o0, m0, u, want)
        drop  == IF claims.authority THEN MemberOf(m1, u) \ want ELSE {}
    IN  /\ Change
        /\ account' = account \cup {u}
        /\ member' = m1 \ ({u} \X drop)
        /\ owner' = Leave(o1, m1, u, drop)
        /\ pending' = IF new THEN after.pending ELSE pending
        /\ waitingUser' = IF new THEN after.waiting ELSE waitingUser
        /\ UNCHANGED refreshed /\ UNCHANGED assignVars

(* An entry of the configuration: a user that exists joins, a name or a    *)
(* pattern waits, and a pattern also adds who matches it.                  *)
add_user_to_group_or_add_to_waiting(name, g) ==
    LET joins == IF name = Anybody THEN account ELSE account \cap {name} IN
    [joins |-> {<<u, g>> : u \in joins},
     waits |-> IF name \in account THEN {} ELSE {<<name, g>>}]

add_permissions_from_group_permissions(yaml) ==
    [joins |-> UNION {add_user_to_group_or_add_to_waiting(e[1], e[2]).joins : e \in yaml},
     waits |-> UNION {add_user_to_group_or_add_to_waiting(e[1], e[2]).waits : e \in yaml}]

(* What a refresh deletes: memberships it did not add, but for the default *)
(* group and the guest.                                                    *)
remove_old_permissions_from_added_permissions(added) ==
    {a \in member : a \notin added.joins /\ a[2] # DefaultGroup /\ a[1] # Guest}

(* refresh_permissions: add what the configuration lists, everybody but    *)
(* the guest to the default group, delete the rest.  The memberships are   *)
(* deleted as rows: the tasks of the group stay assigned.                  *)
refresh_permissions(yaml) ==
    LET added == add_permissions_from_group_permissions(yaml)
        gone  == remove_old_permissions_from_added_permissions(added)
        joins == added.joins \cup ((account \ {Guest}) \X {DefaultGroup})
    IN  /\ Change
        /\ member' = (member \ gone) \cup joins
        /\ pending' = added.waits
        /\ owner' = [t \in HTasks |-> [u \in Users |->
               IF t \in get_tasks_for_new_groups(owner, u, MemberOf(joins \ member, u))
               THEN "lane_assignment" ELSE owner[t][u]]]
        /\ refreshed' = (refreshed \/ gone # {})
        /\ UNCHANGED <<account, waitingUser>> /\ UNCHANGED assignVars

-----------------------------------------------------------------------------
(* Tasks become human tasks, and end *)

(* The owners, the groups and the names a new human task gets; a name that *)
(* is also in a group is its owner by name.                                *)
get_potential_owners_from_task(l) ==
    LET listed == IF l.kind = "owners" THEN l.groups ELSE {l.group}
        inGroup(u) == MemberOf(member, u) \cap listed # {}
    IN CASE l.kind = "guest" ->
              [owners |-> [u \in Users |-> IF u = Guest THEN "guest" ELSE "no"],
               groups |-> {}, waiting |-> {}]
         [] l.kind = "initiator" ->
              [owners |-> [u \in Users |-> IF u = Initiator THEN "process_initiator" ELSE "no"],
               groups |-> {}, waiting |-> {}]
         [] OTHER ->
              [owners |-> [u \in Users |->
                   IF u \in l.names /\ u \in account THEN "lane_owner"
                   ELSE IF inGroup(u) THEN "lane_assignment" ELSE "no"],
               groups |-> listed, waiting |-> l.names \ account]

(* save() after the engine reached a manual task: the human task and its   *)
(* assignments, in the commit that saves the workflow.                     *)
create_new_human_task(t, l) ==
    LET p == get_potential_owners_from_task(l) IN
    /\ engine[t] = "future"
    /\ p.groups # {} \/ p.waiting # {} \/ \E u \in Users : p.owners[u] # "no"
    /\ engine' = [engine EXCEPT ![t] = "ready"] /\ lane' = [lane EXCEPT ![t] = l]
    /\ humanTask' = [humanTask EXCEPT ![t].state = "open"]
    /\ owner' = [owner EXCEPT ![t] = p.owners]
    /\ taskGroup' = taskGroup \cup ({t} \X p.groups)
    /\ waitingUser' = waitingUser \cup ({t} \X p.waiting)
    /\ UNCHANGED workVars /\ UNCHANGED <<draft, submitting, drafting>>

cleanup_human_task_waiting_assignments(t) == waitingUser' = {w \in waitingUser : w[1] # t}

(* save() after the engine left a manual task behind, as an interrupting   *)
(* event does: the human task is completed by nobody.                      *)
complete_existing_human_tasks(t) ==
    /\ engine[t] = "ready"
    /\ engine' = [engine EXCEPT ![t] = "cancelled"]
    /\ humanTask' = [humanTask EXCEPT ![t].state = "done"]
    /\ cleanup_human_task_waiting_assignments(t)
    /\ UNCHANGED workVars /\ UNCHANGED <<lane, owner, taskGroup, draft, submitting, drafting>>

(* complete_task with the human task; the draft is deleted in a commit of  *)
(* its own after the lock is released.                                     *)
complete_task(u, t) ==
    /\ engine' = [engine EXCEPT ![t] = "completed"]
    /\ humanTask' = [humanTask EXCEPT ![t] = [state |-> "done", by |-> u]]
    /\ cleanup_human_task_waiting_assignments(t)
    /\ UNCHANGED workVars /\ UNCHANGED <<lane, owner, taskGroup, drafting>>

assert_user_can_complete_human_task(u, t) == Open(t) /\ u \in account /\ owner[t][u] # "no"

(* A submit, up to the lock. *)
task_submit(u, t) ==
    /\ submitting[u] = NoTask /\ assert_user_can_complete_human_task(u, t)
    /\ submitting' = [submitting EXCEPT ![u] = t]
    /\ UNCHANGED workVars
    /\ UNCHANGED <<engine, lane, humanTask, owner, taskGroup, waitingUser, draft, drafting>>

(* Faulty variant: the task is completed without another look. *)
SubmitUnchecked(u) ==
    /\ submitting[u] # NoTask
    /\ complete_task(u, submitting[u])
    /\ submitting' = [submitting EXCEPT ![u] = NoTask]
    /\ draft' = draft \ {Definition[submitting[u]]}

(* Under the lock: a task that is not READY any more is refused. *)
task_submit_locked(u) ==
    /\ submitting[u] # NoTask
    /\ submitting' = [submitting EXCEPT ![u] = NoTask]
    /\ IF engine[submitting[u]] = "ready" /\ Open(submitting[u])
       THEN complete_task(u, submitting[u]) /\ draft' = draft \ {Definition[submitting[u]]}
       ELSE /\ UNCHANGED workVars
            /\ UNCHANGED <<engine, lane, humanTask, owner, taskGroup, waitingUser, draft, drafting>>

(* An administrator completes a task of a suspended instance, assigned or not. *)
complete_human_task_manually(u, t) ==
    /\ u \in account /\ engine[t] = "ready"
    /\ complete_task(u, t)
    /\ UNCHANGED <<draft, submitting>>

(* An administrator assigns users to the task of a suspended instance. *)
task_assign(t, us) ==
    /\ Change /\ humanTask[t].state # "none"
    /\ owner' = [owner EXCEPT ![t] = [u \in Users |->
           IF u \in us /\ @[u] = "no" THEN "manual" ELSE @[u]]]
    /\ UNCHANGED <<account, member, pending, waitingUser, refreshed>> /\ UNCHANGED assignVars

(* A draft: the test, then the upsert under the task's definition. *)
task_save_draft(u, t) ==
    /\ drafting = NoTask /\ assert_user_can_complete_human_task(u, t)
    /\ drafting' = t
    /\ UNCHANGED workVars
    /\ UNCHANGED <<engine, lane, humanTask, owner, taskGroup, waitingUser, draft, submitting>>

insert_or_update_task_draft_data_dict ==
    /\ drafting # NoTask
    /\ draft' = draft \cup {Definition[drafting]}
    /\ drafting' = NoTask
    /\ UNCHANGED workVars
    /\ UNCHANGED <<engine, lane, humanTask, owner, taskGroup, waitingUser, submitting>>

-----------------------------------------------------------------------------
(* What users are shown *)

(* HumanTaskModel.to_task: assigned, or in a group the task is assigned to. *)
to_task(u, t) == owner[t][u] # "no" \/ GroupsOf(t) \cap MemberOf(member, u) # {}

task_list_my_tasks(u) == {t \in HTasks : Open(t) /\ owner[t][u] # "no"}

task_list_completed_by_me(u) == {t \in HTasks : humanTask[t] = [state |-> "done", by |-> u]}

(* The lists of the old home page: of my processes, of others' processes   *)
(* by group, of others' processes assigned to me alone.                    *)
get_tasks(u, mine, byGroup) ==
    {t \in HTasks :
        /\ Open(t)
        /\ mine = (u = Initiator)
        /\ mine \/ (owner[t][u] # "no" /\ byGroup = (GroupsOf(t) # {}))}

(* The instances "for me": I may complete, completed or started one. *)
find_process_instance_for_me_or_raise(u) ==
    u = Initiator \/ \E t \in HTasks : owner[t][u] # "no" \/ humanTask[t].by = u

-----------------------------------------------------------------------------
HumanTasksNext ==
    \/ \E u \in Users, g \in Groups : add_user_to_group(u, g) \/ remove_user_from_group(u, g)
    \/ \E u \in Users \ {Guest}, c \in Claims, y \in YamlGroups : create_user_from_sign_in(u, c, y)
    \/ \E y \in YamlGroups : refresh_permissions(y)
    \/ \E t \in HTasks : (\E l \in Lanes : create_new_human_task(t, l)) \/ complete_existing_human_tasks(t)
    \/ \E u \in Users, t \in HTasks :
           task_submit(u, t) \/ complete_human_task_manually(u, t) \/ task_save_draft(u, t)
    \/ \E u \in account : \E t \in HTasks : task_assign(t, {u})
    \/ \E u \in Users : task_submit_locked(u)
    \/ insert_or_update_task_draft_data_dict

HumanTasksSpec == HumanTasksInit /\ [][HumanTasksNext]_htVars

-----------------------------------------------------------------------------
(* Properties *)

(* A completed human task keeps its end: of two users who submit it, of a  *)
(* submit and an event that cancels it, the second changes nothing.        *)
CompletedOnce == [][\A t \in HTasks : humanTask[t].state = "done" => humanTask'[t] = humanTask[t]]_htVars

(* A name waits for an open task only while its user does not exist:       *)
(* whoever signs in owns the tasks that waited.                            *)
WaitingIsPending == \A w \in waitingUser : Open(w[1]) /\ w[2] \notin account

(* What a user is shown as completable (to_task goes by groups) is what    *)
(* the server lets the user complete (assert_user_can_complete goes by     *)
(* assignments), whatever order groups, users and tasks came in.           *)
ShownIsAllowed ==
    \A u \in account, t \in HTasks :
        Open(t) => (to_task(u, t) <=> assert_user_can_complete_human_task(u, t))

(* What a user may complete can be found: it is the list of the user's     *)
(* tasks and, the initiator aside, the lists of the old home page; and the *)
(* instance of a task a user may or did complete is one "for me".          *)
ListedIfAllowed ==
    \A u \in account :
        LET mine == {t \in HTasks : assert_user_can_complete_human_task(u, t)}
            ofOthers == get_tasks(u, FALSE, TRUE) \cup get_tasks(u, FALSE, FALSE)
        IN  /\ task_list_my_tasks(u) = mine
            /\ IF u = Initiator THEN mine \subseteq get_tasks(u, TRUE, FALSE) ELSE ofOthers = mine
            /\ mine \cup task_list_completed_by_me(u) # {} => find_process_instance_for_me_or_raise(u)

(* Who was assigned through a group and left it may not complete the task  *)
(* any more (a refresh, which deletes memberships as rows, aside).         *)
AccessEndsWithGroup ==
    ~refreshed => \A t \in HTasks, u \in Users :
        Open(t) /\ owner[t][u] = "lane_assignment" => GroupsOf(t) \cap MemberOf(member, u) # {}

(* All of it, in any order of sign-ins, group changes, lane assignments,   *)
(* submissions and events.                                                 *)
HumanTasksSound ==
    HumanTasksTypeOK /\ WaitingIsPending /\ ShownIsAllowed /\ ListedIfAllowed /\ AccessEndsWithGroup

(* "preserving explicit lane_owner assignments" (user_service.py, on       *)
(* removing assignments when a user leaves a group): a user that an open   *)
(* task's lane_owners names, and that exists, may complete it.             *)
NamedOwnersKept ==
    \A t \in HTasks : Open(t) /\ lane[t].kind = "owners" =>
        \A u \in lane[t].names \cap account : owner[t][u] # "no"
=============================================================================
