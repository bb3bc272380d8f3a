-------------------------- MODULE HumanTasksProofs --------------------------
(***************************************************************************)
(* What HumanTasks guarantees for any set of users, groups, tasks, lanes   *)
(* and permission files; TaskForms for any sequence of human tasks and any *)
(* contents of files; Progress for any sequence of tasks and any tabs.     *)
(***************************************************************************)
EXTENDS HumanTasks, TaskForms, Progress, TLAPS

(* A human task is open exactly while the engine waits for it, and has     *)
(* groups only since then: what lets a submit under the lock, an event and *)
(* an administrator agree on whether there is anything left to complete.   *)
EngineInv ==
    \A t \in HTasks :
        /\ engine[t] = "future" <=> humanTask[t].state = "none"
        /\ engine[t] = "ready" <=> Open(t)
        /\ engine[t] = "future" => GroupsOf(t) = {}

Owners == [HTasks -> [Users -> AddedBy \cup {"no"}]]

(* Whoever is in a group of an open task is assigned to it. *)
MembersOwn(o, m) ==
    \A t \in HTasks, u \in Users :
        Open(t) /\ GroupsOf(t) \cap MemberOf(m, u) # {} => o[t][u] # "no"

(* Whoever is assigned to an open task by its lane is in one of its groups. *)
LanesHold(o, m) ==
    \A t \in HTasks, u \in Users :
        Open(t) /\ o[t][u] = "lane_assignment" => GroupsOf(t) \cap MemberOf(m, u) # {}

IInv ==
    /\ HumanTasksTypeOK /\ EngineInv /\ WaitingIsPending
    /\ MembersOwn(owner, member)
    /\ ~refreshed => LanesHold(owner, member)

-----------------------------------------------------------------------------
(* The rows of human_task_user after users join and leave groups *)

(* Joining assigns the open tasks of the new groups and nothing else. *)
LEMMA JoinIs ==
    ASSUME NEW o \in Owners, NEW m, NEW u \in Users, NEW new \in SUBSET Groups
    PROVE  /\ Join(o, m, u, new) \in Owners
           /\ \A t \in HTasks, v \in Users : Join(o, m, u, new)[t][v] =
                  IF v = u /\ Open(t) /\ GroupsOf(t) \cap (new \ MemberOf(m, u)) # {} /\ o[t][u] = "no"
                  THEN "lane_assignment" ELSE o[t][v]
  <1>. DEFINE plus == get_tasks_for_new_groups(o, u, new \ MemberOf(m, u))
              m1 == m \cup ({u} \X new)
              minus == remove_assignments_without_group_access(
                           o, m1, u, get_assignments_for_old_groups(o, u, {}))
              J == [t \in HTasks |-> [o[t] EXCEPT ![u] = CASE t \in plus  -> "lane_assignment"
                                                           [] t \in minus -> "no"
                                                           [] OTHER       -> @]]
  <1>1. minus = {}
    BY DEF remove_assignments_without_group_access, get_assignments_for_old_groups
  <1>2. Join(o, m, u, new) = J
    BY DEF Join, update_human_task_assignments_for_user
  <1>3. \A t \in HTasks : t \in plus <=>
            Open(t) /\ GroupsOf(t) \cap (new \ MemberOf(m, u)) # {} /\ o[t][u] = "no"
    BY DEF get_tasks_for_new_groups
  <1>. HIDE DEF plus, minus
  <1>4. ASSUME NEW t \in HTasks
        PROVE  /\ J[t] \in [Users -> AddedBy \cup {"no"}]
               /\ \A v \in Users : J[t][v] = IF v = u /\ t \in plus THEN "lane_assignment" ELSE o[t][v]
    <2>1. o[t] \in [Users -> AddedBy \cup {"no"}]
      BY DEF Owners
    <2>2. J[t] = [o[t] EXCEPT ![u] = IF t \in plus THEN "lane_assignment" ELSE o[t][u]]
      BY <1>1
    <2>. QED
      BY <2>1, <2>2 DEF AddedBy
  <1>5. J \in Owners
    BY <1>4 DEF Owners
  <1>. QED
    BY <1>2, <1>3, <1>4, <1>5

(* Leaving takes the lane assignments that no other group of the task      *)
(* carries, and nothing else.                                              *)
LEMMA LeaveIs ==
    ASSUME NEW o \in Owners, NEW m, NEW u \in Users, NEW old \in SUBSET Groups
    PROVE  /\ Leave(o, m, u, old) \in Owners
           /\ \A t \in HTasks, v \in Users : Leave(o, m, u, old)[t][v] =
                  IF /\ v = u /\ Open(t) /\ GroupsOf(t) \cap old # {}
                     /\ o[t][u] = "lane_assignment" /\ GroupsOf(t) \cap (MemberOf(m, u) \ old) = {}
                  THEN "no" ELSE o[t][v]
  <1>. DEFINE m1 == m \ ({u} \X old)
              plus == get_tasks_for_new_groups(o, u, {})
              minus == remove_assignments_without_group_access(
                           o, m1, u, get_assignments_for_old_groups(o, u, old))
              L == [t \in HTasks |-> [o[t] EXCEPT ![u] = CASE t \in plus  -> "lane_assignment"
                                                           [] t \in minus -> "no"
                                                           [] OTHER       -> @]]
  <1>1. plus = {}
    BY DEF get_tasks_for_new_groups
  <1>2. Leave(o, m, u, old) = L
    BY DEF Leave, update_human_task_assignments_for_user
  <1>3. MemberOf(m1, u) = MemberOf(m, u) \ old
    BY DEF MemberOf
  <1>4. \A t \in HTasks : t \in minus <=>
            /\ Open(t) /\ GroupsOf(t) \cap old # {}
            /\ o[t][u] = "lane_assignment" /\ GroupsOf(t) \cap (MemberOf(m, u) \ old) = {}
    BY <1>3 DEF remove_assignments_without_group_access, get_assignments_for_old_groups
  <1>. HIDE DEF plus, minus
  <1>5. ASSUME NEW t \in HTasks
        PROVE  /\ L[t] \in [Users -> AddedBy \cup {"no"}]
               /\ \A v \in Users : L[t][v] = IF v = u /\ t \in minus THEN "no" ELSE o[t][v]
    <2>1. o[t] \in [Users -> AddedBy \cup {"no"}]
      BY DEF Owners
    <2>2. L[t] = [o[t] EXCEPT ![u] = IF t \in minus THEN "no" ELSE o[t][u]]
      BY <1>1
    <2>. QED
      BY <2>1, <2>2
  <1>6. L \in Owners
    BY <1>5 DEF Owners
  <1>. QED
    BY <1>2, <1>4, <1>5, <1>6

(* Either way the assignments keep in step with the memberships. *)
LEMMA JoinKeeps ==
    ASSUME NEW o \in Owners, NEW m, NEW u \in Users, NEW new \in SUBSET Groups
    PROVE  /\ MembersOwn(o, m) => MembersOwn(Join(o, m, u, new), m \cup ({u} \X new))
           /\ LanesHold(o, m) => LanesHold(Join(o, m, u, new), m \cup ({u} \X new))
  <1>. DEFINE J == Join(o, m, u, new)  m1 == m \cup ({u} \X new)
  <1>1. \A t \in HTasks, v \in Users : J[t][v] =
            IF v = u /\ Open(t) /\ GroupsOf(t) \cap (new \ MemberOf(m, u)) # {} /\ o[t][u] = "no"
            THEN "lane_assignment" ELSE o[t][v]
    BY JoinIs
  <1>2. \A v \in Users : MemberOf(m1, v) = IF v = u THEN MemberOf(m, v) \cup new ELSE MemberOf(m, v)
    BY DEF MemberOf
  <1>. HIDE DEF J, m1
  <1>3. MembersOwn(o, m) => MembersOwn(J, m1)
    BY <1>1, <1>2 DEF MembersOwn
  <1>4. LanesHold(o, m) => LanesHold(J, m1)
    BY <1>1, <1>2 DEF LanesHold
  <1>. QED
    BY <1>3, <1>4 DEF J, m1

LEMMA LeaveKeeps ==
    ASSUME NEW o \in Owners, NEW m, NEW u \in Users, NEW old \in SUBSET Groups
    PROVE  /\ MembersOwn(o, m) => MembersOwn(Leave(o, m, u, old), m \ ({u} \X old))
           /\ LanesHold(o, m) => LanesHold(Leave(o, m, u, old), m \ ({u} \X old))
  <1>. DEFINE L == Leave(o, m, u, old)  m1 == m \ ({u} \X old)
  <1>1. \A t \in HTasks, v \in Users : L[t][v] =
            IF /\ v = u /\ Open(t) /\ GroupsOf(t) \cap old # {}
               /\ o[t][u] = "lane_assignment" /\ GroupsOf(t) \cap (MemberOf(m, u) \ old) = {}
            THEN "no" ELSE o[t][v]
    BY LeaveIs
  <1>2. \A v \in Users : MemberOf(m1, v) = IF v = u THEN MemberOf(m, v) \ old ELSE MemberOf(m, v)
    BY DEF MemberOf
  <1>. HIDE DEF L, m1
  <1>3. MembersOwn(o, m) => MembersOwn(L, m1)
    BY <1>1, <1>2 DEF MembersOwn
  <1>4. LanesHold(o, m) => LanesHold(L, m1)
    BY <1>1, <1>2 DEF LanesHold
  <1>. QED
    BY <1>3, <1>4 DEF L, m1

-----------------------------------------------------------------------------
(* Groups and users *)

(* What is left to show for an operation that touches no task. *)
LEMMA PeopleInv ==
    ASSUME IInv, Change, UNCHANGED assignVars,
           account \subseteq account', account' \subseteq Users, member' \subseteq account' \X Groups,
           pending' \subseteq (Users \cup {Anybody}) \X Groups, owner' \in Owners,
           waitingUser' \subseteq waitingUser, \A w \in waitingUser' : w[2] \notin account',
           refreshed' \in BOOLEAN,
           MembersOwn(owner', member'),
           ~refreshed' => LanesHold(owner', member')
    PROVE  IInv'
  <1>1. \A t \in HTasks : (Open(t)' <=> Open(t)) /\ GroupsOf(t)' = GroupsOf(t)
    BY DEF assignVars, Open, GroupsOf
  <1>2. HumanTasksTypeOK'
    <2>1. changes' \in 0..MaxChanges
      BY HumanTaskConstants DEF IInv, HumanTasksTypeOK, Change
    <2>. QED
      BY <2>1 DEF IInv, HumanTasksTypeOK, assignVars, Owners
  <1>3. EngineInv'
    BY <1>1 DEF IInv, EngineInv, assignVars
  <1>4. WaitingIsPending'
    BY DEF IInv, WaitingIsPending, Open, assignVars
  <1>5. MembersOwn(owner', member') => MembersOwn(owner, member)'
    BY <1>1 DEF MembersOwn, MemberOf
  <1>6. LanesHold(owner', member') => LanesHold(owner, member)'
    BY <1>1 DEF LanesHold, MemberOf
  <1>. QED
    BY <1>2, <1>3, <1>4, <1>5, <1>6 DEF IInv

LEMMA AddUserInv == ASSUME IInv, NEW u \in Users, NEW g \in Groups, add_user_to_group(u, g) PROVE IInv'
  <1>. DEFINE o1 == Join(owner, member, u, {g})  m1 == member \cup ({u} \X {g})
  <1>0. owner \in Owners /\ {g} \in SUBSET Groups /\ IInv
    BY DEF IInv, HumanTasksTypeOK, Owners
  <1>1. o1 \in Owners /\ MembersOwn(o1, m1) /\ (~refreshed => LanesHold(o1, m1))
    BY <1>0, JoinIs, JoinKeeps DEF IInv
  <1>2. owner' = o1 /\ member' = m1
    <2>1. {u} \X {g} = {<<u, g>>}
      OBVIOUS
    <2>. QED
      BY <2>1 DEF add_user_to_group
  <1>. HIDE DEF o1, m1
  <1>3. /\ Change /\ UNCHANGED assignVars /\ UNCHANGED <<account, pending, waitingUser, refreshed>>
        /\ member' \subseteq account \X Groups
    BY DEF add_user_to_group, IInv, HumanTasksTypeOK
  <1>4. /\ account \subseteq Users /\ pending \subseteq (Users \cup {Anybody}) \X Groups
        /\ refreshed \in BOOLEAN /\ \A w \in waitingUser : w[2] \notin account
    BY DEF IInv, HumanTasksTypeOK, WaitingIsPending
  <1>. QED
    BY <1>1, <1>2, <1>3, <1>4, PeopleInv

LEMMA RemoveUserInv == ASSUME IInv, NEW u \in Users, NEW g \in Groups, remove_user_from_group(u, g) PROVE IInv'
  <1>. DEFINE o1 == Leave(owner, member, u, {g})  m1 == member \ ({u} \X {g})
  <1>0. owner \in Owners /\ {g} \in SUBSET Groups /\ IInv
    BY DEF IInv, HumanTasksTypeOK, Owners
  <1>1. o1 \in Owners /\ MembersOwn(o1, m1) /\ (~refreshed => LanesHold(o1, m1))
    BY <1>0, LeaveIs, LeaveKeeps DEF IInv
  <1>2. owner' = o1 /\ member' = m1
    <2>1. {u} \X {g} = {<<u, g>>}
      OBVIOUS
    <2>. QED
      BY <2>1 DEF remove_user_from_group
  <1>. HIDE DEF o1, m1
  <1>3. /\ Change /\ UNCHANGED assignVars /\ UNCHANGED <<account, pending, waitingUser, refreshed>>
        /\ member' \subseteq account \X Groups
    BY DEF remove_user_from_group, IInv, HumanTasksTypeOK
  <1>4. /\ account \subseteq Users /\ pending \subseteq (Users \cup {Anybody}) \X Groups
        /\ refreshed \in BOOLEAN /\ \A w \in waitingUser : w[2] \notin account
    BY DEF IInv, HumanTasksTypeOK, WaitingIsPending
  <1>. QED
    BY <1>1, <1>2, <1>3, <1>4, PeopleInv

(* What waited for a new user is applied: the groups first, then the tasks. *)
LEMMA CreateUserIs ==
    ASSUME IInv, NEW u \in Users
    PROVE  LET after == create_user(u) IN
           /\ after.owner \in Owners
           /\ \E gs \in SUBSET Groups : after.member = member \cup ({u} \X gs)
           /\ MembersOwn(after.owner, after.member)
           /\ ~refreshed => LanesHold(after.owner, after.member)
           /\ after.pending \subseteq pending
           /\ after.waiting = {w \in waitingUser : w[2] # u}
  <1>. DEFINE gs == apply_waiting_group_assignments(u)
              o1 == Join(owner, member, u, gs)  m1 == member \cup ({u} \X gs)
              o2 == apply_waiting_human_task_assignments(o1, u)
  <1>0. owner \in Owners /\ gs \in SUBSET Groups
    BY DEF IInv, HumanTasksTypeOK, Owners, apply_waiting_group_assignments
  <1>1. o1 \in Owners /\ MembersOwn(o1, m1) /\ (~refreshed => LanesHold(o1, m1))
    BY <1>0, JoinIs, JoinKeeps DEF IInv
  <1>2. create_user(u) = [member |-> m1, owner |-> o2, pending |-> {p \in pending : p[1] # u},
                          waiting |-> {w \in waitingUser : w[2] # u \/ ~Open(w[1])}]
    BY DEF create_user
  <1>. HIDE DEF o1
  <1>3. o2 = [t \in HTasks |-> [o1[t] EXCEPT ![u] =
                  IF <<t, u>> \in waitingUser /\ Open(t) /\ @ = "no" THEN "lane_owner" ELSE @]]
    BY DEF apply_waiting_human_task_assignments
  <1>. HIDE DEF o2, gs, m1
  <1>4. /\ o2 \in Owners
        /\ \A t \in HTasks, v \in Users : o2[t][v] = o1[t][v] \/ (o1[t][v] = "no" /\ o2[t][v] = "lane_owner")
    <2>1. ASSUME NEW t \in HTasks
          PROVE  /\ o2[t] \in [Users -> AddedBy \cup {"no"}]
                 /\ \A v \in Users : o2[t][v] = o1[t][v] \/ (o1[t][v] = "no" /\ o2[t][v] = "lane_owner")
      <3>1. o1[t] \in [Users -> AddedBy \cup {"no"}]
        BY <1>1 DEF Owners
      <3>2. PICK x : x = IF <<t, u>> \in waitingUser /\ Open(t) /\ o1[t][u] = "no" THEN "lane_owner" ELSE o1[t][u]
        OBVIOUS
      <3>3. x \in AddedBy \cup {"no"} /\ (x = o1[t][u] \/ (o1[t][u] = "no" /\ x = "lane_owner"))
        BY <3>1, <3>2 DEF AddedBy
      <3>4. o2[t] = [o1[t] EXCEPT ![u] = x]
        BY <1>3, <3>2
      <3>. QED
        BY <3>1, <3>3, <3>4
    <2>2. o2 \in Owners
      BY <1>3, <2>1 DEF Owners
    <2>. QED
      BY <2>1, <2>2
  <1>5. MembersOwn(o2, m1)
    BY <1>1, <1>4 DEF MembersOwn
  <1>6. ~refreshed => LanesHold(o2, m1)
    BY <1>1, <1>4 DEF LanesHold
  <1>7. {w \in waitingUser : w[2] # u \/ ~Open(w[1])} = {w \in waitingUser : w[2] # u}
    BY DEF IInv, WaitingIsPending
  <1>. QED
    BY <1>0, <1>2, <1>4, <1>5, <1>6, <1>7 DEF m1

LEMMA SignInInv ==
    ASSUME IInv, NEW u \in Users, NEW claims \in Claims, NEW yaml \in YamlGroups,
           create_user_from_sign_in(u, claims, yaml)
    PROVE  IInv'
  <1>. DEFINE new   == u \notin account
              after == create_user(u)
              m0    == IF new THEN after.member ELSE member
              o0    == IF new THEN after.owner ELSE owner
              mine  == {g \in Groups : <<u, g>> \in yaml}
              want  == claims.groups \cup mine \cup {DefaultGroup}
              m1    == m0 \cup ({u} \X want)
              o1    == Join(o0, m0, u, want)
              drop  == IF claims.authority THEN MemberOf(m1, u) \ want ELSE {}
              m2    == m1 \ ({u} \X drop)
              o2    == Leave(o1, m1, u, drop)
  <1>1. /\ Change /\ account' = account \cup {u} /\ member' = m2 /\ owner' = o2
        /\ pending' = IF new THEN after.pending ELSE pending
        /\ waitingUser' = IF new THEN after.waiting ELSE waitingUser
        /\ UNCHANGED refreshed /\ UNCHANGED assignVars
    BY DEF create_user_from_sign_in
  <1>2. /\ after.owner \in Owners
        /\ \E gs \in SUBSET Groups : after.member = member \cup ({u} \X gs)
        /\ MembersOwn(after.owner, after.member)
        /\ ~refreshed => LanesHold(after.owner, after.member)
        /\ after.pending \subseteq pending
        /\ after.waiting = {w \in waitingUser : w[2] # u}
    BY CreateUserIs
  <1>3. /\ owner \in Owners /\ MembersOwn(owner, member) /\ (~refreshed => LanesHold(owner, member))
        /\ account \subseteq Users /\ pending \subseteq (Users \cup {Anybody}) \X Groups
        /\ member \subseteq account \X Groups /\ refreshed \in BOOLEAN
        /\ \A w \in waitingUser : w[2] \notin account
    BY DEF IInv, HumanTasksTypeOK, Owners, WaitingIsPending
  <1>4. want \in SUBSET Groups
    BY HumanTaskConstants
  <1>. HIDE DEF new, after, want
  <1>5. /\ o0 \in Owners /\ MembersOwn(o0, m0) /\ (~refreshed => LanesHold(o0, m0))
        /\ m0 \subseteq (account \cup {u}) \X Groups
    BY <1>2, <1>3
  <1>. HIDE DEF o0, m0
  <1>6. o1 \in Owners /\ MembersOwn(o1, m1) /\ (~refreshed => LanesHold(o1, m1))
    BY <1>4, <1>5, JoinIs, JoinKeeps
  <1>7. m1 \subseteq (account \cup {u}) \X Groups
    BY <1>4, <1>5
  <1>. HIDE DEF o1, m1
  <1>8. drop \in SUBSET Groups
    BY DEF MemberOf
  <1>. HIDE DEF drop
  <1>9. o2 \in Owners /\ MembersOwn(o2, m2) /\ (~refreshed => LanesHold(o2, m2))
    BY <1>6, <1>8, LeaveIs, LeaveKeeps
  <1>10. m2 \subseteq (account \cup {u}) \X Groups
    BY <1>7
  <1>. HIDE DEF o2, m2
  <1>11. waitingUser' \subseteq waitingUser /\ \A w \in waitingUser' : w[2] \notin account'
    BY <1>1, <1>2, <1>3 DEF new
  <1>. QED
    BY <1>1, <1>2, <1>3, <1>9, <1>10, <1>11, PeopleInv

(* refresh_permissions deletes memberships as rows: who joins is assigned, *)
(* who is thrown out keeps the assignments.                                *)
LEMMA RefreshInv == ASSUME IInv, NEW yaml \in YamlGroups, refresh_permissions(yaml) PROVE IInv'
  <1>. DEFINE added == add_permissions_from_group_permissions(yaml)
              gone  == remove_old_permissions_from_added_permissions(added)
              joins == added.joins \cup ((account \ {Guest}) \X {DefaultGroup})
              new(v) == MemberOf(joins \ member, v)
              o1 == [t \in HTasks |-> [v \in Users |->
                        IF t \in get_tasks_for_new_groups(owner, v, new(v))
                        THEN "lane_assignment" ELSE owner[t][v]]]
              m1 == (member \ gone) \cup joins
  <1>1. /\ Change /\ member' = m1 /\ pending' = added.waits /\ owner' = o1
        /\ refreshed' = (refreshed \/ gone # {})
        /\ UNCHANGED <<account, waitingUser>> /\ UNCHANGED assignVars
    BY DEF refresh_permissions
  <1>2. /\ owner \in Owners /\ MembersOwn(owner, member) /\ (~refreshed => LanesHold(owner, member))
        /\ account \subseteq Users /\ member \subseteq account \X Groups /\ refreshed \in BOOLEAN
        /\ \A w \in waitingUser : w[2] \notin account
    BY DEF IInv, HumanTasksTypeOK, Owners, WaitingIsPending
  <1>3. added.joins \subseteq account \X Groups /\ added.waits \subseteq (Users \cup {Anybody}) \X Groups
    <2>1. yaml \subseteq (Users \cup {Anybody}) \X Groups
      BY HumanTaskConstants
    <2>2. ASSUME NEW e \in yaml
          PROVE  /\ add_user_to_group_or_add_to_waiting(e[1], e[2]).joins \subseteq account \X Groups
                 /\ add_user_to_group_or_add_to_waiting(e[1], e[2]).waits \subseteq (Users \cup {Anybody}) \X Groups
      BY <2>1 DEF add_user_to_group_or_add_to_waiting
    <2>3. /\ added.joins = UNION {add_user_to_group_or_add_to_waiting(e[1], e[2]).joins : e \in yaml}
          /\ added.waits = UNION {add_user_to_group_or_add_to_waiting(e[1], e[2]).waits : e \in yaml}
      BY DEF add_permissions_from_group_permissions
    <2>. HIDE DEF added
    <2>. QED
      BY <2>2, <2>3
  <1>. HIDE DEF added
  <1>4. joins \subseteq account \X Groups /\ gone \subseteq member
    BY <1>3, HumanTaskConstants DEF remove_old_permissions_from_added_permissions
  <1>. HIDE DEF joins, gone
  <1>5. /\ o1 \in Owners
        /\ \A t \in HTasks, v \in Users : o1[t][v] =
               IF Open(t) /\ GroupsOf(t) \cap new(v) # {} /\ owner[t][v] = "no"
               THEN "lane_assignment" ELSE owner[t][v]
    <2>1. \A t \in HTasks, v \in Users : o1[t][v] =
               IF Open(t) /\ GroupsOf(t) \cap new(v) # {} /\ owner[t][v] = "no"
               THEN "lane_assignment" ELSE owner[t][v]
      BY DEF get_tasks_for_new_groups
    <2>2. \A t \in HTasks, v \in Users : o1[t][v] \in AddedBy \cup {"no"}
      BY <1>2, <2>1 DEF Owners, AddedBy
    <2>. QED
      BY <2>1, <2>2 DEF Owners
  <1>6. \A v \in Users : MemberOf(m1, v) \subseteq MemberOf(member, v) \cup new(v)
    BY DEF MemberOf
  <1>7. gone = {} => \A v \in Users : MemberOf(m1, v) = MemberOf(member, v) \cup new(v)
    BY DEF MemberOf
  <1>8. m1 \subseteq account \X Groups
    BY <1>2, <1>4
  <1>. HIDE DEF m1, o1, new
  <1>9. MembersOwn(o1, m1)
    BY <1>2, <1>5, <1>6 DEF MembersOwn
  <1>10. ~refreshed' => LanesHold(o1, m1)
    <2>. SUFFICES ASSUME ~refreshed' PROVE LanesHold(o1, m1)
      OBVIOUS
    <2>1. ~refreshed /\ gone = {}
      BY <1>1
    <2>. QED
      BY <1>2, <1>5, <1>7, <2>1 DEF LanesHold
  <1>11. refreshed' \in BOOLEAN
    BY <1>1
  <1>. QED
    BY <1>1, <1>2, <1>3, <1>5, <1>8, <1>9, <1>10, <1>11, PeopleInv

LEMMA AssignInv == ASSUME IInv, NEW u \in account, NEW t \in HTasks, task_assign(t, {u}) PROVE IInv'
  <1>1. /\ owner \in Owners /\ MembersOwn(owner, member) /\ (~refreshed => LanesHold(owner, member))
        /\ account \subseteq Users /\ member \subseteq account \X Groups /\ refreshed \in BOOLEAN
        /\ pending \subseteq (Users \cup {Anybody}) \X Groups
        /\ \A w \in waitingUser : w[2] \notin account
    BY DEF IInv, HumanTasksTypeOK, Owners, WaitingIsPending
  <1>2. /\ Change /\ UNCHANGED assignVars /\ UNCHANGED <<account, member, pending, waitingUser, refreshed>>
        /\ owner' = [owner EXCEPT ![t] = [v \in Users |->
               IF v \in {u} /\ owner[t][v] = "no" THEN "manual" ELSE owner[t][v]]]
    BY <1>1 DEF task_assign, Owners
  <1>3. PICK r : r = [v \in Users |-> IF v \in {u} /\ owner[t][v] = "no" THEN "manual" ELSE owner[t][v]]
    OBVIOUS
  <1>4. /\ r \in [Users -> AddedBy \cup {"no"}]
        /\ \A v \in Users : r[v] = owner[t][v] \/ r[v] = "manual"
    BY <1>1, <1>3 DEF Owners, AddedBy
  <1>5. owner' = [owner EXCEPT ![t] = r]
    BY <1>2, <1>3
  <1>6. /\ owner' \in Owners
        /\ \A x \in HTasks, v \in Users : owner'[x][v] = owner[x][v] \/ owner'[x][v] = "manual"
    BY <1>1, <1>4, <1>5 DEF Owners
  <1>7. MembersOwn(owner', member')
    BY <1>1, <1>2, <1>6 DEF MembersOwn
  <1>8. ~refreshed' => LanesHold(owner', member')
    BY <1>1, <1>2, <1>6 DEF LanesHold
  <1>. QED
    BY <1>1, <1>2, <1>6, <1>7, <1>8, PeopleInv

-----------------------------------------------------------------------------
(* Tasks *)

LEMMA CreateTaskInv ==
    ASSUME IInv, NEW t \in HTasks, NEW l \in Lanes, create_new_human_task(t, l)
    PROVE  IInv'
  <1>. DEFINE p == get_potential_owners_from_task(l)
              listed == IF l.kind = "owners" THEN l.groups ELSE {l.group}
  <1>0. HumanTasksTypeOK /\ EngineInv /\ WaitingIsPending /\ HumanTaskConstants
    BY HumanTaskConstants DEF IInv
  <1>1. /\ p.owners \in [Users -> AddedBy \cup {"no"}] /\ p.groups \subseteq Groups
        /\ p.waiting \subseteq Users \ account
        /\ \A u \in Users : p.groups \cap MemberOf(member, u) # {} => p.owners[u] # "no"
        /\ \A u \in Users : p.owners[u] = "lane_assignment" => p.groups \cap MemberOf(member, u) # {}
    <2>0. listed \subseteq Groups /\ l.names \subseteq Users
      BY HumanTaskConstants
    <2>. HIDE DEF listed
    <2>1. CASE l.kind = "guest"
      <3>1. p = [owners |-> [u \in Users |-> IF u = Guest THEN "guest" ELSE "no"],
                 groups |-> {}, waiting |-> {}]
        BY <2>1 DEF get_potential_owners_from_task
      <3>. QED
        BY <3>1 DEF AddedBy
    <2>2. CASE l.kind = "initiator"
      <3>1. p = [owners |-> [u \in Users |-> IF u = Initiator THEN "process_initiator" ELSE "no"],
                 groups |-> {}, waiting |-> {}]
        BY <2>2 DEF get_potential_owners_from_task
      <3>. QED
        BY <3>1 DEF AddedBy
    <2>3. CASE l.kind \notin {"guest", "initiator"}
      <3>1. p = [owners |-> [u \in Users |-> IF u \in l.names /\ u \in account THEN "lane_owner"
                              ELSE IF MemberOf(member, u) \cap listed # {} THEN "lane_assignment" ELSE "no"],
                 groups |-> listed, waiting |-> l.names \ account]
        BY <2>3 DEF get_potential_owners_from_task, listed
      <3>2. \A u \in Users : p.owners[u] =
                IF u \in l.names /\ u \in account THEN "lane_owner"
                ELSE IF MemberOf(member, u) \cap listed # {} THEN "lane_assignment" ELSE "no"
        BY <3>1
      <3>3. p.owners \in [Users -> AddedBy \cup {"no"}]
        BY <3>1 DEF AddedBy
      <3>. QED
        BY <2>0, <3>1, <3>2, <3>3
    <2>. QED
      BY <2>1, <2>2, <2>3
  <1>2. /\ engine[t] = "future" /\ engine' = [engine EXCEPT ![t] = "ready"] /\ lane' = [lane EXCEPT ![t] = l]
        /\ humanTask' = [humanTask EXCEPT ![t].state = "open"]
        /\ owner' = [owner EXCEPT ![t] = p.owners]
        /\ taskGroup' = taskGroup \cup ({t} \X p.groups)
        /\ waitingUser' = waitingUser \cup ({t} \X p.waiting)
        /\ UNCHANGED <<account, member, pending, refreshed, changes, draft, submitting, drafting>>
    BY DEF create_new_human_task, workVars
  <1>. HIDE DEF p
  <1>3. HumanTasksTypeOK'
    <2>1. humanTask' \in [HTasks -> [state : {"none", "open", "done"}, by : Users \cup {NoUser}]]
      BY ZenonT(40), <1>0, <1>2 DEF HumanTasksTypeOK
    <2>2. owner' \in [HTasks -> [Users -> AddedBy \cup {"no"}]]
      BY <1>0, <1>1, <1>2 DEF HumanTasksTypeOK
    <2>3. taskGroup' \subseteq HTasks \X Groups /\ waitingUser' \subseteq HTasks \X Users
      BY <1>0, <1>1, <1>2 DEF HumanTasksTypeOK
    <2>4. engine' \in [HTasks -> {"future", "ready", "completed", "cancelled"}] /\ lane' \in [HTasks -> Lanes \cup {NoLane}]
      BY <1>0, <1>2 DEF HumanTasksTypeOK
    <2>. QED
      BY <1>0, <1>2, <2>1, <2>2, <2>3, <2>4 DEF HumanTasksTypeOK
  <1>4. /\ Open(t)' /\ ~Open(t) /\ engine'[t] = "ready" /\ humanTask'[t].state = "open"
        /\ GroupsOf(t)' = p.groups
    <2>1. GroupsOf(t) = {} /\ ~Open(t)
      BY <1>0, <1>2 DEF EngineInv
    <2>2. GroupsOf(t)' = p.groups
      BY <1>1, <1>2, <2>1 DEF GroupsOf
    <2>. QED
      BY <1>0, <1>2, <2>1, <2>2 DEF HumanTasksTypeOK, Open
  <1>5. \A x \in HTasks \ {t} : /\ engine'[x] = engine[x] /\ humanTask'[x] = humanTask[x] /\ owner'[x] = owner[x]
                                /\ (Open(x)' <=> Open(x)) /\ GroupsOf(x)' = GroupsOf(x)
    BY <1>0, <1>2 DEF HumanTasksTypeOK, Open, GroupsOf
  <1>6. EngineInv'
    BY <1>0, <1>4, <1>5 DEF EngineInv
  <1>7. WaitingIsPending'
    <2>1. ASSUME NEW w \in waitingUser' PROVE Open(w[1])' /\ w[2] \notin account'
      <3>1. CASE w \in waitingUser
        BY <1>0, <1>2, <1>4, <1>5, <3>1 DEF WaitingIsPending, HumanTasksTypeOK
      <3>2. CASE w \in {t} \X p.waiting
        BY <1>1, <1>2, <1>4, <3>2
      <3>. QED
        BY <1>2, <2>1, <3>1, <3>2
    <2>. QED
      BY <2>1 DEF WaitingIsPending
  <1>8. \A u : MemberOf(member, u)' = MemberOf(member, u)
    BY <1>2 DEF MemberOf
  <1>9. owner'[t] = p.owners
    BY <1>0, <1>2 DEF HumanTasksTypeOK
  <1>10. MembersOwn(owner, member)'
    BY <1>1, <1>4, <1>5, <1>8, <1>9 DEF IInv, MembersOwn
  <1>11. (~refreshed => LanesHold(owner, member))'
    BY <1>1, <1>2, <1>4, <1>5, <1>8, <1>9 DEF IInv, LanesHold
  <1>. QED
    BY <1>3, <1>6, <1>7, <1>10, <1>11 DEF IInv

(* The end of a task, by whoever and however: the assignments of the       *)
(* others are as they were.                                                *)
LEMMA EndTaskInv ==
    ASSUME IInv, NEW t \in HTasks, engine[t] = "ready",
           NEW e \in {"completed", "cancelled"}, NEW by \in Users \cup {NoUser},
           engine' = [engine EXCEPT ![t] = e],
           humanTask' = [humanTask EXCEPT ![t] = [state |-> "done", by |-> by]],
           cleanup_human_task_waiting_assignments(t),
           UNCHANGED workVars, UNCHANGED <<lane, owner, taskGroup>>,
           draft' \subseteq draft, submitting' \in [Users -> HTasks \cup {NoTask}],
           drafting' \in HTasks \cup {NoTask}
    PROVE  IInv'
  <1>0. HumanTasksTypeOK /\ EngineInv /\ WaitingIsPending
    BY DEF IInv
  <1>1. UNCHANGED <<account, member, pending, refreshed, changes>> /\ waitingUser' = {w \in waitingUser : w[1] # t}
    BY DEF workVars, cleanup_human_task_waiting_assignments
  <1>2. humanTask' \in [HTasks -> [state : {"none", "open", "done"}, by : Users \cup {NoUser}]]
    BY <1>0 DEF HumanTasksTypeOK
  <1>3. engine' \in [HTasks -> {"future", "ready", "completed", "cancelled"}]
    BY <1>0 DEF HumanTasksTypeOK
  <1>4. HumanTasksTypeOK'
    BY <1>0, <1>1, <1>2, <1>3 DEF HumanTasksTypeOK
  <1>5. engine'[t] = e /\ humanTask'[t].state = "done" /\ ~Open(t)'
    BY <1>0 DEF HumanTasksTypeOK, Open
  <1>6. \A x \in HTasks \ {t} : engine'[x] = engine[x] /\ humanTask'[x] = humanTask[x] /\ (Open(x)' <=> Open(x))
    BY <1>0 DEF HumanTasksTypeOK, Open
  <1>7. \A x : GroupsOf(x)' = GroupsOf(x) /\ MemberOf(member, x)' = MemberOf(member, x)
    BY <1>1 DEF GroupsOf, MemberOf
  <1>8. EngineInv'
    BY <1>0, <1>5, <1>6, <1>7 DEF EngineInv
  <1>9. WaitingIsPending'
    BY <1>0, <1>1, <1>6 DEF WaitingIsPending, HumanTasksTypeOK
  <1>10. MembersOwn(owner, member)'
    BY <1>5, <1>6, <1>7 DEF IInv, MembersOwn
  <1>11. (~refreshed => LanesHold(owner, member))'
    BY <1>1, <1>5, <1>6, <1>7 DEF IInv, LanesHold
  <1>. QED
    BY <1>4, <1>8, <1>9, <1>10, <1>11 DEF IInv

(* A request that only remembers what it is about, or does nothing. *)
LEMMA IdleInv ==
    ASSUME IInv, UNCHANGED <<account, member, pending, engine, lane, humanTask, owner, taskGroup,
                             waitingUser, refreshed, changes>>,
           draft' \subseteq {Definition[t] : t \in HTasks},
           submitting' \in [Users -> HTasks \cup {NoTask}], drafting' \in HTasks \cup {NoTask}
    PROVE  IInv'
  <1>1. HumanTasksTypeOK'
    BY DEF IInv, HumanTasksTypeOK
  <1>2. \A x : (Open(x)' <=> Open(x)) /\ GroupsOf(x)' = GroupsOf(x) /\ MemberOf(member, x)' = MemberOf(member, x)
    BY DEF Open, GroupsOf, MemberOf
  <1>3. EngineInv' /\ WaitingIsPending'
    BY <1>2 DEF IInv, EngineInv, WaitingIsPending
  <1>4. MembersOwn(owner, member)' /\ (~refreshed => LanesHold(owner, member))'
    BY <1>2 DEF IInv, MembersOwn, LanesHold
  <1>. QED
    BY <1>1, <1>3, <1>4 DEF IInv

LEMMA CancelInv == ASSUME IInv, NEW t \in HTasks, complete_existing_human_tasks(t) PROVE IInv'
  <1>1. humanTask[t] \in [state : {"none", "open", "done"}, by : Users \cup {NoUser}]
    BY DEF IInv, HumanTasksTypeOK
  <1>2. [humanTask[t] EXCEPT !.state = "done"] = [state |-> "done", by |-> humanTask[t].by]
        /\ humanTask[t].by \in Users \cup {NoUser}
    BY <1>1
  <1>3. humanTask' = [humanTask EXCEPT ![t] = [state |-> "done", by |-> humanTask[t].by]]
    BY <1>2 DEF complete_existing_human_tasks
  <1>4. draft' \subseteq draft /\ submitting' \in [Users -> HTasks \cup {NoTask}] /\ drafting' \in HTasks \cup {NoTask}
    BY DEF complete_existing_human_tasks, IInv, HumanTasksTypeOK
  <1>. QED
    BY <1>2, <1>3, <1>4, EndTaskInv DEF complete_existing_human_tasks

LEMMA CompleteInv ==
    ASSUME IInv, NEW u \in Users, NEW t \in HTasks, engine[t] = "ready", complete_task(u, t),
           draft' \subseteq draft, submitting' \in [Users -> HTasks \cup {NoTask}]
    PROVE  IInv'
  <1>1. drafting' \in HTasks \cup {NoTask}
    BY DEF complete_task, IInv, HumanTasksTypeOK
  <1>. QED
    BY <1>1, EndTaskInv DEF complete_task

LEMMA SubmitInv ==
    ASSUME IInv, NEW u \in Users,
           \/ \E t \in HTasks : task_submit(u, t) \/ complete_human_task_manually(u, t) \/ task_save_draft(u, t)
           \/ task_submit_locked(u)
           \/ insert_or_update_task_draft_data_dict
    PROVE  IInv'
  <1>0. /\ submitting \in [Users -> HTasks \cup {NoTask}] /\ drafting \in HTasks \cup {NoTask}
        /\ draft \subseteq {Definition[t] : t \in HTasks}
    BY DEF IInv, HumanTasksTypeOK
  <1>1. ASSUME NEW t \in HTasks, task_submit(u, t) \/ task_save_draft(u, t) PROVE IInv'
    BY <1>0, <1>1, IdleInv DEF task_submit, task_save_draft, workVars
  <1>2. ASSUME NEW t \in HTasks, complete_human_task_manually(u, t) PROVE IInv'
    BY <1>0, <1>2, CompleteInv DEF complete_human_task_manually
  <1>3. CASE insert_or_update_task_draft_data_dict
    BY <1>0, <1>3, IdleInv DEF insert_or_update_task_draft_data_dict, workVars
  <1>4. CASE task_submit_locked(u)
    <2>1. submitting[u] \in HTasks /\ submitting' \in [Users -> HTasks \cup {NoTask}]
      BY <1>0, <1>4 DEF task_submit_locked
    <2>2. CASE engine[submitting[u]] = "ready" /\ Open(submitting[u])
      <3>1. complete_task(u, submitting[u]) /\ draft' = draft \ {Definition[submitting[u]]}
        BY <1>4, <2>2 DEF task_submit_locked
      <3>. QED
        BY <2>1, <2>2, <3>1, CompleteInv
    <2>3. CASE ~(engine[submitting[u]] = "ready" /\ Open(submitting[u]))
      BY <1>0, <1>4, <2>1, <2>3, IdleInv DEF task_submit_locked, workVars
    <2>. QED
      BY <2>2, <2>3
  <1>. QED
    BY <1>1, <1>2, <1>3, <1>4

-----------------------------------------------------------------------------
(* The invariant and the results *)

LEMMA InitInv == HumanTasksInit => IInv
  <1>. SUFFICES ASSUME HumanTasksInit PROVE IInv
    OBVIOUS
  <1>1. HumanTasksTypeOK
    <2>1. humanTask \in [HTasks -> [state : {"none", "open", "done"}, by : Users \cup {NoUser}]]
      BY DEF HumanTasksInit
    <2>2. owner \in [HTasks -> [Users -> AddedBy \cup {"no"}]] /\ lane \in [HTasks -> Lanes \cup {NoLane}]
      BY DEF HumanTasksInit
    <2>3. changes \in 0..MaxChanges
      BY HumanTaskConstants DEF HumanTasksInit
    <2>4. account \subseteq Users
      BY HumanTaskConstants DEF HumanTasksInit
    <2>5. refreshed \in BOOLEAN
      BY Zenon DEF HumanTasksInit
    <2>. QED
      BY <2>1, <2>2, <2>3, <2>4, <2>5 DEF HumanTasksInit, HumanTasksTypeOK
  <1>2. EngineInv /\ WaitingIsPending
    BY DEF HumanTasksInit, EngineInv, WaitingIsPending, Open, GroupsOf
  <1>3. MembersOwn(owner, member) /\ LanesHold(owner, member)
    BY DEF HumanTasksInit, MembersOwn, LanesHold, Open
  <1>. QED
    BY <1>1, <1>2, <1>3 DEF IInv

LEMMA NextInv == ASSUME IInv, [HumanTasksNext]_htVars PROVE IInv'
  <1>1. CASE UNCHANGED htVars
    BY <1>1, IdleInv DEF htVars, IInv, HumanTasksTypeOK
  <1>2. Users # {}
    BY HumanTaskConstants
  <1>. QED
    BY <1>1, <1>2, AddUserInv, RemoveUserInv, SignInInv, RefreshInv, AssignInv, CreateTaskInv, CancelInv, SubmitInv
    DEF HumanTasksNext

(* The invariant in every behaviour: everything below rests on it. *)
THEOREM Invariant == HumanTasksSpec => []IInv
  BY InitInv, NextInv, PTL DEF HumanTasksSpec

(* Whatever order sign-ins, group changes, refreshes, new tasks, events    *)
(* and submissions come in: who signs in owns the tasks that waited for    *)
(* the name, what the lists and to_task show is what the server lets the   *)
(* user complete, and a lane's assignment ends with the group's membership *)
(* (unless a refresh deleted memberships as rows).                         *)
THEOREM HumanTasksAreSound == HumanTasksSpec => []HumanTasksSound
  <1>1. IInv => HumanTasksSound
    <2>. SUFFICES ASSUME IInv PROVE HumanTasksSound
      OBVIOUS
    <2>1. HumanTasksTypeOK /\ WaitingIsPending /\ account \subseteq Users
      BY DEF IInv, HumanTasksTypeOK
    <2>2. ShownIsAllowed
      BY <2>1 DEF IInv, MembersOwn, ShownIsAllowed, to_task, assert_user_can_complete_human_task
    <2>3. AccessEndsWithGroup
      BY DEF IInv, LanesHold, AccessEndsWithGroup
    <2>4. ListedIfAllowed
      <3>. SUFFICES ASSUME NEW u \in account
                    PROVE  LET mine == {t \in HTasks : assert_user_can_complete_human_task(u, t)}
                               ofOthers == get_tasks(u, FALSE, TRUE) \cup get_tasks(u, FALSE, FALSE)
                           IN  /\ task_list_my_tasks(u) = mine
                               /\ IF u = Initiator THEN mine \subseteq get_tasks(u, TRUE, FALSE) ELSE ofOthers = mine
                               /\ mine \cup task_list_completed_by_me(u) # {} => find_process_instance_for_me_or_raise(u)
        BY DEF ListedIfAllowed
      <3>. DEFINE mine == {t \in HTasks : assert_user_can_complete_human_task(u, t)}
      <3>1. mine = {t \in HTasks : Open(t) /\ owner[t][u] # "no"}
        BY DEF assert_user_can_complete_human_task
      <3>2. task_list_my_tasks(u) = mine
        BY <3>1 DEF task_list_my_tasks
      <3>3. u = Initiator => mine \subseteq get_tasks(u, TRUE, FALSE)
        BY <3>1 DEF get_tasks
      <3>4. u # Initiator => get_tasks(u, FALSE, TRUE) \cup get_tasks(u, FALSE, FALSE) = mine
        BY <3>1 DEF get_tasks
      <3>5. mine \cup task_list_completed_by_me(u) # {} => find_process_instance_for_me_or_raise(u)
        BY <3>1 DEF task_list_completed_by_me, find_process_instance_for_me_or_raise
      <3>. QED
        BY <3>2, <3>3, <3>4, <3>5
    <2>. QED
      BY <2>1, <2>2, <2>3, <2>4 DEF HumanTasksSound
  <1>. QED
    BY <1>1, Invariant, PTL

(* A completed task keeps its end, whoever else submits it, completes it   *)
(* for others or cancels it.                                               *)
THEOREM TasksCompleteOnce == HumanTasksSpec => CompletedOnce
  <1>. DEFINE Kept == \A t \in HTasks : humanTask[t].state = "done" => humanTask'[t] = humanTask[t]
  <1>1. IInv /\ [HumanTasksNext]_htVars => [Kept]_htVars
    <2>. SUFFICES ASSUME IInv, HumanTasksNext, NEW t \in HTasks, humanTask[t].state = "done"
                  PROVE  humanTask'[t] = humanTask[t]
      OBVIOUS
    <2>0. humanTask \in [HTasks -> [state : {"none", "open", "done"}, by : Users \cup {NoUser}]]
          /\ engine[t] # "future" /\ engine[t] # "ready"
      BY DEF IInv, HumanTasksTypeOK, EngineInv, Open
    <2>1. ASSUME UNCHANGED humanTask PROVE humanTask'[t] = humanTask[t]
      BY <2>1
    <2>3. ASSUME NEW u \in Users, NEW g \in Groups, add_user_to_group(u, g) \/ remove_user_from_group(u, g)
          PROVE  UNCHANGED humanTask
      BY <2>3 DEF add_user_to_group, remove_user_from_group, assignVars
    <2>4. ASSUME NEW y \in YamlGroups,
                 refresh_permissions(y) \/ \E u \in Users, c \in Claims : create_user_from_sign_in(u, c, y)
          PROVE  UNCHANGED humanTask
      BY <2>4 DEF create_user_from_sign_in, refresh_permissions, assignVars
    <2>5. ASSUME NEW x \in HTasks, NEW l \in Lanes, create_new_human_task(x, l)
          PROVE  humanTask'[t] = humanTask[t]
      <3>1. engine[x] = "future" /\ humanTask' = [humanTask EXCEPT ![x] = [humanTask[x] EXCEPT !.state = "open"]]
        BY <2>5 DEF create_new_human_task
      <3>. QED
        BY <2>0, <3>1
    <2>6. ASSUME NEW x \in HTasks, complete_existing_human_tasks(x)
          PROVE  humanTask'[t] = humanTask[t]
      <3>1. engine[x] = "ready" /\ humanTask' = [humanTask EXCEPT ![x] = [humanTask[x] EXCEPT !.state = "done"]]
        BY <2>6 DEF complete_existing_human_tasks
      <3>. QED
        BY <2>0, <3>1
    <2>7. ASSUME NEW u \in Users, NEW x \in HTasks, task_submit(u, x) \/ task_save_draft(u, x)
          PROVE  UNCHANGED humanTask
      BY <2>7 DEF task_submit, task_save_draft
    <2>8. ASSUME NEW u \in Users, NEW x \in HTasks, complete_human_task_manually(u, x)
          PROVE  humanTask'[t] = humanTask[t]
      <3>1. engine[x] = "ready" /\ humanTask' = [humanTask EXCEPT ![x] = [state |-> "done", by |-> u]]
        BY <2>8 DEF complete_human_task_manually, complete_task
      <3>. QED
        BY <2>0, <3>1
    <2>9. ASSUME NEW u \in Users, task_submit_locked(u) PROVE humanTask'[t] = humanTask[t]
      <3>1. submitting[u] \in HTasks
        BY <2>9 DEF task_submit_locked, IInv, HumanTasksTypeOK
      <3>2. \/ UNCHANGED humanTask
            \/ /\ engine[submitting[u]] = "ready"
               /\ humanTask' = [humanTask EXCEPT ![submitting[u]] = [state |-> "done", by |-> u]]
        BY <2>9 DEF task_submit_locked, complete_task
      <3>. QED
        BY <2>0, <2>1, <3>1, <3>2
    <2>10. ASSUME NEW u \in account, NEW x \in HTasks, task_assign(x, {u}) PROVE UNCHANGED humanTask
      BY <2>10 DEF task_assign, assignVars
    <2>11. CASE insert_or_update_task_draft_data_dict
      BY <2>11 DEF insert_or_update_task_draft_data_dict
    <2>. QED
      BY <2>1, <2>3, <2>4, <2>5, <2>6, <2>7, <2>8, <2>9, <2>10, <2>11 DEF HumanTasksNext
  <1>. QED
    BY <1>1, Invariant, PTL DEF HumanTasksSpec, CompletedOnce

--------------------------------------------------------------------------------
(* TaskForms: the files of the forms, for any sequence of tasks and any     *)
(* contents.                                                               *)

Digests == {r[1] : r \in fileRows}

(* A value has a row for what it refers to. *)
HasRow(v) == v.is = "ref" => v.of \in Contents \cap Digests

(* Every reference in hand has a row. *)
ReferencesInv ==
    /\ \A t \in FormTasks : HasRow(stored[t].f) /\ HasRow(drafts[t])
    /\ HasRow(page.f) /\ HasRow(edit.data.f) /\ HasRow(submission.f)

(* Uploaded files do not get beyond the submission that exchanges them. *)
ExchangedInv ==
    /\ \A t \in FormTasks : stored[t].f.is # "file"
    /\ edit.data.f.is # "file"
    /\ submission.step = "replaced" => submission.f.is # "file"

(* Submissions and edits are of tasks the instance has. *)
CallsInv ==
    /\ submission.step # "none" => submission.task \in FormTasks
    /\ edit # NoEdit => edit.task \in FormTasks

(* A row says the file system only when the contents are there. *)
FileRowsInv == \A r \in fileRows : r[2] = "fs" => onFileSystem /\ r[1] \in onDisk

FormsInv == TaskFormsTypeOK /\ ReferencesInv /\ ExchangedInv /\ CallsInv /\ FileRowsInv

(* The values of a form field. *)
LEMMA Values ==
    /\ Text \in AnyValue /\ NoFile \in AnyValue /\ Text.is = "text" /\ NoFile.is = "absent"
    /\ \A v \in Files : v \in AnyValue /\ v.is = "file" /\ v.of \in Contents
    /\ \A v \in Refs : v \in AnyValue /\ v.is = "ref" /\ v.of \in Contents
    /\ \A v \in AnyValue : v.is = "file" => v \in Files
    /\ \A c \in Contents : Value("ref", c) \in Refs
<1>1. /\ Text \in AnyValue /\ NoFile \in AnyValue /\ Files \subseteq AnyValue /\ Refs \subseteq AnyValue
      /\ Text.is = "text" /\ NoFile.is = "absent"
    BY DEF AnyValue, Text, NoFile, Value
<1>2. \A v \in Files : v.is = "file" /\ v.of \in Contents
    BY DEF Files, Value
<1>3. \A v \in Refs : v.is = "ref" /\ v.of \in Contents
    BY DEF Refs, Value
<1>4. Value("ref", Garbled).is = "ref"
    BY DEF Value
<1>5. \A v \in AnyValue : v.is = "file" => v \in Files
    BY <1>1, <1>3, <1>4 DEF AnyValue
<1>6. \A c \in Contents : Value("ref", c) \in Refs
    BY DEF Refs
<1> QED BY <1>1, <1>2, <1>3, <1>5, <1>6

(* A file is exchanged for the reference to it. *)
LEMMA Exchange ==
    ASSUME NEW v \in AnyValue
    PROVE  /\ file_data_model_for_value(v) \subseteq Contents
           /\ replace_file_data_with_digest_references(v) \in AnyValue
           /\ replace_file_data_with_digest_references(v).is # "file"
           /\ v.is # "file" => replace_file_data_with_digest_references(v) = v
           /\ v.is = "file" => /\ replace_file_data_with_digest_references(v) = Value("ref", v.of)
                               /\ file_data_model_for_value(v) = {v.of} /\ v.of \in Contents
<1>1. CASE v.is = "file"
    <2>1. file_data_model_for_value(v) = {v.of} /\ v.of \in Contents
        BY <1>1, Values DEF file_data_model_for_value
    <2>2. (CHOOSE digest \in {v.of} : TRUE) = v.of
        OBVIOUS
    <2>3. replace_file_data_with_digest_references(v) = Value("ref", v.of)
        BY <2>1, <2>2 DEF replace_file_data_with_digest_references
    <2>4. Value("ref", v.of) \in AnyValue /\ Value("ref", v.of).is = "ref"
        BY <2>1, Values
    <2> QED BY <1>1, <2>1, <2>3, <2>4
<1>2. CASE v.is # "file"
    BY <1>2 DEF file_data_model_for_value, replace_file_data_with_digest_references
<1> QED BY <1>1, <1>2

(* What a step keeps that writes no rows. *)
RowsStay == UNCHANGED <<fileRows, onDisk, onFileSystem>>

(* A step that writes no rows keeps what is known of them. *)
LEMMA RowsStayKept ==
    ASSUME FormsInv, RowsStay
    PROVE  FileRowsInv' /\ \A v : HasRow(v) => (v.is = "ref" => v.of \in Contents \cap Digests')
BY DEF FormsInv, RowsStay, FileRowsInv, HasRow, Digests

(* It holds when the first form is there to show. *)
LEMMA FormsStart == TaskFormsInit => FormsInv
<1> SUFFICES ASSUME TaskFormsInit PROVE FormsInv
    OBVIOUS
<1> USE DEF TaskFormsInit
<1>0. Len(FormKinds) \in Nat
    BY TaskFormsConstants
<1>1. TaskFormsTypeOK
    <2>1. [f |-> NoFile, o |-> "list"] \in [f : AnyValue, o : Options] /\ NoData \in [f : AnyValue, o : Options]
        BY Values DEF NoData, Options
    <2>2. stored \in [FormTasks -> [f : AnyValue, o : Options]] /\ drafts \in [FormTasks -> AnyValue]
        BY <2>1, Values
    <2>3. /\ page \in [task : 0..Len(FormKinds), f : AnyValue]
          /\ submission \in [step : {"none", "accepted", "replaced"}, task : 0..Len(FormKinds), f : AnyValue]
          /\ edit \in [task : 0..Len(FormKinds), data : [f : AnyValue, o : Options]]
        BY <1>0, <2>1, Values DEF NoPage, NoSubmission, NoEdit
    <2>4. at \in 1..(Len(FormKinds) + 1)
        BY <1>0
    <2>5. /\ status \in {"user_input_required", "suspended", "complete"} /\ onFileSystem \in BOOLEAN
          /\ fileRows \subseteq ((Contents \cup {Garbled}) \X {"db", "fs"}) /\ onDisk \subseteq (Contents \cup {Garbled})
        OBVIOUS
    <2> QED BY <2>2, <2>3, <2>4, <2>5, Zenon DEF TaskFormsTypeOK
<1>2. ReferencesInv /\ ExchangedInv
    BY Values DEF ReferencesInv, ExchangedInv, HasRow, NoPage, NoSubmission, NoEdit, NoData
<1>3. CallsInv /\ FileRowsInv
    BY DEF CallsInv, FileRowsInv, NoSubmission
<1> QED BY <1>1, <1>2, <1>3 DEF FormsInv

(* Every step of a request, an edit or the migrator keeps it. *)
LEMMA FormsGoOn == FormsInv /\ [TaskFormsNext]_tfVars => FormsInv'
<1> SUFFICES ASSUME FormsInv, [TaskFormsNext]_tfVars PROVE FormsInv'
    OBVIOUS
<1> USE DEF FormsInv
<1>0. Len(FormKinds) \in Nat /\ FormTasks = 1 .. Len(FormKinds)
    BY TaskFormsConstants DEF FormTasks
<1>1. ASSUME NEW t \in FormTasks, get_task_model_for_request(t) PROVE FormsInv'
    <2> DEFINE f == IF drafts[t] # NoFile THEN drafts[t] ELSE stored[t].f
    <2>0. f \in AnyValue /\ HasRow(f)
        BY DEF TaskFormsTypeOK, ReferencesInv
    <2>4. page' = [task |-> t, f |-> f] /\ RowsStay /\ UNCHANGED <<status, at, stored, drafts, submission, edit>>
        BY <1>1 DEF get_task_model_for_request, RowsStay
    <2> HIDE DEF f
    <2>1. /\ page' \in [task : 0..Len(FormKinds), f : AnyValue] /\ HasRow(page'.f) /\ RowsStay
          /\ UNCHANGED <<status, at, stored, drafts, submission, edit>>
        BY <1>0, <2>0, <2>4
    <2>2. TaskFormsTypeOK' /\ ExchangedInv' /\ CallsInv'
        BY <2>1 DEF TaskFormsTypeOK, ExchangedInv, CallsInv, RowsStay
    <2>3. ReferencesInv'
        BY <2>1 DEF ReferencesInv, HasRow, Digests, RowsStay
    <2> QED BY <2>1, <2>2, <2>3, RowsStayKept
<1>2. ASSUME NEW f \in {Text} \cup Files \cup Refs, save_draft(f) PROVE FormsInv'
    <2>1. /\ at \in FormTasks /\ f \in AnyValue /\ HasRow(f) /\ drafts' = [drafts EXCEPT ![at] = f] /\ RowsStay
          /\ UNCHANGED <<status, at, stored, page, submission, edit>>
        BY <1>0, <1>2, Values DEF save_draft, TaskFormsTypeOK, ReferencesInv, RowsStay, Filled, HasRow
    <2>2. TaskFormsTypeOK' /\ ExchangedInv' /\ CallsInv'
        BY <2>1 DEF TaskFormsTypeOK, ExchangedInv, CallsInv, RowsStay
    <2>3. \A t \in FormTasks : HasRow(drafts'[t])
        BY <2>1 DEF ReferencesInv, TaskFormsTypeOK
    <2>4. ReferencesInv'
        BY <2>1, <2>3 DEF ReferencesInv, HasRow, Digests, RowsStay
    <2> QED BY <2>1, <2>2, <2>4, RowsStayKept
<1>3. ASSUME NEW f \in {Text, NoFile} \cup Files \cup Refs, SubmissionBegins(f) PROVE FormsInv'
    <2>1. /\ at \in FormTasks /\ f \in AnyValue /\ HasRow(f) /\ RowsStay
          /\ submission' = [step |-> "accepted", task |-> at, f |-> f]
          /\ UNCHANGED <<status, at, stored, drafts, page, edit>>
        BY <1>0, <1>3, Values DEF SubmissionBegins, TaskFormsTypeOK, ReferencesInv, RowsStay, Filled, HasRow
    <2>2. TaskFormsTypeOK' /\ ExchangedInv' /\ CallsInv'
        BY <1>0, <2>1 DEF TaskFormsTypeOK, ExchangedInv, CallsInv, RowsStay
    <2>3. ReferencesInv'
        BY <2>1 DEF ReferencesInv, HasRow, Digests, RowsStay
    <2> QED BY <2>1, <2>2, <2>3, RowsStayKept
<1>4. CASE save_file_data_and_replace_with_digest_references
    <2> DEFINE D == file_data_model_for_value(submission.f)
               v == replace_file_data_with_digest_references(submission.f)
    <2>1. /\ submission.step = "accepted" /\ submission.f \in AnyValue /\ store_rows(D)
          /\ submission' = [submission EXCEPT !.step = "replaced", !.f = v]
          /\ UNCHANGED <<status, at, stored, drafts, onFileSystem, page, edit>>
        BY <1>4 DEF save_file_data_and_replace_with_digest_references, TaskFormsTypeOK
    <2>2. D \subseteq Contents /\ v \in AnyValue /\ v.is # "file"
        BY <2>1, Exchange
    <2>3. v.is = "ref" => v.of \in Contents /\ (v.of \in Digests \/ v.of \in D)
        BY <2>1, Exchange DEF ReferencesInv, HasRow, Value
    <2> HIDE DEF D, v
    <2>4. \E where \in {"db", "fs"} : /\ fileRows' = fileRows \cup (D \X {where})
                                      /\ where = "fs" => onFileSystem /\ onDisk' = onDisk \cup D
                                      /\ where = "db" => onDisk' = onDisk
        BY <2>1 DEF store_rows
    <2>5. PICK where \in {"db", "fs"} : /\ fileRows' = fileRows \cup (D \X {where})
                                        /\ where = "fs" => onFileSystem /\ onDisk' = onDisk \cup D
                                        /\ where = "db" => onDisk' = onDisk
        BY <2>4
    <2>6. Digests \subseteq Digests' /\ D \subseteq Digests' /\ FileRowsInv'
        <3>1. ASSUME NEW d \in D PROVE d \in Digests'
            <4>1. <<d, where>> \in fileRows' /\ <<d, where>>[1] = d
                BY <2>5
            <4> QED BY <4>1, Zenon DEF Digests
        <3>2. Digests \subseteq Digests'
            BY <2>5, Zenon DEF Digests
        <3>3. ASSUME NEW r \in fileRows', r[2] = "fs" PROVE onFileSystem' /\ r[1] \in onDisk'
            BY <2>1, <2>5, <3>3 DEF FileRowsInv
        <3> QED BY <3>1, <3>2, <3>3 DEF FileRowsInv
    <2>7. submission' \in [step : {"none", "accepted", "replaced"}, task : 0..Len(FormKinds), f : AnyValue]
          /\ submission'.f = v /\ submission'.task = submission.task
        BY <2>1, <2>2 DEF TaskFormsTypeOK
    <2>8. TaskFormsTypeOK'
        BY <2>1, <2>2, <2>5, <2>7 DEF TaskFormsTypeOK
    <2>9. ExchangedInv' /\ CallsInv'
        BY <2>1, <2>2, <2>7 DEF ExchangedInv, CallsInv
    <2>10. ReferencesInv'
        BY <2>1, <2>3, <2>6, <2>7 DEF ReferencesInv, HasRow
    <2> QED BY <2>6, <2>8, <2>9, <2>10
<1>5. ASSUME NEW o \in {"list", "empty"}, update_form_task_data(o) PROVE FormsInv'
    <2> DEFINE t == submission.task
               data == [stored[t] EXCEPT !.f = submission.f]
    <2>1. /\ t \in FormTasks /\ submission.step = "replaced"
          /\ stored' = [i \in FormTasks |-> CASE i = t -> data [] i = t + 1 -> [data EXCEPT !.o = o] [] OTHER -> stored[i]]
          /\ at' = t + 1 /\ status' \in {"complete", status} /\ drafts' = [drafts EXCEPT ![t] = NoFile]
          /\ submission' = NoSubmission /\ RowsStay /\ UNCHANGED <<page, edit>>
        BY <1>5 DEF update_form_task_data, CallsInv, RowsStay
    <2>2. /\ data \in [f : AnyValue, o : Options] /\ data.f = submission.f
          /\ [data EXCEPT !.o = o] \in [f : AnyValue, o : Options] /\ [data EXCEPT !.o = o].f = submission.f
        BY <2>1 DEF TaskFormsTypeOK, Options
    <2> HIDE DEF data
    <2>3. /\ stored' \in [FormTasks -> [f : AnyValue, o : Options]]
          /\ \A i \in FormTasks : stored'[i].f \in {submission.f, stored[i].f}
        BY <2>1, <2>2 DEF TaskFormsTypeOK
    <2>4. /\ drafts' \in [FormTasks -> AnyValue]
          /\ \A i \in FormTasks : drafts'[i] \in {NoFile, drafts[i]}
        BY <2>1, Values DEF TaskFormsTypeOK
    <2>5. TaskFormsTypeOK'
        BY <1>0, <2>1, <2>3, <2>4, Values DEF TaskFormsTypeOK, RowsStay, NoSubmission
    <2>6. ExchangedInv' /\ CallsInv'
        BY <2>1, <2>3 DEF ExchangedInv, CallsInv, NoSubmission
    <2>7. HasRow(NoFile)
        BY Values DEF HasRow
    <2>8. ReferencesInv'
        BY <2>1, <2>3, <2>4, <2>7 DEF ReferencesInv, HasRow, Digests, RowsStay, NoSubmission
    <2> QED BY <2>1, <2>5, <2>6, <2>8, RowsStayKept
<1>6. CASE SubmissionFails
    <2>1. submission' = NoSubmission /\ RowsStay /\ UNCHANGED <<status, at, stored, drafts, page, edit>>
        BY <1>6 DEF SubmissionFails, RowsStay
    <2>2. TaskFormsTypeOK' /\ ExchangedInv' /\ CallsInv'
        BY <1>0, <2>1, Values DEF TaskFormsTypeOK, ExchangedInv, CallsInv, RowsStay, NoSubmission
    <2>3. ReferencesInv'
        BY <2>1, Values DEF ReferencesInv, HasRow, Digests, RowsStay, NoSubmission
    <2> QED BY <2>1, <2>2, <2>3, RowsStayKept
<1>7. CASE SuspendOrResume
    <2>1. RowsStay /\ status' \in {"suspended", "user_input_required"}
          /\ UNCHANGED <<at, stored, drafts, page, submission, edit>>
        BY <1>7 DEF SuspendOrResume, RowsStay
    <2>2. TaskFormsTypeOK' /\ ExchangedInv' /\ CallsInv' /\ ReferencesInv'
        BY <2>1 DEF TaskFormsTypeOK, ExchangedInv, CallsInv, ReferencesInv, HasRow, Digests, RowsStay
    <2> QED BY <2>1, <2>2, RowsStayKept
<1>8. ASSUME NEW t \in FormTasks, NEW f \in {Text, NoFile} \cup Refs, EditBegins(t, [f |-> f, o |-> "text"])
      PROVE  FormsInv'
    <2>1. /\ f \in AnyValue /\ HasRow(f) /\ f.is # "file" /\ RowsStay
          /\ edit' = [task |-> t, data |-> [f |-> f, o |-> "text"]]
          /\ UNCHANGED <<status, at, stored, drafts, page, submission>>
        BY <1>8, Values DEF EditBegins, TaskFormsTypeOK, ReferencesInv, RowsStay, HasRow
    <2>2. TaskFormsTypeOK' /\ ExchangedInv' /\ CallsInv'
        BY <1>0, <2>1 DEF TaskFormsTypeOK, ExchangedInv, CallsInv, RowsStay, Options
    <2>3. ReferencesInv'
        BY <2>1 DEF ReferencesInv, HasRow, Digests, RowsStay
    <2> QED BY <2>1, <2>2, <2>3, RowsStayKept
<1>9. CASE task_data_update
    <2>1. /\ edit.task \in FormTasks /\ stored' = [stored EXCEPT ![edit.task] = edit.data]
          /\ edit' = NoEdit /\ RowsStay /\ UNCHANGED <<status, at, drafts, page, submission>>
        BY <1>9 DEF task_data_update, CallsInv, RowsStay
    <2>2. /\ stored' \in [FormTasks -> [f : AnyValue, o : Options]]
          /\ \A t \in FormTasks : stored'[t] \in {edit.data, stored[t]}
        BY <2>1 DEF TaskFormsTypeOK
    <2>3. TaskFormsTypeOK' /\ ExchangedInv' /\ CallsInv'
        BY <1>0, <2>1, <2>2, Values DEF TaskFormsTypeOK, ExchangedInv, CallsInv, RowsStay, NoEdit, NoData, Options
    <2>4. ReferencesInv'
        BY <2>1, <2>2, Values DEF ReferencesInv, HasRow, Digests, RowsStay, NoEdit, NoData
    <2> QED BY <2>1, <2>3, <2>4, RowsStayKept
<1>10. CASE ConfigureFileSystem
    BY <1>10 DEF ConfigureFileSystem, TaskFormsTypeOK, ReferencesInv, HasRow, Digests, ExchangedInv, CallsInv, FileRowsInv
<1>11. CASE migrate_from_database_to_filesystem
    <2> DEFINE inDb == {r[1] : r \in {r \in fileRows : r[2] = "db"}}
    <2>1. /\ onFileSystem /\ onDisk' = onDisk \cup inDb /\ fileRows' = {<<r[1], "fs">> : r \in fileRows}
          /\ UNCHANGED <<status, at, stored, drafts, onFileSystem, page, submission, edit>>
        BY <1>11 DEF migrate_from_database_to_filesystem
    <2>2. \A r \in fileRows : r[1] \in Contents \cup {Garbled} /\ r[2] \in {"db", "fs"}
        BY DEF TaskFormsTypeOK
    <2>3. TaskFormsTypeOK' /\ FileRowsInv'
        BY <2>1, <2>2 DEF TaskFormsTypeOK, FileRowsInv
    <2>4. Digests' = Digests
        <3>1. \A r \in fileRows : <<r[1], "fs">>[1] = r[1] /\ <<r[1], "fs">> \in fileRows'
            BY <2>1
        <3>2. \A r \in fileRows' : \E q \in fileRows : r[1] = q[1]
            BY <2>1
        <3>3. Digests \subseteq Digests'
            BY <3>1, Zenon DEF Digests
        <3>4. Digests' \subseteq Digests
            BY <3>2, Zenon DEF Digests
        <3> QED BY <3>3, <3>4
    <2>5. ReferencesInv' /\ ExchangedInv' /\ CallsInv'
        BY <2>1, <2>4 DEF ReferencesInv, HasRow, ExchangedInv, CallsInv
    <2> QED BY <2>3, <2>5
<1>12. CASE UNCHANGED tfVars
    BY <1>12 DEF tfVars, TaskFormsTypeOK, ReferencesInv, HasRow, Digests, ExchangedInv, CallsInv, FileRowsInv
<1> QED BY <1>1, <1>2, <1>3, <1>4, <1>5, <1>6, <1>7, <1>8, <1>9, <1>10, <1>11, <1>12 DEF TaskFormsNext

(* For any human tasks, contents and kind of validation: wherever a file   *)
(* reference is (task data, draft, page, edit), its contents were uploaded *)
(* and can be downloaded, unless rows wait to be migrated to the file      *)
(* system (save_file_data_and_replace_with_digest_references).             *)
THEOREM FilesAreSound == TaskFormsSpec => []FilesSound
<1>1. FormsInv => FilesSound
    <2> SUFFICES ASSUME FormsInv PROVE FilesSound
        OBVIOUS
    <2> USE DEF FormsInv
    <2>1. ASSUME NEW d \in Digests PROVE ToMigrate \/ process_data_file_download(d)
        <3>1. PICK r \in fileRows : r[1] = d
            BY DEF Digests
        <3>2. r[2] \in {"db", "fs"} /\ r = <<r[1], r[2]>>
            BY DEF TaskFormsTypeOK
        <3> QED BY <3>1, <3>2 DEF ToMigrate, process_data_file_download, FileRowsInv
    <2>2. ASSUME NEW v \in {stored[t].f : t \in FormTasks} \cup {drafts[t] : t \in FormTasks} \cup {page.f, edit.data.f}
          PROVE  HasRow(v)
        BY DEF ReferencesInv
    <2> QED BY <2>1, <2>2 DEF FilesSound, HasRow, ExchangedInv
<1> QED BY <1>1, FormsStart, FormsGoOn, PTL DEF TaskFormsSpec

--------------------------------------------------------------------------------
(* Progress: the instructions, for any sequence of tasks and any tabs.     *)

(* The status says what task is ready.  A task with instructions that a    *)
(* job is about to begin with was noted, or no job looked at it.           *)
ReadyInv ==
    /\ pgStatus = "not_started" => next = 1
    /\ pgStatus = "running" => Automated(next)
    /\ pgStatus = "user_input_required" => Kind(next) = "human"
    /\ job = NoJob /\ pgStatus = "running" /\ next \in Notes => noted[next] # "none" \/ next \in cut

(* The instructions a job has gone by are in its session, if they were not *)
(* noted before.                                                           *)
Passed(t) == noted[t] # "none" \/ t \in job.notes \/ t \in cut
JobInv ==
    /\ job.step = "none" => job = NoJob
    /\ job.step # "none" => next <= job.at /\ \A t \in Notes : t < job.at => Passed(t)
    /\ job.step = "queues" => job.ran < MaxTasks
    /\ job.step = "saves" /\ job.at \in Notes => Passed(job.at)

ProgressInv == ProgressTypeOK /\ InstructionsQueued /\ RetrievedIsSeen /\ ReadyInv /\ JobInv

(* Tasks and their kinds. *)
LEMMA KindsAre ==
    /\ Len(TaskKinds) \in Nat /\ 1 \in AllTasks /\ Kind(1) = "auto"
    /\ \A t : Kind(t) \in {"auto", "note", "human", "end"} /\ StatusAt(t) \in {"running", "user_input_required", "complete"}
    /\ \A t : Kind(t) # "end" => t \in AllTasks
    /\ \A t \in Notes : t \in AllTasks /\ Kind(t) = "note"
    /\ \A t \in Nat : Kind(t) = "note" => t \in Notes
<1>1. Len(TaskKinds) \in Nat /\ Len(TaskKinds) >= 1
    BY ProgressConstants
<1>2. \A t \in AllTasks : TaskKinds[t] \in {"auto", "note", "human"}
    BY ProgressConstants DEF AllTasks
<1> QED BY <1>1, <1>2, ProgressConstants DEF Kind, AllTasks, Notes, StatusAt, Automated

(* What INSERT IGNORE does to the instructions. *)
LEMMA NotesInserted ==
    ASSUME ProgressTypeOK, NEW S \in SUBSET Notes
    PROVE  LET new == insert_or_update_record(S) IN
           /\ new \in [Notes -> {"none", "new", "retrieved"}]
           /\ \A t \in Notes : /\ new[t] = "none" <=> noted[t] = "none" /\ t \notin S
                               /\ new[t] = "retrieved" <=> noted[t] = "retrieved"
BY DEF insert_or_update_record, ProgressTypeOK

(* It holds when the instance was created. *)
LEMMA ProgressStarts == ProgressInit => ProgressInv
<1> SUFFICES ASSUME ProgressInit PROVE ProgressInv
    OBVIOUS
<1> USE KindsAre DEF ProgressInit
<1>1. ProgressTypeOK
    BY ProgressConstants DEF ProgressTypeOK, NoJob, Polling
<1>2. InstructionsQueued /\ RetrievedIsSeen
    BY DEF InstructionsQueued, RetrievedIsSeen, Notes, AllTasks
<1>3. ReadyInv /\ JobInv
    BY DEF ReadyInv, JobInv, NoJob
<1> QED BY <1>1, <1>2, <1>3 DEF ProgressInv

(* Every step of a job or a tab keeps it. *)
LEMMA ProgressGoesOn == ProgressInv /\ [ProgressNext]_pgVars => ProgressInv'
<1> SUFFICES ASSUME ProgressInv, [ProgressNext]_pgVars PROVE ProgressInv'
    OBVIOUS
<1> USE KindsAre, ProgressConstants DEF ProgressInv
<1> DEFINE Parts == ProgressTypeOK' /\ InstructionsQueued' /\ RetrievedIsSeen' /\ ReadyInv' /\ JobInv'
<1>1. CASE RunCurrentReadyTasks
    <2> USE <1>1 DEF RunCurrentReadyTasks
    <2>1. next \in AllTasks /\ Automated(next) /\ next + 1 \in 1 .. Len(TaskKinds) + 1
        BY DEF ReadyInv, Automated, ProgressTypeOK, AllTasks
    <2>2. \A t \in Notes : t < next + 1 => noted[t] # "none" \/ t \in cut
        BY <2>1 DEF ReadyInv, InstructionsQueued, ProgressTypeOK, Notes, AllTasks
    <2>3. ProgressTypeOK'
        BY <2>1 DEF ProgressTypeOK
    <2>4. InstructionsQueued' /\ RetrievedIsSeen'
        BY <2>2 DEF InstructionsQueued, RetrievedIsSeen
    <2>5. ReadyInv'
        BY <2>1 DEF ReadyInv, NoJob, StatusAt
    <2>6. JobInv'
        BY <2>1, <2>2 DEF JobInv, Passed
    <2> QED BY <2>3, <2>4, <2>5, <2>6
<1>2. ASSUME NEW overtime \in BOOLEAN, QueueInstructions(overtime) PROVE ProgressInv'
    <2> DEFINE notes == job.notes \cup add_instruction_for_end_user_if_appropriate(job.at)
    <2>1. job.step = "queues" /\ UNCHANGED <<next, pgStatus, noted, failed, tab, seen, lost>>
          /\ job.at \in Nat /\ job.ran \in Nat /\ notes \in SUBSET Notes /\ job.at \in 1 .. Len(TaskKinds) + 1
        BY <1>2 DEF QueueInstructions, ProgressTypeOK, add_instruction_for_end_user_if_appropriate
    <2>2. RetrievedIsSeen'
        BY <2>1 DEF RetrievedIsSeen
    <2>3. CASE Kind(job.at) # "auto"
        <3>1. job' = [job EXCEPT !.notes = notes, !.step = "saves"] /\ cut' = cut
            BY <1>2, <2>3 DEF QueueInstructions
        <3>2. job' \in [step : {"none", "queues", "saves"}, at : 1..(Len(TaskKinds) + 1),
                        notes : SUBSET Notes, ran : 0..MaxTasks]
              /\ job'.step = "saves" /\ job'.at = job.at /\ job'.notes = notes
            BY <2>1, <3>1 DEF ProgressTypeOK
        <3> HIDE DEF notes
        <3>5. job' # NoJob
            BY <3>2 DEF NoJob
        <3>3. ProgressTypeOK' /\ InstructionsQueued' /\ ReadyInv'
          <4>1. ProgressTypeOK'
            BY <2>1, <3>2 DEF ProgressTypeOK
          <4>2. InstructionsQueued' /\ ReadyInv'
            BY <2>1, <3>1, <3>5 DEF InstructionsQueued, ReadyInv, Automated, Kind
          <4> QED BY <4>1, <4>2
        <3>4. JobInv'
            BY <2>1, <3>1, <3>2 DEF JobInv, Passed, notes, add_instruction_for_end_user_if_appropriate
        <3> QED BY <2>2, <3>3, <3>4
    <2>4. CASE Kind(job.at) = "auto"
        <3> DEFINE breaks == should_break_after(job.ran + 1, overtime)
        <3>1. /\ job' = [job EXCEPT !.notes = notes, !.at = @ + 1, !.ran = @ + 1,
                                   !.step = IF breaks THEN "saves" ELSE "queues"]
              /\ cut' = cut \cup IF breaks THEN {job.at + 1} ELSE {}
            BY <1>2, <2>4 DEF QueueInstructions
        <3>2. job.at \in AllTasks /\ job.at \notin Notes /\ job.ran + 1 \in 0 .. MaxTasks
              /\ (~breaks => job.ran + 1 < MaxTasks)
            BY <2>1, <2>4 DEF JobInv, ProgressTypeOK, should_break_after
        <3>3. job' \in [step : {"none", "queues", "saves"}, at : 1..(Len(TaskKinds) + 1),
                        notes : SUBSET Notes, ran : 0..MaxTasks]
              /\ job'.step = (IF breaks THEN "saves" ELSE "queues") /\ job'.at = job.at + 1
              /\ job'.notes = notes /\ job'.ran = job.ran + 1
            <4> HIDE DEF breaks, notes
            <4>1. job.at + 1 \in 1..(Len(TaskKinds) + 1)
                BY <3>2 DEF AllTasks
            <4> QED BY <2>1, <3>1, <3>2, <4>1 DEF ProgressTypeOK
        <3>4. ProgressTypeOK' /\ InstructionsQueued' /\ ReadyInv'
          <4> HIDE DEF breaks, notes
          <4>1. ProgressTypeOK'
            BY <2>1, <3>3 DEF ProgressTypeOK
          <4>2. job' # NoJob
            BY <3>3 DEF NoJob
          <4>3. InstructionsQueued' /\ ReadyInv'
            BY <2>1, <3>1, <4>2 DEF InstructionsQueued, ReadyInv, Automated, Kind
          <4> QED BY <4>1, <4>3
        <3>5. \A t \in Notes : t < job.at + 1 => t < job.at
            BY <2>1, <3>2 DEF Notes, AllTasks
        <3>6. JobInv'
            BY <2>1, <3>1, <3>2, <3>3, <3>5 DEF JobInv, Passed, ProgressTypeOK
        <3> QED BY <2>2, <3>4, <3>6
    <2> QED BY <2>3, <2>4
<1>3. CASE SaveJob
    <2> USE <1>3 DEF SaveJob
    <2>1. job.notes \in SUBSET Notes /\ job.at \in 1 .. Len(TaskKinds) + 1
        BY DEF ProgressTypeOK
    <2>2. /\ noted' \in [Notes -> {"none", "new", "retrieved"}]
          /\ \A t \in Notes : /\ noted'[t] = "none" <=> noted[t] = "none" /\ t \notin job.notes
                              /\ noted'[t] = "retrieved" <=> noted[t] = "retrieved"
        BY <2>1, NotesInserted
    <2>3. ProgressTypeOK'
        BY <2>1, <2>2 DEF ProgressTypeOK, NoJob
    <2>4. InstructionsQueued' /\ RetrievedIsSeen'
        BY <2>2 DEF InstructionsQueued, RetrievedIsSeen, JobInv, Passed
    <2>5. ReadyInv' /\ JobInv'
        BY <2>1, <2>2 DEF ReadyInv, JobInv, Passed, NoJob, StatusAt, Automated, Kind
    <2> QED BY <2>3, <2>4, <2>5
<1>4. ASSUME NEW t \in AllTasks, TaskFails(t) PROVE ProgressInv'
    <2>1. job.notes \in SUBSET Notes /\ job' = NoJob /\ pgStatus' = "error" /\ next' = t
          /\ noted' = insert_or_update_record(job.notes) /\ UNCHANGED <<tab, seen, lost, cut>>
          /\ failed' \in Seq(AllTasks) /\ t \in 1 .. Len(TaskKinds) + 1
        BY <1>4 DEF TaskFails, ProgressTypeOK, AllTasks
    <2>2. /\ noted' \in [Notes -> {"none", "new", "retrieved"}]
          /\ \A u \in Notes : /\ noted'[u] = "none" <=> noted[u] = "none" /\ u \notin job.notes
                              /\ noted'[u] = "retrieved" <=> noted[u] = "retrieved"
        BY <2>1, NotesInserted
    <2>3. ProgressTypeOK'
        BY <2>1, <2>2 DEF ProgressTypeOK, NoJob
    <2>4. \A u \in Notes : u < t => Passed(u)
        BY <1>4 DEF TaskFails, InstructionsQueued, JobInv, Passed
    <2>5. InstructionsQueued' /\ RetrievedIsSeen'
        BY <2>1, <2>2, <2>4 DEF InstructionsQueued, RetrievedIsSeen, Passed
    <2>6. ReadyInv' /\ JobInv'
        BY <2>1 DEF ReadyInv, JobInv, NoJob
    <2> QED BY <2>3, <2>5, <2>6
<1>5. CASE KillJob
    <2> USE <1>5 DEF KillJob
    <2>1. ProgressTypeOK'
        BY DEF ProgressTypeOK, NoJob
    <2>2. InstructionsQueued' /\ RetrievedIsSeen' /\ ReadyInv' /\ JobInv'
        BY DEF InstructionsQueued, RetrievedIsSeen, ReadyInv, JobInv, NoJob
    <2> QED BY <2>1, <2>2
<1>6. CASE complete_form_task
    <2> USE <1>6 DEF complete_form_task
    <2> DEFINE S == add_instruction_for_end_user_if_appropriate(next + 1)
    <2>1. next \in AllTasks /\ next \notin Notes /\ next + 1 \in 1 .. Len(TaskKinds) + 1 /\ S \in SUBSET Notes
        BY DEF ReadyInv, ProgressTypeOK, AllTasks, add_instruction_for_end_user_if_appropriate
    <2>2. noted' = insert_or_update_record(S)
        OBVIOUS
    <2> HIDE DEF S
    <2>3. /\ noted' \in [Notes -> {"none", "new", "retrieved"}]
          /\ \A t \in Notes : /\ noted'[t] = "none" <=> noted[t] = "none" /\ t \notin S
                              /\ noted'[t] = "retrieved" <=> noted[t] = "retrieved"
        BY <2>1, <2>2, NotesInserted
    <2>4. ProgressTypeOK'
        BY <2>1, <2>3 DEF ProgressTypeOK, NoJob
    <2>5. \A t \in Notes : t < next + 1 => t < next
        BY <2>1 DEF Notes, AllTasks
    <2>6. InstructionsQueued' /\ RetrievedIsSeen'
        BY <2>3, <2>5 DEF InstructionsQueued, RetrievedIsSeen
    <2>7. next + 1 \in Notes => noted'[next + 1] # "none"
        BY <2>3 DEF S, add_instruction_for_end_user_if_appropriate
    <2>8. ReadyInv' /\ JobInv'
        BY <2>1, <2>7 DEF ReadyInv, JobInv, NoJob, StatusAt, Automated, Kind
    <2> QED BY <2>4, <2>6, <2>8
<1>7. ASSUME NEW b \in Tabs, Poll(b) PROVE ProgressInv'
    <2> USE <1>7 DEF Poll
    <2>1. ProgressTypeOK'
        <3>1. process_instance_progress \in {"none", "task", "instance", "error"}
            BY DEF process_instance_progress
        <3>2. entries_for_process_instance \in SUBSET Notes
            BY DEF entries_for_process_instance
        <3> QED BY <3>1, <3>2 DEF ProgressTypeOK
    <2>2. InstructionsQueued' /\ ReadyInv' /\ JobInv'
        BY DEF InstructionsQueued, ReadyInv, JobInv, Passed, Automated, Kind
    <2>3. \A c \in Tabs : tab[c].does = "marks" => tab'[c] = tab[c]
        BY DEF ProgressTypeOK
    <2>4. RetrievedIsSeen'
        BY <2>3 DEF RetrievedIsSeen
    <2> QED BY <2>1, <2>2, <2>4
<1>8. ASSUME NEW b \in Tabs, Answered(b) \/ AnswerLost(b) PROVE ProgressInv'
    <2>1. /\ tab[b].does = "marks" /\ tab[b].entries \in SUBSET Notes
          /\ noted' = retrieve_and_clear(b) /\ UNCHANGED <<next, pgStatus, job, failed, cut>>
          /\ seen' \in SUBSET Notes /\ lost' \in SUBSET Notes
          /\ seen \cup lost \cup tab[b].entries \subseteq seen' \cup lost'
        BY <1>8 DEF Answered, AnswerLost, ProgressTypeOK
    <2>2. /\ tab' \in [Tabs -> [does : {"polls", "marks", "left"}, entries : SUBSET Notes,
                               answer : {"none", "task", "instance", "error"}]]
          /\ \A c \in Tabs \ {b} : tab'[c] = tab[c]
      <3> DEFINE Doing == [does : {"polls", "marks", "left"}, entries : SUBSET Notes,
                           answer : {"none", "task", "instance", "error"}]
      <3>1. PICK x \in Doing : tab' = [tab EXCEPT ![b] = x]
        <4>1. tab \in [Tabs -> Doing]
            BY DEF ProgressTypeOK
        <4>2. Polling \in Doing /\ [does |-> "left", entries |-> {}, answer |-> tab[b].answer] \in Doing
              /\ [does |-> "left", entries |-> {}, answer |-> "none"] \in Doing
            BY <4>1 DEF Polling
        <4> QED BY <1>8, <4>2, Zenon DEF Answered, AnswerLost
      <3>2. tab \in [Tabs -> Doing]
        BY DEF ProgressTypeOK
      <3> QED BY <3>1, <3>2
    <2>3. /\ noted' \in [Notes -> {"none", "new", "retrieved"}]
          /\ \A t \in Notes : /\ noted'[t] = "none" => noted[t] = "none"
                              /\ noted'[t] = "retrieved" => noted[t] = "retrieved" \/ t \in tab[b].entries
        BY <2>1 DEF retrieve_and_clear, ProgressTypeOK
    <2>4. ProgressTypeOK'
        BY <2>1, <2>2, <2>3 DEF ProgressTypeOK
    <2>5. InstructionsQueued' /\ ReadyInv' /\ JobInv'
        BY <2>1, <2>3 DEF InstructionsQueued, ReadyInv, JobInv, Passed, Automated, Kind, NoJob
    <2>6. RetrievedIsSeen'
        BY <2>1, <2>2, <2>3 DEF RetrievedIsSeen
    <2> QED BY <2>4, <2>5, <2>6
<1>9. ASSUME NEW b \in Tabs, OpenPage(b) PROVE ProgressInv'
    <2> USE <1>9 DEF OpenPage
    <2>1. ProgressTypeOK'
        BY DEF ProgressTypeOK, Polling
    <2>2. InstructionsQueued' /\ ReadyInv' /\ JobInv'
        BY DEF InstructionsQueued, ReadyInv, JobInv, Passed, Automated, Kind
    <2>3. \A c \in Tabs : tab[c].does = "marks" => tab'[c] = tab[c]
        BY DEF ProgressTypeOK
    <2>4. RetrievedIsSeen'
        BY <2>3 DEF RetrievedIsSeen
    <2> QED BY <2>1, <2>2, <2>4
<1>10. CASE UNCHANGED pgVars
    BY <1>10 DEF pgVars, ProgressTypeOK, InstructionsQueued, RetrievedIsSeen, ReadyInv, JobInv, Passed, Automated, Kind
<1> QED BY <1>1, <1>2, <1>3, <1>4, <1>5, <1>6, <1>7, <1>8, <1>9, <1>10 DEF ProgressNext

(* For any tasks, automatic save limit and tabs: a task with instructions  *)
(* is passed unnoted only where a job was cut off right before it          *)
(* (queue_instructions_for_end_user), and what entries_for_process_instance *)
(* marked as retrieved was shown, or was in an answer on its way.          *)
THEOREM ProgressIsSound == ProgressSpec => []ProgressSound
<1>1. ProgressInv => ProgressSound
    BY DEF ProgressInv, ProgressSound
<1> QED BY <1>1, ProgressStarts, ProgressGoesOn, PTL DEF ProgressSpec

=============================================================================
