---------------------------- MODULE AccessControl ----------------------------
(***************************************************************************)
(* Permissions: the rows permission_target, permission_assignment and      *)
(* user_group_assignment, how a configuration becomes rows                 *)
(* (refresh_permissions, the import of every sign-in), and the two checks  *)
(* of a request: the server's, in SQL, and the one that tells the frontend *)
(* what to show, in Python (authorization_service.py).                     *)
(* A uri is a sequence of path words, delimiters and the letters of        *)
(* identifiers; "%" ends a wildcard.  Every list of paths in the source is *)
(* cut to one or two representatives.  LIKE's "_" is left out.             *)
(***************************************************************************)
EXTENDS Integers, Sequences, SequencesExt, FiniteSets

CONSTANTS
    People, Service,     \* users; one of them a service account
    Teams, DefaultTeam,  \* groups
    Configurations,      \* what permissions.yaml may say: [users, perms]
    Words,               \* what paths are made of
    Uris,                \* the request paths asked about
    MaxEdits             \* bound: edits of the file

VARIABLES
    policy,       \* the configuration on disk
    members,      \* user_group_assignment
    grants,       \* permission_assignment: [who, perm, target, grant]
    loading,      \* the refresh and the sign-in import under way
    workedFrom,   \* ghost: the configurations some job has worked from since the last refresh began
    policyEdits   \* edits of the file so far

acVars == <<policy, members, grants, loading, workedFrom, policyEdits>>

Crud == {"create", "read", "update", "delete"}
Loaders == {"refresh", "signin"}
GroupsPath == <<"/", "process-groups", "/">>
Wildcard(target) == Last(target) = "%"

(* Entries of the file: macros for everybody, for a process group or model *)
(* (in whose identifier the slashes are colons), and plain paths.          *)
Named(target) ==
    /\ target[1] \in {"PG:", "PM:"}
    /\ Len(target) > 1 /\ target[2] # "random" /\ Last(target) # "/"
Macro(target) == target[1] \in {"BASIC", "SUPPORT", "ELEVATED", "ALL"}

(* No name in a path is empty, a wildcard below the path of the process    *)
(* groups comes after a ":", so that it does not cut a name in two, and    *)
(* nobody names the random word of get_process_groups_for_api (a uuid).    *)
WellFormed(target) ==
    /\ Wildcard(target) /\ Len(target) > 2 /\ target[Len(target) - 1] = ":" =>
          target[Len(target) - 2] # "/"
    /\ Wildcard(target) /\ Len(target) > 4 /\ SubSeq(target, 1, 3) = GroupsPath =>
          target[Len(target) - 1] = ":"
    /\ Len(target) > 3 /\ SubSeq(target, 1, 3) = GroupsPath => target[4] # "random"

Entries == [team : Teams, set : Crud \cup {"all", "start"}, deny : BOOLEAN, target : Seq(Words)]
EmptyPolicy == [users |-> {}, perms |-> <<>>]

ASSUME AccessConstants ==
    /\ Service \in People /\ DefaultTeam \in Teams /\ People \cap Teams = {} /\ MaxEdits \in Nat
    /\ {"/", ":", "%", "process-groups", "process-models", "process-instance-run", "logs", "task-data",
        "tasks", "process-instances", "service-accounts", "secrets", "random"} \subseteq Words
    /\ Uris \subseteq Seq(Words)
    /\ Configurations \subseteq
          [users : SUBSET ((People \ {Service}) \X Teams), perms : Seq(Entries)]
    /\ \A c \in Configurations : \A i \in DOMAIN c.perms :
          /\ c.perms[i].target # <<>>
          /\ \/ Named(c.perms[i].target)
             \/ Macro(c.perms[i].target)
             \/ c.perms[i].target[1] = "/" /\ WellFormed(c.perms[i].target)
          /\ c.perms[i].set = "start" => Named(c.perms[i].target)

-----------------------------------------------------------------------------
(* From a configuration's entries to permissions on targets *)

Under(path, segment) == <<"/", path, "/">> \o segment

get_permissions_to_assign(set, segment, uris) ==
    CASE set = "start" ->
           {<<"create", Under("process-instance-run", segment)>>, <<"read", Under("logs", segment)>>}
      [] set = "all" ->
           {<<"read", Under("logs", segment)>>, <<"update", Under("task-data", segment)>>}
             \cup (Crud \X uris)
      [] OTHER -> {set} \X uris

set_basic_permissions ==
    {<<"read", <<"/", "process-groups">>>>} \cup (Crud \X {<<"/", "tasks", "/", "%">>})

set_support_permissions ==
    set_basic_permissions \cup {<<"create", <<"/", "process-instance-run", "/", "%">>>>}
        \cup (Crud \X {<<"/", "process-instances", "/", "%">>})

set_elevated_permissions ==
    set_support_permissions \cup {<<"create", <<"/", "service-accounts">>>>}
        \cup (Crud \X {<<"/", "secrets", "/", "%">>})

set_process_group_permissions(id, set) ==
    LET segment == IF id = <<"ALL">> THEN <<"%">> ELSE id \o <<":", "%">>
    IN  get_permissions_to_assign(
            set, segment, {Under("process-groups", segment), Under("process-models", segment)})

set_process_model_permissions(id, set) ==
    LET segment == IF id = <<"ALL">> THEN <<"%">> ELSE id \o <<"/", "%">>
    IN  get_permissions_to_assign(set, segment, {Under("process-models", segment)})

explode_permissions(set, target) ==
    LET permissions == IF set = "all" THEN Crud ELSE {set}
    IN  CASE target[1] = "PG:"      -> set_process_group_permissions(Tail(target), set)
          [] target[1] = "PM:"      -> set_process_model_permissions(Tail(target), set)
          [] target[1] = "BASIC"    -> set_basic_permissions
          [] target[1] = "SUPPORT"  -> set_support_permissions
          [] target[1] = "ELEVATED" -> set_elevated_permissions
          [] target[1] = "ALL"      -> permissions \X {<<"/", "%">>}
          [] OTHER                  -> permissions \X {target}

(* The row of a principal, a target and a permission is unique: an entry   *)
(* for it that exists gets the new grant_type.                             *)
SameRow(r, s) == <<r.who, r.perm, r.target>> = <<s.who, s.perm, s.target>>
create_permission_for_principal(old, new) == {r \in old : ~\E n \in new : SameRow(n, r)} \cup new

RowsOf(entry) ==
    {[who |-> entry.team, perm |-> p[1], target |-> p[2], grant |-> IF entry.deny THEN "deny" ELSE "permit"] :
        p \in explode_permissions(entry.set, entry.target)}

add_permission_from_uri_or_macro(old, entry) == create_permission_for_principal(old, RowsOf(entry))

(* The rows a configuration stands for, by itself. *)
Import(config) ==
    LET upTo[k \in 0..Len(config.perms)] ==
            IF k = 0 THEN {} ELSE add_permission_from_uri_or_macro(upTo[k - 1], config.perms[k])
    IN  upTo[Len(config.perms)]

-----------------------------------------------------------------------------
(* Checks *)

(* SQL: uri LIKE target, or the target without its "/%" or ":%" equals it. *)
has_permission(rs, perm, uri) ==
    LET like(t)  == IF Wildcard(t) THEN IsPrefix(Front(t), uri) ELSE uri = t
        bare(t)  == IF Wildcard(t) /\ Len(t) > 1 /\ t[Len(t) - 1] \in {"/", ":"}
                    THEN SubSeq(t, 1, Len(t) - 2) ELSE t
        matching == {r \in rs : r.perm = perm /\ (like(r.target) \/ bare(r.target) = uri)}
    IN  matching # {} /\ \A r \in matching : r.grant = "permit"

all_principals_for_user(u) == {u} \cup {g \in Teams : <<u, g>> \in members}
all_permission_assignments_for_user(u) == {r \in grants : r.who \in all_principals_for_user(u)}
user_has_permission(u, perm, uri) == has_permission(all_permission_assignments_for_user(u), perm, uri)

check_permission_for_request(u, perm, uri) == user_has_permission(u, perm, uri)

has_permissions_and_all_permissions_permit(rs) == rs # {} /\ \A r \in rs : r.grant # "deny"

(* Faulty variant: a wildcard matches only what is below it. *)
MatchesBelow(target, actual) ==
    IF Wildcard(target) THEN IsPrefix(Front(target), actual) ELSE actual = target

target_uri_matches_actual_uri(target, actual) ==
    LET prefix == Front(target)
        drop(s, c) == IF s # <<>> /\ Last(s) = c THEN Front(s) ELSE s
    IN  IF Wildcard(target)
        THEN actual = drop(drop(prefix, ":"), "/") \/ IsPrefix(prefix, actual)
        ELSE actual = target

(* What permissions_check answers the frontend. *)
permission_assignments_include(rs, perm, uri) ==
    has_permissions_and_all_permissions_permit(
        {r \in rs : r.perm = perm /\ target_uri_matches_actual_uri(r.target, uri)})

(* Whoever may read something in a process group may see the group. *)
is_user_allowed_to_view_process_group_with_id(u, id) ==
    LET path    == <<"/", "process-groups", "/">>
        mine    == {r \in all_permission_assignments_for_user(u) : r.perm = "read"}
        asId(t) == LET s == IF IsPrefix(path, t) THEN SubSeq(t, 4, Len(t)) ELSE t
                   IN  IF IsSuffix(<<":", "%">>, s) THEN SubSeq(s, 1, Len(s) - 2) ELSE s
        relevant(r) ==
            \/ /\ r.grant = "permit"
               /\ IsPrefix(path \o id, r.target) \/ IsPrefix(Under("process-models", id), r.target)
            \/ r.grant = "deny" /\ IsPrefix(asId(r.target), id)
    IN  \/ user_has_permission(u, "read", path \o id)
        \/ has_permissions_and_all_permissions_permit({r \in mine : relevant(r)})

(* Lists of models and of groups.  Whoever may read a path nobody has (the *)
(* random word) is shown everything; else models are asked about one by    *)
(* one, and groups with an index of the targets.                           *)
process_model_identifiers_with_permission_for_user(u, perm, base, uri) ==
    \/ user_has_permission(u, perm, base \o <<"/", "random">>)
    \/ permission_assignments_include(all_permission_assignments_for_user(u), perm, uri)

Unwild(t) == LET drop(s, c) == IF s # <<>> /\ Last(s) = c THEN Front(s) ELSE s
             IN  drop(drop(Front(t), ":"), "/")

uri_ancestor_prefixes(uri) ==
    {SubSeq(uri, 1, n) : n \in {k \in (Len(GroupsPath) + 1)..Len(uri) : k = Len(uri) \/ uri[k + 1] = ":"}}

process_group_permission_index(u, grant) ==
    LET mine == {r \in all_permission_assignments_for_user(u) :
                    r.perm = "read" /\ r.grant = grant /\ IsPrefix(GroupsPath, r.target)}
    IN  [exact |-> {r.target : r \in {q \in mine : ~Wildcard(q.target)}},
         wild  |-> {Unwild(r.target) : r \in {q \in mine : Wildcard(q.target)}}]

permission_index_matches_target_uri(index, uri) ==
    uri \in index.exact \/ uri_ancestor_prefixes(uri) \cap index.wild # {}

(* The groups above a permitted group, or above a permitted model.         *)
descendant_permitted_group_ids(u) ==
    LET index  == process_group_permission_index(u, "permit")
        above(t) == uri_ancestor_prefixes(t) \ {t}
        models == {Under("process-groups", SubSeq(r.target, 4, Len(r.target))) :
                     r \in {q \in all_permission_assignments_for_user(u) :
                              /\ q.perm = "read" /\ q.grant = "permit"
                              /\ IsPrefix(Under("process-models", <<>>), q.target)}}
    IN  UNION ({uri_ancestor_prefixes(t) : t \in index.wild} \cup {above(t) : t \in index.exact \cup models})

get_process_groups_user_has_permissions_to(u, uri) ==
    /\ \/ permission_index_matches_target_uri(process_group_permission_index(u, "permit"), uri)
       \/ uri \in descendant_permitted_group_ids(u)
    /\ ~permission_index_matches_target_uri(process_group_permission_index(u, "deny"), uri)

get_process_groups_for_api(u, uri) ==
    \/ user_has_permission(u, "read", GroupsPath \o <<"random">>)
    \/ get_process_groups_user_has_permissions_to(u, uri)

-----------------------------------------------------------------------------
(* Refresh and import *)

NoLoading == [phase |-> "idle", user |-> Service, config |-> EmptyPolicy,
              users |-> {}, todo |-> {}, rows0 |-> {}, team0 |-> {}, added |-> {}]

(* A fresh deployment: the service account has a permission of its own. *)
AccessInit ==
    /\ policy = EmptyPolicy /\ members = {}
    /\ grants = {[who |-> Service, perm |-> "read", target |-> <<"/", "%">>, grant |-> "permit"]}
    /\ loading = [j \in Loaders |-> NoLoading] /\ workedFrom = {} /\ policyEdits = 0

EditYaml(c) ==
    /\ policyEdits < MaxEdits /\ c # policy
    /\ policy' = c /\ policyEdits' = policyEdits + 1
    /\ UNCHANGED <<members, grants, loading, workedFrom>>

(* Faulty variant: delete everything, then add. *)
RefreshFromScratch ==
    /\ loading["refresh"].phase = "idle"
    /\ loading' = [loading EXCEPT !["refresh"] =
           [NoLoading EXCEPT !.phase = "users", !.config = policy, !.users = policy.users,
                             !.todo = DOMAIN policy.perms,
                             !.rows0 = {r \in grants : r.who # Service}, !.team0 = members]]
    /\ grants' = {r \in grants : r.who = Service}
    /\ workedFrom' = {policy}
    /\ UNCHANGED <<policy, members, policyEdits>>

(* refresh_permissions reads what there is, then works through the file. *)
RefreshStarts ==
    /\ loading["refresh"].phase = "idle"
    /\ loading' = [loading EXCEPT !["refresh"] =
           [NoLoading EXCEPT !.phase = "users", !.config = policy, !.users = policy.users,
                             !.todo = DOMAIN policy.perms,
                             !.rows0 = {r \in grants : r.who # Service}, !.team0 = members]]
    /\ workedFrom' = {policy} \cup (IF loading["signin"].phase = "idle" THEN {} ELSE {loading["signin"].config})
    /\ UNCHANGED <<policy, members, grants, policyEdits>>

(* A sign-in imports the entries of the user and of the user's groups. *)
import_permissions_from_yaml_file(u) ==
    LET mine   == {e \in policy.users : e[1] = u}
        groups == {e[2] : e \in mine} \cup {DefaultTeam} \cup {g \in Teams : <<u, g>> \in members}
    IN  /\ loading["signin"].phase = "idle"
        /\ loading' = [loading EXCEPT !["signin"] =
               [NoLoading EXCEPT !.phase = "users", !.user = u, !.config = policy, !.users = mine,
                                 !.todo = {i \in DOMAIN policy.perms : policy.perms[i].team \in groups}]]
        /\ workedFrom' = IF workedFrom = {} THEN {} ELSE workedFrom \cup {policy}
        /\ UNCHANGED <<policy, members, grants, policyEdits>>

(* add_permissions_from_group_permissions: memberships first, a commit     *)
(* each, then the permissions, a commit each, then the default group.      *)
AddUser(j) ==
    \E e \in loading[j].users :
        /\ loading[j].phase = "users"
        /\ members' = members \cup {e}
        /\ loading' = [loading EXCEPT ![j].users = @ \ {e}]
        /\ UNCHANGED <<policy, grants, workedFrom, policyEdits>>

AddPermission(j) ==
    \E i \in loading[j].todo :
        LET entry == loading[j].config.perms[i] IN
        /\ loading[j].phase = "users" /\ loading[j].users = {}
        /\ \A k \in loading[j].todo : i <= k
        /\ grants' = add_permission_from_uri_or_macro(grants, entry)
        /\ loading' = [loading EXCEPT ![j].todo = @ \ {i}, ![j].added = @ \cup RowsOf(entry)]
        /\ UNCHANGED <<policy, members, workedFrom, policyEdits>>

AddDefault(j) ==
    /\ loading[j].phase = "users" /\ loading[j].users = {} /\ loading[j].todo = {}
    /\ members' = members \cup
           ((IF j = "signin" THEN {loading[j].user} ELSE People \ {Service}) \X {DefaultTeam})
    /\ loading' = [loading EXCEPT ![j] = IF j = "signin" THEN NoLoading ELSE [@ EXCEPT !.phase = "remove"]]
    /\ UNCHANGED <<policy, grants, workedFrom, policyEdits>>

(* Faulty variant: what a file does not list any more stays. *)
RemoveNothing ==
    /\ loading["refresh"].phase = "remove"
    /\ loading' = [loading EXCEPT !["refresh"] = NoLoading]
    /\ UNCHANGED <<policy, members, grants, workedFrom, policyEdits>>

(* Rows and memberships there were before that were not added again go,    *)
(* in one commit.                                                          *)
RemoveOld ==
    LET done == loading["refresh"] IN
    /\ done.phase = "remove"
    /\ grants' = {r \in grants : (\E o \in done.rows0 : SameRow(o, r)) => \E a \in done.added : SameRow(a, r)}
    /\ members' = {m \in members : m \in done.team0 => m \in done.config.users \/ m[2] = DefaultTeam}
    /\ loading' = [loading EXCEPT !["refresh"] = NoLoading]
    /\ UNCHANGED <<policy, workedFrom, policyEdits>>

AccessNext ==
    \/ \E c \in Configurations : EditYaml(c)
    \/ RefreshStarts \/ RemoveOld
    \/ \E u \in People \ {Service} : import_permissions_from_yaml_file(u)
    \/ \E j \in Loaders : AddUser(j) \/ AddPermission(j) \/ AddDefault(j)

AccessSpec == AccessInit /\ [][AccessNext]_acVars

-----------------------------------------------------------------------------
(* Properties *)

AccessTypeOK ==
    /\ policy \in Configurations \cup {EmptyPolicy}
    /\ members \subseteq People \X Teams
    /\ \A r \in grants : r.who \in People \cup Teams /\ r.perm \in Crud /\ r.grant \in {"permit", "deny"}
    /\ policyEdits \in 0..MaxEdits /\ DOMAIN loading = Loaders
    /\ \A j \in Loaders : loading[j].phase \in {"idle", "users", "remove"}

(* The frontend is told what the server decides: the SQL and the Python    *)
(* matching of targets agree on every path and every permission a person   *)
(* has a row about (without one both say no), also in the middle of a      *)
(* refresh (permissions_check against check_permission_for_request), and   *)
(* the lists of models and groups show whatever the server lets be read.   *)
(* A service account has no frontend.                                      *)
FrontendAgrees ==
    \A u \in People \ {Service} :
        LET mine == all_permission_assignments_for_user(u) IN
        \A p \in {r.perm : r \in mine}, x \in Uris :
            LET allowed == check_permission_for_request(u, p, x)
            IN  /\ permission_assignments_include(mine, p, x) <=> allowed
                /\ allowed /\ IsPrefix(Under("process-models", <<>>), x) =>
                      process_model_identifiers_with_permission_for_user(u, p, <<"/", "process-models">>, x)
                /\ allowed /\ p = "read" /\ IsStrictPrefix(GroupsPath, x) =>
                      get_process_groups_for_api(u, x)

Allowed(c, u, p, x) ==
    LET mine == {r \in Import(c) : r.who = DefaultTeam \/ <<u, r.who>> \in c.users}
    IN  has_permission(mine, p, x)
Denies(c) == \E i \in DOMAIN c.perms : c.perms[i].deny

(* A refresh locks nobody out on its way: what both the old and the new    *)
(* configuration allow is allowed after each of its commits (deny entries, *)
(* which apply from the moment they are written, aside).                   *)
NeverLockedOut ==
    LET old == loading["refresh"] IN
    old.phase # "idle" /\ ~Denies(old.config) /\ (\A r \in grants : r.grant = "permit") =>
        \A u \in People \ {Service}, p \in {"read"}, x \in Uris :
            /\ Allowed(old.config, u, p, x)
            /\ has_permission({r \in old.rows0 : r.who \in {u} \cup {g \in Teams : <<u, g>> \in old.team0}}, p, x)
            => user_has_permission(u, p, x)

(* A refresh converges: after the last one, if every import since it began *)
(* worked from the same file, rows and memberships are what that file says *)
(* alone, whatever was there before (the service account's own aside).     *)
ConfigApplied ==
    \A c \in workedFrom :
        workedFrom = {c} /\ loading = [j \in Loaders |-> NoLoading] =>
            /\ {r \in grants : r.who # Service} = Import(c)
            /\ {m \in members : m[2] # DefaultTeam} = {m \in c.users : m[2] # DefaultTeam}

(* "if you have access to PG:hey:yo:%, you should ALSO be able to see PG   *)
(* hey, because that allows you to navigate to hey:yo"                     *)
(* (authorization_service.py), for users no entry denies anything.         *)
SubgroupNavigable ==
    \A u \in People \ {Service}, x \in Uris :
        LET path == <<"/", "process-groups", "/">>
            sub  == SubSeq(x, 4, Len(x))
            cut  == CHOOSE i \in 1..Len(sub) : sub[i] = ":"
            id   == SubSeq(sub, 1, cut - 1)
            denied == \E r \in all_permission_assignments_for_user(u) : r.grant = "deny"
        IN  IsPrefix(path, x) /\ ":" \in Range(sub) /\ user_has_permission(u, "read", x)
                /\ ~denied
            => is_user_allowed_to_view_process_group_with_id(u, id)

(* Of permissions, through files imported one after the other and at once: *)
(* permissions_check tells the frontend what check_permission_for_request  *)
(* decides, a refresh locks nobody out on its way, its result is what the  *)
(* file says whatever was there before, and who may read a group may       *)
(* navigate to it.                                                         *)
AccessSound == AccessTypeOK /\ FrontendAgrees /\ NeverLockedOut /\ ConfigApplied /\ SubgroupNavigable
=============================================================================
