------------------------- MODULE MessageDefinitions -------------------------
(***************************************************************************)
(* Message definitions: the messages of the process_group.json files, the  *)
(* message table and the process models it records as users of each        *)
(* message (message_definition_service, the message part of                *)
(* data_setup_service, process_groups_controller).                         *)
(*                                                                         *)
(* A definition is a name at a group; its schema and its correlation       *)
(* properties travel with it.  A request that changes definitions writes   *)
(* the files first and then, in a second step, commits the table or puts   *)
(* the files back; the full refresh reads everything, deletes the table    *)
(* with a commit of its own, and fills it again.                           *)
(***************************************************************************)
EXTENDS Naturals, FiniteSets, Sequences, SequencesExt, FiniteSetsExt

CONSTANTS MessageGroups, \* process groups
          MessageModels, \* process models
          Names,         \* message identifiers
          GroupsAbove,   \* UpsearchService.upsearch_locations of a model
          InGroup,       \* the models and groups under a group, and the group
          MaxPersists    \* bound: changes of definitions by requests

(* Of two groups above a model the one that comes first is below the other. *)
ASSUME MessageDefinitionConstants ==
    /\ GroupsAbove \in [MessageModels -> Seq(STRING)] /\ MaxPersists \in Nat
    /\ \A m \in MessageModels : \A i, j \in DOMAIN GroupsAbove[m] :
          LET g == GroupsAbove[m][i]
              h == GroupsAbove[m][j]
          IN  {g, h} \subseteq MessageGroups => (h \in InGroup[g] \ {g} <=> j < i)

VARIABLES groupFiles,  \* the messages of each group's process_group.json
          declares,    \* the messages the files of each model declare
          messageRows, \* message table: (identifier, location) to its users
          persisting,  \* a change of definitions between its files and its commit
          refresher,   \* the full refresh
          persists,    \* requests that changed definitions so far
          fresh        \* ghost: no definition or file changed unseen since a refresh

mdVars == <<groupFiles, declares, messageRows, persisting, refresher, persists, fresh>>

Keys       == Names \X MessageGroups
NoPersist  == [on |-> FALSE, groups |-> {}, models |-> <<>>, backup |-> <<>>]
Idle       == [pc |-> "idle", defs |-> <<>>, known |-> {}, usage |-> {}, quiet |-> TRUE]

MessageDefinitionsTypeOK ==
    /\ groupFiles \in [MessageGroups -> SUBSET Names]
    /\ declares \in [MessageModels -> SUBSET Names]
    /\ DOMAIN messageRows \subseteq Keys /\ \A k \in DOMAIN messageRows : messageRows[k] \subseteq MessageModels
    /\ persisting.on \in BOOLEAN /\ persisting.groups \subseteq MessageGroups
    /\ refresher.pc \in {"idle", "collected", "deleted"}
    /\ persists \in 0 .. MaxPersists /\ fresh \in BOOLEAN

MessageDefinitionsInit ==
    /\ groupFiles = [g \in MessageGroups |-> {}] /\ declares = [m \in MessageModels |-> {}]
    /\ messageRows = <<>> /\ persisting = NoPersist /\ refresher = Idle
    /\ persists = 0 /\ fresh = TRUE

InScope(m, g) == g \in ToSet(GroupsAbove[m])

-----------------------------------------------------------------------------
(* Faulty variant: any definition of the name counts. *)
AnyLocation(m, name, keys) ==
    {g \in MessageGroups : <<name, g>> \in keys}

(* _find_nearest_message_location, among the keys given *)
find_nearest_message_location(m, name, keys) ==
    LET up    == GroupsAbove[m]
        there == {i \in DOMAIN up : up[i] \in MessageGroups /\ <<name, up[i]>> \in keys}
    IN  IF there = {} THEN {} ELSE {up[Min(there)]}

(* _build_message_usage_map *)
build_message_usage_map(keys) ==
    UNION {{k} \X {m \in MessageModels : /\ k[1] \in declares[m]
                                        /\ k[2] \in find_nearest_message_location(m, k[1], keys)} :
           k \in keys}

UsersOf(usage, k) == {m \in MessageModels : <<k, m>> \in usage}

(* collect_message_models: a row that exists keeps its users, a new one    *)
(* gets those a move brings.                                               *)
collect_message_models(groups, contents, brought) ==
    [k \in {c \in Keys : c[2] \in groups /\ c[1] \in contents[c[2]]} |->
        IF k \in DOMAIN messageRows THEN messageRows[k]
        ELSE IF k \in DOMAIN brought THEN brought[k] ELSE {}]

Seen == refresher' = [refresher EXCEPT !.quiet = FALSE]

-----------------------------------------------------------------------------
(* Changes of definitions *)

(* persist_process_groups_with_messages: the models are collected, the old *)
(* contents read, the new files written.                                   *)
persist_process_groups_with_messages(groups, contents, brought) ==
    /\ ~persisting.on /\ persists < MaxPersists /\ persists' = persists + 1
    /\ persisting' = [on |-> TRUE, groups |-> groups, backup |-> groupFiles,
                   models |-> collect_message_models(groups, contents, brought)]
    /\ groupFiles' = contents
    /\ Seen /\ fresh' = FALSE
    /\ UNCHANGED <<declares, messageRows>>

(* The rows at the groups are deleted, those collected saved, in one       *)
(* transaction.                                                            *)
PersistCommits ==
    /\ persisting.on /\ persisting' = NoPersist
    /\ messageRows' = [k \in {c \in DOMAIN messageRows : c[2] \notin persisting.groups}
                          \cup DOMAIN persisting.models |->
                  IF k \in DOMAIN persisting.models THEN persisting.models[k] ELSE messageRows[k]]
    /\ Seen /\ fresh' = FALSE
    /\ UNCHANGED <<persists, groupFiles, declares>>

(* MessageDefinitionConflictError, or another failure: rolled back, and    *)
(* the files get the contents they had.                                    *)
PersistFails ==
    /\ persisting.on /\ persisting' = NoPersist
    /\ groupFiles' = [g \in MessageGroups |-> IF g \in persisting.groups THEN persisting.backup[g] ELSE groupFiles[g]]
    /\ Seen /\ fresh' = FALSE
    /\ UNCHANGED <<persists, declares, messageRows>>

(* process_group_update *)
process_group_update(g, names) ==
    /\ names # groupFiles[g]
    /\ persist_process_groups_with_messages({g}, [groupFiles EXCEPT ![g] = names], <<>>)

(* A bug: nobody asks who uses the message. *)
MoveUnchecked(n, g, n2, g2) ==
    /\ n \in groupFiles[g] /\ <<n, g>> # <<n2, g2>>
    /\ LET source == <<n, g>>
           users  == IF source \in DOMAIN messageRows THEN messageRows[source] ELSE {}
       IN  persist_process_groups_with_messages({g, g2},
               [[groupFiles EXCEPT ![g] = @ \ {n}] EXCEPT ![g2] = @ \cup {n2}],
               [k \in {<<n2, g2>>} |-> users])

(* move_message_between_groups: refused when a recorded user is not below  *)
(* the target; the users go with the definition.                           *)
move_message_between_groups(n, g, n2, g2) ==
    /\ n \in groupFiles[g] /\ <<n, g>> # <<n2, g2>>
    /\ LET source == <<n, g>>
           users  == IF source \in DOMAIN messageRows THEN messageRows[source] ELSE {}
       IN  /\ \A m \in users : InScope(m, g2)
           /\ persist_process_groups_with_messages({g, g2},
                  [[groupFiles EXCEPT ![g] = @ \ {n}] EXCEPT ![g2] = @ \cup {n2}],
                  [k \in {<<n2, g2>>} |-> users])

-----------------------------------------------------------------------------
(* Process models *)

(* remove_process_model_from_usage, remove_process_group_from_usage *)
remove_from_usage(ms) == [k \in DOMAIN messageRows |-> messageRows[k] \ ms]

(* A model is saved and refreshed alone:                                   *)
(* _update_message_usage_for_process_model removes it and adds it again.   *)
update_message_usage(m, names) ==
    LET removed == remove_from_usage({m})
        nearest(name) == find_nearest_message_location(m, name, DOMAIN messageRows)
    IN  [k \in DOMAIN messageRows |->
            removed[k] \cup (IF k[1] \in names /\ k[2] \in nearest(k[1]) THEN {m} ELSE {})]

refresh_single_process_model_cache(m, names) ==
    /\ declares' = [declares EXCEPT ![m] = names]
    /\ messageRows' = update_message_usage(m, names)
    /\ Seen /\ UNCHANGED <<persists, groupFiles, persisting, fresh>>

(* process_model_delete *)
process_model_delete(m) ==
    /\ declares' = [declares EXCEPT ![m] = {}]
    /\ messageRows' = remove_from_usage({m})
    /\ Seen /\ UNCHANGED <<persists, groupFiles, persisting, fresh>>

(* process_group_delete: the directory goes; its definitions keep their    *)
(* rows until a full refresh.                                              *)
process_group_delete(g) ==
    /\ ~persisting.on
    /\ groupFiles' = [h \in MessageGroups |-> IF h \in InGroup[g] THEN {} ELSE groupFiles[h]]
    /\ declares' = [m \in MessageModels |-> IF m \in InGroup[g] THEN {} ELSE declares[m]]
    /\ messageRows' = remove_from_usage(InGroup[g])
    /\ Seen /\ UNCHANGED <<persists, persisting, fresh>>

(* The files of a model change under the backend (git pull, an editor). *)
PullModel(m, names) ==
    /\ declares[m] # names
    /\ declares' = [declares EXCEPT ![m] = names]
    /\ Seen /\ fresh' = FALSE /\ UNCHANGED <<persists, groupFiles, messageRows, persisting>>

-----------------------------------------------------------------------------
(* refresh_process_model_caches *)

RefreshCollects ==
    /\ refresher.pc = "idle"
    /\ LET defs == collect_message_models(MessageGroups, groupFiles, <<>>)
       IN  refresher' = [pc |-> "collected", defs |-> defs, known |-> DOMAIN messageRows,
                         usage |-> build_message_usage_map(DOMAIN defs), quiet |-> TRUE]
    /\ UNCHANGED <<persists, groupFiles, declares, messageRows, persisting, fresh>>

(* delete_all_message_models, committed *)
delete_all_message_models ==
    /\ refresher.pc = "collected"
    /\ refresher' = [refresher EXCEPT !.pc = "deleted"]
    /\ messageRows' = <<>> /\ fresh' = FALSE
    /\ UNCHANGED <<persists, groupFiles, declares, persisting>>

(* save_all_message_models: a definition that had a row is inserted with   *)
(* its id, which fails if a request has inserted that key meanwhile.  An   *)
(* empty usage map leaves the users as they were collected.                *)
save_all_message_models ==
    /\ refresher.pc = "deleted" /\ refresher' = Idle
    /\ LET defs == refresher.defs
           clash == DOMAIN defs \cap refresher.known \cap DOMAIN messageRows # {}
       IN  /\ messageRows' = IF clash THEN messageRows
                      ELSE [k \in DOMAIN messageRows \cup DOMAIN defs |->
                              IF k \notin DOMAIN defs THEN messageRows[k]
                              ELSE IF refresher.usage = {} THEN defs[k]
                              ELSE UsersOf(refresher.usage, k)]
           /\ fresh' = (refresher.quiet /\ ~clash /\ (refresher.usage # {} \/ defs = <<>>))
    /\ UNCHANGED <<persists, groupFiles, declares, persisting>>

MessageDefinitionsNext ==
    \/ \E g \in MessageGroups, names \in SUBSET Names : process_group_update(g, names)
    \/ \E n, n2 \in Names, g, g2 \in MessageGroups : move_message_between_groups(n, g, n2, g2)
    \/ PersistCommits
    \/ PersistFails
    \/ \E m \in MessageModels, names \in SUBSET Names : refresh_single_process_model_cache(m, names)
    \/ \E m \in MessageModels : process_model_delete(m)
    \/ \E g \in MessageGroups : process_group_delete(g)
    \/ \E m \in MessageModels, names \in SUBSET Names : PullModel(m, names)
    \/ RefreshCollects
    \/ delete_all_message_models
    \/ save_all_message_models

MessageDefinitionsSpec == MessageDefinitionsInit /\ [][MessageDefinitionsNext]_mdVars

-----------------------------------------------------------------------------
(* Whoever the table records as a user of a definition is below it, so     *)
(* that the definition can be found from there                             *)
(* (_out_of_scope_process_model_identifiers), whatever overlaps what.      *)
UsersInScope == \A k \in DOMAIN messageRows : \A m \in messageRows[k] : InScope(m, k[2])

(* After a full refresh nothing disturbed, and for as long as definitions  *)
(* and files change only through single-model refreshes and deletions, the *)
(* users of a definition are exactly the models that declare the message   *)
(* and have no nearer definition of it.                                    *)
UsageExact ==
    fresh => \A k \in DOMAIN messageRows :
        messageRows[k] = {m \in MessageModels :
                     /\ k[1] \in declares[m] /\ InScope(m, k[2])
                     /\ ~\E g \in InGroup[k[2]] \ {k[2]} :
                            InScope(m, g) /\ <<k[1], g>> \in DOMAIN messageRows}

(* Both, on states of the right type. *)
DefinitionUsersSound == MessageDefinitionsTypeOK /\ UsersInScope /\ UsageExact
=============================================================================
