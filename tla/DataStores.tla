----------------------------- MODULE DataStores -----------------------------
(***************************************************************************)
(* Data stores: the keyed key-value store, the JSON store and the          *)
(* typeahead store (data_stores), the HTTP operations on them              *)
(* (data_store_controller) and the full refresh that makes the tables      *)
(* agree with the specifications in process_group.json                     *)
(* (data_setup_service).                                                   *)
(*                                                                         *)
(* One identifier is used by every store, so that a store is its type and  *)
(* its location; a task finds the nearest one above its process model.     *)
(* One thread runs instances, possibly one inside the other (an engine     *)
(* step that starts or answers another instance), and shares one           *)
(* THREAD_LOCAL_DATA among them.  An engine step has a database session of *)
(* its own, so that what a refused write left pending is rolled back.      *)
(***************************************************************************)
EXTENDS Naturals, Sequences, SequencesExt, FiniteSetsExt

CONSTANTS StoreModels, \* process models that have tasks using the stores
          Upsearch,    \* UpsearchService.upsearch_locations of a model
          Locations,   \* locations a store can be at
          Bodies,      \* what a task or a request writes to a key-value store
          MaxRequests  \* bound: requests that create or update a store

Types  == {"kkv", "json"}
Stores == Types \X Locations
Values == {"text", "number"}
Empty  == "empty"        \* {}
Null   == "null"         \* None: delete
Every  == "every"        \* the whole second level is None
Nothing == "none"

(* A location is above a model once. *)
ASSUME DataStoreConstants ==
    /\ Upsearch \in [StoreModels -> Seq(STRING)] /\ \A m \in StoreModels : IsInjective(Upsearch[m])
    /\ Nothing \notin Locations \cup StoreModels /\ MaxRequests \in Nat

VARIABLES spec,      \* data_store_specifications of the process_group.json files
          store,     \* rows of kkv_data_store (with entries) and json_data_store
          terms,     \* rows of typeahead, by category
          upserting, \* an upsert between writing the file and its commit
          running,   \* the instances the thread runs, the innermost last
          local,     \* THREAD_LOCAL_DATA.process_model_identifier
          astray,    \* ghost: a task wrote to a store that is not its own
          dropped,   \* ghost: stores whose specification went with a group
          requests   \* requests so far

dsVars == <<spec, store, terms, upserting, running, local, astray, dropped, requests>>
specFiles == <<spec, upserting, dropped>>
dsThread  == <<running, local, astray>>

Schemas == {"any", "text"}
NoEntries == <<>>

(* create_instance: an empty store *)
create_instance(k, schema) ==
    [schema |-> schema, data |-> IF k[1] = "kkv" THEN NoEntries ELSE Empty]

Absent(k)  == create_instance(k, Nothing)
Exists(k)  == store[k].schema # Nothing
NoUpsert   == [key |-> <<Nothing, Nothing>>, schema |-> Nothing, insert |-> FALSE]

DataStoresTypeOK ==
    /\ spec \in [Stores -> Schemas \cup {Nothing}]
    /\ DOMAIN store = Stores /\ \A k \in Stores : store[k].schema \in Schemas \cup {Nothing}
    /\ terms \subseteq {"c"} \X Values
    /\ upserting = NoUpsert \/ upserting.key \in Stores
    /\ running \in Seq(StoreModels) /\ Len(running) <= 2
    /\ local \in StoreModels \cup {Nothing}
    /\ astray \in BOOLEAN
    /\ dropped \subseteq Stores /\ requests \in 0 .. MaxRequests

DataStoresInit ==
    /\ spec = [k \in Stores |-> IF k[2] = "" THEN "text" ELSE Nothing]
    /\ store = [k \in Stores |-> create_instance(k, spec[k])]
    /\ terms = {} /\ upserting = NoUpsert /\ running = <<>> /\ local = Nothing
    /\ astray = FALSE /\ dropped = {} /\ requests = 0

-----------------------------------------------------------------------------
validate_schema(schema, value) == schema = "any" \/ value = schema

(* data_store_location_for_task: the nearest store of the type *)
data_store_location_for_task(type, model) ==
    LET up    == Upsearch[model]
        there == {i \in DOMAIN up : up[i] \in Locations /\ Exists(<<type, up[i]>>)}
    IN  IF there = {} THEN Nothing ELSE up[Min(there)]

(* The stores no other store of their type comes before, seen from a model *)
NearestTo(model) ==
    LET up == Upsearch[model]
        At(l) == CHOOSE i \in 1 .. Len(up) : up[i] = l
    IN  {k \in Stores : /\ Exists(k) /\ k[2] \in ToSet(up)
                        /\ \A l \in Locations \cap ToSet(up) :
                               Exists(<<k[1], l>>) => At(k[2]) <= At(l)}

(* One entry of a body: the top level key is dropped, the entry is dropped, *)
(* or it is inserted or updated.                                            *)
WriteItem(entries, item) ==
    LET key  == <<item.top, item.sec>>
        rest(gone) == [k \in DOMAIN entries \ gone |-> entries[k]]
    IN  IF item.sec = Every THEN rest({k \in DOMAIN entries : k[1] = item.top})
        ELSE IF item.value = Null THEN rest({key})
        ELSE [k \in DOMAIN entries \cup {key} |->
                IF k = key THEN item.value ELSE entries[k]]

Refused(schema, item) ==
    item.sec # Every /\ item.value # Null /\ ~validate_schema(schema, item.value)

-----------------------------------------------------------------------------
(* Instances and their engine steps *)

(* ProcessInstanceRuntime(...): the thread's data names the model it runs *)
setup_runtime(m) ==
    /\ Len(running) < 2
    /\ running' = Append(running, m) /\ local' = m
    /\ UNCHANGED <<specFiles, store, terms, requests, astray>>

(* The run ends; the thread's data keeps naming the model it was about. *)
FinishRun ==
    /\ running # <<>> /\ running' = Front(running)
    /\ UNCHANGED <<specFiles, store, terms, requests, local, astray>>

(* A bug: the step finds whatever model the thread last set up. *)
RunStepUnset ==
    running # <<>> /\ UNCHANGED <<running, local>>

(* ExecutionStrategy._run: before every engine step *)
RunStep ==
    /\ running # <<>>
    /\ local' = Last(running) /\ UNCHANGED running

(* KKVDataStore.set: a refused value raises, and nothing was committed *)
kkv_set(body) ==
    /\ RunStep
    /\ LET at == data_store_location_for_task("kkv", local')
           k  == <<"kkv", at>>
       IN  /\ at # Nothing
           /\ store' = IF \E i \in 1 .. Len(body) : Refused(store[k].schema, body[i]) THEN store
                       ELSE [store EXCEPT ![k].data = FoldLeft(WriteItem, @, body)]
           /\ astray' = (astray \/ k \notin NearestTo(Last(running)))
    /\ UNCHANGED <<specFiles, terms, requests>>

(* JSONDataStore.set: the whole document *)
json_set(value) ==
    /\ RunStep
    /\ LET at == data_store_location_for_task("json", local')
           k  == <<"json", at>>
       IN  /\ at # Nothing
           /\ validate_schema(store[k].schema, value)
           /\ store' = [store EXCEPT ![k].data = value]
           /\ astray' = (astray \/ k \notin NearestTo(Last(running)))
    /\ UNCHANGED <<specFiles, terms, requests>>

(* TypeaheadDataStore.set: the category's terms are replaced *)
typeahead_set(values) ==
    /\ RunStep
    /\ terms' = {"c"} \X values
    /\ UNCHANGED <<specFiles, store, requests, astray>>

-----------------------------------------------------------------------------
(* Requests *)

Another == requests < MaxRequests /\ requests' = requests + 1

(* _write_specification_to_process_group: the group is created if needed *)
write_specification(k, schema) ==
    /\ spec' = [spec EXCEPT ![k] = schema]
    /\ dropped' = dropped \ {k}

(* A bug: the row is committed first and the file written afterwards. *)
UpsertRowFirst(k, schema, insert) ==
    /\ upserting = NoUpsert /\ Another
    /\ insert \/ Exists(k)
    /\ store' = [store EXCEPT ![k] = IF ~Exists(k) THEN create_instance(k, schema)
                                     ELSE [@ EXCEPT !.schema = schema]]
    /\ upserting' = [key |-> k, schema |-> schema, insert |-> insert]
    /\ UNCHANGED <<spec, dropped, terms, dsThread>>

(* _data_store_upsert, up to the specification's file.  An update of a     *)
(* store that does not exist fails before.                                 *)
data_store_upsert(k, schema, insert) ==
    /\ upserting = NoUpsert /\ Another
    /\ insert \/ Exists(k)
    /\ write_specification(k, schema)
    /\ upserting' = [key |-> k, schema |-> schema, insert |-> insert]
    /\ UNCHANGED <<store, terms, dsThread>>

(* The commit: a second row for the key violates the unique constraint, an *)
(* update of a row that is gone changes nothing.                           *)
UpsertCommits ==
    /\ upserting # NoUpsert /\ upserting' = NoUpsert
    /\ LET k == upserting.key
       IN  store' = CASE upserting.insert /\ ~Exists(k) ->
                              [store EXCEPT ![k] = create_instance(k, upserting.schema)]
                      [] ~upserting.insert /\ Exists(k) ->
                              [store EXCEPT ![k].schema = upserting.schema]
                      [] OTHER -> store
    /\ UNCHANGED <<spec, dropped, terms, dsThread, requests>>

(* data_store_write_items: the entries are not validated *)
data_store_write_items(l, body) ==
    /\ Exists(<<"kkv", l>>)
    /\ store' = [store EXCEPT ![<<"kkv", l>>].data = FoldLeft(WriteItem, @, body)]
    /\ UNCHANGED <<specFiles, terms, dsThread, requests>>

(* KKVDataStore.clear and JSONDataStore.clear; an empty document that the  *)
(* schema refuses is not stored.                                           *)
kkv_clear(k)  == store' = [store EXCEPT ![k].data = NoEntries]
json_clear(k) == /\ validate_schema(store[k].schema, Empty)
                 /\ store' = [store EXCEPT ![k].data = Empty]

data_store_clear(k) ==
    /\ Exists(k)
    /\ IF k[1] = "kkv" THEN kkv_clear(k) ELSE json_clear(k)
    /\ UNCHANGED <<specFiles, terms, dsThread, requests>>

(* The row goes with its entries (cascade). *)
delete_store(k) == store' = [store EXCEPT ![k] = Absent(k)]

(* data_store_delete: the specification stays *)
data_store_delete(k) ==
    /\ Exists(k) /\ delete_store(k)
    /\ UNCHANGED <<specFiles, terms, dsThread, requests>>

(* TypeaheadDataStore.clear and .delete *)
typeahead_clear ==
    terms' = {} /\ UNCHANGED <<specFiles, store, dsThread, requests>>

(* process_group_delete, and process_group_update with a body that does not *)
(* carry the specifications: the new process_group.json has none.           *)
process_group_drops(l) ==
    /\ spec' = [k \in Stores |-> IF k[2] = l THEN Nothing ELSE spec[k]]
    /\ dropped' = dropped \cup {k \in Stores : k[2] = l}
    /\ UNCHANGED <<upserting, store, terms, dsThread, requests>>

(* _sync_data_store_models_with_specifications, in the full refresh *)
synced(k) ==
    CASE spec[k] # Nothing /\ ~Exists(k) -> create_instance(k, spec[k])
      [] spec[k] # Nothing /\ Exists(k) -> [store[k] EXCEPT !.schema = spec[k]]
      [] spec[k] = Nothing                   -> Absent(k)

refresh_process_model_caches ==
    /\ store' = [k \in Stores |-> synced(k)]
    /\ UNCHANGED <<specFiles, terms, dsThread, requests>>

DataStoresNext ==
    \/ \E m \in StoreModels : setup_runtime(m)
    \/ FinishRun
    \/ \E body \in Bodies : kkv_set(body)
    \/ \E v \in Values : json_set(v)
    \/ typeahead_set({"text"})
    \/ \E k \in Stores, s \in Schemas, insert \in BOOLEAN : data_store_upsert(k, s, insert)
    \/ UpsertCommits
    \/ \E l \in Locations, body \in Bodies : data_store_write_items(l, body)
    \/ \E k \in Stores : data_store_clear(k)
    \/ \E k \in Stores : data_store_delete(k)
    \/ typeahead_clear
    \/ \E l \in Locations : process_group_drops(l)
    \/ refresh_process_model_caches

DataStoresSpec == DataStoresInit /\ [][DataStoresNext]_dsVars

-----------------------------------------------------------------------------
(* A task writes only to the store nearest to the model of the instance it *)
(* belongs to, also after another instance ran in the same thread          *)
(* (THREAD_LOCAL_DATA, data_store_location_for_task).                      *)
TasksKeepToTheirStores == ~astray

(* Every row has a specification, so that a full refresh deletes no store  *)
(* and no entry of one, unless the specification went with its process     *)
(* group: the file is written before the row is committed, and a refresh   *)
(* may come between the two.                                               *)
RowsSpecified == \A k \in Stores \ dropped : Exists(k) => spec[k] # Nothing

(* Both, on states of the right type. *)
StoresSound == DataStoresTypeOK /\ TasksKeepToTheirStores /\ RowsSpecified
=============================================================================
