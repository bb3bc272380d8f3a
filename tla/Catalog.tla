------------------------------- MODULE Catalog -------------------------------
(***************************************************************************)
(* Process models on disk and what the database caches about them: the     *)
(* newest generation of reference_cache (which file defines a process),    *)
(* the caller relation and the start-message triggers.  One refresh of all *)
(* models runs beside the requests that edit, copy, move and delete them.  *)
(* A model's id is its path, a sequence of words.  A file's content is the *)
(* sequence of processes it declares, each                                 *)
(* [id, calls, starts, exec]; ids are sequences, so that copying can make  *)
(* new ones.  Two models are never given the same path by a move.          *)
(***************************************************************************)
EXTENDS Integers, Sequences, SequencesExt, FiniteSets

CONSTANTS
    ModelIds,    \* the paths models may have
    FileNames, Contents, Messages,
    Missing,     \* no model, no file, no trigger
    MaxRequests  \* bound: requests, and refreshes, made

VARIABLES
    disk,      \* directory of a model -> Missing or [primary, proc, files]; no json: primary is Missing
    groups,    \* paths with a process_group.json
    cache,     \* reference_cache rows of every generation: [gen, proc, model, file, exec]
    gen,       \* the newest generation
    callers,   \* process_caller_relationship: <<called row, calling row>>
    triggers,  \* message_triggerable_process_model: message -> [model, file]
    writing,   \* update_file has committed and not yet written the file
    refresh,   \* refresh_process_model_caches under way: [pc, refs]
    instances, \* the models that have process instances
    quiet,     \* ghost: nothing but the refresh has happened since it began
    failed,    \* ghost: models one of whose requests failed, was killed part way, or overlapped another
    requests

ctVars == <<disk, groups, cache, gen, callers, triggers, writing, refresh, instances, quiet, failed, requests>>

-----------------------------------------------------------------------------
(* Reading the disk *)

OnDisk == {m \in ModelIds : disk[m] # Missing /\ disk[m].primary # Missing}
FilesOf(m) == {f \in FileNames : disk[m].files[f] # Missing}
isfile(m, f) == disk[m] # Missing /\ disk[m].files[f] # Missing
NoFiles == [f \in FileNames |-> Missing]
Directory(m) == IF disk[m] = Missing THEN [primary |-> Missing, proc |-> <<>>, files |-> NoFiles] ELSE disk[m]
Torn(m) == writing # Missing /\ writing.model = m

get_references_for_file_contents(m, f, content) ==
    [i \in 1..Len(content) |->
        [id |-> content[i].id, calls |-> content[i].calls, starts |-> content[i].starts,
         exec |-> content[i].exec, model |-> m, file |-> f]]

get_references_for_process(m) ==
    FlattenSeq([i \in 1..Cardinality(FilesOf(m)) |->
        LET f == SetToSeq(FilesOf(m))[i] IN get_references_for_file_contents(m, f, disk[m].files[f])])

walk_files_from_root_path ==
    FlattenSeq([i \in 1..Cardinality(OnDisk) |-> get_references_for_process(SetToSeq(OnDisk)[i])])

-----------------------------------------------------------------------------
(* The caches.  db is the state of one transaction:                        *)
(* [ok, json, cache, callers, triggers]                                    *)

Row(ref, g) == [gen |-> g, proc |-> ref.id, model |-> ref.model, file |-> ref.file, exec |-> ref.exec]

basic_query(db) == {r \in db.cache : r.gen = gen}

Session(json) == [ok |-> TRUE, json |-> json, cache |-> cache, callers |-> callers, triggers |-> triggers]

clear_caches_for_item(db, items) ==
    LET gone == basic_query(db) \cap items
    IN  [db EXCEPT !.cache   = @ \ gone,
                   !.callers = {c \in @ : c[1] \notin gone /\ c[2] \notin gone}]

update_process_cache(db, ref) ==
    LET found  == {r \in basic_query(db) : r.proc = ref.id}
        lookup == CHOOSE r \in found : TRUE
        moved  == [lookup EXCEPT !.model = ref.model, !.file = ref.file]
        as(r)  == IF r = lookup THEN moved ELSE r
    IN  IF found = {} THEN [db EXCEPT !.cache = @ \cup {Row(ref, gen)}]
        ELSE IF <<lookup.model, lookup.file>> = <<ref.model, ref.file>> THEN db
        ELSE IF isfile(lookup.model, lookup.file) THEN [db EXCEPT !.ok = FALSE]
        ELSE [db EXCEPT !.cache   = {as(r) : r \in @},
                        !.callers = {<<as(c[1]), as(c[2])>> : c \in @}]

add_caller(db, ref) ==
    LET row(p) == CHOOSE r \in basic_query(db) : r.proc = p
        known  == {r.proc : r \in basic_query(db)}
    IN  IF ref.calls \cup {ref.id} \subseteq known
        THEN [db EXCEPT !.callers = @ \cup {<<row(p), row(ref.id)>> : p \in ref.calls}]
        ELSE [db EXCEPT !.ok = FALSE]

update_message_trigger_cache(db, ref) ==
    LET here == [model |-> ref.model, file |-> ref.file]
        old(m) == db.triggers[m]
        taken(m) == old(m) # Missing /\ old(m).model # ref.model /\ isfile(old(m).model, old(m).file)
    IN  IF \E m \in ref.starts : taken(m) THEN [db EXCEPT !.ok = FALSE]
        ELSE [db EXCEPT !.triggers = [m \in Messages |->
                  IF m \in ref.starts THEN here
                  ELSE IF old(m) = here THEN Missing ELSE old(m)]]

Then(db, Update(_, _), ref) == IF db.ok THEN Update(db, ref) ELSE db

update_caches_except_process(db, ref) ==
    Then(Then(db, add_caller, ref), update_message_trigger_cache, ref)

update_all_caches(db, ref) ==
    Then(Then(db, update_process_cache, ref), update_caches_except_process, ref)

(* Each reference by itself: a failure is reported and the next one tried. *)
update_process_model_caches_for_references(db, refs) ==
    LET one(d, ref) == LET e == update_caches_except_process(d, ref)
                       IN  IF e.ok THEN e ELSE d
    IN  FoldLeft(one, db, refs)

refresh_single_process_model_cache(db, m) ==
    update_process_model_caches_for_references(db, get_references_for_process(m))

-----------------------------------------------------------------------------
(* Saving a file: process_model.json is written on the way, the file last. *)

(* Faulty variant: only the first file of a model sets its primary process. *)
PrimaryOnce(json, f, ref, chosen) ==
    IF chosen /\ json.primary = "" THEN [json EXCEPT !.primary = f, !.proc = ref.id] ELSE json

UpdatePrimary(json, f, ref, chosen) ==
    IF chosen /\ json.primary \in {"", f}
    THEN [json EXCEPT !.primary = f, !.proc = ref.id] ELSE json

SaveReferences(m, f, content, json) ==
    LET refs        == get_references_for_file_contents(m, f, content)
        has_primary == \E i \in DOMAIN refs : refs[i].id = json.proc /\ refs[i].exec
        chosen(ref) == ref.id = json.proc \/ (~has_primary /\ ref.exec)
        save(db, ref) ==
            IF ~db.ok THEN db
            ELSE update_all_caches([db EXCEPT !.json = UpdatePrimary(@, f, ref, chosen(ref))], ref)
        cleared == clear_caches_for_item(Session(json), {r \in cache : r.model = m /\ r.file = f})
    IN  FoldLeft(save, cleared, refs)

Commit(db) == /\ cache' = db.cache
              /\ callers' = db.callers
              /\ triggers' = db.triggers

Rollback == UNCHANGED <<cache, callers, triggers>>

Request == /\ requests < MaxRequests
           /\ requests' = requests + 1
           /\ quiet' = FALSE

(* allowed: whether the user may start every process the file calls.       *)
update_file(m, f, content, json, allowed) ==
    LET db == SaveReferences(m, f, content, json)
    IN  /\ writing = Missing
        /\ disk' = [disk EXCEPT ![m] = db.json]
        /\ IF db.ok /\ allowed
           THEN /\ Commit(db) /\ UNCHANGED failed
                /\ writing' = [model |-> m, file |-> f, content |-> content, proc |-> db.json.proc]
           ELSE Rollback /\ failed' = failed \cup {m} /\ UNCHANGED writing

write_file_data_to_system ==
    /\ writing # Missing
    /\ disk' = [disk EXCEPT ![writing.model] = [Directory(writing.model) EXCEPT !.files[writing.file] = writing.content]]
    /\ failed' = IF Directory(writing.model).proc = writing.proc THEN failed ELSE failed \cup {writing.model}
    /\ writing' = Missing
    /\ quiet' = FALSE
    /\ UNCHANGED <<groups, cache, gen, callers, triggers, refresh, instances, requests>>

Killed ==
    /\ writing # Missing
    /\ failed' = failed \cup {writing.model}
    /\ writing' = Missing
    /\ UNCHANGED <<groups, disk, cache, gen, callers, triggers, refresh, instances, quiet, requests>>

-----------------------------------------------------------------------------
(* Requests *)

NewProcess == [id |-> <<requests>>, calls |-> {}, starts |-> {}, exec |-> TRUE]

process_model_create(m, f) ==
    /\ Request
    /\ Front(m) \in groups
    /\ m \notin OnDisk /\ m \notin groups
    /\ update_file(m, f, <<NewProcess>>, [Directory(m) EXCEPT !.primary = "", !.proc = <<>>], TRUE)
    /\ UNCHANGED <<groups, gen, refresh, instances>>

process_model_file_update(m, f, content, allowed) ==
    /\ Request
    /\ m \in OnDisk
    /\ update_file(m, f, content, disk[m], allowed)
    /\ UNCHANGED <<groups, gen, refresh, instances>>

(* Another primary file: the json is saved first, then that file as it is. *)
process_model_update(m, f) ==
    /\ Request
    /\ m \in OnDisk
    /\ f # disk[m].primary
    /\ IF f \in FilesOf(m)
       THEN update_file(m, f, disk[m].files[f], [disk[m] EXCEPT !.primary = f], TRUE)
       ELSE /\ disk' = [disk EXCEPT ![m].primary = f]
            /\ failed' = failed \cup {m}
            /\ Rollback /\ UNCHANGED writing
    /\ UNCHANGED <<groups, gen, refresh, instances>>

delete_file(m, f) ==
    /\ Request
    /\ m \in OnDisk /\ f # disk[m].primary /\ f \in FilesOf(m)
    /\ disk' = [disk EXCEPT ![m].files[f] = Missing]
    /\ LET cleared == clear_caches_for_item(Session({}), {r \in cache : r.model = m /\ r.file = f})
       IN  Commit(update_process_model_caches_for_references(cleared,
                    SelectSeq(get_references_for_process(m), LAMBDA r : r.file # f)))
    /\ UNCHANGED <<groups, gen, writing, refresh, instances, failed>>

process_model_delete(m) ==
    /\ Request
    /\ m \in OnDisk /\ m \notin instances
    /\ disk' = [disk EXCEPT ![m] = Missing]
    /\ Commit(clear_caches_for_item(Session({}), {r \in cache : r.model = m}))
    /\ failed' = failed \ {m}
    /\ UNCHANGED <<groups, gen, writing, refresh, instances>>

process_model_move(m, n) ==
    /\ Request
    /\ m \in OnDisk /\ disk[n] = Missing /\ Last(n) = Last(m)
    /\ disk' = [disk EXCEPT ![m] = Missing, ![n] = disk[m]]
    /\ failed' = IF m \in failed \/ Torn(m) THEN (failed \ {m}) \cup {n} ELSE failed
    /\ Rollback
    /\ UNCHANGED <<groups, gen, writing, refresh, instances>>

(* Copying renames every process and the calls between the copied files;   *)
(* refresh_single_process_model_cache adds no reference_cache row.         *)
copy_process_model(m, n) ==
    LET refs  == ToSet(get_references_for_process(m))
        owned == {r.id : r \in refs}
        renamed(p) == IF p \in owned THEN Append(p, requests) ELSE p
        copied(c)  == [i \in 1..Len(c) |-> [c[i] EXCEPT !.id = renamed(@), !.calls = {renamed(p) : p \in @}]]
        copy == [disk[m] EXCEPT
                    !.proc  = IF \E r \in refs : r.file = disk[m].primary /\ r.id = disk[m].proc
                              THEN renamed(@) ELSE @,
                    !.files = [f \in FileNames |-> IF f \in FilesOf(m) THEN copied(@[f]) ELSE Missing]]
    IN  /\ Request
        /\ m \in OnDisk /\ disk[n] = Missing /\ Front(n) \in groups
        /\ disk' = [disk EXCEPT ![n] = copy]
        /\ failed' = IF m \in failed \/ Torn(m) THEN failed \cup {n} ELSE failed
        /\ Rollback
        /\ UNCHANGED <<groups, gen, writing, refresh, instances>>

GroupIds == UNION {{SubSeq(m, 1, i) : i \in 1..(Len(m) - 1)} : m \in ModelIds}

(* The walk looks for each directory below the group as a child of it.     *)
get_all_nested_models(path) ==
    {m \in OnDisk : \E d \in OnDisk : IsStrictPrefix(path, d) /\ m = Append(path, Last(d))}

Inside(path) == {m \in ModelIds : disk[m] # Missing /\ IsStrictPrefix(path, m)}

process_group_create(path) ==
    /\ Request
    /\ path \notin groups /\ path \notin OnDisk
    /\ groups' = groups \cup {path}
    /\ UNCHANGED <<disk, cache, gen, callers, triggers, writing, refresh, instances, failed>>

process_group_delete(path) ==
    /\ Request
    /\ path \in groups
    /\ get_all_nested_models(path) \cap instances = {}
    /\ disk' = [m \in ModelIds |-> IF m \in Inside(path) THEN Missing ELSE disk[m]]
    /\ groups' = {g \in groups : ~IsPrefix(path, g)}
    /\ Commit(clear_caches_for_item(Session({}), {r \in cache : IsStrictPrefix(path, r.model)}))
    /\ failed' = failed \ Inside(path)
    /\ UNCHANGED <<gen, writing, refresh, instances>>

process_group_move(path, new_location) ==
    LET moved(m) == new_location \o SubSeq(m, Len(path), Len(m))
        to == {moved(m) : m \in Inside(path)}
    IN  /\ Request
        /\ path \in groups /\ new_location \in groups /\ to \subseteq ModelIds /\ \A n \in to : disk[n] = Missing
        /\ ~IsPrefix(path, new_location) /\ moved(path) \in GroupIds \ groups
        /\ groups' = {g \in groups : ~IsPrefix(path, g)} \cup {moved(g) : g \in {h \in groups : IsPrefix(path, h)}}
        /\ disk' = [n \in ModelIds |->
                      IF n \in to THEN disk[CHOOSE m \in Inside(path) : moved(m) = n]
                      ELSE IF n \in Inside(path) THEN Missing ELSE disk[n]]
        /\ failed' = (failed \ Inside(path)) \cup {moved(m) : m \in {k \in Inside(path) : k \in failed \/ Torn(k)}}
        /\ Rollback
        /\ UNCHANGED <<gen, writing, refresh, instances>>

process_instance_create(m) ==
    /\ Request
    /\ m \in OnDisk /\ m \notin instances
    /\ instances' = instances \cup {m}
    /\ UNCHANGED <<groups, disk, cache, gen, callers, triggers, writing, refresh, failed>>

-----------------------------------------------------------------------------
(* The refresh of all models: read everything, add a generation, then the  *)
(* callers and triggers one reference at a time.                           *)

Idle == [pc |-> "idle", refs |-> <<>>]

StartRefresh ==
    /\ requests < MaxRequests /\ requests' = requests + 1
    /\ refresh.pc = "idle"
    /\ refresh' = [pc |-> "add", refs |-> walk_files_from_root_path]
    /\ quiet' = (writing = Missing)
    /\ UNCHANGED <<groups, disk, cache, gen, callers, triggers, writing, instances, failed>>

(* One object per process and model: the last file's.                      *)
add_unique_reference_cache_object(objects, ref) ==
    {r \in objects : <<r.proc, r.model>> # <<ref.id, ref.model>>} \cup {Row(ref, gen + 1)}

(* Faulty variant: the rows go into the generation there is. *)
AddToGeneration ==
    /\ refresh.pc = "add"
    /\ cache' = cache \cup {Row(refresh.refs[i], gen) : i \in DOMAIN refresh.refs}
    /\ refresh' = [refresh EXCEPT !.pc = "callers"]
    /\ UNCHANGED <<groups, disk, gen, callers, triggers, writing, instances, quiet, failed, requests>>

add_new_generation ==
    /\ refresh.pc = "add"
    /\ cache' = cache \cup FoldLeft(add_unique_reference_cache_object, {}, refresh.refs)
    /\ gen' = gen + 1
    /\ refresh' = [refresh EXCEPT !.pc = "callers"]
    /\ UNCHANGED <<groups, disk, callers, triggers, writing, instances, quiet, failed, requests>>

UpdateCachesForReference ==
    /\ refresh.pc = "callers" /\ refresh.refs # <<>>
    /\ Commit(update_process_model_caches_for_references(Session({}), <<Head(refresh.refs)>>))
    /\ refresh' = [refresh EXCEPT !.refs = Tail(@)]
    /\ UNCHANGED <<groups, disk, gen, writing, instances, quiet, failed, requests>>

EndRefresh ==
    /\ refresh.pc = "callers" /\ refresh.refs = <<>>
    /\ refresh' = Idle
    /\ UNCHANGED <<groups, disk, cache, gen, callers, triggers, writing, instances, quiet, failed, requests>>

-----------------------------------------------------------------------------
Init ==
    /\ disk = [m \in ModelIds |-> Missing]
    /\ groups = {g \in GroupIds : Len(g) = 1}
    /\ cache = {} /\ gen = 1 /\ callers = {}
    /\ triggers = [m \in Messages |-> Missing]
    /\ writing = Missing /\ refresh = Idle
    /\ instances = {} /\ failed = {}
    /\ quiet = FALSE /\ requests = 0

Next ==
    \/ \E m \in ModelIds, f \in FileNames :
          \/ process_model_create(m, f)
          \/ process_model_update(m, f)
          \/ delete_file(m, f)
          \/ \E c \in Contents, allowed \in BOOLEAN : process_model_file_update(m, f, c, allowed)
    \/ \E m \in ModelIds : process_model_delete(m) \/ process_instance_create(m)
    \/ \E m, n \in ModelIds : process_model_move(m, n) \/ copy_process_model(m, n)
    \/ \E g \in GroupIds : process_group_create(g) \/ process_group_delete(g)
    \/ \E g, h \in GroupIds : process_group_move(g, h)
    \/ write_file_data_to_system \/ Killed
    \/ StartRefresh \/ add_new_generation \/ UpdateCachesForReference \/ EndRefresh

-----------------------------------------------------------------------------
(* What the lists of process models show *)

Newest == {r \in cache : r.gen = gen}

find_reference_cache_process_for_process_model(m) ==
    {r \in Newest : <<r.proc, r.file, r.model>> = <<disk[m].proc, disk[m].primary, m>>}

embellish_with_is_executable_property(m) ==
    \A r \in find_reference_cache_process_for_process_model(m) : r.exec

filter_by_runnable ==
    {m \in OnDisk : disk[m].primary # "" /\ embellish_with_is_executable_property(m)}

-----------------------------------------------------------------------------
TypeOK ==
    /\ gen \in 1..(MaxRequests + 1) /\ requests \in 0..MaxRequests
    /\ \A r \in cache : r.gen <= gen /\ r.model \in ModelIds /\ r.file \in FileNames
    /\ callers \subseteq cache \X cache
    /\ instances \subseteq ModelIds /\ failed \subseteq ModelIds
    /\ refresh.pc \in {"idle", "add", "callers"}

(* A refresh that nothing interrupts repairs the caches, whatever was      *)
(* moved, deleted, refused or half written before it: the newest           *)
(* generation has a row for exactly the processes on disk, every call      *)
(* between them is in the caller relation, and the models listed as        *)
(* runnable are those whose primary process is executable.                 *)
RefreshRepairs ==
    quiet /\ refresh.pc = "idle" =>
        LET refs == ToSet(walk_files_from_root_path)
            proc(p) == {r \in Newest : r.proc = p}
        IN  /\ {<<r.proc, r.model>> : r \in Newest} = {<<r.id, r.model>> : r \in refs}
            /\ \A r \in Newest : \E ref \in refs : Row(ref, gen) = r
            /\ \A ref \in refs : ref.calls \subseteq {r.id : r \in refs} =>
                  \A p \in ref.calls : \E c \in callers : c[1] \in proc(p) /\ c[2] \in proc(ref.id)
            /\ \A m \in filter_by_runnable \ failed :
                  \A ref \in refs : <<ref.id, ref.file, ref.model>> = <<disk[m].proc, disk[m].primary, m>>
                                       => ref.exec

(* The primary process a model names is in its primary file, if that file  *)
(* has an executable process at all, through every save, copy and move,    *)
(* unless one of the model's requests failed or was killed part way.       *)
PrimaryDefined ==
    \A m \in OnDisk \ failed :
        (writing = Missing \/ writing.model # m) /\ isfile(m, disk[m].primary) =>
            LET content == disk[m].files[disk[m].primary]
            IN  (\E i \in DOMAIN content : content[i].exec) =>
                    \E i \in DOMAIN content : content[i].id = disk[m].proc
=============================================================================
