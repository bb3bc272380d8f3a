------------------------------ MODULE Imports -------------------------------
(***************************************************************************)
(* Process models brought in from elsewhere                                *)
(* (process_model_import_service): packages of files, of one or several    *)
(* models, that may be sent again after a failure or file by file; and     *)
(* repositories (GitHub, marketplace), each import of which is to be a     *)
(* model of its own.                                                       *)
(*                                                                         *)
(* A path is a directory, as a sequence of names, and a file name.  A file *)
(* is the id of the process it defines ("" for other files); a             *)
(* process_model.json states the primary file and process of its model, as *)
(* the backend writes it.  Time is in seconds, as the suffixes have it.    *)
(***************************************************************************)
EXTENDS Naturals, Sequences, FiniteSets, SequencesExt, FiniteSetsExt

CONSTANTS Packages,    \* the packages: an explicit model id (or <<>>), and files
          Repositories,\* the repositories: a model id, and files
          Group,       \* the process group they are imported into
          MaxImports,  \* bound: imports
          MaxTime      \* bound: seconds

Json == "process_model.json"
Idle == [at |-> "idle", source |-> "", id |-> <<>>, dirs |-> <<>>, todo |-> <<>>, all |-> <<>>,
         model |-> <<>>, info |-> [file |-> <<>>, proc |-> <<>>], existed |-> FALSE, suffix |-> 0]

VARIABLES models,      \* files, primary_file_name and primary_process_id by id
          groups,      \* ids with a process_group.json
          import,      \* the import under way, or the last that returned
          now, imports,\* the time, and the number of imports
          born,        \* ghost: when a repository import made the model
          taken        \* ghost: a repository import found its id taken, at an earlier time

impVars == <<models, groups, import, now, imports, born, taken>>

TypeOK ==
    /\ \A m \in DOMAIN models : IsPrefix(Group, m) /\ DOMAIN models[m] = {"files", "file", "proc"}
    /\ import.at \in {"idle", "models", "files", "done"} /\ import.source \in {"", "package", "repository"}
    /\ now \in 0 .. MaxTime /\ imports \in 0 .. MaxImports
    /\ DOMAIN born \subseteq DOMAIN models

Init ==
    /\ models = <<>> /\ groups = {Group} /\ import = Idle /\ now = 0 /\ imports = 0
    /\ born = <<>> /\ taken = FALSE

Tick == now < MaxTime /\ now' = now + 1 /\ UNCHANGED <<models, groups, import, imports, born, taken>>

With(f, x, y) == [z \in DOMAIN f \cup {x} |-> IF z = x THEN y ELSE f[z]]
Empty == [files |-> <<>>, file |-> <<>>, proc |-> <<>>]

-----------------------------------------------------------------------------
(* What is in a package *)

(* _filestore_files_relative_to_explicit_model *)
RelativeFiles(p) ==
    IF p.id # <<>> /\ \A i \in DOMAIN p.files : IsPrefix(p.id, p.files[i].dir)
    THEN [i \in DOMAIN p.files |-> [p.files[i] EXCEPT !.dir = SubSeq(@, Len(p.id) + 1, Len(@))]]
    ELSE p.files

(* Directories with a process_model.json, or else those with a process *)
filestore_model_dirs(files) ==
    LET In(test(_)) == {f.dir : f \in {g \in Range(files) : test(g)}}
        explicit    == In(LAMBDA f : f.name = Json)
    IN  IF explicit # {} THEN explicit ELSE In(LAMBDA f : f.proc # "" /\ f.name # Json)

(* A bug: the first directory that fits, not the nearest. *)
OwnerFirst(f, dirs) ==
    LET owners == {d \in dirs : IsPrefix(d, f.dir)}
    IN  IF owners = {} THEN <<>> ELSE CHOOSE d \in owners : \A e \in owners : Len(d) <= Len(e)

(* The nearest model directory above the file; the root when there is none *)
filestore_owner_model_dir(f, dirs) ==
    LET owners == {d \in dirs : d # <<>> /\ IsPrefix(d, f.dir)} \cup
                  (IF <<>> \in dirs /\ f.dir = <<>> THEN {<<>>} ELSE {})
    IN  IF owners = {} THEN <<>> ELSE CHOOSE d \in owners : \A e \in owners : Len(d) >= Len(e)

(* Files of a model, named relative to its directory *)
filestore_files_for_model_dir(files, dir, dirs) ==
    LET mine == SelectSeq(files, LAMBDA f : filestore_owner_model_dir(f, dirs) = dir)
    IN  [i \in DOMAIN mine |-> [mine[i] EXCEPT !.dir = SubSeq(@, Len(dir) + 1, Len(@))]]

(* A bug: the group the package is imported into is left out. *)
ModelIdOutside(id, dir) == id \o dir

filestore_model_id(id, dir) == Group \o id \o dir

(* _extract_process_model_info: what the json states, or else the first    *)
(* process of the files                                                    *)
extract_process_model_info(files) ==
    LET json == SelectSeq(files, LAMBDA f : f.name = Json)
        bpmn == SelectSeq(files, LAMBDA f : f.proc # "")
    IN  CASE json # <<>> -> [file |-> <<json[1].primary>>, proc |-> <<json[1].proc>>]
          [] json = <<>> /\ bpmn # <<>> -> [file |-> <<bpmn[1].name>>, proc |-> <<bpmn[1].proc>>]
          [] OTHER -> [file |-> <<>>, proc |-> <<>>]

-----------------------------------------------------------------------------
(* Packages *)

(* import_from_filestore_package, import_filestore_file_update (one file): *)
(* the package is taken apart; one without a model is refused.             *)
import_from_filestore_package(p, files) ==
    LET all  == RelativeFiles([p EXCEPT !.files = files])
        dirs == filestore_model_dirs(all)
    IN  /\ import.at \in {"idle", "done"} /\ imports < MaxImports /\ dirs # {}
        /\ import' = [Idle EXCEPT !.at = "models", !.source = "package", !.id = p.id, !.all = all,
                                  !.dirs = SetToSortSeq(dirs, LAMBDA a, b : Len(a) < Len(b))]
        /\ imports' = imports + 1 /\ UNCHANGED <<models, groups, now, born, taken>>

(* The next model: its groups are made, it is found or added, and what the *)
(* package's json says of it is saved before its files.                    *)
NextModel ==
    LET dir   == Head(import.dirs)
        id    == filestore_model_id(import.id, dir)
        files == filestore_files_for_model_dir(import.all, dir, filestore_model_dirs(import.all))
        json  == \E i \in DOMAIN files : files[i].name = Json
        info  == extract_process_model_info(files)
        found == id \in DOMAIN models
    IN  /\ import.at = "models" /\ import.dirs # <<>>
        /\ groups' = groups \cup {SubSeq(id, 1, n) : n \in Len(Group) .. (Len(id) - 1)}
        /\ models' = IF ~found THEN With(models, id, Empty)
                     ELSE IF json THEN [models EXCEPT ![id].file = info.file, ![id].proc = info.proc]
                     ELSE models
        /\ import' = [import EXCEPT !.at = "files", !.dirs = Tail(@), !.model = id, !.existed = found,
                                    !.info = info, !.todo = SelectSeq(files, LAMBDA f : f.name # Json)]
        /\ UNCHANGED <<now, imports, born, taken>>

(* A bug: the primary file is left to the one who sets up the model. *)
WriteOnly(id, name, proc) == [models EXCEPT ![id].files = With(@, name, proc)]

(* SpecFileService.update_file, of Catalog: the first file with a process  *)
(* becomes the primary one, and the primary one names the process.         *)
update_file(id, name, proc) ==
    LET m     == models[id]
        first == proc # <<>> /\ m.file = <<>>
    IN  [models EXCEPT ![id].files = With(@, name, proc),
                       ![id].file  = IF first THEN name ELSE @,
                       ![id].proc  = IF first \/ (proc # <<>> /\ m.file = name) THEN proc ELSE @]

(* A process id that another file has is refused. *)
Used(id, name, proc) ==
    proc # <<>> /\ \E m \in DOMAIN models : \E n \in DOMAIN models[m].files :
                      <<m, n>> # <<id, name>> /\ models[m].files[n] = proc

(* The id a process is saved under: repositories get the time appended. *)
make_bpmn_process_ids_unique(proc) ==
    IF proc = "" THEN <<>> ELSE IF import.source = "repository" THEN <<proc, import.suffix>> ELSE <<proc>>

WriteFile ==
    LET f    == Head(import.todo)
        name == Append(f.dir, f.name)
        proc == make_bpmn_process_ids_unique(f.proc)
    IN  /\ import.at = "files" /\ import.todo # <<>> /\ ~Used(import.model, name, proc)
        /\ models' = update_file(import.model, name, proc)
        /\ import' = [import EXCEPT !.todo = Tail(@)]
        /\ UNCHANGED <<groups, now, imports, born, taken>>

(* A file is refused, or cannot be written: what was done stays. *)
ImportFails ==
    /\ import.at \in {"models", "files"} /\ import' = Idle
    /\ UNCHANGED <<models, groups, now, imports, born, taken>>

(* A package's model that is new takes the primary file and process that   *)
(* were found at the start; a repository's with the suffix.                *)
FinishModel ==
    LET repository == import.source = "repository"
        info       == import.info
        proc       == IF repository /\ info.proc # <<>> THEN Append(info.proc, import.suffix) ELSE info.proc
    IN  /\ import.at = "files" /\ import.todo = <<>>
        /\ models' = IF (repository \/ ~import.existed) /\ info.file # <<>>
                     THEN [models EXCEPT ![import.model].file = info.file, ![import.model].proc = proc]
                     ELSE models
        /\ import' = [import EXCEPT !.at = IF import.dirs = <<>> THEN "done" ELSE "models"]
        /\ UNCHANGED <<groups, now, imports, born, taken>>

-----------------------------------------------------------------------------
(* import_from_github_url, import_from_model_alias *)

(* A bug: a model of that name is there already, and is written over. *)
IdUnchecked(r) == Append(Group, r.id)

(* The id of the new model, with the time when the first choice is taken *)
full_process_model_id(r) ==
    IF Append(Group, r.id) \in DOMAIN models THEN Group \o <<r.id, now>> ELSE Append(Group, r.id)

(* The repository's process_model.json is also written as a file, and over *)
(* the model's own until the last step saves it again: left out.           *)
import_from_repository(r) ==
    LET id == full_process_model_id(r)
    IN  /\ import.at \in {"idle", "done"} /\ imports < MaxImports
        /\ taken' = (taken \/ (id \in DOMAIN born /\ born[id] # now))
        /\ models' = With(models, id, [Empty EXCEPT !.files = IF id \in DOMAIN models THEN models[id].files ELSE @])
        /\ born' = With(born, id, now)
        /\ import' = [Idle EXCEPT !.at = "files", !.source = "repository", !.model = id, !.suffix = now,
                                  !.todo = SelectSeq(r.files, LAMBDA f : f.name # Json),
                                  !.info = extract_process_model_info(r.files)]
        /\ imports' = imports + 1 /\ UNCHANGED <<groups, now>>

Next ==
    \/ Tick
    \/ \E p \in Packages : import_from_filestore_package(p, p.files)
    \/ \E p \in Packages : \E i \in DOMAIN p.files : import_from_filestore_package(p, <<p.files[i]>>)
    \/ NextModel \/ WriteFile \/ FinishModel \/ ImportFails
    \/ \E r \in Repositories : import_from_repository(r)

Spec == Init /\ [][Next]_impVars

-----------------------------------------------------------------------------
(* When the import of a package returns, each of its files is in the model *)
(* of the nearest model directory above it, whatever failed imports of the *)
(* package, whole or in part, went before                                  *)
(* (_filestore_owner_model_dir, import_from_filestore_package).            *)
PackageInstalled ==
    import.at = "done" /\ import.source = "package" =>
       LET dirs == filestore_model_dirs(import.all)
       IN  \A f \in Range(import.all) :
              LET above == {d \in dirs : IsPrefix(d, f.dir)}
                  dir   == CHOOSE d \in above : \A e \in above : Len(d) >= Len(e)
                  id    == filestore_model_id(import.id, dir)
                  name  == Append(SubSeq(f.dir, Len(dir) + 1, Len(f.dir)), f.name)
              IN  above # {} /\ f.name # Json =>
                     /\ id \in DOMAIN models /\ name \in DOMAIN models[id].files
                     /\ f.proc # "" => models[id].files[name] = <<f.proc>>

(* And every model it brought, or a repository's, can be started: the      *)
(* primary process is defined by the primary file                          *)
(* (update_file, FinishModel), as soon as that file is there.              *)
PrimaryIsThere ==
    import.at = "done" =>
       LET m == models[import.model]
       IN  /\ m.file \in DOMAIN m.files => m.files[m.file] = m.proc
           /\ (\E n \in DOMAIN m.files : m.files[n] # <<>>) => m.file # <<>>

(* An import of a repository never writes into a model that an earlier one *)
(* made, but for one made in the same second (the suffix is the time).     *)
AgainIsAnother == ~taken

(* All three. *)
ImportsSound == PackageInstalled /\ PrimaryIsThere /\ AgainIsAnother
=============================================================================
