----------------------------- MODULE Migration ------------------------------
(***************************************************************************)
(* One process instance and the two things called migration: moving it to  *)
(* another version of its process model                                    *)
(* (process_instance_service.migrate_process_instance), and bringing its   *)
(* stored form up to date with the serializer (data_migrations).           *)
(*                                                                         *)
(* The process is a sequence of tasks.  A version of the model gives every *)
(* task its contents (0: the version has no such task), and a task its     *)
(* potential owners.  Versions stand for their hashes; the git revision of *)
(* a version is its number.  A migration takes no lock: it reads the       *)
(* instance in one step and writes in another.                             *)
(***************************************************************************)
EXTENDS Naturals, Sequences, FiniteSets, SequencesExt, FiniteSetsExt

CONSTANTS ContentsOf,   \* the versions: the contents of each task
          Owners,       \* potential owners (user ids) of a task's contents
          MaxEvents     \* bound: migrations of the instance

ASSUME MigrationConstants ==
    /\ ContentsOf \in Seq(Seq(Nat)) /\ ContentsOf # <<>> /\ ContentsOf[1] # <<>>
    /\ \A v \in 1 .. Len(ContentsOf) : Len(ContentsOf[v]) = Len(ContentsOf[1])
    /\ ContentsOf[1][1] # 0
    /\ \A v \in 1 .. Len(ContentsOf), t \in 1 .. Len(ContentsOf[1]) : ContentsOf[v][t] # 0 =>
          /\ Owners[ContentsOf[v][t]] \subseteq Nat \ {0}
          /\ IsFiniteSet(Owners[ContentsOf[v][t]])
    /\ MaxEvents \in Nat

Versions   == 1 .. Len(ContentsOf)
ModelTasks == 1 .. Len(ContentsOf[1])
Current    == 5       \* SPIFFWORKFLOW_BACKEND_SERIALIZER_VERSION

VARIABLES disk,       \* version of the model in the working tree
          defn,       \* bpmn_process_definition of the instance
          gitRevision, \* its bpmn_version_control_identifier
          state,      \* of each task
          miStatus,   \* process_instance.status
          assigned,   \* human_task_user rows of the ready task: <<id, user>>
          details,    \* process_instance_migration_detail rows, in order
          migrating,  \* a migration between its reads and its writes
          version,    \* spiff_serializer_version; 0: the instance is not there yet
          first,      \* ghost: the version it came with
          applied,    \* ghost: the data migrations it went through
          ran,        \* ghost: the contents each task completed with
          raced       \* ghost: somebody changed the instance during a migration

miVars == <<disk, defn, gitRevision, state, miStatus, assigned, details, migrating,
            version, first, applied, ran, raced>>
serial == <<version, first, applied>>

Git(v)  == [kind |-> "git", of |-> v]
Hash(v) == [kind |-> "hash", of |-> v]
NotMigrating == [on |-> FALSE, target |-> 0, given |-> FALSE, state |-> <<>>]

MigrationTypeOK ==
    /\ disk \in Versions /\ defn \in Versions
    /\ gitRevision \in [kind : {"git", "hash"}, of : Versions]
    /\ state \in [ModelTasks -> {"FUTURE", "READY", "COMPLETED"}]
    /\ miStatus \in {"waiting", "suspended", "complete"}
    /\ assigned \subseteq (Nat \ {0}) \X (Nat \ {0})
    /\ Len(details) <= MaxEvents
    /\ migrating.on \in BOOLEAN /\ version \in 0 .. Current

(* Rows for the owners of the contents that have none, numbered on from    *)
(* those there.                                                            *)
AddOwners(rows, users) ==
    LET new  == users \ {r[2] : r \in rows}
        last == Max({r[1] : r \in rows} \cup {0})
        At(u) == last + Cardinality({x \in new : x <= u})
    IN  rows \cup {<<At(u), u>> : u \in new}

MigrationInit ==
    /\ disk = 1 /\ defn = 1 /\ gitRevision = Git(1)
    /\ state = [t \in ModelTasks |-> IF t = 1 THEN "READY" ELSE "FUTURE"]
    /\ miStatus = "waiting" /\ details = <<>> /\ migrating = NotMigrating
    /\ assigned = AddOwners({}, Owners[ContentsOf[1][1]])
    /\ version = 0 /\ first = 0 /\ applied = {}
    /\ ran = [t \in ModelTasks |-> 0] /\ raced = FALSE

Ready == {t \in ModelTasks : state[t] = "READY"}

-----------------------------------------------------------------------------
(* The instance was stored by an older backend, or is new. *)
Load(v) ==
    /\ version = 0 /\ version' = v /\ first' = v
    /\ UNCHANGED <<disk, defn, gitRevision, state, miStatus, assigned, details, migrating, applied,
                   ran, raced>>

-----------------------------------------------------------------------------
(* ProcessInstanceMigrator *)

(* run_version: what is at the version or beyond is left alone *)
run_version(v, done) ==
    IF done.version < v THEN [version |-> v, applied |-> done.applied \cup {v}] ELSE done

(* A bug: the last migration is forgotten, as in the branches before. *)
MigratorWithoutFive(done) ==
    CASE done.version < 2 -> run_version(4, run_version(2, run_version(3, done)))
      [] done.version = 2 -> run_version(4, run_version(3, done))
      [] done.version = 3 -> run_version(4, done)
      [] OTHER            -> run_version(5, done)

ProcessInstanceMigrator_run(done) ==
    CASE done.version < 2 -> run_version(4, run_version(2, run_version(3, done)))
      [] done.version = 2 -> run_version(4, run_version(3, done))
      [] done.version = 3 -> run_version(5, run_version(4, done))
      [] OTHER            -> run_version(5, done)

(* An operation that runs the instance: the migrator, the task, and the    *)
(* save, which marks the instance with the current version.                *)
CompleteTask(t) ==
    /\ version # 0 /\ miStatus = "waiting" /\ state[t] = "READY"
    /\ applied' = ProcessInstanceMigrator_run([version |-> version, applied |-> applied]).applied
    /\ version' = Current /\ UNCHANGED first
    /\ ran' = [ran EXCEPT ![t] = ContentsOf[defn][t]]
    /\ LET rest == {u \in ModelTasks : u > t /\ state[u] = "FUTURE" /\ ContentsOf[defn][u] # 0}
           next == IF rest = {} THEN 0 ELSE Min(rest)
       IN  /\ state' = [u \in ModelTasks |-> IF u = t THEN "COMPLETED"
                                             ELSE IF u = next THEN "READY" ELSE state[u]]
           /\ miStatus' = IF next = 0 THEN "complete" ELSE "waiting"
           /\ assigned' = IF next = 0 THEN {} ELSE AddOwners({}, Owners[ContentsOf[defn][next]])
    /\ raced' = (raced \/ migrating.on)
    /\ UNCHANGED <<disk, defn, gitRevision, details, migrating>>

process_instance_suspend ==
    /\ version # 0 /\ miStatus = "waiting" /\ miStatus' = "suspended"
    /\ UNCHANGED <<disk, defn, gitRevision, state, assigned, details, migrating, serial, ran, raced>>

process_instance_resume ==
    /\ miStatus = "suspended" /\ miStatus' = "waiting"
    /\ UNCHANGED <<disk, defn, gitRevision, state, assigned, details, migrating, serial, ran, raced>>

(* The process model is edited and committed. *)
EditModel(v) ==
    /\ disk # v /\ disk' = v
    /\ UNCHANGED <<defn, gitRevision, state, miStatus, assigned, details, migrating, serial, ran, raced>>

-----------------------------------------------------------------------------
(* process_instance_migrate *)

(* Tasks of the instance that the target has changed or does not have *)
Removed(target) == {t \in ModelTasks : ContentsOf[defn][t] # 0 /\ ContentsOf[target][t] = 0}
Changed(target) == {t \in ModelTasks : ContentsOf[defn][t] # ContentsOf[target][t]} \ Removed(target)

(* A bug: only the tasks that are gone count. *)
CanMigrateRemoved(target) ==
    \A t \in Removed(target) : state[t] # "COMPLETED"

can_migrate(target) ==
    \A t \in Changed(target) \cup Removed(target) : state[t] # "COMPLETED"

(* The checks and the runtime, for the working tree or for a hash that is  *)
(* given; the same version raises ProcessInstanceMigrationUnnecessary.     *)
check_process_instance_can_be_migrated(target, given) ==
    /\ ~migrating.on /\ miStatus = "suspended" /\ Len(details) < MaxEvents
    /\ target # defn /\ (~given => target = disk)
    /\ can_migrate(target)
    /\ migrating' = [on |-> TRUE, target |-> target, given |-> given, state |-> state]
    /\ UNCHANGED <<disk, defn, gitRevision, state, miStatus, assigned, details, serial, ran, raced>>

(* A bug: the oldest migration that names the hash, not the latest. *)
RevisionOfFirst(target, given) ==
    LET named == {i \in 1 .. Len(details) : target \in {details[i].from, details[i].to}}
        old   == details[Min(named)]
    IN  IF ~given \/ named = {} THEN Git(disk)
        ELSE IF old.from = target THEN old.revision ELSE Hash(target)

(* The revision of the latest migration that names the hash: the one it    *)
(* started from, or else, as the code has it, the hash.                    *)
get_appropriate_git_revision(target, given) ==
    LET named == {i \in 1 .. Len(details) : target \in {details[i].from, details[i].to}}
        old   == details[Max(named)]
    IN  IF ~given \/ named = {} THEN Git(disk)
        ELSE IF old.from = target THEN old.revision ELSE Hash(target)

(* migrate_workflow: completed tasks stay; what was ready is done again    *)
(* from the first task of the target that is not completed.                *)
migrate_workflow(target, loaded) ==
    LET open == {t \in ModelTasks : loaded[t] # "COMPLETED" /\ ContentsOf[target][t] # 0}
    IN  [t \in ModelTasks |-> IF loaded[t] = "COMPLETED" THEN "COMPLETED"
                              ELSE IF open # {} /\ t = Min(open) THEN "READY" ELSE "FUTURE"]

(* The rows of the ready task: owners the target names get one, and a row  *)
(* is deleted when its id (not its user) is among the users to remove.     *)
update_assignments(rows, users) ==
    LET gone == {r[2] : r \in rows} \ users
    IN  {r \in AddOwners(rows, users) : ~(r \in rows /\ r[1] \in gone)}

migrate_process_instance ==
    LET target == migrating.target
        new    == migrate_workflow(target, migrating.state)
        ready  == {t \in ModelTasks : new[t] = "READY"}
        users  == UNION {Owners[ContentsOf[target][t]] : t \in ready}
    IN  /\ migrating.on /\ migrating' = NotMigrating
        /\ defn' = target /\ state' = new
        /\ gitRevision' = get_appropriate_git_revision(target, migrating.given)
        /\ details' = Append(details, [from |-> defn, to |-> target, revision |-> gitRevision])
        /\ assigned' = update_assignments(assigned, users)
        /\ UNCHANGED <<disk, miStatus, serial, ran, raced>>

MigrationNext ==
    \/ \E v \in 1 .. Current : Load(v)
    \/ \E t \in ModelTasks : CompleteTask(t)
    \/ process_instance_suspend
    \/ process_instance_resume
    \/ \E v \in Versions : EditModel(v)
    \/ \E v \in Versions, given \in BOOLEAN : check_process_instance_can_be_migrated(v, given)
    \/ migrate_process_instance

MigrationSpec == MigrationInit /\ [][MigrationNext]_miVars

-----------------------------------------------------------------------------
(* Whatever migrations an instance goes through, back and forth, a task it *)
(* has completed is completed still and has the contents it ran with       *)
(* (can_migrate), unless the instance ran while a migration was under way: *)
(* the migration holds no lock.                                            *)
PastUnchanged ==
    ~raced => \A t \in ModelTasks : ran[t] # 0 =>
                  state[t] = "COMPLETED" /\ ContentsOf[defn][t] = ran[t]

(* The instance never records a hash as its git revision: the latest       *)
(* migration that names a version the instance is not at started from it   *)
(* (get_appropriate_git_revision).                                         *)
RevisionIsARevision == gitRevision.kind = "git"

(* An instance that came with serializer version 3 or more and is marked   *)
(* with the current one went through every data migration between          *)
(* (ProcessInstanceMigrator.run, _save_process_instance_state).            *)
DataMigrated == version = Current /\ first >= 3 => (first + 1) .. Current \subseteq applied

(* All three, and the types. *)
MigrationSound == MigrationTypeOK /\ PastUnchanged /\ RevisionIsARevision /\ DataMigrated
=============================================================================
