----------------------------- MODULE Definitions -----------------------------
(***************************************************************************)
(* Persistence of BPMN definitions (bpmn_process_service.py).  Creating an *)
(* instance, importing one and asking for a model's human tasks all look   *)
(* up the rows of a parsed process model and then save what was missing:   *)
(* a row per process, a row per task of it, and a relationship from the    *)
(* model's own process to every process it calls.  Several workers do so   *)
(* for the same models at once.                                            *)
(*                                                                         *)
(* A process is its single_process_hash, a member of Processes with a name *)
(* and tasks; a model's full_process_model_hash is the record of its own   *)
(* process and the ones it calls.                                          *)
(***************************************************************************)
EXTENDS Naturals, Sequences, FiniteSets, SequencesExt

CONSTANTS Savers,      \* web and celery workers
          Parsed,      \* process models, [top |-> process, calls |-> set of processes]
          NameOf,      \* process -> its bpmn_identifier
          TaskSpecs,   \* process -> its task specs
          NoHash,      \* the full_process_model_hash of a row that is no model's own
          MaxRows      \* bound on definition rows

(* A model calls finitely many processes, its own not among them: the      *)
(* mappings have one entry per bpmn_identifier, and what becomes of a      *)
(* model's own entry when its process calls itself is not modelled.        *)
ASSUME ModelsAreParsed ==
    /\ NoHash \notin Parsed /\ MaxRows \in Nat
    /\ \A m \in Parsed : /\ m = [top |-> m.top, calls |-> m.calls]
                        /\ IsFiniteSet(m.calls) /\ m.top \notin m.calls

SAVE_TO_DATABASE_MAX_ATTEMPTS == 3

VARIABLES bpd,     \* table bpmn_process_definition: id -> [full, single]
          tdef,    \* table task_definition: pairs <<bpd id, task spec>>
          rel,     \* table bpmn_process_definition_relationship: <<parent, child>>
          saver    \* worker -> its call of persist_bpmn_process_definition

dfVars == <<bpd, tdef, rel, saver>>

ProcessesOf(m) == {m.top} \cup m.calls
Processes == UNION {ProcessesOf(m) : m \in Parsed}

Resting == [pc |-> "rest"]
SaverCalls == [pc : {"save", "raised"}, model : Parsed,
               attempt : 1 .. SAVE_TO_DATABASE_MAX_ATTEMPTS + 1, deadlocks : 0 .. SAVE_TO_DATABASE_MAX_ATTEMPTS,
               mappings : UNION {[ProcessesOf(m) -> 0 .. Len(bpd)] : m \in Parsed},
               sees : 0 .. Len(bpd)]

(* Rows, or ids, of `sees` rows; .first() is the smallest id. *)
Visible(sees) == 1 .. sees
First(S) == CHOOSE i \in S : \A j \in S : i <= j

DefinitionsTypeOK ==
    /\ bpd \in Seq([full : Parsed \cup {NoHash}, single : Processes])
    /\ tdef \subseteq (DOMAIN bpd) \X UNION {TaskSpecs[d] : d \in Processes}
    /\ rel \subseteq (DOMAIN bpd) \X (DOMAIN bpd)
    /\ saver \in [Savers -> {Resting} \cup SaverCalls]

DefinitionsInit ==
    /\ bpd = << >>
    /\ tdef = {}
    /\ rel = {}
    /\ saver = [w \in Savers |-> Resting]

-----------------------------------------------------------------------------
(* The hash pair a process of model m is looked up and stored under. *)
HashesOf(m, d) == [full |-> IF d = m.top THEN m ELSE NoHash, single |-> d]

(* _store_bpmn_process_definition: the model's own process is looked up by *)
(* its full hash, a called one by its single hash, whichever kind of row   *)
(* carries it; 0 is a new object without id, whose task definitions are    *)
(* new as well.                                                            *)
store_bpmn_process_definition(m, d, sees) ==
    LET found == {i \in Visible(sees) : IF d = m.top THEN bpd[i].full = m
                                                  ELSE bpd[i].single = d}
    IN  IF found = {} THEN 0 ELSE First(found)

(* add_bpmn_process_definitions with empty mappings: every process of the  *)
(* model gets an object, loaded or new.                                    *)
add_bpmn_process_definitions(m, sees) ==
    [d \in ProcessesOf(m) |-> store_bpmn_process_definition(m, d, sees)]

(* persist_bpmn_process_definition up to the save.  The reads open the     *)
(* transaction; under MySQL's repeatable read it keeps seeing the rows     *)
(* committed by now.                                                       *)
persist_bpmn_process_definition(w) ==
    /\ saver[w] = Resting
    /\ \E m \in Parsed :
          saver' = [saver EXCEPT ![w] =
                      [pc |-> "save", model |-> m, attempt |-> 1, deadlocks |-> 0,
                       mappings |-> add_bpmn_process_definitions(m, Len(bpd)),
                       sees |-> Len(bpd)]]
    /\ UNCHANGED <<bpd, tdef, rel>>

(* _lookup_bpmn_process_definition_after_insert_or_ignore, among the rows  *)
(* the transaction sees; 0 after its last attempt finds nothing.           *)
lookup_after_insert_or_ignore(hashes, sees) ==
    LET found == {i \in Visible(sees) : bpd[i] = hashes}
    IN  IF found = {} THEN 0 ELSE First(found)

(* insert_or_ignore_duplicate: the unique key on the two hashes looks at   *)
(* every committed row and never matches a NULL.                           *)
Duplicate(hashes) == hashes.full # NoHash /\ \E i \in DOMAIN bpd : bpd[i] = hashes

(* The processes of the job whose row this attempt inserts. *)
Inserted(j) ==
    {d \in DOMAIN j.mappings : j.mappings[d] = 0 /\ ~ Duplicate(HashesOf(j.model, d))}

(* The row each process ends up with: a fresh id, or the one looked up. *)
RowIds(j, sees) ==
    LET new == SetToSeq(Inserted(j))
    IN  [d \in DOMAIN j.mappings |->
           IF d \in Inserted(j)
           THEN Len(bpd) + CHOOSE k \in 1 .. Len(new) : new[k] = d
           ELSE IF j.mappings[d] # 0
                THEN lookup_after_insert_or_ignore(bpd[j.mappings[d]], sees)
                ELSE lookup_after_insert_or_ignore(HashesOf(j.model, d), sees)]

(* Faulty variant: only those this attempt inserted. *)
OnlyNewSubprocesses(j, ids) == {ids[d] : d \in Inserted(j) \ {j.model.top}}

(* The subprocess ids the parent is related to: all of them, whether this  *)
(* attempt inserted the row or found it.                                   *)
subprocess_ids(j, ids) == {ids[d] : d \in DOMAIN ids \ {j.model.top}}

(* _save_to_database_once when every lookup answers: the rows, the task    *)
(* definitions of the new objects (a duplicate is ignored), the            *)
(* relationships, one commit.                                              *)
save_to_database_once(w) ==
    /\ saver[w].pc = "save"
    /\ \E sees \in {saver[w].sees, Len(bpd)} :
       LET j == saver[w]
           ids == RowIds(j, sees)
           new == SetToSeq(Inserted(j))
       IN  /\ Len(bpd) + Len(new) <= MaxRows
           /\ \A d \in DOMAIN ids : ids[d] # 0
           /\ bpd' = bpd \o [k \in DOMAIN new |-> HashesOf(j.model, new[k])]
           /\ tdef' = tdef \cup UNION {{ids[d]} \X TaskSpecs[d] :
                                         d \in {e \in DOMAIN ids : j.mappings[e] = 0}}
           /\ rel' = rel \cup ({ids[j.model.top]} \X subprocess_ids(j, ids))
           /\ saver' = [saver EXCEPT ![w] = Resting]

(* Faulty variant: the next attempt sees the old snapshot. *)
RetryInTransaction(j, deadlocked) ==
    [j EXCEPT !.pc = IF j.attempt < SAVE_TO_DATABASE_MAX_ATTEMPTS THEN "save" ELSE "raised",
              !.attempt = @ + 1,
              !.deadlocks = @ + deadlocked]

(* save_to_database after a retryable failure: rollback, which also ends   *)
(* the old snapshot, and another attempt, or the exception.                *)
Retry(j, deadlocked) ==
    [j EXCEPT !.pc = IF j.attempt < SAVE_TO_DATABASE_MAX_ATTEMPTS THEN "save" ELSE "raised",
              !.attempt = @ + 1,
              !.deadlocks = @ + deadlocked,
              !.sees = Len(bpd)]

(* The row is there, so the insert is ignored, but the transaction does    *)
(* not see it.                                                             *)
LookupFails(w) ==
    /\ saver[w].pc = "save"
    /\ \E d \in DOMAIN saver[w].mappings : RowIds(saver[w], saver[w].sees)[d] = 0
    /\ saver' = [saver EXCEPT ![w] = Retry(saver[w], 0)]
    /\ UNCHANGED <<bpd, tdef, rel>>

(* MySQL picks this transaction as a deadlock's victim, which takes a      *)
(* second transaction.                                                     *)
Deadlock(w) ==
    /\ saver[w].pc = "save"
    /\ \E v \in Savers \ {w} : saver[v].pc = "save"
    /\ saver' = [saver EXCEPT ![w] = Retry(saver[w], 1)]
    /\ UNCHANGED <<bpd, tdef, rel>>

(* The request that raised is over. *)
Failed(w) ==
    /\ saver[w].pc = "raised"
    /\ saver' = [saver EXCEPT ![w] = Resting]
    /\ UNCHANGED <<bpd, tdef, rel>>

DefinitionsNext == \E w \in Savers :
    \/ persist_bpmn_process_definition(w)
    \/ save_to_database_once(w)
    \/ LookupFails(w)
    \/ Deadlock(w)
    \/ Failed(w)

DefinitionsSpec == DefinitionsInit /\ [][DefinitionsNext]_dfVars

-----------------------------------------------------------------------------
(* get_definition_dict_for_bpmn_process_definition: a row's task specs. *)
get_definition_dict(i) == {t[2] : t \in {u \in tdef : u[1] = i}}

(* set_definition_dict_for_bpmn_subprocess_definitions: the specs of the   *)
(* related rows, merged by name.                                           *)
set_subprocess_specs(i) ==
    LET children == {r[2] : r \in {s \in rel : s[1] = i}}
    IN  [n \in {NameOf[bpd[c].single] : c \in children} |->
           UNION {get_definition_dict(c) : c \in {e \in children : NameOf[bpd[e].single] = n}}]

(* A model that has a row can be restored from the tables exactly as it    *)
(* was parsed: every process with all its tasks and nothing of another     *)
(* version, whichever workers inserted the rows it shares.                 *)
DefinitionsComplete ==
    \A i \in DOMAIN bpd : LET m == bpd[i].full IN
       m # NoHash =>
          /\ get_definition_dict(i) = TaskSpecs[m.top]
          /\ set_subprocess_specs(i) =
                [n \in {NameOf[d] : d \in m.calls} |->
                   UNION {TaskSpecs[d] : d \in {e \in m.calls : NameOf[e] = n}}]

(* Losing the race for a row is no failure: without deadlocks the retry    *)
(* finds the winner's row, and save_to_database never raises.              *)
RaceIsRetried == \A w \in Savers : saver[w].pc = "raised" => saver[w].deadlocks > 0
(* Both, and the types. *)
DefinitionsSound == DefinitionsTypeOK /\ DefinitionsComplete /\ RaceIsRetried
=============================================================================
