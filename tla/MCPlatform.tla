------------------------------- MODULE MCPlatform -------------------------------
(* Small instances for TLC of the parts of the platform that share no state    *)
(* with each other: a behaviour picks one part and runs it. The modules this   *)
(* one extends have their own variables, which stay as they start while another *)
(* part runs. Every other part keeps its variables in the same slots s1, s2,   *)
(* ..., which the instances below name; the slots a part does not need stay    *)
(* idle.                                                                       *)
EXTENDS MCHumanTasks, SignIn, ServiceTasks, Definitions, GitSync, Migration, TaskForms, Progress,
        DataStores, MessageDefinitions, Runner, AccessControl

CONSTANTS
  Parts,      \* the parts to check
  Unset,      \* no model, file or hash: a value of its own
  p1, p2,     \* who signs in
  th1, th2    \* threads that serve requests, workers that save definitions; browser tabs

VARIABLES
  part,       \* the part this behaviour runs
  s1, s2, s3, s4, s5, s6, s7, s8, s9, s10, s11, s12

slots == <<s1, s2, s3, s4, s5, s6, s7, s8, s9, s10, s11, s12>>
vars == <<part, slots, htVars, siVars, svcVars, dfVars, gitVars, miVars, tfVars, pgVars,
          dsVars, mdVars, runVars, acVars>>

--------------------------------------------------------------------------------
\* AccessControl: permission files that add, narrow and take back access, and
\* URIs that match them in whole, below, and by a common prefix.
Entry(t, s, d, x) == [team |-> t, set |-> s, deny |-> d, target |-> x]
Configs ==
  {[users |-> {<<"ann", "g1">>},
    perms |-> <<Entry("g1", "all", FALSE, <<"PG:", "h">>),
                Entry("g2", "read", FALSE, <<"BASIC">>)>>],
   [users |-> {<<"ann", "g2">>},
    perms |-> <<Entry("g1", "start", FALSE, <<"PM:", "h", ":", "m">>),
                Entry("g2", "read", FALSE, <<"PG:", "h">>)>>],
   [users |-> {<<"ann", "g1">>},
    perms |-> <<Entry("g1", "read", FALSE, <<"PG:", "h", "y", ":", "s">>),
                Entry("g1", "read", TRUE, <<"PG:", "h">>)>>]}
UriSet ==
  {<<"/", "process-groups", "/", "h">>, <<"/", "process-groups", "/", "h", "y", ":", "s">>,
   <<"/", "process-models", "/", "h", ":", "m">>, <<"/", "tasks">>}
WordSet ==
  {"/", ":", "%", "process-groups", "process-models", "process-instance-run", "logs",
   "task-data", "tasks", "process-instances", "service-accounts", "secrets", "random",
   "PG:", "PM:", "BASIC", "h", "y", "s", "m"}

\* Catalog: files that define a process other files call, and a message start.
Process(i, c, s, e) == [id |-> <<i>>, calls |-> c, starts |-> s, exec |-> e]
CatalogContents ==
  {<<Process(10, {}, {"m"}, TRUE)>>,
   <<Process(11, {<<10>>}, {}, TRUE), Process(10, {}, {}, FALSE)>>,
   <<Process(11, {<<10>>}, {"m"}, TRUE)>>}

\* Definitions: two versions of a model that share a process, and the shared one.
ParsedModels == {[top |-> "a1", calls |-> {"c1"}], [top |-> "a1", calls |-> {"c2"}],
                 [top |-> "c1", calls |-> {}]}
ProcessNames == [d \in {"a1", "c1", "c2"} |-> IF d = "a1" THEN "a" ELSE "c"]
SpecsOf == [d \in {"a1", "c1", "c2"} |->
              CASE d = "a1" -> {"s"} [] d = "c1" -> {"s", "t"} [] OTHER -> {"u"}]

\* DataStores and MessageDefinitions: two models and where each looks upwards.
Item(t, s, v) == [top |-> t, sec |-> s, value |-> v]
StoreUpsearch == [m \in {"a/m", "b/n"} |->
                    IF m = "a/m" THEN <<"a/m", "a", "">> ELSE <<"b/n", "b", "">>]
MessageUpsearch == [m \in {"a/m", "a/b/k"} |->
                      IF m = "a/m" THEN <<"a/m", "a", "">> ELSE <<"a/b/k", "a/b", "a", "">>]
BelowGroup == [g \in {"a", "a/b"} |->
                 IF g = "a" THEN {"a", "a/b", "a/m", "a/b/k"} ELSE {"a/b", "a/b/k"}]

\* Migration: three versions of a model of three tasks, one without the third.
ModelVersions == <<<<1, 1, 0>>, <<1, 2, 1>>, <<2, 1, 0>>>>
OwnersOf == <<{1, 2}, {2}>>

\* TaskForms and Progress: what the tasks of an instance are. Runner: what the
\* tasks of a workflow are, one after the other.
TwoForms == <<"UserTask", "ManualTask">>
Automatic == <<"auto", "auto", "note", "human", "note">>
RunKinds == <<"script", "custom", "timer", "custom">>
OneByOne == <<{}, {1}, {2}, {3}>>

\* TaskHistory: a subprocess S with a task y and a subprocess N with a task x.
HomeOf == [a |-> "top", S |-> "top", N |-> "S", y |-> "S", x |-> "N"]

\* Imports: a package of one model, a package of a model within a model, and a
\* repository.
File(d, n, p) == [dir |-> d, name |-> n, proc |-> p, primary |-> ""]
Json(d, f, p) == [dir |-> d, name |-> "process_model.json", proc |-> p, primary |-> f]
PackageSet ==
  {[id |-> <<"m">>,
    files |-> <<File(<<"m">>, "a", "p1"), Json(<<"m">>, "b", "p2"), File(<<"m">>, "b", "p2")>>],
   [id |-> <<>>,
    files |-> <<Json(<<"x">>, "a", "q1"), File(<<"x">>, "a", "q1"),
                Json(<<"x", "y">>, "b", "q2"), File(<<"x", "y">>, "b", "q2"),
                File(<<"x", "y", "z">>, "t", "")>>]}
RepositorySet == {[id |-> "r", files |-> <<Json(<<>>, "a", "p1"), File(<<>>, "a", "p1")>>]}

\* DataStores: a body with values of two types, and one that takes values back.
StoreBodies == {<<Item("t", "s", "text"), Item("t", "r", "number")>>,
                <<Item("t", "every", "null"), Item("t", "r", "text"), Item("t", "s", "null")>>}

--------------------------------------------------------------------------------
CA == INSTANCE Catalog WITH
    ModelIds <- {<<"g", "a">>, <<"h", "a">>, <<"h", "g", "a">>},
    FileNames <- {"f1", "f2"}, Contents <- CatalogContents, Messages <- {"m"},
    Missing <- Unset, MaxRequests <- 3,
    disk <- s1, groups <- s2, cache <- s3, gen <- s4, callers <- s5,
    triggers <- s6, writing <- s7, refresh <- s8, instances <- s9,
    quiet <- s10, failed <- s11, requests <- s12

TP == INSTANCE TaskPersistence WITH
    MaxTasks <- 3, Data <- {1},
    phase <- s1, tree <- s2, pend <- s3, gone <- s4, rows <- s5, procs <- s6,
    jsons <- s7, done <- s8, born <- s9

RE == INSTANCE Reports WITH
    Users <- {"ann"}, Groups <- {"g1", "g2"}, Values <- {"x"}, MaxTasks <- 2,
    instance <- s1, humanTasks <- s2, memberOf <- s3

IM == INSTANCE Imports WITH
    Packages <- PackageSet, Repositories <- RepositorySet, Group <- <<"g">>,
    MaxImports <- 3, MaxTime <- 1,
    models <- s1, groups <- s2, import <- s3, now <- s4, imports <- s5,
    born <- s6, taken <- s7

TH == INSTANCE TaskHistory WITH
    Home <- HomeOf, Multi <- {"a"}, Defines <- {"top", "S"}, MaxRows <- 5,
    rows <- s1, value <- s2, clock <- s3, lastEnded <- s4, before <- s5

--------------------------------------------------------------------------------
\* A part starts with, and runs on, its first n slots; everything else stays as
\* it starts.
Starts(name, n) ==
  /\ name \in Parts
  /\ part = name
  /\ IF n < 1 THEN s1 = "idle" ELSE TRUE
  /\ IF n < 2 THEN s2 = "idle" ELSE TRUE
  /\ IF n < 3 THEN s3 = "idle" ELSE TRUE
  /\ IF n < 4 THEN s4 = "idle" ELSE TRUE
  /\ IF n < 5 THEN s5 = "idle" ELSE TRUE
  /\ IF n < 6 THEN s6 = "idle" ELSE TRUE
  /\ IF n < 7 THEN s7 = "idle" ELSE TRUE
  /\ IF n < 8 THEN s8 = "idle" ELSE TRUE
  /\ IF n < 9 THEN s9 = "idle" ELSE TRUE
  /\ IF n < 10 THEN s10 = "idle" ELSE TRUE
  /\ IF n < 11 THEN s11 = "idle" ELSE TRUE
  /\ IF n < 12 THEN s12 = "idle" ELSE TRUE

Runs(name, n) ==
  /\ part = name
  /\ UNCHANGED part
  /\ IF name # "humanTasks" THEN UNCHANGED htVars ELSE TRUE
  /\ IF name # "signIn" THEN UNCHANGED siVars ELSE TRUE
  /\ IF name # "serviceTasks" THEN UNCHANGED svcVars ELSE TRUE
  /\ IF name # "definitions" THEN UNCHANGED dfVars ELSE TRUE
  /\ IF name # "git" THEN UNCHANGED gitVars ELSE TRUE
  /\ IF name # "migration" THEN UNCHANGED miVars ELSE TRUE
  /\ IF name # "forms" THEN UNCHANGED tfVars ELSE TRUE
  /\ IF name # "progress" THEN UNCHANGED pgVars ELSE TRUE
  /\ IF name # "dataStores" THEN UNCHANGED dsVars ELSE TRUE
  /\ IF name # "messageDefinitions" THEN UNCHANGED mdVars ELSE TRUE
  /\ IF name # "runner" THEN UNCHANGED runVars ELSE TRUE
  /\ IF name # "access" THEN UNCHANGED acVars ELSE TRUE
  /\ IF n < 1 THEN s1' = s1 ELSE TRUE
  /\ IF n < 2 THEN s2' = s2 ELSE TRUE
  /\ IF n < 3 THEN s3' = s3 ELSE TRUE
  /\ IF n < 4 THEN s4' = s4 ELSE TRUE
  /\ IF n < 5 THEN s5' = s5 ELSE TRUE
  /\ IF n < 6 THEN s6' = s6 ELSE TRUE
  /\ IF n < 7 THEN s7' = s7 ELSE TRUE
  /\ IF n < 8 THEN s8' = s8 ELSE TRUE
  /\ IF n < 9 THEN s9' = s9 ELSE TRUE
  /\ IF n < 10 THEN s10' = s10 ELSE TRUE
  /\ IF n < 11 THEN s11' = s11 ELSE TRUE
  /\ IF n < 12 THEN s12' = s12 ELSE TRUE

Init ==
  /\ HumanTasksInit /\ SignInInit /\ ServiceTasksInit /\ DefinitionsInit /\ GitSyncInit
  /\ MigrationInit /\ TaskFormsInit /\ ProgressInit
  /\ DataStoresInit /\ MessageDefinitionsInit /\ RunnerInit /\ AccessInit
  /\ \/ Starts("humanTasks", 0)
     \/ Starts("signIn", 0)
     \/ Starts("serviceTasks", 0)
     \/ Starts("definitions", 0)
     \/ Starts("git", 0)
     \/ Starts("migration", 0)
     \/ Starts("forms", 0)
     \/ Starts("progress", 0)
     \/ Starts("dataStores", 0)
     \/ Starts("messageDefinitions", 0)
     \/ Starts("runner", 0)
     \/ Starts("access", 0)
     \/ Starts("catalog", 12) /\ CA!Init
     \/ Starts("taskRows", 9) /\ TP!Init
     \/ Starts("reports", 3) /\ RE!Init
     \/ Starts("imports", 7) /\ IM!Init
     \/ Starts("history", 5) /\ TH!Init

Next ==
  \/ Runs("humanTasks", 0) /\ HumanTasksNext
  \/ Runs("signIn", 0) /\ SignInNext
  \/ Runs("serviceTasks", 0) /\ ServiceTasksNext
  \/ Runs("definitions", 0) /\ DefinitionsNext
  \/ Runs("git", 0) /\ GitSyncNext
  \/ Runs("migration", 0) /\ MigrationNext
  \/ Runs("forms", 0) /\ TaskFormsNext
  \/ Runs("progress", 0) /\ ProgressNext
  \/ Runs("dataStores", 0) /\ DataStoresNext
  \/ Runs("messageDefinitions", 0) /\ MessageDefinitionsNext
  \/ Runs("runner", 0) /\ RunnerNext
  \/ Runs("access", 0) /\ AccessNext
  \/ Runs("catalog", 12) /\ CA!Next
  \/ Runs("taskRows", 9) /\ TP!Next
  \/ Runs("reports", 3) /\ RE!Next
  \/ Runs("imports", 7) /\ IM!Next
  \/ Runs("history", 5) /\ TH!Next

Spec == Init /\ [][Next]_vars

--------------------------------------------------------------------------------
\* The variables of every part in the slots keep their types.
TypesOK ==
  /\ part = "catalog" => CA!TypeOK
  /\ part = "taskRows" => TP!TypeOK
  /\ part = "reports" => RE!TypeOK
  /\ part = "imports" => IM!TypeOK
  /\ part = "history" => TH!TypeOK

\* Catalog: a full refresh of the reference cache that nothing disturbed makes it
\* what the files say, whatever was there before, and the primary process of a
\* model is in its primary file through every save, copy and move.
CatalogSound == part = "catalog" => CA!RefreshRepairs /\ CA!PrimaryDefined

\* TaskPersistence: the rows a run or a rewind saved give the same task tree
\* back, and a completed task keeps its data however often the instance is loaded
\* without it, run, saved and rewound.
TaskRowsSound == part = "taskRows" => TP!Restorable /\ TP!DataKept

\* Reports: an open task is never lost between the lists of its user, the list
\* "for me" has no instance the user has nothing to do with, and no instance
\* falls between two opposite filters.
ReportsSound == part = "reports" => RE!ReportsSound

\* Imports, after failed and partial ones too: a package's files are in the model
\* of the nearest model directory above them, each model can be started, and a
\* repository never overwrites a model of an earlier import.
ImportsSound == part = "imports" => IM!ImportsSound

\* TaskHistory: the task list has every task of the latest round of each loop,
\* viewed at a task it is the past, and a data object has the value its process's
\* tasks read.
HistorySound == part = "history" => TH!HistorySound

================================================================================
