------------------------------- MODULE TaskForms -------------------------------
(* The forms of one process instance's human tasks and the files uploaded     *)
(* through them: task_show and the form it builds, the submission's checks    *)
(* and the exchange of uploaded files for digest references, drafts, the      *)
(* edit of task data while the instance is suspended, the file rows in the    *)
(* database or on the file system, and the download.                          *)
(*                                                                            *)
(* A value of a form field is [is, of]: plain text, an uploaded file ("file"  *)
(* with its contents), a reference to a stored file ("ref" with the digest,   *)
(* which names the contents), and, for the variable a selection list takes    *)
(* its options from, "list", "empty", "text" or "absent".                     *)
EXTENDS Naturals, FiniteSets, Sequences

CONSTANTS
  Contents,     \* the contents of files a user may upload
  FormKinds,    \* the instance's human tasks in order: "UserTask" or "ManualTask"
  Validates     \* SPIFFWORKFLOW_BACKEND_VALIDATE_USER_TASK_DATA_AGAINST_SCHEMA

ASSUME TaskFormsConstants == FormKinds \in Seq({"UserTask", "ManualTask"})

VARIABLES
  status,       \* the instance's status
  at,           \* the human task that is ready; after the last one, Len(FormKinds) + 1
  stored,       \* the json data of each task: its file field f and its options o
  drafts,       \* the draft saved for each task's form, if any
  fileRows,     \* process_instance_file_data rows of the instance: <<digest, where>>
  onDisk,       \* the digests with a file on the file system
  onFileSystem, \* ..._PROCESS_INSTANCE_FILE_DATA_FILESYSTEM_PATH is configured
  page,         \* the form the user's browser holds
  submission,   \* the submission in flight
  edit          \* the task data edit in flight

tfVars == <<status, at, stored, drafts, fileRows, onDisk, onFileSystem, page,
            submission, edit>>

--------------------------------------------------------------------------------
FormTasks == 1..Len(FormKinds)

Value(is, of) == [is |-> is, of |-> of]
Text   == Value("text", "")
NoFile == Value("absent", "")
Files  == {Value("file", c) : c \in Contents}
Refs   == {Value("ref", c) : c \in Contents}

\* What the digest of a reference would be, were the reference itself taken
\* for an uploaded file.
Garbled == "garbled"

Options == {"list", "empty", "text", "absent"}
NoData  == [f |-> NoFile, o |-> "absent"]
NoPage  == [task |-> 0, f |-> NoFile]
NoSubmission == [step |-> "none", task |-> 0, f |-> NoFile]
NoEdit  == [task |-> 0, data |-> NoData]

TaskFormsInit ==
  /\ status = "user_input_required"
  /\ at = 1
  /\ stored = [t \in FormTasks |-> IF t = 1 THEN [f |-> NoFile, o |-> "list"] ELSE NoData]
  /\ drafts = [t \in FormTasks |-> NoFile]
  /\ fileRows = {}
  /\ onDisk = {}
  /\ onFileSystem = FALSE
  /\ page = NoPage
  /\ submission = NoSubmission
  /\ edit = NoEdit

--------------------------------------------------------------------------------
\* The selection list of a form takes its options from a variable of the task's
\* data: without the variable, with an empty list or with a string in it there
\* is no form.
update_form_schema_with_task_data_as_needed(data) == data.o = "list"

\* task_show: refused while the instance is suspended. The browser shows the
\* draft where there is one and the task's data otherwise.
get_task_model_for_request(t) ==
  /\ status # "suspended"
  /\ t <= at
  /\ FormKinds[t] = "UserTask" => update_form_schema_with_task_data_as_needed(stored[t])
  /\ page' = [task |-> t,
              f |-> IF drafts[t] # NoFile THEN drafts[t] ELSE stored[t].f]
  /\ UNCHANGED <<status, at, stored, drafts, fileRows, onDisk, onFileSystem,
                 submission, edit>>

\* What the user may send with the form on the page.
Filled == {page.f, Text} \cup Files

\* The browser saves what the form holds as it is, uploaded files included.
save_draft(f) ==
  /\ page.task = at
  /\ status # "suspended"
  /\ f \in Filled \ {NoFile}
  /\ drafts' = [drafts EXCEPT ![at] = f]
  /\ UNCHANGED <<status, at, stored, fileRows, onDisk, onFileSystem, page,
                 submission, edit>>

--------------------------------------------------------------------------------
\* Faulty variant: a reference is taken for contents.
ModelForReference(v) ==
  CASE v.is = "file" -> {v.of}
    [] v.is = "ref"  -> {Garbled}
    [] OTHER         -> {}

\* file_data_model_for_value gives a row for an uploaded file and none for
\* anything else, a reference included; the value is then replaced by the
\* reference to its digest.
file_data_model_for_value(v) == IF v.is = "file" THEN {v.of} ELSE {}

replace_file_data_with_digest_references(v) ==
  IF file_data_model_for_value(v) = {} THEN v
  ELSE Value("ref", CHOOSE digest \in file_data_model_for_value(v) : TRUE)

\* Faulty variant: the row says so before the contents are there.
MarkedFirst(digests) ==
  IF onFileSystem
  THEN /\ onDisk' = onDisk
       /\ fileRows' = fileRows \cup (digests \X {"fs"})
  ELSE /\ fileRows' = fileRows \cup (digests \X {"db"})
       /\ UNCHANGED onDisk

\* The contents go to the file system before the row only says where they are.
store_rows(digests) ==
  IF onFileSystem
  THEN /\ onDisk' = onDisk \cup digests
       /\ fileRows' = fileRows \cup (digests \X {"fs"})
  ELSE /\ fileRows' = fileRows \cup (digests \X {"db"})
       /\ UNCHANGED onDisk

\* The schema a submission is validated against is the form's file as it is,
\* without the options of the task's data: where a form takes its options from
\* a variable the file is no valid schema and the submission is refused.
FormIsValid(t) == Validates => FormKinds[t] # "UserTask"

\* A submission under the instance's lock: the task must still be the ready one
\* (assert_user_can_complete_human_task), and the form must pass validation.
SubmissionBegins(f) ==
  /\ submission = NoSubmission
  /\ page.task = at
  /\ status = "user_input_required"
  /\ FormIsValid(at)
  /\ f \in Filled
  /\ submission' = [step |-> "accepted", task |-> at, f |-> f]
  /\ UNCHANGED <<status, at, stored, drafts, fileRows, onDisk, onFileSystem,
                 page, edit>>

\* The files are saved and committed; the data in hand refers to them.
save_file_data_and_replace_with_digest_references ==
  /\ submission.step = "accepted"
  /\ store_rows(file_data_model_for_value(submission.f))
  /\ submission' = [submission EXCEPT
       !.step = "replaced",
       !.f = replace_file_data_with_digest_references(submission.f)]
  /\ UNCHANGED <<status, at, stored, drafts, onFileSystem, page, edit>>

\* The data is merged into the task, the task is completed and the instance
\* saved; the draft goes; the next task inherits the data, with options the
\* tasks between compute.
update_form_task_data(o) ==
  LET t == submission.task
      data == [stored[t] EXCEPT !.f = submission.f]
  IN  /\ submission.step = "replaced"
      /\ stored' = [i \in FormTasks |-> CASE i = t -> data
                                      [] i = t + 1 -> [data EXCEPT !.o = o]
                                      [] OTHER -> stored[i]]
      /\ at' = t + 1
      /\ status' = IF t = Len(FormKinds) THEN "complete" ELSE status
      /\ drafts' = [drafts EXCEPT ![t] = NoFile]
      /\ submission' = NoSubmission
      /\ UNCHANGED <<fileRows, onDisk, onFileSystem, page, edit>>

\* The worker dies, or a later step of the request fails and is rolled back.
SubmissionFails ==
  /\ submission # NoSubmission
  /\ submission' = NoSubmission
  /\ UNCHANGED <<status, at, stored, drafts, fileRows, onDisk, onFileSystem,
                 page, edit>>

--------------------------------------------------------------------------------
\* Suspending and resuming take the lock the submission holds.
SuspendOrResume ==
  /\ submission = NoSubmission
  /\ status \in {"user_input_required", "suspended"}
  /\ status' = IF status = "suspended" THEN "user_input_required" ELSE "suspended"
  /\ UNCHANGED <<at, stored, drafts, fileRows, onDisk, onFileSystem, page,
                 submission, edit>>

\* The edit of a task's data takes no lock: the status is read, the data is
\* written and committed later. The editor types text or options, or keeps the
\* reference the data shows.
EditBegins(t, data) ==
  /\ edit = NoEdit
  /\ status = "suspended"
  /\ t <= at
  /\ data.f \in {Text, stored[t].f}
  /\ edit' = [task |-> t, data |-> data]
  /\ UNCHANGED <<status, at, stored, drafts, fileRows, onDisk, onFileSystem,
                 page, submission>>

task_data_update ==
  /\ edit # NoEdit
  /\ stored' = [stored EXCEPT ![edit.task] = edit.data]
  /\ edit' = NoEdit
  /\ UNCHANGED <<status, at, drafts, fileRows, onDisk, onFileSystem, page,
                 submission>>

\* The server is restarted with a directory for the files.
ConfigureFileSystem ==
  /\ ~onFileSystem
  /\ submission = NoSubmission
  /\ edit = NoEdit
  /\ onFileSystem' = TRUE
  /\ UNCHANGED <<status, at, stored, drafts, fileRows, onDisk, page, submission,
                 edit>>

migrate_from_database_to_filesystem ==
  LET inDb == {r[1] : r \in {r \in fileRows : r[2] = "db"}}
  IN  /\ onFileSystem
      /\ inDb # {}
      /\ onDisk' = onDisk \cup inDb
      /\ fileRows' = {<<r[1], "fs">> : r \in fileRows}
      /\ UNCHANGED <<status, at, stored, drafts, onFileSystem, page, submission,
                     edit>>

TaskFormsNext ==
  \/ \E t \in FormTasks : get_task_model_for_request(t)
  \/ \E f \in {Text} \cup Files \cup Refs : save_draft(f)
  \/ \E f \in {Text, NoFile} \cup Files \cup Refs : SubmissionBegins(f)
  \/ save_file_data_and_replace_with_digest_references
  \/ \E o \in {"list", "empty"} : update_form_task_data(o)
  \/ SubmissionFails
  \/ SuspendOrResume
  \/ \E t \in FormTasks, f \in {Text, NoFile} \cup Refs : EditBegins(t, [f |-> f, o |-> "text"])
  \/ task_data_update
  \/ ConfigureFileSystem
  \/ migrate_from_database_to_filesystem

TaskFormsSpec == TaskFormsInit /\ [][TaskFormsNext]_tfVars

--------------------------------------------------------------------------------
AnyValue == {Text, NoFile} \cup Files \cup Refs \cup {Value("ref", Garbled)}

TaskFormsTypeOK ==
  /\ status \in {"user_input_required", "suspended", "complete"}
  /\ at \in 1..(Len(FormKinds) + 1)
  /\ stored \in [FormTasks -> [f : AnyValue, o : Options]]
  /\ drafts \in [FormTasks -> AnyValue]
  /\ fileRows \subseteq ((Contents \cup {Garbled}) \X {"db", "fs"})
  /\ onDisk \subseteq (Contents \cup {Garbled})
  /\ onFileSystem \in BOOLEAN
  /\ page \in [task : 0..Len(FormKinds), f : AnyValue]
  /\ submission \in [step : {"none", "accepted", "replaced"}, task : 0..Len(FormKinds),
                     f : AnyValue]
  /\ edit \in [task : 0..Len(FormKinds), data : [f : AnyValue, o : Options]]

\* process_data_file_download and get_contents: the row of the digest and the
\* instance, and the contents from where the configuration says.
process_data_file_download(digest) ==
  /\ \E r \in fileRows : r[1] = digest
  /\ IF onFileSystem THEN digest \in onDisk ELSE <<digest, "db">> \in fileRows

\* Rows from before the file system was configured, not migrated yet.
ToMigrate == onFileSystem /\ \E r \in fileRows : r[2] = "db"

\* Wherever a reference shows up (a task's data, the draft of a form, a form on
\* a page, an edit), through resubmission, failure and edit alike, it refers to
\* contents a user uploaded and these can be downloaded from this instance,
\* unless rows still wait to be migrated. No uploaded file stays in task data.
FilesSound ==
  /\ TaskFormsTypeOK
  /\ \A v \in {stored[t].f : t \in FormTasks} \cup {drafts[t] : t \in FormTasks}
              \cup {page.f, edit.data.f} :
       v.is = "ref" => /\ v.of \in Contents
                       /\ ToMigrate \/ process_data_file_download(v.of)
  /\ \A t \in FormTasks : stored[t].f.is # "file"

================================================================================
