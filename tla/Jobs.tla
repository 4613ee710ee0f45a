-------------------------------- MODULE Jobs --------------------------------
(***************************************************************************)
(* Work handed to a worker and polled by its requester: the bulk imports   *)
(* of src/backend/accounts and the exports of src/backend/results.  A      *)
(* small import runs inside its request, without a job row.                *)
(*                                                                         *)
(* An import reads the table, validates its file against what it read, and *)
(* inserts the accepted rows in one transaction.  A row has an email,      *)
(* which the table holds unique, and a matriculation number, which only    *)
(* the validation compares (courses: a code, and the code in capitals).    *)
(* A worker acknowledges its task first: when it dies, the task is gone.   *)
(***************************************************************************)
EXTENDS Naturals, Sequences, FiniteSets

CONSTANTS
    Imports, Exports,   \* uploads and export requests
    Large,              \* imports over IMPORT_SYNC_MAX_ROWS
    Emails, Matrics,
    File                \* the rows of each import's file

ImportRow == [email : Emails, matric : Matrics, valid : BOOLEAN]

ASSUME JobsAssumption ==
    /\ Imports \cap Exports = {}
    /\ Large \subseteq Imports
    /\ File \in [Imports -> Seq(ImportRow)]

Status == {"none", "pending", "processing", "completed", "failed"}

Job == [status : Status, pc : {"new", "queued", "read", "write", "report", "end", "dead"}]

User == [email : Emails, matric : Matrics, by : Imports]

VARIABLES
    job,       \* the job row and how far its work has come
    accepted,  \* row numbers an import accepted
    saw,       \* imports whose rows were in the table an import read
    users,     \* the students imported
    report,    \* row numbers reported as created
    stored     \* export files in storage

jobsVars == <<job, accepted, saw, users, report, stored>>

JobsTypeOK ==
    /\ job \in [Imports \cup Exports -> Job]
    /\ accepted \in [Imports -> SUBSET Nat]
    /\ saw \in [Imports -> SUBSET Imports]
    /\ users \subseteq User
    /\ report \in [Imports -> SUBSET Nat]
    /\ stored \subseteq Exports

-----------------------------------------------------------------------------
HasJob(j) == j \in Large \cup Exports

\* A status is written only where there is a job row to write it to.
At(j, pc, status) ==
    job' = [job EXCEPT ![j] = [status |-> IF HasJob(j) THEN status ELSE "none", pc |-> pc]]

Rows(i, numbers) ==
    {[email |-> File[i][n].email, matric |-> File[i][n].matric, by |-> i] : n \in numbers}

\* Mutant: matriculation numbers are compared within the file only.
AcceptedInFile(i) ==
    LET seen[n \in 0..Len(File[i])] ==
          IF n = 0 THEN {}
          ELSE LET row == File[i][n]
               IN  IF /\ row.valid
                      /\ \A u \in users : u.email # row.email
                      /\ \A m \in seen[n - 1] : /\ File[i][m].email # row.email
                                                /\ File[i][m].matric # row.matric
                   THEN seen[n - 1] \cup {n} ELSE seen[n - 1]
    IN  seen[Len(File[i])]

\* The rows that pass: valid, new to the table and to the file before them.
Accepted(i) ==
    LET seen[n \in 0..Len(File[i])] ==
          IF n = 0 THEN {}
          ELSE LET row == File[i][n]
                   taken == users \cup Rows(i, seen[n - 1])
               IN  IF row.valid /\ \A u \in taken : u.email # row.email /\ u.matric # row.matric
                   THEN seen[n - 1] \cup {n} ELSE seen[n - 1]
    IN  seen[Len(File[i])]

-----------------------------------------------------------------------------
\* Mutant: a job whose task was refused is left as it was created.
SubmitUnfailed(j) ==
    /\ job[j].pc = "new"
    /\ \/ ~HasJob(j) /\ At(j, "read", "none")
       \/ HasJob(j) /\ At(j, "queued", "pending")
       \/ HasJob(j) /\ At(j, "end", "pending")
    /\ UNCHANGED <<accepted, saw, users, report, stored>>

\* A request runs its import, or creates a job and queues it; a broker that
\* cannot be reached fails the job at once.
Submit(j) ==
    /\ job[j].pc = "new"
    /\ \/ ~HasJob(j) /\ At(j, "read", "none")
       \/ HasJob(j) /\ At(j, "queued", "pending")
       \/ HasJob(j) /\ At(j, "end", "failed")
    /\ UNCHANGED <<accepted, saw, users, report, stored>>

\* run_import_job, generate_export: the job is marked.
Process(j) ==
    /\ job[j].pc = "queued"
    /\ At(j, "read", "processing")
    /\ UNCHANGED <<accepted, saw, users, report, stored>>

\* A file without its required columns (ImportFileError), or any other error.
Fail(j) ==
    /\ job[j].pc \in {"read", "write"}
    /\ At(j, "end", "failed")
    /\ UNCHANGED <<accepted, saw, users, report, stored>>

\* import_students, import_courses and import_assignments each read what they
\* compare with, then go through the rows.
ReadTable(i) ==
    /\ job[i].pc = "read"
    /\ accepted' = [accepted EXCEPT ![i] = Accepted(i)]
    /\ saw' = [saw EXCEPT ![i] = {u.by : u \in users}]
    /\ At(i, "write", "processing")
    /\ UNCHANGED <<users, report, stored>>

\* Mutant: the batches of bulk_create commit one by one until one is refused.
InsertRowsOneByOne(i) ==
    /\ job[i].pc = "write"
    /\ LET fresh == {n \in accepted[i] : \A u \in users : u.email # File[i][n].email}
       IN  /\ users' = users \cup Rows(i, fresh)
           /\ IF fresh = accepted[i] THEN At(i, "report", "processing") ELSE At(i, "end", "failed")
    /\ UNCHANGED <<accepted, saw, report, stored>>

\* bulk_create in one transaction, which a taken email rolls back.
InsertRows(i) ==
    /\ job[i].pc = "write"
    /\ IF \A n \in accepted[i], u \in users : u.email # File[i][n].email
       THEN users' = users \cup Rows(i, accepted[i]) /\ At(i, "report", "processing")
       ELSE At(i, "end", "failed") /\ UNCHANGED users
    /\ UNCHANGED <<accepted, saw, report, stored>>

ReportImport(i) ==
    /\ job[i].pc = "report"
    /\ report' = [report EXCEPT ![i] = accepted[i]]
    /\ At(i, "end", "completed")
    /\ UNCHANGED <<accepted, saw, users, stored>>

\* The sheet is rendered and the file stored; a failed export can follow.
Render(x) ==
    /\ job[x].pc = "read"
    /\ stored' = stored \cup {x}
    /\ At(x, "report", "processing")
    /\ UNCHANGED <<accepted, saw, users, report>>

CompleteExport(x) ==
    /\ job[x].pc = "report"
    /\ \/ At(x, "end", "completed")
       \/ At(x, "end", "failed")
    /\ UNCHANGED <<accepted, saw, users, report, stored>>

\* The process dies; a transaction it had open is rolled back.
Die(j) ==
    /\ job[j].pc \in {"read", "write", "report"}
    /\ job' = [job EXCEPT ![j].pc = "dead"]
    /\ UNCHANGED <<accepted, saw, users, report, stored>>

-----------------------------------------------------------------------------
JobsInit ==
    /\ job = [j \in Imports \cup Exports |-> [status |-> "none", pc |-> "new"]]
    /\ accepted = [i \in Imports |-> {}]
    /\ saw = [i \in Imports |-> {}]
    /\ users = {}
    /\ report = [i \in Imports |-> {}]
    /\ stored = {}

WorkStep(j) ==
    \/ Process(j)
    \/ Fail(j)
    \/ j \in Imports /\ (ReadTable(j) \/ InsertRows(j) \/ ReportImport(j))
    \/ j \in Exports /\ (Render(j) \/ CompleteExport(j))

JobsNext == \E j \in Imports \cup Exports : Submit(j) \/ WorkStep(j) \/ Die(j)

JobsSpec == JobsInit /\ [][JobsNext]_jobsVars

-----------------------------------------------------------------------------
(***************************************************************************)
(* What a job promises the user who polls it.                              *)
(***************************************************************************)
Created(i) == {u \in users : u.by = i}

\* A job says what it did: a completed import created exactly the rows its
\* report counts, a failed one created none, no import is ever seen half done,
\* and a completed export has its file (run_import_job, generate_export).
JobsTellTheTruth ==
    /\ \A i \in Imports :
          /\ Created(i) \in {{}, Rows(i, accepted[i])}
          /\ job[i].status = "completed" =>
                Created(i) = Rows(i, report[i]) /\ report[i] = accepted[i]
          /\ (job[i].status = "failed" \/ job[i].pc \in {"queued", "read", "write"}) =>
                Created(i) = {}
    /\ \A x \in Exports : job[x].status = "completed" => x \in stored

\* A matriculation number is given to two students only by imports that ran at
\* the same time, each of which had read the table before the other's rows were
\* in it (importers.import_students; courses that differ in case likewise).
TwinsOverlapped ==
    \A u, v \in users : (u # v /\ u.matric = v.matric) =>
       /\ u.by # v.by
       /\ u.by \notin saw[v.by]
       /\ v.by \notin saw[u.by]

\* A polled job settles unless its worker died.
JobsSettle ==
    \A j \in Large \cup Exports :
       job[j].status = "pending" ~>
          (job[j].status \in {"completed", "failed"} \/ job[j].pc = "dead")
=============================================================================
