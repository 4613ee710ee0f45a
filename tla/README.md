# Senet, specified in TLA+

Senet is a multi-tenant university platform (Django and Celery under
`src/backend`, a React client under `src/frontend`). This directory holds TLA+
specifications of its backend and of two pages of its client, TLC models that
check them on small instances, and TLAPS proofs of theorems about them for every
instance.

## 1. Inventory

Paths are relative to `src/backend`, those of the frontend to
`src/frontend/src`.

| Component | State it keeps | Operations | Talks to | Hard behaviour | What makes it correct |
|---|---|---|---|---|---|
| **results: approval pipeline** (`results/services.py`, `models.py`) | `CourseResult.status`, `StudentScore` rows, `ResultAmendment`, `ResultAuditLog` | create a sheet, enter a score, submit, approve, return, ratify one or many, raise / move / apply an amendment | enrolments and assignments (read), notifications (`on_commit`), grading (reads the current rows) | returns and re-entry in any order, batches that roll back, concurrent amendments, announcements after the commit | what Senate ratifies is what was submitted and examined; marks are frozen afterwards except through examined amendments; the trail accounts for everything |
| **results: exports** (`results/tasks.py`) | `ExportJob` | request, generate | Celery, storage | worker death, broker outage | every job settles, and says what it did |
| **cbt: exams and attempts** (`cbt/services.py`) | `Exam`, `ExamAttempt`, `AttemptQuestion`, `Answer` | start, save, save batch, submit, finalize if expired, periodic sweep | CA link, beat | deadline races, two finalizers, resumed starts | one paper, graded once, over the answers given in time |
| **cbt: authoring and papers** (`cbt/services.py`, `assembly.py`, `grading.py`, `views.py`) | `Question`, `Exam.banks`, `AttemptQuestion`, `Answer.response` | write a question, create an exam, draw a paper, answer by place, mark objectively, announce an exam | attempts, notifications | an exam's row before its pool is checked, banks that grow, options shown in another order than stored | papers are whole, scheduled exams can be sat, marks are for what was ticked |
| **cbt: CA link** (`cbt/ca.py`) | `Exam.assessment_item`, `AssessmentGrade` | link, synchronize | assessments | linking while grading | every graded attempt of a linked exam has its CA grade |
| **cbt: proctoring** (`cbt/proctoring.py`) | `ProctorEvent`, `WebcamCapture`, `CheatingFlag` | report, evaluate, dismiss, escalate | notifications | evaluation against review, simultaneous signals | no signal slips through, one flag, a review stands |
| **assessments** (`assessments/services.py`) | `AssessmentItem`, `Submission`, `AssessmentGrade` | create item, submit file, grade, aggregate | results (CA entry), cbt | check-then-act on weights, replace against grade | weights stay near the budget, graded work stays what was graded |
| **grading** (`grading/services.py`, `scales.py`, `tasks.py`) | `AcademicStanding` | grade, GPA, CGPA, carry-overs, classification, compute a department | results | rounding, retakes, ratification between two reads | stored figures mean what they say |
| **notifications** (`notifications/tasks.py`, `services.py`) | `Notification`, phone registrations | queue, send, retry, fan out, register and confirm a number | providers, every app above | repeated fan-outs, death around the provider call, retries, refused broker | nothing acknowledged twice, nothing left queued that nobody holds |
| **result check** (`notifications/resultcheck.py`) | cache entries | answer a query, invalidate | results, cache | compute against invalidate | old summaries stop being served |
| **accounts: registry** (`accounts/services.py`) | `Enrolment`, `CourseAssignment` | enrol, assign, delete, who may access a course | every app | check-then-act on the credit load, one rule written twice | the load stays near its limit, lists and checks agree |
| **accounts: bulk import** (`accounts/importers.py`, `tasks.py`) | `ImportJob`, the imported rows | upload, run, poll | Celery | overlapping imports, worker death | a job says what it did |
| **content** (`content/services.py`) | `Module`, `ContentItem`, `ContentView` | create, edit, delete, reorder, open | accounts | concurrent reorders, two tabs | an order stands, no opening is lost |
| **discussions, announcements** (`*/services.py`) | `Thread`, `Reply`, `Announcement` | post, reply, edit, lock, take down, delete | accounts, notifications | edits of what was taken down | what was taken down stays down |
| **frontend** (`features/results`, `features/board`) | drafts, selections, loaded worklists | type, save, submit; drill, tick, ratify | the API | lost answers, late reloads | what was typed is kept, what is ratified was shown |
| **sign-in, auditor access, tenancy, configuration** | refresh tokens, auditor tokens, a thread-local institution | sign in, refresh; issue, revoke; bind, filter | every request | | not modelled, see section 6 |

`PROJECT.json` lists the same components with their status, and the hazards:
each place where this code could go wrong in a way a unit test would hardly
reach, with the property that guards it.

The components meet in few places. The pipeline reads the registry, queues
announcements and is read by grading, exports and the result check; attempts
write CA grades; everything queues notifications. Models are composed where an
interaction has a hazard of its own: `ResultPipeline` has the registry change
under a sheet and the broker refuse its announcements, `CbtAttempt` the CA
link, `Assessments` the grades that come from there, `ResultCheck` and
`Grading` the ratifications that outdate what they computed, `ScoreSheetPage`
and `SenateBoard` the server behind the page. The other components share no row.

## 2. Plan

Done, in the order it was written:

1. `ResultPipeline`, the abstract `ApprovalChain` it implements.
2. `CbtAttempt` at the level of row locks, with the CA link and the abstract
   `Sitting` it implements.
3. `Delivery`, `ResultCheck` and `Jobs`: what the workers do, with deaths,
   retries and refused brokers; liveness.
4. `Proctoring`, `Grading`, `Assessments`, `Registry`, `Content`, `Receipts`,
   `Board`: requests that read and write in separate statements.
5. `ScoreSheetPage` and `SenateBoard`: the client's two pages with a state that
   can go stale.

6. `Papers`: what questions go through, from the bank to the mark.
7. Theorems: the pipeline's safety properties and its refinement, the exam's,
   those of the records that are counted, summed or ordered, and the figures of
   the GPA engine.

Left: the pipeline's requests split at their row locks and shown to implement
`ResultPipeline`.

## 3. Modules

| Module | Role |
|---|---|
| `ResultPipeline.tla` | the pipeline: state, actions, properties |
| `ApprovalChain.tla` | what the pipeline promises, without rows, actors or trail |
| `ResultRefinement.tla` | the refinement mapping from the first to the second |
| `CbtAttempt.tla` | one exam, its attempts, the clock, the sweep and the CA link |
| `Sitting.tla` | what an exam promises a student, without clock, locks or sweep |
| `CbtRefinement.tla` | the refinement mapping from the first to the second |
| `Papers.tla` | questions, exams, papers and marks, without clock and locks |
| `Delivery.tla` | fan-outs, notification rows and the tasks that send them |
| `ResultCheck.tla` | cached result summaries against ratifications |
| `Jobs.tla` | bulk imports and exports on a worker |
| `Proctoring.tla` | signals, evaluations and reviews of one attempt's flag |
| `Grading.tla` | the GPA engine, and the task that stores what it computes |
| `Assessments.tla` | the CA items of one course term |
| `Registry.tla` | enrolments, assignments and the access rule |
| `Content.tla`, `Receipts.tla` | learning material and its order; who opened it |
| `Board.tla` | threads, replies and announcements |
| `ScoreSheetPage.tla`, `SenateBoard.tla` | two pages of the client and their server |
| `MCResultPipeline.tla`, `MCCbtAttempt.tla`, `MCPapers.tla`, `MCContent.tla` | instances for TLC, and their `.cfg` files |
| `MCPipelineScenes.tla`, `MCCbtScenes.tla`, `MCWorkers.tla`, `MCRecords.tla` | instances of several scenes: a behaviour keeps to the one it begins in |
| `ResultPipelineProofs.tla` | theorems: types and rows of the pipeline |
| `ResultTrailProofs.tla` | what becomes of a sheet over time: trail, desks, amendments, announcements; and that the pipeline implements `ApprovalChain` |
| `CbtAttemptProofs.tla` | attempts, their times, and that they implement `Sitting` |
| `PapersProofs.tla`, `WorkersProofs.tla` | `Papers`; `Delivery` and `Jobs` |
| `FiniteSums.tla` | lemmas on sums and largest members of finite sets |
| `GradingProofs.tla` | `Grading` |
| `RecordsProofs.tla` | `Registry`, `Receipts`, `Board`, `Content`, `Assessments`, `Proctoring`, the two pages; and all components of `MCRecords` together |

### ResultPipeline

A committed request is one action. This is what the code arranges: every
service function is `@transaction.atomic`, its first statement locks the
`CourseResult` row (or the `ResultAmendment` joined to its sheet) `FOR UPDATE`,
and the guards are evaluated after the lock. A refused request rolls back and
is a stuttering step.

| Code | Model |
|---|---|
| `CourseResult.status`, `.lecturer` | `status[s]`, `lecturer[s]`; `None` before the sheet exists |
| `StudentScore` | `rows[s]`, a sequence; a row's position is its id, `supersedes` the position of the row it replaces, 0 for NULL |
| `ResultAmendment` | `amendments[s]`, likewise |
| `ResultAuditLog` | `audit[s]`; `before` and `after` hold a status or a mark |
| tasks queued by `_notify_transition` | `notices[s]` |
| `Enrolment`, `CourseAssignment` | `enrolled`, `assigned` |
| `create_draft_result` | `CreateDraftResult` |
| `record_score` | `RecordScore` = `AddScore` or `ChangeScore` |
| `transition_result` (and `submit_result`, `approve_result`, `return_result`, ...) | `Transition` |
| `batch_ratify` | `BatchRatify` |
| `raise_amendment` | `RaiseAmendment` |
| `amendment_transition`, `_apply_amendment` | `MoveAmendment`, `ApplyAmendment` |
| `enrol_student`, `assign_lecturer` and the deletions in `accounts/views.py` | `ChangeEnrolment`, `ChangeAssignment` |

A mark is a model value standing for a (CA, exam) pair. `Scores` holds what a
client may send, `ValidScores` what the course's weights admit; that no other
mark is ever stored is part of `TypeOK`.

Abstractions. One institution (every query is scoped to the actor's). Roles,
departments and faculties of actors do not change, nor do the weights of a
course. The reason of a return is not represented: it is required to be
non-blank and never read by a guard. `CourseResult.save` and `StudentScore.save`
repeat the guards of the services as a second line; the services' guards
subsume them. The worklists and the anomaly statistics only read.

### ApprovalChain and ResultRefinement

The chain knows desks (`lecturer`, `hod`, `dean`, `senate`, `public`), the mark
each student has, and petitions. The mapping reads the desk off
`CourseResult.status`, the mark off the single current row (what
`grading.services.official_rows` and the exports read), and a petition off an
amendment. `returned` and `draft` are one desk, a correction in place and a
first entry are one step, and the registry, the audit trail and the
announcements are invisible: such steps stutter.

### CbtAttempt

The code of `cbt/services.py` runs at PostgreSQL's READ COMMITTED and leans on
one row lock per attempt. The model therefore splits work exactly there:

* a request is split where it waits for the row lock (`_lock_in_progress`).
  What it knew before the wait, its view of the status (`saw_open`) and its
  comparison with the clock, may be stale after it;
* a finalization is split at its second reading of the clock and at its commit.
  Whether the end is automatic is decided when the lock is got (`Finalize`); the
  end itself is stamped after the answers were graded (`RecordEnd`), so a
  submission made in time may bear an end past the deadline. What it wrote is
  held in `tx`, whose entry is also the row lock: while it is there, nobody
  else's `FOR UPDATE` returns, `SKIP LOCKED` skips the row, and plain reads see
  the old attempt. `Commit` publishes it, `Abort` is the death of its process.

| Code | Model |
|---|---|
| `timezone.now()` | `clock`, advanced by `Tick` between any two steps |
| `ExamAttempt` with its `AttemptQuestion` rows | `attempt[st]`; created with its paper in one transaction |
| `Answer` | `answers[st][q]`: `right`, `wrong`, `blank`, or `None` without a row |
| `start_attempt` | `StartAttempt` (the checks), `CreateAttempt` (`get_or_create`) |
| `_get_own_attempt` in the views | `LoadAttempt` |
| `finalize_if_expired` | `CheckDeadline`, then `FinalizeIfExpired` under the lock |
| `_reject_closed_attempt`, `save_answer`, `save_answers_batch` | `CheckDeadline`, then `SaveAnswers` under the lock |
| `submit_attempt` | `SubmitAttempt` |
| `_grade_objective`, the first half of `_finalize` | `Finalize`, `Awarded`, `ManualPending` |
| the second half of `_finalize`: `submitted_at`, the status, the exam's link | `RecordEnd`, `EndStatus`, `ItemToSync` |
| `finalize_expired_attempts` | `SweepGather` (the unlocked read), then `SweepFinalize` or `SweepSkip` per candidate |
| `link_exam_to_ca_item` | `LinkExam`, `LinkSelect`, `LinkSync`: outside a transaction each statement commits by itself |
| `sync_ca_grade_for_attempt` | `ItemToSync` in `RecordEnd`, the write in `Commit`; `LinkSync` |

Abstractions. A score is the set of questions whose marks were awarded, which
tells apart more than the sum does; `max_score`, the marks and the scaling to
the item are arithmetic on it. The exam, its pool and the enrolments are fixed,
and the pool holds enough questions (`assemble_attempt_questions` refuses
otherwise). Readings of the clock that nothing separates agree; the order of options
and questions on a paper is left out. Which request a user may make on whose
attempt (`_require_owner`, `can_manage_exam`) is a check on unchanging data. A
request that dies outside a finalization has written nothing and leaves no
trace, except that it stops, which requests are always free to do. The code
has no operation that marks short answers, so an attempt that awaits marking
stays `submitted` or `auto_submitted`.

### Sitting and CbtRefinement

A sitting has a paper, drawn once; answers, to that paper and until the sitting
is closed; and one result, a function of the paper and the answers. The mapping
takes the result from a settled attempt and hides everything else: creating an
attempt is `Sit`, storing answers is `Answer`, committing a finalization is
`Close`, and all other steps stutter. A second paper, a save that slips in
between grading and commit, or a second grading would each be a step no sitting
can take.

### Papers

| Code | Model |
|---|---|
| `create_question`, `_validate_question_payload` | `CreateQuestion`, `Accepted`, `Stored` |
| `BankQuestionsView.post` | `PostQuestion` |
| `create_exam` | `CreateExam` (the insert), `SetBanks`, `CheckPool`; `CreateExamDies` between them |
| `notify_opened_exams` | `AnnounceOpened` |
| `assemble_attempt_questions`, `_option_order` | `StartAttempt`, with `Draws` and `OrdersOf` |
| `_to_stored_response`, `_upsert_answer`, `get_options` | `SaveAnswer`, with `Taken`, `ToStored` and `OnScreen` |
| `_grade_objective`, `_is_correct` | `Settle`, `Correct` |

`ticked` remembers what the student meant, which no table does: the options at
the places ticked, in the order the screen showed. A text is a number and
`Normal` is `normalize_text` on it. Marks per question are left out, and a post
is a request that changes no row: it ends in an error before one is written.

### Delivery

A fan-out (`notify_users`) and a delivery (`send_notification`) run in
autocommit, so each of their statements is a step, and a process may die before
any of them. `note` is the `Notification` row of each dedupe key, `broker` the
tasks waiting in Celery.

| Code | Model |
|---|---|
| `notify_users`, `queue_notification` | `FanoutStart`, then per key `FanoutCheck` (address, channel, existing row), `FanoutCreate` (the insert, or the unique constraint's exception, which ends the fan-out), `FanoutEnqueue`; `FanoutEnd` |
| `_enqueue` | `FanoutEnqueue`: the task, or a failed row when the broker refuses |
| `send_notification` | `TakeTask`, `Send`, `MarkSent` |
| `_record_failure`, `task.retry` | `RecordFailure`, `Reschedule` |
| a worker's death | `FanoutCrash`, `SenderCrash`; what it held is in `lost` |

`acknowledged` and `doubtful` are the provider's side: messages it took and said
so, and messages it took although the call failed. Celery acknowledges a task
when a worker takes it, which is its default and is not changed in
`config/settings.py`: a task in the hands of a worker that dies is gone. A call
to the broker that raises is assumed not to have left a task behind. Events
without a dedupe key write a row per call, which is the case of one fan-out.

### ResultCheck

The official rows of a student are known by a version that counts their
changes. `published_summary` is `Lookup`, `LatestTerm`, `Cumulate`, `ReadTerm`
and `Store`, one per query, and a summary carries the version each of them read:
`term` for the session and semester it is labelled with, `cgpa` for the
cumulative average, `gpa` for the rows of that term. A summary is up to date
(`Current`) only if all three are, so an old label beside new averages is a
mixture like any other. `PublishResult` and `AmendResult` are what the pipeline
does to the rows, `Announce` the task that drops the cached summary, `Expire`
the cache's timeout. A summary of no rows is `None`, which the cache does not
tell from no entry.

### Jobs

An import is `Submit` (inside the request, or as a job when the file is large),
`Process`, `ReadTable` (validation against the table and the file so far,
`Accepted`), `InsertRows` (one transaction) and `ReportImport`; an export is
`Submit`, `Process`, `Render`, `CompleteExport`. `Fail` is any exception, `Die`
the death of the process. A row has the key the table holds unique and the one
that only the import compares: for students email and matriculation number, for
courses the code and the code in capitals.

### Proctoring

`RecordSignal` inserts an event or a capture, `CountEvents` and `CountCaptures`
are the two reads of `_tripped_reasons`, `RaiseFlag` is `get_or_create`,
`NotifyFlag` hands the announcement to the broker, and `RefreshReasons` saves
the reasons of a flag read as raised. `Review` is `dismiss_flag` or
`escalate_flag`. Signals are counted per threshold.

### Grading

`GradeForScore`, `Gpa`, `TermGpa`, `BestAttempt`, `Cgpa`, `Carryovers`,
`StandingFor` and `Classify` are the functions of `grading/scales.py` and
`grading/services.py` in hundredths of a point; `ComputeStart`, `ComputeTerm`
and `ComputeStore` are the reads and the write of `compute_department_standing`
for one student, with `RatifyRow` and `AmendRow` changing the rows in between.
Sums are taken over the set of row numbers they count.

A scale is a list of bands as an institution may enter it: points are counted in
parts of a point (`PointUnit`), may be negative and need not rise with the
score, and two bands may begin at one score, in which case the earlier counts.
`Round` takes a half away from zero, as `ROUND_HALF_UP` does. `StandingIsTrue`
says what the figures mean without computing them: the average as the nearest
hundredth (`IsNearest`), the attempt that counts as one worth the most points
and, among those, with the highest score (`IsBest`), the carry-overs as the
courses whose best attempt is below the pass mark, the class as that of the
highest band reached. It speaks of standings that no change of the rows has
overtaken. Figures stored from rows that changed meanwhile stay wrong until the
department is computed again; the code promises nothing about them, and neither
does the property.

A course's credit units and the institution's scale do not change. Sums are
exact, whereas the code divides with the 28 digits of Python's `Decimal`.

### Assessments

Each request is its check and its write: `CheckItem` and `InsertItem`
(`create_item`), `CheckSubmission` and `StoreSubmission` (`submit_file`),
`CheckGrade` and `StoreGrade` (`grade_student`). `SyncGrade` is the CBT link,
one transaction. `overtaken` and `stale` remember that a write came after
another's, which the table does not. The CA weight of the course is fixed;
whether a grade is released to its student is a field nothing reads here.

### Registry

`enrol_student` is `CheckEnrolment` and `InsertEnrolment`; the assignments are
`AssignLecturer` and `ImportAssignments`; deletions are one statement each.
`CanAccessCourse` and `Accessible` are the two forms of the access rule, as
`CanManageExam` and `VisibleExams` are for its examinations.

### Content and Receipts

Only the reorders run in a transaction: `ReadSiblings`, one `SavePosition` per
row, which locks it, and `CommitOrder`. Every other request is a check and a
write (`CheckCreate` and `InsertRow`, `CheckUpdate` and `StoreUpdate`), and
`DeleteRow` cascades. `settled` is the last order committed for each shelf.
`Receipts` takes the part students see: `record_view` is `OpenItem`,
`GetReceipt` and `CountView`, against publishing, withdrawing and deletion.

### Board

A request reads a row and decides (`EditThread`, `EditReply`, `EditNotice`,
`TakeDown`, `CheckReply`), then saves the fields it names (`Save`, after
`InsertReply` for a reply); `DeleteNotice` removes the row. A request that saves
several fields is like requests that save one each, since nothing relates them.
That a reply can still arrive in a thread locked since is the code's behaviour
and the model's.

### ScoreSheetPage and SenateBoard

React state and server state side by side. On the score sheet, `TypeMark` is an
input, `SaveDraft` starts the loop of `saveDraft`, `CreateSheet`, `SendRow` and
`RowAnswered` are its requests and answers. `AskSubmit` opens the confirmation,
and it alone asks for no unsaved row and no save in progress; `SubmitSheet`,
`ServerSubmits` and `SubmitAnswered` are `doSubmit`, which checks nothing again
and may be tried again from the dialog that a failure leaves open, and
`CancelSubmit` closes it. Colleagues write to the same sheet throughout. On the Senate board, `TurnTo` is a change of scope, page or search
with the effects that clear the selection and reload; `RowsArrive` is the answer
of the last request, the only one `useAsyncData` heeds; `DoRatify` sends what is
ticked. The confirmation covers the page without holding the keyboard's focus,
so everything below it can still happen. Every answer may be lost.

## 4. Runs

| Run | Instance | Checks |
|---|---|---|
| `pipeline` | two scenes: one sheet, one student, seven actors (a second HOD of another department, a dean without a faculty and a school administrator among them), marks `low`, `high` and one out of range, free registry, one amendment, at most 10 audit entries; and two sheets with one mark, ratified in batches of up to three ids in any order with repetitions, the broker refusing any suffix of the announcements | `TypeOK`, `AuditAccounts`, `RatifiedWasExamined`, `NoticesFollowCommits`, `HistoryIsAppendOnly`, `ImplementsChain` |
| `amendments` | a sheet just ratified with two students, two amendments over two marks | `ScoreHistory`, `SupersededByAmendment`, `AmendmentWasExamined`, `FrozenAfterSubmission` |
| `amendment_original` | one student, two amendments | `AmendmentReplacesItsOriginal`, **violated** |
| `cbt_attempt` | three scenes, with a choice and a short-answer question of which one is drawn, instants 0 to 3, open from 1 to 2, a duration of 1: one student with two concurrent requests of any kind and two overlapping sweeps; two students, one request and a worker that takes one attempt per sweep; one student, and a lecturer who links and relinks the exam to two items | `TypeOK`, `ScoreMatchesAnswers`, `EndsInTime`, `CaGradesAreEarned`, `SettledIsFinal`, `ExpiredIsNotLetGo`, `ImplementsSitting` |
| `cbt_late_answer` | one student, one request, one worker | `NoLateAnswers`, **violated** |
| `cbt_link_race` | one student, one lecturer, one item | `LinkedScoresArrive`, **violated** |
| `workers` | four scenes: one event for two recipients of whom one can be reached, two fan-outs, two senders, one retry; one student whose rows change three times, two checks; a large and a small import that share a matriculation number and an email, one export; two enrolments at once, and the assignments | `AcknowledgedOnce`, `QueuedIsInHand`, `QueuedSettles`; `SummariesCatchUp`; `JobsTellTheTruth`, `TwinsOverlapped`, `JobsSettle`; `LoadBounded`, `ListsMatchAccess`; under `WorkersSpec` |
| `records` | nine scenes, each with two requests at once where requests can overlap: see below | `SignalsRaiseFlag`, `ReviewStands`; `StandingIsTrue`; `CaBounded`, `GradedWorkStays`; `OrderStands`; `NoViewIsLost`; `RemovalStands`; `TypedIsKept`; `BatchIsWhatWasShown`; `PapersAreWhole`, `ScheduledExamsCanBeSat`, `TickedIsGraded`; and `RecordsTypeOK` |
| `content_blanked` | one module, one item, one lecturer who empties a field | `ItemsCarryPayload`, **violated** |
| `papers_opened`, `papers_echo`, `papers_post` | one bank of at most two questions, one exam with shuffled options, one student | `OpenedExamsCanBeSat`, `EchoShowsTicked`, `PostedQuestionsAreAdded`, each **violated** |

Bounds of the pipeline. Ten audit entries hold a sheet that is created, marked,
submitted, returned by some office, corrected and ratified, which is the
shortest history in which ratification could miss an approval or a mark;
`AuditAccounts` and `RatifiedWasExamined` speak of one sheet, and the only
action that touches two is `BatchRatify`, which has its own scene. The two valid
marks are interchangeable, which the symmetry set of the scenes uses. Two
amendments
are the least that can interfere; `MaxRows = 4` lets both be applied, and the
bound of 40 audit entries is never met there. Three ids over two sheets force a
repetition. The bounds stop the model from growing, not the system, hence
`CHECK_DEADLOCK` stays on: a registry change or, at rest, the remaining
requests keep every state live or stuttering.

Bounds of the exam. Attempts share nothing but the sweep and the linked item,
so one student is enough for what happens to one attempt; two requests and two
workers give every pairing of contenders for its lock. An attempt started at 1
runs its duration, one started at 2 is cut by the window, and at instant 3 both
have expired. Two students and `Limit = 1` make the sweep leave a
candidate behind. `CHECK_DEADLOCK` is off
where the sweep runs: when the last instant has come, the
exam is over and a student never sat it, nothing is left to happen. What a
larger instance would add to the safety properties is settled by the proofs
below.

Bounds of the workers and the records. The components of `MCWorkers`, and those
of `MCRecords`, share no row that one of them writes and call nothing of each
other, so a behaviour
begins in a scene and stays there; that explores each component in full and
none of the products, which would add states and no behaviour. Two requests are
the least that can overlap, and the hazards are all of pairs. Otherwise:

* delivery: one retry tells the last attempt from the others; the second
  recipient has no address;
* summaries: three changes let the three reads of a summary each see other
  rows;
* proctoring: one threshold of two events and one of one capture, so that the
  events and the captures are each able to trip last;
* grading: three courses of 3, 5 and 0 units over two terms, so that averages
  are fractions, exactly half a hundredth, or have nothing to divide by; both
  policies, scores on both
  sides of the pass mark, two changes of the transcript: a retake, an amendment
  or a second course;
* assessments: a budget of 4 against weights of 2 and 5, so that one item
  never fits, two fit exactly and a third overdraws; scores on both sides of the
  scale;
* registry: every role, with and without a department or a faculty, and three
  courses of which two exceed the limit;
* content: one module of two items, two orders, one move to the top;
* receipts: one item, at most four openings in two tabs;
* board: a lecturer and a student, one thread with a reply, one announcement;
* papers: two banks, two questions out of five kinds of post, texts of which
  two read alike and one is blank, one exam over one bank or both, shuffled or
  not, one student;
* pages: two students with a valid and an invalid mark; two sheets of two
  faculties, two searches, two pages.

In `MCRecords` the two requests are interchangeable, which the symmetry set
uses; the run checks no liveness. `CHECK_DEADLOCK` is off in both and in
`MCContent`: imports finish, messages are delivered, terms end, and then nothing
need happen.

Fairness. No property of `cbt_attempt` needs any. That students who never come
back are settled all the same is not promised: only the sweep can do it, the beat
schedule in `config/settings.py` would queue it every
`CBT_FINALIZE_INTERVAL_SECONDS`, and `fly.worker.toml` starts a worker without a
beat. What the code does promise is `ExpiredIsNotLetGo`: whoever takes up an
attempt past its deadline, be it a sweep or any request of its student, does not
let go of it unsettled unless a process dies; one that skips it or gives way
leaves it in the hands of another. `FairSpec`, which `cbt_late_answer` uses so
that its counterexample is not merely a system that stopped, assumes that
requests and sweeps which have begun go on, that waiters for a row lock get it
in turn, and that a finalization tried again and again is not killed every
single time (strong fairness, since an `Abort` disables the rest of it). It
assumes nothing of when a sweep begins.

For the workers, `WorkersFairness` is weak fairness on single steps: a worker
goes on with the fan-out, the delivery or the job it took (`FanoutStep`,
`DeliverStep`, `WorkStep`), and takes a task when one is waiting; a request goes
on with the summary it began to compute (`CheckStep`); and the cache drops an
entry when its time is over (`Expire`, the timeout given to `cache.set`).
Nothing is assumed of when fan-outs, checks or uploads begin, nor that a worker
lives: `QueuedSettles` and `JobsSettle` except what died in its hands, because
the code does not pick that up again. `SummariesCatchUp` needs no announcement
to arrive; it is the timeout that keeps it.

`cbt_late_answer`: `save_answer` and `save_answers_batch` compare the clock with
the deadline, then wait for the row lock, and under it check the status alone.
An answer that waited past the deadline is stored as long as nobody has
finalized the attempt, although the docstrings promise rejection. The answer is
then graded with the others, so `ScoreMatchesAnswers` holds all the same.

`cbt_link_race`: `link_exam_to_ca_item` saves the link and then selects the
graded attempts. A finalization that read the exam while it was unlinked and
commits after the selection is seen by neither side, and that student's CA
grade is missing until somebody links the exam again.

`amendment_original` shows a disagreement between the code and its own words.
`raise_amendment` records the row an amendment corrects in `original_score`,
but does not look for an amendment that is already open, and `_apply_amendment`
retires whichever row is current when it runs. Raise two against one row, apply
both, and the second silently replaces the first one's correction; its
`original_score` still names the row that was retired before.

`content_blanked`: `_validate_payload` takes an empty string in a PATCH for a
field left out and looks at the stored value instead, but `update_item` writes
every field that is not `None`, the empty string included. The page is accepted
with the body it had and stored without one.

`papers_opened`: `create_exam` inserts the exam and its banks before it counts
the pool, outside a transaction. The refused exam stays, and when its window
begins `notify_opened_exams` tells the students to sign in and start it.

`papers_echo`: answers are stored as places in the bank's list of options and
returned so when an attempt is resumed, while the same payload shows the options
in the paper's order and says that the client refers to them by position in it.

`papers_post`: `CreateQuestionSerializer` requires `bank`, and the view passes
`bank` again beside what was validated, so every well-formed post ends in a
`TypeError`.

What the passing runs show beyond their properties' names. `CaBounded` and
`LoadBounded` state how far the unlocked checks can be overrun: by one request
less than ran at once, each of the heaviest kind, and not further, whatever
order they come in. `GradedWorkStays` and `TwinsOverlapped` likewise say that
nothing but an overlap of two requests leads to a grade without its file or to
two imported students with one number. (An administrator who creates or edits a
student by hand may repeat a number too; that request is not modelled.)
`AcknowledgedOnce` bounds what a provider that takes a
message and fails to say so can cause.

The pipeline's runs assume no fairness: it promises no progress, since each step
waits for a person.

## 5. Proofs

Each theorem is for all values of the constants, from the `ASSUME`s of the
modules alone: no bound of section 4 enters. Every invariant and action property
of a passing run is stated by a theorem. `PROJECT.json` lists the theorems; this
section says why they hold.

### The pipeline

Assumed: the functions that describe actors have the stated types, `None` is
none of the values it stands beside, marks are not status words.

* `TypeCorrect` (`TypeOK`). One lemma per action. Proposals of amendments are
  checked when raised and not when applied, so the invariant must carry the range
  of marks through `amendments`.
* `ScoreHistoryHolds` (`ScoreHistory`). The partial unique index and the
  retirement of superseded rows are in it, and it is inductive once `TypeOK` is
  known: appending the row of a student without a current row, rescoring a row
  and superseding the current row each keep it.

`ResultTrailProofs` first shows (`EveryStep`) that a step, seen from one sheet,
is one of few: a move, whether by a transition or in a batch, a mark, a step of
an amendment, or nothing. The properties of the trail, each about one sheet, are
then proved for these.

* `RowsFrozen` (`FrozenAfterSubmission`): an action property, from the types.
* `HistoryAppended` (`HistoryIsAppendOnly`): the trail only grows, a ratified
  sheet stays so, and superseded rows and settled amendments are never written
  again. What an application retires is a current row, a mark is entered in a
  current row, and no transition of an amendment begins at `applied` or
  `returned` (`StepLeavesSettled`).
* `TrailAccounts` (`AuditAccounts`). A status, a row or an amendment is accounted
  for by the last entry about it. A step writes one entry or two; what it writes
  about becomes the last, and everything else keeps its last entry
  (`LaterEntry`).
* `AmendmentsMatchRows` (`SupersededByAmendment`). `SheetMatched` adds that
  amendments exist on ratified sheets only, where no mark can be entered, so that
  a row is superseded by an amendment or not at all.
* `RatifiedExamined` (`RatifiedWasExamined`). The property speaks of ratified
  sheets, so `SheetExamined` says for each desk how the trail of a sheet lying
  there ends: on the Dean's desk with a submission by the sheet's lecturer and
  an approval by its HOD, consecutive and after every mark.
* `AppliedExamined` (`AmendmentWasExamined`): the same for amendments, desk by
  desk, with the entries of other amendments in between.
* `NoticesFollow` (`NoticesFollowCommits`): by counting announcements and the
  entries that caused them.
* `PipelineImplementsChain` (`ImplementsChain`). `DeskView`, `MarksView` and
  `PetitionsView` are what the mapping shows, and each action changes them as one
  step of `ApprovalChain` does, a batch several desks at once. The mark a reader
  sees is that of *the* current row, hence `ScoreHistory` before and after the
  step.

### Examinations

Assumed: `ExamAssumption` (the window is not empty, the duration, the paper and
the sweep's limit are positive) and `NoneAssumption` (NULL is none of the values
it stands beside, and requests are not workers).

`AttemptTypeCorrect`, `ScoresMatch`, `CaGradesEarned` rest on `IInv`, since none
of the three invariants is inductive. A score was read before the commit that
publishes it, so `ResultOnItsWay` says of every finalization under way that its
attempt is still in progress and that its result is that of the answers as they
are *now*: saves must not get in between, and they do not because they wait for
the lock. Releasing a lock must not disturb the other holders, so
`HoldersInOrder` ties each lock to one request or to the head of one sweep.
`RequestsInOrder` keeps requests on attempts that exist, and `LinkersInOrder`
says that what a linking request selected is graded. One lemma per action shows
that their conjunction is kept, with the steps that only move a request on
(`RequestStep`), take a lock (`LockStep`) or release one (`ReleaseStep`) factored
out. `SettledFinal` then looks at the three actions that write an attempt or its
answers.

`EndsAreTimely` (`EndsInTime`) needs `TimeInv` beside it: whoever holds a lock and
is not past the deadline is a request that submits, and it stays one until it
commits, because nothing moves a request that holds a lock; and an end called
automatic was so at the first reading of the clock, which the second follows.

`ExpiredNotLetGo` (`ExpiredIsNotLetGo`) rests on `SeenInv`: a request that loaded
an attempt which is still in progress saw it open, so past the deadline its check
leads to the lock and not to a refusal. A sweep skips only what is locked or
settled, and a lock has a holder, who has the attempt in hand (`LockedIsHeld`).

`AttemptImplementsSitting` (`ImplementsSitting`): under `IInv` each step maps to
a step of `Sitting` or to a stutter.

`PapersProofs`, from `PapersAssumption` (payloads, forms and texts are of their
types, the banks are finite): `PapersTyped`, `PapersWhole`, `ScheduledHolds`,
`MarksAreForTicks`. Two facts carry them. The banks of an exam are empty until
they are set, once, and questions are never deleted, so a pool only grows once it
was counted and a paper drawn stays a paper of its exam. And what is stored for a
question is what was ticked there (`AsTicked`), because `Taken` lets only places
pass that the order of the row has; the marks, given from the one, are therefore
those for the other.

### Workers

`DeliveredOnce`, `QueuedRowsAreHeld`. `AcknowledgedOnce` counts messages and says
nothing of who could send another, so `DeliveryInv` adds, per key, that a row has
at most one carrier (a fan-out about to enqueue it, a task in the broker or a
sender) and what each carrier's retries say of the row's attempts and of the
messages already taken. The lemmas follow the carrier from hand to hand.

`JobsAreTrue` (`JobsTellTheTruth`), with `ImportInv` and `ExportInv` tying the
place a job has reached to its status, its rows and its report.

`TwinsOnlyOverlap` (`TwinsOverlapped`). `AcceptedInv`: what an import accepted is
apart from the rows of all imports it saw, and those it saw have inserted. What
it accepts is a recursion over its file, of which the function and what it
computes are shown to exist up to any row, and to keep its rows apart, by way of
the first row at which they would not (`LeastNumber`, `ScanExists`, `ScanApart`).

### Records

`LoadStaysBounded` (`RegistryTypeOK`, `LoadBounded`). The bound is not inductive:
a request past its check is about to add. `LoadInv` bounds the units there are
*and* those about to be added: a request that passes the check knows that the
units there are with its own are within the maximum, and the other requests add
the heaviest course each at most. Inserting moves units from one sum to the
other.

`CaStaysBounded` (`CaBounded`). `WeightBound` is the same for the weights of
items; `CountBound` is the other half of the property, about the number of
requests past their check. The CA of a student is within the items because a
grade is within the scale and there is one per item at most, which makes
`AggregateCa` the sum of what each item gave.

These sums are folds over finite sets, and the library's induction over finite
sets takes the property as a parameter, which the provers here cannot
instantiate. In `FiniteSums`, `SmallestSet` replaces it: the strict subsets of a
finite set are well founded, so if some subset failed there would be a smallest
that fails. `SumOfPick`, `SumOfRemove`, `SumOfAdd`, `SumOfScaled`, `SumOfSubset` and
`SumOfBounded` follow, once `SumExists` has shown that the recursion behind the
fold has a solution. `LargestNumber` does the same for `Max`, and `LargestBy`
for a choice of the member with the largest key.

`StandingsAreTrue` (`GradingTypeOK`, `StandingIsTrue`), in two parts. The first is
about the functions, in any one state. A scale of any order and any points has a
band that comes first among those a score reaches, and a last one
(`FirstAndLast`), so every score has a grade and the letter of a row gives back
the points of its band (`GradeOfScale`). The fold of `Average` is a sum, and
`Round` gives the nearest whole number, the one further from zero if two are as
near, for numerators of either sign (`RoundIsNearest`); without units there is no
average. What `_best_attempt` picks is worth most, and no attempt worth as much
has a higher total (`BestIsBest`). `ClassIsTrue` does the same for the bands. The
second part is about the computation that runs while rows change. `GradingInv`
carries that the letter of each row is that of its score, the one fact the
averages need of the transcript; that a run which nothing has overtaken holds the
figures of the rows as they are now (`RunsTruly`); and that so does what was
stored and not overtaken since (`StoredTruly`). `GradingAssumption` asks of the
scale what `Institution.clean` does, that it is not empty and its letters are
unique, and that what it holds are numbers, in whatever unit makes them whole.

`OrdersStand` (`OrderStands`). A row that a committed reorder listed stands at ten
times its place until it is moved singly (`RowState`), so `settled` and `position`
agree. An insert that read the last position long ago could upset this, but its
row is fresh: no reorder has listed it and no other insert has its id
(`InsertIsFresh`).

`GradedWorkHolds` (`GradedWorkStays`). `ReadTruly` says what a request still knows
of what it read: a request that saw a grade before it uploads saw no submission.

`SignalsAreNoticed`, `ReviewsStand`. As long as there is no flag, signals over a
threshold are known to an evaluation that has yet to act, because whichever
counts last counts all of them (`SomeoneNotices`).

`ListsMatch` (`ListsMatchAccess`), by role and in every state; `ViewsAreCounted`
(`NoViewIsLost`); `RemovalsStand` (`RemovalStands`), where `RowsInOrder` and
`InsertsAreAlone` say that a row not yet born is not removed and that nobody else
writes a reply being inserted.

`TypedMarksKept`, from the invariant that a draft is the mark typed and that what
the page believes saved was recorded (`SettledIsRecorded`, `StoredIsRecorded`);
`BatchesAreShown`, from `TickedIsShown`: what is ticked is listed, and unless it
is empty nothing is loading.

`RecordsAreTyped` (`RecordsTypeOK`). A step of one component leaves the variables
of the others alone (`EachTakesTurns`), so a behaviour of the records together is
one of each component (`EachBehaves`), and the theorems about the components hold
side by side. What is new are the types of four of them, of which three need more
than their own conjuncts: an item's row is written only while its id is reserved
(`OrderInv`), a tab that is to count leaves room below the bound for it
(`ReceiptsTyped`), and of the posts of a board only finitely many were ever
written, so that each has a number (`BoardTyped`). An idle request carries some
item, student, user or post, hence the assumptions that there are any.

### Model-checked only

* `QueuedSettles`, `SummariesCatchUp`, `JobsSettle`: liveness
  under fairness is beyond the prover.

## 6. Not modelled

* Sign-in, refresh tokens, lockouts, phone registration, PINs and limits on
  texts: they decide who may act, and the models take an actor whom they let
  through.
* Auditor access: single rows written by single statements, and reads.
* Tenancy: each model is one institution. That a queryset never leaves it is
  what makes the models sound, and is not checked by them.
* AI drafting of questions, the provider clients, the rendering of broadsheets
  and transcripts: output, without state of their own.
* Waiting for a row lock inside the pipeline's requests, and the deadlock of two
  batches: the database rolls one back, which is a refused request there.
* The worklists, anomaly statistics and external examiners' reports: no guard
  reads them.
* Settings, migrations, serializers' formats and the demonstration data.
* The client's other pages, which show what they load and send one request per
  click.
