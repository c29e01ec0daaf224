# A verification project for Vroom HR

TLA+ modules for Vroom HR (the backend in `src/backend`, and the two parts of the
frontend that keep state), model-checked with TLC on small instances. Every safety
property that a run checks is also proved with TLAPS, for every number of candidates,
requests, mails, handlers and jobs.

1. [The system](#1-the-system)
2. [The modules](#2-the-modules)
3. [The runs](#3-the-runs)
4. [The proofs](#4-the-proofs)
5. [Where the code and its documentation disagree](#5-where-the-code-and-its-documentation-disagree)
6. [What is not modelled, and why](#6-what-is-not-modelled-and-why)
7. [The plan](#7-the-plan)

To run it: `tlc -workers 2 -config MCOnboarding_hr.cfg MCOnboarding` (and so on
for the other `.cfg` files, each named `<module>_<run>.cfg`);
`tlapm Onboarding_proofs.tla` (and the other `_proofs` modules).

Paths below are relative to `src/backend/src/modules/` unless they begin with
`src/`, and a bare file name is the file of that name there.

## 1. The system

Vroom HR is a FastAPI process (asyncio, SQLAlchemy over PostgreSQL, READ
COMMITTED), three ARQ workers on Redis (`gmail`, `knowledge_base`, `onboarding`),
MinIO for files, Google Workspace (Gmail, Calendar), a language model and a Next.js
frontend. One deployment serves one company. Its core is what `CONTEXT.md` calls the
Backbone Flow: an email arrives, an application is recognised, a candidate is
reviewed, interviewed and accepted, and onboarding turns the hire into an active
employee.

What makes it hard is the same everywhere:

* A request has one database session, committed on success and rolled back on an
  exception (`identity/container.py:114-128`). Almost every handler reads rows
  **without a lock**, decides, `await`s something (the database, Google, Redis,
  MinIO, a model) and writes. Two handlers interleave at every `await`, and also
  between processes. `FOR UPDATE` is taken in seven places only: the onboarding
  process (`process_repository.py:166`), three recruitment rows (`repositories.py:111,
  696, 1088`), the Google connection, the organization's settings and an employee
  request under review.
* The session holds the objects it loaded (`expire_on_commit=False`), and its
  UPDATE contains only the columns whose value differs from the *loaded* one. A
  write can therefore silently not happen when the loaded value was stale, and two
  handlers may each win some columns of one row.
* External effects (a Calendar event, a sent email, a MinIO object, a queued job, a
  key in Redis) are not in the transaction. A crash or an error between the two
  leaves one without the other.
* ARQ delivers a job again after a worker's death, so every consumer may run
  twice; but it runs a job again after an *exception* only if that is `Retry`.
* A stream of an assistant is sent while its transaction is open, and read by a
  panel that may stop, time out or go away; the tabs of a browser share one cookie jar.

### Components

| Component | Status | State | Operations | What makes it correct |
| --- | --- | --- | --- | --- |
| **Onboarding** (`onboarding`) | modelled | process, tasks and audit entries of a candidate; `employees.is_active` and setup columns | consume an event; complete or revert a task; edit the setup; activate | one process per candidate; active exactly when everything is done; a completed process is frozen |
| **Candidate lifecycle, interviews** (`recruitment`) | partly | `candidates.status`, `interviews`, Calendar events | schedule, reschedule, cancel, complete; accept, reject, archive | rows and Calendar agree; ended interviews stay ended; only committed acceptances are published |
| **Retention** (`retention_job.py`) | partly | a batch of rejected candidates | select, delete | the batch is stale while it is worked off |
| **Hand-over** (`event_publisher.py`, `onboarding/worker.py`) | modelled | ARQ jobs in Redis | publish, consume, retry | no hire lost, none invented |
| **Job openings, assignment** (`job_opening_service.py`, `candidate_lifecycle_service.py:622-806`) | partly | `job_openings.status`, `candidates.job_opening_id` | open, close, cancel; assign, reassign, unassign | a decided candidate keeps its opening; nobody is put on a draft |
| **Inbox, job applications** (`inbox_service.py`, `job_application_*`) | partly | inbox items, applications, link proposals | split, dismiss, correct, promote, link across threads | one candidate per application; links are those of the thread and those HR confirmed |
| **CV pipeline** (`cv_processor.py`, `review_service.py`) | partly | `cv_documents`, state of the email | deduplicate by checksum, store, read, parse, review | one document per file |
| **Calendar conflicts** (`interview_scheduler_service.py:1100-`) | partly | an interview's etag, `calendar_conflicts` | conditional PATCH, capture a conflict, resolve it | an etag vouches for what HR sees |
| **Gmail synchronisation, import** (`email_sync_service.py`, `import_service.py`) | modelled | cursor, `email_messages`, the import's keys in Redis | poll, recover, start, cancel | the cursor covers what it passed; no import runs without a runner |
| **Classification** (`classification_service.py`, `ai_classifier.py`, …) | partly | verdicts, rollout events, applications and inbox items it creates | judge a batch, roll a classifier out | no application is swallowed; the rollout does what it says |
| **Outbound email** (`outbound_email_service.py`) | modelled | `outbound_emails` | create, send, retry | sent was delivered |
| **Google connection** (`organization_google_connection_service.py`) | modelled | tokens, OAuth state, calendar | connect, renew, disconnect | a state is used once; account, token and cursor change together |
| **Accounts and sessions** (`auth_service.py`, `token_service.py`, `password_reset_service.py`) | modelled | `users`, refresh and reset tokens | first-run setup, login, refresh, logout, reset, roles | one founder; one session per account |
| **AI configuration** (`organization_ai_config_service.py`) | partly | one settings row | key, consents, switches, rollout | a revoked key is gone |
| **Employee** (`employee`) | partly | `employees`, departments, positions | create, update, deactivate, promote, import | unique codes; nobody in a department that is gone |
| **Document vault** (`employee/application/document_service.py`) | modelled | `employee_documents`, MinIO | upload, download, delete | a row and its file go together |
| **Employee requests** (`employee_request`) | modelled | leaves and overtime | submit, cancel, review | reviewed once |
| **Attendance** (`attendance`) | modelled | a record per employee and day, the allow-list | check in and out, correct | the first check-in stands |
| **Payslip** (`payslip`) | modelled | drafts and published payslips | edit, publish, delete | published for good |
| **Knowledge base** (`knowledge_base`) | partly | documents, chunks, objects, jobs | upload, replace, delete, ingest | no chunk without its document |
| **Assistant** (`assistant`) | partly | chat sessions, turns, tool calls | ask, stream, draft, feed back | a turn ends in words; telemetry stays with its owner |
| **Evaluation** (`evaluation_service.py`, `gmail/evaluation`) | partly | corrections, samples, reports | record, opt in, commit, measure | opted in and redacted; each item counted once |
| **Administration** (`identity/api/admin_router.py`) | partly | login domains, tools of the assistant | edit a list, with its audit entry | the settings are what the edits ask for |
| **Frontend** (`src/frontend`) | partly | the chat panel; the cookies and tabs of a browser | ask, stop, decide; call, refresh, sign in and out | an answer is shown once and whole; no call waits for nothing |
| Notifications, embedding service, schema and tools | not | none of their own | – | – |

They interact through rows (the employee's row: onboarding, the employee module,
promotion; the mailbox's row and cursor: connection, synchronisation, import), through
queues in Redis (recruitment → onboarding; requests → mail and knowledge-base
workers), through callbacks (classification → applications and inbox items) and
through streams (assistant → panel). `PROJECT.json` lists the components with what is
left out of each, and under `hazards` every place where the code is exposed, with the
properties that watch it.

## 2. The modules

| Module | Models | Read it with |
| --- | --- | --- |
| `OnboardingContract` | what onboarding promises, without requests, workers or locks | `CONTEXT.md:119-122`, `ARCHITECTURE.md:215` |
| `Onboarding` | consumer, HR transactions, the employee module's writes | `onboarding/container.py`, `onboarding_service.py`, `employee_service.py` |
| `CandidateLifecycle` | decisions, interviews, publication, retention | `candidate_lifecycle_service.py`, `interview_scheduler_service.py`, `retention_job.py` |
| `Backbone` | the two side by side, joined by the queue | `event_publisher.py`, `onboarding/worker.py` |
| `Intake` | job openings, applications, promotion, assignment, beside unlocked decisions | `job_opening_service.py`, `job_application_decision_service.py`, `candidate_lifecycle_service.py` |
| `Server` | what all components behind the HTTP interface share: handlers and row locks | `identity/container.py` |
| `RequestLifecycle` | what an employee can rely on of a request | `CONTEXT.md` |
| `EmployeeRequests` | submission, cancellation, review; refines `RequestLifecycle` | `employee_request/application` |
| `Payslips`, `Attendance`, `Directory`, `Vault` | the modules of the same names | `payslip`, `attendance`, `employee` |
| `KnowledgeBase` | documents, ingestion jobs, MinIO | `knowledge_base/application`, its worker |
| `CvPipeline` | one file on its way to a draft | `cv_processor.py`, `review_service.py`, `gmail/api/router.py` |
| `CalendarEvent` | one interview against its event on Google | `interview_scheduler_service.py` |
| `Accounts`, `Sessions` | roles and first-run setup; tokens and passwords | `identity/application` |
| `AiConfig`, `Administration` | the two settings of the organization | `organization_ai_config_service.py`, `admin_router.py` |
| `Mailbox` | the mailbox as mail jobs see it | – (abstract) |
| `GoogleConnection` | OAuth, renewals, disconnection; refines `Mailbox` | `organization_google_connection_service.py` |
| `MailSync`, `MailImport` | extend `Mailbox` with polls and imports | `email_sync_service.py`, `import_service.py` |
| `OutboundEmail` | commands, sends, retries | `outbound_email_service.py`, `send_service.py` |
| `Classification`, `LinkProposals` | what becomes of judged mail; links across threads | `classification_service.py`, `job_application_service.py`, `inbox_service.py` |
| `Judgement`, `Evaluation` | how a mail is judged; how that is measured | `classification_rollout.py`, `rules_classifier.py`, `ai_classifier.py`, `gmail/evaluation` |
| `ChatTurns`, `ChatPanel` | the two ends of a conversation | `assistant/`, `src/frontend/components/AiChat.tsx` |
| `BrowserSession` | tabs, cookies, refreshes | `src/frontend/lib/api/client.ts`, `app-shell.tsx` |
| `MCWorkplace`, `MCMailbox`, `MCServices` | compositions for TLC, see below | – |
| other `MC…` | symmetry sets | – |
| `Onboarding_proofs`, `CandidateLifecycle_proofs`, `Backbone_proofs`, `Intake_proofs` | theorems about the modules of these names | section 4 |
| `Workplace_proofs` | about `Attendance`, `EmployeeRequests`, `Payslips`, `Directory`, `KnowledgeBase`, `CvPipeline`, `CalendarEvent` | |
| `Identity_proofs` | about `Sessions`, `Accounts`, `AiConfig`, `Administration`, `Vault` | |
| `Mail_proofs` | about `GoogleConnection`, `MailSync`, `MailImport`, `OutboundEmail`, `Classification`, `LinkProposals` | |
| `Services_proofs` | about `BrowserSession`, `Judgement`, `ChatTurns`, `ChatPanel`, `Evaluation` | |

Operators headed `Mutant:` in a module are wrong versions of the definition that
follows them. No specification uses them; each exists to show that a property
notices the mistake it makes (`mutants` in `PROJECT.json`). Variables commented
`history` are read by properties only.

In all modules a read, an external call and a commit are steps of their own wherever
another handler can do something in between that matters, and one step where nothing
can. A step named `RollBack…`, `Abort`, `Fail…` or `…Dies` is any exception, lost
connection or dead process at that place.

### Onboarding

| State | In the code |
| --- | --- |
| `process[c]`, `done[c]` | the process row of candidate `c` (`none` when absent) and its tasks with status done |
| `employee[c]` | the row with the candidate's email: who created it, `is_active`, and which of department, position, manager, start date are set |
| `lock[c]` | who holds the row lock of the process |
| `request[r]` | a handler: where it is, its intended writes (`edit`), what it has read (`view`) |
| `job[j]`, `audit[j]` | an ARQ job with its tries, and the audit entries with its id |
| `activations`, `edited` | the `employee_activated` entries; whether PUT wrote the setup (history) |

*HR transactions.* `CompleteTask`/`RevertTask`/`UpdateSetup` read what the code
reads before the lock; `LockProcess` is `SELECT … FOR UPDATE` and the second look
at the status; `ReadView` reads the employee and counts the tasks; `Commit`
writes task, process, employee and audit entry at once. `Abort` is any rollback:
a validation that fails, an error, the death of the process. A request for a
status the task already has returns before it locks and changes nothing, so it
is no action.

*The employee module* writes the same row without that lock. `CommitPut` and
`CommitDelete` follow SQLAlchemy: a column equal to the loaded value is not in
the UPDATE (`Patched`; a DELETE that loaded an inactive employee writes no
`is_active`). `Promote` creates an employee with the candidate's email.

*The worker.* `Start … Ack` is one ARQ job. Look-up and insert are two steps, so
two jobs can pass the look-up together; the unique email and candidate id decide
(`CreateConflict`). `Error` is a database error in any step, `EndFailed` the
re-raised exception that ARQ ends the job with, `WorkerCrash` the death of the
process, after which its jobs are queued again until `MaxTries`. `WorkerCrash`,
`Ack` and `GiveUp` model the library ARQ from how the worker uses it.

### CandidateLifecycle

| State | In the code |
| --- | --- |
| `status[c]` | `candidates.status`, `deleted` when the row is gone |
| `interview[i]`, `event[i]`, `owner[i]` | the interview row that stores event id `i`, the event on the Calendar, and whom it is for |
| `accepted`, `published` | history of committed acceptances; events that reached Redis |
| `expired` | what is left of the retention job's batch |
| `request[r]` | a handler with what it loaded (`seen`), its event (`slot`) and the interviews it still has to call off (`todo`) |
| `faults` | crashes, lost answers, failed statements so far |

Every handler is: read and validate (`Begin…`), Calendar call if there is one,
commit. Scheduling creates the event (`CreateEvent`) *before* it inserts the row
(`PersistInterview`); rescheduling patches the event and then writes the times
(`PersistMove`, which touches the status of the candidate only if another one had
been loaded); cancelling deletes the event and then marks the row. A decision
commits first, then publishes (accept) or calls off every interview it finds
scheduled (reject, archive), one at a time, each with its own commit.
`RetryCreate` is `retry_with_backoff` posting again, with no event id of its own,
after an answer that was lost. Deleting a candidate removes its interviews
(migration 053, ON DELETE CASCADE).

`reviewing` appears in `VALID_TRANSITIONS` but no code ever sets it, and
candidates are created as `new`; the model has neither a way in nor the value.

### Backbone

`Backbone` extends `CandidateLifecycle` and instantiates `Onboarding` as `On`,
with handlers of its own (`clerk`). The two sides write no row in common.
`Deliver` is the only joint step: `publish` returns when Redis has the job, so
recruitment's `Publish` and onboarding's `Publish` are one step. Everything else
is a step of one side with the other unchanged, which is what theorems
`RecruitmentAlone` and `OnboardingAlone` say.

### Intake

| State | In the code |
| --- | --- |
| `opening[o]` | `job_openings.status` |
| `application[a]` | status, opening and candidate of a job application |
| `candidate[c]` | status, opening, and the application it was promoted from (history: the inverse of `job_applications.candidate_id`) |
| `lock[x]` | the handler whose transaction holds the row lock of `x` |
| `request[r]` | a handler: where it is, its operation, its row, and the opening it names or has read |

Two kinds of handlers share these rows. Promotion, attachment and assignment
start with `SELECT … FOR UPDATE` (`LockRow`), look at the row under the lock
(`MayAssign`, `MayReassign`, `MayUnassign`, or `Refuse`), then read the target opening *without* one
(`CheckOpening`, `RefuseOpening`) and commit. Decisions and the transitions of an
opening validate what they read without a lock (`BeginDecision`,
`BeginTransition`); their UPDATE waits for the row lock and keeps it until the
commit (`Write`), whatever has happened to the status since. An acceptance then
updates its opening too, still holding the candidate (`TouchOpening`). `Abort` is
a rollback at any point. The retention job cannot delete a candidate that an
application refers to (migration 063, a foreign key without ON DELETE).

`undecided` stands for `new` and `interview_scheduled`: both can be assigned, and
whether a candidate may already be accepted is the business of
`CandidateLifecycle`. No code sets an application to `dismissed`, so the model
has no such value.

### The components behind the pages (`MCWorkplace`)

Ten components that write no row in common. `MCWorkplace` extends them all and lets
one of them move per behaviour (`component`), so that their state spaces add up
instead of multiplying. Each keeps a variable for what its handlers are doing
(`requestCall`, `payslipCall`, …), with what the session has read.

* **EmployeeRequests**: `requestRow` is the row with its audit entries, `requestLock`
  its lock. A review locks and reads under the lock (`LockForReview`, `CommitReview`);
  a cancellation reads first (`ReadForCancel`), takes the lock with its UPDATE and
  commits. `RequestLifecycle` is what remains for the employee: submitted, reviewed at
  most once, withdrawn from any status.
* **Payslips**: every operation reads without a lock (`ReadDraft`); publication and
  deletion repeat the condition in their WHERE, so that `MarkPublished` and
  `MarkDeleted` only take what is still a draft, while an edit (`WriteAmounts`) does not.
* **Attendance**: `CommitCheckIn` is the upsert that keeps the first time
  (`UpsertCheckIn`); a correction writes the columns that differ from what was read
  (`Merge`); the allow-list is a JSON column that is replaced whole.
* **Directory**: `written` are the rows a session has flushed and not committed, `Seen`
  what it reads. Whoever creates (a creation, a promotion, an imported row) looks up the
  email without regard to case (`FindNobody`, `FindEmployee`) and then, in another query,
  the next code (`ReadCode`), one more than the greatest *string* (`IsNextCode`,
  `SortsAfter`). An update (`LoadEmployee`, `CheckEmail`, `Update`) and the imported row of
  a known employee write the columns that differ from what was loaded (`Changed`,
  `Merged`). `Flush` meets row locks, unique indexes and foreign key; an import goes on
  with its next row, and commits them all. `DeleteDepartment` meets the foreign key.
* **KnowledgeBase**: `files` are the versions in MinIO, `chunks` those indexed, `jobs`
  the queue. The job is queued (`Enqueue`) before the row commits (`CommitUpload`); an
  ingestion holds the row lock from `MarkProcessing` to its commit.
* **CvPipeline**: one file, found again by its checksum (`FindDuplicate`) or inserted
  (`InsertCv`) — two steps; then a commit per stage. `MarkEmail`, `AutoProcess` and
  `ResetStuck` are the three ways into and out of `processing`.
* **CalendarEvent**: `event` is what Google has with its etag, changed by people too
  (`EditOnGoogle`). A PATCH is conditional on the stored etag (`PatchApplied`,
  `PatchLoses`), may lose its answer, and a lost one is captured as a conflict that HR
  settles for either side (`KeepGoogle`, `CommitOverwrite`).
* **Accounts**: first-run setup claims the organization's one row by an UPDATE or by
  an INSERT (`ClaimOrganization`, `InsertOrganization`), held until `CommitSetup`. A
  change of role reads the number of administrators without a lock.
* **Sessions**: one account. Whoever logs in or changes the password writes the
  account's row first (`WriteAccount`), then revokes the tokens it finds (`RevokeAll`).
* **AiConfig**: the one settings row; `Dirty` is the UPDATE of the columns that
  changed, against the copy that was read before the provider was asked.

### The mailbox (`MCMailbox`)

`Mailbox` is the abstract view that joins three modules: the account the organization
is connected to, the account of the access token and the cursor. Whoever changes the
account forgets the cursor in the same step. `GoogleConnection` implements it (run
property `ServesMailbox`, a refinement), `MailSync` and `MailImport` extend it: to them
the connection is any behaviour of `Mailbox`, so that what is shown of them holds with
whatever the connection does.

* **GoogleConnection**: `connection` is the row, `rowLock` its lock, `session` the copy
  each handler read; `Flush` is the UPDATE of the columns that differ from it. `grants`
  is what Google has issued. The callback alone locks the row before it writes
  (`ConsumeState`); disconnection and renewal write what they read earlier.
* **MailSync**: a poll reads cursor and token (`BeginPoll`), asks for a page of history
  (`FetchHistory`) or a first position (`FetchBaseline`), and stores messages and cursor
  in one commit. `skipped` records what it passed by, and beside the cursor its account
  and baseline, for the property only.
* **MailImport**: `job` and `cancelled` are keys in Redis; a start is a look-up, a
  write, a removal and an enqueuing (`CheckStart … Enqueue`), in as many steps. An
  importer fetches batches, looks for a cancellation between them, writes the final
  status to Redis (`MarkFinal`) before it commits. ARQ's time-out cancels a long import.
* **OutboundEmail**: three transactions around the call of Gmail: `MarkSending`,
  the call with its possible lost answer, `MarkSent` or `RecordFailure`.
* **Classification**: whoever judges is a session (`batches`) that keeps what it loaded
  (`Loaded`): a batch, the reclassification of one mail (`BeginSingle`), HR's own verdict
  (`BeginManual`, `CommitManual`). It creates or extends applications and inbox items, and
  of each mail writes the columns that differ from what it loaded (`Written`), so that a
  row may come to be of two sessions (`Blended`; the histories `mixed` and `byHand` keep
  which). HR splits, corrects and dismisses beside it.
* **LinkProposals**: `references` is a JSON column, read and written whole by HR's
  resolution and by the worker that links mails of the same thread.

### Assistants, browser and administration (`MCServices`)

* **ChatPanel** is the React component with its refs and timers, over streams that may
  be cut, stopped or late. `card` is the draft in the panel's state, `shown` the card
  component in the page, whose disabled buttons are state of its own: it is replaced when
  the panel is collapsed and opened again (`Reopen`), or leaves by an animation after its
  draft (`CardLeaves`), while the calls of each click (`call`) go on. Several new
  conversations may wait for the end of the old one at once (`renewing`). **ChatTurns** is the server: a turn gathers (`Gather`), lets
  the model call tools a bounded number of times (`ModelAnswers`, `RunTool`), says what
  it says and commits after its answer has gone (`EndTurn`). What crosses the wire
  (texts, at most one draft, then `done` or an error) is the interface of both.
* **BrowserSession**: `jar` the cookies all tabs share, `tabs` the page, the cached
  session and the refresh under way, `callouts` the calls of `apiFetch` that wait.
* **Judgement**: which classifier a rollout asks (`Stage`, `InCanary`), how often the
  provider is asked again, what is read out of its answer (`Extracted`, `Parsed`), which
  rule wins (`BestRule`), which event tells it (`Conclude`).
* **Evaluation**: corrections of one item with the read copies of each handler, samples,
  and a run of the evaluation contract with its counts.
* **Administration**: the login domains, a list in one column, and the tools of the
  assistant, a row each. **Vault**: rows and files of employees' documents. `StoragePath`
  joins owner, type and name, of which the last two may contain the separator, so that
  two labels may share a path; `torn` are the documents whose request failed between row
  and file.

## 3. The runs

Each takes about a minute or less with two workers on an ordinary machine.

| Run | Instance | States | Shows |
| --- | --- | --- | --- |
| `hr` | 2 candidates of which 1 has a malformed payload, 2 tasks, 1 setup column, 2 handlers, 1 job, 1 crash, 1 error | 712,460 | `ActivationStands`, `FrozenWhenComplete`; refinement of `OnboardingContract` (`ContractSpec`) |
| `delivery` | 1 candidate, 2 jobs for it, 2 handlers, 2 tries, 2 crashes | 46,578 | `ProcessUnique`, and under fairness `EventDelivered`, `EveryRequestAnswered` |
| `pipeline` | 1 candidate, 3 events, 2 handlers, 1 fault, the retention job | 766,923 | `CalendarAgrees`, `PublishedIsAccepted`, `EndedStaysEnded` |
| `pipeline_live` | 1 candidate, 2 events, 2 handlers, no fault | 175,310 | `AcceptancePublished`, `DecisionCallsOff` under fairness |
| `backbone` | 1 of everything, 2 tries, 1 crash, 1 error, 1 fault | 105,068 | `HandedOver`, and under fairness `HireReachesOnboarding` |
| `intake` | 1 opening, 1 application, 2 candidates of which the CV pipeline may create 1, 2 handlers | 278,112 | `PromotedOnce`, `WaitingEnds`, `AssignmentsStand` |
| `workplace` | 2 handlers in each component; see below | 807,886 | `ReviewedOnce` (a refinement of `RequestLifecycle`), `PublishedStays`, `CheckInStands`, `DirectoryConsistent`, `NoOrphanChunks`, `OneDocumentPerFile`, `EtagVouches`, `FoundedOnce`, `SingleSession`, `RevokedIsGone` |
| `mailbox` | 2 accounts, 2 handlers; see below | 937,057 | `ServesMailbox` (a refinement of `Mailbox`), `StateUsedOnce`, `CursorCovers`, `NoZombie`, `SentWasDelivered`, `JudgedIsVisible`, `LinksAgree` |
| `services` | 2 handlers, 2 tabs, 2 people; see below | 836,857 | `PanelIsTrue`, `TurnsAreWhole`, `CallsCarryOn`, `RolloutKeepsItsWord`, `EvaluationIsSound`, `EditsStand`, `VaultIsWhole` |
| `silent_loss` | 1 candidate, 1 job, 1 error, no crash | – | violates `FailureIsRecorded` (section 5) |
| `duplicate_send` | 1 mail, 2 sends, 1 fault | – | violates `DeliveredOnce` |
| `stuck_cursor` | 1 account, 1 worker, fair polls | – | violates `SyncRecovers` |

A property of a passing run is often a conjunction of named parts, defined and
explained beside it (`ActivationStands` is `ActivationEarned` and `ActivationKept`,
`HandedOver` is `OnboardedWasAccepted` and `NoHireLost`, and so on). Type invariants
and inductive invariants are not among the runs' properties: they are proved, in
section 4. `WorkplaceTypeOK` collects ten type invariants for use while a module is
changed.

*Bounds.* `workplace`: 2 requests on 2 days; 2 payslips in 1 slot, 2 amounts; 1
attendance record, 2 times, 2 networks with room for 1; 5 employees of whom 2 are there
at the start and 1 is updated, 5 emails of which two differ only in case, 1 department,
codes to the base 2 of 1 digit (instead of 10 and 3, so that the greatest string stops
being the greatest number within the run, as it does in the code at NV-1000); 1 document in 2 versions, 2 jobs, 2 faults; 2 CVs; 2 times,
3 changes of an event, 2 conflicts; 3 people; 3 tokens, 2 links, 2 passwords; 1 key, 1
capability, 1 version of a classifier. `mailbox`: 2 OAuth states, 2 grants, 1 loss; 2
polling workers, 2 messages per account of which 1 is not in the INBOX, pages of 1, 2
changes of account, 1 fault; 2 imports of 2 batches; 2 mails, 3 sends, 2 faults; 2 mails
of a thread, 2 batches, 3 applications; 2 link proposals on 2 items, 1 mail of the
thread, 1 application. `services`: 2 questions, 3 conversations, 2 clicks on drafts, 1 mishap; 2 turns
with 1 iteration of 1 call, 1 session; 2 logins, 2 calls, 1 hitch; 1 mail, 2 judgements
of 2 attempts, 7 answers of the provider, 1 scoring; 2 corrections, 2 samples, datasets
of up to 2 items; 2 domains with room for 1, 2 tools, 3 edits; 2 documents of 2
owners, under 2 types and 2 names that can make one path in two ways, 1 fault.

Three bounds cut states that say nothing new: `MCNeverMet` (`workplace`) stops where
two runs of the CV pipeline met between look-up and insert, of which
`OneDocumentPerFile` claims nothing; `MCFewMails` (`mailbox`) lets both accounts
together receive as many messages as one may; `MCPanelBound` (`services`, a conjunct of
the panel's step) lets only one of a second question, a second conversation and the end
of the panel come together with clicks on a draft.

*Why they are enough to be interesting.* Rows of different candidates, mails or
documents are independent but for the handlers and jobs that choose among them, so one
row with two handlers meets every race between two transactions; two tasks are what it
takes for two requests each to finish "the last" one; one setup column is written by
onboarding and by PUT. Three events let a decision find two interviews while a third is
being booked. Two jobs of one candidate pass the look-up together; two tries and two
crashes exercise the second delivery and its loss. Two handlers that promote one
application need two candidates to do it twice. What a bound leaves out the proofs
cover: a reassignment needs a second opening, which the run `intake` does not have, and
a setup column out of reach of PUT would be a second one in `hr`. A page of one message
and two messages let a poll stop in the middle and another one overtake it; two accounts
are what a cursor of the wrong one takes. With one fault a failure falls at every
possible place. `mutants` in `PROJECT.json` has for every property a plausible mistake
of the code that breaks it within these bounds.

*Symmetry* is used for handlers, jobs, tasks, events, openings, times, accounts,
workers, mails, tabs and people, only in runs without liveness properties.

*Deadlock* is checked in the runs of `Onboarding` and of `Intake`.
`CHECK_DEADLOCK FALSE` is set where the system may stop: the runs of
`CandidateLifecycle` end when every candidate is deleted, the others when the bounds on
what is created are used up.

*Fairness.* `FairSpec` of `Onboarding` assumes that a handler that can run is
resumed by the event loop (WF of `EmployeeStep`), that a waiter of a row lock is
not overtaken for ever (SF of `HrStep`: PostgreSQL queues waiters of a tuple
lock), and that the worker polls its queue (WF of `Consume`). `CandidateLifecycle`
assumes WF of a started handler, and for a Calendar call that some answer comes:
the adapter's HTTP client has a timeout. `Backbone` assumes the same of both
sides. `SyncFairness` (run `stuck_cursor`) is that the cron job begins polls and that a
poll goes on. Nothing is assumed of users: no request ever has to be sent, and of
faults: none ever has to happen.

Provisos are part of the properties and stated there. The setup half of
`ActivationStands` holds while no PUT wrote the setup (`edited`). `CalendarAgrees` holds
while nothing failed; with a fault the code leaves orphans. `Excused` in `Backbone`
names every cause that may keep a hire from its onboarding. `OneDocumentPerFile` excuses
two runs that overlap between look-up and insert, `EtagVouches` a resolution beside
another call, `LinksAgree` a column written over a newer one, `EditsStand` an edit based
on what another replaced. `JudgedIsVisible` excuses mails that HR classified by hand and
rows mixed of two sessions; `VaultIsWhole` documents that share a path with another and,
where it speaks of leftovers, those that are `torn`; `WritesConfirmed` a confirmation that
failed, one whose card went away while its calls ran, and a click on a card that was
leaving after a rejection. In each case the excuse is itself a hazard of the code, listed
as such, and where the code says otherwise a finding (section 5).

## 4. The proofs

Eight modules, every obligation checked by TLAPS, nothing assumed but the constants. All
of the runs' safety properties (invariants, action properties and refinements) are
theorems of the modules' own specifications:

| Theorem | Says, for all values of the constants |
| --- | --- |
| `Onboarding_proofs!TypeCorrect` | `Spec => []TypeOK` |
| `LockDiscipline` | the row lock belongs to exactly the request that is past `FOR UPDATE`, and its process stays in progress until it commits |
| `Inductive` | `Spec => []IInv` |
| `Uniqueness` | `ProcessUnique` |
| `ActivationAlwaysStands` | `ActivationStands`, from `ActivationIsEarned`, `ActivationIsNotLost`, `NobodyActiveEarly`, `EmployeesAreOwned`, `SetupIsComplete` |
| `Frozen` | the action property `FrozenWhenComplete` |
| `Refinement` | `Spec => ContractSpec` |
| `CandidateLifecycle_proofs!TypeCorrect`, `Inductive` | `[]TypeOK`, `[]IInv` |
| `CalendarInStep`, `ScheduledHasEvent`, `PublishedAfterCommit`, `Ended` | `CalendarAgrees` and its half `ScheduledIsBooked`; `PublishedIsAccepted`; `EndedStaysEnded` |
| `Backbone_proofs!RecruitmentAlone`, `OnboardingAlone` | the whole system implements each of its halves |
| `HandOverKept`, `OnboardedIsAccepted`, `NoHireIsLost`, `HandOverIsExact` | the invariant `HandOver`, the two halves of `HandedOver`, and `HandedOver` |
| `Intake_proofs!TypeCorrect`, `Inductive` | `[]TypeOK`, `[]IInv` |
| `OneCandidate`, `NoCircle` | `PromotedOnce`, `WaitingEnds` |
| `Frozen`, `NoDraftAssigned`, `AssignmentsAreKept` | the two halves of `AssignmentsStand`, and it |
| `Workplace_proofs!RequestInductive`, `Refinement` | the invariant of `EmployeeRequests`; its handlers implement `RequestLifecycle` (`ReviewedOnce`) |
| `PayslipInductive`, `PublishedForGood` | the invariant of `Payslips`; `PublishedStays` |
| `FirstCheckInStands` | the action property `CheckInStands` |
| `CodesAreUnique` | `DirectoryConsistent` |
| `ChunksHaveDocuments`, `DeletedForGood` | `NoOrphanChunks`; `DeletedStays`, which no run checks |
| `FileIsProcessedOnce` | `OneDocumentPerFile` |
| `EtagsVouch` | `EtagVouches` |
| `Identity_proofs!OneSession`, `OneFounderOnly`, `RevokedStaysGone` | `SingleSession`, `FoundedOnce`, `RevokedIsGone` |
| `EditsAreInForce`, `DocumentsKeepTheirFiles` | `EditsStand`, `VaultIsWhole` |
| `Mail_proofs!StatesAreConsumed`, `ConnectionServesMailbox` | `StateUsedOnce`; `GoogleConnection` implements `Mailbox` (`ServesMailbox`) |
| `Inductive`, `CursorKeepsUp` | the invariant of `MailSync`; `CursorCovers` |
| `RunningIsInHand`, `SentIsDelivered` | `NoZombie`, `SentWasDelivered` |
| `NoApplicationIsSwallowed`, `LinksAreDecided` | `JudgedIsVisible`, `LinksAgree` |
| `Services_proofs!CallsAreCarriedOn` | `CallsCarryOn` |
| `RolloutIsKept`, `EvaluationStaysSound` | `RolloutKeepsItsWord`, `EvaluationIsSound` |
| `TurnsStayWhole`, `PanelStaysTrue` | `TurnsAreWhole`, `PanelIsTrue` |

Assumptions are those named in the modules: the malformed candidates are candidates,
`Free` is no request and `None` no handler or row, there is a task, the bounds are
naturals, an answer of the provider names categories that exist (`_parse_category`
discards any other), a dataset is a sequence of items (`_parse_item`), and so on: each
stands in the module that declares the constant, and TLC evaluates it in the runs. The
proofs hold without the bounds in the sense that these are arbitrary numbers.

*Onboarding.* That a complete process has all its tasks done (`CompleteMeansAllDone`,
part of `ActivationStands`) is not inductive: a request that is about to commit carries
a view it read earlier, and the commit is right only if that view is still true. `IInv`
therefore adds that the lock and the handler's position agree (`LockInv`), that the
process of a lock holder is in progress (`HolderInv`), and that what a holder has read
is current: the tasks always, the setup unless PUT intervened (`ViewInv`). With these,
two requests that race for the last task are serialised by the lock and the second one
sees the first. `CreatedInv` ties the process row to the one job that created it. The
contract follows step by step: a commit that activates is `Finish`, any other is `Work`,
a successful `Create` is `Begin`, a DELETE that takes effect is `Leave`, everything else
stutters.

*CandidateLifecycle.* The invariant speaks of the copies handlers hold. The event
a handler is about to record is live, unrecorded, and nobody else's (`SlotKnown`,
`SlotExclusive`), a row exists for any interview a handler works on, and a
handler that is about to mark a row as cancelled has seen its event go
(`EventKnown`). `EndedStaysEnded` then follows because `scheduled` is written
only by `PersistInterview`, on a row that does not exist yet.

*Backbone.* The halves' theorems carry over through `RecruitmentAlone` and
`OnboardingAlone`, without a second proof. `HandOver` adds what neither half can
say: a job is the publication of a committed acceptance, and a try is only
counted twice because of a crash (`TriesInv`).

*Intake.* `LockInv` says which lock a handler holds from where it is, so two
handlers never both believe they hold a row. `GuardInv` then carries the check
under the lock to the commit: what the locked row permitted it still permits,
because every other writer of that row needs the lock. That is why an application
is promoted once and why an assignment never lands on a decided candidate, even
though the decision itself was validated without the lock. Openings are *not*
locked by those who check them; `DraftInv` keeps what survives of that check, that
an opening once open is never a draft again. `WaitingEnds` follows from the order
in which locks are taken: only an acceptance waits while holding a row, it waits
for an opening, and whoever holds an opening waits for nothing.

*Requests.* What a reviewer saw under the lock is still so when it commits,
because every other writer of the row needs the lock; a request that waits has no
review. A cancellation commits whatever the row has become since it was read, and is a
`Withdraw` all the same: that is why the abstract `Withdraw` starts from every status.
Every other step stutters.

*Payslips.* `PayslipHeld`: who has executed a statement holds the row. `StillTrue`: what
the WHERE of a publication or deletion found stays so until the commit. With
`AuditMatches` a payslip is published, and audited, once.

*Attendance.* A check-in is an upsert that leaves an existing time alone, so only a
correction changes it, whatever its author had read.

*Directory.* The indexes and the foreign key decide at the flush, not what an import, a
promotion or an update looked up before (`IsNextCode` may propose a taken code, and the
look-up of an email may be overtaken). The invariant (`RowsSound`) says what that gives
together with the row locks: a row has at most one writer, what a session has flushed and
not committed, of a new row or an old one, collides neither with what it sees nor with
what another one has flushed, and a department cannot go while any of these names it. A
commit then only makes `directory` what the session saw.

*KnowledgeBase.* A row is written by who holds its lock; an ingestion's chunks belong to
the row it holds, a deletion takes row and chunks in one commit, and the id of an upload
is nobody else's before its commit. `DeletedForGood` follows as well: a replacement or
an ingestion that was under way does not bring a deleted document back.

*CvPipeline.* As long as no two runs overlapped between look-up and insert, at most one
is there, and what it did not find is still not there when it inserts.

*CalendarEvent.* No stored etag is ahead of the event's (`EtagsKnown`), and a conflict
that carries the event's etag *is* the event (`SnapshotsTrue`). What a call has read is
still so unless its etag was overtaken (`ReadsHold`), and when the event moves on,
whatever vouched for it before does no longer. A call without an etag and a resolution
may cross others; `crossed` records it, and the invariant claims as little of it as the
property does.

*Sessions.* Whoever has written the account's row holds it until the commit, and tokens
are issued by holders only: what is to be revoked when the transaction ends is therefore
all that was live, and after each commit at most the token it issued lives.

*Accounts.* The claim of the organization's row, by UPDATE or by INSERT, is granted to
one transaction at a time, and a setup that gets it reads the gate again (`ClaimHeld`);
after a success the gate is shut (`GateShut`). It opens again only when the last account
is deleted, from where `FoundedOnce` counts anew.

*AiConfig.* Keys are numbered as they are typed in. A handler writes a key it typed in,
none, or leaves the column out of its UPDATE; so a key that has been in force and
revoked is in nobody's hands.

*GoogleConnection.* A used OAuth state is neither in the row nor on its way there: the
callback consumes it under the row lock and holds the lock until the commit that counts
it. The flush of any other handler either removes the state or leaves that column. For
the refinement, a commit that changes the account forgets tokens and cursor with it,
which is a step of `Mailbox`; refreshing, reading and the answers of Google stutter, or
change the access token of one account.

*MailSync.* Three conjuncts carry `CursorCovers` over polls that overlap. A cursor that
some poll has read stays covered even when the row has gone on (`SeenCovered`). A poll
that is about to commit has everything between what it read and where it goes, or has
given it up (`NothingBetween`). And what lies between two positions lies before or
behind any third (`BetweenSplits`), so a poll that commits a smaller or a greater cursor
than the row's joins two covered stretches.

*MailImport.* While Redis says `running`, somebody will report the end: the request that
is about to enqueue the job, the queue, or a worker that has not written the final
status; or one of these was lost, which the property excuses.

*OutboundEmail.* `AnswerKnown`: who is about to write `sent` has Gmail's acceptance,
which nothing takes back.

*Classification.* What a session has not committed nobody else sees. The invariant
therefore speaks of each open session (`BatchSound`): a mail it has judged to be an
application is visible already, or will be when the session commits, because the
callback comes before the status. What a commit leaves in a row is that verdict, or the
row is `mixed`: status and category are as the session judged unless another session
changed a column that this one left out. Items and applications are never taken away, so
that what is visible stays so (`SeenOrQuiet`).

*LinkProposals.* The column is read and written whole. What a handler has read is still
in the column unless an older value was written over a newer one (`crossed`, which the
property excuses: `SeenStands`). What a proposal is about never changes after it was
made, and whoever resolves it writes proposal, application and item in one commit
(`LinkSound`).

*BrowserSession.* A refresh that ends, however it ends, ends the waiting of the calls of
its tab; a refresh is refused only if a grant has ended or something failed, because the
grant it presents was in the jar (`JarSound`, `TabSound`).

*Administration.* What an edit is about to write is its own change to the list it has
read (`EditSound`), an UPDATE holds the row until its commit, and an edit without an
audit entry is at a handler that is about to write it. Unless it was based on what
another edit replaced (`crossed`), the list it read is that of the edits in force.

*Vault.* Nothing is assumed of types and names but that the path joins them. Whoever
shares its path with nobody has it written by its own upload and removed by its own
deletion only. A row without its file or a file without its row is at a handler that is
between the two, or `torn` (`HalfDone`); a deletion that is repeated mends it.

*Judgement.* The plan is stored when a judgement begins and decides who is asked,
whatever the rollout becomes meanwhile; an event is taken from that plan (`EventSound`),
so that two events of one mail agree on the candidate when the percentage has not
shrunk. A verdict is written in the commit of the event that tells it (`VerdictTold`).
That `Parsed` never comes back without a category is a lemma (`ParsedIsCategory`).

*ChatTurns.* `SaidSoFar` lists what a stream can have said at each place of the handler:
text (a run of it counts as one), at most one draft, and its end; `StreamsEnd` follows
from it. `TurnOwned` keeps what the turn found out about its session at the beginning:
the room, if it has one, is its user's, and rooms never change hands. The counter of a
room is written from the copy that was read, so it is at most the number of turns
counted (turns that overlap may lose one: `CountsTurns` of section 5).

*ChatPanel.* Only the stream of the question asked last can be connected, and only its
text can stand in the bubble (`LastAsked`). An answer leaves the bubble for the
transcript, or for a timer's hands, only when its stream is closed (`Given`), so it
cannot come again. A write needs the entry of its own click in the audit log. A click
whose calls are under way disables its card as long as that card is in the page, and its
draft, once decided on a card that stayed, is never on offer again (`ClickSound`), because
a draft comes only once with its stream (`Brought`): what is left for a second click are
the three cases the property names.

*Evaluation.* The selection of a correction redacts it, and nothing undoes that before the commit. For
the report: the k-th prediction is of the k-th item, and the ids of an accepted dataset
are distinct, so `ItemOf` finds that item again; the counts are then cardinalities of
sets of positions that partition `1..n`, by the lemmas on disjoint unions.

*Left to TLC* are the liveness properties (`EventDelivered`, `EveryRequestAnswered`,
`AcceptancePublished`, `DecisionCallsOff`, `HireReachesOnboarding`), because TLAPS has
no rules for fairness and `ENABLED` here, and the definitions a run checks on data: what
the choices of `Judgement` compute from a concrete answer is proved only as far as the
lemmas above say. `DeletedStays` is the other way round: proved, and checked by no run.

## 5. Where the code and its documentation disagree

Three runs check one property each, quoted at its definition, and TLC refutes it:

| Run | What is written | What the code does |
| --- | --- | --- |
| `silent_loss` | "Transient failure — let ARQ retry. Record the failure only once the retries are exhausted" (`onboarding/container.py:338`) | ARQ does not retry an ordinary exception: the job ends at its first failure without process or audit entry |
| `duplicate_send` | "The idempotency_key prevents duplicate sends on retry" (`gmail/domain/entities.py:184`) | the key makes one row per content; a send whose answer was lost is recorded as failed and sent again |
| `stuck_cursor` | "Clearing cursor before bounded recovery" (`email_sync_service.py:307-313`) | the branch looks for a 404 that the adapter has turned into a `GmailFetchError`: a forgotten history id fails at every poll |

The following are stated in the modules in the words of the code, and TLC refutes them
as well when they are added to a run; `findings` in `PROJECT.json` has lines, quotes and
the behaviour.

| Property | Module | In short |
| --- | --- | --- |
| `ActivatedWithSetup` | `Onboarding` | a PUT clears a setup column between the read and the commit of an activation |
| `DeleteDeactivates` | `Onboarding` | a DELETE that loaded an inactive employee writes nothing over a concurrent activation |
| `AcceptedNotArchived` | `CandidateLifecycle` | an archive that read the earlier status overwrites an acceptance that was published |
| `RetentionSparesBooked` | `CandidateLifecycle` | an interview booked after the selection goes with its candidate, its event stays |
| `NoneLeftBooked` | `CandidateLifecycle` | an interview whose row comes after the decision stays scheduled |
| `OnlySeenIsReplaced` | `CalendarEvent` | the first reschedule sends no If-Match |
| `ResolvedOnce`, `ConfirmedIsLinked`, `LinkedIsHandled` | `LinkProposals` | two resolutions apply both; a worker's write takes a confirmed link away; a rejection reopens an item that is linked |
| `PromotedIsMeasured`, `HighestScoring`, `NamedCategory` | `Judgement` | a candidate leaves the shadow without gates; a scaled score is compared with unscaled ones; the first category mentioned wins over the one named |
| `HistoryIsKept`, `PreviousIsPrevious`, `SamplesAreRedacted`, `OneSampleEach` | `Evaluation` | two corrections at once keep one entry; "previous" is read after the change; sender name and address are not redacted; a correction may give two samples |
| `WritesOnce`, `DecisionIsTrue`, `FinalizedWhenIdle`, `AnswersHaveQuestions`, `EndedOnLeave` | `ChatPanel` | a card replaced while its calls run can be confirmed again, and the draft is written twice; the confirmation is logged before a write that may fail; a frame cut in two is dropped; a timer posts into the next conversation; a session still starting is never ended |
| `DraftsAudited`, `CountsTurns` | `ChatTurns` | the stream logs no draft; turns that overlap are counted once |
| `SignOutSignsOut`, `SignedOutStays`, `OnePerson`, `LoginIsOpen` | `BrowserSession` | logout goes to the page's own origin; a refresh under way brings the cookie back, or the other user's; the login page believes a cached session |
| `AddedStays`, `ListedIsOffered` | `Administration` | two edits of the domains lose one; tools listed as enabled have no row and are not offered |
| `VersionsKept` | `Vault` | a second upload of the same name, or of a type and name that join to the same path, replaces the first one's bytes |
| `NothingSwallowed` | `Classification` | a reclassification whose callback fails, beside HR's verdict by hand, leaves a recruitment mail `classified` with neither application nor item |
| `OneEmployeePerAddress` | `Directory` | two addresses that differ in case are both stored, when their look-ups overlap |

Met while modelling. Those with a name are stated in the modules, and also fail:

* *Google.* A renewal writes the token of the grant it read beside another grant
  (`TokensAgree`), and a disconnection that races a callback leaves a grant alive or
  mixed columns (`DisconnectedIsRevoked`,
  `organization_google_connection_service.py:350`); after a renewal the row stays locked
  for the whole poll or import. A poll that began before the account was switched sets a
  baseline of the old one (`FreshBaseline`, `sync_cursor_repository.py:37`). Messages
  beyond one page of history are never fetched. An import does not stop when the account
  is switched (`AbortsOnSwitch`, `import_service.py:767-781`), writes its final status
  to Redis before the database commits, and is cancelled by ARQ's default time-out of
  300 s with the status still `running`. The branches for `reauthorization_required` are
  dead (`gmail_adapter.py:1009-1051`). `interview_scheduler_service.py:1613` reads
  `connection.google_client_id`, which the entity lacks, so that Calendar calls never
  renew an expired token.
* *Mail and recruitment.* An unlocked list loses a link of the thread
  (`LinkedToThread`), two batches make two applications of one message
  (`OneApplicationPerMessage`), and a message whose processing always fails holds the
  cursor back. A manual classification as recruitment creates no application
  (`gmail/api/router.py:1315-1353`). A mail whose judgement raised is set aside "for manual
  review" as `classification_failed` (`classification_service.py:143`), which neither
  reclassification nor manual classification accepts. Two requests both process one email
  (`ProcessedByOne`, `router.py:666`), two runs that overlap insert the same file twice,
  and a correction is overwritten by a parse that was under way (`CorrectionStands`,
  `cv_draft.py:143`). A time-out of the pipeline leaves a document in `ocr_processing`
  or `llm_parsing`, out of the review queue.
* *Calendar.* Two calls at once each win some columns, so that an interview may hold the
  etag of one PATCH and the time of another (`AlwaysVouches`); an overwrite stores the
  etag it got unguarded (`interview_scheduler_service.py:1281`, against the comment at
  429-434) and drops attendees and description; two resolutions of one conflict both
  apply.
* *Classifier.* The stable and the candidate classifier are built from one
  configuration; recruitment verdicts always carry 0.85, so that `needs_classification`
  is out of reach with the default thresholds; an empty answer is not retried; no
  fallback policy is ever configured and `prompt_version` never passed; a failure of the
  stable classifier in a rollout leaves no event; three concurrent tasks share one
  session in `classify_batch`.
* *Accounts.* Two changes of role at once leave no administrator (`AdminRemains`,
  `role_service.py:23-30`); two requests for a reset leave two links (`SingleLink`,
  `password_reset_token_repository.py:20-22`) and one link serves twice
  (`LinkUsedOnce`). A classifier that passed no gates decides alone when a candidate is
  replaced while the full rollout of another one is saved (`FullPassedGates`,
  `organization_ai_config_service.py:867`). Removing the last login domain opens the
  login to every domain.
* *Employees.* After NV-1000 the next code is taken for ever (`NextCodeIsFree`, refuted
  with Base 2 and Pad 1, where that is the fourth code); an edit that read a draft
  changes a published payslip (`PublishedIsFinal`); requests that overlap in time are
  both submitted (`leave_service.py:65`), and a cancellation may overwrite an approval;
  of two check-outs that overlap the later one stands (`CheckOutStands`). A job that
  starts before its upload commits finds no document, which stays pending
  (`UploadsSettle`, `ingestion_service.py:339`). Promotion creates an active employee
  without onboarding (`employee_service.py:285`, against `CONTEXT.md:27`). Completing a
  task twice at once writes two `task_completed` entries
  (`onboarding_service.py:551-560`, against its docstring at 509).
* *Candidates.* A reschedule puts the candidate back to `interview_scheduled` without a
  transition check (`interview_scheduler_service.py:442`, against `CONTEXT.md:108`). A
  failed deletion ends the retention batch (`retention_job.py:175, 208`, against its
  comment at 207). A reopening that read `closed` overwrites a cancellation
  (`job_opening_service.py:249`, against `entities.py:309`). An opening closed between
  the check and the commit still receives the assignment, and a split item, or a
  promotion that keeps its application's opening, is attached to an opening whose status
  nobody looked at (`inbox_service.py:284`, `job_application_decision_service.py:154`,
  against "Only OPEN Job Openings accept assignments", `job_application_router.py:120`).
* *Assistant.* `done` is sent before the turn is committed (`DoneIsRecorded`), and of
  two drafts in one turn only one is shown (`DraftsShown`); a panel may load without a
  stream (`LoadsFromStream`), and the end of one decision takes the next draft away
  (`DraftStays`). The employee's assistant is built without `retrieval_service` and so
  never quotes the knowledge base, although `context_builder.py:156` says so; its panel
  records no decision; a failure caught inside a tool is recorded as a success; a
  disabled tool is not offered, but still run when called.

## 6. What is not modelled, and why

* Inside the modelled components: audit entries other than those named; the text of mails,
  payslips and openings; the source of an application (a column of its own); metadata edits
  of the knowledge base and its retrieval; access tokens, cookies and rate limits on the
  server, which keep no row. What is left out of each component is in the `note` of
  `PROJECT.json`.
* Code that nothing calls: `calendar_sync_service.py` ("periodic", but no worker or route
  runs it), `IntentClassifierService`, the job `arq_process_cv_from_email`,
  `set_timezone` and the progress of the guide; and what is left of the per-user
  connection (`ConnectionService`), of which only the revocation of old grants runs.
* What models compute: OCR, parsing, scoring, embeddings, answers. They are free choices
  here; only how their answers are read is in `Judgement`.
* `oauth_config_manager.py`: the OAuth client's credentials, one row that is validated and written.
* Plain CRUD (departments and positions as texts, lists, searches), notifications, the
  embedding service, HTTP schemas, messages, and the pages of the frontend other than the
  chat panel and the browser's session, which are forms over the HTTP interface. By lines
  these are more than half of the repository, and none of them decides anything that
  outlives a request.
* Migrations, which fix the constraints the modules rely on, and scripts run by hand.
* Time: expiries (of Redis keys, links, tokens) are events that may happen, or are left out
  where the modules say so.

## 7. The plan

Done: all modules of section 2, the runs of section 3 and the proofs of section 4. What is
left would deepen them:

| Subject | Theorem | Argument |
| --- | --- | --- |
| `GoogleConnection` and `MailSync`, `MailImport` together | the mailbox jobs over the real connection | from `ConnectionServesMailbox`, `CursorKeepsUp` and `RunningIsInHand`, as `Backbone_proofs` composes its halves |
| `ChatTurns` and `ChatPanel` together | what the panel shows is what the turn recorded, when its stream ended | the wire is a prefix of what was sent; `StreamsEnd` on one side, `AnswersWhole` on the other |
| `Directory`, `Onboarding`, `Intake` | one employee row under its three writers | each module models the row for itself and the others' writes as its environment |
| liveness | the five properties of section 3 | outside what TLAPS can do here; larger instances for TLC |
