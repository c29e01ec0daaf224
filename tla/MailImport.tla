------------------------------- MODULE MailImport ------------------------------
(***************************************************************************)
(* The import of past mail (gmail/application/import_service.py): an API   *)
(* handler notes the job in Redis and enqueues it, a worker fetches batch  *)
(* by batch in one database transaction and reports through Redis, HR may  *)
(* cancel. The state in Redis is one set of keys without any transaction;  *)
(* its expiry after a day is left out.                                     *)
(***************************************************************************)
EXTENDS Mailbox, Naturals

CONSTANTS
    Importers,       \* bound: import jobs the worker runs at the same time
    Batches,         \* batches of 50 messages in the window
    MaxImports,      \* bound: imports started
    MaxSwitches,     \* bound: connections and disconnections
    MaxImportFaults  \* bound: what fails or dies

VARIABLES
    job,        \* gmail:historical_import:job
    cancelled,  \* gmail:historical_import:cancel
    started,    \* imports started so far
    queued,     \* jobs in the queue of the gmail worker
    requests,   \* per handler: the start or cancellation it is at
    importers,  \* per worker slot: the import it runs
    imported,   \* batches in email_messages, of which account
    abandoned,  \* imports nobody will finish
    troubles    \* connections changed, and failures, so far

importVars == <<mailboxVars, job, cancelled, started, queued, requests, importers,
                imported, abandoned, troubles>>

-------------------------------------------------------------------------------
(* Types *)

Imports == 1..MaxImports

NoImporter == [pc |-> "idle", token |-> None, generation |-> None, left |-> {}, got |-> {}]

ImportTypeOK ==
    /\ job \in [id : 0..MaxImports,
                status : {"none", "running", "completed", "cancelled", "failed"}]
    /\ cancelled \in BOOLEAN
    /\ started \in 0..MaxImports
    /\ queued \in Nat
    /\ requests \in [Handlers -> {"idle", "checked", "noted", "enqueue", "cancelling"}]
    /\ importers \in [Importers -> [pc : {"idle", "list", "fetch", "commit"},
                                    token : Accounts \cup {None},
                                    generation : Accounts \cup {None},
                                    left : SUBSET Batches, got : SUBSET Batches]]
    /\ imported \subseteq Accounts \X Batches
    /\ abandoned \subseteq Imports
    /\ troubles \in [switches : 0..MaxSwitches, faults : 0..MaxImportFaults]

ImportInit ==
    /\ MailboxInit
    /\ job = [id |-> 0, status |-> "none"]
    /\ cancelled = FALSE
    /\ started = 0
    /\ queued = 0
    /\ requests = [h \in Handlers |-> "idle"]
    /\ importers = [i \in Importers |-> NoImporter]
    /\ imported = {}
    /\ abandoned = {}
    /\ troubles = [switches |-> 0, faults |-> 0]

Trouble(kind, max) ==
    /\ troubles[kind] < max
    /\ troubles' = [troubles EXCEPT ![kind] = @ + 1]

Fails == Trouble("faults", MaxImportFaults)

SwitchAccount ==
    /\ AccountStep \/ TokenStep
    /\ Trouble("switches", MaxSwitches)
    /\ UNCHANGED <<job, cancelled, started, queued, requests, importers, imported, abandoned>>

-------------------------------------------------------------------------------
(* start_import, cancel_import *)

Answer(h, pc, next) ==
    /\ requests[h] = pc
    /\ requests' = [requests EXCEPT ![h] = next]

\* No import is running, and the connection has a token.
CheckStart(h) ==
    /\ job.status # "running"
    /\ access # None
    /\ started < MaxImports
    /\ Answer(h, "idle", "checked")
    /\ UNCHANGED <<mailboxVars, job, cancelled, started, queued, importers, imported,
                   abandoned, troubles>>

NoteStart(h) ==
    /\ started < MaxImports
    /\ Answer(h, "checked", "noted")
    /\ started' = started + 1
    /\ job' = [id |-> started + 1, status |-> "running"]
    /\ UNCHANGED <<mailboxVars, cancelled, queued, importers, imported, abandoned, troubles>>

\* The keys of an earlier import are deleted after the job was noted.
ForgetCancellation(h) ==
    /\ Answer(h, "noted", "enqueue")
    /\ cancelled' = FALSE
    /\ UNCHANGED <<mailboxVars, job, started, queued, importers, imported, abandoned,
                   troubles>>

Enqueue(h) ==
    /\ Answer(h, "enqueue", "idle")
    /\ queued' = queued + 1
    /\ UNCHANGED <<mailboxVars, job, cancelled, started, importers, imported, abandoned,
                   troubles>>

\* Mutant: the job is left as it is.
LeftAlone == job

\* _cleanup_job_state: whatever job is noted now.
Removed == [job EXCEPT !.status = "none"]

EnqueueFails(h) ==
    /\ Fails
    /\ Answer(h, "enqueue", "idle")
    /\ job' = Removed
    /\ cancelled' = FALSE
    /\ UNCHANGED <<mailboxVars, started, queued, importers, imported, abandoned>>

\* The API process dies between the note and the queue.
StarterDies(h) ==
    /\ Fails
    /\ \/ Answer(h, "noted", "idle")
       \/ Answer(h, "enqueue", "idle")
    /\ abandoned' = abandoned \cup {job.id}
    /\ UNCHANGED <<mailboxVars, job, cancelled, started, queued, importers, imported>>

CheckCancel(h) ==
    /\ job.status = "running"
    /\ Answer(h, "idle", "cancelling")
    /\ UNCHANGED <<mailboxVars, job, cancelled, started, queued, importers, imported,
                   abandoned, troubles>>

SetCancel(h) ==
    /\ Answer(h, "cancelling", "idle")
    /\ cancelled' = TRUE
    /\ UNCHANGED <<mailboxVars, job, started, queued, importers, imported, abandoned,
                   troubles>>

-------------------------------------------------------------------------------
(* import_historical_emails, process_import_job *)

ImporterIs(i, importer) == importers' = [importers EXCEPT ![i] = importer]

Dequeue(i) ==
    /\ importers[i].pc = "idle"
    /\ queued > 0
    /\ queued' = queued - 1
    /\ UNCHANGED <<mailboxVars, cancelled, started, requests, imported, troubles>>

\* The job is running: the token and the generation, that is the connection as
\* it was read, are kept for the whole job.
BeginImport(i) ==
    /\ Dequeue(i)
    /\ access # None
    /\ job.status = "running"
    /\ ImporterIs(i, [NoImporter EXCEPT !.pc = "list", !.token = access, !.generation = account])
    /\ UNCHANGED <<job, abandoned>>

\* Another worker has finished it, or it was removed.
SkipImport(i) ==
    /\ Dequeue(i)
    /\ job.status # "running"
    /\ UNCHANGED <<job, importers, abandoned>>

\* "Could not resolve access token"
RefuseImport(i) ==
    /\ Dequeue(i)
    /\ job.status = "running"
    /\ access = None
    /\ job' = [job EXCEPT !.status = "failed"]
    /\ UNCHANGED <<importers, abandoned>>

\* "Historical import skipped: no active connection": the job is not touched.
SkipUnconnected(i) ==
    /\ Dequeue(i)
    /\ {account, access} = {None}
    /\ abandoned' = abandoned \cup IF job.status = "running" THEN {job.id} ELSE {}
    /\ UNCHANGED <<job, importers>>

\* _fetch_all_message_ids stops at once when the import is cancelled.
ListMessages(i) ==
    /\ importers[i].pc = "list"
    /\ ImporterIs(i, [importers[i] EXCEPT !.pc = "fetch", !.left = IF cancelled THEN {} ELSE Batches])
    /\ UNCHANGED <<mailboxVars, job, cancelled, started, queued, requests, imported,
                   abandoned, troubles>>

\* _verify_connection_integrity compares the generation with the row, which the
\* session still has as it read it first: it never differs.
FetchBatch(i, b) ==
    LET importer == importers[i] IN
    /\ importer.pc = "fetch"
    /\ b \in importer.left
    /\ ~cancelled
    /\ ImporterIs(i, [importer EXCEPT !.left = @ \ {b}, !.got = @ \cup {b}])
    /\ UNCHANGED <<mailboxVars, job, cancelled, started, queued, requests, imported,
                   abandoned, troubles>>

\* _mark_final: Redis has the result before the database has the messages.
MarkFinal(i, status) ==
    /\ importers[i].pc = "fetch"
    /\ job' = [job EXCEPT !.status = status]
    /\ cancelled' = FALSE
    /\ ImporterIs(i, [importers[i] EXCEPT !.pc = "commit", !.left = {}])
    /\ UNCHANGED <<mailboxVars, started, queued, requests, imported, abandoned, troubles>>

Complete(i) == importers[i].left = {} /\ MarkFinal(i, "completed")

StopCancelled(i) == importers[i].left # {} /\ cancelled /\ MarkFinal(i, "cancelled")

\* _mark_failed: Google refuses the token or the list. A cancellation stays.
MarkFailed(i) ==
    /\ Fails
    /\ importers[i].pc \in {"list", "fetch"}
    /\ job' = [job EXCEPT !.status = "failed"]
    /\ ImporterIs(i, [importers[i] EXCEPT !.pc = "commit", !.left = {}])
    /\ UNCHANGED <<mailboxVars, cancelled, started, queued, requests, imported, abandoned>>

CommitImport(i) ==
    /\ importers[i].pc = "commit"
    /\ imported' = imported \cup {importers[i].token} \X importers[i].got
    /\ ImporterIs(i, NoImporter)
    /\ UNCHANGED <<mailboxVars, job, cancelled, started, queued, requests, abandoned, troubles>>

\* The worker process dies: the messages are rolled back, the queue has the job
\* again.
ImporterDies(i) ==
    /\ Fails
    /\ importers[i].pc # "idle"
    /\ queued' = queued + 1
    /\ ImporterIs(i, NoImporter)
    /\ UNCHANGED <<mailboxVars, job, cancelled, started, requests, imported, abandoned>>

\* The worker's job_timeout, 300 s by default, cancels the task. No handler of
\* the code catches that, and the queue drops the job.
ImporterTimesOut(i) ==
    /\ Fails
    /\ importers[i].pc # "idle"
    /\ abandoned' = abandoned \cup IF job.status = "running" THEN {job.id} ELSE {}
    /\ ImporterIs(i, NoImporter)
    /\ UNCHANGED <<mailboxVars, job, cancelled, started, queued, requests, imported>>

StartStep(h) ==
    \/ CheckStart(h)
    \/ NoteStart(h)
    \/ ForgetCancellation(h)
    \/ Enqueue(h)
    \/ EnqueueFails(h)
    \/ StarterDies(h)
    \/ CheckCancel(h)
    \/ SetCancel(h)

ImportStep(i) ==
    \/ BeginImport(i)
    \/ SkipImport(i)
    \/ RefuseImport(i)
    \/ SkipUnconnected(i)
    \/ ListMessages(i)
    \/ \E b \in Batches : FetchBatch(i, b)
    \/ Complete(i)
    \/ StopCancelled(i)
    \/ MarkFailed(i)
    \/ CommitImport(i)
    \/ ImporterDies(i)
    \/ ImporterTimesOut(i)

ImportNext ==
    \/ SwitchAccount
    \/ \E h \in Handlers : StartStep(h)
    \/ \E i \in Importers : ImportStep(i)

ImportSpec == ImportInit /\ [][ImportNext]_importVars

-------------------------------------------------------------------------------
(* Properties *)

\* "To prevent zombie 'running' state with no worker": whatever starts overlap,
\* fail to be enqueued or are cancelled, a job that Redis calls running, and that
\* therefore keeps HR from starting another, is in the queue, at a worker or
\* about to be enqueued, unless its handler or its worker was lost.
NoZombie ==
    job.status = "running" /\ job.id \notin abandoned =>
        \/ queued > 0
        \/ \E i \in Importers : importers[i].pc \in {"list", "fetch"}
        \/ \E h \in Handlers : requests[h] \in {"noted", "enqueue"}

\* "If the connection was disconnected or switched to a different account during
\* the job, this returns False and the job should abort": no batch is fetched
\* for an account that is no longer the connected one.
AbortsOnSwitch ==
    [][\A i \in Importers :
        importers'[i].got \ importers[i].got # {} => account = importers[i].generation]_importVars
===============================================================================
