------------------------------ MODULE Onboarding ------------------------------
(***************************************************************************)
(* The onboarding component: the ARQ consumer of candidate_accepted events *)
(* (onboarding/container.py), the OnboardingService transactions that HR   *)
(* requests run (onboarding/application/onboarding_service.py), and the    *)
(* writes the employee module makes to the same employees row.             *)
(*                                                                         *)
(* A database transaction is a sequence of steps: what it read without a   *)
(* lock, the row lock it waits for, what it read under the lock, and one   *)
(* commit that makes all its writes visible (READ COMMITTED, the session   *)
(* rolls back on any error).  The session keeps the objects it loaded: a   *)
(* later SELECT of the same row does not refresh them, and the UPDATE it   *)
(* emits holds only the columns whose value differs from the one loaded.   *)
(***************************************************************************)
EXTENDS Naturals, FiniteSets

CONSTANTS
    Candidates,  \* accepted candidates, each with an email address of its own
    Malformed,   \* those whose payload validate_event_payload rejects
    Tasks,       \* CHECKLIST_TEMPLATE
    Fields,      \* setup columns: department, position, manager, start date
    Patchable,   \* the setup columns PUT /employees/{id} may also write
    Requests,    \* HTTP request handlers that may run at the same time
    Jobs,        \* ARQ jobs, each one candidate_accepted event
    Free,        \* no handler holds the row lock
    MaxTries,    \* OnboardingWorkerSettings.max_tries
    MaxCrashes,  \* bound: worker processes that die
    MaxErrors    \* bound: database errors a job meets

ASSUME MalformedAssumption == Malformed \subseteq Candidates
ASSUME PatchableAssumption == Patchable \subseteq Fields
ASSUME FreeAssumption == Free \notin Requests
ASSUME TasksAssumption == Tasks # {}
ASSUME BoundsAssumption ==
    MaxTries \in Nat \ {0} /\ MaxCrashes \in Nat /\ MaxErrors \in Nat

VARIABLES
    process,      \* onboarding_processes.status by candidate_id (unique)
    done,         \* onboarding_tasks with status done
    employee,     \* the employees row with the candidate's email (unique)
    lock,         \* holder of the row lock on the process
    request,      \* HTTP request handlers
    job,          \* the onboarding-worker queue and its running jobs
    audit,        \* onboarding_audit_logs by event_id (the ARQ job id)
    activations,  \* employee_activated entries by candidate_id
    edited,       \* history: PUT /employees/{id} wrote setup columns
    crashes,
    errors

rows == <<process, done, employee, activations, edited>>
worker == <<job, audit, crashes, errors>>
vars == <<rows, lock, request, worker>>

-------------------------------------------------------------------------------
(* Types *)

ProcessStatus == {"none", "in_progress", "complete"}
Origins == {"none", "onboarding", "direct"}
EventOps ==
    {"process_created", "duplicate_detected", "event_rejected", "event_failed"}

\* A request's intended writes.  A task edit has one element in complete or
\* in revert; a setup edit or a PUT has none and gives columns a value (fill)
\* or NULL (clear).
Edits == [complete : SUBSET Tasks, revert : SUBSET Tasks,
          fill : SUBSET Fields, clear : SUBSET Fields]

NoEdit == [complete |-> {}, revert |-> {}, fill |-> {}, clear |-> {}]

\* What a transaction has read of the rows it will decide on.
Views == [done : SUBSET Tasks, setup : SUBSET Fields, active : BOOLEAN]
NoView == [done |-> {}, setup |-> {}, active |-> FALSE]

\* wait: for the row lock; held: lock taken, employee not read yet; ready:
\* everything read, about to commit; put, delete: the employee module's two.
RequestPc == {"idle", "wait", "held", "ready", "put", "delete"}
JobPc == {"none", "queued", "reject", "lookup", "create", "duplicate",
          "raised", "returned", "ok", "failed"}
Running == {"reject", "lookup", "create", "duplicate", "raised", "returned"}

EmployeeRow == [origin : Origins, active : BOOLEAN, setup : SUBSET Fields]
RequestState == [pc : RequestPc, candidate : Candidates, edit : Edits, view : Views]
JobState == [pc : JobPc, candidate : Candidates, tries : 0..MaxTries]

TypeOK ==
    /\ process \in [Candidates -> ProcessStatus]
    /\ done \in [Candidates -> SUBSET Tasks]
    /\ employee \in [Candidates -> EmployeeRow]
    /\ lock \in [Candidates -> Requests \cup {Free}]
    /\ request \in [Requests -> RequestState]
    /\ job \in [Jobs -> JobState]
    /\ audit \in [Jobs -> SUBSET EventOps]
    /\ activations \in [Candidates -> Nat]
    /\ edited \in [Candidates -> BOOLEAN]
    /\ crashes \in 0..MaxCrashes
    /\ errors \in 0..MaxErrors

Init ==
    /\ process = [c \in Candidates |-> "none"]
    /\ done = [c \in Candidates |-> {}]
    /\ employee = [c \in Candidates |->
                     [origin |-> "none", active |-> FALSE, setup |-> {}]]
    /\ lock = [c \in Candidates |-> Free]
    /\ \E c \in Candidates :
         /\ request = [r \in Requests |-> [pc |-> "idle", candidate |-> c,
                                           edit |-> NoEdit, view |-> NoView]]
         /\ job = [j \in Jobs |-> [pc |-> "none", candidate |-> c, tries |-> 0]]
    /\ audit = [j \in Jobs |-> {}]
    /\ activations = [c \in Candidates |-> 0]
    /\ edited = [c \in Candidates |-> FALSE]
    /\ crashes = 0
    /\ errors = 0

-------------------------------------------------------------------------------
(* HR requests: PATCH a task, PATCH the employee setup *)

View(c) == [done |-> done[c], setup |-> employee[c].setup,
            active |-> employee[c].active]

Enter(r, c, pc, edit, view) ==
    /\ request[r].pc = "idle"
    /\ request' = [request EXCEPT ![r] = [pc |-> pc, candidate |-> c,
                                         edit |-> edit, view |-> view]]

Respond(r) ==
    request' = [request EXCEPT ![r].pc = "idle", ![r].edit = NoEdit,
                               ![r].view = NoView]

\* Mutant: a transaction that never ends.
ReleaseNever(r) == UNCHANGED lock

Release(r) ==
    lock' = [lock EXCEPT ![request[r].candidate] = IF @ = r THEN Free ELSE @]

\* complete_task reads the task before it locks the process: a request for
\* the status the task already has returns here and changes nothing.
CompleteTask(r, c, t) ==
    /\ process[c] # "none"
    /\ t \notin done[c]
    /\ Enter(r, c, "wait", [NoEdit EXCEPT !.complete = {t}], NoView)
    /\ UNCHANGED <<rows, lock, worker>>

RevertTask(r, c, t) ==
    /\ process[c] # "none"
    /\ t \in done[c]
    /\ Enter(r, c, "wait", [NoEdit EXCEPT !.revert = {t}], NoView)
    /\ UNCHANGED <<rows, lock, worker>>

\* update_employee_setup; an empty body is legal and only tries to activate.
UpdateSetup(r, c, fill, clear) ==
    /\ process[c] # "none"
    /\ fill \cap clear = {}
    /\ Enter(r, c, "wait", [NoEdit EXCEPT !.fill = fill, !.clear = clear], NoView)
    /\ UNCHANGED <<rows, lock, worker>>

\* Mutant: a plain SELECT, without FOR UPDATE.
LockProcessUnlocked(r) ==
    LET c == request[r].candidate IN
    /\ request[r].pc = "wait"
    /\ process[c] # "complete"
    /\ lock' = [lock EXCEPT ![c] = r]
    /\ request' = [request EXCEPT ![r].pc = "held"]
    /\ UNCHANGED <<rows, worker>>

\* Mutant: no second look at the status under the lock.
LockProcessReopens(r) ==
    LET c == request[r].candidate IN
    /\ request[r].pc = "wait"
    /\ lock[c] = Free
    /\ lock' = [lock EXCEPT ![c] = r]
    /\ request' = [request EXCEPT ![r].pc = "held"]
    /\ UNCHANGED <<rows, worker>>

\* SELECT ... FOR UPDATE returns the process as last committed.
LockProcess(r) ==
    LET c == request[r].candidate IN
    /\ request[r].pc = "wait"
    /\ lock[c] = Free
    /\ process[c] # "complete"
    /\ lock' = [lock EXCEPT ![c] = r]
    /\ request' = [request EXCEPT ![r].pc = "held"]
    /\ UNCHANGED <<rows, worker>>

\* OnboardingProcessAlreadyCompletedError: the lock is rolled back at once.
RejectCompleted(r) ==
    LET c == request[r].candidate IN
    /\ request[r].pc = "wait"
    /\ lock[c] = Free
    /\ process[c] = "complete"
    /\ Respond(r)
    /\ UNCHANGED <<rows, lock, worker>>

\* The employee and the task counts are read under the process lock, but the
\* employees row itself is not locked.  Reverting a task reads neither.
ReadView(r) ==
    /\ request[r].pc = "held"
    /\ request[r].edit.revert = {}
    /\ request' = [request EXCEPT ![r].pc = "ready",
                                 ![r].view = View(request[r].candidate)]
    /\ UNCHANGED <<rows, lock, worker>>

\* Mutant: only the completion of a task decides, not a setup edit.
ActivatesOnTaskOnly(edit, view) ==
    /\ edit.complete # {}
    /\ view.done \cup edit.complete = Tasks
    /\ (view.setup \cup edit.fill) \ edit.clear = Fields

\* _activate_if_complete, on what the transaction read and is about to write.
Activates(edit, view) ==
    /\ edit.revert = {}
    /\ view.done \cup edit.complete = Tasks
    /\ (view.setup \cup edit.fill) \ edit.clear = Fields

\* The columns after the UPDATE: one filled with the value loaded (kept) or
\* cleared when loaded as NULL is not part of it.
Patched(setup, edit, view, kept) ==
    (setup \cup (edit.fill \ kept)) \ (edit.clear \cap view.setup)

Commit(r) ==
    LET c == request[r].candidate
        edit == request[r].edit
        view == request[r].view
        activates == Activates(edit, view)
    IN
    /\ \/ request[r].pc = "ready"
       \/ request[r].pc = "held" /\ edit.revert # {}
    /\ \E kept \in SUBSET (edit.fill \cap view.setup) :
         employee' = [employee EXCEPT
             ![c].setup = Patched(@, edit, view, kept),
             ![c].active = @ \/ activates]
    /\ done' = [done EXCEPT ![c] = (@ \cup edit.complete) \ edit.revert]
    /\ process' = [process EXCEPT ![c] = IF activates THEN "complete" ELSE @]
    /\ activations' = [activations EXCEPT ![c] = IF activates THEN @ + 1 ELSE @]
    /\ Release(r)
    /\ Respond(r)
    /\ UNCHANGED <<edited, worker>>

\* Any error, a validation that fails, or the API process dying: rollback.
Abort(r) ==
    /\ request[r].pc # "idle"
    /\ Release(r)
    /\ Respond(r)
    /\ UNCHANGED <<rows, worker>>

-------------------------------------------------------------------------------
(* The employee module on the same row: PUT, DELETE, promote *)

BeginPut(r, c, fill, clear) ==
    /\ employee[c].origin # "none"
    /\ fill \cap clear = {}
    /\ Enter(r, c, "put", [NoEdit EXCEPT !.fill = fill, !.clear = clear], View(c))
    /\ UNCHANGED <<rows, lock, worker>>

\* update_employee commits without a look at the onboarding process.
CommitPut(r) ==
    LET c == request[r].candidate
        edit == request[r].edit
        view == request[r].view
    IN
    /\ request[r].pc = "put"
    /\ \E kept \in SUBSET (edit.fill \cap view.setup) :
         employee' = [employee EXCEPT ![c].setup = Patched(@, edit, view, kept)]
    /\ edited' = [edited EXCEPT ![c] = TRUE]
    /\ Respond(r)
    /\ UNCHANGED <<process, done, activations, lock, worker>>

BeginDelete(r, c) ==
    /\ employee[c].origin # "none"
    /\ Enter(r, c, "delete", NoEdit, View(c))
    /\ UNCHANGED <<rows, lock, worker>>

\* soft_delete: is_active is written only if it was loaded TRUE.
CommitDelete(r) ==
    /\ request[r].pc = "delete"
    /\ employee' = [employee EXCEPT ![request[r].candidate].active =
                      @ /\ ~request[r].view.active]
    /\ Respond(r)
    /\ UNCHANGED <<process, done, activations, edited, lock, worker>>

\* promote_candidate creates an active employee (the entity's default) and no
\* onboarding; for an email that has an employee it only sets the link.
Promote(c, setup) ==
    /\ employee[c].origin = "none"
    /\ employee' = [employee EXCEPT
                      ![c] = [origin |-> "direct", active |-> TRUE, setup |-> setup]]
    /\ UNCHANGED <<process, done, activations, edited, lock, request, worker>>

-------------------------------------------------------------------------------
(* The onboarding worker: process_candidate_accepted, one ARQ job per event *)

Goto(j, from, to) ==
    /\ job[j].pc = from
    /\ job' = [job EXCEPT ![j].pc = to]

Audit(j, op) == audit' = [audit EXCEPT ![j] = @ \cup {op}]

Publish(j, c) ==
    /\ job[j].pc = "none"
    /\ job' = [job EXCEPT ![j].pc = "queued", ![j].candidate = c]
    /\ UNCHANGED <<rows, lock, request, audit, crashes, errors>>

\* A worker takes the job; ARQ counts the try before it calls the function.
Start(j) ==
    /\ job[j].pc = "queued"
    /\ job[j].tries < MaxTries
    /\ job' = [job EXCEPT
                 ![j].pc = IF job[j].candidate \in Malformed THEN "reject"
                                                            ELSE "lookup",
                 ![j].tries = @ + 1]
    /\ UNCHANGED <<rows, lock, request, audit, crashes, errors>>

\* ARQ drops a job that was started max_tries times and never ended.
GiveUp(j) ==
    /\ job[j].tries = MaxTries
    /\ Goto(j, "queued", "failed")
    /\ UNCHANGED <<rows, lock, request, audit, crashes, errors>>

Reject(j) ==
    /\ Goto(j, "reject", "returned")
    /\ Audit(j, "event_rejected")
    /\ UNCHANGED <<rows, lock, request, crashes, errors>>

LookUp(j) ==
    /\ IF process[job[j].candidate] = "none"
          THEN Goto(j, "lookup", "create")
          ELSE Goto(j, "lookup", "duplicate")
    /\ UNCHANGED <<rows, lock, request, audit, crashes, errors>>

\* Mutant: no unique email, nor unique candidate_id.
CreateAgain(j) ==
    LET c == job[j].candidate IN
    /\ Goto(j, "create", "returned")
    /\ Audit(j, "process_created")
    /\ employee' = [employee EXCEPT
          ![c] = [origin |-> "onboarding", active |-> FALSE, setup |-> {}]]
    /\ process' = [process EXCEPT ![c] = "in_progress"]
    /\ UNCHANGED <<done, activations, edited, lock, request, crashes, errors>>

\* One transaction: inactive employee, process, checklist and audit entry.
Create(j) ==
    LET c == job[j].candidate IN
    /\ employee[c].origin = "none"
    /\ Goto(j, "create", "returned")
    /\ Audit(j, "process_created")
    /\ employee' = [employee EXCEPT
          ![c] = [origin |-> "onboarding", active |-> FALSE, setup |-> {}]]
    /\ process' = [process EXCEPT ![c] = "in_progress"]
    /\ UNCHANGED <<done, activations, edited, lock, request, crashes, errors>>

\* Each of the five attempts takes a new code and meets the same unique email.
CreateConflict(j) ==
    /\ employee[job[j].candidate].origin # "none"
    /\ Goto(j, "create", "raised")
    /\ UNCHANGED <<rows, lock, request, audit, crashes, errors>>

RecordDuplicate(j) ==
    /\ Goto(j, "duplicate", "returned")
    /\ Audit(j, "duplicate_detected")
    /\ UNCHANGED <<rows, lock, request, crashes, errors>>

\* The database refuses a statement; a rejection has no handler around it.
Error(j) ==
    /\ errors < MaxErrors
    /\ errors' = errors + 1
    /\ \/ \E from \in {"lookup", "create", "duplicate"} : Goto(j, from, "raised")
       \/ Goto(j, "reject", "failed")
    /\ UNCHANGED <<rows, lock, request, audit, crashes>>

RecordFailure(j) ==
    /\ job[j].tries = MaxTries
    /\ Goto(j, "raised", "failed")
    /\ Audit(j, "event_failed")
    /\ UNCHANGED <<rows, lock, request, crashes, errors>>

\* The handler re-raises.  ARQ runs a job again only for Retry, cancellation
\* or a lost worker: any other exception ends the job.
EndFailed(j) ==
    /\ Goto(j, "raised", "failed")
    /\ \/ job[j].tries < MaxTries /\ UNCHANGED errors
       \/ /\ job[j].tries = MaxTries  \* _record_failure swallows its error
          /\ errors < MaxErrors
          /\ errors' = errors + 1
    /\ UNCHANGED <<rows, lock, request, audit, crashes>>

Ack(j) ==
    /\ Goto(j, "returned", "ok")
    /\ UNCHANGED <<rows, lock, request, audit, crashes, errors>>

\* Mutant: a job leaves the queue when it is taken, not when it ends.
WorkerCrashLosesJobs ==
    /\ crashes < MaxCrashes
    /\ crashes' = crashes + 1
    /\ \E j \in Jobs : job[j].pc \in Running
    /\ job' = [j \in Jobs |-> IF job[j].pc \in Running
                              THEN [job[j] EXCEPT !.pc = "failed"] ELSE job[j]]
    /\ UNCHANGED <<rows, lock, request, audit, errors>>

\* The worker process dies: its jobs are delivered again.
WorkerCrash ==
    /\ crashes < MaxCrashes
    /\ crashes' = crashes + 1
    /\ \E j \in Jobs : job[j].pc \in Running
    /\ job' = [j \in Jobs |-> IF job[j].pc \in Running
                              THEN [job[j] EXCEPT !.pc = "queued"] ELSE job[j]]
    /\ UNCHANGED <<rows, lock, request, audit, errors>>

-------------------------------------------------------------------------------
(* The system *)

HrStep(r) ==
    LockProcess(r) \/ RejectCompleted(r) \/ ReadView(r) \/ Commit(r)

EmployeeStep(r) == CommitPut(r) \/ CommitDelete(r)

NewRequest(r) ==
    \E c \in Candidates :
        \/ \E t \in Tasks : CompleteTask(r, c, t) \/ RevertTask(r, c, t)
        \/ \E fill, clear \in SUBSET Fields : UpdateSetup(r, c, fill, clear)
        \/ \E fill, clear \in SUBSET Patchable : BeginPut(r, c, fill, clear)
        \/ BeginDelete(r, c)

Consume(j) ==
    \/ Start(j) \/ GiveUp(j) \/ Reject(j) \/ LookUp(j) \/ Create(j)
    \/ CreateConflict(j) \/ RecordDuplicate(j) \/ RecordFailure(j)
    \/ EndFailed(j) \/ Ack(j)

Next ==
    \/ \E r \in Requests :
         NewRequest(r) \/ HrStep(r) \/ EmployeeStep(r) \/ Abort(r)
    \/ \E c \in Candidates, setup \in SUBSET Patchable : Promote(c, setup)
    \/ \E j \in Jobs :
         (\E c \in Candidates : Publish(j, c)) \/ Consume(j) \/ Error(j)
    \/ WorkerCrash

Spec == Init /\ [][Next]_vars

\* A handler that runs is resumed; PostgreSQL queues the waiters of a row lock,
\* so nobody is overtaken for ever; the worker keeps polling its queue.
Fairness ==
    /\ \A r \in Requests : SF_vars(HrStep(r)) /\ WF_vars(EmployeeStep(r))
    /\ \A j \in Jobs : WF_vars(Consume(j))

FairSpec == Spec /\ Fairness

-------------------------------------------------------------------------------
(* Properties *)

\* The jobs whose transaction created the process of a candidate.
Creators(c) ==
    {j \in Jobs : job[j].candidate = c /\ "process_created" \in audit[j]}

\* However often the event of a candidate is published, delivered again after
\* a crash, or raced by another job between look-up and insert, one job at
\* most created the process, and that entry committed with it
\* (start_from_event, _create_new_process).
ProcessUnique ==
    \A c \in Candidates :
        Cardinality(Creators(c)) = IF process[c] = "none" THEN 0 ELSE 1

\* Requests that finish the last tasks and the last setup fields together
\* activate the employee once, and a completed process keeps every task done
\* even if a revert waited for the lock meanwhile (complete_task).
CompleteMeansAllDone ==
    \A c \in Candidates :
        /\ process[c] = "complete" => done[c] = Tasks
        /\ activations[c] = IF process[c] = "complete" THEN 1 ELSE 0

\* Nobody that entered through onboarding is an active employee before the
\* process is complete: no other path to is_active reaches the row.
InactiveUntilComplete ==
    \A c \in Candidates :
        employee[c].origin = "onboarding" /\ employee[c].active
            => process[c] = "complete"

\* A process belongs to an employee row that onboarding itself created: a
\* promotion that wins the race for the email leaves no process behind.
ProcessOwnsEmployee ==
    \A c \in Candidates :
        process[c] # "none" <=> employee[c].origin = "onboarding"

\* While only onboarding requests write the row, whichever of two concurrent
\* requests commits last sees that everything is there and activates: a
\* process is never left in progress with nothing to do.  Taking a task back
\* and setup edits may still be under way.
NoLostActivation ==
    \A c \in Candidates :
        process[c] = "in_progress" /\ ~edited[c]
            => ~(done[c] = Tasks /\ employee[c].setup = Fields)

\* Under the same proviso, who was activated has a complete setup.
CompleteHasSetup ==
    \A c \in Candidates :
        process[c] = "complete" /\ ~edited[c] => employee[c].setup = Fields

\* What an activation takes: it is earned once, by a whole checklist, and by an
\* employee of the process (_activate_if_complete, _create_new_process).
ActivationEarned == CompleteMeansAllDone /\ InactiveUntilComplete /\ ProcessOwnsEmployee

\* Whichever of the concurrent requests commits last, an activation that is due
\* has been made, and with a complete setup.
ActivationKept == NoLostActivation /\ CompleteHasSetup

\* However the requests of HR, the consumer, promotions and PUTs interleave, an
\* employee is activated when it is due, and only then (complete_task,
\* update_employee_setup, _activate_if_complete).
ActivationStands == ActivationEarned /\ ActivationKept

\* A request that reached the lock before the completion, with a task or a
\* setup change in hand, writes nothing after it (the re-check under the lock
\* in complete_task and update_employee_setup).
FrozenWhenComplete ==
    [][\A c \in Candidates : process[c] = "complete" =>
          /\ process'[c] = "complete"
          /\ done'[c] = done[c]
          /\ \/ employee'[c].setup = employee[c].setup
             \/ edited'[c]]_vars

\* A published event that meets no database error becomes a process, through
\* every crash of the worker short of max_tries, unless its payload is
\* malformed or a promotion took the email.
EventDelivered ==
    \A c \in Candidates \ Malformed :
        (\E j \in Jobs : job[j].pc = "queued" /\ job[j].candidate = c)
            ~> \/ process[c] # "none" \/ employee[c].origin = "direct"
               \/ errors > 0 \/ crashes >= MaxTries

\* No handler waits for ever for the row lock, whatever the others do.
EveryRequestAnswered ==
    \A r \in Requests : request[r].pc = "wait" ~> request[r].pc = "idle"

\* Onboarding implements its contract.
Contract == INSTANCE OnboardingContract WITH
    stage <- process,
    finished <- done,
    live <- [c \in Candidates |->
               employee[c].origin = "onboarding" /\ employee[c].active]

ContractSpec == Contract!Spec

-------------------------------------------------------------------------------
(* The inductive invariant: why the invariants above hold *)

Holds(r) == request[r].pc \in {"held", "ready"}

\* The row lock belongs to the one request that is past SELECT ... FOR UPDATE.
LockInv ==
    \A r \in Requests, c \in Candidates :
        lock[c] = r <=> Holds(r) /\ request[r].candidate = c

\* Who holds the lock saw the process in progress, and it still is.
HolderInv ==
    \A r \in Requests : LET c == request[r].candidate IN
        /\ Holds(r) => process[c] = "in_progress"
        /\ request[r].pc = "wait" => process[c] # "none"

EditInv ==
    \A r \in Requests :
        /\ request[r].edit.fill \cap request[r].edit.clear = {}
        /\ request[r].pc = "ready" => request[r].edit.revert = {}

\* What the holder read is current: task counts always, the setup columns
\* unless the employee module, which takes no lock, wrote them.
ViewInv ==
    \A r \in Requests : LET c == request[r].candidate IN
        request[r].pc = "ready" =>
            /\ request[r].view.done = done[c]
            /\ edited[c] \/ request[r].view.setup = employee[c].setup

FreshInv == \A c \in Candidates : process[c] = "none" => done[c] = {}

CreatedInv ==
    /\ \A c \in Candidates :
         IF process[c] = "none" THEN Creators(c) = {}
                                ELSE \E j \in Jobs : Creators(c) = {j}
    /\ \A j \in Jobs : job[j].pc = "none" => audit[j] = {}

\* Concurrent HR requests and employee writes never leave the row lock, the
\* transactions' views and the rows out of step with one another.
IInv ==
    /\ LockInv /\ HolderInv /\ EditInv /\ ViewInv /\ FreshInv /\ CreatedInv
    /\ CompleteMeansAllDone /\ InactiveUntilComplete /\ ProcessOwnsEmployee
    /\ NoLostActivation /\ CompleteHasSetup

-------------------------------------------------------------------------------
(* What the documentation says and the code does not do *)

\* "Transient failure - let ARQ retry.  Record the failure only once the
\* retries are exhausted" (container.py:338): an event that is given up left
\* a process or an event_failed entry.
FailureIsRecorded ==
    \A j \in Jobs : job[j].pc = "failed" =>
        \/ process[job[j].candidate] # "none"
        \/ audit[j] # {}

\* "Active Employee: co du Department, Position, Manager, start date"
\* (CONTEXT.md:120): the step that completes a process finds them all.
ActivatedWithSetup ==
    [][\A c \in Candidates :
          process[c] # "complete" /\ process'[c] = "complete"
              => employee'[c].setup = Fields]_vars

\* "Soft-delete an employee by setting is_active=False"
\* (employee_service.py:224): after a DELETE the employee is not active.
DeleteDeactivates ==
    [][\A r \in Requests :
          CommitDelete(r) => ~employee'[request[r].candidate].active]_vars
===============================================================================
