------------------------------- MODULE Backbone -------------------------------
(***************************************************************************)
(* The hand-over from recruitment to onboarding: CandidateLifecycle, which *)
(* this module extends, and Onboarding, which it instantiates as On, side  *)
(* by side.  They write no row in common: what joins them is the queue of  *)
(* the onboarding worker in Redis, to which accept_candidate publishes and *)
(* from which process_candidate_accepted consumes.                         *)
(***************************************************************************)
EXTENDS CandidateLifecycle

CONSTANTS
    Malformed, Tasks, Fields, Patchable, Jobs, Free, MaxTries, MaxCrashes,
    MaxErrors,  \* of Onboarding
    Clerks      \* handlers of the onboarding and employee endpoints

ASSUME TriesAssumption == MaxTries \in Nat \ {0}

VARIABLES
    process, done, employee, lock, job, audit, activations, edited, crashes,
    errors,     \* of Onboarding
    clerk       \* what a handler in Clerks is doing

On == INSTANCE Onboarding WITH Requests <- Clerks, request <- clerk

onboarding == <<process, done, employee, lock, clerk, job, audit, activations,
                edited, crashes, errors>>
system == <<vars, onboarding>>

-------------------------------------------------------------------------------

BackboneInit == Init /\ On!Init

\* Mutant: the event is sent when the acceptance is validated, not committed.
DeliverEarly(r, j) ==
    /\ request[r].pc \in {"decide", "publish"}
    /\ request[r].op = "accept"
    /\ published' = published \cup {request[r].candidate}
    /\ Respond(r)
    /\ UNCHANGED <<status, calendar, accepted, expired, faults>>
    /\ On!Publish(j, request[r].candidate)

\* Mutant: a failure to reach Redis is swallowed, as one to write audit is.
DeliverNothing(r, j) == Publish(r) /\ UNCHANGED onboarding

\* enqueue_job: Redis holds the job when publish returns.
Deliver(r, j) ==
    /\ Publish(r)
    /\ On!Publish(j, request[r].candidate)

\* The recruitment endpoints, services and cron job.
Recruit ==
    /\ \/ \E r \in Requests :
            \/ NewRequest(r) \/ Resume(r) \/ Fail(r)
            \/ \E i \in Slots : RetryCreate(r, i)
       \/ Retention
    /\ UNCHANGED onboarding

\* The onboarding worker, the onboarding and the employee endpoints.
Onboard ==
    /\ \/ \E r \in Clerks :
            On!NewRequest(r) \/ On!HrStep(r) \/ On!EmployeeStep(r) \/ On!Abort(r)
       \/ \E c \in Candidates, setup \in SUBSET Patchable : On!Promote(c, setup)
       \/ \E j \in Jobs : On!Consume(j) \/ On!Error(j)
       \/ On!WorkerCrash
    /\ UNCHANGED vars

BackboneNext ==
    Recruit \/ Onboard \/ \E r \in Requests, j \in Jobs : Deliver(r, j)

BackboneSpec == BackboneInit /\ [][BackboneNext]_system

\* Each handler is resumed by its event loop, and the worker polls its queue.
BackboneFairness ==
    /\ \A r \in Requests :
         /\ WF_system(Resume(r) /\ UNCHANGED onboarding)
         /\ WF_system(\E j \in Jobs : Deliver(r, j))
    /\ \A j \in Jobs : WF_system(On!Consume(j) /\ UNCHANGED vars)

FairBackboneSpec == BackboneSpec /\ BackboneFairness

-------------------------------------------------------------------------------
(* Properties *)

\* Onboarding never starts for somebody whose acceptance is not committed,
\* however handlers and worker overlap.
OnboardedWasAccepted ==
    \A c \in Candidates : process[c] # "none" => c \in accepted

InQueue(c) ==
    \E j \in Jobs :
        job[j].candidate = c /\ job[j].pc \notin {"none", "ok", "failed"}

Publishing(c) ==
    \E r \in Requests : request[r].pc = "publish" /\ request[r].candidate = c

\* What may keep a hire from its onboarding: a promotion that took the email, a
\* payload onboarding rejects, a request or a job that failed, a worker that
\* died on every try.
Excused(c) ==
    \/ employee[c].origin = "direct"
    \/ c \in Malformed
    \/ faults > 0 \/ errors > 0 \/ crashes >= MaxTries

\* From its acceptance on a hire is always somewhere: with the handler that is
\* about to publish it, in the queue, or in onboarding.
NoHireLost ==
    \A c \in accepted :
        process[c] # "none" \/ Publishing(c) \/ InQueue(c) \/ Excused(c)

\* The hand-over is exact: nobody is onboarded who was not accepted, and nobody
\* who was accepted is lost, across commit, publication, queue and consumer.
HandedOver == OnboardedWasAccepted /\ NoHireLost

\* And in the end it is in onboarding.
HireReachesOnboarding ==
    \A c \in Candidates : c \in accepted ~> process[c] # "none" \/ Excused(c)

-------------------------------------------------------------------------------
(* The inductive invariant: why the invariants above hold *)

\* ARQ counts a try when it starts a job, and only a crash leads to a second.
TriesInv ==
    \A j \in Jobs :
        /\ job[j].pc = "none" => job[j].tries = 0
        /\ job[j].pc = "queued" => job[j].tries <= crashes
        /\ job[j].pc \in On!Running => job[j].tries <= crashes + 1

\* A job is somebody's published acceptance, and what it has found out holds.
JobInv ==
    \A j \in Jobs : LET c == job[j].candidate IN
        /\ job[j].pc # "none" => c \in published
        /\ job[j].pc = "reject" => c \in Malformed
        /\ job[j].pc = "duplicate" => process[c] # "none"
        /\ job[j].pc \in {"raised", "returned", "ok", "failed"}
             => process[c] # "none" \/ Excused(c)

\* Every published acceptance has reached Redis.
QueueInv == \A c \in published : process[c] # "none" \/ InQueue(c) \/ Excused(c)

ProcessInv ==
    \A c \in Candidates :
        /\ process[c] # "none" => c \in published
        /\ employee[c].origin = "onboarding" => process[c] # "none"

\* Who waits for a process, or holds it, found one.
ClerkInv ==
    \A r \in Clerks :
        clerk[r].pc \in {"wait", "held", "ready"} => process[clerk[r].candidate] # "none"

\* The queue is in step with what recruitment published and onboarding created.
HandOver == TriesInv /\ JobInv /\ QueueInv /\ ProcessInv /\ ClerkInv
===============================================================================
