---------------------------- MODULE EmployeeRequests ---------------------------
(***************************************************************************)
(* Leave and overtime requests (modules/employee_request): employees       *)
(* submit and cancel, HR reviews.                                          *)
(*                                                                         *)
(* A review locks its row with FOR UPDATE and reads the status under the   *)
(* lock. A cancellation reads the status without a lock and takes the lock *)
(* with its UPDATE. A submission looks for overlapping requests and then   *)
(* inserts; nothing in the schema forbids two rows that overlap.           *)
(***************************************************************************)
EXTENDS Integers, Server

CONSTANTS
    Requests,   \* bound: requests ever submitted
    Employees,
    Days        \* the days a request may be for

ASSUME DaysAssumption == Days \subseteq Int
ASSUME NoneIsNoRequest == None \notin Requests

VARIABLES
    requestRow,   \* employee_requests
    requestLock,  \* who holds the lock of a row
    requestCall   \* what each handler is doing

requestVars == <<requestRow, requestLock, requestCall>>

-------------------------------------------------------------------------------
(* Types *)

RequestStatus == {"submitted", "approved", "rejected", "cancelled"}
RequestKinds == {"leave", "overtime"}

\* An overtime request is for one day, a leave for a range of them.
RequestForm == [kind : RequestKinds, owner : Employees, first : Days, last : Days]

RequestRecord == [form : RequestForm \cup {None},
                  status : RequestStatus \cup {"none"},
                  reviews : 0..2]

RequestIdle == [pc |-> "idle", row |-> None, form |-> None, verdict |-> "none"]

RequestTypeOK ==
    /\ requestRow \in [Requests -> RequestRecord]
    /\ requestLock \in [Requests -> Handlers \cup {None}]
    /\ requestCall \in [Handlers ->
            [pc : {"idle", "insert", "cancel", "cancelled", "review"},
             row : Requests \cup {None}, form : RequestForm \cup {None},
             verdict : {"none", "approved", "rejected"}]]

RequestInit ==
    /\ requestRow = [r \in Requests |->
            [form |-> None, status |-> "none", reviews |-> 0]]
    /\ requestLock = [r \in Requests |-> None]
    /\ requestCall = [h \in Handlers |-> RequestIdle]

-------------------------------------------------------------------------------
(* Queries *)

\* What the form of a request may say: the two services check the order of the
\* dates and times, the overtime form has one date.
WellFormed(f) ==
    /\ f.first <= f.last
    /\ f.kind = "overtime" => f.first = f.last

\* find_overlapping_leave and, for a single day, find_overlapping_overtime
Overlapping(f) ==
    {r \in Requests :
        /\ requestRow[r].status \in {"submitted", "approved"}
        /\ requestRow[r].form.kind = f.kind
        /\ requestRow[r].form.owner = f.owner
        /\ requestRow[r].form.first <= f.last
        /\ f.first <= requestRow[r].form.last}

\* Inserted or about to be: its id is taken.
Taken(r) ==
    \/ requestRow[r].status # "none"
    \/ \E h \in Handlers : requestCall[h].pc = "insert" /\ requestCall[h].row = r

-------------------------------------------------------------------------------
(* Submission *)

\* create_leave, create_overtime up to the insert
CheckOverlap(h, r, f) ==
    /\ requestCall[h].pc = "idle"
    /\ ~Taken(r)
    /\ WellFormed(f)
    /\ Overlapping(f) = {}
    /\ requestCall' = [requestCall EXCEPT ![h] =
            [RequestIdle EXCEPT !.pc = "insert", !.row = r, !.form = f]]
    /\ UNCHANGED <<requestRow, requestLock>>

InsertRequest(h) ==
    LET r == requestCall[h].row IN
    /\ requestCall[h].pc = "insert"
    /\ requestRow' = [requestRow EXCEPT
            ![r] = [@ EXCEPT !.form = requestCall[h].form, !.status = "submitted"]]
    /\ requestCall' = [requestCall EXCEPT ![h] = RequestIdle]
    /\ UNCHANGED requestLock

-------------------------------------------------------------------------------
(* Cancellation *)

\* cancel_leave, cancel_overtime: owner, type and status as they are now. The
\* three errors leave everything as it is.
ReadForCancel(h, r, e, k) ==
    /\ requestCall[h].pc = "idle"
    /\ requestRow[r].status = "submitted"
    /\ requestRow[r].form.owner = e
    /\ requestRow[r].form.kind = k
    /\ requestCall' = [requestCall EXCEPT
            ![h] = [RequestIdle EXCEPT !.pc = "cancel", !.row = r]]
    /\ UNCHANGED <<requestRow, requestLock>>

\* repo.update: the UPDATE waits for the row, not for a status.
UpdateCancelled(h) ==
    LET r == requestCall[h].row IN
    /\ requestCall[h].pc = "cancel"
    /\ Available(requestLock[r], h)
    /\ requestLock' = [requestLock EXCEPT ![r] = h]
    /\ requestCall' = [requestCall EXCEPT ![h] = [@ EXCEPT !.pc = "cancelled"]]
    /\ UNCHANGED requestRow

CommitCancel(h) ==
    LET r == requestCall[h].row IN
    /\ requestCall[h].pc = "cancelled"
    /\ requestRow' = [requestRow EXCEPT ![r] = [@ EXCEPT !.status = "cancelled"]]
    /\ requestLock' = [requestLock EXCEPT ![r] = None]
    /\ requestCall' = [requestCall EXCEPT ![h] = RequestIdle]

-------------------------------------------------------------------------------
(* Review *)

\* Mutant: the status is not looked at under the lock.
Existing(r) == requestRow[r].status # "none"

Reviewable(r) == requestRow[r].status = "submitted"

\* approve_request, reject_request: SELECT ... FOR UPDATE, then the status. A
\* request that is not submitted raises, and the lock is gone with the rollback.
LockForReview(h, r, verdict) ==
    /\ requestCall[h].pc = "idle"
    /\ Available(requestLock[r], h)
    /\ Reviewable(r)
    /\ requestLock' = [requestLock EXCEPT ![r] = h]
    /\ requestCall' = [requestCall EXCEPT ![h] =
            [RequestIdle EXCEPT !.pc = "review", !.row = r, !.verdict = verdict]]
    /\ UNCHANGED requestRow

\* Status and audit entry are committed together.
CommitReview(h) ==
    LET r == requestCall[h].row IN
    /\ requestCall[h].pc = "review"
    /\ requestRow' = [requestRow EXCEPT ![r].status = requestCall[h].verdict,
                                       ![r].reviews = @ + 1]
    /\ requestLock' = [requestLock EXCEPT ![r] = None]
    /\ requestCall' = [requestCall EXCEPT ![h] = RequestIdle]

-------------------------------------------------------------------------------
\* The handler raises or the process dies: the session is rolled back.
RollBackRequest(h) ==
    /\ requestCall[h].pc # "idle"
    /\ requestLock' = [r \in Requests |->
            IF requestLock[r] = h THEN None ELSE requestLock[r]]
    /\ requestCall' = [requestCall EXCEPT ![h] = RequestIdle]
    /\ UNCHANGED requestRow

RequestStep(h) ==
    \/ \E r \in Requests :
        \/ \E f \in RequestForm : CheckOverlap(h, r, f)
        \/ \E e \in Employees, k \in RequestKinds : ReadForCancel(h, r, e, k)
        \/ \E verdict \in {"approved", "rejected"} : LockForReview(h, r, verdict)
    \/ InsertRequest(h)
    \/ UpdateCancelled(h)
    \/ CommitCancel(h)
    \/ CommitReview(h)
    \/ RollBackRequest(h)

RequestNext == \E h \in Handlers : RequestStep(h)

RequestSpec == RequestInit /\ [][RequestNext]_requestVars

-------------------------------------------------------------------------------
(* Properties *)

Lifecycle == INSTANCE RequestLifecycle WITH
    status <- [r \in Requests |-> requestRow[r].status],
    reviews <- [r \in Requests |-> requestRow[r].reviews]

\* Two reviewers and the employee act on one request at once: it is reviewed at
\* most once, and a cancelled request stays cancelled, whatever was read before
\* (review_service.py:51 "to prevent concurrent HR reviewers from processing the
\* same request").
ReviewedOnce == Lifecycle!LifecycleSpec
===============================================================================
