-------------------------------- MODULE Intake --------------------------------
(***************************************************************************)
(* How people enter recruitment and what they are considered for: job      *)
(* openings (job_opening_service.py), job applications and their promotion *)
(* (job_application_service.py, inbox_service.py,                          *)
(* job_application_decision_service.py), and the assignment of candidates  *)
(* to openings (candidate_lifecycle_service.py) while they are decided on. *)
(*                                                                         *)
(* Promotion and assignment lock the row they change with FOR UPDATE and   *)
(* read it under the lock; decisions and the transitions of an opening     *)
(* validate what they read without one, and hold the row lock only from    *)
(* their UPDATE to the commit.                                             *)
(***************************************************************************)
CONSTANTS
    Openings,
    Applications,  \* bound: job applications ever received
    Candidates,    \* bound: candidates ever created
    Uploads,       \* bound: those of them the CV pipeline may create
    Requests,      \* HTTP request handlers that may run at the same time
    None,          \* no opening, no candidate, no application
    Free           \* no handler holds the row lock

Rows == Openings \cup Applications \cup Candidates

ASSUME RowsAssumption ==
    /\ Openings \cap Applications = {}
    /\ Openings \cap Candidates = {}
    /\ Applications \cap Candidates = {}
ASSUME UploadsAssumption == Uploads \subseteq Candidates
ASSUME NoneAssumption == None \notin Rows
ASSUME HolderAssumption == Free \notin Requests

VARIABLES
    opening,      \* job_openings.status
    application,  \* job_applications: opening, and the candidate it became
    candidate,    \* candidates: status, opening, application it came from
    lock,         \* holders of row locks
    request

rows == <<opening, application, candidate>>
vars == <<rows, lock, request>>

-------------------------------------------------------------------------------
(* Types *)

Transitions == {"open", "close", "cancel"}

Goal(op) ==
    CASE op = "open" -> "open" [] op = "close" -> "closed" [] OTHER -> "cancelled"

\* _JOB_OPENING_TRANSITIONS
Reachable(status) ==
    CASE status = "draft" -> {"open", "cancelled"}
      [] status = "open" -> {"closed", "cancelled"}
      [] status = "closed" -> {"open"}
      [] status = "cancelled" -> {}

\* new and interview_scheduled are one here: both can be assigned and decided.
Decisions == {"accept", "reject", "archive"}

Verdict(op) ==
    CASE op = "accept" -> "accepted" [] op = "reject" -> "rejected"
      [] OTHER -> "archived"

Assignments == {"assign", "reassign", "unassign"}

Ops == {"none", "promote", "attach"} \cup Assignments \cup Decisions \cup Transitions

\* wait: for the row lock; held: row read under it; decide: validated on what
\* was read without a lock, before the UPDATE; touch: candidate written,
\* before the UPDATE of the opening; ready: before the commit.
Pcs == {"idle", "wait", "held", "decide", "touch", "ready"}

\* Nothing in the program sets dismissed.
Application == [status : {"none", "new", "promoted"},
                opening : Openings \cup {None}, candidate : Candidates \cup {None}]

Candidate == [status : {"none", "undecided", "accepted", "rejected", "archived",
                        "deleted"},
              opening : Openings \cup {None}, from : Applications \cup {None}]

Handler == [pc : Pcs, op : Ops, row : Rows \cup {None},
            target : Openings \cup {None}]

Idle == [pc |-> "idle", op |-> "none", row |-> None, target |-> None]

TypeOK ==
    /\ opening \in [Openings -> {"draft", "open", "closed", "cancelled"}]
    /\ application \in [Applications -> Application]
    /\ candidate \in [Candidates -> Candidate]
    /\ lock \in [Rows -> Requests \cup {Free}]
    /\ request \in [Requests -> Handler]

\* An opening is created as a draft or open.
Init ==
    /\ opening \in [Openings -> {"draft", "open"}]
    /\ application = [a \in Applications |->
                        [status |-> "none", opening |-> None, candidate |-> None]]
    /\ candidate = [c \in Candidates |->
                      [status |-> "none", opening |-> None, from |-> None]]
    /\ lock = [x \in Rows |-> Free]
    /\ request = [r \in Requests |-> Idle]

-------------------------------------------------------------------------------
(* New rows *)

\* create_from_classification: no opening yet
ReceiveApplication(a) ==
    /\ application[a].status = "none"
    /\ application' = [application EXCEPT ![a].status = "new"]
    /\ UNCHANGED <<opening, candidate, lock, request>>

\* split_item takes the opening from HR and looks at no status.
SplitApplication(a, o) ==
    /\ application[a].status = "none"
    /\ application' = [application EXCEPT ![a] = [@ EXCEPT !.status = "new",
                                                           !.opening = o]]
    /\ UNCHANGED <<opening, candidate, lock, request>>

\* create_or_update_candidate: the CV pipeline assigns no opening.
CreateCandidate(c) ==
    /\ candidate[c].status = "none"
    /\ candidate' = [candidate EXCEPT ![c].status = "undecided"]
    /\ UNCHANGED <<opening, application, lock, request>>

-------------------------------------------------------------------------------
(* A handler's steps *)

Begin(r, pc, op, row, target) ==
    /\ request[r].pc = "idle"
    /\ request' = [request EXCEPT
          ![r] = [pc |-> pc, op |-> op, row |-> row, target |-> target]]
    /\ UNCHANGED <<rows, lock>>

\* Mutant: an answer that leaves the transaction open.
EndWithoutRollback(r) ==
    /\ request' = [request EXCEPT ![r] = Idle]
    /\ UNCHANGED lock

\* Commit or rollback releases every row lock.
End(r) ==
    /\ request' = [request EXCEPT ![r] = Idle]
    /\ lock' = [x \in Rows |-> IF lock[x] = r THEN Free ELSE lock[x]]

Acquire(r, x, pc) ==
    /\ lock[x] = Free
    /\ lock' = [lock EXCEPT ![x] = r]
    /\ request' = [request EXCEPT ![r].pc = pc]
    /\ UNCHANGED rows

-------------------------------------------------------------------------------
(* Promotion and assignment: FOR UPDATE *)

BeginPromotion(r, a, target) ==
    /\ application[a].status # "none"
    /\ Begin(r, "wait", "promote", a, target)

BeginAttachment(r, a, target) ==
    /\ application[a].status # "none"
    /\ Begin(r, "wait", "attach", a, target)

BeginAssignment(r, c, op, target) ==
    /\ candidate[c].status \notin {"none", "deleted"}
    /\ (target = None) = (op = "unassign")
    /\ Begin(r, "wait", op, c, target)

MayAssign(c) == candidate[c].status = "undecided" /\ candidate[c].opening = None

MayUnassign(c) == candidate[c].status = "undecided" /\ candidate[c].opening # None

\* To the opening the candidate has already, nothing is written.
MayReassign(c, target) == MayUnassign(c) /\ candidate[c].opening # target

\* What the handler requires of the row it has locked.
Permitted(r) ==
    LET x == request[r].row
        op == request[r].op
    IN
    /\ op \in {"promote", "attach"} => application[x].status = "new"
    /\ op = "assign" => MayAssign(x)
    /\ op = "reassign" => MayReassign(x, request[r].target)
    /\ op = "unassign" => MayUnassign(x)

\* Mutant: a plain SELECT.
ReadRow(r) ==
    /\ request[r].pc = "wait"
    /\ Permitted(r)
    /\ request' = [request EXCEPT ![r].pc = "held"]
    /\ UNCHANGED <<rows, lock>>

LockRow(r) ==
    /\ request[r].pc = "wait"
    /\ Permitted(r)
    /\ Acquire(r, request[r].row, "held")

\* The row forbids it; or a promoted application answers with its candidate.
Refuse(r) ==
    /\ request[r].pc = "wait"
    /\ lock[request[r].row] = Free
    /\ ~Permitted(r)
    /\ End(r)
    /\ UNCHANGED rows

\* Mutant: the status of the opening is not looked at.
TakeOpening(r) ==
    /\ request[r].pc = "held"
    /\ request' = [request EXCEPT ![r].pc = "ready"]
    /\ UNCHANGED <<rows, lock>>

\* The opening is read without a lock; without a target there is nothing to
\* read, and a promotion then keeps the application's opening unread.
CheckOpening(r) ==
    /\ request[r].pc = "held"
    /\ request[r].target # None => opening[request[r].target] = "open"
    /\ request' = [request EXCEPT ![r].pc = "ready"]
    /\ UNCHANGED <<rows, lock>>

\* JobOpeningNotOpenError
RefuseOpening(r) ==
    /\ request[r].pc = "held"
    /\ request[r].target # None
    /\ opening[request[r].target] # "open"
    /\ End(r)
    /\ UNCHANGED rows

\* Any other error, or the process dying: the transaction is rolled back.
Abort(r) ==
    /\ request[r].pc # "idle"
    /\ End(r)
    /\ UNCHANGED rows

\* Candidate and link are written in one transaction.
CommitPromotion(r, c) ==
    LET a == request[r].row
        o == IF request[r].target = None THEN application[a].opening
                                         ELSE request[r].target
    IN
    /\ request[r].pc = "ready"
    /\ request[r].op = "promote"
    /\ candidate[c].status = "none"
    /\ candidate' = [candidate EXCEPT
                       ![c] = [status |-> "undecided", opening |-> o, from |-> a]]
    /\ application' = [application EXCEPT
                         ![a] = [status |-> "promoted", opening |-> o, candidate |-> c]]
    /\ End(r)
    /\ UNCHANGED opening

CommitAttachment(r) ==
    /\ request[r].pc = "ready"
    /\ request[r].op = "attach"
    /\ application' = [application EXCEPT
                         ![request[r].row].opening = request[r].target]
    /\ End(r)
    /\ UNCHANGED <<opening, candidate>>

\* assign_candidate, reassign_candidate, unassign_candidate
CommitAssignment(r) ==
    /\ request[r].pc = "ready"
    /\ request[r].op \in Assignments
    /\ candidate' = [candidate EXCEPT
                       ![request[r].row].opening = request[r].target]
    /\ End(r)
    /\ UNCHANGED <<opening, application>>

-------------------------------------------------------------------------------
(* Decisions and transitions: validated without a lock *)

\* The opening an acceptance will touch is the one that was read.
BeginDecision(r, c, op) ==
    /\ candidate[c].status = "undecided"
    /\ Begin(r, "decide", op, c,
             IF op = "accept" THEN candidate[c].opening ELSE None)

BeginTransition(r, o, op) ==
    /\ Goal(op) \in Reachable(opening[o])
    /\ Begin(r, "decide", op, o, None)

\* The UPDATE waits for the row lock and keeps it; the row must still exist.
Write(r) ==
    LET x == request[r].row IN
    /\ request[r].pc = "decide"
    /\ x \in Candidates => candidate[x].status # "deleted"
    /\ Acquire(r, x, IF request[r].target = None THEN "ready" ELSE "touch")

RowGone(r) ==
    LET x == request[r].row IN
    /\ request[r].pc = "decide"
    /\ x \in Candidates
    /\ candidate[x].status = "deleted"
    /\ End(r)
    /\ UNCHANGED rows

\* accept_candidate updates the opening while it holds the candidate.
TouchOpening(r) ==
    /\ request[r].pc = "touch"
    /\ Acquire(r, request[r].target, "ready")

CommitDecision(r) ==
    /\ request[r].pc = "ready"
    /\ request[r].op \in Decisions
    /\ candidate' = [candidate EXCEPT
                       ![request[r].row].status = Verdict(request[r].op)]
    /\ End(r)
    /\ UNCHANGED <<opening, application>>

CommitTransition(r) ==
    /\ request[r].pc = "ready"
    /\ request[r].op \in Transitions
    /\ opening' = [opening EXCEPT ![request[r].row] = Goal(request[r].op)]
    /\ End(r)
    /\ UNCHANGED <<application, candidate>>

\* The retention job; job_applications.candidate_id has a foreign key without
\* ON DELETE, so a candidate that was promoted cannot be deleted.
DeleteRejected(c) ==
    /\ candidate[c].status = "rejected"
    /\ lock[c] = Free
    /\ \A a \in Applications : application[a].candidate # c
    /\ candidate' = [candidate EXCEPT ![c].status = "deleted"]
    /\ UNCHANGED <<opening, application, lock, request>>

-------------------------------------------------------------------------------
(* The system *)

NewRow ==
    \/ \E a \in Applications :
         \/ ReceiveApplication(a)
         \/ \E o \in Openings : SplitApplication(a, o)
    \/ \E c \in Uploads : CreateCandidate(c)

NewRequest(r) ==
    \/ \E a \in Applications, target \in Openings \cup {None} :
         BeginPromotion(r, a, target) \/ BeginAttachment(r, a, target)
    \/ \E c \in Candidates :
         \/ \E op \in Assignments, target \in Openings \cup {None} :
              BeginAssignment(r, c, op, target)
         \/ \E op \in Decisions : BeginDecision(r, c, op)
    \/ \E o \in Openings, op \in Transitions : BeginTransition(r, o, op)

Commit(r) ==
    \/ \E c \in Candidates : CommitPromotion(r, c)
    \/ CommitAttachment(r) \/ CommitAssignment(r)
    \/ CommitDecision(r) \/ CommitTransition(r)

Advance(r) ==
    \/ LockRow(r) \/ Refuse(r) \/ CheckOpening(r) \/ RefuseOpening(r)
    \/ Write(r) \/ RowGone(r) \/ TouchOpening(r) \/ Commit(r)

Next ==
    \/ NewRow
    \/ \E r \in Requests : NewRequest(r) \/ Advance(r) \/ Abort(r)
    \/ \E c \in Candidates : DeleteRejected(c)

Spec == Init /\ [][Next]_vars

-------------------------------------------------------------------------------
(* Properties *)

\* However many promotions of an application overlap, it becomes exactly one
\* candidate, which is never deleted under it (promote_to_candidate).
PromotedOnce ==
    \A a \in Applications :
        /\ {c \in Candidates : candidate[c].from = a}
             = {application[a].candidate} \ {None}
        /\ (application[a].status = "promoted") = (application[a].candidate # None)
        /\ \A c \in Candidates :
             application[a].candidate = c => candidate[c].status # "deleted"

\* What a candidate was considered for is fixed by the decision, and what an
\* application was for by its promotion, although decisions take no lock and
\* an assignment may be under way (assign_candidate, assign_to_job_opening).
AssignmentFrozen ==
    [][/\ \A c \in Candidates :
            candidate[c].status \in {"accepted", "rejected", "archived"}
                => candidate'[c].opening = candidate[c].opening
       /\ \A a \in Applications :
            application[a].status = "promoted"
                => application'[a] = application[a]]_vars

\* Nobody is moved to an opening that has not been published, for all that
\* the check and the commit are apart and the opening is not locked.
NotAssignedToDraft ==
    [][/\ \A c \in Candidates : LET o == candidate'[c].opening IN
            candidate[c].status # "none" /\ o \notin {None, candidate[c].opening}
                => opening[o] # "draft"
       /\ \A a \in Applications : LET o == application'[a].opening IN
            application[a].status = "new" /\ o \notin {None, application[a].opening}
                => opening[o] # "draft"]_vars

\* An assignment stands once it counts, and is to an opening that was published,
\* however decisions, promotions, assignments and transitions overlap.
AssignmentsStand == AssignmentFrozen /\ NotAssignedToDraft

\* The row lock a handler cannot do without.
Awaited(r) ==
    CASE request[r].pc \in {"wait", "decide"} -> {request[r].row}
      [] request[r].pc = "touch" -> {request[r].target}
      [] OTHER -> {}

\* No handlers wait for each other in a circle, and no row stays locked by an
\* answered one, although an acceptance holds its candidate while it waits for
\* the opening: whoever holds an awaited row can move on, or waits for a row
\* whose holder can (accept_candidate, get_by_id_for_update).
WaitingEnds ==
    \A r \in Requests : \A x \in Awaited(r) : lock[x] # Free =>
        LET q == lock[x] IN
        /\ q # r
        /\ request[q].pc # "idle"
        /\ \A y \in Awaited(q) : lock[y] # Free =>
             request[lock[y]].pc # "idle" /\ Awaited(lock[y]) = {}

-------------------------------------------------------------------------------
(* The inductive invariant *)

Holds(r, x) ==
    \/ request[r].pc \in {"held", "touch", "ready"} /\ x = request[r].row
    \/ request[r].pc = "ready" /\ request[r].op = "accept" /\ x = request[r].target

\* A handler's step, and the rows it is about, belong to its operation.
ShapeInv ==
    \A r \in Requests : LET q == request[r] IN
        /\ (q.pc = "idle") = (q.op = "none")
        /\ q.op \in {"promote", "attach"} =>
             q.row \in Applications /\ q.pc \in {"wait", "held", "ready"}
        /\ q.op \in Assignments =>
             q.row \in Candidates /\ q.pc \in {"wait", "held", "ready"}
        /\ q.op \in Decisions =>
             q.row \in Candidates /\ q.pc \in {"decide", "touch", "ready"}
        /\ q.op \in Transitions => q.row \in Openings /\ q.pc \in {"decide", "ready"}
        /\ q.op \in Transitions \cup {"reject", "archive"} => q.target = None
        /\ q.pc = "touch" => q.op = "accept" /\ q.target \in Openings

LockInv == \A x \in Rows : \A r \in Requests : lock[x] = r <=> Holds(r, x)

\* What the locked row permitted, it still permits.
GuardInv ==
    \A r \in Requests : request[r].pc \in {"held", "ready"} => Permitted(r)

\* An opening found open may close, but is never a draft again.
DraftInv ==
    \A r \in Requests :
        /\ request[r].pc = "ready"
        /\ request[r].op \in {"promote", "attach"} \cup Assignments
        /\ request[r].target # None
        => opening[request[r].target] # "draft"

\* The candidate being decided on exists once it has been written.
RowInv ==
    \A r \in Requests : request[r].op \in Decisions =>
        /\ candidate[request[r].row].status # "none"
        /\ request[r].pc # "decide" => candidate[request[r].row].status # "deleted"

UnusedInv ==
    /\ \A c \in Candidates : candidate[c].status = "none" => candidate[c].from = None
    /\ \A a \in Applications :
         application[a].status # "promoted" => application[a].candidate = None

IInv ==
    /\ TypeOK /\ ShapeInv /\ LockInv /\ GuardInv
    /\ DraftInv /\ RowInv /\ UnusedInv /\ PromotedOnce
===============================================================================
