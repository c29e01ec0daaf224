-------------------------- MODULE CandidateLifecycle --------------------------
(***************************************************************************)
(* The recruitment pipeline of a candidate: the decisions of HR            *)
(* (candidate_lifecycle_service.py), the interviews booked on the          *)
(* organization's Google Calendar (interview_scheduler_service.py), the    *)
(* candidate_accepted event (event_publisher.py) and the retention job     *)
(* (retention_job.py).                                                     *)
(*                                                                         *)
(* No handler locks a row.  Each reads the candidate or the interview,     *)
(* decides on what it read, may call the Calendar, and commits the columns *)
(* it changed.  Calendar calls and commits are separate steps.             *)
(***************************************************************************)
EXTENDS Naturals

CONSTANTS
    Candidates,
    Slots,      \* bound: Calendar events ever created, each for one interview
    Requests,   \* HTTP request handlers that may run at the same time
    None,       \* no slot
    MaxFaults   \* bound: crashes, lost answers and failed statements

ASSUME SlotsAssumption == None \notin Slots
ASSUME FaultsAssumption == MaxFaults \in {0, 1}

VARIABLES
    status,     \* candidates.status, "deleted" when the row is gone
    interview,  \* interviews.status of the row that references the event
    event,      \* the events on the Calendar
    owner,      \* the candidate an event was created for
    accepted,   \* history: candidates a committed transaction accepted
    published,  \* candidates whose candidate_accepted event reached Redis
    expired,    \* candidates the retention job still has to delete
    request,
    faults

calendar == <<interview, event, owner>>
events == <<accepted, published>>
vars == <<status, calendar, events, expired, request, faults>>

-------------------------------------------------------------------------------
(* Types *)

\* Nothing in the program sets "reviewing", which is therefore left out.
Statuses == {"new", "interview_scheduled", "accepted", "rejected", "archived",
             "deleted"}

\* VALID_TRANSITIONS
Allowed(from) ==
    CASE from = "new" -> {"interview_scheduled", "rejected", "archived"}
      [] from = "interview_scheduled" -> {"accepted", "rejected", "archived"}
      [] OTHER -> {}

Interviews == {"none", "scheduled", "completed", "cancelled", "removed"}

Ops == {"none", "schedule", "create", "reschedule", "cancel", "complete",
        "reject", "archive", "accept"}

Decisions == [reject |-> "rejected", archive |-> "archived", accept |-> "accepted"]

\* insert: before the Calendar creates the event; persist: before the commit
\* that records it; patch, move: the same for a new time; unbook, close: for a
\* cancellation; decide: before the commit of a decision; publish: before the
\* event; collect, cleanup, mark: calling off the interviews after it.
Pcs == {"idle", "insert", "persist", "patch", "move", "unbook", "close",
        "decide", "publish", "collect", "cleanup", "mark"}

Handler == [pc : Pcs, op : Ops, candidate : Candidates, seen : Statuses,
            slot : Slots \cup {None}, todo : SUBSET Slots]

Idle(c) == [pc |-> "idle", op |-> "none", candidate |-> c, seen |-> "new",
            slot |-> None, todo |-> {}]

TypeOK ==
    /\ status \in [Candidates -> Statuses]
    /\ interview \in [Slots -> Interviews]
    /\ event \in [Slots -> {"none", "live", "gone"}]
    /\ owner \in [Slots -> Candidates]
    /\ accepted \in SUBSET Candidates
    /\ published \in SUBSET Candidates
    /\ expired \in SUBSET Candidates
    /\ request \in [Requests -> Handler]
    /\ faults \in 0..MaxFaults

Init ==
    /\ status = [c \in Candidates |-> "new"]
    /\ interview = [i \in Slots |-> "none"]
    /\ event = [i \in Slots |-> "none"]
    /\ accepted = {}
    /\ published = {}
    /\ expired = {}
    /\ \E c \in Candidates :
         /\ owner = [i \in Slots |-> c]
         /\ request = [r \in Requests |-> Idle(c)]
    /\ faults = 0

-------------------------------------------------------------------------------
(* A handler's steps *)

Booked(c) == {i \in Slots : owner[i] = c /\ interview[i] = "scheduled"}

\* Only a reschedule writes the status back that it has loaded.
Begin(r, c, op, pc, slot) ==
    /\ request[r].pc = "idle"
    /\ request' = [request EXCEPT ![r] =
                     [pc |-> pc, op |-> op, candidate |-> c,
                      seen |-> IF op = "reschedule" THEN status[c] ELSE "new",
                      slot |-> slot, todo |-> {}]]
    /\ UNCHANGED <<status, calendar, events, expired, faults>>

Goto(r, pc) == request' = [request EXCEPT ![r].pc = pc]

Respond(r) == request' = [request EXCEPT ![r] = Idle(@.candidate)]

-------------------------------------------------------------------------------
(* Interviews *)

BeginSchedule(r, c) ==
    /\ "interview_scheduled" \in Allowed(status[c])
    /\ Begin(r, c, "schedule", "insert", None)

\* create_interview does not look at the candidate's status.
BeginCreate(r, c) ==
    /\ status[c] # "deleted"
    /\ Begin(r, c, "create", "insert", None)

\* A replacement is a new interview; the cancelled one may be replaced again.
BeginReplacement(r, i) ==
    /\ interview[i] = "cancelled"
    /\ Begin(r, owner[i], "create", "insert", None)

NewEvent(c, i) ==
    /\ event[i] = "none"
    /\ event' = [event EXCEPT ![i] = "live"]
    /\ owner' = [owner EXCEPT ![i] = c]

\* _create_calendar_event: the event exists before anything is committed.
CreateEvent(r, i) ==
    /\ request[r].pc = "insert"
    /\ NewEvent(request[r].candidate, i)
    /\ request' = [request EXCEPT ![r] = [@ EXCEPT !.pc = "persist", !.slot = i]]
    /\ UNCHANGED <<status, interview, events, expired, faults>>

\* retry_with_backoff posts again after a timeout or a 5xx, though the first
\* request may have been carried out.
RetryCreate(r, i) ==
    /\ faults < MaxFaults
    /\ faults' = faults + 1
    /\ request[r].pc = "insert"
    /\ NewEvent(request[r].candidate, i)
    /\ UNCHANGED <<status, interview, events, expired, request>>

\* Only schedule_interview moves the candidate.
PersistInterview(r) ==
    LET c == request[r].candidate IN
    /\ request[r].pc = "persist"
    /\ status[c] # "deleted"
    /\ interview' = [interview EXCEPT ![request[r].slot] = "scheduled"]
    /\ status' = IF request[r].op = "schedule"
                 THEN [status EXCEPT ![c] = "interview_scheduled"] ELSE status
    /\ Respond(r)
    /\ UNCHANGED <<event, owner, events, expired, faults>>

\* reschedule_interview validates no transition.
BeginReschedule(r, c, i) ==
    /\ i \in Booked(c)
    /\ Begin(r, c, "reschedule", "patch", i)

PatchEvent(r) ==
    /\ request[r].pc = "patch"
    /\ event[request[r].slot] = "live"
    /\ Goto(r, "move")
    /\ UNCHANGED <<status, calendar, events, expired, faults>>

\* Mutant: the UPDATE writes every column back as it was loaded.
PersistMoveWholeRow(r) ==
    LET c == request[r].candidate IN
    /\ request[r].pc = "move"
    /\ status[c] # "deleted"
    /\ interview' = [interview EXCEPT ![request[r].slot] = "scheduled"]
    /\ status' = [status EXCEPT ![c] = "interview_scheduled"]
    /\ Respond(r)
    /\ UNCHANGED <<event, owner, events, expired, faults>>

\* The interview's times are written, its status is not; the candidate's
\* status is written only if the handler loaded another one.
PersistMove(r) ==
    LET c == request[r].candidate IN
    /\ request[r].pc = "move"
    /\ status[c] # "deleted"
    /\ status' = IF request[r].seen = "interview_scheduled" THEN status
                 ELSE [status EXCEPT ![c] = "interview_scheduled"]
    /\ Respond(r)
    /\ UNCHANGED <<calendar, events, expired, faults>>

BeginCancel(r, c, i) ==
    /\ i \in Booked(c)
    /\ Begin(r, c, "cancel", "unbook", i)

\* Mutant: the delete goes to the calendar selected today; its 404 is success.
DeleteEventElsewhere(r) ==
    /\ request[r].pc = "unbook"
    /\ Goto(r, "close")
    /\ UNCHANGED <<status, calendar, events, expired, faults>>

\* delete_event: an event already gone counts as deleted.
DeleteEvent(r) ==
    /\ request[r].pc = "unbook"
    /\ event' = [event EXCEPT ![request[r].slot] = "gone"]
    /\ Goto(r, "close")
    /\ UNCHANGED <<status, interview, owner, events, expired, faults>>

BeginComplete(r, c, i) ==
    /\ i \in Booked(c)
    /\ Begin(r, c, "complete", "close", i)

\* The last of two handlers that both loaded a scheduled interview wins.
CloseInterview(r) ==
    LET i == request[r].slot IN
    /\ request[r].pc = "close"
    /\ interview[i] # "removed"
    /\ interview' = [interview EXCEPT
          ![i] = IF request[r].op = "cancel" THEN "cancelled" ELSE "completed"]
    /\ Respond(r)
    /\ UNCHANGED <<status, event, owner, events, expired, faults>>

\* The Calendar refuses: rolled back, nothing has been changed anywhere.
CalendarRefuses(r) ==
    /\ request[r].pc \in {"insert", "patch", "unbook"}
    /\ Respond(r)
    /\ UNCHANGED <<status, calendar, events, expired, faults>>

-------------------------------------------------------------------------------
(* Decisions *)

\* Mutant: the event is published before the acceptance is committed.
BeginDecisionPublishes(r, c, op) ==
    /\ Decisions[op] \in Allowed(status[c])
    /\ request[r].pc = "idle"
    /\ request' = [request EXCEPT ![r].pc = "decide", ![r].op = op,
                                 ![r].candidate = c]
    /\ published' = IF op = "accept" THEN published \cup {c} ELSE published
    /\ UNCHANGED <<status, calendar, accepted, expired, faults>>

BeginDecision(r, c, op) ==
    /\ Decisions[op] \in Allowed(status[c])
    /\ Begin(r, c, op, "decide", None)

\* Mutant: an acceptance goes on as a rejection does, and publishes nothing.
DecideSilently(r) ==
    LET c == request[r].candidate
        op == request[r].op
    IN
    /\ request[r].pc = "decide"
    /\ status[c] # "deleted"
    /\ status' = [status EXCEPT ![c] = Decisions[op]]
    /\ accepted' = IF op = "accept" THEN accepted \cup {c} ELSE accepted
    /\ Goto(r, "collect")
    /\ UNCHANGED <<calendar, published, expired, faults>>

\* The decision is committed before the event is published, or the interviews
\* are called off.
Decide(r) ==
    LET c == request[r].candidate
        op == request[r].op
    IN
    /\ request[r].pc = "decide"
    /\ status[c] # "deleted"
    /\ status' = [status EXCEPT ![c] = Decisions[op]]
    /\ accepted' = IF op = "accept" THEN accepted \cup {c} ELSE accepted
    /\ Goto(r, IF op = "accept" THEN "publish" ELSE "collect")
    /\ UNCHANGED <<calendar, published, expired, faults>>

Publish(r) ==
    /\ request[r].pc = "publish"
    /\ published' = published \cup {request[r].candidate}
    /\ Respond(r)
    /\ UNCHANGED <<status, calendar, accepted, expired, faults>>

\* Mutant: only the most recent interview is called off.
CollectOne(r) ==
    LET booked == Booked(request[r].candidate) IN
    /\ request[r].pc = "collect"
    /\ \E S \in SUBSET booked :
         /\ booked # {} => \E i \in booked : S = {i}
         /\ request' = [request EXCEPT
               ![r] = [@ EXCEPT !.pc = "cleanup", !.todo = S]]
    /\ UNCHANGED <<status, calendar, events, expired, faults>>

\* cancel_interview_for_candidate: every scheduled interview, read once.
Collect(r) ==
    /\ request[r].pc = "collect"
    /\ request' = [request EXCEPT
          ![r] = [@ EXCEPT !.pc = "cleanup", !.todo = Booked(request[r].candidate)]]
    /\ UNCHANGED <<status, calendar, events, expired, faults>>

CallOff(r, i) ==
    /\ request[r].pc = "cleanup"
    /\ i \in request[r].todo
    /\ request' = [request EXCEPT
          ![r] = [@ EXCEPT !.pc = "mark", !.slot = i, !.todo = request[r].todo \ {i}]]
    /\ \/ event' = [event EXCEPT ![i] = "gone"] /\ UNCHANGED faults
       \/ \* the delete failed: the interview is marked all the same
          /\ faults < MaxFaults
          /\ faults' = faults + 1
          /\ UNCHANGED event
    /\ UNCHANGED <<status, interview, owner, events, expired>>

MarkCancelled(r) ==
    LET i == request[r].slot IN
    /\ request[r].pc = "mark"
    /\ interview[i] # "removed"
    /\ interview' = [interview EXCEPT ![i] = "cancelled"]
    /\ Goto(r, "cleanup")
    /\ UNCHANGED <<status, event, owner, events, expired, faults>>

CalledOff(r) ==
    /\ request[r].pc = "cleanup"
    /\ request[r].todo = {}
    /\ Respond(r)
    /\ UNCHANGED <<status, calendar, events, expired, faults>>

-------------------------------------------------------------------------------
(* Errors *)

\* The row to update was deleted, or the event to patch: the handler raises.
RowGone(r) ==
    /\ \/ /\ request[r].pc \in {"persist", "move", "decide"}
          /\ status[request[r].candidate] = "deleted"
       \/ /\ request[r].pc \in {"close", "mark"}
          /\ interview[request[r].slot] = "removed"
       \/ request[r].pc = "patch" /\ event[request[r].slot] = "gone"
    /\ Respond(r)
    /\ UNCHANGED <<status, calendar, events, expired, faults>>

\* The API process dies, or the database or Redis fails, at any step.
Fail(r) ==
    /\ faults < MaxFaults
    /\ faults' = faults + 1
    /\ request[r].pc # "idle"
    /\ Respond(r)
    /\ UNCHANGED <<status, calendar, events, expired>>

-------------------------------------------------------------------------------
(* The retention job *)

\* One run at a time; whose rejection is old enough, and how many the batch
\* takes, is left open.
SelectExpired(batch) ==
    /\ expired = {}
    /\ batch \subseteq {c \in Candidates : status[c] = "rejected" /\ Booked(c) = {}}
    /\ expired' = batch
    /\ UNCHANGED <<status, calendar, events, request, faults>>

\* The row is read again only to be deleted; its interviews go with it.
DeleteExpired(c) ==
    /\ c \in expired
    /\ expired' = expired \ {c}
    /\ status' = [status EXCEPT ![c] = "deleted"]
    /\ interview' = [i \in Slots |-> IF owner[i] = c /\ interview[i] # "none"
                                     THEN "removed" ELSE interview[i]]
    /\ UNCHANGED <<event, owner, events, request, faults>>

\* A failure rolls back, which expires every loaded row; reading the next one
\* outside of the try then raises, and the run ends.
RetentionFails(c) ==
    /\ faults < MaxFaults
    /\ faults' = faults + 1
    /\ c \in expired
    /\ expired' = {}
    /\ UNCHANGED <<status, calendar, events, request>>

-------------------------------------------------------------------------------
(* The system *)

NewRequest(r) ==
    \/ \E c \in Candidates :
         \/ BeginSchedule(r, c) \/ BeginCreate(r, c)
         \/ \E op \in DOMAIN Decisions : BeginDecision(r, c, op)
         \/ \E i \in Slots : \/ BeginReschedule(r, c, i) \/ BeginCancel(r, c, i)
                             \/ BeginComplete(r, c, i)
    \/ \E i \in Slots : BeginReplacement(r, i)

Resume(r) ==
    \/ \E i \in Slots : CreateEvent(r, i) \/ CallOff(r, i)
    \/ PersistInterview(r) \/ PatchEvent(r) \/ PersistMove(r)
    \/ DeleteEvent(r) \/ CloseInterview(r) \/ CalendarRefuses(r)
    \/ Decide(r) \/ Collect(r) \/ MarkCancelled(r) \/ CalledOff(r)
    \/ RowGone(r)

Advance(r) == Resume(r) \/ Publish(r)

Retention ==
    \/ \E batch \in (SUBSET Candidates) \ {{}} : SelectExpired(batch)
    \/ \E c \in Candidates : DeleteExpired(c) \/ RetentionFails(c)

Next ==
    \/ \E r \in Requests :
         \/ NewRequest(r) \/ Advance(r) \/ Fail(r)
         \/ \E i \in Slots : RetryCreate(r, i)
    \/ Retention

Spec == Init /\ [][Next]_vars

\* The event loop resumes every handler it has started.
FairSpec == Spec /\ \A r \in Requests : WF_vars(Advance(r))

-------------------------------------------------------------------------------
(* Properties *)

InFlight(i) ==
    \E r \in Requests : request[r].slot = i /\ request[r].pc = "persist"

\* The handlers that have removed the event and not yet said so.
Closing(i) ==
    \E r \in Requests :
        /\ request[r].slot = i
        /\ \/ request[r].pc = "mark"
           \/ request[r].pc = "close" /\ request[r].op = "cancel"

\* As long as nothing fails, no invitation is left on the Calendar that the
\* system has no interview for: not even when cancellations, completions and
\* decisions on the same interview overlap.
EventsAccounted ==
    faults = 0 => \A i \in Slots :
        event[i] = "live" =>
            \/ interview[i] \in {"scheduled", "completed"}
            \/ InFlight(i)
            \/ status[owner[i]] = "deleted"

\* Nor does the system list an interview whose invitation is gone, except for
\* the moment between the Calendar's answer and the commit.
ScheduledIsBooked ==
    faults = 0 => \A i \in Slots :
        interview[i] = "scheduled" => event[i] = "live" \/ Closing(i)

\* The Calendar and the interviews account for each other.
CalendarAgrees == EventsAccounted /\ ScheduledIsBooked

\* An interview that has ended is never scheduled again, whichever handler
\* still holds the copy it loaded before.
EndedStaysEnded ==
    [][\A i \in Slots :
          interview[i] \in {"completed", "cancelled", "removed"}
              => interview'[i] # "scheduled"]_vars

\* Onboarding hears only of candidates that a committed transaction accepted,
\* and without a fault it hears of every one.
PublishedIsAccepted ==
    /\ published \subseteq accepted
    /\ faults = 0 => \A c \in accepted \ published :
         \E r \in Requests : request[r].pc = "publish" /\ request[r].candidate = c

\* Every handler answers, and so every acceptance is published, unless
\* something failed.
AcceptancePublished ==
    \A c \in Candidates :
        c \in accepted ~> c \in published \/ faults > 0

\* Every interview that was booked when a rejection or an archive committed is
\* called off, however many there are (cancel_interview_for_candidate).
DecisionCallsOff ==
    \A i \in Slots :
        (\E r \in Requests :
             request[r].pc = "collect" /\ i \in Booked(request[r].candidate))
            ~> interview[i] # "scheduled" \/ faults > 0

-------------------------------------------------------------------------------
(* The inductive invariant: why the invariants above hold *)

\* A handler past its read works on an interview row that exists; one past the
\* creation of an event has that event to itself.
SlotKnown ==
    \A r \in Requests :
        /\ request[r].pc = "persist" =>
             /\ request[r].slot \in Slots
             /\ owner[request[r].slot] = request[r].candidate
             /\ event[request[r].slot] = "live"
             /\ interview[request[r].slot] = "none"
        /\ request[r].pc \in {"patch", "move", "unbook", "close", "mark"} =>
             /\ request[r].slot \in Slots
             /\ interview[request[r].slot] # "none"
        /\ \A i \in request[r].todo : interview[i] # "none"

SlotExclusive ==
    \A r, q \in Requests :
        /\ request[r].pc = "persist"
        /\ request[q].pc = "persist"
        /\ request[r].slot = request[q].slot
        => r = q

OpKnown ==
    \A r \in Requests :
        /\ request[r].pc = "unbook" => request[r].op = "cancel"
        /\ request[r].pc = "close" => request[r].op \in {"cancel", "complete"}
        /\ request[r].pc = "decide" => request[r].op \in DOMAIN Decisions
        /\ request[r].pc = "publish" => request[r].candidate \in accepted

\* What a handler is about to record of an event has happened to it.
EventKnown ==
    \A r \in Requests :
        /\ request[r].pc = "close" /\ request[r].op = "cancel"
             => event[request[r].slot] = "gone"
        /\ request[r].pc = "mark" /\ faults = 0
             => event[request[r].slot] = "gone"

RowInv ==
    \A i \in Slots :
        /\ interview[i] = "none" => event[i] \in {"none", "live"}
        /\ interview[i] # "none" => event[i] # "none"
        /\ interview[i] = "cancelled" /\ faults = 0 => event[i] = "gone"
        /\ interview[i] = "removed" => status[owner[i]] = "deleted"

\* Decisions, interviews and the retention job, interleaved as they may, keep
\* the Calendar, the rows and the copies the handlers loaded in step.
IInv ==
    /\ SlotKnown /\ SlotExclusive /\ OpKnown /\ EventKnown /\ RowInv
    /\ EventsAccounted /\ ScheduledIsBooked /\ PublishedIsAccepted

-------------------------------------------------------------------------------
(* What the documentation says and the code does not do *)

\* Archive is "not allowed from accepted status" (archive_candidate): no step
\* takes an accepted candidate to archived.
AcceptedNotArchived ==
    [][\A c \in Candidates :
          status[c] = "accepted" => status'[c] # "archived"]_vars

\* "A scheduled Interview owns a live Calendar event.  Retention must never
\* remove its Candidate first" (retention_job.py:74).
RetentionSparesBooked ==
    [][\A c \in Candidates :
          DeleteExpired(c) => Booked(c) = {}]_vars

\* "For EVERY scheduled Interview the Candidate holds, delete the EXACT stored
\* event, mark that Interview cancelled" (cancel_interview_for_candidate): at
\* the end of it the candidate holds none.
NoneLeftBooked ==
    [][\A r \in Requests :
          CalledOff(r) => Booked(request[r].candidate) = {}]_vars
===============================================================================
