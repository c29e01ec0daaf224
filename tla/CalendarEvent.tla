---------------------------- MODULE CalendarEvent ----------------------------
(***************************************************************************)
(* One interview and its event in Google Calendar                          *)
(* (recruitment/application/interview_scheduler_service.py). People edit   *)
(* the event on Google as well; the etag stored with the interview makes a *)
(* PATCH conditional, and a PATCH that loses leaves a conflict which HR    *)
(* resolves. Rows are read without locks, a commit writes the columns that *)
(* the handler changed.                                                    *)
(***************************************************************************)
EXTENDS Naturals, Sequences, Server

CONSTANTS
    Starts,        \* times of the interview
    MaxEdits,      \* bound: versions of the event
    MaxConflicts   \* bound: conflicts captured

\* Etags are natural numbers here.
ASSUME NoneIsNoEtag == None \notin Nat

VARIABLES
    event,      \* the event on Google
    interview,  \* the row of the interview
    conflicts,  \* calendar_conflicts of the event, in order
    calls,      \* per handler: what it has read, and what it is doing
    crossed     \* a resolution, or a PATCH without an etag, ran beside another call

calendarVars == <<event, interview, conflicts, calls, crossed>>

-------------------------------------------------------------------------------
(* Types *)

NoCall ==
    [pc |-> "idle", start |-> None, etag |-> None, conflict |-> None,
     had |-> None, vouched |-> None]

Etags == 1..MaxEdits

CalendarTypeOK ==
    /\ event \in [version : Etags \cup {0}, start : Starts \cup {None},
                  live : BOOLEAN, unseen : BOOLEAN]
    /\ interview \in [status : {"none", "scheduled", "cancelled"},
                      start : Starts \cup {None}, etag : Etags \cup {None}]
    /\ interview.status = "none" <=> interview.start = None
    /\ Len(conflicts) <= MaxConflicts
    /\ \A i \in DOMAIN conflicts :
        /\ conflicts[i].status \in {"unresolved", "keep_google", "overwrite_vroom"}
        /\ conflicts[i].etag \in Etags \cup {None}
        /\ conflicts[i].start \in Starts \cup {None}
    /\ \A h \in Handlers :
        /\ calls[h].pc \in {"idle", "reschedule", "overwrite", "moved", "overwritten",
                            "capture", "keep"}
        /\ calls[h].etag \in Etags \cup {None}
    /\ crossed \in BOOLEAN

CalendarInit ==
    /\ event = [version |-> 0, start |-> None, live |-> FALSE, unseen |-> FALSE]
    /\ interview = [status |-> "none", start |-> None, etag |-> None]
    /\ conflicts = <<>>
    /\ calls = [h \in Handlers |-> NoCall]
    /\ crossed = FALSE

EndCall(h) == calls' = [calls EXCEPT ![h] = NoCall]

\* A handler has the row; the calls it may get in the way of are noted.
LoadRow(h, call) ==
    /\ calls[h] = NoCall
    /\ calls' = [calls EXCEPT ![h] = 
            [call EXCEPT !.had = interview.start, !.vouched = interview.etag]]
    /\ crossed' = (crossed \/ \E o \in Handlers \ {h} :
            /\ calls[o] # NoCall
            /\ \E c \in {calls[o], call} : c.pc # "reschedule" \/ c.etag = None)

-------------------------------------------------------------------------------
(* Google Calendar *)

\* Somebody moves the event, edits something else of it, or deletes it.
EditOnGoogle(start, live) ==
    /\ event.live
    /\ event.version < MaxEdits
    /\ event' = [version |-> event.version + 1, start |-> start, live |-> live, unseen |-> TRUE]
    /\ UNCHANGED <<interview, conflicts, calls, crossed>>

Matches(etag) == etag \in {None, event.version}

-------------------------------------------------------------------------------
(* Scheduling *)

\* schedule_interview stores the event without its etag, create_interview with it.
Book(start, etag) ==
    /\ interview.status = "none"
    /\ etag \in {None, 1}
    /\ event' = [version |-> 1, start |-> start, live |-> TRUE, unseen |-> FALSE]
    /\ interview' = [status |-> "scheduled", start |-> start, etag |-> etag]
    /\ UNCHANGED <<conflicts, calls, crossed>>

BeginMove(h, start) ==
    /\ interview.status = "scheduled"
    /\ LoadRow(h, [NoCall EXCEPT !.pc = "reschedule", !.start = start, !.etag = interview.etag])
    /\ UNCHANGED <<event, interview, conflicts>>

\* The PATCH is applied. When its answer is lost it is sent again
\* (retry_with_backoff) or given up.
PatchApplied(h, answered) ==
    /\ calls[h].pc \in {"reschedule", "overwrite"}
    /\ event.live
    /\ Matches(calls[h].etag)
    /\ event.version < MaxEdits
    /\ event' = [event EXCEPT !.version = @ + 1, !.start = calls[h].start, !.unseen = FALSE]
    /\ calls' = IF ~answered THEN calls
                ELSE [calls EXCEPT ![h].pc = IF @ = "reschedule" THEN "moved" ELSE "overwritten",
                                   ![h].etag = event.version + 1]
    /\ UNCHANGED <<interview, conflicts, crossed>>

\* 412: the event is not the one of the etag.
PatchLoses(h) ==
    /\ calls[h].pc \in {"reschedule", "overwrite"}
    /\ ~Matches(calls[h].etag)
    /\ calls' = [calls EXCEPT ![h].pc = "capture"]
    /\ UNCHANGED <<event, interview, conflicts, crossed>>

\* Google does not answer, or the event is gone: the session rolls back.
CallFails(h) ==
    /\ calls[h] # NoCall
    /\ EndCall(h)
    /\ UNCHANGED <<event, interview, conflicts, crossed>>

\* The columns the handler changed.
CommitMove(h) ==
    /\ calls[h].pc = "moved"
    /\ interview' = [interview EXCEPT
            !.start = IF calls[h].start = calls[h].had THEN @ ELSE calls[h].start,
            !.etag = calls[h].etag]
    /\ EndCall(h)
    /\ UNCHANGED <<event, conflicts, crossed>>

-------------------------------------------------------------------------------
(* Conflicts *)

\* Mutant: the interview takes over the etag that was found.
CaptureTakesEtag(h, found) ==
    /\ calls[h].pc = "capture"
    /\ Len(conflicts) < MaxConflicts
    /\ conflicts' = Append(conflicts,
            [status |-> "unresolved", live |-> event.live,
             etag |-> IF found THEN event.version ELSE None,
             start |-> IF found THEN event.start ELSE None])
    /\ event' = [event EXCEPT !.unseen = @ /\ ~found]
    /\ interview' = [interview EXCEPT !.etag = event.version]
    /\ EndCall(h)
    /\ UNCHANGED crossed

\* _capture_calendar_conflict: the snapshot is empty if the event cannot be read.
CaptureConflict(h, found) ==
    /\ calls[h].pc = "capture"
    /\ Len(conflicts) < MaxConflicts
    /\ conflicts' = Append(conflicts,
            [status |-> "unresolved", live |-> event.live,
             etag |-> IF found THEN event.version ELSE None,
             start |-> IF found THEN event.start ELSE None])
    /\ event' = [event EXCEPT !.unseen = @ /\ ~found]
    /\ EndCall(h)
    /\ UNCHANGED <<interview, crossed>>

BeginKeepGoogle(h, i) ==
    /\ conflicts[i].status = "unresolved"
    /\ LoadRow(h, [NoCall EXCEPT !.pc = "keep", !.conflict = i])
    /\ UNCHANGED <<event, interview, conflicts>>

Resolved(h, choice) == conflicts' = [conflicts EXCEPT ![calls[h].conflict].status = choice]

\* The snapshot of the conflict, as far as there is one.
KeepGoogle(h) ==
    /\ calls[h].pc = "keep"
    /\ LET c == conflicts[calls[h].conflict] IN
       interview' =
            IF c.etag = None THEN interview
            ELSE [start |-> IF c.start = calls[h].had THEN interview.start ELSE c.start,
                  etag |-> IF c.etag = calls[h].vouched THEN interview.etag ELSE c.etag,
                  status |-> IF c.live THEN interview.status ELSE "cancelled"]
    /\ Resolved(h, "keep_google")
    /\ EndCall(h)
    /\ UNCHANGED <<event, crossed>>

\* The interview as it is goes to Google, on condition of the snapshot's etag.
BeginOverwrite(h, i) ==
    /\ conflicts[i].status = "unresolved"
    /\ LoadRow(h, [NoCall EXCEPT !.pc = "overwrite", !.conflict = i,
                              !.start = interview.start, !.etag = conflicts[i].etag])
    /\ UNCHANGED <<event, interview, conflicts>>

CommitOverwrite(h) ==
    /\ calls[h].pc = "overwritten"
    /\ interview' = [interview EXCEPT !.etag = calls[h].etag]
    /\ Resolved(h, "overwrite_vroom")
    /\ EndCall(h)
    /\ UNCHANGED <<event, crossed>>

-------------------------------------------------------------------------------

CalendarStep(h) ==
    \/ \E s \in Starts : BeginMove(h, s)
    \/ \E answered \in BOOLEAN : PatchApplied(h, answered)
    \/ PatchLoses(h)
    \/ CommitMove(h)
    \/ CallFails(h)
    \/ \E found \in BOOLEAN : CaptureConflict(h, found)
    \/ \E i \in DOMAIN conflicts : BeginKeepGoogle(h, i) \/ BeginOverwrite(h, i)
    \/ KeepGoogle(h)
    \/ CommitOverwrite(h)

CalendarNext ==
    \/ \E s \in Starts, e \in {None, 1} : Book(s, e)
    \/ \E s \in Starts, live \in BOOLEAN : EditOnGoogle(s, live)
    \/ \E h \in Handlers : CalendarStep(h)

CalendarSpec == CalendarInit /\ [][CalendarNext]_calendarVars

-------------------------------------------------------------------------------
(* Properties *)

\* An interview whose etag is the event's shows the event's time: a PATCH that
\* Google would accept starts from what HR sees, whatever was edited, lost, sent
\* again or resolved before, as long as no resolution and no PATCH without an
\* etag runs beside another call.
EtagVouches ==
    interview.etag = event.version /\ ~crossed => interview.start = event.start

\* The same, however the calls overlap.
AlwaysVouches == interview.etag = event.version => interview.start = event.start

\* An edit made on Google that the program has not seen is not overwritten ("an
\* event somebody edited on Google in the meantime surfaces as a 412 conflict
\* instead of being overwritten", interview_scheduler_service.py:416-418).
OnlySeenIsReplaced ==
    [][event.unseen /\ event'.version # event.version => event'.unseen]_calendarVars
===============================================================================
