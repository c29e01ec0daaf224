---------------------- MODULE CandidateLifecycle_proofs ----------------------
(***************************************************************************)
(* Proofs about CandidateLifecycle, for any number of candidates, Calendar *)
(* events and concurrent requests.                                         *)
(***************************************************************************)
EXTENDS CandidateLifecycle, TLAPS

-------------------------------------------------------------------------------
(* Type correctness *)

LEMMA BeginType ==
    ASSUME TypeOK, NEW r \in Requests, NEW c \in Candidates, NEW op \in Ops,
           NEW pc \in Pcs, NEW slot \in Slots \cup {None}, Begin(r, c, op, pc, slot)
    PROVE  TypeOK'
<1>1. (IF op = "reschedule" THEN status[c] ELSE "new") \in Statuses
  BY DEF TypeOK, Statuses
<1>2. request' \in [Requests -> Handler]
  BY <1>1 DEF TypeOK, Begin, Handler
<1> QED BY <1>2 DEF TypeOK, Begin, calendar, events

LEMMA RespondType ==
    ASSUME TypeOK, NEW r \in Requests, Respond(r)
    PROVE  request' \in [Requests -> Handler]
<1>1. "idle" \in Pcs /\ "none" \in Ops /\ "new" \in Statuses
  BY DEF Pcs, Ops, Statuses
<1>2. Idle(request[r].candidate) \in Handler
  BY <1>1 DEF TypeOK, Idle, Handler
<1> QED BY <1>2 DEF TypeOK, Respond

LEMMA GotoType ==
    ASSUME TypeOK, NEW r \in Requests, NEW pc \in Pcs, Goto(r, pc)
    PROVE  request' \in [Requests -> Handler]
  BY DEF TypeOK, Goto, Handler

LEMMA NewRequestType ==
    ASSUME TypeOK, NEW r \in Requests, NewRequest(r)
    PROVE  TypeOK'
<1>1. /\ {"insert", "patch", "unbook", "close", "decide"} \subseteq Pcs
      /\ {"schedule", "create", "reschedule", "cancel", "complete"} \subseteq Ops
      /\ DOMAIN Decisions \subseteq Ops
  BY DEF Pcs, Ops, Decisions
<1>2. \A i \in Slots : owner[i] \in Candidates
  BY DEF TypeOK
<1> QED BY <1>1, <1>2, BeginType DEF NewRequest, BeginSchedule, BeginCreate,
        BeginReplacement, BeginReschedule, BeginCancel, BeginComplete, BeginDecision

LEMMA AdvanceType ==
    ASSUME TypeOK, OpKnown, NEW r \in Requests, Advance(r)
    PROVE  TypeOK'
<1> DEFINE c == request[r].candidate
           s == request[r].slot
<1>1. /\ c \in Candidates
      /\ s \in Slots \cup {None}
      /\ request[r].op \in Ops
      /\ request[r].todo \in SUBSET Slots
  BY DEF TypeOK, Handler
<1>2. /\ Pcs = {"idle", "insert", "persist", "patch", "move", "unbook", "close",
                "decide", "publish", "collect", "cleanup", "mark"}
      /\ {"scheduled", "completed", "cancelled"} \subseteq Interviews
      /\ "interview_scheduled" \in Statuses
  BY DEF Pcs, Interviews, Statuses
<1>3. ASSUME NEW i \in Slots, CreateEvent(r, i) PROVE TypeOK'
  <2>1. [request[r] EXCEPT !.pc = "persist", !.slot = i] \in Handler
    BY <1>2 DEF TypeOK, Handler
  <2>2. request' \in [Requests -> Handler]
    BY <1>3, <2>1 DEF CreateEvent, TypeOK
  <2> QED BY <1>1, <1>3, <2>2 DEF CreateEvent, NewEvent, TypeOK, events
<1>4. ASSUME NEW i \in Slots, CallOff(r, i) PROVE TypeOK'
  <2> DEFINE h == [request[r] EXCEPT !.pc = "mark", !.slot = i,
                                     !.todo = request[r].todo \ {i}]
  <2>1. h \in Handler
    BY <1>2 DEF TypeOK, Handler
  <2>2. request' \in [Requests -> Handler]
    BY <1>4, <2>1 DEF CallOff, TypeOK
  <2>3. faults' \in 0..MaxFaults
    BY <1>4, FaultsAssumption DEF CallOff, TypeOK, FaultsAssumption
  <2> QED BY <1>4, <2>2, <2>3 DEF CallOff, TypeOK, events
<1>5. CASE PersistInterview(r)
  BY <1>1, <1>2, <1>5, RespondType DEF PersistInterview, TypeOK, events
<1>6. CASE PatchEvent(r)
  BY <1>2, <1>6, GotoType DEF PatchEvent, TypeOK, calendar, events
<1>7. CASE PersistMove(r)
  BY <1>1, <1>2, <1>7, RespondType DEF PersistMove, TypeOK, calendar, events
<1>8. CASE DeleteEvent(r)
  BY <1>1, <1>2, <1>8, GotoType DEF DeleteEvent, TypeOK, events
<1>9. CASE CloseInterview(r)
  BY <1>1, <1>2, <1>9, RespondType DEF CloseInterview, TypeOK, events
<1>10. CASE CalendarRefuses(r) \/ CalledOff(r) \/ RowGone(r)
  BY <1>10, RespondType
     DEF CalendarRefuses, CalledOff, RowGone, TypeOK, calendar, events
<1>11. CASE Decide(r)
  <2>1. request' \in [Requests -> Handler]
    BY <1>2, <1>11, GotoType DEF Decide
  <2>2. Decisions[request[r].op] \in Statuses
    BY <1>11 DEF Decide, OpKnown, Decisions, Statuses
  <2>3. status' \in [Candidates -> Statuses]
    BY <1>1, <1>11, <2>2 DEF Decide, TypeOK
  <2>4. accepted' \in SUBSET Candidates
    BY <1>1, <1>11 DEF Decide, TypeOK
  <2> QED BY <1>11, <2>1, <2>3, <2>4 DEF Decide, TypeOK, calendar
<1>12. CASE Publish(r)
  BY <1>1, <1>12, RespondType DEF Publish, TypeOK, calendar
<1>13. CASE Collect(r)
  <2>1. Booked(c) \in SUBSET Slots
    BY DEF Booked
  <2>2. [request[r] EXCEPT !.pc = "cleanup", !.todo = Booked(c)] \in Handler
    BY ZenonT(60), <1>2, <2>1 DEF TypeOK, Handler
  <2>3. request' \in [Requests -> Handler]
    BY <1>13, <2>2 DEF Collect, TypeOK
  <2> QED BY <1>13, <2>3 DEF Collect, TypeOK, calendar, events
<1>14. CASE MarkCancelled(r)
  BY <1>1, <1>2, <1>14, GotoType DEF MarkCancelled, TypeOK, events
<1> QED BY <1>3, <1>4, <1>5, <1>6, <1>7, <1>8, <1>9, <1>10, <1>11, <1>12, <1>13,
        <1>14 DEF Advance, Resume

LEMMA TypeStep ==
    ASSUME TypeOK, OpKnown, [Next]_vars
    PROVE  TypeOK'
<1>1. ASSUME NEW r \in Requests, Fail(r) \/ \E i \in Slots : RetryCreate(r, i)
      PROVE  TypeOK'
  <2>1. faults' \in 0..MaxFaults
    BY <1>1, FaultsAssumption DEF Fail, RetryCreate, TypeOK, FaultsAssumption
  <2>2. CASE Fail(r)
    BY <2>1, <2>2, RespondType DEF Fail, TypeOK, calendar, events
  <2>3. CASE \E i \in Slots : RetryCreate(r, i)
    <3>1. request[r].candidate \in Candidates
      BY DEF TypeOK, Handler
    <3> QED BY <2>1, <2>3, <3>1 DEF RetryCreate, NewEvent, TypeOK, events
  <2> QED BY <1>1, <2>2, <2>3
<1>2. CASE Retention
  <2>1. CASE \E batch \in (SUBSET Candidates) \ {{}} : SelectExpired(batch)
    BY <2>1 DEF SelectExpired, TypeOK, calendar, events
  <2>2. ASSUME NEW c \in Candidates, DeleteExpired(c) PROVE TypeOK'
    <3>1. "deleted" \in Statuses /\ "removed" \in Interviews
      BY DEF Statuses, Interviews
    <3> QED BY <2>2, <3>1 DEF DeleteExpired, TypeOK, events
  <2>3. ASSUME NEW c \in Candidates, RetentionFails(c) PROVE TypeOK'
    BY <2>3, FaultsAssumption
       DEF RetentionFails, TypeOK, calendar, events, FaultsAssumption
  <2> QED BY <1>2, <2>1, <2>2, <2>3 DEF Retention
<1>3. CASE UNCHANGED vars
  BY <1>3 DEF vars, calendar, events, TypeOK
<1> QED BY <1>1, <1>2, <1>3, NewRequestType, AdvanceType DEF Next

-------------------------------------------------------------------------------
(* The inductive invariant *)

LEMMA InitInv == Init => TypeOK /\ IInv
<1> SUFFICES ASSUME Init PROVE TypeOK /\ IInv
  OBVIOUS
<1>1. PICK c \in Candidates :
        /\ owner = [i \in Slots |-> c]
        /\ request = [r \in Requests |-> Idle(c)]
  BY DEF Init
<1>2. Idle(c) \in Handler
  BY DEF Idle, Handler, Pcs, Ops, Statuses
<1>3. TypeOK
  BY <1>1, <1>2, FaultsAssumption
     DEF Init, TypeOK, Statuses, Interviews, FaultsAssumption
<1>4. \A r \in Requests : request[r] = Idle(c)
  BY <1>1
<1>5. SlotKnown /\ SlotExclusive /\ OpKnown /\ EventKnown
  BY <1>4 DEF SlotKnown, SlotExclusive, OpKnown, EventKnown, Idle
<1>6. RowInv /\ EventsAccounted /\ ScheduledIsBooked /\ PublishedIsAccepted
  BY DEF Init, RowInv, EventsAccounted, ScheduledIsBooked, PublishedIsAccepted
<1> QED BY <1>3, <1>5, <1>6 DEF IInv

\* A new handler holds an interview row that exists, or nothing.
LEMMA NewRequestStep ==
    ASSUME TypeOK, IInv, NEW r \in Requests, NewRequest(r)
    PROVE  IInv'
<1>1. PICK c \in Candidates, op \in Ops, pc \in Pcs, slot \in Slots \cup {None} :
        /\ Begin(r, c, op, pc, slot)
        /\ \/ pc = "insert"
           \/ pc = "patch" /\ slot \in Slots /\ interview[slot] # "none"
           \/ /\ pc = "unbook" /\ op = "cancel"
              /\ slot \in Slots /\ interview[slot] # "none"
           \/ /\ pc = "close" /\ op = "complete"
              /\ slot \in Slots /\ interview[slot] # "none"
           \/ pc = "decide" /\ op \in DOMAIN Decisions
  <2>1. \A i \in Slots : owner[i] \in Candidates
    BY DEF TypeOK
  <2>2. \A d \in Candidates : \A i \in Booked(d) : i \in Slots /\ interview[i] # "none"
    BY DEF Booked
  <2>3. /\ {"schedule", "create", "reschedule", "cancel", "complete"} \subseteq Ops
        /\ DOMAIN Decisions \subseteq Ops
        /\ {"insert", "patch", "unbook", "close", "decide"} \subseteq Pcs
    BY DEF Ops, Pcs, Decisions
  <2> QED BY <2>1, <2>2, <2>3 DEF NewRequest, BeginSchedule, BeginCreate, BeginReplacement,
             BeginReschedule, BeginCancel, BeginComplete, BeginDecision
<1>2. /\ request[r].pc = "idle"
      /\ \A q \in Requests \ {r} : request'[q] = request[q]
      /\ request'[r] = [pc |-> pc, op |-> op, candidate |-> c,
                        seen |-> IF op = "reschedule" THEN status[c] ELSE "new",
                        slot |-> slot, todo |-> {}]
      /\ UNCHANGED <<status, calendar, events, expired, faults>>
  BY <1>1 DEF Begin, TypeOK
<1>3. SlotKnown' /\ SlotExclusive' /\ OpKnown' /\ EventKnown'
  BY <1>1, <1>2 DEF IInv, SlotKnown, SlotExclusive, OpKnown, EventKnown, calendar,
     events
<1>4. RowInv'
  BY <1>2 DEF IInv, RowInv, calendar
<1>5. EventsAccounted' /\ ScheduledIsBooked' /\ PublishedIsAccepted'
  BY <1>2 DEF IInv, EventsAccounted, InFlight, ScheduledIsBooked, Closing,
     PublishedIsAccepted, calendar, events
<1> QED BY <1>3, <1>4, <1>5 DEF IInv

\* Each step of a handler: what it creates, deletes or records on the Calendar
\* matches what the invariant knew of its slot.
LEMMA AdvanceStep ==
    ASSUME TypeOK, TypeOK', IInv, NEW r \in Requests, Advance(r)
    PROVE  IInv'
<1> USE DEF IInv, SlotKnown, SlotExclusive, OpKnown, EventKnown, RowInv,
        EventsAccounted, InFlight, ScheduledIsBooked, Closing, PublishedIsAccepted
<1>1. ASSUME NEW i \in Slots, CreateEvent(r, i) PROVE IInv'
  BY <1>1 DEF CreateEvent, NewEvent, TypeOK, Handler, events
<1>2. ASSUME NEW i \in Slots, CallOff(r, i) PROVE IInv'
  <2>1. /\ request[r].pc = "cleanup"
        /\ interview[i] # "none"
        /\ \A q \in Requests \ {r} : request'[q] = request[q]
        /\ request'[r].pc = "mark" /\ request'[r].slot = i
        /\ request'[r].todo \subseteq request[r].todo
        /\ UNCHANGED <<status, interview, owner, events>>
    BY <1>2 DEF CallOff, TypeOK, Handler
  <2>2. \/ event' = [event EXCEPT ![i] = "gone"] /\ faults' = faults
        \/ event' = event /\ faults' # 0
    BY <1>2, FaultsAssumption DEF CallOff, TypeOK, FaultsAssumption
  <2>3. SlotKnown'
    BY <2>1, <2>2 DEF TypeOK, Handler
  <2>4. SlotExclusive' /\ OpKnown'
    BY <2>1 DEF events
  <2>5. EventKnown'
    BY <2>1, <2>2 DEF TypeOK, Handler
  <2>6. RowInv'
    BY <2>1, <2>2 DEF TypeOK
  <2>7. EventsAccounted'
    BY <2>1, <2>2 DEF TypeOK
  <2>8. ScheduledIsBooked'
    BY <2>1, <2>2 DEF TypeOK
  <2>9. PublishedIsAccepted'
    BY <2>1, <2>2 DEF events
  <2> QED BY <2>3, <2>4, <2>5, <2>6, <2>7, <2>8, <2>9
<1>3. CASE PersistInterview(r)
  BY <1>3 DEF PersistInterview, Respond, Idle, TypeOK, Handler, events
<1>4. CASE PatchEvent(r)
  BY <1>4 DEF PatchEvent, Goto, TypeOK, Handler, calendar, events
<1>5. CASE PersistMove(r)
  BY <1>5 DEF PersistMove, Respond, Idle, TypeOK, Handler, calendar, events
<1>6. CASE DeleteEvent(r)
  BY <1>6 DEF DeleteEvent, Goto, TypeOK, Handler, events
<1>7. CASE CloseInterview(r)
  BY <1>7 DEF CloseInterview, Respond, Idle, TypeOK, Handler, events
<1>8. CASE CalendarRefuses(r)
  BY <1>8 DEF CalendarRefuses, Respond, Idle, TypeOK, Handler, calendar, events
<1>9. CASE Decide(r)
  BY <1>9 DEF Decide, Goto, TypeOK, Handler, calendar
<1>10. CASE Publish(r)
  BY <1>10 DEF Publish, Respond, Idle, TypeOK, Handler, calendar
<1>11. CASE Collect(r)
  <2> DEFINE B == Booked(request[r].candidate)
  <2>1. \A i \in B : i \in Slots /\ interview[i] # "none"
    BY DEF Booked
  <2>2. /\ request[r].pc = "collect"
        /\ request' = [request EXCEPT ![r] = [@ EXCEPT !.pc = "cleanup", !.todo = B]]
        /\ UNCHANGED <<status, calendar, events, expired, faults>>
    BY <1>11 DEF Collect
  <2> HIDE DEF B
  <2> QED BY <2>1, <2>2 DEF TypeOK, Handler, calendar, events
<1>12. CASE MarkCancelled(r)
  BY <1>12 DEF MarkCancelled, Goto, TypeOK, Handler, events
<1>13. CASE CalledOff(r)
  BY <1>13 DEF CalledOff, Respond, Idle, TypeOK, Handler, calendar, events
<1>14. CASE RowGone(r)
  BY <1>14 DEF RowGone, Respond, Idle, TypeOK, Handler, calendar, events
<1> HIDE DEF IInv, SlotKnown, SlotExclusive, OpKnown, EventKnown, RowInv,
         EventsAccounted, InFlight, ScheduledIsBooked, Closing, PublishedIsAccepted
<1> QED BY <1>1, <1>2, <1>3, <1>4, <1>5, <1>6, <1>7, <1>8, <1>9, <1>10, <1>11,
        <1>12, <1>13, <1>14 DEF Advance, Resume

\* A fault ends what holds only without one; the retention job removes rows of
\* a candidate it deletes.
LEMMA OtherStep ==
    ASSUME TypeOK, TypeOK', IInv,
           \/ \E r \in Requests : Fail(r) \/ \E i \in Slots : RetryCreate(r, i)
           \/ Retention
    PROVE  IInv'
<1> USE DEF IInv, SlotKnown, SlotExclusive, OpKnown, EventKnown, RowInv,
        EventsAccounted, InFlight, ScheduledIsBooked, Closing, PublishedIsAccepted
<1>1. ASSUME NEW r \in Requests, Fail(r) PROVE IInv'
  BY <1>1, FaultsAssumption DEF Fail, Respond, Idle, TypeOK, Handler, calendar,
     events, FaultsAssumption
<1>2. ASSUME NEW r \in Requests, NEW i \in Slots, RetryCreate(r, i) PROVE IInv'
  BY <1>2, FaultsAssumption DEF RetryCreate, NewEvent, TypeOK, Handler, events,
     FaultsAssumption
<1>3. CASE \E batch \in (SUBSET Candidates) \ {{}} : SelectExpired(batch)
  BY <1>3 DEF SelectExpired, calendar, events
<1>4. ASSUME NEW c \in Candidates, DeleteExpired(c) PROVE IInv'
  BY <1>4 DEF DeleteExpired, TypeOK, Handler, events
<1>5. ASSUME NEW c \in Candidates, RetentionFails(c) PROVE IInv'
  BY <1>5, FaultsAssumption
     DEF RetentionFails, TypeOK, calendar, events, FaultsAssumption
<1> QED BY <1>1, <1>2, <1>3, <1>4, <1>5 DEF Retention

LEMMA InvStep ==
    ASSUME TypeOK, IInv, [Next]_vars
    PROVE  TypeOK' /\ IInv'
<1>1. TypeOK'
  BY TypeStep DEF IInv
<1>2. CASE UNCHANGED vars
  <2>1. UNCHANGED <<SlotKnown, SlotExclusive, OpKnown, EventKnown, RowInv>>
    BY <1>2 DEF vars, calendar, events, SlotKnown, SlotExclusive, OpKnown,
       EventKnown, RowInv
  <2>2. UNCHANGED <<EventsAccounted, ScheduledIsBooked, PublishedIsAccepted>>
    BY <1>2 DEF vars, calendar, events, EventsAccounted, InFlight,
       ScheduledIsBooked, Closing, PublishedIsAccepted
  <2> QED BY <1>1, <2>1, <2>2 DEF IInv
<1> QED BY <1>1, <1>2, NewRequestStep, AdvanceStep, OtherStep DEF Next

LEMMA Invariance == Spec => [](TypeOK /\ IInv)
  BY InitInv, InvStep, PTL DEF Spec

-------------------------------------------------------------------------------
(* Theorems *)

\* Every variable keeps its type.
THEOREM TypeCorrect == Spec => []TypeOK
  BY Invariance, PTL

\* The handlers, the rows and the Calendar stay in step.
THEOREM Inductive == Spec => []IInv
  BY Invariance, PTL

\* Without a fault no live invitation is unaccounted for, and no scheduled
\* interview is without its invitation (interview_scheduler_service.py).
THEOREM CalendarInStep == Spec => []CalendarAgrees
<1>1. IInv => CalendarAgrees
  BY DEF IInv, CalendarAgrees
<1> QED BY <1>1, Invariance, PTL

\* Without a fault an interview that HR sees as scheduled has its Calendar event.
THEOREM ScheduledHasEvent == Spec => []ScheduledIsBooked
<1> QED BY CalendarInStep, PTL DEF CalendarAgrees

\* Onboarding hears of accepted candidates only (accept_candidate publishes
\* after the commit), and without a fault of each of them.
THEOREM PublishedAfterCommit == Spec => []PublishedIsAccepted
<1>1. IInv => PublishedIsAccepted
  BY DEF IInv
<1> QED BY <1>1, Invariance, PTL

\* No handler's stale copy reopens an interview that has ended.
THEOREM Ended == Spec => EndedStaysEnded
<1>1. ASSUME TypeOK, IInv, [Next]_vars, NEW i \in Slots,
             interview[i] \in {"completed", "cancelled", "removed"}
      PROVE  interview'[i] # "scheduled"
  <2>1. ASSUME NEW r \in Requests, PersistInterview(r)
        PROVE  interview'[i] # "scheduled"
    <3>1. request[r].slot # i
      BY <1>1, <2>1 DEF PersistInterview, IInv, SlotKnown
    <3> QED BY <1>1, <2>1, <3>1 DEF PersistInterview, TypeOK
  <2>2. ASSUME NEW r \in Requests, CloseInterview(r) \/ MarkCancelled(r)
        PROVE  interview'[i] # "scheduled"
    BY <1>1, <2>2 DEF CloseInterview, MarkCancelled, TypeOK
  <2>3. ASSUME NEW c \in Candidates, DeleteExpired(c)
        PROVE  interview'[i] # "scheduled"
    BY <1>1, <2>3 DEF DeleteExpired
  <2>4. CASE UNCHANGED interview
    BY <1>1, <2>4
  <2>5. CASE Retention
    <3>1. CASE \E batch \in (SUBSET Candidates) \ {{}} : SelectExpired(batch)
      BY <2>4, <3>1 DEF SelectExpired, calendar
    <3>2. ASSUME NEW c \in Candidates, RetentionFails(c)
          PROVE  interview'[i] # "scheduled"
      BY <2>4, <3>2 DEF RetentionFails, calendar
    <3> QED BY <2>3, <2>5, <3>1, <3>2 DEF Retention
  <2>6. ASSUME NEW r \in Requests, NewRequest(r) PROVE UNCHANGED interview
    BY <2>6 DEF NewRequest, calendar, BeginSchedule, BeginCreate, BeginReplacement,
       BeginReschedule, BeginCancel, BeginComplete, BeginDecision, Begin
  <2>7. ASSUME NEW r \in Requests, Advance(r) PROVE interview'[i] # "scheduled"
    <3>1. PersistInterview(r) \/ CloseInterview(r) \/ MarkCancelled(r)
            \/ UNCHANGED interview
      BY <2>7 DEF Advance, Resume, calendar, CreateEvent, PatchEvent, PersistMove,
         DeleteEvent, CalendarRefuses, Decide, Publish, Collect, CallOff,
         CalledOff, RowGone
    <3> QED BY <2>1, <2>2, <2>4, <3>1
  <2>8. ASSUME NEW r \in Requests, Fail(r) \/ \E j \in Slots : RetryCreate(r, j)
        PROVE  UNCHANGED interview
    BY <2>8 DEF Fail, RetryCreate, calendar
  <2>9. UNCHANGED vars => UNCHANGED interview
    BY DEF vars, calendar
  <2> QED BY <1>1, <2>4, <2>5, <2>6, <2>7, <2>8, <2>9 DEF Next
<1>2. TypeOK /\ IInv /\ [Next]_vars
        => [\A i \in Slots :
              interview[i] \in {"completed", "cancelled", "removed"}
                => interview'[i] # "scheduled"]_vars
  BY <1>1
<1> QED BY <1>2, Invariance, PTL DEF Spec, EndedStaysEnded
===============================================================================
