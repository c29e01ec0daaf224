--------------------------- MODULE Workplace_proofs ---------------------------
(***************************************************************************)
(* The components behind the HTTP interface and the CV pipeline, for any   *)
(* number of requests, payslips, rows, documents, files and handlers.      *)
(***************************************************************************)
EXTENDS EmployeeRequests, Payslips, Attendance, Directory, KnowledgeBase, CvPipeline,
        CalendarEvent, FiniteSetTheorems, TLAPS

-------------------------------------------------------------------------------
(* Sequences of anything *)

IsSeq(s) == Len(s) \in Nat /\ s = [i \in 1..Len(s) |-> s[i]]

LEMMA Appended ==
  ASSUME NEW s, IsSeq(s), NEW e
  PROVE  /\ IsSeq(Append(s, e))
         /\ Len(Append(s, e)) = Len(s) + 1
         /\ DOMAIN s = 1..Len(s)
         /\ DOMAIN Append(s, e) = 1..(Len(s) + 1)
         /\ \A i \in 1..Len(s) : Append(s, e)[i] = s[i]
         /\ Append(s, e)[Len(s) + 1] = e
<1> DEFINE S == {s[i] : i \in 1..Len(s)} \cup {e}
<1>1. s \in [1..Len(s) -> S]
  BY DEF IsSeq
<1>2. s \in Seq(S) /\ e \in S
  BY <1>1 DEF IsSeq
<1>3. Append(s, e) \in Seq(S)
  BY <1>2
<1> HIDE DEF S
<1>4. /\ Len(Append(s, e)) = Len(s) + 1
      /\ DOMAIN Append(s, e) = 1..(Len(s) + 1)
      /\ DOMAIN s = 1..Len(s)
  BY <1>2, <1>3
<1>5. \A i \in 1..Len(s) : Append(s, e)[i] = s[i]
  BY <1>2
<1>6. Append(s, e)[Len(s) + 1] = e
  BY <1>2
<1>7. IsSeq(Append(s, e))
  <2> DEFINE a == Append(s, e)
  <2>1. a \in Seq(S)
    BY <1>3
  <2> HIDE DEF a
  <2>2. Len(a) \in Nat /\ a \in [1..Len(a) -> S]
    BY <2>1
  <2>3. a = [i \in 1..Len(a) |-> a[i]]
    BY <2>2
  <2>4. IsSeq(a)
    BY <2>2, <2>3 DEF IsSeq
  <2> QED
    BY <2>4 DEF a
<1> QED
  BY <1>4, <1>5, <1>6, <1>7

-------------------------------------------------------------------------------
(* Attendance *)

\* A handler works on a record, or on the list.
AttendanceInv ==
    /\ attendanceRow \in [Records -> AttendanceRecord]
    /\ allowedNetworks \subseteq Networks
    /\ corrections \in [Records -> Nat]
    /\ attendanceCall \in [Handlers ->
            [pc : {"idle", "in", "out", "correct", "networks"}, row : Records \cup {None},
             in : Time, out : Time, loaded : AttendanceRecord \cup {None},
             list : SUBSET Networks]]
    /\ \A h \in Handlers :
        /\ attendanceCall[h].pc \in {"in", "out", "correct"} => attendanceCall[h].row \in Records
        /\ attendanceCall[h].pc = "correct" => attendanceCall[h].loaded \in AttendanceRecord

\* The time of the first check-in changes by a correction only.
CheckInKept ==
    \A r \in Records :
        (attendanceRow[r].exists /\ attendanceRow'[r].in # attendanceRow[r].in) =>
            corrections'[r] > corrections[r]

AttendanceCalls ==
    [pc : {"idle", "in", "out", "correct", "networks"}, row : Records \cup {None},
     in : Time, out : Time, loaded : AttendanceRecord \cup {None}, list : SUBSET Networks]

LEMMA AttendanceStarts == AttendanceInit => AttendanceInv
BY DEF AttendanceInit, AttendanceInv, AttendanceIdle, AttendanceRecord, Time

LEMMA CallKeeps ==
  ASSUME AttendanceInv, NEW h \in Handlers, NEW call \in AttendanceCalls, Call(h, call),
         call.pc \in {"in", "out", "correct"} => call.row \in Records,
         call.pc = "correct" => call.loaded \in AttendanceRecord
  PROVE  AttendanceInv'
BY DEF AttendanceInv, Call, AttendanceCalls

LEMMA AttendanceStepKeeps ==
  ASSUME AttendanceInv, NEW h \in Handlers, AttendanceStep(h)
  PROVE  AttendanceInv' /\ CheckInKept
<1>1. AttendanceIdle \in AttendanceCalls
  BY DEF AttendanceIdle, AttendanceCalls, Time
<1>2. /\ attendanceCall[h] \in AttendanceCalls
      /\ attendanceCall[h].pc \in {"in", "out", "correct"} => attendanceCall[h].row \in Records
      /\ attendanceCall[h].pc = "correct" => attendanceCall[h].loaded \in AttendanceRecord
  BY DEF AttendanceInv, AttendanceCalls
<1>3. ASSUME NEW call, Call(h, call) PROVE CheckInKept
  BY <1>3 DEF Call, CheckInKept
<1>4. CASE \E r \in Records, n \in Networks, t \in Times : BeginCheckIn(h, r, n, t)
  <2>1. PICK r \in Records, n \in Networks, t \in Times : BeginCheckIn(h, r, n, t)
    BY <1>4
  <2> DEFINE call == [AttendanceIdle EXCEPT !.pc = "in", !.row = r, !.in = t]
  <2>2. call \in AttendanceCalls /\ call.row = r /\ call.pc = "in"
    BY <1>1 DEF AttendanceCalls, Time
  <2> QED
    BY <1>3, <2>1, <2>2, CallKeeps DEF BeginCheckIn
<1>5. CASE \E r \in Records, n \in Networks, t \in Times : BeginCheckOut(h, r, n, t)
  <2>1. PICK r \in Records, n \in Networks, t \in Times : BeginCheckOut(h, r, n, t)
    BY <1>5
  <2> DEFINE call == [AttendanceIdle EXCEPT !.pc = "out", !.row = r, !.out = t]
  <2>2. call \in AttendanceCalls /\ call.row = r /\ call.pc = "out"
    BY <1>1 DEF AttendanceCalls, Time
  <2> QED
    BY <1>3, <2>1, <2>2, CallKeeps DEF BeginCheckOut
<1>6. CASE \E r \in Records, in, out \in Time : BeginCorrection(h, r, in, out)
  <2>1. PICK r \in Records, in \in Time, out \in Time : BeginCorrection(h, r, in, out)
    BY <1>6
  <2> DEFINE call == [AttendanceIdle EXCEPT !.pc = "correct", !.row = r, !.in = in, !.out = out,
                                            !.loaded = attendanceRow[r]]
  <2>2. /\ call \in AttendanceCalls /\ call.row = r /\ call.pc = "correct"
        /\ call.loaded \in AttendanceRecord
    BY <1>1 DEF AttendanceCalls, AttendanceInv
  <2> QED
    BY <1>3, <2>1, <2>2, CallKeeps DEF BeginCorrection
<1>7. ASSUME NEW list \in SUBSET Networks,
             Call(h, [AttendanceIdle EXCEPT !.pc = "networks", !.list = list])
      PROVE  AttendanceInv' /\ CheckInKept
  <2> DEFINE call == [AttendanceIdle EXCEPT !.pc = "networks", !.list = list]
  <2>1. call \in AttendanceCalls /\ call.pc = "networks"
    BY <1>1 DEF AttendanceCalls
  <2> QED
    BY <1>3, <1>7, <2>1, CallKeeps
<1>8. CASE \/ \E new \in SUBSET Networks : ReadToAdd(h, new) \/ ReplaceNetworks(h, new)
           \/ \E n \in Networks : ReadToRemove(h, n)
  BY <1>7, <1>8 DEF ReadToAdd, ReplaceNetworks, ReadToRemove, AttendanceInv
<1>9. ASSUME Answer(h),
             attendanceRow' \in [Records -> AttendanceRecord],
             allowedNetworks' \subseteq Networks,
             corrections' \in [Records -> Nat]
      PROVE  AttendanceInv'
  BY <1>1, <1>9 DEF Answer, AttendanceInv, AttendanceCalls, AttendanceIdle
<1>10. CASE CommitCheckIn(h)
  <2> DEFINE r == attendanceCall[h].row
  <2>1. r \in Records /\ UpsertCheckIn(r, attendanceCall[h].in) \in AttendanceRecord
    BY <1>2, <1>10 DEF CommitCheckIn, UpsertCheckIn, AttendanceRecord, AttendanceCalls, Time,
                       AttendanceInv
  <2>2. CheckInKept
    BY <1>10, <2>1 DEF CommitCheckIn, UpsertCheckIn, CheckInKept, AttendanceInv
  <2> QED
    BY <1>9, <1>10, <2>1, <2>2 DEF CommitCheckIn, AttendanceInv
<1>11. CASE CommitCheckOut(h)
  <2> DEFINE r == attendanceCall[h].row
  <2>1. r \in Records /\ attendanceRow[r] \in AttendanceRecord /\ attendanceCall[h].out \in Time
    BY <1>2, <1>11 DEF CommitCheckOut, AttendanceCalls, AttendanceInv
  <2>2. [attendanceRow[r] EXCEPT !.out = attendanceCall[h].out] \in AttendanceRecord
    BY <2>1 DEF AttendanceRecord
  <2>3. CheckInKept
    BY <1>11, <2>1 DEF CommitCheckOut, CheckInKept, AttendanceInv, AttendanceRecord
  <2> QED
    BY <1>9, <1>11, <2>1, <2>2, <2>3 DEF CommitCheckOut, AttendanceInv
<1>12. CASE CommitCorrection(h)
  <2> DEFINE call == attendanceCall[h]
             stored == attendanceRow[call.row]
             row == [stored EXCEPT !.in = Merge(call.loaded.in, call.in, stored.in),
                                   !.out = Merge(call.loaded.out, call.out, stored.out)]
  <2>1. call.row \in Records /\ attendanceRow[call.row] \in AttendanceRecord
        /\ call.in \in Time /\ call.out \in Time
    BY <1>2, <1>12 DEF CommitCorrection, AttendanceCalls, AttendanceInv
  <2>2. row \in AttendanceRecord
    BY <2>1 DEF AttendanceRecord, Merge
  <2>3. corrections' \in [Records -> Nat] /\ corrections'[call.row] > corrections[call.row]
    BY <1>12, <2>1 DEF CommitCorrection, AttendanceInv
  <2>4. CheckInKept
    BY <1>12, <2>1, <2>3 DEF CommitCorrection, CheckInKept, AttendanceInv
  <2>5. attendanceRow' = [attendanceRow EXCEPT ![call.row] = row]
    BY <1>12 DEF CommitCorrection
  <2>6. attendanceRow' \in [Records -> AttendanceRecord]
    BY <2>1, <2>2, <2>5 DEF AttendanceInv
  <2> HIDE DEF row
  <2> QED
    BY <1>9, <1>12, <2>3, <2>4, <2>6 DEF CommitCorrection, AttendanceInv
<1>13. CASE CommitNetworks(h) \/ RollBackAttendance(h)
  BY <1>2, <1>9, <1>13
     DEF CommitNetworks, RollBackAttendance, AttendanceInv, AttendanceCalls, CheckInKept
<1> QED
  BY <1>4, <1>5, <1>6, <1>8, <1>10, <1>11, <1>12, <1>13 DEF AttendanceStep

THEOREM AttendanceInductive == AttendanceSpec => []AttendanceInv
<1>1. AttendanceInv /\ [AttendanceNext]_attendanceVars => AttendanceInv'
  BY AttendanceStepKeeps DEF AttendanceNext, AttendanceInv, attendanceVars
<1> QED
  BY <1>1, AttendanceStarts, PTL DEF AttendanceSpec

\* The time of the first check-in stands until a correction that is in the audit
\* log (upsert_check_in: ON CONFLICT DO NOTHING).
THEOREM FirstCheckInStands == AttendanceSpec => CheckInStands
<1>1. AttendanceInv /\ [AttendanceNext]_attendanceVars => [CheckInKept]_attendanceVars
  BY AttendanceStepKeeps DEF AttendanceNext
<1> QED
  BY <1>1, AttendanceInductive, PTL DEF AttendanceSpec, CheckInStands, CheckInKept

-------------------------------------------------------------------------------
(* Requests of employees implement RequestLifecycle *)

\* A handler that cancels or reviews is at a request that was submitted.
AtRequest ==
    \A h \in Handlers :
        /\ requestCall[h].pc # "idle" => requestCall[h].row \in Requests
        /\ requestCall[h].pc \in {"cancel", "cancelled", "review"} =>
              requestRow[requestCall[h].row].status # "none"

\* The id that a submission is about to insert is nobody else's.
InsertAlone ==
    \A h \in Handlers :
        requestCall[h].pc = "insert" =>
            /\ requestRow[requestCall[h].row].status = "none"
            /\ \A g \in Handlers \ {h} :
                  requestCall[g].pc # "idle" => requestCall[g].row # requestCall[h].row

\* Whoever has updated a row, or reviews it, holds it.
RequestHeld ==
    \A h \in Handlers :
        requestCall[h].pc \in {"cancelled", "review"} =>
            requestLock[requestCall[h].row] = h

\* What a reviewer saw under the lock is still so at the commit: every other
\* writer of the row needs the lock.
VerdictDue ==
    \A h \in Handlers :
        requestCall[h].pc = "review" =>
            /\ requestRow[requestCall[h].row].status = "submitted"
            /\ requestCall[h].verdict \in {"approved", "rejected"}

\* A request that waits for its review has none.
NotReviewedYet ==
    \A r \in Requests :
        requestRow[r].status \in {"none", "submitted"} => requestRow[r].reviews = 0

RequestInv ==
    /\ RequestTypeOK
    /\ AtRequest
    /\ InsertAlone
    /\ RequestHeld
    /\ VerdictDue
    /\ NotReviewedYet

\* A submission inserts a row nobody knew of.
LEMMA RequestInsertKeeps ==
  ASSUME RequestInv, NEW h \in Handlers, InsertRequest(h)
  PROVE  RequestInv' /\ \E r \in Requests : Lifecycle!Submit(r)
<1> USE NoneIsNoHandler, NoneIsNoRequest
<1>1. PICK r \in Requests : r = requestCall[h].row /\ requestRow[r].status = "none"
  BY DEF InsertRequest, RequestInv, AtRequest, InsertAlone
<1>2. \A q \in Requests \ {r} : requestRow'[q] = requestRow[q]
  BY <1>1 DEF InsertRequest, RequestInv, RequestTypeOK
<1>3. requestRow'[r].status = "submitted" /\ requestRow'[r].reviews = requestRow[r].reviews
  BY <1>1 DEF InsertRequest, RequestInv, RequestTypeOK, RequestRecord
<1>4. \A g \in Handlers \ {h} :
        /\ requestCall'[g] = requestCall[g]
        /\ requestCall[g].pc # "idle" => requestCall[g].row # r
  BY <1>1 DEF InsertRequest, RequestInv, RequestTypeOK, InsertAlone
<1>5. requestCall'[h] = RequestIdle
  BY DEF InsertRequest, RequestInv, RequestTypeOK
<1>6. RequestTypeOK'
  <2>1. requestRow[r] \in RequestRecord /\ requestCall[h].form \in RequestForm \cup {None}
    BY <1>1 DEF RequestInv, RequestTypeOK
  <2>2. [requestRow[r] EXCEPT !.form = requestCall[h].form, !.status = "submitted"]
          \in RequestRecord
    BY <2>1 DEF RequestRecord, RequestStatus
  <2>3. requestRow' \in [Requests -> RequestRecord]
    BY <1>1, <2>2 DEF InsertRequest, RequestInv, RequestTypeOK
  <2> QED
    BY <2>3 DEF InsertRequest, RequestInv, RequestTypeOK, RequestIdle
<1>7. AtRequest' /\ RequestHeld' /\ VerdictDue'
  BY <1>2, <1>4, <1>5
  DEF InsertRequest, RequestInv, AtRequest, RequestHeld, VerdictDue, RequestIdle
<1>8. InsertAlone'
  BY <1>2, <1>4, <1>5 DEF RequestInv, AtRequest, InsertAlone, RequestIdle
<1>9. NotReviewedYet'
  BY <1>1, <1>2, <1>3 DEF RequestInv, NotReviewedYet
<1>10. Lifecycle!Submit(r)
  <2>1. [q \in Requests |-> requestRow'[q].status] =
          [[q \in Requests |-> requestRow[q].status] EXCEPT ![r] = "submitted"]
    BY <1>2, <1>3
  <2>2. [q \in Requests |-> requestRow'[q].reviews] =
          [q \in Requests |-> requestRow[q].reviews]
    BY <1>2, <1>3
  <2> QED
    BY <1>1, <2>1, <2>2 DEF Lifecycle!Submit
<1> QED
  BY <1>6, <1>7, <1>8, <1>9, <1>10 DEF RequestInv

\* A commit under the row lock: the row gets a status, everybody else keeps what
\* they had, and those who hold a row hold another one.
LEMMA RequestCommitKeeps ==
  ASSUME RequestInv, NEW h \in Handlers,
         requestCall[h].pc \in {"cancelled", "review"},
         NEW row \in RequestRecord,
         row.status \notin {"none", "submitted"},
         requestRow' = [requestRow EXCEPT ![requestCall[h].row] = row],
         requestLock' = [requestLock EXCEPT ![requestCall[h].row] = None],
         requestCall' = [requestCall EXCEPT ![h] = RequestIdle]
  PROVE  RequestInv'
<1> USE NoneIsNoHandler, NoneIsNoRequest
<1> DEFINE r == requestCall[h].row
<1>1. r \in Requests /\ requestLock[r] = h /\ requestRow[r].status # "none"
  BY DEF RequestInv, AtRequest, RequestHeld
<1>2. requestRow'[r] = row /\ \A q \in Requests \ {r} : requestRow'[q] = requestRow[q]
  BY <1>1 DEF RequestInv, RequestTypeOK
<1>3. requestCall'[h] = RequestIdle
        /\ \A g \in Handlers \ {h} : requestCall'[g] = requestCall[g]
  BY DEF RequestInv, RequestTypeOK
<1>4. \A g \in Handlers \ {h} :
        requestCall[g].pc \in {"cancelled", "review", "insert"} => requestCall[g].row # r
  BY <1>1 DEF RequestInv, RequestHeld, InsertAlone
<1>5. RequestTypeOK'
  BY <1>1 DEF RequestInv, RequestTypeOK, RequestIdle
<1>6. AtRequest'
  BY <1>2, <1>3 DEF RequestInv, AtRequest, RequestIdle
<1>7. InsertAlone'
  BY <1>2, <1>3, <1>4 DEF RequestInv, AtRequest, InsertAlone, RequestIdle
<1>8. RequestHeld'
  BY <1>1, <1>3, <1>4 DEF RequestInv, RequestHeld, AtRequest, RequestTypeOK, RequestIdle
<1>9. VerdictDue'
  BY <1>2, <1>3, <1>4 DEF RequestInv, VerdictDue, AtRequest, RequestIdle
<1>10. NotReviewedYet'
  BY <1>2 DEF RequestInv, NotReviewedYet
<1> QED
  BY <1>5, <1>6, <1>7, <1>8, <1>9, <1>10 DEF RequestInv

\* A cancellation overtakes what it did not see, and is a withdrawal all the same.
LEMMA CancelKeeps ==
  ASSUME RequestInv, NEW h \in Handlers, CommitCancel(h)
  PROVE  /\ RequestInv'
         /\ \/ \E r \in Requests : Lifecycle!Withdraw(r)
            \/ UNCHANGED Lifecycle!lifecycleVars
<1>1. PICK r \in Requests :
        /\ r = requestCall[h].row
        /\ requestRow[r] \in RequestRecord
        /\ requestRow[r].status # "none"
  BY DEF CommitCancel, RequestInv, AtRequest, RequestTypeOK
<1> DEFINE row == [requestRow[r] EXCEPT !.status = "cancelled"]
<1>2. row \in RequestRecord /\ row.status = "cancelled" /\ row.reviews = requestRow[r].reviews
  BY <1>1 DEF RequestRecord, RequestStatus
<1>3. RequestInv'
  BY <1>1, <1>2, RequestCommitKeeps DEF CommitCancel
<1>4. requestRow'[r] = row /\ \A q \in Requests \ {r} : requestRow'[q] = requestRow[q]
  BY <1>1 DEF CommitCancel, RequestInv, RequestTypeOK
<1>5. [q \in Requests |-> requestRow'[q].reviews] = [q \in Requests |-> requestRow[q].reviews]
  BY <1>2, <1>4
<1>6. [q \in Requests |-> requestRow'[q].status] =
        [[q \in Requests |-> requestRow[q].status] EXCEPT ![r] = "cancelled"]
  BY <1>2, <1>4
<1>7. requestRow[r].status \in {"submitted", "approved", "rejected", "cancelled"}
  BY <1>1 DEF RequestRecord, RequestStatus
<1>8. CASE requestRow[r].status = "cancelled"
  <2>1. [q \in Requests |-> requestRow'[q].status] = [q \in Requests |-> requestRow[q].status]
    BY <1>1, <1>2, <1>4, <1>8
  <2> QED
    BY <1>3, <1>5, <2>1 DEF Lifecycle!lifecycleVars
<1>9. CASE requestRow[r].status # "cancelled"
  BY <1>1, <1>3, <1>5, <1>6, <1>7, <1>9 DEF Lifecycle!Withdraw
<1> QED
  BY <1>8, <1>9

\* A review commits the verdict on a request that is still submitted, for the
\* first time.
LEMMA RequestReviewKeeps ==
  ASSUME RequestInv, NEW h \in Handlers, CommitReview(h)
  PROVE  /\ RequestInv'
         /\ \E r \in Requests, v \in {"approved", "rejected"} : Lifecycle!Review(r, v)
<1>1. PICK r \in Requests, v \in {"approved", "rejected"} :
        /\ r = requestCall[h].row
        /\ v = requestCall[h].verdict
        /\ requestRow[r] \in RequestRecord
        /\ requestRow[r].status = "submitted"
        /\ requestRow[r].reviews = 0
  BY DEF CommitReview, RequestInv, AtRequest, RequestTypeOK, VerdictDue, NotReviewedYet
<1> DEFINE row == [requestRow[r] EXCEPT !.status = v, !.reviews = requestRow[r].reviews + 1]
<1>2. row \in RequestRecord /\ row.status = v /\ row.reviews = 1
  <2>1. v \in RequestStatus
    BY <1>1 DEF RequestStatus
  <2>2. PICK n \in 0..2 : n = requestRow[r].reviews + 1
    BY <1>1
  <2>3. [requestRow[r] EXCEPT !.status = v, !.reviews = n] \in RequestRecord
    BY <1>1, <2>1 DEF RequestRecord
  <2> QED
    BY <1>1, <2>2, <2>3 DEF RequestRecord
<1>3. requestRow' = [requestRow EXCEPT ![r] = row]
  BY <1>1 DEF CommitReview, RequestInv, RequestTypeOK
<1>4. RequestInv'
  BY <1>1, <1>2, <1>3, RequestCommitKeeps DEF CommitReview
<1>5. requestRow'[r] = row /\ \A q \in Requests \ {r} : requestRow'[q] = requestRow[q]
  BY <1>1, <1>3 DEF RequestInv, RequestTypeOK
<1>6. [q \in Requests |-> requestRow'[q].reviews] =
        [[q \in Requests |-> requestRow[q].reviews] EXCEPT ![r] = 1]
  BY <1>2, <1>5
<1>7. [q \in Requests |-> requestRow'[q].status] =
        [[q \in Requests |-> requestRow[q].status] EXCEPT ![r] = v]
  BY <1>2, <1>5
<1>8. Lifecycle!Review(r, v)
  BY <1>1, <1>6, <1>7 DEF Lifecycle!Review
<1> QED
  BY <1>1, <1>4, <1>8

\* Whatever else a handler does concerns it alone: no row changes.
LEMMA OtherStepsKeep ==
  ASSUME RequestInv, NEW h \in Handlers, RequestStep(h),
         ~InsertRequest(h), ~CommitCancel(h), ~CommitReview(h)
  PROVE  RequestInv' /\ UNCHANGED requestRow
<1> USE NoneIsNoHandler, NoneIsNoRequest
    DEF RequestInv, AtRequest, InsertAlone, RequestHeld, VerdictDue, NotReviewedYet, RequestIdle
<1>1. ASSUME NEW r \in Requests, NEW f \in RequestForm, CheckOverlap(h, r, f)
      PROVE  RequestInv' /\ UNCHANGED requestRow
  <2>1. RequestTypeOK'
    BY <1>1 DEF CheckOverlap, RequestTypeOK
  <2>2. requestRow[r].status = "none" /\ \A g \in Handlers :
          requestCall[g].pc = "insert" => requestCall[g].row # r
    BY <1>1 DEF CheckOverlap, Taken
  <2>3. /\ requestCall'[h].pc = "insert" /\ requestCall'[h].row = r
        /\ \A g \in Handlers \ {h} : requestCall'[g] = requestCall[g]
        /\ UNCHANGED <<requestRow, requestLock>>
    BY <1>1 DEF CheckOverlap, RequestTypeOK
  <2> QED
    BY <2>1, <2>2, <2>3 DEF RequestTypeOK
<1>2. ASSUME NEW r \in Requests, NEW e \in Employees, NEW k \in RequestKinds,
             ReadForCancel(h, r, e, k)
      PROVE  RequestInv' /\ UNCHANGED requestRow
  <2>1. RequestTypeOK'
    BY <1>2 DEF ReadForCancel, RequestTypeOK
  <2> QED
    BY <1>2, <2>1 DEF ReadForCancel, RequestTypeOK
<1>3. ASSUME NEW r \in Requests, NEW verdict \in {"approved", "rejected"},
             LockForReview(h, r, verdict)
      PROVE  RequestInv' /\ UNCHANGED requestRow
  <2>1. RequestTypeOK'
    BY <1>3 DEF LockForReview, RequestTypeOK
  <2> QED
    BY <1>3, <2>1 DEF LockForReview, Reviewable, Available, RequestTypeOK
<1>4. CASE UpdateCancelled(h)
  <2>1. RequestTypeOK'
    BY <1>4 DEF UpdateCancelled, RequestTypeOK
  <2> QED
    BY <1>4, <2>1 DEF UpdateCancelled, Available, RequestTypeOK
<1>5. CASE RollBackRequest(h)
  <2>1. RequestTypeOK'
    BY <1>5 DEF RollBackRequest, RequestTypeOK
  <2> QED
    BY <1>5, <2>1 DEF RollBackRequest, RequestTypeOK
<1> QED
  BY <1>1, <1>2, <1>3, <1>4, <1>5 DEF RequestStep

\* The invariant holds in every reachable state, for any handlers, requests and days:
\* a review that has read pending under the row lock still finds it so.
THEOREM RequestInductive == RequestSpec => []RequestInv
<1>1. RequestInit => RequestInv
  BY NoneIsNoRequest
  DEF RequestInit, RequestInv, RequestTypeOK, RequestRecord, RequestStatus, AtRequest, InsertAlone,
      RequestHeld, VerdictDue, NotReviewedYet, RequestIdle
<1>2. RequestInv /\ [RequestNext]_requestVars => RequestInv'
  <2> SUFFICES ASSUME RequestInv, [RequestNext]_requestVars
               PROVE  RequestInv'
    OBVIOUS
  <2>1. ASSUME NEW h \in Handlers, RequestStep(h)
        PROVE  RequestInv'
    BY <2>1, RequestInsertKeeps, CancelKeeps, RequestReviewKeeps, OtherStepsKeep
  <2>2. CASE UNCHANGED requestVars
    BY <2>2 DEF requestVars, RequestInv, RequestTypeOK, AtRequest, InsertAlone, RequestHeld,
       VerdictDue, NotReviewedYet
  <2> QED
    BY <2>1, <2>2 DEF RequestNext
<1> QED
  BY <1>1, <1>2, PTL DEF RequestSpec

\* A request is reviewed at most once and a cancelled one stays cancelled: the
\* handlers implement RequestLifecycle (review_service.py:51).
THEOREM Refinement == RequestSpec => ReviewedOnce
<1>1. RequestInit => Lifecycle!LifecycleInit
  BY DEF RequestInit, Lifecycle!LifecycleInit
<1>2. RequestInv /\ [RequestNext]_requestVars
        => [Lifecycle!LifecycleNext]_Lifecycle!lifecycleVars
  <2> SUFFICES ASSUME RequestInv, [RequestNext]_requestVars
               PROVE  \/ Lifecycle!LifecycleNext
                      \/ UNCHANGED Lifecycle!lifecycleVars
    OBVIOUS
  <2>1. ASSUME NEW h \in Handlers, InsertRequest(h)
        PROVE  Lifecycle!LifecycleNext
    BY <2>1, RequestInsertKeeps DEF Lifecycle!LifecycleNext
  <2>2. ASSUME NEW h \in Handlers, CommitCancel(h)
        PROVE  \/ Lifecycle!LifecycleNext
               \/ UNCHANGED Lifecycle!lifecycleVars
    BY <2>2, CancelKeeps DEF Lifecycle!LifecycleNext
  <2>3. ASSUME NEW h \in Handlers, CommitReview(h)
        PROVE  Lifecycle!LifecycleNext
    BY <2>3, RequestReviewKeeps DEF Lifecycle!LifecycleNext
  <2>4. ASSUME UNCHANGED requestRow
        PROVE  UNCHANGED Lifecycle!lifecycleVars
    BY <2>4 DEF Lifecycle!lifecycleVars
  <2>5. ASSUME NEW h \in Handlers, RequestStep(h)
        PROVE  \/ Lifecycle!LifecycleNext
               \/ UNCHANGED Lifecycle!lifecycleVars
    BY <2>1, <2>2, <2>3, <2>4, <2>5, OtherStepsKeep
  <2> QED
    BY <2>4, <2>5 DEF RequestNext, requestVars
<1> QED
  BY <1>1, <1>2, RequestInductive, PTL DEF RequestSpec, ReviewedOnce, Lifecycle!LifecycleSpec

-------------------------------------------------------------------------------
(* Publication of a payslip is for good *)

\* A handler is at a payslip from its first statement on.
AtPayslip == \A h \in Handlers : payslipCall[h].pc # "idle" => payslipCall[h].row \in Payslips

\* The row that a statement has changed is locked until the transaction ends.
PayslipHeld ==
    \A h \in Handlers :
        payslipCall[h].pc \in {"updated", "published", "deleted"} =>
            payslipLock[payslipCall[h].row] = h

\* What the WHERE of a publication or a deletion found stays so until its commit,
\* because every other statement on the row waits; an inserted row is nobody
\* else's before its commit.
StillTrue ==
    \A h \in Handlers :
        /\ payslipCall[h].pc \in {"published", "deleted"} =>
              payslipRow[payslipCall[h].row].status = "draft"
        /\ payslipCall[h].pc = "inserted" =>
              /\ payslipRow[payslipCall[h].row].status = "none"
              /\ \A g \in Handlers \ {h} : payslipCall[g].row # payslipCall[h].row

\* A payslip that is not published has no entry of a publication.
AuditMatches ==
    \A p \in Payslips : payslipAudit[p].publish > 0 => payslipRow[p].status = "published"

PayslipInv == PayslipTypeOK /\ AtPayslip /\ PayslipHeld /\ StillTrue /\ AuditMatches

\* A statement: what Take changes is the handler's own place and its lock.
LEMMA TakeKeeps ==
  ASSUME PayslipInv, NEW h \in Handlers,
         NEW pc \in {"update", "publish", "delete"},
         NEW next \in {"updated", "published", "deleted"},
         Take(h, pc, next),
         next \in {"published", "deleted"} => payslipRow[payslipCall[h].row].status = "draft"
  PROVE  PayslipInv'
<1> USE NoneIsNoHandler, NoneIsNoPayslip DEF PayslipInv
<1>1. payslipCall[h].row \in Payslips
  BY DEF Take, AtPayslip
<1>2. PayslipTypeOK'
  BY SMTT(30), <1>1 DEF Take, PayslipTypeOK
<1>3. AtPayslip'
  BY DEF Take, AtPayslip, PayslipTypeOK
<1>4. PayslipHeld'
  BY <1>1 DEF Take, PayslipHeld, AtPayslip, Available, PayslipTypeOK
<1>5. StillTrue'
  BY DEF Take, StillTrue, PayslipTypeOK
<1>6. AuditMatches'
  BY DEF Take, AuditMatches
<1> QED
  BY <1>2, <1>3, <1>4, <1>5, <1>6

\* A commit gives the row its new status and lets go of it. The invariant stays
\* if the row was the handler's, or remains what it was.
LEMMA PayslipCommitKeeps ==
  ASSUME PayslipInv, NEW h \in Handlers,
         NEW pc \in {"updated", "published", "deleted", "missed"},
         NEW row \in PayslipRecord, NEW audit \in [publish : 0..1, delete : Nat],
         CommitPayslip(h, pc, row, audit),
         payslipLock[payslipCall[h].row] = h
            \/ row.status = payslipRow[payslipCall[h].row].status,
         audit.publish > 0 => row.status = "published"
  PROVE  PayslipInv'
<1> USE NoneIsNoHandler, NoneIsNoPayslip DEF PayslipInv
<1>1. payslipCall[h].row \in Payslips
  BY DEF CommitPayslip, AtPayslip
<1>2. PayslipTypeOK'
  BY <1>1 DEF CommitPayslip, PayslipTypeOK, PayslipIdle
<1>3. AtPayslip'
  BY DEF CommitPayslip, AtPayslip, PayslipTypeOK, PayslipIdle
<1>4. PayslipHeld'
  BY <1>1 DEF CommitPayslip, PayslipHeld, AtPayslip, PayslipTypeOK, PayslipIdle
<1>5. StillTrue'
  <2> SUFFICES ASSUME NEW g \in Handlers
               PROVE  /\ payslipCall'[g].pc \in {"published", "deleted"} =>
                            payslipRow'[payslipCall'[g].row].status = "draft"
                      /\ payslipCall'[g].pc = "inserted" =>
                            /\ payslipRow'[payslipCall'[g].row].status = "none"
                            /\ \A k \in Handlers \ {g} :
                                  payslipCall'[k].row # payslipCall'[g].row
    BY DEF StillTrue
  <2>1. CASE g = h
    BY <2>1 DEF CommitPayslip, PayslipTypeOK, PayslipIdle
  <2>2. CASE g # h
    <3>1. payslipCall'[g] = payslipCall[g]
      BY <2>2 DEF CommitPayslip, PayslipTypeOK
    <3>2. ASSUME payslipCall[g].pc \in {"published", "deleted"}
          PROVE  payslipRow'[payslipCall[g].row].status = "draft"
      BY <1>1, <2>2, <3>2 DEF CommitPayslip, StillTrue, PayslipHeld, AtPayslip, PayslipTypeOK
    <3>3. ASSUME payslipCall[g].pc = "inserted"
          PROVE  /\ payslipRow'[payslipCall[g].row].status = "none"
                 /\ \A k \in Handlers \ {g} : payslipCall'[k].row # payslipCall[g].row
      <4>1. payslipCall[h].row # payslipCall[g].row
        BY <2>2, <3>3 DEF StillTrue
      <4>2. payslipRow'[payslipCall[g].row].status = "none"
        BY <3>3, <4>1 DEF CommitPayslip, StillTrue, AtPayslip, PayslipTypeOK
      <4>3. \A k \in Handlers \ {g} : payslipCall'[k].row # payslipCall[g].row
        BY <3>3 DEF CommitPayslip, StillTrue, AtPayslip, PayslipTypeOK, PayslipIdle
      <4> QED
        BY <4>2, <4>3
    <3> QED
      BY <3>1, <3>2, <3>3
  <2> QED
    BY <2>1, <2>2
<1>6. AuditMatches'
  BY <1>1 DEF CommitPayslip, AuditMatches, PayslipTypeOK
<1> QED
  BY <1>2, <1>3, <1>4, <1>5, <1>6

\* The invariant holds in every state, whichever handlers overlap or roll back.
LEMMA StepKeeps ==
  ASSUME PayslipInv, NEW h \in Handlers, PayslipStep(h)
  PROVE  PayslipInv'
<1> USE NoneIsNoHandler, NoneIsNoPayslip
<1>1. ASSUME NEW p \in Payslips, NEW s \in Slots, NEW a \in Amounts, InsertDraft(h, p, s, a)
      PROVE  PayslipInv'
  BY <1>1 DEF InsertDraft, PayslipInv, PayslipTypeOK, AtPayslip, PayslipHeld, StillTrue, AuditMatches
<1>2. ASSUME NEW p \in Payslips, NEW op \in {"update", "publish", "delete"},
             NEW a \in Amounts \cup {None}, ReadDraft(h, p, op, a)
      PROVE  PayslipInv'
  BY <1>2 DEF ReadDraft, PayslipInv, PayslipTypeOK, AtPayslip, PayslipHeld, StillTrue, AuditMatches
<1>3. CASE CommitDraft(h)
  <2> USE <1>3 DEF CommitDraft, PayslipInv
  <2>1. payslipCall[h].row \in Payslips
    BY DEF AtPayslip
  <2>2. PayslipTypeOK'
    BY <2>1 DEF PayslipTypeOK, PayslipRecord, PayslipIdle
  <2>3. AtPayslip' /\ PayslipHeld'
    BY DEF AtPayslip, PayslipHeld, PayslipTypeOK, PayslipIdle
  <2>4. StillTrue'
    BY <2>1 DEF StillTrue, AtPayslip, PayslipTypeOK, PayslipIdle
  <2>5. AuditMatches'
    BY <2>1 DEF AuditMatches, StillTrue, PayslipTypeOK
  <2> QED
    BY <2>2, <2>3, <2>4, <2>5
<1>4. CASE WriteAmounts(h)
  BY <1>4, TakeKeeps DEF WriteAmounts
<1>5. CASE MarkPublished(h)
  BY <1>5, TakeKeeps DEF MarkPublished, StillDraft
<1>6. CASE MarkDeleted(h)
  BY <1>6, TakeKeeps DEF MarkDeleted, StillDraft
<1>7. CASE MissDeletion(h)
  BY <1>7 DEF MissDeletion, PayslipInv, PayslipTypeOK, AtPayslip, PayslipHeld, StillTrue, AuditMatches
<1>8. CASE CommitAmounts(h)
  <2> DEFINE p == payslipCall[h].row
             row == [payslipRow[p] EXCEPT !.amounts = payslipCall[h].amounts]
  <2>1. p \in Payslips
    BY <1>8 DEF CommitAmounts, CommitPayslip, PayslipInv, AtPayslip
  <2>2. row \in PayslipRecord /\ payslipAudit[p] \in [publish : 0..1, delete : Nat]
    BY <2>1 DEF PayslipInv, PayslipTypeOK, PayslipRecord
  <2>3. row.status = payslipRow[p].status
    BY <2>1 DEF PayslipInv, PayslipTypeOK, PayslipRecord
  <2>4. payslipAudit[p].publish > 0 => row.status = "published"
    BY <2>1, <2>3 DEF PayslipInv, AuditMatches
  <2> QED
    BY <1>8, <2>2, <2>3, <2>4, PayslipCommitKeeps DEF CommitAmounts
<1>9. CASE CommitPublication(h)
  <2> DEFINE p == payslipCall[h].row
             row == [payslipRow[p] EXCEPT !.status = "published"]
             audit == [payslipAudit[p] EXCEPT !.publish = @ + 1]
  <2>1. p \in Payslips /\ payslipRow[p].status = "draft" /\ payslipLock[p] = h
    BY <1>9 DEF CommitPublication, CommitPayslip, PayslipInv, AtPayslip, StillTrue, PayslipHeld
  <2>2. payslipAudit[p] \in [publish : 0..1, delete : Nat] /\ payslipAudit[p].publish = 0
    BY <2>1 DEF PayslipInv, PayslipTypeOK, AuditMatches
  <2>3. row \in PayslipRecord /\ row.status = "published"
    BY <2>1 DEF PayslipInv, PayslipTypeOK, PayslipRecord
  <2>4. audit \in [publish : 0..1, delete : Nat]
    BY <2>2
  <2> QED
    BY <1>9, <2>1, <2>3, <2>4, PayslipCommitKeeps DEF CommitPublication
<1>10. CASE CommitDeletion(h)
  <2> DEFINE p == payslipCall[h].row
             audit == [payslipAudit[p] EXCEPT !.delete = @ + 1]
  <2>1. p \in Payslips
    BY <1>10 DEF CommitDeletion, CommitPayslip, PayslipInv, AtPayslip
  <2>2. payslipAudit[p] \in [publish : 0..1, delete : Nat] /\ payslipRow[p] \in PayslipRecord
    BY <2>1 DEF PayslipInv, PayslipTypeOK
  <2>3. audit \in [publish : 0..1, delete : Nat] /\ audit.publish = payslipAudit[p].publish
    BY <2>2
  <2>4. CASE CommitPayslip(h, "deleted", [payslipRow[p] EXCEPT !.status = "deleted"], audit)
    <3> DEFINE row == [payslipRow[p] EXCEPT !.status = "deleted"]
    <3>1. row \in PayslipRecord
      BY <2>2 DEF PayslipRecord
    <3>2. payslipLock[p] = h /\ payslipRow[p].status = "draft"
      BY <2>4 DEF CommitPayslip, PayslipInv, PayslipHeld, StillTrue
    <3>3. ~(audit.publish > 0)
      BY <2>1, <2>2, <2>3, <3>2 DEF PayslipInv, AuditMatches
    <3> QED
      BY <2>4, <2>3, <3>1, <3>2, <3>3, PayslipCommitKeeps
  <2>5. CASE CommitPayslip(h, "missed", payslipRow[p], audit)
    <3>1. audit.publish > 0 => payslipRow[p].status = "published"
      BY <2>1, <2>3 DEF PayslipInv, AuditMatches
    <3> QED
      BY <2>5, <2>2, <2>3, <3>1, PayslipCommitKeeps
  <2> QED
    BY <1>10, <2>4, <2>5 DEF CommitDeletion
<1>11. CASE RollBackPayslip(h)
  <2> USE <1>11 DEF RollBackPayslip, PayslipInv
  <2>1. PayslipTypeOK' /\ AtPayslip'
    BY DEF PayslipTypeOK, AtPayslip, PayslipIdle
  <2>2. PayslipHeld'
    BY DEF PayslipHeld, AtPayslip, PayslipTypeOK, PayslipIdle
  <2>3. StillTrue' /\ AuditMatches'
    BY DEF StillTrue, AuditMatches, AtPayslip, PayslipTypeOK, PayslipIdle
  <2> QED
    BY <2>1, <2>2, <2>3
<1> QED
  BY <1>1, <1>2, <1>3, <1>4, <1>5, <1>6, <1>7, <1>8, <1>9, <1>10, <1>11 DEF PayslipStep

\* The invariant holds in every reachable state, for any handlers and payslips:
\* what a handler has read under the row lock is still true, and the audit agrees.
THEOREM PayslipInductive == PayslipSpec => []PayslipInv
<1>1. PayslipInit => PayslipInv
  BY NoneIsNoPayslip DEF PayslipInit, PayslipInv, PayslipTypeOK, PayslipRecord, AtPayslip, PayslipHeld,
     StillTrue, AuditMatches, PayslipIdle
<1>2. PayslipInv /\ [PayslipNext]_payslipVars => PayslipInv'
  <2> SUFFICES ASSUME PayslipInv, [PayslipNext]_payslipVars
               PROVE  PayslipInv'
    OBVIOUS
  <2>1. ASSUME NEW h \in Handlers, PayslipStep(h)
        PROVE  PayslipInv'
    BY <2>1, StepKeeps
  <2>2. CASE UNCHANGED payslipVars
    BY <2>2 DEF payslipVars, PayslipInv, PayslipTypeOK, AtPayslip, PayslipHeld, StillTrue, AuditMatches
  <2> QED
    BY <2>1, <2>2 DEF PayslipNext
<1> QED
  BY <1>1, <1>2, PTL DEF PayslipSpec

\* What an employee has seen does not go away, and is published and audited once,
\* although only the statements look at the status again
\* (payslip_repository.py:226-275).
THEOREM PublishedForGood == PayslipSpec => PublishedStays
<1> DEFINE Stays == /\ Visible \subseteq Visible'
                    /\ \A p \in Payslips :
                          payslipAudit'[p].publish # payslipAudit[p].publish =>
                            p \in Visible' \ Visible
<1>1. PayslipInv /\ [PayslipNext]_payslipVars => [Stays]_payslipVars
  <2> SUFFICES ASSUME PayslipInv, NEW h \in Handlers, PayslipStep(h)
               PROVE  Stays
    BY DEF PayslipNext
  <2> USE DEF PayslipInv, Visible, PayslipTypeOK, PayslipRecord
  <2>1. ASSUME UNCHANGED <<payslipRow, payslipAudit>>
        PROVE  Stays
    BY <2>1
  <2>2. CASE CommitDraft(h)
    BY <2>2 DEF CommitDraft, AtPayslip, StillTrue
  <2>3. CASE CommitAmounts(h)
    BY <2>3 DEF CommitAmounts, CommitPayslip, AtPayslip
  <2>4. CASE CommitPublication(h)
    BY <2>4 DEF CommitPublication, CommitPayslip, AtPayslip, StillTrue
  <2>5. CASE CommitDeletion(h)
    <3> DEFINE p == payslipCall[h].row
    <3>1. p \in Payslips
      BY <2>5 DEF CommitDeletion, CommitPayslip, AtPayslip
    <3>2. \A q \in Payslips \ {p} : payslipRow'[q] = payslipRow[q]
      BY <2>5 DEF CommitDeletion, CommitPayslip
    <3>3. payslipRow[p].status = "published" => payslipRow'[p].status = "published"
      BY <2>5, <3>1 DEF CommitDeletion, CommitPayslip, StillTrue
    <3>4. \A q \in Payslips : payslipAudit'[q].publish = payslipAudit[q].publish
      <4>1. PICK n \in Nat : payslipAudit' =
                [payslipAudit EXCEPT ![p] = [payslipAudit[p] EXCEPT !.delete = n]]
        <5>1. payslipAudit[p].delete + 1 \in Nat
          BY <3>1
        <5> QED
          BY <2>5, <5>1 DEF CommitDeletion, CommitPayslip
      <4> QED
        BY <3>1, <4>1
    <3> QED
      BY <3>2, <3>3, <3>4
  <2> QED
    BY <2>1, <2>2, <2>3, <2>4, <2>5
    DEF PayslipStep, InsertDraft, ReadDraft, WriteAmounts, MarkPublished, MarkDeleted, Take,
        MissDeletion, RollBackPayslip
<1> QED
  BY <1>1, PayslipInductive, PTL DEF PayslipSpec, PublishedStays

-------------------------------------------------------------------------------
(* The directory *)

\* A session's rows, the committed and those it wrote, are apart from each other, what
\* two sessions wrote is apart too, and no two have written one row. That is kept by
\* the flushes, so that it does not matter what the look-ups found.
DirectoryShape ==
    /\ directory \in [Staff -> Employee \cup {None}]
    /\ written \in [Handlers -> [Staff -> Employee \cup {None}]]
    /\ directoryCall = [h \in Handlers |-> directoryCall[h]]

CallSound(h) == LET call == directoryCall[h] IN
    /\ call.pc \in {"code", "insert"} => call.row \in Employee
    /\ call.pc \in {"check", "put", "upsert"} =>
        call.staff \in Staff /\ Seen(h, call.staff) # None /\ call.row \in Changes
    /\ call = [pc |-> call.pc, staff |-> call.staff, row |-> call.row]

Placed(e) == e # None => e.department \in departments \cup {None}

Apart(e, f) == e # None /\ f # None => ~Clash(e, f)

AllPlaced ==
    \A s \in Staff : Placed(directory[s]) /\ \A h \in Handlers : Placed(written[h][s])

OneWriter ==
    \A g, h \in Handlers : g # h =>
        \A s \in Staff : written[g][s] = None \/ written[h][s] = None

HiredApart == \A s, t \in Staff : s # t => Apart(directory[s], directory[t])

SeenApart ==
    \A h \in Handlers : \A s, t \in Staff : s # t => Apart(Seen(h, s), Seen(h, t))

WritesApart ==
    \A g, h \in Handlers : g # h =>
        \A s, t \in Staff : s # t => Apart(written[g][s], written[h][t])

RowsSound == AllPlaced /\ OneWriter /\ HiredApart /\ SeenApart /\ WritesApart

DirectoryInv ==
    /\ DirectoryShape
    /\ \A h \in Handlers : CallSound(h)
    /\ RowsSound

\* Two fields of a call changed ..
LEMMA CallFields ==
  ASSUME NEW c, c = [pc |-> c.pc, staff |-> c.staff, row |-> c.row], NEW pc, NEW row
  PROVE  [c EXCEPT !.pc = pc, !.row = row] = [pc |-> pc, staff |-> c.staff, row |-> row]
<1> DEFINE d == [c EXCEPT !.pc = pc, !.row = row]
<1>1. d = [i \in {"pc", "staff", "row"} |-> d[i]]
  OBVIOUS
<1>2. d.pc = pc /\ d.staff = c.staff /\ d.row = row
  OBVIOUS
<1> HIDE DEF d
<1>3. d = [pc |-> pc, staff |-> c.staff, row |-> row]
  BY <1>1, <1>2
<1> QED
  BY <1>3 DEF d

\* ... or one or two of an idle call.
LEMMA IdleFields ==
  ASSUME NEW pc, NEW row
  PROVE  /\ [DirectoryIdle EXCEPT !.pc = pc, !.row = row] = [pc |-> pc, staff |-> None, row |-> row]
         /\ [DirectoryIdle EXCEPT !.pc = pc] = [pc |-> pc, staff |-> None, row |-> None]
<1> DEFINE c == DirectoryIdle
           d == [c EXCEPT !.pc = pc]
<1>1. c = [pc |-> c.pc, staff |-> c.staff, row |-> c.row] /\ c.staff = None /\ c.row = None
  BY DEF DirectoryIdle
<1>2. d = [i \in {"pc", "staff", "row"} |-> d[i]] /\ d.pc = pc /\ d.staff = None /\ d.row = None
  BY <1>1
<1> HIDE DEF c, d
<1>3. [c EXCEPT !.pc = pc, !.row = row] = [pc |-> pc, staff |-> None, row |-> row]
  <2>1. [c EXCEPT !.pc = pc, !.row = row] = [pc |-> pc, staff |-> c.staff, row |-> row]
    BY ZenonT(60), <1>1, CallFields
  <2> QED
    BY <1>1, <2>1
<1>4. d = [pc |-> pc, staff |-> None, row |-> None]
  BY <1>2
<1> QED
  BY <1>3, <1>4 DEF c, d

LEMMA SeenTyped ==
  ASSUME DirectoryShape, NEW h \in Handlers, NEW s \in Staff
  PROVE  Seen(h, s) \in Employee \cup {None}
BY DEF DirectoryShape, Seen

LEMMA DirectoryStarts == DirectoryInit => DirectoryInv
<1> SUFFICES ASSUME DirectoryInit PROVE DirectoryInv
  OBVIOUS
<1>1. /\ \A h \in Handlers, s \in Staff : written[h][s] = None
      /\ \A h \in Handlers, s \in Staff : Seen(h, s) = directory[s]
  BY DEF DirectoryInit, NothingWritten, Seen
<1>2. DirectoryShape
  BY InitialAssumption DEF DirectoryInit, NothingWritten, DirectoryShape
<1>3. \A h \in Handlers : CallSound(h)
  BY DEF DirectoryInit, DirectoryIdle, CallSound
<1>4. HiredApart
  BY InitialAssumption DEF DirectoryInit, HiredApart, Apart, Clash
<1>5. AllPlaced
  BY <1>1, <1>2 DEF DirectoryInit, DirectoryShape, AllPlaced, Placed, Employee
<1>6. OneWriter /\ SeenApart /\ WritesApart
  BY <1>1, <1>4 DEF OneWriter, SeenApart, HiredApart, WritesApart, Apart
<1> QED
  BY <1>2, <1>3, <1>4, <1>5, <1>6 DEF DirectoryInv, RowsSound

\* A handler that reads disturbs nobody's rows.
LEMMA ReadsKeep ==
  ASSUME DirectoryInv, NEW h \in Handlers, NEW pc, NEW staff, NEW row,
         directoryCall' = [directoryCall EXCEPT ![h] = [pc |-> pc, staff |-> staff, row |-> row]],
         UNCHANGED <<directory, departments, written>>,
         pc \in {"code", "insert"} => row \in Employee,
         pc \in {"check", "put", "upsert"} =>
            staff \in Staff /\ Seen(h, staff) # None /\ row \in Changes
  PROVE  DirectoryInv'
<1>1. DirectoryShape'
  BY DEF DirectoryInv, DirectoryShape
<1>2. RowsSound'
  BY DEF DirectoryInv, RowsSound, AllPlaced, Placed, OneWriter, HiredApart, SeenApart, Seen,
         WritesApart, Apart, Clash
<1>3. directoryCall'[h] = [pc |-> pc, staff |-> staff, row |-> row]
  BY DEF DirectoryInv, DirectoryShape
<1>4. CallSound(h)'
  BY <1>3 DEF CallSound, Seen
<1>5. ASSUME NEW g \in Handlers \ {h} PROVE CallSound(g)'
  <2>1. directoryCall'[g] = directoryCall[g]
    BY DEF DirectoryInv, DirectoryShape
  <2> QED
    BY <2>1 DEF DirectoryInv, CallSound, Seen
<1> QED
  BY <1>1, <1>2, <1>4, <1>5 DEF DirectoryInv

\* What a session writes is apart from what it sees and from what the others have
\* written, and no other session has its row.
LEMMA FlushKeeps ==
  ASSUME DirectoryInv, NEW h \in Handlers, NEW s \in Staff, NEW e \in Employee,
         NEW pc \in {"open", "done"}, Flush(h, s, e, pc)
  PROVE  DirectoryInv'
<1>1. e # None
  BY NoneIsNoStaff
<1>2. written' = [written EXCEPT ![h] = [written[h] EXCEPT ![s] = e]]
      /\ UNCHANGED <<directory, departments>>
  BY DEF Flush
<1>3. /\ written'[h][s] = e
      /\ \A t \in Staff \ {s} : written'[h][t] = written[h][t]
      /\ \A g \in Handlers \ {h} : \A t \in Staff : written'[g][t] = written[g][t]
  BY <1>2 DEF DirectoryInv, DirectoryShape
<1>4. /\ Seen(h, s)' = e
      /\ \A t \in Staff \ {s} : Seen(h, t)' = Seen(h, t)
      /\ \A g \in Handlers \ {h} : \A t \in Staff : Seen(g, t)' = Seen(g, t)
  BY <1>1, <1>2, <1>3 DEF Seen
<1>5. directoryCall' = [directoryCall EXCEPT ![h] = [pc |-> pc, staff |-> None, row |-> None]]
  BY IdleFields DEF Flush
<1>6. DirectoryShape'
  BY <1>2, <1>5 DEF DirectoryInv, DirectoryShape
<1>7. CallSound(h)'
  BY <1>5 DEF DirectoryInv, DirectoryShape, CallSound
<1>8. ASSUME NEW g \in Handlers \ {h} PROVE CallSound(g)'
  <2>1. directoryCall'[g] = directoryCall[g]
    BY <1>5 DEF DirectoryInv, DirectoryShape
  <2> QED
    BY <1>4, <2>1 DEF DirectoryInv, CallSound
<1>9. AllPlaced'
  <2>1. Placed(e)
    BY DEF Flush, Placed
  <2> QED
    BY <1>2, <1>3, <2>1 DEF DirectoryInv, RowsSound, AllPlaced, Placed
<1>10. OneWriter'
  BY <1>3 DEF DirectoryInv, RowsSound, OneWriter, Flush, Locked
<1>11. HiredApart'
  BY <1>2 DEF DirectoryInv, RowsSound, HiredApart, Apart, Clash
<1>12. /\ \A t \in Staff \ {s} : Apart(e, Seen(h, t)) /\ Apart(Seen(h, t), e)
       /\ \A t \in Staff \ {s} : \A g \in Handlers \ {h} :
            Apart(e, written[g][t]) /\ Apart(written[g][t], e)
  BY DEF Flush, Conflicts, Apart, Clash
<1>13. SeenApart'
  BY <1>4, <1>12 DEF DirectoryInv, RowsSound, SeenApart, Apart, Clash
<1>14. WritesApart'
  BY <1>3, <1>12 DEF DirectoryInv, RowsSound, WritesApart, Apart, Clash
<1> QED
  BY <1>6, <1>7, <1>8, <1>9, <1>10, <1>11, <1>13, <1>14 DEF DirectoryInv, RowsSound

\* A session that ends, its rows committed or given up.
LEMMA SessionEnds ==
  ASSUME DirectoryInv, NEW h \in Handlers,
         written' = [written EXCEPT ![h] = NothingWritten],
         directoryCall' = [directoryCall EXCEPT ![h] = DirectoryIdle],
         UNCHANGED departments,
         \/ directory' = directory
         \/ directory' = [s \in Staff |-> Seen(h, s)]
  PROVE  DirectoryInv'
<1>0. DirectoryShape
  BY DEF DirectoryInv
<1>1. /\ \A t \in Staff : written'[h][t] = None
      /\ \A g \in Handlers \ {h} : \A t \in Staff : written'[g][t] = written[g][t]
  BY DEF DirectoryInv, DirectoryShape, NothingWritten
<1>2. DirectoryShape'
  <2>1. \A s \in Staff : Seen(h, s) \in Employee \cup {None}
    BY <1>0, SeenTyped
  <2> QED
    BY <2>1 DEF DirectoryInv, DirectoryShape, NothingWritten
<1>3. ASSUME NEW s \in Staff
      PROVE  \/ directory'[s] = directory[s]
             \/ directory'[s] = written[h][s] /\ written[h][s] # None
  <2>1. directory'[s] = directory[s] \/ directory'[s] = Seen(h, s)
    OBVIOUS
  <2> QED
    BY <2>1 DEF Seen
<1>4. \A s \in Staff : Seen(h, s)' = directory'[s]
  BY <1>1 DEF Seen
<1>5. ASSUME NEW g \in Handlers \ {h}, NEW s \in Staff
      PROVE  \/ Seen(g, s)' = Seen(g, s)
             \/ Seen(g, s)' = written[h][s] /\ written[h][s] # None /\ written[g][s] = None
  BY <1>1, <1>3 DEF Seen
<1>6. CallSound(h)'
  BY DEF DirectoryInv, DirectoryShape, CallSound, DirectoryIdle
<1>7. ASSUME NEW g \in Handlers \ {h} PROVE CallSound(g)'
  <2>1. directoryCall'[g] = directoryCall[g]
    BY DEF DirectoryInv, DirectoryShape
  <2>2. \A s \in Staff : Seen(g, s) # None => Seen(g, s)' # None
    BY <1>5
  <2> QED
    BY <2>1, <2>2 DEF DirectoryInv, CallSound
<1>8. AllPlaced'
  BY <1>1, <1>3 DEF DirectoryInv, RowsSound, AllPlaced, Placed
<1>9. OneWriter'
  BY <1>1 DEF DirectoryInv, RowsSound, OneWriter
<1>10. HiredApart'
  <2>1. CASE directory' = directory
    BY <2>1 DEF DirectoryInv, RowsSound, HiredApart, Apart, Clash
  <2>2. CASE directory' = [s \in Staff |-> Seen(h, s)]
    BY <2>2 DEF DirectoryInv, RowsSound, HiredApart, SeenApart, Apart, Clash
  <2> QED
    BY <2>1, <2>2
<1>11. WritesApart'
  BY <1>1 DEF DirectoryInv, RowsSound, WritesApart, Apart, Clash
<1>12. SeenApart'
  <2> SUFFICES ASSUME NEW g \in Handlers, NEW s \in Staff, NEW t \in Staff, s # t
               PROVE  Apart(Seen(g, s)', Seen(g, t)')
    BY DEF SeenApart, Apart, Clash
  <2>1. CASE g = h
    BY <1>4, <1>10, <2>1 DEF HiredApart, Apart, Clash
  <2>2. CASE g # h /\ directory' = directory
    <3>1. Seen(g, s)' = Seen(g, s) /\ Seen(g, t)' = Seen(g, t)
      BY <1>1, <2>2 DEF Seen
    <3> QED
      BY <3>1 DEF DirectoryInv, RowsSound, SeenApart
  <2>3. CASE g # h /\ directory' = [r \in Staff |-> Seen(h, r)]
    <3>1. \A r \in Staff : Seen(g, r)' = IF written[g][r] # None THEN written[g][r]
                                         ELSE Seen(h, r)
      BY <1>1, <2>3 DEF Seen
    <3>2. ASSUME NEW p \in Staff, NEW r \in Staff, p # r, written[g][p] # None,
                 written[g][r] = None
          PROVE  Apart(written[g][p], Seen(h, r)) /\ Apart(Seen(h, r), written[g][p])
      <4>1. CASE written[h][r] # None
        BY <2>3, <3>2, <4>1 DEF DirectoryInv, RowsSound, WritesApart, Seen
      <4>2. CASE written[h][r] = None
        <5>1. Seen(h, r) = Seen(g, r) /\ Seen(g, p) = written[g][p]
          BY <3>2, <4>2 DEF Seen
        <5> QED
          BY <3>2, <5>1 DEF DirectoryInv, RowsSound, SeenApart
      <4> QED
        BY <4>1, <4>2
    <3>3. CASE written[g][s] # None /\ written[g][t] # None
      BY <2>3, <3>1, <3>3 DEF DirectoryInv, RowsSound, SeenApart, Seen
    <3>4. CASE written[g][s] = None /\ written[g][t] = None
      BY <2>3, <3>1, <3>4 DEF DirectoryInv, RowsSound, SeenApart
    <3> QED
      BY <3>1, <3>2, <3>3, <3>4
  <2> QED
    BY <2>1, <2>2, <2>3
<1> QED
  BY <1>2, <1>6, <1>7, <1>8, <1>9, <1>10, <1>11, <1>12 DEF DirectoryInv, RowsSound

LEMMA UpdateKeeps ==
  ASSUME DirectoryInv, NEW h \in Handlers, Update(h)
  PROVE  DirectoryInv'
<1> DEFINE call == directoryCall[h]
           now == Seen(h, call.staff)
<1>1. call.staff \in Staff /\ now # None /\ call.row \in Changes
  BY DEF Update, DirectoryInv, CallSound
<1>2. now \in Employee
  BY <1>1, SeenTyped DEF DirectoryInv
<1>3. Merged(now, call.row) \in Employee
  <2>1. call.row.email # {} => (CHOOSE m \in call.row.email : TRUE) \in Emails
    BY <1>1 DEF Changes
  <2>2. call.row.department # {} =>
            (CHOOSE d \in call.row.department : TRUE) \in Departments \cup {None}
    BY <1>1 DEF Changes
  <2> QED
    BY <1>2, <2>1, <2>2 DEF Merged, Employee
<1>4. PICK pc \in {"open", "done"} : Flush(h, call.staff, Merged(now, call.row), pc)
  BY DEF Update
<1> QED
  BY <1>1, <1>3, <1>4, FlushKeeps

LEMMA DeactivateKeeps ==
  ASSUME DirectoryInv, NEW s \in Staff, Deactivate(s)
  PROVE  DirectoryInv'
<1> DEFINE e == [directory[s] EXCEPT !.active = FALSE]
<1>1. directory[s] \in Employee
  BY DEF DirectoryInv, DirectoryShape, Deactivate, Hired
<1>2. /\ e \in Employee /\ e # None
      /\ e.code = directory[s].code /\ e.email = directory[s].email
      /\ e.department = directory[s].department
  <2>1. /\ e \in Employee
        /\ e.code = directory[s].code /\ e.email = directory[s].email
        /\ e.department = directory[s].department
    BY <1>1 DEF Employee
  <2> QED
    BY <2>1, NoneIsNoStaff
<1>3. /\ directory' = [directory EXCEPT ![s] = e]
      /\ UNCHANGED <<departments, written, directoryCall>>
      /\ \A g \in Handlers : written[g][s] = None
  BY DEF Deactivate
<1>4. directory[s] # None
  BY <1>1, NoneIsNoStaff
<1> HIDE DEF e
<1>5. directory'[s] = e /\ \A t \in Staff \ {s} : directory'[t] = directory[t]
  BY <1>3 DEF DirectoryInv, DirectoryShape
<1>6. \A g \in Handlers : /\ Seen(g, s) = directory[s] /\ Seen(g, s)' = e
                          /\ \A t \in Staff \ {s} : Seen(g, t)' = Seen(g, t)
  BY <1>3, <1>5 DEF Seen
<1>7. DirectoryShape'
  BY <1>2, <1>3 DEF DirectoryInv, DirectoryShape
<1>8. ASSUME NEW g \in Handlers PROVE CallSound(g)'
  <2>1. \A t \in Staff : Seen(g, t) # None => Seen(g, t)' # None
    BY <1>2, <1>6
  <2> QED
    BY <1>3, <2>1 DEF DirectoryInv, CallSound
<1>9. AllPlaced'
  BY <1>2, <1>3, <1>4, <1>5 DEF DirectoryInv, RowsSound, AllPlaced, Placed
<1>10. OneWriter' /\ WritesApart'
  BY <1>3 DEF DirectoryInv, RowsSound, OneWriter, WritesApart, Apart, Clash
<1>11. \A f : (Apart(directory[s], f) => Apart(e, f)) /\ (Apart(f, directory[s]) => Apart(f, e))
  BY <1>2, <1>4 DEF Apart, Clash
<1>12. HiredApart'
  BY <1>5, <1>11 DEF DirectoryInv, RowsSound, HiredApart
<1>13. SeenApart'
  BY <1>6, <1>11 DEF DirectoryInv, RowsSound, SeenApart
<1> QED
  BY <1>7, <1>8, <1>9, <1>10, <1>12, <1>13 DEF DirectoryInv, RowsSound

LEMMA DeleteDepartmentKeeps ==
  ASSUME DirectoryInv, NEW h \in Handlers, DeleteDepartment(h)
  PROVE  DirectoryInv'
<1> DEFINE d == directoryCall[h].row
<1>1. /\ departments' = departments \ {d}
      /\ directoryCall' = [directoryCall EXCEPT ![h] =
                              [pc |-> "idle", staff |-> None, row |-> None]]
      /\ UNCHANGED <<directory, written>>
  BY DEF DeleteDepartment, DirectoryIdle
<1>2. /\ \A s \in Staff : directory[s] # None => directory[s].department # d
      /\ \A g \in Handlers, s \in Staff : written[g][s] # None => written[g][s].department # d
  BY DEF DeleteDepartment, Referenced, Hired
<1>3. AllPlaced'
  BY <1>1, <1>2 DEF DirectoryInv, RowsSound, AllPlaced, Placed
<1>4. RowsSound'
  BY <1>1, <1>3 DEF DirectoryInv, RowsSound, OneWriter, HiredApart, SeenApart, Seen,
                    WritesApart, Apart, Clash
<1>5. DirectoryShape'
  BY <1>1 DEF DirectoryInv, DirectoryShape
<1>6. CallSound(h)'
  BY <1>1 DEF DirectoryInv, DirectoryShape, CallSound
<1>7. ASSUME NEW g \in Handlers \ {h} PROVE CallSound(g)'
  <2>1. directoryCall'[g] = directoryCall[g]
    BY <1>1 DEF DirectoryInv, DirectoryShape
  <2> QED
    BY <1>1, <2>1 DEF DirectoryInv, CallSound, Seen
<1> QED
  BY <1>4, <1>5, <1>6, <1>7 DEF DirectoryInv

LEMMA LookUpsKeep ==
  ASSUME DirectoryInv, NEW h \in Handlers,
         \/ \E email \in Emails, d \in Departments \cup {None} :
                \/ FindNobody(h, email, d)
                \/ FindEmployee(h, email, d)
                \/ \E s \in Staff : LoadEmployee(h, s, email, d)
         \/ \E d \in Departments : ReadDepartment(h, d)
         \/ ReadCode(h)
         \/ CheckEmail(h)
  PROVE  DirectoryInv'
<1> DEFINE Sound(pc, staff, row) ==
        /\ UNCHANGED <<directory, departments, written>>
        /\ directoryCall' = [directoryCall EXCEPT ![h] =
                                [pc |-> pc, staff |-> staff, row |-> row]]
        /\ pc \in {"code", "insert"} => row \in Employee
        /\ pc \in {"check", "put", "upsert"} =>
            staff \in Staff /\ Seen(h, staff) # None /\ row \in Changes
<1>1. ASSUME NEW email \in Emails, NEW d \in Departments \cup {None}, FindNobody(h, email, d)
      PROVE  \E pc, staff, row : Sound(pc, staff, row)
  <2>1. Sound("code", None, [code |-> 1, email |-> email, department |-> d, active |-> TRUE])
    <3> DEFINE e == [code |-> 1, email |-> email, department |-> d, active |-> TRUE]
    <3>1. e \in Employee
      BY DEF Employee
    <3>2. Reads(h, [DirectoryIdle EXCEPT !.pc = "code", !.row = e])
      BY <1>1 DEF FindNobody
    <3> HIDE DEF e
    <3>3. Sound("code", None, e)
      BY <3>1, <3>2, IdleFields DEF Reads
    <3> QED
      BY <3>3 DEF e
  <2> QED
    BY <2>1
<1>2. ASSUME NEW email \in Emails, NEW d \in Departments \cup {None}, FindEmployee(h, email, d)
      PROVE  \E pc, staff, row : Sound(pc, staff, row)
  <2>1. PICK s \in Named(h, email) \cap Edited :
            Reads(h, [pc |-> "upsert", staff |-> s,
                      row |-> Changed(Seen(h, s), Seen(h, s).email, d)])
    BY <1>2 DEF FindEmployee
  <2>2. s \in Staff /\ Seen(h, s) # None
    BY DEF Named, SeenBy
  <2>3. Changed(Seen(h, s), Seen(h, s).email, d) \in Changes
    <3>1. Seen(h, s) \in Employee
      BY <2>2, SeenTyped DEF DirectoryInv
    <3> QED
      BY <3>1 DEF Changed, Changes, Employee
  <2>4. Sound("upsert", s, Changed(Seen(h, s), Seen(h, s).email, d))
    BY <2>1, <2>2, <2>3 DEF Reads
  <2> QED
    BY <2>4
<1>3. ASSUME NEW email \in Emails, NEW d \in Departments \cup {None}, NEW s \in Staff,
             LoadEmployee(h, s, email, d)
      PROVE  \E pc, staff, row : Sound(pc, staff, row)
  <2>1. PICK pc \in {"put", "check"} :
            Reads(h, [pc |-> pc, staff |-> s, row |-> Changed(directory[s], email, d)])
    BY <1>3 DEF LoadEmployee
  <2>2. Seen(h, s) # None
    BY <1>3 DEF LoadEmployee, Hired, Seen
  <2>3. Changed(directory[s], email, d) \in Changes
    BY DEF Changed, Changes
  <2>4. Sound(pc, s, Changed(directory[s], email, d))
    BY <2>1, <2>2, <2>3 DEF Reads
  <2> QED
    BY <2>4
<1>4. ASSUME NEW d \in Departments, ReadDepartment(h, d)
      PROVE  \E pc, staff, row : Sound(pc, staff, row)
  <2>1. Sound("delete", None, d)
    BY <1>4, IdleFields DEF ReadDepartment, Reads
  <2> QED
    BY <2>1
<1>5. ASSUME ReadCode(h)
      PROVE  \E pc, staff, row : Sound(pc, staff, row)
  <2> DEFINE call == directoryCall[h]
  <2>1. PICK code : /\ IsNextCode(code, {Seen(h, s).code : s \in SeenBy(h)})
                    /\ Reads(h, [call EXCEPT !.pc = "insert", !.row = [call.row EXCEPT !.code = code]])
    BY <1>5 DEF ReadCode
  <2>2. code \in Nat
    <3>1. \A s \in SeenBy(h) : Seen(h, s).code \in Nat
      BY SeenTyped DEF SeenBy, DirectoryInv, Employee
    <3> QED
      BY <2>1, <3>1 DEF IsNextCode
  <2>3. [call.row EXCEPT !.code = code] \in Employee
    BY <1>5, <2>2 DEF ReadCode, DirectoryInv, CallSound, Employee
  <2>4. [call EXCEPT !.pc = "insert", !.row = [call.row EXCEPT !.code = code]]
            = [pc |-> "insert", staff |-> call.staff, row |-> [call.row EXCEPT !.code = code]]
    <3> DEFINE e == [call.row EXCEPT !.code = code]
    <3>1. call = [pc |-> call.pc, staff |-> call.staff, row |-> call.row]
      BY DEF DirectoryInv, CallSound
    <3> HIDE DEF call, e
    <3>2. [call EXCEPT !.pc = "insert", !.row = e]
            = [pc |-> "insert", staff |-> call.staff, row |-> e]
      BY ZenonT(60), <3>1, CallFields
    <3> QED
      BY <3>2 DEF e
  <2>5. Sound("insert", call.staff, [call.row EXCEPT !.code = code])
    BY <2>1, <2>3, <2>4 DEF Reads
  <2> QED
    BY <2>5
<1>6. ASSUME CheckEmail(h)
      PROVE  \E pc, staff, row : Sound(pc, staff, row)
  <2> DEFINE call == directoryCall[h]
  <2>1. call.staff \in Staff /\ Seen(h, call.staff) # None /\ call.row \in Changes
    BY <1>6 DEF CheckEmail, DirectoryInv, CallSound
  <2>2. [call EXCEPT !.pc = "put"] = [pc |-> "put", staff |-> call.staff, row |-> call.row]
    <3>1. call = [pc |-> call.pc, staff |-> call.staff, row |-> call.row]
      BY DEF DirectoryInv, CallSound
    <3> HIDE DEF call
    <3> QED
      BY <3>1
  <2>3. Sound("put", call.staff, call.row)
    BY <1>6, <2>1, <2>2 DEF CheckEmail, Reads
  <2> QED
    BY <2>3
<1>7. PICK pc, staff, row : Sound(pc, staff, row)
  BY <1>1, <1>2, <1>3, <1>4, <1>5, <1>6
<1> QED
  BY <1>7, ReadsKeep

LEMMA DirectoryNextKeeps ==
  ASSUME DirectoryInv, [DirectoryNext]_directoryVars
  PROVE  DirectoryInv'
<1>1. ASSUME NEW h \in Handlers, Insert(h) PROVE DirectoryInv'
  <2>1. directoryCall[h].row \in Employee
    BY <1>1 DEF Insert, DirectoryInv, CallSound
  <2> QED
    BY <1>1, <2>1, FlushKeeps DEF Insert
<1>2. ASSUME NEW h \in Handlers, Commit(h) PROVE DirectoryInv'
  BY <1>2, SessionEnds DEF Commit
<1>3. ASSUME NEW h \in Handlers, RollBackDirectory(h) PROVE DirectoryInv'
  BY <1>3, SessionEnds DEF RollBackDirectory
<1>4. CASE UNCHANGED directoryVars
  BY <1>4 DEF directoryVars, DirectoryInv, DirectoryShape, CallSound, RowsSound, AllPlaced,
              Placed, OneWriter, HiredApart, SeenApart, Seen, WritesApart, Apart, Clash
<1>5. ASSUME NEW h \in Handlers, DirectoryStep(h) PROVE DirectoryInv'
  BY <1>1, <1>2, <1>3, <1>5, LookUpsKeep, UpdateKeeps, DeleteDepartmentKeeps DEF DirectoryStep
<1> QED
  BY <1>4, <1>5, DeactivateKeeps DEF DirectoryNext

THEOREM DirectoryInductive == DirectorySpec => []DirectoryInv
<1> QED
  BY DirectoryStarts, DirectoryNextKeeps, PTL DEF DirectorySpec

\* No two employees get one code or email, and nobody is in a department that is
\* gone, however creations, imports, updates and deletions of departments overlap.
THEOREM CodesAreUnique == DirectorySpec => []DirectoryConsistent
<1>1. DirectoryInv => DirectoryConsistent
  BY DEF DirectoryInv, RowsSound, AllPlaced, HiredApart, DirectoryConsistent, Apart, Clash,
         Placed, Hired
<1> QED
  BY <1>1, DirectoryInductive, PTL

-------------------------------------------------------------------------------
(* The knowledge base *)

\* The id of an upload that has not committed is nobody else's.
FreshDocument(h) ==
    /\ document[kbCall[h].doc].status = "none"
    /\ \A g \in Handlers \ {h} : kbCall[g].doc # kbCall[h].doc

\* A handler that has changed a row holds it, and the row is there; an ingestion
\* holds it unless it was gone already. Nobody else works on a row that was
\* never committed.
KbHandler(h) ==
    LET pc == kbCall[h].pc
        d == kbCall[h].doc
    IN
    /\ pc # "idle" => d \in Documents /\ kbCall[h].loaded \in Document
    /\ pc \in {"clear", "write", "enqueue", "commit"} => NextVersion(h) \in FileVersions
    /\ pc \in JobSteps => kbCall[h].loaded.version \in FileVersions
    /\ pc \in {"clear", "write", "delete"} \cup JobSteps => document[d].status # "none"
    /\ pc \in {"enqueue", "commit"} =>
          \/ FreshDocument(h) /\ kbCall[h].loaded.status = "none"
          \/ documentLock[d] = h /\ RowExists(d)
    /\ pc = "deleted" => documentLock[d] = h /\ RowExists(d)
    /\ pc \in {"ingest", "index", "fail"} =>
          documentLock[d] = h \/ document[d].status = "deleted"

KbInv ==
    /\ KnowledgeBaseTypeOK
    /\ \A d \in Documents :
          /\ RowExists(d) => document[d].version \in FileVersions
          /\ document[d].status = "none" => document[d].version = 0
    /\ \A h \in Handlers : KbHandler(h)
    /\ NoOrphanChunks

KbCalls == [pc : {"idle"} \cup JobSteps \cup RequestSteps, doc : Documents \cup {None},
            loaded : Document \cup {None}, cleared : SUBSET FileVersions]

LEMMA KbIdleTyped == KbIdle \in KbCalls
BY DEF KbIdle, KbCalls

LEMMA KbStarts == KnowledgeBaseInit => KbInv
<1> SUFFICES ASSUME KnowledgeBaseInit PROVE KbInv
  OBVIOUS
<1>1. document \in [Documents -> Document]
  BY DocumentBounds DEF KnowledgeBaseInit, Document
<1>2. kbCall \in [Handlers -> KbCalls]
  BY KbIdleTyped DEF KnowledgeBaseInit
<1>3. KnowledgeBaseTypeOK
  BY <1>1, <1>2, DocumentBounds DEF KnowledgeBaseInit, KnowledgeBaseTypeOK, KbCalls
<1>4. \A h \in Handlers : KbHandler(h)
  BY DEF KnowledgeBaseInit, KbHandler, KbIdle, JobSteps
<1> QED
  BY <1>3, <1>4 DEF KbInv, KnowledgeBaseInit, NoOrphanChunks, RowExists, DocumentStatus

\* A handler goes on, or takes the lock of its row, without a commit.
LEMMA KbMoves ==
  ASSUME KbInv, NEW h \in Handlers, NEW call \in KbCalls,
         call.pc # "idle" => call.doc \in Documents,
         kbCall' = [kbCall EXCEPT ![h] = call],
         UNCHANGED <<document, chunks>>,
         files' \in [Documents -> SUBSET FileVersions],
         jobs' \in [Documents -> Nat],
         faults' \in 0..MaxFaults,
         \/ UNCHANGED documentLock
         \/ /\ Available(documentLock[call.doc], h)
            /\ documentLock' = [documentLock EXCEPT ![call.doc] = h],
         \/ kbCall[h].doc = call.doc
         \/ document[call.doc].status # "none"
         \/ \A g \in Handlers : kbCall[g].doc # call.doc,
         KbHandler(h)'
  PROVE  KbInv'
<1> USE NoneIsNoHandler
<1>1. kbCall'[h] = call /\ \A g \in Handlers \ {h} : kbCall'[g] = kbCall[g]
  BY DEF KbInv, KnowledgeBaseTypeOK
<1>2. KnowledgeBaseTypeOK'
  BY <1>1 DEF KbInv, KnowledgeBaseTypeOK, KbCalls
<1>3. ASSUME NEW g \in Handlers \ {h} PROVE KbHandler(g)'
  <2>1. KbHandler(g)
    BY DEF KbInv
  <2>2. kbCall[g].pc # "idle" /\ documentLock[kbCall[g].doc] = g =>
           documentLock'[kbCall[g].doc] = g
    BY <2>1 DEF Available, KbInv, KnowledgeBaseTypeOK, KbHandler
  <2>3. kbCall[g].pc \in {"enqueue", "commit"} /\ FreshDocument(g) => FreshDocument(g)'
    <3>1. FreshDocument(g) => call.doc # kbCall[g].doc
      BY DEF FreshDocument
    <3> QED
      BY <1>1, <3>1 DEF FreshDocument
  <2> QED
    BY <1>1, <2>1, <2>2, <2>3 DEF KbHandler, NextVersion, RowExists, JobSteps
<1> QED
  BY <1>1, <1>2, <1>3 DEF KbInv, NoOrphanChunks, RowExists

\* A transaction ends.
LEMMA KbEnds ==
  ASSUME KbInv, NEW h \in Handlers, kbCall[h].pc # "idle",
         Release(h), Finish(h),
         UNCHANGED files,
         jobs' \in [Documents -> Nat],
         faults' \in 0..MaxFaults,
         NEW x \in Document, NEW y \in SUBSET FileVersions,
         document' = [document EXCEPT ![kbCall[h].doc] = x],
         chunks' = [chunks EXCEPT ![kbCall[h].doc] = y],
         x.status \in DocumentStatus => x.version \in FileVersions,
         y # {} => x.status \in DocumentStatus,
         \/ x = document[kbCall[h].doc]
         \/ FreshDocument(h) /\ x.status # "none"
         \/ /\ documentLock[kbCall[h].doc] = h
            /\ RowExists(kbCall[h].doc)
            /\ x.status # "none"
  PROVE  KbInv'
<1> USE NoneIsNoHandler
<1> DEFINE d == kbCall[h].doc
<1>1. kbCall'[h] = KbIdle /\ \A g \in Handlers \ {h} : kbCall'[g] = kbCall[g]
  BY DEF KbInv, KnowledgeBaseTypeOK, Finish
<1>2. d \in Documents
  BY DEF KbInv, KbHandler
<1>3. /\ document'[d] = x /\ chunks'[d] = y
      /\ \A c \in Documents \ {d} : document'[c] = document[c] /\ chunks'[c] = chunks[c]
      /\ \A c \in Documents : documentLock'[c] = IF documentLock[c] = h THEN None ELSE documentLock[c]
  BY <1>2 DEF KbInv, KnowledgeBaseTypeOK, Release
<1>4. KnowledgeBaseTypeOK'
  <2>1. kbCall' \in [Handlers -> KbCalls]
    BY KbIdleTyped DEF KbInv, KnowledgeBaseTypeOK, KbCalls, Finish
  <2>2. documentLock' \in [Documents -> Handlers \cup {None}]
    BY DEF KbInv, KnowledgeBaseTypeOK, Release
  <2> QED
    BY <2>1, <2>2 DEF KbInv, KnowledgeBaseTypeOK, KbCalls
<1>5. KbHandler(h)'
  BY <1>1 DEF KbHandler, KbIdle, JobSteps
<1>6. ASSUME NEW g \in Handlers \ {h} PROVE KbHandler(g)'
  <2>1. KbHandler(g) /\ KbHandler(h)
    BY DEF KbInv
  <2>2. CASE kbCall[g].doc # d \/ x = document[d]
    <3>1. kbCall[g].pc # "idle" =>
             /\ document'[kbCall[g].doc] = document[kbCall[g].doc]
             /\ documentLock[kbCall[g].doc] = g => documentLock'[kbCall[g].doc] = g
      BY <1>3, <2>1, <2>2 DEF KbHandler
    <3>2. kbCall[g].pc \in {"enqueue", "commit"} /\ FreshDocument(g) => FreshDocument(g)'
      BY <1>1, <2>1, <3>1, NoneIsNoDocument DEF FreshDocument, KbHandler, KbIdle
    <3> QED
      BY <1>1, <2>1, <3>1, <3>2 DEF KbHandler, NextVersion, RowExists, JobSteps
  <2>3. CASE kbCall[g].doc = d /\ documentLock[d] = h /\ RowExists(d) /\ x.status # "none"
    <3>1. kbCall[g].pc \in {"idle", "clear", "write", "delete", "mark"}
      BY <2>1, <2>3 DEF KbHandler, FreshDocument, RowExists, DocumentStatus, JobSteps, KbInv, KnowledgeBaseTypeOK, RequestSteps
    <3> QED
      BY <1>1, <1>3, <2>1, <2>3, <3>1 DEF KbHandler, NextVersion, JobSteps
  <2>4. CASE kbCall[g].doc = d /\ FreshDocument(h)
    BY <2>4 DEF FreshDocument
  <2> QED
    BY <2>2, <2>3, <2>4
<1>7. \A c \in Documents :
        /\ RowExists(c)' => document'[c].version \in FileVersions
        /\ document'[c].status = "none" => document'[c].version = 0
  BY <1>3 DEF KbInv, RowExists
<1>8. NoOrphanChunks'
  BY <1>3 DEF KbInv, NoOrphanChunks, RowExists
<1> QED
  BY <1>4, <1>5, <1>6, <1>7, <1>8 DEF KbInv

LEMMA KbBegins ==
  ASSUME KbInv, NEW h \in Handlers, NEW d \in Documents,
         Upload(h, d) \/ BeginReplace(h, d) \/ BeginRemoval(h, d) \/ StartJob(h, d)
  PROVE  KbInv'
<1> DEFINE loaded(pc) == [KbIdle EXCEPT !.pc = pc, !.doc = d, !.loaded = document[d]]
<1>1. /\ document[d] \in Document /\ chunks[d] \in SUBSET FileVersions
      /\ RowExists(d) => document[d].version \in FileVersions
      /\ document[d].status = "none" => document[d].version = 0
      /\ files \in [Documents -> SUBSET FileVersions] /\ jobs \in [Documents -> Nat]
      /\ faults \in 0..MaxFaults
      /\ DOMAIN kbCall = Handlers
  BY DEF KbInv, KnowledgeBaseTypeOK
<1>2. \A pc \in JobSteps \cup RequestSteps : loaded(pc) \in KbCalls
  BY <1>1 DEF KbCalls, KbIdle
<1>3. CASE Upload(h, d)
  <2>1. kbCall' = [kbCall EXCEPT ![h] = loaded("enqueue")]
    BY <1>3 DEF Upload, Load
  <2>2. files' \in [Documents -> SUBSET FileVersions]
    BY <1>1, <1>3, DocumentBounds DEF Upload, FileVersions
  <2>3. KbHandler(h)'
    <3>1. kbCall'[h] = loaded("enqueue") /\ \A g \in Handlers \ {h} : kbCall'[g] = kbCall[g]
      BY <1>1, <2>1
    <3>2. loaded("enqueue").loaded.version + 1 \in FileVersions
      BY <1>1, <1>3, DocumentBounds DEF Upload, FileVersions, KbIdle
    <3>3. FreshDocument(h)'
      BY <1>3, <3>1 DEF Upload, FreshDocument, KbIdle
    <3> QED
      BY <1>1, <1>3, <3>1, <3>2, <3>3 DEF Upload, KbHandler, KbIdle, JobSteps, NextVersion
  <2> QED
    BY <1>1, <1>2, <1>3, <2>1, <2>2, <2>3, KbMoves DEF Upload, KbIdle, RequestSteps
<1>4. CASE BeginReplace(h, d)
  <2>1. kbCall' = [kbCall EXCEPT ![h] = loaded("clear")]
    BY <1>4 DEF BeginReplace, Load
  <2>2. document[d].version + 1 \in FileVersions
    BY <1>1, <1>4, DocumentBounds DEF BeginReplace, FileVersions, Document
  <2>3. KbHandler(h)'
    BY <1>1, <1>4, <2>1, <2>2
       DEF BeginReplace, KbHandler, KbIdle, JobSteps, NextVersion, RowExists, DocumentStatus
  <2> QED
    BY <1>1, <1>2, <1>4, <2>1, <2>3, KbMoves
       DEF BeginReplace, KbIdle, RequestSteps, RowExists, DocumentStatus
<1>5. CASE BeginRemoval(h, d)
  <2> DEFINE call == [KbIdle EXCEPT !.pc = "delete", !.doc = d, !.loaded = document[d],
                                    !.cleared = chunks[d]]
  <2>1. call \in KbCalls /\ kbCall' = [kbCall EXCEPT ![h] = call]
    BY <1>1, <1>5 DEF BeginRemoval, KbCalls, KbIdle, RequestSteps
  <2>2. KbHandler(h)'
    BY <1>1, <1>5, <2>1
       DEF BeginRemoval, KbHandler, KbIdle, JobSteps, RowExists, DocumentStatus
  <2> QED
    BY <1>1, <1>5, <2>1, <2>2, KbMoves DEF BeginRemoval, KbIdle, RowExists, DocumentStatus
<1>6. CASE StartJob(h, d)
  <2>1. jobs' \in [Documents -> Nat]
    BY <1>1, <1>6 DEF StartJob
  <2>2. CASE RowExists(d)
    <3>1. kbCall' = [kbCall EXCEPT ![h] = loaded("mark")]
      BY <1>6, <2>2 DEF StartJob, Load
    <3>2. KbHandler(h)'
      BY <1>1, <1>6, <2>2, <3>1
         DEF StartJob, KbHandler, KbIdle, JobSteps, RowExists, DocumentStatus
    <3> QED
      BY <1>1, <1>2, <1>6, <2>1, <2>2, <3>1, <3>2, KbMoves
         DEF StartJob, KbIdle, JobSteps, RowExists, DocumentStatus
  <2>3. CASE ~RowExists(d)
    BY <1>6, <2>1, <2>3
       DEF StartJob, KbInv, KnowledgeBaseTypeOK, KbHandler, RowExists, NoOrphanChunks, FreshDocument,
           NextVersion
  <2> QED
    BY <2>2, <2>3
<1> QED
  BY <1>3, <1>4, <1>5, <1>6

LEMMA KbGoesOn ==
  ASSUME KbInv, NEW h \in Handlers,
         ClearAndStore(h) \/ WriteReplaced(h) \/ Enqueue(h) \/ DeleteRow(h)
           \/ MarkProcessing(h) \/ Ingest(h)
  PROVE  KbInv'
<1> DEFINE d == kbCall[h].doc
<1>1. /\ kbCall[h] \in KbCalls /\ KbHandler(h) /\ DOMAIN kbCall = Handlers
      /\ files \in [Documents -> SUBSET FileVersions] /\ jobs \in [Documents -> Nat]
      /\ faults \in 0..MaxFaults
      /\ chunks \in [Documents -> SUBSET FileVersions]
      /\ documentLock \in [Documents -> Handlers \cup {None}]
      /\ \A c \in Documents : RowExists(c) => document[c].version \in FileVersions
  BY DEF KbInv, KnowledgeBaseTypeOK, KbCalls
<1>2. kbCall[h].pc # "idle" => d \in Documents
  BY <1>1 DEF KbHandler
<1>3. CASE ClearAndStore(h)
  <2> DEFINE call == [kbCall[h] EXCEPT !.pc = "write", !.cleared = chunks[d]]
  <2>1. call \in KbCalls /\ kbCall' = [kbCall EXCEPT ![h] = call] /\ kbCall'[h] = call
    BY <1>1, <1>2, <1>3 DEF ClearAndStore, KbCalls, At, RequestSteps
  <2>2. files' \in [Documents -> SUBSET FileVersions]
    BY <1>1, <1>2, <1>3 DEF ClearAndStore, At, KbHandler
  <2>3. KbHandler(h)'
    BY <1>1, <1>3, <2>1 DEF ClearAndStore, At, KbHandler, NextVersion, JobSteps
  <2> QED
    <3>1. call.doc = d /\ d \in Documents
      BY <1>2, <1>3 DEF ClearAndStore, At
    <3> QED
      BY <1>1, <1>3, <2>1, <2>2, <2>3, <3>1, KbMoves DEF ClearAndStore
<1>4. ASSUME NEW pc \in JobSteps \cup RequestSteps, At(h, "write") \/ At(h, "enqueue") \/ At(h, "delete")
                \/ At(h, "mark") \/ At(h, "ingest"), Goto(h, pc)
      PROVE  /\ [kbCall[h] EXCEPT !.pc = pc] \in KbCalls
             /\ kbCall' = [kbCall EXCEPT ![h] = [kbCall[h] EXCEPT !.pc = pc]]
             /\ kbCall'[h] = [kbCall[h] EXCEPT !.pc = pc]
             /\ kbCall[h].doc \in Documents
             /\ [kbCall[h] EXCEPT !.pc = pc].doc = kbCall[h].doc
  BY <1>1, <1>2, <1>4 DEF KbCalls, Goto, At
<1>5. CASE WriteReplaced(h)
  <2>0. kbCall[h].pc # "idle" /\ kbCall'[h] = [kbCall[h] EXCEPT !.pc = "enqueue"]
    BY <1>1, <1>4, <1>5 DEF WriteReplaced, At, JobSteps, RequestSteps
  <2>1. KbHandler(h)'
    BY <1>1, <1>2, <1>5, <2>0 DEF WriteReplaced, KbHandler, NextVersion, JobSteps, At, RequestSteps, RowExists
  <2> QED
    BY <1>1, <1>4, <1>5, <2>1, KbMoves DEF WriteReplaced, RequestSteps
<1>6. CASE Enqueue(h)
  <2>0. kbCall[h].pc # "idle" /\ kbCall'[h] = [kbCall[h] EXCEPT !.pc = "commit"]
    BY <1>1, <1>4, <1>6 DEF Enqueue, At, JobSteps, RequestSteps
  <2>1. jobs' \in [Documents -> Nat] /\ faults' \in 0..MaxFaults
    BY <1>1, <1>6, DocumentBounds DEF Enqueue
  <2>2. FreshDocument(h) => FreshDocument(h)'
    BY <1>1, <1>4, <1>6 DEF Enqueue, FreshDocument, RequestSteps, Goto
  <2>3. KbHandler(h)'
    BY <1>1, <1>6, <2>0, <2>2 DEF Enqueue, KbHandler, NextVersion, JobSteps, At, RequestSteps, RowExists
  <2> QED
    BY <1>1, <1>4, <1>6, <2>1, <2>3, KbMoves DEF Enqueue, RequestSteps
<1>7. CASE DeleteRow(h)
  <2>0. kbCall[h].pc # "idle" /\ kbCall'[h] = [kbCall[h] EXCEPT !.pc = "deleted"]
    BY <1>1, <1>4, <1>7 DEF DeleteRow, At, JobSteps, RequestSteps
  <2>1. files' \in [Documents -> SUBSET FileVersions]
    BY <1>1, <1>7 DEF DeleteRow
  <2>2. KbHandler(h)'
    BY <1>1, <1>2, <1>7, <2>0 DEF DeleteRow, KbHandler, JobSteps, At, RequestSteps, RowExists
  <2> QED
    BY <1>1, <1>4, <1>7, <2>1, <2>2, KbMoves DEF DeleteRow, RequestSteps
<1>8. CASE MarkProcessing(h)
  <2>0. kbCall[h].pc # "idle" /\ kbCall'[h] = [kbCall[h] EXCEPT !.pc = "ingest"]
    BY <1>1, <1>4, <1>8 DEF MarkProcessing, At, JobSteps, RequestSteps
  <2>1. documentLock' = documentLock \/ documentLock' = [documentLock EXCEPT ![d] = h]
    BY <1>1, <1>8 DEF MarkProcessing
  <2>2. RowExists(d) => documentLock'[d] = h
    BY <1>1, <1>4, <1>8 DEF MarkProcessing, JobSteps
  <2>3. ~RowExists(d) => document[d].status = "deleted"
    BY <1>1, <1>4, <1>8 DEF MarkProcessing, KbHandler, JobSteps, At, RowExists, KbInv,
       KnowledgeBaseTypeOK, Document
  <2>4. KbHandler(h)'
    BY <1>1, <1>8, <2>0, <2>2, <2>3 DEF MarkProcessing, KbHandler, JobSteps, At
  <2> QED
    BY <1>1, <1>4, <1>8, <2>1, <2>4, KbMoves DEF MarkProcessing, JobSteps
<1>9. CASE Ingest(h)
  <2>1. PICK pc \in {"index", "fail"} : Goto(h, pc)
    BY <1>9 DEF Ingest, Embedded, Chunked
  <2>2. KbHandler(h)'
    <3>1. kbCall[h].pc = "ingest" /\ kbCall'[h] = [kbCall[h] EXCEPT !.pc = pc]
      BY <1>4, <1>9, <2>1 DEF Ingest, Embedded, Chunked, JobSteps, At
    <3> QED
      BY <1>1, <1>9, <3>1 DEF Ingest, Embedded, Chunked, KbHandler, JobSteps
  <2> QED
    BY <1>1, <1>4, <1>9, <2>1, <2>2, KbMoves DEF Ingest, Embedded, Chunked, JobSteps
<1> QED
  BY <1>3, <1>5, <1>6, <1>7, <1>8, <1>9

\* A row becomes deleted while its deleter holds it, its chunks with it; what an
\* ingestion inserts belongs to a row that it holds.
LEMMA KbCommits ==
  ASSUME KbInv, NEW h \in Handlers,
         CommitUpload(h) \/ CommitRemoval(h) \/ CommitChunks(h) \/ CommitError(h)
           \/ WorkerDies(h) \/ RollBackKb(h)
  PROVE  /\ KbInv'
         /\ \A d \in Documents : document[d].status = "deleted" => document'[d].status = "deleted"
<1> DEFINE d == kbCall[h].doc
<1>1. /\ kbCall[h] \in KbCalls /\ KbHandler(h) /\ kbCall[h].pc # "idle" /\ d \in Documents
      /\ jobs \in [Documents -> Nat] /\ faults \in 0..MaxFaults
      /\ document \in [Documents -> Document]
      /\ chunks \in [Documents -> SUBSET FileVersions]
      /\ chunks[d] # {} => RowExists(d)
      /\ RowExists(d) => document[d].version \in FileVersions
  BY DEF KbInv, KnowledgeBaseTypeOK, KbCalls, KbHandler, CommitUpload, CommitRemoval, CommitChunks,
         CommitError, WorkerDies, RollBackKb, At, JobSteps, RequestSteps, NoOrphanChunks
<1>2. /\ Release(h) /\ Finish(h) /\ UNCHANGED files
      /\ jobs' \in [Documents -> Nat] /\ faults' \in 0..MaxFaults
  BY <1>1, DocumentBounds
     DEF CommitUpload, CommitRemoval, CommitChunks, CommitError, WorkerDies, RollBackKb
<1>3. PICK x \in Document, y \in SUBSET FileVersions :
        /\ document' = [document EXCEPT ![d] = x]
        /\ chunks' = [chunks EXCEPT ![d] = y]
        /\ x.status \in DocumentStatus => x.version \in FileVersions
        /\ y # {} => x.status \in DocumentStatus
        /\ \/ x = document[d]
           \/ FreshDocument(h) /\ x.status # "none"
           \/ documentLock[d] = h /\ RowExists(d) /\ x.status # "none"
  <2> DEFINE Good(x, y) ==
        /\ document' = [document EXCEPT ![d] = x]
        /\ chunks' = [chunks EXCEPT ![d] = y]
        /\ x.status \in DocumentStatus => x.version \in FileVersions
        /\ y # {} => x.status \in DocumentStatus
        /\ \/ x = document[d]
           \/ FreshDocument(h) /\ x.status # "none"
           \/ documentLock[d] = h /\ RowExists(d) /\ x.status # "none"
  <2>1. CASE CommitUpload(h)
    <3> DEFINE x == [status |-> IF kbCall[h].loaded.status = "pending" THEN document[d].status
                                ELSE "pending",
                     version |-> NextVersion(h)]
               y == chunks[d] \ kbCall[h].cleared
    <3>1. kbCall[h].pc = "commit" /\ NextVersion(h) \in FileVersions
      BY <1>1, <2>1 DEF CommitUpload, At, KbHandler
    <3>2. x \in Document /\ y \in SUBSET FileVersions
      BY <1>1, <3>1 DEF Document, FileVersions, DocumentStatus
    <3>3. /\ (FreshDocument(h) /\ x.status = "pending") \/ (documentLock[d] = h /\ RowExists(d))
          /\ RowExists(d) => x.status \in DocumentStatus
      BY <1>1, <3>1 DEF KbHandler, RowExists, DocumentStatus
    <3>4. Good(x, y)
      BY <1>1, <2>1, <3>1, <3>3 DEF CommitUpload, RowExists, DocumentStatus
    <3> QED
      BY <3>2, <3>4
  <2>2. CASE CommitRemoval(h)
    <3> DEFINE x == [document[d] EXCEPT !.status = "deleted"]
               y == chunks[d] \ Cascade(h)
    <3>1. y = {} /\ x \in Document /\ x.status = "deleted"
      BY <1>1 DEF Cascade, Document
    <3>2. documentLock[d] = h /\ RowExists(d)
      BY <1>1, <2>2 DEF CommitRemoval, At, KbHandler
    <3>3. Good(x, y)
      BY <1>1, <2>2, <3>1, <3>2 DEF CommitRemoval, DocumentStatus
    <3> QED
      BY <3>1, <3>3
  <2>3. ASSUME At(h, "index"), RowExists(d),
               chunks' = [chunks EXCEPT ![d] = @ \cup {kbCall[h].loaded.version}],
               document' = [document EXCEPT ![d].status = "ready"]
        PROVE  \E x \in Document, y \in SUBSET FileVersions : Good(x, y)
    <3> DEFINE x == [document[d] EXCEPT !.status = "ready"]
               y == chunks[d] \cup {kbCall[h].loaded.version}
    <3>1. kbCall[h].loaded.version \in FileVersions /\ documentLock[d] = h
      BY <1>1, <2>3 DEF KbHandler, At, JobSteps, RowExists, DocumentStatus
    <3>2. x \in Document /\ y \in SUBSET FileVersions /\ x.status = "ready" /\ x.version = document[d].version
      BY <1>1, <3>1 DEF Document, DocumentStatus
    <3>3. Good(x, y)
      BY <1>1, <2>3, <3>1, <3>2 DEF DocumentStatus
    <3> QED
      BY <3>2, <3>3
  <2>4. CASE CommitError(h)
    <3> DEFINE x == [document[d] EXCEPT !.status = IF RowExists(d) THEN "error" ELSE @]
    <3>1. x \in Document /\ x.version = document[d].version
          /\ x.status = IF RowExists(d) THEN "error" ELSE document[d].status
      BY <1>1 DEF Document, DocumentStatus
    <3>2. documentLock[d] = h \/ document[d].status = "deleted"
      BY <1>1, <2>4 DEF CommitError, At, KbHandler
    <3>3. Good(x, chunks[d])
      BY <1>1, <2>4, <3>1, <3>2 DEF CommitError, DocumentStatus, RowExists, Document
    <3> QED
      BY <1>1, <3>1, <3>3
  <2>5. CASE UNCHANGED <<document, chunks>>
    BY SMTT(30), <1>1, <2>5 DEF RowExists
  <2> QED
    BY <2>1, <2>2, <2>3, <2>4, <2>5 DEF CommitChunks, WorkerDies, RollBackKb
<1>4. KbInv'
  BY <1>1, <1>2, <1>3, KbEnds
<1>5. document[d].status = "deleted" => x.status = "deleted"
  BY <1>3 DEF FreshDocument, RowExists, DocumentStatus
<1> QED
  BY <1>1, <1>3, <1>4, <1>5

\* Rows are written by who holds them, and chunks belong to rows.
THEOREM KnowledgeInductive == KbSpec => []KbInv
<1>1. KbInv /\ [KbNext]_kbVars => KbInv'
  <2> SUFFICES ASSUME KbInv, [KbNext]_kbVars PROVE KbInv'
    OBVIOUS
  <2>1. CASE KbNext
    BY <2>1, KbBegins, KbGoesOn, KbCommits DEF KbNext, KbProgress
  <2>2. CASE UNCHANGED kbVars
    BY <2>2 DEF kbVars, KbInv, KnowledgeBaseTypeOK, KbHandler, FreshDocument, NextVersion, RowExists,
                NoOrphanChunks
  <2> QED
    BY <2>1, <2>2
<1> QED
  BY <1>1, KbStarts, PTL DEF KbSpec

\* No chunk outlives its document (document_service.py:362).
THEOREM ChunksHaveDocuments == KbSpec => []NoOrphanChunks
<1>1. KbInv => NoOrphanChunks
  BY DEF KbInv
<1> QED
  BY <1>1, KnowledgeInductive, PTL

\* A document that was deleted is not brought back by a replacement or an
\* ingestion that was under way.
THEOREM DeletedForGood == KbSpec => DeletedStays
<1>1. KbInv /\ [KbNext]_kbVars =>
        [\A d \in Documents : document[d].status = "deleted" => document'[d].status = "deleted"]_kbVars
  <2> SUFFICES ASSUME KbInv, KbNext, NEW d \in Documents, document[d].status = "deleted"
               PROVE  document'[d].status = "deleted"
    OBVIOUS
  <2>1. CASE UNCHANGED document
    BY <2>1
  <2>2. ASSUME NEW h \in Handlers,
               CommitUpload(h) \/ CommitRemoval(h) \/ CommitChunks(h) \/ CommitError(h)
                 \/ WorkerDies(h) \/ RollBackKb(h)
        PROVE  document'[d].status = "deleted"
    BY <2>2, KbCommits
  <2> QED
    BY <2>1, <2>2 DEF KbNext, KbProgress, Upload, BeginReplace, BeginRemoval, StartJob,
       ClearAndStore, WriteReplaced, Enqueue, DeleteRow, MarkProcessing, Ingest, Embedded, Chunked
<1> QED
  BY <1>1, KnowledgeInductive, PTL DEF KbSpec, DeletedStays

-------------------------------------------------------------------------------
(* The CV pipeline *)

RunFields == {"pc", "marks", "cv", "saw"}
CvFields == {"status", "checksum", "text", "draft", "confirmed"}

CvShape ==
    /\ DOMAIN runs = Handlers
    /\ \A h \in Handlers : DOMAIN runs[h] = RunFields
    /\ IsSeq(cvs)
    /\ \A i \in DOMAIN cvs : DOMAIN cvs[i] = CvFields

OneSearches == \A g, h \in Handlers : Searching(g) /\ Searching(h) => g = h

UploadsUnknown == \A h \in Handlers : runs[h].pc = "upload" => Known = {}

OneKnown == \E i : Known \subseteq {i}

\* While runs have not overlapped: one at a time is between look-up and insert, and
\* it has found nothing when it uploads.
CvInv == CvShape /\ (met \/ (OneSearches /\ UploadsUnknown /\ OneKnown))

LEMMA CvStarts == CvInit => CvInv
<1> SUFFICES ASSUME CvInit PROVE CvInv
  OBVIOUS
<1>1. /\ DOMAIN cvs = {} /\ IsSeq(cvs) /\ DOMAIN runs = Handlers
      /\ \A h \in Handlers : runs[h].pc = "idle" /\ DOMAIN runs[h] = RunFields
  BY DEF CvInit, IsSeq, NoRun, RunFields
<1> QED
  BY <1>1 DEF CvInv, CvShape, OneSearches, UploadsUnknown, OneKnown, Known, Searching

\* A run that goes on, ends or stops.
LEMMA RunMoves ==
  ASSUME CvShape, NEW h \in Handlers, NEW pc,
         \/ Goes(h, pc)
         \/ pc = "finish" /\ \E s : Ends(h, s)
         \/ pc = "idle" /\ Stops(h)
         \/ \E m : runs' = [runs EXCEPT ![h] = [NoRun EXCEPT !.pc = pc, !.marks = m]]
         \/ \E i, s : runs' = [runs EXCEPT ![h] = [NoRun EXCEPT !.pc = pc, !.cv = i, !.saw = s]]
         \/ \E i : runs' = [runs EXCEPT ![h].pc = pc, ![h].cv = i]
  PROVE  /\ DOMAIN runs' = Handlers
         /\ \A g \in Handlers : DOMAIN runs'[g] = RunFields
         /\ runs'[h].pc = pc
         /\ \A g \in Handlers \ {h} : runs'[g] = runs[g]
<1>1. CASE Goes(h, pc)
  BY <1>1 DEF Goes, CvShape, RunFields
<1>2. CASE pc = "finish" /\ \E s : Ends(h, s)
  BY <1>2 DEF Ends, CvShape, RunFields
<1>3. CASE pc = "idle" /\ Stops(h)
  BY <1>3 DEF Stops, CvShape, RunFields, NoRun
<1>4. CASE \E m : runs' = [runs EXCEPT ![h] = [NoRun EXCEPT !.pc = pc, !.marks = m]]
  BY <1>4 DEF CvShape, RunFields, NoRun
<1>5. CASE \E i, s : runs' = [runs EXCEPT ![h] =
                        [NoRun EXCEPT !.pc = pc, !.cv = i, !.saw = s]]
  BY <1>5 DEF CvShape, RunFields, NoRun
<1>6. CASE \E i : runs' = [runs EXCEPT ![h].pc = pc, ![h].cv = i]
  BY <1>6 DEF CvShape, RunFields
<1> QED
  BY <1>1, <1>2, <1>3, <1>4, <1>5, <1>6

\* A document's row changes, and not its checksum.
LEMMA RowChanges ==
  ASSUME CvShape, NEW i, NEW row, cvs' = [cvs EXCEPT ![i] = row],
         i \in DOMAIN cvs => DOMAIN row = CvFields /\ row.checksum = cvs[i].checksum
  PROVE  /\ IsSeq(cvs') /\ \A j \in DOMAIN cvs' : DOMAIN cvs'[j] = CvFields
         /\ Known' = Known
<1>1. /\ DOMAIN cvs' = DOMAIN cvs
      /\ \A j \in DOMAIN cvs :
            DOMAIN cvs'[j] = CvFields /\ cvs'[j].checksum = cvs[j].checksum
  BY DEF CvShape
<1>2. IsSeq(cvs')
  <2>1. cvs \in [1..Len(cvs) -> {cvs[j] : j \in 1..Len(cvs)} \cup {row}] /\ Len(cvs) \in Nat
    BY DEF CvShape, IsSeq
  <2>2. cvs \in Seq({cvs[j] : j \in 1..Len(cvs)} \cup {row})
    BY <2>1
  <2> DEFINE S == {cvs[j] : j \in 1..Len(cvs)} \cup {row}
             new == cvs'
  <2>3. new \in [1..Len(cvs) -> S]
    BY <2>1
  <2> HIDE DEF S, new
  <2>4. new \in Seq(S) /\ Len(new) = Len(cvs)
    BY <2>1, <2>3
  <2>5. IsSeq(new)
    BY <2>1, <2>3, <2>4 DEF IsSeq
  <2> QED
    BY <2>5 DEF new, IsSeq
<1> QED
  BY <1>1, <1>2 DEF Known

\* No document is inserted, and nobody begins to look or to upload.
LEMMA Quiet ==
  ASSUME CvInv, CvShape', Known' = Known, met' = met,
         \A g \in Handlers :
            /\ Searching(g)' => Searching(g)
            /\ runs'[g].pc = "upload" => runs[g].pc = "upload"
  PROVE  CvInv'
BY DEF CvInv, OneSearches, UploadsUnknown, OneKnown, Searching, Known

LEMMA NewCvKeeps ==
  ASSUME CvInv, NEW h \in Handlers, NEW status, NEW pc, NewCv(h, status, pc),
         Searching(h), met \/ Known = {}, pc \in {"finish", "ocr"}
  PROVE  CvInv'
<1> DEFINE e == [status |-> status, checksum |-> status = "pending", text |-> FALSE,
                 draft |-> "none", confirmed |-> FALSE]
           n == Len(cvs) + 1
<1>1. cvs' = Append(cvs, e) /\ met' = met
  BY DEF NewCv
<1>2. /\ IsSeq(cvs') /\ DOMAIN cvs' = 1..n /\ DOMAIN cvs = 1..(n - 1) /\ n \in Nat
      /\ \A i \in 1..(n - 1) : cvs'[i] = cvs[i]
      /\ cvs'[n] = e
  BY <1>1, Appended DEF CvInv, CvShape, IsSeq
<1>3. DOMAIN e = CvFields
  BY DEF CvFields
<1> HIDE DEF e
<1>4. \A i \in DOMAIN cvs' : i \in DOMAIN cvs \/ i = n
  BY <1>2
<1>5. \A i \in DOMAIN cvs' : DOMAIN cvs'[i] = CvFields
  BY <1>2, <1>3, <1>4 DEF CvInv, CvShape
<1>6. Known' \subseteq Known \cup {n}
  BY <1>2, <1>4 DEF Known
<1>7. /\ DOMAIN runs' = Handlers /\ runs'[h].pc = pc
      /\ \A g \in Handlers : DOMAIN runs'[g] = RunFields
      /\ \A g \in Handlers \ {h} : runs'[g] = runs[g]
  BY RunMoves DEF NewCv, CvInv
<1> QED
  BY <1>1, <1>2, <1>5, <1>6, <1>7
     DEF CvInv, CvShape, OneSearches, UploadsUnknown, OneKnown, Searching

LEMMA PipelineKeeps ==
  ASSUME CvInv, NEW h \in Handlers, PipelineStep(h)
  PROVE  CvInv'
<1> USE DEF Searching
<1>1. CASE FindDuplicate(h)
  <2>1. \E s : Ends(h, s) /\ UNCHANGED <<mail, cvs, met>>
    BY <1>1 DEF FindDuplicate
  <2>2. /\ DOMAIN runs' = Handlers /\ runs'[h].pc = "finish"
        /\ \A g \in Handlers : DOMAIN runs'[g] = RunFields
        /\ \A g \in Handlers \ {h} : runs'[g] = runs[g]
    BY <2>1, RunMoves DEF CvInv
  <2> QED
    BY <2>1, <2>2, Quiet DEF CvInv, CvShape, IsSeq, Known
<1>2. CASE SkipFile(h)
  BY <1>2, NewCvKeeps DEF SkipFile
<1>3. CASE UploadFails(h) \/ InsertCv(h)
  <2>1. runs[h].pc = "upload" /\ (met \/ Known = {})
    BY <1>3 DEF UploadFails, InsertCv, CvInv, UploadsUnknown
  <2> QED
    BY <1>3, <2>1, NewCvKeeps DEF UploadFails, InsertCv
<1>4. CASE BeginUpload(h)
  <2>1. /\ DOMAIN runs' = Handlers /\ runs'[h].pc = "upload"
        /\ \A g \in Handlers : DOMAIN runs'[g] = RunFields
        /\ \A g \in Handlers \ {h} : runs'[g] = runs[g]
    BY <1>4, RunMoves DEF BeginUpload, CvInv
  <2>2. runs[h].pc = "lookup" /\ Known = {} /\ cvs' = cvs /\ met' = met
    BY <1>4 DEF BeginUpload
  <2> QED
    BY <2>1, <2>2
       DEF CvInv, CvShape, IsSeq, Known, OneSearches, UploadsUnknown, OneKnown
<1>5. ASSUME NEW from, NEW to, NEW row, Advance(h, from, to, row),
             from \notin {"lookup", "upload"}, to \notin {"lookup", "upload"},
             runs[h].cv \in DOMAIN cvs =>
                DOMAIN row = CvFields /\ row.checksum = Row(h).checksum
      PROVE  CvInv'
  <2>1. /\ DOMAIN runs' = Handlers /\ runs'[h].pc = to
        /\ \A g \in Handlers : DOMAIN runs'[g] = RunFields
        /\ \A g \in Handlers \ {h} : runs'[g] = runs[g]
    BY <1>5, RunMoves DEF Advance, CvInv
  <2>2. /\ IsSeq(cvs') /\ \A j \in DOMAIN cvs' : DOMAIN cvs'[j] = CvFields
        /\ Known' = Known
    BY <1>5, RowChanges DEF Advance, Writes, Row, CvInv
  <2>3. met' = met /\ CvShape'
    BY <1>5, <2>1, <2>2 DEF Advance, CvShape
  <2> QED
    BY <1>5, <2>1, <2>2, <2>3, Quiet
<1>6. runs[h].cv \in DOMAIN cvs => DOMAIN Row(h) = CvFields
  BY DEF CvInv, CvShape, Row
<1>7. CASE StartOcr(h)
  BY <1>5, <1>6, <1>7 DEF StartOcr, CvFields
<1>8. CASE OcrAnswers(h)
  BY <1>5, <1>6, <1>8 DEF OcrAnswers, CvFields
<1>9. CASE \E short \in BOOLEAN : OcrFails(h, short)
  <2>1. PICK short \in BOOLEAN : OcrFails(h, short)
    BY <1>9
  <2> DEFINE row == [Row(h) EXCEPT !.status = "failed", !.text = short]
  <2>2. runs[h].cv \in DOMAIN cvs => DOMAIN row = CvFields /\ row.checksum = Row(h).checksum
    BY <1>6 DEF CvFields
  <2>3. Advance(h, "reading", "finish", row)
    BY <2>1 DEF OcrFails
  <2> HIDE DEF row
  <2> QED
    BY <1>5, <2>2, <2>3
<1>10. CASE StartParse(h)
  BY <1>5, <1>6, <1>10 DEF StartParse, CvFields
<1>11. CASE ParseAnswers(h)
  BY <1>5, <1>6, <1>11 DEF ParseAnswers, CvFields
<1>12. CASE ParseFails(h)
  BY <1>5, <1>6, <1>12 DEF ParseFails, CvFields
<1>13. CASE \E s \in CvStatus : RouteDraft(h, s)
  BY <1>5, <1>6, <1>13 DEF RouteDraft, CvFields
<1> QED
  BY <1>1, <1>2, <1>3, <1>4, <1>7, <1>8, <1>9, <1>10, <1>11, <1>12, <1>13 DEF PipelineStep

LEMMA ProcessKeeps ==
  ASSUME CvInv, NEW h \in Handlers, ProcessStep(h) \/ LoseHandler(h)
  PROVE  CvInv'
<1> USE DEF Searching
<1>1. ASSUME NEW pc, cvs' = cvs, met' = met, pc \notin {"lookup", "upload"},
             DOMAIN runs' = Handlers, runs'[h].pc = pc,
             \A g \in Handlers : DOMAIN runs'[g] = RunFields,
             \A g \in Handlers \ {h} : runs'[g] = runs[g]
      PROVE  CvInv'
  <2>1. CvShape' /\ Known' = Known
    BY <1>1 DEF CvInv, CvShape, IsSeq, Known
  <2> QED
    BY <1>1, <2>1, Quiet
<1>2. CASE AskProcessing(h)
  <2>1. Goes(h, "asked") /\ cvs' = cvs /\ met' = met
    BY <1>2 DEF AskProcessing
  <2>2. /\ DOMAIN runs' = Handlers /\ runs'[h].pc = "asked"
        /\ \A g \in Handlers : DOMAIN runs'[g] = RunFields
        /\ \A g \in Handlers \ {h} : runs'[g] = runs[g]
    BY <2>1, RunMoves DEF CvInv
  <2> QED
    BY <1>1, <2>1, <2>2
<1>3. CASE MarkEmail(h) \/ AutoProcess(h)
  <2>1. cvs' = cvs /\ met' = met /\ \E m : Enter(h, m)
    BY <1>3 DEF MarkEmail, AutoProcess, Enter
  <2>2. \E m : runs' = [runs EXCEPT ![h] = [NoRun EXCEPT !.pc = "fetch", !.marks = m]]
    BY <2>1 DEF Enter
  <2>3. /\ DOMAIN runs' = Handlers /\ runs'[h].pc = "fetch"
        /\ \A g \in Handlers : DOMAIN runs'[g] = RunFields
        /\ \A g \in Handlers \ {h} : runs'[g] = runs[g]
    BY <2>2, RunMoves DEF CvInv
  <2> QED
    BY <1>1, <2>1, <2>3
<1>4. CASE \/ NothingFetched(h) \/ FinishProcessing(h) \/ LoseHandler(h)
           \/ \E s \in {"needs_review", "classified"} : AbandonProcessing(h, s)
  <2>1. cvs' = cvs /\ met' = met /\ Stops(h)
    BY <1>4 DEF NothingFetched, FinishProcessing, LoseHandler, AbandonProcessing
  <2>2. /\ DOMAIN runs' = Handlers /\ runs'[h].pc = "idle"
        /\ \A g \in Handlers : DOMAIN runs'[g] = RunFields
        /\ \A g \in Handlers \ {h} : runs'[g] = runs[g]
    BY <2>1, RunMoves DEF CvInv
  <2> QED
    BY <1>1, <2>1, <2>2
<1>5. CASE FetchAttachments(h)
  <2>1. /\ DOMAIN runs' = Handlers /\ runs'[h].pc = "lookup"
        /\ \A g \in Handlers : DOMAIN runs'[g] = RunFields
        /\ \A g \in Handlers \ {h} : runs'[g] = runs[g]
    BY <1>5, RunMoves DEF FetchAttachments, CvInv
  <2>2. cvs' = cvs /\ met' = (met \/ \E o \in Handlers \ {h} : Searching(o))
    BY <1>5 DEF FetchAttachments
  <2>3. CvShape' /\ Known' = Known
    BY <2>1, <2>2 DEF CvInv, CvShape, IsSeq, Known
  <2>4. CASE met'
    BY <2>3, <2>4 DEF CvInv
  <2>5. CASE ~met'
    <3>1. ~met /\ \A o \in Handlers \ {h} : ~Searching(o)
      BY <2>2, <2>5
    <3>2. OneSearches'
      BY <2>1, <3>1 DEF OneSearches
    <3>3. UploadsUnknown'
      BY <2>1, <2>3, <3>1 DEF CvInv, UploadsUnknown
    <3>4. OneKnown'
      BY <2>3, <3>1 DEF CvInv, OneKnown
    <3> QED
      BY <2>3, <3>2, <3>3, <3>4 DEF CvInv
  <2> QED
    BY <2>4, <2>5
<1> QED
  BY <1>2, <1>3, <1>4, <1>5 DEF ProcessStep

LEMMA ReviewKeeps ==
  ASSUME CvInv, NEW h \in Handlers, ReviewStep(h)
  PROVE  CvInv'
<1> USE DEF Searching
<1>1. ASSUME NEW pc, met' = met, pc \notin {"lookup", "upload"},
             DOMAIN runs' = Handlers, runs'[h].pc = pc,
             \A g \in Handlers : DOMAIN runs'[g] = RunFields,
             \A g \in Handlers \ {h} : runs'[g] = runs[g],
             NEW i, NEW row, cvs' = [cvs EXCEPT ![i] = row],
             i \in DOMAIN cvs => DOMAIN row = CvFields /\ row.checksum = cvs[i].checksum
      PROVE  CvInv'
  <2>1. /\ IsSeq(cvs') /\ \A j \in DOMAIN cvs' : DOMAIN cvs'[j] = CvFields
        /\ Known' = Known
    BY <1>1, RowChanges DEF CvInv
  <2>2. CvShape'
    BY <1>1, <2>1 DEF CvShape
  <2> QED
    BY <1>1, <2>1, <2>2, Quiet
<1>2. ASSUME NEW i \in DOMAIN cvs, BeginRetry(h, i)
      PROVE  CvInv'
  <2> DEFINE row == [cvs[i] EXCEPT !.status = "llm_parsing"]
  <2>1. /\ met' = met /\ cvs' = [cvs EXCEPT ![i] = row]
        /\ runs' = [runs EXCEPT ![h] =
                        [NoRun EXCEPT !.pc = "retry", !.cv = i, !.saw = cvs[i].confirmed]]
    BY <1>2 DEF BeginRetry
  <2>2. DOMAIN row = CvFields /\ row.checksum = cvs[i].checksum
    BY DEF CvInv, CvShape, CvFields
  <2>3. /\ DOMAIN runs' = Handlers /\ runs'[h].pc = "retry"
        /\ \A g \in Handlers : DOMAIN runs'[g] = RunFields
        /\ \A g \in Handlers \ {h} : runs'[g] = runs[g]
    BY <2>1 DEF CvInv, CvShape, RunFields, NoRun
  <2> HIDE DEF row
  <2> QED
    BY <1>1, <2>1, <2>2, <2>3
<1>3. ASSUME NEW i \in DOMAIN cvs, SubmitCorrection(h, i)
      PROVE  CvInv'
  <2> DEFINE row == [cvs[i] EXCEPT !.draft = "hr", !.confirmed = TRUE]
  <2>1. /\ met' = met /\ cvs' = [cvs EXCEPT ![i] = row]
        /\ runs' = [runs EXCEPT ![h] =
                [NoRun EXCEPT !.pc = "correct", !.cv = i, !.saw = cvs[i].status = "completed"]]
    BY <1>3 DEF SubmitCorrection
  <2>2. DOMAIN row = CvFields /\ row.checksum = cvs[i].checksum
    BY DEF CvInv, CvShape, CvFields
  <2>3. /\ DOMAIN runs' = Handlers /\ runs'[h].pc = "correct"
        /\ \A g \in Handlers : DOMAIN runs'[g] = RunFields
        /\ \A g \in Handlers \ {h} : runs'[g] = runs[g]
    BY <2>1 DEF CvInv, CvShape, RunFields, NoRun
  <2> HIDE DEF row
  <2> QED
    BY <1>1, <2>1, <2>2, <2>3
<1>4. ASSUME NEW row, Writes(h, row), Stops(h), met' = met,
             runs[h].cv \in DOMAIN cvs =>
                DOMAIN row = CvFields /\ row.checksum = Row(h).checksum
      PROVE  CvInv'
  <2>1. /\ DOMAIN runs' = Handlers /\ runs'[h].pc = "idle"
        /\ \A g \in Handlers : DOMAIN runs'[g] = RunFields
        /\ \A g \in Handlers \ {h} : runs'[g] = runs[g]
    BY <1>4, RunMoves DEF CvInv
  <2>2. cvs' = [cvs EXCEPT ![runs[h].cv] = row]
    BY <1>4 DEF Writes
  <2> QED
    BY <1>1, <1>4, <2>1, <2>2 DEF Row
<1>5. runs[h].cv \in DOMAIN cvs => DOMAIN Row(h) = CvFields
  BY DEF CvInv, CvShape, Row
<1>6. CASE \E s \in CvStatus : RetryAnswers(h, s)
  <2>1. PICK s \in CvStatus : RetryAnswers(h, s)
    BY <1>6
  <2> DEFINE row == [Row(h) EXCEPT !.status = s,
                                   !.draft = IF runs[h].saw THEN "hr" ELSE "model"]
  <2>2. runs[h].cv \in DOMAIN cvs => DOMAIN row = CvFields /\ row.checksum = Row(h).checksum
    BY <1>5 DEF CvFields
  <2>3. Writes(h, row) /\ Stops(h) /\ met' = met
    BY <2>1 DEF RetryAnswers
  <2> HIDE DEF row
  <2> QED
    BY <1>4, <2>2, <2>3
<1>7. CASE \E s \in CvStatus : RetryFails(h, s)
  BY <1>4, <1>5, <1>7 DEF RetryFails, CvFields
<1>8. CASE CompleteCorrection(h)
  BY <1>4, <1>5, <1>8 DEF CompleteCorrection, CvFields
<1> QED
  BY <1>2, <1>3, <1>6, <1>7, <1>8 DEF ReviewStep

LEMMA CvNextKeeps ==
  ASSUME CvInv, [CvNext]_cvVars
  PROVE  CvInv'
<1>1. CASE ResetStuck \/ Reclassify \/ UNCHANGED cvVars
  <2>1. UNCHANGED <<cvs, runs, met>>
    BY <1>1 DEF ResetStuck, Reclassify, cvVars
  <2> QED
    BY <2>1 DEF CvInv, CvShape, IsSeq, OneSearches, UploadsUnknown, OneKnown, Known, Searching
<1>2. ASSUME NEW i \in DOMAIN cvs, Dismiss(i)
      PROVE  CvInv'
  <2> DEFINE row == [cvs[i] EXCEPT !.status = "dismissed"]
  <2>1. /\ cvs' = [cvs EXCEPT ![i] = row] /\ runs' = runs /\ met' = met
        /\ DOMAIN row = CvFields /\ row.checksum = cvs[i].checksum
    BY <1>2 DEF Dismiss, CvInv, CvShape, CvFields
  <2> HIDE DEF row
  <2>2. /\ IsSeq(cvs') /\ \A j \in DOMAIN cvs' : DOMAIN cvs'[j] = CvFields
        /\ Known' = Known
    BY <2>1, RowChanges DEF CvInv
  <2> QED
    BY <2>1, <2>2, Quiet DEF CvInv, CvShape, Searching
<1> QED
  BY <1>1, <1>2, PipelineKeeps, ProcessKeeps, ReviewKeeps DEF CvNext

THEOREM PipelineInductive == CvSpec => []CvInv
<1> QED
  BY CvStarts, CvNextKeeps, PTL DEF CvSpec

LEMMA AtMostOne ==
  ASSUME NEW S, NEW x, S \subseteq {x}
  PROVE  Cardinality(S) <= 1
<1>1. IsFiniteSet({x}) /\ Cardinality({x}) = 1
  BY FS_Singleton
<1>2. Cardinality(S) <= Cardinality({x})
  BY <1>1, FS_Subset
<1> QED
  BY <1>1, <1>2

\* A file becomes one document as long as no two runs overlap between the look-up
\* of its checksum and the insert.
THEOREM FileIsProcessedOnce == CvSpec => []OneDocumentPerFile
<1>1. CvInv => OneDocumentPerFile
  BY AtMostOne DEF CvInv, OneKnown, OneDocumentPerFile
<1> QED
  BY <1>1, PipelineInductive, PTL

-------------------------------------------------------------------------------
(* The calendar *)

OptionalEtag == Nat \cup {None}
OptionalStart == Starts \cup {None}

CallRecords ==
    [pc : {"idle", "reschedule", "overwrite", "moved", "overwritten", "capture", "keep"},
     start : OptionalStart, etag : OptionalEtag, conflict : Nat \cup {None},
     had : OptionalStart, vouched : OptionalEtag]

ConflictRecords ==
    [status : {"unresolved", "keep_google", "overwrite_vroom"}, live : BOOLEAN,
     etag : OptionalEtag, start : OptionalStart]

CalendarTyped ==
    /\ event \in [version : Nat, start : OptionalStart, live : BOOLEAN, unseen : BOOLEAN]
    /\ interview \in [status : {"none", "scheduled", "cancelled"},
                      start : OptionalStart, etag : OptionalEtag]
    /\ conflicts \in Seq(ConflictRecords)
    /\ calls \in [Handlers -> CallRecords]
    /\ crossed \in BOOLEAN

\* No etag is ahead of the event.
EtagsKnown ==
    /\ interview.etag # None => interview.etag <= event.version
    /\ \A h \in Handlers : calls[h].etag # None => calls[h].etag <= event.version
    /\ \A i \in DOMAIN conflicts :
        conflicts[i].etag # None => conflicts[i].etag <= event.version

\* A snapshot with the event's etag is the event.
SnapshotsTrue ==
    \A i \in DOMAIN conflicts :
        conflicts[i].etag = event.version => conflicts[i].start = event.start

\* Nothing happens before the booking, and a resolution has a conflict to resolve.
CallsGrounded ==
    /\ interview.status = "none" =>
        /\ event.version = 0 /\ ~event.live
        /\ conflicts = << >> /\ \A h \in Handlers : calls[h].pc = "idle"
    /\ \A h \in Handlers :
        calls[h].pc \in {"keep", "overwrite", "overwritten"} =>
            calls[h].conflict \in DOMAIN conflicts

Racing(c) == c.pc \in {"reschedule", "moved", "capture"} /\ c.etag # None

\* Only moves that have an etag run beside each other.
OnlyMovesRace ==
    \A g, h \in Handlers :
        g # h /\ calls[g].pc # "idle" /\ calls[h].pc # "idle" => Racing(calls[g])

OneMoved == \A g, h \in Handlers : calls[g].pc = "moved" /\ calls[h].pc = "moved" => g = h

\* What a call has read is still so, unless its etag has been overtaken; what it
\* has written to the event is there, unless the event has moved on.
ReadsHold(c) ==
    /\ c.pc = "reschedule" /\ c.etag = None => c.had = interview.start
    /\ c.pc = "reschedule" /\ c.etag # None =>
        /\ interview.etag # None /\ c.etag <= interview.etag
        /\ c.etag = interview.etag => c.had = interview.start
    /\ c.pc = "moved" =>
        /\ c.had = interview.start
        /\ interview.etag # None => interview.etag < c.etag
    /\ c.pc = "keep" => c.had = interview.start /\ c.vouched = interview.etag
    /\ c.pc \in {"overwrite", "overwritten"} => c.start = interview.start
    /\ c.pc \in {"moved", "overwritten"} =>
        c.etag # None /\ (c.etag = event.version => c.start = event.start)

\* EtagVouches, where calls do not cross.
Vouched == interview.etag = event.version => interview.start = event.start

Uncrossed ==
    /\ OnlyMovesRace /\ OneMoved /\ Vouched
    /\ \A h \in Handlers : ReadsHold(calls[h])

CalendarInv ==
    /\ CalendarTyped /\ EtagsKnown /\ SnapshotsTrue /\ CallsGrounded
    /\ ~crossed => Uncrossed

LEMMA NoCallTyped == NoCall \in CallRecords
BY DEF NoCall, CallRecords, OptionalStart, OptionalEtag

LEMMA CalendarStarts == CalendarInit => CalendarInv
<1> SUFFICES ASSUME CalendarInit PROVE CalendarInv
  OBVIOUS
<1>1. \A h \in Handlers : calls[h] = NoCall /\ calls[h].pc = "idle" /\ calls[h].etag = None
  BY DEF CalendarInit, NoCall
<1>2. CalendarTyped
  <2>1. calls \in [Handlers -> CallRecords]
    BY NoCallTyped DEF CalendarInit
  <2>2. conflicts \in Seq(ConflictRecords)
    BY DEF CalendarInit
  <2> QED
    BY <2>1, <2>2 DEF CalendarInit, CalendarTyped, OptionalStart, OptionalEtag
<1>3. EtagsKnown /\ SnapshotsTrue /\ CallsGrounded
  BY <1>1 DEF CalendarInit, EtagsKnown, SnapshotsTrue, CallsGrounded
<1>4. Uncrossed
  BY <1>1 DEF CalendarInit, Uncrossed, OnlyMovesRace, OneMoved, Vouched, ReadsHold
<1> QED
  BY <1>2, <1>3, <1>4 DEF CalendarInv

\* What one handler does to its call.
LEMMA CalendarCall ==
  ASSUME CalendarInv, NEW h \in Handlers, NEW call \in CallRecords,
         calls' = [calls EXCEPT ![h] = call]
  PROVE  /\ calls' \in [Handlers -> CallRecords]
         /\ calls'[h] = call
         /\ \A g \in Handlers \ {h} : calls'[g] = calls[g]
BY DEF CalendarInv, CalendarTyped

LEMMA EtagsTyped ==
  ASSUME CalendarTyped
  PROVE  /\ interview.etag \in OptionalEtag /\ interview.start \in OptionalStart
         /\ event.version \in Nat /\ event.start \in OptionalStart
         /\ \A h \in Handlers : calls[h] \in CallRecords /\ calls[h].etag \in OptionalEtag
         /\ \A i \in DOMAIN conflicts :
                conflicts[i] \in ConflictRecords /\ conflicts[i].etag \in OptionalEtag
<1>1. \A h \in Handlers : calls[h] \in CallRecords
  BY DEF CalendarTyped
<1>2. \A i \in DOMAIN conflicts : conflicts[i] \in ConflictRecords
  BY DEF CalendarTyped
<1>3. \A c \in CallRecords : c.etag \in OptionalEtag
  BY DEF CallRecords
<1>4. \A c \in ConflictRecords : c.etag \in OptionalEtag
  BY DEF ConflictRecords
<1> QED
  BY <1>1, <1>2, <1>3, <1>4 DEF CalendarTyped

LEMMA BookKeeps ==
  ASSUME CalendarInv, NEW s \in Starts, NEW e \in {None, 1}, Book(s, e)
  PROVE  CalendarInv'
<1>1. /\ event.version = 0
      /\ conflicts = << >> /\ \A h \in Handlers : calls[h].pc = "idle"
      /\ event' = [version |-> 1, start |-> s, live |-> TRUE, unseen |-> FALSE]
      /\ interview' = [status |-> "scheduled", start |-> s, etag |-> e]
      /\ conflicts' = conflicts /\ calls' = calls /\ crossed' = crossed
  BY DEF Book, CalendarInv, CallsGrounded
<1>2. CalendarTyped'
  BY <1>1 DEF CalendarInv, CalendarTyped, OptionalStart, OptionalEtag
<1>3. \A h \in Handlers : calls[h].etag # None => calls[h].etag \in Nat /\ calls[h].etag <= 0
  BY <1>1 DEF CalendarInv, CalendarTyped, CallRecords, OptionalEtag, EtagsKnown
<1>4. EtagsKnown' /\ SnapshotsTrue' /\ CallsGrounded'
  BY <1>1, <1>3, NoneIsNoEtag DEF EtagsKnown, SnapshotsTrue, CallsGrounded
<1>5. Uncrossed'
  BY <1>1 DEF Uncrossed, OnlyMovesRace, OneMoved, Vouched, ReadsHold
<1> QED
  BY <1>2, <1>4, <1>5 DEF CalendarInv

\* The event moves on: whatever vouched for it before does no longer.
LEMMA EventMovesOn ==
  ASSUME CalendarInv, NEW start \in OptionalStart, NEW live \in BOOLEAN, NEW unseen \in BOOLEAN,
         event' = [version |-> event.version + 1, start |-> start, live |-> live, unseen |-> unseen]
  PROVE  /\ event' \in [version : Nat, start : OptionalStart, live : BOOLEAN, unseen : BOOLEAN]
         /\ event'.version = event.version + 1 /\ event'.start = start
         /\ \A e \in OptionalEtag :
                e # None /\ e <= event.version => e <= event'.version /\ e # event'.version
         /\ None # event'.version
BY NoneIsNoEtag DEF CalendarInv, CalendarTyped, OptionalEtag

LEMMA EditKeeps ==
  ASSUME CalendarInv, NEW s \in Starts, NEW live \in BOOLEAN, EditOnGoogle(s, live)
  PROVE  CalendarInv'
<1>1. /\ event.live
      /\ event' = [version |-> event.version + 1, start |-> s, live |-> live, unseen |-> TRUE]
      /\ interview' = interview /\ conflicts' = conflicts /\ calls' = calls /\ crossed' = crossed
  BY DEF EditOnGoogle
<1>2. /\ event' \in [version : Nat, start : OptionalStart, live : BOOLEAN, unseen : BOOLEAN]
      /\ \A e \in OptionalEtag :
            e # None /\ e <= event.version => e <= event'.version /\ e # event'.version
      /\ None # event'.version
  BY <1>1, EventMovesOn DEF OptionalStart
<1>3. /\ interview.etag \in OptionalEtag
      /\ \A h \in Handlers : calls[h].etag \in OptionalEtag
      /\ \A i \in DOMAIN conflicts : conflicts[i].etag \in OptionalEtag
  BY EtagsTyped DEF CalendarInv
<1>4. CalendarTyped'
  BY <1>1, <1>2 DEF CalendarInv, CalendarTyped
<1>5. EtagsKnown' /\ SnapshotsTrue'
  BY <1>1, <1>2, <1>3 DEF CalendarInv, EtagsKnown, SnapshotsTrue
<1>6. CallsGrounded'
  BY <1>1 DEF CalendarInv, CallsGrounded
<1>7. ASSUME ~crossed' PROVE Uncrossed'
  <2>1. OnlyMovesRace' /\ OneMoved'
    BY <1>1, <1>7 DEF CalendarInv, Uncrossed, OnlyMovesRace, OneMoved, Racing
  <2>2. Vouched'
    BY <1>1, <1>2, <1>3 DEF CalendarInv, EtagsKnown, Vouched
  <2>3. ASSUME NEW h \in Handlers PROVE ReadsHold(calls[h])'
    BY <1>1, <1>2, <1>3, <1>7 DEF CalendarInv, Uncrossed, EtagsKnown, ReadsHold
  <2> QED
    BY <2>1, <2>2, <2>3 DEF Uncrossed
<1> QED
  BY <1>4, <1>5, <1>6, <1>7 DEF CalendarInv

\* A handler loads the row and begins a call.
LEMMA LoadKeeps ==
  ASSUME CalendarInv, NEW h \in Handlers, NEW call \in CallRecords, LoadRow(h, call),
         interview.status # "none",
         UNCHANGED <<event, interview, conflicts>>,
         call.pc \in {"reschedule", "keep", "overwrite"},
         call.pc \in {"keep", "overwrite"} => call.conflict \in DOMAIN conflicts,
         call.pc = "reschedule" => call.etag = interview.etag,
         call.pc = "overwrite" => call.start = interview.start,
         call.etag # None => call.etag <= event.version
  PROVE  CalendarInv'
<1> DEFINE row == [call EXCEPT !.had = interview.start, !.vouched = interview.etag]
<1>1. /\ row \in CallRecords /\ row.pc = call.pc /\ row.start = call.start
      /\ row.etag = call.etag /\ row.conflict = call.conflict
      /\ row.had = interview.start /\ row.vouched = interview.etag
  BY EtagsTyped DEF CalendarInv, CallRecords
<1>2. /\ calls[h] = NoCall /\ calls' = [calls EXCEPT ![h] = row]
      /\ crossed' = (crossed \/ \E o \in Handlers \ {h} :
            /\ calls[o] # NoCall
            /\ \E c \in {calls[o], call} : c.pc # "reschedule" \/ c.etag = None)
  BY DEF LoadRow
<1> HIDE DEF row
<1>3. /\ calls' \in [Handlers -> CallRecords]
      /\ calls'[h] = row
      /\ \A g \in Handlers \ {h} : calls'[g] = calls[g]
  BY <1>1, <1>2, CalendarCall
<1>4. event' = event /\ interview' = interview /\ conflicts' = conflicts
  OBVIOUS
<1>5. CalendarTyped'
  BY <1>2, <1>3, <1>4 DEF CalendarInv, CalendarTyped
<1>6. EtagsKnown' /\ SnapshotsTrue'
  BY <1>1, <1>3, <1>4 DEF CalendarInv, EtagsKnown, SnapshotsTrue
<1>7. CallsGrounded'
  BY <1>1, <1>3, <1>4 DEF CalendarInv, CallsGrounded
<1>8. ASSUME ~crossed' PROVE Uncrossed'
  <2>1. /\ ~crossed
        /\ \A o \in Handlers \ {h} : calls[o].pc # "idle" =>
                /\ calls[o].pc = "reschedule" /\ calls[o].etag # None
                /\ call.pc = "reschedule" /\ call.etag # None
    <3>1. ASSUME NEW o \in Handlers \ {h}, calls[o].pc # "idle" PROVE calls[o] # NoCall
      BY <3>1 DEF NoCall
    <3>2. ASSUME NEW o \in Handlers \ {h}, calls[o] # NoCall
          PROVE  \A c \in {calls[o], call} : c.pc = "reschedule" /\ c.etag # None
      BY <1>2, <1>8, <3>2
    <3> QED
      BY <1>2, <1>8, <3>1, <3>2
  <2>2. Uncrossed
    BY <2>1 DEF CalendarInv
  <2>3. OnlyMovesRace'
    BY <1>1, <1>3, <2>1, <2>2 DEF Uncrossed, OnlyMovesRace, Racing
  <2>4. OneMoved' /\ Vouched'
    BY <1>1, <1>3, <1>4, <2>2 DEF Uncrossed, OneMoved, Vouched
  <2>5. ReadsHold(calls[h])'
    <3>1. interview.etag # None => interview.etag \in Nat
      BY EtagsTyped DEF CalendarInv, OptionalEtag
    <3> QED
      BY <1>1, <1>3, <1>4, <3>1 DEF ReadsHold
  <2>6. ASSUME NEW g \in Handlers \ {h} PROVE ReadsHold(calls[g])'
    BY <1>3, <1>4, <2>2 DEF Uncrossed, ReadsHold
  <2> QED
    BY <2>3, <2>4, <2>5, <2>6 DEF Uncrossed
<1> QED
  BY <1>5, <1>6, <1>7, <1>8 DEF CalendarInv

\* A call that gives up, or turns from a PATCH that lost to its conflict.
LEMMA GivesUpKeeps ==
  ASSUME CalendarInv, NEW h \in Handlers, CallFails(h) \/ PatchLoses(h)
  PROVE  CalendarInv'
<1> DEFINE row == IF CallFails(h) THEN NoCall ELSE [calls[h] EXCEPT !.pc = "capture"]
<1>1. /\ row \in CallRecords
      /\ \/ row = NoCall
         \/ row.pc = "capture" /\ row.etag = calls[h].etag /\ row.etag # None
                /\ calls[h].pc \in {"reschedule", "overwrite"}
  BY NoCallTyped, EtagsTyped DEF PatchLoses, Matches, CalendarInv, CallRecords
<1>2. /\ calls' = [calls EXCEPT ![h] = row]
      /\ event' = event /\ interview' = interview /\ conflicts' = conflicts /\ crossed' = crossed
  BY DEF CallFails, PatchLoses, EndCall
<1> HIDE DEF row
<1>3. /\ calls' \in [Handlers -> CallRecords]
      /\ calls'[h] = row
      /\ \A g \in Handlers \ {h} : calls'[g] = calls[g]
  BY <1>1, <1>2, CalendarCall
<1>4. NoCall.pc = "idle" /\ NoCall.etag = None
  BY DEF NoCall
<1>5. CalendarTyped'
  BY <1>2, <1>3 DEF CalendarInv, CalendarTyped
<1>6. EtagsKnown' /\ SnapshotsTrue'
  BY <1>1, <1>2, <1>3, <1>4 DEF CalendarInv, EtagsKnown, SnapshotsTrue
<1>7. CallsGrounded'
  BY <1>1, <1>2, <1>3, <1>4 DEF CalendarInv, CallsGrounded
<1>8. ASSUME ~crossed' PROVE Uncrossed'
  <2>1. Uncrossed
    BY <1>2, <1>8 DEF CalendarInv
  <2>2. OnlyMovesRace'
    BY <1>1, <1>3, <1>4, <2>1 DEF Uncrossed, OnlyMovesRace, Racing
  <2>3. OneMoved' /\ Vouched'
    BY <1>1, <1>2, <1>3, <1>4, <2>1 DEF Uncrossed, OneMoved, Vouched
  <2>4. ReadsHold(calls[h])'
    BY <1>1, <1>3, <1>4 DEF ReadsHold
  <2>5. ASSUME NEW g \in Handlers \ {h} PROVE ReadsHold(calls[g])'
    BY <1>2, <1>3, <2>1 DEF Uncrossed, ReadsHold
  <2> QED
    BY <2>2, <2>3, <2>4, <2>5 DEF Uncrossed
<1> QED
  BY <1>5, <1>6, <1>7, <1>8 DEF CalendarInv

LEMMA PatchKeeps ==
  ASSUME CalendarInv, NEW h \in Handlers, NEW answered \in BOOLEAN, PatchApplied(h, answered)
  PROVE  CalendarInv'
<1> DEFINE c == calls[h]
           moved == IF c.pc = "reschedule" THEN "moved" ELSE "overwritten"
           row == IF answered THEN [c EXCEPT !.pc = moved, !.etag = event.version + 1] ELSE c
<1>1. /\ c.pc \in {"reschedule", "overwrite"} /\ event.live
      /\ c.etag = None \/ c.etag = event.version
      /\ interview' = interview /\ conflicts' = conflicts /\ crossed' = crossed
  BY DEF PatchApplied, Matches
<1>2. event' = [version |-> event.version + 1, start |-> c.start, live |-> event.live,
                unseen |-> FALSE]
  BY DEF PatchApplied, CalendarInv, CalendarTyped
<1>3. /\ c \in CallRecords /\ c.start \in OptionalStart /\ event.live \in BOOLEAN
      /\ event.version \in Nat /\ event.version + 1 # None
  BY NoneIsNoEtag DEF CalendarInv, CalendarTyped, CallRecords
<1>4. /\ event' \in [version : Nat, start : OptionalStart, live : BOOLEAN, unseen : BOOLEAN]
      /\ event'.version = event.version + 1 /\ event'.start = c.start
      /\ \A e \in OptionalEtag :
            e # None /\ e <= event.version => e <= event'.version /\ e # event'.version
      /\ None # event'.version
  BY <1>2, <1>3, EventMovesOn
<1>5. /\ row \in CallRecords /\ row.start = c.start /\ row.had = c.had
      /\ row.conflict = c.conflict
      /\ \/ row = c
         \/ row.pc = moved /\ row.etag = event.version + 1
  <2>1. moved \in {"moved", "overwritten"} /\ event.version + 1 \in OptionalEtag
    BY <1>3 DEF OptionalEtag
  <2>2. CASE answered
    BY <1>3, <2>1, <2>2 DEF CallRecords
  <2>3. CASE ~answered
    BY <1>3, <2>3
  <2> QED
    BY <2>2, <2>3
<1>6. calls' = [calls EXCEPT ![h] = row]
  <2>1. CASE answered
    <3>1. calls' = [calls EXCEPT ![h] =
                      [[calls[h] EXCEPT !.pc = moved] EXCEPT !.etag = event.version + 1]]
      BY <1>3, <2>1 DEF PatchApplied, CalendarInv, CalendarTyped
    <3> QED
      BY <2>1, <3>1
  <2>2. CASE ~answered
    BY <2>2 DEF PatchApplied, CalendarInv, CalendarTyped
  <2> QED
    BY <2>1, <2>2
<1> HIDE DEF row
<1>7. /\ calls' \in [Handlers -> CallRecords]
      /\ calls'[h] = row
      /\ \A g \in Handlers \ {h} : calls'[g] = calls[g]
  BY <1>5, <1>6, CalendarCall
<1>8. /\ interview.etag \in OptionalEtag
      /\ \A g \in Handlers : calls[g].etag \in OptionalEtag
      /\ \A i \in DOMAIN conflicts : conflicts[i].etag \in OptionalEtag
  BY EtagsTyped DEF CalendarInv
<1>9. CalendarTyped'
  BY <1>1, <1>4, <1>7 DEF CalendarInv, CalendarTyped
<1>10. EtagsKnown' /\ SnapshotsTrue'
  <2>1. ASSUME NEW g \in Handlers, calls'[g].etag # None
        PROVE  calls'[g].etag <= event'.version
    BY <1>3, <1>4, <1>5, <1>7, <1>8, <2>1 DEF CalendarInv, EtagsKnown
  <2> QED
    BY <1>1, <1>4, <1>8, <2>1 DEF CalendarInv, EtagsKnown, SnapshotsTrue
<1>11. CallsGrounded'
  BY <1>1, <1>5, <1>7 DEF CalendarInv, CallsGrounded
<1>12. ASSUME ~crossed' PROVE Uncrossed'
  <2>1. Uncrossed /\ ReadsHold(c)
    BY <1>1, <1>12 DEF CalendarInv, Uncrossed
  <2>2. OnlyMovesRace'
    BY <1>1, <1>3, <1>5, <1>7, <2>1 DEF Uncrossed, OnlyMovesRace, Racing
  <2>3. Vouched'
    BY <1>1, <1>4, <1>8 DEF CalendarInv, EtagsKnown, Vouched
  <2>4. ASSUME NEW g \in Handlers \ {h}, calls[g].pc = "moved" PROVE FALSE
    <3>1. c.pc = "reschedule" /\ c.etag # None
      BY <1>1, <2>1, <2>4 DEF Uncrossed, OnlyMovesRace, Racing
    <3>2. /\ interview.etag # None /\ event.version <= interview.etag
          /\ interview.etag < calls[g].etag /\ calls[g].etag # None
      BY <1>1, <2>1, <2>4, <3>1 DEF Uncrossed, ReadsHold
    <3>3. calls[g].etag <= event.version
      BY <3>2 DEF CalendarInv, EtagsKnown
    <3> QED
      BY <1>3, <1>8, <3>2, <3>3 DEF OptionalEtag
  <2>5. OneMoved'
    BY <1>7, <2>4 DEF OneMoved
  <2>6. ReadsHold(calls[h])'
    <3>1. CASE row = c
      BY <1>1, <1>4, <1>7, <2>1, <3>1 DEF ReadsHold
    <3>2. CASE row.pc = "moved" /\ row.etag = event.version + 1 /\ c.pc = "reschedule"
      <4>1. c.had = interview.start
        <5>1. CASE c.etag = None
          BY <2>1, <3>2, <5>1 DEF ReadsHold
        <5>2. CASE c.etag = event.version /\ c.etag # None
          <6>1. /\ interview.etag # None /\ c.etag <= interview.etag
                /\ c.etag = interview.etag => c.had = interview.start
            BY <2>1, <3>2, <5>2 DEF ReadsHold
          <6>2. interview.etag <= event.version
            BY <6>1 DEF CalendarInv, EtagsKnown
          <6> QED
            BY <1>3, <1>8, <5>2, <6>1, <6>2 DEF OptionalEtag
        <5> QED
          BY <1>1, <5>1, <5>2
      <4>2. interview.etag # None => interview.etag < event.version + 1
        BY <1>3, <1>8 DEF CalendarInv, EtagsKnown, OptionalEtag
      <4> QED
        BY <1>1, <1>3, <1>4, <1>5, <1>7, <3>2, <4>1, <4>2 DEF ReadsHold
    <3>3. CASE row.pc = "overwritten" /\ row.etag = event.version + 1 /\ c.pc = "overwrite"
      BY <1>1, <1>3, <1>4, <1>5, <1>7, <2>1, <3>3 DEF ReadsHold
    <3> QED
      BY <1>1, <1>5, <3>1, <3>2, <3>3
  <2>7. ASSUME NEW g \in Handlers \ {h} PROVE ReadsHold(calls[g])'
    <3>1. ReadsHold(calls[g])
      BY <2>1 DEF Uncrossed
    <3>2. calls[g].etag # event'.version
      BY <1>4, <1>8 DEF CalendarInv, EtagsKnown
    <3> QED
      BY <1>1, <1>7, <3>1, <3>2 DEF ReadsHold
  <2> QED
    BY <2>2, <2>3, <2>5, <2>6, <2>7 DEF Uncrossed
<1> QED
  BY <1>9, <1>10, <1>11, <1>12 DEF CalendarInv

\* A call that commits or stores a conflict is over.
LEMMA CallEnds ==
  ASSUME CalendarInv, NEW h \in Handlers, EndCall(h)
  PROVE  /\ calls' \in [Handlers -> CallRecords]
         /\ calls'[h].pc = "idle" /\ calls'[h].etag = None
         /\ \A g \in Handlers \ {h} : calls'[g] = calls[g]
BY NoCallTyped, CalendarCall DEF EndCall, NoCall

LEMMA CommitMoveKeeps ==
  ASSUME CalendarInv, NEW h \in Handlers, CommitMove(h)
  PROVE  CalendarInv'
<1> DEFINE c == calls[h]
           start == IF c.start = c.had THEN interview.start ELSE c.start
<1>1. /\ c.pc = "moved" /\ EndCall(h)
      /\ interview' = [interview EXCEPT !.start = start, !.etag = c.etag]
      /\ event' = event /\ conflicts' = conflicts /\ crossed' = crossed
  BY DEF CommitMove
<1>2. c \in CallRecords /\ c.etag \in OptionalEtag /\ start \in OptionalStart
  BY EtagsTyped DEF CalendarInv, CallRecords
<1> HIDE DEF start
<1>3. /\ interview' \in [status : {"none", "scheduled", "cancelled"},
                         start : OptionalStart, etag : OptionalEtag]
      /\ interview'.status = interview.status
      /\ interview'.start = start /\ interview'.etag = c.etag
  BY <1>1, <1>2 DEF CalendarInv, CalendarTyped
<1>4. /\ calls' \in [Handlers -> CallRecords]
      /\ calls'[h].pc = "idle" /\ calls'[h].etag = None
      /\ \A g \in Handlers \ {h} : calls'[g] = calls[g]
  BY <1>1, CallEnds
<1>5. CalendarTyped'
  BY <1>1, <1>3, <1>4 DEF CalendarInv, CalendarTyped
<1>6. EtagsKnown' /\ SnapshotsTrue'
  BY <1>1, <1>3, <1>4 DEF CalendarInv, EtagsKnown, SnapshotsTrue
<1>7. CallsGrounded'
  BY <1>1, <1>3, <1>4 DEF CalendarInv, CallsGrounded
<1>8. ASSUME ~crossed' PROVE Uncrossed'
  <2>1. Uncrossed /\ ReadsHold(c)
    BY <1>1, <1>8 DEF CalendarInv, Uncrossed
  <2>2. start = c.start /\ c.etag # None
        /\ (c.etag = event.version => c.start = event.start)
        /\ (interview.etag # None => interview.etag < c.etag)
    BY <1>1, <2>1 DEF ReadsHold, start
  <2>3. OnlyMovesRace' /\ OneMoved'
    BY <1>4, <2>1 DEF Uncrossed, OnlyMovesRace, OneMoved, Racing
  <2>4. Vouched'
    BY <1>1, <1>3, <2>2 DEF Vouched
  <2>5. ReadsHold(calls[h])'
    BY <1>4 DEF ReadsHold
  <2>6. ASSUME NEW g \in Handlers \ {h} PROVE ReadsHold(calls[g])'
    <3>1. calls[g].pc # "idle" => Racing(calls[g]) /\ calls[g].pc # "moved"
      BY <1>1, <2>1 DEF Uncrossed, OnlyMovesRace, OneMoved
    <3>2. CASE calls[g].pc = "reschedule"
      <4>1. calls[g].etag # None /\ interview.etag # None /\ calls[g].etag <= interview.etag
        BY <2>1, <3>1, <3>2 DEF Uncrossed, ReadsHold, Racing
      <4>2. /\ calls[g].etag \in Nat /\ interview.etag \in Nat /\ c.etag \in Nat
        BY <1>2, <2>2, <4>1, EtagsTyped DEF CalendarInv, OptionalEtag
      <4>3. calls[g].etag <= c.etag /\ calls[g].etag # c.etag
        BY <2>2, <4>1, <4>2
      <4> QED
        BY <1>3, <1>4, <2>2, <3>2, <4>1, <4>3 DEF ReadsHold
    <3>3. CASE calls[g].pc # "reschedule"
      BY <1>4, <3>1, <3>3 DEF ReadsHold, Racing
    <3> QED
      BY <3>2, <3>3
  <2> QED
    BY <2>3, <2>4, <2>5, <2>6 DEF Uncrossed
<1> QED
  BY <1>5, <1>6, <1>7, <1>8 DEF CalendarInv

LEMMA CaptureKeeps ==
  ASSUME CalendarInv, NEW h \in Handlers, NEW found \in BOOLEAN, CaptureConflict(h, found)
  PROVE  CalendarInv'
<1> DEFINE conflict == [status |-> "unresolved", live |-> event.live,
                        etag |-> IF found THEN event.version ELSE None,
                        start |-> IF found THEN event.start ELSE None]
           n == Len(conflicts) + 1
<1>1. /\ calls[h].pc = "capture" /\ EndCall(h)
      /\ conflicts' = Append(conflicts, conflict)
      /\ event' = [event EXCEPT !.unseen = event.unseen /\ ~found]
      /\ interview' = interview /\ crossed' = crossed
  BY DEF CaptureConflict
<1>2. /\ conflict \in ConflictRecords
      /\ conflict.etag = event.version => conflict.start = event.start
      /\ conflict.etag # None => conflict.etag <= event.version
  BY NoneIsNoEtag
     DEF CalendarInv, CalendarTyped, ConflictRecords, OptionalStart, OptionalEtag
<1> HIDE DEF conflict
<1>3. /\ conflicts' \in Seq(ConflictRecords)
      /\ DOMAIN conflicts' = 1..n /\ DOMAIN conflicts = 1..(n - 1) /\ n \in Nat
      /\ \A i \in 1..(n - 1) : conflicts'[i] = conflicts[i]
      /\ conflicts'[n] = conflict
  BY <1>1, <1>2 DEF CalendarInv, CalendarTyped
<1>4. \A i \in DOMAIN conflicts' : \/ i \in DOMAIN conflicts /\ conflicts'[i] = conflicts[i]
                                   \/ conflicts'[i] = conflict
  <2> SUFFICES ASSUME NEW i \in 1..n
               PROVE  i \in 1..(n - 1) \/ i = n
    BY <1>3
  <2> QED
    BY <1>3
<1>5. /\ event' \in [version : Nat, start : OptionalStart, live : BOOLEAN, unseen : BOOLEAN]
      /\ event'.version = event.version /\ event'.start = event.start
  BY <1>1 DEF CalendarInv, CalendarTyped
<1>6. /\ calls' \in [Handlers -> CallRecords]
      /\ calls'[h].pc = "idle" /\ calls'[h].etag = None
      /\ \A g \in Handlers \ {h} : calls'[g] = calls[g]
  BY <1>1, CallEnds
<1>7. CalendarTyped'
  BY <1>1, <1>3, <1>5, <1>6 DEF CalendarInv, CalendarTyped
<1>8. EtagsKnown'
  <2>1. ASSUME NEW i \in DOMAIN conflicts', conflicts'[i].etag # None
        PROVE  conflicts'[i].etag <= event'.version
    BY <1>2, <1>4, <1>5, <2>1 DEF CalendarInv, EtagsKnown
  <2>2. ASSUME NEW g \in Handlers, calls'[g].etag # None
        PROVE  calls'[g].etag <= event'.version
    BY <1>5, <1>6, <2>2 DEF CalendarInv, EtagsKnown
  <2> QED
    BY <1>1, <1>5, <2>1, <2>2 DEF CalendarInv, EtagsKnown
<1>9. SnapshotsTrue'
  BY <1>2, <1>4, <1>5 DEF CalendarInv, SnapshotsTrue
<1>10. CallsGrounded'
  <2>1. interview.status # "none"
    BY <1>1 DEF CalendarInv, CallsGrounded
  <2>2. DOMAIN conflicts \subseteq DOMAIN conflicts'
    BY <1>3
  <2> QED
    BY <1>1, <1>6, <2>1, <2>2 DEF CalendarInv, CallsGrounded
<1>11. ASSUME ~crossed' PROVE Uncrossed'
  <2>1. Uncrossed
    BY <1>1, <1>11 DEF CalendarInv
  <2>2. OnlyMovesRace' /\ OneMoved' /\ Vouched'
    BY <1>1, <1>5, <1>6, <2>1 DEF Uncrossed, OnlyMovesRace, OneMoved, Racing, Vouched
  <2>3. ASSUME NEW g \in Handlers PROVE ReadsHold(calls[g])'
    BY <1>1, <1>5, <1>6, <2>1 DEF Uncrossed, ReadsHold
  <2> QED
    BY <2>2, <2>3 DEF Uncrossed
<1> QED
  BY <1>7, <1>8, <1>9, <1>10, <1>11 DEF CalendarInv

\* A resolution is stored.
LEMMA ResolvedKeeps ==
  ASSUME CalendarInv, NEW h \in Handlers, calls[h].conflict \in DOMAIN conflicts,
         NEW choice \in {"keep_google", "overwrite_vroom"}, Resolved(h, choice)
  PROVE  /\ conflicts' \in Seq(ConflictRecords)
         /\ DOMAIN conflicts' = DOMAIN conflicts
         /\ \A i \in DOMAIN conflicts : conflicts'[i].etag = conflicts[i].etag
                                        /\ conflicts'[i].start = conflicts[i].start
<1> DEFINE i == calls[h].conflict
           row == [conflicts[i] EXCEPT !.status = choice]
<1>1. conflicts' = [conflicts EXCEPT ![i] = row]
  BY DEF Resolved
<1>2. conflicts[i] \in ConflictRecords
  BY EtagsTyped DEF CalendarInv
<1>3. row \in ConflictRecords /\ row.etag = conflicts[i].etag /\ row.start = conflicts[i].start
  BY <1>2 DEF ConflictRecords
<1> HIDE DEF row
<1> QED
  BY <1>1, <1>3 DEF CalendarInv, CalendarTyped

\* A resolution writes the interview and is over: nobody was beside it.
LEMMA ResolutionKeeps ==
  ASSUME CalendarInv, NEW h \in Handlers, calls[h].pc \in {"keep", "overwritten"},
         NEW choice \in {"keep_google", "overwrite_vroom"}, Resolved(h, choice), EndCall(h),
         interview' \in [status : {"none", "scheduled", "cancelled"},
                         start : OptionalStart, etag : OptionalEtag],
         interview'.status = "none" => interview.status = "none",
         interview'.etag # None => interview'.etag <= event.version,
         Uncrossed => Vouched',
         event' = event, crossed' = crossed
  PROVE  CalendarInv'
<1>1. calls[h].conflict \in DOMAIN conflicts /\ interview.status # "none"
  BY DEF CalendarInv, CallsGrounded
<1>2. /\ conflicts' \in Seq(ConflictRecords)
      /\ DOMAIN conflicts' = DOMAIN conflicts
      /\ \A i \in DOMAIN conflicts : conflicts'[i].etag = conflicts[i].etag
                                     /\ conflicts'[i].start = conflicts[i].start
  BY <1>1, ResolvedKeeps
<1>3. /\ calls' \in [Handlers -> CallRecords]
      /\ calls'[h].pc = "idle" /\ calls'[h].etag = None
      /\ \A g \in Handlers \ {h} : calls'[g] = calls[g]
  BY CallEnds
<1>4. CalendarTyped'
  BY <1>2, <1>3 DEF CalendarInv, CalendarTyped
<1>5. EtagsKnown' /\ SnapshotsTrue'
  BY <1>2, <1>3 DEF CalendarInv, EtagsKnown, SnapshotsTrue
<1>6. CallsGrounded'
  BY <1>1, <1>2, <1>3 DEF CalendarInv, CallsGrounded
<1>7. ASSUME ~crossed' PROVE Uncrossed'
  <2>1. Uncrossed
    BY <1>7 DEF CalendarInv
  <2>2. \A g \in Handlers : calls'[g].pc = "idle"
    BY <1>3, <2>1 DEF Uncrossed, OnlyMovesRace, Racing
  <2> QED
    BY <2>1, <2>2 DEF Uncrossed, OnlyMovesRace, OneMoved, ReadsHold
<1> QED
  BY <1>4, <1>5, <1>6, <1>7 DEF CalendarInv

LEMMA KeepGoogleKeeps ==
  ASSUME CalendarInv, NEW h \in Handlers, KeepGoogle(h)
  PROVE  CalendarInv'
<1> DEFINE c == conflicts[calls[h].conflict]
           start == IF c.start = calls[h].had THEN interview.start ELSE c.start
           etag == IF c.etag = calls[h].vouched THEN interview.etag ELSE c.etag
           status == IF c.live THEN interview.status ELSE "cancelled"
<1>1. /\ calls[h].pc = "keep" /\ Resolved(h, "keep_google") /\ EndCall(h)
      /\ interview' = IF c.etag = None THEN interview
                      ELSE [start |-> start, etag |-> etag, status |-> status]
      /\ event' = event /\ crossed' = crossed
  BY DEF KeepGoogle
<1>2. calls[h].conflict \in DOMAIN conflicts
  BY <1>1 DEF CalendarInv, CallsGrounded
<1>3. /\ c.etag \in OptionalEtag /\ c.start \in OptionalStart
      /\ c.etag # None => c.etag <= event.version
      /\ c.etag = event.version => c.start = event.start
  BY <1>2, EtagsTyped DEF CalendarInv, EtagsKnown, SnapshotsTrue, ConflictRecords
<1>4. /\ interview.etag \in OptionalEtag /\ interview.start \in OptionalStart
      /\ interview.status \in {"none", "scheduled", "cancelled"}
      /\ interview.etag # None => interview.etag <= event.version
  BY DEF CalendarInv, CalendarTyped, EtagsKnown
<1>5. Uncrossed => (c.etag = None \/ (start = c.start /\ etag = c.etag))
  BY <1>1 DEF Uncrossed, ReadsHold
<1>6. /\ start \in OptionalStart /\ etag \in OptionalEtag
      /\ status \in {"none", "scheduled", "cancelled"}
      /\ status = "none" => interview.status = "none"
      /\ etag # None => etag <= event.version
  BY <1>3, <1>4
<1> HIDE DEF c, start, etag, status
<1>7. CASE c.etag = None
  <2>1. interview' = interview
    BY <1>1, <1>7
  <2>2. Uncrossed => Vouched'
    BY <1>1, <2>1 DEF Uncrossed, Vouched
  <2> QED
    BY <1>1, <1>4, <2>1, <2>2, ResolutionKeeps DEF CalendarInv, CalendarTyped
<1>8. CASE c.etag # None
  <2>1. interview' = [start |-> start, etag |-> etag, status |-> status]
    BY <1>1, <1>8
  <2>2. interview' \in [status : {"none", "scheduled", "cancelled"},
                        start : OptionalStart, etag : OptionalEtag]
    BY <1>6, <2>1
  <2>3. Uncrossed => Vouched'
    BY <1>1, <1>3, <1>5, <1>8, <2>1 DEF Vouched
  <2>4. /\ interview'.status = "none" => interview.status = "none"
        /\ interview'.etag # None => interview'.etag <= event.version
    BY <1>6, <2>1
  <2> QED
    BY <1>1, <2>2, <2>3, <2>4, ResolutionKeeps
<1> QED
  BY <1>7, <1>8

LEMMA CommitOverwriteKeeps ==
  ASSUME CalendarInv, NEW h \in Handlers, CommitOverwrite(h)
  PROVE  CalendarInv'
<1> DEFINE c == calls[h]
<1>1. /\ c.pc = "overwritten" /\ Resolved(h, "overwrite_vroom") /\ EndCall(h)
      /\ interview' = [interview EXCEPT !.etag = c.etag]
      /\ event' = event /\ crossed' = crossed
  BY DEF CommitOverwrite
<1>2. c.etag \in OptionalEtag /\ (c.etag # None => c.etag <= event.version)
  BY EtagsTyped DEF CalendarInv, EtagsKnown
<1>3. /\ interview' \in [status : {"none", "scheduled", "cancelled"},
                         start : OptionalStart, etag : OptionalEtag]
      /\ interview'.status = interview.status
      /\ interview'.start = interview.start /\ interview'.etag = c.etag
  BY <1>1, <1>2 DEF CalendarInv, CalendarTyped
<1>4. Uncrossed => Vouched'
  BY <1>1, <1>3 DEF Uncrossed, ReadsHold, Vouched
<1> QED
  BY <1>1, <1>2, <1>3, <1>4, ResolutionKeeps

LEMMA CalendarNextKeeps ==
  ASSUME CalendarInv, [CalendarNext]_calendarVars
  PROVE  CalendarInv'
<1>1. ASSUME NEW h \in Handlers, NEW s \in Starts, BeginMove(h, s) PROVE CalendarInv'
  <2> DEFINE call == [NoCall EXCEPT !.pc = "reschedule", !.start = s, !.etag = interview.etag]
  <2>1. /\ call \in CallRecords /\ call.pc = "reschedule" /\ call.etag = interview.etag
    BY EtagsTyped DEF CalendarInv, NoCall, CallRecords, OptionalStart, OptionalEtag
  <2>2. /\ interview.status = "scheduled" /\ LoadRow(h, call)
        /\ UNCHANGED <<event, interview, conflicts>>
    BY <1>1 DEF BeginMove
  <2> HIDE DEF call
  <2>3. call.etag # None => call.etag <= event.version
    BY <2>1 DEF CalendarInv, EtagsKnown
  <2> QED
    BY <2>1, <2>2, <2>3, LoadKeeps
<1>2. ASSUME NEW h \in Handlers, NEW i \in DOMAIN conflicts, BeginKeepGoogle(h, i)
      PROVE  CalendarInv'
  <2> DEFINE call == [NoCall EXCEPT !.pc = "keep", !.conflict = i]
  <2>1. i \in Nat /\ conflicts # << >>
    BY DEF CalendarInv, CalendarTyped
  <2>2. call \in CallRecords /\ call.pc = "keep" /\ call.etag = None /\ call.conflict = i
    BY <2>1 DEF NoCall, CallRecords, OptionalStart, OptionalEtag
  <2>3. /\ LoadRow(h, call) /\ UNCHANGED <<event, interview, conflicts>>
    BY <1>2 DEF BeginKeepGoogle
  <2>4. interview.status # "none"
    BY <2>1 DEF CalendarInv, CallsGrounded
  <2> HIDE DEF call
  <2> QED
    BY <2>2, <2>3, <2>4, LoadKeeps
<1>3. ASSUME NEW h \in Handlers, NEW i \in DOMAIN conflicts, BeginOverwrite(h, i)
      PROVE  CalendarInv'
  <2> DEFINE call == [NoCall EXCEPT !.pc = "overwrite", !.conflict = i,
                                    !.start = interview.start, !.etag = conflicts[i].etag]
  <2>1. /\ i \in Nat /\ conflicts # << >>
        /\ conflicts[i].etag \in OptionalEtag /\ interview.start \in OptionalStart
        /\ conflicts[i].etag # None => conflicts[i].etag <= event.version
    BY EtagsTyped DEF CalendarInv, CalendarTyped, EtagsKnown
  <2>2. /\ call \in CallRecords /\ call.pc = "overwrite" /\ call.conflict = i
        /\ call.start = interview.start /\ call.etag = conflicts[i].etag
    BY <2>1 DEF NoCall, CallRecords, OptionalStart, OptionalEtag
  <2>3. /\ LoadRow(h, call) /\ UNCHANGED <<event, interview, conflicts>>
    BY <1>3 DEF BeginOverwrite
  <2>4. interview.status # "none"
    BY <2>1 DEF CalendarInv, CallsGrounded
  <2> HIDE DEF call
  <2> QED
    BY <2>1, <2>2, <2>3, <2>4, LoadKeeps
<1>4. CASE UNCHANGED calendarVars
  BY <1>4 DEF calendarVars, CalendarInv, CalendarTyped, EtagsKnown, SnapshotsTrue, CallsGrounded,
              Uncrossed, OnlyMovesRace, OneMoved, Vouched, ReadsHold, Racing
<1> QED
  BY <1>1, <1>2, <1>3, <1>4, BookKeeps, EditKeeps, GivesUpKeeps, PatchKeeps, CommitMoveKeeps,
     CaptureKeeps, KeepGoogleKeeps, CommitOverwriteKeeps DEF CalendarNext, CalendarStep

THEOREM CalendarInductive == CalendarSpec => []CalendarInv
<1> QED
  BY CalendarStarts, CalendarNextKeeps, PTL DEF CalendarSpec

\* An interview whose etag is the event's shows the event's time, as long as no
\* resolution and no PATCH without an etag runs beside another call.
THEOREM EtagsVouch == CalendarSpec => []EtagVouches
<1>1. CalendarInv => EtagVouches
  BY DEF CalendarInv, Uncrossed, Vouched, EtagVouches
<1> QED
  BY <1>1, CalendarInductive, PTL

===============================================================================
